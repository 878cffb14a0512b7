----------------------------- MODULE ByteStream -----------------------------
(***************************************************************************)
(* What client:receive promises about the bytes of a connection, without   *)
(* buffers, system calls or time: the peer's bytes are a sequence, a call  *)
(* takes the bytes that follow the ones taken before, and a call that      *)
(* fails says which bytes it took, so that passing them back as the prefix *)
(* of the next call loses nothing.                                         *)
(*                                                                         *)
(* A byte is represented by its position in input: a reply is a sequence   *)
(* of positions, so that losing, repeating or swapping bytes shows.        *)
(***************************************************************************)
EXTENDS Integers, Sequences

CONSTANTS
    Inputs,   \* what the peer may write: sequences over {"ch", "cr", "lf"}
    Wanted    \* the numbers receive(number) is called with

VARIABLES
    input,    \* what the peer writes
    end,      \* where the stream ends, once that is known
    mark,     \* how many bytes the calls that returned have taken
    busy,     \* a call is in progress
    pat,      \* its pattern: "l", "a" or "n"
    wanted,   \* the number, for pattern "n"
    chain,    \* bytes taken before the first call of this chain of resumed calls
    reply,    \* the bytes the last call returned, as its result or partial result
    err       \* its error, "done" if it succeeded

vars == <<input, end, mark, busy, pat, wanted, chain, reply, err>>

Unknown == -1
Errors  == {"timeout", "closed", "error"}

\* Line mode drops every CR and the LF; the other patterns keep every byte.
Keep(p, q) == p = "l" => input[q] = "ch"

Kept(p, from, to) == {q \in from+1..to : Keep(p, q)}

\* The sequence s holds the numbers of S, each once and in order.
Lists(s, S) ==
    /\ S = {s[i] : i \in 1..Len(s)}
    /\ \A i, j \in 1..Len(s) : i < j => s[i] < s[j]

NoLineIn(from, to) == \A q \in from+1..to : input[q] # "lf"

Limit == IF end = Unknown THEN Len(input) ELSE end

Init ==
    /\ input \in Inputs
    /\ end = Unknown
    /\ mark = 0 /\ chain = 0
    /\ busy = FALSE
    /\ pat = "n" /\ wanted = 0
    /\ reply = <<>> /\ err = "done"

\* The peer, the network or a local close cuts the stream.
End(e) ==
    /\ e \in mark..Limit
    /\ end' = e
    /\ UNCHANGED <<input, mark, busy, pat, wanted, chain, reply, err>>

\* A call; a resumed one is given the partial result of the failed call before
\* it as its prefix.
Call(p, n, resume) ==
    /\ ~busy
    /\ resume => err # "done" /\ p = pat
    /\ chain' = IF resume THEN chain ELSE mark
    /\ busy' = TRUE
    /\ pat' = p /\ wanted' = n
    /\ reply' = <<>> /\ err' = "none"
    /\ UNCHANGED <<input, end, mark>>

\* A prefix that already holds the number of bytes asked for is the result.
Satisfied(n) ==
    /\ ~busy
    /\ err # "done" /\ pat = "n"
    /\ mark > chain /\ n <= mark - chain
    /\ wanted' = n /\ err' = "done"
    /\ UNCHANGED <<input, end, mark, busy, pat, chain, reply>>

Return(e, x) ==
    /\ busy
    /\ busy' = FALSE
    /\ mark' = e
    /\ Lists(reply', Kept(pat, chain, e))
    /\ err' = x
    /\ UNCHANGED <<input, end, pat, wanted, chain>>

\* The result is exactly the line, the number of bytes or the rest asked for.
ReturnResult(e) ==
    /\ CASE pat = "l" -> e > mark /\ input[e] = "lf" /\ NoLineIn(chain, e - 1)
         [] pat = "n" -> e = chain + wanted
         [] pat = "a" -> e > mark /\ e = end
    /\ Return(e, "done")

\* A failed call took bytes that do not complete what was asked for.
ReturnPartial(e, x) ==
    /\ pat = "l" => NoLineIn(chain, e)
    /\ pat = "n" => e - chain < wanted \/ (wanted = 0 /\ e = mark)
    /\ x = "closed" => e = end
    /\ pat = "a" /\ x = "closed" => e = mark
    /\ Return(e, x)

Next ==
    \/ \E e \in 0..Len(input) : End(e)
    \/ \E p \in {"l", "a"}, resume \in BOOLEAN : Call(p, 0, resume)
    \/ \E n \in Wanted, resume \in BOOLEAN : Call("n", n, resume)
    \/ \E n \in Wanted : Satisfied(n)
    \/ \E e \in mark..Limit : ReturnResult(e)
    \/ \E e \in mark..Limit, x \in Errors : ReturnPartial(e, x)

Spec == Init /\ [][Next]_vars
=============================================================================
