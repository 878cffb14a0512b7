-------------------------------- MODULE Ltn12 --------------------------------
(***************************************************************************)
(* pump.all(source.chain(src, f1, ...), sink.chain(f1, ..., snk)) of       *)
(* ltn12.lua: a pump that moves data from a source through two chains of   *)
(* filters to a sink.                                                      *)
(*                                                                         *)
(* The source, the filters and the sink are the program's.  A filter may   *)
(* hold data back and give it in pieces, and like those of                 *)
(* test/ltn12test.lua it raises an error when it is called as ltn012.md    *)
(* forbids; so does the sink.  A byte is represented by its position in    *)
(* the source, a chunk is a sequence of bytes, and a filter passes bytes   *)
(* on as they are, so that what reaches the sink can be compared with what *)
(* the source gave.                                                        *)
(***************************************************************************)
EXTENDS Naturals, Sequences, SequencesExt

CONSTANTS
    Size,           \* how many bytes the source has
    SourceFilters,  \* how many filters its chain has
    SinkFilters     \* how many the chain of the sink has

ASSUME SizeAssumption    == Size \in Nat
ASSUME FiltersAssumption == SourceFilters \in Nat \ {0} /\ SinkFilters \in Nat \ {0}

Chains == {"source", "sink"}
Length(c) == IF c = "source" THEN SourceFilters ELSE SinkFilters

nil   == <<0>>      \* no chunk: bytes are counted from 1
empty == <<>>       \* ""
IsData(s) == s \notin {nil, empty}

VARIABLES
    given,      \* how many bytes the source has given
    srcErr,     \* the source has returned nil and an error message
    filters,    \* of each chain and position: the data held, the last argument and result
    chains,     \* of each chain, the upvalues of filter.chain: top, index and retry
    feeder,     \* the upvalues of source.chain: state, last_in and last_out
    pc,         \* "pull" (in source.chain), "source" or "sink" (in that chain of filters),
                \* "filtered" (back in source.chain), "push" (entering sink.chain),
                \* "drain" (at the sink) or "done" (pump.all has returned or raised)
    chunk,      \* the chunk on its way
    done,       \* done of sink.chain: nil for the last chunk, "" for others
    stored, ended, refused,     \* the sink: its data, whether it was told the end, and
                                \* whether it refused a chunk: "no", "error" or "silent"
    result      \* of pump.all: "none" yet, "ok", "error" or "raised"

vars == <<given, srcErr, filters, chains, feeder, pc, chunk, done, stored, ended, refused, result>>
program == <<given, srcErr, stored, ended, refused>>

Init ==
    /\ given = 0 /\ srcErr = FALSE
    /\ filters = [c \in Chains |-> [i \in 1..Length(c) |->
                    [held |-> empty, last_in |-> empty, last_out |-> empty]]]
    /\ chains = [c \in Chains |-> [top |-> 1, index |-> 1, retry |-> empty]]
    /\ feeder = [state |-> "feeding", last_in |-> empty, last_out |-> empty]
    /\ pc = "pull" /\ chunk = empty /\ done = empty
    /\ stored = empty /\ ended = FALSE /\ refused = "no"
    /\ result = "none"

Raise == pc' = "done" /\ result' = "raised"

-----------------------------------------------------------------------------
\* A filter of the program.

\* More data, or the end, while it still has output; "" when it has none; anything after
\* its last result; anything but nil after the end.
Misused(f, arg) ==
    \/ f.last_out = nil
    \/ f.last_in = nil /\ arg # nil
    \/ arg = empty /\ f.last_out = empty
    \/ arg # empty /\ f.last_in # nil /\ f.last_out # empty

Pending(f, arg) == IF IsData(arg) THEN f.held \o arg ELSE f.held

\* Told the end, it gives what it holds in pieces and then nil.
Results(f, arg) ==
    LET pieces == {SubSeq(Pending(f, arg), 1, n) : n \in 0..Len(Pending(f, arg))} IN
    IF arg # nil THEN pieces
    ELSE IF f.held = empty THEN {nil} ELSE pieces \ {empty}

Called(f, arg, out) ==
    [held     |-> IF out = nil THEN empty
                  ELSE SubSeq(Pending(f, arg), Len(out) + 1, Len(Pending(f, arg))),
     last_in  |-> arg,
     last_out |-> out]

-----------------------------------------------------------------------------
\* filter.chain

\* A bug: it forgets the end, and asks with "" where it should ask with nil.
Enter_keeps_retry(c, arg) ==
    pc' = c /\ chunk' = arg /\ UNCHANGED chains

Enter(c, arg) ==
    /\ pc' = c /\ chunk' = arg
    /\ chains' = [chains EXCEPT ![c].retry = IF arg = nil THEN nil ELSE @]

Leave(c, out) ==
    /\ pc' = IF c = "source" THEN "filtered" ELSE "drain"
    /\ chunk' = out
    /\ UNCHANGED <<chains, result>>

GoTo(c, top, index, arg) ==
    /\ chains' = [chains EXCEPT ![c].top = top, ![c].index = index]
    /\ chunk' = arg
    /\ UNCHANGED <<pc, result>>

\* What the chain does with the result of the filter at index.
Answer(c, out) ==
    LET top   == chains[c].top
        index == chains[c].index
        n     == Length(c)
    IN
    \/ index = top /\ (out = empty \/ (out = nil /\ top = n)) /\ Leave(c, out)
    \/ index = n /\ IsData(out) /\ Leave(c, out)
    \/ index # n /\ IsData(out) /\ GoTo(c, top, index + 1, out)
    \/ index = top /\ top # n /\ out = nil /\ GoTo(c, top + 1, top + 1, nil)
    \/ /\ index # top /\ ~IsData(out)
       /\ IF out = empty THEN GoTo(c, top, index - 1, chains[c].retry)
          ELSE Raise /\ UNCHANGED <<chains, chunk>>

filter_chain(c) ==
    LET index == chains[c].index
        f     == filters[c][index]
        arg   == IF index # chains[c].top /\ chunk = nil THEN empty ELSE chunk
    IN
    /\ pc = c
    /\ IF Misused(f, arg)
       THEN Raise /\ UNCHANGED <<filters, chains, chunk>>
       ELSE \E out \in Results(f, arg) :
              /\ filters' = [filters EXCEPT ![c][index] = Called(f, arg, out)]
              /\ Answer(c, out)
    /\ UNCHANGED <<program, feeder, done>>

-----------------------------------------------------------------------------
\* source.chain

\* It returns a chunk, and pump.step passes it to the sink.
Give(out) == pc' = "push" /\ chunk' = out

Feeding == pc = "pull" /\ feeder.state = "feeding"

SourceGives ==
    /\ Feeding
    /\ \E n \in 1..(Size - given) :
         LET new == [i \in 1..n |-> given + i] IN
         /\ given' = given + n
         /\ feeder' = [feeder EXCEPT !.last_in = new]
         /\ Enter("source", new)
    /\ UNCHANGED <<srcErr, filters, done, stored, ended, refused, result>>

SourceEnds ==
    /\ Feeding /\ given = Size
    /\ feeder' = [feeder EXCEPT !.last_in = nil]
    /\ Enter("source", nil)
    /\ UNCHANGED <<program, filters, done, result>>

SourceFails ==
    /\ Feeding
    /\ srcErr' = TRUE
    /\ feeder' = [feeder EXCEPT !.last_in = nil]
    /\ Give(nil)
    /\ UNCHANGED <<given, filters, chains, done, stored, ended, refused, result>>

Eat ==
    /\ pc = "pull" /\ feeder.state = "eating"
    /\ Enter("source", feeder.last_in)
    /\ UNCHANGED <<program, filters, feeder, done, result>>

FilteredData ==
    /\ pc = "filtered" /\ IsData(chunk)
    /\ feeder' = [state    |-> "eating",
                  last_in  |-> IF IsData(feeder.last_in) THEN empty ELSE feeder.last_in,
                  last_out |-> chunk]
    /\ Give(chunk)
    /\ UNCHANGED <<program, filters, chains, done, result>>

\* A bug: it does not go back to the source.
FilteredNothing_eats ==
    /\ pc = "filtered" /\ chunk = empty
    /\ feeder' = [feeder EXCEPT !.last_out = empty]
    /\ pc' = "pull"
    /\ UNCHANGED <<program, filters, chains, chunk, done, result>>

\* Back to the source, unless the filters were told the end.
FilteredNothing ==
    /\ pc = "filtered" /\ chunk = empty
    /\ feeder' = [feeder EXCEPT !.state = "feeding", !.last_out = empty]
    /\ IF feeder.state = "eating" /\ feeder.last_in # empty THEN Raise
       ELSE pc' = "pull" /\ UNCHANGED result
    /\ UNCHANGED <<program, filters, chains, chunk, done>>

FilteredEnd ==
    /\ pc = "filtered" /\ chunk = nil
    /\ feeder' = [feeder EXCEPT !.last_out = nil]
    /\ IF feeder.last_in # nil THEN Raise /\ UNCHANGED chunk
       ELSE Give(nil) /\ UNCHANGED result
    /\ UNCHANGED <<program, filters, chains, done>>

source_chain ==
    \/ SourceGives \/ SourceEnds \/ SourceFails \/ Eat
    \/ FilteredData \/ FilteredNothing \/ FilteredEnd

-----------------------------------------------------------------------------
\* sink.chain, pump.step and pump.all

\* sink.chain returned ret to pump.step, for a chunk that was the last if done is nil.
Pumped(ret, err) ==
    IF ret /\ done # nil
    THEN /\ IF feeder.last_out = nil THEN Raise ELSE pc' = "pull" /\ UNCHANGED result
    ELSE pc' = "done" /\ result' = IF err THEN "error" ELSE "ok"

\* source.chain never returns "", which sink.chain would ignore.
Push ==
    /\ pc = "push" /\ chunk # empty
    /\ done' = IF chunk = nil THEN nil ELSE empty
    /\ Enter("sink", chunk)
    /\ UNCHANGED <<program, filters, feeder, result>>

\* A bug: sink.chain asks its filter once for each chunk.
SinkAccepts_once ==
    /\ pc = "drain" /\ ~ended /\ refused = "no"
    /\ stored' = IF IsData(chunk) THEN stored \o chunk ELSE stored
    /\ ended' = (chunk = nil)
    /\ Pumped(TRUE, srcErr)
    /\ UNCHANGED <<given, srcErr, refused, filters, chains, feeder, chunk, done>>

SinkAccepts ==
    /\ pc = "drain"
    /\ IF ended \/ refused # "no"
       THEN Raise /\ UNCHANGED <<stored, ended, chains, chunk>>
       ELSE /\ stored' = IF IsData(chunk) THEN stored \o chunk ELSE stored
            /\ ended' = (chunk = nil)
            /\ IF chunk = done THEN Pumped(TRUE, srcErr) /\ UNCHANGED <<chains, chunk>>
               ELSE Enter("sink", done) /\ UNCHANGED result
    /\ UNCHANGED <<given, srcErr, refused, filters, feeder, done>>

\* With or without an error message.
SinkRefuses ==
    /\ pc = "drain" /\ ~ended /\ refused = "no"
    /\ \E how \in {"error", "silent"} :
         /\ refused' = how
         /\ Pumped(FALSE, srcErr \/ how = "error")
    /\ UNCHANGED <<given, srcErr, stored, ended, filters, chains, feeder, chunk, done>>

sink_chain == Push \/ SinkAccepts \/ SinkRefuses

-----------------------------------------------------------------------------
Next == source_chain \/ sink_chain \/ \E c \in Chains : filter_chain(c)

Spec == Init /\ [][Next]_vars

\* One thread, and the source, the filters and the sink return.
FairSpec == Spec /\ WF_vars(Next)

-----------------------------------------------------------------------------
\* Properties

\* The chains never call a filter or the sink as the protocol forbids, nor find that
\* one of their filters broke it: every filter is emptied before it is given more, and
\* emptied after the end before the next one is told the end.
NeverRaises == result # "raised"

Whole == [i \in 1..Size |-> i]

\* The sink gets the bytes of the source in their order, none twice.  When pump.all
\* succeeds with a sink that refused nothing it has got all, every filter gave all it
\* held, and it was told the end; when pump.all fails, the source or the sink had said so.
Delivered ==
    /\ IsPrefix(stored, Whole)
    /\ (result = "ok" /\ refused = "no") =>
         /\ stored = Whole /\ ended
         /\ \A c \in Chains : \A i \in 1..Length(c) : filters[c][i].last_out = nil
    /\ (result = "error" /\ refused = "no") => (srcErr /\ ended)

\* pump.all returns, however the filters hold and cut the data.
Ends == <>(result \in {"ok", "error"})

=============================================================================
