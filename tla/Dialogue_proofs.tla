--------------------------- MODULE Dialogue_proofs ---------------------------
(***************************************************************************)
(* What holds of every dialogue, whatever the scripts, the server and the  *)
(* faults: theorems about Dialogue.                                        *)
(*                                                                         *)
(* The argument.  A script is a path through places: where a call stands   *)
(* between two of its steps, for instance that the answer to a command is  *)
(* awaited.  At each place there is an invariant of what is on the way     *)
(* between client and server, of the file and of the message.  Every       *)
(* script of smtp.lua and ftp.lua is shown to be such a path, whatever the *)
(* number of its recipients, modes or commands; then every step of the     *)
(* client leads along its path, and every step of the server leaves the    *)
(* call at its place.                                                      *)
(***************************************************************************)
EXTENDS Dialogue, SequenceTheorems, WellFoundedInduction, TLAPS

-----------------------------------------------------------------------------
\* Induction without an operator as a parameter: the property to prove is given as the
\* set of the numbers that have it.

\* A set with 0, and with the successor of each of its members, has every natural number.
LEMMA Inductive ==
    ASSUME NEW T, 0 \in T, \A n \in Nat : n \in T => n + 1 \in T
    PROVE  Nat \subseteq T
<1> DEFINE LessThan == {pair \in Nat \X Nat : pair[1] < pair[2]}
<1>1. IsWellFoundedOn(LessThan, Nat)
  BY NatLessThanWellFounded DEF OpToRel
<1>2. SUFFICES ASSUME Nat \ T # {} PROVE FALSE
  OBVIOUS
<1>3. PICK n \in Nat \ T : \A m \in Nat \ T : <<m, n>> \notin LessThan
  BY <1>1, <1>2, WFMin
<1>4. n - 1 \in Nat /\ (n - 1) + 1 = n
  BY <1>3
<1>5. <<n - 1, n>> \in LessThan
  BY <1>4
<1>6. n - 1 \in T
  BY <1>3, <1>4, <1>5
<1>7. QED BY <1>3, <1>4, <1>6

\* f goes from b step by step.
Follows(f, b, N, step) == f[0] = b /\ \A i \in 1..N : f[i] = step[i][f[i-1]]

\* A function on 0..N may be defined by its first value and by the step from one
\* value to the next.
LEMMA Recursion ==
    ASSUME NEW S, NEW b \in S, NEW N \in Nat, NEW step \in [1..N -> [S -> S]]
    PROVE  \E f \in [0..N -> S] : Follows(f, b, N, step)
<1> DEFINE Is(f, k) == f[0] = b /\ \A i \in 1..k : f[i] = step[i][f[i-1]]
           T == {k \in Nat : k <= N => \E f \in [0..k -> S] : Is(f, k)}
<1>1. 0 \in T
  <2>1. [i \in 0..0 |-> b] \in [0..0 -> S] /\ Is([i \in 0..0 |-> b], 0)
    OBVIOUS
  <2>2. QED BY <2>1
<1>2. ASSUME NEW k \in Nat, k \in T PROVE k + 1 \in T
  <2>1. SUFFICES ASSUME k + 1 <= N PROVE \E f \in [0..(k+1) -> S] : Is(f, k + 1)
    OBVIOUS
  <2>2. k <= N
    BY <2>1
  <2>3. PICK f \in [0..k -> S] : Is(f, k)
    BY <1>2, <2>2
  <2> DEFINE g == [i \in 0..(k+1) |-> IF i = k + 1 THEN step[k+1][f[k]] ELSE f[i]]
  <2>4. g \in [0..(k+1) -> S]
    <3>1. k \in 0..k /\ k + 1 \in 1..N
      BY <2>1
    <3>2. f[k] \in S
      BY <2>3, <3>1
    <3>3. step[k+1][f[k]] \in S
      BY <3>1, <3>2
    <3>4. ASSUME NEW i \in 0..(k+1), i # k + 1 PROVE f[i] \in S
      <4>1. i \in 0..k
        BY <3>4
      <4>2. QED BY <4>1, <2>3
    <3>5. QED BY <3>3, <3>4
  <2>5. Is(g, k + 1)
    <3>1. g[0] = b
      BY <2>3
    <3>2. ASSUME NEW i \in 1..(k+1) PROVE g[i] = step[i][g[i-1]]
      <4>1. g[i-1] = f[i-1]
        BY <3>2
      <4>2. CASE i = k + 1
        <5>1. i - 1 = k
          BY <4>2
        <5>2. g[i] = step[k+1][f[k]]
          BY <4>2
        <5>3. QED BY <4>1, <4>2, <5>1, <5>2
      <4>3. CASE i # k + 1
        <5>1. i \in 1..k /\ g[i] = f[i]
          BY <4>3
        <5>2. f[i] = step[i][f[i-1]]
          BY <5>1, <2>3
        <5>3. QED BY <4>1, <5>1, <5>2
      <4>4. QED BY <4>2, <4>3
    <3>3. QED BY <3>1, <3>2
  <2> HIDE DEF g, Is
  <2>6. QED BY <2>4, <2>5
<1>3. Nat \subseteq T
  <2> HIDE DEF T
  <2>1. QED BY <1>1, <1>2, Inductive
<1>4. N \in T /\ N <= N
  BY <1>3
<1>5. QED BY <1>4 DEF Follows


-----------------------------------------------------------------------------
\* Where a call stands between two steps of its script: the place, the command that was
\* sent or whose outcome is awaited, how much of the work is done (the recipients a
\* message has, and one more when it is accepted; 1 for a file; for a command that is
\* not checked the replies owed), and whether the data connection is already made.

Place(at, of, did, made) == [at |-> at, of |-> of, did |-> did, made |-> made]
Points == {"start", "greet", "talk", "await", "message", "dot", "more", "flow", "moved", "last",
           "sink", "bye", "loose", "end"}
Commands == {"EHLO", "AUTH", "username", "password", "MAIL", "RCPT", "DATA", ".", "QUIT",
             "user", "pass", "type", "epsv", "pasv", "port", "eprt", "stor", "retr", "other"}
Places == [at : Points, of : Commands \cup {None, "greet"}, did : Nat, made : BOOLEAN]
Talk(did, made) == Place("talk", None, did, made)

\* A call that leaves a reply to the next check.
Loosely(j) == j.api = "command" /\ FALSE \in ToSet(j.checks)

\* How much is done when all is.
Complete(j) == IF j.api = "send" THEN j.rcpts + 1 ELSE 1

\* What a check takes for an answer, and what it takes for a failure.
Accepts(ok, codes) == \A c \in codes : Matches(c, ok)
\* No refusal and no sign of a loss passes for what a check expects.
Refuses(ok) == \A c \in {421, 426, 500, 554} : ~Matches(c, ok)

\* The commands that may come next at a place.
Due(j, s, c) ==
    /\ c \notin {".", "block"}
    /\ c = "RCPT" => j.api = "send" /\ s.did < j.rcpts
    /\ c = "DATA" => j.api = "send" /\ s.did = j.rcpts
    /\ c = "stor" => j.api = "put" /\ s.did = 0 /\ s.made = Passive(j)
    /\ c = "retr" => j.api = "get" /\ s.did = 0 /\ s.made = Passive(j)
    /\ c = "QUIT" => j.api = "command" \/ s.did = Complete(j)
    /\ c = "other" => ~Loosely(j)

\* Where the answer to a command leads.
Answered(s) ==
    CASE s.of = "DATA" -> Place("message", None, s.did, FALSE)
      [] s.of = "stor" -> Place("flow", "stor", s.did, s.made)
      [] s.of = "retr" -> Place("more", "retr", s.did, s.made)
      [] s.of = "QUIT" -> Place("bye", None, s.did, FALSE)
      [] s.of \in {"RCPT", "."} -> Talk(s.did + 1, FALSE)
      [] OTHER -> Talk(s.did, s.made)

\* Where the last reply to a transfer, or to the greeting, leads.
Finished(s) == IF s.of = "greet" THEN Talk(s.did, FALSE) ELSE Talk(1, FALSE)

\* The three conditional steps.
LastReply == [op |-> "if", ok |-> {1}, yes |-> Check({2}), no |-> <<>>]
Pass == [op |-> "if", ok |-> {331}, yes |-> Command("pass") \o Check({2}), no |-> <<>>]
Fetch(j) == [op |-> "if", ok |-> {2}, yes |-> Do("sink_reply"),
             no |-> DataAfter(j) \o Do("download") \o If({1}, Check({2}), <<>>)
                                 \o Do("close_data")]

\* A command leads from s to t.
CommandStep(j, s, o, t) ==
    \/ s.at = "talk" /\ Due(j, s, o.name) /\ t = Place("await", o.name, s.did, s.made)
    \/ s.at = "dot" /\ o.name = "." /\ t = Place("await", ".", s.did, FALSE)
    \/ /\ Loosely(j) /\ o.name \in {"other", "QUIT"}
       /\ \/ s.at = "loose" /\ s.of = "other"
          \/ s.at = "talk" /\ s.did = 0 /\ o.name = "other"
       /\ t = Place("loose", o.name, s.did + 1, FALSE)

\* A check leads from s to t, when it gets a reply it accepts.
CheckStep(j, s, o, t) ==
    /\ Refuses(o.ok)
    /\ \/ s.at = "greet" /\ j.api = "send" /\ Accepts(o.ok, {220}) /\ t = Talk(s.did, FALSE)
       \/ /\ s.at = "greet" /\ j.api # "send" /\ Accepts(o.ok, {120, 220})
          /\ t = Place("moved", "greet", s.did, FALSE)
       \/ /\ s.at = "await" /\ Accepts(o.ok, Codes(j, s.of)) /\ (s.of = "." => Accepts(o.ok, {250}))
          /\ t = Answered(s)
       \/ s.at = "last" /\ Accepts(o.ok, {220, 226}) /\ t = Finished(s)
       \/ /\ s.at = "loose" /\ s.did > 0
          /\ Accepts(o.ok, {200}) /\ (s.of = "QUIT" => Accepts(o.ok, {221}))
          /\ t = Place("loose", s.of, s.did - 1, FALSE)

\* Any other call of a script leads from s to t.
OtherStep(j, s, o, t) ==
    \/ o.op = "open" /\ s.at = "start" /\ t = Place("greet", None, s.did, FALSE)
    \/ o = LastReply /\ s.at = "moved" /\ t = Finished(s)
    \/ o = Pass /\ s.at = "talk" /\ s.of = None /\ t = s
    \/ s.at = "more" /\ j.api = "get" /\ o = Fetch(j) /\ t = Finished(s)
    \/ o.op = "source" /\ s.at = "message" /\ t = Place("dot", None, s.did, FALSE)
    \/ /\ o.op = "connect" /\ s.at = "talk" /\ s.did = 0 /\ j.api \in {"get", "put"} /\ Passive(j)
       /\ t = Talk(0, TRUE)
    \/ o.op = "accept" /\ s.at = "flow" /\ ~Passive(j) /\ t = Place("flow", s.of, s.did, TRUE)
    \/ o.op = "upload" /\ s.at = "flow" /\ s.of = "stor" /\ s.made /\ t = Place("moved", "stor", s.did, FALSE)
    \/ o.op = "download" /\ s.at = "flow" /\ s.of = "retr" /\ t = Place("moved", "retr", s.did, FALSE)
    \/ o.op = "sink_reply" /\ s.at = "sink" /\ t = Finished(s)
    \/ o.op \in {"listen", "passive"} /\ s.at = "talk" /\ t = s
    \/ o.op = "close_data" /\ s.at = "talk" /\ s.did = 1 /\ ~s.made /\ t = s
    \/ o.op = "fail" /\ s.at = "talk" /\ j.api = "send" /\ j.user /\ j.ext = None /\ t = s
    \/ o.op = "close" /\ s.at \in {"bye", "loose"} /\ t = Place("end", None, s.did, FALSE)

\* The step o of a script leads a call j from s to t.
Step(j, s, o, t) ==
    \/ o.op = "command" /\ CommandStep(j, s, o, t)
    \/ o.op = "check" /\ CheckStep(j, s, o, t)
    \/ o.op \notin {"command", "check"} /\ OtherStep(j, s, o, t)

\* The steps of the scripts of a call j.
Words == {"open", "source", "connect", "accept", "upload", "download", "sink_reply", "listen",
          "passive", "close_data", "fail", "close"}
Ops(j) ==
    [op : Words] \cup [op : {"command"}, name : Commands] \cup [op : {"check"}, ok : SUBSET Nat]
        \cup {LastReply, Pass, Fetch(j)}

\* The script x leads from s to t, through the places l.
Through(j, x, l) == \A i \in 1..Len(x) : Step(j, l[i], x[i], l[i+1])
Path(j, x, s, t) ==
    /\ x \in Seq(Ops(j))
    /\ \E l \in [1..Len(x)+1 -> Places] : l[1] = s /\ l[Len(x)+1] = t /\ Through(j, x, l)

-----------------------------------------------------------------------------
\* Paths.

\* A script with nothing in it leads nowhere.
LEMMA PathNone ==
    ASSUME NEW j, NEW s \in Places
    PROVE  Path(j, <<>>, s, s)
<1> DEFINE l == [i \in 1..1 |-> s]
<1>1. l \in [1..1 -> Places] /\ l[1] = s
  OBVIOUS
<1>2. Len(<<>>) = 0 /\ <<>> \in Seq(Ops(j))
  OBVIOUS
<1>3. Through(j, <<>>, l)
  BY <1>2 DEF Through
<1> HIDE DEF l
<1>4. QED BY <1>1, <1>2, <1>3 DEF Path

\* A script of one step leads where the step does.
LEMMA PathOne ==
    ASSUME NEW j, NEW s \in Places, NEW t \in Places, NEW o \in Ops(j), Step(j, s, o, t)
    PROVE  Path(j, <<o>>, s, t)
<1> DEFINE l == [i \in 1..2 |-> IF i = 1 THEN s ELSE t]
<1>1. l \in [1..2 -> Places] /\ l[1] = s /\ l[2] = t
  OBVIOUS
<1>2. Len(<<o>>) = 1 /\ <<o>> \in Seq(Ops(j)) /\ <<o>>[1] = o
  OBVIOUS
<1> HIDE DEF l
<1>3. Through(j, <<o>>, l)
  BY <1>1, <1>2 DEF Through
<1>4. QED BY <1>1, <1>2, <1>3 DEF Path

\* A path begins and ends at places, and its script is one of the call.
LEMMA PathEnds ==
    ASSUME NEW j, NEW x, NEW s, NEW t, Path(j, x, s, t)
    PROVE  s \in Places /\ t \in Places /\ x \in Seq(Ops(j))
<1>1. PICK l \in [1..Len(x)+1 -> Places] : l[1] = s /\ l[Len(x)+1] = t
  BY DEF Path
<1>2. Len(x) \in Nat
  BY DEF Path
<1>3. QED BY <1>1, <1>2 DEF Path

\* A path may be followed by another.
LEMMA PathJoin ==
    ASSUME NEW j, NEW x, NEW y, NEW s, NEW t, NEW u, Path(j, x, s, t), Path(j, y, t, u)
    PROVE  Path(j, x \o y, s, u)
<1> DEFINE m == Len(x)
           n == Len(y)
<1>1. x \in Seq(Ops(j)) /\ y \in Seq(Ops(j)) /\ m \in Nat /\ n \in Nat
  BY DEF Path
<1>2. PICK k \in [1..m+1 -> Places] : k[1] = s /\ k[m+1] = t /\ Through(j, x, k)
  BY DEF Path
<1>3. PICK l \in [1..n+1 -> Places] : l[1] = t /\ l[n+1] = u /\ Through(j, y, l)
  BY DEF Path
<1>4. x \o y \in Seq(Ops(j)) /\ Len(x \o y) = m + n
  BY <1>1
<1>5. \A i \in 1..m+n : (x \o y)[i] = IF i <= m THEN x[i] ELSE y[i - m]
  BY <1>1
<1> HIDE DEF m, n
<1> DEFINE h == [i \in 1..m+n+1 |-> IF i <= m THEN k[i] ELSE l[i - m]]
<1>6. h \in [1..m+n+1 -> Places]
  BY <1>1
<1>7. h[1] = s /\ h[m+n+1] = u
  BY <1>1, <1>2, <1>3
<1>8. ASSUME NEW i \in 1..m+n PROVE Step(j, h[i], (x \o y)[i], h[i+1])
  <2>1. CASE i <= m
    <3>a. i \in 1..m
      BY <2>1, <1>1
    <3>b. (x \o y)[i] = x[i]
      BY <2>1, <1>5
    <3>1. i \in 1..m /\ (x \o y)[i] = x[i]
      BY <3>a, <3>b
    <3>h. h[i] = k[i]
      BY <2>1, <1>1
    <3>2. h[i+1] = k[i+1]
      <4>1. i + 1 \in 1..m+n+1
        BY <1>1
      <4>2. CASE i + 1 <= m
        BY <4>1, <4>2
      <4>3. CASE ~(i + 1 <= m)
        <5>1. i = m /\ (i + 1) - m = 1
          BY <4>3, <2>1, <1>1
        <5>2. h[i+1] = l[(i+1) - m]
          BY <4>1, <4>3
        <5>3. QED BY <5>1, <5>2, <1>2, <1>3
      <4>4. QED BY <4>2, <4>3
    <3>3. Step(j, k[i], x[i], k[i+1])
      BY <3>1, <1>2 DEF Through, m
    <3>4. QED BY <3>1, <3>h, <3>2, <3>3
  <2>2. CASE ~(i <= m)
    <3>a. i - m \in 1..n /\ ~(i + 1 <= m) /\ (i + 1) - m = (i - m) + 1
      BY <2>2, <1>1
    <3>b. (x \o y)[i] = y[i-m]
      BY <2>2, <1>5
    <3>c. i \in 1..m+n+1 /\ i + 1 \in 1..m+n+1
      BY <1>1
    <3>d. h[i] = l[i-m] /\ h[i+1] = l[(i+1)-m]
      BY <2>2, <3>a, <3>c
    <3>1. i - m \in 1..n /\ h[i] = l[i-m] /\ (x \o y)[i] = y[i-m] /\ h[i+1] = l[(i-m)+1]
      BY <3>a, <3>b, <3>d
    <3>2. Step(j, l[i-m], y[i-m], l[(i-m)+1])
      BY <3>1, <1>3 DEF Through, n
    <3>3. QED BY <3>1, <3>2
  <2>3. QED BY <2>1, <2>2
<1> HIDE DEF h
<1>9. Through(j, x \o y, h)
  BY <1>4, <1>8 DEF Through
<1>10. QED BY <1>4, <1>6, <1>7, <1>9 DEF Path

\* A script that is not at its end begins with a step of its path.
LEMMA PathFirst ==
    ASSUME NEW j, NEW x, NEW s, NEW u, Path(j, x, s, u), x # <<>>
    PROVE  \E t \in Places : Step(j, s, Head(x), t) /\ Path(j, Tail(x), t, u)
<1> DEFINE n == Len(x)
<1>1. x \in Seq(Ops(j)) /\ n \in Nat /\ n > 0
  BY DEF Path
<1>2. PICK l \in [1..n+1 -> Places] : l[1] = s /\ l[n+1] = u /\ Through(j, x, l)
  BY DEF Path
<1>3. Tail(x) \in Seq(Ops(j)) /\ Len(Tail(x)) = n - 1 /\ \A i \in 1..n-1 : Tail(x)[i] = x[i+1]
  BY <1>1
<1>4. Head(x) = x[1]
  BY <1>1
<1>t. \A i \in 1..n : Step(j, l[i], x[i], l[i+1])
  BY <1>2 DEF Through
<1> HIDE DEF n
<1> DEFINE k == [i \in 1..(n-1)+1 |-> l[i+1]]
<1>5. k \in [1..(n-1)+1 -> Places] /\ k[1] = l[2] /\ k[(n-1)+1] = u /\ l[2] \in Places
  BY <1>1, <1>2
<1>6. ASSUME NEW i \in 1..n-1 PROVE Step(j, k[i], Tail(x)[i], k[i+1])
  <2>1. k[i] = l[i+1] /\ k[i+1] = l[(i+1)+1] /\ Tail(x)[i] = x[i+1] /\ i + 1 \in 1..n
    BY <1>1, <1>3
  <2>2. QED BY <2>1, <1>t
<1>7. Step(j, s, x[1], l[2])
  <2>1. 1 \in 1..n /\ 1 + 1 = 2
    BY <1>1
  <2>2. QED BY <2>1, <1>2, <1>t
<1> HIDE DEF k
<1>8. Through(j, Tail(x), k)
  BY <1>3, <1>6 DEF Through
<1>9. Path(j, Tail(x), l[2], u)
  BY <1>3, <1>5, <1>8 DEF Path
<1>10. QED BY <1>4, <1>5, <1>7, <1>9

-----------------------------------------------------------------------------
\* What FlattenSeq of the community modules is: the sequences joined one by one.

\* What is joined is a sequence, built by joining one part after the other.
LEMMA FlattenSteps ==
    ASSUME NEW T, NEW xs \in Seq(Seq(T)), xs # <<>>
    PROVE  \E f \in [1..Len(xs) -> Seq(T)] :
              /\ f[1] = xs[1] /\ \A i \in 2..Len(xs) : f[i] = f[i-1] \o xs[i]
              /\ FlattenSeq(xs) = f[Len(xs)]
<1> DEFINE n == Len(xs)
           step == [i \in 1..n |-> [x \in Seq(T) |-> IF i = 1 THEN xs[1] ELSE x \o xs[i]]]
           Flat(f) == f = [i \in 1..n |-> IF i = 1 THEN xs[i] ELSE f[i-1] \o xs[i]]
<1>1. n \in Nat /\ n > 0 /\ \A i \in 1..n : xs[i] \in Seq(T)
  OBVIOUS
<1>2. step \in [1..n -> [Seq(T) -> Seq(T)]]
  <2>1. ASSUME NEW i \in 1..n, NEW x \in Seq(T)
        PROVE (IF i = 1 THEN xs[1] ELSE x \o xs[i]) \in Seq(T)
    BY <1>1
  <2>2. QED BY <2>1
<1>3. \E f \in [0..n -> Seq(T)] : Follows(f, <<>>, n, step)
  <2>1. <<>> \in Seq(T)
    OBVIOUS
  <2> HIDE DEF step
  <2>2. QED BY <1>1, <1>2, <2>1, Recursion
<1>4. PICK g \in [0..n -> Seq(T)] : Follows(g, <<>>, n, step)
  BY <1>3
<1> DEFINE h == [i \in 1..n |-> g[i]]
<1>5. ASSUME NEW i \in 1..n PROVE g[i] = IF i = 1 THEN xs[i] ELSE g[i-1] \o xs[i]
  <2>1. g[i] = step[i][g[i-1]]
    BY <1>4, <1>5 DEF Follows
  <2>2. i - 1 \in 0..n
    BY <1>1
  <2>3. g[i-1] \in Seq(T)
    BY <2>2
  <2>4. QED BY <2>1, <2>3
<1>6. Flat(h)
  <2>1. ASSUME NEW i \in 1..n PROVE h[i] = IF i = 1 THEN xs[i] ELSE h[i-1] \o xs[i]
    <3>1. CASE i = 1
      BY <1>5, <3>1
    <3>2. CASE i # 1
      <4>1. i - 1 \in 1..n
        BY <3>2, <1>1
      <4>2. h[i-1] = g[i-1] /\ h[i] = g[i]
        BY <4>1
      <4>3. QED BY <4>2, <1>5, <3>2
    <3>3. QED BY <3>1, <3>2
  <2>2. QED BY <2>1
<1> DEFINE k == CHOOSE f : Flat(f)
<1>7. Flat(k)
  BY <1>6
<1>8. FlattenSeq(xs) = k[n]
  BY <1>1 DEF FlattenSeq
<1>k. /\ \A i \in 1..n : k[i] = IF i = 1 THEN xs[i] ELSE k[i-1] \o xs[i]
      /\ k = [i \in 1..n |-> k[i]]
  <2> HIDE DEF k
  <2>1. QED BY ONLY <1>7
<1> HIDE DEF k, Flat, h, step
<1> DEFINE M == {i \in Nat : i + 1 <= n => k[i+1] \in Seq(T)}
<1>9. 0 \in M
  <2>1. 1 \in 1..n
    BY <1>1
  <2>2. k[1] = xs[1]
    BY <2>1, <1>k
  <2>3. QED BY <2>1, <2>2, <1>1
<1>10. ASSUME NEW i \in Nat, i \in M PROVE i + 1 \in M
  <2>1. SUFFICES ASSUME (i + 1) + 1 <= n PROVE k[(i+1)+1] \in Seq(T)
    OBVIOUS
  <2>2. k[i+1] \in Seq(T)
    BY <1>10, <2>1, <1>1
  <2>3. (i+1)+1 \in 1..n /\ (i+1)+1 # 1 /\ ((i+1)+1) - 1 = i+1
    BY <1>1, <2>1
  <2>4. k[(i+1)+1] = k[i+1] \o xs[(i+1)+1]
    BY <1>k, <2>3
  <2>5. QED BY <2>2, <2>3, <2>4, <1>1
<1>11. Nat \subseteq M
  <2> HIDE DEF M
  <2>1. QED BY <1>9, <1>10, Inductive
<1>12. ASSUME NEW i \in 1..n PROVE k[i] \in Seq(T)
  <2>1. i - 1 \in Nat /\ (i - 1) + 1 = i
    BY <1>1
  <2>2. i - 1 \in M
    BY <2>1, <1>11
  <2>3. QED BY <2>1, <2>2, <1>1
<1>13. k \in [1..n -> Seq(T)]
  BY <1>12, <1>k
<1>14. ASSUME NEW i \in 2..n PROVE k[i] = k[i-1] \o xs[i]
  <2>1. i \in 1..n /\ i # 1
    BY <1>1
  <2>2. QED BY <2>1, <1>k
<1>15. k[1] = xs[1]
  <2>1. 1 \in 1..n
    BY <1>1
  <2>2. QED BY <2>1, <1>k
<1>16. QED
  BY <1>8, <1>13, <1>14, <1>15

\* The paths of the parts of a script, joined.
LEMMA PathFlatten ==
    ASSUME NEW j, NEW n \in Nat, NEW x, NEW l \in [0..n -> Places],
           \A i \in 1..n : Path(j, x[i], l[i-1], l[i])
    PROVE  Path(j, FlattenSeq([i \in 1..n |-> x[i]]), l[0], l[n])
<1> DEFINE xs == [i \in 1..n |-> x[i]]
           T == Ops(j)
<1>1. \A i \in 1..n : x[i] \in Seq(T)
  BY PathEnds
<1>2. xs \in Seq(Seq(T)) /\ Len(xs) = n /\ \A i \in 1..n : xs[i] = x[i]
  BY <1>1
<1> HIDE DEF xs
<1>3. CASE n = 0
  <2>1. xs = <<>>
    BY <1>2, <1>3
  <2>2. FlattenSeq(xs) = <<>>
    BY <2>1 DEF FlattenSeq
  <2>3. l[0] \in Places
    OBVIOUS
  <2>4. QED BY <2>2, <2>3, <1>3, PathNone DEF xs
<1>4. CASE n > 0
  <2>1. xs # <<>>
    BY <1>2, <1>4
  <2>2. PICK f \in [1..n -> Seq(T)] :
              /\ f[1] = xs[1] /\ \A i \in 2..n : f[i] = f[i-1] \o xs[i]
              /\ FlattenSeq(xs) = f[n]
    BY <1>2, <2>1, FlattenSteps
  <2> DEFINE M == {i \in Nat : i + 1 <= n => Path(j, f[i+1], l[0], l[i+1])}
  <2>3. 0 \in M
    <3>1. 1 \in 1..n /\ 1 - 1 = 0
      BY <1>4
    <3>2. Path(j, x[1], l[0], l[1])
      BY <3>1
    <3>3. QED BY <3>1, <3>2, <2>2, <1>2
  <2>4. ASSUME NEW i \in Nat, i \in M PROVE i + 1 \in M
    <3>1. SUFFICES ASSUME (i + 1) + 1 <= n PROVE Path(j, f[(i+1)+1], l[0], l[(i+1)+1])
      OBVIOUS
    <3>2. Path(j, f[i+1], l[0], l[i+1])
      BY <2>4, <3>1
    <3>3. (i+1)+1 \in 2..n /\ (i+1)+1 \in 1..n /\ ((i+1)+1) - 1 = i+1
      BY <3>1
    <3>4. Path(j, x[(i+1)+1], l[i+1], l[(i+1)+1])
      BY <3>3
    <3>5. f[(i+1)+1] = f[i+1] \o x[(i+1)+1]
      BY <3>3, <2>2, <1>2
    <3>6. QED BY <3>2, <3>4, <3>5, PathJoin
  <2>5. Nat \subseteq M
    <3> HIDE DEF M
    <3>1. QED BY <2>3, <2>4, Inductive
  <2>6. n - 1 \in Nat /\ (n - 1) + 1 = n
    BY <1>4
  <2>7. n - 1 \in M
    BY <2>5, <2>6
  <2>8. Path(j, f[n], l[0], l[n])
    BY <2>6, <2>7
  <2>9. QED BY <2>2, <2>8 DEF xs
<1>5. QED BY <1>3, <1>4

-----------------------------------------------------------------------------
\* The paths of the scripts.

\* A place is made of its parts.
LEMMA Made ==
    ASSUME NEW at \in Points, NEW of \in Commands \cup {None, "greet"},
           NEW did \in Nat, NEW made \in BOOLEAN
    PROVE  Place(at, of, did, made) \in Places /\ Talk(did, made) \in Places
<1>1. Place(at, of, did, made) \in Places
  BY DEF Place, Places
<1>2. Place("talk", None, did, made) \in Places
  BY DEF Place, Places, Points
<1>3. QED BY <1>1, <1>2 DEF Talk

\* A step that is neither a command nor a check.
LEMMA Does ==
    ASSUME NEW j, NEW s \in Places, NEW t \in Places, NEW op \in Words, OtherStep(j, s, [op |-> op], t)
    PROVE  Path(j, Do(op), s, t)
<1> DEFINE o == [op |-> op]
<1>1. o \in Ops(j) /\ o.op = op
  BY DEF Ops
<1>2. Step(j, s, o, t)
  BY <1>1 DEF Step, Words
<1> HIDE DEF o
<1>3. Path(j, <<o>>, s, t)
  BY <1>1, <1>2, PathOne
<1>4. QED BY <1>3 DEF Do, o

\* A conditional step.
LEMMA Branches ==
    ASSUME NEW j, NEW s \in Places, NEW t \in Places, NEW o \in {LastReply, Pass, Fetch(j)},
           OtherStep(j, s, o, t)
    PROVE  Path(j, <<o>>, s, t)
<1>1. o \in Ops(j)
  BY DEF Ops
<1>o. o.op = "if"
  <2>1. LastReply.op = "if" /\ Pass.op = "if"
    BY DEF LastReply, Pass
  <2>2. Fetch(j).op = "if"
    BY DEF Fetch
  <2>3. QED BY <2>1, <2>2
<1>2. Step(j, s, o, t)
  BY <1>o DEF Step
<1>3. QED BY <1>1, <1>2, PathOne

\* A command.
LEMMA Sends ==
    ASSUME NEW j, NEW s \in Places, NEW t \in Places, NEW c \in Commands,
           CommandStep(j, s, [op |-> "command", name |-> c], t)
    PROVE  Path(j, Command(c), s, t)
<1> DEFINE o == [op |-> "command", name |-> c]
<1>1. o \in Ops(j) /\ o.op = "command"
  BY DEF Ops
<1>2. Step(j, s, o, t)
  BY <1>1 DEF Step
<1> HIDE DEF o
<1>3. Path(j, <<o>>, s, t)
  BY <1>1, <1>2, PathOne
<1>4. QED BY <1>3 DEF Command, o

\* A check.
LEMMA Checked ==
    ASSUME NEW j, NEW s \in Places, NEW t \in Places, NEW ok \in SUBSET Nat,
           CheckStep(j, s, [op |-> "check", ok |-> ok], t)
    PROVE  Path(j, Check(ok), s, t)
<1> DEFINE o == [op |-> "check", ok |-> ok]
<1>1. o \in Ops(j) /\ o.op = "check"
  BY DEF Ops
<1>2. Step(j, s, o, t)
  BY <1>1 DEF Step
<1> HIDE DEF o
<1>3. Path(j, <<o>>, s, t)
  BY <1>1, <1>2, PathOne
<1>4. QED BY <1>3 DEF Check, o

\* What the checks of the scripts refuse.
Oks == {{2}, {3}, {1, 2}, {2, 331}, {200}, {229}}
\* What the checks of the scripts expect refuses every refusal.
LEMMA Refusing == \A ok \in Oks : Refuses(ok) /\ ok \in SUBSET Nat
BY DEF Refuses, Matches, Oks

\* The codes the scripts expect.
LEMMA OkSets ==
    /\ {2} \in Oks /\ {3} \in Oks /\ {1, 2} \in Oks
    /\ {2, 331} \in Oks /\ {200} \in Oks /\ {229} \in Oks
BY DEF Oks

\* A command that is answered, from the place where it is due to where its answer leads.
LEMMA Exchanges ==
    ASSUME NEW j, NEW d \in Nat, NEW m \in BOOLEAN, NEW c \in Commands, NEW ok \in Oks,
           Due(j, Talk(d, m), c), Accepts(ok, Codes(j, c)),
           NEW t \in Places, t = Answered(Place("await", c, d, m))
    PROVE  Path(j, Command(c) \o Check(ok), Talk(d, m), t)
<1> DEFINE w == Place("await", c, d, m)
<1>1. w \in Places /\ Talk(d, m) \in Places
  <2>1. "await" \in Points
    BY DEF Points
  <2>2. QED BY <2>1, Made
<1>2. Path(j, Command(c), Talk(d, m), w)
  <2>1. CommandStep(j, Talk(d, m), [op |-> "command", name |-> c], w)
    BY DEF CommandStep, Talk, Place
  <2>2. QED BY <1>1, <2>1, Sends
<1>3. Path(j, Check(ok), w, t)
  <2>0. c # "." /\ w.at = "await" /\ w.of = c
    BY DEF Due, Place
  <2>1. CheckStep(j, w, [op |-> "check", ok |-> ok], t)
    BY <2>0, Refusing, OkSets DEF CheckStep
  <2>2. QED BY <1>1, <2>1, Checked, Refusing, OkSets
<1>4. QED BY <1>2, <1>3, PathJoin

\* The places between two commands.
LEMMA Talks == \A d \in Nat, m \in BOOLEAN : Talk(d, m) \in Places
<1>1. ASSUME NEW d \in Nat, NEW m \in BOOLEAN PROVE Talk(d, m) \in Places
  <2>1. "talk" \in Points
    BY DEF Points
  <2>2. QED BY <2>1, Made
<1>2. QED BY <1>1

\* Where a call begins and where it ends.
Opening == Place("start", None, 0, FALSE)
Ending(d) == Place("end", None, d, FALSE)

\* Every script opens the control connection first.
LEMMA Opens ==
    ASSUME NEW j PROVE Path(j, Do("open"), Opening, Place("greet", None, 0, FALSE))
<1>1. Opening \in Places /\ Place("greet", None, 0, FALSE) \in Places
  <2>1. "start" \in Points /\ "greet" \in Points
    BY DEF Points
  <2>2. QED BY <2>1, Made DEF Opening
<1>2. OtherStep(j, Opening, [op |-> "open"], Place("greet", None, 0, FALSE))
  BY DEF OtherStep, Opening, Place
<1>3. "open" \in Words
  BY DEF Words
<1>4. QED BY <1>1, <1>2, <1>3, Does

\* What leaves a call where it is.
LEMMA Stays ==
    ASSUME NEW j, NEW op \in {"listen", "passive", "close_data", "fail"}, NEW d \in Nat, NEW m \in BOOLEAN,
           op = "close_data" => d = 1 /\ m = FALSE,
           op = "fail" => j.api = "send" /\ j.user /\ j.ext = None
    PROVE  Path(j, Do(op), Talk(d, m), Talk(d, m))
<1>1. OtherStep(j, Talk(d, m), [op |-> op], Talk(d, m))
  BY DEF OtherStep, Talk, Place
<1>2. op \in Words
  BY DEF Words
<1>3. QED BY <1>1, <1>2, Made, Does, Made DEF Points

\* A command that leaves what is done as it is.
LEMMA Plainly ==
    ASSUME NEW j, NEW d \in Nat, NEW m \in BOOLEAN, NEW c \in Commands, NEW ok \in Oks,
           c \notin {".", "RCPT", "DATA", "stor", "retr", "QUIT"},
           c = "other" => ~Loosely(j),
           Accepts(ok, Codes(j, c))
    PROVE  Path(j, Command(c) \o Check(ok), Talk(d, m), Talk(d, m))
<1>1. Due(j, Talk(d, m), c)
  <2>1. c # "block"
    BY DEF Commands
  <2>2. QED BY <2>1 DEF Due
<1>2. Talk(d, m) = Answered(Place("await", c, d, m))
  BY DEF Answered, Place
<1>3. Talk(d, m) \in Places
  BY Made DEF Points
<1>4. QED BY <1>1, <1>2, <1>3, Exchanges, OkSets
\* A command of the beginning of a call, before anything is done.
LEMMA PlainlyFirst ==
    ASSUME NEW j, NEW c \in Commands, NEW ok \in Oks,
           c \notin {".", "RCPT", "DATA", "stor", "retr", "QUIT", "other"},
           Accepts(ok, Codes(j, c))
    PROVE  Path(j, Command(c) \o Check(ok), Talk(0, FALSE), Talk(0, FALSE))
<1> DEFINE m == FALSE
<1>1. m \in BOOLEAN /\ 0 \in Nat
  OBVIOUS
<1> HIDE DEF m
<1>2. Path(j, Command(c) \o Check(ok), Talk(0, m), Talk(0, m))
  BY <1>1, Plainly
<1>3. QED BY <1>2 DEF m

\* A command and its check after a path.
LEMMA JoinTwo ==
    ASSUME NEW j, NEW x, NEW s, NEW t, NEW u, NEW c \in Commands, NEW ok \in Oks,
           Path(j, x, s, t), Path(j, Command(c) \o Check(ok), t, u)
    PROVE  Path(j, x \o Command(c) \o Check(ok), s, u)
<1>1. x \in Seq(Ops(j))
  BY PathEnds
<1>2. Command(c) \in Seq(Ops(j))
  BY DEF Command, Ops
<1>3. Check(ok) \in Seq(Ops(j))
  <2>1. ok \in SUBSET Nat
    BY Refusing
  <2>2. QED BY <2>1 DEF Check, Ops
<1>4. (x \o Command(c)) \o Check(ok) = x \o (Command(c) \o Check(ok))
  BY <1>1, <1>2, <1>3, ConcatAssociative
<1>5. Path(j, x \o (Command(c) \o Check(ok)), s, u)
  BY PathJoin
<1>6. QED BY <1>4, <1>5

\* What a check accepts is what the command before it is answered with.
LEMMA Accepting ==
    ASSUME NEW j
    PROVE  /\ \A c \in {"EHLO", "MAIL", "RCPT", ".", "QUIT", "password", "pasv", "pass", "port", "eprt"} :
                    Accepts({2}, Codes(j, c))
           /\ Accepts({3}, Codes(j, "username")) /\ Accepts({3}, Codes(j, "DATA"))
           /\ j.ext = "login" => Accepts({3}, Codes(j, "AUTH"))
           /\ j.ext # "login" => Accepts({2}, Codes(j, "AUTH"))
           /\ Accepts({2, 331}, Codes(j, "user"))
           /\ Accepts({200}, Codes(j, "type")) /\ Accepts({200}, Codes(j, "other"))
           /\ Accepts({229}, Codes(j, "epsv"))
           /\ Accepts({1, 2}, Codes(j, "stor")) /\ Accepts({1, 2}, Codes(j, "retr"))
BY DEF Accepts, Codes, Matches

\* The greeting of a mail server, and EHLO.
LEMMA Greeted ==
    ASSUME NEW j, j.api = "send"
    PROVE  Path(j, greet, Place("greet", None, 0, FALSE), Talk(0, FALSE))
<1>1. Place("greet", None, 0, FALSE) \in Places /\ Talk(0, FALSE) \in Places
  BY Made DEF Points
<1>2. Path(j, Check({2}), Place("greet", None, 0, FALSE), Talk(0, FALSE))
  <2>1. Refuses({2}) /\ {2} \in SUBSET Nat
    BY Refusing, OkSets
  <2>2. Accepts({2}, {220})
    BY DEF Accepts, Matches
  <2>3. CheckStep(j, Place("greet", None, 0, FALSE), [op |-> "check", ok |-> {2}], Talk(0, FALSE))
    BY <2>1, <2>2 DEF CheckStep, Place
  <2>4. QED BY <1>1, <2>1, <2>3, Checked
<1>3. Path(j, Command("EHLO") \o Check({2}), Talk(0, FALSE), Talk(0, FALSE))
  <2>1. "EHLO" \in Commands
    BY DEF Commands
  <2>2. Accepts({2}, Codes(j, "EHLO"))
    BY Accepting
  <2>3. QED BY <2>1, <2>2, PlainlyFirst, OkSets
<1>4. Path(j, Check({2}) \o (Command("EHLO") \o Check({2})), Place("greet", None, 0, FALSE), Talk(0, FALSE))
  BY <1>2, <1>3, PathJoin
<1>5. greet = Check({2}) \o (Command("EHLO") \o Check({2}))
  BY DEF greet, Check, Command
<1>6. QED BY <1>4, <1>5

\* AUTH with the method the server offers, or nothing where the call names no user.
LEMMA Authenticates ==
    ASSUME NEW j \in Jobs, j.api = "send"
    PROVE  Path(j, auth(j), Talk(0, FALSE), Talk(0, FALSE))
<1>0. Talk(0, FALSE) \in Places
  BY Made DEF Points
<1>1. j.user \in BOOLEAN /\ j.ext \in {"login", "plain", None}
  BY DialogueAssumption
<1>2. CASE ~j.user
  BY <1>0, <1>2, PathNone DEF auth
<1>3. CASE j.user /\ j.ext = "login"
  <2>1. Path(j, Command("AUTH") \o Check({3}), Talk(0, FALSE), Talk(0, FALSE))
    <3>1. "AUTH" \in Commands /\ Accepts({3}, Codes(j, "AUTH"))
      BY <1>3, Accepting DEF Commands
    <3>2. QED BY <3>1, PlainlyFirst, OkSets
  <2>2. Path(j, Command("username") \o Check({3}), Talk(0, FALSE), Talk(0, FALSE))
    <3>1. "username" \in Commands /\ Accepts({3}, Codes(j, "username"))
      BY Accepting DEF Commands
    <3>2. QED BY <3>1, PlainlyFirst, OkSets
  <2>3. Path(j, Command("password") \o Check({2}), Talk(0, FALSE), Talk(0, FALSE))
    <3>1. "password" \in Commands /\ Accepts({2}, Codes(j, "password"))
      BY Accepting DEF Commands
    <3>2. QED BY <3>1, PlainlyFirst, OkSets
  <2>4. Path(j, Command("AUTH") \o Check({3}) \o Command("username") \o Check({3}),
             Talk(0, FALSE), Talk(0, FALSE))
    <3>1. "username" \in Commands
      BY DEF Commands
    <3> DEFINE x == Command("AUTH") \o Check({3})
    <3>2. Path(j, x, Talk(0, FALSE), Talk(0, FALSE))
      BY <2>1
    <3> HIDE DEF x
    <3>3. Path(j, x \o Command("username") \o Check({3}), Talk(0, FALSE), Talk(0, FALSE))
      BY <3>1, <3>2, <2>2, JoinTwo, OkSets
    <3>4. QED BY <3>3 DEF x
  <2>5. Path(j, login, Talk(0, FALSE), Talk(0, FALSE))
    <3>1. "password" \in Commands
      BY DEF Commands
    <3> DEFINE x == Command("AUTH") \o Check({3}) \o Command("username") \o Check({3})
    <3>2. Path(j, x, Talk(0, FALSE), Talk(0, FALSE))
      BY <2>4
    <3> HIDE DEF x
    <3>3. Path(j, x \o Command("password") \o Check({2}), Talk(0, FALSE), Talk(0, FALSE))
      BY <3>1, <3>2, <2>3, JoinTwo, OkSets
    <3>4. QED BY <3>3 DEF login, x
  <2>6. auth(j) = login
    BY <1>3 DEF auth
  <2>7. QED BY <2>5, <2>6
<1>4. CASE j.user /\ j.ext = "plain"
  <2>1. "AUTH" \in Commands /\ Accepts({2}, Codes(j, "AUTH"))
    BY <1>4, Accepting DEF Commands
  <2>2. Path(j, Command("AUTH") \o Check({2}), Talk(0, FALSE), Talk(0, FALSE))
    BY <2>1, PlainlyFirst, OkSets
  <2>3. QED BY <2>2, <1>4 DEF auth, plain
<1>5. CASE j.user /\ j.ext = None
  <2>1. Path(j, Do("fail"), Talk(0, FALSE), Talk(0, FALSE))
    BY <1>5, Stays
  <2>2. auth(j) = Do("fail")
    BY <1>5 DEF auth, None
  <2>3. QED BY <2>1, <2>2
<1>6. QED BY <1>1, <1>2, <1>3, <1>4, <1>5

\* The recipients, one by one.
LEMMA Addresses ==
    ASSUME NEW j \in Jobs, j.api = "send"
    PROVE  Path(j, FlattenSeq([i \in 1..j.rcpts |-> rcpt]), Talk(0, FALSE), Talk(j.rcpts, FALSE))
<1> DEFINE n == j.rcpts
           x == [i \in 1..n |-> rcpt]
           l == [i \in 0..n |-> Talk(i, FALSE)]
<1>1. n \in Nat
  BY DialogueAssumption
<1>2. l \in [0..n -> Places]
  <2>1. ASSUME NEW i \in 0..n PROVE Talk(i, FALSE) \in Places
    <3>1. i \in Nat
      BY <1>1
    <3>2. QED BY <3>1, Talks
  <2>2. QED BY <2>1
<1>3. ASSUME NEW i \in 1..n PROVE Path(j, rcpt, Talk(i-1, FALSE), Talk(i, FALSE))
  <2>1. i - 1 \in Nat /\ (i - 1) + 1 = i /\ i - 1 < n
    BY <1>1
  <2>2. Due(j, Talk(i-1, FALSE), "RCPT")
    BY <2>1 DEF Due, Talk, Place
  <2>3. Talk(i, FALSE) = Answered(Place("await", "RCPT", i-1, FALSE))
    BY <2>1 DEF Answered, Place
  <2>4. "RCPT" \in Commands /\ Accepts({2}, Codes(j, "RCPT"))
    BY Accepting DEF Commands
  <2>5. Talk(i, FALSE) \in Places
    <3>1. i \in Nat
      BY <1>1
    <3>2. QED BY <3>1, Talks
  <2>6. Path(j, Command("RCPT") \o Check({2}), Talk(i-1, FALSE), Talk(i, FALSE))
    BY <2>1, <2>2, <2>3, <2>4, <2>5, Exchanges, OkSets
  <2>7. QED BY <2>6 DEF rcpt
<1>4. \A i \in 1..n : Path(j, x[i], l[i-1], l[i])
  <2>1. ASSUME NEW i \in 1..n PROVE Path(j, x[i], l[i-1], l[i])
    <3>1. i - 1 \in 0..n /\ i \in 0..n
      BY <1>1
    <3>2. x[i] = rcpt /\ l[i-1] = Talk(i-1, FALSE) /\ l[i] = Talk(i, FALSE)
      BY <3>1
    <3>3. QED BY <3>2, <1>3
  <2>2. QED BY <2>1
<1>5. [i \in 1..n |-> x[i]] = [i \in 1..n |-> rcpt]
  OBVIOUS
<1>6. l[0] = Talk(0, FALSE) /\ l[n] = Talk(n, FALSE)
  <2>1. 0 \in 0..n /\ n \in 0..n
    BY <1>1
  <2>2. QED BY <2>1
<1> HIDE DEF x, l
<1>7. Path(j, FlattenSeq([i \in 1..n |-> x[i]]), l[0], l[n])
  BY <1>1, <1>2, <1>4, PathFlatten
<1>8. QED BY <1>5, <1>6, <1>7

\* The end of a script: QUIT, checked, and close.
LEMMA Quits ==
    ASSUME NEW j, NEW d \in Nat, j.api = "command" \/ d = Complete(j)
    PROVE  /\ Path(j, Command("QUIT"), Talk(d, FALSE), Place("await", "QUIT", d, FALSE))
           /\ Path(j, Check({2}), Place("await", "QUIT", d, FALSE), Place("bye", None, d, FALSE))
           /\ Path(j, Do("close"), Place("bye", None, d, FALSE), Ending(d))
<1> DEFINE B == Place("bye", None, d, FALSE)
           W == Place("await", "QUIT", d, FALSE)
<1>1. B \in Places /\ Ending(d) \in Places /\ W \in Places /\ Talk(d, FALSE) \in Places
  BY Made, Talks DEF Points, Ending, Commands
<1>2. Path(j, Command("QUIT"), Talk(d, FALSE), W)
  <2>1. Due(j, Talk(d, FALSE), "QUIT")
    BY DEF Due, Talk, Place
  <2>2. CommandStep(j, Talk(d, FALSE), [op |-> "command", name |-> "QUIT"], W)
    BY <2>1 DEF CommandStep, Talk, Place
  <2>3. "QUIT" \in Commands
    BY DEF Commands
  <2>4. QED BY <1>1, <2>2, <2>3, Sends
<1>3. Path(j, Check({2}), W, B)
  <2>1. B = Answered(W)
    BY DEF Answered, Place
  <2>2. Accepts({2}, Codes(j, "QUIT"))
    BY Accepting
  <2>3. CheckStep(j, W, [op |-> "check", ok |-> {2}], B)
    BY <2>1, <2>2, Refusing, OkSets DEF CheckStep, Place
  <2>4. QED BY <1>1, <2>3, Checked, Refusing, OkSets
<1>4. Path(j, Do("close"), B, Ending(d))
  <2>1. OtherStep(j, B, [op |-> "close"], Ending(d))
    BY DEF OtherStep, Ending, Place
  <2>2. "close" \in Words
    BY DEF Words
  <2>3. QED BY <1>1, <2>1, <2>2, Does
<1>5. QED BY <1>2, <1>3, <1>4

\* DATA, the message and the line that ends it.
LEMMA Mails ==
    ASSUME NEW j \in Jobs, j.api = "send"
    PROVE  Path(j, message, Talk(j.rcpts, FALSE), Talk(j.rcpts + 1, FALSE))
<1> DEFINE n == j.rcpts
           M == Place("message", None, n, FALSE)
           D == Place("dot", None, n, FALSE)
           W == Place("await", ".", n, FALSE)
<1>1. n \in Nat /\ n + 1 \in Nat
  BY DialogueAssumption
<1>2. M \in Places /\ D \in Places /\ W \in Places /\ Talk(n + 1, FALSE) \in Places
  BY <1>1, Made DEF Points, Commands
<1>3. Path(j, Command("DATA") \o Check({3}), Talk(n, FALSE), M)
  <2>1. Due(j, Talk(n, FALSE), "DATA")
    BY DEF Due, Talk, Place
  <2>2. M = Answered(Place("await", "DATA", n, FALSE))
    BY DEF Answered, Place
  <2>3. "DATA" \in Commands /\ Accepts({3}, Codes(j, "DATA"))
    BY Accepting DEF Commands
  <2> HIDE DEF M
  <2>4. n \in Nat /\ M \in Places
    BY <1>1, <1>2
  <2> HIDE DEF n
  <2>5. QED BY <2>1, <2>2, <2>3, <2>4, Exchanges, OkSets
<1>4. Path(j, Do("source"), M, D)
  <2>1. OtherStep(j, M, [op |-> "source"], D)
    BY DEF OtherStep, Place
  <2>2. "source" \in Words
    BY DEF Words
  <2>3. QED BY <1>2, <2>1, <2>2, Does
<1>5. Path(j, Command("."), D, W)
  <2>1. CommandStep(j, D, [op |-> "command", name |-> "."], W)
    BY DEF CommandStep, Place
  <2>2. "." \in Commands
    BY DEF Commands
  <2>3. QED BY <1>2, <2>1, <2>2, Sends
<1>6. Path(j, Check({2}), W, Talk(n + 1, FALSE))
  <2>1. Talk(n + 1, FALSE) = Answered(W)
    BY DEF Answered, Place
  <2>2. Accepts({2}, Codes(j, "."))
    BY Accepting
  <2>a. Accepts({2}, {250})
    BY DEF Accepts, Matches
  <2>3. CheckStep(j, W, [op |-> "check", ok |-> {2}], Talk(n + 1, FALSE))
    BY <2>1, <2>2, <2>a, Refusing, OkSets DEF CheckStep, Place
  <2> DEFINE ok == {2}
             E == Talk(n + 1, FALSE)
  <2>4. ok \in SUBSET Nat /\ Refuses(ok)
    BY Refusing, OkSets
  <2>5. CheckStep(j, W, [op |-> "check", ok |-> ok], E) /\ W \in Places /\ E \in Places
    BY <2>3, <1>2
  <2> HIDE DEF ok, E, W
  <2>6. Path(j, Check(ok), W, E)
    BY ONLY <2>4, <2>5, Checked
  <2>7. QED BY ONLY <2>6 DEF ok, E
<1> HIDE DEF M, D, W, n
<1>7. QED BY <1>3, <1>4, <1>5, <1>6, PathJoin DEF message, n

\* smtp.send: every command is checked before the next one, the recipients come before
\* the message, and the message before QUIT.
LEMMA SendPath ==
    ASSUME NEW j \in Jobs, j.api = "send"
    PROVE  Path(j, smtp_send(j), Opening, Ending(j.rcpts + 1))
<1> DEFINE n == j.rcpts
           G == Place("greet", None, 0, FALSE)
           T == Talk(0, FALSE)
           F == FlattenSeq([i \in 1..n |-> rcpt])
<1>1. n \in Nat /\ n + 1 \in Nat
  BY DialogueAssumption
<1>2. Path(j, Do("open"), Opening, G)
  BY Opens
<1>3. Path(j, greet, G, T)
  BY Greeted
<1>4. Path(j, auth(j), T, T)
  BY Authenticates
<1>5. Path(j, mail, T, T)
  <2>1. "MAIL" \in Commands /\ Accepts({2}, Codes(j, "MAIL"))
    BY Accepting DEF Commands
  <2>2. QED BY <2>1, PlainlyFirst, OkSets DEF mail
<1>6. Path(j, F, T, Talk(n, FALSE))
  BY Addresses
<1>7. Path(j, message, Talk(n, FALSE), Talk(n + 1, FALSE))
  BY Mails
<1>8. Path(j, quit, Talk(n + 1, FALSE), Place("bye", None, n + 1, FALSE))
  <2>1. n + 1 = Complete(j)
    BY DEF Complete
  <2> HIDE DEF n
  <2>2. QED BY <1>1, <2>1, Quits, PathJoin DEF quit
<1>9. Path(j, Do("close"), Place("bye", None, n + 1, FALSE), Ending(n + 1))
  <2>1. n + 1 = Complete(j)
    BY DEF Complete
  <2> HIDE DEF n
  <2>2. QED BY <1>1, <2>1, Quits
<1> DEFINE B == Place("bye", None, n + 1, FALSE)
           E == Ending(n + 1)
<1> HIDE DEF G, T, F, B, E
<1>10. Path(j, Do("open") \o greet \o auth(j) \o mail, Opening, T)
  BY <1>2, <1>3, <1>4, <1>5, PathJoin
<1>11. Path(j, Do("open") \o greet \o auth(j) \o mail \o F \o message, Opening, Talk(n + 1, FALSE))
  BY <1>10, <1>6, <1>7, PathJoin
<1>12. Path(j, Do("open") \o greet \o auth(j) \o mail \o F \o message \o quit \o Do("close"),
            Opening, Ending(n + 1))
  BY <1>11, <1>8, <1>9, PathJoin
<1>13. QED BY <1>12 DEF smtp_send, F

\* ftp.lua: the greeting, which may be announced, and the user.
LEMMA FtpGreeted ==
    ASSUME NEW j, j.api # "send"
    PROVE  Path(j, Do("open") \o ftp_greet \o ftp_login, Opening, Talk(0, FALSE))
<1> DEFINE G == Place("greet", None, 0, FALSE)
           M == Place("moved", "greet", 0, FALSE)
           T == Talk(0, FALSE)
<1>1. G \in Places /\ M \in Places /\ T \in Places
  BY Made, Talks DEF Points
<1>2. Path(j, Check({1, 2}), G, M)
  <2>1. Refuses({1, 2}) /\ {1, 2} \in SUBSET Nat
    BY Refusing, OkSets
  <2>2. Accepts({1, 2}, {120, 220})
    BY DEF Accepts, Matches
  <2>3. CheckStep(j, G, [op |-> "check", ok |-> {1, 2}], M)
    BY <2>1, <2>2 DEF CheckStep, Place
  <2>4. QED BY <1>1, <2>1, <2>3, Checked
<1>3. Path(j, <<LastReply>>, M, T)
  <2>1. OtherStep(j, M, LastReply, T)
    BY DEF OtherStep, Finished, Place
  <2>2. QED BY <1>1, <2>1, Branches
<1>4. Path(j, Command("user") \o Check({2, 331}), T, T)
  <2> DEFINE c == "user"
             ok == {2, 331}
  <2>1. c \in Commands /\ c \notin {".", "RCPT", "DATA", "stor", "retr", "QUIT", "other"}
    BY ONLY DEF Commands
  <2>2. ok \in Oks /\ Accepts(ok, Codes(j, c))
    BY ONLY Accepting, OkSets
  <2> HIDE DEF c, ok, T
  <2>3. Path(j, Command(c) \o Check(ok), Talk(0, FALSE), Talk(0, FALSE))
    BY ONLY <2>1, <2>2, PlainlyFirst
  <2>4. QED BY ONLY <2>3 DEF c, ok, T
<1>5. Path(j, <<Pass>>, T, T)
  <2>1. OtherStep(j, T, Pass, T)
    BY DEF OtherStep, Talk, Place
  <2>2. QED BY <1>1, <2>1, Branches
<1>6. Path(j, ftp_greet, G, T)
  BY <1>2, <1>3, PathJoin DEF ftp_greet, If, LastReply
<1>7. Path(j, ftp_login, T, T)
  <2> DEFINE first == Command("user") \o Check({2, 331})
             second == <<Pass>>
  <2>1. ftp_login = first \o second
    BY Zenon DEF ftp_login, If, Pass
  <2>2. Path(j, first, T, T) /\ Path(j, second, T, T)
    BY <1>4, <1>5
  <2> HIDE DEF first, second, T
  <2>3. Path(j, first \o second, T, T)
    BY ONLY <2>2, PathJoin
  <2>4. QED BY ONLY <2>1, <2>3
<1>8. Path(j, Do("open"), Opening, G)
  BY Opens
<1> HIDE DEF G, M, T
<1>9. Path(j, Do("open") \o ftp_greet \o ftp_login, Opening, T)
  BY <1>6, <1>7, <1>8, PathJoin
<1>10. QED BY <1>9 DEF T

\* The ways to agree on a data connection.
LEMMA Prepares ==
    ASSUME NEW j, NEW mode \in {"epsv", "pasv", "port", "eprt"}
    PROVE  Path(j, Prepare(mode), Talk(0, FALSE), Talk(0, FALSE))
<1>1. Path(j, Do("passive"), Talk(0, FALSE), Talk(0, FALSE)) /\ Path(j, Do("listen"), Talk(0, FALSE), Talk(0, FALSE))
  BY Stays
<1>2. CASE mode = "epsv"
  <2>1. "epsv" \in Commands /\ Accepts({229}, Codes(j, "epsv"))
    BY Accepting DEF Commands
  <2>2. Path(j, Command("epsv") \o Check({229}), Talk(0, FALSE), Talk(0, FALSE))
    BY ONLY <2>1, PlainlyFirst, OkSets
  <2>3. Path(j, Command("epsv") \o Check({229}) \o Do("passive"), Talk(0, FALSE), Talk(0, FALSE))
    BY <2>2, <1>1, PathJoin
  <2>4. QED BY <2>3, <1>2 DEF Prepare, epsv
<1>3. CASE mode = "pasv"
  <2>1. "pasv" \in Commands /\ Accepts({2}, Codes(j, "pasv"))
    BY Accepting DEF Commands
  <2>2. Path(j, Command("pasv") \o Check({2}), Talk(0, FALSE), Talk(0, FALSE))
    BY ONLY <2>1, PlainlyFirst, OkSets
  <2>3. Path(j, Command("pasv") \o Check({2}) \o Do("passive"), Talk(0, FALSE), Talk(0, FALSE))
    BY <2>2, <1>1, PathJoin
  <2>4. QED BY <2>3, <1>3 DEF Prepare, pasv
<1>4. CASE mode \in {"port", "eprt"}
  <2>1. mode \in Commands /\ Accepts({2}, Codes(j, mode))
    BY <1>4, Accepting DEF Commands
  <2>2. Path(j, Command(mode) \o Check({2}), Talk(0, FALSE), Talk(0, FALSE))
    BY <1>4, <2>1, PlainlyFirst, OkSets
  <2>3. Path(j, Do("listen") \o Command(mode) \o Check({2}), Talk(0, FALSE), Talk(0, FALSE))
    BY <2>1, <2>2, <1>1, JoinTwo, OkSets
  <2>4. Prepare(mode) = port(mode)
    BY <1>4 DEF Prepare
  <2>5. QED BY <2>3, <2>4 DEF port
<1>5. QED BY <1>2, <1>3, <1>4

\* The steps that choose the mode of the data connection, one after the other.
LEMMA Modes ==
    ASSUME NEW j \in Jobs, j.api \in {"get", "put"}
    PROVE  Path(j, FlattenSeq([i \in DOMAIN j.modes |-> Prepare(j.modes[i])]), Talk(0, FALSE), Talk(0, FALSE))
<1> DEFINE n == Len(j.modes)
           T == Talk(0, FALSE)
           x == [i \in 1..n |-> Prepare(j.modes[i])]
           l == [i \in 0..n |-> T]
<1>0. T \in Places
  BY Talks
<1>1. j.modes \in Seq({"epsv", "pasv", "port", "eprt"}) /\ n \in Nat /\ DOMAIN j.modes = 1..n
  BY DialogueAssumption
<1>2. l \in [0..n -> Places] /\ l[0] = T /\ l[n] = T
  <2> HIDE DEF T, n
  <2>1. 0 \in 0..n /\ n \in 0..n
    BY <1>1
  <2>2. QED BY <1>0, <2>1
<1>3. ASSUME NEW i \in 1..n PROVE Path(j, x[i], l[i-1], l[i])
  <2>1. i - 1 \in 0..n /\ i \in 0..n
    BY <1>1
  <2>2. l[i-1] = T /\ l[i] = T
    BY <2>1
  <2>3. j.modes[i] \in {"epsv", "pasv", "port", "eprt"}
    BY <1>1
  <2>4. Path(j, Prepare(j.modes[i]), T, T)
    BY <2>3, Prepares
  <2>5. x[i] = Prepare(j.modes[i])
    OBVIOUS
  <2>6. QED BY <2>2, <2>4, <2>5
<1>4. [i \in 1..n |-> x[i]] = [i \in DOMAIN j.modes |-> Prepare(j.modes[i])]
  BY <1>1
<1> HIDE DEF x, l, n, T
<1>5. Path(j, FlattenSeq([i \in 1..n |-> x[i]]), l[0], l[n])
  BY <1>1, <1>2, <1>3, PathFlatten
<1>6. QED BY <1>2, <1>4, <1>5 DEF T

\* A data connection, made before the command or after its answer.
LEMMA Connects ==
    ASSUME NEW j \in Jobs, j.api \in {"get", "put"}, NEW c \in {"stor", "retr"}
    PROVE  /\ Path(j, DataBefore(j), Talk(0, FALSE), Talk(0, Passive(j)))
           /\ Path(j, DataAfter(j), Place("flow", c, 0, Passive(j)), Place("flow", c, 0, TRUE))
<1>1. Passive(j) \in BOOLEAN
  BY DEF Passive
<1>2. Talk(0, FALSE) \in Places /\ Talk(0, TRUE) \in Places
  BY Talks
<1>3. Place("flow", c, 0, FALSE) \in Places /\ Place("flow", c, 0, TRUE) \in Places
  <2>1. "flow" \in Points /\ c \in Commands
    BY DEF Points, Commands
  <2>2. QED BY <2>1, Made
<1>4. CASE Passive(j) = TRUE
  <2>1. OtherStep(j, Talk(0, FALSE), [op |-> "connect"], Talk(0, TRUE))
    BY <1>4 DEF OtherStep, Talk, Place
  <2>2. "connect" \in Words
    BY DEF Words
  <2>3. Path(j, Do("connect"), Talk(0, FALSE), Talk(0, TRUE))
    BY <1>2, <2>1, <2>2, Does
  <2>4. Path(j, <<>>, Place("flow", c, 0, TRUE), Place("flow", c, 0, TRUE))
    BY <1>3, PathNone
  <2>5. QED BY <2>3, <2>4, <1>4 DEF DataBefore, DataAfter
<1>5. CASE Passive(j) = FALSE
  <2>1. OtherStep(j, Place("flow", c, 0, FALSE), [op |-> "accept"], Place("flow", c, 0, TRUE))
    BY <1>5 DEF OtherStep, Place
  <2>2. "accept" \in Words
    BY DEF Words
  <2>3. Path(j, Do("accept"), Place("flow", c, 0, FALSE), Place("flow", c, 0, TRUE))
    BY <1>3, <2>1, <2>2, Does
  <2>4. Path(j, <<>>, Talk(0, FALSE), Talk(0, FALSE))
    BY <1>2, PathNone
  <2>5. QED BY <2>3, <2>4, <1>5 DEF DataBefore, DataAfter
<1>6. QED BY <1>1, <1>4, <1>5

\* What follows the pump of a transfer.
LEMMA Closes ==
    ASSUME NEW j, NEW c \in {"stor", "retr"}
    PROVE  /\ Path(j, If({1}, Check({2}), <<>>), Place("moved", c, 0, FALSE), Talk(1, FALSE))
           /\ Path(j, Do("close_data"), Talk(1, FALSE), Talk(1, FALSE))
<1>1. Place("moved", c, 0, FALSE) \in Places /\ Talk(1, FALSE) \in Places
  <2>1. "moved" \in Points /\ c \in Commands
    BY DEF Points, Commands
  <2>2. QED BY <2>1, Made
<1>2. OtherStep(j, Place("moved", c, 0, FALSE), LastReply, Talk(1, FALSE))
  BY DEF OtherStep, Finished, Place
<1>3. Path(j, <<LastReply>>, Place("moved", c, 0, FALSE), Talk(1, FALSE))
  BY <1>1, <1>2, Branches
<1>4. Path(j, Do("close_data"), Talk(1, FALSE), Talk(1, FALSE))
  BY Stays
<1>5. QED BY <1>3, <1>4 DEF If, LastReply

\* The steps after the reply of a get that announces a file.
LEMMA Downloads ==
    ASSUME NEW j \in Jobs, j.api = "get"
    PROVE  Path(j, Fetch(j).no, Place("flow", "retr", 0, Passive(j)), Talk(1, FALSE))
<1> DEFINE P == Place("flow", "retr", 0, Passive(j))
           F == Place("flow", "retr", 0, TRUE)
           M == Place("moved", "retr", 0, FALSE)
<1>1. F \in Places /\ M \in Places
  BY Made DEF Points, Commands
<1>2. Path(j, DataAfter(j), P, F)
  BY Connects
<1>3. Path(j, Do("download"), F, M)
  <2>1. OtherStep(j, F, [op |-> "download"], M)
    BY DEF OtherStep, Place
  <2>2. "download" \in Words
    BY DEF Words
  <2>3. QED BY <1>1, <2>1, <2>2, Does
<1>4. /\ Path(j, If({1}, Check({2}), <<>>), M, Talk(1, FALSE))
      /\ Path(j, Do("close_data"), Talk(1, FALSE), Talk(1, FALSE))
  BY Closes
<1> HIDE DEF P, F, M
<1>5. Path(j, DataAfter(j) \o Do("download") \o If({1}, Check({2}), <<>>) \o Do("close_data"), P, Talk(1, FALSE))
  BY <1>2, <1>3, <1>4, PathJoin
<1>6. QED BY <1>5 DEF Fetch, P

\* ftp.get: the data connection before the command or after its answer; then the reply
\* that is all there is, or the file, the last reply and the end of the data
\* connection.
LEMMA ReceivePath ==
    ASSUME NEW j \in Jobs, j.api = "get"
    PROVE  Path(j, ftp_receive(j), Talk(0, FALSE), Talk(1, FALSE))
<1> DEFINE P == Talk(0, Passive(j))
           W == Place("await", "retr", 0, Passive(j))
           M == Place("more", "retr", 0, Passive(j))
<1>1. Passive(j) \in BOOLEAN
  BY DEF Passive
<1>2. M \in Places /\ P \in Places /\ Talk(1, FALSE) \in Places
  <2>1. M \in Places
    BY <1>1, Made DEF Points, Commands
  <2>2. P \in Places /\ Talk(1, FALSE) \in Places
    BY <1>1, Talks
  <2>3. QED BY <2>1, <2>2
<1>3. Path(j, DataBefore(j), Talk(0, FALSE), P)
  BY Connects
<1>4. Path(j, Command("retr") \o Check({1, 2}), P, M)
  <2>1. Due(j, P, "retr")
    BY DEF Due, Talk, Place
  <2>2. M = Answered(W)
    BY DEF Answered, Place
  <2>3. "retr" \in Commands /\ Accepts({1, 2}, Codes(j, "retr"))
    BY Accepting DEF Commands
  <2> HIDE DEF M
  <2>4. QED BY <1>1, <1>2, <2>1, <2>2, <2>3, Exchanges, OkSets
<1>5. Path(j, <<Fetch(j)>>, M, Talk(1, FALSE))
  <2>1. OtherStep(j, M, Fetch(j), Talk(1, FALSE))
    BY DEF OtherStep, Finished, Place
  <2>2. QED BY <1>2, <2>1, Branches
<1>6. ftp_receive(j) = DataBefore(j) \o Command("retr") \o Check({1, 2}) \o <<Fetch(j)>>
  BY DEF ftp_receive, If, Fetch
<1> HIDE DEF P, M, W
<1>7. Path(j, DataBefore(j) \o Command("retr") \o Check({1, 2}), Talk(0, FALSE), M)
  BY <1>3, <1>4, JoinTwo, OkSets DEF Commands
<1>8. QED BY <1>5, <1>6, <1>7, PathJoin

\* ftp.put: the same, with the file the other way.
LEMMA StorePath ==
    ASSUME NEW j \in Jobs, j.api = "put"
    PROVE  Path(j, ftp_send(j), Talk(0, FALSE), Talk(1, FALSE))
<1> DEFINE P == Talk(0, Passive(j))
           W == Place("await", "stor", 0, Passive(j))
           A == Place("flow", "stor", 0, Passive(j))
           F == Place("flow", "stor", 0, TRUE)
           M == Place("moved", "stor", 0, FALSE)
<1>1. Passive(j) \in BOOLEAN
  BY DEF Passive
<1>2. A \in Places /\ F \in Places /\ M \in Places /\ P \in Places
  BY <1>1, Made, Talks DEF Points, Commands
<1>3. Path(j, DataBefore(j), Talk(0, FALSE), P)
  BY Connects
<1>4. Path(j, Command("stor") \o Check({2, 1}), P, A)
  <2>1. Due(j, P, "stor")
    BY DEF Due, Talk, Place
  <2>2. A = Answered(W)
    BY DEF Answered, Place
  <2>3. "stor" \in Commands /\ Accepts({1, 2}, Codes(j, "stor"))
    BY Accepting DEF Commands
  <2> HIDE DEF A
  <2>4. Path(j, Command("stor") \o Check({1, 2}), P, A)
    BY <1>1, <1>2, <2>1, <2>2, <2>3, Exchanges, OkSets
  <2>5. {1, 2} = {2, 1}
    OBVIOUS
  <2>6. QED BY <2>4, <2>5
<1>5. Path(j, DataAfter(j), A, F)
  BY Connects
<1>6. Path(j, Do("upload"), F, M)
  <2>1. OtherStep(j, F, [op |-> "upload"], M)
    BY DEF OtherStep, Place
  <2>2. "upload" \in Words
    BY DEF Words
  <2>3. QED BY <1>2, <2>1, <2>2, Does
<1>7. /\ Path(j, If({1}, Check({2}), <<>>), M, Talk(1, FALSE))
      /\ Path(j, Do("close_data"), Talk(1, FALSE), Talk(1, FALSE))
  BY Closes
<1> HIDE DEF P, M, W, A, F
<1>8. {1, 2} = {2, 1}
  OBVIOUS
<1>9. Path(j, DataBefore(j) \o Command("stor") \o Check({2, 1}), Talk(0, FALSE), A)
  BY <1>3, <1>4, <1>8, JoinTwo, OkSets DEF Commands
<1>10. Path(j, DataBefore(j) \o Command("stor") \o Check({2, 1}) \o DataAfter(j) \o Do("upload"), Talk(0, FALSE), M)
  BY <1>9, <1>5, <1>6, PathJoin
<1>11. Path(j, DataBefore(j) \o Command("stor") \o Check({2, 1}) \o DataAfter(j) \o Do("upload")
                    \o If({1}, Check({2}), <<>>) \o Do("close_data"), Talk(0, FALSE), Talk(1, FALSE))
  BY <1>10, <1>7, PathJoin
<1>12. QED BY <1>11 DEF ftp_send

\* ftp.get and ftp.put: the data connection is agreed on, the file moves, and the last
\* reply is taken before QUIT.
LEMMA TransferPath ==
    ASSUME NEW j \in Jobs, j.api \in {"get", "put"}, NEW x, Path(j, x, Talk(0, FALSE), Talk(1, FALSE))
    PROVE  Path(j, Transfer(j, x), Opening, Ending(1))
<1> DEFINE T == Talk(0, FALSE)
           Y == IF j.type THEN ftp_type ELSE <<>>
           F == FlattenSeq([i \in DOMAIN j.modes |-> Prepare(j.modes[i])])
<1>1. Path(j, Do("open") \o ftp_greet \o ftp_login, Opening, T)
  BY FtpGreeted
<1>2. Path(j, Y, T, T)
  <2>1. "type" \in Commands /\ Accepts({200}, Codes(j, "type"))
    BY Accepting DEF Commands
  <2>2. Path(j, ftp_type, T, T)
    BY <2>1, PlainlyFirst, OkSets DEF ftp_type
  <2>3. Path(j, <<>>, T, T)
    BY Talks, PathNone
  <2>4. QED BY <2>2, <2>3
<1>3. Path(j, F, T, T)
  BY Modes
<1>4. /\ Path(j, Command("QUIT"), Talk(1, FALSE), Place("await", "QUIT", 1, FALSE))
      /\ Path(j, Check({2}), Place("await", "QUIT", 1, FALSE), Place("bye", None, 1, FALSE))
      /\ Path(j, Do("close"), Place("bye", None, 1, FALSE), Ending(1))
  BY Quits DEF Complete
<1> HIDE DEF T, Y, F
<1>5. Path(j, Do("open") \o ftp_greet \o ftp_login \o Y \o F \o x, Opening, Talk(1, FALSE))
  BY <1>1, <1>2, <1>3, PathJoin DEF T
<1>6. Path(j, Do("open") \o ftp_greet \o ftp_login \o Y \o F \o x \o Command("QUIT") \o Check({2}),
           Opening, Place("bye", None, 1, FALSE))
  BY <1>4, <1>5, PathJoin
<1>7. Path(j, Do("open") \o ftp_greet \o ftp_login \o Y \o F \o x \o Command("QUIT") \o Check({2}) \o Do("close"),
           Opening, Ending(1))
  BY <1>4, <1>6, PathJoin
<1>8. QED BY <1>7 DEF Transfer, Y, F

\* The commands of ftp.command when every reply is checked.
LEMMA StrictPath ==
    ASSUME NEW j \in Jobs, j.api = "command", ~Loosely(j)
    PROVE  Path(j, FlattenSeq([i \in DOMAIN j.checks |->
                    Command("other") \o (IF j.checks[i] THEN Check({200}) ELSE <<>>)]),
                Talk(0, FALSE), Talk(0, FALSE))
<1> DEFINE n == Len(j.checks)
           T == Talk(0, FALSE)
           x == [i \in 1..n |-> Command("other") \o (IF j.checks[i] THEN Check({200}) ELSE <<>>)]
           l == [i \in 0..n |-> T]
<1>0. T \in Places
  BY Talks
<1>1. j.checks \in Seq(BOOLEAN) /\ n \in Nat /\ DOMAIN j.checks = 1..n
  BY DialogueAssumption
<1>2. l \in [0..n -> Places] /\ l[0] = T /\ l[n] = T
  <2> HIDE DEF T, n
  <2>1. 0 \in 0..n /\ n \in 0..n
    BY <1>1
  <2>2. QED BY <1>0, <2>1
<1>3. ASSUME NEW i \in 1..n PROVE Path(j, x[i], l[i-1], l[i])
  <2>1. i - 1 \in 0..n /\ i \in 0..n
    BY <1>1
  <2>2. l[i-1] = T /\ l[i] = T
    BY <2>1
  <2>3. j.checks[i] = TRUE
    <3>1. j.checks[i] \in BOOLEAN
      BY <1>1
    <3>2. j.checks[i] \in ToSet(j.checks)
      BY <1>1 DEF ToSet
    <3>3. QED BY <3>1, <3>2 DEF Loosely
  <2>4. "other" \in Commands /\ Accepts({200}, Codes(j, "other"))
    BY Accepting DEF Commands
  <2>5. Path(j, Command("other") \o Check({200}), T, T)
    BY <2>4, Plainly, OkSets
  <2>6. x[i] = Command("other") \o Check({200})
    BY <2>3
  <2> HIDE DEF x, l
  <2>7. QED BY <2>2, <2>5, <2>6
<1>4. [i \in 1..n |-> x[i]] = [i \in DOMAIN j.checks |->
                    Command("other") \o (IF j.checks[i] THEN Check({200}) ELSE <<>>)]
  BY <1>1
<1> HIDE DEF x, l, n, T
<1>5. Path(j, FlattenSeq([i \in 1..n |-> x[i]]), l[0], l[n])
  BY <1>1, <1>2, <1>3, PathFlatten
<1>6. QED BY <1>2, <1>4, <1>5 DEF T

\* The commands of ftp.command when a reply is left unread: the replies owed are
\* counted.
LEMMA LoosePath ==
    ASSUME NEW j \in Jobs, j.api = "command", Loosely(j)
    PROVE  \E d \in Nat :
              Path(j, FlattenSeq([i \in DOMAIN j.checks |->
                        Command("other") \o (IF j.checks[i] THEN Check({200}) ELSE <<>>)]),
                   Talk(0, FALSE), Place("loose", "other", d, FALSE))
<1> DEFINE n == Len(j.checks)
           x == [i \in 1..n |-> Command("other") \o (IF j.checks[i] THEN Check({200}) ELSE <<>>)]
           step == [i \in 1..n |-> [d \in Nat |-> IF j.checks[i] THEN d ELSE d + 1]]
           L(d) == Place("loose", "other", d, FALSE)
<1>j. Loosely(j)
  OBVIOUS
<1>1. j.checks \in Seq(BOOLEAN) /\ n \in Nat /\ DOMAIN j.checks = 1..n
  BY DialogueAssumption
<1>2. n > 0
  <2>1. PICK i \in DOMAIN j.checks : j.checks[i] = FALSE
    BY DEF Loosely, ToSet
  <2>2. QED BY <2>1, <1>1
<1>3. \E f \in [0..n -> Nat] : Follows(f, 0, n, step)
  <2>1. step \in [1..n -> [Nat -> Nat]]
    OBVIOUS
  <2> HIDE DEF step, n
  <2>2. QED BY <1>1, <2>1, Recursion
<1>4. PICK f \in [0..n -> Nat] : Follows(f, 0, n, step)
  BY <1>3
<1>5. ASSUME NEW i \in 1..n PROVE i - 1 \in 0..n /\ i \in 0..n /\ f[i-1] \in Nat /\ f[i] \in Nat
                                  /\ f[i] = IF j.checks[i] THEN f[i-1] ELSE f[i-1] + 1
  <2>1. i - 1 \in 0..n /\ i \in 0..n
    BY <1>1
  <2>2. f[i-1] \in Nat /\ f[i] \in Nat
    BY <2>1
  <2>3. f[i] = step[i][f[i-1]]
    BY <1>4 DEF Follows
  <2>4. QED BY <2>1, <2>2, <2>3
<1> DEFINE l == [i \in 0..n |-> IF i = 0 THEN Talk(0, FALSE) ELSE L(f[i])]
<1>6. \A d \in Nat : L(d) \in Places
  BY Made DEF Points, Commands
<1>7. l \in [0..n -> Places]
  <2>1. ASSUME NEW i \in 0..n PROVE (IF i = 0 THEN Talk(0, FALSE) ELSE L(f[i])) \in Places
    BY <1>6, Talks
  <2>2. QED BY <2>1
<1>8. f[0] = 0
  BY <1>4 DEF Follows
<1>l. \A i \in 0..n : l[i] = IF i = 0 THEN Talk(0, FALSE) ELSE L(f[i])
  OBVIOUS
<1> HIDE DEF step, l
<1>9. ASSUME NEW i \in 1..n PROVE Path(j, x[i], l[i-1], l[i])
  <2> DEFINE d == f[i-1]
  <2>0. i \in 0..n /\ i - 1 \in 0..n /\ i # 0
    BY <1>1
  <2>1. l[i] = L(f[i])
    BY <2>0, <1>l
  <2>2. CommandStep(j, l[i-1], [op |-> "command", name |-> "other"], L(d + 1))
    <3>1. CASE i = 1
      <4>0. i - 1 = 0
        BY <3>1
      <4>1. l[i-1] = Talk(0, FALSE) /\ d = 0
        BY <4>0, <2>0, <1>l, <1>8
      <4>2. QED BY <4>1, <1>j DEF CommandStep, Talk, Place
    <3>2. CASE i # 1
      <4>0. i - 1 # 0
        BY <3>2, <1>1
      <4>1. l[i-1] = L(d)
        BY <4>0, <2>0, <1>l
      <4>2. QED BY <4>1, <1>j DEF CommandStep, Place
    <3>3. QED BY <3>1, <3>2
  <2>3. l[i-1] \in Places /\ d \in Nat /\ d + 1 \in Nat
    <3>1. l[i-1] \in Places
      BY <2>0, <1>7
    <3>2. d \in Nat
      BY <1>5
    <3>3. QED BY <3>1, <3>2
  <2>t. "other" \in Commands
    BY DEF Commands
  <2>u. L(d + 1) \in Places
    BY <2>3, <1>6
  <2>4. Path(j, Command("other"), l[i-1], L(d + 1))
    <3> HIDE DEF l, d, L
    <3>1. QED BY <2>t, <2>u, <2>2, <2>3, Sends
  <2>5. CASE j.checks[i] = TRUE
    <3>1. x[i] = Command("other") \o Check({200}) /\ f[i] = d
      BY <2>5, <1>5
    <3>2. Accepts({200}, {200}) /\ Refuses({200}) /\ {200} \in SUBSET Nat
      BY Refusing, OkSets DEF Accepts, Matches
    <3>3. (d + 1) - 1 = d /\ d + 1 > 0
      BY <2>3
    <3>4. CheckStep(j, L(d + 1), [op |-> "check", ok |-> {200}], L(d))
      BY <3>2, <3>3 DEF CheckStep, Place
    <3>5. L(d) \in Places
      BY <2>3, <1>6
    <3>6. Path(j, Check({200}), L(d + 1), L(d))
      <4> HIDE DEF L, d
      <4>1. QED BY <2>u, <3>2, <3>4, <3>5, Checked
    <3> HIDE DEF x, L, d, l
    <3>7. Path(j, Command("other") \o Check({200}), l[i-1], L(d))
      BY <2>4, <3>6, PathJoin
    <3>8. QED BY <3>1, <3>7, <2>1
  <2>6. CASE j.checks[i] = FALSE
    <3>1. x[i] = Command("other") \o <<>> /\ f[i] = d + 1
      BY <2>6, <1>5
    <3>2. Path(j, <<>>, L(d + 1), L(d + 1))
      <4> HIDE DEF L
      <4>1. QED BY <2>u, PathNone
    <3> HIDE DEF x, L, d, l
    <3>3. Path(j, Command("other") \o <<>>, l[i-1], L(d + 1))
      BY <2>4, <3>2, PathJoin
    <3>4. QED BY <3>1, <3>3, <2>1
  <2>7. j.checks[i] \in BOOLEAN
    BY <1>1
  <2>8. QED BY <2>5, <2>6, <2>7
<1>10. [i \in 1..n |-> x[i]] = [i \in DOMAIN j.checks |->
                    Command("other") \o (IF j.checks[i] THEN Check({200}) ELSE <<>>)]
  BY <1>1
<1>11. l[0] = Talk(0, FALSE) /\ l[n] = L(f[n]) /\ f[n] \in Nat
  <2>1. 0 \in 0..n /\ n \in 0..n /\ n # 0
    BY <1>1, <1>2
  <2> HIDE DEF n
  <2>2. QED BY <2>1, <1>l
<1> HIDE DEF x, l, n, L
<1>12. Path(j, FlattenSeq([i \in 1..n |-> x[i]]), l[0], l[n])
  BY <1>1, <1>7, <1>9, PathFlatten
<1>13. Path(j, FlattenSeq([i \in 1..n |-> x[i]]), Talk(0, FALSE), L(f[n]))
  BY <1>11, <1>12
<1>14. QED BY <1>10, <1>11, <1>13 DEF L

\* ftp.command: QUIT is checked, and comes after every other command.
LEMMA CommandPath ==
    ASSUME NEW j \in Jobs, j.api = "command"
    PROVE  \E d \in Nat : Path(j, ftp_command(j), Opening, Ending(d))
<1> DEFINE T == Talk(0, FALSE)
           F == FlattenSeq([i \in DOMAIN j.checks |->
                    Command("other") \o (IF j.checks[i] THEN Check({200}) ELSE <<>>)])
           H == Do("open") \o ftp_greet \o ftp_login
<1>1. Path(j, H, Opening, T)
  BY FtpGreeted
<1>2. CASE ~Loosely(j)
  <2>1. Path(j, F, T, T)
    BY <1>2, StrictPath
  <2>2. /\ Path(j, Command("QUIT"), T, Place("await", "QUIT", 0, FALSE))
        /\ Path(j, Check({2}), Place("await", "QUIT", 0, FALSE), Place("bye", None, 0, FALSE))
        /\ Path(j, Do("close"), Place("bye", None, 0, FALSE), Ending(0))
    BY Quits
  <2> HIDE DEF T, F, H
  <2>h. Path(j, H \o F, Opening, T)
    BY <1>1, <2>1, PathJoin
  <2>q. Path(j, H \o F \o Command("QUIT"), Opening, Place("await", "QUIT", 0, FALSE))
    BY <2>h, <2>2, PathJoin
  <2>3. Path(j, H \o F \o Command("QUIT") \o Check({2}), Opening, Place("bye", None, 0, FALSE))
    BY <2>q, <2>2, PathJoin
  <2>4. Path(j, H \o F \o Command("QUIT") \o Check({2}) \o Do("close"), Opening, Ending(0))
    BY <2>2, <2>3, PathJoin
  <2>5. Path(j, ftp_command(j), Opening, Ending(0))
    BY <2>4 DEF ftp_command, H, F
  <2>6. QED BY <2>5
<1>3. CASE Loosely(j)
  <2>1. PICK d \in Nat : Path(j, F, T, Place("loose", "other", d, FALSE))
    BY <1>3, LoosePath
  <2> DEFINE L == Place("loose", "other", d, FALSE)
             K == Place("loose", "QUIT", d + 1, FALSE)
             M == Place("loose", "QUIT", d, FALSE)
  <2>2. d + 1 \in Nat /\ d + 1 > 0 /\ (d + 1) - 1 = d
    OBVIOUS
  <2>3. L \in Places /\ K \in Places /\ M \in Places /\ Ending(d) \in Places
    BY <2>2, Made DEF Points, Commands, Ending
  <2>4. Path(j, Command("QUIT"), L, K)
    <3>1. CommandStep(j, L, [op |-> "command", name |-> "QUIT"], K)
      BY <1>3 DEF CommandStep, Place
    <3>2. "QUIT" \in Commands
      BY DEF Commands
    <3> HIDE DEF L, K
    <3>3. QED BY <2>3, <3>1, <3>2, Sends
  <2>5. Path(j, Check({2}), K, M)
    <3>1. Accepts({2}, {200}) /\ Accepts({2}, {221}) /\ Refuses({2}) /\ {2} \in SUBSET Nat
      BY Refusing, OkSets DEF Accepts, Matches
    <3>2. CheckStep(j, K, [op |-> "check", ok |-> {2}], M)
      BY <2>2, <3>1 DEF CheckStep, Place
    <3> HIDE DEF K, M
    <3>3. QED BY <2>3, <3>1, <3>2, Checked
  <2>6. Path(j, Do("close"), M, Ending(d))
    <3>1. OtherStep(j, M, [op |-> "close"], Ending(d))
      BY DEF OtherStep, Ending, Place
    <3>2. "close" \in Words
      BY DEF Words
    <3> HIDE DEF M
    <3>3. QED BY <2>3, <3>1, <3>2, Does
  <2>7. Path(j, F, T, L)
    BY <2>1
  <2> HIDE DEF T, F, H, L, K, M
  <2>8. Path(j, H \o F \o Command("QUIT"), Opening, K)
    BY <1>1, <2>7, <2>4, PathJoin
  <2>9. Path(j, H \o F \o Command("QUIT") \o Check({2}), Opening, M)
    BY <2>8, <2>5, PathJoin
  <2>10. Path(j, H \o F \o Command("QUIT") \o Check({2}) \o Do("close"), Opening, Ending(d))
    BY <2>9, <2>6, PathJoin
  <2>11. Path(j, ftp_command(j), Opening, Ending(d))
    BY <2>10 DEF ftp_command, H, F
  <2>12. QED BY <2>11
<1>4. QED BY <1>2, <1>3

\* Every script of the clients is a path from the opening to the end of a call.
LEMMA ScriptPath ==
    ASSUME NEW j \in Jobs
    PROVE  \E u : Path(j, Script(j), Opening, u)
<1>1. j.api \in {"send", "get", "put", "command"}
  BY DialogueAssumption
<1>2. CASE j.api = "send"
  BY <1>2, SendPath DEF Script
<1>3. CASE j.api = "put"
  <2>1. Path(j, Transfer(j, ftp_send(j)), Opening, Ending(1))
    BY <1>3, StorePath, TransferPath
  <2>2. QED BY <2>1, <1>3 DEF Script, tput
<1>4. CASE j.api = "get"
  <2>1. Path(j, Transfer(j, ftp_receive(j)), Opening, Ending(1))
    BY <1>4, ReceivePath, TransferPath
  <2>2. QED BY <2>1, <1>4 DEF Script, tget
<1>5. CASE j.api = "command"
  <2>1. PICK d \in Nat : Path(j, ftp_command(j), Opening, Ending(d))
    BY <1>5, CommandPath
  <2>2. Script(j) = ftp_command(j)
    BY <1>5 DEF Script
  <2>3. QED BY <2>1, <2>2
<1>6. QED BY <1>1, <1>2, <1>3, <1>4, <1>5

-----------------------------------------------------------------------------
\* The sockets of a call.

\* The steps of a script that have nothing to do with listening.
Aside(j) == {o \in Ops(j) : o.op \notin {"listen", "passive"}}

\* k steps of the script of j have been made, and x is left: some of a branch that was
\* taken, and the steps after the first k.
Remains(j, x, k) ==
    /\ k \in 0..Len(Script(j))
    /\ \E pre \in Seq(Aside(j)) : x = pre \o SubSeq(Script(j), k + 1, Len(Script(j)))

\* After k steps of the script there is a socket that listens.
Listening(j, k) ==
    \E m \in 1..k : /\ Script(j)[m].op = "listen"
                    /\ \A i \in m + 1..k : Script(j)[i].op # "passive"

\* The call j, with x left of its script, listens if o has the listening socket.
Holds(j, x, o) == \E k \in Nat : Remains(j, x, k) /\ ("server" \in o => Listening(j, k))

\* A listening socket is there because the script has listened and not been passive
\* since; it is lost only when the script listens again; and a call that has returned
\* makes no further step and has closed the others.
SocketsInv ==
    /\ job \in Jobs /\ Holds(job, script, open)
    /\ "lost" \in open => Relistens(job)
    /\ result # None => open \subseteq {"lost"}

\* The first element of two sequences joined, and what follows it.
LEMMA JoinedHead ==
    ASSUME NEW T, NEW p \in Seq(T), NEW r \in Seq(T), p # <<>>
    PROVE  Head(p \o r) = Head(p) /\ Tail(p \o r) = Tail(p) \o r
<1> DEFINE x == p \o r
<1>1. /\ x \in Seq(T) /\ Len(x) = Len(p) + Len(r)
      /\ \A i \in 1..Len(p) + Len(r) : x[i] = IF i <= Len(p) THEN p[i] ELSE r[i - Len(p)]
  BY ConcatProperties
<1>2. Len(p) \in Nat /\ Len(p) >= 1 /\ Len(r) \in Nat
  OBVIOUS
<1> HIDE DEF x
<1>3. x # <<>> /\ Head(x) = x[1] /\ Head(p) = p[1] /\ x[1] = p[1]
  BY <1>1, <1>2
<1>4. Tail(x) \in Seq(T) /\ Len(Tail(x)) = Len(x) - 1 /\ \A i \in 1..Len(Tail(x)) : Tail(x)[i] = x[i+1]
  BY <1>1, <1>3, HeadTailProperties
<1>5. Tail(p) \in Seq(T) /\ Len(Tail(p)) = Len(p) - 1 /\ \A i \in 1..Len(Tail(p)) : Tail(p)[i] = p[i+1]
  BY HeadTailProperties
<1> DEFINE q == Tail(p)
<1> DEFINE y == q \o r
<1> HIDE DEF q
<1>6. /\ y \in Seq(T) /\ Len(y) = Len(q) + Len(r)
      /\ \A i \in 1..Len(q) + Len(r) : y[i] = IF i <= Len(q) THEN q[i] ELSE r[i - Len(q)]
  BY <1>5, ConcatProperties DEF q
<1> HIDE DEF y
<1>7. Len(Tail(x)) = Len(y) /\ Len(q) = Len(p) - 1
  BY <1>1, <1>2, <1>4, <1>5, <1>6 DEF q
<1>8. \A i \in 1..Len(Tail(x)) : Tail(x)[i] = y[i]
  <2>1. SUFFICES ASSUME NEW i \in 1..Len(Tail(x)) PROVE Tail(x)[i] = y[i]
    OBVIOUS
  <2>2. i \in Nat /\ i + 1 \in 1..Len(p) + Len(r) /\ i \in 1..Len(q) + Len(r) /\ i + 1 - Len(p) = i - Len(q)
    BY <1>1, <1>2, <1>4, <1>7
  <2>3. Tail(x)[i] = IF i + 1 <= Len(p) THEN p[i+1] ELSE r[i + 1 - Len(p)]
    BY <1>1, <1>4, <2>2
  <2>4. i + 1 <= Len(p) => i \in 1..Len(Tail(p)) /\ q[i] = p[i+1]
    BY <1>2, <1>5, <2>2 DEF q
  <2>5. i + 1 <= Len(p) <=> i <= Len(q)
    BY <1>2, <1>7, <2>2
  <2>6. QED BY <1>6, <2>2, <2>3, <2>4, <2>5
<1>9. Tail(x) = y
  BY <1>4, <1>6, <1>7, <1>8, SeqEqual
<1>10. QED BY <1>3, <1>9 DEF x, y, q

\* One step on from x, which is pre and what is left of S after k steps: a step of pre is
\* made, or the next one of S.
Onwards(S, k, Q, pre, x) ==
    \/ Head(x) \in Q /\ Tail(pre) \in Seq(Q) /\ Tail(x) = Tail(pre) \o SubSeq(S, k + 1, Len(S))
    \/ k < Len(S) /\ Head(x) = S[k+1] /\ Tail(x) = <<>> \o SubSeq(S, k + 2, Len(S))

\* What is left of a sequence after some of its steps, behind other steps, begins with a
\* step of either.
LEMMA LeftOver ==
    ASSUME NEW T, NEW Q, Q \subseteq T, NEW S \in Seq(T), NEW k \in 0..Len(S), NEW pre \in Seq(Q)
    PROVE  LET x == pre \o SubSeq(S, k + 1, Len(S))
           IN x = <<>> \/ Onwards(S, k, Q, pre, x)
<1> DEFINE x == pre \o SubSeq(S, k + 1, Len(S))
<1> SUFFICES ASSUME x # <<>> PROVE Onwards(S, k, Q, pre, x)
  OBVIOUS
<1> USE DEF Onwards
<1>0. Len(S) \in Nat /\ k \in Nat /\ k <= Len(S)
  OBVIOUS
<1>1. \A m \in Nat : m >= 1 => SubSeq(S, m, Len(S)) \in Seq(T)
  <2>1. SUFFICES ASSUME NEW m \in Nat, m >= 1 PROVE SubSeq(S, m, Len(S)) \in Seq(T)
    OBVIOUS
  <2>2. \A i \in m..Len(S) : S[i] \in T
    BY <1>0, <2>1
  <2>3. QED BY ONLY <1>0, <2>2, SubSeqProperties
<1>2. SubSeq(S, k + 1, Len(S)) \in Seq(T)
  BY <1>0, <1>1
<1>3. SubSeq(S, k + 2, Len(S)) \in Seq(T)
  BY <1>0, <1>1
<1>4. CASE pre # <<>>
  <2>1. pre \in Seq(T)
    BY SeqMonotonic
  <2>2. Head(pre) \in Q /\ Tail(pre) \in Seq(Q)
    BY <1>4, HeadTailProperties
  <2>3. Head(x) = Head(pre) /\ Tail(x) = Tail(pre) \o SubSeq(S, k + 1, Len(S))
    BY <1>2, <1>4, <2>1, JoinedHead
  <2>4. QED BY <2>2, <2>3
<1>5. CASE pre = <<>>
  <2>1. x = SubSeq(S, k + 1, Len(S))
    BY <1>2, <1>5, ConcatEmptySeq
  <2>2. k < Len(S)
    <3>1. SUFFICES ASSUME ~(k < Len(S)) PROVE FALSE
      OBVIOUS
    <3>2. Len(S) < k + 1 /\ k + 1 \in Int /\ Len(S) \in Int
      BY <1>0, <3>1
    <3>3. SubSeq(S, k + 1, Len(S)) = <<>>
      BY ONLY <3>2, SubSeqEmpty
    <3>4. QED BY <2>1, <3>3
  <2>3. k + 1 \in 1..Len(S) /\ Len(S) \in k + 1 .. Len(S) /\ (k + 1) + 1 = k + 2
    BY <1>0, <2>2
  <2>4. Head(x) = S[k+1] /\ Tail(x) = SubSeq(S, k + 2, Len(S))
    BY <2>1, <2>3, HeadTailOfSubSeq
  <2>5. <<>> \o SubSeq(S, k + 2, Len(S)) = SubSeq(S, k + 2, Len(S))
    BY <1>3, ConcatEmptySeq
  <2>6. QED BY <2>2, <2>4, <2>5
<1>6. QED BY <1>4, <1>5

\* A step from where a call stands is one of a branch, or the next one of its script.
LEMMA RemainsOn ==
    ASSUME NEW j \in Jobs, NEW x, NEW k, Remains(j, x, k), x # <<>>
    PROVE  \/ Head(x) \in Aside(j) /\ Remains(j, Tail(x), k)
           \/ /\ k + 1 \in 1..Len(Script(j)) /\ Head(x) = Script(j)[k+1] /\ Head(x) \in Ops(j)
              /\ Remains(j, Tail(x), k + 1)
<1> DEFINE S == Script(j)
<1>1. S \in Seq(Ops(j))
  BY ScriptPath, PathEnds
<1> HIDE DEF S
<1>2. k \in 0..Len(S) /\ Len(S) \in Nat /\ k \in Nat
  BY <1>1 DEF Remains, S
<1>3. PICK pre \in Seq(Aside(j)) : x = pre \o SubSeq(S, k + 1, Len(S))
  BY DEF Remains, S
<1>4. Aside(j) \subseteq Ops(j)
  BY DEF Aside
<1>5. \/ Head(x) \in Aside(j) /\ Tail(pre) \in Seq(Aside(j)) /\ Tail(x) = Tail(pre) \o SubSeq(S, k + 1, Len(S))
      \/ k < Len(S) /\ Head(x) = S[k+1] /\ Tail(x) = <<>> \o SubSeq(S, k + 2, Len(S))
  <2>1. pre \o SubSeq(S, k + 1, Len(S)) = <<>>
        \/ Onwards(S, k, Aside(j), pre, pre \o SubSeq(S, k + 1, Len(S)))
    BY ONLY <1>1, <1>2, <1>3, <1>4, LeftOver
  <2>2. Onwards(S, k, Aside(j), pre, x)
    BY <2>1, <1>3
  <2>3. QED BY <2>2 DEF Onwards
<1>6. CASE Head(x) \in Aside(j) /\ Tail(pre) \in Seq(Aside(j)) /\ Tail(x) = Tail(pre) \o SubSeq(S, k + 1, Len(S))
  <2>1. Remains(j, Tail(x), k)
    BY <1>2, <1>6 DEF Remains, S
  <2>2. QED BY <1>6, <2>1
<1>7. CASE k < Len(S) /\ Head(x) = S[k+1] /\ Tail(x) = <<>> \o SubSeq(S, k + 2, Len(S))
  <2>1. k + 1 \in 1..Len(S) /\ k + 1 \in 0..Len(S) /\ (k + 1) + 1 = k + 2 /\ S[k+1] \in Ops(j)
    BY <1>1, <1>2, <1>7
  <2>2. <<>> \in Seq(Aside(j))
    OBVIOUS
  <2>3. Remains(j, Tail(x), k + 1)
    BY <1>7, <2>1, <2>2 DEF Remains, S
  <2>4. QED BY <1>7, <2>1, <2>3 DEF S
<1>8. QED BY <1>5, <1>6, <1>7

\* A step that does not end listening.
LEMMA HoldsOn ==
    ASSUME NEW j \in Jobs, NEW x, NEW o, Holds(j, x, o), x # <<>>, Head(x).op # "passive"
    PROVE  Holds(j, Tail(x), o)
<1>1. PICK k \in Nat : Remains(j, x, k) /\ ("server" \in o => Listening(j, k))
  BY DEF Holds
<1>2. CASE Remains(j, Tail(x), k)
  BY <1>1, <1>2 DEF Holds
<1>3. CASE k + 1 \in 1..Len(Script(j)) /\ Head(x) = Script(j)[k+1] /\ Remains(j, Tail(x), k + 1)
  <2>1. Listening(j, k) => Listening(j, k + 1)
    <3>1. SUFFICES ASSUME Listening(j, k) PROVE Listening(j, k + 1)
      OBVIOUS
    <3>2. PICK m \in 1..k : /\ Script(j)[m].op = "listen"
                            /\ \A i \in m + 1..k : Script(j)[i].op # "passive"
      BY <3>1 DEF Listening
    <3>3. m \in 1..k + 1
      OBVIOUS
    <3>4. \A i \in m + 1..k + 1 : i \in m + 1..k \/ i = k + 1
      OBVIOUS
    <3>5. \A i \in m + 1..k + 1 : Script(j)[i].op # "passive"
      BY <1>3, <3>2, <3>4
    <3>6. QED BY <3>2, <3>3, <3>5 DEF Listening
  <2>2. QED BY <1>1, <1>3, <2>1 DEF Holds
<1>4. QED BY <1>1, <1>2, <1>3, RemainsOn

\* A step that listens: it listens again when there was a listening socket.
LEMMA HoldsListen ==
    ASSUME NEW j \in Jobs, NEW x, NEW o, NEW n, Holds(j, x, o), x # <<>>, Head(x).op = "listen"
    PROVE  Holds(j, Tail(x), n) /\ ("server" \in o => Relistens(j))
<1>1. PICK k \in Nat : Remains(j, x, k) /\ ("server" \in o => Listening(j, k))
  BY DEF Holds
<1>2. Head(x) \notin Aside(j)
  BY DEF Aside
<1>3. k + 1 \in 1..Len(Script(j)) /\ Head(x) = Script(j)[k+1] /\ Remains(j, Tail(x), k + 1)
  BY <1>1, <1>2, RemainsOn
<1>4. Listening(j, k + 1)
  <2>1. k + 1 \in 1..k + 1 /\ \A i \in (k + 1) + 1..k + 1 : FALSE
    OBVIOUS
  <2>2. Script(j)[k+1].op = "listen"
    BY <1>3
  <2>3. QED BY <2>1, <2>2 DEF Listening
<1>5. Holds(j, Tail(x), n)
  BY <1>3, <1>4 DEF Holds
<1>6. Listening(j, k) => Relistens(j)
  <2>1. SUFFICES ASSUME Listening(j, k) PROVE Relistens(j)
    OBVIOUS
  <2>2. PICK m \in 1..k : /\ Script(j)[m].op = "listen"
                          /\ \A i \in m + 1..k : Script(j)[i].op # "passive"
    BY <2>1 DEF Listening
  <2>3. Script(j) \in Seq(Ops(j))
    BY ScriptPath, PathEnds
  <2>4. DOMAIN Script(j) = 1..Len(Script(j)) /\ Len(Script(j)) \in Nat
    BY <2>3
  <2>5. m \in DOMAIN Script(j) /\ k + 1 \in DOMAIN Script(j) /\ m < k + 1 /\ (k + 1) - 1 = k
    BY <1>3, <2>4
  <2>6. Script(j)[k+1].op = "listen"
    BY <1>3
  <2>7. \A i \in m + 1..(k + 1) - 1 : Script(j)[i].op # "passive"
    BY <2>2, <2>5
  <2>8. QED BY <2>2, <2>5, <2>6, <2>7 DEF Relistens
<1>7. QED BY <1>1, <1>5, <1>6

\* Without a listening socket there is nothing to account for.
LEMMA HoldsNone ==
    ASSUME NEW j \in Jobs, NEW x, NEW o, Holds(j, x, o), NEW n, "server" \notin n
    PROVE  Holds(j, <<>>, n) /\ (x # <<>> => Holds(j, Tail(x), n))
<1>1. PICK k \in Nat : Remains(j, x, k)
  BY DEF Holds
<1>2. x # <<>> => Holds(j, Tail(x), n)
  <2>1. SUFFICES ASSUME x # <<>> PROVE Holds(j, Tail(x), n)
    OBVIOUS
  <2>2. Remains(j, Tail(x), k) \/ Remains(j, Tail(x), k + 1)
    BY <1>1, <2>1, RemainsOn
  <2>3. k \in Nat /\ k + 1 \in Nat
    OBVIOUS
  <2>4. QED BY <2>2, <2>3 DEF Holds
<1>3. Script(j) \in Seq(Ops(j))
  BY ScriptPath, PathEnds
<1> DEFINE K == Len(Script(j))
<1>4. K \in Nat /\ K \in 0..K /\ K + 1 \in Int /\ K \in Int /\ K < K + 1
  BY <1>3
<1> HIDE DEF K
<1>5. SubSeq(Script(j), K + 1, K) = <<>>
  BY <1>4, SubSeqEmpty
<1>6. <<>> \in Seq(Aside(j)) /\ <<>> = <<>> \o <<>>
  OBVIOUS
<1>7. Remains(j, <<>>, K)
  BY <1>4, <1>5, <1>6 DEF Remains, K
<1>8. QED BY <1>2, <1>4, <1>7 DEF Holds

\* The steps of the branches.
LEMMA Branching ==
    ASSUME NEW j \in Jobs, NEW o \in Ops(j), o.op = "if"
    PROVE  o.yes \in Seq(Aside(j)) /\ o.no \in Seq(Aside(j))
<1>1. \A c \in Commands : [op |-> "command", name |-> c] \in Aside(j)
  BY DEF Aside, Ops
<1>2. \A ok \in SUBSET Nat : [op |-> "check", ok |-> ok] \in Aside(j)
  BY DEF Aside, Ops
<1>3. \A w \in Words \ {"listen", "passive"} : [op |-> w] \in Aside(j)
  BY DEF Aside, Ops
<1>4. LastReply \in Aside(j)
  BY DEF Aside, Ops, LastReply
<1>5. Check({2}) \in Seq(Aside(j)) /\ <<>> \in Seq(Aside(j)) /\ Command("pass") \in Seq(Aside(j))
  BY <1>1, <1>2 DEF Check, Command, Commands
<1>6. Do("sink_reply") \in Seq(Aside(j)) /\ DataAfter(j) \in Seq(Aside(j))
      /\ Do("download") \in Seq(Aside(j)) /\ Do("close_data") \in Seq(Aside(j))
  BY <1>3 DEF Do, DataAfter, Words
<1>7. If({1}, Check({2}), <<>>) \in Seq(Aside(j))
  BY <1>4 DEF If, LastReply
<1>8. \A p, q \in Seq(Aside(j)) : p \o q \in Seq(Aside(j))
  BY ConcatProperties
<1>9. o \in {LastReply, Pass, Fetch(j)}
  BY DEF Ops, Words
<1>10. CASE o = LastReply
  BY <1>5, <1>10 DEF LastReply
<1>11. CASE o = Pass
  BY <1>5, <1>8, <1>11 DEF Pass
<1>12. CASE o = Fetch(j)
  <2>1. o.yes = Do("sink_reply")
        /\ o.no = DataAfter(j) \o Do("download") \o If({1}, Check({2}), <<>>) \o Do("close_data")
    BY <1>12 DEF Fetch
  <2>2. DataAfter(j) \o Do("download") \o If({1}, Check({2}), <<>>) \o Do("close_data") \in Seq(Aside(j))
    BY ONLY <1>6, <1>7, <1>8
  <2>3. QED BY <1>6, <2>1, <2>2
<1>13. QED BY <1>9, <1>10, <1>11, <1>12

\* A branch is taken.
LEMMA HoldsBranch ==
    ASSUME NEW j \in Jobs, NEW x, NEW o, Holds(j, x, o), x # <<>>, Head(x).op = "if",
           NEW y \in {Head(x).yes, Head(x).no}
    PROVE  Holds(j, y \o Tail(x), o)
<1>1. Holds(j, Tail(x), o)
  BY HoldsOn
<1>2. PICK k \in Nat : Remains(j, Tail(x), k) /\ ("server" \in o => Listening(j, k))
  BY <1>1 DEF Holds
<1>3. Head(x) \in Ops(j)
  BY RemainsOn DEF Holds, Aside
<1>4. y \in Seq(Aside(j))
  BY <1>3, Branching
<1> DEFINE r == SubSeq(Script(j), k + 1, Len(Script(j)))
<1>5. PICK pre \in Seq(Aside(j)) : Tail(x) = pre \o r
  BY <1>2 DEF Remains
<1>6. r \in Seq(Ops(j)) /\ k \in 0..Len(Script(j))
  <2>1. Script(j) \in Seq(Ops(j)) /\ k \in 0..Len(Script(j))
    BY <1>2, ScriptPath, PathEnds DEF Remains
  <2>2. \A i \in k + 1..Len(Script(j)) : Script(j)[i] \in Ops(j)
    BY <2>1
  <2>3. QED BY <2>1, <2>2, SubSeqProperties
<1> HIDE DEF r
<1>7. y \in Seq(Ops(j)) /\ pre \in Seq(Ops(j))
  BY <1>4, <1>5, SeqMonotonic DEF Aside
<1>8. y \o (pre \o r) = (y \o pre) \o r
  BY ONLY <1>6, <1>7, ConcatAssociative
<1>9. y \o pre \in Seq(Aside(j))
  BY <1>4, <1>5, ConcatProperties
<1>10. Remains(j, y \o Tail(x), k)
  BY <1>5, <1>6, <1>8, <1>9 DEF Remains, r
<1>11. QED BY <1>2, <1>10 DEF Holds

\* What the server does opens, closes and loses nothing of the client's.
LEMMA ServerSocketsInv ==
    ASSUME SocketsInv, Server \/ DataCut \/ ServerGone PROVE SocketsInv'
<1>1. UNCHANGED <<job, client>>
  <2>1. ASSUME Greets PROVE UNCHANGED <<job, client>>
    BY ONLY <2>1, Zenon DEF Greets
  <2>2. ASSUME Serves PROVE UNCHANGED <<job, client>>
    BY ONLY <2>2, Zenon DEF Serves
  <2>3. ASSUME TakesMessage PROVE UNCHANGED <<job, client>>
    BY ONLY <2>3, Zenon DEF TakesMessage
  <2>4. ASSUME Transfers PROVE UNCHANGED <<job, client>>
    BY ONLY <2>4, Zenon DEF Transfers
  <2>5. ASSUME DataCut PROVE UNCHANGED <<job, client>>
    BY ONLY <2>5, Zenon DEF DataCut
  <2>6. ASSUME ServerGone PROVE UNCHANGED <<job, client>>
    BY ONLY <2>6, Zenon DEF ServerGone
  <2>7. QED BY <2>1, <2>2, <2>3, <2>4, <2>5, <2>6 DEF Server
<1>2. UNCHANGED <<job, script, open, result>>
  BY ONLY <1>1 DEF client
<1>3. QED BY ONLY SocketsInv, <1>2 DEF SocketsInv

\* A step of the client that goes on with the script and does not listen, waits, or ends
\* the call.
Steps ==
    \/ /\ Onward /\ script # <<>> /\ Head(script).op # "passive" /\ result' = result
       /\ open' \in SUBSET (open \cup {"control", "data"})
    \/ UNCHANGED <<script, open, result>>
    \/ script' = <<>> /\ open' = open \cap {"lost"}

\* Such a step keeps account of the listening sockets.
LEMMA StepsSocketsInv ==
    ASSUME SocketsInv, result = None, job' = job, Steps PROVE SocketsInv'
<1>0. job' = job
  OBVIOUS
<1>1. job \in Jobs /\ Holds(job, script, open) /\ ("lost" \in open => Relistens(job))
  BY DEF SocketsInv
<1> SUFFICES /\ Holds(job, script', open')
             /\ "lost" \in open' => "lost" \in open
             /\ result' # None => open' \subseteq {"lost"}
  BY <1>0, <1>1 DEF SocketsInv
<1>2. CASE /\ Onward /\ script # <<>> /\ Head(script).op # "passive" /\ result' = result
           /\ open' \in SUBSET (open \cup {"control", "data"})
  <2>1. Holds(job, Tail(script), open)
    BY <1>1, <1>2, HoldsOn
  <2>2. "server" \in open' => "server" \in open
    BY <1>2
  <2>3. Holds(job, Tail(script), open')
    BY <2>1, <2>2 DEF Holds
  <2>4. "lost" \in open' => "lost" \in open
    BY <1>2
  <2>5. QED BY <1>2, <2>3, <2>4 DEF Onward
<1>3. CASE UNCHANGED <<script, open, result>>
  BY <1>1, <1>3
<1>4. CASE script' = <<>> /\ open' = open \cap {"lost"}
  <2>1. "server" \notin open'
    BY <1>4
  <2>2. Holds(job, <<>>, open')
    BY <1>1, <2>1, HoldsNone
  <2>3. QED BY <1>4, <2>2
<1>5. QED BY <1>2, <1>3, <1>4 DEF Steps

\* Neither does a branch open or close anything.
LEMMA BranchSocketsInv ==
    ASSUME SocketsInv, branch PROVE SocketsInv'
<1>1. job \in Jobs /\ Holds(job, script, open)
  BY DEF SocketsInv
<1>2. /\ script # <<>> /\ Head(script).op = "if" /\ UNCHANGED <<job, open, result>>
      /\ \E y \in {Head(script).yes, Head(script).no} : script' = y \o Tail(script)
  BY DEF branch, Doing
<1>3. Holds(job, script', open)
  BY <1>1, <1>2, HoldsBranch
<1>4. QED BY ONLY SocketsInv, <1>2, <1>3 DEF SocketsInv

\* A socket that listens is there for a step of the script, and takes the place of another
\* only when the script listens again.
LEMMA ListenSocketsInv ==
    ASSUME SocketsInv, listen PROVE SocketsInv'
<1>1. job \in Jobs /\ Holds(job, script, open) /\ ("lost" \in open => Relistens(job))
  BY DEF SocketsInv
<1>2. result = None /\ job' = job /\ script # <<>>
  BY DEF listen, Doing
<1>3. CASE /\ Doing("listen") /\ Onward /\ result' = result
           /\ open' = open \cup {"server"} \cup (IF "server" \in open THEN {"lost"} ELSE {})
  <2>1. Head(script).op = "listen"
    BY <1>3 DEF Doing
  <2>2. Holds(job, Tail(script), open') /\ ("server" \in open => Relistens(job))
    BY <1>1, <1>2, <2>1, HoldsListen
  <2>3. "lost" \in open' => "lost" \in open \/ "server" \in open
    BY <1>3
  <2>4. Holds(job, script', open') /\ ("lost" \in open' => Relistens(job)) /\ result' = None
    BY <1>1, <1>2, <1>3, <2>2, <2>3 DEF Onward
  <2>5. QED BY ONLY <1>1, <1>2, <2>4 DEF SocketsInv
<1>4. CASE Doing("passive") /\ Onward /\ open' = open \ {"server"} /\ result' = result
  <2>1. "server" \notin open' /\ ("lost" \in open' => "lost" \in open)
    BY <1>4
  <2>2. Holds(job, Tail(script), open')
    BY <1>1, <1>2, <2>1, HoldsNone
  <2>3. Holds(job, script', open') /\ ("lost" \in open' => Relistens(job)) /\ result' = None
    BY <1>1, <1>2, <1>4, <2>1, <2>2 DEF Onward
  <2>4. QED BY ONLY <1>1, <1>2, <2>3 DEF SocketsInv
<1>5. CASE Fails(FALSE)
  BY <1>2, <1>5, StepsSocketsInv DEF Steps, Fails, Raise, close
<1>6. QED BY <1>3, <1>4, <1>5 DEF listen

\* Every step of the client is one of these.
LEMMA ClientSocketsInv ==
    ASSUME SocketsInv, Client PROVE SocketsInv'
<1> USE DEF Doing, Fails, Raise, close, Steps
<1>1. CASE Connect
  BY <1>1, StepsSocketsInv DEF Connect
<1>2. CASE command
  BY <1>2, StepsSocketsInv DEF command
<1>3. CASE check
  BY <1>3, StepsSocketsInv DEF check
<1>4. CASE source
  BY <1>4, StepsSocketsInv DEF source, SourceFails
<1>5. CASE DataConnection
  BY <1>5, StepsSocketsInv DEF DataConnection
<1>6. CASE upload
  BY <1>6, StepsSocketsInv DEF upload, SourceEnds
<1>7. CASE download
  BY <1>7, StepsSocketsInv DEF download
<1>8. CASE sink_reply \/ close_data
  BY <1>8, StepsSocketsInv DEF sink_reply, close_data
<1>9. CASE finish
  BY <1>9, StepsSocketsInv DEF finish
<1>10. QED
  BY <1>1, <1>2, <1>3, <1>4, <1>5, <1>6, <1>7, <1>8, <1>9, BranchSocketsInv, ListenSocketsInv
  DEF Client

\* Every call of smtp.send, ftp.get, ftp.put and ftp.command that returns has closed its
\* control and data connections and the socket it listens on, whatever failed (smtp.lua
\* and ftp.lua: open's newtry, close); a socket is left open only by a call that listens
\* twice without a passive mode in between, and it is then the one that lost its place
\* (port and eprt).
THEOREM AllSocketsClosed == Spec => []AllClosed
<1>1. Init => SocketsInv
  <2>1. SUFFICES ASSUME Init PROVE SocketsInv
    OBVIOUS
  <2>2. job \in Jobs /\ script = Script(job) /\ open = {} /\ result = None
    BY <2>1 DEF Init
  <2>3. Script(job) \in Seq(Ops(job))
    BY <2>2, ScriptPath, PathEnds
  <2>4. Script(job) = <<>> \o SubSeq(Script(job), 0 + 1, Len(Script(job)))
    BY <2>3
  <2>5. <<>> \in Seq(Aside(job)) /\ 0 \in 0..Len(Script(job))
    BY <2>3
  <2>6. Remains(job, script, 0)
    BY <2>2, <2>4, <2>5 DEF Remains
  <2>7. Holds(job, script, open)
    BY <2>2, <2>6 DEF Holds
  <2>8. QED BY <2>2, <2>7 DEF SocketsInv
<1>2. SocketsInv /\ [Next]_vars => SocketsInv'
  <2>1. ASSUME SocketsInv, UNCHANGED vars PROVE SocketsInv'
    BY ONLY <2>1 DEF SocketsInv, vars, client
  <2>2. QED BY <2>1, ServerSocketsInv, ClientSocketsInv DEF Next
<1>3. SocketsInv => AllClosed
  BY DEF SocketsInv, AllClosed
<1>4. QED BY <1>1, <1>2, <1>3, PTL DEF Spec

-----------------------------------------------------------------------------
\* What is on the wire.

\* What the server has said: the number of the command, and the code.
Answers == [to : Nat, code : Nat \ {0, 999}]

\* The answer c to the command n.
Ans(n, c) == [to |-> n, code |-> c]

\* A reply has four lines, or one.
Lines == IF job.multiline THEN 4 ELSE 1

\* The line e of the reply a of L lines.
TheLine(L, a, e) ==
    [code |-> IF L = 4 /\ e = 2 THEN 999 ELSE a.code,
     sep |-> IF e = L \/ e = 2 THEN "blank" ELSE "-", to |-> a.to]

\* The lines rs are what the client has not read of the replies q, of L lines each, the
\* first of which began with the code b; when they are whole, nothing else is lost.
OnWire(L, rs, b, q, whole) ==
    \E k \in 0..L-1 :
        /\ k # 0 => q # <<>>
        /\ b = IF k = 0 THEN 0 ELSE q[1].code
        /\ Len(rs) + k <= L * Len(q)
        /\ whole => Len(rs) + k = L * Len(q)
        /\ \A i \in 1..Len(q), e \in 1..L :
                L * (i - 1) + e - k \in 1..Len(rs) => rs[L * (i - 1) + e - k] = TheLine(L, q[i], e)

-----------------------------------------------------------------------------
\* The conversation: what of it is on the way when the call is at a place.

\* The server has gone before its time.
Gone == server.mode = "away" /\ faults > 0

\* The server has obeyed all it was sent.
Served(m) == Gone \/ (server.mode = m /\ toserver = <<>> /\ server.read = asked)

\* Nothing is on the way.
Quiet(q) == q = <<>> /\ Served("command")

\* The greeting is owed: nothing was said, it was, or it was announced; or refused.
Greeting(q) ==
    \/ q = <<>> /\ Served("greeting")
    \/ q = <<Ans(asked, 220)>> /\ Served("command")
    \/ job.api # "send" /\ q = <<Ans(asked, 120), Ans(asked, 220)>> /\ Served("command")
    \/ q = <<Ans(asked, 421)>> /\ faults > 0 /\ Served("command")

\* The last reply to a transfer is owed.
Owed(c, q) ==
    \/ q = <<>> /\ Served(c)
    \/ q = <<Ans(asked, 226)>> /\ Served("command")
    \/ q = <<Ans(asked, 426)>> /\ faults > 0 /\ Served("command")

\* The answer to the command c is owed, and after it what belongs to c.
Asked(c, q) ==
    \/ /\ q = <<>>
       /\ Gone \/ (server.mode = "command" /\ toserver = <<c>> /\ server.read + 1 = asked)
    \/ \E a \in Codes(job, c) : q = <<Ans(asked, a)>> /\ Served(Mode(c, a))
    \/ q = <<Ans(asked, 500)>> /\ faults > 0 /\ Served("command")
    \/ /\ c \in {"stor", "retr"} /\ 150 \in Codes(job, c)
       /\ q # <<>> /\ Head(q) = Ans(asked, 150) /\ Owed(c, Tail(q))

\* A message is under way.
Mailing(q) ==
    /\ q = <<>>
    /\ Gone \/ (/\ server.mode = "message" /\ server.read = asked
                /\ \A i \in 1..Len(toserver) : toserver[i] = "block")

\* The message is under way with the line that ends it, or was answered.
Dotted(q) ==
    \/ /\ q = <<>>
       /\ Gone \/ (/\ server.mode = "message" /\ server.read + 1 = asked /\ toserver # <<>>
                   /\ toserver[Len(toserver)] = "."
                   /\ \A i \in 1..Len(toserver)-1 : toserver[i] = "block")
    \/ q = <<Ans(asked, 250)>> /\ Served("command")
    \/ q = <<Ans(asked, 554)>> /\ faults > 0 /\ Served("command")

\* Replies are owed to n commands, of which QUIT may be the last.
Loose(n, c, q) ==
    \/ Gone
    \/ /\ faults = 0 =>
            \A i \in 1..Len(q) : q[i].code = 200 \/ (c = "QUIT" /\ q[i].code = 221)
       /\ \A i \in 1..Len(toserver) :
            toserver[i] = "other" \/ (c = "QUIT" /\ toserver[i] = "QUIT" /\ i = Len(toserver))
       /\ server.mode = "command" \/ (server.mode = "away" /\ toserver = <<>> /\ c = "QUIT")
       /\ Len(q) + Len(toserver) = n

\* What is on the way at each place.
Talking(s, q) ==
    /\ s.at = "start" => /\ q = <<>> /\ server.mode = "away" /\ faults = 0 /\ asked = 0
                         /\ server.read = 0 /\ toserver = <<>>
    /\ s.at = "greet" => asked = 0 /\ Greeting(q)
    /\ s.at \in {"talk", "sink"} => Quiet(q)
    /\ s.at = "await" => IF s.of = "." THEN Dotted(q) ELSE Asked(s.of, q)
    /\ s.at \in {"message", "dot"} => Mailing(q)
    /\ s.at = "more" => /\ code \in Codes(job, "retr")
                        /\ IF code = 213 THEN Quiet(q) ELSE Owed("retr", q)
    /\ s.at = "flow" => code = 150 /\ Owed(s.of, q)
    /\ s.at = "moved" =>
            IF s.of = "greet"
            THEN (code = 220 /\ Quiet(q)) \/ (code = 120 /\ q = <<Ans(asked, 220)>> /\ Served("command"))
            ELSE code = 150 /\ Owed(s.of, q)
    /\ s.at = "last" => IF s.of = "greet" THEN q = <<Ans(asked, 220)>> /\ Served("command")
                        ELSE Owed(s.of, q)
    /\ s.at = "bye" => server.mode = "away"
    /\ s.at = "loose" => Loose(s.did, s.of, q)

-----------------------------------------------------------------------------
\* The places a call may be at.

\* The command of a transfer is the one of the call.
Moves(j, s) == /\ (s.of = "stor" /\ j.api = "put") \/ (s.of = "retr" /\ j.api = "get")
               /\ s.did = 0

\* A call j may be at s.
Fit(j, s) ==
    /\ s.at # "end"
    /\ s.at \in {"start", "greet"} => s.did = 0
    /\ s.at \in {"message", "dot"} => j.api = "send" /\ s.did = j.rcpts
    /\ s.at = "await" =>
        /\ s.of \in Commands
        /\ s.of = "RCPT" => j.api = "send" /\ s.did < j.rcpts
        /\ s.of \in {"DATA", "."} => j.api = "send" /\ s.did = j.rcpts
        /\ s.of \in {"stor", "retr"} => Moves(j, s) /\ s.made = Passive(j)
        /\ s.of = "QUIT" => j.api = "command" \/ s.did = Complete(j)
    /\ s.at = "more" => s.of = "retr" /\ Moves(j, s) /\ s.made = Passive(j)
    /\ s.at = "sink" => s.of = "retr" /\ Moves(j, s) /\ j.direct
    /\ s.at = "flow" => Moves(j, s) /\ (s.of = "retr" => ~j.direct)
    /\ s.at \in {"moved", "last"} =>
        \/ s.of = "greet" /\ j.api # "send" /\ s.did = 0
        \/ Moves(j, s) /\ (s.of = "retr" => ~j.direct)
    /\ s.at = "bye" => j.api = "command" \/ s.did = Complete(j)
    /\ s.at = "loose" => Loosely(j) /\ s.of \in {"other", "QUIT"}

-----------------------------------------------------------------------------
\* The file.

\* Nothing of the file was moved.
Untouched ==
    /\ left = Blocks /\ got = <<>>
    /\ Gone \/ (~data.ended /\ ~data.cut /\ data.flow = 0 /\ server.stored = 0)

\* What the sink of ftp.get has to be given.
Delivery == IF job.direct THEN <<"reply">> ELSE [i \in 1..Blocks |-> "block"]

\* The file is where it was to go.
Kept == IF job.api = "put" THEN server.stored = Blocks ELSE got = Delivery

\* A transfer by c, the last reply of which is q.
FlowData(c, q) ==
    /\ Passive(job) \/ data.made
    /\ c = "stor" =>
        /\ q = <<>> => \/ Gone
                       \/ /\ ~data.cut /\ server.stored + data.flow + left = Blocks
                          /\ data.ended => left = 0
        /\ q = <<Ans(asked, 226)>> => server.stored = Blocks /\ left = 0
    /\ c = "retr" =>
        /\ got \in Seq({"block"})
        /\ q = <<>> => \/ Gone
                       \/ /\ ~data.ended /\ ~data.cut
                          /\ Len(got) + data.flow = server.stored /\ server.stored <= Blocks
        /\ q = <<Ans(asked, 226)>> => Gone \/ (data.ended /\ Len(got) + data.flow = Blocks)

\* The client is done with it.
MovedData(c, q) ==
    /\ FlowData(c, q)
    /\ q = <<>> => Gone \/ (c = "stor" /\ left = 0 /\ data.ended)
    /\ q = <<Ans(asked, 226)>> /\ c = "retr" => Gone \/ Len(got) = Blocks

\* Where the file is at each place.
FileData(s, q) ==
    /\ s.at \in {"start", "greet", "sink"} => Untouched
    /\ s.at = "talk" => IF s.did = 0 THEN Untouched ELSE Gone \/ Kept
    /\ s.at = "await" =>
        IF s.of \in {"stor", "retr"} /\ q # <<>> /\ Head(q).code = 150
        THEN FlowData(s.of, Tail(q)) /\ (s.of = "stor" => left = Blocks) /\ (s.of = "retr" => got = <<>>)
        ELSE IF s.did = 0 THEN Untouched
        ELSE (Gone /\ (q = <<>> \/ Head(q).code # 221)) \/ Kept
    /\ s.at = "more" => IF code = 213 THEN Untouched ELSE FlowData("retr", q) /\ got = <<>>
    /\ s.at = "flow" => FlowData(s.of, q)
    /\ s.at \in {"moved", "last"} => IF s.of = "greet" THEN Untouched ELSE MovedData(s.of, q)
    /\ s.at = "bye" => Kept

-----------------------------------------------------------------------------
\* The message.

\* The message of the call, as the server has to accept it.
TheMessage == [rcpts |-> job.rcpts, size |-> Blocks]

\* What the server has of it, whether the call goes on or not.
MailServer ==
    /\ server.mode \in {"away", "greeting", "command", "message"}
    /\ server.mode = "greeting" => toserver = <<>>
    /\ server.mode = "message" =>
        /\ server.rcpts = job.rcpts /\ server.accepted = <<>>
        /\ \A i \in 1..Len(toserver) :
            \/ toserver[i] = "block"
            \/ toserver[i] = "." /\ i = Len(toserver) /\ server.inbox + Len(toserver) - 1 = Blocks
    /\ server.mode = "command" =>
        \A i \in 1..Len(toserver) :
            /\ toserver[i] \notin {"block", ".", "stor", "retr"}
            /\ toserver[i] = "DATA" => /\ Len(toserver) = 1 /\ server.rcpts = job.rcpts
                                       /\ server.accepted = <<>> /\ server.inbox = 0
    /\ server.accepted \in {<<>>, <<TheMessage>>}

\* Where the message is at each place.
MailData(s, q) ==
    /\ s.at \in {"start", "greet"} =>
        left = Blocks /\ server.accepted = <<>> /\ server.inbox = 0 /\ server.rcpts = 0
    /\ s.at = "talk" \/ (s.at = "await" /\ s.of # ".") =>
        IF s.did <= job.rcpts
        THEN /\ left = Blocks /\ server.accepted = <<>>
             /\ \/ Gone
                \/ /\ server.inbox = 0
                   /\ server.rcpts = IF s.at = "await" /\ s.of = "RCPT" /\ q # <<>>
                                        /\ Head(q).code = 250
                                     THEN s.did + 1 ELSE s.did
        ELSE server.accepted = <<TheMessage>>
    /\ s.at \in {"message", "dot"} =>
        /\ Gone \/ server.inbox + Len(toserver) + left = Blocks
        /\ s.at = "dot" => left = 0
    /\ s.at = "await" /\ s.of = "." /\ q # <<>> /\ Head(q).code = 250 => server.accepted = <<TheMessage>>
    /\ s.at = "bye" => server.accepted = <<TheMessage>>

-----------------------------------------------------------------------------
\* Types.
Line == [code : Nat, sep : {"blank", "-"}, to : Nat]
Taken == [rcpts : Nat, size : Nat]
Data == [made : BOOLEAN, flow : Nat, ended : BOOLEAN, cut : BOOLEAN]
Serving == [mode : {"away", "greeting", "command", "message", "stor", "retr"}, read : Nat,
            rcpts : Nat, inbox : Nat, accepted : Seq(Taken), stored : Nat]

\* The type invariant of Dialogue.
TypeInv ==
    /\ job \in Jobs /\ code \in Nat /\ begun \in Nat /\ open \subseteq {"control", "data", "server", "lost"}
    /\ left \in Nat /\ got \in Seq({"block", "reply"}) /\ result \in {None, "done", "error"}
    /\ asked \in Nat /\ faults \in Nat
    /\ toserver \in Seq(Commands \cup {"block"})
    /\ replies \in Seq(Line) /\ data \in Data /\ server \in Serving

\* A call that goes on is at s, and q is on its way.
At(s, q) ==
    /\ Fit(job, s) /\ Talking(s, q)
    /\ job.api \in {"get", "put"} => FileData(s, q)
    /\ job.api = "send" => MailData(s, q)
    /\ s.made => "data" \in open

\* A call goes on from s, q being on its way.
Going(s, q) ==
    /\ \E u : Path(job, script, s, u)
    /\ OnWire(Lines, replies, begun, q, ~Gone)
    /\ At(s, q)

\* What holds when a call has returned as well.
Sound ==
    /\ job.api = "send" => MailServer
    /\ job.api # "send" => \A i \in 1..Len(toserver) : toserver[i] # "block"
    /\ result = "done" /\ job.api # "command" =>
        /\ server.mode = "away"
        /\ job.api = "send" => server.accepted = <<TheMessage>>
        /\ job.api # "send" => Kept
    /\ NoStall

\* The inductive invariant.
Inv ==
    /\ TypeInv /\ Sound
    /\ result = None => \E s \in Places, q \in Seq(Answers) : Going(s, q)

\* A line of a reply.
LineOf(d, sep, n) == [code |-> d, sep |-> sep, to |-> n]

\* R is the lines of the reply a.
IsReply(L, R, a) == R \in Seq(Line) /\ Len(R) = L /\ \A e \in 1..L : R[e] = TheLine(L, a, e)

\* The lines of a reply of the server.
LEMMA ReplyLines ==
    ASSUME NEW n, NEW c, job.multiline
    PROVE  Reply(n, c) = <<LineOf(c, "-", n), LineOf(999, "blank", n), LineOf(c, "-", n), LineOf(c, "blank", n)>>
BY Zenon DEF Reply, LineOf

\* A reply of one line.
LEMMA ReplyLine ==
    ASSUME NEW n, NEW c, ~job.multiline
    PROVE  Reply(n, c) = <<LineOf(c, "blank", n)>>
BY Zenon DEF Reply, LineOf

\* What the server says as an answer is a reply of as many lines as the server sends.
LEMMA ReplyIs ==
    ASSUME NEW n \in Nat, NEW c \in Nat \ {0, 999}, job.multiline \in BOOLEAN
    PROVE  IsReply(Lines, Reply(n, c), Ans(n, c))
<1> DEFINE a == Ans(n, c)
<1>0. a \in Answers /\ a.to = n /\ a.code = c
  BY DEF Answers, Ans
<1>1. CASE job.multiline
  <2> DEFINE p1 == LineOf(c, "-", n)
             p2 == LineOf(999, "blank", n)
             p4 == LineOf(c, "blank", n)
  <2>1. Reply(n, c) = <<p1, p2, p1, p4>>
    BY <1>1, ReplyLines
  <2>2. p1 = TheLine(4, a, 1) /\ p2 = TheLine(4, a, 2) /\ p1 = TheLine(4, a, 3) /\ p4 = TheLine(4, a, 4)
    BY <1>0 DEF TheLine, LineOf
  <2>3. p1 \in Line /\ p2 \in Line /\ p4 \in Line
    BY DEF Line, LineOf
  <2> HIDE DEF p1, p2, p4, a
  <2>4. /\ Reply(n, c) \in Seq(Line) /\ Len(Reply(n, c)) = 4
        /\ Reply(n, c)[1] = p1 /\ Reply(n, c)[2] = p2 /\ Reply(n, c)[3] = p1 /\ Reply(n, c)[4] = p4
    BY <2>1, <2>3
  <2>5. 1..4 = {1, 2, 3, 4}
    OBVIOUS
  <2>6. \A e \in 1..4 : Reply(n, c)[e] = TheLine(4, a, e)
    BY <2>2, <2>4, <2>5
  <2>7. IsReply(4, Reply(n, c), a)
    BY <2>4, <2>6 DEF IsReply
  <2>8. Lines = 4
    BY <1>1 DEF Lines
  <2>9. QED BY <2>7, <2>8 DEF a
<1>2. CASE ~job.multiline
  <2> DEFINE p1 == LineOf(c, "blank", n)
  <2>1. Reply(n, c) = <<p1>>
    BY <1>2, ReplyLine
  <2>2. p1 = TheLine(1, a, 1)
    BY <1>0 DEF TheLine, LineOf
  <2>3. p1 \in Line
    BY DEF Line, LineOf
  <2> HIDE DEF p1, a
  <2>4. Reply(n, c) \in Seq(Line) /\ Len(Reply(n, c)) = 1 /\ Reply(n, c)[1] = p1
    BY <2>1, <2>3
  <2>5. 1..1 = {1}
    OBVIOUS
  <2>6. \A e \in 1..1 : Reply(n, c)[e] = TheLine(1, a, e)
    BY <2>2, <2>4, <2>5
  <2>7. IsReply(1, Reply(n, c), a)
    BY <2>4, <2>6 DEF IsReply
  <2>8. Lines = 1
    BY <1>2 DEF Lines
  <2>9. QED BY <2>7, <2>8 DEF a
<1>3. QED BY <1>1, <1>2

\* A reply that is sent is on the wire, after those that are there.
LEMMA WireSends ==
    ASSUME NEW L \in {1, 4}, NEW rs \in Seq(Line), NEW b \in Nat, NEW q \in Seq(Answers),
           OnWire(L, rs, b, q, TRUE), NEW a \in Answers, NEW R, IsReply(L, R, a)
    PROVE  /\ rs \o R \in Seq(Line)
           /\ \A w \in BOOLEAN : OnWire(L, rs \o R, b, Append(q, a), w)
<1> DEFINE n == Len(q)
           r == Len(rs)
           x == rs \o R
           p == Append(q, a)
<1>1. L \in {1, 4} /\ L \in Nat
  OBVIOUS
<1>2. PICK k \in 0..L-1 :
        /\ k # 0 => q # <<>>
        /\ b = IF k = 0 THEN 0 ELSE q[1].code
        /\ r + k = L * n
        /\ \A i \in 1..n, e \in 1..L :
                L * (i - 1) + e - k \in 1..r => rs[L * (i - 1) + e - k] = TheLine(L, q[i], e)
  BY DEF OnWire
<1>5. R \in Seq(Line) /\ Len(R) = L /\ \A e \in 1..L : R[e] = TheLine(L, a, e)
  BY DEF IsReply
<1>6. n \in Nat /\ r \in Nat /\ k \in Nat
  BY <1>1
<1>7. x \in Seq(Line) /\ Len(x) = r + L
  BY <1>5
<1>8. \A i \in 1..r : x[i] = rs[i]
  BY <1>5
<1>9. \A i \in 1..L : x[r + i] = R[i]
  BY <1>5, <1>1
<1>10. p \in Seq(Answers) /\ Len(p) = n + 1 /\ p[n + 1] = a /\ \A i \in 1..n : p[i] = q[i]
  OBVIOUS
<1>11. p # <<>> /\ (k # 0 => p[1] = q[1])
  <2>1. k # 0 => n > 0
    BY <1>2, <1>6
  <2>2. p # <<>>
    OBVIOUS
  <2>3. n > 0 => 1 \in 1..n
    BY <1>6
  <2>4. QED BY <2>1, <2>2, <2>3, <1>10
<1> HIDE DEF n, r, x, p
<1>12. Len(x) + k = L * Len(p)
  BY <1>1, <1>2, <1>6, <1>7, <1>10
<1>13. ASSUME NEW i \in 1..Len(p), NEW e \in 1..L, L * (i - 1) + e - k \in 1..Len(x)
       PROVE  x[L * (i - 1) + e - k] = TheLine(L, p[i], e)
  <2> DEFINE z == L * (i - 1) + e - k
  <2>1. CASE i \in 1..n
    <3>1. z <= r /\ z >= 1 /\ z \in Int
      <4>1. L * (i - 1) + e <= L * n /\ L * (i - 1) + e \in Int
        <5>1. CASE L = 1
          BY <5>1, <2>1, <1>6
        <5>2. CASE L = 4
          BY <5>2, <2>1, <1>6
        <5>3. QED BY <5>1, <5>2, <1>1
      <4>2. L * n \in Nat
        BY <1>1, <1>6
      <4>z. L * (i - 1) + e - k >= 1
        <5>1. L * (i - 1) + e - k \in 1..Len(x)
          BY <1>13
        <5>2. QED BY <5>1
      <4> DEFINE y == L * (i - 1) + e
                 N == L * n
      <4>3. y <= N /\ y \in Int /\ N \in Nat /\ r + k = N /\ y - k >= 1
        BY <4>1, <4>2, <4>z, <1>2
      <4> HIDE DEF y, N
      <4>4. y - k <= r /\ y - k >= 1 /\ y - k \in Int
        BY <4>3, <1>6
      <4>5. QED BY <4>4 DEF y
    <3>2. z \in 1..r
      BY <3>1, <1>6
    <3>3. rs[z] = TheLine(L, q[i], e)
      BY <3>2, <2>1, <1>2
    <3>4. x[z] = rs[z]
      BY <3>2, <1>8
    <3>5. p[i] = q[i]
      BY <2>1, <1>10
    <3>6. QED BY <3>3, <3>4, <3>5
  <2>2. CASE i = n + 1
    <3>1. z = r + e
      BY <2>2, <1>1, <1>2, <1>6
    <3>2. x[r + e] = R[e]
      BY <1>9
    <3>3. R[e] = TheLine(L, a, e)
      BY <1>5
    <3>4. p[i] = a
      BY <2>2, <1>10
    <3>5. QED BY <3>1, <3>2, <3>3, <3>4
  <2>3. i \in 1..n \/ i = n + 1
    BY <1>6, <1>10
  <2>4. QED BY <2>1, <2>2, <2>3
<1>14. ASSUME NEW w \in BOOLEAN PROVE OnWire(L, x, b, p, w)
  <2>1. /\ k # 0 => p # <<>>
        /\ b = IF k = 0 THEN 0 ELSE p[1].code
        /\ Len(x) + k = L * Len(p) /\ Len(x) + k <= L * Len(p)
    BY <1>2, <1>6, <1>7, <1>1, <1>11, <1>12
  <2>2. QED BY <2>1, <1>13 DEF OnWire
<1>15. QED BY <1>7, <1>14 DEF x, p

\* The parts of a line of a reply.
LEMMA LineParts ==
    ASSUME NEW L, NEW a, NEW e, NEW x, x = TheLine(L, a, e)
    PROVE  /\ x.to = a.to
           /\ (L = 4 /\ e = 2 => x.code = 999) /\ (L # 4 \/ e # 2 => x.code = a.code)
           /\ (e = L \/ e = 2 => x.sep = "blank") /\ (e # L /\ e # 2 => x.sep = "-")
BY DEF TheLine

\* The client reads a line of what is on the wire.
Read(L, rs, b, q, w) ==
    /\ q # <<>> /\ Head(rs).to = Head(q).to
    /\ (IF b = 0 THEN Head(rs).code ELSE b) = Head(q).code
    /\ IF Head(rs).sep = "blank" /\ b \in {0, Head(rs).code}
       THEN OnWire(L, Tail(rs), 0, Tail(q), w)
       ELSE OnWire(L, Tail(rs), Head(q).code, q, w)

\* A line is read from what is on the way: it belongs to the first of the replies, and
\* it ends that reply exactly when Ends says so (get_reply).
LEMMA WireReads ==
    ASSUME NEW L \in {1, 4}, NEW rs \in Seq(Line), NEW b \in Nat, NEW q \in Seq(Answers), NEW w \in BOOLEAN,
           OnWire(L, rs, b, q, w), rs # <<>>
    PROVE  Read(L, rs, b, q, w)
<1> DEFINE n == Len(q)
           r == Len(rs)
           x == Tail(rs)
           p == Tail(q)
<1>1. L \in {1, 4} /\ L \in Nat
  OBVIOUS
<1>2. PICK k \in 0..L-1 :
        /\ k # 0 => q # <<>>
        /\ b = IF k = 0 THEN 0 ELSE q[1].code
        /\ r + k <= L * n /\ (w => r + k = L * n)
        /\ \A i \in 1..n, e \in 1..L :
                L * (i - 1) + e - k \in 1..r => rs[L * (i - 1) + e - k] = TheLine(L, q[i], e)
  BY DEF OnWire
<1>3. n \in Nat /\ r \in Nat /\ k \in Nat /\ r > 0
  BY <1>1
<1>4. n > 0
  <2>1. CASE n = 0
    BY <2>1, <1>1, <1>2, <1>3
  <2>2. QED BY <2>1, <1>3
<1>5. q # <<>> /\ q[1] \in Answers /\ Head(q) = q[1] /\ Head(rs) = rs[1]
  BY <1>4, <1>3
<1>6. p \in Seq(Answers) /\ Len(p) = n - 1 /\ \A i \in 1..n-1 : p[i] = q[i+1]
  BY <1>4
<1>7. x \in Seq(Line) /\ Len(x) = r - 1 /\ \A i \in 1..r-1 : x[i] = rs[i+1]
  BY <1>3
<1> HIDE DEF n, r, x, p
<1>8. rs[1] = TheLine(L, q[1], k + 1)
  <2>1. 1 \in 1..n /\ k + 1 \in 1..L /\ L * (1 - 1) + (k + 1) - k = 1 /\ 1 \in 1..r
    BY <1>1, <1>3, <1>4
  <2>2. QED BY <2>1, <1>2
<1>9. q[1].code \in Nat \ {0, 999}
  BY <1>5 DEF Answers
<1> DEFINE m == k + 1
<1>e. rs[1] = TheLine(L, q[1], m)
  BY <1>8
<1>f. (m = 2 <=> k = 1) /\ (m = L <=> k + 1 = L)
  BY <1>3
<1> HIDE DEF m
<1>t. rs[1].to = q[1].to
  BY ONLY <1>e, LineParts
<1>c. (L = 4 /\ k = 1 => rs[1].code = 999) /\ (L # 4 \/ k # 1 => rs[1].code = q[1].code)
  BY ONLY <1>e, <1>f, LineParts
<1>s. (k + 1 = L \/ k = 1 => rs[1].sep = "blank") /\ (k + 1 # L /\ k # 1 => rs[1].sep = "-")
  BY ONLY <1>e, <1>f, LineParts
<1>b. (k = 0 => b = 0) /\ (k # 0 => b = q[1].code)
  BY <1>2
<1>10. Head(rs).to = Head(q).to /\ (IF b = 0 THEN Head(rs).code ELSE b) = Head(q).code
  <2>1. CASE k = 0
    <3>1. b = 0 /\ rs[1].code = q[1].code /\ rs[1].to = q[1].to
      BY <2>1, <1>t, <1>c, <1>b, <1>3
    <3>2. QED BY <3>1, <1>5
  <2>2. CASE k # 0
    <3>1. b # 0 /\ b = q[1].code /\ rs[1].to = q[1].to
      BY <2>2, <1>t, <1>b, <1>9
    <3>2. QED BY <3>1, <1>5
  <2>3. QED BY <2>1, <2>2
<1>11. (rs[1].sep = "blank" /\ b \in {0, rs[1].code}) <=> k + 1 = L
  <2>1. CASE k + 1 = L
    <3>1. k # 1
      BY <2>1
    <3>2. rs[1].sep = "blank" /\ rs[1].code = q[1].code
      BY <3>1, <2>1, <1>c, <1>s
    <3>3. b = 0 \/ b = q[1].code
      BY <1>b
    <3>4. QED BY <2>1, <3>2, <3>3
  <2>2. CASE k + 1 # L /\ k = 1
    <3>1. L = 4
      BY <2>2, <1>1, <1>3
    <3>2. rs[1].code = 999 /\ b = q[1].code
      BY <3>1, <2>2, <1>c, <1>b
    <3>3. b # 0 /\ b # rs[1].code
      BY ONLY <3>2, <1>9
    <3>4. QED BY ONLY <2>2, <3>3
  <2>3. CASE k + 1 # L /\ k # 1
    <3>1. rs[1].sep = "-"
      BY <2>3, <1>s
    <3>2. QED BY <3>1, <2>3
  <2>4. QED BY <2>1, <2>2, <2>3
<1>12. CASE k + 1 = L
  <2>1. Len(x) + 0 <= L * Len(p) /\ (w => Len(x) + 0 = L * Len(p))
    <3>1. L * (n - 1) = L * n - L
      BY <1>1, <1>3
    <3> DEFINE N == L * n
               M == L * (n - 1)
    <3>2. M = N - L /\ N \in Nat /\ L \in Nat /\ r + k <= N /\ (w => r + k = N) /\ k + 1 = L
      BY <3>1, <1>2, <1>12, <1>1, <1>3
    <3> HIDE DEF M, N
    <3>3. (r - 1) <= M /\ (w => r - 1 = M)
      BY <3>2, <1>3
    <3>4. QED BY <3>3, <1>6, <1>7, <1>3 DEF M
  <2>2. ASSUME NEW i \in 1..Len(p), NEW e \in 1..L, L * (i - 1) + e - 0 \in 1..Len(x)
        PROVE  x[L * (i - 1) + e - 0] = TheLine(L, p[i], e)
    <3> DEFINE z == L * (i - 1) + e - 0
    <3>1. i + 1 \in 1..n /\ i \in 1..n-1
      BY <1>6, <1>3
    <3>2. z \in 1..r-1 /\ z + 1 \in 1..r
      BY <2>2, <1>7, <1>3
    <3>3. z + 1 = L * ((i + 1) - 1) + e - k
      BY <1>12, <1>1, <1>3, <3>1
    <3>4. rs[z + 1] = TheLine(L, q[i+1], e)
      BY <3>1, <3>2, <3>3, <1>2
    <3>5. x[z] = rs[z + 1] /\ p[i] = q[i+1]
      BY <3>1, <3>2, <1>6, <1>7
    <3>6. QED BY <3>4, <3>5
  <2>3. 0 \in 0..L-1
    BY <1>1
  <2>4. OnWire(L, x, 0, p, w)
    BY <2>1, <2>2, <2>3 DEF OnWire
  <2>5. QED BY <2>4, <1>12, <1>5, <1>10, <1>11 DEF x, p, Read
<1>13. CASE k + 1 # L
  <2>1. k + 1 \in 0..L-1 /\ k + 1 # 0
    BY <1>13, <1>1, <1>3
  <2>2. Len(x) + (k + 1) <= L * n /\ (w => Len(x) + (k + 1) = L * n)
    <3>1. L * n \in Nat
      BY <1>1, <1>3
    <3>2. QED BY <3>1, <1>2, <1>3, <1>7
  <2>3. ASSUME NEW i \in 1..n, NEW e \in 1..L, L * (i - 1) + e - (k + 1) \in 1..Len(x)
        PROVE  x[L * (i - 1) + e - (k + 1)] = TheLine(L, q[i], e)
    <3> DEFINE z == L * (i - 1) + e - (k + 1)
    <3>1. z \in 1..r-1 /\ z + 1 \in 1..r
      BY <2>3, <1>7, <1>3
    <3>2. L * (i - 1) + e \in Int
      BY <1>1, <1>3
    <3>3. z + 1 = L * (i - 1) + e - k
      <4> DEFINE y == L * (i - 1) + e
      <4>1. y \in Int
        BY <3>2
      <4> HIDE DEF y
      <4>2. (y - (k + 1)) + 1 = y - k
        BY <4>1, <1>3
      <4>3. QED BY <4>2 DEF y
    <3>4. rs[z + 1] = TheLine(L, q[i], e)
      BY <3>1, <3>3, <1>2
    <3>5. x[z] = rs[z + 1]
      BY <3>1, <1>7
    <3>6. QED BY <3>4, <3>5
  <2>4. OnWire(L, x, q[1].code, q, w)
    BY <2>1, <2>2, <2>3, <1>5 DEF OnWire, n
  <2>5. QED BY <2>4, <1>13, <1>5, <1>10, <1>11 DEF x, Read
<1>14. QED BY <1>5, <1>10, <1>12, <1>13 DEF Read

\* Lines are lost.
LEMMA WireLoses ==
    ASSUME NEW L \in {1, 4}, NEW rs \in Seq(Line), NEW b \in Nat, NEW q \in Seq(Answers), NEW w,
           OnWire(L, rs, b, q, w), NEW r \in 0..Len(rs)
    PROVE  OnWire(L, SubSeq(rs, 1, r), b, q, FALSE)
<1> DEFINE x == SubSeq(rs, 1, r)
<1>1. Len(x) = r /\ \A i \in 1..r : x[i] = rs[i]
  OBVIOUS
<1>2. PICK k \in 0..L-1 :
        /\ k # 0 => q # <<>>
        /\ b = IF k = 0 THEN 0 ELSE q[1].code
        /\ Len(rs) + k <= L * Len(q)
        /\ \A i \in 1..Len(q), e \in 1..L :
                L * (i - 1) + e - k \in 1..Len(rs) => rs[L * (i - 1) + e - k] = TheLine(L, q[i], e)
  BY DEF OnWire
<1>3. 1..r \subseteq 1..Len(rs)
  OBVIOUS
<1>4. L \in {1, 4}
  OBVIOUS
<1>5. Len(x) + k <= L * Len(q)
  <2>1. L * Len(q) \in Nat /\ r <= Len(rs) /\ r \in Nat /\ Len(rs) \in Nat /\ k \in Nat
    BY <1>4

  <2>2. QED BY <2>1, <1>1, <1>2
<1> HIDE DEF x
<1>6. \A i \in 1..Len(q), e \in 1..L :
          L * (i - 1) + e - k \in 1..Len(x) => x[L * (i - 1) + e - k] = TheLine(L, q[i], e)
  BY <1>1, <1>2, <1>3
<1>7. OnWire(L, x, b, q, FALSE)
  BY <1>2, <1>5, <1>6 DEF OnWire
<1>8. QED BY <1>7 DEF x

\* When nothing is lost, nothing unread is all there is.
LEMMA WireEmpty ==
    ASSUME NEW L \in {1, 4}, NEW b, NEW q \in Seq(Answers), OnWire(L, <<>>, b, q, TRUE)
    PROVE  q = <<>>
<1>1. L \in {1, 4}
  OBVIOUS
<1>2. PICK k \in 0..L-1 : 0 + k = L * Len(q)
  BY DEF OnWire
<1>3. Len(q) = 0
  BY <1>1, <1>2
<1>4. QED BY <1>3

\* Nothing was sent.
LEMMA WireBegins ==
    ASSUME NEW L \in {1, 4}, NEW w
    PROVE  OnWire(L, <<>>, 0, <<>>, w)
<1>1. L * 0 = 0 /\ 0 \in 0..L-1 /\ Len(<<>>) = 0
  OBVIOUS
<1>2. QED BY <1>1 DEF OnWire

-----------------------------------------------------------------------------
\* The steps of a script, by what they do.

\* The conditional steps are no others.
LEMMA Ifs ==
    ASSUME NEW j
    PROVE  LastReply.op = "if" /\ Pass.op = "if" /\ Fetch(j).op = "if"
BY DEF LastReply, Pass, Fetch

\* A command is a step of one kind,
LEMMA CommandSteps ==
    ASSUME NEW j, NEW s, NEW o, NEW t, Step(j, s, o, t), o.op = "command"
    PROVE  CommandStep(j, s, o, t)
BY DEF Step

\* a check of another,
LEMMA CheckSteps ==
    ASSUME NEW j, NEW s, NEW o, NEW t, Step(j, s, o, t), o.op = "check"
    PROVE  CheckStep(j, s, o, t)
BY DEF Step

\* and every other call of one each.
LEMMA OtherSteps ==
    ASSUME NEW j, NEW s, NEW o, NEW t, Step(j, s, o, t)
    PROVE  /\ o.op = "open" => s.at = "start" /\ t = Place("greet", None, s.did, FALSE)
           /\ o.op = "if" =>
                \/ o = LastReply /\ s.at = "moved" /\ t = Finished(s)
                \/ o = Pass /\ s.at = "talk" /\ s.of = None /\ t = s
                \/ s.at = "more" /\ j.api = "get" /\ o = Fetch(j) /\ t = Finished(s)
           /\ o.op = "source" => s.at = "message" /\ t = Place("dot", None, s.did, FALSE)
           /\ o.op = "connect" => s.at = "talk" /\ s.did = 0 /\ Passive(j) /\ t = Talk(0, TRUE)
           /\ o.op = "accept" => s.at = "flow" /\ ~Passive(j) /\ t = Place("flow", s.of, s.did, TRUE)
           /\ o.op = "upload" => /\ s.at = "flow" /\ s.of = "stor" /\ s.made
                                 /\ t = Place("moved", "stor", s.did, FALSE)
           /\ o.op = "download" => /\ s.at = "flow" /\ s.of = "retr"
                                   /\ t = Place("moved", "retr", s.did, FALSE)
           /\ o.op = "sink_reply" => s.at = "sink" /\ t = Finished(s)
           /\ o.op \in {"listen", "passive"} => s.at = "talk" /\ t = s
           /\ o.op = "close_data" => s.at = "talk" /\ s.did = 1 /\ ~s.made /\ t = s
           /\ o.op = "fail" => j.api = "send" /\ j.user /\ j.ext = None
           /\ o.op = "close" => s.at \in {"bye", "loose"}
<1>1. o.op \notin {"command", "check"} => OtherStep(j, s, o, t)
  BY DEF Step
<1>2. CASE o.op = "if"
  BY <1>1, <1>2 DEF OtherStep
<1>3. CASE o.op \in {"command", "check"}
  BY <1>3
<1>4. CASE o.op \notin {"if", "command", "check"}
  <2>1. o # LastReply /\ o # Pass /\ o # Fetch(j)
    BY <1>4, Ifs
  <2> DEFINE p == o.op
  <2>2. CASE p = "open"
    BY <2>1, <2>2, <1>1 DEF OtherStep
  <2>3. CASE p = "source"
    BY <2>1, <2>3, <1>1 DEF OtherStep
  <2>4. CASE p = "connect"
    BY <2>1, <2>4, <1>1 DEF OtherStep
  <2>5. CASE p = "accept"
    BY <2>1, <2>5, <1>1 DEF OtherStep
  <2>6. CASE p = "upload"
    BY <2>1, <2>6, <1>1 DEF OtherStep
  <2>7. CASE p = "download"
    BY <2>1, <2>7, <1>1 DEF OtherStep
  <2>8. CASE p = "sink_reply"
    BY <2>1, <2>8, <1>1 DEF OtherStep
  <2>9. CASE p \in {"listen", "passive"}
    BY <2>1, <2>9, <1>1 DEF OtherStep
  <2>10. CASE p = "close_data"
    BY <2>1, <2>10, <1>1 DEF OtherStep
  <2>11. CASE p = "fail"
    BY <2>1, <2>11, <1>1 DEF OtherStep
  <2>12. CASE p = "close"
    BY <2>1, <2>12, <1>1 DEF OtherStep
  <2>13. CASE p \notin {"open", "source", "connect", "accept", "upload", "download", "sink_reply",
                        "listen", "passive", "close_data", "fail", "close"}
    BY <2>13, <1>4
  <2>14. QED BY <2>2, <2>3, <2>4, <2>5, <2>6, <2>7, <2>8, <2>9, <2>10, <2>11, <2>12, <2>13
<1>5. QED BY <1>2, <1>3, <1>4

\* A place is its parts.
LEMMA Parts ==
    ASSUME NEW at, NEW of, NEW did, NEW made
    PROVE  /\ Place(at, of, did, made).at = at /\ Place(at, of, did, made).of = of
           /\ Place(at, of, did, made).did = did /\ Place(at, of, did, made).made = made
BY DEF Place

\* A place is all of its parts.
LEMMA PlaceParts ==
    ASSUME NEW s \in Places
    PROVE  /\ s = Place(s.at, s.of, s.did, s.made)
           /\ s.at \in Points /\ s.did \in Nat /\ s.made \in BOOLEAN
BY DEF Places, Place

\* The parts of a place between two commands,
LEMMA TalkParts ==
    ASSUME NEW did, NEW made
    PROVE  Talk(did, made).at = "talk" /\ Talk(did, made).of = None
           /\ Talk(did, made).did = did /\ Talk(did, made).made = made
BY Parts DEF Talk

\* and of the places after a last reply.
LEMMA FinishedParts ==
    ASSUME NEW s
    PROVE  /\ s.of = "greet" => Finished(s) = Talk(s.did, FALSE)
           /\ s.of # "greet" => Finished(s) = Talk(1, FALSE)
BY DEF Finished

\* The place a call moves to is one it may be at.

\* From a place a call may be at, a command leads to another;
LEMMA FitCommand ==
    ASSUME NEW j, NEW s \in Places, Fit(j, s), NEW o, NEW t, CommandStep(j, s, o, t), o.name \in Commands
    PROVE  Fit(j, t)
<1>1. CASE s.at = "talk" /\ Due(j, s, o.name) /\ t = Place("await", o.name, s.did, s.made)
  <2>1. t.at = "await" /\ t.of = o.name /\ t.did = s.did /\ t.made = s.made
    BY <1>1 DEF Place
  <2>2. Due(j, s, t.of) /\ t.of \in Commands
    BY <1>1, <2>1
  <2>3. Moves(j, t) <=> ((t.of = "stor" /\ j.api = "put") \/ (t.of = "retr" /\ j.api = "get")) /\ t.did = 0
    BY DEF Moves
  <2>4. QED BY <2>1, <2>2, <2>3 DEF Due, Fit
<1>2. CASE s.at = "dot" /\ o.name = "." /\ t = Place("await", ".", s.did, FALSE)
  <2>1. t.at = "await" /\ t.of = "." /\ t.did = s.did
    BY <1>2 DEF Place
  <2>2. j.api = "send" /\ s.did = j.rcpts
    BY <1>2 DEF Fit
  <2>3. "." \in Commands
    BY DEF Commands
  <2>4. QED BY <2>1, <2>2, <2>3 DEF Fit
<1>3. CASE Loosely(j) /\ o.name \in {"other", "QUIT"} /\ t = Place("loose", o.name, s.did + 1, FALSE)
  <2>1. t.at = "loose" /\ t.of = o.name
    BY <1>3 DEF Place
  <2>2. QED BY <2>1, <1>3 DEF Fit
<1>4. QED BY <1>1, <1>2, <1>3 DEF CommandStep

\* A command does not come next at "." or at the block of a message.
LEMMA AnsweredParts ==
    ASSUME NEW s
    PROVE  /\ s.of = "DATA" => Answered(s) = Place("message", None, s.did, FALSE)
           /\ s.of = "stor" => Answered(s) = Place("flow", "stor", s.did, s.made)
           /\ s.of = "retr" => Answered(s) = Place("more", "retr", s.did, s.made)
           /\ s.of = "QUIT" => Answered(s) = Place("bye", None, s.did, FALSE)
           /\ s.of \in {"RCPT", "."} => Answered(s) = Talk(s.did + 1, FALSE)
           /\ s.of \notin {"DATA", "stor", "retr", "QUIT", "RCPT", "."} => Answered(s) = Talk(s.did, s.made)
BY DEF Answered

\* so does every step that ends between two commands,
LEMMA FitTalk ==
    ASSUME NEW j, NEW d, NEW m
    PROVE  Fit(j, Talk(d, m))
BY TalkParts DEF Fit

\* an answer,
LEMMA FitAnswered ==
    ASSUME NEW j, NEW s \in Places, Fit(j, s), s.at = "await"
    PROVE  Fit(j, Answered(s))
<1> DEFINE t == Answered(s)
<1>0. /\ s.of = "RCPT" => j.api = "send" /\ s.did < j.rcpts
      /\ s.of \in {"DATA", "."} => j.api = "send" /\ s.did = j.rcpts
      /\ s.of \in {"stor", "retr"} => Moves(j, s) /\ s.made = Passive(j)
      /\ s.of = "QUIT" => j.api = "command" \/ s.did = Complete(j)
  BY DEF Fit
<1>a. /\ s.of = "DATA" => t = Place("message", None, s.did, FALSE)
      /\ s.of = "stor" => t = Place("flow", "stor", s.did, s.made)
      /\ s.of = "retr" => t = Place("more", "retr", s.did, s.made)
      /\ s.of = "QUIT" => t = Place("bye", None, s.did, FALSE)
      /\ s.of \notin {"DATA", "stor", "retr", "QUIT"} => t \in {Talk(s.did + 1, FALSE), Talk(s.did, s.made)}
  BY AnsweredParts
<1> HIDE DEF t
<1>1. CASE s.of = "DATA"
  <2>0. t = Place("message", None, s.did, FALSE)
    BY <1>1, <1>a
  <2>1. t.at = "message" /\ t.did = s.did
    BY <2>0 DEF Place
  <2>2. QED BY <2>1, <1>0, <1>1 DEF Fit, t
<1>2. CASE s.of = "stor"
  <2>0. t = Place("flow", "stor", s.did, s.made)
    BY <1>2, <1>a
  <2>1. t.at = "flow" /\ t.did = s.did /\ t.of = "stor"
    BY <2>0, Parts
  <2>2. Moves(j, t)
    BY <2>1, <1>0, <1>2 DEF Moves
  <2>3. QED BY <2>1, <2>2 DEF Fit, t
<1>3. CASE s.of = "retr"
  <2>0. t = Place("more", "retr", s.did, s.made)
    BY <1>3, <1>a
  <2>1. t.at = "more" /\ t.did = s.did /\ t.of = "retr" /\ t.made = s.made
    BY <2>0, Parts
  <2>2. Moves(j, t)
    BY <2>1, <1>0, <1>3 DEF Moves
  <2>3. QED BY <2>1, <2>2, <1>0, <1>3 DEF Fit, t
<1>4. CASE s.of = "QUIT"
  <2>0. t = Place("bye", None, s.did, FALSE)
    BY <1>4, <1>a
  <2>1. t.at = "bye" /\ t.did = s.did
    BY <2>0 DEF Place
  <2>2. QED BY <2>1, <1>0, <1>4 DEF Fit, t
<1>5. CASE s.of \notin {"DATA", "stor", "retr", "QUIT"}
  <2>1. t \in {Talk(s.did + 1, FALSE), Talk(s.did, s.made)}
    BY <1>5, <1>a
  <2>2. QED BY <2>1, FitTalk DEF t
<1>6. QED BY <1>1, <1>2, <1>3, <1>4, <1>5 DEF t

\* a last reply,
LEMMA FitFinished ==
    ASSUME NEW j, NEW s
    PROVE  Fit(j, Finished(s))
BY FinishedParts, FitTalk

\* and so any check.
LEMMA FitCheck ==
    ASSUME NEW j, NEW s \in Places, Fit(j, s), NEW o, NEW t, CheckStep(j, s, o, t)
    PROVE  Fit(j, t)
<1>1. CASE s.at = "greet" /\ t = Talk(s.did, FALSE)
  BY <1>1, FitTalk
<1>2. CASE s.at = "greet" /\ j.api # "send" /\ t = Place("moved", "greet", s.did, FALSE)
  <2>1. t.at = "moved" /\ t.of = "greet" /\ t.did = s.did
    BY <1>2 DEF Place
  <2>2. s.did = 0
    BY <1>2 DEF Fit
  <2>3. QED BY <2>1, <2>2, <1>2 DEF Fit
<1>3. CASE s.at = "await" /\ t = Answered(s)
  BY <1>3, FitAnswered
<1>4. CASE t = Finished(s)
  BY <1>4, FitFinished
<1>5. CASE s.at = "loose" /\ t = Place("loose", s.of, s.did - 1, FALSE)
  <2>1. t.at = "loose" /\ t.of = s.of
    BY <1>5 DEF Place
  <2>2. QED BY <2>1, <1>5 DEF Fit
<1>6. QED BY <1>1, <1>2, <1>3, <1>4, <1>5 DEF CheckStep

\* The places the other steps lead to.
LEMMA FitOthers ==
    ASSUME NEW j, NEW s \in Places, Fit(j, s)
    PROVE  /\ s.at = "start" => Fit(j, Place("greet", None, s.did, FALSE))
           /\ s.at = "message" => Fit(j, Place("dot", None, s.did, FALSE))
           /\ s.at = "flow" => /\ Fit(j, Place("flow", s.of, s.did, TRUE))
                              /\ Fit(j, Place("moved", s.of, s.did, FALSE))
           /\ s.at = "moved" => Fit(j, Place("last", s.of, s.did, FALSE))
           /\ s.at = "more" /\ j.direct => Fit(j, Place("sink", s.of, s.did, FALSE))
           /\ s.at = "more" /\ ~j.direct => Fit(j, Place("flow", "retr", 0, Passive(j)))
<1>1. ASSUME s.at = "start" PROVE Fit(j, Place("greet", None, s.did, FALSE))
  <2> DEFINE t == Place("greet", None, s.did, FALSE)
  <2>1. t.at = "greet" /\ t.did = s.did
    BY DEF Place
  <2>2. s.did = 0
    BY <1>1 DEF Fit
  <2> HIDE DEF t
  <2>3. Fit(j, t)
    BY <2>1, <2>2 DEF Fit
  <2>4. QED BY <2>3 DEF t
<1>2. ASSUME s.at = "message" PROVE Fit(j, Place("dot", None, s.did, FALSE))
  <2> DEFINE t == Place("dot", None, s.did, FALSE)
  <2>1. t.at = "dot" /\ t.did = s.did
    BY DEF Place
  <2>2. j.api = "send" /\ s.did = j.rcpts
    BY <1>2 DEF Fit
  <2> HIDE DEF t
  <2>3. Fit(j, t)
    BY <2>1, <2>2 DEF Fit
  <2>4. QED BY <2>3 DEF t
<1>3. ASSUME s.at = "flow" PROVE Fit(j, Place("flow", s.of, s.did, TRUE))
  <2> DEFINE t == Place("flow", s.of, s.did, TRUE)
  <2>1. t.at = "flow" /\ t.did = s.did /\ t.of = s.of
    BY DEF Place
  <2>2. Moves(j, s) /\ (s.of = "retr" => ~j.direct)
    BY <1>3 DEF Fit
  <2> HIDE DEF t
  <2>3. Moves(j, t)
    BY <2>1, <2>2 DEF Moves
  <2>4. Fit(j, t)
    BY <2>1, <2>2, <2>3 DEF Fit
  <2>5. QED BY <2>4 DEF t
<1>4. ASSUME s.at = "flow" PROVE Fit(j, Place("moved", s.of, s.did, FALSE))
  <2> DEFINE t == Place("moved", s.of, s.did, FALSE)
  <2>1. t.at = "moved" /\ t.did = s.did /\ t.of = s.of
    BY DEF Place
  <2>2. Moves(j, s) /\ (s.of = "retr" => ~j.direct)
    BY <1>4 DEF Fit
  <2> HIDE DEF t
  <2>3. Moves(j, t)
    BY <2>1, <2>2 DEF Moves
  <2>4. Fit(j, t)
    BY <2>1, <2>2, <2>3 DEF Fit
  <2>5. QED BY <2>4 DEF t
<1>5. ASSUME s.at = "moved" PROVE Fit(j, Place("last", s.of, s.did, FALSE))
  <2> DEFINE t == Place("last", s.of, s.did, FALSE)
  <2>1. t.at = "last" /\ t.did = s.did /\ t.of = s.of
    BY DEF Place
  <2>2. (s.of = "greet" /\ j.api # "send" /\ s.did = 0) \/ (Moves(j, s) /\ (s.of = "retr" => ~j.direct))
    BY <1>5 DEF Fit
  <2> HIDE DEF t
  <2>3. Moves(j, s) => Moves(j, t)
    BY <2>1 DEF Moves
  <2>4. Fit(j, t)
    BY <2>1, <2>2, <2>3 DEF Fit
  <2>5. QED BY <2>4 DEF t
<1>6. ASSUME s.at = "more", j.direct PROVE Fit(j, Place("sink", s.of, s.did, FALSE))
  <2> DEFINE t == Place("sink", s.of, s.did, FALSE)
  <2>1. t.at = "sink" /\ t.did = s.did /\ t.of = s.of
    BY DEF Place
  <2>2. s.of = "retr" /\ Moves(j, s)
    BY <1>6 DEF Fit
  <2> HIDE DEF t
  <2>3. Moves(j, t)
    BY <2>1, <2>2 DEF Moves
  <2>4. Fit(j, t)
    BY <2>1, <2>2, <2>3, <1>6 DEF Fit
  <2>5. QED BY <2>4 DEF t
<1>7. ASSUME s.at = "more", ~j.direct PROVE Fit(j, Place("flow", "retr", 0, Passive(j)))
  <2> DEFINE t == Place("flow", "retr", 0, Passive(j))
  <2>1. t.at = "flow" /\ t.did = 0 /\ t.of = "retr"
    BY DEF Place
  <2>2. s.of = "retr" /\ Moves(j, s)
    BY <1>7 DEF Fit
  <2> HIDE DEF t
  <2>3. Moves(j, t)
    BY <2>1, <2>2 DEF Moves
  <2>4. Fit(j, t)
    BY <2>1, <2>2, <2>3, <1>7 DEF Fit
  <2>5. QED BY <2>4 DEF t
<1>8. QED BY <1>1, <1>2, <1>3, <1>4, <1>5, <1>6, <1>7

-----------------------------------------------------------------------------
\* Answers, and the replies on the way.

\* An answer is its parts;
LEMMA AnsParts ==
    ASSUME NEW n \in Nat, NEW c \in Nat \ {0, 999}
    PROVE  Ans(n, c) \in Answers /\ Ans(n, c).to = n /\ Ans(n, c).code = c
BY DEF Ans, Answers

\* a reply on the way alone,
LEMMA OneReply ==
    ASSUME NEW a \in Answers
    PROVE  /\ <<a>> \in Seq(Answers) /\ <<a>> # <<>> /\ Head(<<a>>) = a /\ Tail(<<a>>) = <<>>
           /\ Len(<<a>>) = 1 /\ Append(<<>>, a) = <<a>>
OBVIOUS

\* and two of them.
LEMMA TwoReplies ==
    ASSUME NEW a \in Answers, NEW b \in Answers
    PROVE  /\ <<a, b>> \in Seq(Answers) /\ <<a, b>> # <<>> /\ Head(<<a, b>>) = a /\ Tail(<<a, b>>) = <<b>>
           /\ Append(<<a>>, b) = <<a, b>>
<1>1. <<a, b>> \in Seq(Answers) /\ <<a, b>> # <<>>
  OBVIOUS
<1>2. Head(<<a, b>>) = a
  OBVIOUS
<1>3. Tail(<<a, b>>) = <<b>>
  OBVIOUS
<1>4. Append(<<a>>, b) = <<a, b>>
  <2> DEFINE x == Append(<<a>>, b)
             y == <<a, b>>
  <2>1. x \in Seq(Answers) /\ Len(x) = 2 /\ x[1] = a /\ x[2] = b
    OBVIOUS
  <2>2. y \in Seq(Answers) /\ Len(y) = 2 /\ y[1] = a /\ y[2] = b
    OBVIOUS
  <2> HIDE DEF x, y
  <2>3. \A i \in 1..2 : i = 1 \/ i = 2
    OBVIOUS
  <2>4. \A i \in 1..Len(x) : x[i] = y[i]
    BY <2>1, <2>2, <2>3
  <2>5. x = y
    BY <2>1, <2>2, <2>4, SeqEqual
  <2>6. QED BY <2>5 DEF x, y
<1>5. QED BY <1>1, <1>2, <1>3, <1>4

\* The replies of the server have these codes.
Said == {120, 150, 200, 213, 220, 221, 226, 227, 229, 230, 235, 250, 331, 334, 354, 421, 426, 500, 554}

\* Codes of replies are none of the numbers the lines between have.
LEMMA SaidTyped == Said \subseteq Nat \ {0, 999}
BY DEF Said

\* The answers of Codes are among them.
LEMMA CodesSaid == \A j, c : Codes(j, c) \subseteq Said
<1>1. ASSUME NEW j, NEW c PROVE Codes(j, c) \subseteq Said
  <2>1. CASE c = "AUTH"
    <3>1. Codes(j, c) = {IF j.ext = "login" THEN 334 ELSE 235}
      BY ONLY <2>1 DEF Codes
    <3>2. Codes(j, c) \subseteq {334, 235}
      BY ONLY <3>1
    <3>3. QED BY ONLY <3>2 DEF Said
  <2>2. CASE c = "retr"
    <3>1. Codes(j, c) = {IF j.direct THEN 213 ELSE 150}
      BY ONLY <2>2 DEF Codes
    <3>2. Codes(j, c) \subseteq {213, 150}
      BY ONLY <3>1
    <3>3. QED BY ONLY <3>2 DEF Said
  <2>3. CASE c = "EHLO"
    <3>1. Codes(j, c) = {250}
      BY ONLY <2>3 DEF Codes
    <3>2. QED BY ONLY <3>1 DEF Said
  <2>4. CASE c = "MAIL"
    <3>1. Codes(j, c) = {250}
      BY ONLY <2>4 DEF Codes
    <3>2. QED BY ONLY <3>1 DEF Said
  <2>5. CASE c = "RCPT"
    <3>1. Codes(j, c) = {250}
      BY ONLY <2>5 DEF Codes
    <3>2. QED BY ONLY <3>1 DEF Said
  <2>6. CASE c = "username"
    <3>1. Codes(j, c) = {334}
      BY ONLY <2>6 DEF Codes
    <3>2. QED BY ONLY <3>1 DEF Said
  <2>7. CASE c = "password"
    <3>1. Codes(j, c) = {235}
      BY ONLY <2>7 DEF Codes
    <3>2. QED BY ONLY <3>1 DEF Said
  <2>8. CASE c = "DATA"
    <3>1. Codes(j, c) = {354}
      BY ONLY <2>8 DEF Codes
    <3>2. QED BY ONLY <3>1 DEF Said
  <2>9. CASE c = "QUIT"
    <3>1. Codes(j, c) = {221}
      BY ONLY <2>9 DEF Codes
    <3>2. QED BY ONLY <3>1 DEF Said
  <2>10. CASE c = "user"
    <3>1. Codes(j, c) = {230, 331}
      BY ONLY <2>10 DEF Codes
    <3>2. QED BY ONLY <3>1 DEF Said
  <2>11. CASE c = "pass"
    <3>1. Codes(j, c) = {230}
      BY ONLY <2>11 DEF Codes
    <3>2. QED BY ONLY <3>1 DEF Said
  <2>12. CASE c = "epsv"
    <3>1. Codes(j, c) = {229}
      BY ONLY <2>12 DEF Codes
    <3>2. QED BY ONLY <3>1 DEF Said
  <2>13. CASE c = "pasv"
    <3>1. Codes(j, c) = {227}
      BY ONLY <2>13 DEF Codes
    <3>2. QED BY ONLY <3>1 DEF Said
  <2>14. CASE c = "stor"
    <3>1. Codes(j, c) = {150}
      BY ONLY <2>14 DEF Codes
    <3>2. QED BY ONLY <3>1 DEF Said
  <2>15. CASE c \notin {"EHLO", "MAIL", "RCPT", "AUTH", "username", "password", "DATA", "QUIT", "user",
                       "pass", "epsv", "pasv", "retr", "stor"}
    <3>1. Codes(j, c) = {200}
      BY <2>15 DEF Codes
    <3>2. QED BY <3>1 DEF Said
  <2>16. QED BY <2>1, <2>2, <2>3, <2>4, <2>5, <2>6, <2>7, <2>8, <2>9, <2>10, <2>11, <2>12, <2>13, <2>14, <2>15
<1>2. QED BY <1>1

\* The one reply that is there is the one with this code.
LEMMA SameReply ==
    ASSUME NEW n \in Nat, NEW c \in Said, NEW d \in Said, <<Ans(n, c)>> = <<Ans(n, d)>>
    PROVE  c = d
<1>1. Ans(n, c) = Ans(n, d)
  <2> DEFINE a == Ans(n, c)
             b == Ans(n, d)
  <2>1. <<a>> = <<b>>
    OBVIOUS
  <2> HIDE DEF a, b
  <2>2. <<a>>[1] = a /\ <<b>>[1] = b
    OBVIOUS
  <2>3. a = b
    BY <2>1, <2>2
  <2>4. QED BY <2>3 DEF a, b
<1>2. Ans(n, c).code = c /\ Ans(n, d).code = d
  BY AnsParts, SaidTyped
<1>3. QED BY <1>1, <1>2

\* What is on the wire, for what the server has become.
LEMMA WireWeak ==
    ASSUME NEW L, NEW rs, NEW b, NEW q, NEW w, OnWire(L, rs, b, q, w)
    PROVE  OnWire(L, rs, b, q, FALSE)
<1>1. PICK k \in 0..L-1 :
        /\ k # 0 => q # <<>>
        /\ b = IF k = 0 THEN 0 ELSE q[1].code
        /\ Len(rs) + k <= L * Len(q)
        /\ \A i \in 1..Len(q), e \in 1..L :
                L * (i - 1) + e - k \in 1..Len(rs) => rs[L * (i - 1) + e - k] = TheLine(L, q[i], e)
  BY DEF OnWire
<1>2. QED BY <1>1 DEF OnWire

\* What has lost nothing may be taken for what may have.
LEMMA WireStrong ==
    ASSUME NEW L, NEW rs, NEW b, NEW q, OnWire(L, rs, b, q, TRUE), NEW w
    PROVE  OnWire(L, rs, b, q, w)
<1>1. PICK k \in 0..L-1 :
        /\ k # 0 => q # <<>>
        /\ b = IF k = 0 THEN 0 ELSE q[1].code
        /\ Len(rs) + k <= L * Len(q)
        /\ Len(rs) + k = L * Len(q)
        /\ \A i \in 1..Len(q), e \in 1..L :
                L * (i - 1) + e - k \in 1..Len(rs) => rs[L * (i - 1) + e - k] = TheLine(L, q[i], e)
  BY DEF OnWire
<1>2. QED BY <1>1 DEF OnWire

\* q is on the way to the client, whole unless the server has gone.
Wire(q) == OnWire(Lines, replies, begun, q, ~Gone)

\* The two forms of it.
LEMMA WireNow ==
    ASSUME NEW q, Wire(q)
    PROVE  /\ ~Gone => OnWire(Lines, replies, begun, q, TRUE)
           /\ OnWire(Lines, replies, begun, q, FALSE)
<1>1. CASE Gone
  <2>1. (~Gone) = FALSE
    BY <1>1 DEF Gone
  <2>2. QED BY <1>1, <2>1 DEF Wire
<1>2. CASE ~Gone
  <2>1. (~Gone) = TRUE
    BY <1>2 DEF Gone
  <2>2. OnWire(Lines, replies, begun, q, TRUE)
    BY <2>1 DEF Wire
  <2>3. QED BY <2>2, <1>2, WireWeak
<1>3. QED BY <1>1, <1>2

\* How it is shown of the next state.
LEMMA WireNext ==
    ASSUME NEW q, UNCHANGED job,
           \/ OnWire(Lines, replies', begun', q, TRUE)
           \/ Gone' /\ OnWire(Lines, replies', begun', q, FALSE)
    PROVE  Wire(q)'
<1>1. Lines' = Lines
  BY DEF Lines
<1>2. CASE OnWire(Lines, replies', begun', q, TRUE)
  <2>1. OnWire(Lines, replies', begun', q, ~Gone')
    BY <1>2, WireStrong
  <2>2. QED BY <1>1, <2>1 DEF Wire
<1>3. CASE Gone' /\ OnWire(Lines, replies', begun', q, FALSE)
  <2>1. (~Gone') = FALSE
    BY <1>3 DEF Gone
  <2>2. QED BY <1>1, <1>3, <2>1 DEF Wire
<1>4. QED BY <1>2, <1>3

\* The lines of a reply, typed.
LEMMA LinesTyped ==
    ASSUME TypeInv
    PROVE  /\ Lines \in {1, 4} /\ job.multiline \in BOOLEAN
           /\ replies \in Seq(Line) /\ begun \in Nat
<1>1. job \in Jobs /\ replies \in Seq(Line) /\ begun \in Nat
  BY DEF TypeInv
<1>2. job.multiline \in BOOLEAN
  BY <1>1, DialogueAssumption
<1>3. QED BY <1>1, <1>2 DEF Lines

\* What the server says comes after what it has said.
LEMMA WireSaid ==
    ASSUME TypeInv, NEW q \in Seq(Answers), Wire(q), ~Gone, UNCHANGED <<job, begun>>,
           NEW n \in Nat, NEW c \in Said, replies' = replies \o Reply(n, c)
    PROVE  Wire(Append(q, Ans(n, c)))'
<1>1. OnWire(Lines, replies, begun, q, TRUE)
  BY WireNow
<1>2. IsReply(Lines, Reply(n, c), Ans(n, c)) /\ Ans(n, c) \in Answers
  BY LinesTyped, ReplyIs, SaidTyped, AnsParts
<1>3. OnWire(Lines, replies', begun', Append(q, Ans(n, c)), TRUE)
  BY <1>1, <1>2, LinesTyped, WireSends
<1>4. QED BY <1>3, WireNext

\* A step that puts the reply to c on the wire and leaves the job alone, and
\* what it makes of the wire.
SaysReply(n, c) == replies' = replies \o Reply(n, c) /\ UNCHANGED <<job, begun>>
OnWireNext(q, n, c) == Wire(Append(q, Ans(n, c)))'

\* Such a step leaves on the wire what was there and the answer it adds.
LEMMA WireWith ==
    ASSUME TypeInv, NEW q \in Seq(Answers), Wire(q), ~Gone,
           NEW n \in Nat, NEW c \in Said, SaysReply(n, c)
    PROVE  OnWireNext(q, n, c)
<1>1. replies' = replies \o Reply(n, c) /\ UNCHANGED <<job, begun>>
  BY DEF SaysReply
<1>2. Wire(Append(q, Ans(n, c)))'
  BY <1>1, WireSaid
<1>3. QED BY <1>2 DEF OnWireNext

\* So are those of one more.
LEMMA RepliesTyped ==
    ASSUME TypeInv, NEW n \in Nat, NEW c \in Said
    PROVE  Reply(n, c) \in Seq(Line) /\ replies \o Reply(n, c) \in Seq(Line)
<1>1. IsReply(Lines, Reply(n, c), Ans(n, c))
  BY LinesTyped, ReplyIs, SaidTyped
<1>2. Reply(n, c) \in Seq(Line)
  BY <1>1 DEF IsReply
<1>3. QED BY <1>2, LinesTyped

-----------------------------------------------------------------------------
\* A reply after which there is none is alone.
LEMMA OneLeft ==
    ASSUME NEW q \in Seq(Answers), q # <<>>, Tail(q) = <<>>
    PROVE  q = <<Head(q)>>
<1>1. Len(q) = 1 /\ Head(q) = q[1] /\ q[1] \in Answers
  <2>1. Len(Tail(q)) = Len(q) - 1 /\ Len(q) \in Nat
    OBVIOUS
  <2>2. Len(q) = 1
    <3> DEFINE t == Tail(q)
    <3>t. t = <<>> /\ t \in Seq(Answers)
      OBVIOUS
    <3> HIDE DEF t
    <3>1. Len(t) = 0
      BY <3>t, EmptySeq
    <3>2. QED BY <2>1, <3>1 DEF t
  <2>3. QED BY <2>2
<1> DEFINE y == <<Head(q)>>
<1>2. y \in Seq(Answers) /\ Len(y) = 1 /\ y[1] = Head(q)
  BY <1>1
<1> HIDE DEF y
<1>3. \A i \in 1..Len(q) : q[i] = y[i]
  BY <1>1, <1>2
<1>4. q = y
  BY <1>1, <1>2, <1>3, SeqEqual
<1>5. QED BY <1>4 DEF y

\* Where a call is, as the server knows it.

\* Nothing has begun.
Start(q) == /\ q = <<>> /\ server.mode = "away" /\ faults = 0 /\ asked = 0
            /\ server.read = 0 /\ toserver = <<>>

\* What is on the way, place by place.
LEMMA TalkingAt ==
    ASSUME NEW s \in Places, NEW q, Talking(s, q)
    PROVE  /\ s.at = "start" => Start(q)
           /\ s.at = "greet" => asked = 0 /\ Greeting(q)
           /\ s.at \in {"talk", "sink"} => Quiet(q)
           /\ s.at = "await" /\ s.of = "." => Dotted(q)
           /\ s.at = "await" /\ s.of # "." => Asked(s.of, q)
           /\ s.at \in {"message", "dot"} => Mailing(q)
           /\ s.at = "more" => code \in Codes(job, "retr")
           /\ s.at = "more" /\ code = 213 => Quiet(q)
           /\ s.at = "more" /\ code # 213 => Owed("retr", q)
           /\ s.at = "flow" => code = 150 /\ Owed(s.of, q)
           /\ s.at = "moved" /\ s.of = "greet" =>
                \/ code = 220 /\ Quiet(q)
                \/ code = 120 /\ q = <<Ans(asked, 220)>> /\ Served("command")
           /\ s.at = "moved" /\ s.of # "greet" => code = 150 /\ Owed(s.of, q)
           /\ s.at = "last" /\ s.of = "greet" => q = <<Ans(asked, 220)>> /\ Served("command")
           /\ s.at = "last" /\ s.of # "greet" => Owed(s.of, q)
           /\ s.at = "bye" => server.mode = "away"
           /\ s.at = "loose" => Loose(s.did, s.of, q)
BY DEF Talking, Start

\* What the modes of the server tell of what the client said last.
LEMMA ModeOfAnswer ==
    ASSUME NEW c \in Commands, NEW a \in Codes(job, c)
    PROVE  /\ Mode(c, a) \in {"message", "away", "retr", "stor", "command"}
           /\ Mode(c, a) = "message" => c = "DATA"
           /\ Mode(c, a) = "away" => c = "QUIT"
           /\ Mode(c, a) = "retr" => c = "retr" /\ a = 150
           /\ Mode(c, a) = "stor" => c = "stor" /\ a = 150
BY DEF Mode, Codes

\* Where a call is when the server is about to greet it,
LEMMA WhenGreeting ==
    ASSUME NEW s \in Places, NEW q, Fit(job, s), Talking(s, q), server.mode = "greeting"
    PROVE  s.at = "greet" /\ q = <<>> /\ toserver = <<>> /\ server.read = asked /\ asked = 0
<1>0. s.at \in Points \ {"end"}
  BY DEF Fit, Places
<1>1. CASE s.at = "greet"
  BY <1>1, TalkingAt DEF Greeting, Served, Gone
<1>2. CASE s.at \in {"start", "talk", "sink", "bye"}
  BY <1>2, TalkingAt DEF Start, Quiet, Served, Gone
<1>3. CASE s.at = "await" /\ s.of = "."
  BY <1>3, TalkingAt DEF Dotted, Served, Gone
<1>4. CASE s.at = "await" /\ s.of # "."
  <2>1. s.of \in Commands
    BY <1>4 DEF Fit
  <2>2. \A a \in Codes(job, s.of) : ~Served(Mode(s.of, a))
    BY <2>1, ModeOfAnswer DEF Served, Gone
  <2>3. ~Served("command") /\ ~Gone /\ \A x : s.of \in {"stor", "retr"} => ~Owed(s.of, x)
    BY DEF Owed, Served, Gone
  <2>4. Asked(s.of, q)
    BY <1>4, TalkingAt
  <2>5. ~(q = <<>> /\ (Gone \/ (server.mode = "command" /\ toserver = <<s.of>> /\ server.read + 1 = asked)))
    BY <2>3
  <2>6. QED BY <2>2, <2>3, <2>4, <2>5 DEF Asked
<1>5. CASE s.at \in {"message", "dot"}
  BY <1>5, TalkingAt DEF Mailing, Gone
<1>6. CASE s.at = "loose"
  BY <1>6, TalkingAt DEF Loose, Gone
<1>7. CASE s.at \in {"more", "flow", "moved", "last"}
  <2>1. ~Gone /\ \A m : m # "greeting" => ~Served(m)
    BY DEF Served, Gone
  <2>2. ~Quiet(q) /\ \A m : m # "greeting" => ~Owed(m, q)
    BY <2>1 DEF Quiet, Owed
  <2>3. s.of \in {"stor", "retr", "greet"}
    BY <1>7 DEF Fit, Moves
  <2>4. QED BY <1>7, <2>1, <2>2, <2>3, TalkingAt
<1>8. QED BY <1>0, <1>1, <1>2, <1>3, <1>4, <1>5, <1>6, <1>7 DEF Points

\* to take a command,
LEMMA WhenServing ==
    ASSUME NEW s \in Places, NEW q, Fit(job, s), Talking(s, q), server.mode = "command", toserver # <<>>
    PROVE  \/ /\ s.at = "await" /\ s.of # "." /\ s.of \in Commands
              /\ q = <<>> /\ toserver = <<s.of>> /\ server.read + 1 = asked
           \/ s.at = "loose" /\ Loose(s.did, s.of, q)
<1>0. s.at \in Points \ {"end"}
  BY DEF Fit, Places
<1>g. ~Gone /\ \A m : ~Served(m)
  BY DEF Gone, Served
<1>1. CASE s.at \in {"start", "greet", "talk", "sink", "bye", "message", "dot"}
  BY <1>1, <1>g, TalkingAt DEF Start, Quiet, Greeting, Mailing
<1>3. CASE s.at = "await" /\ s.of = "."
  BY <1>3, <1>g, TalkingAt DEF Dotted
<1>4. CASE s.at = "await" /\ s.of # "."
  <2>1. s.of \in Commands
    BY <1>4 DEF Fit
  <2>3. \A x : ~Owed(s.of, x)
    BY <1>g DEF Owed
  <2>4. QED BY <1>4, <2>1, <1>g, <2>3, TalkingAt DEF Asked
<1>6. CASE s.at = "loose"
  BY <1>6, TalkingAt
<1>7. CASE s.at \in {"more", "flow", "moved", "last"}
  <2>2. ~Quiet(q) /\ \A x : ~Owed(x, q)
    BY <1>g DEF Quiet, Owed
  <2>4. QED BY <1>7, <1>g, <2>2, TalkingAt
<1>8. QED BY <1>0, <1>1, <1>3, <1>4, <1>6, <1>7 DEF Points

\* to take a part of a message,
LEMMA WhenMessage ==
    ASSUME NEW s \in Places, NEW q, Fit(job, s), Talking(s, q), server.mode = "message", toserver # <<>>
    PROVE  q = <<>> /\ (s.at \in {"message", "dot"} \/ (s.at = "await" /\ s.of = "."))
<1>0. s.at \in Points \ {"end"}
  BY DEF Fit, Places
<1>g. ~Gone /\ \A m : ~Served(m)
  BY DEF Gone, Served
<1>1. CASE s.at \in {"start", "greet", "talk", "sink", "bye", "message", "dot"}
  BY <1>1, <1>g, TalkingAt DEF Start, Quiet, Greeting, Mailing
<1>3. CASE s.at = "await" /\ s.of = "."
  BY <1>3, <1>g, TalkingAt DEF Dotted
<1>4. CASE s.at = "await" /\ s.of # "."
  <2>3. \A x : ~Owed(s.of, x)
    BY <1>g DEF Owed
  <2>4. QED BY <1>4, <1>g, <2>3, TalkingAt DEF Asked
<1>6. CASE s.at = "loose"
  BY <1>6, <1>g, TalkingAt DEF Loose
<1>7. CASE s.at \in {"more", "flow", "moved", "last"}
  <2>2. ~Quiet(q) /\ \A x : ~Owed(x, q)
    BY <1>g DEF Quiet, Owed
  <2>4. QED BY <1>7, <1>g, <2>2, TalkingAt
<1>8. QED BY <1>0, <1>1, <1>3, <1>4, <1>6, <1>7 DEF Points

\* or to move a file.
LEMMA WhenMoving ==
    ASSUME TypeInv, NEW s \in Places, NEW q \in Seq(Answers), Fit(job, s), Talking(s, q),
           server.mode \in {"stor", "retr"}
    PROVE  /\ s.of = server.mode /\ toserver = <<>> /\ server.read = asked /\ Moves(job, s)
           /\ \/ s.at = "await" /\ q = <<Ans(asked, 150)>> /\ 150 \in Codes(job, s.of)
              \/ s.at \in {"more", "flow", "moved", "last"} /\ q = <<>>
           /\ s.at = "more" => code # 213 /\ s.of = "retr"
<1>0. s.at \in Points \ {"end"}
  BY DEF Fit, Places
<1>g. ~Gone /\ \A m : Served(m) => m = server.mode /\ toserver = <<>> /\ server.read = asked
  BY DEF Gone, Served
<1>1. CASE s.at \in {"start", "greet", "talk", "sink", "bye", "message", "dot"}
  BY <1>1, <1>g, TalkingAt DEF Start, Quiet, Greeting, Mailing
<1>3. CASE s.at = "await" /\ s.of = "."
  BY <1>3, <1>g, TalkingAt DEF Dotted
<1>4. CASE s.at = "await" /\ s.of # "."
  <2>1. s.of \in Commands /\ (s.of \in {"stor", "retr"} => Moves(job, s))
    BY <1>4 DEF Fit
  <2>2. Asked(s.of, q)
    BY <1>4, TalkingAt
  <2>3. CASE \E a \in Codes(job, s.of) : q = <<Ans(asked, a)>> /\ Served(Mode(s.of, a))
    <3>1. PICK a \in Codes(job, s.of) : q = <<Ans(asked, a)>> /\ Served(Mode(s.of, a))
      BY <2>3
    <3>2. Mode(s.of, a) = server.mode
      BY <3>1, <1>g
    <3>3. s.of = server.mode /\ a = 150
      BY <3>2, <2>1, ModeOfAnswer
    <3>4. QED BY <3>1, <3>3, <2>1, <1>g, <1>4
  <2>4. CASE /\ s.of \in {"stor", "retr"} /\ 150 \in Codes(job, s.of)
             /\ q # <<>> /\ Head(q) = Ans(asked, 150) /\ Owed(s.of, Tail(q))
    <3>1. Tail(q) = <<>> /\ Served(s.of)
      BY <2>4, <1>g DEF Owed
    <3>2. q = <<Ans(asked, 150)>>
      <4> DEFINE a == Ans(asked, 150)
      <4>1. a = Head(q)
        BY <2>4
      <4> HIDE DEF a
      <4>2. q = <<a>>
        BY <3>1, <2>4, <4>1, OneLeft
      <4>3. QED BY <4>2 DEF a
    <3>3. QED BY <3>1, <3>2, <2>4, <2>1, <1>g, <1>4
  <2>5. QED BY <2>2, <2>3, <2>4, <1>g DEF Asked
<1>6. CASE s.at = "loose"
  BY <1>6, <1>g, TalkingAt DEF Loose
<1>7. CASE s.at \in {"more", "flow", "moved", "last"}
  <2>1. ~Quiet(q) /\ ~Served("command")
    BY <1>g DEF Quiet
  <2>2. \A x : Owed(x, q) => q = <<>> /\ Served(x)
    BY <2>1 DEF Owed
  <2>3. CASE s.at = "more"
    <3>1. s.of = "retr" /\ Moves(job, s)
      BY <2>3 DEF Fit
    <3>2. QED BY <3>1, <2>3, <2>1, <2>2, <1>g, TalkingAt
  <2>4. CASE s.at \in {"flow", "moved", "last"}
    <3>1. s.of # "greet"
      BY <2>1, <2>4, TalkingAt DEF Fit, Moves
    <3>2. Moves(job, s)
      BY <3>1, <2>4 DEF Fit
    <3>3. QED BY <3>1, <3>2, <2>4, <2>2, <1>g, TalkingAt
  <2>5. QED BY <1>7, <2>3, <2>4
<1>8. QED BY <1>0, <1>1, <1>3, <1>4, <1>6, <1>7 DEF Points

-----------------------------------------------------------------------------
\* What the server does keeps the types, and what there is of a message.

\* The types of the parts of the state.
LEMMA Types ==
    ASSUME TypeInv
    PROVE  /\ job \in Jobs /\ code \in Nat /\ begun \in Nat /\ left \in Nat
           /\ asked \in Nat /\ faults \in Nat /\ replies \in Seq(Line)
           /\ data \in Data /\ server \in Serving
           /\ data.flow \in Nat /\ data.made \in BOOLEAN
           /\ data.ended \in BOOLEAN /\ data.cut \in BOOLEAN
           /\ server.read \in Nat /\ server.rcpts \in Nat /\ server.inbox \in Nat
           /\ server.stored \in Nat /\ server.accepted \in Seq(Taken)
           /\ server.mode \in {"away", "greeting", "command", "message", "stor", "retr"}
<1>1. /\ job \in Jobs /\ code \in Nat /\ begun \in Nat /\ left \in Nat
      /\ asked \in Nat /\ faults \in Nat /\ replies \in Seq(Line)
      /\ data \in Data /\ server \in Serving
  BY DEF TypeInv
<1>2. /\ data.flow \in Nat /\ data.made \in BOOLEAN
      /\ data.ended \in BOOLEAN /\ data.cut \in BOOLEAN
  BY <1>1 DEF Data
<1>3. /\ server.read \in Nat /\ server.rcpts \in Nat /\ server.inbox \in Nat
      /\ server.stored \in Nat /\ server.accepted \in Seq(Taken)
      /\ server.mode \in {"away", "greeting", "command", "message", "stor", "retr"}
  BY <1>1 DEF Serving
<1>4. QED BY <1>1, <1>2, <1>3

\* The steps that are not the client's.
ServerStep == Server \/ DataCut \/ ServerGone

\* What the server reads first, and what is left for it.
LEMMA ToServerTyped ==
    ASSUME TypeInv, toserver # <<>>
    PROVE  /\ Head(toserver) \in Commands \cup {"block"} /\ Tail(toserver) \in Seq(Commands \cup {"block"})
           /\ Len(Tail(toserver)) = Len(toserver) - 1 /\ Len(toserver) \in Nat \ {0}
           /\ Head(toserver) = toserver[1]
           /\ \A i \in 1..Len(Tail(toserver)) : Tail(toserver)[i] = toserver[i+1] /\ i + 1 \in 1..Len(toserver)
<1>1. toserver \in Seq(Commands \cup {"block"})
  BY DEF TypeInv
<1>2. Len(toserver) \in Nat \ {0}
  BY <1>1, EmptySeq
<1>3. Head(toserver) = toserver[1] /\ Head(toserver) \in Commands \cup {"block"}
  BY <1>1, <1>2
<1>4. Tail(toserver) \in Seq(Commands \cup {"block"}) /\ Len(Tail(toserver)) = Len(toserver) - 1
  BY <1>1, <1>2
<1>5. ASSUME NEW i \in 1..Len(Tail(toserver))
      PROVE  Tail(toserver)[i] = toserver[i+1] /\ i + 1 \in 1..Len(toserver)
  BY <1>1, <1>2, <1>4
<1>6. QED BY <1>2, <1>3, <1>4, <1>5

\* A fault is counted.
LEMMA FaultTyped ==
    ASSUME TypeInv, Fault
    PROVE  faults' \in Nat /\ faults' > 0
BY DEF TypeInv, Fault

\* The type invariant under Greets,
LEMMA GreetsTyped ==
    ASSUME TypeInv, Greets PROVE TypeInv'
<1>1. faults' \in Nat
  BY FaultTyped DEF Greets, TypeInv
<1>2. replies' \in Seq(Line)
  <2>0. 0 \in Nat /\ 220 \in Said /\ 120 \in Said /\ 421 \in Said
    BY DEF Said
  <2>a. \A c \in Said : Reply(0, c) \in Seq(Line)
    BY ONLY TypeInv, <2>0, RepliesTyped
  <2>1. Reply(0, 220) \in Seq(Line) /\ Reply(0, 120) \in Seq(Line) /\ Reply(0, 421) \in Seq(Line)
    BY ONLY <2>0, <2>a
  <2>2. Reply(0, 120) \o Reply(0, 220) \in Seq(Line)
    BY <2>1
  <2> DEFINE A == Reply(0, 220)
             B == Reply(0, 120) \o Reply(0, 220)
             C == Reply(0, 421)
  <2>3. replies' = A \/ replies' = B \/ replies' = C
    BY DEF Greets
  <2>4. A \in Seq(Line) /\ B \in Seq(Line) /\ C \in Seq(Line)
    BY <2>1, <2>2
  <2> HIDE DEF A, B, C
  <2>5. QED BY <2>3, <2>4
<1>3. server' \in Serving
  BY Types DEF Greets, Serving
<1>4. UNCHANGED <<job, client, toserver, data>>
  BY DEF Greets
<1>5. QED BY <1>1, <1>2, <1>3, <1>4 DEF TypeInv, client

\* Serves,
LEMMA ServesTyped ==
    ASSUME TypeInv, Serves PROVE TypeInv'
<1> DEFINE c == Head(toserver)
           n == server.read + 1
<1>1. c \in Commands /\ toserver' \in Seq(Commands \cup {"block"})
  BY ToServerTyped DEF Serves
<1>2. n \in Nat
  BY Types
<1>3. CASE \E answer \in Codes(job, c) :
            /\ replies' = replies \o Reply(n, answer)
            /\ server' = [server EXCEPT !.mode = Mode(c, answer), !.read = n,
                                        !.rcpts = IF c = "RCPT" THEN @ + 1 ELSE @]
            /\ data' = [data EXCEPT !.made = @ \/ (answer = 150 /\ ~Passive(job))]
            /\ UNCHANGED faults
  <2>1. PICK answer \in Codes(job, c) :
            /\ replies' = replies \o Reply(n, answer)
            /\ server' = [server EXCEPT !.mode = Mode(c, answer), !.read = n,
                                        !.rcpts = IF c = "RCPT" THEN @ + 1 ELSE @]
            /\ data' = [data EXCEPT !.made = @ \/ (answer = 150 /\ ~Passive(job))]
            /\ UNCHANGED faults
    BY <1>3
  <2> HIDE DEF c, n
  <2>2. replies' \in Seq(Line)
    BY <2>1, <1>2, CodesSaid, RepliesTyped
  <2>3. Mode(c, answer) \in {"away", "greeting", "command", "message", "stor", "retr"}
    BY <1>1, ModeOfAnswer
  <2>4. server' \in Serving
    <3> DEFINE r == IF c = "RCPT" THEN server.rcpts + 1 ELSE server.rcpts
    <3>1. r \in Nat
      BY Types
    <3>2. server' = [server EXCEPT !.mode = Mode(c, answer), !.read = n, !.rcpts = r]
      BY <2>1
    <3> HIDE DEF r
    <3>3. QED BY <3>1, <3>2, <2>3, <1>2, Types DEF Serving
  <2>5. data' \in Data
    BY <2>1, Types DEF Data
  <2>6. QED BY <1>1, <2>1, <2>2, <2>4, <2>5 DEF TypeInv, Serves, client
<1>4. CASE /\ Fault
           /\ replies' = replies \o Reply(n, 500)
           /\ server' = [server EXCEPT !.read = n]
           /\ UNCHANGED data
  <2>0. 500 \in Said
    BY DEF Said
  <2>1. replies' \in Seq(Line)
    BY <1>4, <1>2, <2>0, RepliesTyped
  <2>2. server' \in Serving
    BY <1>4, <1>2, Types DEF Serving
  <2>3. QED BY <1>1, <1>4, <2>1, <2>2, FaultTyped DEF TypeInv, Serves, client
<1>5. QED BY <1>3, <1>4 DEF Serves

\* TakesMessage,
LEMMA TakesMessageTyped ==
    ASSUME TypeInv, TakesMessage PROVE TypeInv'
<1> DEFINE n == server.read + 1
           taken == [rcpts |-> server.rcpts, size |-> server.inbox]
<1>1. toserver' \in Seq(Commands \cup {"block"})
  BY ToServerTyped DEF TakesMessage
<1>2. n \in Nat /\ taken \in Taken /\ server.accepted \in Seq(Taken) /\ Append(server.accepted, taken) \in Seq(Taken)
  <2>1. n \in Nat /\ taken \in Taken /\ server.accepted \in Seq(Taken)
    BY Types DEF Taken
  <2> HIDE DEF taken
  <2>2. Append(server.accepted, taken) \in Seq(Taken)
    BY <2>1
  <2>3. QED BY <2>1, <2>2
<1>4. /\ replies' = replies \/ replies' = replies \o Reply(n, 250) \/ replies' = replies \o Reply(n, 554)
      /\ \/ server' = [server EXCEPT !.inbox = @ + 1]
         \/ server' = [server EXCEPT !.mode = "command", !.read = n, !.inbox = 0,
                                     !.accepted = Append(@, taken)]
         \/ server' = [server EXCEPT !.mode = "command", !.read = n, !.inbox = 0]
      /\ faults' = faults \/ Fault
      /\ UNCHANGED <<job, client, data>>
  BY DEF TakesMessage
<1>5. replies' \in Seq(Line)
  <2>1. 250 \in Said /\ 554 \in Said
    BY DEF Said
  <2> HIDE DEF n
  <2>2. n \in Nat
    BY <1>2
  <2>a. replies \o Reply(n, 250) \in Seq(Line)
    BY ONLY TypeInv, <2>1, <2>2, RepliesTyped
  <2>b. replies \o Reply(n, 554) \in Seq(Line)
    BY ONLY TypeInv, <2>1, <2>2, RepliesTyped
  <2> DEFINE A == replies \o Reply(n, 250)
             B == replies \o Reply(n, 554)
  <2>3. A \in Seq(Line) /\ B \in Seq(Line) /\ replies \in Seq(Line)
    BY <2>a, <2>b, Types
  <2>4. replies' = replies \/ replies' = A \/ replies' = B
    BY <1>4
  <2> HIDE DEF A, B
  <2>5. QED BY <2>3, <2>4
<1>6. server' \in Serving
  <2> DEFINE A == Append(server.accepted, taken)
  <2>1. server.inbox + 1 \in Nat /\ 0 \in Nat /\ A \in Seq(Taken) /\ server \in Serving
    BY Types, <1>2
  <2>2. \/ server' = [server EXCEPT !.inbox = @ + 1]
        \/ server' = [server EXCEPT !.mode = "command", !.read = n, !.inbox = 0, !.accepted = A]
        \/ server' = [server EXCEPT !.mode = "command", !.read = n, !.inbox = 0]
    BY <1>4
  <2> HIDE DEF n, taken, A
  <2>3. CASE server' = [server EXCEPT !.inbox = @ + 1]
    BY <2>1, <2>3 DEF Serving
  <2>4. CASE server' = [server EXCEPT !.mode = "command", !.read = n, !.inbox = 0, !.accepted = A]
    BY <2>1, <2>4, <1>2 DEF Serving
  <2>5. CASE server' = [server EXCEPT !.mode = "command", !.read = n, !.inbox = 0]
    BY <2>1, <2>5, <1>2 DEF Serving
  <2>6. QED BY <2>2, <2>3, <2>4, <2>5
<1>7. faults' \in Nat
  BY <1>4, FaultTyped DEF TypeInv
<1>8. QED BY <1>1, <1>4, <1>5, <1>6, <1>7 DEF TypeInv, client

\* Transfers and DataCut,
LEMMA TransfersTyped ==
    ASSUME TypeInv, Transfers \/ DataCut PROVE TypeInv'
<1> DEFINE n == server.read
<1>1. n \in Nat /\ 226 \in Said /\ 426 \in Said /\ replies \in Seq(Line)
  BY Types DEF Said
<1>2. /\ replies' = replies \/ replies' = replies \o Reply(n, 226) \/ replies' = replies \o Reply(n, 426)
      /\ server' = [server EXCEPT !.stored = @ + 1] \/ server' = [server EXCEPT !.mode = "command"]
      /\ \/ data' = data
         \/ data' = [data EXCEPT !.flow = @ - 1] /\ data.flow > 0
         \/ data' = [data EXCEPT !.flow = @ + 1] \/ data' = [data EXCEPT !.ended = TRUE]
         \/ data' = [data EXCEPT !.flow = 0, !.ended = TRUE, !.cut = TRUE]
  BY DEF Transfers, DataCut
<1>3. replies' \in Seq(Line)
  <2> HIDE DEF n
  <2>a. replies \o Reply(n, 226) \in Seq(Line)
    BY ONLY TypeInv, <1>1, RepliesTyped
  <2>b. replies \o Reply(n, 426) \in Seq(Line)
    BY ONLY TypeInv, <1>1, RepliesTyped
  <2>1. replies \o Reply(n, 226) \in Seq(Line) /\ replies \o Reply(n, 426) \in Seq(Line)
    BY <2>a, <2>b
  <2> DEFINE A == replies \o Reply(n, 226)
             B == replies \o Reply(n, 426)
  <2>2. A \in Seq(Line) /\ B \in Seq(Line)
    BY <2>1
  <2>3. replies' = replies \/ replies' = A \/ replies' = B
    BY <1>2
  <2> HIDE DEF A, B
  <2>4. QED BY <2>2, <2>3, <1>1
<1>4. server' \in Serving
  <2>1. CASE server' = [server EXCEPT !.stored = @ + 1]
    <3> DEFINE m == server.stored + 1
    <3>1. m \in Nat /\ server' = [server EXCEPT !.stored = m]
      BY <2>1, Types
    <3> HIDE DEF m
    <3>2. QED BY <3>1, Types DEF Serving
  <2>2. CASE server' = [server EXCEPT !.mode = "command"]
    BY <2>2, Types DEF Serving
  <2>3. QED BY <2>1, <2>2, <1>2
<1>5. data' \in Data
  <2>1. data \in Data /\ data.flow \in Nat
    BY Types
  <2>2. CASE data' = data
    BY <2>1, <2>2
  <2>3. CASE data.flow > 0 /\ data' = [data EXCEPT !.flow = @ - 1]
    <3> DEFINE m == data.flow - 1
    <3>1. m \in Nat /\ data' = [data EXCEPT !.flow = m]
      BY <2>1, <2>3
    <3> HIDE DEF m
    <3>2. QED BY <3>1, <2>1 DEF Data
  <2>4. CASE data' = [data EXCEPT !.flow = @ + 1]
    <3> DEFINE m == data.flow + 1
    <3>1. m \in Nat /\ data' = [data EXCEPT !.flow = m]
      BY <2>1, <2>4
    <3> HIDE DEF m
    <3>2. QED BY <3>1, <2>1 DEF Data
  <2>5. CASE data' = [data EXCEPT !.ended = TRUE]
    BY <2>1, <2>5 DEF Data
  <2>6. CASE data' = [data EXCEPT !.flow = 0, !.ended = TRUE, !.cut = TRUE]
    BY <2>1, <2>6 DEF Data
  <2>7. QED BY <2>2, <2>3, <2>4, <2>5, <2>6, <1>2
<1>6. faults' \in Nat
  BY FaultTyped DEF TypeInv, Transfers, DataCut
<1>7. UNCHANGED <<job, client, toserver>>
  BY DEF Transfers, DataCut
<1>8. QED BY <1>3, <1>4, <1>5, <1>6, <1>7 DEF TypeInv, client

\* ServerGone,
LEMMA ServerGoneTyped ==
    ASSUME TypeInv, ServerGone PROVE TypeInv'
<1>1. replies' \in Seq(Line)
  <2>1. replies \in Seq(Line)
    BY DEF TypeInv
  <2>2. PICK n \in 0..Len(replies) : replies' = SubSeq(replies, 1, n)
    BY DEF ServerGone
  <2>3. QED BY <2>1, <2>2
<1>2. server' \in Serving
  BY Types DEF ServerGone, Serving
<1>3. data' \in Data
  BY Types DEF ServerGone, Data
<1>4. faults' \in Nat
  BY FaultTyped DEF ServerGone
<1>5. UNCHANGED <<job, client, toserver>>
  BY DEF ServerGone
<1>6. QED BY <1>1, <1>2, <1>3, <1>4, <1>5 DEF TypeInv, client

\* and so under every step that is not the client's.
LEMMA ServerTyped ==
    ASSUME TypeInv, ServerStep PROVE TypeInv'
BY GreetsTyped, ServesTyped, TakesMessageTyped, TransfersTyped, ServerGoneTyped DEF ServerStep, Server

\* What each step of the server does to it and to the data connection, field by field.

\* What Greets does to each part of the state;
LEMMA GreetsDoes ==
    ASSUME TypeInv, Greets
    PROVE  /\ server.mode = "greeting" /\ server'.mode = "command" /\ UNCHANGED <<job, client, toserver, data>>
           /\ server'.read = server.read /\ server'.rcpts = server.rcpts /\ server'.inbox = server.inbox
           /\ server'.accepted = server.accepted /\ server'.stored = server.stored
           /\ faults' = faults \/ (faults' > 0 /\ replies' = Reply(0, 421))
<1>1. faults' = faults \/ (faults' > 0 /\ replies' = Reply(0, 421))
  BY FaultTyped DEF Greets
<1>2. server' = [server EXCEPT !.mode = "command"]
  BY DEF Greets
<1>3. /\ server'.mode = "command" /\ server'.read = server.read /\ server'.rcpts = server.rcpts
      /\ server'.inbox = server.inbox
      /\ server'.accepted = server.accepted /\ server'.stored = server.stored
  BY <1>2, Types DEF Serving
<1>4. QED BY <1>1, <1>3 DEF Greets

\* what Serves does;
LEMMA ServesDoes ==
    ASSUME TypeInv, Serves
    PROVE  /\ server.mode = "command" /\ toserver # <<>> /\ Head(toserver) # "block"
           /\ toserver' = Tail(toserver) /\ UNCHANGED <<job, client>>
           /\ server'.read = server.read + 1 /\ server'.inbox = server.inbox
           /\ server'.accepted = server.accepted /\ server'.stored = server.stored
           /\ data'.flow = data.flow /\ data'.ended = data.ended /\ data'.cut = data.cut
           /\ \/ \E answer \in Codes(job, Head(toserver)) :
                    /\ replies' = replies \o Reply(server.read + 1, answer)
                    /\ server'.mode = Mode(Head(toserver), answer)
                    /\ server'.rcpts = IF Head(toserver) = "RCPT" THEN server.rcpts + 1 ELSE server.rcpts
                    /\ data.made => data'.made
                    /\ answer = 150 /\ ~Passive(job) => data'.made
                    /\ faults' = faults
              \/ /\ faults' > 0 /\ replies' = replies \o Reply(server.read + 1, 500)
                 /\ server'.mode = "command" /\ server'.rcpts = server.rcpts
                 /\ data' = data
<1> DEFINE c == Head(toserver)
           n == server.read + 1
<1>0. server \in Serving /\ data \in Data
  BY Types
<1>1. CASE \E answer \in Codes(job, c) :
            /\ replies' = replies \o Reply(n, answer)
            /\ server' = [server EXCEPT !.mode = Mode(c, answer), !.read = n,
                                        !.rcpts = IF c = "RCPT" THEN @ + 1 ELSE @]
            /\ data' = [data EXCEPT !.made = @ \/ (answer = 150 /\ ~Passive(job))]
            /\ UNCHANGED faults
  <2>1. PICK answer \in Codes(job, c) :
            /\ replies' = replies \o Reply(n, answer)
            /\ server' = [server EXCEPT !.mode = Mode(c, answer), !.read = n,
                                        !.rcpts = IF c = "RCPT" THEN @ + 1 ELSE @]
            /\ data' = [data EXCEPT !.made = @ \/ (answer = 150 /\ ~Passive(job))]
            /\ UNCHANGED faults
    BY <1>1
  <2> DEFINE r == IF c = "RCPT" THEN server.rcpts + 1 ELSE server.rcpts
  <2>2. server' = [server EXCEPT !.mode = Mode(c, answer), !.read = n, !.rcpts = r]
    BY <2>1
  <2> HIDE DEF r, n, c
  <2>3. /\ server'.mode = Mode(c, answer) /\ server'.read = n /\ server'.rcpts = r
        /\ server'.inbox = server.inbox
        /\ server'.accepted = server.accepted /\ server'.stored = server.stored
    BY <2>2, <1>0 DEF Serving
  <2>4. /\ data'.flow = data.flow /\ data'.ended = data.ended /\ data'.cut = data.cut
        /\ data.made => data'.made
        /\ answer = 150 /\ ~Passive(job) => data'.made
    BY <2>1, <1>0 DEF Data
  <2>5. QED BY <2>1, <2>3, <2>4 DEF r, n, c, Serves
<1>2. CASE /\ Fault
           /\ replies' = replies \o Reply(n, 500)
           /\ server' = [server EXCEPT !.read = n]
           /\ UNCHANGED data
  <2>1. faults' > 0
    BY <1>2, FaultTyped
  <2>2. /\ server'.mode = server.mode /\ server'.read = n /\ server'.rcpts = server.rcpts
        /\ server'.inbox = server.inbox
        /\ server'.accepted = server.accepted /\ server'.stored = server.stored
    BY <1>2, <1>0 DEF Serving
  <2>3. data' = data
    BY <1>2
  <2>4. QED BY <1>2, <2>1, <2>2, <2>3 DEF Serves
<1>3. QED BY <1>1, <1>2 DEF Serves

\* what TakesMessage does;
LEMMA TakesMessageDoes ==
    ASSUME TypeInv, TakesMessage
    PROVE  /\ server.mode = "message" /\ toserver # <<>> /\ toserver' = Tail(toserver)
           /\ UNCHANGED <<job, client, data>>
           /\ server'.rcpts = server.rcpts /\ server'.stored = server.stored
           /\ Head(toserver) = "block" =>
                /\ server'.mode = "message" /\ server'.read = server.read
                /\ server'.inbox = server.inbox + 1 /\ server'.accepted = server.accepted
                /\ UNCHANGED <<replies, faults>>
           /\ Head(toserver) # "block" =>
                /\ server'.mode = "command" /\ server'.read = server.read + 1 /\ server'.inbox = 0
                /\ \/ /\ replies' = replies \o Reply(server.read + 1, 250) /\ faults' = faults
                      /\ server'.accepted =
                            Append(server.accepted, [rcpts |-> server.rcpts, size |-> server.inbox])
                   \/ /\ replies' = replies \o Reply(server.read + 1, 554) /\ faults' > 0
                      /\ server'.accepted = server.accepted
<1> DEFINE n == server.read + 1
           A == Append(server.accepted, [rcpts |-> server.rcpts, size |-> server.inbox])
<1>0. server \in Serving
  BY Types
<1>1. CASE Head(toserver) = "block"
  <2> DEFINE m == server.inbox + 1
  <2>1. server' = [server EXCEPT !.inbox = m] /\ UNCHANGED <<replies, faults>>
    BY <1>1 DEF TakesMessage
  <2> HIDE DEF m
  <2>2. /\ server'.mode = server.mode /\ server'.read = server.read /\ server'.rcpts = server.rcpts
        /\ server'.inbox = m
        /\ server'.accepted = server.accepted /\ server'.stored = server.stored
    BY <2>1, <1>0 DEF Serving
  <2>3. QED BY <1>1, <2>1, <2>2 DEF TakesMessage, m
<1>2. CASE Head(toserver) # "block"
  <2>1. \/ /\ replies' = replies \o Reply(n, 250) /\ UNCHANGED faults
           /\ server' = [server EXCEPT !.mode = "command", !.read = n, !.inbox = 0, !.accepted = A]
        \/ /\ Fault /\ replies' = replies \o Reply(n, 554)
           /\ server' = [server EXCEPT !.mode = "command", !.read = n, !.inbox = 0]
    BY <1>2 DEF TakesMessage
  <2> DEFINE R == replies \o Reply(n, 250)
             Q == replies \o Reply(n, 554)
  <2> HIDE DEF n, A, R, Q
  <2>2. CASE /\ replies' = R /\ UNCHANGED faults
             /\ server' = [server EXCEPT !.mode = "command", !.read = n, !.inbox = 0, !.accepted = A]
    <3>1. /\ server'.mode = "command" /\ server'.read = n /\ server'.rcpts = server.rcpts
          /\ server'.inbox = 0 /\ server'.accepted = A /\ server'.stored = server.stored
      BY <2>2, <1>0 DEF Serving
    <3>2. QED BY <1>2, <2>2, <3>1 DEF TakesMessage, n, A, R
  <2>3. CASE /\ Fault /\ replies' = Q
             /\ server' = [server EXCEPT !.mode = "command", !.read = n, !.inbox = 0]
    <3>1. /\ server'.mode = "command" /\ server'.read = n /\ server'.rcpts = server.rcpts
          /\ server'.inbox = 0 /\ server'.accepted = server.accepted /\ server'.stored = server.stored
      BY <2>3, <1>0 DEF Serving
    <3>2. faults' > 0
      BY <2>3, FaultTyped
    <3>3. QED BY <1>2, <2>3, <3>1, <3>2 DEF TakesMessage, n, Q
  <2>4. QED BY <2>1, <2>2, <2>3 DEF R, Q
<1>3. QED BY <1>1, <1>2

\* what Transfers does;
LEMMA TransfersDoes ==
    ASSUME TypeInv, Transfers
    PROVE  /\ UNCHANGED <<job, client, toserver, faults>>
           /\ server'.read = server.read /\ data'.made = data.made /\ data'.cut = data.cut
           /\ \/ /\ server.mode = "stor" /\ server'.mode = "stor" /\ data.flow > 0
                 /\ data'.flow = data.flow - 1 /\ data'.ended = data.ended
                 /\ server'.stored = server.stored + 1 /\ UNCHANGED replies
              \/ /\ server.mode = "stor" /\ server'.mode = "command" /\ data.flow = 0 /\ data.ended
                 /\ data'.flow = data.flow /\ data'.ended = data.ended /\ server'.stored = server.stored
                 /\ replies' = replies \o Reply(server.read, 226)
              \/ /\ server.mode = "retr" /\ server'.mode = "retr" /\ server.stored < Blocks
                 /\ data'.flow = data.flow + 1 /\ data'.ended = data.ended
                 /\ server'.stored = server.stored + 1 /\ UNCHANGED replies
              \/ /\ server.mode = "retr" /\ server'.mode = "command" /\ server.stored = Blocks
                 /\ data'.flow = data.flow /\ data'.ended /\ server'.stored = server.stored
                 /\ replies' = replies \o Reply(server.read, 226)
<1>0. server \in Serving /\ data \in Data
  BY Types
<1>u. UNCHANGED <<job, client, toserver, faults>>
  BY DEF Transfers
<1> DEFINE R == replies \o Reply(server.read, 226)
           f1 == data.flow - 1
           f2 == data.flow + 1
           s2 == server.stored + 1
<1>t. \/ /\ server.mode = "stor" /\ data.flow > 0
         /\ data' = [data EXCEPT !.flow = f1] /\ server' = [server EXCEPT !.stored = s2]
         /\ UNCHANGED replies
      \/ /\ server.mode = "stor" /\ data.flow = 0 /\ data.ended /\ data' = data
         /\ replies' = R /\ server' = [server EXCEPT !.mode = "command"]
      \/ /\ server.mode = "retr" /\ server.stored < Blocks
         /\ data' = [data EXCEPT !.flow = f2] /\ server' = [server EXCEPT !.stored = s2]
         /\ UNCHANGED replies
      \/ /\ server.mode = "retr" /\ server.stored = Blocks /\ data' = [data EXCEPT !.ended = TRUE]
         /\ replies' = R /\ server' = [server EXCEPT !.mode = "command"]
  BY DEF Transfers
<1> HIDE DEF R, f1, f2, s2
<1>1. CASE /\ server.mode = "stor" /\ data.flow > 0
           /\ data' = [data EXCEPT !.flow = f1] /\ server' = [server EXCEPT !.stored = s2]
           /\ UNCHANGED replies
  <2>1. data'.flow = f1 /\ data'.ended = data.ended /\ data'.made = data.made /\ data'.cut = data.cut
    BY <1>0, <1>1 DEF Data
  <2>2. server'.stored = s2 /\ server'.mode = server.mode /\ server'.read = server.read
    BY <1>0, <1>1 DEF Serving
  <2>3. QED BY <1>u, <1>1, <2>1, <2>2 DEF f1, s2
<1>2. CASE /\ server.mode = "stor" /\ data.flow = 0 /\ data.ended /\ data' = data
           /\ replies' = R /\ server' = [server EXCEPT !.mode = "command"]
  <2>1. data'.flow = data.flow /\ data'.ended = data.ended /\ data'.made = data.made /\ data'.cut = data.cut
    BY <1>2
  <2>2. server'.stored = server.stored /\ server'.mode = "command" /\ server'.read = server.read
    BY <1>0, <1>2 DEF Serving
  <2>3. QED BY <1>u, <1>2, <2>1, <2>2 DEF R
<1>3. CASE /\ server.mode = "retr" /\ server.stored < Blocks
           /\ data' = [data EXCEPT !.flow = f2] /\ server' = [server EXCEPT !.stored = s2]
           /\ UNCHANGED replies
  <2>1. data'.flow = f2 /\ data'.ended = data.ended /\ data'.made = data.made /\ data'.cut = data.cut
    BY <1>0, <1>3 DEF Data
  <2>2. server'.stored = s2 /\ server'.mode = server.mode /\ server'.read = server.read
    BY <1>0, <1>3 DEF Serving
  <2>3. QED BY <1>u, <1>3, <2>1, <2>2 DEF f2, s2
<1>4. CASE /\ server.mode = "retr" /\ server.stored = Blocks /\ data' = [data EXCEPT !.ended = TRUE]
           /\ replies' = R /\ server' = [server EXCEPT !.mode = "command"]
  <2>1. data'.flow = data.flow /\ data'.ended /\ data'.made = data.made /\ data'.cut = data.cut
    BY <1>0, <1>4 DEF Data
  <2>2. server'.stored = server.stored /\ server'.mode = "command" /\ server'.read = server.read
    BY <1>0, <1>4 DEF Serving
  <2>3. QED BY <1>u, <1>4, <2>1, <2>2 DEF R
<1>5. QED BY <1>t, <1>1, <1>2, <1>3, <1>4

\* what DataCut does;
LEMMA DataCutDoes ==
    ASSUME TypeInv, DataCut
    PROVE  /\ UNCHANGED <<job, client, toserver>> /\ faults' > 0
           /\ server.mode \in {"stor", "retr"} /\ server'.mode = "command"
           /\ server'.read = server.read /\ server'.stored = server.stored
           /\ data'.made = data.made
           /\ replies' = replies \o Reply(server.read, 426)
<1>0. server \in Serving /\ data \in Data
  BY Types
<1>1. /\ UNCHANGED <<job, client, toserver>> /\ Fault /\ server.mode \in {"stor", "retr"}
      /\ replies' = replies \o Reply(server.read, 426)
  BY DEF DataCut
<1>2. data' = [data EXCEPT !.flow = 0, !.ended = TRUE, !.cut = TRUE]
  BY DEF DataCut
<1>3. server' = [server EXCEPT !.mode = "command"]
  BY DEF DataCut
<1>4. data'.made = data.made
  BY <1>0, <1>2 DEF Data
<1>5. server'.mode = "command" /\ server'.read = server.read /\ server'.stored = server.stored
  BY <1>0, <1>3 DEF Serving
<1>6. faults' > 0
  BY <1>1, FaultTyped
<1>7. QED BY <1>1, <1>4, <1>5, <1>6

\* and what ServerGone does.
LEMMA ServerGoneDoes ==
    ASSUME TypeInv, ServerGone
    PROVE  /\ UNCHANGED <<job, client, toserver>> /\ faults' > 0
           /\ server.mode # "away" /\ server'.mode = "away"
           /\ server'.read = server.read /\ server'.stored = server.stored
           /\ server'.rcpts = server.rcpts /\ server'.inbox = 0 /\ server'.accepted = server.accepted
           /\ data'.made = data.made
           /\ \E n \in 0..Len(replies) : replies' = SubSeq(replies, 1, n)
<1>0. server \in Serving /\ data \in Data
  BY Types
<1>1. /\ UNCHANGED <<job, client, toserver>> /\ Fault /\ server.mode # "away"
      /\ \E n \in 0..Len(replies) : replies' = SubSeq(replies, 1, n)
  BY DEF ServerGone
<1>2. data' = [data EXCEPT !.flow = 0, !.ended = TRUE, !.cut = TRUE]
  BY DEF ServerGone
<1>3. server' = [server EXCEPT !.mode = "away", !.inbox = 0]
  BY DEF ServerGone
<1>4. data'.made = data.made
  BY <1>0, <1>2 DEF Data
<1>5. /\ server'.mode = "away" /\ server'.read = server.read /\ server'.stored = server.stored
      /\ server'.rcpts = server.rcpts /\ server'.inbox = 0 /\ server'.accepted = server.accepted
  BY <1>0, <1>3 DEF Serving
<1>6. faults' > 0
  BY <1>1, FaultTyped
<1>7. QED BY <1>1, <1>4, <1>5, <1>6

\* The server of a message goes on as MailServer says.

\* It serves a command;
LEMMA MailServes ==
    ASSUME TypeInv, MailServer, Serves PROVE MailServer'
<1> DEFINE c == Head(toserver)
<1>1. /\ server.mode = "command" /\ toserver # <<>> /\ c # "block"
      /\ toserver' = Tail(toserver) /\ UNCHANGED <<job, client>>
      /\ server'.inbox = server.inbox /\ server'.accepted = server.accepted
  BY ServesDoes
<1>2. \/ \E answer \in Codes(job, c) :
            /\ server'.mode = Mode(c, answer)
            /\ server'.rcpts = IF c = "RCPT" THEN server.rcpts + 1 ELSE server.rcpts
      \/ server'.mode = "command" /\ server'.rcpts = server.rcpts
  BY ServesDoes
<1>3. /\ c = toserver[1] /\ c \in Commands \cup {"block"}
      /\ Len(toserver') = Len(toserver) - 1 /\ Len(toserver) \in Nat \ {0}
      /\ \A i \in 1..Len(toserver') : toserver'[i] = toserver[i+1] /\ i + 1 \in 1..Len(toserver)
  BY <1>1, ToServerTyped
<1>4. /\ \A i \in 1..Len(toserver) :
            /\ toserver[i] \notin {"block", ".", "stor", "retr"}
            /\ toserver[i] = "DATA" => /\ Len(toserver) = 1 /\ server.rcpts = job.rcpts
                                       /\ server.accepted = <<>> /\ server.inbox = 0
      /\ server.accepted \in {<<>>, <<TheMessage>>}
  BY <1>1 DEF MailServer
<1>5. 1 \in 1..Len(toserver)
  BY <1>3
<1>6. c \notin {"block", ".", "stor", "retr"} /\ c \in Commands
  BY <1>3, <1>4, <1>5
<1>7. c = "DATA" => Len(toserver') = 0 /\ server.rcpts = job.rcpts /\ server.accepted = <<>>
  BY <1>3, <1>4, <1>5
<1>8. ASSUME NEW i \in 1..Len(toserver')
      PROVE  toserver'[i] \notin {"block", ".", "stor", "retr", "DATA"}
  <2>1. toserver'[i] = toserver[i+1] /\ i + 1 \in 1..Len(toserver) /\ Len(toserver) # 1
    BY <1>3
  <2>2. QED BY <2>1, <1>4
<1>9. TheMessage' = TheMessage /\ server'.accepted \in {<<>>, <<TheMessage>>}
  BY <1>1, <1>4 DEF TheMessage
<1> HIDE DEF c
<1>10. /\ server'.mode \in {"away", "command", "message"}
       /\ server'.mode = "message" => c = "DATA" /\ server'.rcpts = server.rcpts
  <2>1. CASE \E answer \in Codes(job, c) :
            /\ server'.mode = Mode(c, answer)
            /\ server'.rcpts = IF c = "RCPT" THEN server.rcpts + 1 ELSE server.rcpts
    BY <2>1, <1>6, ModeOfAnswer
  <2>2. CASE server'.mode = "command"
    BY <2>2
  <2>3. QED BY <2>1, <2>2, <1>2
<1>11. server'.mode = "message" =>
        /\ server'.rcpts = job'.rcpts /\ server'.accepted = <<>>
        /\ \A i \in 1..Len(toserver') : FALSE
  <2> SUFFICES ASSUME server'.mode = "message"
               PROVE  /\ server'.rcpts = job'.rcpts /\ server'.accepted = <<>>
                      /\ \A i \in 1..Len(toserver') : FALSE
    OBVIOUS
  <2>1. Len(toserver') = 0 /\ server.rcpts = job.rcpts /\ server.accepted = <<>> /\ server'.rcpts = server.rcpts
    BY <1>10, <1>7
  <2>2. server'.rcpts = job'.rcpts /\ server'.accepted = <<>>
    BY <2>1, <1>1
  <2>3. 1..Len(toserver') = {}
    BY <2>1
  <2>4. QED BY <2>2, <2>3
<1>12. QED BY <1>8, <1>9, <1>10, <1>11 DEF MailServer

\* it takes a part of a message.
LEMMA MailTakes ==
    ASSUME TypeInv, MailServer, TakesMessage PROVE MailServer'
<1> DEFINE c == Head(toserver)
<1>1. /\ server.mode = "message" /\ toserver # <<>> /\ toserver' = Tail(toserver)
      /\ UNCHANGED <<job, client, data>> /\ server'.rcpts = server.rcpts
  BY TakesMessageDoes
<1>2. /\ server.rcpts = job.rcpts /\ server.accepted = <<>>
      /\ \A i \in 1..Len(toserver) :
            \/ toserver[i] = "block"
            \/ toserver[i] = "." /\ i = Len(toserver) /\ server.inbox + Len(toserver) - 1 = Blocks
  BY <1>1 DEF MailServer
<1>3. /\ c = toserver[1]
      /\ Len(toserver') = Len(toserver) - 1 /\ Len(toserver) \in Nat \ {0}
      /\ \A i \in 1..Len(toserver') : toserver'[i] = toserver[i+1] /\ i + 1 \in 1..Len(toserver)
  BY <1>1, ToServerTyped
<1>4. TheMessage' = TheMessage
  BY <1>1 DEF TheMessage
<1>5. CASE c = "block"
  <2>1. /\ server'.mode = "message" /\ server'.inbox = server.inbox + 1
        /\ server'.accepted = server.accepted
    BY <1>5, TakesMessageDoes
  <2>2. ASSUME NEW i \in 1..Len(toserver')
        PROVE  \/ toserver'[i] = "block"
               \/ /\ toserver'[i] = "." /\ i = Len(toserver')
                  /\ server'.inbox + Len(toserver') - 1 = Blocks
    <3>1. toserver'[i] = toserver[i+1] /\ i + 1 \in 1..Len(toserver)
      BY <1>3
    <3>2. CASE toserver[i+1] = "block"
      BY <3>1, <3>2
    <3>3. CASE toserver[i+1] = "." /\ i + 1 = Len(toserver) /\ server.inbox + Len(toserver) - 1 = Blocks
      <4>1. server.inbox \in Nat
        BY Types
      <4>2. i = Len(toserver') /\ server'.inbox + Len(toserver') - 1 = Blocks
        <5>1. i \in Int
          BY <1>3
        <5>2. i = Len(toserver')
          BY <5>1, <3>3, <1>3
        <5>3. server'.inbox + Len(toserver') - 1 = server.inbox + Len(toserver) - 1
          BY <4>1, <1>3, <2>1
        <5>4. QED BY <5>2, <5>3, <3>3
      <4>3. QED BY <4>2, <3>1, <3>3
    <3>4. QED BY <3>1, <3>2, <3>3, <1>2
  <2>3. server'.rcpts = job'.rcpts /\ server'.accepted = <<>>
    BY <1>1, <1>2, <2>1
  <2>4. QED BY <2>1, <2>2, <2>3, <1>4 DEF MailServer
<1>6. CASE c # "block"
  <2>1. 1 \in 1..Len(toserver)
    BY <1>3
  <2>2. 1 = Len(toserver) /\ server.inbox + Len(toserver) - 1 = Blocks
    BY <2>1, <1>2, <1>3, <1>6
  <2>3. server.inbox = Blocks /\ Len(toserver') = 0
    <3>1. server.inbox \in Nat
      BY Types
    <3>2. QED BY <3>1, <2>2, <1>3
  <2>4. server'.accepted = server.accepted
            \/ server'.accepted = Append(server.accepted, [rcpts |-> server.rcpts, size |-> server.inbox])
    BY <1>6, TakesMessageDoes
  <2>5. server'.accepted \in {<<>>, <<TheMessage>>}
    <3>1. [rcpts |-> server.rcpts, size |-> server.inbox] = TheMessage
      BY <2>3, <1>2 DEF TheMessage
    <3>2. Append(server.accepted, TheMessage) = <<TheMessage>>
      <4> HIDE DEF c
      <4>1. Append(<<>>, TheMessage) = <<TheMessage>>
        OBVIOUS
      <4>2. QED BY <4>1, <1>2
    <3>3. QED BY <3>1, <3>2, <2>4, <1>2
  <2>6. server'.mode = "command"
    BY <1>6, TakesMessageDoes
  <2>7. QED BY <2>3, <2>5, <2>6, <1>4 DEF MailServer
<1>7. QED BY <1>5, <1>6

\* What holds of a call that has returned too goes on to hold.
LEMMA ServerSound ==
    ASSUME TypeInv, Sound, ServerStep PROVE Sound'
<1>1. UNCHANGED <<job, client>> /\ server.mode # "away"
  <2>1. CASE Greets
    BY <2>1, GreetsDoes
  <2>2. CASE Serves
    BY <2>2, ServesDoes
  <2>3. CASE TakesMessage
    BY <2>3, TakesMessageDoes
  <2>4. CASE Transfers
    BY <2>4, TransfersDoes
  <2>5. CASE DataCut
    BY <2>5, DataCutDoes
  <2>6. CASE ServerGone
    BY <2>6, ServerGoneDoes
  <2>7. QED BY <2>1, <2>2, <2>3, <2>4, <2>5, <2>6 DEF ServerStep, Server
<1>2. job.api = "send" => MailServer'
  <2> SUFFICES ASSUME job.api = "send" PROVE MailServer'
    OBVIOUS
  <2>0. MailServer
    BY DEF Sound
  <2>1. CASE Greets
    <3>1. toserver = <<>> /\ toserver' = toserver /\ server'.mode = "command" /\ server'.accepted = server.accepted
      BY <2>0, <2>1, GreetsDoes DEF MailServer
    <3>2. Len(toserver') = 0 /\ TheMessage' = TheMessage
      BY <3>1, <1>1 DEF TheMessage
    <3>3. server'.accepted \in {<<>>, <<TheMessage'>>}
      BY <3>1, <3>2, <2>0 DEF MailServer
    <3>4. QED BY <3>1, <3>2, <3>3 DEF MailServer
  <2>2. CASE Serves
    BY <2>0, <2>2, MailServes
  <2>3. CASE TakesMessage
    BY <2>0, <2>3, MailTakes
  <2>4. CASE Transfers \/ DataCut
    <3>1. server.mode \in {"stor", "retr"}
      BY <2>4, TransfersDoes, DataCutDoes
    <3>2. QED BY <3>1, <2>0 DEF MailServer
  <2>5. CASE ServerGone
    <3>1. server'.mode = "away" /\ server'.accepted = server.accepted
      BY <2>5, ServerGoneDoes
    <3>2. TheMessage' = TheMessage
      BY <1>1 DEF TheMessage
    <3>3. QED BY <3>1, <3>2, <2>0 DEF MailServer
  <2>6. QED BY <2>1, <2>2, <2>3, <2>4, <2>5 DEF ServerStep, Server
<1>3. job.api # "send" => \A i \in 1..Len(toserver') : toserver'[i] # "block"
  <2>1. toserver' = toserver \/ (toserver # <<>> /\ toserver' = Tail(toserver))
    BY GreetsDoes, ServesDoes, TakesMessageDoes, TransfersDoes, DataCutDoes, ServerGoneDoes
        DEF ServerStep, Server
  <2>2. job.api # "send" => \A i \in 1..Len(toserver) : toserver[i] # "block"
    BY DEF Sound
  <2>3. CASE toserver' = toserver
    BY <2>2, <2>3
  <2>4. CASE toserver # <<>> /\ toserver' = Tail(toserver)
    <3>1. \A i \in 1..Len(toserver') : toserver'[i] = toserver[i+1] /\ i + 1 \in 1..Len(toserver)
      BY <2>4, ToServerTyped
    <3>2. QED BY <3>1, <2>2
  <2>5. QED BY <2>1, <2>3, <2>4
<1>4. ~(result = "done" /\ job.api # "command")
  BY <1>1 DEF Sound
<1>5. NoStall'
  <2>1. faults' = faults \/ faults' > 0
    BY GreetsDoes, ServesDoes, TakesMessageDoes, TransfersDoes, DataCutDoes, ServerGoneDoes
        DEF ServerStep, Server
  <2>2. NoStall
    BY DEF Sound
  <2>3. QED BY <1>1, <2>1, <2>2 DEF NoStall, client
<1>6. QED BY <1>1, <1>2, <1>3, <1>4, <1>5 DEF Sound, client

\* What the server does leaves a call at its place, with what the server has said on its way.

\* A call the server's step leaves where it is.
LEMMA Stands ==
    ASSUME NEW s \in Places, NEW q, Going(s, q), UNCHANGED <<job, client>>, NEW p, Wire(p)',
           Talking(s, p)',
           job.api \in {"get", "put"} => FileData(s, p)',
           job.api = "send" => MailData(s, p)'
    PROVE  Going(s, p)'
<1>1. \E u : Path(job', script', s, u)
  BY DEF Going, client
<1>2. Fit(job', s) /\ (s.made => "data" \in open')
  BY DEF Going, At, client
<1>3. At(s, p)'
  BY <1>2 DEF At
<1>4. QED BY <1>1, <1>3 DEF Going, Wire

\* What holds of a call that goes on.
LEMMA GoingParts ==
    ASSUME NEW s, NEW q, Going(s, q)
    PROVE  /\ \E u : Path(job, script, s, u)
           /\ Wire(q) /\ Fit(job, s) /\ Talking(s, q)
           /\ job.api \in {"get", "put"} => FileData(s, q)
           /\ job.api = "send" => MailData(s, q)
           /\ s.made => "data" \in open
BY DEF Going, At, Wire

\* Nothing is on the way when no reply is.
LEMMA WireNothing ==
    ASSUME TypeInv, Wire(<<>>)
    PROVE  replies = <<>> /\ begun = 0
<1>1. OnWire(Lines, replies, begun, <<>>, FALSE) /\ Lines \in {1, 4} /\ replies \in Seq(Line)
  BY WireNow, LinesTyped
<1>2. PICK k \in 0..Lines-1 : (k # 0 => <<>> # <<>>) /\ (k = 0 => begun = 0) /\ Len(replies) + k <= Lines * Len(<<>>)
  BY <1>1 DEF OnWire
<1>3. k = 0 /\ Len(replies) + k <= Lines * 0 /\ Len(replies) \in Nat
  BY <1>1, <1>2
<1>4. Lines * 0 = 0
  BY <1>1
<1>5. Len(replies) = 0
  BY <1>3, <1>4
<1>6. QED BY <1>5, <1>2, <1>3, <1>1, EmptySeq

\* The greeting is said.
LEMMA GreetsGoes ==
    ASSUME TypeInv, NEW s \in Places, NEW q \in Seq(Answers), Going(s, q), Greets
    PROVE  \E p \in Seq(Answers) : Going(s, p)'
<1>1. /\ server.mode = "greeting" /\ server'.mode = "command" /\ UNCHANGED <<job, client, toserver, data>>
      /\ server'.read = server.read /\ server'.rcpts = server.rcpts /\ server'.inbox = server.inbox
      /\ server'.accepted = server.accepted /\ server'.stored = server.stored
      /\ faults' = faults \/ (faults' > 0 /\ replies' = Reply(0, 421))
  BY GreetsDoes
<1>2. /\ Fit(job, s) /\ Talking(s, q) /\ Wire(q)
      /\ job.api \in {"get", "put"} => FileData(s, q)
      /\ job.api = "send" => MailData(s, q)
  BY GoingParts
<1>3. s.at = "greet" /\ q = <<>> /\ toserver = <<>> /\ server.read = asked /\ asked = 0
  BY <1>1, <1>2, WhenGreeting
<1>4. replies = <<>> /\ begun = 0 /\ ~Gone
  BY <1>1, <1>2, <1>3, WireNothing DEF Gone
<1>5. job.api \in {"get", "put"} => \A p : FileData(s, p)'
  <2>1. job.api \in {"get", "put"} => Untouched
    BY <1>2, <1>3 DEF FileData
  <2>2. Untouched => Untouched'
    BY <1>1, <1>4 DEF Untouched, client
  <2>3. QED BY <2>1, <2>2, <1>3 DEF FileData
<1>6. job.api = "send" => \A p : MailData(s, p)'
  <2>1. job.api = "send" => left = Blocks /\ server.accepted = <<>> /\ server.inbox = 0 /\ server.rcpts = 0
    BY <1>2, <1>3 DEF MailData
  <2>2. job.api = "send" => left' = Blocks /\ server'.accepted = <<>> /\ server'.inbox = 0 /\ server'.rcpts = 0
    BY <2>1, <1>1 DEF client
  <2>3. QED BY <2>2, <1>3 DEF MailData
<1>7. Served("command")' /\ asked' = asked
  BY <1>1, <1>3 DEF Served, client
<1>8. ASSUME NEW p, Greeting(p)' PROVE Talking(s, p)'
  BY <1>3, <1>7, <1>8 DEF Talking
<1> DEFINE First(c) == /\ <<Ans(0, c)>> \in Seq(Answers) /\ Ans(0, c) \in Answers
                       /\ Append(q, Ans(0, c)) = <<Ans(0, c)>>
                       /\ replies \o Reply(0, c) = Reply(0, c) /\ c \in Said
<1>9. ASSUME NEW c \in {220, 120, 421} PROVE First(c)
  <2>1. Ans(0, c) \in Answers /\ c \in Said
    BY AnsParts DEF Said
  <2>2. Reply(0, c) \in Seq(Line)
    BY <2>1, RepliesTyped
  <2> DEFINE a == Ans(0, c)
             R == Reply(0, c)
  <2>3. a \in Answers /\ R \in Seq(Line)
    BY <2>1, <2>2
  <2> HIDE DEF a, R
  <2>5. <<a>> \in Seq(Answers) /\ Append(<<>>, a) = <<a>>
    BY <2>3, OneReply
  <2>6. <<>> \o R = R
    BY <2>3, ConcatEmptySeq
  <2>7. QED BY <2>1, <2>3, <2>5, <2>6, <1>3, <1>4 DEF a, R
<1>10. ASSUME NEW c \in {220, 421}, replies' = Reply(0, c), c = 421 => faults' > 0
       PROVE  \E p \in Seq(Answers) : Going(s, p)'
  <2> DEFINE p == <<Ans(0, c)>>
  <2>0. /\ p \in Seq(Answers) /\ Append(q, Ans(0, c)) = p
        /\ c \in Said /\ replies \o Reply(0, c) = Reply(0, c)
    <3>1. c \in {220, 120, 421}
      BY ONLY c \in {220, 421}
    <3>2. First(c)
      <4> HIDE DEF First
      <4>1. QED BY ONLY <3>1, <1>9
    <3>3. QED BY ONLY <3>2
  <2>1. p \in Seq(Answers) /\ Append(q, Ans(0, c)) = p /\ replies' = replies \o Reply(0, c) /\ c \in Said
    BY ONLY <2>0, <1>10
  <2>2. UNCHANGED <<job, begun>>
    BY <1>1 DEF client
  <2>4. Greeting(p)'
    BY <1>3, <1>7, <1>10 DEF Greeting
  <2> HIDE DEF p
  <2>3. Wire(p)'
    <3>1. Wire(Append(q, Ans(0, c)))'
      BY <2>1, <2>2, <1>2, <1>4, WireSaid
    <3>2. QED BY <3>1, <2>1
  <2>5. Talking(s, p)'
    BY <2>4, <1>8
  <2>6. Going(s, p)'
    BY <2>3, <2>5, <1>1, <1>2, <1>5, <1>6, Stands
  <2>7. QED BY <2>1, <2>6
<1>11. ASSUME job.api # "send", replies' = Reply(0, 120) \o Reply(0, 220)
       PROVE  \E p \in Seq(Answers) : Going(s, p)'
  <2> DEFINE a == Ans(0, 120)
             b == Ans(0, 220)
             R == Reply(0, 120)
             T == Reply(0, 220)
             p == <<a, b>>
  <2>0. First(120) /\ First(220)
    <3> HIDE DEF First
    <3>1. QED BY ONLY <1>9
  <2>1. a \in Answers /\ b \in Answers
    BY ONLY <2>0
  <2>2. replies \o R = R /\ Append(q, a) = <<a>>
    BY ONLY <2>0
  <2>3. IsReply(Lines, R, a) /\ IsReply(Lines, T, b)
    BY LinesTyped, ReplyIs
  <2>g. Greeting(p)'
    BY <1>3, <1>7, <1>11, <1>1 DEF Greeting
  <2>r. replies' = R \o T /\ begun' = begun
    BY <1>11, <1>1 DEF client
  <2> HIDE DEF a, b, R, T
  <2>5. <<a>> \in Seq(Answers) /\ Append(<<a>>, b) = p /\ p \in Seq(Answers)
    BY <2>1, OneReply, TwoReplies
  <2> HIDE DEF p
  <2>4. OnWire(Lines, R, begun, <<a>>, TRUE) /\ R \in Seq(Line)
    <3>0. OnWire(Lines, replies, begun, q, TRUE)
      BY <1>2, <1>4, WireNow
    <3>1. OnWire(Lines, replies \o R, begun, Append(q, a), TRUE) /\ replies \o R \in Seq(Line)
      BY <3>0, <2>1, <2>3, LinesTyped, WireSends
    <3>2. QED BY <3>1, <2>2
  <2>6. OnWire(Lines, R \o T, begun, Append(<<a>>, b), TRUE)
    BY <2>1, <2>3, <2>4, <2>5, LinesTyped, WireSends
  <2>7. OnWire(Lines, replies', begun', p, TRUE)
    BY <2>5, <2>6, <2>r
  <2>8. Wire(p)'
    BY <2>7, <1>1, WireNext
  <2>10. Talking(s, p)'
    BY <2>g, <1>8
  <2>11. Going(s, p)'
    BY <2>8, <2>10, <1>1, <1>2, <1>5, <1>6, Stands
  <2>12. QED BY <2>5, <2>11
<1>12. \/ replies' = Reply(0, 220) \/ (job.api # "send" /\ replies' = Reply(0, 120) \o Reply(0, 220))
       \/ replies' = Reply(0, 421) /\ faults' > 0
  BY FaultTyped DEF Greets
<1>13. QED BY <1>10, <1>11, <1>12

\* An empty sink.
LEMMA NoBlocks == <<>> \in Seq({"block"}) /\ Len(<<>>) = 0
BY EmptySeq

\* The server answers the command that the client waits with.
LEMMA ServesAwait ==
    ASSUME TypeInv, NEW s \in Places, NEW q \in Seq(Answers), Going(s, q), Serves,
           s.at = "await", s.of # ".", s.of \in Commands,
           q = <<>>, toserver = <<s.of>>, server.read + 1 = asked
    PROVE  \E p \in Seq(Answers) : Going(s, p)'
<1> DEFINE c == s.of
<1>1. PICK n \in Nat : n = asked
  BY Types
<1>2. /\ Fit(job, s) /\ Wire(q)
      /\ job.api \in {"get", "put"} => FileData(s, q)
      /\ job.api = "send" => MailData(s, q)
  BY GoingParts
<1>3. /\ server.mode = "command" /\ toserver' = Tail(toserver) /\ UNCHANGED <<job, client>>
      /\ server'.read = server.read + 1 /\ server'.inbox = server.inbox
      /\ server'.accepted = server.accepted /\ server'.stored = server.stored
      /\ data'.flow = data.flow /\ data'.ended = data.ended /\ data'.cut = data.cut
  BY ServesDoes
<1>4. toserver' = <<>> /\ Head(toserver) = c /\ server'.read = n /\ asked' = n /\ ~Gone
  <2>1. Head(toserver) = c /\ Tail(toserver) = <<>>
    OBVIOUS
  <2>2. QED BY <2>1, <1>1, <1>3 DEF client, Gone
<1>5. \/ \E answer \in Codes(job, c) :
            /\ replies' = replies \o Reply(n, answer)
            /\ server'.mode = Mode(c, answer)
            /\ server'.rcpts = IF c = "RCPT" THEN server.rcpts + 1 ELSE server.rcpts
            /\ data.made => data'.made
            /\ answer = 150 /\ ~Passive(job) => data'.made
            /\ faults' = faults
      \/ /\ faults' > 0 /\ replies' = replies \o Reply(n, 500)
         /\ server'.mode = "command" /\ server'.rcpts = server.rcpts
         /\ data' = data
  <2>1. server.read + 1 = n /\ Head(toserver) = c
    BY <1>1, <1>4
  <2> HIDE DEF c
  <2>2. QED BY ONLY TypeInv, Serves, ServesDoes, <2>1
<1> HIDE DEF c
<1>6. c \in Commands /\ c # "." /\ c = s.of
  BY DEF c
\* What the answer a leaves to be shown.
<1> DEFINE Says(a) == /\ a \in Said /\ replies' = replies \o Reply(n, a)
                      /\ \/ a \in Codes(job, c) /\ server'.mode = Mode(c, a)
                         \/ a = 500 /\ faults' > 0 /\ server'.mode = "command"
           Leaves(a) == /\ job.api \in {"get", "put"} => FileData(s, <<Ans(n, a)>>)'
                        /\ job.api = "send" => MailData(s, <<Ans(n, a)>>)'
<1>7. ASSUME NEW a, Says(a), Leaves(a)
      PROVE  \E p \in Seq(Answers) : Going(s, p)'
  <2> DEFINE b == Ans(n, a)
             p == <<b>>
  <2>0. a \in Said
    BY <1>7
  <2>1. b \in Answers
    BY <2>0, AnsParts, SaidTyped
  <2>2. Asked(c, p)'
    <3>1. a \in Codes(job', c) /\ server'.mode = Mode(c, a) => Served(Mode(c, a))'
      BY <1>4 DEF Served
    <3>2. server'.mode = "command" => Served("command")'
      BY <1>4 DEF Served
    <3>3. job' = job
      BY <1>3
    <3>4. CASE a \in Codes(job, c) /\ server'.mode = Mode(c, a)
      BY <3>1, <3>3, <3>4, <1>4 DEF Asked
    <3>5. CASE a = 500 /\ faults' > 0 /\ server'.mode = "command"
      BY <3>2, <3>5, <1>4 DEF Asked
    <3>6. QED BY <3>4, <3>5, <1>7
  <2>3. Talking(s, p)'
    <3> HIDE DEF p
    <3>1. QED BY <2>2, <1>6 DEF Talking
  <2> HIDE DEF b
  <2>4. p \in Seq(Answers) /\ Append(q, b) = p
    BY <2>1, OneReply
  <2> HIDE DEF p
  <2>5. Wire(p)'
    <3>1. UNCHANGED <<job, begun>>
      BY <1>3 DEF client
    <3>a. Wire(q) /\ ~Gone
      BY <1>2, <1>4
    <3>b. replies' = replies \o Reply(n, a)
      BY <1>7
    <3>2. Wire(Append(q, Ans(n, a)))'
      <4>1. SaysReply(n, a)
        BY <3>1, <3>b DEF SaysReply
      <4>2. OnWireNext(q, n, a)
        BY ONLY TypeInv, q \in Seq(Answers), n \in Nat, <2>0, <3>a, <4>1, WireWith
      <4>3. QED BY <4>2 DEF OnWireNext
    <3>3. QED BY <3>2, <2>4 DEF b
  <2>6. job.api \in {"get", "put"} => FileData(s, p)'
    BY <1>7 DEF p, b
  <2>7. job.api = "send" => MailData(s, p)'
    BY <1>7 DEF p, b
  <2>8. Going(s, p)'
    BY <2>3, <2>5, <2>6, <2>7, <1>3, Stands
  <2>9. QED BY <2>4, <2>8
\* Nothing of the file is touched by it, and the data connection may be made.
<1>8. ASSUME NEW a \in Said, job.api \in {"get", "put"},
             (a \in Codes(job, c) /\ (data.made => data'.made) /\ (a = 150 /\ ~Passive(job) => data'.made))
                \/ a = 500
      PROVE  FileData(s, <<Ans(n, a)>>)'
  <2> DEFINE b == Ans(n, a)
             p == <<b>>
  <2>1. b \in Answers /\ b.code = a
    BY AnsParts, SaidTyped
  <2>2. p # <<>> /\ Head(p) = b /\ Tail(p) = <<>>
    OBVIOUS
  <2>3. IF s.did = 0 THEN Untouched ELSE Kept
    BY <1>2, <1>4, <1>8 DEF FileData
  <2>4. (Untouched => Untouched') /\ (Kept => Kept') /\ (Untouched => left = Blocks /\ got = <<>>)
    <3>1. Delivery' = Delivery
      BY <1>3 DEF Delivery
    <3>2. QED BY <3>1, <1>3, <1>4 DEF Untouched, Kept, client
  <2> HIDE DEF p, b
  <2>5. CASE c \in {"stor", "retr"} /\ a = 150
    <3>1. Untouched /\ left = Blocks /\ got = <<>> /\ left' = Blocks /\ got' = <<>>
      <4>1. s.did = 0
        BY <1>2, <1>6, <2>5 DEF Fit, Moves
      <4>2. QED BY <4>1, <2>3, <2>4, <1>3 DEF client
    <3>2. Passive(job') \/ data'.made
      BY <2>5, <1>8, <1>3
    <3>3. ~data'.ended /\ ~data'.cut /\ data'.flow = 0 /\ server'.stored = 0
      BY <3>1, <1>3, <1>4 DEF Untouched
    <3>4. Len(got') = 0 /\ got' \in Seq({"block"}) /\ Blocks \in Nat
      BY <3>1, NoBlocks, DialogueAssumption
    <3>5. FlowData(c, <<>>)'
      <4>1. server'.stored + data'.flow + left' = Blocks /\ Len(got') + data'.flow = server'.stored
            /\ server'.stored <= Blocks
        BY <3>1, <3>3, <3>4
      <4>2. <<>> # <<Ans(asked', 226)>>
        OBVIOUS
      <4>3. QED BY <3>2, <3>3, <3>4, <4>1, <4>2 DEF FlowData
    <3>6. QED BY <3>1, <3>5, <2>1, <2>2, <2>5, <1>6 DEF FileData, p, b
  <2>6. CASE ~(c \in {"stor", "retr"} /\ a = 150)
    <3>1. IF s.did = 0 THEN Untouched' ELSE Kept'
      BY <2>3, <2>4
    <3>2. FileData(s, p)'
      BY <3>1, <2>1, <2>2, <2>6, <1>6 DEF FileData
    <3>3. QED BY <3>2 DEF p, b
  <2>7. QED BY <2>5, <2>6
\* A recipient that is accepted is one more.
<1>9. ASSUME NEW a \in Said, job.api = "send",
             (a \in Codes(job, c)
                    /\ server'.rcpts = IF c = "RCPT" THEN server.rcpts + 1 ELSE server.rcpts)
                \/ (a = 500 /\ server'.rcpts = server.rcpts)
      PROVE  MailData(s, <<Ans(n, a)>>)'
  <2> DEFINE b == Ans(n, a)
             p == <<b>>
  <2>1. b \in Answers /\ b.code = a
    BY AnsParts, SaidTyped
  <2>2. p # <<>> /\ Head(p) = b
    OBVIOUS
  <2>3. TheMessage' = TheMessage
    BY <1>3 DEF TheMessage
  <2>4. c = "RCPT" /\ a \in Codes(job, c) => a = 250
    BY DEF Codes
  <2>5. job' = job /\ left' = left
    BY <1>3 DEF client
  <2> HIDE DEF p, b
  <2>6. CASE s.did <= job.rcpts
    <3>1. left = Blocks /\ server.accepted = <<>> /\ server.inbox = 0 /\ server.rcpts = s.did
      BY <1>2, <1>4, <1>6, <1>9, <2>6 DEF MailData
    <3>2. server'.rcpts = IF c = "RCPT" /\ a = 250 THEN s.did + 1 ELSE s.did
      BY <3>1, <2>4, <1>9
    <3>3. MailData(s, p)'
      BY <3>1, <3>2, <2>1, <2>2, <2>5, <2>6, <1>3, <1>6 DEF MailData
    <3>4. QED BY <3>3 DEF p, b
  <2>7. CASE ~(s.did <= job.rcpts)
    <3>1. server.accepted = <<TheMessage>>
      BY <1>2, <1>6, <1>9, <2>7 DEF MailData
    <3>2. MailData(s, p)'
      BY <3>1, <2>3, <2>5, <2>7, <1>3, <1>6 DEF MailData
    <3>3. QED BY <3>2 DEF p, b
  <2>8. QED BY <2>6, <2>7
<1>10. CASE \E answer \in Codes(job, c) :
            /\ replies' = replies \o Reply(n, answer)
            /\ server'.mode = Mode(c, answer)
            /\ server'.rcpts = IF c = "RCPT" THEN server.rcpts + 1 ELSE server.rcpts
            /\ data.made => data'.made
            /\ answer = 150 /\ ~Passive(job) => data'.made
            /\ faults' = faults
  <2>1. PICK a \in Codes(job, c) :
            /\ replies' = replies \o Reply(n, a)
            /\ server'.mode = Mode(c, a)
            /\ server'.rcpts = IF c = "RCPT" THEN server.rcpts + 1 ELSE server.rcpts
            /\ data.made => data'.made
            /\ a = 150 /\ ~Passive(job) => data'.made
    BY <1>10
  <2>2. a \in Said
    BY CodesSaid
  <2>3. job.api \in {"get", "put"} => FileData(s, <<Ans(n, a)>>)'
    BY ONLY <2>1, <2>2, <1>8
  <2>4. job.api = "send" => MailData(s, <<Ans(n, a)>>)'
    BY ONLY <2>1, <2>2, <1>9
  <2>5. Says(a) /\ Leaves(a)
    BY ONLY <2>1, <2>2, <2>3, <2>4
  <2> HIDE DEF Says, Leaves
  <2>6. QED BY ONLY <2>5, <1>7
<1>11. CASE /\ faults' > 0 /\ replies' = replies \o Reply(n, 500)
            /\ server'.mode = "command" /\ server'.rcpts = server.rcpts
            /\ data' = data
  <2>1. 500 \in Said
    BY DEF Said
  <2> DEFINE a == 500
  <2>2. /\ a \in Said /\ a = 500 /\ faults' > 0 /\ replies' = replies \o Reply(n, a)
        /\ server'.mode = "command" /\ server'.rcpts = server.rcpts
    BY <2>1, <1>11
  <2> HIDE DEF a
  <2>3. job.api \in {"get", "put"} => FileData(s, <<Ans(n, a)>>)'
    BY ONLY <2>2, <1>8
  <2>4. job.api = "send" => MailData(s, <<Ans(n, a)>>)'
    BY ONLY <2>2, <1>9
  <2>5. Says(a) /\ Leaves(a)
    BY ONLY <2>2, <2>3, <2>4
  <2> HIDE DEF Says, Leaves
  <2>6. QED BY ONLY <2>5, <1>7
<1>12. QED BY <1>5, <1>10, <1>11

\* A reply more.
LEMMA AppendParts ==
    ASSUME NEW q \in Seq(Answers), NEW b \in Answers
    PROVE  /\ Append(q, b) \in Seq(Answers) /\ Len(Append(q, b)) = Len(q) + 1 /\ Append(q, b) # <<>>
           /\ \A i \in 1..Len(q) : Append(q, b)[i] = q[i]
           /\ Append(q, b)[Len(q) + 1] = b
           /\ q # <<>> => Head(Append(q, b)) = Head(q) /\ Tail(Append(q, b)) = Append(Tail(q), b)
<1>1. /\ Append(q, b) \in Seq(Answers) /\ Len(Append(q, b)) = Len(q) + 1
      /\ \A i \in 1..Len(q) : Append(q, b)[i] = q[i]
      /\ Append(q, b)[Len(q) + 1] = b
  OBVIOUS
<1>2. Append(q, b) # <<>>
  <2> DEFINE x == Append(q, b)
  <2>1. Len(x) = Len(q) + 1 /\ Len(q) \in Nat
    BY <1>1
  <2> HIDE DEF x
  <2>2. x # <<>>
    BY <2>1, EmptySeq
  <2>3. QED BY <2>2 DEF x
<1>3. ASSUME q # <<>> PROVE Head(Append(q, b)) = Head(q) /\ Tail(Append(q, b)) = Append(Tail(q), b)
  <2> DEFINE x == Tail(Append(q, b))
             y == Append(Tail(q), b)
             n == Len(q)
  <2>1. n \in Nat \ {0}
    BY <1>3, EmptySeq
  <2>2. Head(Append(q, b)) = Head(q)
    <3>1. 1 \in 1..n
      BY <2>1
    <3>2. QED BY <3>1, <1>1, <1>2, <1>3
  <2>3. x \in Seq(Answers) /\ Len(x) = n /\ \A i \in 1..n : x[i] = Append(q, b)[i+1]
    BY <1>1, <1>2
  <2>4. Tail(q) \in Seq(Answers) /\ Len(Tail(q)) = n - 1 /\ \A i \in 1..n-1 : Tail(q)[i] = q[i+1]
    BY <2>1
  <2>5. y \in Seq(Answers) /\ Len(y) = n /\ y[n] = b /\ \A i \in 1..n-1 : y[i] = Tail(q)[i]
    BY <2>1, <2>4
  <2> HIDE DEF x, y
  <2>6. ASSUME NEW i \in 1..n PROVE x[i] = y[i]
    <3>1. CASE i = n
      BY <3>1, <2>3, <2>5, <1>1
    <3>2. CASE i # n
      <4>1. i \in 1..n-1 /\ i + 1 \in 1..n
        BY <3>2, <2>1
      <4>2. QED BY <4>1, <2>3, <2>4, <2>5, <1>1
    <3>3. QED BY <3>1, <3>2
  <2>7. x = y
    BY <2>3, <2>5, <2>6, SeqEqual
  <2>8. QED BY <2>2, <2>7 DEF x, y
<1>4. QED BY <1>1, <1>2, <1>3

\* The server answers one of the commands whose replies are owed.
LEMMA ServesLoose ==
    ASSUME TypeInv, NEW s \in Places, NEW q \in Seq(Answers), Going(s, q), Serves,
           s.at = "loose", Loose(s.did, s.of, q)
    PROVE  \E p \in Seq(Answers) : Going(s, p)'
<1> DEFINE c == Head(toserver)
<1>1. PICK n \in Nat : n = server.read + 1
  BY Types
<1>2. Fit(job, s) /\ Wire(q)
  BY GoingParts
<1>3. /\ server.mode = "command" /\ toserver # <<>> /\ toserver' = Tail(toserver) /\ UNCHANGED <<job, client>>
  BY ServesDoes
<1>4. \/ \E answer \in Codes(job, c) :
            /\ replies' = replies \o Reply(n, answer)
            /\ server'.mode = Mode(c, answer)
            /\ faults' = faults
      \/ /\ faults' > 0 /\ replies' = replies \o Reply(n, 500)
         /\ server'.mode = "command"
  BY ServesDoes, <1>1
<1>5. ~Gone
  BY <1>3 DEF Gone
<1>6. /\ faults = 0 => \A i \in 1..Len(q) : q[i].code = 200 \/ (s.of = "QUIT" /\ q[i].code = 221)
      /\ \A i \in 1..Len(toserver) :
            toserver[i] = "other" \/ (s.of = "QUIT" /\ toserver[i] = "QUIT" /\ i = Len(toserver))
      /\ Len(q) + Len(toserver) = s.did
  BY <1>5 DEF Loose
<1>7. job.api \notin {"send", "get", "put"}
  BY <1>2 DEF Fit, Loosely
<1>8. /\ c = toserver[1] /\ Len(toserver') = Len(toserver) - 1 /\ Len(toserver) \in Nat \ {0}
      /\ \A i \in 1..Len(toserver') : toserver'[i] = toserver[i+1] /\ i + 1 \in 1..Len(toserver)
      /\ toserver' \in Seq(Commands \cup {"block"})
  BY <1>3, ToServerTyped
<1>9. c = "other" \/ (s.of = "QUIT" /\ c = "QUIT" /\ Len(toserver) = 1)
  <2>1. 1 \in 1..Len(toserver)
    BY <1>8
  <2>2. QED BY <2>1, <1>6, <1>8
<1>10. \A i \in 1..Len(toserver') :
          toserver'[i] = "other" \/ (s.of = "QUIT" /\ toserver'[i] = "QUIT" /\ i = Len(toserver'))
  <2>1. ASSUME NEW i \in 1..Len(toserver')
        PROVE  toserver'[i] = "other" \/ (s.of = "QUIT" /\ toserver'[i] = "QUIT" /\ i = Len(toserver'))
    <3>1. toserver'[i] = toserver[i+1] /\ i + 1 \in 1..Len(toserver) /\ (i + 1 = Len(toserver) => i = Len(toserver'))
      BY <1>8
    <3>2. QED BY <3>1, <1>6
  <2>2. QED BY <2>1
<1> HIDE DEF c
<1>11. ASSUME NEW a \in Said, replies' = replies \o Reply(n, a),
             (a \in Codes(job, c) /\ server'.mode = Mode(c, a) /\ faults' = faults)
                \/ (faults' > 0 /\ server'.mode = "command")
      PROVE  \E p \in Seq(Answers) : Going(s, p)'
  <2> DEFINE b == Ans(n, a)
             p == Append(q, b)
  <2>1. b \in Answers /\ b.code = a
    BY AnsParts, SaidTyped
  <2>2. Wire(p)'
    <3>1. UNCHANGED <<job, begun>>
      BY <1>3 DEF client
    <3>2. replies' = replies \o Reply(n, a)
      BY <1>11
    <3>3. SaysReply(n, a)
      BY ONLY <3>1, <3>2 DEF SaysReply
    <3>4. OnWireNext(q, n, a)
      BY ONLY TypeInv, q \in Seq(Answers), n \in Nat, a \in Said, <1>2, <1>5, <3>3, WireWith
    <3>5. QED BY ONLY <3>4 DEF OnWireNext
  <2> HIDE DEF b
  <2>3. /\ p \in Seq(Answers) /\ Len(p) = Len(q) + 1
        /\ \A i \in 1..Len(q) : p[i] = q[i]
        /\ p[Len(q) + 1] = b
    BY <2>1, AppendParts
  <2> HIDE DEF p
  <2>4. server'.mode = "command" \/ (server'.mode = "away" /\ toserver' = <<>> /\ s.of = "QUIT")
    <3>1. CASE faults' > 0 /\ server'.mode = "command"
      BY <3>1
    <3>2. CASE a \in Codes(job, c) /\ server'.mode = Mode(c, a)
      <4>1. CASE c = "other"
        BY <4>1, <3>2 DEF Mode
      <4>2. CASE s.of = "QUIT" /\ c = "QUIT" /\ Len(toserver) = 1
        <5>1. toserver' = <<>>
          BY <4>2, <1>8, EmptySeq
        <5>2. server'.mode = "away"
          BY <4>2, <3>2 DEF Mode
        <5>3. QED BY <5>1, <5>2, <4>2
      <4>3. QED BY <4>1, <4>2, <1>9
    <3>3. QED BY <3>1, <3>2, <1>11
  <2>5. Len(p) + Len(toserver') = s.did
    <3>1. Len(q) \in Nat /\ Len(toserver) \in Nat
      BY <1>8
    <3>2. QED BY <3>1, <1>6, <1>8, <2>3
  <2>6. faults' = 0 => \A i \in 1..Len(p) : p[i].code = 200 \/ (s.of = "QUIT" /\ p[i].code = 221)
    <3> SUFFICES ASSUME faults' = 0, NEW i \in 1..Len(p)
                 PROVE  p[i].code = 200 \/ (s.of = "QUIT" /\ p[i].code = 221)
      OBVIOUS
    <3>1. a \in Codes(job, c) /\ faults = 0
      BY <1>11
    <3>2. a = 200 \/ (s.of = "QUIT" /\ a = 221)
      <4>1. Codes(job, "other") = {200}
        BY ONLY DEF Codes
      <4>2. Codes(job, "QUIT") = {221}
        BY ONLY DEF Codes
      <4>3. QED BY ONLY <4>1, <4>2, <3>1, <1>9
    <3>3. CASE i \in 1..Len(q)
      BY <3>1, <3>3, <2>3, <1>6
    <3>4. CASE i = Len(q) + 1
      BY <3>2, <3>4, <2>1, <2>3
    <3>5. i \in 1..Len(q) \/ i = Len(q) + 1
      BY <2>3
    <3>6. QED BY <3>3, <3>4, <3>5
  <2>7. Loose(s.did, s.of, p)'
    BY <1>10, <2>4, <2>5, <2>6 DEF Loose
  <2>8. Talking(s, p)'
    BY <2>7 DEF Talking
  <2>9. Going(s, p)'
    BY <2>2, <2>8, <1>3, <1>7, Stands
  <2>10. QED BY <2>3, <2>9
<1>12. CASE \E answer \in Codes(job, c) :
            /\ replies' = replies \o Reply(n, answer)
            /\ server'.mode = Mode(c, answer)
            /\ faults' = faults
  <2>1. PICK a \in Codes(job, c) :
            /\ replies' = replies \o Reply(n, a)
            /\ server'.mode = Mode(c, a)
            /\ faults' = faults
    BY <1>12
  <2>2. a \in Said
    BY CodesSaid
  <2>3. QED BY <2>1, <2>2, <1>11
<1>13. CASE /\ faults' > 0 /\ replies' = replies \o Reply(n, 500)
            /\ server'.mode = "command"
  <2>1. 500 \in Said
    BY DEF Said
  <2>2. QED BY <2>1, <1>13, <1>11
<1>14. QED BY <1>4, <1>12, <1>13

\* A command is served.
LEMMA ServesGoes ==
    ASSUME TypeInv, NEW s \in Places, NEW q \in Seq(Answers), Going(s, q), Serves
    PROVE  \E p \in Seq(Answers) : Going(s, p)'
<1>1. server.mode = "command" /\ toserver # <<>>
  BY ServesDoes
<1>2. Fit(job, s) /\ Talking(s, q)
  BY GoingParts
<1>3. QED BY <1>1, <1>2, WhenServing, ServesAwait, ServesLoose

\* The server takes a block of the message, or its end.

\* A block of a message is taken.
LEMMA TakesBlock ==
    ASSUME TypeInv, NEW s \in Places, NEW q \in Seq(Answers), Going(s, q), TakesMessage,
           Head(toserver) = "block"
    PROVE  Going(s, q)'
<1>1. /\ server.mode = "message" /\ toserver # <<>> /\ toserver' = Tail(toserver)
      /\ UNCHANGED <<job, client, data>> /\ server'.rcpts = server.rcpts
      /\ server'.mode = "message" /\ server'.read = server.read
      /\ server'.inbox = server.inbox + 1 /\ server'.accepted = server.accepted
      /\ UNCHANGED <<replies, faults>>
  BY TakesMessageDoes
<1>2. Fit(job, s) /\ Talking(s, q) /\ Wire(q) /\ (job.api = "send" => MailData(s, q))
  BY GoingParts
<1>3. q = <<>> /\ (s.at \in {"message", "dot"} \/ (s.at = "await" /\ s.of = "."))
  BY <1>1, <1>2, WhenMessage
<1>4. /\ Len(toserver') = Len(toserver) - 1 /\ Len(toserver) \in Nat \ {0} /\ Head(toserver) = toserver[1]
      /\ \A i \in 1..Len(toserver') : toserver'[i] = toserver[i+1] /\ i + 1 \in 1..Len(toserver)
      /\ toserver' \in Seq(Commands \cup {"block"})
  BY <1>1, ToServerTyped
<1>5. Wire(q)'
  BY <1>1, <1>2 DEF Wire, Gone, Lines, client
<1>6. job.api = "send" /\ ~Gone
  BY <1>1, <1>2, <1>3 DEF Fit, Gone
<1>7. CASE s.at \in {"message", "dot"}
  <2>1. server.read = asked /\ \A i \in 1..Len(toserver) : toserver[i] = "block"
    BY <1>2, <1>6, <1>7, TalkingAt DEF Mailing
  <2>2. \A i \in 1..Len(toserver') : toserver'[i] = "block"
    BY <2>1, <1>4
  <2>3. Mailing(q)'
    BY <2>1, <2>2, <1>1, <1>3 DEF Mailing, client
  <2>4. Talking(s, q)'
    BY <2>3, <1>7 DEF Talking
  <2>5. server.inbox + Len(toserver) + left = Blocks /\ (s.at = "dot" => left = 0)
    BY <1>2, <1>6, <1>7 DEF MailData
  <2>6. server'.inbox + Len(toserver') + left' = Blocks /\ (s.at = "dot" => left' = 0)
    <3>1. server.inbox \in Nat /\ left \in Nat /\ left' = left
      BY Types, <1>1 DEF client
    <3>2. QED BY <3>1, <2>5, <1>1, <1>4
  <2>7. MailData(s, q)'
    BY <2>6, <1>7 DEF MailData
  <2>8. QED BY <2>4, <2>7, <1>1, <1>5, <1>6, Stands
<1>8. CASE s.at = "await" /\ s.of = "."
  <2>1. /\ server.read + 1 = asked /\ toserver[Len(toserver)] = "."
        /\ \A i \in 1..Len(toserver)-1 : toserver[i] = "block"
    <3>1. Dotted(q)
      BY <1>2, <1>8, TalkingAt
    <3>2. QED BY <3>1, <1>3, <1>6 DEF Dotted
  <2>2. Len(toserver) # 1
    BY <2>1, <1>4
  <2>3. Len(toserver') \in 1..Len(toserver) /\ toserver' # <<>>
    <3>1. Len(toserver') \in Nat \ {0}
      BY <2>2, <1>4
    <3>2. toserver' # <<>>
      BY <3>1, EmptySeq
    <3>3. QED BY <3>1, <3>2, <1>4
  <2>4. toserver'[Len(toserver')] = "." /\ \A i \in 1..Len(toserver')-1 : toserver'[i] = "block"
    <3>1. Len(toserver') \in 1..Len(toserver')
      BY <2>3
    <3>2. toserver'[Len(toserver')] = toserver[Len(toserver)]
      BY <3>1, <1>4
    <3>3. ASSUME NEW i \in 1..Len(toserver')-1 PROVE toserver'[i] = "block"
      <4>1. i \in 1..Len(toserver') /\ i + 1 \in 1..Len(toserver)-1
        BY <1>4
      <4>2. QED BY <4>1, <1>4, <2>1
    <3>4. QED BY <3>2, <3>3, <2>1
  <2>5. Dotted(q)'
    BY <2>1, <2>3, <2>4, <1>1, <1>3 DEF Dotted, client
  <2>6. Talking(s, q)'
    BY <2>5, <1>8 DEF Talking
  <2>7. MailData(s, q)'
    BY <1>3, <1>8 DEF MailData
  <2>8. QED BY <2>6, <2>7, <1>1, <1>5, <1>6, Stands
<1>9. QED BY <1>3, <1>7, <1>8

\* The message ends, and is accepted or refused.
LEMMA TakesEnd ==
    ASSUME TypeInv, MailServer, NEW s \in Places, NEW q \in Seq(Answers), Going(s, q), TakesMessage,
           Head(toserver) # "block"
    PROVE  \E p \in Seq(Answers) : Going(s, p)'
<1>1. PICK n \in Nat : n = asked
  BY Types
<1>2. /\ server.mode = "message" /\ toserver # <<>> /\ toserver' = Tail(toserver)
      /\ UNCHANGED <<job, client, data>> /\ server'.mode = "command" /\ server'.read = server.read + 1
  BY TakesMessageDoes
<1>3. Fit(job, s) /\ Talking(s, q) /\ Wire(q)
  BY GoingParts
<1>4. q = <<>> /\ (s.at \in {"message", "dot"} \/ (s.at = "await" /\ s.of = "."))
  BY <1>2, <1>3, WhenMessage
<1>5. job.api = "send" /\ ~Gone
  BY <1>2, <1>3, <1>4 DEF Fit, Gone
<1>6. /\ Len(toserver') = Len(toserver) - 1 /\ Len(toserver) \in Nat \ {0} /\ Head(toserver) = toserver[1]
      /\ toserver' \in Seq(Commands \cup {"block"})
  BY <1>2, ToServerTyped
<1>7. 1 \in 1..Len(toserver)
  BY <1>6
<1>8. s.at = "await" /\ s.of = "."
  <2>1. CASE s.at \in {"message", "dot"}
    <3>1. \A i \in 1..Len(toserver) : toserver[i] = "block"
      BY <1>3, <1>5, <2>1, TalkingAt DEF Mailing
    <3>2. QED BY <3>1, <1>6, <1>7
  <2>2. QED BY <2>1, <1>4
<1>9. server.read + 1 = n /\ \A i \in 1..Len(toserver)-1 : toserver[i] = "block"
  <2>1. Dotted(q)
    BY <1>3, <1>8, TalkingAt
  <2>2. QED BY <2>1, <1>1, <1>4, <1>5 DEF Dotted
<1>10. Len(toserver) = 1 /\ toserver' = <<>>
  <2>1. 1 \notin 1..Len(toserver)-1
    BY <1>6, <1>9
  <2>2. Len(toserver) = 1 /\ Len(toserver') = 0
    BY <2>1, <1>6
  <2>3. QED BY <2>2, <1>6, EmptySeq
<1>11. Served("command")' /\ asked' = n
  BY <1>1, <1>2, <1>9, <1>10 DEF Served, client
<1>12. server.rcpts = job.rcpts /\ server.accepted = <<>> /\ server.inbox = Blocks
  <2>1. /\ server.rcpts = job.rcpts /\ server.accepted = <<>>
        /\ server.inbox + Len(toserver) - 1 = Blocks
    BY <1>2, <1>6, <1>7 DEF MailServer
  <2>2. server.inbox \in Nat
    BY Types
  <2>3. QED BY <2>1, <2>2, <1>10
<1>13. \/ /\ replies' = replies \o Reply(n, 250)
          /\ server'.accepted = Append(server.accepted, [rcpts |-> server.rcpts, size |-> server.inbox])
       \/ replies' = replies \o Reply(n, 554) /\ faults' > 0
  BY TakesMessageDoes, <1>9
<1>14. ASSUME NEW a \in {250, 554}, replies' = replies \o Reply(n, a), a = 554 => faults' > 0,
              a = 250 => server'.accepted = <<TheMessage>>
       PROVE  \E p \in Seq(Answers) : Going(s, p)'
  <2> DEFINE b == Ans(n, a)
             p == <<b>>
  <2>1. a \in Said /\ b \in Answers /\ b.code = a
    BY AnsParts, SaidTyped DEF Said
  <2>2. Dotted(p)'
    BY <1>11, <1>14 DEF Dotted
  <2>3. Talking(s, p)'
    <3> HIDE DEF p
    <3>1. QED BY <2>2, <1>8 DEF Talking
  <2> HIDE DEF b
  <2>4. p \in Seq(Answers) /\ Append(q, b) = p /\ p # <<>> /\ Head(p) = b
    BY <2>1, <1>4, OneReply
  <2> HIDE DEF p
  <2>5. Wire(p)'
    <3>1. UNCHANGED <<job, begun>>
      BY <1>2 DEF client
    <3>a. Wire(q) /\ ~Gone /\ a \in Said
      BY <1>3, <1>5, <2>1
    <3>b. replies' = replies \o Reply(n, a)
      BY <1>14
    <3>2. Wire(Append(q, Ans(n, a)))'
      <4>1. SaysReply(n, a)
        BY <3>1, <3>b DEF SaysReply
      <4>2. OnWireNext(q, n, a)
        BY ONLY TypeInv, q \in Seq(Answers), n \in Nat, <3>a, <4>1, WireWith
      <4>3. QED BY <4>2 DEF OnWireNext
    <3>3. QED BY <3>2, <2>4 DEF b
  <2>6. MailData(s, p)'
    <3>1. a = 250 => server'.accepted = <<TheMessage'>>
      BY <1>14, <1>2 DEF TheMessage
    <3>2. QED BY <3>1, <2>1, <2>4, <1>8, <1>14 DEF MailData
  <2>7. Going(s, p)'
    BY <2>3, <2>5, <2>6, <1>2, <1>5, Stands
  <2>8. QED BY <2>4, <2>7
<1>15. CASE /\ replies' = replies \o Reply(n, 250)
            /\ server'.accepted = Append(server.accepted, [rcpts |-> server.rcpts, size |-> server.inbox])
  <2>1. [rcpts |-> server.rcpts, size |-> server.inbox] = TheMessage
    BY <1>12 DEF TheMessage
  <2>2. Append(<<>>, TheMessage) = <<TheMessage>>
    OBVIOUS
  <2>3. server'.accepted = <<TheMessage>>
    BY <1>15, <2>1, <2>2, <1>12
  <2>4. QED BY <2>3, <1>14, <1>15
<1>16. CASE replies' = replies \o Reply(n, 554) /\ faults' > 0
  BY <1>14, <1>16
<1>17. QED BY <1>13, <1>15, <1>16

\* A transfer.

\* What is on the way stays there when nobody adds to it or reads it.
LEMMA TalkingSame ==
    ASSUME NEW s \in Places, NEW q, Talking(s, q), UNCHANGED <<job, code, asked, toserver, faults>>,
           server'.mode = server.mode, server'.read = server.read
    PROVE  Talking(s, q)'
<1>1. \A m : Served(m) => Served(m)'
  BY DEF Served, Gone
<1>2. Quiet(q) => Quiet(q)'
  BY <1>1 DEF Quiet
<1>3. Greeting(q) => Greeting(q)'
  BY <1>1 DEF Greeting
<1>4. \A c, x : Owed(c, x) => Owed(c, x)'
  BY <1>1 DEF Owed
<1>5. \A c : Asked(c, q) => Asked(c, q)'
  <2>1. ASSUME NEW c, Asked(c, q) PROVE Asked(c, q)'
    <3>1. CASE \E a \in Codes(job, c) : q = <<Ans(asked, a)>> /\ Served(Mode(c, a))
      BY <3>1, <1>1 DEF Asked
    <3>2. CASE q = <<>> /\ (Gone \/ (server.mode = "command" /\ toserver = <<c>> /\ server.read + 1 = asked))
      BY <3>2 DEF Asked, Gone
    <3>3. CASE q = <<Ans(asked, 500)>> /\ faults > 0 /\ Served("command")
      BY <3>3, <1>1 DEF Asked
    <3>4. CASE /\ c \in {"stor", "retr"} /\ 150 \in Codes(job, c)
               /\ q # <<>> /\ Head(q) = Ans(asked, 150) /\ Owed(c, Tail(q))
      BY <3>4, <1>4 DEF Asked
    <3>5. QED BY <2>1, <3>1, <3>2, <3>3, <3>4 DEF Asked
  <2>2. QED BY <2>1
<1>6. Mailing(q) => Mailing(q)'
  BY DEF Mailing, Gone
<1>7. Dotted(q) => Dotted(q)'
  BY <1>1 DEF Dotted, Gone
<1>8. Loose(s.did, s.of, q) => Loose(s.did, s.of, q)'
  BY DEF Loose, Gone
<1>9. QED BY <1>1, <1>2, <1>3, <1>4, <1>5, <1>6, <1>7, <1>8 DEF Talking

\* Whatever is said last, the client is where it was with the file.
LEMMA FlowKeeps ==
    ASSUME TypeInv, NEW c \in {"stor", "retr"}, FlowData(c, <<>>), server.mode = c, Transfers, UNCHANGED replies
    PROVE  FlowData(c, <<>>)' /\ (MovedData(c, <<>>) => MovedData(c, <<>>)')
<1>0. /\ data.flow \in Nat /\ left \in Nat /\ server.stored \in Nat
  BY Types
<1>1. /\ UNCHANGED <<job, client, toserver, faults>> /\ data'.made = data.made /\ data'.cut = data.cut
      /\ \/ /\ server.mode = "stor" /\ server'.mode = "stor" /\ data.flow > 0
            /\ data'.flow = data.flow - 1 /\ data'.ended = data.ended
            /\ server'.stored = server.stored + 1
         \/ /\ server.mode = "stor" /\ server'.mode = "command"
            /\ replies' = replies \o Reply(server.read, 226)
         \/ /\ server.mode = "retr" /\ server'.mode = "retr" /\ server.stored < Blocks
            /\ data'.flow = data.flow + 1 /\ data'.ended = data.ended
            /\ server'.stored = server.stored + 1
         \/ /\ server.mode = "retr" /\ server'.mode = "command"
            /\ replies' = replies \o Reply(server.read, 226)
  BY TransfersDoes
<1>2. replies' # replies \o Reply(server.read, 226)
  <2> DEFINE R == Reply(server.read, 226)
  <2>1. server.read \in Nat /\ 226 \in Said /\ replies \in Seq(Line)
    BY Types DEF Said
  <2>2. IsReply(Lines, R, Ans(server.read, 226)) /\ Lines \in {1, 4}
    BY <2>1, LinesTyped, ReplyIs, SaidTyped
  <2>3. R \in Seq(Line) /\ Len(R) > 0
    BY <2>2 DEF IsReply
  <2> HIDE DEF R
  <2>4. Len(replies \o R) = Len(replies) + Len(R)
    BY <2>1, <2>3
  <2>5. Len(replies) # Len(replies \o R)
    BY <2>1, <2>3, <2>4
  <2>6. QED BY <2>5 DEF R
<1>3. ~Gone
  BY DEF Gone
<1>4. <<>> # <<Ans(asked', 226)>> /\ <<>> # <<Ans(asked, 226)>>
  OBVIOUS
<1>5. Passive(job') \/ data'.made
  BY <1>1 DEF FlowData
<1>6. got' = got /\ left' = left
  BY <1>1 DEF client
<1>7. CASE c = "stor"
  <2>1. ~data.cut /\ server.stored + data.flow + left = Blocks /\ (data.ended => left = 0)
    BY <1>3, <1>7 DEF FlowData
  <2>2. /\ data.flow > 0 /\ data'.flow = data.flow - 1 /\ data'.ended = data.ended
        /\ server'.stored = server.stored + 1
    BY <1>1, <1>2, <1>7
  <2>3. server'.stored + data'.flow + left' = Blocks
    BY <1>0, <1>6, <2>1, <2>2
  <2>4. FlowData(c, <<>>)'
    BY <1>1, <1>4, <1>5, <1>6, <1>7, <2>1, <2>2, <2>3 DEF FlowData
  <2>5. MovedData(c, <<>>) => MovedData(c, <<>>)'
    BY <2>4, <2>2, <1>6, <1>3, <1>4, <1>7 DEF MovedData
  <2>6. QED BY <2>4, <2>5
<1>8. CASE c = "retr"
  <2>1. /\ got \in Seq({"block"}) /\ ~data.ended /\ ~data.cut
        /\ Len(got) + data.flow = server.stored /\ server.stored <= Blocks
    BY <1>3, <1>8 DEF FlowData
  <2>2. /\ server.stored < Blocks
        /\ data'.flow = data.flow + 1 /\ data'.ended = data.ended
        /\ server'.stored = server.stored + 1
    BY <1>1, <1>2, <1>8
  <2>3. Len(got') + data'.flow = server'.stored /\ server'.stored <= Blocks
    <3>1. Len(got) \in Nat /\ Blocks \in Nat
      BY <2>1, DialogueAssumption
    <3>2. QED BY <3>1, <1>0, <1>6, <2>1, <2>2
  <2>4. FlowData(c, <<>>)'
    BY <1>1, <1>4, <1>5, <1>6, <1>8, <2>1, <2>2, <2>3 DEF FlowData
  <2>5. ~MovedData(c, <<>>)
    BY <1>3, <1>8 DEF MovedData
  <2>6. QED BY <2>4, <2>5
<1>9. QED BY <1>7, <1>8

\* The transfer ends and is confirmed;
LEMMA FlowEnds ==
    ASSUME TypeInv, NEW n \in Nat, n = asked, NEW c \in {"stor", "retr"}, FlowData(c, <<>>), server.mode = c,
           Transfers, server'.mode = "command"
    PROVE  /\ FlowData(c, <<Ans(n, 226)>>)'
           /\ MovedData(c, <<>>) => MovedData(c, <<Ans(n, 226)>>)'
           /\ replies' = replies \o Reply(server.read, 226)
<1>0. /\ data.flow \in Nat /\ left \in Nat /\ server.stored \in Nat
  BY Types
<1>1. /\ UNCHANGED <<job, client, toserver, faults>> /\ data'.made = data.made /\ data'.cut = data.cut
      /\ replies' = replies \o Reply(server.read, 226)
      /\ \/ /\ server.mode = "stor" /\ data.flow = 0 /\ data.ended
            /\ data'.flow = data.flow /\ data'.ended = data.ended /\ server'.stored = server.stored
         \/ /\ server.mode = "retr" /\ server.stored = Blocks
            /\ data'.flow = data.flow /\ data'.ended /\ server'.stored = server.stored
  BY TransfersDoes
<1>3. ~Gone
  BY DEF Gone
<1> DEFINE p == <<Ans(n, 226)>>
<1>4. p # <<>> /\ <<>> # <<Ans(asked, 226)>>
  OBVIOUS
<1>5. Passive(job') \/ data'.made
  BY <1>1 DEF FlowData
<1>6. got' = got /\ left' = left
  BY <1>1 DEF client
<1> HIDE DEF p
<1>7. CASE c = "stor"
  <2>1. server.stored + data.flow + left = Blocks /\ (data.ended => left = 0)
    BY <1>3, <1>7 DEF FlowData
  <2>2. data.flow = 0 /\ data.ended /\ server'.stored = server.stored
    BY <1>1, <1>7
  <2>3. server'.stored = Blocks /\ left' = 0
    BY <1>0, <1>6, <2>1, <2>2
  <2>4. FlowData(c, p)'
    BY <1>4, <1>5, <1>7, <2>3 DEF FlowData
  <2>5. MovedData(c, p)'
    BY <2>4, <1>4, <1>7 DEF MovedData
  <2>6. QED BY <2>4, <2>5, <1>1 DEF p
<1>8. CASE c = "retr"
  <2>1. got \in Seq({"block"}) /\ Len(got) + data.flow = server.stored
    BY <1>3, <1>8 DEF FlowData
  <2>2. Len(got') + data'.flow = Blocks /\ data'.ended
    BY <1>1, <1>6, <1>8, <2>1
  <2>3. FlowData(c, p)'
    BY <1>4, <1>5, <1>6, <1>8, <2>1, <2>2 DEF FlowData
  <2>4. ~MovedData(c, <<>>)
    BY <1>3, <1>8 DEF MovedData
  <2>5. QED BY <2>3, <2>4, <1>1 DEF p
<1>9. QED BY <1>7, <1>8

\* it is cut.
LEMMA FlowCut ==
    ASSUME NEW n \in Nat, n = asked, NEW c \in {"stor", "retr"}, FlowData(c, <<>>),
           UNCHANGED <<job, client>>, data'.made = data.made
    PROVE  FlowData(c, <<Ans(n, 426)>>)' /\ MovedData(c, <<Ans(n, 426)>>)'
<1> DEFINE p == <<Ans(n, 426)>>
<1>1. p # <<>> /\ asked' = n /\ got' = got
  BY DEF client
<1>2. p # <<Ans(n, 226)>>
  BY SameReply DEF Said
<1>3. Passive(job') \/ data'.made
  BY DEF FlowData
<1>4. c = "retr" => got \in Seq({"block"})
  BY DEF FlowData
<1> HIDE DEF p
<1>5. FlowData(c, p)'
  BY <1>1, <1>2, <1>3, <1>4 DEF FlowData
<1>6. MovedData(c, p)'
  BY <1>1, <1>2, <1>5 DEF MovedData
<1>7. QED BY <1>5, <1>6 DEF p

\* A transfer under way: the replies p on the way end in x, the last reply if it is there.
LastIs(s, n, p, x) ==
    \/ s.at = "await" /\ p # <<>> /\ Head(p) = Ans(n, 150) /\ Tail(p) = x
    \/ s.at \in {"more", "flow", "moved", "last"} /\ p = x

\* The reply that may come before it, when the transfer has begun but its answer is not
\* read.
First(n) == {<<>>, <<Ans(n, 150)>>}

\* Where a call is when the server moves its file, and what has been moved.
LEMMA MovingFile ==
    ASSUME TypeInv, NEW s \in Places, NEW q \in Seq(Answers), Going(s, q), server.mode \in {"stor", "retr"},
           NEW n \in Nat, n = asked
    PROVE  /\ s.of = server.mode /\ toserver = <<>> /\ server.read = n /\ Moves(job, s)
           /\ s.at = "await" => 150 \in Codes(job, s.of)
           /\ s.at = "more" => code # 213
           /\ LastIs(s, n, q, <<>>)
           /\ q \in First(n)
           /\ FlowData(s.of, <<>>)
           /\ s.at \in {"moved", "last"} => MovedData(s.of, <<>>)
           /\ s.at = "more" => got = <<>>
           /\ s.at = "await" => (s.of = "stor" => left = Blocks) /\ (s.of = "retr" => got = <<>>)
<1>1. Fit(job, s) /\ Talking(s, q) /\ (job.api \in {"get", "put"} => FileData(s, q))
  BY GoingParts
<1>2. /\ s.of = server.mode /\ toserver = <<>> /\ server.read = asked /\ Moves(job, s)
      /\ \/ s.at = "await" /\ q = <<Ans(asked, 150)>> /\ 150 \in Codes(job, s.of)
         \/ s.at \in {"more", "flow", "moved", "last"} /\ q = <<>>
      /\ s.at = "more" => code # 213 /\ s.of = "retr"
  BY <1>1, WhenMoving
<1>3. FileData(s, q)
  BY <1>1, <1>2 DEF Moves
<1>4. CASE s.at = "await" /\ q = <<Ans(n, 150)>>
  <2> DEFINE a == Ans(n, 150)
  <2>1. a \in Answers /\ a.code = 150
    BY AnsParts
  <2>2. q = <<a>>
    BY <1>4
  <2> HIDE DEF a
  <2>3. q # <<>> /\ Head(q) = a /\ Tail(q) = <<>>
    BY <2>1, <2>2, OneReply
  <2>4. FlowData(s.of, <<>>) /\ (s.of = "stor" => left = Blocks) /\ (s.of = "retr" => got = <<>>)
    BY <2>1, <2>3, <1>2, <1>3, <1>4 DEF FileData
  <2>5. LastIs(s, n, q, <<>>)
    BY <2>3, <1>4 DEF LastIs, a
  <2>6. q \in First(n)
    BY <1>4 DEF First
  <2>7. QED BY <2>4, <2>5, <2>6, <1>2, <1>4
<1>5. CASE s.at \in {"more", "flow", "moved", "last"} /\ q = <<>>
  <2>1. /\ FlowData(s.of, <<>>) /\ (s.at \in {"moved", "last"} => MovedData(s.of, <<>>))
        /\ s.at = "more" => got = <<>>
    BY <1>2, <1>3, <1>5 DEF FileData, MovedData
  <2>2. LastIs(s, n, q, <<>>)
    BY <1>5 DEF LastIs
  <2>3. q \in First(n)
    BY <1>5 DEF First
  <2>4. QED BY <2>1, <2>2, <2>3, <1>2, <1>5
<1>6. QED BY <1>2, <1>4, <1>5

\* The call goes on from there with one reply more or none.
LEMMA MovingOn ==
    ASSUME TypeInv, NEW s \in Places, NEW q \in Seq(Answers), Going(s, q), server.mode \in {"stor", "retr"},
           NEW n \in Nat, n = asked, UNCHANGED <<job, client, toserver>>,
           NEW p, NEW x, LastIs(s, n, p, x), Owed(s.of, x)', Wire(p)',
           FlowData(s.of, x)', s.at \in {"moved", "last"} => MovedData(s.of, x)'
    PROVE  Going(s, p)'
<1>1. /\ s.of = server.mode /\ Moves(job, s)
      /\ s.at = "await" => 150 \in Codes(job, s.of)
      /\ s.at = "more" => code # 213
      /\ s.at = "more" => got = <<>>
      /\ s.at = "await" => (s.of = "stor" => left = Blocks) /\ (s.of = "retr" => got = <<>>)
  BY MovingFile
<1>2. Fit(job, s) /\ Talking(s, q)
  BY GoingParts
<1>3. asked' = n /\ code' = code /\ got' = got /\ left' = left /\ job' = job
  BY DEF client
<1>4. s.of # "." /\ s.of # "greet" /\ s.of \in {"stor", "retr"}
  BY <1>1
<1>5. Ans(n, 150).code = 150
  BY AnsParts
<1>6. Talking(s, p)'
  <2>1. CASE s.at = "await"
    <3>1. Asked(s.of, p)'
      BY <2>1, <1>1, <1>3, <1>4 DEF LastIs, Asked
    <3>2. QED BY <2>1, <3>1, <1>4 DEF Talking
  <2>2. CASE s.at \in {"more", "flow", "moved", "last"}
    <3>1. Owed(s.of, p)'
      BY <2>2 DEF LastIs
    <3>2. /\ s.at = "more" => code \in Codes(job, "retr") /\ s.of = "retr"
          /\ s.at \in {"flow", "moved"} => code = 150
      BY <2>2, <1>2, <1>4, TalkingAt DEF Fit
    <3>3. QED BY <2>2, <3>1, <3>2, <1>1, <1>3, <1>4 DEF Talking
  <2>3. QED BY <2>1, <2>2 DEF LastIs
<1>7. FileData(s, p)'
  <2>1. CASE s.at = "await"
    <3>1. p # <<>> /\ Head(p) = Ans(n, 150) /\ Tail(p) = x
      BY ONLY <2>1, LastIs(s, n, p, x) DEF LastIs
    <3>2. Head(p).code = 150
      BY ONLY <3>1, <1>5
    <3>3. FlowData(s.of, Tail(p))'
      BY ONLY <3>1, FlowData(s.of, x)'
    <3>4. (s.of = "stor" => left = Blocks)' /\ (s.of = "retr" => got = <<>>)'
      BY ONLY <2>1, <1>1, <1>3
    <3>5. QED BY ONLY <2>1, <3>1, <3>2, <3>3, <3>4, <1>4 DEF FileData
  <2>2. CASE s.at \in {"more", "flow", "moved", "last"}
    <3>1. p = x /\ (s.at = "more" => s.of = "retr")
      BY <2>2, <1>2 DEF LastIs, Fit
    <3>2. QED BY <2>2, <3>1, <1>1, <1>3, <1>4 DEF FileData
  <2>3. QED BY <2>1, <2>2 DEF LastIs
<1>8. job.api # "send"
  BY <1>1 DEF Moves
<1>9. QED BY <1>6, <1>7, <1>8, Stands

\* The last reply is said.
LEMMA LastSaid ==
    ASSUME NEW s, NEW n \in Nat, NEW q \in First(n), LastIs(s, n, q, <<>>), NEW a \in Said
    PROVE  /\ LastIs(s, n, Append(q, Ans(n, a)), <<Ans(n, a)>>)
           /\ q \in Seq(Answers) /\ Append(q, Ans(n, a)) \in Seq(Answers)
<1> DEFINE b == Ans(n, a)
           c == Ans(n, 150)
<1>1. b \in Answers /\ c \in Answers
  BY AnsParts, SaidTyped
<1>2. q = <<>> \/ q = <<c>>
  BY DEF First
<1>3. \/ s.at = "await" /\ q # <<>> /\ Head(q) = c /\ Tail(q) = <<>>
      \/ s.at \in {"more", "flow", "moved", "last"} /\ q = <<>>
  BY DEF LastIs
<1> HIDE DEF b, c
<1>4. q \in Seq(Answers)
  BY <1>1, <1>2, OneReply, EmptySeq
<1>5. Append(q, b) \in Seq(Answers) /\ Append(q, b) # <<>> /\ Append(<<>>, b) = <<b>>
  BY <1>1, <1>4, AppendParts, OneReply
<1>6. CASE s.at = "await" /\ q # <<>> /\ Head(q) = c /\ Tail(q) = <<>>
  <2>1. Head(Append(q, b)) = c /\ Tail(Append(q, b)) = <<b>>
    BY <1>1, <1>4, <1>5, <1>6, AppendParts
  <2>2. QED BY <2>1, <1>4, <1>5, <1>6 DEF LastIs, b, c
<1>7. CASE s.at \in {"more", "flow", "moved", "last"} /\ q = <<>>
  BY <1>4, <1>5, <1>7 DEF LastIs, b
<1>8. QED BY <1>3, <1>6, <1>7

\* A block is moved or the transfer ends.
LEMMA TransfersGoes ==
    ASSUME TypeInv, NEW s \in Places, NEW q \in Seq(Answers), Going(s, q), Transfers
    PROVE  \E p \in Seq(Answers) : Going(s, p)'
<1>1. PICK n \in Nat : n = asked
  BY Types
<1>2. server.mode \in {"stor", "retr"} /\ UNCHANGED <<job, client, toserver, faults>>
  BY TransfersDoes
<1>3. /\ s.of = server.mode /\ toserver = <<>> /\ server.read = n
      /\ LastIs(s, n, q, <<>>)
      /\ q \in First(n)
      /\ FlowData(s.of, <<>>)
      /\ s.at \in {"moved", "last"} => MovedData(s.of, <<>>)
  BY <1>1, <1>2, MovingFile
<1>4. Wire(q) /\ ~Gone /\ UNCHANGED <<job, begun>>
  BY <1>2, GoingParts DEF Gone, client
<1>5. server'.read = server.read /\ asked' = asked
  BY <1>2, TransfersDoes DEF client
<1>6. CASE server'.mode = "command"
  <2> DEFINE p == Append(q, Ans(n, 226))
             x == <<Ans(n, 226)>>
  <2>1. /\ FlowData(s.of, x)' /\ (MovedData(s.of, <<>>) => MovedData(s.of, x)')
        /\ replies' = replies \o Reply(n, 226)
    BY <1>1, <1>2, <1>3, <1>6, FlowEnds
  <2>2. 226 \in Said
    BY DEF Said
  <2>3. LastIs(s, n, p, x) /\ p \in Seq(Answers)
    <3>1. LastIs(s, n, q, <<>>)
      BY <1>3
    <3>2. q \in First(n)
      BY <1>3
    <3>3. QED BY ONLY <3>1, <3>2, <2>2, LastSaid, n \in Nat
  <2>4. Owed(s.of, x)'
    BY <1>1, <1>2, <1>3, <1>5, <1>6 DEF Owed, Served
  <2>5. Wire(p)'
    <3>1. replies' = replies \o Reply(n, 226)
      BY <2>1
    <3>2. QED BY <3>1, <1>4, <2>2, WireSaid
  <2> HIDE DEF p, x
  <2>6. Going(s, p)'
    BY <1>1, <1>2, <1>3, <2>1, <2>3, <2>4, <2>5, MovingOn
  <2>7. QED BY <2>3, <2>6
<1>7. CASE server'.mode # "command"
  <2>1. UNCHANGED replies /\ server'.mode = server.mode
    BY <1>7, TransfersDoes
  <2>2. FlowData(s.of, <<>>)' /\ (MovedData(s.of, <<>>) => MovedData(s.of, <<>>)')
    BY <1>2, <1>3, <2>1, FlowKeeps
  <2>3. Owed(s.of, <<>>)'
    BY <1>1, <1>2, <1>3, <1>5, <2>1 DEF Owed, Served
  <2>4. Wire(q)'
    BY <1>2, <1>4, <2>1 DEF Wire, Gone, Lines
  <2>5. Going(s, q)'
    BY <1>1, <1>2, <1>3, <2>2, <2>3, <2>4, MovingOn
  <2>6. QED BY <2>5
<1>8. QED BY <1>6, <1>7

\* The data connection is cut.
LEMMA DataCutGoes ==
    ASSUME TypeInv, NEW s \in Places, NEW q \in Seq(Answers), Going(s, q), DataCut
    PROVE  \E p \in Seq(Answers) : Going(s, p)'
<1>1. PICK n \in Nat : n = asked
  BY Types
<1>2. /\ server.mode \in {"stor", "retr"} /\ UNCHANGED <<job, client, toserver>> /\ faults' > 0
      /\ server'.mode = "command" /\ server'.read = server.read /\ data'.made = data.made
      /\ replies' = replies \o Reply(server.read, 426)
  BY DataCutDoes
<1>3. /\ s.of = server.mode /\ toserver = <<>> /\ server.read = n
      /\ LastIs(s, n, q, <<>>)
      /\ q \in First(n)
      /\ FlowData(s.of, <<>>)
      /\ s.at \in {"moved", "last"} => MovedData(s.of, <<>>)
  BY <1>1, <1>2, MovingFile
<1>4. Wire(q) /\ ~Gone /\ UNCHANGED <<job, begun>> /\ asked' = asked
  BY <1>2, GoingParts DEF Gone, client
<1> DEFINE p == Append(q, Ans(n, 426))
           x == <<Ans(n, 426)>>
<1>5. FlowData(s.of, x)' /\ MovedData(s.of, x)'
  BY <1>1, <1>2, <1>3, FlowCut
<1>6. 426 \in Said
  BY DEF Said
<1>7. LastIs(s, n, p, x) /\ p \in Seq(Answers)
  <2>1. LastIs(s, n, q, <<>>)
    BY <1>3
  <2>2. q \in First(n)
    BY <1>3
  <2>3. QED BY ONLY <2>1, <2>2, <1>6, LastSaid, n \in Nat
<1>8. Owed(s.of, x)'
  BY <1>1, <1>2, <1>3, <1>4 DEF Owed, Served
<1>9. Wire(p)'
  <2>1. replies' = replies \o Reply(n, 426)
    BY <1>2, <1>3
  <2>2. QED BY <2>1, <1>4, <1>6, WireSaid
<1> HIDE DEF p, x
<1>10. Going(s, p)'
  BY <1>1, <1>2, <1>3, <1>5, <1>7, <1>8, <1>9, MovingOn
<1>11. QED BY <1>7, <1>10

\* The server goes away, with a part of what is on the way.
LEMMA ServerGoneGoes ==
    ASSUME TypeInv, NEW s \in Places, NEW q \in Seq(Answers), Going(s, q), ServerGone
    PROVE  Going(s, q)'
<1>1. /\ UNCHANGED <<job, client, toserver>> /\ faults' > 0
      /\ server.mode # "away" /\ server'.mode = "away"
      /\ server'.read = server.read /\ server'.stored = server.stored
      /\ server'.rcpts = server.rcpts /\ server'.inbox = 0 /\ server'.accepted = server.accepted
      /\ data'.made = data.made
      /\ \E n \in 0..Len(replies) : replies' = SubSeq(replies, 1, n)
  BY ServerGoneDoes
<1>2. /\ Wire(q) /\ Fit(job, s) /\ Talking(s, q)
      /\ job.api \in {"get", "put"} => FileData(s, q)
      /\ job.api = "send" => MailData(s, q)
  BY GoingParts
<1>3. Gone' /\ \A m : Served(m)'
  BY <1>1 DEF Gone, Served
<1>4. /\ job' = job /\ asked' = asked /\ code' = code /\ begun' = begun /\ left' = left /\ got' = got
  BY <1>1 DEF client
<1>5. Wire(q)'
  <2>1. PICK n \in 0..Len(replies) : replies' = SubSeq(replies, 1, n)
    BY <1>1
  <2>2. OnWire(Lines, replies, begun, q, FALSE) /\ Lines \in {1, 4} /\ replies \in Seq(Line) /\ begun \in Nat
    BY <1>2, WireNow, LinesTyped
  <2>3. OnWire(Lines, SubSeq(replies, 1, n), begun, q, FALSE)
    BY <2>2, WireLoses
  <2>4. OnWire(Lines, replies', begun', q, FALSE)
    BY <2>1, <2>3, <1>4
  <2>5. QED BY <2>4, <1>3, <1>4, WireNext
<1>6. Talking(s, q)'
  <2>1. Quiet(q) => Quiet(q)'
    BY <1>3 DEF Quiet
  <2>2. Greeting(q) => Greeting(q)'
    BY <1>1, <1>3, <1>4 DEF Greeting
  <2>3. \A c, x : Owed(c, x) => Owed(c, x)'
    BY <1>1, <1>3, <1>4 DEF Owed
  <2>4. ASSUME NEW c, Asked(c, q) PROVE Asked(c, q)'
    <3>1. CASE q = <<>>
      BY <3>1, <1>3 DEF Asked
    <3>2. CASE \E a \in Codes(job, c) : q = <<Ans(asked, a)>>
      BY <3>2, <1>3, <1>4 DEF Asked
    <3>3. CASE q = <<Ans(asked, 500)>>
      BY <3>3, <1>1, <1>3, <1>4 DEF Asked
    <3>4. CASE /\ c \in {"stor", "retr"} /\ 150 \in Codes(job, c)
               /\ q # <<>> /\ Head(q) = Ans(asked, 150) /\ Owed(c, Tail(q))
      <4>1. Owed(c, Tail(q))'
        BY <3>4, <2>3
      <4>2. QED BY <3>4, <4>1, <1>4 DEF Asked
    <3>5. QED BY <2>4, <3>1, <3>2, <3>3, <3>4 DEF Asked
  <2>5. Mailing(q) => Mailing(q)'
    BY <1>3 DEF Mailing
  <2>6. Dotted(q) => Dotted(q)'
    BY <1>1, <1>3, <1>4 DEF Dotted
  <2>7. \A n, c : Loose(n, c, q)'
    BY <1>3 DEF Loose
  <2>8. s.at \notin {"start", "bye"}
    BY <1>1, <1>2, TalkingAt DEF Start
  <2>9. s.at = "greet" => asked' = 0 /\ Greeting(q)'
    BY <1>2, <1>4, <2>2, TalkingAt
  <2>10. s.at \in {"talk", "sink"} => Quiet(q)'
    BY <1>2, <2>1, TalkingAt
  <2>11. s.at = "await" => IF s.of = "." THEN Dotted(q)' ELSE Asked(s.of, q)'
    BY <1>2, <2>4, <2>6, TalkingAt
  <2>12. s.at \in {"message", "dot"} => Mailing(q)'
    BY <1>2, <2>5, TalkingAt
  <2>13. s.at = "more" => /\ code' \in Codes(job', "retr")
                          /\ IF code' = 213 THEN Quiet(q)' ELSE Owed("retr", q)'
    BY <1>2, <1>4, <2>1, <2>3, TalkingAt
  <2>14. s.at = "flow" => code' = 150 /\ Owed(s.of, q)'
    BY <1>2, <1>4, <2>3, TalkingAt
  <2>15. s.at = "moved" =>
            IF s.of = "greet"
            THEN (code' = 220 /\ Quiet(q)') \/ (code' = 120 /\ q = <<Ans(asked', 220)>> /\ Served("command")')
            ELSE code' = 150 /\ Owed(s.of, q)'
    BY <1>2, <1>3, <1>4, <2>1, <2>3 DEF Talking
  <2>16. s.at = "last" => IF s.of = "greet" THEN q = <<Ans(asked', 220)>> /\ Served("command")'
                          ELSE Owed(s.of, q)'
    BY <1>2, <1>3, <1>4, <2>3 DEF Talking
  <2>17. s.at = "loose" => Loose(s.did, s.of, q)'
    BY <2>7
  <2>18. QED BY <2>8, <2>9, <2>10, <2>11, <2>12, <2>13, <2>14, <2>15, <2>16, <2>17 DEF Talking
<1>7. ASSUME job.api \in {"get", "put"} PROVE FileData(s, q)'
  <2>1. Untouched => Untouched'
    BY <1>3, <1>4 DEF Untouched
  <2>2. Kept => Kept'
    BY <1>1, <1>4 DEF Kept, Delivery
  <2>3. \A c, x : FlowData(c, x) => FlowData(c, x)'
    BY <1>1, <1>3, <1>4 DEF FlowData
  <2>4. \A c, x : MovedData(c, x) => MovedData(c, x)'
    BY <1>1, <1>3, <1>4, <2>3 DEF MovedData
  <2>5. FileData(s, q)
    BY <1>2, <1>7
  <2>6. s.at \in {"start", "greet", "sink"} => Untouched'
    BY <2>1, <2>5 DEF FileData
  <2>7. s.at = "talk" => IF s.did = 0 THEN Untouched' ELSE Gone' \/ Kept'
    BY <1>3, <2>1, <2>5 DEF FileData
  <2>8. s.at = "await" =>
        IF s.of \in {"stor", "retr"} /\ q # <<>> /\ Head(q).code = 150
        THEN FlowData(s.of, Tail(q))' /\ (s.of = "stor" => left' = Blocks) /\ (s.of = "retr" => got' = <<>>)
        ELSE IF s.did = 0 THEN Untouched'
        ELSE (Gone' /\ (q = <<>> \/ Head(q).code # 221)) \/ Kept'
    <3>1. CASE s.of \in {"stor", "retr"} /\ q # <<>> /\ Head(q).code = 150
      BY <3>1, <1>4, <2>3, <2>5 DEF FileData
    <3>2. CASE ~(s.of \in {"stor", "retr"} /\ q # <<>> /\ Head(q).code = 150)
      BY <3>2, <1>3, <2>1, <2>2, <2>5 DEF FileData
    <3>3. QED BY <3>1, <3>2
  <2>9. s.at = "more" => IF code' = 213 THEN Untouched' ELSE FlowData("retr", q)' /\ got' = <<>>
    BY <1>4, <2>1, <2>3, <2>5 DEF FileData
  <2>10. s.at = "flow" => FlowData(s.of, q)'
    BY <2>3, <2>5 DEF FileData
  <2>11. s.at \in {"moved", "last"} => IF s.of = "greet" THEN Untouched' ELSE MovedData(s.of, q)'
    BY <2>1, <2>4, <2>5 DEF FileData
  <2>12. s.at = "bye" => Kept'
    BY <2>2, <2>5 DEF FileData
  <2>13. QED BY <2>6, <2>7, <2>8, <2>9, <2>10, <2>11, <2>12 DEF FileData
<1>8. job.api = "send" => MailData(s, q)'
  BY <1>1, <1>2, <1>3, <1>4 DEF MailData, TheMessage
<1>9. QED BY <1>1, <1>5, <1>6, <1>7, <1>8, Stands

\* Whatever the server does, a call that goes on still does.
LEMMA ServerGoes ==
    ASSUME TypeInv, Sound, NEW s \in Places, NEW q \in Seq(Answers), Going(s, q), ServerStep
    PROVE  \E p \in Seq(Answers) : Going(s, p)'
<1>1. CASE Greets
  BY <1>1, GreetsGoes
<1>2. CASE Serves
  BY <1>2, ServesGoes
<1>3. CASE TakesMessage
  <2>1. Fit(job, s) /\ Talking(s, q) /\ server.mode = "message" /\ toserver # <<>>
    BY <1>3, GoingParts, TakesMessageDoes
  <2>2. s.at \in {"message", "dot"} \/ (s.at = "await" /\ s.of = ".")
    BY <2>1, WhenMessage
  <2>3. job.api = "send"
    BY <2>1, <2>2 DEF Fit
  <2>4. MailServer
    BY <2>3 DEF Sound
  <2>5. QED BY <1>3, <2>4, TakesBlock, TakesEnd
<1>4. CASE Transfers
  BY <1>4, TransfersGoes
<1>5. CASE DataCut
  BY <1>5, DataCutGoes
<1>6. CASE ServerGone
  BY <1>6, ServerGoneGoes
<1>7. QED BY <1>1, <1>2, <1>3, <1>4, <1>5, <1>6 DEF ServerStep, Server

-----------------------------------------------------------------------------
\* What the client does.

\* A call at s that goes on takes the first step of what is left of its script.
LEMMA Starts ==
    ASSUME NEW s, NEW q, Going(s, q), script # <<>>
    PROVE  /\ Head(script) \in Ops(job)
           /\ \E t \in Places, u \in Places : Step(job, s, Head(script), t) /\ Path(job, Tail(script), t, u)
<1>1. PICK u : Path(job, script, s, u)
  BY DEF Going
<1>2. script \in Seq(Ops(job))
  BY <1>1, PathEnds
<1>3. Head(script) \in Ops(job)
  BY <1>2
<1>4. u \in Places
  BY <1>1, PathEnds
<1>5. QED BY <1>1, <1>3, <1>4, PathFirst

\* What is sent is a command.
LEMMA NamesAreCommands ==
    ASSUME NEW j, NEW o \in Ops(j), o.op = "command"
    PROVE  o.name \in Commands
<1>1. o # LastReply /\ o # Pass /\ o # Fetch(j)
  BY Ifs
<1>2. "command" \notin Words
  BY DEF Words
<1>3. QED BY <1>1, <1>2 DEF Ops

\* It is then at t, when what is on the way agrees.
LEMMA Arrives ==
    ASSUME NEW t \in Places, NEW u, Path(job, script', t, u), Fit(job, t), UNCHANGED job,
           NEW p, Wire(p)', Talking(t, p)',
           job.api \in {"get", "put"} => FileData(t, p)',
           job.api = "send" => MailData(t, p)',
           t.made => "data" \in open'
    PROVE  Going(t, p)'
<1>1. Path(job', script', t, u) /\ Fit(job', t)
  OBVIOUS
<1>2. At(t, p)'
  BY <1>1 DEF At
<1>3. QED BY <1>1, <1>2 DEF Going, Wire

\* What is on the way is left there.
LEMMA WireSame ==
    ASSUME NEW q, Wire(q), UNCHANGED <<job, replies, begun>>, Gone' <=> Gone
    PROVE  Wire(q)'
<1>1. Lines' = Lines
  BY DEF Lines
<1>2. CASE Gone
  <2>1. OnWire(Lines, replies', begun', q, FALSE) /\ Gone'
    BY <1>2, WireNow
  <2>2. QED BY <2>1, WireNext
<1>3. CASE ~Gone
  <2>1. OnWire(Lines, replies', begun', q, TRUE)
    BY <1>3, WireNow
  <2>2. QED BY <2>1, WireNext
<1>4. QED BY <1>2, <1>3

\* Any failure the client does not meet by itself is a fault.
LEMMA FailsDoes ==
    ASSUME TypeInv, NEW b, Fails(b)
    PROVE  /\ result' = "error" /\ script' = <<>> /\ open' = open \cap {"lost"} /\ data' \in Data
           /\ faults' \in Nat /\ (~b => faults' > 0) /\ faults' >= faults
<1>1. result' = "error" /\ script' = <<>> /\ open' = open \cap {"lost"}
      /\ data' = [data EXCEPT !.ended = @ \/ "data" \in open]
  BY DEF Fails, Raise, close, EndData
<1>2. data' \in Data
  BY <1>1, Types DEF Data
<1>3. CASE b
  BY <1>1, <1>2, <1>3, Types DEF Fails
<1>4. CASE ~b
  <2>1. Fault
    BY ONLY Fails(b), <1>4 DEF Fails
  <2>2. faults' \in Nat /\ faults' > 0 /\ faults' >= faults
    BY ONLY <2>1, TypeInv, Types DEF Fault
  <2>3. QED BY ONLY <1>1, <1>2, <1>4, <2>2
<1>5. QED BY <1>3, <1>4

\* A call that returns an error had a reason,
LEMMA SoundFails ==
    ASSUME Sound, UNCHANGED <<job, toserver, server>>, result' = "error",
           faults' > 0 \/ (job.api = "send" /\ job.user /\ job.ext = None)
    PROVE  Sound'
BY DEF Sound, MailServer, TheMessage, NoStall

\* and one that goes on needs none.
LEMMA SoundSame ==
    ASSUME Sound, UNCHANGED <<job, toserver, server>>, result' = None
    PROVE  Sound'
BY DEF Sound, MailServer, TheMessage, NoStall, None

\* What a failing call leaves.
LEMMA InvFails ==
    ASSUME TypeInv, Sound, NEW b, Fails(b), b => faults > 0, UNCHANGED <<job, toserver, server>>,
           code' \in Nat, begun' \in Nat, left' \in Nat, got' \in Seq({"block", "reply"}),
           asked' \in Nat, replies' \in Seq(Line)
    PROVE  Inv'
<1>1. /\ result' = "error" /\ script' = <<>> /\ open' = open \cap {"lost"} /\ data' \in Data
      /\ faults' \in Nat /\ faults' > 0
  <2>1. faults \in Nat
    BY Types
  <2>2. QED BY <2>1, FailsDoes
<1>2. TypeInv'
  BY <1>1 DEF TypeInv
<1>3. Sound'
  BY <1>1, SoundFails
<1>4. result' # None
  BY <1>1 DEF None
<1>5. QED BY <1>2, <1>3, <1>4 DEF Inv

\* How the invariant is shown of a call that goes on.
LEMMA InvGoes ==
    ASSUME TypeInv', Sound', NEW t \in Places, NEW p \in Seq(Answers), Going(t, p)'
    PROVE  Inv'
BY DEF Inv

\* tp.connect.
LEMMA ConnectGoes ==
    ASSUME TypeInv, Sound, NEW s \in Places, NEW q \in Seq(Answers), Going(s, q), Connect
    PROVE  Inv'
<1>1. Doing("open") /\ UNCHANGED <<job, code, begun, left, got, asked, toserver, replies>>
  BY DEF Connect
<1>2. CASE Fails(FALSE) /\ UNCHANGED server
  <2>1. /\ code' \in Nat /\ begun' \in Nat /\ left' \in Nat /\ got' \in Seq({"block", "reply"})
        /\ asked' \in Nat /\ replies' \in Seq(Line)
    BY <1>1 DEF TypeInv
  <2> DEFINE b == FALSE
  <2>2. Fails(b) /\ (b => faults > 0)
    BY <1>2
  <2> HIDE DEF b
  <2>3. QED BY <1>1, <1>2, <2>1, <2>2, InvFails
<1>3. CASE /\ open' = {"control"} /\ Onward
           /\ server' = [server EXCEPT !.mode = "greeting"]
           /\ UNCHANGED <<result, faults, data>>
  <2>1. PICK t \in Places, u \in Places : Step(job, s, Head(script), t) /\ Path(job, Tail(script), t, u)
    BY <1>1, Starts DEF Doing
  <2>2. s.at = "start" /\ t = Place("greet", None, s.did, FALSE)
    BY <1>1, <2>1, OtherSteps DEF Doing
  <2>3. /\ Fit(job, s) /\ Wire(q)
        /\ job.api \in {"get", "put"} => FileData(s, q)
        /\ job.api = "send" => MailData(s, q)
    BY GoingParts
  <2>4. q = <<>> /\ server.mode = "away" /\ faults = 0 /\ asked = 0 /\ server.read = 0 /\ toserver = <<>>
    BY <2>2, GoingParts, TalkingAt DEF Start
  <2>5. /\ server'.mode = "greeting" /\ server'.read = server.read /\ server'.rcpts = server.rcpts
        /\ server'.inbox = server.inbox /\ server'.accepted = server.accepted
        /\ server'.stored = server.stored /\ server' \in Serving
    BY <1>3, Types DEF Serving
  <2>6. t.at = "greet" /\ t.made = FALSE /\ t.did = s.did
    BY <2>2 DEF Place
  <2>7. Fit(job, t)
    BY <2>2, <2>3, FitOthers
  <2>8. ~Gone /\ ~Gone'
    BY <1>3, <2>4 DEF Gone
  <2>9. Wire(q)'
    BY <1>1, <2>3, <2>8, WireSame
  <2>10. Talking(t, q)'
    <3>1. Greeting(q)'
      BY <1>1, <2>4, <2>5 DEF Greeting, Served
    <3>2. asked' = 0
      BY <1>1, <2>4
    <3>3. QED BY <2>6, <3>1, <3>2 DEF Talking
  <2>11. job.api \in {"get", "put"} => FileData(t, q)'
    <3>1. job.api \in {"get", "put"} => Untouched
      BY <2>2, <2>3 DEF FileData
    <3>2. Untouched => Untouched'
      BY <1>1, <1>3, <2>5, <2>8 DEF Untouched
    <3>3. QED BY <2>6, <3>1, <3>2 DEF FileData
  <2>12. job.api = "send" => MailData(t, q)'
    <3>1. job.api = "send" => left = Blocks /\ server.accepted = <<>> /\ server.inbox = 0 /\ server.rcpts = 0
      BY <2>2, <2>3 DEF MailData
    <3>2. QED BY <1>1, <2>5, <2>6, <3>1 DEF MailData
  <2>13. Path(job, script', t, u)
    BY <1>3, <2>1 DEF Onward
  <2>14. Going(t, q)'
    BY <1>1, <2>6, <2>7, <2>9, <2>10, <2>11, <2>12, <2>13, Arrives
  <2>15. TypeInv'
    BY <1>1, <1>3, <2>5 DEF TypeInv
  <2>16. Sound'
    <3>1. job.api = "send" => MailServer'
      BY <1>1, <2>4, <2>5 DEF Sound, MailServer, TheMessage
    <3>2. result' = None
      BY <1>1, <1>3 DEF Doing
    <3>3. QED BY <1>1, <3>1, <3>2 DEF Sound, NoStall, None
  <2>17. QED BY <2>14, <2>15, <2>16, InvGoes
<1>4. QED BY <1>2, <1>3 DEF Connect

\* What is sent.
LEMMA Sent ==
    ASSUME TypeInv, NEW c \in Commands \cup {"block"}, NEW x, x = Append(toserver, c)
    PROVE  /\ x \in Seq(Commands \cup {"block"}) /\ Len(x) = Len(toserver) + 1 /\ x # <<>>
           /\ \A i \in 1..Len(toserver) : x[i] = toserver[i]
           /\ x[Len(toserver) + 1] = c /\ Len(toserver) \in Nat
           /\ toserver = <<>> => x = <<c>> /\ Len(toserver) = 0
<1>1. toserver \in Seq(Commands \cup {"block"})
  BY DEF TypeInv
<1>2. /\ x \in Seq(Commands \cup {"block"}) /\ Len(x) = Len(toserver) + 1
      /\ \A i \in 1..Len(toserver) : x[i] = toserver[i]
      /\ x[Len(toserver) + 1] = c /\ Len(toserver) \in Nat
  BY <1>1
<1>3. x # <<>>
  BY <1>2, EmptySeq
<1>4. toserver = <<>> => x = <<c>> /\ Len(toserver) = 0
  OBVIOUS
<1>5. QED BY <1>2, <1>3, <1>4

\* A command in a conversation where every one is answered.
LEMMA CommandTalk ==
    ASSUME TypeInv, Sound, NEW s \in Places, NEW q \in Seq(Answers), Going(s, q),
           NEW c \in Commands, s.at = "talk", Due(job, s, c), NEW t, t = Place("await", c, s.did, s.made),
           toserver' = Append(toserver, c), asked' = asked + 1,
           UNCHANGED <<job, code, begun, left, got, server, faults, data>>
    PROVE  /\ Talking(t, q)' /\ (job.api \in {"get", "put"} => FileData(t, q)')
           /\ job.api = "send" => MailData(t, q)' /\ MailServer'
<1>1. t.at = "await" /\ t.of = c /\ t.did = s.did /\ c # "." /\ c # "block"
  BY Parts DEF Due
<1>2. /\ job.api \in {"get", "put"} => FileData(s, q)
      /\ job.api = "send" => MailData(s, q)
      /\ Quiet(q)
  BY GoingParts, TalkingAt
<1>3. q = <<>> /\ (Gone \/ (server.mode = "command" /\ toserver = <<>> /\ server.read = asked))
  BY <1>2 DEF Quiet, Served
<1>4. Gone' <=> Gone
  BY DEF Gone
<1>5. toserver = <<>> => toserver' = <<c>> /\ Len(toserver') = 1
  BY Sent
<1>6. Talking(t, q)'
  <2>1. Asked(c, q)'
    BY <1>3, <1>4, <1>5 DEF Asked
  <2>2. QED BY <1>1, <2>1 DEF Talking
<1>7. job.api \in {"get", "put"} => FileData(t, q)'
  <2> SUFFICES ASSUME job.api \in {"get", "put"} PROVE FileData(t, q)'
    OBVIOUS
  <2>1. (Untouched => Untouched') /\ (Kept => Kept')
    BY <1>4 DEF Untouched, Kept, Delivery
  <2>2. IF s.did = 0 THEN Untouched ELSE Gone \/ Kept
    BY <1>2 DEF FileData
  <2>3. QED BY <1>1, <1>3, <1>4, <2>1, <2>2 DEF FileData
<1>8. ASSUME job.api = "send" PROVE MailData(t, q)' /\ MailServer'
  <2>1. IF s.did <= job.rcpts
        THEN /\ left = Blocks /\ server.accepted = <<>>
             /\ Gone \/ (server.inbox = 0 /\ server.rcpts = s.did)
        ELSE server.accepted = <<TheMessage>>
    BY <1>2, <1>8 DEF MailData
  <2>2. MailData(t, q)'
    BY <1>1, <1>3, <1>4, <2>1 DEF MailData, TheMessage
  <2>3. MailServer'
    <3>0. MailServer /\ TheMessage' = TheMessage
      BY <1>8 DEF Sound, TheMessage
    <3>1. CASE Gone
      BY <3>0, <3>1 DEF MailServer, Gone
    <3>2. CASE server.mode = "command" /\ toserver = <<>> /\ server.read = asked /\ ~Gone
      <4>1. c \notin {"block", ".", "stor", "retr"}
        BY <1>1, <1>8 DEF Due
      <4>2. c = "DATA" => server.rcpts = job.rcpts /\ server.accepted = <<>> /\ server.inbox = 0
        <5>1. c = "DATA" => s.did = job.rcpts
          BY DEF Due
        <5>2. job.rcpts \in Nat
          BY <1>8, Types, DialogueAssumption
        <5>3. QED BY <5>1, <5>2, <2>1, <3>2
      <4>3. \A i \in 1..Len(toserver') : toserver'[i] = c
        BY <1>5, <3>2
      <4>4. QED BY <1>5, <3>0, <3>2, <4>1, <4>2, <4>3 DEF MailServer
    <3>3. QED BY <1>3, <3>1, <3>2
  <2>4. QED BY <2>2, <2>3
<1>9. QED BY <1>6, <1>7, <1>8

\* The line that ends a message.
LEMMA CommandDot ==
    ASSUME TypeInv, Sound, NEW s \in Places, NEW q \in Seq(Answers), Going(s, q),
           s.at = "dot", NEW t, t = Place("await", ".", s.did, FALSE),
           toserver' = Append(toserver, "."), asked' = asked + 1,
           UNCHANGED <<job, code, begun, left, got, server, faults, data>>
    PROVE  /\ Talking(t, q)' /\ job.api = "send"
           /\ MailData(t, q)' /\ MailServer'
<1>1. t.at = "await" /\ t.of = "." /\ t.did = s.did
  BY DEF Place
<1>2. job.api = "send" /\ MailData(s, q) /\ Mailing(q)
  BY GoingParts, TalkingAt DEF Fit
<1>3. /\ q = <<>>
      /\ Gone \/ (/\ server.mode = "message" /\ server.read = asked
                  /\ \A i \in 1..Len(toserver) : toserver[i] = "block")
  BY <1>2 DEF Mailing
<1>4. Gone' <=> Gone
  BY DEF Gone
<1>5. /\ Len(toserver') = Len(toserver) + 1 /\ toserver' # <<>> /\ Len(toserver) \in Nat
      /\ \A i \in 1..Len(toserver) : toserver'[i] = toserver[i]
      /\ toserver'[Len(toserver) + 1] = "."
  <2>1. "." \in Commands
    BY DEF Commands
  <2>2. QED BY <2>1, Sent
<1>6. \A i \in 1..Len(toserver') : i \in 1..Len(toserver) \/ i = Len(toserver')
  BY <1>5
<1>7. Talking(t, q)'
  <2>1. Dotted(q)'
    <3>1. CASE Gone
      BY <3>1, <1>3, <1>4 DEF Dotted
    <3>2. CASE /\ server.mode = "message" /\ server.read = asked
               /\ \A i \in 1..Len(toserver) : toserver[i] = "block"
      <4>1. 1..Len(toserver')-1 = 1..Len(toserver)
        BY <1>5
      <4>2. server'.mode = "message" /\ server'.read + 1 = asked' /\ toserver'[Len(toserver')] = "."
        BY <3>2, <1>5
      <4>3. \A i \in 1..Len(toserver')-1 : toserver'[i] = "block"
        BY <4>1, <3>2, <1>5
      <4>4. QED BY <1>3, <1>5, <4>2, <4>3 DEF Dotted
    <3>3. QED BY <1>3, <3>1, <3>2
  <2>2. QED BY <1>1, <2>1 DEF Talking
<1>8. MailData(t, q)'
  BY <1>1, <1>3 DEF MailData
<1>9. MailServer'
  <2>0. MailServer /\ TheMessage' = TheMessage
    BY <1>2 DEF Sound, TheMessage
  <2>1. CASE Gone
    BY <2>0, <2>1 DEF MailServer, Gone
  <2>2. CASE ~Gone
    <3>1. server.inbox + Len(toserver) + left = Blocks /\ left = 0
      BY <1>2, <2>2 DEF MailData
    <3>2. server'.inbox + Len(toserver') - 1 = Blocks
      <4>1. server.inbox \in Nat
        BY Types
      <4>2. QED BY <4>1, <3>1, <1>5
    <3>3. \A i \in 1..Len(toserver') :
              \/ toserver'[i] = "block"
              \/ toserver'[i] = "." /\ i = Len(toserver') /\ server'.inbox + Len(toserver') - 1 = Blocks
      BY <1>3, <1>5, <1>6, <2>2, <3>2
    <3>4. QED BY <1>3, <2>0, <2>2, <3>3 DEF MailServer
  <2>3. QED BY <2>1, <2>2
<1>10. QED BY <1>2, <1>7, <1>8, <1>9

\* A command whose answer is left for the next check.
LEMMA CommandLoose ==
    ASSUME TypeInv, NEW s \in Places, NEW q \in Seq(Answers), Talking(s, q),
           NEW c \in {"other", "QUIT"},
           (s.at = "loose" /\ s.of = "other") \/ (s.at = "talk" /\ s.did = 0 /\ c = "other"),
           NEW t, t = Place("loose", c, s.did + 1, FALSE),
           toserver' = Append(toserver, c), UNCHANGED <<server, faults>>
    PROVE  Talking(t, q)'
<1>1. t.at = "loose" /\ t.of = c /\ t.did = s.did + 1
  BY DEF Place
<1>2. Gone' <=> Gone
  BY DEF Gone
<1>3. s.did \in Nat /\ Len(q) \in Nat
  BY PlaceParts
<1>4. /\ Len(toserver') = Len(toserver) + 1 /\ toserver' # <<>> /\ Len(toserver) \in Nat
      /\ \A i \in 1..Len(toserver) : toserver'[i] = toserver[i]
      /\ toserver'[Len(toserver) + 1] = c
  <2>1. c \in Commands
    BY DEF Commands
  <2>2. QED BY <2>1, Sent
<1>5. \A i \in 1..Len(toserver') : i \in 1..Len(toserver) \/ i = Len(toserver')
  BY <1>4
<1> DEFINE d == t.did
<1> HIDE DEF d
<1>6. Loose(d, c, q)'
  <2>1. CASE Gone
    BY <2>1, <1>2 DEF Loose
  <2>2. CASE ~Gone
    <3>1. /\ faults = 0 => \A i \in 1..Len(q) : q[i].code = 200
          /\ \A i \in 1..Len(toserver) : toserver[i] = "other"
          /\ server.mode = "command"
          /\ Len(q) + Len(toserver) = s.did
      <4>1. CASE s.at = "loose" /\ s.of = "other"
        <5>1. Loose(s.did, "other", q)
          BY <4>1, TalkingAt
        <5>2. QED BY <5>1, <2>2 DEF Loose
      <4>2. CASE s.at = "talk" /\ s.did = 0 /\ c = "other"
        <5>1. Quiet(q)
          BY <4>2, TalkingAt
        <5>2. q = <<>> /\ server.mode = "command" /\ toserver = <<>>
          BY <5>1, <2>2 DEF Quiet, Served
        <5>3. Len(q) = 0 /\ Len(toserver) = 0
          BY <5>2
        <5>4. QED BY <5>2, <5>3, <4>2
      <4>3. QED BY <4>1, <4>2
    <3>2. \A i \in 1..Len(toserver') :
            toserver'[i] = "other" \/ (c = "QUIT" /\ toserver'[i] = "QUIT" /\ i = Len(toserver'))
      BY <3>1, <1>4, <1>5
    <3>3. Len(q) + Len(toserver') = d
      <4> DEFINE l == Len(q)
                 m == Len(toserver)
                 n == Len(toserver')
      <4>1. l + m = s.did /\ n = m + 1 /\ d = s.did + 1 /\ l \in Nat /\ m \in Nat
        BY <3>1, <1>1, <1>3, <1>4 DEF d
      <4> HIDE DEF l, m, n
      <4>2. l + n = d
        BY <4>1
      <4>3. QED BY <4>2 DEF l, n
    <3>4. server'.mode = "command" /\ faults' = faults
      BY <3>1
    <3>5. QED BY <3>1, <3>2, <3>3, <3>4 DEF Loose
  <2>3. QED BY <2>1, <2>2
<1>7. QED BY <1>1, <1>6 DEF Talking, d

\* tp:command and tp:send.
LEMMA CommandGoes ==
    ASSUME TypeInv, Sound, NEW s \in Places, NEW q \in Seq(Answers), Going(s, q), command
    PROVE  Inv'
<1>1. Doing("command") /\ UNCHANGED <<job, code, begun, left, got, replies, server>>
  BY DEF command
<1>t. /\ code' \in Nat /\ begun' \in Nat /\ left' \in Nat /\ got' \in Seq({"block", "reply"})
      /\ replies' \in Seq(Line) /\ asked \in Nat /\ faults \in Nat
  BY <1>1 DEF TypeInv
<1>2. CASE Fails(server.mode = "away") /\ UNCHANGED <<toserver, asked>>
  <2> DEFINE b == server.mode = "away"
  <2>1. Fails(b)
    BY <1>2
  <2>2. b => faults > 0
    <3> SUFFICES ASSUME server.mode = "away" PROVE faults > 0
      OBVIOUS
    <3>1. PICK t \in Places, u \in Places : Step(job, s, Head(script), t) /\ Path(job, Tail(script), t, u)
      BY <1>1, Starts DEF Doing
    <3>2. CommandStep(job, s, Head(script), t)
      BY <1>1, <3>1, CommandSteps DEF Doing
    <3>3. Talking(s, q)
      BY GoingParts
    <3>4. CASE s.at = "talk"
      BY <3>3, <3>4, TalkingAt DEF Quiet, Served, Gone
    <3>5. CASE s.at = "dot"
      BY <3>3, <3>5, TalkingAt DEF Mailing, Gone
    <3>6. CASE s.at = "loose" /\ s.of = "other"
      <4>1. Loose(s.did, "other", q)
        BY <3>3, <3>6, TalkingAt
      <4>2. QED BY <4>1 DEF Loose, Gone
    <3>7. QED BY <3>2, <3>4, <3>5, <3>6 DEF CommandStep
  <2>3. asked' \in Nat
    BY <1>2, <1>t
  <2> HIDE DEF b
  <2>4. QED BY <1>1, <1>2, <1>t, <2>1, <2>2, <2>3, InvFails
<1>3. CASE /\ toserver' = Append(toserver, Head(script).name) /\ asked' = asked + 1 /\ Onward
           /\ UNCHANGED <<open, result, faults, data>>
  <2>1. PICK t \in Places, u \in Places : Step(job, s, Head(script), t) /\ Path(job, Tail(script), t, u)
    BY <1>1, Starts DEF Doing
  <2> DEFINE o == Head(script)
             c == Head(script).name
  <2>2. o.op = "command" /\ CommandStep(job, s, o, t)
    BY <1>1, <2>1, CommandSteps DEF Doing
  <2>3. c \in Commands
    BY <1>1, <2>2, Starts, NamesAreCommands DEF Doing
  <2>4. Fit(job, s) /\ Wire(q) /\ (s.made => "data" \in open)
    BY GoingParts
  <2>5. Fit(job, t)
    BY <2>2, <2>3, <2>4, FitCommand
  <2>6. Path(job, script', t, u) /\ result' = None
    BY <1>1, <1>3, <2>1 DEF Onward, Doing
  <2>7. toserver' = Append(toserver, c)
    BY <1>3
  <2>8. Gone' <=> Gone
    BY <1>1, <1>3 DEF Gone
  <2>9. Wire(q)'
    BY <1>1, <2>4, <2>8, WireSame
  <2> HIDE DEF o, c
  <2>10. /\ Talking(t, q)'
         /\ job.api \in {"get", "put"} => FileData(t, q)'
         /\ job.api = "send" => MailData(t, q)' /\ MailServer'
         /\ t.made => "data" \in open'
    <3>1. CASE s.at = "talk" /\ Due(job, s, c) /\ t = Place("await", c, s.did, s.made)
      <4>1. t.made = s.made
        BY <3>1 DEF Place
      <4>2. QED BY <1>1, <1>3, <2>3, <2>4, <2>7, <3>1, <4>1, CommandTalk
    <3>2. CASE s.at = "dot" /\ c = "." /\ t = Place("await", ".", s.did, FALSE)
      <4>1. t.made = FALSE
        BY <3>2 DEF Place
      <4>2. toserver' = Append(toserver, ".")
        BY <2>7, <3>2
      <4>3. Talking(t, q)' /\ job.api = "send" /\ MailData(t, q)' /\ MailServer'
        BY <1>1, <1>3, <3>2, <4>2, CommandDot
      <4>4. QED BY <4>1, <4>3
    <3>3. CASE /\ Loosely(job) /\ c \in {"other", "QUIT"}
               /\ \/ s.at = "loose" /\ s.of = "other"
                  \/ s.at = "talk" /\ s.did = 0 /\ c = "other"
               /\ t = Place("loose", c, s.did + 1, FALSE)
      <4>1. t.made = FALSE /\ job.api = "command"
        BY <3>3 DEF Place, Loosely
      <4>2. Talking(t, q)'
        <5>1. Talking(s, q)
          BY GoingParts
        <5>2. QED BY <5>1, <1>1, <1>3, <2>7, <3>3, CommandLoose
      <4>3. QED BY <4>1, <4>2
    <3>4. QED BY <2>2, <3>1, <3>2, <3>3 DEF CommandStep, o, c
  <2>11. Going(t, q)'
    BY <1>1, <2>5, <2>6, <2>9, <2>10, Arrives
  <2>12. TypeInv'
    <3>1. toserver' \in Seq(Commands \cup {"block"})
      BY <2>3, <2>7 DEF TypeInv
    <3>2. asked' \in Nat
      BY <1>3, <1>t
    <3>3. QED BY <1>1, <1>3, <3>1, <3>2 DEF TypeInv
  <2>13. Sound'
    <3>1. job.api # "send" => \A i \in 1..Len(toserver') : toserver'[i] # "block"
      <4> SUFFICES ASSUME job.api # "send", NEW i \in 1..Len(toserver') PROVE toserver'[i] # "block"
        OBVIOUS
      <4>1. c # "block"
        BY <2>3 DEF Commands
      <4>2. /\ Len(toserver') = Len(toserver) + 1 /\ Len(toserver) \in Nat
            /\ \A k \in 1..Len(toserver) : toserver'[k] = toserver[k]
            /\ toserver'[Len(toserver) + 1] = c
        BY <2>3, <2>7, Sent
      <4>3. \A k \in 1..Len(toserver) : toserver[k] # "block"
        BY DEF Sound
      <4>4. i \in 1..Len(toserver) \/ i = Len(toserver) + 1
        BY <4>2
      <4>5. QED BY <4>1, <4>2, <4>3, <4>4
    <3>2. QED BY <1>1, <2>6, <2>10, <3>1 DEF Sound, NoStall, None
  <2>14. QED BY <2>11, <2>12, <2>13, InvGoes
<1>4. QED BY <1>2, <1>3 DEF command

\* A line is read.
LEMMA Reads ==
    ASSUME TypeInv, NEW q \in Seq(Answers), Wire(q), replies # <<>>, replies' = Tail(replies),
           UNCHANGED <<job, server, faults>>
    PROVE  /\ q # <<>> /\ Head(replies).to = Head(q).to
           /\ (IF begun = 0 THEN Head(replies).code ELSE begun) = Head(q).code
           /\ Ends(Head(replies)) /\ begun' = 0 => Wire(Tail(q))'
           /\ ~Ends(Head(replies)) /\ begun' = Head(q).code => Wire(q)'
<1>1. Lines \in {1, 4} /\ replies \in Seq(Line) /\ begun \in Nat
  BY LinesTyped
<1>2. Gone' <=> Gone
  BY DEF Gone
<1>3. ASSUME NEW w \in BOOLEAN, OnWire(Lines, replies, begun, q, w)
      PROVE  /\ q # <<>> /\ Head(replies).to = Head(q).to
             /\ (IF begun = 0 THEN Head(replies).code ELSE begun) = Head(q).code
             /\ Ends(Head(replies)) /\ begun' = 0 => OnWire(Lines, replies', begun', Tail(q), w)
             /\ ~Ends(Head(replies)) /\ begun' = Head(q).code => OnWire(Lines, replies', begun', q, w)
  <2>1. /\ q # <<>> /\ Head(replies).to = Head(q).to
        /\ (IF begun = 0 THEN Head(replies).code ELSE begun) = Head(q).code
        /\ IF Head(replies).sep = "blank" /\ begun \in {0, Head(replies).code}
           THEN OnWire(Lines, Tail(replies), 0, Tail(q), w)
           ELSE OnWire(Lines, Tail(replies), Head(q).code, q, w)
    <3>1. Read(Lines, replies, begun, q, w)
      BY <1>1, <1>3, WireReads
    <3>2. QED BY <3>1 DEF Read
  <2>2. Ends(Head(replies)) <=> Head(replies).sep = "blank" /\ begun \in {0, Head(replies).code}
    BY DEF Ends
  <2>3. CASE Ends(Head(replies)) /\ begun' = 0
    BY <2>1, <2>2, <2>3
  <2>4. CASE ~Ends(Head(replies)) /\ begun' = Head(q).code
    BY <2>1, <2>2, <2>4
  <2>5. QED BY <2>1, <2>3, <2>4
<1>4. CASE Gone
  <2> DEFINE w == FALSE
  <2>1. OnWire(Lines, replies, begun, q, w) /\ w \in BOOLEAN
    BY WireNow
  <2> HIDE DEF w
  <2>2. \A x : OnWire(Lines, replies', begun', x, w) => Wire(x)'
    <3>1. ASSUME NEW x, OnWire(Lines, replies', begun', x, w) PROVE Wire(x)'
      <4>1. OnWire(Lines, replies', begun', x, FALSE)
        BY <3>1 DEF w
      <4>2. QED BY <4>1, <1>2, <1>4, WireNext
    <3>2. QED BY <3>1
  <2>3. QED BY <1>3, <2>1, <2>2
<1>5. CASE ~Gone
  <2> DEFINE w == TRUE
  <2>1. OnWire(Lines, replies, begun, q, w) /\ w \in BOOLEAN
    BY <1>5, WireNow
  <2> HIDE DEF w
  <2>2. \A x : OnWire(Lines, replies', begun', x, w) => Wire(x)'
    <3>1. ASSUME NEW x, OnWire(Lines, replies', begun', x, w) PROVE Wire(x)'
      <4>1. OnWire(Lines, replies', begun', x, TRUE)
        BY <3>1 DEF w
      <4>2. QED BY <4>1, WireNext
    <3>2. QED BY <3>1
  <2>3. QED BY <1>3, <2>1, <2>2
<1>6. QED BY <1>4, <1>5

\* The file stays where it is,
LEMMA FileSame ==
    ASSUME NEW s, NEW q, FileData(s, q), UNCHANGED <<job, code, left, got, asked, data, server, faults>>
    PROVE  FileData(s, q)'
<1>1. (Untouched => Untouched') /\ (Kept => Kept') /\ (Gone' <=> Gone)
  BY DEF Untouched, Kept, Delivery, Gone
<1>2. \A c, x : FlowData(c, x) => FlowData(c, x)'
  BY <1>1 DEF FlowData
<1>3. \A c, x : MovedData(c, x) => MovedData(c, x)'
  BY <1>1, <1>2 DEF MovedData
<1>4. QED BY <1>1, <1>2, <1>3 DEF FileData

\* and so does the message.
LEMMA MailSame ==
    ASSUME NEW s, NEW q, MailData(s, q), UNCHANGED <<job, left, toserver, server, faults>>
    PROVE  MailData(s, q)'
BY DEF MailData, Gone, TheMessage

\* With the server on the way to nothing, and no fault, no reply is awaited.
LEMMA NeverStuck ==
    ASSUME TypeInv, NEW s \in Places, NEW q \in Seq(Answers), Going(s, q),
           NEW o, NEW t, CheckStep(job, s, o, t), replies = <<>>, ServerWaits
    PROVE  faults > 0
<1> SUFFICES ASSUME ~(faults > 0) PROVE FALSE
  OBVIOUS
<1>1. ~Gone /\ Fit(job, s) /\ Talking(s, q) /\ (job.api \in {"get", "put"} => FileData(s, q))
  BY GoingParts DEF Gone
<1>2. q = <<>>
  <2>1. OnWire(Lines, replies, begun, q, TRUE)
    BY <1>1, GoingParts, WireNow
  <2>2. QED BY <2>1, LinesTyped, WireEmpty
<1>3. server.mode \in {"command", "message", "greeting"} => toserver = <<>> /\ server.mode # "greeting"
  BY DEF ServerWaits
<1>4. CASE s.at = "greet"
  BY <1>1, <1>2, <1>4, TalkingAt DEF Greeting, Served, ServerWaits
<1>5. CASE s.at = "await" /\ s.of = "."
  BY <1>1, <1>2, <1>3, <1>5, TalkingAt DEF Dotted
<1>6. CASE s.at = "await" /\ s.of # "."
  BY <1>1, <1>2, <1>3, <1>6, TalkingAt DEF Asked
<1>7. CASE s.at = "last"
  <2>1. s.of # "greet" /\ Owed(s.of, q)
    BY <1>1, <1>2, <1>7 DEF Talking
  <2>2. Moves(job, s)
    BY <1>1, <1>7, <2>1 DEF Fit
  <2>3. server.mode = s.of
    BY <1>1, <1>2, <2>1 DEF Owed, Served
  <2>4. MovedData(s.of, q)
    BY <1>1, <1>7, <2>1, <2>2 DEF FileData, Moves
  <2>5. data.ended /\ s.of = "stor"
    BY <1>1, <1>2, <2>4 DEF MovedData
  <2>6. QED BY <2>3, <2>5 DEF ServerWaits
<1>8. CASE s.at = "loose" /\ s.did > 0
  <2>1. Loose(s.did, s.of, q)
    BY <1>1, <1>8, TalkingAt
  <2>2. Len(q) + Len(toserver) = s.did
    BY <1>1, <2>1 DEF Loose
  <2>3. Len(toserver) > 0
    BY <1>2, <1>8, <2>2
  <2>4. toserver # <<>> /\ server.mode = "command"
    BY <1>1, <2>1, <2>3 DEF Loose
  <2>5. QED BY <1>3, <2>4
<1>9. QED BY <1>4, <1>5, <1>6, <1>7, <1>8 DEF CheckStep

\* The reply to a place is what it is due, unless there was a fault.
LEMMA NeverRefused ==
    ASSUME TypeInv, NEW s \in Places, NEW q \in Seq(Answers), Fit(job, s), Talking(s, q),
           NEW o, NEW t, CheckStep(job, s, o, t), q # <<>>, ~Matches(Head(q).code, o.ok)
    PROVE  faults > 0
<1>n. PICK n \in Nat : n = asked
  BY Types
<1>1. \A a \in Said : Ans(n, a) \in Answers /\ Ans(n, a).code = a /\ Head(<<Ans(n, a)>>) = Ans(n, a)
  BY AnsParts, SaidTyped, OneReply
<1>2. \A a \in Said : q = <<Ans(n, a)>> => Head(q).code = a
  <2>1. ASSUME NEW a \in Said, q = <<Ans(n, a)>> PROVE Head(q).code = a
    <3>1. Head(q) = Ans(n, a)
      BY <1>1, <2>1
    <3>2. QED BY <1>1, <3>1
  <2>2. QED BY <2>1
<1>3. {120, 150, 220, 221, 226, 250, 200} \subseteq Said
  BY DEF Said
<1>4. CASE s.at = "greet"
  <2>1. Greeting(q)
    BY <1>4, TalkingAt
  <2>2. CASE q = <<Ans(n, 220)>>
    <3>1. Head(q).code = 220
      BY <1>2, <1>3, <2>2
    <3>2. QED BY <3>1, <1>4 DEF CheckStep, Accepts
  <2>3. CASE job.api # "send" /\ q = <<Ans(n, 120), Ans(n, 220)>>
    <3> DEFINE a == Ans(n, 120)
               b == Ans(n, 220)
    <3>1. a \in Answers /\ b \in Answers /\ a.code = 120
      BY <1>1, <1>3
    <3>2. q = <<a, b>>
      BY <2>3
    <3> HIDE DEF a, b
    <3>3. Head(q) = a
      BY <3>1, <3>2, TwoReplies
    <3>4. Head(q).code = 120
      BY <3>1, <3>3
    <3>5. QED BY <3>4, <1>4, <2>3 DEF CheckStep, Accepts
  <2>4. QED BY <1>n, <2>1, <2>2, <2>3 DEF Greeting
<1>5. CASE s.at = "await" /\ s.of = "."
  <2>1. Accepts(o.ok, {250})
    BY <1>5 DEF CheckStep
  <2>2. q = <<Ans(n, 250)>> => Head(q).code = 250
    BY <1>2, <1>3
  <2>3. QED BY <1>n, <1>5, <2>1, <2>2, TalkingAt DEF Dotted, Accepts
<1>6. CASE s.at = "await" /\ s.of # "."
  <2>1. \A a \in Codes(job, s.of) : Matches(a, o.ok) /\ a \in Said
    BY <1>6, CodesSaid DEF CheckStep, Accepts
  <2>2. Asked(s.of, q)
    BY <1>6, TalkingAt
  <2>3. CASE \E a \in Codes(job, s.of) : q = <<Ans(n, a)>>
    BY <2>3, <2>1, <1>2
  <2>4. CASE 150 \in Codes(job, s.of) /\ Head(q) = Ans(n, 150)
    <3>1. Head(q).code = 150
      BY <2>4, <1>1, <1>3
    <3>2. QED BY <2>1, <2>4, <3>1
  <2>5. QED BY <1>n, <2>2, <2>3, <2>4 DEF Asked
<1>7. CASE s.at = "last"
  <2>1. q = <<Ans(n, 220)>> \/ q = <<Ans(n, 226)>> \/ faults > 0
    BY <1>n, <1>7 DEF Talking, Owed
  <2>2. q = <<Ans(n, 220)>> => Head(q).code = 220
    BY <1>2, <1>3
  <2>3. q = <<Ans(n, 226)>> => Head(q).code = 226
    BY <1>2, <1>3
  <2>4. Accepts(o.ok, {220, 226})
    BY <1>7 DEF CheckStep
  <2>5. QED BY <2>1, <2>2, <2>3, <2>4 DEF Accepts
<1>8. CASE s.at = "loose"
  <2>1. Loose(s.did, s.of, q)
    BY <1>8, TalkingAt
  <2>2. Head(q) = q[1] /\ 1 \in 1..Len(q)
    OBVIOUS
  <2>3. faults = 0 /\ ~Gone => Head(q).code = 200 \/ (s.of = "QUIT" /\ Head(q).code = 221)
    BY <2>1, <2>2 DEF Loose
  <2>4. Matches(200, o.ok) /\ (s.of = "QUIT" => Matches(221, o.ok))
    BY <1>8 DEF CheckStep, Accepts
  <2>5. faults \in Nat
    BY Types
  <2>6. QED BY <2>3, <2>4, <2>5 DEF Gone
<1>9. QED BY <1>4, <1>5, <1>6, <1>7, <1>8 DEF CheckStep

\* The reply that is the only one on the way.
LEMMA OnlyReply ==
    ASSUME NEW n \in Nat, NEW q, NEW p, p = Tail(q)
    PROVE  \A a \in Said : q = <<Ans(n, a)>> => Head(q).code = a /\ p = <<>>
<1> SUFFICES ASSUME NEW a \in Said, q = <<Ans(n, a)>> PROVE Head(q).code = a /\ p = <<>>
  OBVIOUS
<1> DEFINE b == Ans(n, a)
<1>1. b \in Answers /\ b.code = a /\ q = <<b>>
  BY AnsParts, SaidTyped
<1> HIDE DEF b
<1>2. Head(q) = b /\ p = <<>>
  BY <1>1, OneReply
<1>3. QED BY <1>1, <1>2

\* The code of the answer to a command c, and what comes after it.
Obeyed(c, a, p) ==
    /\ a \in Codes(job, c)
    /\ \/ p = <<>> /\ Served(Mode(c, a))
       \/ c \in {"stor", "retr"} /\ a = 150 /\ Owed(c, p)

\* An accepted reply to a command means that the command was obeyed;
LEMMA GotAnswer ==
    ASSUME TypeInv, NEW s \in Places, NEW q, s.at = "await", s.of # ".", Talking(s, q), q # <<>>,
           NEW p, p = Tail(q), NEW ok, Refuses(ok), Matches(Head(q).code, ok)
    PROVE  Obeyed(s.of, Head(q).code, p)
<1>n. PICK n \in Nat : n = asked
  BY Types
<1>o. \A a \in Said : q = <<Ans(n, a)>> => Head(q).code = a /\ p = <<>>
  BY OnlyReply
<1>s. 500 \in Said
  BY DEF Said
<1>1. Asked(s.of, q)
  BY TalkingAt
<1>2. CASE \E a \in Codes(job, s.of) : q = <<Ans(n, a)>> /\ Served(Mode(s.of, a))
  <2>1. PICK a \in Codes(job, s.of) : q = <<Ans(n, a)>> /\ Served(Mode(s.of, a))
    BY <1>2
  <2>2. Head(q).code = a /\ p = <<>>
    BY <2>1, <1>o, CodesSaid
  <2>3. QED BY <2>1, <2>2 DEF Obeyed
<1>3. CASE q = <<Ans(n, 500)>>
  <2>1. Head(q).code = 500
    BY <1>3, <1>s, <1>o
  <2>2. QED BY <2>1 DEF Refuses
<1>4. CASE /\ s.of \in {"stor", "retr"} /\ 150 \in Codes(job, s.of)
           /\ q # <<>> /\ Head(q) = Ans(n, 150) /\ Owed(s.of, Tail(q))
  <2>1. Head(q).code = 150
    BY <1>4, AnsParts
  <2>2. QED BY <1>4, <2>1 DEF Obeyed
<1>5. QED BY <1>n, <1>1, <1>2, <1>3, <1>4 DEF Asked

\* The code of the greeting, and what comes after it.
Welcome(c, p) ==
    /\ Served("command")
    /\ \/ c = 220 /\ p = <<>>
       \/ job.api # "send" /\ c = 120 /\ p = <<Ans(asked, 220)>>

\* to the greeting, that the server serves;
LEMMA GotGreeting ==
    ASSUME TypeInv, NEW s \in Places, NEW q, s.at = "greet", Talking(s, q), q # <<>>,
           NEW p, p = Tail(q), NEW ok, Refuses(ok), Matches(Head(q).code, ok)
    PROVE  Welcome(Head(q).code, p)
<1>n. PICK n \in Nat : n = asked
  BY Types
<1>o. \A a \in Said : q = <<Ans(n, a)>> => Head(q).code = a /\ p = <<>>
  BY OnlyReply
<1>1. Greeting(q)
  BY TalkingAt
<1>s. 220 \in Said /\ 120 \in Said /\ 421 \in Said
  BY DEF Said
<1>2. CASE q = <<Ans(n, 220)>> /\ Served("command")
  BY <1>2, <1>s, <1>o DEF Welcome
<1>3. CASE q = <<Ans(n, 421)>>
  <2>1. Head(q).code = 421
    BY <1>3, <1>s, <1>o
  <2>2. QED BY <2>1 DEF Refuses
<1>4. CASE job.api # "send" /\ q = <<Ans(n, 120), Ans(n, 220)>> /\ Served("command")
  <2> DEFINE a == Ans(n, 120)
             b == Ans(n, 220)
  <2>1. a \in Answers /\ b \in Answers /\ a.code = 120
    BY AnsParts
  <2>2. q = <<a, b>>
    BY <1>4
  <2> HIDE DEF a, b
  <2>3. Head(q) = a /\ p = <<b>>
    BY <2>1, <2>2, TwoReplies
  <2>4. Head(q).code = 120
    BY <2>1, <2>3
  <2>5. p = <<Ans(asked, 220)>>
    BY <2>3, <1>n DEF b
  <2>6. QED BY <2>4, <2>5, <1>4 DEF Welcome
<1>5. QED BY <1>n, <1>1, <1>2, <1>3, <1>4 DEF Greeting, Welcome

\* to a message, that it was accepted;
LEMMA GotEnd ==
    ASSUME TypeInv, NEW q, Dotted(q), q # <<>>, NEW p, p = Tail(q), NEW ok, Refuses(ok), Matches(Head(q).code, ok)
    PROVE  Served("command") /\ Head(q).code = 250 /\ p = <<>>
<1>n. PICK n \in Nat : n = asked
  BY Types
<1>o. \A a \in Said : q = <<Ans(n, a)>> => Head(q).code = a /\ p = <<>>
  BY OnlyReply
<1>s. 250 \in Said /\ 554 \in Said
  BY DEF Said
<1>1. CASE q = <<Ans(n, 250)>> /\ Served("command")
  BY <1>1, <1>s, <1>o
<1>2. CASE q = <<Ans(n, 554)>>
  <2>1. Head(q).code = 554
    BY <1>2, <1>s, <1>o
  <2>2. QED BY <2>1 DEF Refuses
<1>3. QED BY <1>n, <1>1, <1>2 DEF Dotted

\* to a transfer, that it was confirmed.
LEMMA GotLast ==
    ASSUME TypeInv, NEW c, NEW q, Owed(c, q), q # <<>>, NEW p, p = Tail(q),
           NEW ok, Refuses(ok), Matches(Head(q).code, ok)
    PROVE  Served("command") /\ q = <<Ans(asked, 226)>> /\ p = <<>>
<1>n. PICK n \in Nat : n = asked
  BY Types
<1>o. \A a \in Said : q = <<Ans(n, a)>> => Head(q).code = a /\ p = <<>>
  BY OnlyReply
<1>s. 226 \in Said /\ 426 \in Said
  BY DEF Said
<1>1. CASE q = <<Ans(n, 226)>> /\ Served("command")
  <2>1. p = <<>>
    BY <1>1, <1>s, <1>o
  <2>2. QED BY <2>1, <1>1, <1>n
<1>2. CASE q = <<Ans(n, 426)>>
  <2>1. Head(q).code = 426
    BY <1>2, <1>s, <1>o
  <2>2. QED BY <2>1 DEF Refuses
<1>3. QED BY <1>n, <1>1, <1>2 DEF Owed

\* The greeting is read.
LEMMA ChecksGreeting ==
    ASSUME TypeInv, NEW s \in Places, NEW q, Fit(job, s), Talking(s, q), q # <<>>, s.at = "greet",
           NEW p, p = Tail(q), NEW o, NEW t, CheckStep(job, s, o, t), Matches(Head(q).code, o.ok),
           code' = Head(q).code, UNCHANGED <<job, left, got, asked, toserver, data, server, faults>>,
           job.api \in {"get", "put"} => FileData(s, q),
           job.api = "send" => MailData(s, q)
    PROVE  /\ Talking(t, p)' /\ ~t.made
           /\ job.api \in {"get", "put"} => FileData(t, p)'
           /\ job.api = "send" => MailData(t, p)'
<1>1. /\ Served("command") /\ s.did = 0
      /\ \/ Head(q).code = 220 /\ p = <<>>
         \/ job.api # "send" /\ Head(q).code = 120 /\ p = <<Ans(asked, 220)>>
  <2>1. Refuses(o.ok)
    BY DEF CheckStep
  <2>2. s.did = 0
    BY DEF Fit
  <2>3. Welcome(Head(q).code, p)
    BY <2>1, GotGreeting
  <2>4. QED BY <2>2, <2>3 DEF Welcome
<1>2. Served("command")' /\ (Gone' <=> Gone) /\ asked' = asked
  BY <1>1 DEF Served, Gone
<1>3. job.api \in {"get", "put"} => Untouched'
  <2>1. job.api \in {"get", "put"} => Untouched
    BY DEF FileData
  <2>2. QED BY <2>1, <1>2 DEF Untouched
<1>4. job.api = "send" => left' = Blocks /\ server'.accepted = <<>> /\ server'.inbox = 0 /\ server'.rcpts = 0
  BY DEF MailData
<1>5. CASE job.api = "send" /\ t = Talk(s.did, FALSE)
  <2>1. t.at = "talk" /\ t.did = 0 /\ ~t.made
    BY <1>1, <1>5 DEF Talk, Place
  <2>2. Quiet(p)'
    BY <1>1, <1>2, <1>5 DEF Quiet
  <2>3. Talking(t, p)'
    BY <2>1, <2>2 DEF Talking
  <2>4. MailData(t, p)'
    <3>1. job.rcpts \in Nat
      BY <1>5, Types, DialogueAssumption
    <3>2. QED BY <3>1, <2>1, <1>4, <1>5 DEF MailData
  <2>5. QED BY <2>1, <2>3, <2>4, <1>5
<1>6. CASE job.api # "send" /\ t = Place("moved", "greet", s.did, FALSE)
  <2>1. t.at = "moved" /\ t.of = "greet" /\ ~t.made
    BY <1>6 DEF Place
  <2>2. (code' = 220 /\ Quiet(p)') \/ (code' = 120 /\ p = <<Ans(asked', 220)>> /\ Served("command")')
    BY <1>1, <1>2 DEF Quiet
  <2>3. Talking(t, p)'
    BY <2>1, <2>2 DEF Talking
  <2>4. job.api \in {"get", "put"} => FileData(t, p)'
    BY <2>1, <1>3 DEF FileData
  <2>5. QED BY <2>1, <2>3, <2>4, <1>6
<1>7. QED BY <1>5, <1>6 DEF CheckStep

\* The last reply is.
LEMMA ChecksLast ==
    ASSUME TypeInv, NEW s \in Places, NEW q, Fit(job, s), Talking(s, q), q # <<>>, s.at = "last",
           NEW p, p = Tail(q), NEW o, NEW t, CheckStep(job, s, o, t), Matches(Head(q).code, o.ok),
           code' = Head(q).code, UNCHANGED <<job, left, got, asked, toserver, data, server, faults>>,
           job.api \in {"get", "put"} => FileData(s, q)
    PROVE  /\ Talking(t, p)' /\ ~t.made /\ job.api # "send"
           /\ job.api \in {"get", "put"} => FileData(t, p)'
<1>0. t = Finished(s) /\ Refuses(o.ok)
  BY DEF CheckStep
<1>n. PICK n \in Nat : n = asked
  BY Types
<1>g. Gone' <=> Gone
  BY DEF Gone
<1>1. CASE s.of = "greet"
  <2>1. q = <<Ans(n, 220)>> /\ Served("command")
    BY <1>1, <1>n DEF Talking
  <2>2. p = <<>>
    <3>1. 220 \in Said
      BY DEF Said
    <3>2. \A a \in Said : q = <<Ans(n, a)>> => p = <<>>
      BY OnlyReply
    <3>3. QED BY <2>1, <3>1, <3>2
  <2>3. job.api # "send" /\ s.did = 0
    BY <1>1 DEF Fit, Moves
  <2>4. t.at = "talk" /\ t.did = 0 /\ ~t.made
    BY <1>0, <1>1, <2>3 DEF Finished, Talk, Place
  <2>5. Quiet(p)'
    BY <2>1, <2>2 DEF Quiet, Served, Gone
  <2>6. Talking(t, p)'
    BY <2>4, <2>5 DEF Talking
  <2>7. job.api \in {"get", "put"} => FileData(t, p)'
    <3>1. job.api \in {"get", "put"} => Untouched
      BY <1>1 DEF FileData
    <3>2. Untouched => Untouched'
      BY <1>g DEF Untouched
    <3>3. QED BY <3>1, <3>2, <2>4 DEF FileData
  <2>8. QED BY <2>3, <2>4, <2>6, <2>7
<1>2. CASE s.of # "greet"
  <2>1. Owed(s.of, q)
    BY <1>2 DEF Talking
  <2>2. Served("command") /\ q = <<Ans(n, 226)>> /\ p = <<>>
    BY <1>0, <1>n, <2>1, GotLast
  <2>3. Moves(job, s) /\ (s.of = "retr" => ~job.direct)
    BY <1>2 DEF Fit
  <2>4. t.at = "talk" /\ t.did = 1 /\ ~t.made
    BY <1>0, <1>2 DEF Finished, Talk, Place
  <2>5. Quiet(p)'
    BY <2>2 DEF Quiet, Served, Gone
  <2>6. Talking(t, p)'
    BY <2>4, <2>5 DEF Talking
  <2>7. job.api \in {"get", "put"} => FileData(t, p)'
    <3> SUFFICES ASSUME job.api \in {"get", "put"} PROVE FileData(t, p)'
      OBVIOUS
    <3>1. MovedData(s.of, q) /\ FlowData(s.of, q)
      BY <1>2 DEF FileData, MovedData
    <3>2. CASE s.of = "stor" /\ job.api = "put"
      <4>1. server.stored = Blocks
        BY <3>1, <3>2, <2>2, <1>n DEF FlowData
      <4>2. Kept'
        BY <4>1, <3>2 DEF Kept
      <4>3. QED BY <2>4, <4>2 DEF FileData
    <3>3. CASE s.of = "retr" /\ job.api = "get"
      <4>1. got \in Seq({"block"}) /\ (Gone \/ Len(got) = Blocks)
        BY <3>1, <3>3, <2>2, <1>n DEF FlowData, MovedData
      <4>2. CASE Gone
        BY <4>2, <2>4, <1>g DEF FileData
      <4>3. CASE Len(got) = Blocks
        <5>1. Blocks \in Nat
          BY DialogueAssumption
        <5>2. got = [i \in 1..Blocks |-> "block"]
          <6> DEFINE x == [i \in 1..Blocks |-> "block"]
          <6>1. x \in Seq({"block"}) /\ Len(x) = Blocks
            BY <5>1
          <6>2. \A i \in 1..Blocks : got[i] = x[i]
            BY <4>1, <4>3
          <6> HIDE DEF x
          <6>3. got = x
            BY <6>1, <6>2, <4>1, <4>3, SeqEqual
          <6>4. QED BY <6>3 DEF x
        <5>3. got' = Delivery' /\ job'.api # "put"
          BY <5>2, <2>3, <3>3 DEF Delivery
        <5>4. Kept'
          BY <5>3 DEF Kept
        <5>5. QED BY <2>4, <5>4 DEF FileData
      <4>4. QED BY <4>1, <4>2, <4>3
    <3>4. QED BY <2>3, <3>2, <3>3 DEF Moves
  <2>8. job.api # "send"
    BY <2>3 DEF Moves
  <2>9. QED BY <2>4, <2>6, <2>7, <2>8
<1>3. QED BY <1>1, <1>2

\* The answer to a command is read, and talked on.
LEMMA TalksOn ==
    ASSUME NEW t \in Places, NEW p, t.at = "talk", p = <<>>, Served("command"),
           UNCHANGED <<toserver, server, faults, asked>>
    PROVE  Talking(t, p)'
<1>1. Quiet(p)'
  BY DEF Quiet, Served, Gone
<1>2. QED BY <1>1 DEF Talking

\* The answer to a command other than the end of a message is read.
LEMMA ChecksAnswer ==
    ASSUME TypeInv, NEW s \in Places, NEW q, Fit(job, s), Talking(s, q), q # <<>>,
           s.at = "await", s.of # ".",
           NEW p, p = Tail(q), NEW o, NEW t \in Places, CheckStep(job, s, o, t), Matches(Head(q).code, o.ok),
           code' = Head(q).code, UNCHANGED <<job, left, got, asked, toserver, data, server, faults>>,
           job.api \in {"get", "put"} => FileData(s, q),
           job.api = "send" => MailData(s, q)
    PROVE  /\ Talking(t, p)' /\ (t.made => s.made)
           /\ job.api \in {"get", "put"} => FileData(t, p)'
           /\ job.api = "send" => MailData(t, p)'
<1>1. t = Answered(s) /\ Refuses(o.ok)
  BY DEF CheckStep
<1>2. PICK a \in Codes(job, s.of) :
        /\ Head(q).code = a
        /\ \/ p = <<>> /\ Served(Mode(s.of, a))
           \/ s.of \in {"stor", "retr"} /\ a = 150 /\ Owed(s.of, p)
  <2>1. Obeyed(s.of, Head(q).code, p)
    BY <1>1, GotAnswer
  <2>2. QED BY <2>1 DEF Obeyed
<1>3. (Gone' <=> Gone) /\ code' = a
  BY <1>2 DEF Gone
<1>4. \A m : Served(m) => Served(m)'
  BY DEF Served, Gone
<1>5. \A c : Owed(c, p) => Owed(c, p)'
  BY <1>4 DEF Owed
<1>6. s.of \in Commands
  BY DEF Fit
<1>7. (Untouched => Untouched') /\ (Kept => Kept') /\ (TheMessage' = TheMessage)
  BY <1>3 DEF Untouched, Kept, Delivery, TheMessage
<1>8. CASE s.of = "DATA"
  <2>1. t.at = "message" /\ t.did = s.did /\ ~t.made
    BY <1>1, <1>8 DEF Answered, Place
  <2>2. job.api = "send" /\ s.did = job.rcpts
    BY <1>8 DEF Fit
  <2>3. p = <<>> /\ Served("message")
    BY <1>2, <1>8 DEF Mode
  <2>4. Gone \/ (server.mode = "message" /\ toserver = <<>> /\ server.read = asked)
    BY <2>3 DEF Served
  <2>5. toserver = <<>> => Len(toserver) = 0
    OBVIOUS
  <2>6. Mailing(p)'
    BY <2>3, <2>4, <2>5, <1>3 DEF Mailing
  <2>7. Talking(t, p)'
    BY <2>1, <2>6 DEF Talking
  <2>8. MailData(t, p)'
    <3>1. job.rcpts \in Nat /\ Blocks \in Nat
      BY <2>2, Types, DialogueAssumption
    <3>2. left = Blocks /\ (Gone \/ server.inbox = 0)
      BY <2>2, <3>1, <1>8 DEF MailData
    <3>3. Gone \/ server.inbox + Len(toserver) + left = Blocks
      BY <3>1, <3>2, <2>4, <2>5
    <3>4. QED BY <2>1, <3>3, <1>3 DEF MailData
  <2>9. QED BY <2>1, <2>2, <2>7, <2>8
<1>9. CASE s.of \in {"stor", "retr"}
  <2>1. t.did = s.did /\ t.made = s.made /\ t.of = s.of
    BY <1>1, <1>9 DEF Answered, Place
  <2>2. Moves(job, s) /\ s.did = 0
    BY <1>9 DEF Fit, Moves
  <2>3. FileData(s, q)
    BY <2>2 DEF Moves
  <2>4. CASE a = 150
    <3>1. Owed(s.of, p)
      BY <1>2, <1>9, <2>4 DEF Mode, Owed
    <3>2. FlowData(s.of, p) /\ (s.of = "retr" => got = <<>>)
      BY <2>3, <1>2, <1>9, <2>4 DEF FileData
    <3>3. FlowData(s.of, p)'
      BY <3>2, <1>3 DEF FlowData
    <3>4. CASE s.of = "stor"
      <4>1. t.at = "flow"
        BY <1>1, <3>4 DEF Answered, Place
      <4>2. Talking(t, p)' /\ FileData(t, p)'
        BY <4>1, <2>1, <2>4, <1>3, <1>5, <3>1, <3>3 DEF Talking, FileData
      <4>3. QED BY <4>2, <2>1, <2>2 DEF Moves
    <3>5. CASE s.of = "retr"
      <4>1. t.at = "more"
        BY <1>1, <3>5 DEF Answered, Place
      <4>2. Talking(t, p)' /\ FileData(t, p)'
        BY <4>1, <2>1, <2>4, <1>2, <1>3, <1>5, <3>1, <3>2, <3>3, <3>5 DEF Talking, FileData
      <4>3. QED BY <4>2, <2>1, <2>2 DEF Moves
    <3>6. QED BY <1>9, <3>4, <3>5
  <2>5. CASE a # 150
    <3>0. a \in Codes(job, s.of)
      BY <1>2
    <3>1. s.of = "retr" /\ a = 213
      <4>1. s.of # "stor"
        BY ONLY <3>0, <2>5 DEF Codes
      <4>2. Codes(job, "retr") = {IF job.direct THEN 213 ELSE 150}
        BY ONLY DEF Codes
      <4>3. QED BY ONLY <4>1, <4>2, <3>0, <1>9, <2>5
    <3>2. t.at = "more"
      BY <1>1, <3>1 DEF Answered, Place
    <3>3. p = <<>> /\ Served("command")
      BY <1>2, <3>1 DEF Mode
    <3>4. Untouched'
      BY <1>2, <1>7, <2>2, <2>3, <3>1 DEF FileData
    <3>5. Quiet(p)'
      BY <1>4, <3>3 DEF Quiet
    <3>6. Talking(t, p)' /\ FileData(t, p)'
      BY <3>1, <3>2, <3>4, <3>5, <1>2, <1>3 DEF Talking, FileData
    <3>7. QED BY <3>6, <2>1, <2>2 DEF Moves
  <2>6. QED BY <2>4, <2>5
<1>10. CASE s.of = "QUIT"
  <2>1. t.at = "bye" /\ t.did = s.did /\ ~t.made
    BY <1>1, <1>10 DEF Answered, Place
  <2>2. a = 221 /\ Served("away")
    BY <1>2, <1>10 DEF Codes, Mode
  <2>3. server.mode = "away"
    BY <2>2 DEF Served, Gone
  <2>4. Talking(t, p)'
    BY <2>1, <2>3 DEF Talking
  <2>5. job.api = "command" \/ s.did = Complete(job)
    BY <1>10 DEF Fit
  <2>6. job.api \in {"get", "put"} => FileData(t, p)'
    <3> SUFFICES ASSUME job.api \in {"get", "put"} PROVE FileData(t, p)'
      OBVIOUS
    <3>1. s.did = 1
      BY <2>5 DEF Complete
    <3>2. Kept
      BY <3>1, <2>2, <1>2, <1>10 DEF FileData
    <3>3. QED BY <3>2, <1>7, <2>1 DEF FileData
  <2>7. job.api = "send" => MailData(t, p)'
    <3> SUFFICES ASSUME job.api = "send" PROVE MailData(t, p)'
      OBVIOUS
    <3>1. s.did = job.rcpts + 1 /\ job.rcpts \in Nat
      BY <2>5, Types, DialogueAssumption DEF Complete
    <3>2. server.accepted = <<TheMessage>>
      BY <3>1, <1>10 DEF MailData
    <3>3. QED BY <3>2, <1>7, <2>1 DEF MailData
  <2>8. QED BY <2>1, <2>4, <2>6, <2>7
<1>11. CASE s.of = "RCPT"
  <2>1. t.at = "talk" /\ t.did = s.did + 1 /\ ~t.made
    BY <1>1, <1>11 DEF Answered, Talk, Place
  <2>2. job.api = "send" /\ s.did < job.rcpts /\ a = 250
    BY <1>2, <1>11 DEF Fit, Codes
  <2>3. p = <<>> /\ Served("command")
    BY <1>2, <1>11 DEF Mode
  <2>4. Talking(t, p)'
    BY <2>1, <2>3, TalksOn
  <2>5. MailData(t, p)'
    <3> DEFINE d == t.did
    <3>1. job.rcpts \in Nat /\ s.did \in Nat /\ d = s.did + 1
      BY <2>1, <2>2, Types, DialogueAssumption, PlaceParts
    <3> HIDE DEF d
    <3>2. d <= job.rcpts /\ s.did <= job.rcpts
      BY <2>2, <3>1
    <3>3. left = Blocks /\ server.accepted = <<>> /\ (Gone \/ (server.inbox = 0 /\ server.rcpts = d))
      BY <2>2, <3>1, <3>2, <1>2, <1>11 DEF MailData
    <3>4. QED BY <2>1, <3>2, <3>3, <1>3 DEF MailData, d
  <2>6. QED BY <2>1, <2>2, <2>4, <2>5
<1>12. CASE s.of \notin {"DATA", "stor", "retr", "QUIT", "RCPT"}
  <2>1. t.at = "talk" /\ t.did = s.did /\ t.made = s.made
    BY <1>1, <1>12 DEF Answered, Talk, Place
  <2>2. p = <<>> /\ Served("command")
    BY <1>2, <1>12 DEF Mode
  <2>3. Talking(t, p)'
    BY <2>1, <2>2, TalksOn
  <2>4. job.api \in {"get", "put"} => FileData(t, p)'
    <3> SUFFICES ASSUME job.api \in {"get", "put"} PROVE FileData(t, p)'
      OBVIOUS
    <3>1. IF s.did = 0 THEN Untouched ELSE Gone \/ Kept
      BY <1>12 DEF FileData
    <3>2. QED BY <3>1, <1>3, <1>7, <2>1 DEF FileData
  <2>5. job.api = "send" => MailData(t, p)'
    <3> SUFFICES ASSUME job.api = "send" PROVE MailData(t, p)'
      OBVIOUS
    <3>1. IF s.did <= job.rcpts
          THEN left = Blocks /\ server.accepted = <<>> /\ (Gone \/ (server.inbox = 0 /\ server.rcpts = s.did))
          ELSE server.accepted = <<TheMessage>>
      BY <1>12 DEF MailData
    <3>2. QED BY <3>1, <1>3, <1>7, <2>1 DEF MailData
  <2>6. QED BY <2>1, <2>3, <2>4, <2>5
<1>13. QED BY <1>8, <1>9, <1>10, <1>11, <1>12

\* The answer to the end of the message is.
LEMMA ChecksEnd ==
    ASSUME TypeInv, NEW s \in Places, NEW q, Fit(job, s), Talking(s, q), q # <<>>,
           s.at = "await", s.of = ".",
           NEW p, p = Tail(q), NEW o, NEW t \in Places, CheckStep(job, s, o, t), Matches(Head(q).code, o.ok),
           UNCHANGED <<job, left, got, asked, toserver, data, server, faults>>,
           job.api = "send" => MailData(s, q)
    PROVE  Talking(t, p)' /\ ~t.made /\ job.api = "send" /\ MailData(t, p)'
<1>1. t = Answered(s) /\ Refuses(o.ok)
  BY DEF CheckStep
<1>2. Served("command") /\ Head(q).code = 250 /\ p = <<>>
  <2>1. Dotted(q)
    BY TalkingAt
  <2>2. QED BY <1>1, <2>1, GotEnd
<1>3. t.at = "talk" /\ t.did = s.did + 1 /\ ~t.made
  BY <1>1 DEF Answered, Talk, Place
<1>4. job.api = "send" /\ s.did = job.rcpts
  BY DEF Fit
<1>5. server.accepted = <<TheMessage>> /\ TheMessage' = TheMessage
  BY <1>2, <1>4 DEF MailData, TheMessage
<1>6. MailData(t, p)'
  <2> DEFINE d == t.did
  <2>1. job.rcpts \in Nat /\ d = job.rcpts + 1
    BY <1>3, <1>4, Types, DialogueAssumption
  <2> HIDE DEF d
  <2>2. ~(d <= job.rcpts)
    BY <2>1
  <2>3. QED BY <2>2, <1>3, <1>5 DEF MailData, d
<1>7. Talking(t, p)'
  BY <1>2, <1>3, TalksOn
<1>8. QED BY <1>3, <1>4, <1>6, <1>7

\* The answer to some command is, of those that were not checked.
LEMMA ChecksLoose ==
    ASSUME TypeInv, NEW s \in Places, NEW q \in Seq(Answers), Talking(s, q), q # <<>>, s.at = "loose",
           NEW p, p = Tail(q), NEW o, NEW t \in Places, CheckStep(job, s, o, t),
           UNCHANGED <<toserver, server, faults>>
    PROVE  Talking(t, p)' /\ ~t.made
<1>1. s.did > 0 /\ t = Place("loose", s.of, s.did - 1, FALSE)
  BY DEF CheckStep
<1> DEFINE d == t.did
<1>2. t.at = "loose" /\ t.of = s.of /\ d = s.did - 1 /\ ~t.made /\ s.did \in Nat
  BY <1>1, PlaceParts DEF Place
<1> HIDE DEF d
<1>3. Gone' <=> Gone
  BY DEF Gone
<1> DEFINE l == Len(q)
           m == Len(p)
           n == Len(toserver)
<1>4. p \in Seq(Answers) /\ m = l - 1 /\ l \in Nat /\ \A i \in 1..m : p[i] = q[i+1] /\ i + 1 \in 1..l
  OBVIOUS
<1>5. n \in Nat
  BY DEF TypeInv
<1>6. Loose(s.did, s.of, q)
  BY TalkingAt
<1>7. Loose(d, s.of, p)'
  <2>1. CASE Gone
    BY <2>1, <1>3 DEF Loose
  <2>2. CASE ~Gone
    <3>1. /\ faults = 0 =>
                \A i \in 1..l : q[i].code = 200 \/ (s.of = "QUIT" /\ q[i].code = 221)
          /\ \A i \in 1..Len(toserver) :
                toserver[i] = "other" \/ (s.of = "QUIT" /\ toserver[i] = "QUIT" /\ i = Len(toserver))
          /\ server.mode = "command" \/ (server.mode = "away" /\ toserver = <<>> /\ s.of = "QUIT")
          /\ l + n = s.did
      BY <1>6, <2>2 DEF Loose
    <3> HIDE DEF l, m, n
    <3>2. m + n = d
      BY <3>1, <1>2, <1>4, <1>5
    <3>3. faults = 0 => \A i \in 1..m : p[i].code = 200 \/ (s.of = "QUIT" /\ p[i].code = 221)
      <4>1. ASSUME faults = 0, NEW i \in 1..m PROVE p[i].code = 200 \/ (s.of = "QUIT" /\ p[i].code = 221)
        <5>1. p[i] = q[i+1] /\ i + 1 \in 1..l
          BY <1>4
        <5> DEFINE G(a) == a.code = 200 \/ (s.of = "QUIT" /\ a.code = 221)
        <5>2. G(q[i+1])
          BY <3>1, <4>1, <5>1
        <5> HIDE DEF G
        <5>3. G(p[i])
          BY <5>1, <5>2
        <5>4. QED BY <5>3 DEF G
      <4>2. QED BY <4>1
    <3>4. QED BY <3>1, <3>2, <3>3 DEF Loose, m, n
  <2>3. QED BY <2>1, <2>2
<1>8. Talking(t, p)'
  BY <1>2, <1>7 DEF Talking, d
<1>9. QED BY <1>2, <1>8

\* tp:check.
LEMMA CheckGoes ==
    ASSUME TypeInv, Sound, NEW s \in Places, NEW q \in Seq(Answers), Going(s, q), check
    PROVE  Inv'
<1>1. Doing("check") /\ UNCHANGED <<job, left, got, asked, toserver, server>>
  BY DEF check
<1>2. PICK t \in Places, u \in Places : Step(job, s, Head(script), t) /\ Path(job, Tail(script), t, u)
  BY <1>1, Starts DEF Doing
<1> DEFINE o == Head(script)
<1>3. CheckStep(job, s, o, t)
  BY <1>1, <1>2, CheckSteps DEF Doing
<1>4. /\ Fit(job, s) /\ Talking(s, q) /\ Wire(q) /\ (s.made => "data" \in open)
      /\ job.api \in {"get", "put"} => FileData(s, q)
      /\ job.api = "send" => MailData(s, q)
  BY GoingParts
<1>t. /\ left' \in Nat /\ got' \in Seq({"block", "reply"}) /\ asked' \in Nat
      /\ code \in Nat /\ begun \in Nat /\ replies \in Seq(Line) /\ faults \in Nat
  BY <1>1 DEF TypeInv
<1>5. CASE replies = <<>> /\ Fails(ServerWaits) /\ UNCHANGED <<code, begun, replies>>
  <2> DEFINE b == ServerWaits
  <2>1. Fails(b) /\ (b => faults > 0)
    BY <1>3, <1>5, NeverStuck
  <2>2. code' \in Nat /\ begun' \in Nat /\ replies' \in Seq(Line)
    BY <1>5, <1>t
  <2> HIDE DEF b
  <2>3. QED BY <1>1, <1>t, <2>1, <2>2, InvFails
<1> DEFINE line == Head(replies)
           first == IF begun = 0 THEN line.code ELSE begun
           c == Head(q).code
           p == Tail(q)
<1>6. CASE /\ replies # <<>> /\ replies' = Tail(replies) /\ UNCHANGED faults
           /\ IF ~Ends(line)
              THEN begun' = first /\ UNCHANGED <<code, script, open, result, data>>
              ELSE /\ begun' = 0
                   /\ IF Matches(first, Head(script).ok)
                      THEN code' = first /\ Onward /\ UNCHANGED <<open, result, data>>
                      ELSE Raise /\ UNCHANGED code
  <2>1. /\ q # <<>> /\ first = c
        /\ Ends(line) /\ begun' = 0 => Wire(p)'
        /\ ~Ends(line) /\ begun' = c => Wire(q)'
    BY <1>1, <1>4, <1>6, Reads
  <2>2. replies' \in Seq(Line) /\ c \in Nat /\ p \in Seq(Answers)
    <3>1. replies' \in Seq(Line) /\ p \in Seq(Answers)
      BY <1>6, <1>t, <2>1
    <3>2. Head(q) \in Answers
      BY <2>1
    <3>3. c \in Nat
      BY <3>2 DEF Answers
    <3>4. QED BY <3>1, <3>3
  <2> HIDE DEF o, c, p, line, first
  <2>3. CASE ~Ends(line)
    <3>1. begun' = c /\ UNCHANGED <<code, script, open, result, data>>
      BY <1>6, <2>1, <2>3
    <3>2. Wire(q)'
      BY <2>1, <2>3, <3>1
    <3>3. Talking(s, q)'
      BY <1>1, <1>4, <1>6, <3>1, TalkingSame
    <3>4. /\ job.api \in {"get", "put"} => FileData(s, q)'
          /\ job.api = "send" => MailData(s, q)'
      BY <1>1, <1>4, <1>6, <3>1, FileSame, MailSame
    <3>5. PICK v : Path(job, script, s, v)
      BY GoingParts
    <3>6. Going(s, q)'
      BY <1>1, <1>4, <3>1, <3>2, <3>3, <3>4, <3>5, Arrives
    <3>7. result' = None
      BY <1>1, <3>1 DEF Doing
    <3>8. TypeInv'
      BY <1>1, <1>6, <2>2, <3>1 DEF TypeInv
    <3>9. Sound'
      BY <1>1, <3>7, SoundSame
    <3>10. QED BY <3>6, <3>8, <3>9, InvGoes
  <2>4. CASE Ends(line) /\ Matches(first, Head(script).ok)
    <3>1. /\ begun' = 0 /\ code' = c /\ script' = Tail(script) /\ UNCHANGED <<open, result, data>>
          /\ Matches(c, o.ok)
      BY <1>6, <2>1, <2>4 DEF Onward, o
    <3>2. Wire(p)'
      BY <2>1, <2>4, <3>1
    <3>3. code' = Head(q).code /\ Matches(Head(q).code, o.ok) /\ p = Tail(q)
      BY <3>1 DEF c, p
    <3>4. /\ Talking(t, p)' /\ (t.made => s.made)
          /\ job.api \in {"get", "put"} => FileData(t, p)'
          /\ job.api = "send" => MailData(t, p)'
      <4>1. CASE s.at = "greet"
        BY <1>1, <1>3, <1>4, <1>6, <2>1, <3>1, <3>3, <4>1, ChecksGreeting
      <4>2. CASE s.at = "await" /\ s.of = "."
        BY <1>1, <1>3, <1>4, <1>6, <2>1, <3>1, <3>3, <4>2, ChecksEnd
      <4>3. CASE s.at = "await" /\ s.of # "."
        BY <1>1, <1>3, <1>4, <1>6, <2>1, <3>1, <3>3, <4>3, ChecksAnswer
      <4>4. CASE s.at = "last"
        BY <1>1, <1>3, <1>4, <1>6, <2>1, <3>1, <3>3, <4>4, ChecksLast
      <4>5. CASE s.at = "loose"
        <5>1. job.api = "command"
          BY <1>4, <4>5 DEF Fit, Loosely
        <5>2. QED BY <1>1, <1>3, <1>4, <1>6, <2>1, <3>1, <3>3, <4>5, <5>1, ChecksLoose
      <4>6. QED BY <1>3, <4>1, <4>2, <4>3, <4>4, <4>5 DEF CheckStep
    <3>5. Fit(job, t)
      BY <1>3, <1>4, FitCheck
    <3>6. Path(job, script', t, u)
      BY <1>2, <3>1
    <3>7. Going(t, p)'
      BY <1>1, <1>4, <3>1, <3>2, <3>4, <3>5, <3>6, Arrives
    <3>8. result' = None
      BY <1>1, <3>1 DEF Doing
    <3>9. TypeInv'
      BY <1>1, <1>6, <2>2, <3>1 DEF TypeInv
    <3>10. Sound'
      BY <1>1, <3>8, SoundSame
    <3>11. QED BY <2>2, <3>7, <3>9, <3>10, InvGoes
  <2>5. CASE Ends(line) /\ ~Matches(first, Head(script).ok)
    <3>1. begun' = 0 /\ Raise /\ UNCHANGED <<code, faults>> /\ ~Matches(Head(q).code, o.ok)
      BY <1>6, <2>1, <2>5 DEF o, c
    <3>2. faults > 0
      BY <1>3, <1>4, <2>1, <3>1, NeverRefused
    <3> DEFINE b == TRUE
    <3>3. Fails(b)
      BY <3>1 DEF Fails
    <3>4. begun' \in Nat /\ code' \in Nat
      BY <3>1, <1>t
    <3> HIDE DEF b
    <3>5. QED BY <1>1, <1>t, <2>2, <3>2, <3>3, <3>4, InvFails
  <2>6. QED BY <2>3, <2>4, <2>5
<1>7. QED BY <1>5, <1>6 DEF check

\* The conditional steps.
LEMMA BranchLast ==
    ASSUME TypeInv, NEW s \in Places, NEW q, Fit(job, s), Talking(s, q), s.at = "moved",
           Matches(code, {1})
    PROVE  LET t == Place("last", s.of, s.did, FALSE) IN
           /\ t \in Places /\ Path(job, Check({2}), t, Finished(s)) /\ Fit(job, t) /\ ~t.made
           /\ Talking(t, q) /\ (FileData(s, q) => FileData(t, q))
<1> DEFINE t == Place("last", s.of, s.did, FALSE)
<1>1. t \in Places
  <2>1. "last" \in Points /\ s.of \in Commands \cup {None, "greet"} /\ s.did \in Nat /\ FALSE \in BOOLEAN
    BY DEF Points, Places
  <2>2. QED BY <2>1, Made
<1>2. t.at = "last" /\ t.of = s.of /\ t.did = s.did /\ ~t.made
  BY DEF Place
<1>3. Path(job, Check({2}), t, Finished(s))
  <2>1. Refuses({2}) /\ {2} \in SUBSET Nat
    BY Refusing, OkSets
  <2>2. Accepts({2}, {220, 226})
    BY DEF Accepts, Matches
  <2>3. Finished(t) = Finished(s) /\ Finished(s) \in Places
    <3>1. Finished(t) = Finished(s)
      BY <1>2 DEF Finished
    <3>2. Talk(s.did, FALSE) \in Places /\ Talk(1, FALSE) \in Places
      BY Talks, PlaceParts
    <3>3. QED BY <3>1, <3>2, FinishedParts
  <2> DEFINE o == [op |-> "check", ok |-> {2}]
  <2>4. o.ok = {2}
    OBVIOUS
  <2> HIDE DEF o, t
  <2>5. CheckStep(job, t, o, Finished(s))
    BY <1>2, <2>1, <2>2, <2>3, <2>4 DEF CheckStep
  <2>6. QED BY <1>1, <2>1, <2>3, <2>5, Checked DEF o
<1>4. Fit(job, t)
  BY FitOthers
<1>5. Talking(t, q)
  <2>1. IF s.of = "greet" THEN q = <<Ans(asked, 220)>> /\ Served("command") ELSE Owed(s.of, q)
    <3>1. code # 220
      BY DEF Matches
    <3>2. QED BY <3>1, TalkingAt
  <2> HIDE DEF t
  <2>2. QED BY <1>2, <2>1 DEF Talking
<1>6. FileData(s, q) => FileData(t, q)
  <2> HIDE DEF t
  <2>1. QED BY <1>2 DEF FileData
<1>7. QED BY <1>1, <1>2, <1>3, <1>4, <1>5, <1>6

\* ftp.get goes on with the reply or with the file.
LEMMA BranchFetch ==
    ASSUME TypeInv, job \in Jobs, job.api = "get", NEW s \in Places, NEW q, Fit(job, s), Talking(s, q),
           s.at = "more", FileData(s, q), s.made => "data" \in open
    PROVE  \E t \in Places :
                /\ Path(job, IF Matches(code, {2}) THEN Fetch(job).yes ELSE Fetch(job).no, t, Finished(s))
                /\ Fit(job, t) /\ Talking(t, q) /\ FileData(t, q) /\ (t.made => "data" \in open)
<1>1. /\ s.of = "retr" /\ Moves(job, s) /\ s.made = Passive(job) /\ s.did = 0
      /\ code \in Codes(job, "retr")
  BY TalkingAt DEF Fit, Moves
<1>2. Finished(s) = Talk(1, FALSE) /\ Talk(1, FALSE) \in Places
  <2>1. Talk(1, FALSE) \in Places
    BY Talks
  <2>2. QED BY <1>1, <2>1, FinishedParts
<1>3. CASE job.direct
  <2> DEFINE t == Place("sink", s.of, s.did, FALSE)
  <2>1. code = 213 /\ Matches(code, {2})
    BY <1>1, <1>3 DEF Codes, Matches
  <2>2. t \in Places
    <3>1. "sink" \in Points /\ s.of \in Commands \cup {None, "greet"} /\ s.did \in Nat /\ FALSE \in BOOLEAN
      BY DEF Points, Places
    <3>2. QED BY <3>1, Made
  <2>3. t.at = "sink" /\ t.of = s.of /\ ~t.made
    BY DEF Place
  <2>4. Fit(job, t)
    BY <1>3, FitOthers
  <2>5. Fetch(job).yes = Do("sink_reply")
    BY DEF Fetch
  <2> DEFINE o == [op |-> "sink_reply"]
  <2>6. o.op = "sink_reply"
    OBVIOUS
  <2> HIDE DEF o, t
  <2>7. Finished(t) = Finished(s)
    BY <2>3, <1>1, <1>2, FinishedParts
  <2>8. OtherStep(job, t, o, Finished(s))
    BY <2>3, <2>6, <2>7 DEF OtherStep
  <2>9. Path(job, Do("sink_reply"), t, Finished(s))
    <3>1. "sink_reply" \in Words
      BY DEF Words
    <3>2. QED BY <3>1, <2>2, <2>8, <1>2, Does DEF o
  <2>10. Talking(t, q)
    <3>1. Quiet(q)
      BY <2>1, TalkingAt
    <3>2. QED BY <2>3, <3>1 DEF Talking
  <2>11. FileData(t, q)
    <3>1. Untouched
      BY <2>1 DEF FileData
    <3>2. QED BY <2>3, <3>1 DEF FileData
  <2>12. QED BY <2>1, <2>2, <2>3, <2>4, <2>5, <2>9, <2>10, <2>11
<1>4. CASE ~job.direct
  <2> DEFINE t == Place("flow", "retr", 0, Passive(job))
  <2>1. code = 150 /\ ~Matches(code, {2})
    BY <1>1, <1>4 DEF Codes, Matches
  <2>2. t \in Places
    <3>1. "flow" \in Points /\ "retr" \in Commands \cup {None, "greet"} /\ Passive(job) \in BOOLEAN
      BY DEF Points, Commands, Passive
    <3>2. QED BY <3>1, Made
  <2>3. t.at = "flow" /\ t.of = "retr" /\ t.made = s.made
    BY <1>1 DEF Place
  <2>4. Fit(job, t)
    BY <1>4, FitOthers
  <2>5. Path(job, Fetch(job).no, t, Finished(s))
    BY <1>2, Downloads
  <2> HIDE DEF t
  <2>6. Talking(t, q)
    <3>1. Owed("retr", q)
      BY <2>1, TalkingAt
    <3>2. QED BY <2>1, <2>3, <3>1 DEF Talking
  <2>7. FileData(t, q)
    <3>1. FlowData("retr", q)
      BY <2>1 DEF FileData
    <3>2. QED BY <2>3, <3>1 DEF FileData
  <2>8. QED BY <2>1, <2>2, <2>3, <2>4, <2>5, <2>6, <2>7
<1>5. QED BY <1>3, <1>4

\* A step that leaves all but the script as it is.
LEMMA StaysGoing ==
    ASSUME TypeInv, Sound, NEW t \in Places, NEW u, NEW q \in Seq(Answers), Path(job, script', t, u),
           Fit(job, t), Talking(t, q), Wire(q),
           job.api \in {"get", "put"} => FileData(t, q),
           job.api = "send" => MailData(t, q),
           t.made => "data" \in open, result = None,
           UNCHANGED <<job, code, begun, open, left, got, result, asked, toserver, replies, data, server,
                       faults>>
    PROVE  Inv'
<1>1. Wire(q)'
  BY WireSame DEF Gone
<1>2. Talking(t, q)'
  BY TalkingSame
<1>3. job.api \in {"get", "put"} => FileData(t, q)'
  BY FileSame
<1>4. job.api = "send" => MailData(t, q)'
  BY MailSame
<1>5. Going(t, q)'
  BY <1>1, <1>2, <1>3, <1>4, Arrives
<1>6. TypeInv'
  BY DEF TypeInv
<1>7. Sound'
  BY SoundSame
<1>8. QED BY <1>5, <1>6, <1>7, InvGoes

\* A password may be asked for.
LEMMA PassAgain ==
    ASSUME NEW s \in Places, s.at = "talk", s.of = None
    PROVE  Path(job, Command("pass") \o Check({2}), s, s)
<1>1. s = Talk(s.did, s.made) /\ s.did \in Nat /\ s.made \in BOOLEAN
  BY PlaceParts DEF Talk
<1>2. Path(job, Command("pass") \o Check({2}), Talk(s.did, s.made), Talk(s.did, s.made))
  <2>1. "pass" \in Commands /\ Accepts({2}, Codes(job, "pass"))
    BY Accepting DEF Commands
  <2> DEFINE d == s.did
             m == s.made
  <2>2. d \in Nat /\ m \in BOOLEAN
    BY <1>1
  <2> HIDE DEF d, m
  <2>3. Path(job, Command("pass") \o Check({2}), Talk(d, m), Talk(d, m))
    BY <2>1, <2>2, OkSets, Plainly
  <2>4. QED BY <2>3 DEF d, m
<1>3. QED BY <1>1, <1>2

\* A conditional step.
LEMMA BranchGoes ==
    ASSUME TypeInv, Sound, NEW s \in Places, NEW q \in Seq(Answers), Going(s, q), branch
    PROVE  Inv'
<1>1. /\ Doing("if") /\ result = None /\ script # <<>>
      /\ UNCHANGED <<job, code, begun, open, left, got, result, asked, toserver, replies, data, server,
                     faults>>
      /\ script' = (IF Matches(code, Head(script).ok) THEN Head(script).yes ELSE Head(script).no)
                        \o Tail(script)
  BY DEF branch, Doing
<1> DEFINE o == Head(script)
           x == IF Matches(code, o.ok) THEN o.yes ELSE o.no
           y == Tail(script)
<1>2. PICK t \in Places, u \in Places : Step(job, s, o, t) /\ Path(job, y, t, u)
  BY <1>1, Starts
<1>3. /\ Fit(job, s) /\ Talking(s, q) /\ Wire(q) /\ (s.made => "data" \in open)
      /\ job.api \in {"get", "put"} => FileData(s, q)
      /\ job.api = "send" => MailData(s, q)
  BY GoingParts
<1>4. o.op = "if"
  BY <1>1 DEF Doing
<1>5. ASSUME NEW r \in Places, Path(job, x, r, t), Fit(job, r), Talking(r, q),
             job.api \in {"get", "put"} => FileData(r, q),
             job.api = "send" => MailData(r, q), r.made => "data" \in open
      PROVE  Inv'
  <2> HIDE DEF x, y
  <2>1. Path(job, x \o y, r, u)
    BY <1>2, <1>5, PathJoin
  <2>2. script' = x \o y
    BY <1>1 DEF x, y, o
  <2>3. Path(job, script', r, u)
    BY <2>1, <2>2
  <2>4. QED BY <2>3, <1>1, <1>3, <1>5, StaysGoing
<1>6. CASE o = LastReply /\ s.at = "moved" /\ t = Finished(s)
  <2>1. o.ok = {1} /\ o.yes = Check({2}) /\ o.no = <<>>
    BY <1>6 DEF LastReply
  <2>2. CASE Matches(code, {1})
    <3> DEFINE r == Place("last", s.of, s.did, FALSE)
    <3>1. /\ r \in Places /\ Path(job, Check({2}), r, Finished(s)) /\ Fit(job, r) /\ ~r.made
          /\ Talking(r, q) /\ (FileData(s, q) => FileData(r, q))
      BY <1>3, <1>6, <2>2, BranchLast
    <3>2. job.api # "send"
      BY <1>3, <1>6 DEF Fit, Moves
    <3>3. Path(job, x, r, t)
      BY <3>1, <1>6, <2>1, <2>2
    <3> HIDE DEF r, x, y, o
    <3>4. QED BY <3>1, <3>2, <3>3, <1>3, <1>5
  <2>3. CASE ~Matches(code, {1})
    <3>1. s.of = "greet" /\ Quiet(q)
      BY <1>3, <1>6, <2>3 DEF Talking, Matches
    <3>2. s.did = 0 /\ job.api # "send"
      BY <1>3, <1>6, <3>1 DEF Fit, Moves
    <3>3. t = Talk(0, FALSE)
      BY <3>1, <3>2, <1>6, FinishedParts
    <3>4. t.at = "talk" /\ t.did = 0 /\ ~t.made
      BY <3>3 DEF Talk, Place
    <3>5. Talking(t, q)
      BY <3>1, <3>4 DEF Talking
    <3>6. job.api \in {"get", "put"} => FileData(t, q)
      BY <1>3, <1>6, <3>1, <3>4 DEF FileData
    <3>7. x = <<>>
      BY <2>1, <2>3
    <3>8. Path(job, x, t, t)
      BY <3>7, PathNone
    <3>9. Fit(job, t)
      BY <1>6, FitFinished
    <3> HIDE DEF x, y, o
    <3>10. QED BY <3>2, <3>4, <3>5, <3>6, <3>8, <3>9, <1>5
  <2>4. QED BY <2>2, <2>3
<1>7. CASE o = Pass /\ s.at = "talk" /\ s.of = None /\ t = s
  <2>1. o.yes = Command("pass") \o Check({2}) /\ o.no = <<>>
    BY <1>7 DEF Pass
  <2>2. Path(job, Command("pass") \o Check({2}), s, s) /\ Path(job, <<>>, s, s)
    BY <1>7, PassAgain, PathNone
  <2>3. Path(job, x, s, t)
    <3>1. CASE Matches(code, o.ok)
      <4>1. x = Command("pass") \o Check({2})
        BY <2>1, <3>1
      <4> HIDE DEF x
      <4>2. QED BY <2>2, <4>1, <1>7
    <3>2. CASE ~Matches(code, o.ok)
      <4>1. x = <<>>
        BY <2>1, <3>2
      <4> HIDE DEF x
      <4>2. QED BY <2>2, <4>1, <1>7
    <3>3. QED BY <3>1, <3>2
  <2> HIDE DEF x, y, o
  <2>4. QED BY <2>3, <1>3, <1>5
<1>8. CASE s.at = "more" /\ job.api = "get" /\ o = Fetch(job) /\ t = Finished(s)
  <2>1. job \in Jobs
    BY Types
  <2>2. o.ok = {2}
    <3>1. Fetch(job).ok = {2}
      BY DEF Fetch
    <3> HIDE DEF o
    <3>2. QED BY <3>1, <1>8
  <2>3. x = IF Matches(code, {2}) THEN Fetch(job).yes ELSE Fetch(job).no
    BY <1>8, <2>2
  <2> DEFINE z == IF Matches(code, {2}) THEN Fetch(job).yes ELSE Fetch(job).no
  <2>4. PICK r \in Places : /\ Path(job, z, r, Finished(s))
                            /\ Fit(job, r) /\ Talking(r, q) /\ FileData(r, q) /\ (r.made => "data" \in open)
    BY <1>3, <1>8, <2>1, BranchFetch
  <2>5. x = z
    BY <2>3
  <2> HIDE DEF x, y, o, z
  <2>6. Path(job, x, r, t)
    BY <2>4, <2>5, <1>8
  <2>7. QED BY <2>4, <2>6, <1>3, <1>5, <1>8
<1>9. \/ o = LastReply /\ s.at = "moved" /\ t = Finished(s)
      \/ o = Pass /\ s.at = "talk" /\ s.of = None /\ t = s
      \/ s.at = "more" /\ job.api = "get" /\ o = Fetch(job) /\ t = Finished(s)
  <2> HIDE DEF o, y
  <2>1. QED BY <1>2, <1>4, OtherSteps
<1>10. QED BY <1>6, <1>7, <1>8, <1>9

\* A call that fails by itself.
LEMMA FaultGoes ==
    ASSUME TypeInv, Sound, Fails(FALSE), UNCHANGED <<job, code, begun, left, got, asked, toserver, replies, server>>
    PROVE  Inv'
<1>1. /\ code' \in Nat /\ begun' \in Nat /\ left' \in Nat /\ got' \in Seq({"block", "reply"})
      /\ asked' \in Nat /\ replies' \in Seq(Line)
  BY DEF TypeInv
<1> DEFINE b == FALSE
<1>2. Fails(b) /\ (b => faults > 0)
  OBVIOUS
<1> HIDE DEF b
<1>3. QED BY <1>1, <1>2, InvFails

\* A block of the message is sent.
LEMMA SourceBlock ==
    ASSUME TypeInv, Sound, NEW s \in Places, NEW q \in Seq(Answers), Going(s, q), s.at = "message",
           left > 0, left' = left - 1, toserver' = Append(toserver, "block"), result = None,
           UNCHANGED <<script, open, result, faults, data, job, code, begun, got, asked, replies, server>>
    PROVE  Inv'
<1>1. /\ Fit(job, s) /\ Wire(q) /\ (s.made => "data" \in open)
      /\ job.api = "send" => MailData(s, q)
      /\ Mailing(q) /\ \E u : Path(job, script, s, u)
  BY GoingParts, TalkingAt
<1>2. job.api = "send" /\ job.api \notin {"get", "put"}
  BY <1>1 DEF Fit
<1>3. Gone' <=> Gone
  BY DEF Gone
<1>4. /\ toserver' \in Seq(Commands \cup {"block"}) /\ Len(toserver') = Len(toserver) + 1
      /\ Len(toserver) \in Nat
      /\ \A i \in 1..Len(toserver) : toserver'[i] = toserver[i]
      /\ toserver'[Len(toserver) + 1] = "block"
  <2> DEFINE S == Commands \cup {"block"}
  <2>1. "block" \in S /\ toserver \in Seq(S)
    BY DEF TypeInv
  <2> HIDE DEF S
  <2>2. Append(toserver, "block") \in Seq(S)
    BY <2>1
  <2>3. /\ Len(toserver') = Len(toserver) + 1 /\ Len(toserver) \in Nat
        /\ \A i \in 1..Len(toserver) : toserver'[i] = toserver[i]
        /\ toserver'[Len(toserver) + 1] = "block"
    BY <2>1
  <2>4. QED BY <2>2, <2>3 DEF S
<1>5. /\ q = <<>>
      /\ Gone \/ (/\ server.mode = "message" /\ server.read = asked
                  /\ \A i \in 1..Len(toserver) : toserver[i] = "block")
  BY <1>1 DEF Mailing
<1>6. ~Gone => \A i \in 1..Len(toserver') : toserver'[i] = "block"
  <2>1. \A i \in 1..Len(toserver') : i \in 1..Len(toserver) \/ i = Len(toserver) + 1
    BY <1>4
  <2>2. QED BY <2>1, <1>4, <1>5
<1>7. Talking(s, q)'
  <2>1. Mailing(q)'
    BY <1>3, <1>5, <1>6 DEF Mailing
  <2>2. QED BY <2>1 DEF Talking
<1>8. MailData(s, q)'
  <2>1. Gone \/ server.inbox + Len(toserver) + left = Blocks
    BY <1>1, <1>2 DEF MailData
  <2>2. server.inbox \in Nat /\ left \in Nat
    BY Types
  <2>3. Gone' \/ server'.inbox + Len(toserver') + left' = Blocks
    <3> DEFINE i == server.inbox
               l == Len(toserver)
               l2 == Len(toserver')
    <3>1. i \in Nat /\ l \in Nat /\ l2 = l + 1 /\ left \in Nat /\ left' = left - 1
      BY <1>4, <2>2
    <3>2. Gone \/ i + l + left = Blocks
      BY <2>1
    <3>3. server'.inbox = i
      OBVIOUS
    <3> HIDE DEF i, l, l2
    <3>4. Gone \/ i + l2 + left' = Blocks
      BY <3>1, <3>2
    <3>5. QED BY <3>3, <3>4, <1>3 DEF l2
  <2>4. QED BY <2>3 DEF MailData
<1>9. Wire(q)'
  BY <1>1, <1>3, WireSame
<1>10. Going(s, q)'
  BY <1>1, <1>2, <1>7, <1>8, <1>9, Arrives
<1>11. TypeInv'
  <2>1. left' \in Nat
    BY Types
  <2>2. QED BY <2>1, <1>4 DEF TypeInv
<1>12. Sound'
  <2>1. MailServer /\ TheMessage' = TheMessage
    BY <1>2 DEF Sound, TheMessage
  <2>2. MailServer'
    <3>1. CASE Gone
      BY <3>1, <2>1 DEF MailServer, Gone
    <3>2. CASE ~Gone
      BY <3>2, <2>1, <1>5, <1>6 DEF MailServer
    <3>3. QED BY <3>1, <3>2
  <2>3. QED BY <2>2, <1>2 DEF Sound, NoStall, None
<1>13. QED BY <1>10, <1>11, <1>12, InvGoes

\* tp:source.
LEMMA SourceGoes ==
    ASSUME TypeInv, Sound, NEW s \in Places, NEW q \in Seq(Answers), Going(s, q), source
    PROVE  Inv'
<1>1. Doing("source") /\ UNCHANGED <<job, code, begun, got, asked, replies, server>>
  BY DEF source
<1>2. PICK t \in Places, u \in Places : Step(job, s, Head(script), t) /\ Path(job, Tail(script), t, u)
  BY <1>1, Starts DEF Doing
<1>3. s.at = "message" /\ t = Place("dot", None, s.did, FALSE)
  BY <1>1, <1>2, OtherSteps DEF Doing
<1>4. CASE /\ left > 0 /\ left' = left - 1 /\ toserver' = Append(toserver, "block")
           /\ UNCHANGED <<script, open, result, faults, data>>
  <2>1. result = None
    BY <1>1 DEF Doing
  <2>2. QED BY <2>1, <1>1, <1>3, <1>4, SourceBlock
<1>5. CASE left = 0 /\ Onward /\ UNCHANGED <<left, toserver, open, result, faults, data>>
  <2>1. /\ Fit(job, s) /\ Talking(s, q) /\ Wire(q)
        /\ job.api = "send" => MailData(s, q)
    BY GoingParts
  <2>2. t.at = "dot" /\ t.did = s.did /\ ~t.made
    BY <1>3 DEF Place
  <2>3. Fit(job, t) /\ job.api = "send"
    <3>1. job.api = "send"
      BY <1>3, <2>1 DEF Fit
    <3>2. Fit(job, Place("dot", None, s.did, FALSE))
      BY <1>3, <2>1, FitOthers
    <3> HIDE DEF None
    <3>3. QED BY <3>1, <3>2, <1>3
  <2>4. Talking(t, q)
    <3>1. Mailing(q)
      BY <1>3, <2>1, TalkingAt
    <3>2. QED BY <3>1, <2>2 DEF Talking
  <2>5. MailData(t, q)
    BY <2>1, <2>2, <2>3, <1>3, <1>5 DEF MailData
  <2>6. Path(job, script', t, u) /\ result = None
    BY <1>1, <1>2, <1>5 DEF Onward, Doing
  <2>7. QED BY <1>1, <1>5, <2>1, <2>2, <2>3, <2>4, <2>5, <2>6, StaysGoing
<1>6. CASE left > 0 /\ SourceFails /\ UNCHANGED <<left, toserver>>
  BY <1>1, <1>6, FaultGoes DEF SourceFails
<1>7. QED BY <1>4, <1>5, <1>6 DEF source

\* Steps that change no more of the conversation than the data connection.
LEMMA DataGoing ==
    ASSUME TypeInv, Sound, NEW t \in Places, NEW u, NEW q \in Seq(Answers), Path(job, script', t, u),
           Fit(job, t), Talking(t, q), Wire(q),
           job.api \in {"get", "put"} => FileData(t, q)',
           job.api = "send" => MailData(t, q),
           t.made => "data" \in open', result' = None,
           open' \subseteq {"control", "data", "server", "lost"}, left' \in Nat, data' \in Data,
           got' \in Seq({"block", "reply"}),
           job.api = "send" => left' = left,
           UNCHANGED <<job, code, begun, asked, toserver, replies, server, faults>>
    PROVE  Inv'
<1>1. Wire(q)'
  BY WireSame DEF Gone
<1>2. Talking(t, q)'
  BY TalkingSame
<1>4. job.api = "send" => MailData(t, q)'
  BY MailSame
<1>5. Going(t, q)'
  BY <1>1, <1>2, <1>4, Arrives
<1>6. TypeInv'
  BY DEF TypeInv
<1>7. Sound'
  BY SoundSame
<1>8. QED BY <1>5, <1>6, <1>7, InvGoes

\* The two ways to the data connection, and what is left of the place.
LEMMA ConnectSteps ==
    ASSUME NEW j, NEW s, NEW o, NEW t, Step(j, s, o, t)
    PROVE  /\ o.op = "connect" => s.at = "talk" /\ s.did = 0 /\ t.at = "talk" /\ t.did = 0
           /\ o.op = "accept" => s.at = "flow" /\ ~Passive(j) /\ t.at = "flow" /\ t.of = s.of
<1> DEFINE p == o.op
<1>1. p \in {"connect", "accept"} => OtherStep(j, s, o, t) /\ o # LastReply /\ o # Pass /\ o # Fetch(j)
  BY Ifs DEF Step
<1>2. CASE p = "connect"
  BY <1>1, <1>2 DEF OtherStep, Talk, Place
<1>3. CASE p = "accept"
  BY <1>1, <1>3 DEF OtherStep, Place
<1>4. QED BY <1>2, <1>3

\* They lead to places a call may be at.
LEMMA ConnectFits ==
    ASSUME NEW j, NEW s \in Places, NEW o, NEW t, Step(j, s, o, t), Fit(j, s), o.op \in {"connect", "accept"}
    PROVE  Fit(j, t)
<1> DEFINE p == o.op
<1>1. OtherStep(j, s, o, t) /\ o # LastReply /\ o # Pass /\ o # Fetch(j)
  BY Ifs DEF Step
<1>2. CASE p = "connect"
  <2>1. t = Talk(0, TRUE)
    BY <1>1, <1>2 DEF OtherStep
  <2>2. QED BY <2>1, FitTalk
<1>3. CASE p = "accept"
  <2>1. s.at = "flow" /\ t = Place("flow", s.of, s.did, TRUE)
    BY <1>1, <1>3 DEF OtherStep
  <2>2. QED BY <2>1, FitOthers
<1>4. QED BY <1>2, <1>3

\* pasvconnect and portconnect.
LEMMA ConnectsData ==
    ASSUME TypeInv, Sound, NEW s \in Places, NEW q \in Seq(Answers), Going(s, q), DataConnection
    PROVE  Inv'
<1>1. /\ Doing("connect") \/ Doing("accept")
      /\ UNCHANGED <<job, code, begun, left, got, asked, toserver, replies, server>>
  BY DEF DataConnection
<1> DEFINE o == Head(script)
<1>2. result = None /\ script # <<>> /\ o.op \in {"connect", "accept"}
  BY <1>1 DEF Doing
<1>3. PICK t \in Places, u \in Places : Step(job, s, o, t) /\ Path(job, Tail(script), t, u)
  BY <1>2, Starts
<1>4. /\ o.op = "connect" => s.at = "talk" /\ s.did = 0 /\ t.at = "talk" /\ t.did = 0
      /\ o.op = "accept" => s.at = "flow" /\ ~Passive(job) /\ t.at = "flow" /\ t.of = s.of
  <2> HIDE DEF o
  <2>1. QED BY <1>3, ConnectSteps
<1>5. /\ Fit(job, s) /\ Talking(s, q) /\ Wire(q)
      /\ job.api \in {"get", "put"} => FileData(s, q)
      /\ job.api = "send" => MailData(s, q)
  BY GoingParts
<1>6. CASE Fails(Doing("accept") /\ ~data.made /\ ServerWaits)
  <2> DEFINE b == Doing("accept") /\ ~data.made /\ ServerWaits
  <2>1. ~b
    <3>1. SUFFICES ASSUME o.op = "accept", ~data.made PROVE FALSE
      BY DEF Doing
    <3>2. s.at = "flow" /\ ~Passive(job)
      BY <1>4, <3>1
    <3>3. FileData(s, q)
      BY <1>5, <3>2 DEF Fit, Moves
    <3>4. FlowData(s.of, q)
      BY <3>2, <3>3 DEF FileData
    <3>5. QED BY <3>1, <3>2, <3>4 DEF FlowData
  <2>2. /\ code' \in Nat /\ begun' \in Nat /\ left' \in Nat /\ got' \in Seq({"block", "reply"})
        /\ asked' \in Nat /\ replies' \in Seq(Line)
    BY <1>1 DEF TypeInv
  <2>3. Fails(b)
    BY <1>6
  <2> HIDE DEF b
  <2>4. QED BY <1>1, <2>1, <2>2, <2>3, InvFails
<1>7. CASE /\ open' = open \cup {"data"} /\ data' = [data EXCEPT !.made = TRUE] /\ Onward
           /\ UNCHANGED <<result, faults>>
  <2>1. /\ data' \in Data /\ data'.made /\ data'.flow = data.flow /\ data'.ended = data.ended
        /\ data'.cut = data.cut
    BY <1>7, Types DEF Data
  <2>2. Path(job, script', t, u) /\ result' = None
    BY <1>2, <1>3, <1>7 DEF Onward
  <2>3. left' \in Nat /\ got' \in Seq({"block", "reply"}) /\ open' \subseteq {"control", "data", "server", "lost"}
    BY <1>1, <1>7 DEF TypeInv
  <2>4. /\ Fit(job, t) /\ Talking(t, q)
        /\ job.api \in {"get", "put"} => FileData(t, q)'
        /\ job.api = "send" => MailData(t, q)
    <3>1. CASE o.op = "connect"
      <4>1. t.at = "talk" /\ t.did = 0
        BY <1>4, <3>1
      <4>2. Fit(job, t)
        BY <1>3, <1>5, <3>1, ConnectFits
      <4>3. Talking(t, q)
        <5>1. Quiet(q)
          BY <1>4, <1>5, <3>1, TalkingAt
        <5>2. QED BY <4>1, <5>1 DEF Talking
      <4>4. job.api \in {"get", "put"} => FileData(t, q)'
        <5>1. job.api \in {"get", "put"} => Untouched
          BY <1>4, <1>5, <3>1 DEF FileData
        <5>2. Untouched => Untouched'
          BY <1>1, <1>7, <2>1 DEF Untouched, Gone
        <5>3. QED BY <4>1, <5>1, <5>2 DEF FileData
      <4>5. job.api = "send" => MailData(t, q)
        BY <1>4, <1>5, <3>1, <4>1 DEF MailData
      <4>6. QED BY <4>2, <4>3, <4>4, <4>5
    <3>2. CASE o.op = "accept"
      <4>1. t.at = "flow" /\ t.of = s.of
        BY <1>4, <3>2
      <4>2. Fit(job, t)
        BY <1>3, <1>5, <3>2, ConnectFits
      <4>3. Talking(t, q)
        <5>1. code = 150 /\ Owed(s.of, q)
          BY <1>4, <1>5, <3>2, TalkingAt
        <5>2. QED BY <4>1, <5>1 DEF Talking
      <4>4. job.api \in {"get", "put"} => FileData(t, q)'
        <5>1. job.api \in {"get", "put"} => FlowData(s.of, q)
          BY <1>4, <1>5, <3>2 DEF FileData
        <5>2. FlowData(s.of, q) => FlowData(s.of, q)'
          BY <1>1, <1>7, <2>1 DEF FlowData, Gone
        <5>3. QED BY <4>1, <5>1, <5>2 DEF FileData
      <4>5. job.api # "send"
        BY <1>4, <1>5, <3>2 DEF Fit, Moves
      <4>6. QED BY <4>2, <4>3, <4>4, <4>5
    <3>3. QED BY <1>2, <3>1, <3>2
  <2> HIDE DEF o
  <2>5. QED BY <1>1, <1>5, <1>7, <2>1, <2>2, <2>3, <2>4, DataGoing
<1>8. QED BY <1>6, <1>7 DEF DataConnection

\* port and eprt, pasv and epsv.
LEMMA ListenGoes ==
    ASSUME TypeInv, Sound, NEW s \in Places, NEW q \in Seq(Answers), Going(s, q), listen
    PROVE  Inv'
<1>1. /\ Doing("listen") \/ Doing("passive")
      /\ UNCHANGED <<job, code, begun, left, got, asked, toserver, replies, server>>
  BY DEF listen
<1>2. CASE Fails(FALSE)
  BY <1>1, <1>2, FaultGoes
<1>3. CASE /\ Onward /\ open' \in {open \cup {"server"}, open \cup {"server", "lost"}, open \ {"server"}}
           /\ UNCHANGED <<result, faults, data>>
  <2> DEFINE o == Head(script)
  <2>1. result = None /\ script # <<>> /\ o.op \in {"listen", "passive"}
    BY <1>1 DEF Doing
  <2>2. PICK t \in Places, u \in Places : Step(job, s, o, t) /\ Path(job, Tail(script), t, u)
    BY <2>1, Starts
  <2>3. t = s
    BY <2>1, <2>2, OtherSteps
  <2>4. /\ Fit(job, s) /\ Talking(s, q) /\ Wire(q) /\ (s.made => "data" \in open')
        /\ job.api \in {"get", "put"} => FileData(s, q)
        /\ job.api = "send" => MailData(s, q)
    BY <1>3, GoingParts
  <2>5. job.api \in {"get", "put"} => FileData(s, q)'
    BY <1>1, <1>3, <2>4, FileSame
  <2>6. Path(job, script', s, u) /\ result' = None
    BY <1>3, <2>1, <2>2, <2>3 DEF Onward
  <2>7. /\ left' \in Nat /\ got' \in Seq({"block", "reply"}) /\ open' \subseteq {"control", "data", "server", "lost"}
        /\ data' \in Data
    BY <1>1, <1>3 DEF TypeInv
  <2> HIDE DEF o
  <2>8. QED BY <1>1, <1>3, <2>4, <2>5, <2>6, <2>7, DataGoing
<1>4. QED BY <1>2, <1>3 DEF listen

\* What the pumps of the data connection find.
LEMMA Moving ==
    ASSUME TypeInv, NEW s \in Places, NEW q \in Seq(Answers), Going(s, q), s.at = "flow"
    PROVE  /\ Fit(job, s) /\ Talking(s, q) /\ Wire(q) /\ code = 150 /\ Owed(s.of, q)
           /\ FlowData(s.of, q) /\ Moves(job, s) /\ job.api # "send"
           /\ (s.made => "data" \in open) /\ \E u : Path(job, script, s, u)
<1>1. /\ Fit(job, s) /\ Talking(s, q) /\ Wire(q) /\ (s.made => "data" \in open)
      /\ job.api \in {"get", "put"} => FileData(s, q)
      /\ \E u : Path(job, script, s, u)
  BY GoingParts
<1>2. Moves(job, s)
  BY <1>1 DEF Fit
<1>3. job.api \in {"get", "put"}
  BY <1>2 DEF Moves
<1>4. FlowData(s.of, q)
  BY <1>1, <1>3 DEF FileData
<1>5. code = 150 /\ Owed(s.of, q)
  BY <1>1, TalkingAt
<1>6. QED BY <1>1, <1>2, <1>3, <1>4, <1>5

\* Nothing more is said, or the last reply to the transfer.
LEMMA OwedParts ==
    ASSUME NEW c, NEW q, Owed(c, q)
    PROVE  /\ q = <<>> \/ q = <<Ans(asked, 226)>> \/ faults > 0
           /\ q = <<>> => Gone \/ (server.mode = c /\ toserver = <<>>)
BY DEF Owed, Served

\* Where the end of the pump leads.
LEMMA MovedFits ==
    ASSUME NEW j, NEW s \in Places, Fit(j, s), s.at = "flow", NEW t, t = Place("moved", s.of, s.did, FALSE)
    PROVE  Fit(j, t) /\ t.at = "moved" /\ t.of = s.of /\ ~t.made /\ s.of # "greet"
<1>1. Fit(j, t)
  BY FitOthers
<1>2. t.at = "moved" /\ t.of = s.of /\ ~t.made
  BY DEF Place
<1>3. s.of # "greet"
  BY DEF Fit, Moves
<1>4. QED BY <1>1, <1>2, <1>3

\* A block is sent.
LEMMA UploadBlock ==
    ASSUME TypeInv, Sound, NEW s \in Places, NEW q \in Seq(Answers), Going(s, q), s.at = "flow", s.of = "stor",
           left > 0, ~data.cut, left' = left - 1, data' = [data EXCEPT !.flow = @ + 1], result = None,
           UNCHANGED <<job, script, code, begun, open, got, result, asked, toserver, replies, server, faults>>
    PROVE  Inv'
<1>1. /\ Fit(job, s) /\ Talking(s, q) /\ Wire(q) /\ Owed("stor", q) /\ FlowData("stor", q)
      /\ job.api # "send" /\ (s.made => "data" \in open) /\ \E u : Path(job, script, s, u)
  BY Moving
<1>2. /\ data' \in Data /\ data'.flow = data.flow + 1 /\ data'.made = data.made
      /\ data'.ended = data.ended /\ data'.cut = data.cut
  <2> DEFINE f == data.flow + 1
  <2>1. data' = [data EXCEPT !.flow = f] /\ data \in Data /\ f \in Nat
    <3>1. data \in Data /\ data.flow \in Nat
      BY ONLY TypeInv, Types
    <3>2. f \in Nat
      BY ONLY <3>1
    <3>3. data' = [data EXCEPT !.flow = f]
      BY ONLY data' = [data EXCEPT !.flow = @ + 1]
    <3>4. QED BY ONLY <3>1, <3>2, <3>3
  <2> HIDE DEF f
  <2>2. /\ data' \in Data /\ data'.flow = f /\ data'.made = data.made
        /\ data'.ended = data.ended /\ data'.cut = data.cut
    BY <2>1 DEF Data
  <2>3. QED BY <2>2 DEF f
<1>3. left \in Nat /\ left' \in Nat /\ data.flow \in Nat /\ server.stored \in Nat
  BY ONLY TypeInv, Types, left > 0, left' = left - 1
<1>4. Gone' <=> Gone
  BY DEF Gone
<1>5. FlowData("stor", q)'
  <2>1. q = <<>> => Gone \/ (~data.cut /\ server.stored + data.flow + left = Blocks /\ ~data.ended)
    BY <1>1, <1>3 DEF FlowData
  <2>2. q # <<Ans(asked, 226)>>
    BY <1>1, <1>3 DEF FlowData
  <2> DEFINE a == server.stored
             f == data.flow
  <2>3. q = <<>> => Gone \/ a + f + left = Blocks
    BY <2>1
  <2>4. a \in Nat /\ f \in Nat
    BY <1>3
  <2>5. server'.stored = a /\ data'.flow = f + 1
    BY <1>2
  <2> HIDE DEF a, f
  <2>6. q = <<>> => Gone \/ a + (f + 1) + left' = Blocks
    BY <2>3, <2>4, <1>3
  <2>7. q = <<>> => Gone' \/ server'.stored + data'.flow + left' = Blocks
    BY <2>5, <2>6, <1>4
  <2>8. Passive(job) \/ data'.made
    BY <1>1, <1>2 DEF FlowData
  <2>9. QED BY <2>1, <2>2, <2>7, <2>8, <1>2, <1>4 DEF FlowData
<1>6. FileData(s, q)'
  BY <1>5 DEF FileData
<1>7. got' \in Seq({"block", "reply"}) /\ open' \subseteq {"control", "data", "server", "lost"}
  BY DEF TypeInv
<1>8. PICK u : Path(job, script', s, u)
  BY <1>1
<1>9. QED BY <1>1, <1>2, <1>3, <1>6, <1>7, <1>8, DataGoing

\* The source has ended, and the data connection with it.
LEMMA UploadEnds ==
    ASSUME TypeInv, Sound, NEW s \in Places, NEW q \in Seq(Answers), Going(s, q), s.at = "flow", s.of = "stor",
           s.made, left = 0, NEW t \in Places, NEW u, t = Place("moved", "stor", s.did, FALSE),
           Path(job, script', t, u), open' = open \ {"data"}, EndData, result = None,
           UNCHANGED <<job, code, begun, left, got, result, asked, toserver, replies, server, faults>>
    PROVE  Inv'
<1>1. /\ Fit(job, s) /\ Talking(s, q) /\ Wire(q) /\ Owed("stor", q) /\ FlowData("stor", q) /\ code = 150
      /\ job.api # "send" /\ "data" \in open
  BY Moving
<1>2. /\ data' \in Data /\ data'.flow = data.flow /\ data'.made = data.made
      /\ data'.ended /\ data'.cut = data.cut
  BY <1>1, Types DEF Data, EndData
<1>3. Fit(job, t) /\ t.at = "moved" /\ t.of = "stor" /\ ~t.made
  <2>1. Fit(job, s)
    BY <1>1
  <2>2. t = Place("moved", s.of, s.did, FALSE)
    OBVIOUS
  <2>3. QED BY ONLY <2>1, <2>2, MovedFits, s \in Places, s.at = "flow", s.of = "stor"
<1>4. Talking(t, q)
  <2>1. t.of # "greet" /\ Owed(t.of, q) /\ code = 150
    BY <1>1, <1>3
  <2>2. QED BY ONLY <2>1, <1>3 DEF Talking
<1>5. Gone' <=> Gone
  BY DEF Gone
<1>6. MovedData("stor", q)'
  <2>1. FlowData("stor", q)'
    BY <1>1, <1>2, <1>5 DEF FlowData
  <2>2. QED BY <2>1, <1>2, <1>5 DEF MovedData
<1>7. FileData(t, q)'
  BY <1>3, <1>6 DEF FileData
<1>8. /\ got' \in Seq({"block", "reply"}) /\ open' \subseteq {"control", "data", "server", "lost"} /\ left' \in Nat
  BY DEF TypeInv
<1>9. QED BY <1>1, <1>2, <1>3, <1>4, <1>7, <1>8, DataGoing

\* The pump of send.
LEMMA UploadGoes ==
    ASSUME TypeInv, Sound, NEW s \in Places, NEW q \in Seq(Answers), Going(s, q), upload
    PROVE  Inv'
<1>1. Doing("upload") /\ UNCHANGED <<job, code, begun, got, asked, toserver, replies, server>>
  BY DEF upload
<1> DEFINE o == Head(script)
<1>2. result = None /\ script # <<>> /\ o.op = "upload"
  BY <1>1 DEF Doing
<1>3. PICK t \in Places, u \in Places : Step(job, s, o, t) /\ Path(job, Tail(script), t, u)
  BY <1>2, Starts
<1>4. s.at = "flow" /\ s.of = "stor" /\ s.made /\ t = Place("moved", "stor", s.did, FALSE)
  <2> HIDE DEF o
  <2>1. QED BY <1>2, <1>3, OtherSteps
<1>5. CASE /\ left > 0 /\ ~data.cut
           /\ left' = left - 1 /\ data' = [data EXCEPT !.flow = @ + 1]
           /\ UNCHANGED <<script, open, result, faults>>
  BY <1>1, <1>2, <1>4, <1>5, UploadBlock
<1>6. CASE left = 0 /\ SourceEnds /\ UNCHANGED <<left, result, faults>>
  <2>1. open' = open \ {"data"} /\ EndData /\ script' = Tail(script)
    BY <1>6 DEF SourceEnds, Onward
  <2>2. Path(job, script', t, u)
    BY <2>1, <1>3
  <2> HIDE DEF o
  <2>3. QED BY <1>1, <1>2, <1>4, <1>6, <2>1, <2>2, UploadEnds
<1>7. CASE left > 0 /\ Fails(data.cut) /\ UNCHANGED left
  <2> DEFINE b == data.cut
  <2>1. b => faults > 0
    <3>1. Owed("stor", q) /\ FlowData("stor", q)
      BY <1>4, Moving
    <3>2. CASE q = <<>>
      BY <3>1, <3>2 DEF FlowData, Gone
    <3>3. CASE q = <<Ans(asked, 226)>>
      BY <3>1, <3>3, <1>7, Types DEF FlowData
    <3>4. QED BY <3>1, <3>2, <3>3, OwedParts
  <2>2. /\ code' \in Nat /\ begun' \in Nat /\ left' \in Nat /\ got' \in Seq({"block", "reply"})
        /\ asked' \in Nat /\ replies' \in Seq(Line)
    BY <1>1, <1>7 DEF TypeInv
  <2>3. Fails(b)
    BY <1>7
  <2> HIDE DEF b, o
  <2>4. QED BY <1>1, <2>1, <2>2, <2>3, InvFails
<1>8. QED BY <1>1, <1>5, <1>6, <1>7 DEF upload

\* A block is received.
LEMMA DownloadBlock ==
    ASSUME TypeInv, Sound, NEW s \in Places, NEW q \in Seq(Answers), Going(s, q), s.at = "flow", s.of = "retr",
           data.flow > 0, got' = Append(got, "block"), data' = [data EXCEPT !.flow = @ - 1], result = None,
           UNCHANGED <<job, script, code, begun, open, left, result, asked, toserver, replies, server, faults>>
    PROVE  Inv'
<1>1. /\ Fit(job, s) /\ Talking(s, q) /\ Wire(q) /\ Owed("retr", q) /\ FlowData("retr", q)
      /\ job.api # "send" /\ (s.made => "data" \in open) /\ \E u : Path(job, script, s, u)
  BY Moving
<1>2. /\ data' \in Data /\ data'.flow = data.flow - 1 /\ data'.made = data.made
      /\ data'.ended = data.ended /\ data'.cut = data.cut
  <2> DEFINE f == data.flow - 1
  <2>1. data' = [data EXCEPT !.flow = f] /\ data \in Data /\ f \in Nat
    <3>1. data \in Data /\ data.flow \in Nat
      BY ONLY TypeInv, Types
    <3>2. f \in Nat
      BY ONLY <3>1, data.flow > 0
    <3>3. data' = [data EXCEPT !.flow = f]
      BY ONLY data' = [data EXCEPT !.flow = @ - 1]
    <3>4. QED BY ONLY <3>1, <3>2, <3>3
  <2> HIDE DEF f
  <2>2. /\ data' \in Data /\ data'.flow = f /\ data'.made = data.made
        /\ data'.ended = data.ended /\ data'.cut = data.cut
    BY <2>1 DEF Data
  <2>3. QED BY <2>2 DEF f
<1>3. data.flow \in Nat /\ server.stored \in Nat
  BY Types
<1>4. Gone' <=> Gone
  BY DEF Gone
<1>5. /\ got \in Seq({"block"}) /\ Len(got) \in Nat
      /\ got' \in Seq({"block"}) /\ Len(got') = Len(got) + 1
  BY <1>1 DEF FlowData
<1>6. FlowData("retr", q)'
  <2> DEFINE n == Len(got)
             f == data.flow
             n2 == Len(got')
             f2 == data'.flow
  <2>1. n \in Nat /\ f \in Nat /\ n2 = n + 1 /\ f2 = f - 1
    BY <1>2, <1>3, <1>5
  <2>2. /\ q = <<>> => Gone \/ (~data.ended /\ ~data.cut /\ n + f = server.stored /\ server.stored <= Blocks)
        /\ q = <<Ans(asked, 226)>> => Gone \/ (data.ended /\ n + f = Blocks)
    BY <1>1 DEF FlowData
  <2> HIDE DEF n, f, n2, f2
  <2>3. n2 + f2 = n + f
    BY <2>1
  <2>4. /\ q = <<>> => Gone \/ (~data.ended /\ ~data.cut /\ n2 + f2 = server.stored /\ server.stored <= Blocks)
        /\ q = <<Ans(asked, 226)>> => Gone \/ (data.ended /\ n2 + f2 = Blocks)
    BY <2>2, <2>3
  <2>5. Passive(job) \/ data'.made
    BY <1>1, <1>2 DEF FlowData
  <2>6. QED BY <2>4, <2>5, <1>2, <1>4, <1>5 DEF FlowData, n2, f2
<1>7. FileData(s, q)'
  BY <1>6 DEF FileData
<1>8. /\ got' \in Seq({"block", "reply"}) /\ open' \subseteq {"control", "data", "server", "lost"} /\ left' \in Nat
  BY DEF TypeInv
<1>9. PICK u : Path(job, script', s, u)
  BY <1>1
<1>10. QED BY <1>1, <1>2, <1>7, <1>8, <1>9, DataGoing

\* The data connection has ended.
LEMMA DownloadEnds ==
    ASSUME TypeInv, Sound, NEW s \in Places, NEW q \in Seq(Answers), Going(s, q), s.at = "flow", s.of = "retr",
           data.flow = 0, data.ended, NEW t \in Places, NEW u, t = Place("moved", "retr", s.did, FALSE),
           Path(job, script', t, u), open' = open \ {"data"}, result = None,
           UNCHANGED <<job, code, begun, left, got, result, asked, toserver, replies, data, server, faults>>
    PROVE  Inv'
<1>1. /\ Fit(job, s) /\ Talking(s, q) /\ Wire(q) /\ Owed("retr", q) /\ FlowData("retr", q) /\ code = 150
      /\ job.api # "send"
  BY Moving
<1>2. Fit(job, t) /\ t.at = "moved" /\ t.of = "retr" /\ ~t.made
  <2>1. Fit(job, s)
    BY <1>1
  <2>2. t = Place("moved", s.of, s.did, FALSE)
    OBVIOUS
  <2>3. QED BY ONLY <2>1, <2>2, MovedFits, s \in Places, s.at = "flow", s.of = "retr"
<1>3. Talking(t, q)
  <2>1. t.of # "greet" /\ Owed(t.of, q)
    BY <1>1, <1>2
  <2>2. QED BY ONLY <2>1, <1>1, <1>2 DEF Talking
<1>4. Gone' <=> Gone
  BY DEF Gone
<1>5. MovedData("retr", q)'
  <2>1. FlowData("retr", q)'
    BY <1>1, <1>4 DEF FlowData
  <2>2. q = <<>> => Gone
    BY <1>1 DEF FlowData
  <2>3. q = <<Ans(asked, 226)>> => Gone \/ Len(got) = Blocks
    <3>1. got \in Seq({"block"})
      BY <1>1 DEF FlowData
    <3> DEFINE n == Len(got)
    <3>2. n \in Nat
      BY <3>1
    <3>3. q = <<Ans(asked, 226)>> => Gone \/ n + 0 = Blocks
      BY <1>1 DEF FlowData
    <3> HIDE DEF n
    <3>4. q = <<Ans(asked, 226)>> => Gone \/ n = Blocks
      BY <3>2, <3>3
    <3>5. QED BY <3>4 DEF n
  <2>4. QED BY <2>1, <2>2, <2>3, <1>4 DEF MovedData
<1>6. FileData(t, q)'
  BY <1>2, <1>5 DEF FileData
<1>7. /\ got' \in Seq({"block", "reply"}) /\ open' \subseteq {"control", "data", "server", "lost"} /\ left' \in Nat
      /\ data' \in Data
  BY DEF TypeInv
<1>8. QED BY <1>1, <1>2, <1>3, <1>6, <1>7, DataGoing

\* The pump of receive.
LEMMA DownloadGoes ==
    ASSUME TypeInv, Sound, NEW s \in Places, NEW q \in Seq(Answers), Going(s, q), download
    PROVE  Inv'
<1>1. Doing("download") /\ UNCHANGED <<job, code, begun, left, asked, toserver, replies, server>>
  BY DEF download
<1> DEFINE o == Head(script)
<1>2. result = None /\ script # <<>> /\ o.op = "download"
  BY <1>1 DEF Doing
<1>3. PICK t \in Places, u \in Places : Step(job, s, o, t) /\ Path(job, Tail(script), t, u)
  BY <1>2, Starts
<1>4. s.at = "flow" /\ s.of = "retr" /\ t = Place("moved", "retr", s.did, FALSE)
  <2> HIDE DEF o
  <2>1. QED BY <1>2, <1>3, OtherSteps
<1>5. CASE /\ data.flow > 0
           /\ data' = [data EXCEPT !.flow = @ - 1] /\ got' = Append(got, "block")
           /\ UNCHANGED <<script, open, result, faults>>
  BY <1>1, <1>2, <1>4, <1>5, DownloadBlock
<1>6. CASE /\ data.flow = 0 /\ data.ended
           /\ Onward /\ open' = open \ {"data"}
           /\ UNCHANGED <<got, data, result, faults>>
  <2>1. Path(job, script', t, u)
    BY <1>3, <1>6 DEF Onward
  <2> HIDE DEF o
  <2>2. QED BY <1>1, <1>2, <1>4, <1>6, <2>1, DownloadEnds
<1>7. CASE Fails(data.flow = 0 /\ ~data.ended /\ ServerWaits) /\ UNCHANGED got
  <2> DEFINE b == data.flow = 0 /\ ~data.ended /\ ServerWaits
  <2>1. b => faults > 0
    <3>1. Owed("retr", q) /\ FlowData("retr", q)
      BY <1>4, Moving
    <3>2. SUFFICES ASSUME b PROVE faults > 0
      OBVIOUS
    <3>3. CASE q = <<>>
      BY <3>1, <3>2, <3>3, OwedParts DEF ServerWaits, Gone
    <3>4. CASE q = <<Ans(asked, 226)>>
      BY <3>1, <3>2, <3>4 DEF FlowData, Gone
    <3>5. QED BY <3>1, <3>3, <3>4, OwedParts
  <2>2. /\ code' \in Nat /\ begun' \in Nat /\ left' \in Nat /\ got' \in Seq({"block", "reply"})
        /\ asked' \in Nat /\ replies' \in Seq(Line)
    BY <1>1, <1>7 DEF TypeInv
  <2>3. Fails(b)
    BY <1>7
  <2> HIDE DEF b, o
  <2>4. QED BY <1>1, <2>1, <2>2, <2>3, InvFails
<1>8. QED BY <1>1, <1>5, <1>6, <1>7 DEF download

\* The reply that is all there is.
LEMMA ReplyGoes ==
    ASSUME TypeInv, Sound, NEW s \in Places, NEW q \in Seq(Answers), Going(s, q), sink_reply
    PROVE  Inv'
<1>1. /\ Doing("sink_reply") /\ script' = Tail(script) /\ got' = Append(got, "reply")
      /\ UNCHANGED <<job, code, begun, open, left, result, asked, toserver, replies, data, server, faults>>
  BY DEF sink_reply, Onward
<1> DEFINE o == Head(script)
<1>2. result = None /\ script # <<>> /\ o.op = "sink_reply"
  BY <1>1 DEF Doing
<1>3. PICK t \in Places, u \in Places : Step(job, s, o, t) /\ Path(job, Tail(script), t, u)
  BY <1>2, Starts
<1>4. s.at = "sink" /\ t = Finished(s)
  <2> HIDE DEF o
  <2>1. QED BY <1>2, <1>3, OtherSteps
<1>5. /\ Fit(job, s) /\ Talking(s, q) /\ Wire(q)
      /\ job.api \in {"get", "put"} => FileData(s, q)
  BY GoingParts
<1>6. s.of = "retr" /\ job.api = "get" /\ job.direct
  BY <1>4, <1>5 DEF Fit, Moves
<1>7. Fit(job, t)
  BY <1>4, FitFinished
<1>8. t.at = "talk" /\ t.did = 1 /\ ~t.made
  BY <1>4, <1>6 DEF Finished, Talk, Place
<1>9. Talking(t, q)
  <2>1. Quiet(q)
    BY <1>4, <1>5, TalkingAt
  <2>2. QED BY <1>8, <2>1 DEF Talking
<1>10. FileData(t, q)'
  <2>1. Untouched
    BY <1>4, <1>5, <1>6 DEF FileData
  <2>2. got' = <<"reply">>
    <3>1. got = <<>>
      BY <2>1 DEF Untouched
    <3>2. got' = Append(<<>>, "reply")
      BY <1>1, <3>1
    <3>3. QED BY <3>2
  <2>3. Kept'
    BY <1>1, <1>6, <2>2 DEF Kept, Delivery
  <2>4. QED BY <1>8, <2>3 DEF FileData
<1>11. Path(job, script', t, u) /\ result' = None
  BY <1>1, <1>2, <1>3
<1>12. /\ got' \in Seq({"block", "reply"}) /\ open' \subseteq {"control", "data", "server", "lost"} /\ left' \in Nat
       /\ data' \in Data
  <2> DEFINE S == {"block", "reply"}
  <2>1. got \in Seq(S) /\ "reply" \in S
    BY DEF TypeInv
  <2> HIDE DEF S
  <2>2. Append(got, "reply") \in Seq(S)
    BY <2>1
  <2>3. got' \in Seq(S)
    BY <1>1, <2>2
  <2>4. QED BY <1>1, <2>3 DEF TypeInv, S
<1> HIDE DEF o
<1>13. QED BY <1>1, <1>5, <1>6, <1>7, <1>8, <1>9, <1>10, <1>11, <1>12, DataGoing

\* The data connection is closed.
LEMMA CloseDataGoes ==
    ASSUME TypeInv, Sound, NEW s \in Places, NEW q \in Seq(Answers), Going(s, q), close_data
    PROVE  Inv'
<1>1. /\ Doing("close_data") /\ script' = Tail(script) /\ open' = open \ {"data"} /\ EndData
      /\ UNCHANGED <<job, code, begun, left, got, result, asked, toserver, replies, server, faults>>
  BY DEF close_data, Onward
<1> DEFINE o == Head(script)
<1>2. result = None /\ script # <<>> /\ o.op = "close_data"
  BY <1>1 DEF Doing
<1>3. PICK t \in Places, u \in Places : Step(job, s, o, t) /\ Path(job, Tail(script), t, u)
  BY <1>2, Starts
<1>4. s.at = "talk" /\ s.did = 1 /\ ~s.made /\ t = s
  <2> HIDE DEF o
  <2>1. QED BY <1>2, <1>3, OtherSteps
<1>5. /\ Fit(job, s) /\ Talking(s, q) /\ Wire(q)
      /\ job.api \in {"get", "put"} => FileData(s, q)
      /\ job.api = "send" => MailData(s, q)
  BY GoingParts
<1>6. job.api \in {"get", "put"} => FileData(s, q)'
  <2>1. job.api \in {"get", "put"} => Gone \/ Kept
    BY <1>4, <1>5 DEF FileData
  <2>2. (Gone \/ Kept) => (Gone \/ Kept)'
    BY <1>1 DEF Gone, Kept, Delivery
  <2>3. QED BY <1>4, <2>1, <2>2 DEF FileData
<1>7. Path(job, script', s, u) /\ result' = None
  BY <1>1, <1>2, <1>3, <1>4
<1>8. data' \in Data
  BY <1>1, Types DEF Data, EndData
<1>9. /\ got' \in Seq({"block", "reply"}) /\ open' \subseteq {"control", "data", "server", "lost"} /\ left' \in Nat
  BY <1>1 DEF TypeInv
<1> HIDE DEF o
<1>10. QED BY <1>1, <1>4, <1>5, <1>6, <1>7, <1>8, <1>9, DataGoing

\* The last call: it succeeds when all is done, or fails for want of an authentication.
LEMMA FinishGoes ==
    ASSUME TypeInv, Sound, NEW s \in Places, NEW q \in Seq(Answers), Going(s, q), finish
    PROVE  Inv'
<1>1. /\ Doing("close") \/ Doing("fail")
      /\ script' = <<>> /\ open' = open \cap {"lost"} /\ EndData
      /\ UNCHANGED <<job, code, begun, left, got, asked, toserver, replies, server, faults>>
      /\ (Doing("close") /\ result' = "done") \/ (Doing("fail") /\ result' = "error")
  BY DEF finish, Raise, close
<1> DEFINE o == Head(script)
<1>2. result = None /\ script # <<>>
  BY <1>1 DEF Doing
<1>3. PICK t \in Places, u \in Places : Step(job, s, o, t) /\ Path(job, Tail(script), t, u)
  BY <1>2, Starts
<1>4. /\ Doing("close") => s.at \in {"bye", "loose"}
      /\ Doing("fail") => job.api = "send" /\ job.user /\ job.ext = None
  <2>1. (Doing("close") => o.op = "close") /\ (Doing("fail") => o.op = "fail")
    BY DEF Doing
  <2> HIDE DEF o
  <2>2. QED BY <2>1, <1>3, OtherSteps
<1>5. TypeInv'
  <2>1. data' \in Data
    BY <1>1, Types DEF Data, EndData
  <2>2. QED BY <1>1, <2>1 DEF TypeInv
<1>6. Sound'
  <2>1. CASE Doing("fail") /\ result' = "error"
    BY <2>1, <1>1, <1>4, SoundFails
  <2>2. CASE Doing("close") /\ result' = "done"
    <3>1. /\ Fit(job, s) /\ Talking(s, q)
          /\ job.api \in {"get", "put"} => FileData(s, q)
          /\ job.api = "send" => MailData(s, q)
      BY GoingParts
    <3>2. job.api # "command" => s.at = "bye"
      BY <1>4, <2>2, <3>1 DEF Fit, Loosely
    <3>3. /\ job.api # "command" => server.mode = "away"
          /\ job.api = "send" => server.accepted = <<TheMessage>>
          /\ job.api \in {"get", "put"} => Kept
      BY <3>1, <3>2, TalkingAt DEF FileData, MailData
    <3>4. job.api \in {"send", "get", "put", "command"}
      BY Types, DialogueAssumption
    <3>5. /\ job.api = "send" => MailServer
          /\ job.api # "send" => \A i \in 1..Len(toserver) : toserver[i] # "block"
      BY DEF Sound
    <3>6. (MailServer => MailServer') /\ (Kept <=> Kept') /\ TheMessage' = TheMessage
      BY <1>1 DEF MailServer, TheMessage, Kept, Delivery
    <3>7. NoStall'
      BY <2>2 DEF NoStall
    <3>8. QED BY <1>1, <3>3, <3>4, <3>5, <3>6, <3>7 DEF Sound
  <2>3. QED BY <1>1, <2>1, <2>2
<1>7. result' # None
  BY <1>1 DEF None
<1>8. QED BY <1>5, <1>6, <1>7 DEF Inv

\* A step of the client keeps the invariant.
LEMMA ClientGoes ==
    ASSUME Inv, Client
    PROVE  Inv'
<1>1. result = None
  BY DEF Client, Connect, command, check, branch, source, DataConnection, listen, upload, download,
         sink_reply, close_data, finish, Doing
<1>2. TypeInv /\ Sound
  BY DEF Inv
<1>3. PICK s \in Places, q \in Seq(Answers) : Going(s, q)
  BY <1>1 DEF Inv
<1>4. QED
  BY <1>2, <1>3, ConnectGoes, CommandGoes, CheckGoes, BranchGoes, SourceGoes, ConnectsData, ListenGoes,
     UploadGoes, DownloadGoes, ReplyGoes, CloseDataGoes, FinishGoes DEF Client

\* A call begins with it.
LEMMA InitInv == Init => Inv
<1> SUFFICES ASSUME Init PROVE Inv
  OBVIOUS
<1>1. /\ job \in Jobs /\ script = Script(job) /\ code = 0 /\ begun = 0 /\ open = {}
      /\ left = Blocks /\ got = <<>> /\ result = None /\ asked = 0
      /\ toserver = <<>> /\ replies = <<>> /\ data = NoData /\ faults = 0
      /\ server \in Serving
      /\ server.mode = "away" /\ server.read = 0 /\ server.rcpts = 0 /\ server.inbox = 0
      /\ server.accepted = <<>> /\ server.stored = 0
  BY DEF Init, Serving
<1>2. TypeInv
  <2>1. Blocks \in Nat
    BY DialogueAssumption
  <2>2. data \in Data
    BY <1>1 DEF NoData, Data
  <2>3. toserver \in Seq(Commands \cup {"block"}) /\ replies \in Seq(Line) /\ got \in Seq({"block", "reply"})
    BY <1>1
  <2>4. QED BY <1>1, <2>1, <2>2, <2>3 DEF TypeInv
<1>3. Sound
  <2>1. Len(toserver) = 0
    BY <1>1
  <2>2. MailServer
    BY <1>1 DEF MailServer
  <2>3. QED BY <1>1, <2>1, <2>2 DEF Sound, NoStall, None
<1>4. \E s \in Places, q \in Seq(Answers) : Going(s, q)
  <2> DEFINE q == <<>>
             s == Opening
  <2>1. s \in Places /\ s.at = "start" /\ s.did = 0 /\ ~s.made /\ q \in Seq(Answers)
    <3>1. "start" \in Points
      BY DEF Points
    <3>2. s \in Places
      BY <3>1, Made DEF Opening
    <3>3. s.at = "start" /\ s.did = 0 /\ ~s.made
      BY DEF Opening, Place
    <3>4. q \in Seq(Answers)
      OBVIOUS
    <3>5. QED BY <3>2, <3>3, <3>4
  <2>2. \E u : Path(job, script, s, u)
    BY <1>1, ScriptPath
  <2>3. OnWire(Lines, replies, begun, q, ~Gone)
    <3>1. Lines \in {1, 4}
      BY <1>2, LinesTyped
    <3>2. QED BY <3>1, <1>1, WireBegins
  <2> HIDE DEF s
  <2>4. Fit(job, s)
    BY <2>1 DEF Fit
  <2>5. Talking(s, q)
    BY <1>1, <2>1 DEF Talking
  <2>6. FileData(s, q)
    <3>1. Untouched
      BY <1>1 DEF Untouched, NoData
    <3>2. QED BY <2>1, <3>1 DEF FileData
  <2>7. MailData(s, q)
    BY <1>1, <2>1 DEF MailData
  <2>8. Going(s, q)
    BY <2>1, <2>2, <2>3, <2>4, <2>5, <2>6, <2>7 DEF Going, At
  <2>9. QED BY <2>1, <2>8
<1>5. QED BY <1>2, <1>3, <1>4 DEF Inv

\* Every step keeps it.
LEMMA NextInv == Inv /\ [Next]_vars => Inv'
<1>1. ASSUME Inv, ServerStep PROVE Inv'
  <2>1. TypeInv /\ Sound
    BY <1>1 DEF Inv
  <2>2. TypeInv' /\ Sound'
    BY <1>1, <2>1, ServerTyped, ServerSound
  <2>3. result' = result
    BY <1>1 DEF ServerStep, Server, Greets, Serves, TakesMessage, Transfers, DataCut, ServerGone, client
  <2>4. CASE result = None
    <3>1. PICK s \in Places, q \in Seq(Answers) : Going(s, q)
      BY <1>1, <2>4 DEF Inv
    <3>2. \E p \in Seq(Answers) : Going(s, p)'
      BY <1>1, <2>1, <3>1, ServerGoes
    <3>3. QED BY <2>2, <3>2 DEF Inv
  <2>5. CASE result # None
    BY <2>2, <2>3, <2>5 DEF Inv
  <2>6. QED BY <2>4, <2>5
<1>2. ASSUME Inv, UNCHANGED vars PROVE Inv'
  <2>1. CASE result = None
    <3>1. TypeInv /\ Sound
      BY <1>2 DEF Inv
    <3>2. PICK s \in Places, q \in Seq(Answers) : Going(s, q)
      BY <1>2, <2>1 DEF Inv
    <3>3. /\ \E u : Path(job, script, s, u)
          /\ Wire(q) /\ Fit(job, s) /\ Talking(s, q)
          /\ job.api \in {"get", "put"} => FileData(s, q)
          /\ job.api = "send" => MailData(s, q)
          /\ s.made => "data" \in open
      BY <3>2, GoingParts
    <3>4. PICK u : Path(job, script', s, u)
      BY <1>2, <3>3 DEF vars, client
    <3>5. QED BY <1>2, <2>1, <3>1, <3>3, <3>4, StaysGoing DEF vars, client
  <2>2. CASE result # None
    <3> USE DEF vars, client
    <3>1. TypeInv'
      BY <1>2 DEF Inv, TypeInv
    <3>2. Sound'
      BY <1>2 DEF Inv, Sound, MailServer, TheMessage, NoStall, Kept, Delivery
    <3>3. QED BY <1>2, <2>2, <3>1, <3>2 DEF Inv
  <2>3. QED BY <2>1, <2>2
<1>3. QED BY <1>1, <1>2, ClientGoes DEF Next, ServerStep

\* The reply a check reads is the one to the last command, unless replies are owed to
\* several.
LEMMA HeadAnswers ==
    ASSUME TypeInv, NEW s \in Places, NEW q \in Seq(Answers), Fit(job, s), Talking(s, q), q # <<>>,
           NEW o, NEW t, CheckStep(job, s, o, t), s.at # "loose"
    PROVE  Head(q).to = asked
<1>n. PICK n \in Nat : n = asked
  BY Types
<1>1. \A a \in Said : Ans(n, a) \in Answers /\ Ans(n, a).to = n /\ Head(<<Ans(n, a)>>) = Ans(n, a)
  BY AnsParts, SaidTyped, OneReply
<1>2. \A a \in Said : q = <<Ans(n, a)>> => Head(q).to = n
  <2>1. ASSUME NEW a \in Said, q = <<Ans(n, a)>> PROVE Head(q).to = n
    <3>1. Head(q) = Ans(n, a)
      BY <1>1, <2>1
    <3>2. QED BY <1>1, <3>1
  <2>2. QED BY <2>1
<1>3. {120, 150, 220, 226, 250, 421, 426, 500, 554} \subseteq Said
  BY DEF Said
<1>4. CASE s.at = "greet"
  <2>1. Greeting(q)
    BY <1>4, TalkingAt
  <2>2. CASE q = <<Ans(n, 120), Ans(n, 220)>>
    <3> DEFINE a == Ans(n, 120)
               b == Ans(n, 220)
    <3>1. a \in Answers /\ b \in Answers /\ a.to = n
      BY <1>1, <1>3
    <3>2. q = <<a, b>>
      BY <2>2
    <3> HIDE DEF a, b
    <3>3. Head(q) = a
      BY <3>1, <3>2, TwoReplies
    <3>4. QED BY <3>1, <3>3, <1>n
  <2>3. CASE q = <<Ans(n, 220)>> \/ q = <<Ans(n, 421)>>
    BY <2>3, <1>2, <1>3, <1>n
  <2>4. QED BY <1>n, <2>1, <2>2, <2>3 DEF Greeting
<1>5. CASE s.at = "await" /\ s.of = "."
  <2>1. q = <<Ans(n, 250)>> \/ q = <<Ans(n, 554)>>
    BY <1>n, <1>5, TalkingAt DEF Dotted
  <2>2. QED BY <2>1, <1>2, <1>3, <1>n
<1>6. CASE s.at = "await" /\ s.of # "."
  <2>1. Asked(s.of, q)
    BY <1>6, TalkingAt
  <2>2. CASE \E a \in Codes(job, s.of) : q = <<Ans(n, a)>>
    BY <2>2, CodesSaid, <1>2, <1>n
  <2>3. CASE Head(q) = Ans(n, 150)
    BY <2>3, <1>1, <1>3, <1>n
  <2>4. CASE q = <<Ans(n, 500)>>
    BY <2>4, <1>2, <1>3, <1>n
  <2>5. QED BY <1>n, <2>1, <2>2, <2>3, <2>4 DEF Asked
<1>7. CASE s.at = "last"
  <2>1. q = <<Ans(n, 220)>> \/ q = <<Ans(n, 226)>> \/ q = <<Ans(n, 426)>>
    BY <1>n, <1>7 DEF Talking, Owed
  <2>2. QED BY <2>1, <1>2, <1>3, <1>n
<1>8. QED BY <1>4, <1>5, <1>6, <1>7 DEF CheckStep

\* What it says of replies and commands,
LEMMA InvInStep ==
    ASSUME Inv PROVE InStep
<1>1. TypeInv /\ Sound
  BY DEF Inv
<1>2. ASSUME Doing("check"), replies # <<>>
      PROVE  Head(replies).to = asked \/ (job.api = "command" /\ FALSE \in ToSet(job.checks))
  <2> DEFINE o == Head(script)
  <2>1. result = None /\ script # <<>> /\ o.op = "check"
    BY <1>2 DEF Doing
  <2>2. PICK s \in Places, q \in Seq(Answers) : Going(s, q)
    BY <2>1 DEF Inv
  <2>3. PICK t \in Places, u \in Places : Step(job, s, o, t) /\ Path(job, Tail(script), t, u)
    BY <2>1, <2>2, Starts
  <2> HIDE DEF o
  <2>4. CheckStep(job, s, o, t)
    BY <2>1, <2>3, CheckSteps
  <2>5. Fit(job, s) /\ Talking(s, q) /\ Wire(q)
    BY <2>2, GoingParts
  <2>6. q # <<>> /\ Head(replies).to = Head(q).to
    <3> DEFINE w == FALSE
    <3>1. OnWire(Lines, replies, begun, q, w) /\ w \in BOOLEAN
      BY <2>5, WireNow
    <3> HIDE DEF w
    <3>2. Read(Lines, replies, begun, q, w)
      BY <3>1, <1>1, <1>2, LinesTyped, WireReads
    <3>3. QED BY <3>2 DEF Read
  <2>7. CASE s.at = "loose"
    BY <2>5, <2>7 DEF Fit, Loosely
  <2>8. CASE s.at # "loose"
    BY <1>1, <2>4, <2>5, <2>6, <2>8, HeadAnswers
  <2>9. QED BY <2>7, <2>8
<1>3. ASSUME server.mode = "command", toserver # <<>> PROVE Head(toserver) # "block"
  <2>1. 1 \in 1..Len(toserver) /\ Head(toserver) = toserver[1]
    BY <1>1, <1>3, ToServerTyped
  <2>2. CASE job.api = "send"
    BY <1>1, <1>3, <2>1, <2>2 DEF Sound, MailServer
  <2>3. CASE job.api # "send"
    BY <1>1, <2>1, <2>3 DEF Sound
  <2>4. QED BY <2>2, <2>3
<1>4. QED BY <1>2, <1>3 DEF InStep

\* and of messages and files.
LEMMA InvWhole ==
    ASSUME Inv PROVE Whole
<1>1. Sound
  BY DEF Inv
<1>2. ASSUME job.api = "send"
      PROVE  /\ \A i \in DOMAIN server.accepted :
                    server.accepted[i] = [rcpts |-> job.rcpts, size |-> Blocks]
             /\ Len(server.accepted) <= 1
             /\ result = "done" => Len(server.accepted) = 1
  <2> DEFINE m == [rcpts |-> job.rcpts, size |-> Blocks]
  <2>1. server.accepted \in {<<>>, <<m>>} /\ (result = "done" => server.accepted = <<m>>)
    BY <1>1, <1>2 DEF Sound, MailServer, TheMessage
  <2> HIDE DEF m
  <2>2. /\ \A i \in DOMAIN server.accepted : server.accepted[i] = m
        /\ Len(server.accepted) <= 1
        /\ result = "done" => Len(server.accepted) = 1
    <3>1. CASE server.accepted = <<>>
      <4>1. Len(server.accepted) = 0 /\ DOMAIN server.accepted = {}
        BY <3>1
      <4>2. result # "done"
        BY <2>1, <3>1
      <4>3. QED BY <4>1, <4>2
    <3>2. CASE server.accepted = <<m>>
      BY <3>2
    <3>3. QED BY <2>1, <3>1, <3>2
  <2>3. QED BY <2>2 DEF m
<1>3. ASSUME result = "done", job.api = "put" PROVE server.stored = Blocks
  BY <1>1, <1>3 DEF Sound, Kept
<1>4. ASSUME result = "done", job.api = "get"
      PROVE  got = IF job.direct THEN <<"reply">> ELSE [i \in 1..Blocks |-> "block"]
  BY <1>1, <1>4 DEF Sound, Kept, Delivery
<1>5. QED BY <1>2, <1>3, <1>4 DEF Whole

\* The invariant holds throughout.
LEMMA SpecInv == Spec => []Inv
<1>1. QED BY InitInv, NextInv, PTL DEF Spec

\* Client and server stay in step (tp.lua, get_reply and check; smtp.lua and ftp.lua,
\* every command before its check): whatever the call, the modes tried, the recipients
\* and blocks, however many lines and preliminary replies there are and wherever the
\* connection is lost, the reply a check reads answers the last command sent, unless the
\* call leaves replies unchecked; and the server never takes a block of a message for a
\* command.
THEOREM DialogueInStep == Spec => []InStep
<1>1. QED BY SpecInv, InvInStep, PTL

\* A server accepts no message but the whole one, once, for every recipient, and a call
\* of smtp.send that returns 1 has had it accepted; ftp.put that succeeds has stored the
\* file, and ftp.get has given the sink all of it (smtp.lua:send; ftp.lua:send, receive),
\* for any number of blocks and recipients and any faults.
THEOREM DialogueWhole == Spec => []Whole
<1>1. QED BY SpecInv, InvWhole, PTL

\* A call that returns an error had a reason outside it: a refusal, a connection lost, a
\* time out, a source or sink that failed, or an authentication that is not supported.
\* Client and server never wait for each other until the limit ends it, for any script
\* of smtp.lua and ftp.lua.
THEOREM DialogueNoStall == Spec => []NoStall
<1>1. Inv => NoStall
  BY DEF Inv, Sound
<1>2. QED BY <1>1, SpecInv, PTL
==============================================================================
