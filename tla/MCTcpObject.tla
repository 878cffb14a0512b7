---------------------------- MODULE MCTcpObject ----------------------------
(* Instances of TcpObject for TLC. *)
EXTENDS TcpObject

CONSTANTS a4, b4, a6, o1, o2, f1, f2

FamilyOfDef == (a4 :> "inet") @@ (b4 :> "inet") @@ (a6 :> "inet6")

OneFamily   == a4 :> "inet"

\* A dual-stack host with two addresses of one family, and its like.
Mixed     == {<<a6, a4, b4>>}
SixFirst  == {<<a6, a4>>}
SameTwice == {<<a4, b4>>}
JustFour  == {<<a4>>}

\* With and without a local address.
NoLocal   == {<<>>}
SomeLocal == {<<>>, <<a6, a4>>}
\* Objects and descriptors are interchangeable.
Interchangeable == Permutations(Objects) \cup Permutations(Fds)

Limits(t) == <<t.block, t.total>>

\* Bound: a program sets one limit of each object, before the object is a client or
\* a server.
LimitOnce == \A o \in Objects :
    \/ Limits(tm'[o]) = Limits(tm[o])
    \/ class'[o] = "free"
    \/ class[o] = "master" /\ Limits(tm[o]) = <<-1, -1>>
LimitOnceSpec == Init /\ [][Next /\ LimitOnce]_vars

\* Between calls, what the last one worked on does not matter, nor when it began: every
\* call sets it before it is read again.
BetweenCalls ==
    IF pc = "idle"
    THEN <<kernel, now, faults, class, sock, family, [o \in Objects |-> Limits(tm[o])], calls, asked>>
    ELSE vars
=============================================================================
