------------------------------ MODULE MCSelect ------------------------------
(* Instances of Select for TLC. *)
EXTENDS Select

CONSTANTS o1, o2

\* Two sockets; one with a descriptor past the set size; one closed by other means.
AnyFds == {(o1 :> fd) @@ (o2 :> 3) : fd \in {5, 7, 8}}

AllTables == {<<>>, <<o1>>, <<o1, o2>>, <<o1, o1>>}

\* No limit, none of the time, and some.
NoneZeroTwo == {-1, 0, 2}
=============================================================================
