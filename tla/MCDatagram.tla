----------------------------- MODULE MCDatagram -----------------------------
(* Instances of Datagram for TLC. *)
EXTENDS Datagram, TLC

CONSTANTS a4, b4, a6, p1, p2

FamilyOfDef ==
    (a4 :> "inet") @@ (b4 :> "inet") @@ (a6 :> "inet6") @@ (p1 :> "unix") @@ (p2 :> "unix")

\* A dual-stack host, also when it is asked for one family, one with a single address,
\* and none.
SomeHosts == {<<a6, a4>>, <<a6>>, <<a4>>, <<b4>>, <<>>}
=============================================================================
