-------------------------- MODULE MCSocketOptions --------------------------
(* Instances of SocketOptions for TLC. *)
EXTENDS SocketOptions

Bool(b)   == <<"boolean", b>>
Num(h)    == <<"number", h>>
Str(s)    == <<"string", s>>
Linger(b, h)  == <<"table", [on |-> b, timeout |-> h]>>
Member(g, i)  == <<"table", [multiaddr |-> g, interface |-> i]>>

\* Every name but "ipv6-multicast-hops" is used, those that take a table with several
\* values, some of them of the wrong type, not whole or out of range.
ArgumentsDef ==
    {<<name, Bool(FALSE)>> : name \in {"keepalive", "reuseport", "tcp-nodelay", "dontroute",
        "broadcast", "reuseaddr", "ip-multicast-loop", "ipv6-multicast-loop", "ipv6-v6only"}}
    \cup {<<name, Num(4)>> : name \in {"tcp-keepidle", "tcp-keepcnt", "tcp-keepintvl",
        "recv-buffer-size", "send-buffer-size", "tcp-defer-accept", "tcp-fastopen",
        "tcp-fastopen-connect", "ip-multicast-ttl", "ipv6-unicast-hops"}}
    \cup {<<"reuseaddr", Num(2)>>, <<"tcp-keepidle", Bool(TRUE)>>, <<"ipv6-unicast-hops", Num(6)>>,
          <<"ipv6-unicast-hops", Num(3)>>, <<"tcp-keepcnt", Num(40)>>, <<"no-such-option", Num(2)>>}
    \cup {<<"linger", v>> : v \in {Bool(TRUE), Linger(Bool(TRUE), Num(2)), Linger(Bool(TRUE), Num(1)),
          Linger(Bool(FALSE), Num(8)), Linger(Num(2), Num(2)), <<"table", [on |-> Bool(TRUE)]>>}}
    \cup {<<"bindtodevice", Str("lo")>>, <<"ip-multicast-if", Str("*")>>,
          <<"ip-multicast-if", Str("ip1")>>, <<"ip-multicast-if", Str("lo")>>}
    \cup {<<name, v>> : name \in {"ip-add-membership", "ip-drop-membership"},
            v \in {Member(Str("ip1"), Str("*")), Member(Str("ip1"), Str("ip1")),
                   Member(Str("lo"), Str("*")), <<"table", [multiaddr |-> Str("ip1")]>>}}
    \cup {<<name, v>> : name \in {"ipv6-add-membership", "ipv6-drop-membership"},
            v \in {Member(Str("ip6"), Num(2)), <<"table", [multiaddr |-> Str("ip6")]>>,
                   Member(Str("ip6"), Str("lo"))}}

\* The two hop limits, and a time a u_short does not hold.
HopArguments == {<<"ipv6-unicast-hops", Num(4)>>, <<"ipv6-multicast-hops", Num(6)>>}
LongLinger == {<<"linger", Linger(Bool(TRUE), Num(2 * USHRT))>>}

HostsDef == {<<"inet">>, <<"inet6", "inet">>}
=============================================================================
