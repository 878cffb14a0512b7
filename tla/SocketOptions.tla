--------------------------- MODULE SocketOptions ---------------------------
(***************************************************************************)
(* setoption and getoption of TCP and UDP objects: options.c, its tables   *)
(* in tcp.c and udp.c, and what the loops over addresses of inet.c do to   *)
(* the socket the options are set on.                                      *)
(*                                                                         *)
(* The object lives from socket.tcp or socket.udp to close.  A value of    *)
(* Lua is a pair of its type and the value; numbers count halves, so that  *)
(* there are some that are no integers.  Numbers and strings are not       *)
(* converted into each other.                                              *)
(***************************************************************************)
EXTENDS Integers, Sequences, TLC

CONSTANTS
    Hosts,      \* what the names given to bind and connect stand for: sequences of families
    Arguments,  \* what setoption is called with: pairs of a name and a Lua value
    IPv4, IPv6, \* strings inet_aton, inet_pton take for addresses
    Stale,      \* what an uninitialized string may hold
    USHRT,      \* the values of u_short
    INT_MAX,
    MaxCalls    \* bound: calls other than getoption

ASSUME HostsAssumption == \A h \in Hosts : h \in Seq({"inet", "inet6"}) /\ h # <<>>
ASSUME WidthAssumption == USHRT \in Nat \ {0} /\ INT_MAX \in Nat /\ MaxCalls \in Nat

VARIABLES
    class,      \* "tcp" or "udp"
    family,     \* of the object: "unspec", "inet" or "inet6"
    sock,       \* of the socket; "none" without one
    kernel,     \* the value of each option of the socket
    groups,     \* the multicast groups it has joined
    pending,    \* an error waits to be reported
    reply,      \* what the last call returned or raised
    \* history, read by properties and bounds only
    told,       \* the value each option was last set to with success
    joined,     \* the groups the program was told it has joined
    calls

socketVars == <<sock, kernel, groups, pending>>
vars == <<class, family, socketVars, reply, told, joined, calls>>

-----------------------------------------------------------------------------
\* The handlers, as pairs of the kind of their value and the option of the kernel.

SocketHandler == [
    reuseaddr    |-> <<"boolean", "SO_REUSEADDR">>,
    reuseport    |-> <<"boolean", "SO_REUSEPORT">>,
    tcp_nodelay  |-> <<"boolean", "TCP_NODELAY">>,
    tcp_keepidle |-> <<"int", "TCP_KEEPIDLE">>,
    tcp_keepcnt  |-> <<"int", "TCP_KEEPCNT">>,
    tcp_keepintvl |-> <<"int", "TCP_KEEPINTVL">>,
    keepalive    |-> <<"boolean", "SO_KEEPALIVE">>]

NetworkHandler == [
    dontroute    |-> <<"boolean", "SO_DONTROUTE">>,
    broadcast    |-> <<"boolean", "SO_BROADCAST">>,
    recv_buf_size |-> <<"size", "SO_RCVBUF">>,
    send_buf_size |-> <<"size", "SO_SNDBUF">>,
    tcp_fastopen |-> <<"int", "TCP_FASTOPEN">>,
    tcp_fastopen_connect |-> <<"int", "TCP_FASTOPEN_CONNECT">>,
    tcp_defer_accept     |-> <<"int", "TCP_DEFER_ACCEPT">>,
    ip6_unicast_hops     |-> <<"int", "IPV6_UNICAST_HOPS">>,
    ip6_multicast_hops   |-> <<"int", "IPV6_MULTICAST_HOPS">>,
    ip_multicast_loop    |-> <<"boolean", "IP_MULTICAST_LOOP">>,
    ip6_multicast_loop   |-> <<"boolean", "IPV6_MULTICAST_LOOP">>]

GroupHandler == [
    ip_add_membership  |-> <<"group", "IP_ADD_MEMBERSHIP">>,
    ip_drop_membersip  |-> <<"group", "IP_DROP_MEMBERSHIP">>,
    ip6_add_membership |-> <<"group6", "IPV6_ADD_MEMBERSHIP">>,
    ip6_drop_membersip |-> <<"group6", "IPV6_DROP_MEMBERSHIP">>,
    ip6_v6only         |-> <<"boolean", "IPV6_V6ONLY">>]

OtherHandler == [
    bindtodevice     |-> <<"device", "SO_BINDTODEVICE">>,
    linger           |-> <<"linger", "SO_LINGER">>,
    ip_multicast_ttl |-> <<"int", "IP_MULTICAST_TTL">>,
    ip_multicast_if  |-> <<"address", "IP_MULTICAST_IF">>,
    error            |-> <<"error", "SO_ERROR">>]

Handler == SocketHandler @@ NetworkHandler @@ (GroupHandler @@ OtherHandler)

\* Options of the IPv6 layer.
IPPROTO_IPV6 == {"IPV6_UNICAST_HOPS", "IPV6_MULTICAST_HOPS", "IPV6_MULTICAST_LOOP",
                 "IPV6_ADD_MEMBERSHIP", "IPV6_DROP_MEMBERSHIP", "IPV6_V6ONLY"}

\* The tables: the handler of each name.
tcp_optget == {
    <<"bindtodevice", "bindtodevice">>, <<"keepalive", "keepalive">>,
    <<"reuseaddr", "reuseaddr">>, <<"reuseport", "reuseport">>,
    <<"tcp-nodelay", "tcp_nodelay">>, <<"tcp-keepidle", "tcp_keepidle">>,
    <<"tcp-keepcnt", "tcp_keepcnt">>, <<"tcp-keepintvl", "tcp_keepintvl">>,
    <<"linger", "linger">>, <<"error", "error">>,
    <<"recv-buffer-size", "recv_buf_size">>, <<"send-buffer-size", "send_buf_size">>}

tcp_optset ==
    (tcp_optget \ {<<"error", "error">>}) \cup {
    <<"ipv6-v6only", "ip6_v6only">>, <<"tcp-defer-accept", "tcp_defer_accept">>,
    <<"tcp-fastopen", "tcp_fastopen">>, <<"tcp-fastopen-connect", "tcp_fastopen_connect">>}

udp_optget == {
    <<"dontroute", "dontroute">>, <<"broadcast", "broadcast">>,
    <<"reuseaddr", "reuseaddr">>, <<"reuseport", "reuseport">>,
    <<"ip-multicast-if", "ip_multicast_if">>, <<"ip-multicast-loop", "ip_multicast_loop">>,
    <<"error", "error">>, <<"ipv6-unicast-hops", "ip6_unicast_hops">>,
    <<"ipv6-multicast-hops", "ip6_unicast_hops">>,
    <<"ipv6-multicast-loop", "ip6_multicast_loop">>, <<"ipv6-v6only", "ip6_v6only">>,
    <<"recv-buffer-size", "recv_buf_size">>, <<"send-buffer-size", "send_buf_size">>}

udp_optset ==
    (udp_optget \ {<<"error", "error">>}) \cup {
    <<"ip-multicast-ttl", "ip_multicast_ttl">>,
    <<"ip-add-membership", "ip_add_membership">>, <<"ip-drop-membership", "ip_drop_membersip">>,
    <<"ipv6-add-membership", "ip6_add_membership">>,
    <<"ipv6-drop-membership", "ip6_drop_membersip">>}

optget == IF class = "tcp" THEN tcp_optget ELSE udp_optget
optset == IF class = "tcp" THEN tcp_optset ELSE udp_optset

\* The handlers of a name: one, or none for a name the table does not have.
Handlers(table, name) == {Handler[row[2]] : row \in {r \in table : r[1] = name}}

-----------------------------------------------------------------------------
\* From a value of Lua to what setsockopt is given: one value, or none when the
\* handler raises an error instead.  A number that does not fit an int is undefined
\* behaviour: compilers make it one of the ends of the range.

IsNumber(v)  == v[1] = "number"
IsString(v)  == v[1] = "string"
Field(v, f)  == IF f \in DOMAIN v[2] THEN v[2][f] ELSE <<"nil">>
Truncated(n) == IF n < 0 THEN -((-n) \div 2) ELSE n \div 2
ToInt(n)     == IF Truncated(n) \in -INT_MAX-1..INT_MAX THEN {Truncated(n)}
                ELSE {-INT_MAX - 1, INT_MAX}

opt_setboolean(v) == IF v[1] = "boolean" THEN {IF v[2] THEN 1 ELSE 0} ELSE {}

\* Anything that is not a number counts as 0.
opt_setint(v) == IF IsNumber(v) THEN ToInt(v[2]) ELSE {0}

\* The timeout is cut to the width of u_short.
opt_set_linger(v) ==
    IF v[1] = "table" /\ Field(v, "on")[1] = "boolean" /\ IsNumber(Field(v, "timeout"))
    THEN {<<IF Field(v, "on")[2] THEN 1 ELSE 0, Truncated(Field(v, "timeout")[2]) % USHRT>>}
    ELSE {}

opt_set_bindtodevice(v) == IF IsString(v) THEN {v[2]} ELSE {}

INADDR_ANY == "0.0.0.0"
inet_aton(s) == IF s = "*" THEN {INADDR_ANY} ELSE {s} \cap IPv4

opt_set_ip_multicast_if(v) == IF IsString(v) THEN inet_aton(v[2]) ELSE {}

opt_setmembership(v) ==
    IF v[1] = "table" /\ IsString(Field(v, "multiaddr")) /\ IsString(Field(v, "interface"))
    THEN ({Field(v, "multiaddr")[2]} \cap IPv4) \X inet_aton(Field(v, "interface")[2])
    ELSE {}

\* Without an interface, the one the kernel chooses.
opt_ip6_setmembership(v) ==
    IF v[1] = "table" /\ IsString(Field(v, "multiaddr"))
    THEN LET i == Field(v, "interface") IN
         ({Field(v, "multiaddr")[2]} \cap IPv6)
             \X (IF i[1] = "nil" THEN {0} ELSE IF IsNumber(i) THEN ToInt(i[2]) ELSE {})
    ELSE {}

Converted(kind, v) ==
    CASE kind = "boolean" -> opt_setboolean(v)
      [] kind \in {"int", "size"} -> opt_setint(v)
      [] kind = "linger"  -> opt_set_linger(v)
      [] kind = "device"  -> opt_set_bindtodevice(v)
      [] kind = "address" -> opt_set_ip_multicast_if(v)
      [] kind = "group"   -> opt_setmembership(v)
      [] kind = "group6"  -> opt_ip6_setmembership(v)

\* And back: what getoption may return for the value c of the kernel.

opt_getboolean(c)  == {<<"boolean", c # 0>>}
opt_getint(c)      == {<<"number", 2 * c>>}
opt_get_linger(c)  ==
    {<<"table", [on |-> <<"boolean", c[1] # 0>>, timeout |-> <<"number", 2 * c[2]>>]>>}

\* For a socket that is bound to no device the kernel writes nothing.
NoDevice == "no device"
opt_get_bindtodevice(c) == {<<"string", s>> : s \in IF c = NoDevice THEN Stale ELSE {c}}

Returned(kind, c) ==
    CASE kind = "boolean" -> opt_getboolean(c)
      [] kind \in {"int", "size"} -> opt_getint(c)
      [] kind = "linger"  -> opt_get_linger(c)
      [] kind = "device"  -> opt_get_bindtodevice(c)
      [] kind = "address" -> {<<"string", c>>}

-----------------------------------------------------------------------------
\* The socket.

Keys == {Handler[h][2] : h \in DOMAIN Handler}

\* The values of a new socket of family f, in so far as they matter; inet_trycreate
\* restricts the IPv6 ones to IPv6.
Fresh(f) == [k \in Keys |->
    CASE k = "SO_BINDTODEVICE" -> NoDevice
      [] k = "SO_LINGER"       -> <<0, 0>>
      [] k = "IP_MULTICAST_IF" -> INADDR_ANY
      [] k = "IPV6_V6ONLY"     -> IF f = "inet6" THEN 1 ELSE 0
      [] OTHER                 -> 1]

\* What the kernel keeps of a value it accepts: it doubles the size of a buffer, or
\* caps it.
Kept(kind, c) == IF kind = "size" THEN {1, 2 * c} ELSE {c}

Untold == [name \in {row[1] : row \in optset} |-> <<"nil">>]

\* socket.tcp, tcp4, tcp6, udp, udp4, udp6.
Init ==
    /\ class \in {"tcp", "udp"}
    /\ family \in {"unspec", "inet", "inet6"}
    /\ sock = IF family = "unspec" THEN "none" ELSE family
    /\ kernel = Fresh(sock) /\ groups = {} /\ pending = FALSE /\ reply = <<"object">>
    /\ told = Untold /\ joined = {} /\ calls = 0

Call == calls < MaxCalls /\ calls' = calls + 1

\* The resolver is asked for addresses of any family.
Resolved_any(h) == h

\* The addresses getaddrinfo has for an object: their families.
Resolved(h) == SelectSeq(h, LAMBDA f : family \in {"unspec", f})

\* bind, connect, setsockname, setpeername and sendto: the addresses of a name are
\* tried up to the i-th, and a new socket replaces one of another family.
TryAddresses(h) ==
    /\ Call
    /\ \E i \in 1..Len(Resolved(h)), settled \in BOOLEAN :
        LET last == Resolved(h)[i]
            suits == sock # "none" /\ \A j \in 1..i : Resolved(h)[j] = family
        IN
        /\ settled \/ i = Len(Resolved(h))
        /\ family' = IF settled THEN last ELSE family
        /\ IF suits THEN UNCHANGED socketVars
           ELSE /\ sock' \in {last} \cup (IF settled THEN {} ELSE {"none"})
                /\ kernel' = Fresh(sock') /\ groups' = {} /\ pending' = FALSE
    /\ reply' = <<"bound">>
    \* A program must be ready for a new socket only if the object has no family yet,
    \* or no socket.
    /\ IF family # "unspec" /\ sock # "none" THEN UNCHANGED <<told, joined>>
       ELSE told' = Untold /\ joined' = {}
    /\ UNCHANGED class

meth_close ==
    /\ Call
    /\ sock' = "none" /\ kernel' = Fresh("none") /\ groups' = {} /\ pending' = FALSE
    /\ reply' = <<"number", 2>>
    /\ told' = Untold /\ joined' = {}
    /\ UNCHANGED <<class, family>>

\* The network reports an error for the socket.
ErrorArrives ==
    /\ sock # "none" /\ ~pending
    /\ pending' = TRUE
    /\ UNCHANGED <<class, family, sock, kernel, groups, reply, told, joined, calls>>

-----------------------------------------------------------------------------
\* setsockopt takes the value c.
Accepted(name, kind, k, c, v) ==
    /\ sock # "none" /\ (k \in IPPROTO_IPV6 => sock = "inet6")
    /\ reply' = <<"number", 2>>
    /\ CASE k \in {"IP_ADD_MEMBERSHIP", "IPV6_ADD_MEMBERSHIP"} ->
              /\ c \notin groups /\ groups' = groups \cup {c}
              /\ joined' = joined \cup {v} /\ UNCHANGED <<kernel, told>>
         [] k \in {"IP_DROP_MEMBERSHIP", "IPV6_DROP_MEMBERSHIP"} ->
              /\ c \in groups /\ groups' = groups \ {c}
              /\ joined' = {w \in joined : c \notin Converted(kind, w)}
              /\ UNCHANGED <<kernel, told>>
         [] OTHER ->
              /\ \E d \in Kept(kind, c) : kernel' = [kernel EXCEPT ![k] = d]
              /\ told' = [told EXCEPT ![name] = v]
              /\ UNCHANGED <<groups, joined>>

opt_meth_setoption(name, v) ==
    /\ Call
    /\ \/ /\ \A h \in Handlers(optset, name) : Converted(h[1], v) = {}
          /\ reply' = <<"raised">>
          /\ UNCHANGED <<kernel, groups, told, joined>>
       \/ \E h \in Handlers(optset, name) : \E c \in Converted(h[1], v) :
            \/ Accepted(name, h[1], h[2], c, v)
            \/ reply' = <<"nil">> /\ UNCHANGED <<kernel, groups, told, joined>>
    /\ UNCHANGED <<class, family, sock, pending>>

\* Reading the error clears it.
opt_meth_getoption(name) ==
    /\ \/ /\ Handlers(optget, name) = {} /\ reply' = <<"raised">>
          /\ UNCHANGED pending
       \/ \E h \in Handlers(optget, name) :
            IF sock = "none" \/ (h[2] \in IPPROTO_IPV6 /\ sock = "inet")
            THEN reply' = <<"nil">> /\ UNCHANGED pending
            ELSE IF h[1] = "error"
                 THEN reply' = <<"error", pending>> /\ pending' = FALSE
                 ELSE reply' \in Returned(h[1], kernel[h[2]]) /\ UNCHANGED pending
    /\ UNCHANGED <<class, family, sock, kernel, groups, told, joined, calls>>

Names == {a[1] : a \in Arguments} \cup {"error"}

Next ==
    \/ \E h \in Hosts : TryAddresses(h)
    \/ meth_close
    \/ ErrorArrives
    \/ \E a \in Arguments : opt_meth_setoption(a[1], a[2])
    \/ \E name \in Names : opt_meth_getoption(name)

Spec == Init /\ [][Next]_vars

-----------------------------------------------------------------------------
\* Whether the kernel can hold a value as it was given: it rounds the size of a buffer,
\* an int holds whole numbers only, and anything that is not a number is set as 0.
Fits(kind, v) ==
    LET Holds(S, n) == n[1] = "number" /\ \E i \in S : n[2] = 2 * i IN
    CASE kind = "int"    -> Holds(-INT_MAX-1..INT_MAX, v)
      [] kind = "linger" -> Holds(0..USHRT-1, v[2].timeout)
      [] OTHER           -> kind # "size"

WasSet(name) == name \in DOMAIN told /\ told[name] # <<"nil">>

\* An option reads as it was last set.
ReadsBack(name) ==
    /\ sock # "none"
    /\ \A h \in Handlers(optget, name) : Returned(h[1], kernel[h[2]]) =
          {IF h[1] = "address" /\ told[name][2] = "*" THEN <<"string", INADDR_ANY>> ELSE told[name]}

\* What the program was told is set is in force: it reads back, if it fits, whichever
\* options were set, refused or misused in between, and the socket is in the groups it
\* joined and in no others.  Binding or connecting an object that has its family loses
\* none of it.  This is so of programs that leave "ipv6-multicast-hops" alone.
InForce ==
    /\ \A name \in DOMAIN told :
          WasSet(name) /\ (\A h \in Handlers(optset, name) : Fits(h[1], told[name])) => ReadsBack(name)
    /\ groups = UNION {opt_setmembership(v) \cup opt_ip6_setmembership(v) : v \in joined}

\* The two hop limits of IPv6 are two options: setting one, which the tables of udp.c
\* know by its own name, leaves the other as it was set.
HopsInForce ==
    \A name \in {"ipv6-unicast-hops", "ipv6-multicast-hops"} : WasSet(name) => ReadsBack(name)

\* A close lingers for the "'timeout' in seconds" the option was set to.
LingerInForce == WasSet("linger") => ReadsBack("linger")
=============================================================================
