------------------------------ MODULE Dialogue ------------------------------
(***************************************************************************)
(* Commands and replies: smtp.lua and ftp.lua over tp.lua, with the        *)
(* finalizer and the protected call of except.c around them.  One call of  *)
(* smtp.send, ftp.get, ftp.put or ftp.command against a server that works  *)
(* through what it is sent, refuses, is cut off, or loses a transfer.      *)
(*                                                                         *)
(* A function of the clients is a script: the calls it makes on the        *)
(* connections, in order.  The actions execute the script of the call.     *)
(***************************************************************************)
EXTENDS Integers, Sequences, SequencesExt

CONSTANTS
    Jobs,       \* the calls made, see DialogueAssumption
    Blocks,     \* blocks of a message or file
    MaxFaults   \* bound: refusals, connections lost, time outs, sources and sinks that fail

None == "none"

ASSUME DialogueAssumption ==
    /\ Blocks \in Nat /\ MaxFaults \in Nat
    /\ \A j \in Jobs :
        /\ j.api \in {"send", "get", "put", "command"} /\ j.multiline \in BOOLEAN
        /\ j.api = "send" => /\ j.user \in BOOLEAN /\ j.ext \in {"login", "plain", None}
                             /\ j.rcpts \in Nat \ {0}
        /\ j.api \in {"get", "put"} =>
            /\ j.type \in BOOLEAN /\ j.direct \in BOOLEAN
            /\ j.modes \in Seq({"epsv", "pasv", "port", "eprt"}) /\ j.modes # <<>>
        /\ j.api = "command" => j.checks \in Seq(BOOLEAN)

VARIABLES
    job,        \* the call
    script,     \* what is left of it
    code,       \* the code of the last reply that was accepted
    begun,      \* get_reply: the code a reply of several lines began with
    open,       \* the sockets of the client that are open: "control", "data", "server", and
                \* "lost", listening sockets the object no longer has
    left,       \* blocks the source has left
    got,        \* what the sink was given
    result,     \* "done", or "error": nil and a message
    toserver,   \* what the client has sent on the control connection
    replies,    \* the lines the server has sent there
    data,       \* the data connection: is it made, blocks on the way, is it ended, was it cut
    server,     \* its mode, commands read, recipients, blocks of a message, messages, stored
    faults,
    asked       \* history: commands sent

client == <<script, code, begun, open, left, got, result, asked>>
vars == <<job, client, toserver, replies, data, server, faults>>

-----------------------------------------------------------------------------
\* Scripts.  A number below 10 stands for a pattern as "2..".

Do(op) == <<[op |-> op]>>
Command(c) == <<[op |-> "command", name |-> c]>>
Check(ok) == <<[op |-> "check", ok |-> ok]>>
If(ok, yes, no) == <<[op |-> "if", ok |-> ok, yes |-> yes, no |-> no]>>

Matches(c, ok) == c \in ok \/ c \div 100 \in ok

\* smtp.lua

greet == Check({2}) \o Command("EHLO") \o Check({2})
mail == Command("MAIL") \o Check({2})
rcpt == Command("RCPT") \o Check({2})
message == Command("DATA") \o Check({3}) \o Do("source") \o Command(".") \o Check({2})
quit == Command("QUIT") \o Check({2})
login == Command("AUTH") \o Check({3}) \o Command("username") \o Check({3})
            \o Command("password") \o Check({2})
plain == Command("AUTH") \o Check({2})

auth(j) ==
    IF ~j.user THEN <<>>
    ELSE CASE j.ext = "login" -> login [] j.ext = "plain" -> plain [] OTHER -> Do("fail")

smtp_send(j) ==
    Do("open") \o greet \o auth(j) \o mail \o FlattenSeq([i \in 1..j.rcpts |-> rcpt]) \o message
               \o quit \o Do("close")

\* ftp.lua

ftp_greet == Check({1, 2}) \o If({1}, Check({2}), <<>>)
ftp_login == Command("user") \o Check({2, 331}) \o If({331}, Command("pass") \o Check({2}), <<>>)
ftp_type == Command("type") \o Check({200})
epsv == Command("epsv") \o Check({229}) \o Do("passive")
pasv == Command("pasv") \o Check({2}) \o Do("passive")

\* port and eprt.  port calls math.mod: Lua 5.1, later ones have no such function.
port(name) == Do("listen") \o Command(name) \o Check({2})

Prepare(mode) == CASE mode = "epsv" -> epsv [] mode = "pasv" -> pasv [] OTHER -> port(mode)
Passive(j) == Last(j.modes) \in {"epsv", "pasv"}

\* The data connection is made before the command when the server listens for it, and
\* after the reply when the client does.
DataBefore(j) == IF Passive(j) THEN Do("connect") ELSE <<>>
DataAfter(j) == IF Passive(j) THEN <<>> ELSE Do("accept")

ftp_send(j) ==
    DataBefore(j) \o Command("stor") \o Check({2, 1}) \o DataAfter(j)
                  \o Do("upload") \o If({1}, Check({2}), <<>>) \o Do("close_data")

ftp_receive(j) ==
    DataBefore(j) \o Command("retr") \o Check({1, 2})
                  \o If({2}, Do("sink_reply"),
                        DataAfter(j) \o Do("download") \o If({1}, Check({2}), <<>>)
                                     \o Do("close_data"))

Transfer(j, transfer) ==
    Do("open") \o ftp_greet \o ftp_login \o (IF j.type THEN ftp_type ELSE <<>>)
               \o FlattenSeq([i \in DOMAIN j.modes |-> Prepare(j.modes[i])])
               \o transfer \o Command("QUIT") \o Check({2}) \o Do("close")

tput(j) == Transfer(j, ftp_send(j))
tget(j) == Transfer(j, ftp_receive(j))

ftp_command(j) ==
    Do("open") \o ftp_greet \o ftp_login
        \o FlattenSeq([i \in DOMAIN j.checks |->
                            Command("other") \o (IF j.checks[i] THEN Check({200}) ELSE <<>>)])
        \o Command("QUIT") \o Check({2}) \o Do("close")

Script(j) ==
    CASE j.api = "send" -> smtp_send(j) [] j.api = "put" -> tput(j) [] j.api = "get" -> tget(j)
      [] OTHER -> ftp_command(j)

-----------------------------------------------------------------------------
NoData == [made |-> FALSE, flow |-> 0, ended |-> FALSE, cut |-> FALSE]

Init ==
    /\ job \in Jobs /\ script = Script(job) /\ code = 0 /\ begun = 0 /\ open = {}
    /\ left = Blocks /\ got = <<>> /\ result = None /\ asked = 0
    /\ toserver = <<>> /\ replies = <<>> /\ data = NoData /\ faults = 0
    /\ server = [mode |-> "away", read |-> 0, rcpts |-> 0, inbox |-> 0, accepted |-> <<>>,
                  stored |-> 0]

Fault == faults < MaxFaults /\ faults' = faults + 1

-----------------------------------------------------------------------------
\* The server.

\* A reply of several lines ends with a line of the same code and a blank after it;
\* the lines between may look like any reply.
Reply(n, c) ==
    LET line(d, sep) == [code |-> d, sep |-> sep, to |-> n] IN
    IF job.multiline THEN <<line(c, "-"), line(999, "blank"), line(c, "-"), line(c, "blank")>>
    ELSE <<line(c, "blank")>>

\* The codes of the answers to a command of the call j.
Codes(j, c) ==
    CASE c \in {"EHLO", "MAIL", "RCPT"} -> {250}
      [] c = "AUTH" -> {IF j.ext = "login" THEN 334 ELSE 235}
      [] c = "username" -> {334}
      [] c = "password" -> {235}
      [] c = "DATA" -> {354}
      [] c = "QUIT" -> {221}
      [] c = "user" -> {230, 331}
      [] c = "pass" -> {230}
      [] c = "epsv" -> {229}
      [] c = "pasv" -> {227}
      [] c = "retr" -> {IF j.direct THEN 213 ELSE 150}
      [] c = "stor" -> {150}
      [] OTHER -> {200}

\* What the server does after its answer.
Mode(c, answer) ==
    CASE c = "DATA" -> "message" [] c = "QUIT" -> "away"
      [] c = "retr" /\ answer = 150 -> "retr" [] c = "stor" -> "stor" [] OTHER -> "command"

\* It greets, at once or after saying that it will; or refuses to serve.
Greets ==
    /\ server.mode = "greeting"
    /\ \/ /\ replies' \in {Reply(0, 220)}
                \cup (IF job.api = "send" THEN {} ELSE {Reply(0, 120) \o Reply(0, 220)})
          /\ UNCHANGED faults
       \/ Fault /\ replies' = Reply(0, 421)
    /\ server' = [server EXCEPT !.mode = "command"]
    /\ UNCHANGED <<job, client, toserver, data>>

\* The next command is obeyed or refused.
Serves ==
    /\ server.mode = "command" /\ toserver # <<>> /\ Head(toserver) # "block"
    /\ toserver' = Tail(toserver)
    /\ LET c == Head(toserver)
           n == server.read + 1
       IN
       \/ \E answer \in Codes(job, c) :
            /\ replies' = replies \o Reply(n, answer)
            /\ server' = [server EXCEPT !.mode = Mode(c, answer), !.read = n,
                                        !.rcpts = IF c = "RCPT" THEN @ + 1 ELSE @]
            /\ data' = [data EXCEPT !.made = @ \/ (answer = 150 /\ ~Passive(job))]
            /\ UNCHANGED faults
       \/ /\ Fault
          /\ replies' = replies \o Reply(n, 500)
          /\ server' = [server EXCEPT !.read = n]
          /\ UNCHANGED data
    /\ UNCHANGED <<job, client>>

\* A message is taken up to the line with the dot, and then accepted or refused.
TakesMessage ==
    /\ server.mode = "message" /\ toserver # <<>>
    /\ toserver' = Tail(toserver)
    /\ IF Head(toserver) = "block"
       THEN server' = [server EXCEPT !.inbox = @ + 1] /\ UNCHANGED <<replies, faults>>
       ELSE LET n == server.read + 1
                taken == [rcpts |-> server.rcpts, size |-> server.inbox]
            IN
            \/ /\ replies' = replies \o Reply(n, 250)
               /\ server' = [server EXCEPT !.mode = "command", !.read = n, !.inbox = 0,
                                           !.accepted = Append(@, taken)]
               /\ UNCHANGED faults
            \/ /\ Fault /\ replies' = replies \o Reply(n, 554)
               /\ server' = [server EXCEPT !.mode = "command", !.read = n, !.inbox = 0]
    /\ UNCHANGED <<job, client, data>>

\* Only the end of the data connection tells the end of a file; then it is confirmed.
Transfers ==
    /\ LET end == /\ replies' = replies \o Reply(server.read, 226)
                  /\ server' = [server EXCEPT !.mode = "command"]
       IN
       \/ /\ server.mode = "stor" /\ data.flow > 0
          /\ data' = [data EXCEPT !.flow = @ - 1]
          /\ server' = [server EXCEPT !.stored = @ + 1]
          /\ UNCHANGED replies
       \/ server.mode = "stor" /\ data.flow = 0 /\ data.ended /\ end /\ UNCHANGED data
       \/ /\ server.mode = "retr" /\ server.stored < Blocks
          /\ data' = [data EXCEPT !.flow = @ + 1]
          /\ server' = [server EXCEPT !.stored = @ + 1]
          /\ UNCHANGED replies
       \/ /\ server.mode = "retr" /\ server.stored = Blocks
          /\ data' = [data EXCEPT !.ended = TRUE] /\ end
    /\ UNCHANGED <<job, client, toserver, faults>>

\* The data connection breaks, with what is on the way, and the server says so.
DataCut ==
    /\ server.mode \in {"stor", "retr"} /\ Fault
    /\ data' = [data EXCEPT !.flow = 0, !.ended = TRUE, !.cut = TRUE]
    /\ replies' = replies \o Reply(server.read, 426)
    /\ server' = [server EXCEPT !.mode = "command"]
    /\ UNCHANGED <<job, client, toserver>>

\* The server goes away, with the answers on the way; a message not yet ended is lost.
ServerGone ==
    /\ server.mode # "away" /\ Fault
    /\ server' = [server EXCEPT !.mode = "away", !.inbox = 0]
    /\ \E n \in 0..Len(replies) : replies' = SubSeq(replies, 1, n)
    /\ data' = [data EXCEPT !.flow = 0, !.ended = TRUE, !.cut = TRUE]
    /\ UNCHANGED <<job, client, toserver>>

\* Nothing more comes from the server unless the client acts.
ServerWaits ==
    \/ server.mode = "away"
    \/ server.mode \in {"command", "message"} /\ toserver = <<>>
    \/ server.mode = "stor" /\ data.flow = 0 /\ ~data.ended

-----------------------------------------------------------------------------
\* The client.

Doing(op) == result = None /\ script # <<>> /\ Head(script).op = op
Onward == script' = Tail(script)

\* Only the control connection is closed.
close_control == open' = open \ {"control"}

\* close of the protocol objects: what there is of the data connection, the listening
\* socket and the control connection.
close == open' = open \cap {"lost"}

\* A data connection the client closes has ended for the server.
EndData == data' = [data EXCEPT !.ended = @ \/ "data" \in open]

\* try on a failure: the finalizer closes the object, then protect turns the exception
\* into nil and a message.
Raise ==
    /\ result' = "error" /\ script' = <<>> /\ close /\ EndData

\* A call of the client fails.
Fails(bound) == (IF bound THEN UNCHANGED faults ELSE Fault) /\ Raise

\* tp.connect.
Connect ==
    /\ Doing("open")
    /\ \/ /\ open' = {"control"} /\ Onward
          /\ server' = [server EXCEPT !.mode = "greeting"]
          /\ UNCHANGED <<result, faults, data>>
       \/ Fails(FALSE) /\ UNCHANGED server
    /\ UNCHANGED <<job, code, begun, left, got, asked, toserver, replies>>

\* tp:command and tp:send.
command ==
    /\ Doing("command")
    /\ \/ /\ toserver' = Append(toserver, Head(script).name) /\ asked' = asked + 1 /\ Onward
          /\ UNCHANGED <<open, result, faults, data>>
       \/ Fails(server.mode = "away") /\ UNCHANGED <<toserver, asked>>
    /\ UNCHANGED <<job, code, begun, left, got, replies, server>>

\* A line with a code and a blank ends any reply.
Ends_any(line) == line.sep = "blank"

\* Does the line end the reply?
Ends(line) == line.sep = "blank" /\ begun \in {0, line.code}

\* tp:check: the lines of a reply, and its code against what is expected.
check ==
    /\ Doing("check")
    /\ \/ /\ replies = <<>> /\ Fails(ServerWaits) /\ UNCHANGED <<code, begun, replies>>
       \/ /\ replies # <<>> /\ replies' = Tail(replies)
          /\ LET line == Head(replies)
                 first == IF begun = 0 THEN line.code ELSE begun
             IN
             IF ~Ends(line)
             THEN begun' = first /\ UNCHANGED <<code, script, open, result, data>>
             ELSE /\ begun' = 0
                  /\ IF Matches(first, Head(script).ok)
                     THEN code' = first /\ Onward /\ UNCHANGED <<open, result, data>>
                     ELSE Raise /\ UNCHANGED code
          /\ UNCHANGED faults
    /\ UNCHANGED <<job, left, got, asked, toserver, server>>

branch ==
    /\ Doing("if")
    /\ script' = (IF Matches(code, Head(script).ok) THEN Head(script).yes ELSE Head(script).no)
                    \o Tail(script)
    /\ UNCHANGED <<job, code, begun, open, left, got, result, asked, toserver, replies, data,
                   server, faults>>

\* A source that fails ends the message like one that has ended.
SourceFails_ends == Fault /\ Onward /\ UNCHANGED <<open, result, data>>

\* pump.all returns nil for a source that fails, which is an exception.
SourceFails == Fails(FALSE)

\* tp:source, over a sink that keeps the connection open.
source ==
    /\ Doing("source")
    /\ \/ /\ left > 0 /\ left' = left - 1 /\ toserver' = Append(toserver, "block")
          /\ UNCHANGED <<script, open, result, faults, data>>
       \/ left = 0 /\ Onward /\ UNCHANGED <<left, toserver, open, result, faults, data>>
       \/ left > 0 /\ SourceFails /\ UNCHANGED <<left, toserver>>
    /\ UNCHANGED <<job, code, begun, got, asked, replies, server>>

\* pasvconnect, or portconnect with the connection the server makes.
DataConnection ==
    /\ Doing("connect") \/ Doing("accept")
    /\ \/ /\ Doing("accept") => data.made
          /\ open' = open \cup {"data"} /\ data' = [data EXCEPT !.made = TRUE] /\ Onward
          /\ UNCHANGED <<result, faults>>
       \/ Fails(Doing("accept") /\ ~data.made /\ ServerWaits)
    /\ UNCHANGED <<job, code, begun, left, got, asked, toserver, replies, server>>

\* port and eprt listen, on a socket that takes the place of an earlier one; pasv and epsv
\* close the socket of an earlier port.
listen ==
    /\ \/ /\ Doing("listen") /\ Onward
          /\ open' = open \cup {"server"} \cup (IF "server" \in open THEN {"lost"} ELSE {})
          /\ UNCHANGED <<result, faults, data>>
       \/ /\ Doing("passive") /\ Onward /\ open' = open \ {"server"}
          /\ UNCHANGED <<result, faults, data>>
       \/ (Doing("listen") \/ Doing("passive")) /\ Fails(FALSE)
    /\ UNCHANGED <<job, code, begun, left, got, asked, toserver, replies, server>>

\* The connection is left open for the call that follows the reply.
SourceEnds_open == Onward /\ UNCHANGED <<open, data>>

\* The sink closes the connection when the source ends: the server waits for it.
SourceEnds == Onward /\ open' = open \ {"data"} /\ EndData

\* The pump of send: the sink is close-when-done.
upload ==
    /\ Doing("upload")
    /\ \/ /\ left > 0 /\ ~data.cut
          /\ left' = left - 1 /\ data' = [data EXCEPT !.flow = @ + 1]
          /\ UNCHANGED <<script, open, result, faults>>
       \/ left = 0 /\ SourceEnds /\ UNCHANGED <<left, result, faults>>
       \/ left > 0 /\ Fails(data.cut) /\ UNCHANGED left
    /\ UNCHANGED <<job, code, begun, got, asked, toserver, replies, server>>

\* The pump of receive: the source is until-closed, and cannot tell an end from a break.
download ==
    /\ Doing("download")
    /\ \/ /\ data.flow > 0
          /\ data' = [data EXCEPT !.flow = @ - 1] /\ got' = Append(got, "block")
          /\ UNCHANGED <<script, open, result, faults>>
       \/ /\ data.flow = 0 /\ data.ended
          /\ Onward /\ open' = open \ {"data"}
          /\ UNCHANGED <<got, data, result, faults>>
       \/ /\ Fails(data.flow = 0 /\ ~data.ended /\ ServerWaits) /\ UNCHANGED got
    /\ UNCHANGED <<job, code, begun, left, asked, toserver, replies, server>>

\* A reply that says all there is is what the sink gets.
sink_reply ==
    /\ Doing("sink_reply") /\ Onward /\ got' = Append(got, "reply")
    /\ UNCHANGED <<job, code, begun, open, left, result, asked, toserver, replies, data, server,
                   faults>>

close_data ==
    /\ Doing("close_data") /\ Onward /\ open' = open \ {"data"} /\ EndData
    /\ UNCHANGED <<job, code, begun, left, got, result, asked, toserver, replies, server, faults>>

\* The last call, and the exception for an authentication that is not supported.
finish ==
    /\ \/ /\ Doing("close") /\ result' = "done" /\ script' = <<>> /\ close /\ EndData
       \/ Doing("fail") /\ Raise
    /\ UNCHANGED <<job, code, begun, left, got, asked, toserver, replies, server, faults>>

Client ==
    \/ Connect \/ command \/ check \/ branch \/ source \/ DataConnection \/ listen \/ upload
    \/ download \/ sink_reply \/ close_data \/ finish

Server == Greets \/ Serves \/ TakesMessage \/ Transfers

Next == Client \/ Server \/ DataCut \/ ServerGone

Spec == Init /\ [][Next]_vars

-----------------------------------------------------------------------------
\* A server accepts no message but the whole one, once, for every recipient: what a
\* failing source or a lost connection leaves there is never taken for it.  A call that
\* succeeds has delivered the message, stored the file or given the sink all of it.
Whole ==
    /\ job.api = "send" =>
        /\ \A i \in DOMAIN server.accepted :
                server.accepted[i] = [rcpts |-> job.rcpts, size |-> Blocks]
        /\ Len(server.accepted) <= 1
        /\ result = "done" => Len(server.accepted) = 1
    /\ result = "done" /\ job.api = "put" => server.stored = Blocks
    /\ result = "done" /\ job.api = "get" =>
        got = IF job.direct THEN <<"reply">> ELSE [i \in 1..Blocks |-> "block"]

\* Client and server stay in step: the reply a check reads answers the last command,
\* however many lines and preliminary replies there were, unless a command was sent
\* that is not checked; and what the server takes for a command is one.
InStep ==
    /\ Doing("check") /\ replies # <<>> =>
        Head(replies).to = asked \/ (job.api = "command" /\ FALSE \in ToSet(job.checks))
    /\ server.mode = "command" /\ toserver # <<>> => Head(toserver) # "block"

\* "make sure everything gets closed in an exception".
ClosedInException == result = "error" => open = {}

\* Does the call listen twice, and never go back to a passive mode in between?
Relistens(j) ==
    \E m, n \in DOMAIN Script(j) :
        /\ m < n /\ Script(j)[m].op = "listen" /\ Script(j)[n].op = "listen"
        /\ \A i \in m + 1..n - 1 : Script(j)[i].op # "passive"

\* Every socket of a call is closed when it returns, whatever it was doing, but those that
\* another took the place of.
AllClosed == result # None => open = {} \/ (open = {"lost"} /\ Relistens(job))

\* A call fails only for a reason outside it: client and server never wait for each
\* other until the limit ends it.
NoStall == result = "error" => faults > 0 \/ (job.api = "send" /\ job.user /\ job.ext = None)
=============================================================================
