-------------------------------- MODULE Http --------------------------------
(***************************************************************************)
(* The HTTP client: http.lua over the sources and sinks of socket.lua and  *)
(* the pump of ltn12.lua, with the finalizer and the protected call of     *)
(* except.c around them.  One call of http.request, redirects included.    *)
(*                                                                         *)
(* A connection carries tokens: a line, a byte of a body, or the five      *)
(* bytes a status line is recognised by.                                   *)
(***************************************************************************)
EXTENDS Integers, Sequences, SequencesExt, FiniteSets

CONSTANTS
    Urls,       \* the documents there are
    Answers,    \* what a server may answer with, see Stream
    Methods,    \* the methods asked for
    Maxima,     \* the values of maxredirects
    BLOCKSIZE,  \* bytes a source reads at a time
    Bodies,     \* bodies that are uploaded: the sizes of the pieces their sources yield
    MaxFaults   \* bound: connections cut, calls that time out, sources and sinks that fail

None == "none"
NoLength == -1

ASSUME HttpAssumption ==
    /\ BLOCKSIZE \in Nat \ {0} /\ Bodies \subseteq Seq(Nat) /\ MaxFaults \in Nat /\ Maxima \subseteq Nat
    /\ Methods \subseteq {"GET", "HEAD", "POST"}
    /\ \A a \in Answers :
        /\ a.body \in Nat /\ a.code \in Nat /\ {a.continue, a.trailer} \subseteq BOOLEAN
        /\ a.frame \in {"length", "chunked", "both", "twice", "close"}
        /\ a.location \in Urls \cup {None, "refused"}

VARIABLES
    site,       \* the answer each url gets
    reqt,       \* the request table of the caller
    url,        \* the url being asked for
    method,     \* nreqt.method
    nredirects,
    pc,         \* "open", "upload", "status", "headers", "body", "return"
    conns,      \* the connections that are open, numbered by the redirects before them
    wire,       \* what the server has sent on the last one, or will send, before it closes
    status,     \* the code of the status line; 0: none (HTTP/0.9)
    source,     \* the source of the body: "chunked", "by-length", "until-closed"
    length,     \* the length in the headers, and what is left of it for a by-length source
    tosend,     \* the pieces the source of the upload has left
    faults,
    result,     \* what request came to: "done", "error" (nil and a message) or "raised"
    \* history
    got,        \* what the sink was given: url and number of each byte
    uploaded    \* the pieces or chunks the servers were sent, by their sizes

vars == <<site, reqt, url, method, nredirects, pc, conns, wire, status, source, length, tosend,
          faults, result, got, uploaded>>
request == <<site, reqt, url, method, nredirects>>
reading == <<status, source, length>>

-----------------------------------------------------------------------------
\* What a server sends.

Line(name, value) == [t |-> name, v |-> value]
Blank == Line("blank", 0)
Raw == Line("raw", 0)
Trailer == Line("trailer", 0)
Bytes(m, n) == [i \in 1..(n - m + 1) |-> Line("byte", m + i - 1)]

\* A chunk: its size, its bytes and the end of line after them.
Chunk(m, n) == <<Line("size", n - m + 1)>> \o Bytes(m, n) \o <<Blank>>

Coded(a) == a.frame \in {"chunked", "both"}

\* The headers: where the document is, and how the body is framed: a length, chunks,
\* both (chunks then), two lengths or nothing.
Fields(a) ==
    LET location == IF a.location = None THEN <<>> ELSE <<Line("location", a.location)>>
        size     == Line("length", a.body)
        lengths  == CASE a.frame \in {"length", "both"} -> <<size>>
                      [] a.frame = "twice" -> <<size, size>> [] OTHER -> <<>>
        encoding == IF Coded(a) THEN <<Line("encoding", "chunked")>> ELSE <<>>
    IN  location \o (lengths \o encoding)

\* The last chunk, with the trailers; and the chunks after the byte m.
LastChunk(a) == <<Line("size", 0)>> \o (IF a.trailer THEN <<Trailer, Blank>> ELSE <<Blank>>)
ChunksAfter(a, m) == IF m = a.body THEN LastChunk(a) ELSE Chunk(m + 1, a.body) \o LastChunk(a)

\* The body as it is sent: a first chunk of one byte, and the others in a second.
Framed(a) ==
    IF ~Coded(a) THEN Bytes(1, a.body)
    ELSE IF a.body = 0 THEN LastChunk(a) ELSE Chunk(1, 1) \o ChunksAfter(a, 1)

\* An answer of code 0 is HTTP/0.9, a body alone; after a 100 it is a line of no use.
Answered(a) ==
    IF a.code = 0 THEN <<Raw>> \o (IF a.continue THEN <<Blank>> ELSE Bytes(1, a.body))
    ELSE <<Line("status", a.code)>> \o (Fields(a) \o (<<Blank>> \o Framed(a)))

Stream(a) == (IF a.continue THEN <<Line("status", 100), Blank>> ELSE <<>>) \o Answered(a)

-----------------------------------------------------------------------------
Init ==
    /\ site \in [Urls -> Answers] /\ url \in Urls
    /\ reqt \in [method : Methods, source : BOOLEAN, body : Bodies \cup {<<>>}, length : BOOLEAN,
                 redirect : BOOLEAN, maxredirects : Maxima]
    /\ reqt.length \/ reqt.body # <<>> => reqt.source
    /\ method = reqt.method /\ nredirects = 0
    /\ pc = "open" /\ conns = {} /\ wire = <<>>
    /\ status = 0 /\ source = None /\ length = 0
    /\ tosend = reqt.body
    /\ faults = 0 /\ result = None /\ got = <<>> /\ uploaded = <<>>

Fault == faults < MaxFaults /\ faults' = faults + 1

\* h.try on a failure: the finalizer closes the connection, then protect turns the
\* exception into nil and a message.
Raise == pc' = "return" /\ result' = "error" /\ conns' = conns \ {nredirects}

\* An error of Lua is not an exception of try: the finalizer does not run and protect
\* lets it through.
Error == pc' = "return" /\ result' = "raised" /\ UNCHANGED conns

\* A call on the connection fails: it times out, or there is nothing more to read.
Fails(ended) == (IF ended THEN UNCHANGED faults ELSE Fault) /\ Raise

\* The server, or what is between, cuts the connection short.
Cut ==
    /\ pc # "return" /\ wire # <<>> /\ Fault
    /\ \E n \in 0..Len(wire) - 1 : wire' = SubSeq(wire, 1, n)
    /\ UNCHANGED <<request, pc, conns, reading, tosend, result, got, uploaded>>

\* open, sendrequestline and sendheaders: the connection is made and the request sent,
\* or one of the two fails.
open ==
    /\ pc = "open"
    /\ \/ /\ conns' = conns \cup {nredirects}
          /\ wire' = Stream(site[url])
          /\ pc' = IF reqt.source THEN "upload" ELSE "status"
          /\ UNCHANGED <<faults, result>>
       \/ Fails(FALSE) /\ UNCHANGED wire
    /\ UNCHANGED <<request, reading, tosend, got, uploaded>>

\* One step of the pump of sendbody.  A piece becomes a chunk of its size, an empty one
\* too.  Both sinks get the end of the source, also when the source has failed: the
\* chunked one then sends a chunk of no bytes, the last one.
sendbody ==
    /\ pc = "upload"
    /\ LET last == IF reqt.length THEN <<>> ELSE <<0>> IN
       \/ /\ tosend # <<>>
          /\ tosend' = Tail(tosend) /\ uploaded' = Append(uploaded, Head(tosend))
          /\ UNCHANGED <<pc, faults, result, conns>>
       \/ /\ tosend = <<>>
          /\ pc' = "status" /\ uploaded' = uploaded \o last
          /\ UNCHANGED <<tosend, faults, result, conns>>
       \/ /\ Fails(FALSE)
          /\ uploaded' \in {uploaded, uploaded \o last}
          /\ UNCHANGED tosend
    /\ UNCHANGED <<request, wire, reading, got>>

\* receivestatusline: five bytes tell a status line; anything else is HTTP/0.9, whose
\* body has begun with them, unless a 100 came before: then headers are expected.  A
\* first code of 408 ends the request with success, and the connection stays open.
receivestatusline ==
    /\ pc = "status"
    /\ \/ Fails(wire = <<>> \/ Head(wire).t \notin {"status", "raw"}) /\ UNCHANGED <<wire, reading>>
       \/ /\ wire # <<>> /\ Head(wire).t = "status"
          /\ status' = Head(wire).v /\ wire' = Tail(wire)
          /\ IF status # 100 /\ status' = 408
             THEN pc' = "return" /\ result' = "done"
             ELSE pc' = "headers" /\ UNCHANGED result
          /\ UNCHANGED <<conns, faults, source, length>>
       \/ /\ wire # <<>> /\ Head(wire).t = "raw"
          /\ IF status = 100
             THEN status' = 0 /\ wire' = Tail(wire) /\ pc' = "headers" /\ UNCHANGED source
             ELSE status' = 0 /\ source' = "until-closed" /\ pc' = "body" /\ UNCHANGED wire
          /\ UNCHANGED <<conns, faults, result, length>>
    /\ UNCHANGED <<request, tosend, got, uploaded>>

-----------------------------------------------------------------------------
\* receiveheaders and what follows from the headers.

\* The lines of a header end at the first blank one; 0: it is not there.
HeaderEnd(w) ==
    IF \E i \in DOMAIN w : w[i] = Blank THEN CHOOSE i \in DOMAIN w :
        w[i] = Blank /\ \A j \in 1..i - 1 : w[j] # Blank
    ELSE 0

\* Only lines of the form name: value are headers.
WellFormed(lines) ==
    \A i \in DOMAIN lines : lines[i].t \in {"location", "length", "encoding", "trailer"}

\* The values of a field given twice are joined, which for a length is not a number:
\* it has a value when exactly one line gives it.
IsField(lines, name, i) ==
    \A j \in DOMAIN lines : (lines[j].t = name) <=> (j = i)
Given(lines, name) == \E i \in DOMAIN lines : IsField(lines, name, i)
Field(lines, name) == lines[CHOOSE i \in DOMAIN lines : IsField(lines, name, i)].v

\* maxredirects = false, which allows any number of redirects, is not among Maxima.
shouldredirect(location) ==
    /\ location \in Urls
    /\ reqt.redirect
    /\ status \in {301, 302, 303, 307}
    /\ method \in {"GET", "HEAD"}
    /\ nredirects < reqt.maxredirects

\* Also when the source of the upload has been used.
MayRedirect_any(location) == shouldredirect(location)

\* "we can't redirect if we already used the source".
MayRedirect(location) == shouldredirect(location) /\ ~reqt.source

shouldreceivebody == method # "HEAD" /\ status \notin {204, 304} /\ status \notin 100..199

\* The length, when there is one, decides.
receivebody_length_first(lines) ==
    /\ source' = IF Given(lines, "length") THEN "by-length"
                 ELSE IF Given(lines, "encoding") THEN "chunked" ELSE "until-closed"
    /\ length' = IF Given(lines, "length") THEN Field(lines, "length") ELSE NoLength

\* How the body is read: a transfer coding comes before a length, and without either
\* the body ends with the connection.
receivebody(lines) ==
    /\ source' = IF Given(lines, "encoding") THEN "chunked"
                 ELSE IF Given(lines, "length") THEN "by-length" ELSE "until-closed"
    /\ length' = IF Given(lines, "length") THEN Field(lines, "length") ELSE NoLength

Done == pc' = "return" /\ result' = "done" /\ conns' = conns \ {nredirects}

\* The count of redirects starts again.
tredirect_not_counted(location) ==
    /\ pc' = "open" /\ url' = location /\ method' = "GET"
    /\ conns' = conns \ {nredirects}
    /\ UNCHANGED <<nredirects, result>>

\* The new request starts while the old connection is open.
tredirect_unclosed(location) ==
    /\ pc' = "open" /\ url' = location /\ method' = "GET"
    /\ nredirects' = nredirects + 1
    /\ UNCHANGED <<conns, result>>

\* The connection is closed and the new request made, without the method of the old.
tredirect(location) ==
    /\ pc' = "open" /\ url' = location /\ method' = "GET"
    /\ nredirects' = nredirects + 1
    /\ conns' = conns \ {nredirects}
    /\ UNCHANGED result

\* Headers that are not all there, or not headers, raise an exception.  Those of a 100
\* are dropped.  A status line that never came has no code, and comparing it is an
\* error of Lua.
receiveheaders ==
    /\ pc = "headers"
    /\ LET n     == HeaderEnd(wire)
           lines == SubSeq(wire, 1, n - 1)
           location == IF Given(lines, "location") THEN Field(lines, "location") ELSE None
       IN
       \/ /\ Fails(n = 0 \/ ~WellFormed(lines))
          /\ UNCHANGED <<wire, url, method, nredirects, reading>>
       \/ /\ n # 0 /\ WellFormed(lines)
          /\ wire' = SubSeq(wire, n + 1, Len(wire))
          /\ UNCHANGED <<faults, status>>
          /\ CASE status = 100 ->
                    /\ pc' = "status"
                    /\ UNCHANGED <<url, method, nredirects, conns, result, source, length>>
               [] status # 100 /\ MayRedirect(location) ->
                    tredirect(location) /\ UNCHANGED <<source, length>>
               [] OTHER ->
                    /\ UNCHANGED <<url, method, nredirects>>
                    /\ IF status = 0 /\ method # "HEAD"
                       THEN Error /\ UNCHANGED <<source, length>>
                       ELSE IF shouldreceivebody
                       THEN pc' = "body" /\ receivebody(lines) /\ UNCHANGED <<conns, result>>
                       ELSE Done /\ UNCHANGED <<source, length>>
    /\ UNCHANGED <<site, reqt, tosend, got, uploaded>>

-----------------------------------------------------------------------------
\* One step of the pump of receivebody or receive09body: n tokens go to the sink,
\* after skip others.
Gives(n, skip) ==
    /\ got' = got \o [i \in 1..n |-> <<url, wire[i + skip]>>]
    /\ UNCHANGED <<faults, result>>

\* -1: there is no chunk size to read.
ChunkSize == IF wire # <<>> /\ Head(wire).t = "size" THEN Head(wire).v ELSE -1

\* A chunk and the end of line after it, whatever that is; or the last chunk, which
\* must be followed by the trailers.  The source takes the length of the headers, if
\* there was one, for the table the trailers go to: indexing it is an error of Lua.
chunked ==
    /\ source = "chunked"
    /\ \/ Fails(\/ ChunkSize = -1
                \/ ChunkSize > 0 /\ ChunkSize >= Len(wire)
                \/ ChunkSize = 0 /\ HeaderEnd(wire) = 0)
          /\ UNCHANGED <<wire, got>>
       \/ /\ ChunkSize > 0 /\ ChunkSize < Len(wire)
          /\ Gives(ChunkSize, 1)
          /\ wire' = SubSeq(wire, ChunkSize + 3, Len(wire))
          /\ UNCHANGED <<pc, conns>>
       \/ /\ ChunkSize = 0 /\ HeaderEnd(wire) # 0
          /\ IF HeaderEnd(wire) > 2 /\ length # NoLength THEN Error ELSE Done
          /\ UNCHANGED <<wire, got, faults>>
    /\ UNCHANGED length

by_length ==
    /\ source = "by-length"
    /\ LET size == IF length < BLOCKSIZE THEN length ELSE BLOCKSIZE IN
       \/ /\ length > 0 /\ Fails(size > Len(wire))
          /\ UNCHANGED <<wire, got, length>>
       \/ /\ length > 0 /\ size <= Len(wire)
          /\ Gives(size, 0)
          /\ wire' = SubSeq(wire, size + 1, Len(wire)) /\ length' = length - size
          /\ UNCHANGED <<pc, conns>>
       \/ length = 0 /\ Done /\ UNCHANGED <<wire, got, faults, length>>

\* The end of the connection is the end of the body, and what came before it is given
\* to the sink.
until_closed ==
    /\ source = "until-closed"
    /\ LET size == IF Len(wire) < BLOCKSIZE THEN Len(wire) ELSE BLOCKSIZE IN
       \/ Fails(FALSE) /\ UNCHANGED <<wire, got>>
       \/ /\ got' = got \o [i \in 1..size |-> <<url, wire[i]>>]
          /\ wire' = SubSeq(wire, size + 1, Len(wire))
          /\ IF size = BLOCKSIZE THEN UNCHANGED <<pc, conns, result>> ELSE Done
          /\ UNCHANGED faults
    /\ UNCHANGED length

body ==
    /\ pc = "body"
    /\ chunked \/ by_length \/ until_closed
    /\ UNCHANGED <<request, status, source, tosend, uploaded>>

Client == open \/ sendbody \/ receivestatusline \/ receiveheaders \/ body

Next == Client \/ Cut

Spec == Init /\ [][Next]_vars

\* No read waits for ever: the connection has a limit of TIMEOUT seconds.
FairSpec == Spec /\ WF_vars(Client)

-----------------------------------------------------------------------------
\* The body of the answer of u to the method in use.
Body(u) ==
    LET a == site[u]
        bytes == IF a.code = 0 THEN <<Raw>> \o Bytes(1, a.body)
                 ELSE IF shouldreceivebody THEN Bytes(1, a.body) ELSE <<>>
    IN
    [i \in DOMAIN bytes |-> <<u, bytes[i]>>]

\* The answer whose first status line has the code 408, which request takes for a limit
\* of its own: it returns at once.
Abandoned(a) == a.code = 408 /\ ~a.continue

\* "If successful, ... the first return value is just the number 1 (the body goes to the
\* sink)": unless the end of the connection is the end of the body, and may come early.
BodyToSink ==
    /\ result = "done" /\ site[url].code # 0
    /\ site[url].frame \in {"length", "chunked", "both"}
    => got = Body(url)

\* The sink is given the body of the answer the call ends with, of no other, byte for
\* byte in order: the whole of it when request succeeds, but nothing of an answer that
\* is abandoned.
BodyExact ==
    pc \in {"body", "return"} /\ status # 100 =>
        /\ IsPrefix(got, Body(url))
        /\ IF result = "done" /\ Abandoned(site[url]) THEN got = <<>> ELSE BodyToSink

Empties == {i \in DOMAIN uploaded : uploaded[i] = 0}

\* "we can't redirect if we already used the source": a request that succeeds has sent
\* its body once, whole, to one server, and the end of a chunked one after it.  The end
\* of a body is never told twice, nor before its end, if none of its pieces is empty.
UploadExact ==
    /\ result = "done" =>
        uploaded = reqt.body \o (IF reqt.source /\ ~reqt.length THEN <<0>> ELSE <<>>)
    /\ (\A i \in DOMAIN reqt.body : reqt.body[i] # 0) => Empties \subseteq {Len(uploaded)}

\* "sends data through socket after applying the chunked transfer coding": the first chunk
\* of no bytes ends the body, and nothing is sent after it.
ChunkedCoding == reqt.source /\ ~reqt.length => Empties \subseteq {Len(uploaded)}

\* "do everything reassured c will be closed": a request that has returned leaves no
\* connection open, redirects and exceptions of any depth included.
NoneOpen == result \in {"done", "error"} => conns = {}

\* One connection is open at a time, and none after the request, except that of an
\* answer that is abandoned.
ClosedOnReturn ==
    /\ IF result = "done" /\ Abandoned(site[url]) THEN conns = {nredirects} ELSE NoneOpen
    /\ Cardinality(conns) <= 1

\* request returns: servers that redirect to each other for ever do not keep it.
Returns == <>(pc = "return")

\* HEAD "requests information about a document, without downloading it".
HeadDownloadsNothing == reqt.method = "HEAD" => got = <<>>
=============================================================================
