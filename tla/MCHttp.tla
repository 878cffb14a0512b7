------------------------------- MODULE MCHttp -------------------------------
(* Instances of Http for TLC. *)
EXTENDS Http

CONSTANTS u1, u2

Answer(code, frame, size, location) ==
    [code |-> code, frame |-> frame, body |-> size, location |-> location, trailer |-> FALSE,
     continue |-> FALSE]

After100(a) == [a EXCEPT !.continue = TRUE]

Trailed(a) == [a EXCEPT !.trailer = TRUE]

\* A document with every framing, a time-out of the server, the answers without a body,
\* the oldest protocol and the redirects of both documents, one of them with a body.
SomeAnswers ==
    {Answer(200, f, 3, None) : f \in {"length", "chunked", "both", "twice", "close"}} \cup
    {Trailed(Answer(200, f, 1, None)) : f \in {"chunked", "both"}} \cup
    {Answer(408, "length", 1, None), After100(Answer(408, "length", 1, None))} \cup
    {Answer(204, "length", 2, None), Answer(0, "close", 2, None), After100(Answer(0, "close", 0, None)),
     After100(Answer(200, "chunked", 1, None)), Answer(200, "length", 0, u1),
     Answer(301, "length", 1, u1), Answer(302, "close", 0, u2), Answer(307, "chunked", 1, "refused")}

\* Bodies of two pieces and of an empty one; and one with an empty piece in the middle.
SomeBodies == {<<2, 1>>, <<0>>}
GapBody == {<<2, 0, 1>>}

\* A server that says it has waited too long for the request, with a body.
TimedOut == {Answer(408, "length", 1, None)}

\* A document and a document that has moved there.
MovedAnswers == {Answer(200, "length", 2, None), Answer(301, "length", 0, u1)}
=============================================================================
