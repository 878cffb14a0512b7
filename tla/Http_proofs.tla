----------------------------- MODULE Http_proofs -----------------------------
(***************************************************************************)
(* What holds of a request however many redirects, failures and answers it *)
(* goes through: theorems about Http.                                      *)
(***************************************************************************)
EXTENDS Http, FiniteSetTheorems, TLAPS

\* The upload.

\* One sequence after the other.
LEMMA Joined ==
    ASSUME NEW S, NEW x \in Seq(S), NEW s \in Seq(S)
    PROVE  /\ x \o s \in Seq(S) /\ Len(x \o s) = Len(x) + Len(s)
           /\ \A i \in 1..Len(x) : (x \o s)[i] = x[i]
           /\ \A i \in 1..Len(s) : (x \o s)[Len(x) + i] = s[i]
OBVIOUS

Ending == IF reqt.length THEN <<>> ELSE <<0>>

\* How far the upload is, by the place of the request: a request with a source is made
\* once, because it is never redirected.
UploadInv ==
    /\ reqt.source \in BOOLEAN /\ reqt.body \in Seq(Nat)
    /\ tosend \in Seq(Nat) /\ uploaded \in Seq(Nat)
    /\ pc \in {"open", "upload", "status", "headers", "body", "return"}
    /\ result = "done" => pc = "return"
    /\ ~reqt.source => reqt.body = <<>> /\ uploaded = <<>> /\ pc # "upload"
    /\ reqt.source =>
        /\ pc = "open" => tosend = reqt.body /\ uploaded = <<>>
        /\ pc = "upload" => uploaded \o tosend = reqt.body
        /\ pc \in {"status", "headers", "body"} \/ result = "done" => uploaded = reqt.body \o Ending
        /\ pc = "return" => \E m, n \in Seq(Nat) : m \o n = reqt.body /\ uploaded \in {m, m \o Ending}

\* One piece more.
LEMMA PieceSent ==
    ASSUME NEW S, NEW m \in Seq(S), NEW n \in Seq(S), n # <<>>
    PROVE  /\ Append(m, Head(n)) \in Seq(S) /\ Tail(n) \in Seq(S)
           /\ Append(m, Head(n)) \o Tail(n) = m \o n
<1> DEFINE a == Append(m, Head(n))
           t == Tail(n)
<1>1. a \in Seq(S) /\ Len(a) = Len(m) + 1 /\ a[Len(m) + 1] = n[1] /\ \A i \in 1..Len(m) : a[i] = m[i]
  OBVIOUS
<1>2. t \in Seq(S) /\ Len(t) = Len(n) - 1 /\ \A i \in 1..(Len(n) - 1) : t[i] = n[i + 1]
  OBVIOUS
<1>3. Len(m) \in Nat /\ Len(n) \in Nat /\ Len(n) >= 1
  OBVIOUS
<1> HIDE DEF a, t
<1>4. /\ a \o t \in Seq(S) /\ Len(a \o t) = Len(a) + Len(t)
      /\ \A i \in 1..Len(a) : (a \o t)[i] = a[i]
      /\ \A i \in 1..Len(t) : (a \o t)[Len(a) + i] = t[i]
  <2>1. a \in Seq(S) /\ t \in Seq(S)
    BY <1>1, <1>2
  <2>2. QED BY <2>1, Joined
<1>5. /\ m \o n \in Seq(S) /\ Len(m \o n) = Len(m) + Len(n)
      /\ \A i \in 1..Len(m) : (m \o n)[i] = m[i]
      /\ \A i \in 1..Len(n) : (m \o n)[Len(m) + i] = n[i]
  BY Joined
<1>6. ASSUME NEW i \in 1..(Len(m) + Len(n)) PROVE (a \o t)[i] = (m \o n)[i]
  <2>1. CASE i <= Len(m)
    BY <1>1, <1>3, <1>4, <1>5, <2>1
  <2>2. CASE i = Len(m) + 1
    BY <1>1, <1>3, <1>4, <1>5, <2>2
  <2>3. CASE i > Len(m) + 1
    <3>1. PICK j \in 1..Len(t) : i = Len(a) + j
      <4>1. i - Len(a) \in 1..Len(t) /\ i = Len(a) + (i - Len(a))
        BY <1>1, <1>2, <1>3, <2>3
      <4>2. QED BY <4>1
    <3>2. j + 1 \in 1..Len(n) /\ i = Len(m) + (j + 1) /\ j \in 1..(Len(n) - 1)
      BY <1>1, <1>2, <1>3, <3>1
    <3>3. (a \o t)[i] = t[j] /\ (m \o n)[i] = n[j + 1]
      BY <1>4, <1>5, <3>1, <3>2
    <3>4. QED BY <1>2, <3>2, <3>3
  <2>4. i <= Len(m) \/ i = Len(m) + 1 \/ i > Len(m) + 1
    BY <1>3
  <2>5. QED BY ONLY <2>1, <2>2, <2>3, <2>4
<1>7. Len(a \o t) = Len(m \o n) /\ Len(a \o t) = Len(m) + Len(n)
  BY <1>1, <1>2, <1>3, <1>4, <1>5
<1>8. a \o t = m \o n
  BY <1>4, <1>5, <1>6, <1>7
<1>9. QED BY <1>1, <1>2, <1>8 DEF a, t

LEMMA NothingJoined ==
    ASSUME NEW s \in Seq(Nat)
    PROVE  <<>> \o s = s /\ s \o <<>> = s /\ <<>> \in Seq(Nat) /\ s \o <<0>> \in Seq(Nat)
OBVIOUS

LEMMA NextUploadInv == UploadInv /\ [Next]_vars => UploadInv'
<1> SUFFICES ASSUME UploadInv, [Next]_vars PROVE UploadInv'
  OBVIOUS
<1> USE DEF UploadInv
<1>0. /\ \A s \in Seq(Nat) : <<>> \o s = s /\ s \o <<>> = s /\ s \o Ending \in Seq(Nat)
      /\ <<>> \in Seq(Nat) /\ <<>> \o Ending = Ending
  <2>1. <<>> \in Seq(Nat) /\ <<>> \o <<>> = <<>> /\ <<>> \o <<0>> = <<0>>
    OBVIOUS
  <2>2. QED BY <2>1, NothingJoined DEF Ending
<1>1. CASE open
  <2>1. UNCHANGED <<reqt, tosend, uploaded>> /\ pc = "open" /\ pc' \in {"upload", "status", "return"}
    BY <1>1 DEF open, request, Fails, Raise
  <2>2. result' # "done" /\ (pc' = "upload" => reqt.source) /\ (pc' = "status" => ~reqt.source)
    BY <1>1 DEF open, Fails, Raise
  <2>3. reqt.source => <<>> \o reqt.body = reqt.body /\ uploaded \o tosend = reqt.body
    BY <1>0, <2>1
  <2>4. QED BY <1>0, <2>1, <2>2, <2>3 DEF Ending
<1>2. CASE sendbody
  <2>0. reqt' = reqt /\ Ending' = Ending /\ pc = "upload" /\ reqt.source /\ result # "done"
        /\ uploaded \o tosend = reqt.body
    BY <1>2 DEF sendbody, request, Ending
  <2>1. CASE /\ tosend # <<>> /\ tosend' = Tail(tosend) /\ uploaded' = Append(uploaded, Head(tosend))
             /\ UNCHANGED <<pc, faults, result, conns>>
    <3>1. uploaded' \o tosend' = reqt.body /\ uploaded' \in Seq(Nat) /\ tosend' \in Seq(Nat)
      <4>1. PICK S : S = Nat
        OBVIOUS
      <4>2. uploaded \in Seq(S) /\ tosend \in Seq(S) /\ tosend # <<>>
        BY <2>1, <4>1
      <4>3. /\ Append(uploaded, Head(tosend)) \in Seq(S) /\ Tail(tosend) \in Seq(S)
            /\ Append(uploaded, Head(tosend)) \o Tail(tosend) = uploaded \o tosend
        BY <4>2, PieceSent
      <4>4. QED BY <2>0, <2>1, <4>1, <4>3
    <3>2. QED BY <2>0, <2>1, <3>1
  <2>2. CASE tosend = <<>> /\ pc' = "status" /\ uploaded' = uploaded \o Ending
             /\ UNCHANGED <<tosend, faults, result, conns>>
    <3>1. uploaded = reqt.body
      BY <1>0, <2>0, <2>2
    <3>2. uploaded' \in Seq(Nat)
      BY <1>0, <2>2
    <3>3. QED BY <2>0, <2>2, <3>1, <3>2
  <2>3. CASE Fails(FALSE) /\ uploaded' \in {uploaded, uploaded \o Ending} /\ UNCHANGED tosend
    <3>1. uploaded' \in Seq(Nat) /\ pc' = "return" /\ result' = "error"
      BY <1>0, <2>3 DEF Fails, Raise
    <3>2. QED BY <2>0, <2>3, <3>1
  <2>4. QED BY <1>2, <2>1, <2>2, <2>3 DEF sendbody, Ending
<1>3. ASSUME UNCHANGED <<reqt, tosend, uploaded>>,
             pc \in {"status", "headers", "body"}, pc' \in {"status", "headers", "body", "return"},
             result' = "done" => pc' = "return"
      PROVE  UploadInv'
  <2>1. Ending' = Ending
    BY <1>3 DEF Ending
  <2>2. reqt.source => uploaded = reqt.body \o Ending /\ reqt.body \o <<>> = reqt.body
    BY <1>0, <1>3
  <2>3. QED BY <1>0, <1>3, <2>1, <2>2
<1>4. CASE receivestatusline
  <2>1. UNCHANGED <<reqt, tosend, uploaded>> /\ pc = "status" /\ pc' \in {"headers", "body", "return"}
        /\ (result' = "done" => pc' = "return")
    BY <1>4 DEF receivestatusline, request, Fails, Raise
  <2>2. QED BY <1>3, <2>1
<1>5. CASE receiveheaders
  <2>1. UNCHANGED <<reqt, tosend, uploaded>> /\ pc = "headers"
    BY <1>5 DEF receiveheaders
  <2>2. \/ pc' \in {"status", "body", "return"} /\ (result' = "done" => pc' = "return")
        \/ pc' = "open" /\ ~reqt.source /\ result' = result
    BY <1>5 DEF receiveheaders, Fails, Raise, Error, Done, tredirect, MayRedirect
  <2>3. QED BY <1>3, <2>1, <2>2
<1>6. CASE body
  <2>1. UNCHANGED <<reqt, tosend, uploaded>> /\ pc = "body"
    BY <1>6 DEF body, request
  <2>2. pc' \in {"body", "return"} /\ (result' = "done" => pc' = "return")
    BY <1>6 DEF body, chunked, by_length, until_closed, Gives, Fails, Raise, Error, Done
  <2>3. QED BY <1>3, <2>1, <2>2
<1>7. CASE Cut \/ UNCHANGED vars
  BY <1>7 DEF Cut, vars, request, Ending
<1>8. QED BY <1>1, <1>2, <1>4, <1>5, <1>6, <1>7 DEF Next, Client

Without(b, z) == \A i \in DOMAIN b : b[i] # z
OnlyLast(b, z) == \A i \in DOMAIN b : b[i] = z => i = Len(b)

\* The beginning of a body without empty pieces has none, and its end is the only chunk
\* of no bytes after it.
LEMMA EmptiesLast ==
    ASSUME NEW S, NEW z \in S, NEW m \in Seq(S), NEW n \in Seq(S),
           Without(m \o n, z)
    PROVE  OnlyLast(m, z) /\ OnlyLast(m \o <<z>>, z)
<1>1. Len(m) \in Nat /\ Len(n) \in Nat /\ DOMAIN m = 1..Len(m) /\ m \o <<>> = m
  OBVIOUS
<1>2. DOMAIN (m \o n) = 1..(Len(m) + Len(n)) /\ \A i \in 1..Len(m) : (m \o n)[i] = m[i]
  BY <1>1, Joined
<1>3. \A i \in 1..Len(m) : i \in DOMAIN (m \o n) /\ m[i] # z
  BY <1>1, <1>2 DEF Without
<1>4. OnlyLast(m, z)
  BY <1>1, <1>3 DEF OnlyLast
<1>5. OnlyLast(m \o <<z>>, z)
  <2>0. <<z>> \in Seq(S) /\ Len(<<z>>) = 1
    OBVIOUS
  <2> DEFINE u == m \o <<z>>
  <2>1. Len(u) = Len(m) + 1 /\ DOMAIN u = 1..(Len(m) + 1) /\ \A i \in 1..Len(m) : u[i] = m[i]
    BY <1>1, <2>0, Joined
  <2> HIDE DEF u
  <2>2. ASSUME NEW i \in DOMAIN u, u[i] = z PROVE i = Len(u)
    <3>1. i \notin 1..Len(m)
      BY <1>3, <2>1, <2>2
    <3>2. QED BY <1>1, <2>1, <3>1
  <2>3. QED BY <2>2 DEF OnlyLast, u
<1>6. QED BY <1>4, <1>5

\* A request that succeeds has sent its body once, whole, in the pieces its source
\* yields, and the end of a chunked one after them: a source that has been used is not
\* used again (http.lua:384).  When no piece is empty, the end of a body is told once
\* and last, whatever fails (http.lua:104-115).
THEOREM UploadCorrect == Spec => []UploadExact
<1>1. Init => UploadInv
  <2> SUFFICES ASSUME Init PROVE UploadInv
    OBVIOUS
  <2>0. <<>> \in Seq(Nat)
    OBVIOUS
  <2>1. reqt.body \in Seq(Nat) /\ reqt.source \in BOOLEAN
    BY <2>0, HttpAssumption DEF Init
  <2>2. QED BY <2>0, <2>1 DEF Init, UploadInv, None
<1>2. UploadInv => UploadExact
  <2> SUFFICES ASSUME UploadInv PROVE UploadExact
    OBVIOUS
  <2>0. 0 \in Nat /\ <<>> \in Seq(Nat) /\ <<>> \o <<>> = <<>> /\ \A s \in Seq(Nat) : <<>> \o s = s /\ s \o <<>> = s
    BY NothingJoined
  <2>1. \E m, n \in Seq(Nat) : m \o n = reqt.body /\ uploaded \in {m, m \o Ending}
    <3>1. ASSUME uploaded \in {<<>>, reqt.body \o Ending} \/ uploaded \o tosend = reqt.body
          PROVE  \E m, n \in Seq(Nat) : m \o n = reqt.body /\ uploaded \in {m, m \o Ending}
      <4>1. reqt.body \in Seq(Nat) /\ uploaded \in Seq(Nat) /\ tosend \in Seq(Nat)
        BY DEF UploadInv
      <4>2. <<>> \o reqt.body = reqt.body /\ reqt.body \o <<>> = reqt.body
        BY <2>0, <4>1
      <4>3. QED BY <2>0, <3>1, <4>1, <4>2
    <3>2. CASE ~reqt.source \/ pc \in {"open", "upload", "status", "headers", "body"}
      BY <3>1, <3>2 DEF UploadInv
    <3>3. CASE reqt.source /\ pc = "return"
      BY <3>3 DEF UploadInv
    <3>4. QED BY <3>2, <3>3 DEF UploadInv
  <2>2. ASSUME \A i \in DOMAIN reqt.body : reqt.body[i] # 0 PROVE Empties \subseteq {Len(uploaded)}
    <3>1. PICK m, n \in Seq(Nat) : m \o n = reqt.body /\ uploaded \in {m, m \o Ending}
      BY <2>1
    <3>2. OnlyLast(m, 0) /\ OnlyLast(m \o <<0>>, 0)
      <4>1. PICK S : S = Nat
        OBVIOUS
      <4>2. m \in Seq(S) /\ n \in Seq(S) /\ 0 \in S /\ Without(m \o n, 0)
        BY <2>2, <3>1, <4>1 DEF Without
      <4>3. QED BY <4>2, EmptiesLast
    <3>3. uploaded \in {m, m \o <<0>>}
      BY <2>0, <3>1 DEF Ending
    <3>4. QED BY <3>2, <3>3 DEF Empties, OnlyLast
  <2>3. ASSUME result = "done"
        PROVE  uploaded = reqt.body \o (IF reqt.source /\ ~reqt.length THEN <<0>> ELSE <<>>)
    <3>1. CASE reqt.source
      BY <2>3, <3>1 DEF UploadInv, Ending
    <3>2. CASE ~reqt.source
      BY <2>0, <2>3, <3>2 DEF UploadInv
    <3>3. QED BY <3>1, <3>2 DEF UploadInv
  <2>4. QED BY <2>2, <2>3 DEF UploadExact
<1>3. QED BY <1>1, <1>2, NextUploadInv, PTL DEF Spec
-----------------------------------------------------------------------------
\* Sequences that begin alike.

Begins(w, s) == Len(w) <= Len(s) /\ \A i \in 1..Len(w) : w[i] = s[i]

\* What is left when the end is cut off.
LEMMA CutBegins ==
    ASSUME NEW S, NEW w \in Seq(S), NEW s \in Seq(S), Begins(w, s), NEW n \in 0..Len(w)
    PROVE  SubSeq(w, 1, n) \in Seq(S) /\ Begins(SubSeq(w, 1, n), s)
<1>1. SubSeq(w, 1, n) \in Seq(S) /\ Len(SubSeq(w, 1, n)) = n /\ \A i \in 1..n : SubSeq(w, 1, n)[i] = w[i]
  OBVIOUS
<1>2. QED BY <1>1 DEF Begins

\* What is left when the beginning has been read.
LEMMA DropBegins ==
    ASSUME NEW S, NEW w \in Seq(S), NEW x \in Seq(S), NEW s \in Seq(S), Begins(w, x \o s)
    PROVE  /\ SubSeq(w, Len(x) + 1, Len(w)) \in Seq(S)
           /\ Begins(SubSeq(w, Len(x) + 1, Len(w)), s)
<1> DEFINE r == SubSeq(w, Len(x) + 1, Len(w))
<1>0. Len(w) \in Nat /\ Len(x) \in Nat /\ Len(s) \in Nat
  OBVIOUS
<1>1. Len(x \o s) = Len(x) + Len(s) /\ \A i \in 1..Len(s) : (x \o s)[Len(x) + i] = s[i]
  OBVIOUS
<1>2. CASE Len(w) <= Len(x)
  <2>1. r = <<>>
    BY <1>0, <1>2
  <2> HIDE DEF r
  <2>2. r \in Seq(S) /\ Len(r) = 0
    BY <2>1
  <2>3. Begins(r, s)
    BY <1>0, <2>2 DEF Begins
  <2>4. QED BY <2>2, <2>3 DEF r
<1>3. CASE Len(w) > Len(x)
  <2>1. Len(x) + 1 \in Nat /\ Len(x) + 1 >= 1
    BY <1>0
  <2>2. /\ r \in Seq(S) /\ Len(r) = Len(w) - Len(x)
        /\ \A i \in 1..(Len(w) - Len(x)) : r[i] = w[Len(x) + i]
    <3>1. \A i \in (Len(x) + 1)..Len(w) : w[i] \in S
      BY <1>0
    <3>2. Len(r) = Len(w) - Len(x)
      BY <1>0, <1>3
    <3>3. \A i \in 1..(Len(w) - Len(x)) : r[i] = w[i + (Len(x) + 1) - 1]
      BY <1>0, <1>3
    <3>4. \A i \in Int : i + (Len(x) + 1) - 1 = Len(x) + i
      BY <1>0
    <3>5. r \in Seq(S)
      BY <1>0, <1>3, <3>1
    <3>6. QED BY <3>2, <3>3, <3>4, <3>5
  <2>3. Len(w) <= Len(x) + Len(s) /\ \A i \in 1..Len(w) : w[i] = (x \o s)[i]
    BY <1>1 DEF Begins
  <2>4. ASSUME NEW i \in 1..Len(r) PROVE r[i] = s[i]
    <3>1. i \in 1..Len(s) /\ Len(x) + i \in 1..Len(w)
      BY <1>0, <2>2, <2>3
    <3>2. QED BY <1>1, <2>2, <2>3, <3>1
  <2>5. QED BY <1>0, <2>2, <2>3, <2>4 DEF Begins
<1>4. QED BY <1>0, <1>2, <1>3

\* What is known of the beginning.
LEMMA HeadBegins ==
    ASSUME NEW S, NEW w \in Seq(S), NEW x \in Seq(S), NEW s \in Seq(S), Begins(w, x \o s)
    PROVE  /\ \A i \in 1..Len(w) : i <= Len(x) => w[i] = x[i]
           /\ Len(w) > Len(x) => w[Len(x) + 1] = s[1]
           /\ Len(w) <= Len(x) + Len(s)
<1>1. Len(x \o s) = Len(x) + Len(s) /\ \A i \in 1..Len(x) : (x \o s)[i] = x[i]
  OBVIOUS
<1>2. Len(w) > Len(x) => (x \o s)[Len(x) + 1] = s[1]
  BY DEF Begins
<1>3. QED BY <1>1, <1>2 DEF Begins

\* The first token and the others.
LEMMA OneRead ==
    ASSUME NEW S, NEW w \in Seq(S), NEW h \in S, NEW s \in Seq(S), Begins(w, <<h>> \o s), w # <<>>
    PROVE  Head(w) = h /\ Tail(w) \in Seq(S) /\ Begins(Tail(w), s)
<1>1. <<h>> \in Seq(S) /\ Len(<<h>>) = 1 /\ <<h>>[1] = h
  OBVIOUS
<1>2. Len(w) \in Nat /\ Len(w) >= 1 /\ Head(w) = w[1] /\ 1 \in 1..Len(w) /\ Len(s) \in Nat
  OBVIOUS
<1>3. Len(<<h>> \o s) = 1 + Len(s) /\ (<<h>> \o s)[1] = h
      /\ \A i \in 1..Len(s) : (<<h>> \o s)[i + 1] = s[i]
  BY <1>1
<1>4. w[1] = h
  BY <1>2, <1>3 DEF Begins
<1>5. Tail(w) \in Seq(S) /\ Len(Tail(w)) = Len(w) - 1 /\ \A i \in 1..(Len(w) - 1) : Tail(w)[i] = w[i + 1]
  OBVIOUS
<1>6. ASSUME NEW i \in 1..(Len(w) - 1) PROVE Tail(w)[i] = s[i]
  <2>1. i + 1 \in 1..Len(w) /\ i \in 1..Len(s)
    BY <1>2, <1>3 DEF Begins
  <2>2. w[i + 1] = (<<h>> \o s)[i + 1]
    BY <2>1 DEF Begins
  <2>3. QED BY <1>3, <1>5, <2>1, <2>2
<1>7. QED BY <1>2, <1>3, <1>4, <1>5, <1>6 DEF Begins

-----------------------------------------------------------------------------
\* What a server sends.

Words == Nat \cup Urls \cup {None, "refused", "chunked"}
Names == {"blank", "raw", "trailer", "byte", "size", "status", "location", "length", "encoding"}
Tokens == [t : Names, v : Words]

LEMMA LineTyped ==
    ASSUME NEW v \in Words, NEW t \in Names
    PROVE  Line(t, v) \in Tokens /\ Line(t, v).t = t /\ Line(t, v).v = v
BY DEF Line, Tokens

LEMMA BlankTyped == Blank \in Tokens /\ Raw \in Tokens /\ Trailer \in Tokens /\ Blank.t = "blank"
<1>1. 0 \in Words
  BY DEF Words
<1>2. QED BY <1>1, LineTyped DEF Blank, Raw, Trailer, Names

LEMMA BytesTyped ==
    ASSUME NEW m \in Nat, NEW n \in Nat, n + 1 >= m
    PROVE  /\ Bytes(m, n) \in Seq(Tokens) /\ Len(Bytes(m, n)) = n - m + 1
           /\ \A i \in 1..(n - m + 1) : Bytes(m, n)[i] = Line("byte", m + i - 1)
<1> DEFINE k == n - m + 1
           b(i) == Line("byte", m + i - 1)
<1>1. k \in Nat /\ \A i \in 1..k : m + i - 1 \in Words
  BY DEF Words
<1>2. \A i \in 1..k : b(i) \in Tokens
  BY <1>1, LineTyped DEF Names
<1>3. Bytes(m, n) = [i \in 1..k |-> b(i)]
  BY DEF Bytes
<1> HIDE DEF k, b
<1>4. Bytes(m, n) \in Seq(Tokens) /\ Len(Bytes(m, n)) = k /\ \A i \in 1..k : Bytes(m, n)[i] = b(i)
  BY <1>1, <1>2, <1>3
<1>5. QED BY <1>4 DEF k, b

\* The fields of the headers: they are no blank lines, and what there is of a length
\* and of an encoding follows from the framing.
LEMMA FieldsTold ==
    ASSUME NEW a \in Answers
    PROVE  /\ Fields(a) \in Seq(Tokens)
           /\ \A i \in 1..Len(Fields(a)) : Fields(a)[i] # Blank
           /\ Given(Fields(a), "encoding") <=> Coded(a)
           /\ Given(Fields(a), "length") <=> a.frame \in {"length", "both"}
           /\ Given(Fields(a), "length") => Field(Fields(a), "length") = a.body
<1>0. /\ a.body \in Nat /\ a.location \in Urls \cup {None, "refused"}
      /\ a.frame \in {"length", "chunked", "both", "twice", "close"}
  BY HttpAssumption
<1> DEFINE L == Line("location", a.location)
           Z == Line("length", a.body)
           E == Line("encoding", "chunked")
<1>1. /\ L \in Tokens /\ Z \in Tokens /\ E \in Tokens /\ Z.v = a.body
      /\ L.t = "location" /\ Z.t = "length" /\ E.t = "encoding" /\ Blank.t = "blank"
  <2>1. a.location \in Words /\ a.body \in Words /\ "chunked" \in Words /\ 0 \in Words
    BY <1>0 DEF Words
  <2>3. L \in Tokens /\ L.t = "location"
    BY <2>1, LineTyped DEF Names
  <2>4. Z \in Tokens /\ Z.v = a.body /\ Z.t = "length"
    BY <2>1, LineTyped DEF Names
  <2>5. E \in Tokens /\ E.t = "encoding"
    BY <2>1, LineTyped DEF Names
  <2>6. Blank.t = "blank"
    BY DEF Blank, Line
  <2>7. QED BY <2>3, <2>4, <2>5, <2>6
<1> HIDE DEF L, Z, E
<1>2. PICK x : x = (IF a.location = None THEN <<>> ELSE <<L>>)
  OBVIOUS
<1>3. PICK y : y = (CASE a.frame \in {"length", "both"} -> <<Z>> [] a.frame = "twice" -> <<Z, Z>> [] OTHER -> <<>>)
  OBVIOUS
<1>4. PICK z : z = (IF Coded(a) THEN <<E>> ELSE <<>>)
  OBVIOUS
<1>5. x \in Seq(Tokens) /\ Len(x) \in {0, 1} /\ \A i \in 1..Len(x) : x[i] = L
  BY <1>1, <1>2
<1>6. /\ y \in Seq(Tokens) /\ \A i \in 1..Len(y) : y[i] = Z
      /\ a.frame \in {"length", "both"} => Len(y) = 1
      /\ a.frame = "twice" => Len(y) = 2
      /\ a.frame \in {"chunked", "close"} => Len(y) = 0
  <2>1. CASE a.frame \in {"length", "both"}
    BY <1>1, <1>3, <2>1
  <2>2. CASE a.frame = "twice"
    <3>1. y = <<Z, Z>>
      BY <1>3, <2>2
    <3>2. QED BY <1>1, <2>2, <3>1
  <2>3. CASE a.frame \in {"chunked", "close"}
    BY <1>3, <2>3
  <2>4. QED BY <1>0, <2>1, <2>2, <2>3
<1>7. /\ z \in Seq(Tokens) /\ Len(z) \in {0, 1} /\ (Len(z) = 1 <=> Coded(a))
      /\ \A i \in 1..Len(z) : z[i] = E
  BY <1>1, <1>4
<1> DEFINE f == x \o (y \o z)
<1>8. Fields(a) = f
  BY <1>2, <1>3, <1>4 DEF Fields, L, Z, E
<1>9. /\ f \in Seq(Tokens) /\ Len(f) = Len(x) + Len(y) + Len(z)
      /\ \A i \in 1..Len(f) :
            /\ i <= Len(x) => f[i] = L
            /\ i > Len(x) /\ i <= Len(x) + Len(y) => f[i] = Z
            /\ i > Len(x) + Len(y) => f[i] = E
  <2>1. y \o z \in Seq(Tokens) /\ Len(y \o z) = Len(y) + Len(z)
    BY <1>6, <1>7
  <2>2. f \in Seq(Tokens) /\ Len(f) = Len(x) + Len(y) + Len(z)
    BY <1>5, <1>6, <1>7, <2>1
  <2>3. ASSUME NEW i \in 1..Len(f), i <= Len(x) PROVE f[i] = L
    <3>1. f[i] = x[i]
      BY <1>5, <2>1, <2>3
    <3>2. QED BY <1>5, <2>3, <3>1
  <2>4. ASSUME NEW i \in 1..Len(f), i > Len(x) PROVE f[i] = (y \o z)[i - Len(x)]
    BY <1>5, <2>1, <2>4
  <2>5. ASSUME NEW i \in 1..Len(f), i > Len(x), i <= Len(x) + Len(y) PROVE f[i] = Z
    <3>1. i - Len(x) \in 1..Len(y)
      BY <1>5, <1>6, <2>5
    <3>2. (y \o z)[i - Len(x)] = y[i - Len(x)]
      BY <1>6, <1>7, <3>1
    <3>3. QED BY <1>6, <2>4, <2>5, <3>1, <3>2
  <2>6. ASSUME NEW i \in 1..Len(f), i > Len(x) + Len(y) PROVE f[i] = E
    <3>1. i > Len(x) /\ (i - Len(x)) - Len(y) \in 1..Len(z) /\ i - Len(x) \in 1..(Len(y) + Len(z)) /\ i - Len(x) > Len(y)
      BY <1>5, <1>6, <1>7, <2>2, <2>6
    <3>2. (y \o z)[i - Len(x)] = z[(i - Len(x)) - Len(y)]
      BY <1>6, <1>7, <3>1
    <3>3. QED BY <1>7, <2>4, <3>1, <3>2
  <2>7. QED BY <2>2, <2>3, <2>5, <2>6
<1> HIDE DEF f
<1>10. DOMAIN f = 1..Len(f) /\ Len(f) \in Nat /\ Len(x) \in Nat /\ Len(y) \in Nat /\ Len(z) \in Nat
  BY <1>5, <1>6, <1>7, <1>9
<1>11. \A i \in 1..Len(f) : f[i] # Blank
  BY <1>1, <1>9, <1>10
<1>12. Given(f, "encoding") <=> Coded(a)
  <2>1. \A i \in 1..Len(f) : f[i].t = "encoding" <=> i > Len(x) + Len(y)
    BY <1>1, <1>9, <1>10
  <2>2. CASE Coded(a)
    <3>1. Len(f) = Len(x) + Len(y) + 1
      BY <1>7, <1>9, <2>2
    <3>2. Len(f) \in 1..Len(f) /\ \A i \in 1..Len(f) : i > Len(x) + Len(y) <=> i = Len(f)
      BY <1>10, <3>1
    <3>3. IsField(f, "encoding", Len(f))
      BY <1>10, <2>1, <3>2 DEF IsField
    <3>4. QED BY <1>10, <2>2, <3>2, <3>3 DEF Given
  <2>3. CASE ~Coded(a)
    <3>1. Len(f) = Len(x) + Len(y)
      BY <1>7, <1>9, <1>10, <2>3
    <3>2. \A i \in 1..Len(f) : f[i].t # "encoding"
      BY <1>10, <2>1, <3>1
    <3>3. QED BY <1>10, <2>3, <3>2 DEF Given, IsField
  <2>4. QED BY <2>2, <2>3
<1>13. \A i \in 1..Len(f) : f[i].t = "length" <=> i > Len(x) /\ i <= Len(x) + Len(y)
  BY <1>1, <1>9, <1>10
<1>14. CASE a.frame \in {"length", "both"}
  <2>1. Len(y) = 1
    BY <1>6, <1>14
  <2>2. Len(x) + 1 \in 1..Len(f) /\ \A i \in 1..Len(f) : i > Len(x) /\ i <= Len(x) + Len(y) <=> i = Len(x) + 1
    BY <1>9, <1>10, <2>1
  <2>3. \A i \in 1..Len(f) : IsField(f, "length", i) <=> i = Len(x) + 1
    BY <1>10, <1>13, <2>2 DEF IsField
  <2>4. Given(f, "length")
    BY <1>10, <2>2, <2>3 DEF Given
  <2>5. Field(f, "length") = f[Len(x) + 1].v
    BY <1>10, <2>2, <2>3 DEF Field
  <2>6. f[Len(x) + 1] = Z
    BY <1>9, <1>10, <2>1, <2>2
  <2>7. QED BY <1>1, <1>8, <1>9, <1>11, <1>12, <1>14, <2>4, <2>5, <2>6
<1>15. CASE a.frame \in {"chunked", "close"}
  <2>1. \A i \in 1..Len(f) : f[i].t # "length"
    BY <1>6, <1>10, <1>13, <1>15
  <2>2. ~Given(f, "length")
    BY <1>10, <2>1 DEF Given, IsField
  <2>3. QED BY <1>8, <1>9, <1>11, <1>12, <1>15, <2>2
<1>16. CASE a.frame = "twice"
  <2>1. Len(y) = 2
    BY <1>6, <1>16
  <2>2. Len(x) + 1 \in 1..Len(f) /\ Len(x) + 2 \in 1..Len(f) /\ Len(x) + 1 # Len(x) + 2
    BY <1>9, <1>10, <2>1
  <2>3. f[Len(x) + 1].t = "length" /\ f[Len(x) + 2].t = "length"
    BY <1>10, <1>13, <2>1, <2>2
  <2>4. ~Given(f, "length")
    BY <1>10, <2>2, <2>3 DEF Given, IsField
  <2>5. QED BY <1>8, <1>9, <1>11, <1>12, <1>16, <2>4
<1>17. QED BY <1>0, <1>14, <1>15, <1>16
\* A chunk: the size, the bytes and the end of line.
LEMMA ChunkTold ==
    ASSUME NEW m \in Nat, NEW n \in Nat, n >= m, m >= 1
    PROVE  LET c == n - m + 1 IN
           /\ Chunk(m, n) \in Seq(Tokens) /\ Len(Chunk(m, n)) = c + 2
           /\ Chunk(m, n)[1].t = "size" /\ Chunk(m, n)[1].v = c
           /\ \A i \in 1..c : Chunk(m, n)[i + 1] = Line("byte", m + i - 1)
<1> DEFINE c == n - m + 1
           z == <<Line("size", c)>>
           b == Bytes(m, n)
<1>1. c \in Nat /\ c \in Words /\ n + 1 >= m
  BY DEF Words
<1>2. Line("size", c) \in Tokens /\ Line("size", c).t = "size" /\ Line("size", c).v = c
  BY <1>1, LineTyped DEF Names
<1>3. z \in Seq(Tokens) /\ Len(z) = 1 /\ z[1] = Line("size", c)
  BY <1>2
<1>4. b \in Seq(Tokens) /\ Len(b) = c /\ \A i \in 1..c : b[i] = Line("byte", m + i - 1)
  BY <1>1, BytesTyped
<1>5. <<Blank>> \in Seq(Tokens) /\ Len(<<Blank>>) = 1
  BY BlankTyped
<1>6. Chunk(m, n) = (z \o b) \o <<Blank>>
  BY DEF Chunk
<1> HIDE DEF c, z, b
<1>7. z \o b \in Seq(Tokens) /\ Len(z \o b) = c + 1 /\ (z \o b)[1] = z[1] /\ \A i \in 1..c : (z \o b)[i + 1] = b[i]
  <2>1. /\ z \o b \in Seq(Tokens) /\ Len(z \o b) = Len(z) + Len(b)
        /\ \A i \in 1..Len(z) : (z \o b)[i] = z[i]
        /\ \A i \in 1..Len(b) : (z \o b)[Len(z) + i] = b[i]
    <3>1. z \in Seq(Tokens) /\ b \in Seq(Tokens)
      BY <1>3, <1>4
    <3>2. QED BY <3>1, Joined
  <2>2. Len(z) = 1 /\ Len(b) = c
    BY <1>3, <1>4
  <2>3. 1 \in 1..1 /\ 1 + c = c + 1 /\ \A i \in 1..c : 1 + i = i + 1
    BY <1>1
  <2>4. QED BY <2>1, <2>2, <2>3
<1>8. /\ (z \o b) \o <<Blank>> \in Seq(Tokens) /\ Len((z \o b) \o <<Blank>>) = c + 2
      /\ \A i \in 1..(c + 1) : ((z \o b) \o <<Blank>>)[i] = (z \o b)[i]
  BY <1>1, <1>5, <1>7
<1>9. 1 \in 1..(c + 1) /\ \A i \in 1..c : i + 1 \in 1..(c + 1)
  BY <1>1
<1>10. /\ Chunk(m, n)[1] = Line("size", c)
       /\ \A i \in 1..c : Chunk(m, n)[i + 1] = Line("byte", m + i - 1)
  BY <1>3, <1>4, <1>6, <1>7, <1>8, <1>9
<1>11. QED BY <1>2, <1>6, <1>8, <1>10 DEF c

LEMMA LastChunkTold ==
    ASSUME NEW a \in Answers
    PROVE  LastChunk(a) \in Seq(Tokens) /\ Len(LastChunk(a)) >= 1 /\ LastChunk(a)[1].t = "size" /\ LastChunk(a)[1].v = 0
<1> DEFINE z == Line("size", 0)
           e == IF a.trailer THEN <<Trailer, Blank>> ELSE <<Blank>>
<1>1. z \in Tokens /\ z.t = "size" /\ z.v = 0
  BY LineTyped DEF Names, Words
<1>2. e \in Seq(Tokens)
  <2>1. <<Trailer, Blank>> \in Seq(Tokens) /\ <<Blank>> \in Seq(Tokens)
    BY BlankTyped
  <2>2. QED BY <2>1
<1>3. LastChunk(a) = <<z>> \o e
  BY DEF LastChunk
<1> HIDE DEF z, e
<1>4. <<z>> \o e \in Seq(Tokens) /\ Len(<<z>> \o e) = 1 + Len(e) /\ (<<z>> \o e)[1] = z
  BY <1>1, <1>2
<1>5. QED BY <1>1, <1>2, <1>3, <1>4

\* Everything that is sent is a sequence of tokens, and a body has no status line.
LEMMA StreamTyped ==
    ASSUME NEW a \in Answers
    PROVE  /\ \A m \in 0..a.body : ChunksAfter(a, m) \in Seq(Tokens)
           /\ Framed(a) \in Seq(Tokens) /\ Answered(a) \in Seq(Tokens) /\ Stream(a) \in Seq(Tokens)
           /\ Framed(a) # <<>> => Framed(a)[1].t \in {"byte", "size"}
<1>0. a.body \in Nat /\ a.code \in Nat /\ 1 \in Nat /\ 0 \in Nat
  BY HttpAssumption
<1>1. ASSUME NEW m \in 0..a.body PROVE ChunksAfter(a, m) \in Seq(Tokens)
  <2>1. CASE m = a.body
    BY <2>1, LastChunkTold DEF ChunksAfter
  <2>2. CASE m # a.body
    <3>1. m + 1 \in Nat /\ a.body >= m + 1 /\ m + 1 >= 1
      BY <1>0, <2>2
    <3>2. Chunk(m + 1, a.body) \in Seq(Tokens)
      BY <1>0, <3>1, ChunkTold
    <3>3. LastChunk(a) \in Seq(Tokens)
      BY LastChunkTold
    <3>4. QED BY <2>2, <3>2, <3>3 DEF ChunksAfter
  <2>3. QED BY <2>1, <2>2
<1>2. Framed(a) \in Seq(Tokens) /\ (Framed(a) # <<>> => Framed(a)[1].t \in {"byte", "size"})
  <2>1. CASE ~Coded(a)
    <3>1. Bytes(1, a.body) \in Seq(Tokens) /\ Len(Bytes(1, a.body)) = a.body
          /\ \A i \in 1..a.body : Bytes(1, a.body)[i] = Line("byte", i)
      <4>1. a.body + 1 >= 1 /\ a.body - 1 + 1 = a.body /\ \A i \in Int : 1 + i - 1 = i
        BY <1>0
      <4>2. /\ Bytes(1, a.body) \in Seq(Tokens) /\ Len(Bytes(1, a.body)) = a.body - 1 + 1
            /\ \A i \in 1..(a.body - 1 + 1) : Bytes(1, a.body)[i] = Line("byte", 1 + i - 1)
        BY <1>0, <4>1, BytesTyped
      <4>3. QED BY <1>0, <4>1, <4>2
    <3>2. ASSUME Bytes(1, a.body) # <<>> PROVE Bytes(1, a.body)[1].t = "byte"
      <4>1. a.body # 0
        BY <3>1, <3>2
      <4>2. Bytes(1, a.body)[1] = Line("byte", 1)
        BY <1>0, <3>1, <4>1
      <4>3. QED BY <4>2 DEF Line
    <3>3. QED BY <2>1, <3>1, <3>2 DEF Framed
  <2>2. CASE Coded(a) /\ a.body = 0
    BY <2>2, LastChunkTold DEF Framed
  <2>3. CASE Coded(a) /\ a.body # 0
    <3>1. 1 \in 0..a.body
      BY <1>0, <2>3
    <3>2. Chunk(1, 1) \in Seq(Tokens) /\ Len(Chunk(1, 1)) = 3 /\ Chunk(1, 1)[1].t = "size"
      <4>1. PICK m \in Nat : m = 1
        BY <1>0
      <4>2. m >= m /\ m >= 1 /\ m - m + 1 = 1
        BY <4>1
      <4>3. /\ Chunk(m, m) \in Seq(Tokens) /\ Len(Chunk(m, m)) = (m - m + 1) + 2
            /\ Chunk(m, m)[1].t = "size"
        BY <4>2, ChunkTold
      <4>4. Len(Chunk(m, m)) = 3
        BY <4>2, <4>3
      <4>5. QED BY <4>1, <4>3, <4>4
    <3>3. ChunksAfter(a, 1) \in Seq(Tokens)
      BY <1>1, <3>1
    <3>4. /\ Chunk(1, 1) \o ChunksAfter(a, 1) \in Seq(Tokens)
          /\ (Chunk(1, 1) \o ChunksAfter(a, 1))[1] = Chunk(1, 1)[1]
      BY <3>2, <3>3
    <3>5. QED BY <2>3, <3>2, <3>4 DEF Framed
  <2>4. QED BY <2>1, <2>2, <2>3
<1>3. Answered(a) \in Seq(Tokens)
  <2>1. CASE a.code = 0
    <3>1. <<Raw>> \in Seq(Tokens) /\ <<Blank>> \in Seq(Tokens)
      BY BlankTyped
    <3>2. Bytes(1, a.body) \in Seq(Tokens)
      <4>1. a.body + 1 >= 1
        BY <1>0
      <4>2. QED BY <1>0, <4>1, BytesTyped
    <3>3. QED BY <2>1, <3>1, <3>2 DEF Answered
  <2>2. CASE a.code # 0
    <3>1. a.code \in Words
      BY <1>0 DEF Words
    <3>2. Line("status", a.code) \in Tokens
      BY <3>1, LineTyped DEF Names
    <3>3. <<Line("status", a.code)>> \in Seq(Tokens) /\ <<Blank>> \in Seq(Tokens)
      BY <3>2, BlankTyped
    <3>4. Fields(a) \in Seq(Tokens)
      BY FieldsTold
    <3>5. <<Blank>> \o Framed(a) \in Seq(Tokens)
      BY <1>2, <3>3
    <3>6. Fields(a) \o (<<Blank>> \o Framed(a)) \in Seq(Tokens)
      BY <3>4, <3>5
    <3>7. QED BY <2>2, <3>3, <3>6 DEF Answered
  <2>3. QED BY <2>1, <2>2
<1>4. Stream(a) \in Seq(Tokens)
  <2>1. Line("status", 100) \in Tokens
    BY LineTyped DEF Names, Words
  <2>2. <<Line("status", 100), Blank>> \in Seq(Tokens) /\ <<>> \in Seq(Tokens)
    BY <2>1, BlankTyped
  <2>3. QED BY <1>3, <2>2 DEF Stream
<1>5. QED BY <1>1, <1>2, <1>3, <1>4

-----------------------------------------------------------------------------
\* Headers are read up to the first blank line.
LEMMA HeadersRead ==
    ASSUME NEW w \in Seq(Tokens), NEW f \in Seq(Tokens), NEW r \in Seq(Tokens),
           \A i \in 1..Len(f) : f[i] # Blank, Begins(w, f \o (<<Blank>> \o r)), HeaderEnd(w) # 0
    PROVE  /\ HeaderEnd(w) = Len(f) + 1
           /\ SubSeq(w, 1, HeaderEnd(w) - 1) = f
           /\ SubSeq(w, HeaderEnd(w) + 1, Len(w)) \in Seq(Tokens)
           /\ Begins(SubSeq(w, HeaderEnd(w) + 1, Len(w)), r)
<1> DEFINE k == Len(f) + 1
<1>0. Len(f) \in Nat /\ Len(w) \in Nat /\ DOMAIN w = 1..Len(w) /\ k \in Nat /\ k - 1 = Len(f)
  OBVIOUS
<1>1. <<Blank>> \in Seq(Tokens) /\ Len(<<Blank>>) = 1
  BY BlankTyped
<1>2. <<Blank>> \o r \in Seq(Tokens) /\ (<<Blank>> \o r)[1] = Blank
  BY <1>1
<1>3. /\ \A i \in 1..Len(w) : i <= Len(f) => w[i] = f[i]
      /\ Len(w) > Len(f) => w[k] = Blank
  <2>1. /\ \A i \in 1..Len(w) : i <= Len(f) => w[i] = f[i]
        /\ Len(w) > Len(f) => w[Len(f) + 1] = (<<Blank>> \o r)[1]
    <3>1. PICK q : q = <<Blank>> \o r
      OBVIOUS
    <3>2. q \in Seq(Tokens) /\ Begins(w, f \o q)
      BY <1>2, <3>1
    <3>3. /\ \A i \in 1..Len(w) : i <= Len(f) => w[i] = f[i]
          /\ Len(w) > Len(f) => w[Len(f) + 1] = q[1]
      BY <3>2, HeadBegins
    <3>4. QED BY <3>1, <3>3
  <2>2. QED BY <1>2, <2>1
<1>4. \A i \in 1..Len(w) : w[i] = Blank => i >= k
  BY <1>0, <1>3
<1>5. PICK i \in 1..Len(w) : w[i] = Blank
  BY <1>0 DEF HeaderEnd
<1>6. k \in 1..Len(w) /\ w[k] = Blank /\ \A j \in 1..(k - 1) : w[j] # Blank
  BY <1>0, <1>3, <1>4, <1>5
<1>7. ASSUME NEW j \in 1..Len(w), w[j] = Blank, \A l \in 1..(j - 1) : w[l] # Blank PROVE j = k
  <2>1. j >= k
    BY <1>4, <1>7
  <2>2. ~(j > k)
    BY <1>0, <1>6, <1>7
  <2>3. QED BY <1>0, <2>1, <2>2
<1>8. HeaderEnd(w) = k
  BY <1>0, <1>6, <1>7 DEF HeaderEnd
<1>9. SubSeq(w, 1, k - 1) = f
  <2> DEFINE s == SubSeq(w, 1, Len(f))
  <2>1. Len(f) \in 0..Len(w)
    BY <1>0, <1>6
  <2>2. s \in Seq(Tokens) /\ Len(s) = Len(f) /\ \A j \in 1..Len(f) : s[j] = w[j]
    BY <2>1
  <2> HIDE DEF s
  <2>3. ASSUME NEW j \in 1..Len(f) PROVE s[j] = f[j]
    <3>1. j \in 1..Len(w) /\ j <= Len(f)
      BY <1>0, <2>1
    <3>2. QED BY <1>3, <2>2, <3>1
  <2>4. s = f
    BY <2>2, <2>3
  <2>5. QED BY <1>0, <2>4 DEF s
<1>10. SubSeq(w, k + 1, Len(w)) \in Seq(Tokens) /\ Begins(SubSeq(w, k + 1, Len(w)), r)
  <2> DEFINE x == f \o <<Blank>>
  <2>1. x \in Seq(Tokens) /\ Len(x) = k
    BY <1>1
  <2>2. x \o r = f \o (<<Blank>> \o r)
    BY <1>1
  <2> HIDE DEF x
  <2>3. Begins(w, x \o r)
    BY <2>2
  <2>4. SubSeq(w, Len(x) + 1, Len(w)) \in Seq(Tokens) /\ Begins(SubSeq(w, Len(x) + 1, Len(w)), r)
    BY <2>1, <2>3, DropBegins
  <2>5. QED BY <2>1, <2>4
<1>11. QED BY <1>8, <1>9, <1>10

\* A chunk is read.
LEMMA ChunkRead ==
    ASSUME NEW m \in Nat, NEW n \in Nat, n >= m, m >= 1, NEW s \in Seq(Tokens),
           NEW w \in Seq(Tokens), Begins(w, Chunk(m, n) \o s), w # <<>>
    PROVE  LET c == n - m + 1 IN
           /\ Head(w).t = "size" /\ Head(w).v = c
           /\ c < Len(w) =>
                /\ \A i \in 1..c : w[i + 1] = Line("byte", m + i - 1)
                /\ SubSeq(w, c + 3, Len(w)) \in Seq(Tokens) /\ Begins(SubSeq(w, c + 3, Len(w)), s)
<1> DEFINE c == n - m + 1
           x == Chunk(m, n)
<1>1. /\ x \in Seq(Tokens) /\ Len(x) = c + 2 /\ x[1].t = "size" /\ x[1].v = c
      /\ \A i \in 1..c : x[i + 1] = Line("byte", m + i - 1)
  BY ChunkTold
<1>2. c \in Nat /\ Len(w) \in Nat /\ Len(w) >= 1 /\ 1 \in 1..Len(w) /\ Head(w) = w[1]
  OBVIOUS
<1> HIDE DEF c, x
<1>3. Begins(w, x \o s)
  BY DEF x
<1>4. \A i \in 1..Len(w) : i <= Len(x) => w[i] = x[i]
  BY <1>1, <1>3, HeadBegins
<1>5. w[1] = x[1]
  BY <1>1, <1>2, <1>4
<1>6. SubSeq(w, Len(x) + 1, Len(w)) \in Seq(Tokens) /\ Begins(SubSeq(w, Len(x) + 1, Len(w)), s)
  BY <1>1, <1>3, DropBegins
<1>7. Len(x) + 1 = c + 3
  BY <1>1, <1>2
<1>8. ASSUME c < Len(w), NEW i \in 1..c PROVE w[i + 1] = x[i + 1]
  BY <1>1, <1>2, <1>4, <1>8
<1>9. QED BY <1>1, <1>2, <1>5, <1>6, <1>7, <1>8 DEF c
-----------------------------------------------------------------------------
\* What is left on the connection, by the place of the request: a is the answer, w what
\* is left and st the status read so far.

StatusPhase(a, w, st) ==
    \/ st # 100 /\ Begins(w, Stream(a))
    \/ st = 100 /\ a.continue /\ Begins(w, Answered(a))
    \/ st = 100 /\ a.code = 100 /\ Begins(w, Framed(a))

HeadersPhase(a, w, st) ==
    \/ st = 100 /\ a.continue /\ Begins(w, <<Blank>> \o Answered(a))
    \/ a.code # 0 /\ st = a.code /\ Begins(w, Fields(a) \o (<<Blank>> \o Framed(a)))
    \/ a.code = 0 /\ st = 0 /\ Begins(w, <<Blank>>)

\* The sink has been given the first m tokens of b, for the url u; and what is left is
\* the beginning of the others.
Pairs == Urls \X Tokens
GotTo(g, u, b, m) ==
    g \in Seq(Pairs) /\ Len(g) = m /\ m <= Len(b) /\ \A i \in 1..m : g[i] = <<u, b[i]>>
WireFrom(w, b, m) == m + Len(w) <= Len(b) /\ \A i \in 1..Len(w) : w[i] = b[m + i]

OldBytes(a) == <<Raw>> \o Bytes(1, a.body)
NewBytes(a) == Bytes(1, a.body)

\* The body of HTTP/0.9 and those with headers, by their source.
OldBody(a, u, g, w, src) ==
    /\ a.code = 0 /\ src = "until-closed"
    /\ \E m \in Nat : GotTo(g, u, OldBytes(a), m) /\ WireFrom(w, OldBytes(a), m)

ChunksLeft(a, m) == IF m = 0 THEN Framed(a) ELSE ChunksAfter(a, m)

NewBody(a, u, g, w, src, len) ==
    \E m \in 0..a.body :
        /\ GotTo(g, u, NewBytes(a), m)
        /\ \/ Coded(a) /\ src = "chunked" /\ Begins(w, ChunksLeft(a, m))
           \/ ~Coded(a) /\ src = "by-length" /\ WireFrom(w, NewBytes(a), m) /\ len = a.body - m
           \/ /\ a.frame \notin {"length", "both", "chunked"} /\ src = "until-closed"
              /\ WireFrom(w, NewBytes(a), m)

LEMMA NewBytesTyped ==
    ASSUME NEW a \in Answers
    PROVE  /\ NewBytes(a) \in Seq(Tokens) /\ Len(NewBytes(a)) = a.body /\ a.body \in Nat
           /\ \A i \in 1..a.body : NewBytes(a)[i] = Line("byte", i)
           /\ OldBytes(a) \in Seq(Tokens)
<1>0. a.body \in Nat /\ 1 \in Nat /\ a.body + 1 >= 1 /\ a.body - 1 + 1 = a.body
      /\ \A i \in Int : 1 + i - 1 = i
  BY HttpAssumption
<1>1. /\ NewBytes(a) \in Seq(Tokens) /\ Len(NewBytes(a)) = a.body - 1 + 1
      /\ \A i \in 1..(a.body - 1 + 1) : NewBytes(a)[i] = Line("byte", 1 + i - 1)
  BY <1>0, BytesTyped DEF NewBytes
<1>2. <<Raw>> \in Seq(Tokens)
  BY BlankTyped
<1>3. OldBytes(a) \in Seq(Tokens)
  BY <1>1, <1>2 DEF OldBytes, NewBytes
<1>4. QED BY <1>0, <1>1, <1>3

\* A status line has been read.
LEMMA StatusRead ==
    ASSUME NEW a \in Answers, NEW w \in Seq(Tokens), NEW st, StatusPhase(a, w, st), w # <<>>,
           Head(w).t = "status"
    PROVE  /\ Tail(w) \in Seq(Tokens) /\ HeadersPhase(a, Tail(w), Head(w).v)
           /\ st # 100 /\ a.continue => Head(w).v = 100
<1>0. /\ Framed(a) \in Seq(Tokens) /\ Answered(a) \in Seq(Tokens) /\ Stream(a) \in Seq(Tokens)
      /\ Fields(a) \in Seq(Tokens) /\ <<Blank>> \in Seq(Tokens) /\ a.code \in Words
      /\ Blank \in Tokens /\ Raw \in Tokens
  BY StreamTyped, FieldsTold, BlankTyped, HttpAssumption DEF Words
<1>1. <<Blank>> \o Answered(a) \in Seq(Tokens) /\ Fields(a) \o (<<Blank>> \o Framed(a)) \in Seq(Tokens)
  BY <1>0
<1>2. Tail(w) \in Seq(Tokens) /\ Head(w) = w[1] /\ Len(w) >= 1
  OBVIOUS
<1>3. ASSUME Begins(w, Answered(a)) PROVE HeadersPhase(a, Tail(w), Head(w).v)
  <2>1. CASE a.code # 0
    <3>1. Line("status", a.code) \in Tokens /\ Line("status", a.code).v = a.code
      BY <1>0, LineTyped DEF Names
    <3>2. Begins(w, <<Line("status", a.code)>> \o (Fields(a) \o (<<Blank>> \o Framed(a))))
      BY <1>3, <2>1 DEF Answered
    <3>3. Head(w) = Line("status", a.code) /\ Begins(Tail(w), Fields(a) \o (<<Blank>> \o Framed(a)))
      BY <1>1, <3>1, <3>2, OneRead
    <3>4. QED BY <2>1, <3>1, <3>3 DEF HeadersPhase
  <2>2. CASE a.code = 0
    <3>1. PICK s : s = (IF a.continue THEN <<Blank>> ELSE Bytes(1, a.body))
      OBVIOUS
    <3>2. s \in Seq(Tokens)
      BY <1>0, <3>1, NewBytesTyped DEF NewBytes
    <3>3. Begins(w, <<Raw>> \o s)
      BY <1>3, <2>2, <3>1 DEF Answered
    <3>4. Head(w) = Raw
      BY <1>0, <3>2, <3>3, OneRead
    <3>5. QED BY <3>4 DEF Raw, Line
  <2>3. QED BY <2>1, <2>2
<1>4. CASE st # 100 /\ Begins(w, Stream(a))
  <2>1. CASE a.continue
    <3>1. PICK h : h = Line("status", 100)
      OBVIOUS
    <3>2. h \in Tokens /\ h.v = 100
      BY <3>1, LineTyped DEF Names, Words
    <3>3. Stream(a) = <<h>> \o (<<Blank>> \o Answered(a))
      <4>1. <<h, Blank>> = <<h>> \o <<Blank>>
        OBVIOUS
      <4>2. Stream(a) = (<<h>> \o <<Blank>>) \o Answered(a)
        BY <2>1, <3>1, <4>1 DEF Stream
      <4>3. <<h>> \in Seq(Tokens)
        BY <3>2
      <4>4. QED BY <1>0, <4>2, <4>3
    <3>3a. Begins(w, <<h>> \o (<<Blank>> \o Answered(a)))
      BY <1>4, <3>3
    <3>4. Head(w) = h /\ Begins(Tail(w), <<Blank>> \o Answered(a))
      BY <1>1, <3>2, <3>3a, OneRead
    <3>5. QED BY <1>2, <2>1, <3>2, <3>4 DEF HeadersPhase
  <2>2. CASE ~a.continue
    <3>1. Stream(a) = Answered(a)
      BY <1>0, <2>2 DEF Stream
    <3>2. QED BY <1>2, <1>3, <1>4, <2>2, <3>1
  <2>3. QED BY <2>1, <2>2
<1>5. CASE st = 100 /\ Begins(w, Answered(a))
  BY <1>2, <1>3, <1>5
<1>6. CASE st = 100 /\ Begins(w, Framed(a))
  <2>1. Len(Framed(a)) >= 1 /\ w[1] = Framed(a)[1]
    BY <1>0, <1>2, <1>6 DEF Begins
  <2>2. Framed(a) # <<>>
    BY <2>1
  <2>3. Framed(a)[1].t \in {"byte", "size"}
    BY <2>2, StreamTyped
  <2>4. QED BY <1>2, <2>1, <2>3
<1>7. QED BY <1>4, <1>5, <1>6 DEF StatusPhase

\* Something else than a status line has been seen.
LEMMA RawSeen ==
    ASSUME NEW a \in Answers, NEW w \in Seq(Tokens), NEW st, StatusPhase(a, w, st), w # <<>>,
           Head(w).t = "raw"
    PROVE  /\ Tail(w) \in Seq(Tokens)
           /\ st = 100 => HeadersPhase(a, Tail(w), 0)
           /\ st # 100 => a.code = 0 /\ WireFrom(w, OldBytes(a), 0)
<1>0. /\ Framed(a) \in Seq(Tokens) /\ Answered(a) \in Seq(Tokens) /\ Stream(a) \in Seq(Tokens)
      /\ Fields(a) \in Seq(Tokens) /\ <<Blank>> \in Seq(Tokens) /\ a.code \in Words
      /\ Blank \in Tokens /\ Raw \in Tokens
  BY StreamTyped, FieldsTold, BlankTyped, HttpAssumption DEF Words
<1>1. <<Blank>> \o Answered(a) \in Seq(Tokens) /\ Fields(a) \o (<<Blank>> \o Framed(a)) \in Seq(Tokens)
  BY <1>0
<1>2. Tail(w) \in Seq(Tokens) /\ Head(w) = w[1] /\ Len(w) >= 1 /\ Len(w) \in Nat
  OBVIOUS
<1>3. ASSUME Begins(w, Answered(a)) PROVE a.code = 0
  <2>1. SUFFICES ASSUME a.code # 0 PROVE FALSE
    OBVIOUS
  <2>2. Line("status", a.code) \in Tokens /\ Line("status", a.code).t = "status"
    BY <1>0, LineTyped DEF Names
  <2>3. Begins(w, <<Line("status", a.code)>> \o (Fields(a) \o (<<Blank>> \o Framed(a))))
    BY <1>3, <2>1 DEF Answered
  <2>4. Head(w) = Line("status", a.code)
    BY <1>1, <2>2, <2>3, OneRead
  <2>5. QED BY <2>2, <2>4
<1>4. CASE st # 100 /\ Begins(w, Stream(a))
  <2>1. CASE a.continue
    <3>1. PICK h : h = Line("status", 100)
      OBVIOUS
    <3>2. h \in Tokens /\ h.t = "status"
      BY <3>1, LineTyped DEF Names, Words
    <3>3. Stream(a) = <<h>> \o (<<Blank>> \o Answered(a))
      <4>1. <<h, Blank>> = <<h>> \o <<Blank>>
        OBVIOUS
      <4>2. Stream(a) = (<<h>> \o <<Blank>>) \o Answered(a)
        BY <2>1, <3>1, <4>1 DEF Stream
      <4>3. <<h>> \in Seq(Tokens)
        BY <3>2
      <4>4. QED BY <1>0, <4>2, <4>3
    <3>3a. Begins(w, <<h>> \o (<<Blank>> \o Answered(a)))
      BY <1>4, <3>3
    <3>4. Head(w) = h
      BY <1>1, <3>2, <3>3a, OneRead
    <3>5. QED BY <3>2, <3>4
  <2>2. CASE ~a.continue
    <3>1. Stream(a) = Answered(a)
      BY <1>0, <2>2 DEF Stream
    <3>2. a.code = 0
      BY <1>3, <1>4, <3>1
    <3>3. Begins(w, OldBytes(a))
      BY <1>4, <2>2, <3>1, <3>2 DEF Answered, OldBytes
    <3>4. OldBytes(a) \in Seq(Tokens) /\ Len(OldBytes(a)) \in Nat
      BY NewBytesTyped
    <3>5. WireFrom(w, OldBytes(a), 0)
      BY <1>2, <3>3, <3>4 DEF Begins, WireFrom
    <3>6. QED BY <1>2, <1>4, <3>2, <3>5
  <2>3. QED BY <2>1, <2>2
<1>5. CASE st = 100 /\ a.continue /\ Begins(w, Answered(a))
  <2>1. a.code = 0 /\ Begins(w, <<Raw>> \o <<Blank>>)
    BY <1>3, <1>5 DEF Answered
  <2>2. Begins(Tail(w), <<Blank>>)
    BY <1>0, <2>1, OneRead
  <2>3. QED BY <1>2, <1>5, <2>1, <2>2 DEF HeadersPhase
<1>6. CASE Begins(w, Framed(a))
  <2>1. Len(Framed(a)) >= 1 /\ w[1] = Framed(a)[1]
    BY <1>0, <1>2, <1>6 DEF Begins
  <2>2. Framed(a) # <<>>
    BY <2>1
  <2>3. Framed(a)[1].t \in {"byte", "size"}
    BY <2>2, StreamTyped
  <2>4. QED BY <1>2, <2>1, <2>3
<1>7. QED BY <1>4, <1>5, <1>6 DEF StatusPhase

\* The headers have been read.
LEMMA HeadersTold ==
    ASSUME NEW a \in Answers, NEW w \in Seq(Tokens), NEW st, HeadersPhase(a, w, st), HeaderEnd(w) # 0
    PROVE  LET lines == SubSeq(w, 1, HeaderEnd(w) - 1)
               r     == SubSeq(w, HeaderEnd(w) + 1, Len(w))
           IN
           /\ r \in Seq(Tokens)
           /\ st = 100 => StatusPhase(a, r, st)
           /\ st # 100 /\ st # 0 => a.code = st /\ lines = Fields(a) /\ Begins(r, Framed(a))
           /\ st = 0 => a.code = 0
<1> DEFINE lines == SubSeq(w, 1, HeaderEnd(w) - 1)
           r     == SubSeq(w, HeaderEnd(w) + 1, Len(w))
<1>0. /\ Framed(a) \in Seq(Tokens) /\ Answered(a) \in Seq(Tokens) /\ Fields(a) \in Seq(Tokens)
      /\ \A i \in 1..Len(Fields(a)) : Fields(a)[i] # Blank
      /\ <<>> \in Seq(Tokens) /\ <<Blank>> \in Seq(Tokens) /\ <<Blank>> \o Answered(a) \in Seq(Tokens)
  BY StreamTyped, FieldsTold, BlankTyped
<1>1. CASE st = 100 /\ a.continue /\ Begins(w, <<Blank>> \o Answered(a))
  <2>1. Begins(w, <<>> \o (<<Blank>> \o Answered(a)))
    BY <1>0, <1>1
  <2>2. \A i \in 1..Len(<<>>) : <<>>[i] # Blank
    OBVIOUS
  <2>3. r \in Seq(Tokens) /\ Begins(r, Answered(a))
    BY <1>0, <2>1, <2>2, HeadersRead
  <2>4. QED BY <1>1, <2>3 DEF StatusPhase
<1>2. CASE a.code # 0 /\ st = a.code /\ Begins(w, Fields(a) \o (<<Blank>> \o Framed(a)))
  <2>1. r \in Seq(Tokens) /\ lines = Fields(a) /\ Begins(r, Framed(a))
    BY <1>0, <1>2, HeadersRead
  <2> HIDE DEF r, lines
  <2>2. QED BY <1>2, <2>1 DEF StatusPhase, r, lines
<1>3. CASE a.code = 0 /\ st = 0 /\ Begins(w, <<Blank>>)
  <2>1. <<>> \o (<<Blank>> \o <<>>) = <<Blank>>
    OBVIOUS
  <2>2. \A i \in 1..Len(<<>>) : <<>>[i] # Blank
    OBVIOUS
  <2>3. Begins(w, <<>> \o (<<Blank>> \o <<>>))
    BY <1>3, <2>1
  <2>4. r \in Seq(Tokens)
    BY <1>0, <2>2, <2>3, HeadersRead
  <2>5. QED BY <1>3, <2>4
<1>4. QED BY <1>1, <1>2, <1>3 DEF HeadersPhase

\* One sequence of m elements and another of k.
Then(z, x, m, s, k) ==
    Len(z) = m + k /\ (\A i \in 1..m : z[i] = x[i]) /\ \A i \in 1..k : z[m + i] = s[i]

LEMMA JoinedThen ==
    ASSUME NEW S, NEW x \in Seq(S), NEW s \in Seq(S)
    PROVE  x \o s \in Seq(S) /\ Then(x \o s, x, Len(x), s, Len(s))
BY Joined DEF Then

\* The sink is given k tokens more.
LEMMA GotMore ==
    ASSUME NEW u \in Urls, NEW b \in Seq(Tokens), NEW m \in Nat, NEW k \in Nat, NEW g,
           GotTo(g, u, b, m), m + k <= Len(b),
           NEW y \in Seq(Pairs), Len(y) = k, \A i \in 1..k : y[i] = <<u, b[m + i]>>
    PROVE  GotTo(g \o y, u, b, m + k)
<1>1. /\ g \in Seq(Pairs) /\ y \in Seq(Pairs) /\ Len(g) = m /\ Len(y) = k
      /\ \A i \in 1..m : g[i] = <<u, b[i]>>
  BY DEF GotTo
<1>2. g \o y \in Seq(Pairs) /\ Then(g \o y, g, m, y, k)
  BY <1>1, JoinedThen
<1>3. ASSUME NEW i \in 1..(m + k) PROVE (g \o y)[i] = <<u, b[i]>>
  <2>1. CASE i <= m
    <3>1. i \in 1..m
      BY <2>1
    <3>2. (g \o y)[i] = g[i]
      BY <1>2, <3>1 DEF Then
    <3>3. QED BY <1>1, <3>1, <3>2
  <2>2. CASE i > m
    <3>1. PICK j \in 1..k : i = m + j
      <4>1. i - m \in 1..k /\ i = m + (i - m)
        BY <2>2
      <4>2. QED BY <4>1
    <3>2. (g \o y)[m + j] = y[j]
      BY <1>2 DEF Then
    <3>3. QED BY <3>1, <3>2
  <2>3. i <= m \/ i > m
    OBVIOUS
  <2>4. QED BY ONLY <2>1, <2>2, <2>3
<1>4. PICK z : z = g \o y
  OBVIOUS
<1>5. Len(z) = m + k
  BY <1>2, <1>4 DEF Then
<1>6. GotTo(z, u, b, m + k)
  BY <1>2, <1>3, <1>4, <1>5 DEF GotTo
<1>7. QED BY <1>4, <1>6

\* k tokens are read.
LEMMA WireMore ==
    ASSUME NEW w \in Seq(Tokens), NEW b \in Seq(Tokens), NEW m \in Nat, WireFrom(w, b, m),
           NEW k \in 0..Len(w)
    PROVE  /\ SubSeq(w, k + 1, Len(w)) \in Seq(Tokens)
           /\ WireFrom(SubSeq(w, k + 1, Len(w)), b, m + k)
           /\ m + k <= Len(b) /\ \A i \in 1..k : w[i] = b[m + i]
<1> DEFINE r == SubSeq(w, k + 1, Len(w))
<1>0. Len(w) \in Nat /\ Len(b) \in Nat /\ k \in Nat /\ k <= Len(w)
  OBVIOUS
<1>1. m + Len(w) <= Len(b) /\ \A i \in 1..Len(w) : w[i] = b[m + i]
  BY DEF WireFrom
<1>2. r \in Seq(Tokens) /\ Len(r) = Len(w) - k /\ \A i \in 1..(Len(w) - k) : r[i] = w[k + i]
  <2>1. Len(r) = Len(w) - k
    BY <1>0
  <2>2. \A i \in 1..(Len(w) - k) : r[i] = w[i + (k + 1) - 1]
    BY <1>0
  <2>3. \A i \in Int : i + (k + 1) - 1 = k + i
    BY <1>0
  <2>4. \A i \in (k + 1)..Len(w) : w[i] \in Tokens
    BY <1>0
  <2>5. r \in Seq(Tokens)
    BY <1>0, <2>4
  <2>6. QED BY <2>1, <2>2, <2>3, <2>5
<1> HIDE DEF r
<1>3. ASSUME NEW i \in 1..Len(r) PROVE r[i] = b[(m + k) + i]
  <2>1. k + i \in 1..Len(w) /\ m + (k + i) = (m + k) + i
    BY <1>0, <1>2
  <2>2. QED BY <1>1, <1>2, <2>1
<1>4. WireFrom(r, b, m + k)
  BY <1>0, <1>1, <1>2, <1>3 DEF WireFrom
<1>5. m + k <= Len(b) /\ \A i \in 1..k : w[i] = b[m + i]
  BY <1>0, <1>1
<1>6. QED BY <1>2, <1>4, <1>5 DEF r

LEMMA CutFrom ==
    ASSUME NEW w \in Seq(Tokens), NEW b \in Seq(Tokens), NEW m \in Nat, WireFrom(w, b, m),
           NEW n \in 0..Len(w)
    PROVE  WireFrom(SubSeq(w, 1, n), b, m)
<1>1. Len(SubSeq(w, 1, n)) = n /\ \A i \in 1..n : SubSeq(w, 1, n)[i] = w[i]
  OBVIOUS
<1>2. n <= Len(w) /\ n \in Nat /\ Len(w) \in Nat /\ Len(b) \in Nat
  OBVIOUS
<1>3. QED BY <1>1, <1>2 DEF WireFrom

\* What the sink was given, as the property says it.
Told(u, b) == [i \in DOMAIN b |-> <<u, b[i]>>]

LEMMA GotPrefix ==
    ASSUME NEW u \in Urls, NEW b \in Seq(Tokens), NEW m \in Nat, NEW g, GotTo(g, u, b, m)
    PROVE  IsPrefix(g, Told(u, b)) /\ (m = Len(b) => g = Told(u, b))
<1> DEFINE t == Told(u, b)
<1>1. t \in Seq(Pairs) /\ Len(t) = Len(b) /\ \A i \in 1..Len(b) : t[i] = <<u, b[i]>>
  BY DEF Told, Pairs
<1> HIDE DEF t
<1>2. g \in Seq(Pairs) /\ Len(g) = m /\ m <= Len(b) /\ \A i \in 1..m : g[i] = t[i]
  <2>1. g \in Seq(Pairs) /\ Len(g) = m /\ m <= Len(b) /\ \A i \in 1..m : g[i] = <<u, b[i]>>
    BY DEF GotTo
  <2>2. \A i \in 1..m : i \in 1..Len(b)
    BY <2>1
  <2>3. QED BY <1>1, <2>1, <2>2
<1>3. SubSeq(g, 1, m) = SubSeq(t, 1, m)
  <2>1. SubSeq(g, 1, m) \in Seq(Pairs) /\ Len(SubSeq(g, 1, m)) = m
        /\ \A i \in 1..m : SubSeq(g, 1, m)[i] = g[i]
    BY <1>2
  <2>2. m \in 0..Len(t)
    BY <1>1, <1>2
  <2>3. SubSeq(t, 1, m) \in Seq(Pairs) /\ Len(SubSeq(t, 1, m)) = m
        /\ \A i \in 1..m : SubSeq(t, 1, m)[i] = t[i]
    BY <1>1, <2>2
  <2>4. QED BY <1>2, <2>1, <2>3
<1>4. IsPrefix(g, t)
  BY <1>1, <1>2, <1>3 DEF IsPrefix
<1>5. m = Len(b) => g = t
  BY <1>1, <1>2
<1>6. QED BY <1>4, <1>5 DEF t

\* Nothing has been given to the sink yet.
LEMMA GotNothing ==
    ASSUME NEW u \in Urls, NEW b \in Seq(Tokens)
    PROVE  GotTo(<<>>, u, b, 0)
<1>1. <<>> \in Seq(Pairs) /\ Len(<<>>) = 0 /\ Len(b) >= 0
  OBVIOUS
<1>2. QED BY <1>1 DEF GotTo

\* The chunk that comes next takes up the body where it is, and no other than the last
\* has the size 0.
LEMMA ChunkNext ==
    ASSUME NEW a \in Answers, Coded(a), NEW m \in 0..a.body, NEW w \in Seq(Tokens),
           Begins(w, ChunksLeft(a, m)), w # <<>>
    PROVE  /\ Head(w).t = "size" /\ Head(w).v \in 0..(a.body - m)
           /\ Head(w).v = 0 => m = a.body
           /\ Head(w).v > 0 /\ Head(w).v < Len(w) =>
                /\ \A i \in 1..Head(w).v : w[i + 1] = NewBytes(a)[m + i]
                /\ SubSeq(w, Head(w).v + 3, Len(w)) \in Seq(Tokens)
                /\ Begins(SubSeq(w, Head(w).v + 3, Len(w)), ChunksLeft(a, m + Head(w).v))
<1>0. /\ a.body \in Nat /\ m \in Nat /\ m <= a.body /\ Len(NewBytes(a)) = a.body
      /\ \A i \in 1..a.body : NewBytes(a)[i] = Line("byte", i)
  BY NewBytesTyped
<1>1. CASE m = a.body
  <2>1. ChunksLeft(a, m) = LastChunk(a)
    <3>1. CASE m = 0
      BY <1>1, <3>1 DEF ChunksLeft, Framed
    <3>2. CASE m # 0
      BY <1>1, <3>2 DEF ChunksLeft, ChunksAfter
    <3>3. QED BY <3>1, <3>2
  <2>2. /\ LastChunk(a) \in Seq(Tokens) /\ LastChunk(a)[1].t = "size" /\ LastChunk(a)[1].v = 0
    BY LastChunkTold
  <2>3. Len(w) >= 1 /\ Head(w) = w[1] /\ w[1] = LastChunk(a)[1]
    BY <2>1 DEF Begins
  <2>4. QED BY <1>0, <1>1, <2>2, <2>3
<1>2. CASE m # a.body
  <2>1. PICK n \in Nat : n = (IF m = 0 THEN 1 ELSE a.body)
    BY <1>0
  <2>2. PICK f \in Nat : f = m + 1
    BY <1>0
  <2>3. PICK c \in Nat : c = n - f + 1
    BY <1>0, <1>2, <2>1, <2>2
  <2>4. n >= f /\ f >= 1 /\ n <= a.body /\ m + c = n /\ c >= 1 /\ c <= a.body - m
    BY <1>0, <1>2, <2>1, <2>2, <2>3
  <2>5. PICK s : s = ChunksAfter(a, n)
    OBVIOUS
  <2>6. s \in Seq(Tokens)
    BY <2>4, <2>5, StreamTyped
  <2>7. ChunksLeft(a, m) = Chunk(f, n) \o s
    <3>1. CASE m = 0
      BY <1>2, <2>1, <2>2, <2>5, <3>1 DEF ChunksLeft, Framed
    <3>2. CASE m # 0
      <4>1. s = LastChunk(a)
        BY <2>1, <2>5, <3>2 DEF ChunksAfter
      <4>2. ChunksLeft(a, m) = Chunk(m + 1, a.body) \o LastChunk(a)
        BY <1>2, <3>2 DEF ChunksLeft, ChunksAfter
      <4>3. QED BY <2>1, <2>2, <3>2, <4>1, <4>2
    <3>3. QED BY <3>1, <3>2
  <2>8. Begins(w, Chunk(f, n) \o s)
    BY <2>7
  <2>9. /\ Head(w).t = "size" /\ Head(w).v = n - f + 1
        /\ n - f + 1 < Len(w) =>
             /\ \A i \in 1..(n - f + 1) : w[i + 1] = Line("byte", f + i - 1)
             /\ SubSeq(w, (n - f + 1) + 3, Len(w)) \in Seq(Tokens)
             /\ Begins(SubSeq(w, (n - f + 1) + 3, Len(w)), s)
    BY <2>4, <2>6, <2>8, ChunkRead
  <2>10. /\ Head(w).t = "size" /\ Head(w).v = c
         /\ c < Len(w) =>
             /\ \A i \in 1..c : w[i + 1] = Line("byte", f + i - 1)
             /\ SubSeq(w, c + 3, Len(w)) \in Seq(Tokens) /\ Begins(SubSeq(w, c + 3, Len(w)), s)
    BY <2>3, <2>9
  <2>11. \A i \in 1..c : m + i \in 1..a.body /\ f + i - 1 = m + i
    BY <1>0, <2>2, <2>4
  <2>12. ASSUME c < Len(w), NEW i \in 1..c PROVE w[i + 1] = NewBytes(a)[m + i]
    BY <1>0, <2>10, <2>11, <2>12
  <2>13. s = ChunksLeft(a, m + c)
    BY <1>0, <2>4, <2>5 DEF ChunksLeft
  <2>14. c \in 0..(a.body - m) /\ c # 0
    BY <1>0, <2>4
  <2>15. QED BY <2>10, <2>12, <2>13, <2>14
<1>3. QED BY <1>1, <1>2
-----------------------------------------------------------------------------
\* The invariant: what is left on the connection is what the answer says there is after
\* what has been read, and the sink has been given what the body has before it.

Typed ==
    /\ site \in [Urls -> Answers] /\ url \in Urls /\ wire \in Seq(Tokens)
    /\ pc \in {"open", "upload", "status", "headers", "body", "return"}
    /\ pc # "return" => result = None

InBody ==
    \/ OldBody(site[url], url, got, wire, source)
    \/ /\ site[url].code # 0 /\ status = site[url].code /\ shouldreceivebody
       /\ NewBody(site[url], url, got, wire, source, length)

Returned ==
    status # 100 =>
        /\ IsPrefix(got, Body(url))
        /\ IF result = "done" /\ Abandoned(site[url]) THEN got = <<>> ELSE BodyToSink

Placed ==
    /\ pc \in {"open", "upload", "status", "headers"} => got = <<>>
    /\ pc \in {"open", "upload", "body"} => status # 100
    /\ pc = "upload" => Begins(wire, Stream(site[url]))
    /\ pc = "status" => StatusPhase(site[url], wire, status)
    /\ pc = "headers" => HeadersPhase(site[url], wire, status)
    /\ pc = "body" => InBody
    /\ pc \in {"headers", "body"} /\ status # 100 => ~Abandoned(site[url])
    /\ pc = "return" => Returned

BodyInv == Typed /\ Placed

\* The body as the property has it.
LEMMA BodyTold ==
    ASSUME Typed
    PROVE  /\ site[url] \in Answers /\ site[url].body \in Nat
           /\ site[url].code = 0 => Body(url) = Told(url, OldBytes(site[url]))
           /\ site[url].code # 0 /\ shouldreceivebody => Body(url) = Told(url, NewBytes(site[url]))
           /\ site[url].code # 0 /\ ~shouldreceivebody => Body(url) = <<>>
<1>1. site[url] \in Answers
  BY DEF Typed
<1>2. <<>> = [i \in DOMAIN <<>> |-> <<url, <<>>[i]>>]
  OBVIOUS
<1>3. QED BY <1>1, <1>2, HttpAssumption DEF Body, Told, OldBytes, NewBytes

LEMMA PrefixNone == Typed => IsPrefix(<<>>, Body(url))
<1> SUFFICES ASSUME Typed PROVE IsPrefix(<<>>, Body(url))
  OBVIOUS
<1>1. Body(url) \in Seq(Pairs)
  <2>0. site[url] \in Answers /\ url \in Urls
    BY DEF Typed
  <2>1. ASSUME NEW b \in Seq(Tokens) PROVE Told(url, b) \in Seq(Pairs)
    BY <2>0 DEF Told, Pairs
  <2>2. NewBytes(site[url]) \in Seq(Tokens) /\ OldBytes(site[url]) \in Seq(Tokens)
    BY <2>0, NewBytesTyped
  <2>3. <<>> \in Seq(Pairs)
    OBVIOUS
  <2>4. QED BY <2>1, <2>2, <2>3, BodyTold
<1>2. Len(<<>>) = 0 /\ Len(Body(url)) >= 0 /\ SubSeq(<<>>, 1, 0) = <<>>
  BY <1>1
<1>3. SubSeq(Body(url), 1, 0) = <<>>
  BY <1>1
<1>4. QED BY <1>2, <1>3 DEF IsPrefix

LEMMA PrefixNoneNext == Typed' => IsPrefix(<<>>, Body(url))'
BY PrefixNone, PTL

\* In the middle of a body, and at the end of one.
LEMMA BodyPrefix ==
    ASSUME Typed, InBody
    PROVE  IsPrefix(got, Body(url))
<1> DEFINE a == site[url]
<1>0. a \in Answers /\ url \in Urls /\ NewBytes(a) \in Seq(Tokens) /\ OldBytes(a) \in Seq(Tokens)
      /\ a.body \in Nat
  BY NewBytesTyped DEF Typed
<1>1. CASE OldBody(a, url, got, wire, source)
  <2>1. PICK m \in Nat : GotTo(got, url, OldBytes(a), m)
    BY <1>1 DEF OldBody
  <2>2. IsPrefix(got, Told(url, OldBytes(a)))
    BY <1>0, <2>1, GotPrefix
  <2>3. QED BY <1>1, <2>2, BodyTold DEF OldBody
<1>2. CASE a.code # 0 /\ shouldreceivebody /\ NewBody(a, url, got, wire, source, length)
  <2>1. PICK m \in 0..a.body : GotTo(got, url, NewBytes(a), m)
    BY <1>2 DEF NewBody
  <2>2. m \in Nat
    BY <1>0
  <2>3. IsPrefix(got, Told(url, NewBytes(a)))
    BY <1>0, <2>1, <2>2, GotPrefix
  <2>4. QED BY <1>2, <2>3, BodyTold
<1>3. QED BY <1>1, <1>2 DEF InBody

-----------------------------------------------------------------------------
\* A step that ends the request.
LEMMA EndStep ==
    ASSUME BodyInv, UNCHANGED <<site, url, method, status>>, wire' \in Seq(Tokens), pc' = "return",
           IsPrefix(got', Body(url)),
           result' = "done" /\ Abandoned(site[url]) => got' = <<>>,
           /\ result' = "done" /\ ~Abandoned(site[url]) /\ site[url].code # 0
           /\ site[url].frame \in {"length", "chunked", "both"}
           => got' = Body(url)
    PROVE  BodyInv'
<1>1. Body(url)' = Body(url)
  BY DEF Body, shouldreceivebody
<1>2. Typed'
  BY DEF BodyInv, Typed
<1>3. Returned'
  BY <1>1 DEF Returned, BodyToSink, Abandoned
<1>4. QED BY <1>2, <1>3 DEF BodyInv, Placed

\* A failure, with what the sink has been given so far.
LEMMA FailStep ==
    ASSUME BodyInv, UNCHANGED <<site, url, method, status, wire, got>>, pc' = "return",
           result' # "done", pc # "return"
    PROVE  BodyInv'
<1>1. Typed /\ Placed /\ wire' \in Seq(Tokens)
  BY DEF BodyInv, Typed
<1>2. IsPrefix(got, Body(url))
  <2>1. CASE pc = "body"
    BY <1>1, <2>1, BodyPrefix DEF Placed
  <2>2. CASE pc # "body"
    BY <1>1, <2>2, PrefixNone DEF Placed, Typed
  <2>3. QED BY <2>1, <2>2
<1>3. QED BY <1>1, <1>2, EndStep

\* A body goes on.
LEMMA MoreStep ==
    ASSUME BodyInv, UNCHANGED <<site, url, method, status>>, wire' \in Seq(Tokens),
           pc = "body", pc' = "body", result' = result,
           \/ OldBody(site[url], url, got', wire', source')
           \/ /\ site[url].code # 0 /\ status = site[url].code /\ shouldreceivebody
              /\ NewBody(site[url], url, got', wire', source', length')
    PROVE  BodyInv'
<1>1. Typed'
  BY DEF BodyInv, Typed
<1>2. shouldreceivebody' = shouldreceivebody
  BY DEF shouldreceivebody
<1>3. InBody'
  BY <1>2 DEF InBody
<1>4. QED BY <1>1, <1>3 DEF BodyInv, Placed

LEMMA CutStep == BodyInv /\ Cut => BodyInv'
<1> SUFFICES ASSUME BodyInv, Cut PROVE BodyInv'
  OBVIOUS
<1> DEFINE a == site[url]
<1>1. /\ UNCHANGED <<site, url, method, status, pc, source, length, result, got>> /\ pc # "return"
      /\ Typed /\ Placed
  BY DEF Cut, request, reading, BodyInv
<1>2. PICK n \in 0..Len(wire) - 1 : wire' = SubSeq(wire, 1, n)
  BY DEF Cut
<1>3. wire \in Seq(Tokens) /\ n \in 0..Len(wire) /\ a \in Answers
  BY <1>1 DEF Typed
<1>4. /\ Framed(a) \in Seq(Tokens) /\ Answered(a) \in Seq(Tokens) /\ Stream(a) \in Seq(Tokens)
      /\ Fields(a) \in Seq(Tokens) /\ <<Blank>> \in Seq(Tokens)
      /\ NewBytes(a) \in Seq(Tokens) /\ OldBytes(a) \in Seq(Tokens) /\ a.body \in Nat
      /\ \A m \in 0..a.body : ChunksAfter(a, m) \in Seq(Tokens)
  BY <1>3, StreamTyped, FieldsTold, BlankTyped, NewBytesTyped
<1>5. /\ <<Blank>> \o Answered(a) \in Seq(Tokens) /\ Fields(a) \o (<<Blank>> \o Framed(a)) \in Seq(Tokens)
      /\ \A m \in 0..a.body : ChunksLeft(a, m) \in Seq(Tokens)
  BY <1>4 DEF ChunksLeft
<1>6. ASSUME NEW s \in Seq(Tokens), Begins(wire, s) PROVE wire' \in Seq(Tokens) /\ Begins(wire', s)
  BY <1>2, <1>3, <1>6, CutBegins
<1>7. ASSUME NEW b \in Seq(Tokens), NEW m \in Nat, WireFrom(wire, b, m) PROVE WireFrom(wire', b, m)
  BY <1>2, <1>3, <1>7, CutFrom
<1>8. wire' \in Seq(Tokens)
  BY <1>2, <1>3
<1> HIDE DEF a
<1>9. Typed' /\ a' = a
  BY <1>1, <1>8 DEF Typed, a
<1>10. CASE pc \in {"open", "upload", "status", "headers"}
  <2>1. pc = "upload" => Begins(wire', Stream(a))
    BY <1>1, <1>4, <1>6 DEF Placed, a
  <2>2. pc = "status" => StatusPhase(a, wire', status)
    <3>1. pc = "status" => StatusPhase(a, wire, status)
      BY <1>1 DEF Placed, a
    <3>2. QED BY <1>4, <1>6, <3>1 DEF StatusPhase
  <2>3. pc = "headers" => HeadersPhase(a, wire', status)
    <3>1. pc = "headers" => HeadersPhase(a, wire, status)
      BY <1>1 DEF Placed, a
    <3>2. QED BY <1>4, <1>5, <1>6, <3>1 DEF HeadersPhase
  <2>4. QED BY <1>1, <1>9, <1>10, <2>1, <2>2, <2>3 DEF BodyInv, Placed, a
<1>11. CASE pc = "body"
  <2>1. InBody
    BY <1>1, <1>11 DEF Placed
  <2>2. OldBody(a, url, got, wire, source) => OldBody(a, url, got, wire', source)
    BY <1>4, <1>7 DEF OldBody
  <2>3. NewBody(a, url, got, wire, source, length) => NewBody(a, url, got, wire', source, length)
    <3>1. SUFFICES ASSUME NewBody(a, url, got, wire, source, length)
                   PROVE  NewBody(a, url, got, wire', source, length)
      OBVIOUS
    <3>2. PICK m \in 0..a.body :
            /\ GotTo(got, url, NewBytes(a), m)
            /\ \/ Coded(a) /\ source = "chunked" /\ Begins(wire, ChunksLeft(a, m))
               \/ ~Coded(a) /\ source = "by-length" /\ WireFrom(wire, NewBytes(a), m) /\ length = a.body - m
               \/ /\ a.frame \notin {"length", "both", "chunked"} /\ source = "until-closed"
                  /\ WireFrom(wire, NewBytes(a), m)
      BY <3>1 DEF NewBody
    <3>3. m \in Nat
      BY <1>4
    <3>4. Begins(wire, ChunksLeft(a, m)) => Begins(wire', ChunksLeft(a, m))
      BY <1>5, <1>6
    <3>5. WireFrom(wire, NewBytes(a), m) => WireFrom(wire', NewBytes(a), m)
      BY <1>4, <1>7, <3>3
    <3>6. QED BY <3>2, <3>4, <3>5 DEF NewBody
  <2>4. QED BY <1>1, <1>8, <1>11, <2>1, <2>2, <2>3, MoreStep DEF InBody, a
<1>12. QED BY <1>1, <1>10, <1>11 DEF Typed

LEMMA OpenStep == BodyInv /\ open => BodyInv'
<1> SUFFICES ASSUME BodyInv, open PROVE BodyInv'
  OBVIOUS
<1>1. /\ UNCHANGED <<site, url, method, status, got>> /\ pc = "open" /\ Typed /\ Placed
      /\ got = <<>> /\ status # 100 /\ result = None
  BY DEF open, request, reading, BodyInv, Typed, Placed
<1>2. CASE wire' = Stream(site[url]) /\ pc' \in {"upload", "status"} /\ result' = result
  <2>1. Stream(site[url]) \in Seq(Tokens)
    BY <1>1, StreamTyped DEF Typed
  <2>2. Begins(wire', Stream(site[url]))
    BY <1>2, <2>1 DEF Begins
  <2>3. Typed'
    BY <1>1, <1>2, <2>1 DEF Typed
  <2>4. QED BY <1>1, <1>2, <2>2, <2>3 DEF BodyInv, Placed, StatusPhase
<1>3. CASE Fails(FALSE) /\ UNCHANGED wire
  BY <1>1, <1>3, FailStep DEF Fails, Raise
<1>4. QED BY <1>2, <1>3 DEF open

LEMMA UploadStep == BodyInv /\ sendbody => BodyInv'
<1> SUFFICES ASSUME BodyInv, sendbody PROVE BodyInv'
  OBVIOUS
<1>1. /\ UNCHANGED <<site, url, method, status, wire, got>> /\ pc = "upload" /\ Typed /\ Placed
      /\ got = <<>> /\ status # 100 /\ result = None /\ Begins(wire, Stream(site[url]))
  BY DEF sendbody, request, reading, BodyInv, Typed, Placed
<1>2. \/ pc' \in {"upload", "status"} /\ result' = result
      \/ pc' = "return" /\ result' = "error"
  BY DEF sendbody, Fails, Raise
<1>3. CASE pc' \in {"upload", "status"} /\ result' = result
  <2>1. Typed'
    BY <1>1, <1>3 DEF Typed
  <2>2. QED BY <1>1, <1>3, <2>1 DEF BodyInv, Placed, StatusPhase
<1>4. CASE pc' = "return" /\ result' = "error"
  BY <1>1, <1>4, FailStep
<1>5. QED BY <1>2, <1>3, <1>4

LEMMA StatusStep == BodyInv /\ receivestatusline => BodyInv'
<1> SUFFICES ASSUME BodyInv, receivestatusline PROVE BodyInv'
  OBVIOUS
<1> DEFINE a == site[url]
<1>1. /\ UNCHANGED <<site, url, method, got>> /\ pc = "status" /\ Typed /\ Placed
      /\ got = <<>> /\ result = None /\ StatusPhase(a, wire, status)
      /\ a \in Answers /\ wire \in Seq(Tokens) /\ url \in Urls
  BY DEF receivestatusline, request, BodyInv, Typed, Placed
<1>2. CASE Fails(wire = <<>> \/ Head(wire).t \notin {"status", "raw"}) /\ UNCHANGED <<wire, reading>>
  BY <1>1, <1>2, FailStep DEF Fails, Raise, reading
<1>3. CASE /\ wire # <<>> /\ Head(wire).t = "status"
           /\ status' = Head(wire).v /\ wire' = Tail(wire)
           /\ ~(status # 100 /\ status' = 408) /\ pc' = "headers" /\ UNCHANGED result
  <2>0. ASSUME status' # 100 PROVE ~Abandoned(a)
    <3>1. HeadersPhase(a, Tail(wire), status') /\ (status # 100 /\ a.continue => status' = 100)
      BY <1>1, <1>3, StatusRead
    <3>2. QED BY <1>1, <1>3, <2>0, <3>1 DEF HeadersPhase, StatusPhase, Abandoned
  <2>1. wire' \in Seq(Tokens) /\ HeadersPhase(a, wire', status')
    BY <1>1, <1>3, StatusRead
  <2>2. Typed'
    BY <1>1, <1>3, <2>1 DEF Typed
  <2>3. ~Abandoned(site[url])' \/ status' = 100
    BY <1>1, <2>0 DEF Abandoned
  <2>4. QED BY <1>1, <1>3, <2>1, <2>2, <2>3 DEF BodyInv, Placed
<1>4. CASE /\ wire # <<>> /\ Head(wire).t = "status"
           /\ status' = Head(wire).v /\ wire' = Tail(wire)
           /\ status # 100 /\ status' = 408 /\ pc' = "return" /\ result' = "done"
  <2>1. Abandoned(a)
    BY <1>1, <1>4, StatusRead DEF HeadersPhase, Abandoned
  <2>2. wire' \in Seq(Tokens) /\ Typed'
    BY <1>1, <1>4 DEF Typed
  <2>3. IsPrefix(<<>>, Body(url))' /\ got' = <<>>
    BY <1>1, <2>2, PrefixNoneNext
  <2>4. Abandoned(site[url])'
    BY <1>1, <2>1 DEF Abandoned
  <2>5. QED BY <1>4, <2>2, <2>3, <2>4 DEF BodyInv, Placed, Returned
<1>5. CASE /\ wire # <<>> /\ Head(wire).t = "raw" /\ status = 100
           /\ status' = 0 /\ wire' = Tail(wire) /\ pc' = "headers" /\ result' = result
  <2>1. wire' \in Seq(Tokens) /\ HeadersPhase(a, wire', status')
    BY <1>1, <1>5, RawSeen
  <2>2. Typed'
    BY <1>1, <1>5, <2>1 DEF Typed
  <2>3. ~Abandoned(site[url])'
    BY <1>1, <1>5, <2>1 DEF HeadersPhase, Abandoned
  <2>4. QED BY <1>1, <1>5, <2>1, <2>2, <2>3 DEF BodyInv, Placed
<1>6. CASE /\ wire # <<>> /\ Head(wire).t = "raw" /\ status # 100
           /\ status' = 0 /\ source' = "until-closed" /\ pc' = "body" /\ UNCHANGED wire
           /\ result' = result
  <2>1. a.code = 0 /\ WireFrom(wire, OldBytes(a), 0)
    BY <1>1, <1>6, RawSeen
  <2>2. OldBytes(a) \in Seq(Tokens)
    BY <1>1, NewBytesTyped
  <2>3. GotTo(got, url, OldBytes(a), 0)
    BY <1>1, <2>2, GotNothing
  <2>4. 0 \in Nat
    OBVIOUS
  <2>5. OldBody(a, url, got, wire, source')
    BY <1>6, <2>1, <2>3, <2>4 DEF OldBody
  <2>6. InBody'
    BY <1>1, <1>6, <2>5 DEF InBody
  <2>7. Typed'
    BY <1>1, <1>6 DEF Typed
  <2>8. ~Abandoned(site[url])'
    BY <1>1, <2>1 DEF Abandoned
  <2>9. QED BY <1>1, <1>6, <2>6, <2>7, <2>8 DEF BodyInv, Placed
<1>7. QED BY <1>2, <1>3, <1>4, <1>5, <1>6 DEF receivestatusline

\* What follows from the headers of an answer to be read.
LEMMA FramedBody ==
    ASSUME NEW a \in Answers, NEW u \in Urls, NEW r \in Seq(Tokens), Begins(r, Framed(a)),
           NEW src, src = (IF Given(Fields(a), "encoding") THEN "chunked"
                           ELSE IF Given(Fields(a), "length") THEN "by-length" ELSE "until-closed"),
           NEW len, len = (IF Given(Fields(a), "length") THEN Field(Fields(a), "length") ELSE NoLength)
    PROVE  NewBody(a, u, <<>>, r, src, len)
<1>1. /\ Given(Fields(a), "encoding") <=> Coded(a)
      /\ Given(Fields(a), "length") <=> a.frame \in {"length", "both"}
      /\ Given(Fields(a), "length") => Field(Fields(a), "length") = a.body
  BY FieldsTold
<1>2. NewBytes(a) \in Seq(Tokens) /\ a.body \in Nat /\ Len(NewBytes(a)) = a.body
  BY NewBytesTyped
<1>3. GotTo(<<>>, u, NewBytes(a), 0)
  BY <1>2, GotNothing
<1>4. 0 \in 0..a.body /\ a.body - 0 = a.body
  BY <1>2
<1>5. Coded(a) => Begins(r, ChunksLeft(a, 0))
  BY DEF ChunksLeft
<1>6. ~Coded(a) => WireFrom(r, NewBytes(a), 0)
  <2>1. SUFFICES ASSUME ~Coded(a) PROVE WireFrom(r, NewBytes(a), 0)
    OBVIOUS
  <2>2. Begins(r, NewBytes(a)) /\ Len(r) \in Nat
    BY <2>1 DEF Framed, NewBytes
  <2>3. QED BY <1>2, <2>2 DEF Begins, WireFrom
<1>7. Coded(a) <=> a.frame \in {"chunked", "both"}
  BY DEF Coded
<1>8. CASE Coded(a)
  BY <1>1, <1>3, <1>4, <1>5, <1>8 DEF NewBody
<1>9. CASE ~Coded(a) /\ a.frame = "length"
  BY <1>1, <1>3, <1>4, <1>6, <1>9 DEF NewBody
<1>10. CASE a.frame \notin {"length", "both", "chunked"}
  BY <1>1, <1>3, <1>4, <1>6, <1>7, <1>10 DEF NewBody
<1>11. QED BY <1>7, <1>8, <1>9, <1>10

LEMMA HeadersStep == BodyInv /\ receiveheaders => BodyInv'
<1> SUFFICES ASSUME BodyInv, receiveheaders PROVE BodyInv'
  OBVIOUS
<1> DEFINE a == site[url]
           n == HeaderEnd(wire)
           lines == SubSeq(wire, 1, n - 1)
           location == IF Given(lines, "location") THEN Field(lines, "location") ELSE None
           r == SubSeq(wire, n + 1, Len(wire))
<1>1. /\ UNCHANGED <<site, got>> /\ pc = "headers" /\ Typed /\ Placed
      /\ got = <<>> /\ result = None /\ HeadersPhase(a, wire, status)
      /\ a \in Answers /\ wire \in Seq(Tokens) /\ url \in Urls /\ site \in [Urls -> Answers]
  BY DEF receiveheaders, BodyInv, Typed, Placed
<1>2. n # 0 =>
        /\ r \in Seq(Tokens)
        /\ status = 100 => StatusPhase(a, r, status)
        /\ status # 100 /\ status # 0 => a.code = status /\ lines = Fields(a) /\ Begins(r, Framed(a))
        /\ status = 0 => a.code = 0
  BY <1>1, HeadersTold
<1>3. \/ /\ Fails(n = 0 \/ ~WellFormed(lines))
         /\ UNCHANGED <<wire, url, method, nredirects, reading>>
      \/ /\ n # 0 /\ wire' = r /\ UNCHANGED status
         /\ \/ /\ status = 100 /\ pc' = "status" /\ UNCHANGED <<url, method, result>>
            \/ /\ status # 100 /\ MayRedirect(location) /\ tredirect(location)
            \/ /\ status # 100 /\ UNCHANGED <<url, method>>
               /\ \/ status = 0 /\ method # "HEAD" /\ Error
                  \/ /\ ~(status = 0 /\ method # "HEAD") /\ shouldreceivebody /\ pc' = "body"
                     /\ receivebody(lines) /\ UNCHANGED result
                  \/ ~(status = 0 /\ method # "HEAD") /\ ~shouldreceivebody /\ Done
  BY DEF receiveheaders
<1> HIDE DEF n, lines, location, r
<1>4. CASE Fails(n = 0 \/ ~WellFormed(lines)) /\ UNCHANGED <<wire, url, method, nredirects, reading>>
  BY <1>1, <1>4, FailStep DEF Fails, Raise, reading
<1>5. CASE /\ n # 0 /\ wire' = r /\ UNCHANGED status
           /\ status = 100 /\ pc' = "status" /\ UNCHANGED <<url, method, result>>
  <2>1. Typed'
    BY <1>1, <1>2, <1>5 DEF Typed
  <2>2. StatusPhase(a, wire', status)
    BY <1>2, <1>5
  <2>3. QED BY <1>1, <1>5, <2>1, <2>2 DEF BodyInv, Placed
<1>6. CASE /\ n # 0 /\ wire' = r /\ UNCHANGED status
           /\ status # 100 /\ MayRedirect(location) /\ tredirect(location)
  <2>1. url' \in Urls /\ pc' = "open" /\ result' = result
    BY <1>6 DEF MayRedirect, shouldredirect, tredirect
  <2>2. Typed'
    BY <1>1, <1>2, <1>6, <2>1 DEF Typed
  <2>3. QED BY <1>1, <1>6, <2>1, <2>2 DEF BodyInv, Placed
<1>7. CASE n # 0 /\ wire' = r /\ UNCHANGED <<url, method, status>> /\ status # 100
           /\ status = 0 /\ method # "HEAD" /\ Error
  <2>1. IsPrefix(got', Body(url))
    BY <1>1, PrefixNone
  <2>2. pc' = "return" /\ result' # "done"
    BY <1>7 DEF Error
  <2>3. QED BY <1>1, <1>2, <1>7, <2>1, <2>2, EndStep
<1>8. CASE /\ n # 0 /\ wire' = r /\ UNCHANGED <<url, method, status>> /\ status # 100
           /\ ~(status = 0 /\ method # "HEAD") /\ shouldreceivebody /\ pc' = "body"
           /\ receivebody(lines) /\ UNCHANGED result
  <2>1. status # 0 /\ status # 100 /\ shouldreceivebody' = shouldreceivebody
    BY <1>8 DEF shouldreceivebody
  <2>2. a.code = status /\ lines = Fields(a) /\ Begins(r, Framed(a)) /\ r \in Seq(Tokens)
    BY <1>2, <1>8, <2>1
  <2>3. /\ source' = (IF Given(Fields(a), "encoding") THEN "chunked"
                      ELSE IF Given(Fields(a), "length") THEN "by-length" ELSE "until-closed")
        /\ length' = (IF Given(Fields(a), "length") THEN Field(Fields(a), "length") ELSE NoLength)
    BY <1>8, <2>2 DEF receivebody
  <2>4. NewBody(a, url, <<>>, r, source', length')
    BY <1>1, <2>2, <2>3, FramedBody
  <2>5. InBody'
    BY <1>1, <1>8, <2>1, <2>2, <2>4 DEF InBody
  <2>6. Typed'
    BY <1>1, <1>8, <2>2 DEF Typed
  <2>7. QED BY <1>1, <1>8, <2>1, <2>5, <2>6 DEF BodyInv, Placed
<1>9. CASE /\ n # 0 /\ wire' = r /\ UNCHANGED <<url, method, status>> /\ status # 100
           /\ ~(status = 0 /\ method # "HEAD") /\ ~shouldreceivebody /\ Done
  <2>1. IsPrefix(got', Body(url))
    BY <1>1, PrefixNone
  <2>2. a.code # 0 => got' = Body(url)
    BY <1>1, <1>2, <1>9, BodyTold
  <2>3. pc' = "return"
    BY <1>9 DEF Done
  <2>4. QED BY <1>1, <1>2, <1>9, <2>1, <2>2, <2>3, EndStep
<1>10. QED BY <1>3, <1>4, <1>5, <1>6, <1>7, <1>8, <1>9

\* The three sources of a body.
BodyStays == pc = "body" /\ UNCHANGED <<request, status, source, tosend, uploaded>>

LEMMA ChunkedStep == BodyInv /\ BodyStays /\ chunked => BodyInv'
<1> SUFFICES ASSUME BodyInv, BodyStays, chunked PROVE BodyInv'
  OBVIOUS
<1>0. PICK k : k = Head(wire).v
  OBVIOUS
<1> DEFINE a == site[url]
           r == SubSeq(wire, k + 3, Len(wire))
           y == [i \in 1..k |-> <<url, wire[i + 1]>>]
<1>1. /\ UNCHANGED <<site, url, method, status, source, length>> /\ pc = "body" /\ source = "chunked"
      /\ Typed /\ Placed /\ InBody /\ ~Abandoned(site[url]) /\ result = None /\ a \in Answers /\ wire \in Seq(Tokens) /\ url \in Urls
  BY DEF BodyStays, request, chunked, BodyInv, Typed, Placed
<1>2. /\ a.code # 0 /\ status = a.code /\ shouldreceivebody
      /\ NewBody(a, url, got, wire, source, length)
  BY <1>1 DEF InBody, OldBody
<1>3. PICK m \in 0..a.body : GotTo(got, url, NewBytes(a), m) /\ Coded(a) /\ Begins(wire, ChunksLeft(a, m))
  BY <1>1, <1>2 DEF NewBody
<1>4. a.body \in Nat /\ m \in Nat /\ NewBytes(a) \in Seq(Tokens) /\ Len(NewBytes(a)) = a.body
  BY <1>1, NewBytesTyped
<1>5. wire # <<>> =>
        /\ Head(wire).t = "size" /\ k \in 0..(a.body - m)
        /\ k = 0 => m = a.body
        /\ k > 0 /\ k < Len(wire) =>
              /\ \A i \in 1..k : wire[i + 1] = NewBytes(a)[m + i]
              /\ r \in Seq(Tokens) /\ Begins(r, ChunksLeft(a, m + k))
  BY <1>0, <1>1, <1>3, ChunkNext
<1>6. \/ Fails(\/ ChunkSize = -1
               \/ ChunkSize > 0 /\ ChunkSize >= Len(wire)
               \/ ChunkSize = 0 /\ HeaderEnd(wire) = 0)
         /\ UNCHANGED <<wire, got>>
      \/ /\ ChunkSize > 0 /\ ChunkSize < Len(wire)
         /\ got' = got \o [i \in 1..ChunkSize |-> <<url, wire[i + 1]>>]
         /\ wire' = SubSeq(wire, ChunkSize + 3, Len(wire))
         /\ UNCHANGED <<pc, result>>
      \/ /\ ChunkSize = 0 /\ Error /\ UNCHANGED <<wire, got>>
      \/ /\ ChunkSize = 0 /\ Done /\ UNCHANGED <<wire, got>>
  BY DEF chunked, Gives
<1>7. CASE UNCHANGED <<wire, got>> /\ pc' = "return" /\ result' # "done"
  BY <1>1, <1>7, FailStep
<1>8. ASSUME ChunkSize # -1 PROVE wire # <<>> /\ ChunkSize = k
  BY <1>0, <1>8 DEF ChunkSize
<1>9. CASE /\ ChunkSize > 0 /\ ChunkSize < Len(wire)
           /\ got' = got \o [i \in 1..ChunkSize |-> <<url, wire[i + 1]>>]
           /\ wire' = SubSeq(wire, ChunkSize + 3, Len(wire))
           /\ UNCHANGED <<pc, result>>
  <2>1. ChunkSize # -1
    BY <1>9
  <2>2. wire # <<>> /\ ChunkSize = k
    BY <1>8, <2>1
  <2>3. k > 0 /\ k < Len(wire) /\ got' = got \o y /\ wire' = r
    BY <1>9, <2>2
  <2>4. k \in Nat /\ m + k <= a.body /\ m + k \in 0..a.body
    BY <1>4, <1>5, <2>2
  <2>5. \A i \in 1..k : wire[i + 1] = NewBytes(a)[m + i] /\ wire[i + 1] \in Tokens
    <3>1. \A i \in 1..k : i + 1 \in 1..Len(wire)
      BY <1>1, <2>3, <2>4
    <3>2. \A i \in 1..k : wire[i + 1] \in Tokens
      BY <1>1, <3>1
    <3>3. QED BY <1>5, <2>2, <2>3, <3>2
  <2>6. y \in Seq(Pairs) /\ Len(y) = k /\ \A i \in 1..k : y[i] = <<url, NewBytes(a)[m + i]>>
    <3> DEFINE p(i) == <<url, wire[i + 1]>>
    <3>1. y = [i \in 1..k |-> p(i)] /\ \A i \in 1..k : p(i) \in Pairs
      BY <1>1, <2>5 DEF Pairs
    <3>2. \A i \in 1..k : p(i) = <<url, NewBytes(a)[m + i]>>
      BY <2>5
    <3> HIDE DEF p, y
    <3>3. y \in Seq(Pairs) /\ Len(y) = k /\ \A i \in 1..k : y[i] = p(i)
      BY <2>4, <3>1
    <3>4. QED BY <3>2, <3>3
  <2> HIDE DEF y, r, a
  <2>7. GotTo(got \o y, url, NewBytes(a), m + k)
    BY <1>1, <1>3, <1>4, <2>4, <2>6, GotMore
  <2>8. Begins(wire', ChunksLeft(a, m + k)) /\ wire' \in Seq(Tokens)
    BY <1>5, <2>2, <2>3
  <2>9. NewBody(a, url, got', wire', source', length')
    BY <1>1, <1>3, <2>3, <2>4, <2>7, <2>8 DEF NewBody
  <2>10. QED BY <1>1, <1>2, <1>9, <2>8, <2>9, MoreStep DEF a
<1>10. CASE ChunkSize = 0 /\ Done /\ UNCHANGED <<wire, got>>
  <2>1. ChunkSize # -1
    BY <1>10
  <2>2. m = a.body
    BY <1>5, <1>8, <1>10, <2>1
  <2>3. got = Told(url, NewBytes(a)) /\ IsPrefix(got, Told(url, NewBytes(a)))
    BY <1>1, <1>3, <1>4, <2>2, GotPrefix
  <2>4. got' = Body(url) /\ IsPrefix(got', Body(url))
    BY <1>1, <1>2, <1>10, <2>3, BodyTold
  <2>5. pc' = "return"
    BY <1>10 DEF Done
  <2>6. QED BY <1>1, <1>10, <2>4, <2>5, EndStep
<1>11. QED BY <1>6, <1>7, <1>9, <1>10 DEF Fails, Raise, Error

LEMMA LengthStep == BodyInv /\ BodyStays /\ by_length => BodyInv'
<1> SUFFICES ASSUME BodyInv, BodyStays, by_length PROVE BodyInv'
  OBVIOUS
<1> DEFINE a == site[url]
<1>0. PICK k : k = (IF length < BLOCKSIZE THEN length ELSE BLOCKSIZE)
  OBVIOUS
<1> DEFINE r == SubSeq(wire, k + 1, Len(wire))
           y == [i \in 1..k |-> <<url, wire[i + 0]>>]
<1>1. /\ UNCHANGED <<site, url, method, status, source>> /\ pc = "body" /\ source = "by-length"
      /\ Typed /\ Placed /\ InBody /\ ~Abandoned(site[url]) /\ result = None /\ a \in Answers /\ wire \in Seq(Tokens) /\ url \in Urls
  BY DEF BodyStays, request, by_length, BodyInv, Typed, Placed
<1>2. /\ a.code # 0 /\ status = a.code /\ shouldreceivebody
      /\ NewBody(a, url, got, wire, source, length)
  BY <1>1 DEF InBody, OldBody
<1>3. PICK m \in 0..a.body : /\ GotTo(got, url, NewBytes(a), m) /\ ~Coded(a)
                             /\ WireFrom(wire, NewBytes(a), m) /\ length = a.body - m
  BY <1>1, <1>2 DEF NewBody
<1>4. a.body \in Nat /\ m \in Nat /\ NewBytes(a) \in Seq(Tokens) /\ Len(NewBytes(a)) = a.body
  BY <1>1, NewBytesTyped
<1>5. \/ Fails(k > Len(wire)) /\ UNCHANGED <<wire, got>>
      \/ /\ length > 0 /\ k <= Len(wire) /\ got' = got \o y /\ wire' = r
         /\ length' = length - k /\ UNCHANGED <<pc, result>>
      \/ length = 0 /\ Done /\ UNCHANGED <<wire, got>>
  BY <1>0 DEF by_length, Gives
<1>6. CASE Fails(k > Len(wire)) /\ UNCHANGED <<wire, got>>
  BY <1>1, <1>6, FailStep DEF Fails, Raise
<1>7. CASE /\ length > 0 /\ k <= Len(wire) /\ got' = got \o y /\ wire' = r
           /\ length' = length - k /\ UNCHANGED <<pc, result>>
  <2>1. k \in Nat /\ k <= length
    <3>1. length \in Int /\ length > 0 /\ BLOCKSIZE \in Nat
      BY <1>3, <1>4, <1>7, HttpAssumption
    <3>2. QED BY <1>0, <3>1
  <2>2. k \in 0..Len(wire)
    BY <1>1, <1>7, <2>1
  <2>3. /\ r \in Seq(Tokens) /\ WireFrom(r, NewBytes(a), m + k)
        /\ m + k <= Len(NewBytes(a)) /\ \A i \in 1..k : wire[i] = NewBytes(a)[m + i]
    BY <1>1, <1>3, <1>4, <2>2, WireMore
  <2>4. \A i \in 1..k : wire[i + 0] = NewBytes(a)[m + i] /\ wire[i + 0] \in Tokens
    BY <1>1, <2>1, <2>2, <2>3
  <2>5. y \in Seq(Pairs) /\ Len(y) = k /\ \A i \in 1..k : y[i] = <<url, NewBytes(a)[m + i]>>
    <3> DEFINE p(i) == <<url, wire[i + 0]>>
    <3>1. y = [i \in 1..k |-> p(i)] /\ \A i \in 1..k : p(i) \in Pairs
      BY <1>1, <2>4 DEF Pairs
    <3>2. \A i \in 1..k : p(i) = <<url, NewBytes(a)[m + i]>>
      BY <2>4
    <3> HIDE DEF p, y
    <3>3. y \in Seq(Pairs) /\ Len(y) = k /\ \A i \in 1..k : y[i] = p(i)
      BY <2>1, <3>1
    <3>4. QED BY <3>2, <3>3
  <2>6. m + k \in 0..a.body /\ length' = a.body - (m + k)
    <3>1. PICK z \in Nat : z = a.body
      BY <1>4
    <3>2. m \in Nat /\ k \in Nat /\ length = z - m /\ length' = length - k /\ k <= z - m
      BY <1>3, <1>4, <1>7, <2>1, <3>1
    <3>3. (z - m) - k = z - (m + k) /\ m + k \in 0..z
      BY <3>1, <3>2
    <3>4. QED BY <3>1, <3>2, <3>3
  <2> HIDE DEF y, r, a
  <2>7. GotTo(got \o y, url, NewBytes(a), m + k)
    BY <1>1, <1>3, <1>4, <2>1, <2>3, <2>5, GotMore
  <2>8. NewBody(a, url, got', wire', source', length')
    BY <1>1, <1>3, <1>7, <2>3, <2>6, <2>7 DEF NewBody
  <2>9. QED BY <1>1, <1>2, <1>7, <2>3, <2>8, MoreStep DEF a
<1>8. CASE length = 0 /\ Done /\ UNCHANGED <<wire, got>>
  <2>1. m = a.body
    BY <1>3, <1>4, <1>8
  <2>2. got = Told(url, NewBytes(a)) /\ IsPrefix(got, Told(url, NewBytes(a)))
    BY <1>1, <1>3, <1>4, <2>1, GotPrefix
  <2>3. got' = Body(url) /\ IsPrefix(got', Body(url))
    BY <1>1, <1>2, <1>8, <2>2, BodyTold
  <2>4. pc' = "return"
    BY <1>8 DEF Done
  <2>5. QED BY <1>1, <1>8, <2>3, <2>4, EndStep
<1>9. QED BY <1>5, <1>6, <1>7, <1>8

LEMMA ClosedStep == BodyInv /\ BodyStays /\ until_closed => BodyInv'
<1> SUFFICES ASSUME BodyInv, BodyStays, until_closed PROVE BodyInv'
  OBVIOUS
<1> DEFINE a == site[url]
<1>0. PICK k : k = (IF Len(wire) < BLOCKSIZE THEN Len(wire) ELSE BLOCKSIZE)
  OBVIOUS
<1>10. PICK b : b = (IF a.code = 0 THEN OldBytes(a) ELSE NewBytes(a))
  OBVIOUS
<1> DEFINE r == SubSeq(wire, k + 1, Len(wire))
           y == [i \in 1..k |-> <<url, wire[i]>>]
<1>1. /\ UNCHANGED <<site, url, method, status, source>> /\ pc = "body" /\ source = "until-closed"
      /\ Typed /\ Placed /\ InBody /\ ~Abandoned(site[url]) /\ result = None /\ a \in Answers /\ wire \in Seq(Tokens) /\ url \in Urls
  BY DEF BodyStays, request, until_closed, BodyInv, Typed, Placed
<1>2. /\ NewBytes(a) \in Seq(Tokens) /\ OldBytes(a) \in Seq(Tokens) /\ b \in Seq(Tokens)
      /\ a.body \in Nat /\ Len(NewBytes(a)) = a.body
  BY <1>1, <1>10, NewBytesTyped
<1>3. /\ a.code # 0 => status = a.code /\ shouldreceivebody /\ a.frame \notin {"length", "both", "chunked"}
      /\ \E m \in Nat : GotTo(got, url, b, m) /\ WireFrom(wire, b, m)
  <2>1. CASE OldBody(a, url, got, wire, source)
    BY <1>10, <2>1 DEF OldBody
  <2>2. CASE /\ a.code # 0 /\ status = a.code /\ shouldreceivebody
             /\ NewBody(a, url, got, wire, source, length)
    <3>1. PICK m \in 0..a.body :
             /\ GotTo(got, url, NewBytes(a), m) /\ a.frame \notin {"length", "both", "chunked"}
             /\ WireFrom(wire, NewBytes(a), m)
      BY <1>1, <2>2 DEF NewBody
    <3>2. m \in Nat
      BY <1>2
    <3>3. QED BY <1>10, <2>2, <3>1, <3>2
  <2>3. QED BY <1>1, <2>1, <2>2 DEF InBody
<1>4. PICK m \in Nat : GotTo(got, url, b, m) /\ WireFrom(wire, b, m)
  BY <1>3
<1>5. \/ Fails(FALSE) /\ UNCHANGED <<wire, got>>
      \/ got' = got \o y /\ wire' = r /\ (UNCHANGED <<pc, result>> \/ Done)
  BY <1>0 DEF until_closed
<1>6. CASE Fails(FALSE) /\ UNCHANGED <<wire, got>>
  BY <1>1, <1>6, FailStep DEF Fails, Raise
<1>7. CASE got' = got \o y /\ wire' = r /\ (UNCHANGED <<pc, result>> \/ Done)
  <2>1. k \in Nat /\ k \in 0..Len(wire)
    BY <1>0, <1>1, HttpAssumption
  <2>2. /\ r \in Seq(Tokens) /\ WireFrom(r, b, m + k)
        /\ m + k <= Len(b) /\ \A i \in 1..k : wire[i] = b[m + i]
    BY <1>1, <1>2, <1>4, <2>1, WireMore
  <2>3. \A i \in 1..k : wire[i] \in Tokens
    BY <1>1, <2>1
  <2>4. y \in Seq(Pairs) /\ Len(y) = k /\ \A i \in 1..k : y[i] = <<url, b[m + i]>>
    <3> DEFINE p(i) == <<url, wire[i]>>
    <3>1. y = [i \in 1..k |-> p(i)] /\ \A i \in 1..k : p(i) \in Pairs
      BY <1>1, <2>2, <2>3 DEF Pairs
    <3>2. \A i \in 1..k : p(i) = <<url, b[m + i]>>
      BY <2>2, <2>3
    <3> HIDE DEF p, y
    <3>3. y \in Seq(Pairs) /\ Len(y) = k /\ \A i \in 1..k : y[i] = p(i)
      BY <2>1, <3>1
    <3>4. QED BY <3>2, <3>3
  <2> HIDE DEF y, r, a
  <2>5. GotTo(got', url, b, m + k)
    BY <1>1, <1>2, <1>4, <1>7, <2>1, <2>2, <2>4, GotMore
  <2>6. WireFrom(wire', b, m + k) /\ m + k \in Nat /\ wire' \in Seq(Tokens)
    BY <1>7, <2>1, <2>2
  <2>7. CASE UNCHANGED <<pc, result>>
    <3>1. CASE a.code = 0
      <4>1. OldBody(a, url, got', wire', source')
        BY <1>1, <1>10, <2>5, <2>6, <3>1 DEF OldBody
      <4>2. QED BY <1>1, <2>6, <2>7, <4>1, MoreStep DEF a
    <3>2. CASE a.code # 0
      <4>1. m + k \in 0..a.body
        BY <1>2, <1>10, <2>1, <2>2, <3>2
      <4>2. NewBody(a, url, got', wire', source', length')
        BY <1>1, <1>3, <1>10, <2>5, <2>6, <3>2, <4>1 DEF NewBody
      <4>3. QED BY <1>1, <1>3, <2>6, <2>7, <3>2, <4>2, MoreStep DEF a
    <3>3. QED BY <3>1, <3>2
  <2>8. CASE Done
    <3>1. IsPrefix(got', Told(url, b))
      BY <1>1, <1>2, <2>5, <2>6, GotPrefix
    <3>2. Body(url) = Told(url, b)
      BY <1>1, <1>3, <1>10, BodyTold DEF a
    <3>3. pc' = "return" /\ IsPrefix(got', Body(url))
      BY <2>8, <3>1, <3>2 DEF Done
    <3>4. QED BY <1>1, <1>3, <2>6, <3>3, EndStep DEF a
  <2>9. QED BY <1>7, <2>7, <2>8
<1>8. QED BY <1>5, <1>6, <1>7

LEMMA NextBodyInv == BodyInv /\ [Next]_vars => BodyInv'
<1> SUFFICES ASSUME BodyInv, [Next]_vars PROVE BodyInv'
  OBVIOUS
<1>1. CASE body
  <2>1. BodyStays
    BY <1>1 DEF body, BodyStays
  <2>2. QED BY <1>1, <2>1, ChunkedStep, LengthStep, ClosedStep DEF body
<1>2. CASE UNCHANGED vars
  <2>1. Body(url)' = Body(url) /\ shouldreceivebody' = shouldreceivebody
    BY <1>2 DEF vars, Body, shouldreceivebody
  <2>2. QED BY <1>2, <2>1 DEF vars, BodyInv, Typed, Placed, InBody, Returned, BodyToSink, Abandoned
<1>3. QED BY <1>1, <1>2, OpenStep, UploadStep, StatusStep, HeadersStep, CutStep DEF Next, Client

LEMMA InitBodyInv == Init => BodyInv
<1> SUFFICES ASSUME Init PROVE BodyInv
  OBVIOUS
<1>1. wire \in Seq(Tokens)
  BY DEF Init
<1>2. QED BY <1>1 DEF Init, BodyInv, Typed, Placed

\* However the answer is framed, whatever was answered before it, 100s and redirects,
\* and wherever the connection is cut, the sink is given the bytes of the body of the
\* answer the request ends with, in order and of no other; and all of them when the
\* request succeeds and the body tells its end, but none of an answer that request gives
\* up at its status line (http.lua:142-163, 198-239, 344-383).
THEOREM BodyCorrect == Spec => []BodyExact
<1>1. Init => BodyInv
  BY InitBodyInv
<1>2. BodyInv => BodyExact
  <2> SUFFICES ASSUME BodyInv, pc \in {"body", "return"}, status # 100
               PROVE  /\ IsPrefix(got, Body(url))
                      /\ IF result = "done" /\ Abandoned(site[url]) THEN got = <<>> ELSE BodyToSink
    BY DEF BodyExact
  <2>1. CASE pc = "body"
    <3>1. Typed /\ InBody /\ result = None
      BY <2>1 DEF BodyInv, Typed, Placed
    <3>2. QED BY <3>1, BodyPrefix DEF None, BodyToSink
  <2>2. CASE pc = "return"
    BY <2>2 DEF BodyInv, Placed, Returned
  <2>3. QED BY <2>1, <2>2
<1>3. QED BY <1>1, <1>2, NextBodyInv, PTL DEF Spec
-----------------------------------------------------------------------------
\* The connections.

\* No connection but that of the redirect in progress is open, and none after a return
\* that is not an error of Lua, but the one of an answer that is abandoned.
ClosedInv ==
    /\ conns \subseteq {nredirects}
    /\ pc \in {"upload", "status", "headers", "body"} => conns = {nredirects}
    /\ result = "error" => conns = {} /\ pc = "return"
    /\ result = "done" =>
        pc = "return" /\ conns = (IF Abandoned(site[url]) THEN {nredirects} ELSE {})
    /\ pc = "return" => result # None

\* The only answer that ends a request at its status line is one that is abandoned.
LEMMA GivenUp ==
    ASSUME BodyInv, pc = "status", wire # <<>>, Head(wire).t = "status", Head(wire).v = 408,
           status # 100
    PROVE  Abandoned(site[url])
<1> DEFINE a == site[url]
<1>1. a \in Answers /\ wire \in Seq(Tokens) /\ StatusPhase(a, wire, status)
  BY DEF BodyInv, Typed, Placed
<1>2. HeadersPhase(a, Tail(wire), 408) /\ (a.continue => Head(wire).v = 100)
  BY <1>1, StatusRead
<1>3. a.code = 408 /\ ~a.continue
  BY <1>2 DEF HeadersPhase
<1>4. QED BY <1>3 DEF Abandoned

\* A step opens a connection only when none is open, and leaves the last one before it
\* goes on to the next request.
LEMMA NextClosedInv == BodyInv /\ ClosedInv /\ [Next]_vars => ClosedInv'
<1> SUFFICES ASSUME BodyInv, ClosedInv, [Next]_vars PROVE ClosedInv'
  OBVIOUS
<1> USE DEF ClosedInv, None
<1>0. /\ pc \in {"headers", "body"} /\ status # 100 => ~Abandoned(site[url])
      /\ pc = "body" => status # 100
      /\ pc # "return" => result = None
  BY DEF BodyInv, Typed, Placed
<1>1. CASE open
  BY <1>0, <1>1 DEF open, request, Fails, Raise
<1>2. CASE sendbody
  BY <1>0, <1>2 DEF sendbody, request, Fails, Raise
<1>3. CASE receivestatusline
  <2>1. UNCHANGED <<site, url, nredirects>> /\ pc = "status" /\ result = None
    BY <1>0, <1>3 DEF receivestatusline, request
  <2>2. \/ pc' = "return" /\ result' = "error" /\ conns' = conns \ {nredirects}
        \/ pc' \in {"headers", "body"} /\ UNCHANGED <<conns, result>>
        \/ /\ wire # <<>> /\ Head(wire).t = "status" /\ Head(wire).v = 408 /\ status # 100
           /\ pc' = "return" /\ result' = "done" /\ UNCHANGED conns
    BY <1>3 DEF receivestatusline, Fails, Raise
  <2>3. QED BY <2>1, <2>2, GivenUp
<1>4. CASE receiveheaders
  <2>1. site' = site /\ pc = "headers" /\ result = None
    BY <1>0, <1>4 DEF receiveheaders
  <2>2. \/ /\ UNCHANGED <<url, nredirects>>
           /\ \/ pc' = "return" /\ result' = "error" /\ conns' = conns \ {nredirects}
              \/ pc' = "return" /\ result' = "raised" /\ UNCHANGED conns
              \/ pc' \in {"status", "body"} /\ UNCHANGED <<conns, result>>
              \/ /\ status # 100 /\ pc' = "return" /\ result' = "done"
                 /\ conns' = conns \ {nredirects}
        \/ /\ pc' = "open" /\ nredirects' = nredirects + 1 /\ conns' = conns \ {nredirects}
           /\ UNCHANGED result
    BY <1>4 DEF receiveheaders, Fails, Raise, Error, Done, tredirect
  <2>3. QED BY <1>0, <2>1, <2>2
<1>5. CASE body
  <2>1. UNCHANGED <<site, url, nredirects>> /\ pc = "body" /\ result = None
    BY <1>0, <1>5 DEF body, request
  <2>2. \/ pc' = "return" /\ result' = "error" /\ conns' = conns \ {nredirects}
        \/ pc' = "return" /\ result' = "raised" /\ UNCHANGED conns
        \/ pc' = "return" /\ result' = "done" /\ conns' = conns \ {nredirects}
        \/ UNCHANGED <<pc, conns, result>>
    BY <1>5 DEF body, chunked, by_length, until_closed, Gives, Fails, Raise, Error, Done
  <2>3. QED BY <1>0, <2>1, <2>2
<1>6. CASE Cut
  BY <1>6 DEF Cut, request
<1>7. CASE UNCHANGED vars
  BY <1>7 DEF vars
<1>8. QED BY <1>1, <1>2, <1>3, <1>4, <1>5, <1>6, <1>7 DEF Next, Client

\* A request that returns, or fails with a message, has closed every connection it
\* opened, at any depth of redirects, unless it has given up an answer at its status
\* line: that connection stays open, and no other (http.lua: open's newtry, trequest,
\* tredirect).  It never has two open.
THEOREM ConnectionsClosed == Spec => []ClosedOnReturn
<1>1. Init => BodyInv /\ ClosedInv
  <2>1. Init => ClosedInv
    BY DEF Init, ClosedInv, None
  <2>2. QED BY <2>1, InitBodyInv
<1>2. (BodyInv /\ ClosedInv) /\ [Next]_vars => (BodyInv /\ ClosedInv)'
  BY NextBodyInv, NextClosedInv
<1>3. BodyInv /\ ClosedInv => ClosedOnReturn
  <2>1. ASSUME ClosedInv PROVE Cardinality(conns) <= 1
    <3>1. conns = {} \/ conns = {nredirects}
      BY <2>1 DEF ClosedInv
    <3>2. Cardinality({}) = 0 /\ Cardinality({nredirects}) = 1
      BY FS_EmptySet, FS_Singleton
    <3>3. QED BY <3>1, <3>2
  <2>2. QED BY <2>1 DEF ClosedInv, ClosedOnReturn, NoneOpen
<1>4. QED BY <1>1, <1>2, <1>3, PTL DEF Spec
=============================================================================
