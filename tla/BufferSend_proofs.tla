-------------------------- MODULE BufferSend_proofs --------------------------
(***************************************************************************)
(* What goes out on the wire, what a call of send returns and what         *)
(* getstats counts, for every string, range, limit and chain of resumed    *)
(* calls.                                                                  *)
(***************************************************************************)
EXTENDS BufferSend, TLAPS

\* Since the first call of the chain the wire has got the bytes from the start of its
\* range up to Progress, which does not pass the end of the range, and stops short of it
\* only in a call that goes on or has failed.
ChainInv ==
    /\ end = ResolveEnd(j0)
    /\ Progress = ResolveStart(i0) + Len(wire) - wire0
    /\ Progress - 1 <= MAX(end, ResolveStart(i0) - 1)
    /\ \A k \in wire0+1..Len(wire) : wire[k] = ResolveStart(i0) - 1 + (k - wire0)
    /\ pc # "idle" => total < Count
    /\ pc = "idle" /\ err = "done" => index >= end

IInv == TypeOK /\ ChainInv /\ SentExact

-----------------------------------------------------------------------------
\* Time left and wake-up times are integers.
LEMMA WakesTyped ==
    ASSUME NEW t \in TimeoutRecord, NEW n \in Int
    PROVE  Wakes(t, n) \subseteq Int
<1>1. timeout_getretry(t, n) \in Int
  BY DEF timeout_getretry, timeout_get, TimeoutRecord, MIN, MAX, Forever
<1>2. ASSUME NEW l \in Int PROVE PollWaits(l) \subseteq Int
  <2>1. l \div Ms \in Int
    BY MsAssumption
  <2>2. (l \div Ms) * Ms \in Int /\ IntMax * Ms \in Int
    BY <2>1, MsAssumption, IntMaxAssumption
  <2>3. QED BY <2>2 DEF PollWaits, Forever
<1>3. QED BY <1>1, <1>2 DEF Wakes, Forever

\* Marking the start of an operation leaves a timeout record.
LEMMA MarkstartTyped ==
    ASSUME NEW t \in TimeoutRecord, NEW n \in Int
    PROVE  timeout_markstart(t, n) \in TimeoutRecord
  BY DEF timeout_markstart, TimeoutRecord

-----------------------------------------------------------------------------
\* Sums in which a term cancels.
LEMMA Cancels ==
    ASSUME NEW a \in Int, NEW b \in Int, NEW c \in Int, NEW n \in Int
    PROVE  /\ a - 0 = a
           /\ a + b - b = a
           /\ a + (b + n) - c = (a + b - c) + n
           /\ (a + n) - (b + n) = a - b
           /\ (c + n) + a = c + (a + n)
           /\ b - 1 + ((a - b + 1 + c) - c) = a
  OBVIOUS

\* The resolved range lies in the string, and a position in it resolves to itself.
LEMMA Resolved ==
    ASSUME NEW i \in Int
    PROVE  /\ ResolveStart(i) \in Nat \ {0}
           /\ ResolveEnd(i) \in Int /\ ResolveEnd(i) <= Size
           /\ i >= 1 => ResolveStart(i) = i
  BY SizeAssumption DEF ResolveStart, ResolveEnd, MIN, MAX

\* The resolved range is the one string.sub selects.
LEMMA RangeSelected ==
    ASSUME NEW i \in Int, NEW j \in Int, NEW q \in 1..Size
    PROVE  Selected(q, i, j) <=> ResolveStart(i) <= q /\ q <= ResolveEnd(j)
  BY SizeAssumption DEF Selected, ResolveStart, ResolveEnd, MIN, MAX

\* What the proofs read off the types.
LEMMA Typed ==
    ASSUME TypeOK
    PROVE  /\ Len(wire) \in Nat /\ wire0 \in Nat /\ wire0 <= Len(wire)
           /\ start \in Nat \ {0} /\ end \in Int /\ end <= Size /\ total \in Nat /\ index \in Nat
           /\ sent \in Int /\ uncounted \in Int /\ now \in Int
           /\ i0 \in Int /\ ResolveStart(i0) \in Nat \ {0}
<1>1. wire \in Seq(1..Size) /\ wire0 \in 0..Len(wire)
  BY DEF TypeOK
<1>2. Len(wire) \in Nat
  BY <1>1
<1>3. wire0 \in Nat /\ wire0 <= Len(wire)
  BY <1>1, <1>2
<1>4. /\ start \in Nat \ {0} /\ end \in Int /\ end <= Size /\ total \in Nat /\ index \in Nat
      /\ sent \in Int /\ uncounted \in Int /\ i0 \in Int
  BY DEF TypeOK
<1>5. now \in Int
  BY BoundsAssumption DEF TypeOK
<1>6. ResolveStart(i0) \in Nat \ {0}
  BY <1>4, Resolved
<1>7. QED BY <1>2, <1>3, <1>4, <1>5, <1>6

\* Accepting n bytes appends those that follow the bytes already sent by the call.
LEMMA Appended ==
    ASSUME TypeOK, NEW n \in Nat, Accept(n), NEW c \in Nat, c = start - 1 + total, c + n <= Size
    PROVE  /\ wire' \in Seq(1..Size)
           /\ Len(wire') = Len(wire) + n
           /\ \A k \in 1..Len(wire) : wire'[k] = wire[k]
           /\ \A k \in Len(wire)+1..Len(wire)+n : wire'[k] = c + (k - Len(wire))
<1> DEFINE f == [k \in 1..n |-> c + k]
<1>1. f \in Seq(1..Size) /\ Len(f) = n /\ \A k \in 1..n : f[k] = c + k
  BY SizeAssumption
<1>2. wire' = wire \o f
  BY DEF Accept
<1>3. wire \in Seq(1..Size)
  BY DEF TypeOK
<1> HIDE DEF f
<1>4. /\ wire \o f \in Seq(1..Size) /\ Len(wire \o f) = Len(wire) + n
      /\ \A k \in 1..Len(wire) : (wire \o f)[k] = wire[k]
  <2>1. f \in Seq(1..Size) /\ Len(f) = n
    BY <1>1
  <2>2. wire \o f \in Seq(1..Size)
    BY <1>3, <2>1
  <2>3. Len(wire \o f) = Len(wire) + n
    BY <1>3, <2>1
  <2>4. \A k \in 1..Len(wire) : (wire \o f)[k] = wire[k]
    BY <1>3, <2>1
  <2>5. QED BY <2>2, <2>3, <2>4
<1>5. ASSUME NEW k \in Len(wire)+1..Len(wire)+n PROVE (wire \o f)[k] = c + (k - Len(wire))
  <2>1. k - Len(wire) \in 1..n
    BY <1>3
  <2>2. (wire \o f)[k] = f[k - Len(wire)]
    BY <1>1, <1>3
  <2>3. QED BY <1>1, <2>1, <2>2
<1>6. QED BY <1>2, <1>4, <1>5

\* Before the first call nothing is on the wire.
LEMMA InitIInv == Init => IInv
<1> SUFFICES ASSUME Init PROVE IInv
  OBVIOUS
<1>1. TypeOK
  BY SizeAssumption, StepAssumption, BoundsAssumption
  DEF Init, TypeOK, timeout_init, TimeoutRecord, Forever
<1>2. ResolveStart(i0) = 1 /\ ResolveEnd(j0) = 0
  BY SizeAssumption DEF Init, ResolveStart, ResolveEnd, MIN, MAX
<1>3. ChainInv /\ SentExact
  BY <1>2 DEF Init, ChainInv, Progress, SentExact, MAX
<1>4. QED BY <1>1, <1>3 DEF IInv

-----------------------------------------------------------------------------
\* The peer, the network and the clock touch nothing the object has handed over.
LEMMA EnvironmentIInv == IInv /\ Environment => IInv'
<1> SUFFICES ASSUME IInv, Environment PROVE IInv'
  OBVIOUS
<1>1. UNCHANGED <<wire, faults, objectVars>>
  BY DEF Environment, PeerReads, PeerResets, Tick, kernelVars
<1>2. queued' \in 0..Room /\ peer' \in {"open", "reset", "gone"} /\ now' \in 0..MaxNow
  BY StepAssumption, BoundsAssumption
  DEF Environment, PeerReads, PeerResets, Tick, kernelVars, IInv, TypeOK
<1>3. TypeOK'
  BY <1>1, <1>2 DEF IInv, TypeOK, objectVars, callVars
<1>4. ChainInv' /\ SentExact'
  BY <1>1 DEF IInv, ChainInv, SentExact, Progress, Count, objectVars, callVars
<1>5. QED BY <1>3, <1>4 DEF IInv

\* The methods other than send leave the calls alone.
LEMMA MethodsIInv ==
    ASSUME IInv,
           \/ \E value \in TimeoutValues, mode \in {"b", "t"} : SetTimeout(value, mode)
           \/ \E s \in StatsValues : buffer_meth_setstats(s)
           \/ socket_destroy
    PROVE  IInv'
<1>0. /\ Len(wire) \in Nat /\ wire0 \in Nat /\ wire0 <= Len(wire)
      /\ start \in Nat \ {0} /\ end \in Int /\ end <= Size /\ total \in Nat /\ index \in Nat
      /\ sent \in Int /\ uncounted \in Int /\ now \in Int /\ ResolveStart(i0) \in Nat \ {0}
  BY Typed DEF IInv
<1>1. UNCHANGED <<kernelVars, now, faults, pc, callVars, total, err, wake>> /\ pc = "idle"
  BY DEF SetTimeout, buffer_meth_setstats, socket_destroy
<1>2. sock' \in {"open", "invalid"} /\ tm' \in TimeoutRecord
  BY TimeoutAssumption
  DEF SetTimeout, buffer_meth_setstats, socket_destroy, IInv, TypeOK, timeout_meth_settimeout,
      TimeoutRecord
<1>3. sent' \in Int /\ uncounted' \in Int /\ sent' + uncounted' = Len(wire)
  <2>1. CASE \E s \in StatsValues : buffer_meth_setstats(s)
    <3>1. PICK s \in StatsValues : sent' = s /\ uncounted' = Len(wire) - s
      BY <2>1 DEF buffer_meth_setstats
    <3>2. s \in Int
      BY StatsAssumption
    <3>3. QED BY <1>0, <3>1, <3>2
  <2>2. CASE sent' = sent /\ uncounted' = uncounted
    <3>1. sent + uncounted = Len(wire) - 0
      BY <1>1 DEF IInv, SentExact
    <3>2. QED BY <1>0, <2>2, <3>1
  <2>3. QED BY <2>1, <2>2 DEF SetTimeout, socket_destroy
<1>4. TypeOK'
  BY <1>1, <1>2, <1>3 DEF IInv, TypeOK, kernelVars, callVars
<1>5. ChainInv'
  BY <1>1 DEF IInv, ChainInv, Progress, Count, kernelVars, callVars
<1>6. SentExact'
  <2>1. pc' = "idle" /\ wire' = wire
    BY <1>1 DEF kernelVars
  <2>2. (IF pc = "idle" THEN 0 ELSE total)' = 0
    BY <2>1
  <2>3. Len(wire') - 0 = Len(wire)
    BY <1>0, <2>1, Cancels
  <2>4. QED BY <1>3, <2>2, <2>3 DEF SentExact
<1>7. QED BY <1>4, <1>5, <1>6 DEF IInv

\* A call starts a chain, or goes on where the chain stands.
LEMMA SendIInv ==
    ASSUME IInv, NEW i \in Int, NEW j \in Int, NEW resume \in BOOLEAN,
           buffer_meth_send(i, j, resume)
    PROVE  IInv'
<1> USE DEF IInv
<1>0. /\ Len(wire) \in Nat /\ wire0 \in Nat /\ wire0 <= Len(wire)
      /\ start \in Nat \ {0} /\ end \in Int /\ end <= Size /\ total \in Nat /\ index \in Nat
      /\ sent \in Int /\ uncounted \in Int /\ now \in Int /\ ResolveStart(i0) \in Nat \ {0}
  BY Typed DEF IInv
<1>1. /\ UNCHANGED <<kernelVars, now, faults, sock, sent, wake, uncounted>>
      /\ pc = "idle" /\ calls < MaxCalls /\ calls' = calls + 1
      /\ tm' = timeout_markstart(tm, now)
      /\ start' = ResolveStart(i) /\ end' = ResolveEnd(j) /\ total' = 0
      /\ pc' = IF start' <= end' /\ sock = "open" THEN "send" ELSE "idle"
      /\ err' = IF start' <= end' /\ sock # "open" THEN "closed" ELSE "done"
      /\ index' = IF pc' = "idle" THEN start' - 1 ELSE index
  BY DEF buffer_meth_send
<1>2. /\ start' \in Nat \ {0} /\ end' \in Int /\ end' <= Size /\ index' \in Nat
      /\ tm' \in TimeoutRecord
  <2>1. start' \in Nat \ {0} /\ end' \in Int /\ end' <= Size
    BY <1>1, Resolved
  <2>2. tm' \in TimeoutRecord
    BY <1>0, <1>1, MarkstartTyped DEF TypeOK
  <2>3. QED BY <1>0, <1>1, <2>1, <2>2
<1>3. Progress' = start' /\ (pc' # "idle" => total' < Count')
      /\ (pc' = "idle" /\ err' = "done" => index' >= end')
  BY <1>1, <1>2 DEF Progress, Count
<1>4. SentExact'
  BY <1>1, <1>0 DEF SentExact, kernelVars
<1>5. i0' \in Int /\ j0' \in Int /\ wire0' \in 0..Len(wire)
  BY <1>0 DEF buffer_meth_send, TypeOK
<1>6. TypeOK'
  BY <1>1, <1>2, <1>5, BoundsAssumption DEF TypeOK, kernelVars
<1>7. CASE resume
  <2>1. err # "done" /\ i = index + 1 /\ j = j0 /\ UNCHANGED <<i0, j0, wire0>>
    BY <1>7 DEF buffer_meth_send
  <2>2. Progress = index + 1 /\ start' = index + 1 /\ end' = end
    BY <1>1, <2>1, Resolved, <1>0 DEF Progress, ChainInv
  <2>3. UNCHANGED <<wire, wire0, i0, j0, end>> /\ Progress' = Progress
    BY <1>1, <1>3, <2>1, <2>2 DEF kernelVars
  <2>4. ResolveStart(i0)' = ResolveStart(i0) /\ ResolveEnd(j0)' = ResolveEnd(j0)
    BY <2>3 DEF ResolveStart, ResolveEnd
  <2>5. ChainInv'
    BY <1>3, <2>3, <2>4 DEF ChainInv
  <2>6. QED BY <1>4, <1>6, <2>5
<1>8. CASE ~resume
  <2>1. i0' = i /\ j0' = j /\ wire0' = Len(wire) /\ wire' = wire
    BY <1>1, <1>8 DEF buffer_meth_send, kernelVars
  <2>2. ResolveStart(i0)' = start' /\ ResolveEnd(j0)' = end'
    BY <1>1, <2>1 DEF ResolveStart, ResolveEnd
  <2>3. ChainInv'
    <3>1. Progress' = ResolveStart(i0)' + Len(wire') - wire0'
      <4>1. start' + Len(wire) - Len(wire) = start'
        <5>1. start' \in Int /\ Len(wire) \in Int
          BY <1>0, <1>2
        <5>2. QED BY <5>1, Cancels, Zenon
      <4>2. QED BY <1>3, <2>1, <2>2, <4>1
    <3>2. Progress' - 1 <= MAX(end', ResolveStart(i0)' - 1)
      <4>1. start' - 1 \in Int /\ end' \in Int
        BY <1>2
      <4>2. start' - 1 <= MAX(end', start' - 1)
        BY <4>1 DEF MAX
      <4>3. QED BY <1>3, <2>2, <4>2
    <3>3. wire0'+1..Len(wire') = {}
      BY <1>0, <2>1
    <3>4. QED BY <1>3, <2>2, <3>1, <3>2, <3>3 DEF ChainInv
  <2>4. QED BY <1>4, <1>6, <2>3
<1>9. QED BY <1>7, <1>8

-----------------------------------------------------------------------------
\* A system call takes the bytes that follow Progress, no more than the range has.
LEMMA SendDataIInv == IInv /\ SendData => IInv'
<1> SUFFICES ASSUME IInv, SendData PROVE IInv'
  OBVIOUS
<1> USE DEF IInv
<1>0. /\ Len(wire) \in Nat /\ wire0 \in Nat /\ wire0 <= Len(wire)
      /\ start \in Nat \ {0} /\ end \in Int /\ end <= Size /\ total \in Nat /\ index \in Nat
      /\ sent \in Int /\ uncounted \in Int /\ now \in Int /\ ResolveStart(i0) \in Nat \ {0}
  BY Typed DEF IInv
<1>1. PICK n \in 1..MIN(MIN(Count - total, StepSize), Room - queued) :
        /\ Accept(n)
        /\ IF total' < Count THEN UNCHANGED <<pc, err, callVars, sent>> ELSE Return("done")
  BY DEF SendData, Count
<1>2. pc = "send" /\ UNCHANGED <<peer, now, faults, sock, tm, wake, uncounted>>
  BY DEF SendData
<1>3. n \in Nat \ {0} /\ n <= Count - total /\ queued + n <= Room /\ queued \in Nat
  BY <1>1, <1>0, StepAssumption DEF MIN, Count, TypeOK
<1> DEFINE c == start - 1 + total
<1>4. c \in Nat /\ c + n <= end /\ c + n <= Size
  BY <1>0, <1>3, SizeAssumption DEF Count
<1>5. /\ wire' = wire \o [k \in 1..n |-> c + k]
      /\ queued' = queued + n /\ total' = total + n
  BY <1>1 DEF Accept
<1>6. /\ wire' \in Seq(1..Size) /\ Len(wire') = Len(wire) + n
      /\ \A k \in 1..Len(wire) : wire'[k] = wire[k]
      /\ \A k \in Len(wire)+1..Len(wire)+n : wire'[k] = c + (k - Len(wire))
  BY <1>1, <1>3, <1>4, Appended
<1>7. /\ UNCHANGED <<start, end, i0, j0, wire0, calls>>
      /\ \/ total' < Count /\ pc' = "send" /\ err' = err /\ index' = index /\ sent' = sent
         \/ /\ total' >= Count /\ pc' = "idle" /\ err' = "done"
            /\ index' = total' + start - 1 /\ sent' = sent + total'
  BY <1>1, <1>2, <1>3, <1>5, <1>0 DEF Return, callVars, Count
<1>8. TypeOK'
  <2>1. queued' \in 0..Room /\ wire0' \in 0..Len(wire') /\ total' \in Nat /\ index' \in Nat
        /\ sent' \in Int
    <3>1. queued' \in 0..Room
      BY <1>3, <1>5, StepAssumption
    <3>2. wire0' \in 0..Len(wire') /\ total' \in Nat
      BY <1>0, <1>3, <1>5, <1>6, <1>7
    <3>3. index' \in Nat /\ sent' \in Int
      BY <1>0, <1>7, <3>2
    <3>4. QED BY <3>1, <3>2, <3>3
  <2>2. QED BY <1>2, <1>6, <1>7, <2>1 DEF TypeOK
<1>9. Progress = c + 1 /\ Progress' = c + n + 1
  BY <1>2, <1>3, <1>5, <1>7, <1>0 DEF Progress
<1>10. ResolveStart(i0)' = ResolveStart(i0) /\ ResolveEnd(j0)' = ResolveEnd(j0)
  BY <1>7 DEF ResolveStart, ResolveEnd
<1>11. ChainInv'
  <2>1. end' = ResolveEnd(j0)'
    BY <1>7, <1>10 DEF ChainInv
  <2>2. Progress' = ResolveStart(i0)' + Len(wire') - wire0'
    <3>1. Progress = ResolveStart(i0) + Len(wire) - wire0
      BY DEF ChainInv
    <3>2. ResolveStart(i0) + (Len(wire) + n) - wire0 = Progress + n
      BY <1>0, <1>3, <3>1, Cancels
    <3>3. Progress' = Progress + n
      BY <1>0, <1>3, <1>4, <1>9
    <3>4. QED BY <1>6, <1>7, <1>10, <3>2, <3>3
  <2>3. Progress' - 1 <= MAX(end', ResolveStart(i0)' - 1)
    BY <1>3, <1>4, <1>7, <1>9, <1>10, <1>0 DEF MAX
  <2>4. ASSUME NEW k \in wire0+1..Len(wire') PROVE wire'[k] = ResolveStart(i0) - 1 + (k - wire0)
    <3>1. CASE k <= Len(wire)
      BY <1>6, <2>4, <3>1, <1>0 DEF ChainInv
    <3>2. CASE k > Len(wire)
      <4>1. wire'[k] = c + (k - Len(wire))
        BY <1>3, <1>6, <2>4, <3>2, <1>0
      <4>2. c + 1 = ResolveStart(i0) + Len(wire) - wire0
        BY <1>9 DEF ChainInv
      <4>3. c \in Int /\ k \in Int
        BY <1>0, <1>3, <1>4, <1>6
      <4> HIDE DEF c
      <4>4. c + (k - Len(wire)) = ResolveStart(i0) - 1 + (k - wire0)
        <5>1. PICK l \in Int, b \in Int : l = Len(wire) /\ b = ResolveStart(i0)
          BY <1>0
        <5>2. c + 1 = b + l - wire0
          BY <4>2, <5>1
        <5>3. c + (k - l) = b - 1 + (k - wire0)
          BY <1>0, <4>3, <5>2
        <5>4. QED BY <5>1, <5>3
      <4>5. QED BY <4>1, <4>4
    <3>3. QED BY <3>1, <3>2, <1>3, <1>6, <1>0
  <2>5. /\ pc' # "idle" => total' < Count'
        /\ pc' = "idle" /\ err' = "done" => index' >= end'
    BY <1>3, <1>5, <1>7, <1>0 DEF Count
  <2>6. QED BY <1>7, <1>10, <2>1, <2>2, <2>3, <2>4, <2>5 DEF ChainInv
<1>12. SentExact'
  <2>1. sent + uncounted = Len(wire) - total
    BY <1>2 DEF SentExact
  <2>2. CASE pc' = "send"
    <3>1. Len(wire') - total' = Len(wire) - total
      BY <1>0, <1>3, <1>5, <1>6, Cancels
    <3>2. QED BY <1>2, <1>7, <2>1, <2>2, <3>1 DEF SentExact
  <2>3. CASE pc' = "idle"
    <3>1. Len(wire') - total' = Len(wire) - total
      BY <1>0, <1>3, <1>5, <1>6, Cancels
    <3>2. sent' + uncounted' = Len(wire')
      <4>1. sent' = sent + total' /\ uncounted' = uncounted
        BY <1>2, <1>7, <2>3
      <4>2. total' \in Int /\ Len(wire') \in Int
        BY <1>0, <1>3, <1>5, <1>6
      <4>3. (sent + total') + uncounted = Len(wire')
        <5>1. sent \in Int /\ uncounted \in Int /\ total \in Int /\ Len(wire) \in Int
          BY <1>0
        <5>2. PICK m \in Int : m = Len(wire')
          BY <4>2
        <5>3. PICK r \in Int : r = total'
          BY <4>2
        <5>4. PICK l \in Int : l = Len(wire)
          BY <5>1
        <5>5. m - r = l - total /\ sent + uncounted = l - total
          BY <2>1, <3>1, <5>2, <5>3, <5>4
        <5>6. (sent + r) + uncounted = m
          BY <5>1, <5>5
        <5>7. QED BY <5>2, <5>3, <5>6
      <4>4. QED BY <4>1, <4>3
    <3>3. (IF pc = "idle" THEN 0 ELSE total)' = 0
      BY <2>3
    <3>4. QED BY <1>0, <1>3, <1>6, <3>2, <3>3, Cancels DEF SentExact
  <2>4. QED BY <1>7, <2>2, <2>3
<1>13. QED BY <1>8, <1>11, <1>12

\* A call that fails returns what its system calls took.
LEMMA FailsIInv ==
    ASSUME IInv, NEW e \in {"timeout", "closed", "error"}, pc # "idle", Fails(e),
           UNCHANGED <<wire, queued, now, sock, tm, uncounted>>,
           peer' \in {"open", "reset", "gone"}, faults' \in 0..MaxFaults, wake' \in Int
    PROVE  IInv'
<1> USE DEF IInv
<1>0. /\ Len(wire) \in Nat /\ wire0 \in Nat /\ wire0 <= Len(wire)
      /\ start \in Nat \ {0} /\ end \in Int /\ end <= Size /\ total \in Nat /\ index \in Nat
      /\ sent \in Int /\ uncounted \in Int /\ now \in Int /\ ResolveStart(i0) \in Nat \ {0}
  BY Typed DEF IInv
<1>1. /\ pc' = "idle" /\ err' = e /\ total' = total
      /\ index' = total + start - 1 /\ sent' = sent + total
      /\ UNCHANGED <<start, end, i0, j0, wire0, calls>>
  BY DEF Fails, Return
<1>2. TypeOK'
  BY <1>1, <1>0 DEF TypeOK
<1>3. Progress' = Progress
  BY <1>1, <1>0 DEF Progress
<1>4. ChainInv'
  BY <1>1, <1>3 DEF ChainInv, ResolveStart, ResolveEnd
<1>5. SentExact'
  BY <1>1, <1>0 DEF SentExact
<1>6. QED BY <1>2, <1>4, <1>5

\* A step of a call that goes on without sending.
LEMMA GoesOnIInv ==
    ASSUME IInv, pc # "idle", pc' \in {"send", "poll"},
           UNCHANGED <<kernelVars, now, sock, sent, tm, callVars, total, err, uncounted>>,
           faults' \in 0..MaxFaults, wake' \in Int
    PROVE  IInv'
<1>1. TypeOK'
  BY DEF IInv, TypeOK, kernelVars, callVars
<1>2. ChainInv' /\ SentExact'
  BY DEF IInv, ChainInv, SentExact, Progress, Count, ResolveStart, ResolveEnd, kernelVars, callVars
<1>3. QED BY <1>1, <1>2 DEF IInv

\* The other outcomes of send, and those of poll.
LEMMA WaitIInv ==
    ASSUME IInv,
           SendFails \/ SendInterrupted \/ SendWouldBlock \/ PollReady \/ PollFails
           \/ PollInterrupted
    PROVE  IInv'
<1>1. faults' \in 0..MaxFaults
  BY BoundsAssumption
  DEF SendFails, SendInterrupted, SendWouldBlock, PollReady, PollFails, PollInterrupted, Fault,
      IInv, TypeOK
<1>2. wake' \in Int
  <2>1. Wakes(tm, now) \subseteq Int /\ wake \in Int
    BY WakesTyped, Typed DEF IInv, TypeOK
  <2>2. wake' = wake \/ wake' \in Wakes(tm, now)
    BY DEF SendFails, SendInterrupted, SendWouldBlock, PollReady, PollFails, PollInterrupted,
       objectVars, EnterPoll
  <2>3. QED BY <2>1, <2>2
<1>3. CASE SendFails
  BY <1>1, <1>2, <1>3, FailsIInv DEF SendFails, IInv, TypeOK
<1>4. CASE PollFails
  BY <1>1, <1>2, <1>4, FailsIInv DEF PollFails, kernelVars, IInv, TypeOK
<1>5. CASE SendWouldBlock /\ timeout_iszero(tm)
  BY <1>1, <1>2, <1>5, FailsIInv DEF SendWouldBlock, kernelVars, IInv, TypeOK
<1>6. CASE SendWouldBlock /\ ~timeout_iszero(tm)
  BY <1>1, <1>2, <1>6, GoesOnIInv DEF SendWouldBlock, EnterPoll
<1>7. CASE SendInterrupted \/ PollReady \/ PollInterrupted
  BY <1>1, <1>2, <1>7, GoesOnIInv
  DEF SendInterrupted, PollReady, PollInterrupted, EnterPoll, objectVars
<1>8. QED BY <1>3, <1>4, <1>5, <1>6, <1>7

-----------------------------------------------------------------------------
\* Every step preserves the invariant.
LEMMA NextIInv == IInv /\ [Next]_vars => IInv'
<1> SUFFICES ASSUME IInv, [Next]_vars PROVE IInv'
  OBVIOUS
<1>1. CASE Environment
  BY <1>1, EnvironmentIInv
<1>2. CASE Client
  <2>1. CASE \/ \E value \in TimeoutValues, mode \in {"b", "t"} : SetTimeout(value, mode)
             \/ \E s \in StatsValues : buffer_meth_setstats(s)
             \/ socket_destroy
    BY <2>1, MethodsIInv
  <2>2. CASE \E i, j \in Indices : buffer_meth_send(i, j, FALSE)
    BY <2>2, SendIInv, IndicesAssumption
  <2>3. CASE buffer_meth_send(index + 1, j0, TRUE)
    <3>1. index + 1 \in Int /\ j0 \in Int
      BY DEF IInv, TypeOK
    <3>2. QED BY <2>3, <3>1, SendIInv
  <2>4. QED BY <1>2, <2>1, <2>2, <2>3 DEF Client
<1>3. CASE SendData
  BY <1>3, SendDataIInv
<1>4. CASE SendFails \/ SendInterrupted \/ SendWouldBlock \/ PollReady \/ PollFails
           \/ PollInterrupted
  BY <1>4, WaitIInv
<1>5. CASE UNCHANGED vars
  BY <1>5 DEF vars, kernelVars, objectVars, callVars, IInv, TypeOK, ChainInv, SentExact, Progress,
     Count, ResolveStart, ResolveEnd
<1>6. QED BY <1>1, <1>2, <1>3, <1>4, <1>5 DEF Next, Call

\* IInv is an invariant of the specification.
THEOREM Invariance == Spec => []IInv
<1>1. Init => IInv
  BY InitIInv
<1>2. IInv /\ [Next]_vars => IInv'
  BY NextIInv
<1>3. QED BY <1>1, <1>2, PTL DEF Spec

\* The range stays within the string and the kernel's buffer is never overfilled
\* (buffer.c: the clipping of start and end, the step of sendraw).
THEOREM TypeCorrect == Spec => []TypeOK
<1>1. IInv => TypeOK
  BY DEF IInv
<1>2. QED BY <1>1, Invariance, PTL

\* However the kernel cuts the sends, whatever fails and from wherever a call resumes, the
\* wire gets the bytes string.sub would select, in order, each once, all of them on
\* success (buffer.c: buffer_meth_send, sendraw).
THEOREM WireCorrect == Spec => []WireExact
<1>1. ASSUME IInv PROVE WireExact
  <2> DEFINE lo == ResolveStart(i0)
  <2>1. /\ lo \in Nat \ {0} /\ wire0 \in Nat /\ Len(wire) \in Nat /\ wire0 <= Len(wire)
        /\ i0 \in Int /\ j0 \in Int /\ end \in Int /\ end <= Size
        /\ Progress = lo + Len(wire) - wire0
        /\ \A k \in wire0+1..Len(wire) : wire[k] = lo - 1 + (k - wire0)
    BY <1>1, Typed DEF IInv, TypeOK, ChainInv
  <2>2. \A x, y \in wire0+1..Len(wire) : x < y => wire[x] < wire[y]
    BY <2>1
  <2>3. ASSUME NEW x \in wire0+1..Len(wire) PROVE Selected(wire[x], i0, j0)
    <3>1. wire[x] = lo - 1 + (x - wire0) /\ wire[x] <= Progress - 1 /\ lo <= wire[x]
      BY <2>1, <2>3
    <3>2. Progress - 1 <= end
      BY <1>1, <2>1, <2>3 DEF IInv, ChainInv, MAX
    <3>3. wire[x] \in 1..Size /\ wire[x] <= ResolveEnd(j0)
      <4>1. PICK w \in Int, p \in Int : w = wire[x] /\ p = Progress
        <5>1. lo - 1 + (x - wire0) \in Int /\ lo + Len(wire) - wire0 \in Int
          BY <2>1, <2>3
        <5>2. wire[x] \in Int /\ Progress \in Int
          BY <2>1, <3>1, <5>1
        <5>3. QED BY <5>2
      <4>2. w <= p - 1 /\ lo <= w /\ p - 1 <= end
        BY <3>1, <3>2, <4>1
      <4>3. lo \in Nat \ {0} /\ end \in Int /\ end <= Size
        BY <2>1
      <4>4. w \in 1..Size /\ w <= end
        BY <4>2, <4>3, SizeAssumption
      <4>5. end = ResolveEnd(j0)
        BY <1>1 DEF IInv, ChainInv
      <4>6. QED BY <4>1, <4>4, <4>5
    <3>4. QED BY <2>1, <3>1, <3>3, RangeSelected
  <2>4. ASSUME NEW q \in 1..Size, Selected(q, i0, j0),
               q < Progress \/ (pc = "idle" /\ err = "done")
        PROVE  \E x \in wire0+1..Len(wire) : wire[x] = q
    <3>1. lo <= q /\ q <= end
      BY <1>1, <2>1, <2>4, RangeSelected DEF IInv, ChainInv
    <3>2. q < Progress
      <4>1. CASE pc = "idle" /\ err = "done"
        <5>1. index >= end /\ Progress = index + 1 /\ index \in Int
          BY <1>1, <4>1, Typed DEF IInv, ChainInv, Progress
        <5>2. QED BY <2>1, <3>1, <5>1, SizeAssumption
      <4>2. QED BY <2>4, <4>1
    <3>3. q - lo + 1 + wire0 \in wire0+1..Len(wire)
      BY <2>1, <3>1, <3>2
    <3>4. wire[q - lo + 1 + wire0] = lo - 1 + ((q - lo + 1 + wire0) - wire0)
      BY <2>1, <3>3
    <3>5. wire[q - lo + 1 + wire0] = q
      <4>1. lo - 1 + ((q - lo + 1 + wire0) - wire0) = q
        <5>1. lo \in Int /\ q \in Int /\ wire0 \in Int
          BY <2>1, SizeAssumption
        <5>2. QED BY <5>1
      <4>2. QED BY <3>4, <4>1
    <3>6. QED BY <3>3, <3>5
  <2>5. QED BY <2>2, <2>3, <2>4 DEF WireExact
<1>2. QED BY <1>1, Invariance, PTL

\* A call that fails in the middle returns the index to resume from, and getstats counts
\* its bytes (buffer.c: the index arithmetic of buffer_meth_send, buf->sent).
THEOREM AccountCorrect == Spec => []Accounted
<1>1. ASSUME IInv PROVE Accounted
  <2>1. ASSUME pc = "idle", Len(wire) > wire0 PROVE wire[Len(wire)] = index
    <3>0. Len(wire) \in Nat /\ wire0 \in Nat /\ index \in Nat /\ ResolveStart(i0) \in Nat
      BY <1>1, Typed DEF IInv
    <3>1. wire[Len(wire)] = ResolveStart(i0) - 1 + (Len(wire) - wire0)
      BY <1>1, <2>1, <3>0 DEF IInv, ChainInv
    <3>2. index + 1 = ResolveStart(i0) + Len(wire) - wire0
      BY <1>1, <2>1 DEF IInv, ChainInv, Progress
    <3>3. QED BY <3>0, <3>1, <3>2
  <2>2. QED BY <1>1, <2>1 DEF IInv, Accounted, IndexExact
<1>2. QED BY <1>1, Invariance, PTL
=============================================================================
