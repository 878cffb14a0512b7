---------------------------- MODULE Select_proofs ----------------------------
(***************************************************************************)
(* What select reports, for every table of objects, every set of ready     *)
(* descriptors and every limit: theorems about Select.                     *)
(***************************************************************************)
EXTENDS Select, WellFoundedInduction, TLAPS

-----------------------------------------------------------------------------
\* Induction without an operator as a parameter: the property to prove is given as the
\* set of the numbers that have it.

LessThan == {pair \in Nat \X Nat : pair[1] < pair[2]}

\* The natural numbers are well ordered.
LEMMA LessThanWellFounded == IsWellFoundedOn(LessThan, Nat)
BY NatLessThanWellFounded DEF OpToRel, LessThan

\* A set of natural numbers that is not empty has a smallest member.
LEMMA Smallest ==
    ASSUME NEW T, T \subseteq Nat, T # {}
    PROVE  \E n \in T : \A m \in T : n <= m
<1>1. PICK n \in T : \A m \in T : <<m, n>> \notin LessThan
  BY LessThanWellFounded, WFMin
<1>2. ASSUME NEW m \in T PROVE n <= m
  <2>1. m \in Nat /\ n \in Nat
    OBVIOUS
  <2>2. <<m, n>> \in Nat \X Nat
    BY <2>1
  <2>3. ~(m < n)
    BY <1>1, <2>2 DEF LessThan
  <2>4. QED
    BY <2>1, <2>3
<1>3. QED
  BY <1>2

\* A set with 0, and with the successor of each of its members, has them all.
LEMMA Inductive ==
    ASSUME NEW T, 0 \in T, \A n \in Nat : n \in T => n + 1 \in T
    PROVE  Nat \subseteq T
<1>1. SUFFICES ASSUME Nat \ T # {} PROVE FALSE
  OBVIOUS
<1>2. PICK n \in Nat \ T : \A m \in Nat \ T : n <= m
  BY <1>1, Smallest
<1>3. n - 1 \in Nat
  BY <1>2
<1>4. n - 1 \in T
  BY <1>2, <1>3
<1>5. (n - 1) + 1 \in T
  BY <1>3, <1>4
<1>6. (n - 1) + 1 = n
  BY <1>2
<1>7. QED
  BY <1>5, <1>6

\* f goes from b step by step.
Follows(f, b, N, step) == f[0] = b /\ \A i \in 1..N : f[i] = step[i][f[i-1]]

\* A function on 0..N may be defined by its first value and by the step from one
\* value to the next.
LEMMA Recursion ==
    ASSUME NEW S, NEW b \in S, NEW N \in Nat, NEW step \in [1..N -> [S -> S]]
    PROVE  \E f \in [0..N -> S] : Follows(f, b, N, step)
<1> DEFINE Is(f, k) == f[0] = b /\ \A i \in 1..k : f[i] = step[i][f[i-1]]
           T == {k \in Nat : k <= N => \E f \in [0..k -> S] : Is(f, k)}
<1>1. 0 \in T
  <2>1. [i \in 0..0 |-> b] \in [0..0 -> S] /\ Is([i \in 0..0 |-> b], 0)
    OBVIOUS
  <2>2. QED BY <2>1
<1>2. ASSUME NEW k \in Nat, k \in T PROVE k + 1 \in T
  <2>1. SUFFICES ASSUME k + 1 <= N PROVE \E f \in [0..(k+1) -> S] : Is(f, k + 1)
    OBVIOUS
  <2>2. k <= N
    BY <2>1
  <2>3. PICK f \in [0..k -> S] : Is(f, k)
    BY <1>2, <2>2
  <2> DEFINE g == [i \in 0..(k+1) |-> IF i = k + 1 THEN step[k+1][f[k]] ELSE f[i]]
  <2>4. g \in [0..(k+1) -> S]
    <3>1. k \in 0..k /\ k + 1 \in 1..N
      BY <2>1
    <3>2. f[k] \in S
      BY <2>3, <3>1
    <3>3. step[k+1][f[k]] \in S
      BY <3>1, <3>2
    <3>4. ASSUME NEW i \in 0..(k+1), i # k + 1 PROVE f[i] \in S
      <4>1. i \in 0..k
        BY <3>4
      <4>2. QED BY <4>1, <2>3
    <3>5. QED BY <3>3, <3>4
  <2>5. Is(g, k + 1)
    <3>1. g[0] = b
      BY <2>3
    <3>2. ASSUME NEW i \in 1..(k+1) PROVE g[i] = step[i][g[i-1]]
      <4>1. g[i-1] = f[i-1]
        BY <3>2
      <4>2. CASE i = k + 1
        <5>1. i - 1 = k
          BY <4>2
        <5>2. g[i] = step[k+1][f[k]]
          BY <4>2
        <5>3. QED BY <4>1, <4>2, <5>1, <5>2
      <4>3. CASE i # k + 1
        <5>1. i \in 1..k /\ g[i] = f[i]
          BY <4>3
        <5>2. f[i] = step[i][f[i-1]]
          BY <5>1, <2>3
        <5>3. QED BY <4>1, <5>1, <5>2
      <4>4. QED BY <4>2, <4>3
    <3>3. QED BY <3>1, <3>2
  <2> HIDE DEF g, Is
  <2>6. QED BY <2>4, <2>5
<1>3. Nat \subseteq T
  <2> HIDE DEF T
  <2>1. QED BY <1>1, <1>2, Inductive
<1>4. N \in T /\ N <= N
  BY <1>3
<1>5. QED BY <1>4 DEF Follows


-----------------------------------------------------------------------------
\* Tables built by a scan: check_dirty and return_fd append some entries of a list
\* e, those whose positions are in P.

Gathered(F, N, P, e) ==
    [i \in 0..N |-> IF i = 0 THEN <<>> ELSE IF i \in P THEN Append(F[i-1], e[i]) ELSE F[i-1]]

\* There is such a table.
LEMMA GatherExists ==
    ASSUME NEW N \in Nat, NEW P, NEW e, NEW O, \A i \in P \cap (1..N) : e[i] \in O
    PROVE  \E F : F = Gathered(F, N, P, e)
<1> DEFINE S == Seq(O)
           step == [i \in 1..N |-> [s \in S |-> IF i \in P THEN Append(s, e[i]) ELSE s]]
<1>1. step \in [1..N -> [S -> S]]
  <2>1. ASSUME NEW i \in 1..N, NEW s \in S
        PROVE  (IF i \in P THEN Append(s, e[i]) ELSE s) \in S
    <3>1. CASE i \in P
      <4>1. e[i] \in O
        BY <3>1
      <4>2. Append(s, e[i]) \in S
        BY <4>1
      <4>3. QED BY <3>1, <4>2
    <3>2. QED BY <3>1
  <2> HIDE DEF S
  <2>2. QED BY <2>1
<1>2. <<>> \in S
  OBVIOUS
<1> HIDE DEF S
<1>3. PICK F \in [0..N -> S] : F[0] = <<>> /\ \A i \in 1..N : F[i] = step[i][F[i-1]]
  <2> HIDE DEF step
  <2>1. \E F \in [0..N -> S] : Follows(F, <<>>, N, step)
    BY <1>1, <1>2, Recursion
  <2>2. QED BY <2>1 DEF Follows
<1>4. ASSUME NEW i \in 0..N
      PROVE F[i] = IF i = 0 THEN <<>> ELSE IF i \in P THEN Append(F[i-1], e[i]) ELSE F[i-1]
  <2>1. CASE i = 0
    BY <2>1, <1>3
  <2>2. CASE i # 0
    <3>1. i \in 1..N /\ i - 1 \in 0..N
      BY <2>2
    <3>2. F[i] = step[i][F[i-1]] /\ F[i-1] \in S
      BY <3>1, <1>3
    <3>3. step[i][F[i-1]] = IF i \in P THEN Append(F[i-1], e[i]) ELSE F[i-1]
      BY <3>1, <3>2
    <3>4. QED BY <2>2, <3>2, <3>3
  <2>3. QED BY <2>1, <2>2
<1>5. F = [i \in 0..N |-> F[i]]
  BY <1>3
<1>6. F = Gathered(F, N, P, e)
  BY <1>4, <1>5 DEF Gathered
<1>7. QED BY <1>6

\* What such a table holds.
Entries(P, N, e) == {e[i] : i \in P \cap (1..N)}

LEMMA Gathers ==
    ASSUME NEW N \in Nat, NEW P, NEW e, NEW O, \A i \in P \cap (1..N) : e[i] \in O,
           NEW F, F = Gathered(F, N, P, e)
    PROVE  F[N] \in Seq(O) /\ ToSet(F[N]) = Entries(P, N, e)
<1> DEFINE Holds(k) ==
        /\ F[k] \in Seq(O)
        /\ \A x : x \in ToSet(F[k]) <=> \E i \in P \cap (1..k) : x = e[i]
           T == {k \in Nat : k <= N => Holds(k)}
<1>1. \A i \in 0..N :
        F[i] = IF i = 0 THEN <<>> ELSE IF i \in P THEN Append(F[i-1], e[i]) ELSE F[i-1]
  BY DEF Gathered
<1>2. 0 \in T
  <2>1. F[0] = <<>>
    BY <1>1
  <2>2. <<>> \in Seq(O) /\ ToSet(<<>>) = {}
    BY DEF ToSet
  <2>3. Holds(0)
    BY <2>1, <2>2
  <2>4. QED BY <2>3
<1>3. ASSUME NEW k \in Nat, k \in T PROVE k + 1 \in T
  <2>1. SUFFICES ASSUME k + 1 <= N PROVE Holds(k + 1)
    OBVIOUS
  <2>2. k + 1 \in 0..N /\ k + 1 \in 1..N /\ k + 1 # 0 /\ (k + 1) - 1 = k /\ k <= N
    BY <2>1
  <2>3. F[k+1] = IF k + 1 \in P THEN Append(F[k], e[k+1]) ELSE F[k]
    BY <2>2, <1>1
  <2>4. Holds(k)
    BY <1>3, <2>2
  <2>5. CASE k + 1 \in P
    <3>1. e[k+1] \in O /\ F[k] \in Seq(O) /\ F[k+1] = Append(F[k], e[k+1])
      BY <2>2, <2>3, <2>4, <2>5
    <3>2. F[k+1] \in Seq(O)
      BY <3>1
    <3>3. Len(F[k+1]) = Len(F[k]) + 1 /\ Len(F[k]) \in Nat
      BY <3>1
    <3>4. \A j \in 1..Len(F[k]) : F[k+1][j] = F[k][j]
      BY <3>1
    <3>5. F[k+1][Len(F[k]) + 1] = e[k+1]
      BY <3>1
    <3>6. DOMAIN F[k] = 1..Len(F[k]) /\ DOMAIN F[k+1] = 1..(Len(F[k]) + 1)
      BY <3>1, <3>2, <3>3
    <3>7. \A x : x \in ToSet(F[k+1]) <=> x \in ToSet(F[k]) \/ x = e[k+1]
      <4>1. ASSUME NEW x \in ToSet(F[k+1]) PROVE x \in ToSet(F[k]) \/ x = e[k+1]
        <5>1. PICK j \in 1..(Len(F[k]) + 1) : x = F[k+1][j]
          BY <3>6 DEF ToSet
        <5>2. j = Len(F[k]) + 1 \/ j \in 1..Len(F[k])
          BY <3>3
        <5>3. QED BY <5>1, <5>2, <3>4, <3>5, <3>6 DEF ToSet
      <4>2. ASSUME NEW x \in ToSet(F[k]) PROVE x \in ToSet(F[k+1])
        <5>1. PICK j \in 1..Len(F[k]) : x = F[k][j]
          BY <3>6 DEF ToSet
        <5>2. j \in 1..(Len(F[k]) + 1) /\ x = F[k+1][j]
          BY <3>3, <3>4, <5>1
        <5>3. QED BY <5>2, <3>6 DEF ToSet
      <4>3. e[k+1] \in ToSet(F[k+1])
        <5>1. Len(F[k]) + 1 \in 1..(Len(F[k]) + 1)
          BY <3>3
        <5>2. QED BY <5>1, <3>5, <3>6 DEF ToSet
      <4>4. QED BY <4>1, <4>2, <4>3
    <3>8. ASSUME NEW x
          PROVE (\E i \in P \cap (1..(k+1)) : x = e[i]) <=> (\E i \in P \cap (1..k) : x = e[i]) \/ x = e[k+1]
      <4>1. 1..(k+1) = (1..k) \cup {k+1}
        OBVIOUS
      <4>2. QED BY <4>1, <2>5
    <3>9. \A x : x \in ToSet(F[k]) <=> \E i \in P \cap (1..k) : x = e[i]
      BY <2>4
    <3> HIDE DEF T
    <3>10. QED BY <3>2, <3>7, <3>8, <3>9
  <2>6. CASE k + 1 \notin P
    <3>1. P \cap (1..(k+1)) = P \cap (1..k)
      <4>1. 1..(k+1) = (1..k) \cup {k+1}
        OBVIOUS
      <4>2. QED BY <4>1, <2>6
    <3>2. F[k+1] = F[k]
      BY <2>3, <2>6
    <3>3. QED BY <3>1, <3>2, <2>4
  <2>7. QED BY <2>5, <2>6
<1>4. Nat \subseteq T
  <2> HIDE DEF T
  <2>1. QED BY <1>2, <1>3, Inductive
<1>5. N \in T
  <2> HIDE DEF T
  <2>1. QED BY <1>4
<1>6. Holds(N)
  <2>1. N <= N
    OBVIOUS
  <2>2. QED BY <1>5, <2>1
<1>7. ToSet(F[N]) = Entries(P, N, e)
  BY <1>6 DEF Entries
<1>8. QED BY <1>6, <1>7

-----------------------------------------------------------------------------
\* The operators of select.

\* The descriptor of each object.
FdOf == getfd \in [Objects -> Nat \cup {SOCKET_INVALID}]

\* check_dirty finds the dirty objects of the table, all of them.
LEMMA DirtyFound ==
    ASSUME FdOf, NEW r \in Seq(Objects)
    PROVE  /\ check_dirty(r) \in Seq(Objects)
           /\ ToSet(check_dirty(r)) = {o \in ToSet(r) : IsDirty(o)}
<1> DEFINE P == {i \in 1..Len(r) : IsDirty(r[i])}
           Is(F) == F = [i \in 0..Len(r) |->
                IF i = 0 THEN <<>> ELSE IF IsDirty(r[i]) THEN Append(F[i-1], r[i]) ELSE F[i-1]]
<1>1. Len(r) \in Nat /\ DOMAIN r = 1..Len(r) /\ \A i \in P \cap (1..Len(r)) : r[i] \in Objects
  OBVIOUS
<1>2. ASSUME NEW F PROVE Is(F) <=> F = Gathered(F, Len(r), P, r)
  <2>1. ASSUME NEW i \in 0..Len(r), i # 0 PROVE IsDirty(r[i]) <=> i \in P
    BY <1>1, <2>1
  <2> DEFINE D(i) == IsDirty(r[i])
  <2>2. \A i \in 0..Len(r) : i # 0 => (D(i) <=> i \in P)
    BY <2>1
  <2> HIDE DEF P, D
  <2>3. [i \in 0..Len(r) |-> IF i = 0 THEN <<>> ELSE IF D(i) THEN Append(F[i-1], r[i]) ELSE F[i-1]]
            = Gathered(F, Len(r), P, r)
    BY <2>2 DEF Gathered
  <2>4. QED BY <2>3 DEF D
<1>3. \E F : F = Gathered(F, Len(r), P, r)
  <2> HIDE DEF P
  <2>1. QED BY <1>1, GatherExists
<1>4. \E F : Is(F)
  BY <1>2, <1>3
<1>5. Found(r) = CHOOSE F : Is(F)
  BY DEF Found
<1>6. Is(Found(r))
  <2> HIDE DEF Is
  <2>1. QED BY <1>4, <1>5
<1> DEFINE F == Found(r)
<1>7. F = Gathered(F, Len(r), P, r)
  BY <1>2, <1>6
<1>8. /\ F[Len(r)] \in Seq(Objects)
      /\ ToSet(F[Len(r)]) = Entries(P, Len(r), r)
  <2> HIDE DEF F, P
  <2>1. QED BY <1>1, <1>7, Gathers
<1>9. ASSUME NEW x
      PROVE x \in Entries(P, Len(r), r) <=> x \in ToSet(r) /\ IsDirty(x)
  BY <1>1 DEF ToSet, Entries
<1>10. QED
  <2> HIDE DEF F, P
  <2>1. F = Found(r)
    BY DEF F
  <2>2. QED BY <1>8, <1>9, <2>1 DEF check_dirty

\* What is in a table made of two.
LEMMA ToSetConcat ==
    ASSUME NEW r \in Seq(Objects), NEW w \in Seq(Objects)
    PROVE  ToSet(r \o w) = ToSet(r) \cup ToSet(w)
<1>1. ASSUME NEW i \in 1..Len(r) PROVE i \in 1..(Len(r) + Len(w)) /\ (r \o w)[i] = r[i]
  OBVIOUS
<1>2. ASSUME NEW i \in 1..Len(w)
      PROVE Len(r) + i \in 1..(Len(r) + Len(w)) /\ (r \o w)[Len(r) + i] = w[i]
  OBVIOUS
<1>3. ASSUME NEW i \in 1..(Len(r) + Len(w))
      PROVE i \in 1..Len(r) \/ \E j \in 1..Len(w) : i = Len(r) + j
  <2>1. i \in 1..Len(r) \/ i - Len(r) \in 1..Len(w)
    OBVIOUS
  <2>2. i = Len(r) + (i - Len(r))
    OBVIOUS
  <2>3. QED BY <2>1, <2>2
<1>4. DOMAIN r = 1..Len(r) /\ DOMAIN w = 1..Len(w) /\ DOMAIN (r \o w) = 1..(Len(r) + Len(w))
  OBVIOUS
<1>5. ASSUME NEW x \in ToSet(r \o w) PROVE x \in ToSet(r) \cup ToSet(w)
  <2>1. PICK i \in 1..(Len(r) + Len(w)) : x = (r \o w)[i]
    BY <1>4 DEF ToSet
  <2>2. CASE i \in 1..Len(r)
    BY <2>1, <2>2, <1>1, <1>4 DEF ToSet
  <2>3. CASE \E j \in 1..Len(w) : i = Len(r) + j
    BY <2>1, <2>3, <1>2, <1>4 DEF ToSet
  <2>4. QED BY <2>2, <2>3, <1>3
<1>6. ASSUME NEW x \in ToSet(r) PROVE x \in ToSet(r \o w)
  BY <1>1, <1>4 DEF ToSet
<1>7. ASSUME NEW x \in ToSet(w) PROVE x \in ToSet(r \o w)
  BY <1>2, <1>4 DEF ToSet
<1>8. QED BY <1>5, <1>6, <1>7

\* The largest descriptor.
LEMMA Largest ==
    ASSUME DOMAIN itab \subseteq 0..(FD_SETSIZE - 1)
    PROVE  /\ max_fd \in DOMAIN itab \cup {SOCKET_INVALID}
           /\ \A fd \in DOMAIN itab : fd <= max_fd
<1> DEFINE D == DOMAIN itab
           T == {FD_SETSIZE - fd : fd \in D}
<1>1. FD_SETSIZE \in Nat
  BY LimitsAssumption
<1>2. \E m \in D \cup {SOCKET_INVALID} : \A fd \in D : fd <= m
  <2>1. CASE D = {}
    BY <2>1
  <2>2. CASE D # {}
    <3>1. T \subseteq Nat /\ T # {}
      BY <1>1, <2>2
    <3>2. PICK n \in T : \A k \in T : n <= k
      <4> HIDE DEF T
      <4>1. QED BY <3>1, Smallest
    <3>3. PICK m \in D : n = FD_SETSIZE - m
      BY <3>2
    <3>4. ASSUME NEW fd \in D PROVE fd <= m
      <4>1. n <= FD_SETSIZE - fd
        BY <3>2
      <4>2. QED BY <4>1, <3>3, <1>1
    <3>5. QED BY <3>4
  <2>3. QED BY <2>1, <2>2
<1>3. QED BY <1>2 DEF max_fd

\* return_fd returns the objects of the descriptors, all of them.
LEMMA ObjectsReturned ==
    ASSUME DOMAIN itab \subseteq 0..(FD_SETSIZE - 1), \A fd \in DOMAIN itab : itab[fd] \in Objects,
           NEW fds, fds \subseteq DOMAIN itab
    PROVE  Objs(fds) \in Seq(Objects) /\ ToSet(Objs(fds)) = {itab[fd] : fd \in fds}
<1> DEFINE N == max_fd + 1
           P == {n \in 1..N : n - 1 \in fds}
           e == [n \in 1..N |-> itab[n-1]]
           Is(F) == F = [n \in 0..N |-> IF n = 0 THEN <<>>
                            ELSE IF n - 1 \in fds THEN Append(F[n-1], itab[n-1]) ELSE F[n-1]]
<1>1. N \in Nat /\ \A fd \in fds : fd \in Nat /\ fd + 1 \in 1..N
  BY Largest, LimitsAssumption DEF SOCKET_INVALID
<1> HIDE DEF N
<1>2. \A n \in P \cap (1..N) : e[n] \in Objects
  OBVIOUS
<1>3. ASSUME NEW F PROVE Is(F) <=> F = Gathered(F, N, P, e)
  <2>1. ASSUME NEW n \in 0..N, n # 0 PROVE (n - 1 \in fds <=> n \in P) /\ e[n] = itab[n-1]
    BY <1>1, <2>1
  <2> DEFINE D(n) == n - 1 \in fds
             a(n) == itab[n-1]
  <2>2. \A n \in 0..N : n # 0 => (D(n) <=> n \in P) /\ e[n] = a(n)
    BY <2>1
  <2> HIDE DEF P, D, e, a
  <2>3. [n \in 0..N |-> IF n = 0 THEN <<>> ELSE IF D(n) THEN Append(F[n-1], a(n)) ELSE F[n-1]]
            = Gathered(F, N, P, e)
    BY <2>2 DEF Gathered
  <2>4. QED BY <2>3 DEF D, a
<1>4. \E F : F = Gathered(F, N, P, e)
  <2> HIDE DEF P, e
  <2>1. QED BY <1>1, <1>2, GatherExists
<1>5. \E F : Is(F)
  BY <1>3, <1>4
<1>6. Given(fds, N) = CHOOSE F : Is(F)
  BY DEF Given
<1>7. Is(Given(fds, N))
  <2> HIDE DEF Is
  <2>1. QED BY <1>5, <1>6
<1> DEFINE F == Given(fds, N)
<1>8. F = Gathered(F, N, P, e)
  BY <1>3, <1>7
<1>9. /\ F[N] \in Seq(Objects)
      /\ ToSet(F[N]) = Entries(P, N, e)
  <2> HIDE DEF F, P, e
  <2>1. QED BY <1>1, <1>2, <1>8, Gathers
<1>10. ASSUME NEW x
       PROVE x \in Entries(P, N, e) <=> \E fd \in fds : x = itab[fd]
  <2>1. ASSUME NEW fd \in fds PROVE fd + 1 \in P \cap (1..N) /\ e[fd+1] = itab[fd]
    <3>1. fd \in Nat /\ fd + 1 \in 1..N /\ (fd + 1) - 1 = fd
      BY <1>1
    <3>2. QED BY <3>1
  <2>2. ASSUME NEW n \in P PROVE n \in 1..N /\ n - 1 \in fds /\ e[n] = itab[n-1]
    OBVIOUS
  <2> HIDE DEF P, e
  <2>3. QED BY <2>1, <2>2 DEF Entries
<1>11. Objs(fds) = F[N]
  BY DEF Objs, return_fd, N
<1>12. QED
  <2> HIDE DEF F, P, e
  <2>1. QED BY <1>9, <1>10, <1>11

\* A descriptor is mapped back to an object that was collected with it.
LEMMA MappedBack ==
    ASSUME FdOf, NEW t \in Seq(Objects), NEW fd \in Collected(t)
    PROVE  LastWith(t, fd) \in ToSet(t) /\ getfd[LastWith(t, fd)] = fd
<1> DEFINE I == {i \in DOMAIN t : getfd[t[i]] = fd}
           T == {Len(t) - i : i \in I}
<1>1. Len(t) \in Nat /\ DOMAIN t = 1..Len(t)
  OBVIOUS
<1>2. T \subseteq Nat /\ T # {}
  BY <1>1 DEF Collected, ToSet
<1>3. PICK n \in T : \A k \in T : n <= k
  <2> HIDE DEF T
  <2>1. QED BY <1>2, Smallest
<1>4. PICK i \in I : n = Len(t) - i
  BY <1>3
<1>5. ASSUME NEW j \in I PROVE j <= i
  <2>1. n <= Len(t) - j
    BY <1>3
  <2>2. QED BY <2>1, <1>1, <1>4
<1>6. \E k \in DOMAIN t :
        getfd[t[k]] = fd /\ \A j \in DOMAIN t : getfd[t[j]] = fd => j <= k
  BY <1>4, <1>5
<1>7. QED BY <1>6 DEF LastWith, ToSet

-----------------------------------------------------------------------------
\* The inductive invariant: the types, and what is known during a call of the sets,
\* of the tables and of the limit.

SetsInv ==
    /\ rset = Waited(recvt) /\ wset = Collected(sendt)
    /\ DOMAIN itab = Collected(recvt) \cup Collected(sendt)
    /\ \A fd \in DOMAIN itab : getfd[itab[fd]] = fd

TablesInv ==
    /\ ToSet(rtab) = {o \in ToSet(recvt) : IsDirty(o)} /\ ndirty = Len(rtab)
    /\ wtab = <<>> /\ err = "none"

LimitInv ==
    /\ tm.total = -1 /\ tm.start \in Nat /\ tm.start <= now
    /\ ndirty > 0 => tm.block = 0
    /\ tm.block < 0 => wake = Forever
    /\ tm.block >= 0 => wake >= tm.start + tm.block /\ (wake <= now \/ wake <= tm.start + tm.block)

IInv == TypeOK /\ (pc = "select" => SetsInv /\ TablesInv /\ LimitInv)

LEMMA InitIInv == Init => IInv
<1> SUFFICES ASSUME Init PROVE IInv
  OBVIOUS
<1>1. getfd \in [Objects -> Nat \cup {SOCKET_INVALID}]
  BY FdMapsAssumption DEF Init
<1>2. timeout_init(-1, -1) \in TimeoutRecord
  BY DEF timeout_init, TimeoutRecord
<1>3. <<>> \in Seq(Objects) /\ DOMAIN itab = {}
  BY DEF Init
<1>4. TypeOK
  BY <1>1, <1>2, <1>3, BoundsAssumption DEF Init, TypeOK, Forever
<1>5. QED BY <1>4 DEF Init, IInv

\* When the system call gives up.
LEMMA WakeMeasured ==
    ASSUME NEW t \in TimeoutRecord, t.total = -1, t.start \in Nat, NEW n \in Nat, t.start <= n, n = now
    PROVE  LET w == Wake(timeout_getretry(t, n)) IN
           /\ w \in Int
           /\ t.block < 0 => w = Forever
           /\ t.block >= 0 => w >= t.start + t.block /\ (w <= n \/ w <= t.start + t.block)
<1>1. t.block \in Int /\ t.start \in Int
  BY DEF TimeoutRecord
<1>2. CASE t.block < 0
  <2>1. timeout_getretry(t, n) = Forever
    BY <1>1, <1>2 DEF timeout_getretry, timeout_get
  <2>2. QED BY <1>1, <1>2, <2>1 DEF Wake, Forever
<1>3. CASE t.block >= 0
  <2>1. timeout_getretry(t, n) = MAX(t.block - n + t.start, 0)
    BY <1>1, <1>3 DEF timeout_getretry
  <2>2. QED BY <1>1, <1>3, <2>1 DEF Wake, MAX
<1>4. QED BY <1>1, <1>2, <1>3

LEMMA CallIInv ==
    ASSUME IInv, NEW r \in Tables, NEW w \in Tables, NEW t \in Limits, global_select(r, w, t)
    PROVE  IInv'
<1> DEFINE fds == Collected(r) \cup Collected(w)
           d == check_dirty(r)
           m == timeout_markstart(timeout_init(Limit(t, Len(d)), -1), now)
<1>0. r \in Seq(Objects) /\ w \in Seq(Objects) /\ t \in Int /\ FdOf /\ now \in Nat
      /\ FD_SETSIZE \in Nat
  BY TablesAssumption, LimitsAssumption DEF IInv, TypeOK, FdOf
<1>1. d \in Seq(Objects) /\ ToSet(d) = {o \in ToSet(r) : IsDirty(o)} /\ Len(d) \in Nat
  BY <1>0, DirtyFound
<1>2. Collected(r) \subseteq Nat /\ Collected(w) \subseteq Nat
  BY <1>0 DEF Collected, ToSet, FdOf
<1>3. r \o w \in Seq(Objects) /\ Collected(r \o w) = fds
  <2>1. r \o w \in Seq(Objects) /\ Len(r \o w) = Len(r) + Len(w)
    BY <1>0
  <2>2. ToSet(r \o w) = ToSet(r) \cup ToSet(w)
    BY <1>0, ToSetConcat
  <2>3. QED BY <2>1, <2>2 DEF Collected
<1> HIDE DEF d, fds
<1>4. CASE TooLarge(fds)
  <2>1. /\ err' = "raised" /\ rtab' = <<>> /\ wtab' = <<>> /\ pc = "idle" /\ recvt' = r /\ sendt' = w
        /\ UNCHANGED <<pc, rset, wset, itab, ndirty, tm, wake, getfd, dirty, readable, writable, now, faults>>
    BY <1>4 DEF global_select, fds, kernelVars
  <2>2. <<>> \in Seq(Objects)
    OBVIOUS
  <2>3. QED BY <1>0, <2>1, <2>2 DEF IInv, TypeOK
<1>5. CASE ~TooLarge(fds)
  <2>1. /\ rset' = Waited(r) /\ wset' = Collected(w)
        /\ itab' = [fd \in fds |-> LastWith(r \o w, fd)]
        /\ ndirty' = Len(d) /\ tm' = m /\ rtab' = d /\ wtab' = <<>> /\ err' = "none"
        /\ pc' = "select" /\ recvt' = r /\ sendt' = w
        /\ UNCHANGED <<getfd, dirty, readable, writable, now, faults>>
    BY <1>5 DEF global_select, fds, d, kernelVars
  <2>2. wake' = Wake(timeout_getretry(m, now))
    BY <1>5, <2>1 DEF global_select, fds, d
  <2>3. /\ m \in TimeoutRecord /\ m.total = -1 /\ m.start = now
        /\ m.block = Limit(t, Len(d)) /\ m.block \in Int
    BY <1>0, <1>1 DEF timeout_markstart, timeout_init, TimeoutRecord, Limit
  <2> HIDE DEF m
  <2>4. LimitInv' /\ wake' \in Int
    <3>1. /\ wake' \in Int
          /\ m.block < 0 => wake' = Forever
          /\ m.block >= 0 => wake' >= m.start + m.block /\ (wake' <= now \/ wake' <= m.start + m.block)
      BY <1>0, <2>2, <2>3, WakeMeasured
    <3>2. Len(d) > 0 => m.block = 0
      BY <2>3 DEF Limit
    <3>3. QED BY <1>0, <2>1, <2>3, <3>1, <3>2 DEF LimitInv
  <2>5. ASSUME NEW fd \in fds PROVE itab'[fd] \in Objects /\ getfd[itab'[fd]] = fd
    <3>1. LastWith(r \o w, fd) \in ToSet(r \o w) /\ getfd[LastWith(r \o w, fd)] = fd
      BY <1>0, <1>3, MappedBack
    <3>2. ToSet(r \o w) \subseteq Objects
      BY <1>3 DEF ToSet
    <3>3. QED BY <2>1, <3>1, <3>2
  <2>6. DOMAIN itab' = fds /\ fds \subseteq 0..(FD_SETSIZE - 1)
    <3>1. ASSUME NEW fd \in fds PROVE fd \in 0..(FD_SETSIZE - 1)
      <4>1. fd \in Nat /\ ~(fd >= FD_SETSIZE)
        BY <1>2, <1>5 DEF TooLarge, fds
      <4>2. QED BY <4>1, <1>0
    <3>2. QED BY <2>1, <3>1
  <2>7. SetsInv'
    <3>1. rset' = Waited(recvt)' /\ wset' = Collected(sendt)' /\ fds = Collected(recvt)' \cup Collected(sendt)'
      BY <2>1 DEF Waited, Collected, IsDirty, fds
    <3>2. QED BY <2>1, <2>5, <2>6, <3>1 DEF SetsInv
  <2>8. TablesInv'
    BY <1>1, <2>1 DEF TablesInv, IsDirty
  <2>9. TypeOK'
    <3>1. rset' \cup wset' \subseteq DOMAIN itab'
      BY <2>1, <2>6 DEF Waited, fds
    <3>2. <<>> \in Seq(Objects)
      OBVIOUS
    <3>3. QED BY <1>0, <1>1, <2>1, <2>3, <2>4, <2>5, <2>6, <3>1, <3>2 DEF IInv, TypeOK
  <2>10. QED BY <2>4, <2>7, <2>8, <2>9 DEF IInv
<1>6. QED BY <1>4, <1>5

\* What is returned for descriptors of the sets is made of objects.
LEMMA ReportsTyped ==
    ASSUME TypeOK, NEW rs, NEW ws, rs \cup ws \subseteq rset \cup wset, Reports(rs, ws)
    PROVE  rtab' \in Seq(Objects) /\ wtab' \in Seq(Objects) /\ pc' = "idle" /\ err' = err
<1>1. Objs(rs) \in Seq(Objects) /\ Objs(ws) \in Seq(Objects)
  BY ObjectsReturned DEF TypeOK
<1>2. rtab \o Objs(rs) \in Seq(Objects)
  BY <1>1 DEF TypeOK
<1>3. QED BY <1>1, <1>2 DEF Reports

LEMMA NextIInv == IInv /\ [Next]_vars => IInv'
<1> SUFFICES ASSUME IInv, [Next]_vars PROVE IInv'
  OBVIOUS
<1> USE DEF IInv
<1>1. CASE KernelChanges
  <2>1. PICK fd \in Descriptors \ Bad :
            \/ readable' = readable \cup {fd} /\ UNCHANGED writable
            \/ writable' = writable \cup {fd} /\ UNCHANGED readable
    BY <1>1 DEF KernelChanges
  <2>2. fd \in Nat \ Bad
    BY DEF Descriptors, TypeOK
  <2>3. UNCHANGED <<getfd, dirty, now, faults, pc, argVars, wake, resultVars>>
    BY <1>1 DEF KernelChanges
  <2>4. TypeOK'
    BY <2>1, <2>2, <2>3 DEF TypeOK, argVars, resultVars
  <2>5. QED BY <2>3, <2>4 DEF SetsInv, TablesInv, LimitInv, Waited, Collected, IsDirty, argVars, resultVars
<1>2. CASE Tick
  <2>1. now' = now + 1 /\ now < MaxNow
        /\ UNCHANGED <<getfd, dirty, kernelVars, faults, pc, argVars, wake, resultVars>>
    BY <1>2 DEF Tick
  <2>2. now \in Nat /\ now' \in 0..MaxNow /\ wake \in Int
    BY <2>1, BoundsAssumption DEF TypeOK
  <2>3. TypeOK'
    BY <2>1, <2>2 DEF TypeOK, kernelVars, argVars, resultVars
  <2>4. LimitInv => LimitInv'
    <3>1. tm \in TimeoutRecord
      BY DEF TypeOK
    <3>2. tm.block \in Int /\ tm.start \in Int
      BY <3>1 DEF TimeoutRecord
    <3>3. QED BY <2>1, <2>2, <3>2 DEF LimitInv, argVars
  <2>5. QED BY <2>1, <2>3, <2>4 DEF SetsInv, TablesInv, Waited, Collected, IsDirty, argVars, resultVars
<1>3. ASSUME NEW o \in Objects, UseSocket(o) PROVE IInv'
  <2>1. /\ pc = "idle" /\ getfd' \in [Objects -> Nat \cup {SOCKET_INVALID}] /\ dirty' \subseteq Objects
        /\ readable' \subseteq readable /\ writable' \subseteq writable
        /\ UNCHANGED <<now, faults, pc, argVars, wake, resultVars>>
    BY <1>3 DEF UseSocket, TypeOK
  <2>2. QED BY <2>1 DEF TypeOK, argVars, resultVars
<1>4. ASSUME NEW r \in Tables, NEW w \in Tables, NEW t \in Limits, global_select(r, w, t) PROVE IInv'
  BY <1>4, CallIInv
<1>5. CASE SelectReady
  <2>1. Reports(rset \cap readable, wset \cap writable) /\ UNCHANGED <<faults, wake>> /\ Frame
    BY <1>5 DEF SelectReady
  <2>2. rtab' \in Seq(Objects) /\ wtab' \in Seq(Objects) /\ pc' = "idle" /\ err' = err
    BY <2>1, ReportsTyped
  <2>3. QED BY <2>1, <2>2 DEF TypeOK, Frame, kernelVars, argVars
<1>6. CASE SelectExpires
  <2>1. rtab' \in Seq(Objects) /\ wtab' \in Seq(Objects) /\ pc' = "idle" /\ err' \in {err, "timeout"}
    <3>1. CASE Reports({}, {})
      BY <3>1, ReportsTyped
    <3>2. CASE pc' = "idle" /\ err' = "timeout" /\ UNCHANGED <<rtab, wtab>>
      BY <3>2 DEF TypeOK
    <3>3. QED BY <1>6, <3>1, <3>2 DEF SelectExpires
  <2>2. UNCHANGED <<faults, wake>> /\ Frame
    BY <1>6 DEF SelectExpires
  <2>3. QED BY <2>1, <2>2 DEF TypeOK, Frame, kernelVars, argVars
<1>7. CASE SelectInterrupted
  <2>1. /\ pc = "select" /\ faults' = faults + 1 /\ faults < MaxFaults
        /\ wake' = Wake(timeout_getretry(tm, now))
        /\ UNCHANGED <<pc, rtab, wtab, err, getfd, dirty, readable, writable, now, recvt, sendt,
                       rset, wset, itab, ndirty, tm>>
    BY <1>7 DEF SelectInterrupted, Waiting, Frame, kernelVars, argVars, resultVars
  <2>2. now \in Nat /\ tm \in TimeoutRecord /\ tm.block \in Int /\ faults \in Nat
    BY DEF TypeOK, TimeoutRecord
  <2>3. LimitInv
    BY <2>1
  <2>4. /\ wake' \in Int
        /\ tm.block < 0 => wake' = Forever
        /\ tm.block >= 0 => wake' >= tm.start + tm.block /\ (wake' <= now \/ wake' <= tm.start + tm.block)
    BY <2>1, <2>2, <2>3, WakeMeasured DEF LimitInv
  <2>5. TypeOK'
    BY <2>1, <2>2, <2>4, BoundsAssumption DEF TypeOK
  <2>6. LimitInv'
    BY <2>1, <2>3, <2>4 DEF LimitInv
  <2>7. QED BY <2>1, <2>5, <2>6 DEF SetsInv, TablesInv, Waited, Collected, IsDirty
<1>8. CASE SelectFails
  <2>1. rtab' \in Seq(Objects) /\ wtab' \in Seq(Objects) /\ pc' = "idle" /\ err' \in {err, "raised"}
    <3>1. CASE Reports(rset, wset)
      BY <3>1, ReportsTyped
    <3>2. CASE pc' = "idle" /\ err' = "raised" /\ UNCHANGED <<rtab, wtab>>
      BY <3>2 DEF TypeOK
    <3>3. QED BY <1>8, <3>1, <3>2 DEF SelectFails
  <2>2. UNCHANGED <<faults, wake>> /\ Frame
    BY <1>8 DEF SelectFails
  <2>3. QED BY <2>1, <2>2 DEF TypeOK, Frame, kernelVars, argVars
<1>9. CASE UNCHANGED vars
  <2>1. TypeOK'
    BY <1>9 DEF vars, kernelVars, argVars, resultVars, TypeOK
  <2>2. SetsInv => SetsInv'
    BY <1>9 DEF vars, argVars, SetsInv, Waited, Collected, IsDirty
  <2>3. TablesInv => TablesInv'
    BY <1>9 DEF vars, argVars, resultVars, TablesInv, IsDirty
  <2>4. LimitInv => LimitInv'
    BY <1>9 DEF vars, argVars, LimitInv
  <2>5. QED BY <1>9, <2>1, <2>2, <2>3, <2>4 DEF vars
<1>10. QED BY <1>1, <1>2, <1>3, <1>4, <1>5, <1>6, <1>7, <1>8, <1>9 DEF Next, System

THEOREM Invariance == Spec => []IInv
BY InitIInv, NextIInv, PTL DEF Spec

\* Every variable of select keeps its range.
THEOREM TypeCorrect == Spec => []TypeOK
<1>1. IInv => TypeOK
  BY DEF IInv
<1>2. QED BY <1>1, Invariance, PTL

-----------------------------------------------------------------------------
\* An object that has bytes in its buffer is never slept on, whatever the limit of the
\* call and however often it is interrupted (select.c:66).
THEOREM DirtyNeverWaitsCorrect == Spec => []DirtyNeverWaits
<1>1. IInv => DirtyNeverWaits
  <2> SUFFICES ASSUME IInv, pc = "select", NEW o \in ToSet(recvt), IsDirty(o)
               PROVE  wake # Forever /\ wake <= now
    BY DEF DirtyNeverWaits
  <2>1. o \in ToSet(rtab) /\ ndirty = Len(rtab) /\ rtab \in Seq(Objects) /\ LimitInv
    BY DEF IInv, TablesInv, TypeOK
  <2>2. ndirty > 0
    <3>1. DOMAIN rtab # {}
      BY <2>1 DEF ToSet
    <3>2. QED BY <2>1, <3>1
  <2>3. now \in Nat /\ wake \in Int
    BY DEF IInv, TypeOK
  <2>4. QED BY <2>1, <2>2, <2>3 DEF LimitInv, Forever
<1>2. QED BY <1>1, Invariance, PTL

\* A time out is never reported before the limit, measured from the call, is over: an
\* interrupted wait goes on (timeout_getretry in socket_select).
THEOREM LimitCorrect == Spec => LimitExact
<1>1. IInv /\ [Next]_vars =>
        [pc = "select" /\ pc' = "idle" /\ err' = "timeout" =>
            tm.block >= 0 /\ now >= tm.start + tm.block]_vars
  <2> SUFFICES ASSUME IInv, Next, pc = "select", pc' = "idle", err' = "timeout"
               PROVE  tm.block >= 0 /\ now >= tm.start + tm.block
    OBVIOUS
  <2>1. err = "none" /\ LimitInv /\ TypeOK
    BY DEF IInv, TablesInv
  <2>2. SelectReady \/ SelectExpires \/ SelectInterrupted \/ SelectFails
    BY DEF Next, System, KernelChanges, Tick, UseSocket, global_select
  <2>3. SelectExpires
    BY <2>1, <2>2 DEF SelectReady, SelectInterrupted, SelectFails, Reports
  <2>4. wake # Forever /\ now >= wake
    BY <2>3 DEF SelectExpires
  <2>5. tm.block \in Int /\ tm.start \in Int /\ now \in Int /\ wake \in Int
    BY <2>1 DEF TypeOK, TimeoutRecord
  <2>6. QED BY <2>1, <2>4, <2>5 DEF LimitInv
<1>2. QED BY <1>1, Invariance, PTL DEF Spec, LimitExact

-----------------------------------------------------------------------------
\* No two open objects stand for one descriptor.
Distinct(fds) == \A o, p \in Objects : fds[o] = fds[p] /\ fds[o] # SOCKET_INVALID => o = p

\* Nothing that happens gives an object another's descriptor.
LEMMA DistinctKept == TypeOK /\ Distinct(getfd) /\ [Next]_vars => Distinct(getfd)'
<1> SUFFICES ASSUME TypeOK, Distinct(getfd), [Next]_vars PROVE Distinct(getfd)'
  OBVIOUS
<1>1. CASE UNCHANGED getfd
  BY <1>1 DEF Distinct
<1>2. ASSUME NEW o \in Objects, UseSocket(o) PROVE Distinct(getfd)'
  <2>1. UNCHANGED getfd \/ getfd' = [getfd EXCEPT ![o] = SOCKET_INVALID]
    BY <1>2 DEF UseSocket
  <2>2. CASE getfd' = [getfd EXCEPT ![o] = SOCKET_INVALID]
    BY <2>2 DEF Distinct, TypeOK
  <2>3. QED BY <1>1, <2>1, <2>2
<1>3. CASE KernelChanges \/ Tick \/ System
  BY <1>1, <1>3 DEF KernelChanges, Tick, System, SelectReady, SelectExpires, SelectInterrupted,
        SelectFails, Frame
<1>4. ASSUME NEW r \in Tables, NEW w \in Tables, NEW t \in Limits, global_select(r, w, t)
      PROVE  Distinct(getfd)'
  BY <1>1, <1>4 DEF global_select
<1>5. CASE UNCHANGED vars
  BY <1>1, <1>5 DEF vars
<1>6. QED BY <1>2, <1>3, <1>4, <1>5 DEF Next

\* What is returned when the system call has succeeded.
Answer(rs, ws) ==
    /\ ToSet(rtab') = ToSet(rtab) \cup {itab[fd] : fd \in rs}
    /\ ToSet(wtab') = {itab[fd] : fd \in ws}

\* Sequences without elements.
LEMMA EmptyTable ==
    ASSUME NEW s \in Seq(Objects) PROVE s = <<>> <=> ToSet(s) = {}
<1>1. DOMAIN s = 1..Len(s) /\ Len(s) \in Nat
  OBVIOUS
<1>2. s = <<>> <=> Len(s) = 0
  OBVIOUS
<1>3. Len(s) = 0 <=> DOMAIN s = {}
  <2>1. ASSUME Len(s) # 0 PROVE 1 \in 1..Len(s)
    BY <1>1, <2>1
  <2>2. ASSUME Len(s) = 0 PROVE 1..Len(s) = {}
    BY <2>2
  <2>3. QED BY <1>1, <2>1, <2>2
<1>4. DOMAIN s = {} <=> ToSet(s) = {}
  BY DEF ToSet
<1>5. QED BY <1>2, <1>3, <1>4

LEMMA ReportsAnswer ==
    ASSUME TypeOK, NEW rs, NEW ws, rs \cup ws \subseteq rset \cup wset, Reports(rs, ws)
    PROVE  Answer(rs, ws)
<1>1. /\ Objs(rs) \in Seq(Objects) /\ ToSet(Objs(rs)) = {itab[fd] : fd \in rs}
      /\ Objs(ws) \in Seq(Objects) /\ ToSet(Objs(ws)) = {itab[fd] : fd \in ws}
  BY ObjectsReturned DEF TypeOK
<1>2. ToSet(rtab \o Objs(rs)) = ToSet(rtab) \cup ToSet(Objs(rs))
  BY <1>1, ToSetConcat DEF TypeOK
<1>3. QED BY <1>1, <1>2 DEF Reports, Answer

\* The objects of the descriptors that are ready are the objects asked about that are:
\* a descriptor that was asked about has one object, which was in the table.
LEMMA Ready ==
    ASSUME IInv, pc = "select", Distinct(getfd),
           NEW t \in Seq(Objects), NEW fds, fds \subseteq Collected(t), fds \subseteq DOMAIN itab
    PROVE  {itab[fd] : fd \in fds} = {o \in ToSet(t) : getfd[o] \in fds}
<1>1. FdOf /\ ToSet(t) \subseteq Objects
  BY DEF IInv, TypeOK, FdOf, ToSet
<1>2. ASSUME NEW fd \in fds, NEW o \in ToSet(t), getfd[o] = fd PROVE itab[fd] = o
  <2>1. itab[fd] \in Objects /\ getfd[itab[fd]] = fd
    BY DEF IInv, TypeOK, SetsInv
  <2>2. fd # SOCKET_INVALID
    BY DEF Collected
  <2>3. QED BY <1>1, <1>2, <2>1, <2>2 DEF Distinct
<1>3. ASSUME NEW fd \in fds PROVE itab[fd] \in ToSet(t) /\ getfd[itab[fd]] \in fds
  <2>1. PICK o \in ToSet(t) : fd = getfd[o]
    BY DEF Collected
  <2>2. itab[fd] = o
    BY <1>2, <2>1
  <2>3. QED BY <2>1, <2>2
<1>4. ASSUME NEW o \in ToSet(t), getfd[o] \in fds PROVE itab[getfd[o]] = o
  BY <1>2, <1>4
<1>5. QED BY <1>3, <1>4

\* What a return of select reports is what is so, and all of it, when no two open
\* objects stand for one descriptor: a dirty or readable object of the first table, a
\* writable object of the second, and a time out when there is none (select.c:70-78).
THEOREM ExactlyCorrect ==
    ASSUME \A f \in FdMaps : Distinct(f)
    PROVE  Spec => Exactly
<1> DEFINE Step == Waiting /\ pc' = "idle" =>
        /\ ToSet(rtab') = {o \in ToSet(recvt) : IsDirty(o) \/ getfd[o] \in readable}
        /\ ToSet(wtab') = {o \in ToSet(sendt) : getfd[o] \in writable}
        /\ (err' = "timeout") = (rtab' = <<>> /\ wtab' = <<>>)
<1>1. Init => Distinct(getfd)
  BY DEF Init
<1>2. IInv /\ Distinct(getfd) /\ [Next]_vars => [Step]_vars
  <2> SUFFICES ASSUME IInv, Distinct(getfd), Next, Waiting, pc' = "idle" PROVE Step
    OBVIOUS
  <2> DEFINE rs == rset \cap readable
             ws == wset \cap writable
  <2>1. pc = "select" /\ TypeOK /\ SetsInv /\ TablesInv
    BY DEF IInv, Waiting
  <2>2. SelectReady \/ SelectExpires
    BY <2>1 DEF Next, System, KernelChanges, Tick, UseSocket, global_select, SelectInterrupted, SelectFails
  <2>3. /\ ToSet(rtab) \cup {itab[fd] : fd \in rs}
            = {o \in ToSet(recvt) : IsDirty(o) \/ getfd[o] \in readable}
        /\ {itab[fd] : fd \in ws} = {o \in ToSet(sendt) : getfd[o] \in writable}
    <3>1. ToSet(recvt) \subseteq Objects /\ ToSet(sendt) \subseteq Objects /\ SOCKET_INVALID \notin readable \cup writable
      BY <2>1 DEF TypeOK, ToSet, SOCKET_INVALID
    <3>2. {itab[fd] : fd \in rs} = {o \in ToSet(recvt) : getfd[o] \in rs}
      <4>1. rs \subseteq Collected(recvt) /\ rs \subseteq DOMAIN itab /\ recvt \in Seq(Objects)
        BY <2>1 DEF SetsInv, TypeOK, Waited
      <4> HIDE DEF rs
      <4>2. QED BY <2>1, <4>1, Ready
    <3>3. {itab[fd] : fd \in ws} = {o \in ToSet(sendt) : getfd[o] \in ws}
      <4>1. ws \subseteq Collected(sendt) /\ ws \subseteq DOMAIN itab /\ sendt \in Seq(Objects)
        BY <2>1 DEF SetsInv, TypeOK
      <4> HIDE DEF ws
      <4>2. QED BY <2>1, <4>1, Ready
    <3>4. ASSUME NEW o \in ToSet(recvt), getfd[o] \in readable, ~IsDirty(o) PROVE getfd[o] \in rs
      <4>1. getfd[o] \in Collected(recvt)
        BY <3>1, <3>4 DEF Collected
      <4>2. ASSUME NEW p \in ToSet(recvt), IsDirty(p) PROVE getfd[p] # getfd[o]
        BY <3>1, <3>4, <4>2 DEF Distinct
      <4>3. QED BY <2>1, <3>4, <4>1, <4>2 DEF SetsInv, Waited
    <3>5. ASSUME NEW o \in ToSet(sendt), getfd[o] \in writable PROVE getfd[o] \in ws
      BY <2>1, <3>1, <3>5 DEF SetsInv, Collected
    <3>6. ToSet(rtab) = {o \in ToSet(recvt) : IsDirty(o)}
      BY <2>1 DEF TablesInv
    <3>7. QED BY <3>2, <3>3, <3>4, <3>5, <3>6
  <2>4. rs \cup ws \subseteq rset \cup wset
    OBVIOUS
  <2>5. CASE Reports(rs, ws)
    <3>1. Answer(rs, ws) /\ rtab' \in Seq(Objects) /\ wtab' \in Seq(Objects) /\ err' = err
      <4> HIDE DEF rs, ws
      <4>1. QED BY <2>1, <2>4, <2>5, ReportsAnswer, ReportsTyped
    <3>2. err' # "timeout"
      BY <2>1, <3>1 DEF TablesInv
    <3>3. rs \cup ws # {} \/ ndirty > 0
      BY <2>2, <3>2 DEF SelectReady, SelectExpires
    <3>4. ToSet(rtab') # {} \/ ToSet(wtab') # {}
      <4>1. CASE rs \cup ws # {}
        BY <3>1, <4>1 DEF Answer
      <4>2. CASE ndirty > 0
        <5>1. rtab # <<>> /\ rtab \in Seq(Objects)
          BY <2>1, <4>2 DEF TablesInv, TypeOK
        <5>2. QED BY <3>1, <5>1, EmptyTable DEF Answer
      <4>3. QED BY <3>3, <4>1, <4>2
    <3>5. QED BY <2>3, <3>1, <3>2, <3>4, EmptyTable DEF Answer
  <2>6. CASE ~Reports(rs, ws)
    <3>1. SelectExpires
      BY <2>2, <2>6 DEF SelectReady
    <3>2. rs = {} /\ ws = {}
      BY <3>1 DEF SelectExpires
    <3>3. ndirty = 0 /\ err' = "timeout" /\ UNCHANGED <<rtab, wtab>>
      <4>1. ~Reports({}, {})
        <5> HIDE DEF rs, ws
        <5>1. QED BY <2>6, <3>2
      <4>2. ndirty \in Nat
        BY <2>1 DEF TypeOK
      <4>3. QED BY <3>1, <4>1, <4>2 DEF SelectExpires
    <3>4. rtab = <<>> /\ wtab = <<>> /\ ToSet(<<>>) = {}
      <4>1. rtab \in Seq(Objects) /\ Len(rtab) = 0 /\ wtab = <<>>
        BY <2>1, <3>3 DEF TablesInv, TypeOK
      <4>2. QED BY <4>1 DEF ToSet
    <3>5. QED BY <2>3, <3>2, <3>3, <3>4
  <2>7. QED BY <2>5, <2>6
<1>3. IInv /\ Distinct(getfd) /\ [Next]_vars => Distinct(getfd)'
  BY DistinctKept DEF IInv
<1>4. QED BY <1>1, <1>2, <1>3, Invariance, PTL DEF Spec, Exactly
=============================================================================
