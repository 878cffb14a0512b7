----------------------------- MODULE Ltn12_proofs -----------------------------
(***************************************************************************)
(* That the chains never call a filter or a sink out of turn and lose,     *)
(* double or reorder nothing, for chains and sources of every length:      *)
(* theorems about Ltn12.                                                   *)
(***************************************************************************)
EXTENDS Ltn12, Integers, SequenceTheorems, WellFoundedInduction, TLAPS

-----------------------------------------------------------------------------
\* Induction without an operator as a parameter: the property to prove is given as the
\* set of the numbers that have it.

\* A set with 0, and with the successor of each of its members, has every natural number.
LEMMA Inductive ==
    ASSUME NEW T, 0 \in T, \A n \in Nat : n \in T => n + 1 \in T
    PROVE  Nat \subseteq T
<1> DEFINE LessThan == {pair \in Nat \X Nat : pair[1] < pair[2]}
<1>1. IsWellFoundedOn(LessThan, Nat)
  BY NatLessThanWellFounded DEF OpToRel
<1>2. SUFFICES ASSUME Nat \ T # {} PROVE FALSE
  OBVIOUS
<1>3. PICK n \in Nat \ T : \A m \in Nat \ T : <<m, n>> \notin LessThan
  BY <1>1, <1>2, WFMin
<1>4. n - 1 \in Nat /\ (n - 1) + 1 = n
  BY <1>3
<1>5. <<n - 1, n>> \in LessThan
  BY <1>4
<1>6. n - 1 \in T
  BY <1>3, <1>4, <1>5
<1>7. QED BY <1>3, <1>4, <1>6

-----------------------------------------------------------------------------
\* Data, chunks and bytes.


Bytes == Nat \ {0}

\* Data is neither of the two other things a filter is called with.
LEMMA Kinds ==
    /\ nil # empty /\ nil \in Seq(Nat) /\ empty \in Seq(Nat) /\ empty \in Seq(Bytes)
    /\ nil \notin Seq(Bytes) /\ empty = <<>> /\ Len(empty) = 0
<1>1. nil \notin Seq(Bytes)
  <2>1. nil[1] = 0 /\ 1 \in 1..Len(nil)
    BY DEF nil
  <2>2. QED BY <2>1, ElementOfSeq DEF Bytes
<1>2. QED BY <1>1 DEF nil, empty, Bytes

\* Data, or the "" that stands for none.
LEMMA DataOrNot ==
    ASSUME NEW s \in Seq(Bytes)
    PROVE  s # nil /\ s \in Seq(Nat) /\ Len(s) \in Nat /\ (s = empty <=> Len(s) = 0)
           /\ (IsData(s) <=> s # empty)
<1>1. s # nil
  BY Kinds
<1>2. s \in Seq(Nat)
  BY SeqMonotonic DEF Bytes
<1>3. Len(s) \in Nat /\ (s = empty <=> Len(s) = 0)
  BY EmptySeq DEF empty
<1>4. QED BY <1>1, <1>2, <1>3 DEF IsData

-----------------------------------------------------------------------------
\* Bytes in a row: those after the first a, up to the first b.

Span(a, b) == [k \in 1..(b - a) |-> a + k]

\* s is the n bytes after the first a.
Row(s, a, n) == s \in Seq(Bytes) /\ Len(s) = n /\ \A k \in 1..n : s[k] = a + k

LEMMA SpanRow ==
    ASSUME NEW a \in Nat, NEW b \in Nat, NEW n \in Nat, b = a + n
    PROVE  Row(Span(a, b), a, n)
<1> DEFINE f(k) == a + k
<1>1. n = b - a
  OBVIOUS
<1>2. \A k \in 1..n : f(k) \in Bytes
  BY DEF Bytes
<1>3. Span(a, b) = [k \in 1..n |-> f(k)]
  BY <1>1 DEF Span
<1> HIDE DEF f
<1>4. Span(a, b) \in Seq(Bytes) /\ Len(Span(a, b)) = n /\ \A k \in 1..n : Span(a, b)[k] = f(k)
  BY <1>2, <1>3
<1>5. QED BY <1>4 DEF f, Row

\* Two rows of the same length at the same place are the same.
LEMMA SameRow ==
    ASSUME NEW a \in Nat, NEW n \in Nat, NEW s, NEW t, Row(s, a, n), Row(t, a, n)
    PROVE  s = t
<1>1. s \in Seq(Bytes) /\ t \in Seq(Bytes) /\ Len(s) = Len(t)
  BY DEF Row
<1>2. \A k \in 1..Len(s) : s[k] = t[k]
  BY DEF Row
<1>3. QED BY ONLY <1>1, <1>2, SeqEqual

LEMMA RowSpan ==
    ASSUME NEW a \in Nat, NEW n \in Nat, NEW s, Row(s, a, n)
    PROVE  s = Span(a, a + n)
BY SpanRow, SameRow

LEMMA RowJoin ==
    ASSUME NEW a \in Nat, NEW m \in Nat, NEW n \in Nat, NEW x, NEW y,
           Row(x, a, m), Row(y, a + m, n)
    PROVE  Row(x \o y, a, m + n)
<1>1. x \in Seq(Bytes) /\ y \in Seq(Bytes)
  BY DEF Row
<1>2. PICK z : z = x \o y
  OBVIOUS
<1>3. /\ z \in Seq(Bytes) /\ Len(z) = Len(x) + Len(y)
      /\ \A i \in 1..Len(x) + Len(y) : z[i] = IF i <= Len(x) THEN x[i] ELSE y[i - Len(x)]
  BY ONLY <1>1, <1>2, ConcatProperties
<1>4. /\ Len(z) = m + n
      /\ \A i \in 1..(m + n) : z[i] = IF i <= m THEN x[i] ELSE y[i - m]
  BY <1>3 DEF Row
<1>5. ASSUME NEW i \in 1..(m + n) PROVE z[i] = a + i
  <2>1. CASE i <= m
    BY <1>4, <2>1 DEF Row
  <2>2. CASE ~(i <= m)
    <3>1. i - m \in 1..n /\ (a + m) + (i - m) = a + i
      BY <2>2
    <3>2. z[i] = y[i - m]
      BY <1>4, <2>2
    <3>3. y[i - m] = (a + m) + (i - m)
      BY <3>1 DEF Row
    <3>4. QED BY <3>1, <3>2, <3>3
  <2>3. QED BY <2>1, <2>2
<1>6. Row(z, a, m + n)
  BY <1>3, <1>4, <1>5 DEF Row
<1>7. QED BY <1>2, <1>6

\* The first n of a row, and the others.
LEMMA RowCut ==
    ASSUME NEW a \in Nat, NEW m \in Nat, NEW n \in 0..m, NEW x, Row(x, a, m)
    PROVE  Row(SubSeq(x, 1, n), a, n) /\ Row(SubSeq(x, n + 1, m), a + n, m - n)
<1>1. /\ \A i \in 1..n : x[i] \in Bytes
      /\ \A i \in (n + 1)..m : x[i] \in Bytes
  BY ElementOfSeq DEF Row
<1>2. Row(SubSeq(x, 1, n), a, n)
  <2>1. PICK y : y = SubSeq(x, 1, n)
    OBVIOUS
  <2>2. /\ y \in Seq(Bytes) /\ Len(y) = IF 1 <= n THEN n - 1 + 1 ELSE 0
        /\ \A i \in 1..n - 1 + 1 : y[i] = x[1 + i - 1]
    BY <1>1, <2>1, SubSeqProperties
  <2>3. Len(y) = n /\ \A i \in 1..n : y[i] = x[i]
    BY <2>2
  <2>4. \A i \in 1..n : y[i] = a + i
    BY <2>3 DEF Row
  <2>5. QED BY <2>1, <2>2, <2>3, <2>4 DEF Row
<1>3. Row(SubSeq(x, n + 1, m), a + n, m - n)
  <2>1. PICK y : y = SubSeq(x, n + 1, m)
    OBVIOUS
  <2>2. PICK k \in Int : k = n + 1
    OBVIOUS
  <2>3. /\ y \in Seq(Bytes) /\ Len(y) = IF k <= m THEN m - k + 1 ELSE 0
        /\ \A i \in 1..m - k + 1 : y[i] = x[k + i - 1]
    BY <1>1, <2>1, <2>2, SubSeqProperties
  <2>4. PICK d \in Nat : d = m - n
    OBVIOUS
  <2>5. Len(y) = d
    BY <2>2, <2>3, <2>4
  <2>6. ASSUME NEW i \in 1..d PROVE y[i] = (a + n) + i
    <3>1. i \in 1..m - k + 1 /\ k + i - 1 = n + i /\ n + i \in 1..m
      BY <2>2, <2>4
    <3>2. y[i] = x[n + i]
      BY <2>3, <3>1
    <3>3. x[n + i] = a + (n + i)
      BY <3>1 DEF Row
    <3>4. QED BY <3>2, <3>3
  <2>7. Row(y, a + n, d)
    BY <2>3, <2>5, <2>6 DEF Row
  <2>8. QED BY <2>1, <2>4, <2>7
<1>4. QED BY <1>2, <1>3


-----------------------------------------------------------------------------
\* A chain of n filters fs, with the upvalues u of its filter.chain.

Filter == [held : Seq(Bytes), last_in : Seq(Nat), last_out : Seq(Nat)]
Upvalues == [top : Nat, index : Nat, retry : Seq(Nat)]

\* The filters before the top have given all they had, the top and those up to the
\* index have output to give, those after the index have none.
Shape(fs, u, n) ==
    /\ u.top \in 1..n /\ u.index \in u.top..n
    /\ u.retry \in {empty, nil} /\ (u.retry = empty => u.top = 1)
    /\ \A i \in 1..n :
        /\ i < u.top => fs[i].last_out = nil
        /\ i > u.top => fs[i].last_in # nil
        /\ i > u.index => fs[i].last_out = empty
        /\ i >= u.top /\ i < u.index => IsData(fs[i].last_out)
        /\ fs[i].last_out = nil => fs[i].held = empty
    /\ IsData(fs[u.top].last_out) => (fs[u.top].last_in = nil <=> u.retry = nil)

\* In the chain with the chunk x, the filter at the index may be called.
Callable(fs, u, x) ==
    LET f == fs[u.index] IN
    IF u.index = u.top
    THEN \/ /\ x = nil /\ u.retry = nil
            /\ \/ f.last_in # nil /\ f.last_out = empty
               \/ f.last_in = nil /\ IsData(f.last_out)
         \/ IsData(x) /\ u.retry = empty /\ f.last_in # nil /\ f.last_out = empty
         \/ x = empty /\ u.retry = empty /\ f.last_in # nil /\ IsData(f.last_out)
    ELSE \/ IsData(x) /\ f.last_out = empty
         \/ ~IsData(x) /\ IsData(f.last_out)

\* Out of it, the chain has no output left, has more of it, or has given all.
Drained(fs, u) ==
    u.retry = empty /\ u.index = u.top /\ fs[u.index].last_in # nil /\ fs[u.index].last_out = empty
HasMore(fs, u, n) == u.index = n /\ IsData(fs[n].last_out)
Finished(fs, u, n) == u.retry = nil /\ u.top = n /\ fs[u.index].last_out = nil

Left(fs, u, n, x) ==
    /\ x = empty => Drained(fs, u)
    /\ IsData(x) => HasMore(fs, u, n)
    /\ x = nil => Finished(fs, u, n)

\* What the filter at the index is called with.
Argument(u, x) == IF u.index # u.top /\ x = nil THEN empty ELSE x

\* What a filter may return, and what becomes of it.
LEMMA ResultsAre ==
    ASSUME NEW f \in Filter, NEW arg, arg = nil \/ arg \in Seq(Bytes), NEW out \in Results(f, arg)
    PROVE  /\ out = nil => arg = nil /\ f.held = empty
           /\ arg = nil => out # empty
           /\ Pending(f, arg) \in Seq(Bytes)
           /\ out # nil => \E k \in 0..Len(Pending(f, arg)) :
                    out = SubSeq(Pending(f, arg), 1, k) /\ out \in Seq(Bytes) /\ Len(out) = k
<1>1. f.held \in Seq(Bytes)
  BY DEF Filter
<1>2. Pending(f, arg) \in Seq(Bytes)
  <2>1. CASE IsData(arg)
    <3>1. arg \in Seq(Bytes)
      BY <2>1 DEF IsData
    <3>2. f.held \o arg \in Seq(Bytes)
      BY <1>1, <3>1, ConcatProperties
    <3>3. QED BY <2>1, <3>2 DEF Pending
  <2>2. CASE ~IsData(arg)
    BY <1>1, <2>2 DEF Pending
  <2>3. QED BY <2>1, <2>2
<1>3. PICK s \in Seq(Bytes) : s = Pending(f, arg)
  BY <1>2
<1>4. Len(s) \in Nat
  BY <1>3, LenProperties
<1>5. ASSUME NEW k \in 0..Len(s) PROVE SubSeq(s, 1, k) \in Seq(Bytes) /\ Len(SubSeq(s, 1, k)) = k
  <2>1. \A i \in 1..k : s[i] \in Bytes
    BY <1>4, ElementOfSeq
  <2>2. /\ SubSeq(s, 1, k) \in Seq(Bytes)
        /\ Len(SubSeq(s, 1, k)) = IF 1 <= k THEN k - 1 + 1 ELSE 0
    BY <1>4, <2>1, SubSeqProperties
  <2>3. QED BY <1>4, <2>2
<1>6. out = nil \/ \E k \in 0..Len(s) : out = SubSeq(s, 1, k)
  BY <1>3 DEF Results
<1>7. ASSUME NEW k \in 0..Len(s) PROVE SubSeq(s, 1, k) # nil
  BY <1>5, Kinds
<1>8. out = nil => arg = nil /\ f.held = empty
  <2>1. ASSUME ~(arg = nil /\ f.held = empty) PROVE \E k \in 0..Len(s) : out = SubSeq(s, 1, k)
    BY <1>3, <2>1 DEF Results
  <2>2. QED BY <1>7, <2>1
<1>9. arg = nil => out # empty
  BY Kinds DEF Results
<1>10. out # nil => \E k \in 0..Len(s) :
                    out = SubSeq(s, 1, k) /\ out \in Seq(Bytes) /\ Len(out) = k
  BY <1>5, <1>6
<1>11. QED BY <1>2, <1>3, <1>8, <1>9, <1>10

\* A filter stays one.
LEMMA CalledIs ==
    ASSUME NEW f \in Filter, NEW arg, arg = nil \/ arg \in Seq(Bytes), NEW out \in Results(f, arg)
    PROVE  /\ Called(f, arg, out) \in Filter
           /\ Called(f, arg, out).last_in = arg /\ Called(f, arg, out).last_out = out
           /\ out = nil => Called(f, arg, out).held = empty
           /\ out = nil \/ out \in Seq(Bytes)
<1>1. PICK s \in Seq(Bytes) : s = Pending(f, arg)
  BY ResultsAre
<1>2. Len(s) \in Nat
  BY <1>1, LenProperties
<1>3. out = nil \/ (out \in Seq(Bytes) /\ Len(out) \in 0..Len(s))
  BY <1>1, ResultsAre
<1>4. arg \in Seq(Nat) /\ out \in Seq(Nat)
  BY <1>3, Kinds, DataOrNot
<1>5. PICK h : h = IF out = nil THEN empty ELSE SubSeq(s, Len(out) + 1, Len(s))
  OBVIOUS
<1>6. h \in Seq(Bytes)
  <2>1. CASE out = nil
    BY <1>5, <2>1, Kinds
  <2>2. CASE out # nil
    <3>1. PICK k \in Int : k = Len(out) + 1 /\ k >= 1
      BY <1>2, <1>3, <2>2
    <3>2. \A i \in k..Len(s) : s[i] \in Bytes
      BY <1>2, <3>1, ElementOfSeq
    <3>3. SubSeq(s, k, Len(s)) \in Seq(Bytes)
      BY <1>2, <3>2, SubSeqProperties
    <3>4. QED BY <1>5, <2>2, <3>1, <3>3
  <2>3. QED BY <2>1, <2>2
<1>7. Called(f, arg, out) = [held |-> h, last_in |-> arg, last_out |-> out]
  BY <1>1, <1>5 DEF Called
<1>8. QED BY <1>3, <1>4, <1>5, <1>6, <1>7 DEF Filter

\* The filter that the chain calls was not to be called otherwise.
LEMMA NotMisused ==
    ASSUME NEW n \in Nat, NEW fs, NEW u \in Upvalues, NEW x, Shape(fs, u, n), Callable(fs, u, x)
    PROVE  ~Misused(fs[u.index], Argument(u, x))
<1> DEFINE f == fs[u.index]
           i == u.index
<1>1. i \in 1..n /\ u.top \in 1..n /\ i >= u.top /\ nil # empty
  BY Kinds DEF Shape
<1>2. CASE i = u.top
  BY <1>1, <1>2 DEF Callable, Misused, Argument, IsData
<1>3. CASE i # u.top
  <2>1. f.last_in # nil
    <3>1. i > u.top
      BY <1>1, <1>3 DEF Upvalues
    <3>2. QED BY <1>1, <3>1 DEF Shape
  <2>2. QED BY <1>1, <1>3, <2>1 DEF Callable, Misused, Argument, IsData
<1>4. QED BY <1>2, <1>3

\* A filter was called with what the chain holds and returned out: fs are the filters
\* now, and the rest of the chain is as it was.
Called_at(fs, u, x, n, old, out) ==
    /\ old \in [1..n -> Filter] /\ u \in Upvalues /\ (x = nil \/ x \in Seq(Bytes))
    /\ Shape(old, u, n) /\ Callable(old, u, x)
    /\ out \in Results(old[u.index], Argument(u, x))
    /\ fs = [old EXCEPT ![u.index] = Called(old[u.index], Argument(u, x), out)]

\* What it says of the filter at the index and of the others.
LEMMA CalledAt ==
    ASSUME NEW n \in Nat, NEW fs, NEW u, NEW x, NEW old, NEW out,
           Called_at(fs, u, x, n, old, out)
    PROVE  /\ fs \in [1..n -> Filter] /\ u.index \in 1..n /\ u.top \in 1..n /\ u.index >= u.top
           /\ fs[u.index].last_in = Argument(u, x) /\ fs[u.index].last_out = out
           /\ out = nil => fs[u.index].held = empty
           /\ \A i \in 1..n : i # u.index => fs[i] = old[i]
           /\ out = nil => x = nil /\ u.index = u.top
           /\ out = empty => u.index # u.top \/ x # nil
           /\ out = nil \/ out \in Seq(Bytes)
<1> DEFINE arg == Argument(u, x)
           f   == old[u.index]
<1>1. u.index \in 1..n /\ u.top \in 1..n /\ u.index >= u.top
  BY DEF Called_at, Shape
<1>2. f \in Filter /\ (arg = nil \/ arg \in Seq(Bytes)) /\ out \in Results(f, arg)
  BY <1>1, Kinds DEF Called_at, Argument
<1>3. /\ Called(f, arg, out) \in Filter
      /\ Called(f, arg, out).last_in = arg /\ Called(f, arg, out).last_out = out
      /\ out = nil => Called(f, arg, out).held = empty
      /\ out = nil \/ out \in Seq(Bytes)
  <2> HIDE DEF f, arg
  <2>1. QED BY <1>2, CalledIs
<1>4. (out = nil => arg = nil) /\ (arg = nil => out # empty)
  <2> HIDE DEF f, arg
  <2>1. QED BY <1>2, ResultsAre
<1>5. arg = nil <=> x = nil /\ u.index = u.top
  BY Kinds DEF Argument
<1>6. fs = [old EXCEPT ![u.index] = Called(f, arg, out)] /\ old \in [1..n -> Filter]
  BY DEF Called_at
<1> HIDE DEF f
<1>7. fs \in [1..n -> Filter] /\ fs[u.index] = Called(f, arg, out)
      /\ \A i \in 1..n : i # u.index => fs[i] = old[i]
  BY <1>1, <1>3, <1>6
<1>8. QED BY <1>1, <1>3, <1>4, <1>5, <1>7

\* The chain returns what the filter returned.
LEMMA Leaves ==
    ASSUME NEW n \in Nat, NEW fs, NEW u, NEW x, NEW old, NEW out,
           Called_at(fs, u, x, n, old, out),
           \/ u.index = u.top /\ (out = empty \/ (out = nil /\ u.top = n))
           \/ u.index = n /\ IsData(out)
    PROVE  Shape(fs, u, n) /\ Left(fs, u, n, out)
<1>0. /\ Shape(old, u, n) /\ Callable(old, u, x) /\ u \in Upvalues
  BY DEF Called_at
<1>1. /\ fs \in [1..n -> Filter] /\ u.index \in 1..n /\ u.top \in 1..n /\ u.index >= u.top
      /\ fs[u.index].last_in = Argument(u, x) /\ fs[u.index].last_out = out
      /\ out = nil => fs[u.index].held = empty
      /\ \A i \in 1..n : i # u.index => fs[i] = old[i]
      /\ out = nil => x = nil /\ u.index = u.top
      /\ out = empty => u.index # u.top \/ x # nil
  BY CalledAt
<1>2. (Argument(u, x) = nil <=> x = nil /\ u.index = u.top) /\ nil # empty
  BY Kinds DEF Argument
<1>3. /\ u.index = u.top => (x = nil <=> u.retry = nil)
      /\ u.index = u.top => u.retry \in {nil, empty}
  BY <1>0, <1>2 DEF Callable, IsData, Shape
<1>4. Shape(fs, u, n)
  <2>1. ASSUME NEW i \in 1..n
        PROVE  /\ i < u.top => fs[i].last_out = nil
               /\ i > u.top => fs[i].last_in # nil
               /\ i > u.index => fs[i].last_out = empty
               /\ i >= u.top /\ i < u.index => IsData(fs[i].last_out)
               /\ fs[i].last_out = nil => fs[i].held = empty
    <3>1. CASE i = u.index
      BY <1>1, <1>2, <3>1
    <3>2. CASE i # u.index
      <4>1. fs[i] = old[i]
        BY <1>1, <3>2
      <4>2. QED BY <1>0, <4>1 DEF Shape
    <3>3. QED BY <3>1, <3>2
  <2>2. IsData(fs[u.top].last_out) => (fs[u.top].last_in = nil <=> u.retry = nil)
    <3>1. CASE u.top = u.index
      BY <1>1, <1>2, <1>3, <3>1
    <3>2. CASE u.top # u.index
      <4>1. fs[u.top] = old[u.top]
        BY <1>1, <3>2
      <4>2. QED BY <1>0, <4>1 DEF Shape
    <3>3. QED BY <3>1, <3>2
  <2>3. QED BY <1>0, <2>1, <2>2 DEF Shape
<1>5. Left(fs, u, n, out)
  BY <1>1, <1>2, <1>3 DEF Left, Drained, HasMore, Finished, IsData
<1>6. QED BY <1>4, <1>5

\* The chain turns to the filter at the index j, with y.
Turns(fs, u, n, t, j, y) ==
    Shape(fs, [u EXCEPT !.top = t, !.index = j], n) /\ Callable(fs, [u EXCEPT !.top = t, !.index = j], y)

\* To the next one, with data.
LEMMA TurnsNext ==
    ASSUME NEW n \in Nat, NEW fs, NEW u, NEW x, NEW old, NEW out,
           Called_at(fs, u, x, n, old, out), u.index # n, IsData(out)
    PROVE  Turns(fs, u, n, u.top, u.index + 1, out)
<1>0. /\ Shape(old, u, n) /\ Callable(old, u, x) /\ u \in Upvalues
  BY DEF Called_at
<1>1. /\ fs \in [1..n -> Filter] /\ u.index \in 1..n /\ u.top \in 1..n /\ u.index >= u.top
      /\ fs[u.index].last_in = Argument(u, x) /\ fs[u.index].last_out = out
      /\ \A i \in 1..n : i # u.index => fs[i] = old[i]
  BY CalledAt
<1>2. (Argument(u, x) = nil <=> x = nil /\ u.index = u.top) /\ nil # empty
  BY Kinds DEF Argument
<1>3. u.index = u.top => (x = nil <=> u.retry = nil)
  BY <1>0, <1>2 DEF Callable, IsData, Shape
<1>4. PICK v : v = [u EXCEPT !.top = u.top, !.index = u.index + 1]
  OBVIOUS
<1>5. v.top = u.top /\ v.index = u.index + 1 /\ v.retry = u.retry
  BY <1>0, <1>4 DEF Upvalues
<1>6. Shape(fs, v, n)
  <2>1. ASSUME NEW i \in 1..n
        PROVE  /\ i < v.top => fs[i].last_out = nil
               /\ i > v.top => fs[i].last_in # nil
               /\ i > v.index => fs[i].last_out = empty
               /\ i >= v.top /\ i < v.index => IsData(fs[i].last_out)
               /\ fs[i].last_out = nil => fs[i].held = empty
    <3>1. CASE i = u.index
      BY <1>1, <1>2, <1>5, <3>1 DEF IsData
    <3>2. CASE i # u.index
      <4>1. fs[i] = old[i]
        BY <1>1, <3>2
      <4>2. (i > v.index => i > u.index) /\ (i < v.index => i < u.index)
        BY <1>1, <1>5, <3>2
      <4>3. QED BY <1>0, <1>5, <4>1, <4>2 DEF Shape
    <3>3. QED BY <3>1, <3>2
  <2>2. IsData(fs[v.top].last_out) => (fs[v.top].last_in = nil <=> v.retry = nil)
    <3>1. CASE u.top = u.index
      BY <1>1, <1>2, <1>3, <1>5, <3>1
    <3>2. CASE u.top # u.index
      <4>1. fs[u.top] = old[u.top]
        BY <1>1, <3>2
      <4>2. QED BY <1>0, <1>5, <4>1 DEF Shape
    <3>3. QED BY <3>1, <3>2
  <2>3. v.top \in 1..n /\ v.index \in v.top..n
    BY <1>1, <1>5
  <2>4. v.retry \in {empty, nil} /\ (v.retry = empty => v.top = 1)
    BY <1>0, <1>5 DEF Shape
  <2>5. QED BY <2>1, <2>2, <2>3, <2>4 DEF Shape
<1>7. Callable(fs, v, out)
  <2>1. v.index # v.top /\ v.index \in 1..n /\ v.index > u.index /\ v.index # u.index
    BY <1>1, <1>5
  <2>2. fs[v.index].last_out = empty
    BY <1>0, <1>1, <2>1 DEF Shape
  <2>3. QED BY <2>1, <2>2 DEF Callable
<1>8. QED BY <1>4, <1>6, <1>7 DEF Turns

\* The top has given all: to the next one, with the end.
LEMMA TurnsTop ==
    ASSUME NEW n \in Nat, NEW fs, NEW u, NEW x, NEW old, NEW out,
           Called_at(fs, u, x, n, old, out), u.index = u.top, u.top # n, out = nil
    PROVE  Turns(fs, u, n, u.top + 1, u.top + 1, nil)
<1>0. /\ Shape(old, u, n) /\ Callable(old, u, x) /\ u \in Upvalues
  BY DEF Called_at
<1>1. /\ fs \in [1..n -> Filter] /\ u.index \in 1..n /\ u.top \in 1..n
      /\ fs[u.index].last_out = nil /\ fs[u.index].held = empty /\ x = nil
      /\ \A i \in 1..n : i # u.index => fs[i] = old[i]
  BY CalledAt
<1>2. nil # empty
  BY Kinds
<1>3. u.retry = nil
  BY <1>0, <1>1, <1>2 DEF Callable, IsData
<1>4. PICK v : v = [u EXCEPT !.top = u.top + 1, !.index = u.top + 1]
  OBVIOUS
<1>5. v.top = u.top + 1 /\ v.index = u.top + 1 /\ v.retry = nil
  BY <1>0, <1>3, <1>4 DEF Upvalues
<1>6. v.top \in 1..n /\ v.index \in v.top..n /\ v.top # u.index /\ v.top > u.index
  BY <1>1, <1>5
<1>7. fs[v.top].last_in # nil /\ fs[v.top].last_out = empty
  BY <1>0, <1>1, <1>6 DEF Shape
<1>8. Shape(fs, v, n)
  <2>1. ASSUME NEW i \in 1..n
        PROVE  /\ i < v.top => fs[i].last_out = nil
               /\ i > v.top => fs[i].last_in # nil
               /\ i > v.index => fs[i].last_out = empty
               /\ i >= v.top /\ i < v.index => IsData(fs[i].last_out)
               /\ fs[i].last_out = nil => fs[i].held = empty
    <3>1. CASE i = u.index
      BY <1>1, <1>2, <1>5, <3>1
    <3>2. CASE i # u.index
      <4>1. fs[i] = old[i]
        BY <1>1, <3>2
      <4>2. (i > v.top => i > u.index /\ i > u.top) /\ (i < v.top => i < u.top) /\ v.index = v.top
            /\ ~(i >= v.top /\ i < v.index)
        BY <1>1, <1>5, <3>2
      <4>3. QED BY <1>0, <4>1, <4>2 DEF Shape
    <3>3. QED BY <3>1, <3>2
  <2>2. ~IsData(fs[v.top].last_out)
    BY <1>7 DEF IsData
  <2>3. QED BY <1>2, <1>5, <1>6, <2>1, <2>2 DEF Shape
<1>9. Callable(fs, v, nil)
  BY <1>5, <1>7 DEF Callable
<1>10. QED BY <1>4, <1>8, <1>9 DEF Turns

\* Nothing came out: back to the filter before, which has more, with "" or the end.
LEMMA TurnsBack ==
    ASSUME NEW n \in Nat, NEW fs, NEW u, NEW x, NEW old, NEW out,
           Called_at(fs, u, x, n, old, out), u.index # u.top, out = empty
    PROVE  Turns(fs, u, n, u.top, u.index - 1, u.retry)
<1>0. /\ Shape(old, u, n) /\ Callable(old, u, x) /\ u \in Upvalues
  BY DEF Called_at
<1>1. /\ fs \in [1..n -> Filter] /\ u.index \in 1..n /\ u.top \in 1..n /\ u.index >= u.top
      /\ fs[u.index].last_out = empty /\ fs[u.index].last_in = Argument(u, x)
      /\ \A i \in 1..n : i # u.index => fs[i] = old[i]
  BY CalledAt
<1>2. nil # empty /\ Argument(u, x) # nil
  BY Kinds DEF Argument
<1>4. PICK v : v = [u EXCEPT !.top = u.top, !.index = u.index - 1]
  OBVIOUS
<1>5. v.top = u.top /\ v.index = u.index - 1 /\ v.retry = u.retry
  BY <1>0, <1>4 DEF Upvalues
<1>6. v.top \in 1..n /\ v.index \in v.top..n /\ v.index # u.index /\ v.top # u.index
      /\ v.index < u.index /\ v.index \in 1..n
  BY <1>1, <1>5
<1>7. fs[v.top] = old[v.top] /\ fs[v.index] = old[v.index] /\ IsData(fs[v.index].last_out)
  <2>1. fs[v.top] = old[v.top] /\ fs[v.index] = old[v.index]
    BY <1>1, <1>6
  <2>2. v.index >= u.top
    BY <1>5, <1>6
  <2>3. QED BY <1>0, <1>6, <2>1, <2>2 DEF Shape
<1>8. Shape(fs, v, n)
  <2>1. ASSUME NEW i \in 1..n
        PROVE  /\ i < v.top => fs[i].last_out = nil
               /\ i > v.top => fs[i].last_in # nil
               /\ i > v.index => fs[i].last_out = empty
               /\ i >= v.top /\ i < v.index => IsData(fs[i].last_out)
               /\ fs[i].last_out = nil => fs[i].held = empty
    <3>1. CASE i = u.index
      BY <1>1, <1>2, <1>5, <1>6, <3>1
    <3>2. CASE i # u.index
      <4>1. fs[i] = old[i]
        BY <1>1, <3>2
      <4>2. (i > v.index => i > u.index) /\ (i < v.index => i < u.index)
        BY <1>1, <1>5, <3>2
      <4>3. QED BY <1>0, <1>5, <4>1, <4>2 DEF Shape
    <3>3. QED BY <3>1, <3>2
  <2>2. IsData(fs[v.top].last_out) => (fs[v.top].last_in = nil <=> v.retry = nil)
    BY <1>0, <1>5, <1>7 DEF Shape
  <2>3. v.retry \in {empty, nil} /\ (v.retry = empty => v.top = 1)
    BY <1>0, <1>5 DEF Shape
  <2>4. QED BY <1>6, <2>1, <2>2, <2>3 DEF Shape
<1>9. Callable(fs, v, u.retry)
  <2>1. u.retry \in {empty, nil} /\ ~IsData(u.retry)
    BY <1>0 DEF Shape, IsData
  <2>2. CASE v.index = v.top
    <3>1. fs[v.index].last_in = nil <=> u.retry = nil
      BY <1>0, <1>5, <1>7, <2>2 DEF Shape
    <3>2. QED BY <1>5, <1>7, <2>1, <2>2, <3>1 DEF Callable
  <2>3. CASE v.index # v.top
    BY <1>7, <2>1, <2>3 DEF Callable
  <2>4. QED BY <2>2, <2>3
<1>10. QED BY <1>4, <1>8, <1>9 DEF Turns

\* A chain that is entered: when it has nothing left with data or the end, when it has
\* more with "" or, after the end, with the end.
LEMMA Enters ==
    ASSUME NEW n \in Nat, NEW fs, NEW u \in Upvalues, NEW x, Shape(fs, u, n),
           \/ Drained(fs, u) /\ (IsData(x) \/ x = nil)
           \/ HasMore(fs, u, n) /\ x \in {empty, nil} /\ (x = nil <=> u.retry = nil),
           NEW r, r = IF x = nil THEN nil ELSE u.retry
    PROVE  /\ Shape(fs, [u EXCEPT !.retry = r], n) /\ Callable(fs, [u EXCEPT !.retry = r], x)
           /\ IsData(x) => u.index = 1
<1>1. PICK v : v = [u EXCEPT !.retry = r]
  OBVIOUS
<1>2. v.top = u.top /\ v.index = u.index /\ v.retry = r /\ nil # empty
  BY <1>1, Kinds DEF Upvalues
<1>3. u.top \in 1..n /\ u.index \in u.top..n /\ u.retry \in {empty, nil}
  BY DEF Shape
<1>4. Shape(fs, v, n)
  <2>1. IsData(fs[v.top].last_out) => (fs[v.top].last_in = nil <=> v.retry = nil)
    BY <1>2, <1>3 DEF Shape, Drained, IsData
  <2>2. v.retry \in {empty, nil} /\ (v.retry = empty => v.top = 1)
    BY <1>2 DEF Shape
  <2>3. QED BY <1>2, <2>1, <2>2 DEF Shape
<1>5. Callable(fs, v, x)
  <2>1. CASE Drained(fs, u) /\ (IsData(x) \/ x = nil)
    BY <1>2, <1>3, <2>1 DEF Callable, Drained, IsData
  <2>2. CASE HasMore(fs, u, n) /\ x \in {empty, nil} /\ (x = nil <=> u.retry = nil)
    <3>1. ~IsData(x) /\ IsData(fs[v.index].last_out) /\ v.retry = u.retry
      BY <1>2, <1>3, <2>2 DEF HasMore, IsData
    <3>2. v.index = v.top => (fs[v.index].last_in = nil <=> u.retry = nil)
      BY <1>2, <3>1 DEF Shape
    <3>3. QED BY <1>2, <1>3, <2>2, <3>1, <3>2 DEF Callable
  <2>3. QED BY <2>1, <2>2
<1>6. IsData(x) => u.index = 1
  BY <1>2, <1>3 DEF Shape, Drained, IsData
<1>7. QED BY <1>1, <1>4, <1>5, <1>6

-----------------------------------------------------------------------------
\* The pump with its two chains.

Shaped(c)   == Shape(filters[c], chains[c], Length(c))
MayCall(c)  == Callable(filters[c], chains[c], chunk)
Empty(c)    == Drained(filters[c], chains[c])
More(c)     == HasMore(filters[c], chains[c], Length(c))
Closed(c)   == Finished(filters[c], chains[c], Length(c))
Returned(c) == Left(filters[c], chains[c], Length(c), chunk)

Typed ==
    /\ given \in 0..Size /\ srcErr \in BOOLEAN /\ ended \in BOOLEAN
    /\ refused \in {"no", "error", "silent"} /\ result \in {"none", "ok", "error"}
    /\ DOMAIN filters = Chains /\ \A c \in Chains : filters[c] \in [1..Length(c) -> Filter]
    /\ chains \in [Chains -> Upvalues]
    /\ feeder \in [state : {"feeding", "eating"}, last_in : Seq(Nat), last_out : Seq(Nat)]
    /\ pc \in {"pull", "source", "sink", "filtered", "push", "drain", "done"}
    /\ (chunk = nil \/ chunk \in Seq(Bytes)) /\ done \in {nil, empty} /\ stored \in Seq(Bytes)

\* What the pump passes on: data from a source that has more, or the end.
GoesOn == ~srcErr /\ feeder.state = "eating" /\ More("source") /\ feeder.last_out # nil
Stops == feeder.last_in = nil /\ (srcErr \/ Closed("source"))
Passed(end) == IF end THEN Stops ELSE GoesOn

\* How far the two chains and the sink are, by the place the pump has reached.
Place ==
    /\ pc \in {"pull", "source", "filtered"} => ~srcErr /\ Empty("sink") /\ feeder.last_out # nil
    /\ pc = "pull" => IF feeder.state = "feeding" THEN Empty("source") ELSE More("source")
    /\ pc = "source" => MayCall("source")
    /\ pc = "filtered" => Returned("source")
    /\ pc = "push" => Empty("sink") /\ chunk # empty /\ Passed(chunk = nil)
    /\ pc \in {"sink", "drain"} =>
        (done = nil <=> chains["sink"].retry = nil) /\ Passed(done = nil)
    /\ pc = "sink" => MayCall("sink")
    /\ pc = "drain" => Returned("sink")
    /\ pc = "done" /\ refused = "no" =>
        ended /\ Closed("sink") /\ Stops /\ (srcErr <=> result = "error")

\* The end is told to the filters when the source has told it, and to the sink at last.
Told ==
    /\ result = "none" <=> pc # "done"
    /\ pc # "done" => ~ended /\ refused = "no"
    /\ feeder.last_in = nil <=> chains["source"].retry = nil \/ srcErr
    /\ feeder.last_in = nil => srcErr \/ given = Size
    /\ feeder.state = "eating" => feeder.last_in \in {empty, nil}

IInv == Typed /\ (\A c \in Chains : Shaped(c)) /\ Place /\ Told

-----------------------------------------------------------------------------
\* One call of a filter.

LEMMA LengthIs == \A c \in Chains : Length(c) \in Nat /\ Length(c) # 0
BY FiltersAssumption DEF Chains, Length

\* A chain that is called calls the filter at its index, does what is to be done with its
\* result, and raises no error.
LEMMA FilterCalled ==
    ASSUME NEW c \in Chains, IInv, pc = c, MayCall(c), filter_chain(c)
    PROVE  /\ DOMAIN filters' = Chains
           /\ \A d \in Chains : d # c => filters'[d] = filters[d]
           /\ UNCHANGED <<program, feeder, done>>
           /\ \E out :
                /\ Called_at(filters'[c], chains[c], chunk, Length(c), filters[c], out)
                /\ \/ /\ \/ chains[c].index = chains[c].top /\ out = empty
                         \/ chains[c].index = chains[c].top /\ out = nil /\ chains[c].top = Length(c)
                         \/ chains[c].index = Length(c) /\ IsData(out)
                      /\ Leave(c, out)
                   \/ /\ chains[c].index # Length(c) /\ IsData(out)
                      /\ GoTo(c, chains[c].top, chains[c].index + 1, out)
                   \/ /\ chains[c].index = chains[c].top /\ chains[c].top # Length(c) /\ out = nil
                      /\ GoTo(c, chains[c].top + 1, chains[c].top + 1, nil)
                   \/ /\ chains[c].index # chains[c].top /\ out = empty
                      /\ GoTo(c, chains[c].top, chains[c].index - 1, chains[c].retry)
<1> DEFINE n   == Length(c)
           u   == chains[c]
           old == filters[c]
           arg == IF u.index # u.top /\ chunk = nil THEN empty ELSE chunk
<1>0. /\ n \in Nat /\ old \in [1..n -> Filter] /\ u \in Upvalues
      /\ Shape(old, u, n) /\ Callable(old, u, chunk)
      /\ (chunk = nil \/ chunk \in Seq(Bytes)) /\ arg = Argument(u, chunk)
  BY LengthIs DEF IInv, Typed, Shaped, MayCall, Argument
<1>1. ~Misused(old[u.index], arg)
  <2> HIDE DEF n, u, old, arg
  <2>1. QED BY <1>0, NotMisused
<1>2. PICK out \in Results(old[u.index], arg) :
        /\ filters' = [filters EXCEPT ![c][u.index] = Called(old[u.index], arg, out)]
        /\ Answer(c, out)
  BY <1>1 DEF filter_chain
<1>3. UNCHANGED <<program, feeder, done>>
  BY DEF filter_chain
<1>4. PICK fs : fs = [old EXCEPT ![u.index] = Called(old[u.index], arg, out)]
  OBVIOUS
<1>5. filters'[c] = fs /\ DOMAIN filters' = Chains /\ \A d \in Chains : d # c => filters'[d] = filters[d]
  BY <1>2, <1>4 DEF IInv, Typed
<1>6. Called_at(fs, u, chunk, n, old, out)
  <2> HIDE DEF n, u, old, arg
  <2>1. QED BY <1>0, <1>2, <1>4 DEF Called_at
<1>7. out = nil => u.index = u.top
  <2> HIDE DEF n, u, old, arg
  <2>1. QED BY <1>0, <1>6, CalledAt
<1>8. \/ /\ \/ u.index = u.top /\ out = empty
            \/ u.index = u.top /\ out = nil /\ u.top = n
            \/ u.index = n /\ IsData(out)
         /\ Leave(c, out)
      \/ u.index # n /\ IsData(out) /\ GoTo(c, u.top, u.index + 1, out)
      \/ u.index = u.top /\ u.top # n /\ out = nil /\ GoTo(c, u.top + 1, u.top + 1, nil)
      \/ u.index # u.top /\ out = empty /\ GoTo(c, u.top, u.index - 1, u.retry)
  BY <1>2, <1>7, Kinds DEF Answer, IsData
<1>9. QED BY <1>3, <1>5, <1>6, <1>8

\* The chain goes on, or leaves with the result.
LEMMA ChainStep ==
    ASSUME NEW c \in Chains, IInv, pc = c, MayCall(c), filter_chain(c)
    PROVE  /\ DOMAIN filters' = Chains /\ \A d \in Chains : filters'[d] \in [1..Length(d) -> Filter]
           /\ chains' \in [Chains -> Upvalues] /\ chains'[c].retry = chains[c].retry
           /\ \A d \in Chains : d # c => filters'[d] = filters[d] /\ chains'[d] = chains[d]
           /\ chunk' = nil \/ chunk' \in Seq(Bytes)
           /\ result' = result /\ UNCHANGED <<program, feeder, done>>
           /\ Shaped(c)'
           /\ \/ pc' = c /\ MayCall(c)'
              \/ pc' = (IF c = "source" THEN "filtered" ELSE "drain") /\ Returned(c)'
<1> DEFINE n   == Length(c)
           u   == chains[c]
           old == filters[c]
<1>0. /\ n \in Nat /\ old \in [1..n -> Filter] /\ u \in Upvalues /\ Shape(old, u, n)
  BY LengthIs DEF IInv, Typed, Shaped
<1>1. PICK fs : fs = filters'[c]
  OBVIOUS
<1>2. PICK out :
        /\ Called_at(fs, u, chunk, n, old, out)
        /\ \/ /\ \/ u.index = u.top /\ out = empty
                 \/ u.index = u.top /\ out = nil /\ u.top = n
                 \/ u.index = n /\ IsData(out)
              /\ Leave(c, out)
           \/ u.index # n /\ IsData(out) /\ GoTo(c, u.top, u.index + 1, out)
           \/ u.index = u.top /\ u.top # n /\ out = nil /\ GoTo(c, u.top + 1, u.top + 1, nil)
           \/ u.index # u.top /\ out = empty /\ GoTo(c, u.top, u.index - 1, u.retry)
  BY <1>1, FilterCalled
<1>3. UNCHANGED <<program, feeder, done>>
  BY FilterCalled
<1>5. filters'[c] = fs /\ DOMAIN filters' = Chains /\ \A d \in Chains : d # c => filters'[d] = filters[d]
  BY <1>1, FilterCalled
<1>6. Called_at(fs, u, chunk, n, old, out)
  BY <1>2
<1>7. /\ fs \in [1..n -> Filter] /\ u.index \in 1..n /\ u.top \in 1..n
      /\ out = nil \/ out \in Seq(Bytes)
  <2> HIDE DEF n, u, old
  <2>1. QED BY <1>0, <1>6, CalledAt
<1>8. \A d \in Chains : filters'[d] \in [1..Length(d) -> Filter]
  <2>1. ASSUME NEW d \in Chains PROVE filters'[d] \in [1..Length(d) -> Filter]
    BY <1>5, <1>7 DEF IInv, Typed
  <2>2. QED BY <2>1
<1>9. chains \in [Chains -> Upvalues]
  BY DEF IInv, Typed
<1> DEFINE Leaving == \/ u.index = u.top /\ (out = empty \/ (out = nil /\ u.top = n))
                      \/ u.index = n /\ IsData(out)
<1>10. CASE Leaving /\ Leave(c, out)
  <2>1. chunk' = out /\ chains' = chains /\ result' = result
        /\ pc' = (IF c = "source" THEN "filtered" ELSE "drain")
    BY <1>10 DEF Leave
  <2>2. Shape(fs, u, n) /\ Left(fs, u, n, out)
    <3>1. Leaving
      BY <1>10
    <3> HIDE DEF n, u, old
    <3>2. QED BY <1>0, <1>6, <3>1, Leaves
  <2>3. Shaped(c)' /\ Returned(c)'
    BY <1>5, <2>1, <2>2 DEF Shaped, Returned, Length
  <2>4. QED BY <1>3, <1>5, <1>7, <1>8, <1>9, <2>1, <2>3
<1>11. ASSUME NEW t, NEW j, NEW y, t \in Nat, j \in Nat, y = nil \/ y \in Seq(Bytes),
              GoTo(c, t, j, y), Turns(fs, u, n, t, j, y)
       PROVE  /\ chains' \in [Chains -> Upvalues] /\ chains'[c].retry = chains[c].retry
              /\ \A d \in Chains : d # c => chains'[d] = chains[d]
              /\ chunk' = nil \/ chunk' \in Seq(Bytes)
              /\ result' = result /\ pc' = c /\ Shaped(c)' /\ MayCall(c)'
  <2>1. PICK v : v = [u EXCEPT !.top = t, !.index = j]
    OBVIOUS
  <2>2. chains' = [chains EXCEPT ![c].top = t, ![c].index = j] /\ chunk' = y
        /\ pc' = pc /\ result' = result
    BY <1>11 DEF GoTo
  <2>3. chains'[c] = v /\ \A d \in Chains : d # c => chains'[d] = chains[d]
    BY <1>9, <2>1, <2>2
  <2>4. v \in Upvalues /\ v.retry = u.retry
    BY <1>9, <1>11, <2>1 DEF Upvalues
  <2>5. chains' \in [Chains -> Upvalues]
    BY <1>9, <2>2, <2>3, <2>4
  <2>6. Shape(fs, v, n) /\ Callable(fs, v, y)
    BY <1>11, <2>1 DEF Turns
  <2>7. Shaped(c)' /\ MayCall(c)'
    BY <1>5, <2>2, <2>3, <2>6 DEF Shaped, MayCall, Length
  <2>8. QED BY <1>11, <2>2, <2>3, <2>4, <2>5, <2>7
<1>12. CASE u.index # n /\ IsData(out) /\ GoTo(c, u.top, u.index + 1, out)
  <2>1. Turns(fs, u, n, u.top, u.index + 1, out)
    <3> HIDE DEF n, u, old
    <3>1. QED BY <1>0, <1>6, <1>12, TurnsNext
  <2>2. u.top \in Nat /\ u.index + 1 \in Nat
    BY <1>7
  <2>3. QED BY <1>3, <1>5, <1>7, <1>8, <1>11, <1>12, <2>1, <2>2
<1>13. CASE u.index = u.top /\ u.top # n /\ out = nil /\ GoTo(c, u.top + 1, u.top + 1, nil)
  <2>1. Turns(fs, u, n, u.top + 1, u.top + 1, nil)
    <3> HIDE DEF n, u, old
    <3>1. QED BY <1>0, <1>6, <1>13, TurnsTop
  <2>2. u.top + 1 \in Nat
    BY <1>7
  <2>3. QED BY <1>3, <1>5, <1>8, <1>11, <1>13, <2>1, <2>2
<1>14. CASE u.index # u.top /\ out = empty /\ GoTo(c, u.top, u.index - 1, u.retry)
  <2>1. Turns(fs, u, n, u.top, u.index - 1, u.retry)
    <3> HIDE DEF n, u, old
    <3>1. QED BY <1>0, <1>6, <1>14, TurnsBack
  <2>2. PICK y : y = u.retry
    OBVIOUS
  <2>3. PICK j \in Nat : j = u.index - 1
    BY <1>7
  <2>4. u.top \in Nat /\ (y = nil \/ y \in Seq(Bytes))
    <3>1. u.retry \in {empty, nil}
      BY <1>0 DEF Shape
    <3>2. y = nil \/ y = empty
      BY <2>2, <3>1
    <3>3. y = nil \/ y \in Seq(Bytes)
      BY <3>2, Kinds
    <3>4. QED BY <1>7, <3>3
  <2>5. GoTo(c, u.top, j, y) /\ Turns(fs, u, n, u.top, j, y)
    BY <1>14, <2>1, <2>2, <2>3
  <2>6. QED BY <1>3, <1>5, <1>8, <1>11, <2>4, <2>5
<1>15. \/ Leaving /\ Leave(c, out)
       \/ u.index # n /\ IsData(out) /\ GoTo(c, u.top, u.index + 1, out)
       \/ u.index = u.top /\ u.top # n /\ out = nil /\ GoTo(c, u.top + 1, u.top + 1, nil)
       \/ u.index # u.top /\ out = empty /\ GoTo(c, u.top, u.index - 1, u.retry)
  BY <1>2
<1>16. QED BY <1>10, <1>12, <1>13, <1>14, <1>15

\* A chain is entered.
LEMMA EnterStep ==
    ASSUME NEW c \in Chains, Typed, Shaped(c), NEW x, x = nil \/ x \in Seq(Bytes), Enter(c, x),
           \/ Empty(c) /\ (IsData(x) \/ x = nil)
           \/ More(c) /\ x \in {empty, nil} /\ (x = nil <=> chains[c].retry = nil),
           UNCHANGED filters
    PROVE  /\ chains' \in [Chains -> Upvalues] /\ Shaped(c)' /\ MayCall(c)'
           /\ chains'[c].retry = nil <=> x = nil \/ chains[c].retry = nil
           /\ pc' = c /\ chunk' = x
           /\ \A d \in Chains : d # c => chains'[d] = chains[d]
<1> DEFINE u == chains[c]
<1>1. PICK r : r = IF x = nil THEN nil ELSE u.retry
  OBVIOUS
<1>2. PICK v : v = [u EXCEPT !.retry = r]
  OBVIOUS
<1>3. u \in Upvalues /\ chains \in [Chains -> Upvalues] /\ Length(c) \in Nat
  BY LengthIs DEF Typed
<1>4. r \in Seq(Nat) /\ v \in Upvalues /\ v.retry = r
  BY <1>1, <1>2, <1>3, Kinds DEF Upvalues
<1>5. chains' = [chains EXCEPT ![c].retry = r] /\ pc' = c /\ chunk' = x
  BY <1>1 DEF Enter
<1>6. chains'[c] = v /\ chains' \in [Chains -> Upvalues] /\ \A d \in Chains : d # c => chains'[d] = chains[d]
  BY <1>2, <1>3, <1>4, <1>5
<1>7. /\ Shape(filters[c], [u EXCEPT !.retry = r], Length(c))
      /\ Callable(filters[c], [u EXCEPT !.retry = r], x)
  <2>1. /\ Shape(filters[c], u, Length(c))
        /\ \/ Drained(filters[c], u) /\ (IsData(x) \/ x = nil)
           \/ HasMore(filters[c], u, Length(c)) /\ x \in {empty, nil} /\ (x = nil <=> u.retry = nil)
    BY DEF Shaped, Empty, More
  <2> HIDE DEF u
  <2>2. QED BY <1>1, <1>3, <2>1, Enters
<1>8. Shaped(c)' /\ MayCall(c)'
  BY <1>2, <1>5, <1>6, <1>7 DEF Shaped, MayCall, Length
<1>9. chains'[c].retry = nil <=> x = nil \/ chains[c].retry = nil
  BY <1>1, <1>4, <1>6
<1>10. QED BY <1>5, <1>6, <1>8, <1>9

-----------------------------------------------------------------------------
\* Every step of the pump keeps the invariant.

LEMMA Both == Chains = {"source", "sink"} /\ "source" \in Chains /\ "sink" \in Chains
BY DEF Chains

LEMMA InitIInv == Init => IInv
<1> SUFFICES ASSUME Init PROVE IInv
  OBVIOUS
<1>1. empty \in Seq(Nat) /\ empty \in Seq(Bytes) /\ nil # empty
  BY Kinds
<1>2. ASSUME NEW c \in Chains
      PROVE  /\ filters[c] \in [1..Length(c) -> Filter]
             /\ \A i \in 1..Length(c) : filters[c][i].last_out = empty /\ filters[c][i].last_in = empty
             /\ chains[c].top = 1 /\ chains[c].index = 1 /\ chains[c].retry = empty
             /\ chains[c] \in Upvalues
             /\ 1 \in 1..Length(c) /\ Length(c) \in Nat
  BY <1>1, LengthIs DEF Init, Filter, Upvalues
<1>3. ASSUME NEW c \in Chains PROVE Shaped(c)
  BY <1>1, <1>2 DEF Shaped, Shape, IsData
<1>4. ASSUME NEW c \in Chains PROVE Empty(c)
  BY <1>1, <1>2 DEF Empty, Drained
<1>5. Typed
  <2>1. DOMAIN filters = Chains /\ chains \in [Chains -> Upvalues]
    BY <1>1 DEF Init, Upvalues
  <2>2. feeder \in [state : {"feeding", "eating"}, last_in : Seq(Nat), last_out : Seq(Nat)]
    BY <1>1 DEF Init
  <2>3. given \in 0..Size
    BY SizeAssumption DEF Init
  <2>4. chunk = nil \/ chunk \in Seq(Bytes)
    BY <1>1 DEF Init
  <2>5. QED BY <1>1, <1>2, <2>1, <2>2, <2>3, <2>4 DEF Init, Typed
<1>6. Place /\ Told
  <2>1. chains["source"].retry = empty
    BY <1>2, Both
  <2>2. QED BY <1>1, <1>4, <2>1, Both DEF Init, Place, Told
<1>7. QED BY <1>3, <1>5, <1>6 DEF IInv

LEMMA FilterStep == IInv /\ (\E c \in Chains : filter_chain(c)) => IInv'
<1> SUFFICES ASSUME IInv, NEW c \in Chains, filter_chain(c) PROVE IInv'
  OBVIOUS
<1>1. pc = c /\ MayCall(c)
  BY Both DEF filter_chain, IInv, Place
<1>2. /\ DOMAIN filters' = Chains /\ \A d \in Chains : filters'[d] \in [1..Length(d) -> Filter]
      /\ chains' \in [Chains -> Upvalues] /\ chains'[c].retry = chains[c].retry
      /\ \A d \in Chains : d # c => filters'[d] = filters[d] /\ chains'[d] = chains[d]
      /\ chunk' = nil \/ chunk' \in Seq(Bytes)
      /\ result' = result /\ UNCHANGED <<program, feeder, done>>
      /\ Shaped(c)'
      /\ \/ pc' = c /\ MayCall(c)'
         \/ pc' = (IF c = "source" THEN "filtered" ELSE "drain") /\ Returned(c)'
  BY <1>1, ChainStep
<1>3. Typed'
  BY <1>2, Both DEF IInv, Typed, program, Length
<1>4. ASSUME NEW d \in Chains, d # c
      PROVE  /\ Shaped(d)' /\ (Empty(d) => Empty(d)') /\ (More(d) => More(d)')
             /\ (Closed(d) => Closed(d)')
  BY <1>2, <1>4 DEF IInv, Shaped, Empty, More, Closed, Length
<1>5. Told'
  BY <1>1, <1>2, Both DEF IInv, Told, program
<1>6. CASE c = "source"
  <2>1. ~srcErr' /\ Empty("sink")' /\ feeder'.last_out # nil
    BY <1>1, <1>2, <1>4, <1>6, Both DEF IInv, Place, program
  <2>2. (pc' = "source" /\ MayCall("source")') \/ (pc' = "filtered" /\ Returned("source")')
    BY <1>2, <1>6
  <2>3. Place'
    <3>1. CASE pc' = "source" /\ MayCall("source")'
      BY <2>1, <3>1 DEF Place
    <3>2. CASE pc' = "filtered" /\ Returned("source")'
      BY <2>1, <3>2 DEF Place
    <3>3. QED BY <2>2, <3>1, <3>2
  <2>4. QED BY <1>2, <1>3, <1>4, <1>5, <1>6, <2>3 DEF IInv
<1>7. CASE c = "sink"
  <2>1. Passed(done = nil) => Passed(done = nil)'
    BY <1>2, <1>4, <1>7, Both DEF Passed, GoesOn, Stops, program
  <2>2. (done' = nil <=> chains'["sink"].retry = nil) /\ Passed(done = nil)'
    BY <1>1, <1>2, <1>7, <2>1 DEF IInv, Place
  <2>3. (pc' = "sink" /\ MayCall("sink")') \/ (pc' = "drain" /\ Returned("sink")')
    BY <1>2, <1>7
  <2>4. Place'
    <3>1. CASE pc' = "sink" /\ MayCall("sink")'
      BY <2>2, <3>1 DEF Place
    <3>2. CASE pc' = "drain" /\ Returned("sink")'
      BY <2>2, <3>2 DEF Place
    <3>3. QED BY <2>3, <3>1, <3>2
  <2>5. QED BY <1>2, <1>3, <1>4, <1>5, <1>7, <2>4 DEF IInv
<1>8. QED BY <1>6, <1>7, Both

\* The source chain asks the source, or itself for more.
LEMMA PullStep == IInv /\ (SourceGives \/ SourceEnds \/ Eat) => IInv'
<1> SUFFICES ASSUME IInv, SourceGives \/ SourceEnds \/ Eat PROVE IInv'
  OBVIOUS
<1> DEFINE c == "source"
<1>1. nil # empty /\ empty \in Seq(Bytes) /\ nil \in Seq(Nat) /\ given \in Nat /\ Size \in Nat
  BY Kinds, SizeAssumption DEF IInv, Typed
<1>2. \E x : /\ x = nil \/ x \in Seq(Bytes)
             /\ Enter(c, x)
             /\ \/ Empty(c) /\ (IsData(x) \/ x = nil)
                \/ More(c) /\ x \in {empty, nil} /\ (x = nil <=> chains[c].retry = nil)
             /\ \/ feeder' = [feeder EXCEPT !.last_in = x] /\ feeder.state = "feeding"
                   /\ chains[c].retry = empty
                \/ feeder' = feeder /\ x = feeder.last_in
             /\ given' \in 0..Size /\ (x = nil /\ chains[c].retry = empty => given' = Size)
             /\ (given' = given \/ IsData(x))
             /\ pc = "pull"
  <2>1. CASE SourceGives
    <3>1. PICK n \in 1..(Size - given) :
            /\ given' = given + n
            /\ feeder' = [feeder EXCEPT !.last_in = [i \in 1..n |-> given + i]]
            /\ Enter(c, [i \in 1..n |-> given + i])
      BY <2>1 DEF SourceGives
    <3>2. PICK x : x = [i \in 1..n |-> given + i]
      OBVIOUS
    <3>3. x \in Seq(Bytes) /\ Len(x) = n
      BY <1>1, <3>2 DEF Bytes
    <3>4. IsData(x) /\ x # nil /\ n \in Nat /\ n # 0
      BY <1>1, <3>3, DataOrNot
    <3>5. given' \in 0..Size
      BY <1>1, <3>1
    <3>6. Empty(c) /\ feeder.state = "feeding" /\ pc = "pull" /\ chains[c].retry = empty
      BY <2>1 DEF SourceGives, Feeding, IInv, Place, Empty, Drained
    <3>7. QED BY <3>1, <3>2, <3>3, <3>4, <3>5, <3>6
  <2>2. CASE SourceEnds
    <3>1. Empty(c) /\ feeder.state = "feeding" /\ pc = "pull" /\ chains[c].retry = empty
      BY <2>2 DEF SourceEnds, Feeding, IInv, Place, Empty, Drained
    <3>2. given' = Size /\ given' = given /\ Enter(c, nil) /\ feeder' = [feeder EXCEPT !.last_in = nil]
      BY <2>2 DEF SourceEnds, program
    <3>3. QED BY <1>1, <3>1, <3>2
  <2>3. CASE Eat
    <3>1. PICK x : x = feeder.last_in
      OBVIOUS
    <3>2. More(c) /\ pc = "pull" /\ ~srcErr /\ feeder.state = "eating"
      BY <2>3 DEF Eat, IInv, Place
    <3>3. x \in {empty, nil} /\ (x = nil <=> chains[c].retry = nil)
      BY <3>1, <3>2 DEF IInv, Told
    <3>4. Enter(c, x) /\ feeder' = feeder /\ given' = given /\ given \in 0..Size
      BY <2>3, <3>1 DEF Eat, program, IInv, Typed
    <3>5. QED BY <1>1, <3>1, <3>2, <3>3, <3>4
  <2>4. QED BY <2>1, <2>2, <2>3
<1>3. PICK x : /\ x = nil \/ x \in Seq(Bytes)
               /\ Enter(c, x)
               /\ \/ Empty(c) /\ (IsData(x) \/ x = nil)
                  \/ More(c) /\ x \in {empty, nil} /\ (x = nil <=> chains[c].retry = nil)
               /\ \/ feeder' = [feeder EXCEPT !.last_in = x] /\ feeder.state = "feeding"
                     /\ chains[c].retry = empty
                  \/ feeder' = feeder /\ x = feeder.last_in
               /\ given' \in 0..Size /\ (x = nil /\ chains[c].retry = empty => given' = Size)
               /\ (given' = given \/ IsData(x))
               /\ pc = "pull"
  BY <1>2
<1>4. UNCHANGED <<srcErr, filters, done, stored, ended, refused, result>>
  BY DEF SourceGives, SourceEnds, Eat, program
<1>5. /\ chains' \in [Chains -> Upvalues] /\ Shaped(c)' /\ MayCall(c)'
      /\ chains'[c].retry = nil <=> x = nil \/ chains[c].retry = nil
      /\ pc' = c /\ chunk' = x
      /\ \A d \in Chains : d # c => chains'[d] = chains[d]
  BY <1>3, <1>4, EnterStep, Both DEF IInv
<1>6. feeder' \in [state : {"feeding", "eating"}, last_in : Seq(Nat), last_out : Seq(Nat)]
      /\ feeder'.last_out = feeder.last_out /\ feeder'.state = feeder.state /\ feeder'.last_in = x
  BY <1>1, <1>3, DataOrNot DEF IInv, Typed
<1>7. Typed'
  BY <1>3, <1>4, <1>5, <1>6 DEF IInv, Typed, Length
<1>8. Shaped("sink")' /\ (Empty("sink") => Empty("sink")')
  BY <1>4, <1>5, Both DEF IInv, Shaped, Empty, Length
<1>9. Place'
  <2>1. ~srcErr /\ Empty("sink") /\ feeder.last_out # nil
    BY <1>3 DEF IInv, Place
  <2>2. QED BY <1>4, <1>5, <1>6, <1>8, <2>1 DEF Place
<1>10. Told'
  <2>1. ~srcErr' /\ ~ended /\ refused = "no" /\ result = "none"
    BY <1>3, <1>4 DEF IInv, Told, Place
  <2>2. feeder'.last_in = nil <=> chains'[c].retry = nil
    BY <1>1, <1>3, <1>4, <1>5, <1>6 DEF IInv, Told, Place
  <2>3. feeder'.last_in = nil => given' = Size
    BY <1>1, <1>3, <1>4, <1>6, <2>1 DEF IInv, Told, IsData
  <2>4. feeder'.state = "eating" => feeder'.last_in \in {empty, nil}
    BY <1>3, <1>6 DEF IInv, Told
  <2>5. QED BY <1>4, <1>5, <2>1, <2>2, <2>3, <2>4 DEF Told
<1>11. QED BY <1>5, <1>7, <1>8, <1>9, <1>10, Both DEF IInv

\* A step that leaves the chains alone keeps what is said of them.
LEMMA ChainsKept ==
    ASSUME IInv, UNCHANGED <<filters, chains>>
    PROVE  \A c \in Chains :
             /\ Shaped(c)' /\ (Empty(c) => Empty(c)') /\ (More(c) => More(c)')
             /\ (Closed(c) => Closed(c)')
BY DEF IInv, Shaped, Empty, More, Closed, Length

\* The source fails, or the source chain hears of its filters.
LEMMA SourceStep == IInv /\ (SourceFails \/ FilteredData \/ FilteredNothing \/ FilteredEnd) => IInv'
<1> SUFFICES ASSUME IInv, SourceFails \/ FilteredData \/ FilteredNothing \/ FilteredEnd PROVE IInv'
  OBVIOUS
<1>1. nil # empty /\ empty \in Seq(Bytes) /\ nil \in Seq(Nat) /\ empty \in Seq(Nat)
  BY Kinds
<1>2. UNCHANGED <<filters, chains, given, done, stored, ended, refused>> /\ ~srcErr /\ Empty("sink")
      /\ pc \in {"pull", "filtered"} /\ feeder.last_out # nil /\ result = "none" /\ ~ended /\ refused = "no"
      /\ feeder \in [state : {"feeding", "eating"}, last_in : Seq(Nat), last_out : Seq(Nat)]
  BY DEF SourceFails, Feeding, FilteredData, FilteredNothing, FilteredEnd, program, IInv, Place, Told, Typed
<1>3. /\ \A c \in Chains : Shaped(c)'
      /\ Empty("sink")' /\ (More("source") => More("source")') /\ (Closed("source") => Closed("source")')
      /\ (Empty("source") => Empty("source")')
  BY <1>2, ChainsKept, Both
<1>4. /\ feeder.last_in = nil <=> chains["source"].retry = nil
      /\ feeder.last_in = nil => given = Size
      /\ feeder.state = "eating" => feeder.last_in \in {empty, nil}
      /\ pc = "filtered" => Returned("source")
  BY <1>2 DEF IInv, Told, Place
<1>5. CASE SourceFails
  <2>1. /\ srcErr' = TRUE /\ feeder' = [feeder EXCEPT !.last_in = nil] /\ pc' = "push" /\ chunk' = nil
        /\ result' = result
    BY <1>5 DEF SourceFails, Give
  <2>2. Typed'
    BY <1>1, <1>2, <2>1 DEF IInv, Typed, Length
  <2>3. feeder'.last_in = nil
    BY <1>2, <2>1
  <2>4. Place'
    BY <1>1, <1>3, <2>1, <2>3 DEF Place, Passed, Stops
  <2>5. Told'
    BY <1>1, <1>2, <2>1, <2>3 DEF Told
  <2>6. QED BY <1>3, <2>2, <2>4, <2>5 DEF IInv
<1>6. CASE FilteredData
  <2>1. /\ srcErr' = srcErr /\ pc' = "push" /\ chunk' = chunk /\ result' = result
        /\ feeder' = [state    |-> "eating",
                      last_in  |-> IF IsData(feeder.last_in) THEN empty ELSE feeder.last_in,
                      last_out |-> chunk]
        /\ IsData(chunk) /\ pc = "filtered"
    BY <1>6 DEF FilteredData, Give, program
  <2>2. chunk \in Seq(Bytes) /\ chunk \in Seq(Nat) /\ chunk # nil /\ chunk # empty
    BY <2>1, DataOrNot DEF IInv, Typed, IsData
  <2>3. feeder'.state = "eating" /\ feeder'.last_out = chunk /\ feeder'.last_in \in {empty, nil}
        /\ (feeder'.last_in = nil <=> feeder.last_in = nil)
    BY <1>1, <2>1 DEF IsData
  <2>4. feeder' \in [state : {"feeding", "eating"}, last_in : Seq(Nat), last_out : Seq(Nat)]
    BY <1>1, <1>2, <2>1, <2>2
  <2>5. Typed'
    BY <1>2, <2>1, <2>4 DEF IInv, Typed, Length
  <2>6. More("source")'
    BY <1>3, <1>4, <2>1, Both DEF Returned, Left, More
  <2>7. Place'
    BY <1>2, <1>3, <2>1, <2>2, <2>3, <2>6 DEF Place, Passed, GoesOn
  <2>8. Told'
    BY <1>1, <1>2, <1>4, <2>1, <2>3 DEF Told
  <2>9. QED BY <1>3, <2>5, <2>7, <2>8 DEF IInv
<1>7. CASE FilteredNothing
  <2>1. /\ srcErr' = srcErr /\ chunk' = chunk /\ chunk = empty /\ pc = "filtered"
        /\ feeder' = [feeder EXCEPT !.state = "feeding", !.last_out = empty]
    BY <1>7 DEF FilteredNothing, program
  <2>2. Empty("source") /\ chains["source"].retry = empty
    BY <1>4, <2>1, Both DEF Returned, Left, Empty, Drained
  <2>3. feeder.last_in # nil
    BY <1>1, <1>4, <2>2
  <2>4. ~(feeder.state = "eating" /\ feeder.last_in # empty)
    BY <1>4, <2>3
  <2>5. pc' = "pull" /\ result' = result
    BY <1>7, <2>4 DEF FilteredNothing
  <2>6. feeder' \in [state : {"feeding", "eating"}, last_in : Seq(Nat), last_out : Seq(Nat)]
        /\ feeder'.state = "feeding" /\ feeder'.last_out = empty /\ feeder'.last_in = feeder.last_in
    BY <1>1, <1>2, <2>1
  <2>7. Typed'
    BY <1>2, <2>1, <2>5, <2>6 DEF IInv, Typed, Length
  <2>8. Place'
    BY <1>1, <1>2, <1>3, <2>1, <2>2, <2>5, <2>6 DEF Place
  <2>9. Told'
    BY <1>2, <1>4, <2>1, <2>3, <2>5, <2>6 DEF Told
  <2>10. QED BY <1>3, <2>7, <2>8, <2>9 DEF IInv
<1>8. CASE FilteredEnd
  <2>1. /\ srcErr' = srcErr /\ chunk = nil /\ pc = "filtered"
        /\ feeder' = [feeder EXCEPT !.last_out = nil]
    BY <1>8 DEF FilteredEnd, program
  <2>2. Closed("source") /\ chains["source"].retry = nil
    BY <1>4, <2>1, Both DEF Returned, Left, Closed, Finished
  <2>3. feeder.last_in = nil
    BY <1>4, <2>2
  <2>4. pc' = "push" /\ chunk' = nil /\ result' = result
    BY <1>8, <2>3 DEF FilteredEnd, Give
  <2>5. feeder' \in [state : {"feeding", "eating"}, last_in : Seq(Nat), last_out : Seq(Nat)]
        /\ feeder'.state = feeder.state /\ feeder'.last_in = feeder.last_in
    BY <1>1, <1>2, <2>1
  <2>6. Typed'
    BY <1>2, <2>1, <2>4, <2>5 DEF IInv, Typed, Length
  <2>7. Place'
    BY <1>1, <1>3, <2>2, <2>3, <2>4, <2>5 DEF Place, Passed, Stops
  <2>8. Told'
    BY <1>2, <1>4, <2>1, <2>4, <2>5 DEF Told
  <2>9. QED BY <1>3, <2>6, <2>7, <2>8 DEF IInv
<1>9. QED BY <1>5, <1>6, <1>7, <1>8

LEMMA PushStep == IInv /\ Push => IInv'
<1> SUFFICES ASSUME IInv, Push PROVE IInv'
  OBVIOUS
<1>1. nil # empty
  BY Kinds
<1>2. /\ pc = "push" /\ chunk # empty /\ done' = (IF chunk = nil THEN nil ELSE empty)
      /\ Enter("sink", chunk) /\ UNCHANGED <<program, filters, feeder, result>>
  BY DEF Push
<1>3. Empty("sink") /\ Passed(chunk = nil) /\ (chunk = nil \/ chunk \in Seq(Bytes))
  BY <1>2 DEF IInv, Place, Typed
<1>4. /\ chains' \in [Chains -> Upvalues] /\ Shaped("sink")' /\ MayCall("sink")'
      /\ chains'["sink"].retry = nil <=> chunk = nil \/ chains["sink"].retry = nil
      /\ pc' = "sink" /\ chunk' = chunk
      /\ \A d \in Chains : d # "sink" => chains'[d] = chains[d]
  <2>1. Typed /\ Shaped("sink") /\ "sink" \in Chains
    BY Both DEF IInv
  <2>2. UNCHANGED filters /\ (IsData(chunk) \/ chunk = nil)
    BY <1>2 DEF IsData
  <2>3. QED BY <1>2, <1>3, <2>1, <2>2, EnterStep
<1>5. chains["sink"].retry = empty /\ chains'["source"] = chains["source"]
  BY <1>3, <1>4, Both DEF Empty, Drained
<1>6. Typed'
  BY <1>2, <1>4 DEF IInv, Typed, Length, program
<1>7. /\ Shaped("source")' /\ (More("source") => More("source")')
      /\ (Closed("source") => Closed("source")')
  BY <1>2, <1>5, Both DEF IInv, Shaped, More, Closed, Length
<1>8. (done' = nil <=> chunk = nil) /\ (done' = nil <=> chains'["sink"].retry = nil)
  BY <1>1, <1>2, <1>4, <1>5
<1>9. Passed(done = nil)'
  BY <1>2, <1>3, <1>7, <1>8 DEF Passed, GoesOn, Stops, program
<1>10. Place'
  BY <1>4, <1>8, <1>9 DEF Place
<1>11. Told'
  BY <1>2, <1>4, <1>5 DEF IInv, Told, program
<1>12. QED BY <1>4, <1>6, <1>7, <1>10, <1>11, Both DEF IInv

\* The sink takes the chunk: it is asked for more, or the pump goes back to the source or
\* returns.
LEMMA SinkStep == IInv /\ (SinkAccepts \/ SinkRefuses) => IInv'
<1> SUFFICES ASSUME IInv, SinkAccepts \/ SinkRefuses PROVE IInv'
  OBVIOUS
<1>1. nil # empty /\ "sink" \in Chains /\ "source" \in Chains
  BY Kinds, Both
<1>2. /\ pc = "drain" /\ ~ended /\ refused = "no" /\ result = "none"
      /\ Returned("sink") /\ (done = nil <=> chains["sink"].retry = nil) /\ Passed(done = nil)
      /\ done \in {nil, empty} /\ (chunk = nil \/ chunk \in Seq(Bytes)) /\ stored \in Seq(Bytes)
  BY DEF SinkAccepts, SinkRefuses, IInv, Place, Told, Typed
<1>3. UNCHANGED <<given, srcErr, filters, feeder, done>>
  BY DEF SinkAccepts, SinkRefuses
<1>4. CASE SinkRefuses
  <2>1. PICK how \in {"error", "silent"} :
          /\ refused' = how /\ pc' = "done"
          /\ result' = IF srcErr \/ how = "error" THEN "error" ELSE "ok"
    BY <1>4 DEF SinkRefuses, Pumped
  <2>2. UNCHANGED <<stored, ended, chains, chunk>>
    BY <1>4 DEF SinkRefuses
  <2>3. \A c \in Chains : Shaped(c)'
    BY <1>3, <2>2, ChainsKept
  <2>4. Typed'
    BY <1>3, <2>1, <2>2 DEF IInv, Typed, Length
  <2>5. Place'
    BY <2>1 DEF Place
  <2>6. Told'
    BY <1>2, <1>3, <2>1, <2>2 DEF IInv, Told
  <2>7. QED BY <2>3, <2>4, <2>5, <2>6 DEF IInv
<1>5. ASSUME SinkAccepts PROVE IInv'
  <2>1. /\ stored' = (IF IsData(chunk) THEN stored \o chunk ELSE stored)
        /\ ended' = (chunk = nil) /\ refused' = refused
        /\ IF chunk = done THEN Pumped(TRUE, srcErr) /\ UNCHANGED <<chains, chunk>>
           ELSE Enter("sink", done) /\ UNCHANGED result
    BY <1>2, <1>5 DEF SinkAccepts
  <2>2. stored' \in Seq(Bytes)
    <3>1. IsData(chunk) => stored \o chunk \in Seq(Bytes)
      BY <1>2, ConcatProperties DEF IsData
    <3>2. QED BY <1>2, <2>1, <3>1
  <2>3. ended' \in BOOLEAN
    BY <2>1
  <2>4. CASE chunk = done /\ done = nil
    <3>1. /\ UNCHANGED <<chains, chunk>> /\ pc' = "done" /\ ended'
          /\ result' = IF srcErr THEN "error" ELSE "ok"
      BY <2>1, <2>4 DEF Pumped
    <3>2. Closed("sink") /\ Stops
      BY <1>2, <2>4 DEF Returned, Left, Closed, Passed
    <3>3. /\ \A c \in Chains : Shaped(c)'
          /\ Closed("sink")' /\ (Closed("source") => Closed("source")')
      BY <1>1, <1>3, <3>1, <3>2, ChainsKept
    <3>4. Typed'
      BY <1>3, <2>1, <2>2, <2>3, <3>1 DEF IInv, Typed, Length
    <3>5. srcErr \in BOOLEAN
      BY DEF IInv, Typed
    <3>6. Place'
      BY <1>3, <3>1, <3>2, <3>3, <3>5 DEF Place, Stops
    <3>7. Told'
      BY <1>2, <1>3, <2>1, <3>1 DEF IInv, Told
    <3>8. QED BY <3>3, <3>4, <3>6, <3>7 DEF IInv
  <2>5. CASE chunk = done /\ done = empty
    <3>1. GoesOn /\ feeder.last_out # nil
      BY <1>1, <1>2, <2>5 DEF Passed, GoesOn
    <3>2. UNCHANGED <<chains, chunk>> /\ pc' = "pull" /\ result' = result /\ ~ended'
      BY <1>1, <2>1, <2>5, <3>1 DEF Pumped
    <3>3. Empty("sink")
      BY <1>2, <2>5 DEF Returned, Left, Empty
    <3>4. /\ \A c \in Chains : Shaped(c)'
          /\ Empty("sink")' /\ (More("source") => More("source")')
      BY <1>1, <1>3, <3>2, <3>3, ChainsKept
    <3>5. Typed'
      BY <1>3, <2>1, <2>2, <2>3, <3>2 DEF IInv, Typed, Length
    <3>6. Place'
      BY <1>3, <3>1, <3>2, <3>4 DEF Place, GoesOn
    <3>7. Told'
      BY <1>2, <1>3, <2>1, <3>2 DEF IInv, Told
    <3>8. QED BY <3>4, <3>5, <3>6, <3>7 DEF IInv
  <2>6. CASE chunk # done
    <3>1. Enter("sink", done) /\ result' = result
      BY <2>1, <2>6
    <3>2. IsData(chunk)
      <4>1. chunk = empty => chains["sink"].retry = empty
        BY <1>2 DEF Returned, Left, Drained
      <4>2. chunk = nil => chains["sink"].retry = nil
        BY <1>2 DEF Returned, Left, Finished
      <4>3. QED BY <1>1, <1>2, <2>6, <4>1, <4>2 DEF IsData
    <3>3. More("sink")
      BY <1>2, <3>2 DEF Returned, Left, More
    <3>4. /\ chains' \in [Chains -> Upvalues] /\ Shaped("sink")' /\ MayCall("sink")'
          /\ chains'["sink"].retry = nil <=> done = nil \/ chains["sink"].retry = nil
          /\ pc' = "sink" /\ chunk' = done
          /\ \A d \in Chains : d # "sink" => chains'[d] = chains[d]
      <4>1. Typed /\ Shaped("sink")
        BY <1>1 DEF IInv
      <4>2. UNCHANGED filters /\ (done = nil \/ done \in Seq(Bytes))
        BY <1>2, <1>3, Kinds
      <4>3. QED BY <1>1, <1>2, <3>1, <3>3, <4>1, <4>2, EnterStep
    <3>5. chains'["source"] = chains["source"]
      BY <1>1, <3>4
    <3>6. done = nil \/ done \in Seq(Bytes)
      BY <1>2, Kinds
    <3>7. Typed'
      BY <1>3, <2>1, <2>2, <2>3, <3>1, <3>4, <3>6 DEF IInv, Typed, Length
    <3>8. /\ Shaped("source")' /\ (More("source") => More("source")')
          /\ (Closed("source") => Closed("source")')
      BY <1>1, <1>3, <3>5 DEF IInv, Shaped, More, Closed, Length
    <3>9. Passed(done = nil)' /\ (done' = nil <=> chains'["sink"].retry = nil)
      BY <1>2, <1>3, <3>4, <3>8 DEF Passed, GoesOn, Stops
    <3>10. Place'
      BY <3>4, <3>9 DEF Place
    <3>11. ~ended'
      BY <2>1, <3>2 DEF IsData
    <3>12. Told'
      BY <1>2, <1>3, <2>1, <3>1, <3>4, <3>5, <3>11 DEF IInv, Told
    <3>13. QED BY <3>4, <3>7, <3>8, <3>10, <3>12, Both DEF IInv
  <2>7. QED BY <1>2, <2>4, <2>5, <2>6
<1>6. QED BY <1>4, <1>5

LEMMA NextIInv == IInv /\ [Next]_vars => IInv'
<1> SUFFICES ASSUME IInv, [Next]_vars PROVE IInv'
  OBVIOUS
<1>1. CASE UNCHANGED vars
  BY <1>1 DEF vars, IInv, Typed, Shaped, Place, Told, MayCall, Empty, More, Closed, Returned, Length,
        Passed, GoesOn, Stops
<1>2. CASE Next
  BY <1>2, PullStep, SourceStep, PushStep, SinkStep, FilterStep DEF Next, source_chain, sink_chain
<1>3. QED BY <1>1, <1>2

THEOREM Invariance == Spec => []IInv
BY InitIInv, NextIInv, PTL DEF Spec

\* No filter and no sink is called out of turn, and none is found to be, however many
\* filters there are and however they hold and cut the data.
THEOREM TurnsCorrect == Spec => []NeverRaises
<1>1. IInv => NeverRaises
  BY DEF IInv, Typed, NeverRaises
<1>2. QED BY <1>1, Invariance, PTL

-----------------------------------------------------------------------------
\* Where the bytes are.  p[0] bytes have entered the chain of n filters, and p[i] have
\* come out of its filter i; x is on its way to the filter j.

Flow(fs, j, x, n, p) ==
    /\ p \in [0..n -> Nat]
    /\ \A i \in 1..n :
        /\ p[i] <= p[i - 1]
        /\ Row(IF i = j THEN Pending(fs[i], x) ELSE fs[i].held, p[i], p[i - 1] - p[i])

LEMMA NoRow == \A a \in Nat : Row(empty, a, 0)
BY Kinds DEF Row

\* Bytes are on their way to a filter only when there is a chunk.
LEMMA FlowStill ==
    ASSUME NEW n \in Nat, NEW fs, NEW p, NEW i, NEW j, NEW x, NEW y,
           ~IsData(x), ~IsData(y), Flow(fs, i, x, n, p)
    PROVE  Flow(fs, j, y, n, p)
<1>1. \A k : Pending(fs[k], x) = fs[k].held /\ Pending(fs[k], y) = fs[k].held
  BY DEF Pending
<1>2. ASSUME NEW k \in 1..n
      PROVE  /\ p[k] <= p[k - 1]
             /\ Row(IF k = j THEN Pending(fs[k], y) ELSE fs[k].held, p[k], p[k - 1] - p[k])
  BY <1>1 DEF Flow
<1>3. QED BY <1>2 DEF Flow

\* Data enters the first filter of a chain.
LEMMA FlowEnter ==
    ASSUME NEW n \in Nat, n # 0, NEW fs \in [1..n -> Filter], NEW p, NEW x \in Seq(Bytes), IsData(x),
           Flow(fs, 0, empty, n, p), NEW k \in Nat, Row(x, p[0], k)
    PROVE  \E q : q[0] = p[0] + k /\ q[n] = p[n] /\ Flow(fs, 1, x, n, q)
<1>1. p \in [0..n -> Nat] /\ 0 \in 0..n /\ 1 \in 1..n /\ p[0] \in Nat
  BY DEF Flow
<1> DEFINE q == [p EXCEPT ![0] = p[0] + k]
<1>2. q \in [0..n -> Nat] /\ q[0] = p[0] + k /\ \A i \in 1..n : q[i] = p[i]
  BY <1>1
<1> HIDE DEF q
<1>3. ASSUME NEW i \in 1..n
      PROVE  /\ q[i] <= q[i - 1]
             /\ Row(IF i = 1 THEN Pending(fs[i], x) ELSE fs[i].held, q[i], q[i - 1] - q[i])
  <2>1. p[i] <= p[i - 1] /\ Row(fs[i].held, p[i], p[i - 1] - p[i])
    BY DEF Flow, Pending, IsData
  <2>2. CASE i = 1
    <3>1. p[1] \in Nat /\ p[1] <= p[0] /\ 1 - 1 = 0
      BY <1>1, <2>1, <2>2
    <3>2. PICK h : h = fs[1].held
      OBVIOUS
    <3>3. PICK a \in Nat, m \in Nat : a = p[1] /\ m = p[0] - p[1]
      BY <1>1, <3>1
    <3>4. Row(h, a, m) /\ Row(x, a + m, k)
      BY <1>1, <2>1, <2>2, <3>1, <3>2, <3>3
    <3>5. Row(h \o x, a, m + k)
      BY ONLY <3>3, <3>4, RowJoin, a \in Nat, m \in Nat, k \in Nat
    <3>6. Pending(fs[1], x) = h \o x
      BY <3>2 DEF Pending
    <3>7. q[1] = a /\ q[0] - q[1] = m + k /\ q[1] <= q[0]
      BY <1>1, <1>2, <3>1, <3>3
    <3>8. QED BY <2>2, <3>1, <3>5, <3>6, <3>7
  <2>3. CASE i # 1
    <3>1. i - 1 \in 1..n
      BY <2>3
    <3>2. q[i] = p[i] /\ q[i - 1] = p[i - 1]
      BY <1>2, <3>1
    <3>3. QED BY <2>1, <2>3, <3>2
  <2>4. QED BY <2>2, <2>3
<1>4. Flow(fs, 1, x, n, q)
  BY <1>2, <1>3 DEF Flow
<1>5. n \in 1..n
  OBVIOUS
<1>6. QED BY <1>2, <1>4, <1>5

\* A filter gives the first bytes of what it has and holds the others.
LEMMA FlowCall ==
    ASSUME NEW n \in Nat, NEW fs \in [1..n -> Filter], NEW j \in 1..n, NEW p, NEW x,
           x = nil \/ x \in Seq(Bytes), Flow(fs, j, x, n, p), NEW out \in Results(fs[j], x),
           NEW gs, gs = [fs EXCEPT ![j] = Called(fs[j], x, out)]
    PROVE  \E k \in Nat :
             /\ p[j] + k <= p[j - 1]
             /\ (IF IsData(out) THEN Row(out, p[j], k) ELSE k = 0)
             /\ Row(gs[j].held, p[j] + k, p[j - 1] - (p[j] + k))
<1> DEFINE f == fs[j]
           s == Pending(f, x)
<1>1. p \in [0..n -> Nat] /\ j \in 0..n /\ j - 1 \in 0..n
  BY DEF Flow
<1>2. PICK a \in Nat, b \in Nat : a = p[j] /\ b = p[j - 1]
  BY <1>1
<1>3. a <= b
  BY <1>2 DEF Flow
<1>4. PICK m \in Nat : m = b - a
  BY <1>3
<1>5. Row(s, a, m)
  BY <1>2, <1>4 DEF Flow
<1>6. f \in Filter /\ gs[j] = Called(f, x, out) /\ out \in Results(f, x)
  OBVIOUS
<1>7. /\ out = nil => x = nil /\ f.held = empty
      /\ out # nil => \E k \in 0..Len(s) :
                    out = SubSeq(s, 1, k) /\ out \in Seq(Bytes) /\ Len(out) = k
  <2> HIDE DEF f
  <2>1. QED BY <1>6, ResultsAre
<1>8. Len(s) = m
  BY <1>5 DEF Row
<1> HIDE DEF f, s
<1>9. CASE out = nil
  <2>1. ~IsData(out) /\ s = empty /\ m = 0
    <3>1. s = empty
      BY <1>7, <1>9 DEF s, Pending, IsData
    <3>2. QED BY <1>8, <1>9, <3>1, Kinds DEF IsData
  <2>2. gs[j].held = empty
    BY <1>6, <1>9 DEF Called
  <2>3. b = a /\ a + 0 = a /\ b - (a + 0) = 0
    BY <1>3, <1>4, <2>1
  <2>4. Row(gs[j].held, a, 0)
    BY <2>2, NoRow
  <2>5. /\ p[j] + 0 <= p[j - 1]
        /\ (IF IsData(out) THEN Row(out, p[j], 0) ELSE 0 = 0)
        /\ Row(gs[j].held, p[j] + 0, p[j - 1] - (p[j] + 0))
    <3>1. p[j] + 0 <= p[j - 1] /\ p[j] + 0 = a /\ p[j - 1] - (p[j] + 0) = 0
      BY <1>2, <2>3
    <3>2. QED BY <2>1, <2>4, <3>1
  <2>6. QED BY <2>5
<1>10. CASE out # nil
  <2>1. PICK k \in 0..m : out = SubSeq(s, 1, k) /\ out \in Seq(Bytes) /\ Len(out) = k
    BY <1>7, <1>8, <1>10
  <2>2. Row(SubSeq(s, 1, k), a, k) /\ Row(SubSeq(s, k + 1, m), a + k, m - k)
    BY <1>5, RowCut
  <2>3. gs[j].held = SubSeq(s, k + 1, m)
    BY <1>6, <1>8, <1>10, <2>1 DEF Called, s
  <2>4. a + k <= b /\ m - k = b - (a + k) /\ k \in Nat
    BY <1>3, <1>4
  <2>5. IF IsData(out) THEN Row(out, a, k) ELSE k = 0
    <3>1. ~IsData(out) => k = 0
      BY <1>10, <2>1, Kinds DEF IsData
    <3>2. QED BY <2>1, <2>2, <3>1
  <2>6. QED BY <1>2, <2>2, <2>3, <2>4, <2>5
<1>11. QED BY <1>9, <1>10

\* How the flow goes on when the filter j gave out: the bytes go to the next filter, or leave.
GoesTo(gs, j, out, n, p, q) ==
    /\ q[0] = p[0]
    /\ ~IsData(out) => q[n] = p[n] /\ Flow(gs, 0, empty, n, q)
    /\ IsData(out) /\ j # n => q[n] = p[n] /\ Flow(gs, j + 1, out, n, q)
    /\ IsData(out) /\ j = n => q[n] >= p[n] /\ Row(out, p[n], q[n] - p[n]) /\ Flow(gs, 0, empty, n, q)

LEMMA FlowOn ==
    ASSUME NEW n \in Nat, NEW fs \in [1..n -> Filter], NEW j \in 1..n, NEW p, NEW x,
           x = nil \/ x \in Seq(Bytes), Flow(fs, j, x, n, p), NEW out \in Results(fs[j], x),
           NEW gs, gs = [fs EXCEPT ![j] = Called(fs[j], x, out)], out = nil \/ out \in Seq(Bytes)
    PROVE  \E q : GoesTo(gs, j, out, n, p, q)
<1>1. PICK k \in Nat :
             /\ p[j] + k <= p[j - 1]
             /\ (IF IsData(out) THEN Row(out, p[j], k) ELSE k = 0)
             /\ Row(gs[j].held, p[j] + k, p[j - 1] - (p[j] + k))
  BY FlowCall
<1>2. p \in [0..n -> Nat] /\ j \in 0..n /\ j - 1 \in 0..n /\ n \in 0..n /\ j # 0
  BY DEF Flow
<1>3. p[j] \in Nat /\ p[j - 1] \in Nat
  BY <1>2
<1> DEFINE q == [p EXCEPT ![j] = p[j] + k]
<1>4. q \in [0..n -> Nat] /\ q[j] = p[j] + k /\ \A i \in 0..n : i # j => q[i] = p[i]
  BY <1>2, <1>3
<1> HIDE DEF q
<1>5. \A i \in 1..n : i # j => gs[i] = fs[i]
  OBVIOUS
<1>6. ASSUME NEW i \in 1..n
      PROVE  /\ p[i] <= p[i - 1] /\ i - 1 \in 0..n /\ i \in 0..n
             /\ i # j => Row(fs[i].held, p[i], p[i - 1] - p[i])
  BY DEF Flow
<1>7. ASSUME NEW i \in 1..n, i # j + 1 \/ ~IsData(out)
      PROVE  q[i] <= q[i - 1] /\ Row(gs[i].held, q[i], q[i - 1] - q[i])
  <2>1. CASE i = j
    <3>1. q[i - 1] = p[j - 1]
      BY <1>2, <1>4, <2>1
    <3>2. QED BY <1>1, <1>4, <2>1, <3>1
  <2>2. CASE i = j + 1 /\ ~IsData(out)
    <3>1. k = 0 /\ q[j] = p[j]
      BY <1>1, <1>3, <1>4, <2>2
    <3>2. i - 1 = j /\ i # j /\ i \in 0..n
      BY <1>6, <2>2
    <3>3. q[i] = p[i]
      BY <1>4, <3>2
    <3>4. q[i - 1] = p[i - 1]
      BY <3>1, <3>2
    <3>5. gs[i] = fs[i] /\ p[i] <= p[i - 1] /\ Row(fs[i].held, p[i], p[i - 1] - p[i])
      BY <1>5, <1>6, <3>2
    <3>6. QED BY <3>3, <3>4, <3>5
  <2>3. CASE i # j /\ i # j + 1
    <3>1. i - 1 # j /\ i - 1 \in 0..n /\ i \in 0..n
      BY <1>6, <2>3
    <3>2. q[i] = p[i] /\ q[i - 1] = p[i - 1]
      BY <1>4, <2>3, <3>1
    <3>3. gs[i] = fs[i] /\ p[i] <= p[i - 1] /\ Row(fs[i].held, p[i], p[i - 1] - p[i])
      BY <1>5, <1>6, <2>3
    <3>4. QED BY <3>2, <3>3
  <2>4. QED BY <1>7, <2>1, <2>2, <2>3
<1>8. CASE ~IsData(out)
  <2>1. k = 0
    BY <1>1, <1>8
  <2>2. q[0] = p[0] /\ q[n] = p[n]
    BY <1>2, <1>3, <1>4, <2>1
  <2>3. \A i \in 1..n : i # 0 /\ q[i] <= q[i - 1] /\ Row(gs[i].held, q[i], q[i - 1] - q[i])
    BY <1>7, <1>8
  <2>4. Flow(gs, 0, empty, n, q)
    BY <1>4, <2>3 DEF Flow
  <2>5. QED BY <1>8, <2>2, <2>4 DEF GoesTo
<1>9. CASE IsData(out) /\ j # n
  <2>1. q[0] = p[0] /\ q[n] = p[n]
    BY <1>2, <1>4, <1>9
  <2>2. j + 1 \in 1..n /\ j + 1 # j /\ (j + 1) - 1 = j /\ j + 1 \in 0..n
    BY <1>9
  <2>3. /\ q[j + 1] <= q[j]
        /\ Row(Pending(gs[j + 1], out), q[j + 1], q[j] - q[j + 1])
    <3>1. PICK h : h = fs[j + 1].held
      OBVIOUS
    <3>2. Row(h, p[j + 1], p[j] - p[j + 1]) /\ p[j + 1] <= p[j]
      BY <1>6, <2>2, <3>1
    <3>3. p[j + 1] \in Nat
      BY <1>2, <2>2
    <3>4. PICK a \in Nat, m \in Nat : a = p[j + 1] /\ m = p[j] - p[j + 1]
      BY <1>3, <3>2, <3>3
    <3>5. Row(h, a, m) /\ Row(out, a + m, k)
      <4>1. a + m = p[j]
        BY <1>3, <3>3, <3>4
      <4>2. QED BY <1>1, <1>9, <3>2, <3>4, <4>1
    <3>6. Row(h \o out, a, m + k)
      BY ONLY <3>5, RowJoin, a \in Nat, m \in Nat, k \in Nat
    <3>7. Pending(gs[j + 1], out) = h \o out
      BY <1>5, <1>9, <2>2, <3>1 DEF Pending
    <3>8. q[j + 1] = a /\ q[j] - q[j + 1] = m + k /\ q[j + 1] <= q[j]
      <4>1. q[j + 1] = a /\ q[j] = p[j] + k
        BY <1>4, <2>2, <3>4
      <4>2. PICK b \in Nat : b = p[j]
        BY <1>3
      <4>3. m = b - a /\ a <= b /\ q[j] = b + k
        BY <3>2, <3>4, <4>1, <4>2
      <4>4. QED BY <4>1, <4>3
    <3>9. Row(h \o out, q[j + 1], q[j] - q[j + 1])
      BY <3>6, <3>8
    <3>10. QED BY <3>7, <3>8, <3>9
  <2>4. ASSUME NEW i \in 1..n
        PROVE  /\ q[i] <= q[i - 1]
               /\ Row(IF i = j + 1 THEN Pending(gs[i], out) ELSE gs[i].held, q[i], q[i - 1] - q[i])
    BY <1>7, <2>2, <2>3
  <2>5. Flow(gs, j + 1, out, n, q)
    BY <1>4, <2>4 DEF Flow
  <2>6. QED BY <1>9, <2>1, <2>5 DEF GoesTo
<1>10. CASE IsData(out) /\ j = n
  <2>1. q[0] = p[0]
    BY <1>2, <1>4
  <2>2. q[n] - p[n] = k /\ q[n] >= p[n]
    <3>1. PICK a \in Nat : a = p[n]
      BY <1>3, <1>10
    <3>2. q[n] = a + k
      BY <1>4, <1>10, <3>1
    <3>3. QED BY <3>1, <3>2
  <2>3. \A i \in 1..n : i # 0 /\ q[i] <= q[i - 1] /\ Row(gs[i].held, q[i], q[i - 1] - q[i])
    <3>1. \A i \in 1..n : i # j + 1 /\ i # 0
      BY <1>10
    <3>2. QED BY <1>7, <3>1
  <2>4. Flow(gs, 0, empty, n, q)
    BY <1>4, <2>3 DEF Flow
  <2>5. QED BY <1>1, <1>10, <2>1, <2>2, <2>4 DEF GoesTo
<1>11. QED BY <1>8, <1>9, <1>10

\* No more comes out than entered, and all of it when no filter holds any.
LEMMA FlowEnds ==
    ASSUME NEW n \in Nat, NEW fs, NEW j, NEW x, NEW p, Flow(fs, j, x, n, p)
    PROVE  /\ p[n] \in Nat /\ p[0] \in Nat /\ p[n] <= p[0]
           /\ ~IsData(x) /\ (\A i \in 1..n : fs[i].held = empty) => p[n] = p[0]
<1> DEFINE T == {i \in Nat : i <= n => p[i] <= p[0]}
           E == {i \in Nat : i <= n => p[i] = p[0]}
<1>1. p \in [0..n -> Nat]
  BY DEF Flow
<1>2. Nat \subseteq T
  <2>1. 0 \in T
    BY <1>1
  <2>2. ASSUME NEW i \in Nat, i \in T PROVE i + 1 \in T
    <3>1. SUFFICES ASSUME i + 1 <= n PROVE p[i + 1] <= p[0]
      OBVIOUS
    <3>2. i + 1 \in 1..n /\ (i + 1) - 1 = i /\ i \in 0..n /\ i + 1 \in 0..n /\ 0 \in 0..n
      BY <3>1
    <3>3. p[i + 1] <= p[i]
      BY <3>2 DEF Flow
    <3>4. p[i] <= p[0]
      BY <2>2, <3>2
    <3>5. p[i] \in Nat /\ p[i + 1] \in Nat /\ p[0] \in Nat
      BY <1>1, <3>2
    <3>6. QED BY <3>3, <3>4, <3>5
  <2> HIDE DEF T
  <2>3. QED BY <2>1, <2>2, Inductive
<1>3. p[n] \in Nat /\ p[0] \in Nat /\ p[n] <= p[0]
  BY <1>1, <1>2
<1>4. ASSUME ~IsData(x), \A i \in 1..n : fs[i].held = empty PROVE p[n] = p[0]
  <2>1. 0 \in E
    BY <1>1
  <2>2. ASSUME NEW i \in Nat, i \in E PROVE i + 1 \in E
    <3>1. SUFFICES ASSUME i + 1 <= n PROVE p[i + 1] = p[0]
      OBVIOUS
    <3>2. i + 1 \in 1..n /\ (i + 1) - 1 = i /\ i \in 0..n /\ i + 1 \in 0..n /\ i + 1 # 0
      BY <3>1
    <3>3. p[i + 1] <= p[i] /\ Row(fs[i + 1].held, p[i + 1], p[i] - p[i + 1])
      BY <1>4, <3>2 DEF Flow, Pending
    <3>4. Len(empty) = p[i] - p[i + 1]
      BY <1>4, <3>2, <3>3 DEF Row
    <3>5. p[i] \in Nat /\ p[i + 1] \in Nat
      BY <1>1, <3>2
    <3>6. p[i] = p[0]
      BY <2>2, <3>2
    <3>7. QED BY <3>4, <3>5, <3>6, Kinds
  <2> HIDE DEF E
  <2>3. Nat \subseteq E
    BY <2>1, <2>2, Inductive
  <2>4. QED BY <2>3 DEF E
<1>5. QED BY <1>3, <1>4

-----------------------------------------------------------------------------
\* From the source to the sink: what is held and what is on its way.

Coming(c) == IF pc = c THEN chunk ELSE empty
Between == IF pc \in {"filtered", "push"} /\ IsData(chunk) THEN chunk ELSE empty
AtSink  == IF pc = "drain" /\ IsData(chunk) THEN chunk ELSE empty

InChain(c, p) == Flow(filters[c], chains[c].index, Coming(c), Length(c), p)

\* a counts the bytes in the chain of the source, b those in the chain of the sink.  What
\* is between them, and what the sink has not taken yet unless it refused, is in order too.
Marked(a, b) ==
    /\ InChain("source", a) /\ InChain("sink", b)
    /\ a[0] = given
    /\ b[0] <= a[SourceFilters] /\ Row(Between, b[0], a[SourceFilters] - b[0])
    /\ Len(stored) <= b[SinkFilters] /\ Row(stored, 0, Len(stored))
    /\ refused = "no" => Row(AtSink, Len(stored), b[SinkFilters] - Len(stored))

FlowInv == \E a, b : Marked(a, b)

LEMMA Ranges ==
    ASSUME NEW a, NEW b, Marked(a, b), Typed
    PROVE  /\ a \in [0..SourceFilters -> Nat] /\ b \in [0..SinkFilters -> Nat]
           /\ 0 \in 0..SourceFilters /\ SourceFilters \in 0..SourceFilters
           /\ 0 \in 0..SinkFilters /\ SinkFilters \in 0..SinkFilters
           /\ a[0] \in Nat /\ a[SourceFilters] \in Nat /\ b[0] \in Nat /\ b[SinkFilters] \in Nat
           /\ Len(stored) \in Nat
<1>1. Length("source") = SourceFilters /\ Length("sink") = SinkFilters
  BY DEF Length
<1>2. a \in [0..SourceFilters -> Nat] /\ b \in [0..SinkFilters -> Nat]
  BY <1>1 DEF Marked, InChain, Flow
<1>3. 0 \in 0..SourceFilters /\ SourceFilters \in 0..SourceFilters
      /\ 0 \in 0..SinkFilters /\ SinkFilters \in 0..SinkFilters
  BY FiltersAssumption
<1>4. Len(stored) \in Nat
  BY LenProperties DEF Typed
<1>5. QED BY <1>2, <1>3, <1>4

\* Nothing in a row: its ends are the same.
LEMMA EmptyRow ==
    ASSUME NEW a \in Nat, NEW b \in Nat, a <= b, Row(empty, a, b - a)
    PROVE  a = b
<1>1. Len(empty) = b - a
  BY DEF Row
<1>2. QED BY <1>1, Kinds

\* One call of a filter: the chain goes on, or the bytes leave it.
LEMMA ChainFlow ==
    ASSUME NEW c \in Chains, IInv, pc = c, MayCall(c), filter_chain(c), NEW p, InChain(c, p)
    PROVE  \E q :
             /\ q[0] = p[0]
             /\ \/ /\ pc' = c /\ q[Length(c)] = p[Length(c)]
                   /\ InChain(c, q)'
                \/ /\ pc' = (IF c = "source" THEN "filtered" ELSE "drain")
                   /\ q[Length(c)] >= p[Length(c)] /\ InChain(c, q)'
                   /\ Row(IF IsData(chunk') THEN chunk' ELSE empty, p[Length(c)],
                            q[Length(c)] - p[Length(c)])
<1> DEFINE n   == Length(c)
           u   == chains[c]
           old == filters[c]
           arg == Argument(u, chunk)
<1>0. /\ n \in Nat /\ old \in [1..n -> Filter] /\ u \in Upvalues /\ Shape(old, u, n)
      /\ (chunk = nil \/ chunk \in Seq(Bytes)) /\ chains \in [Chains -> Upvalues]
      /\ Flow(old, u.index, chunk, n, p)
  BY LengthIs DEF IInv, Typed, Shaped, InChain, Coming
<1>1. PICK fs : fs = filters'[c]
  OBVIOUS
<1>2. PICK out :
        /\ Called_at(fs, u, chunk, n, old, out)
        /\ \/ /\ \/ u.index = u.top /\ out = empty
                 \/ u.index = u.top /\ out = nil /\ u.top = n
                 \/ u.index = n /\ IsData(out)
              /\ Leave(c, out)
           \/ u.index # n /\ IsData(out) /\ GoTo(c, u.top, u.index + 1, out)
           \/ u.index = u.top /\ u.top # n /\ out = nil /\ GoTo(c, u.top + 1, u.top + 1, nil)
           \/ u.index # u.top /\ out = empty /\ GoTo(c, u.top, u.index - 1, u.retry)
  BY <1>1, FilterCalled
<1>3. /\ fs \in [1..n -> Filter] /\ u.index \in 1..n /\ u.top \in 1..n
      /\ out = nil \/ out \in Seq(Bytes)
  <2>1. Called_at(fs, u, chunk, n, old, out)
    BY <1>2
  <2> HIDE DEF n, u, old
  <2>2. QED BY <1>0, <2>1, CalledAt
<1>4. /\ out \in Results(old[u.index], arg)
      /\ fs = [old EXCEPT ![u.index] = Called(old[u.index], arg, out)]
  BY <1>2 DEF Called_at
<1>5. (arg = nil \/ arg \in Seq(Bytes)) /\ Flow(old, u.index, arg, n, p)
  <2>1. CASE arg = chunk
    BY <1>0, <2>1
  <2>2. CASE arg # chunk
    <3>1. arg = empty /\ chunk = nil
      BY <2>2 DEF Argument
    <3>2. ~IsData(arg) /\ ~IsData(chunk)
      BY <3>1 DEF IsData
    <3> HIDE DEF n, u, old, arg
    <3>3. Flow(old, u.index, arg, n, p)
      BY <1>0, <3>2, FlowStill
    <3>4. QED BY <3>1, <3>3, Kinds
  <2>3. QED BY <2>1, <2>2
<1> HIDE DEF n, u, old, arg
<1>goes. PICK q : GoesTo(fs, u.index, out, n, p, q)
  BY <1>0, <1>3, <1>4, <1>5, FlowOn
<1> USE DEF n, u, old, arg
<1>6. /\ q[0] = p[0]
      /\ ~IsData(out) => q[n] = p[n] /\ Flow(fs, 0, empty, n, q)
      /\ IsData(out) /\ u.index # n => q[n] = p[n] /\ Flow(fs, u.index + 1, out, n, q)
      /\ IsData(out) /\ u.index = n => /\ q[n] >= p[n] /\ Row(out, p[n], q[n] - p[n])
                                       /\ Flow(fs, 0, empty, n, q)
  BY <1>goes DEF GoesTo
<1>7. p[n] \in Nat
  BY <1>0 DEF Flow
<1>8. ~IsData(empty) /\ ~IsData(nil)
  BY DEF IsData
<1>9. ASSUME NEW t, NEW j, NEW y, GoTo(c, t, j, y), Flow(fs, j, y, n, q)
      PROVE  pc' = c /\ InChain(c, q)'
  <2>1. chains' = [chains EXCEPT ![c].top = t, ![c].index = j] /\ chunk' = y /\ pc' = pc
    BY <1>9 DEF GoTo
  <2>2. chains'[c].index = j
    BY <1>0, <2>1 DEF Upvalues
  <2>3. QED BY <1>1, <1>9, <2>1, <2>2 DEF InChain, Coming, Length
<1>10. CASE /\ \/ u.index = u.top /\ out = empty
               \/ u.index = u.top /\ out = nil /\ u.top = n
               \/ u.index = n /\ IsData(out)
            /\ Leave(c, out)
  <2>1. /\ pc' = (IF c = "source" THEN "filtered" ELSE "drain") /\ chunk' = out /\ chains' = chains
    BY <1>10 DEF Leave
  <2>2. pc' # c
    BY <2>1, Both
  <2>3. Flow(fs, 0, empty, n, q) /\ q[n] >= p[n]
        /\ Row(IF IsData(out) THEN out ELSE empty, p[n], q[n] - p[n])
    <3>1. CASE IsData(out)
      BY <1>6, <1>8, <1>10, <3>1
    <3>2. CASE ~IsData(out)
      <4>1. q[n] = p[n] /\ Flow(fs, 0, empty, n, q) /\ q[n] - p[n] = 0
        BY <1>6, <1>7, <3>2
      <4>2. Row(empty, p[n], 0)
        BY <1>7, NoRow
      <4>3. QED BY <1>7, <3>2, <4>1, <4>2
    <3>3. QED BY <3>1, <3>2
  <2>4. Flow(fs, u.index, empty, n, q)
    <3> HIDE DEF n, u, old, arg
    <3>1. QED BY <1>0, <1>8, <2>3, FlowStill
  <2>5. InChain(c, q)'
    BY <1>1, <2>1, <2>2, <2>4 DEF InChain, Coming, Length
  <2>6. QED BY <1>6, <2>1, <2>3, <2>5
<1>11. CASE u.index # n /\ IsData(out) /\ GoTo(c, u.top, u.index + 1, out)
  BY <1>6, <1>9, <1>11
<1>12. CASE u.index = u.top /\ u.top # n /\ out = nil /\ GoTo(c, u.top + 1, u.top + 1, nil)
  <2>1. q[n] = p[n] /\ Flow(fs, 0, empty, n, q)
    BY <1>6, <1>8, <1>12
  <2>2. Flow(fs, u.top + 1, nil, n, q)
    <3> HIDE DEF n, u, old, arg
    <3>1. QED BY <1>0, <1>8, <2>1, FlowStill
  <2>3. QED BY <1>6, <1>9, <1>12, <2>1, <2>2
<1>13. CASE u.index # u.top /\ out = empty /\ GoTo(c, u.top, u.index - 1, u.retry)
  <2>1. q[n] = p[n] /\ Flow(fs, 0, empty, n, q)
    BY <1>6, <1>8, <1>13
  <2>2. ~IsData(u.retry)
    BY <1>0 DEF Shape, IsData
  <2>3. Flow(fs, u.index - 1, u.retry, n, q)
    <3> HIDE DEF n, u, old, arg
    <3>1. QED BY <1>0, <1>8, <2>1, <2>2, FlowStill
  <2>4. QED BY <1>6, <1>9, <1>13, <2>1, <2>3
<1>14. QED BY <1>2, <1>10, <1>11, <1>12, <1>13

LEMMA InitFlow == Init => FlowInv
<1> SUFFICES ASSUME Init PROVE FlowInv
  OBVIOUS
<1>1. ASSUME NEW c \in Chains PROVE InChain(c, [i \in 0..Length(c) |-> 0])
  <2> DEFINE n == Length(c)
             p == [i \in 0..n |-> 0]
             fs == filters[c]
  <2>1. n \in Nat /\ chunk = empty /\ chains[c].index = 1
    BY LengthIs DEF Init
  <2>2. ASSUME NEW i \in 1..n
        PROVE  /\ p[i] <= p[i - 1]
               /\ Row(IF i = 1 THEN Pending(fs[i], empty) ELSE fs[i].held, p[i], p[i - 1] - p[i])
    <3>1. p[i] = 0 /\ p[i - 1] = 0 /\ p[i - 1] - p[i] = 0
      BY <2>1
    <3>2. fs[i].held = empty
      BY DEF Init
    <3>3. Pending(fs[i], empty) = empty
      BY <3>2 DEF Pending, IsData
    <3>4. Row(empty, 0, 0)
      BY NoRow
    <3>5. QED BY <3>1, <3>2, <3>3, <3>4
  <2>3. p \in [0..n -> Nat]
    OBVIOUS
  <2>4. Coming(c) = empty
    BY <2>1 DEF Coming
  <2> HIDE DEF p
  <2>5. Flow(fs, 1, empty, n, p)
    BY <2>2, <2>3 DEF Flow
  <2>6. QED BY <2>1, <2>4, <2>5 DEF InChain, p
<1> DEFINE a == [i \in 0..SourceFilters |-> 0]
           b == [i \in 0..SinkFilters |-> 0]
<1>2. InChain("source", a) /\ InChain("sink", b)
  BY <1>1, Both DEF Length
<1>3. a[0] = 0 /\ a[SourceFilters] = 0 /\ b[0] = 0 /\ b[SinkFilters] = 0
  BY FiltersAssumption
<1> HIDE DEF a, b
<1>4. given = 0 /\ Between = empty /\ AtSink = empty /\ stored = empty /\ Len(stored) = 0
  BY Kinds DEF Init, Between, AtSink
<1>5. Row(empty, 0, 0) /\ Row(empty, 0, 0 - 0)
  BY NoRow
<1>6. Marked(a, b)
  BY <1>2, <1>3, <1>4, <1>5 DEF Marked
<1>7. QED BY <1>6 DEF FlowInv

\* A chain that is left alone, or entered with no data.
LEMMA InChainKept ==
    ASSUME NEW c \in Chains, NEW p, InChain(c, p), Typed, UNCHANGED <<filters[c], chains[c].index>>,
           ~IsData(Coming(c)), ~IsData(Coming(c)')
    PROVE  InChain(c, p)'
<1>1. Length(c) \in Nat
  BY LengthIs
<1>2. Flow(filters[c], chains[c].index, Coming(c), Length(c), p)
  BY DEF InChain
<1>3. Flow(filters[c], chains[c].index, Coming(c)', Length(c), p)
  BY <1>1, <1>2, FlowStill
<1>4. QED BY <1>3 DEF InChain, Length

LEMMA NotData == ~IsData(empty) /\ ~IsData(nil)
BY DEF IsData

LEMMA FilterFlow == IInv /\ FlowInv /\ (\E c \in Chains : filter_chain(c)) => FlowInv'
<1> SUFFICES ASSUME IInv, FlowInv, NEW c \in Chains, filter_chain(c) PROVE FlowInv'
  OBVIOUS
<1>1. PICK a, b : Marked(a, b)
  BY DEF FlowInv
<1>2. pc = c /\ MayCall(c) /\ Typed
  BY Both DEF filter_chain, IInv, Place
<1>3. /\ \A d \in Chains : d # c => filters'[d] = filters[d] /\ chains'[d] = chains[d]
      /\ UNCHANGED <<given, stored, refused>>
      /\ pc' = c \/ pc' = (IF c = "source" THEN "filtered" ELSE "drain")
  BY <1>2, ChainStep DEF program
<1>4. /\ a[0] \in Nat /\ a[SourceFilters] \in Nat /\ b[0] \in Nat /\ b[SinkFilters] \in Nat
      /\ Len(stored) \in Nat
  BY <1>1, <1>2, Ranges
<1>5. refused = "no"
  BY <1>2, Both DEF IInv, Told
<1>6. CASE c = "source"
  <2>1. PICK q :
             /\ q[0] = a[0]
             /\ \/ /\ pc' = c /\ q[Length(c)] = a[Length(c)]
                   /\ InChain(c, q)'
                \/ /\ pc' = (IF c = "source" THEN "filtered" ELSE "drain")
                   /\ q[Length(c)] >= a[Length(c)] /\ InChain(c, q)'
                   /\ Row(IF IsData(chunk') THEN chunk' ELSE empty, a[Length(c)],
                            q[Length(c)] - a[Length(c)])
    <3>1. InChain(c, a)
      BY <1>1, <1>6 DEF Marked
    <3>2. QED BY <1>2, <3>1, ChainFlow
  <2>2. Length(c) = SourceFilters
    BY <1>6 DEF Length
  <2>3. Between = empty /\ AtSink = empty /\ AtSink' = empty /\ Coming("sink") = empty
        /\ Coming("sink")' = empty
    BY <1>2, <1>3, <1>6 DEF Between, AtSink, Coming
  <2>4. b[0] = a[SourceFilters]
    BY <1>1, <1>4, <2>3, EmptyRow DEF Marked
  <2>5. InChain("sink", b)'
    <3>1. InChain("sink", b) /\ UNCHANGED <<filters["sink"], chains["sink"].index>>
      BY <1>1, <1>3, <1>6, Both DEF Marked
    <3>2. ~IsData(Coming("sink")) /\ ~IsData(Coming("sink")')
      BY <2>3, NotData
    <3>3. QED BY <1>2, <3>1, <3>2, InChainKept, Both
  <2>6. /\ InChain("source", q)' /\ q[SourceFilters] >= b[0]
        /\ Row(Between', b[0], q[SourceFilters] - b[0])
    <3>1. CASE pc' = "source" /\ q[SourceFilters] = a[SourceFilters] /\ InChain(c, q)'
      <4>1. Between' = empty
        BY <3>1 DEF Between
      <4>2. q[SourceFilters] - b[0] = 0
        BY <1>4, <2>4, <3>1
      <4>3. QED BY <1>4, <1>6, <2>4, <3>1, <4>1, <4>2, NoRow
    <3>2. CASE /\ pc' = "filtered" /\ q[SourceFilters] >= a[SourceFilters] /\ InChain(c, q)'
               /\ Row(IF IsData(chunk') THEN chunk' ELSE empty, a[SourceFilters],
                        q[SourceFilters] - a[SourceFilters])
      <4>1. Between' = IF IsData(chunk') THEN chunk' ELSE empty
        BY <3>2 DEF Between
      <4>2. QED BY <1>6, <2>4, <3>2, <4>1
    <3>3. QED BY <1>6, <2>1, <2>2, <3>1, <3>2
  <2>7. Marked(q, b)'
    BY <1>1, <1>3, <2>1, <2>3, <2>5, <2>6 DEF Marked
  <2>8. QED BY <2>7 DEF FlowInv
<1>7. CASE c = "sink"
  <2>1. PICK q :
             /\ q[0] = b[0]
             /\ \/ /\ pc' = c /\ q[Length(c)] = b[Length(c)]
                   /\ InChain(c, q)'
                \/ /\ pc' = (IF c = "source" THEN "filtered" ELSE "drain")
                   /\ q[Length(c)] >= b[Length(c)] /\ InChain(c, q)'
                   /\ Row(IF IsData(chunk') THEN chunk' ELSE empty, b[Length(c)],
                            q[Length(c)] - b[Length(c)])
    <3>1. InChain(c, b)
      BY <1>1, <1>7 DEF Marked
    <3>2. QED BY <1>2, <3>1, ChainFlow
  <2>2. Length(c) = SinkFilters
    BY <1>7 DEF Length
  <2>3. Between = empty /\ Between' = empty /\ AtSink = empty /\ Coming("source") = empty
        /\ Coming("source")' = empty
    BY <1>2, <1>3, <1>7 DEF Between, AtSink, Coming
  <2>4. Len(stored) = b[SinkFilters]
    BY <1>1, <1>4, <1>5, <2>3, EmptyRow DEF Marked
  <2>5. InChain("source", a)'
    <3>1. InChain("source", a) /\ UNCHANGED <<filters["source"], chains["source"].index>>
      BY <1>1, <1>3, <1>7, Both DEF Marked
    <3>2. ~IsData(Coming("source")) /\ ~IsData(Coming("source")')
      BY <2>3, NotData
    <3>3. QED BY <1>2, <3>1, <3>2, InChainKept, Both
  <2>6. /\ InChain("sink", q)' /\ q[SinkFilters] >= Len(stored)
        /\ Row(AtSink', Len(stored), q[SinkFilters] - Len(stored))
    <3>1. CASE pc' = "sink" /\ q[SinkFilters] = b[SinkFilters] /\ InChain(c, q)'
      <4>1. AtSink' = empty
        BY <3>1 DEF AtSink
      <4>2. q[SinkFilters] - Len(stored) = 0
        BY <1>4, <2>4, <3>1
      <4>3. QED BY <1>4, <1>7, <2>4, <3>1, <4>1, <4>2, NoRow
    <3>2. CASE /\ pc' = "drain" /\ q[SinkFilters] >= b[SinkFilters] /\ InChain(c, q)'
               /\ Row(IF IsData(chunk') THEN chunk' ELSE empty, b[SinkFilters],
                        q[SinkFilters] - b[SinkFilters])
      <4>1. AtSink' = IF IsData(chunk') THEN chunk' ELSE empty
        BY <3>2 DEF AtSink
      <4>2. QED BY <1>7, <2>4, <3>2, <4>1
    <3>3. QED BY <1>7, <2>1, <2>2, <3>1, <3>2
  <2>7. Marked(a, q)'
    BY <1>1, <1>3, <2>1, <2>3, <2>5, <2>6 DEF Marked
  <2>8. QED BY <2>7 DEF FlowInv
<1>8. QED BY <1>6, <1>7, Both

\* A chain without data on its way is entered with data that follows what it got.
LEMMA EnterFlow ==
    ASSUME NEW c \in Chains, IInv, Empty(c), NEW p, InChain(c, p), ~IsData(Coming(c)),
           NEW x \in Seq(Bytes), IsData(x), Enter(c, x), UNCHANGED filters,
           NEW k \in Nat, Row(x, p[0], k)
    PROVE  \E q : q[0] = p[0] + k /\ q[Length(c)] = p[Length(c)] /\ InChain(c, q)'
<1>1. Length(c) \in Nat /\ Length(c) # 0 /\ filters[c] \in [1..Length(c) -> Filter]
      /\ chains \in [Chains -> Upvalues] /\ x # nil
  BY LengthIs DEF IInv, Typed, IsData
<1>2. chains[c].index = 1 /\ chains'[c].index = 1 /\ chunk' = x /\ pc' = c
  <2>1. chains[c].index = 1
    BY Kinds DEF IInv, Shaped, Shape, Empty, Drained
  <2>2. chains' = [chains EXCEPT ![c].retry = IF x = nil THEN nil ELSE @] /\ chunk' = x /\ pc' = c
    BY DEF Enter
  <2>3. QED BY <1>1, <2>1, <2>2 DEF Upvalues
<1>3. Flow(filters[c], 0, empty, Length(c), p)
  <2>1. Flow(filters[c], chains[c].index, Coming(c), Length(c), p)
    BY DEF InChain
  <2>2. QED BY <1>1, <2>1, NotData, FlowStill
<1>4. PICK q : q[0] = p[0] + k /\ q[Length(c)] = p[Length(c)] /\ Flow(filters[c], 1, x, Length(c), q)
  BY <1>1, <1>3, FlowEnter
<1>5. InChain(c, q)'
  BY <1>2, <1>4 DEF InChain, Coming, Length
<1>6. QED BY <1>4, <1>5

LEMMA GivesFlow == IInv /\ FlowInv /\ SourceGives => FlowInv'
<1> SUFFICES ASSUME IInv, FlowInv, SourceGives PROVE FlowInv'
  OBVIOUS
<1>1. PICK a, b : Marked(a, b)
  BY DEF FlowInv
<1>2. PICK n \in 1..(Size - given) :
            given' = given + n /\ Enter("source", [i \in 1..n |-> given + i])
  BY DEF SourceGives
<1>3. PICK x : x = [i \in 1..n |-> given + i]
  OBVIOUS
<1>4. given \in Nat /\ Size \in Nat /\ n \in Nat /\ n # 0 /\ Typed
  BY SizeAssumption DEF IInv, Typed
<1>5. Row(x, given, n)
  <2>1. x \in Seq(Bytes) /\ Len(x) = n /\ \A i \in 1..n : x[i] = given + i
    BY <1>3, <1>4 DEF Bytes
  <2>2. QED BY <2>1 DEF Row
<1>6. x \in Seq(Bytes) /\ IsData(x)
  BY <1>4, <1>5, DataOrNot DEF Row
<1>7. pc = "pull" /\ Empty("source") /\ UNCHANGED <<filters, stored, refused>>
  BY DEF SourceGives, Feeding, IInv, Place
<1>8. pc' = "source" /\ chains' = [chains EXCEPT !["source"].retry = IF x = nil THEN nil ELSE @]
  BY <1>2, <1>3 DEF Enter
<1>9. PICK q : q[0] = a[0] + n /\ q[SourceFilters] = a[SourceFilters] /\ InChain("source", q)'
  <2>1. InChain("source", a) /\ a[0] = given /\ ~IsData(Coming("source")) /\ Length("source") = SourceFilters
    BY <1>1, <1>7, NotData DEF Marked, Coming, Length
  <2>2. QED BY <1>2, <1>3, <1>4, <1>5, <1>6, <1>7, <2>1, EnterFlow, Both
<1>10. Between = empty /\ Between' = empty /\ AtSink = empty /\ AtSink' = empty
       /\ Coming("sink") = empty /\ Coming("sink")' = empty
  BY <1>7, <1>8 DEF Between, AtSink, Coming
<1>11. InChain("sink", b)'
  <2>1. chains'["sink"] = chains["sink"]
    BY <1>4, <1>8, Both DEF Typed
  <2>2. InChain("sink", b) /\ UNCHANGED <<filters["sink"], chains["sink"].index>>
    BY <1>1, <1>7, <2>1 DEF Marked
  <2>3. QED BY <1>4, <1>10, <2>2, NotData, InChainKept, Both
<1>12. Marked(q, b)'
  BY <1>1, <1>2, <1>7, <1>9, <1>10, <1>11 DEF Marked
<1>13. QED BY <1>12 DEF FlowInv

\* A chain that the end, or "", enters.
LEMMA EndFlow ==
    ASSUME NEW c \in Chains, Typed, NEW p, InChain(c, p), ~IsData(Coming(c)),
           NEW x, ~IsData(x), Enter(c, x), UNCHANGED filters
    PROVE  InChain(c, p)'
<1>1. chains' = [chains EXCEPT ![c].retry = IF x = nil THEN nil ELSE @] /\ chunk' = x /\ pc' = c
  BY DEF Enter
<1>2. UNCHANGED <<filters[c], chains[c].index>>
  BY <1>1 DEF Typed, Upvalues
<1>3. ~IsData(Coming(c)')
  BY <1>1 DEF Coming
<1>4. QED BY <1>2, <1>3, InChainKept

\* A step that moves no data: the ends of the chains are told, or the pump turns.
LEMMA StillFlow ==
    ASSUME IInv, NEW a, NEW b, Marked(a, b),
           UNCHANGED <<given, filters, stored, refused>>, Between' = Between, AtSink' = AtSink,
           InChain("source", a)', InChain("sink", b)'
    PROVE  FlowInv'
<1>1. Marked(a, b)'
  BY DEF Marked
<1>2. QED BY <1>1 DEF FlowInv

LEMMA PullFlow == IInv /\ FlowInv /\ (SourceEnds \/ Eat) => FlowInv'
<1> SUFFICES ASSUME IInv, FlowInv, SourceEnds \/ Eat PROVE FlowInv'
  OBVIOUS
<1>1. PICK a, b : Marked(a, b)
  BY DEF FlowInv
<1>2. PICK x : ~IsData(x) /\ Enter("source", x)
  <2>1. CASE SourceEnds
    BY <2>1, NotData DEF SourceEnds
  <2>2. CASE Eat
    <3>1. feeder.last_in \in {empty, nil} /\ Enter("source", feeder.last_in)
      BY <2>2 DEF Eat, IInv, Told
    <3>2. QED BY <3>1, NotData
  <2>3. QED BY <2>1, <2>2
<1>3. pc = "pull" /\ UNCHANGED <<given, filters, stored, refused>> /\ Typed
  BY DEF SourceEnds, Eat, Feeding, program, IInv
<1>4. pc' = "source" /\ chunk' = x
      /\ chains' = [chains EXCEPT !["source"].retry = IF x = nil THEN nil ELSE @]
  BY <1>2 DEF Enter
<1>5. Between = empty /\ Between' = empty /\ AtSink = empty /\ AtSink' = empty
      /\ Coming("sink") = empty /\ Coming("sink")' = empty /\ Coming("source") = empty
  BY <1>3, <1>4 DEF Between, AtSink, Coming
<1>6. InChain("source", a)'
  <2>1. InChain("source", a) /\ ~IsData(Coming("source")) /\ UNCHANGED filters
    BY <1>1, <1>3, <1>5, NotData DEF Marked
  <2>2. QED BY <1>2, <1>3, <2>1, EndFlow, Both
<1>7. InChain("sink", b)'
  <2>1. chains'["sink"] = chains["sink"]
    BY <1>3, <1>4, Both DEF Typed
  <2>2. InChain("sink", b) /\ UNCHANGED <<filters["sink"], chains["sink"].index>>
    BY <1>1, <1>3, <2>1 DEF Marked
  <2>3. QED BY <1>3, <1>5, <2>2, NotData, InChainKept, Both
<1>8. QED BY <1>1, <1>3, <1>5, <1>6, <1>7, StillFlow

LEMMA SourceFlow ==
    IInv /\ FlowInv /\ (SourceFails \/ FilteredData \/ FilteredNothing \/ FilteredEnd) => FlowInv'
<1> SUFFICES ASSUME IInv, FlowInv, SourceFails \/ FilteredData \/ FilteredNothing \/ FilteredEnd
             PROVE  FlowInv'
  OBVIOUS
<1>1. PICK a, b : Marked(a, b)
  BY DEF FlowInv
<1>2. IInv'
  BY SourceStep
<1>3. UNCHANGED <<given, filters, chains, stored, refused>> /\ pc \in {"pull", "filtered"} /\ Typed
  BY DEF SourceFails, FilteredData, FilteredNothing, FilteredEnd, Feeding, program, IInv
<1>4. /\ pc' \in {"pull", "push", "done"}
      /\ \/ IsData(chunk) /\ chunk' = chunk /\ pc = "filtered" /\ pc' = "push"
         \/ (pc = "pull" \/ ~IsData(chunk)) /\ ~IsData(chunk') /\ pc' = "push"
         \/ (pc = "pull" \/ ~IsData(chunk)) /\ pc' \in {"pull", "done"}
  <2>1. CASE SourceFails
    BY <2>1, NotData DEF SourceFails, Feeding, Give
  <2>2. CASE FilteredData
    BY <2>2 DEF FilteredData, Give
  <2>3. CASE FilteredNothing
    BY <2>3, NotData DEF FilteredNothing, Raise
  <2>4. CASE FilteredEnd
    BY <2>4, NotData DEF FilteredEnd, Give, Raise
  <2>5. QED BY <2>1, <2>2, <2>3, <2>4
<1>5. Between' = Between /\ AtSink = empty /\ AtSink' = empty
      /\ Coming("sink") = empty /\ Coming("sink")' = empty
      /\ Coming("source") = empty /\ Coming("source")' = empty
  BY <1>3, <1>4 DEF Between, AtSink, Coming
<1>6. InChain("source", a)' /\ InChain("sink", b)'
  <2>1. InChain("source", a) /\ InChain("sink", b)
    BY <1>1 DEF Marked
  <2>2. QED BY <1>3, <1>5, <2>1, NotData, InChainKept, Both
<1>7. QED BY <1>1, <1>3, <1>5, <1>6, StillFlow

LEMMA PushFlow == IInv /\ FlowInv /\ Push => FlowInv'
<1> SUFFICES ASSUME IInv, FlowInv, Push PROVE FlowInv'
  OBVIOUS
<1>1. PICK a, b : Marked(a, b)
  BY DEF FlowInv
<1>2. /\ pc = "push" /\ chunk # empty /\ Enter("sink", chunk) /\ Typed
      /\ UNCHANGED <<given, filters, stored, refused>> /\ Empty("sink")
  BY DEF Push, program, IInv, Place
<1>3. pc' = "sink" /\ chunk' = chunk
      /\ chains' = [chains EXCEPT !["sink"].retry = IF chunk = nil THEN nil ELSE @]
  BY <1>2 DEF Enter
<1>4. /\ a[0] \in Nat /\ a[SourceFilters] \in Nat /\ b[0] \in Nat /\ b[SinkFilters] \in Nat
  BY <1>1, <1>2, Ranges
<1>5. Between' = empty /\ AtSink = empty /\ AtSink' = empty /\ Coming("sink") = empty
      /\ Coming("source") = empty /\ Coming("source")' = empty
  BY <1>2, <1>3 DEF Between, AtSink, Coming
<1>6. InChain("source", a)'
  <2>1. chains'["source"] = chains["source"]
    BY <1>2, <1>3, Both DEF Typed
  <2>2. InChain("source", a) /\ UNCHANGED <<filters["source"], chains["source"].index>>
    BY <1>1, <1>2, <2>1 DEF Marked
  <2>3. QED BY <1>2, <1>5, <2>2, NotData, InChainKept, Both
<1>7. InChain("sink", b) /\ ~IsData(Coming("sink")) /\ UNCHANGED filters
  BY <1>1, <1>2, <1>5, NotData DEF Marked
<1>8. CASE chunk = nil
  <2>1. Between = empty /\ ~IsData(chunk)
    BY <1>2, <1>8, NotData DEF Between
  <2>2. InChain("sink", b)'
    BY <1>2, <1>7, <2>1, EndFlow, Both
  <2>3. QED BY <1>1, <1>2, <1>5, <1>6, <2>1, <2>2, StillFlow
<1>9. CASE chunk # nil
  <2>1. IsData(chunk) /\ chunk \in Seq(Bytes) /\ Between = chunk
    BY <1>2, <1>9 DEF IsData, Between, Typed
  <2>2. PICK k \in Nat : k = a[SourceFilters] - b[0] /\ a[SourceFilters] = b[0] + k
    BY <1>1, <1>4 DEF Marked
  <2>3. Row(chunk, b[0], k)
    BY <1>1, <2>1, <2>2 DEF Marked
  <2>4. PICK q : q[0] = b[0] + k /\ q[Length("sink")] = b[Length("sink")] /\ InChain("sink", q)'
    BY <1>2, <1>7, <2>1, <2>3, EnterFlow, Both
  <2>5. q[0] = a[SourceFilters] /\ q[SinkFilters] = b[SinkFilters]
    BY <2>2, <2>4 DEF Length
  <2>6. Row(Between', q[0], a[SourceFilters] - q[0]) /\ q[0] <= a[SourceFilters]
    <3>1. a[SourceFilters] - q[0] = 0
      BY <1>4, <2>5
    <3>2. QED BY <1>4, <1>5, <2>5, <3>1, NoRow
  <2>7. Marked(a, q)'
    BY <1>1, <1>2, <1>5, <1>6, <2>4, <2>5, <2>6 DEF Marked
  <2>8. QED BY <2>7 DEF FlowInv
<1>10. QED BY <1>8, <1>9

LEMMA SinkFlow == IInv /\ FlowInv /\ (SinkAccepts \/ SinkRefuses) => FlowInv'
<1> SUFFICES ASSUME IInv, FlowInv, SinkAccepts \/ SinkRefuses PROVE FlowInv'
  OBVIOUS
<1>1. PICK a, b : Marked(a, b)
  BY DEF FlowInv
<1>2. /\ pc = "drain" /\ ~ended /\ refused = "no" /\ Typed /\ done \in {nil, empty}
      /\ UNCHANGED <<given, filters>>
  BY DEF SinkAccepts, SinkRefuses, IInv, Told, Typed
<1>3. /\ a[0] \in Nat /\ a[SourceFilters] \in Nat /\ b[0] \in Nat /\ b[SinkFilters] \in Nat
      /\ Len(stored) \in Nat
  BY <1>1, <1>2, Ranges
<1>4. Between = empty /\ Coming("source") = empty /\ Coming("sink") = empty
  BY <1>2 DEF Between, Coming
<1>5. ~IsData(Coming("source")) /\ ~IsData(Coming("sink")) /\ InChain("source", a) /\ InChain("sink", b)
  BY <1>1, <1>4, NotData DEF Marked
<1>6. CASE SinkRefuses
  <2>1. UNCHANGED <<stored, chains, chunk>> /\ pc' = "done" /\ refused' # "no"
    BY <1>6 DEF SinkRefuses, Pumped
  <2>2. Between' = empty /\ ~IsData(Coming("source")') /\ ~IsData(Coming("sink")')
    BY <2>1, NotData DEF Between, Coming
  <2>3. InChain("source", a)' /\ InChain("sink", b)'
    BY <1>2, <1>5, <2>1, <2>2, InChainKept, Both
  <2>4. Marked(a, b)'
    BY <1>1, <1>2, <1>4, <2>1, <2>2, <2>3 DEF Marked
  <2>5. QED BY <2>4 DEF FlowInv
<1>7. CASE SinkAccepts
  <2>1. /\ stored' = (IF IsData(chunk) THEN stored \o chunk ELSE stored) /\ refused' = refused
        /\ \/ Pumped(TRUE, srcErr) /\ UNCHANGED <<chains, chunk>>
           \/ Enter("sink", done)
    BY <1>2, <1>7 DEF SinkAccepts
  <2>2. /\ pc' # "drain" /\ pc' \notin {"source", "filtered", "push"}
        /\ InChain("source", a)' /\ InChain("sink", b)'
    <3>1. CASE Pumped(TRUE, srcErr) /\ UNCHANGED <<chains, chunk>>
      <4>1. pc' \in {"pull", "done"}
        BY <3>1 DEF Pumped, Raise
      <4>2. ~IsData(Coming("source")') /\ ~IsData(Coming("sink")')
        BY <4>1, NotData DEF Coming
      <4>3. QED BY <1>2, <1>5, <3>1, <4>1, <4>2, InChainKept, Both
    <3>2. CASE Enter("sink", done)
      <4>1. pc' = "sink" /\ chains' = [chains EXCEPT !["sink"].retry = IF done = nil THEN nil ELSE @]
        BY <3>2 DEF Enter
      <4>2. ~IsData(done) /\ ~IsData(Coming("source")')
        BY <1>2, <4>1, NotData DEF Coming
      <4>3. InChain("sink", b)'
        BY <1>2, <1>5, <3>2, <4>2, EndFlow, Both
      <4>4. chains'["source"] = chains["source"]
        BY <1>2, <4>1, Both DEF Typed
      <4>5. InChain("source", a)'
        BY <1>2, <1>5, <4>2, <4>4, InChainKept, Both
      <4>6. QED BY <4>1, <4>3, <4>5
    <3>3. QED BY <2>1, <3>1, <3>2
  <2>3. Between' = empty /\ AtSink' = empty
    BY <2>2 DEF Between, AtSink
  <2>4. PICK m \in Nat : m = b[SinkFilters] - Len(stored) /\ b[SinkFilters] = Len(stored) + m
    BY <1>1, <1>3 DEF Marked
  <2>5. Len(stored') = b[SinkFilters] /\ Row(stored', 0, b[SinkFilters])
    <3>1. Row(AtSink, Len(stored), m) /\ Row(stored, 0, Len(stored))
      BY <1>1, <1>2, <2>4 DEF Marked
    <3>2. CASE IsData(chunk)
      <4>1. AtSink = chunk /\ stored' = stored \o chunk
        BY <1>2, <2>1, <3>2 DEF AtSink
      <4>2. PICK l \in Nat : l = Len(stored) /\ 0 + l = l
        BY <1>3
      <4>3. Row(stored, 0, l) /\ Row(chunk, 0 + l, m)
        BY <3>1, <4>1, <4>2
      <4>4. Row(stored \o chunk, 0, l + m)
        BY <4>3, RowJoin
      <4>5. l + m = b[SinkFilters]
        BY <2>4, <4>2
      <4>6. QED BY <4>1, <4>4, <4>5 DEF Row
    <3>3. CASE ~IsData(chunk)
      <4>1. AtSink = empty /\ stored' = stored
        BY <2>1, <3>3 DEF AtSink
      <4>2. m = 0
        BY <3>1, <4>1, Kinds DEF Row
      <4>3. Len(stored) = b[SinkFilters]
        BY <1>3, <2>4, <4>2
      <4>4. QED BY <3>1, <4>1, <4>3
    <3>4. QED BY <3>2, <3>3
  <2>6. Row(AtSink', Len(stored'), b[SinkFilters] - Len(stored'))
    <3>1. b[SinkFilters] - Len(stored') = 0
      BY <1>3, <2>5
    <3>2. QED BY <1>3, <2>3, <2>5, <3>1, NoRow
  <2>7. Marked(a, b)'
    BY <1>1, <1>2, <1>3, <1>4, <2>2, <2>3, <2>5, <2>6 DEF Marked
  <2>8. QED BY <2>7 DEF FlowInv
<1>8. QED BY <1>6, <1>7

LEMMA NextFlow == IInv /\ FlowInv /\ [Next]_vars => FlowInv'
<1> SUFFICES ASSUME IInv, FlowInv, [Next]_vars PROVE FlowInv'
  OBVIOUS
<1>1. CASE UNCHANGED vars
  BY <1>1 DEF vars, FlowInv, Marked, InChain, Coming, Between, AtSink, Length
<1>2. CASE Next
  BY <1>2, GivesFlow, PullFlow, SourceFlow, PushFlow, SinkFlow, FilterFlow
     DEF Next, source_chain, sink_chain
<1>3. QED BY <1>1, <1>2

-----------------------------------------------------------------------------
\* The sink gets the bytes of the source in order, none twice, and all of them when the
\* pump reports success and the sink refused nothing: then each filter has given all and
\* said so.
THEOREM DeliveredCorrect == Spec => []Delivered
<1>1. IInv /\ FlowInv => Delivered
  <2> SUFFICES ASSUME IInv, FlowInv PROVE Delivered
    OBVIOUS
  <2>1. PICK a, b : Marked(a, b)
    BY DEF FlowInv
  <2>2. Typed /\ given \in Nat /\ Size \in Nat /\ given <= Size
    BY SizeAssumption DEF IInv, Typed
  <2>3. /\ a[0] \in Nat /\ a[SourceFilters] \in Nat /\ b[0] \in Nat /\ b[SinkFilters] \in Nat
        /\ Len(stored) \in Nat
    BY <2>1, <2>2, Ranges
  <2>4. PICK m \in Nat : m = Len(stored)
    BY <2>3
  <2>5. Row(stored, 0, m)
    BY <2>1, <2>4 DEF Marked
  <2>6. Row(Whole, 0, Size)
    <3>1. Row(Span(0, Size), 0, Size)
      BY <2>2, SpanRow
    <3>2. Span(0, Size) = Whole
      BY <2>2 DEF Span, Whole
    <3>3. QED BY <3>1, <3>2
  <2>7. PICK d \in Nat : d = Size
    BY <2>2
  <2>8. m <= d
    <3>1. a[SourceFilters] <= a[0] /\ b[SinkFilters] <= b[0]
      <4>1. /\ Flow(filters["source"], chains["source"].index, Coming("source"), SourceFilters, a)
            /\ Flow(filters["sink"], chains["sink"].index, Coming("sink"), SinkFilters, b)
        BY <2>1 DEF Marked, InChain, Length
      <4>2. SourceFilters \in Nat /\ SinkFilters \in Nat
        BY FiltersAssumption
      <4>3. QED BY <4>1, <4>2, FlowEnds
    <3>2. a[0] = given /\ b[0] <= a[SourceFilters] /\ Len(stored) <= b[SinkFilters]
      BY <2>1 DEF Marked
    <3>3. QED BY <2>2, <2>3, <2>4, <2>7, <3>1, <3>2
  <2>9. Len(stored) = m /\ Len(Whole) = d /\ stored \in Seq(Bytes)
    BY <2>5, <2>6, <2>7 DEF Row
  <2>10. IsPrefix(stored, Whole)
    <3>1. Row(SubSeq(Whole, 1, m), 0, m) /\ Row(SubSeq(stored, 1, m), 0, m)
      BY <2>5, <2>6, <2>7, <2>8, RowCut
    <3>2. SubSeq(stored, 1, m) = SubSeq(Whole, 1, m)
      BY <3>1, SameRow
    <3>3. QED BY <2>8, <2>9, <3>2 DEF IsPrefix
  <2>11. ASSUME result = "error", refused = "no" PROVE srcErr /\ ended
    BY <2>11 DEF IInv, Place, Told
  <2>12. ASSUME result = "ok", refused = "no"
         PROVE  /\ stored = Whole /\ ended
                /\ \A c \in Chains : \A i \in 1..Length(c) : filters[c][i].last_out = nil
    <3>1. pc = "done" /\ ended /\ Closed("sink") /\ Closed("source") /\ given = Size
      BY <2>12 DEF IInv, Place, Told, Stops
    <3>2. ASSUME NEW c \in Chains, NEW i \in 1..Length(c)
          PROVE  filters[c][i].last_out = nil /\ filters[c][i].held = empty
      <4>1. Closed(c) /\ Shaped(c) /\ Length(c) \in Nat
        BY <3>1, Both, LengthIs DEF IInv
      <4>2. PICK u : u = chains[c]
        OBVIOUS
      <4>3. u.top = Length(c) /\ filters[c][u.index].last_out = nil
        BY <4>1, <4>2 DEF Closed, Finished
      <4>4. u.index = Length(c)
        <5>1. u.index \in u.top..Length(c)
          BY <4>1, <4>2 DEF Shaped, Shape
        <5>2. QED BY <4>1, <4>3, <5>1
      <4>5. i = Length(c) \/ i < u.top
        BY <4>1, <4>3
      <4>6. (i < u.top => filters[c][i].last_out = nil)
            /\ (filters[c][i].last_out = nil => filters[c][i].held = empty)
        BY <4>1, <4>2 DEF Shaped, Shape
      <4>7. QED BY <4>3, <4>4, <4>5, <4>6
    <3>3. a[SourceFilters] = a[0] /\ b[SinkFilters] = b[0]
      <4>1. /\ Flow(filters["source"], chains["source"].index, empty, SourceFilters, a)
            /\ Flow(filters["sink"], chains["sink"].index, empty, SinkFilters, b)
        BY <2>1, <3>1 DEF Marked, InChain, Length, Coming
      <4>2. SourceFilters \in Nat /\ SinkFilters \in Nat
        BY FiltersAssumption
      <4>3. /\ \A i \in 1..SourceFilters : filters["source"][i].held = empty
            /\ \A i \in 1..SinkFilters : filters["sink"][i].held = empty
        BY <3>2, Both DEF Length
      <4>4. QED BY <4>1, <4>2, <4>3, NotData, FlowEnds
    <3>4. b[0] = a[SourceFilters]
      <4>1. Row(empty, b[0], a[SourceFilters] - b[0]) /\ b[0] <= a[SourceFilters]
        BY <2>1, <3>1 DEF Marked, Between
      <4>2. QED BY <2>3, <4>1, EmptyRow
    <3>5. m = b[SinkFilters]
      <4>1. Row(empty, m, b[SinkFilters] - m) /\ m <= b[SinkFilters]
        BY <2>1, <2>4, <2>12, <3>1 DEF Marked, AtSink
      <4>2. QED BY <2>3, <4>1, EmptyRow
    <3>6. m = d
      BY <2>1, <2>7, <3>1, <3>3, <3>4, <3>5 DEF Marked
    <3>7. stored = Whole
      BY <2>5, <2>6, <2>7, <3>6, SameRow
    <3>8. QED BY <3>1, <3>2, <3>7
  <2>13. QED BY <2>10, <2>11, <2>12 DEF Delivered
<1>2. QED BY <1>1, InitIInv, InitFlow, NextIInv, NextFlow, PTL DEF Spec
=============================================================================
