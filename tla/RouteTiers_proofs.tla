--------------------------- MODULE RouteTiers_proofs ---------------------------
(* What FlatMap, Filter and the positions of RouteTiers return, for lists of *)
(* any length. The library's induction theorems take an operator; what       *)
(* follows is induction by a least counterexample instead (LeastOf), which   *)
(* speaks of sets only. Then lists put together and cut, for the texts of    *)
(* ProviderCall_proofs.                                                      *)
EXTENDS RouteTiers, SequenceTheorems, WellFoundedInduction, TLAPS

\* How a flattened sequence is read off the sequence of sequences it comes from:
\* row by row, each from left to right, and every place of every row.
Reads(row, col, s, ss) ==
  /\ \A k \in DOMAIN s : /\ row[k] \in DOMAIN ss /\ col[k] \in DOMAIN ss[row[k]]
                         /\ s[k] = ss[row[k]][col[k]]
  /\ \A k, l \in DOMAIN s :
       k < l => row[k] < row[l] \/ (row[k] = row[l] /\ col[k] < col[l])
  /\ \A i \in DOMAIN ss : \A j \in DOMAIN ss[i] : \E k \in DOMAIN s : row[k] = i /\ col[k] = j

\* How a selection is read off a sequence: some of its places, in order.
ReadsAt(pos, p, s, places) ==
  /\ \A k \in DOMAIN p : pos[k] \in places /\ p[k] = s[pos[k]]
  /\ \A k, l \in DOMAIN p : k < l => pos[k] < pos[l]
  /\ \A i \in places : \E k \in DOMAIN p : pos[k] = i

\* Every set of naturals has a least one.
LEMMA LeastOf ==
  ASSUME NEW T, T \subseteq Nat, T # {}
  PROVE  \E m \in T : \A n \in T : m <= n
  <1> DEFINE R == OpToRel(<, Nat)
  <1>1. IsWellFoundedOn(R, Nat)
    BY NatLessThanWellFounded
  <1>2. \A x, y \in Nat : x < y => <<x, y>> \in R
    BY DEF OpToRel
  <1> HIDE DEF R
  <1>3. PICK x \in T : \A y \in T : ~ (<<y, x>> \in R)
    BY <1>1, WFMin, Zenon
  <1>4. ASSUME NEW y \in T PROVE x <= y
    <2>1. ~ (y < x)
      BY <1>2, <1>3
    <2> QED BY <2>1
  <1> QED BY <1>4

\* A function on 1..n is a list of length n.
LEMMA ListOf ==
  ASSUME NEW n \in Nat, NEW s, s = [i \in 1..n |-> s[i]]
  PROVE  IsList(s) /\ Len(s) = n /\ DOMAIN s = 1..n
  <1>1. s \in [1..n -> Range(s)]
    BY DEF Range
  <1>2. s \in Seq(Range(s))
    BY <1>1, SeqDef
  <1> QED BY <1>1, <1>2, LenProperties DEF IsList

\* A list is a sequence over its range.
LEMMA ListShape ==
  ASSUME NEW s, IsList(s)
  PROVE  Len(s) \in Nat /\ DOMAIN s = 1..Len(s) /\ s = [i \in 1..Len(s) |-> s[i]]
  BY LenProperties DEF IsList

\* Lists one after the other.
LEMMA PutTogether ==
  ASSUME NEW s, NEW t, IsList(s), IsList(t)
  PROVE  /\ IsList(s \o t) /\ Len(s \o t) = Len(s) + Len(t)
         /\ \A i \in 1..Len(s) : (s \o t)[i] = s[i]
         /\ \A i \in 1..Len(t) : (s \o t)[Len(s) + i] = t[i]
  <1> DEFINE S == Range(s) \cup Range(t)
  <1>1. s \in Seq(S) /\ t \in Seq(S)
    BY SeqMonotonic DEF IsList
  <1>2. Len(s) \in Nat /\ Len(t) \in Nat
    BY ListShape
  <1>3. /\ s \o t \in Seq(S) /\ Len(s \o t) = Len(s) + Len(t)
        /\ \A i \in 1..Len(s) + Len(t) : (s \o t)[i] = IF i <= Len(s) THEN s[i] ELSE t[i - Len(s)]
    BY <1>1, ConcatProperties
  <1>4. s \o t = [i \in 1..Len(s \o t) |-> (s \o t)[i]] /\ Len(s \o t) \in Nat
    BY <1>3, LenProperties
  <1> HIDE DEF S
  <1>5. IsList(s \o t)
    BY <1>4, ListOf
  <1>6. \A i \in 1..Len(s) : (s \o t)[i] = s[i]
    BY <1>2, <1>3
  <1>7. ASSUME NEW i \in 1..Len(t) PROVE (s \o t)[Len(s) + i] = t[i]
    <2>1. Len(s) + i \in 1..Len(s) + Len(t) /\ ~ (Len(s) + i <= Len(s)) /\ Len(s) + i - Len(s) = i
      BY <1>2
    <2> QED BY <1>3, <2>1
  <1> QED BY <1>3, <1>5, <1>6, <1>7

\* The range of two lists put together is the union of their ranges.
LEMMA PutTogetherRange ==
  ASSUME NEW s, NEW t, IsList(s), IsList(t)
  PROVE  Range(s \o t) = Range(s) \cup Range(t)
  <1>1. /\ DOMAIN s = 1..Len(s) /\ Len(s) \in Nat /\ DOMAIN t = 1..Len(t) /\ Len(t) \in Nat
        /\ DOMAIN (s \o t) = 1..(Len(s) + Len(t))
    BY PutTogether, ListShape
  <1>2. ASSUME NEW i \in DOMAIN (s \o t) PROVE (s \o t)[i] \in Range(s) \cup Range(t)
    <2>1. CASE i <= Len(s)
      <3>1. i \in DOMAIN s /\ (s \o t)[i] = s[i]
        BY <1>1, <2>1, PutTogether
      <3> QED BY <3>1 DEF Range
    <2>2. CASE ~ (i <= Len(s))
      <3>1. i - Len(s) \in DOMAIN t /\ Len(s) + (i - Len(s)) = i
        BY <1>1, <2>2
      <3>2. (s \o t)[i] = t[i - Len(s)]
        BY <1>1, <3>1, PutTogether
      <3> QED BY <3>1, <3>2 DEF Range
    <2> QED BY <2>1, <2>2
  <1>3. ASSUME NEW i \in DOMAIN s PROVE s[i] \in Range(s \o t)
    <2>1. i \in DOMAIN (s \o t) /\ (s \o t)[i] = s[i]
      BY <1>1, PutTogether
    <2> QED BY <2>1 DEF Range
  <1>4. ASSUME NEW i \in DOMAIN t PROVE t[i] \in Range(s \o t)
    <2>1. Len(s) + i \in DOMAIN (s \o t) /\ (s \o t)[Len(s) + i] = t[i]
      BY <1>1, PutTogether
    <2> QED BY <2>1 DEF Range
  <1> QED BY <1>2, <1>3, <1>4 DEF Range

\* The shortest lists.
LEMMA Single ==
  ASSUME NEW x
  PROVE  IsList(<<x>>) /\ DOMAIN <<x>> = {1} /\ <<x>>[1] = x /\ Range(<<x>>) = {x}
  <1>1. <<x>> = [k \in 1..1 |-> <<x>>[k]] /\ 1..1 = {1} /\ <<x>>[1] = x
    OBVIOUS
  <1>2. IsList(<<x>>) /\ DOMAIN <<x>> = 1..1
    BY <1>1, ListOf
  <1> QED BY <1>1, <1>2 DEF Range

\* The empty list has no elements.
LEMMA NoElement == IsList(<<>>) /\ DOMAIN <<>> = {} /\ Range(<<>>) = {}
  BY EmptySeq DEF IsList, Range

\* The first n steps of flattening ss.
Flattens(f, n, ss) == f = [i \in 1..n |-> IF i = 1 THEN ss[i] ELSE f[i - 1] \o ss[i]]

\* Flattening is defined for every list of lists.
LEMMA FlattenExists ==
  ASSUME NEW ss, NEW n \in Nat
  PROVE  \E f : Flattens(f, n, ss)
  <1> DEFINE T == {m \in Nat : ~ \E f : Flattens(f, m, ss)}
  <1>1. SUFFICES ASSUME T # {} PROVE FALSE
    OBVIOUS
  <1>2. PICK m \in T : \A k \in T : m <= k
    <2>1. T \subseteq Nat
      OBVIOUS
    <2> HIDE DEF T
    <2> QED BY <1>1, <2>1, LeastOf
  <1>3. CASE m = 0
    <2>1. Flattens(<<>>, 0, ss)
      BY DEF Flattens
    <2> QED BY <1>3, <2>1
  <1>4. CASE m # 0
    <2>1. m - 1 \in Nat /\ m - 1 \notin T /\ m \in Nat
      BY <1>2, <1>4
    <2>2. PICK g : Flattens(g, m - 1, ss)
      BY <2>1
    <2> DEFINE f == [i \in 1..m |-> IF i = m THEN IF i = 1 THEN ss[i] ELSE g[i - 1] \o ss[i] ELSE g[i]]
    <2>3. ASSUME NEW i \in 1..m PROVE f[i] = IF i = 1 THEN ss[i] ELSE f[i - 1] \o ss[i]
      <3>1. CASE i = m
        BY <2>1, <3>1
      <3>2. CASE i # m
        <4>1. i \in 1..(m - 1) /\ f[i] = g[i] /\ (i # 1 => i - 1 \in 1..(m - 1) /\ f[i - 1] = g[i - 1])
          BY <2>1, <3>2
        <4>2. g[i] = IF i = 1 THEN ss[i] ELSE g[i - 1] \o ss[i]
          BY <2>2, <4>1 DEF Flattens
        <4> QED BY <4>1, <4>2
      <3> QED BY <3>1, <3>2
    <2>4. f = [i \in 1..m |-> f[i]]
      OBVIOUS
    <2> HIDE DEF f
    <2>5. Flattens(f, m, ss)
      BY <2>3, <2>4 DEF Flattens
    <2> QED BY <2>5
  <1> QED BY <1>3, <1>4

\* What flattening returns for every list of lists.
LEMMA FlattenIs ==
  ASSUME NEW ss, IsList(ss), Len(ss) # 0
  PROVE  \E f : Flattens(f, Len(ss), ss) /\ FlattenSeq(ss) = f[Len(ss)]
  <1> DEFINE flatten == CHOOSE f : f = [i \in 1..Len(ss) |-> IF i = 1 THEN ss[i] ELSE f[i - 1] \o ss[i]]
  <1>1. \E f : f = [i \in 1..Len(ss) |-> IF i = 1 THEN ss[i] ELSE f[i - 1] \o ss[i]]
    <2>1. PICK f : Flattens(f, Len(ss), ss)
      BY FlattenExists, ListShape
    <2> QED BY <2>1 DEF Flattens
  <1>2. Flattens(flatten, Len(ss), ss)
    BY <1>1, Zenon DEF Flattens
  <1>3. FlattenSeq(ss) = flatten[Len(ss)]
    BY Zenon DEF FlattenSeq
  <1> QED BY <1>2, <1>3

\* One more row.
LEMMA ReadsOn ==
  ASSUME NEW a, IsList(a), NEW row, NEW col, NEW pre, IsList(pre), Reads(row, col, a, pre),
         NEW b, IsList(b),
         NEW ss, IsList(ss), Len(ss) = Len(pre) + 1, ss[Len(ss)] = b,
         \A i \in DOMAIN pre : ss[i] = pre[i]
  PROVE  \E r, c : Reads(r, c, a \o b, ss)
  <1> DEFINE n == Len(ss)
             r == [k \in DOMAIN (a \o b) |-> IF k <= Len(a) THEN row[k] ELSE n]
             c == [k \in DOMAIN (a \o b) |-> IF k <= Len(a) THEN col[k] ELSE k - Len(a)]
  <1>1. /\ Len(a) \in Nat /\ Len(b) \in Nat /\ n \in Nat /\ Len(pre) = n - 1 /\ Len(pre) \in Nat
        /\ DOMAIN a = 1..Len(a) /\ DOMAIN b = 1..Len(b) /\ DOMAIN ss = 1..n /\ DOMAIN pre = 1..(n - 1)
    BY ListShape
  <1>2. DOMAIN (a \o b) = 1..(Len(a) + Len(b))
    BY PutTogether, ListShape
  <1>3. \A k \in DOMAIN a : /\ k \in DOMAIN (a \o b) /\ r[k] = row[k] /\ c[k] = col[k]
                            /\ (a \o b)[k] = a[k] /\ row[k] \in 1..(n - 1) /\ ss[row[k]] = pre[row[k]]
                            /\ col[k] \in DOMAIN pre[row[k]] /\ a[k] = pre[row[k]][col[k]]
    BY <1>1, <1>2, PutTogether DEF Reads
  <1>4. \A k \in DOMAIN (a \o b) :
          k \notin DOMAIN a => /\ r[k] = n /\ c[k] = k - Len(a) /\ k - Len(a) \in 1..Len(b)
                             /\ (a \o b)[k] = b[k - Len(a)]
    <2> TAKE k \in DOMAIN (a \o b)
    <2> HAVE k \notin DOMAIN a
    <2>1. k \in Nat /\ ~ (k <= Len(a)) /\ k - Len(a) \in 1..Len(b) /\ Len(a) + (k - Len(a)) = k
      BY <1>1, <1>2
    <2> QED BY <2>1, PutTogether
  <1> HIDE DEF r, c
  <1>5. ASSUME NEW k \in DOMAIN (a \o b)
        PROVE  r[k] \in DOMAIN ss /\ c[k] \in DOMAIN ss[r[k]] /\ (a \o b)[k] = ss[r[k]][c[k]]
    <2>1. CASE k \in DOMAIN a
      BY <1>1, <1>3, <2>1
    <2>2. CASE k \notin DOMAIN a
      BY <1>1, <1>4, <2>2
    <2> QED BY <2>1, <2>2
  <1>6. ASSUME NEW k \in DOMAIN (a \o b), NEW l \in DOMAIN (a \o b), k < l
        PROVE  r[k] < r[l] \/ (r[k] = r[l] /\ c[k] < c[l])
    <2>1. CASE l \in DOMAIN a
      <3>1. k \in DOMAIN a
        BY <1>1, <1>2, <1>6, <2>1
      <3>2. row[k] < row[l] \/ (row[k] = row[l] /\ col[k] < col[l])
        BY <1>6, <2>1, <3>1 DEF Reads
      <3>3. r[k] = row[k] /\ r[l] = row[l] /\ c[k] = col[k] /\ c[l] = col[l]
        BY <1>3, <2>1, <3>1
      <3> QED BY <3>2, <3>3
    <2>2. CASE l \notin DOMAIN a /\ k \in DOMAIN a
      BY <1>1, <1>3, <1>4, <2>2
    <2>3. CASE l \notin DOMAIN a /\ k \notin DOMAIN a
      <3>1. k \in Nat /\ l \in Nat
        BY <1>1, <1>2
      <3> QED BY <1>1, <1>4, <1>6, <2>3, <3>1
    <2> QED BY <2>1, <2>2, <2>3
  <1>7. ASSUME NEW i \in DOMAIN ss, NEW j \in DOMAIN ss[i]
        PROVE  \E k \in DOMAIN (a \o b) : r[k] = i /\ c[k] = j
    <2>1. CASE i # n
      <3>1. i \in DOMAIN pre /\ j \in DOMAIN pre[i]
        BY <1>1, <2>1
      <3>2. PICK k \in DOMAIN a : row[k] = i /\ col[k] = j
        BY <3>1 DEF Reads
      <3> QED BY <1>3, <3>2
    <2>2. CASE i = n
      <3> DEFINE k == Len(a) + j
      <3>1. j \in 1..Len(b) /\ k \in DOMAIN (a \o b) /\ k \notin DOMAIN a /\ k - Len(a) = j
        BY <1>1, <1>2, <2>2
      <3> HIDE DEF k
      <3>2. r[k] = i /\ c[k] = j
        BY <1>4, <2>2, <3>1
      <3> QED BY <3>1, <3>2
    <2> QED BY <2>1, <2>2
  <1>8. Reads(r, c, a \o b, ss)
    BY <1>5, <1>6, <1>7, Zenon DEF Reads
  <1> QED BY <1>8

\* FlattenSeq is read off its rows.
LEMMA FlattenReads ==
  ASSUME NEW ss, IsList(ss), \A i \in DOMAIN ss : IsList(ss[i])
  PROVE  /\ IsList(FlattenSeq(ss))
         /\ \E row, col : Reads(row, col, FlattenSeq(ss), ss)
  <1>0. Len(ss) \in Nat /\ DOMAIN ss = 1..Len(ss)
    BY ListShape
  <1>1. CASE Len(ss) = 0
    <2>1. FlattenSeq(ss) = ss
      BY <1>1 DEF FlattenSeq
    <2>2. DOMAIN ss = {}
      BY <1>0, <1>1
    <2>3. Reads(<<>>, <<>>, ss, ss)
      BY <2>2 DEF Reads
    <2> QED BY <2>1, <2>3
  <1>2. CASE Len(ss) # 0
    <2>1. PICK f : Flattens(f, Len(ss), ss) /\ FlattenSeq(ss) = f[Len(ss)]
      BY <1>2, FlattenIs
    <2>2. \A n \in 1..Len(ss) : f[n] = IF n = 1 THEN ss[n] ELSE f[n - 1] \o ss[n]
      BY <2>1 DEF Flattens
    <2> DEFINE Upto(n) == [i \in 1..n |-> ss[i]]
               Good(n) == IsList(f[n]) /\ \E row, col : Reads(row, col, f[n], Upto(n))
               T == {n \in 1..Len(ss) : ~ Good(n)}
    <2>3. ASSUME NEW n \in 1..Len(ss)
          PROVE  IsList(Upto(n)) /\ Len(Upto(n)) = n /\ DOMAIN Upto(n) = 1..n /\ \A i \in 1..n : Upto(n)[i] = ss[i]
      <3>1. n \in Nat /\ Upto(n) = [i \in 1..n |-> Upto(n)[i]]
        BY <1>0
      <3> QED BY <3>1, ListOf
    <2>4. Good(1)
      <3> DEFINE ones == [k \in DOMAIN ss[1] |-> 1]
                 same == [k \in DOMAIN ss[1] |-> k]
      <3>1. 1 \in 1..Len(ss) /\ f[1] = ss[1] /\ IsList(ss[1])
        BY <1>0, <1>2, <2>2
      <3>2. DOMAIN Upto(1) = {1} /\ Upto(1)[1] = ss[1]
        BY <2>3, <3>1
      <3>3. DOMAIN ss[1] = 1..Len(ss[1]) /\ Len(ss[1]) \in Nat
        BY <3>1, ListShape
      <3>4. \A k \in DOMAIN ss[1] : ones[k] = 1 /\ same[k] = k
        OBVIOUS
      <3> HIDE DEF Upto, ones, same
      <3>5. Reads(ones, same, f[1], Upto(1))
        BY <3>1, <3>2, <3>3, <3>4 DEF Reads
      <3> QED BY <3>1, <3>5 DEF Good
    <2>5. ASSUME NEW n \in 1..Len(ss), n # 1, Good(n - 1) PROVE Good(n)
      <3>0. n - 1 \in 1..Len(ss) /\ n - 1 \in Nat /\ n - 1 + 1 = n
        BY <1>0, <2>5
      <3>1. /\ n - 1 \in 1..Len(ss) /\ n - 1 \in Nat /\ n - 1 + 1 = n
            /\ f[n] = f[n - 1] \o ss[n] /\ IsList(ss[n]) /\ IsList(f[n - 1])
        <4>1. f[n] = f[n - 1] \o ss[n]
          BY <2>2, <2>5
        <4>2. IsList(ss[n])
          BY <1>0
        <4> QED BY <2>5, <3>0, <4>1, <4>2
      <3>2. PICK row, col : Reads(row, col, f[n - 1], Upto(n - 1))
        BY <2>5
      <3>3. /\ IsList(Upto(n)) /\ Len(Upto(n)) = n /\ Upto(n)[Len(Upto(n))] = ss[n]
            /\ IsList(Upto(n - 1)) /\ Len(Upto(n - 1)) = n - 1
            /\ \A i \in DOMAIN Upto(n - 1) : Upto(n)[i] = Upto(n - 1)[i]
        BY <1>0, <2>3, <3>1
      <3> HIDE DEF Upto
      <3>4. \E r, c : Reads(r, c, f[n - 1] \o ss[n], Upto(n))
        BY <3>1, <3>2, <3>3, ReadsOn
      <3>5. IsList(f[n - 1] \o ss[n])
        BY <3>1, PutTogether
      <3> QED BY <3>1, <3>4, <3>5
    <2>6. T = {}
      <3> SUFFICES ASSUME T # {} PROVE FALSE
        OBVIOUS
      <3>1. T \subseteq Nat
        BY <1>0
      <3>2. PICK m \in T : \A k \in T : m <= k
        <4> HIDE DEF T
        <4> QED BY <3>1, LeastOf
      <3> HIDE DEF Good
      <3>3. m \in 1..Len(ss) /\ ~ Good(m) /\ m # 1
        BY <2>4, <3>2
      <3>4. m - 1 \in 1..Len(ss) /\ m - 1 \notin T
        BY <1>0, <3>1, <3>2, <3>3
      <3>5. Good(m - 1)
        BY <3>4
      <3> QED BY <2>5, <3>3, <3>5
    <2>7. Upto(Len(ss)) = ss
      BY ListShape
    <2>8. Good(Len(ss))
      <3>1. Len(ss) \in 1..Len(ss)
        BY <1>0, <1>2
      <3> HIDE DEF Good
      <3> QED BY <2>6, <3>1
    <2> QED BY <2>1, <2>7, <2>8
  <1> QED BY <1>1, <1>2

\* What is in a flattened sequence is in one of its rows.
LEMMA FlattenRange ==
  ASSUME NEW ss, IsList(ss), \A i \in DOMAIN ss : IsList(ss[i])
  PROVE  /\ \A k \in DOMAIN FlattenSeq(ss) :
              \E i \in DOMAIN ss : \E j \in DOMAIN ss[i] : FlattenSeq(ss)[k] = ss[i][j]
         /\ \A i \in DOMAIN ss : \A j \in DOMAIN ss[i] :
              \E k \in DOMAIN FlattenSeq(ss) : FlattenSeq(ss)[k] = ss[i][j]
  <1>1. PICK row, col : Reads(row, col, FlattenSeq(ss), ss)
    BY FlattenReads
  <1>2. ASSUME NEW k \in DOMAIN FlattenSeq(ss)
        PROVE  \E i \in DOMAIN ss : \E j \in DOMAIN ss[i] : FlattenSeq(ss)[k] = ss[i][j]
    BY <1>1 DEF Reads
  <1>3. ASSUME NEW i \in DOMAIN ss, NEW j \in DOMAIN ss[i]
        PROVE  \E k \in DOMAIN FlattenSeq(ss) : FlattenSeq(ss)[k] = ss[i][j]
    BY <1>1 DEF Reads
  <1> QED BY <1>2, <1>3

\* ElementsAt(s, places) has the elements of s at those places, in their order.
LEMMA ElementsAtReads ==
  ASSUME NEW s, IsList(s), NEW places, places \subseteq DOMAIN s
  PROVE  /\ IsList(ElementsAt(s, places))
         /\ \E pos : ReadsAt(pos, ElementsAt(s, places), s, places)
  <1> DEFINE ss == [i \in DOMAIN s |-> IF i \in places THEN <<s[i]>> ELSE <<>>]
             p == ElementsAt(s, places)
  <1>1. p = FlattenSeq(ss) /\ DOMAIN ss = DOMAIN s
    BY DEF ElementsAt
  <1>2. DOMAIN s = 1..Len(s) /\ Len(s) \in Nat
    BY ListShape
  <1>3. \A i \in DOMAIN s : ss[i] = IF i \in places THEN <<s[i]>> ELSE <<>>
    OBVIOUS
  <1>4. IsList(ss)
    <2>1. ss = [i \in 1..Len(s) |-> ss[i]]
      BY <1>2
    <2> HIDE DEF ss
    <2> QED BY <1>2, <2>1, ListOf
  <1> HIDE DEF ss, p
  <1>5. ASSUME NEW i \in DOMAIN s
        PROVE  IsList(ss[i]) /\ DOMAIN ss[i] = (IF i \in places THEN {1} ELSE {})
               /\ (i \in places => ss[i][1] = s[i])
    <2>1. CASE i \in places
      <3>1. ss[i] = <<s[i]>>
        BY <1>3, <2>1
      <3> QED BY <2>1, <3>1, Single
    <2>2. CASE i \notin places
      <3>1. ss[i] = <<>>
        BY <1>3, <2>2
      <3> QED BY <2>2, <3>1, NoElement
    <2> QED BY <2>1, <2>2
  <1>6. IsList(p)
    BY <1>1, <1>4, <1>5, FlattenReads
  <1>7. PICK row, col : Reads(row, col, p, ss)
    BY <1>1, <1>4, <1>5, FlattenReads
  <1>8. ASSUME NEW k \in DOMAIN p PROVE row[k] \in places /\ col[k] = 1 /\ p[k] = s[row[k]]
    <2>1. row[k] \in DOMAIN s /\ col[k] \in DOMAIN ss[row[k]] /\ p[k] = ss[row[k]][col[k]]
      BY <1>1, <1>7 DEF Reads
    <2>2. row[k] \in places /\ col[k] = 1
      BY <1>5, <2>1
    <2> QED BY <1>5, <2>1, <2>2
  <1>9. ASSUME NEW k \in DOMAIN p, NEW l \in DOMAIN p, k < l PROVE row[k] < row[l]
    <2>1. row[k] < row[l] \/ (row[k] = row[l] /\ col[k] < col[l])
      BY <1>7, <1>9 DEF Reads
    <2>2. col[k] = 1 /\ col[l] = 1
      BY <1>8
    <2> QED BY <2>1, <2>2
  <1>10. ASSUME NEW i \in places PROVE \E k \in DOMAIN p : row[k] = i
    <2>1. i \in DOMAIN ss /\ 1 \in DOMAIN ss[i]
      BY <1>1, <1>5
    <2> QED BY <1>7, <2>1 DEF Reads
  <1>11. ReadsAt(row, p, s, places)
    BY <1>8, <1>9, <1>10 DEF ReadsAt
  <1> QED BY <1>6, <1>11 DEF p

\* Which elements those are.
LEMMA ElementsAtRange ==
  ASSUME NEW s, IsList(s), NEW places, places \subseteq DOMAIN s
  PROVE  Range(ElementsAt(s, places)) = {s[i] : i \in places}
  <1> DEFINE p == ElementsAt(s, places)
  <1>1. PICK pos : ReadsAt(pos, p, s, places)
    BY ElementsAtReads
  <1> HIDE DEF p
  <1>2. /\ \A k \in DOMAIN p : \E i \in places : p[k] = s[i]
        /\ \A i \in places : \E k \in DOMAIN p : p[k] = s[i]
    BY <1>1 DEF ReadsAt
  <1>3. Range(p) = {s[i] : i \in places}
    BY <1>2 DEF Range
  <1> QED BY <1>3 DEF p

\* Of any places of a list one is the first.
LEMMA FirstPlace ==
  ASSUME NEW s, IsList(s), NEW places, places \subseteq DOMAIN s, places # {}
  PROVE  \E i \in places : \A j \in 1..(i - 1) : j \notin places
  <1>1. places \subseteq Nat
    BY ListShape
  <1>2. PICK i \in places : \A j \in places : i <= j
    BY <1>1, LeastOf
  <1> QED BY <1>1, <1>2

\* FirstOf is the least place.
LEMMA FirstIs ==
  ASSUME NEW places, places \subseteq Nat, places # {}
  PROVE  FirstOf(places) \in places /\ \A j \in places : FirstOf(places) <= j
  <1>1. \E i \in places : \A j \in places : i <= j
    BY LeastOf
  <1> DEFINE First(i) == \A j \in places : i <= j
             f == CHOOSE i \in places : First(i)
  <1>2. f \in places /\ First(f)
    <2>1. \E i \in places : First(i)
      BY <1>1
    <2> HIDE DEF First
    <2> QED BY <2>1
  <1>3. FirstOf(places) = f
    BY Zenon DEF FirstOf
  <1> QED BY <1>2, <1>3

\* The place of a tier in the escalation from start: that many tiers come first.
RankFrom(n, start, tier) == IF tier >= start THEN tier - start ELSE n - tier

\* EscalationOrder goes once through all tiers.
LEMMA EscalationIs ==
  ASSUME NEW n \in Nat, NEW start \in Nat, start >= 1, start <= n + 1
  PROVE  LET e == EscalationOrder(n, start) IN
         /\ IsList(e) /\ DOMAIN e = 1..n
         /\ \A i \in 1..n : e[i] \in 1..n /\ RankFrom(n, start, e[i]) = i - 1
         /\ \A t \in 1..n : \E i \in 1..n : e[i] = t
  <1> DEFINE m == n - start + 1
             up == [i \in 1..m |-> start + i - 1]
             down == [i \in 1..(start - 1) |-> start - i]
             e == EscalationOrder(n, start)
  <1>1. e = up \o down
    BY DEF EscalationOrder
  <1>2. m \in Nat /\ start - 1 \in Nat /\ m + (start - 1) = n
    OBVIOUS
  <1>3. IsList(up) /\ Len(up) = m /\ \A i \in 1..m : up[i] = start + i - 1
    <2>1. up = [i \in 1..m |-> up[i]] /\ \A i \in 1..m : up[i] = start + i - 1
      OBVIOUS
    <2> HIDE DEF up
    <2> QED BY <1>2, <2>1, ListOf
  <1>4. IsList(down) /\ Len(down) = start - 1 /\ \A i \in 1..(start - 1) : down[i] = start - i
    <2>1. down = [i \in 1..(start - 1) |-> down[i]] /\ \A i \in 1..(start - 1) : down[i] = start - i
      OBVIOUS
    <2> HIDE DEF down
    <2> QED BY <1>2, <2>1, ListOf
  <1> HIDE DEF up, down, e
  <1>5. /\ IsList(e) /\ Len(e) = n /\ DOMAIN e = 1..n
        /\ \A i \in 1..m : e[i] = start + i - 1
        /\ \A i \in 1..(start - 1) : e[m + i] = start - i
    <2>0. IsList(e) /\ Len(e) = Len(up) + Len(down)
      BY <1>1, <1>3, <1>4, PutTogether
    <2>1. IsList(e) /\ Len(e) = n
      BY <1>2, <1>3, <1>4, <2>0
    <2>2. DOMAIN e = 1..n
      BY <2>1, ListShape
    <2>3. DOMAIN up = 1..m /\ DOMAIN down = 1..(start - 1)
      BY <1>3, <1>4, ListShape
    <2>4. /\ \A i \in DOMAIN up : e[i] = up[i]
          /\ \A i \in DOMAIN down : e[Len(up) + i] = down[i]
      <3>1. IsList(up) /\ IsList(down) /\ DOMAIN up = 1..Len(up) /\ DOMAIN down = 1..Len(down)
        BY <1>3, <1>4, ListShape
      <3> QED BY <1>1, <3>1, PutTogether
    <2>5. \A i \in 1..m : e[i] = start + i - 1
      BY <1>3, <2>3, <2>4
    <2>6. \A i \in 1..(start - 1) : e[m + i] = start - i
      BY <1>3, <1>4, <2>3, <2>4
    <2> QED BY <2>1, <2>2, <2>5, <2>6
  <1>6. ASSUME NEW i \in 1..n PROVE e[i] \in 1..n /\ RankFrom(n, start, e[i]) = i - 1
    <2>1. CASE i <= m
      <3>1. i \in 1..m
        BY <2>1
      <3>2. e[i] = start + i - 1
        BY <1>5, <3>1
      <3> QED BY <2>1, <3>2 DEF RankFrom
    <2>2. CASE i > m
      <3>1. i - m \in 1..(start - 1) /\ m + (i - m) = i
        BY <2>2
      <3>2. e[i] = start - (i - m)
        BY <1>5, <3>1
      <3> QED BY <3>1, <3>2 DEF RankFrom
    <2> QED BY <1>2, <2>1, <2>2
  <1>7. ASSUME NEW t \in 1..n PROVE \E i \in 1..n : e[i] = t
    <2>1. CASE t >= start
      <3>1. t - start + 1 \in 1..m /\ t - start + 1 \in 1..n /\ start + (t - start + 1) - 1 = t
        BY <2>1
      <3> QED BY <1>5, <3>1
    <2>2. CASE t < start
      <3>1. start - t \in 1..(start - 1) /\ m + (start - t) \in 1..n /\ start - (start - t) = t
        BY <2>2
      <3> QED BY <1>5, <3>1
    <2> QED BY <2>1, <2>2
  <1> QED BY <1>5, <1>6, <1>7 DEF e

-----------------------------------------------------------------------------
(* Lists one after the other *)

\* Lists that agree everywhere are the same.
LEMMA SameList ==
  ASSUME NEW s, NEW t, IsList(s), IsList(t), Len(s) = Len(t), \A i \in 1..Len(s) : s[i] = t[i]
  PROVE  s = t
  <1>1. s = [i \in 1..Len(s) |-> s[i]] /\ t = [i \in 1..Len(t) |-> t[i]]
    BY ListShape
  <1>2. [i \in 1..Len(s) |-> s[i]] = [i \in 1..Len(s) |-> t[i]]
    OBVIOUS
  <1> QED BY <1>1, <1>2

\* A sequence over a set is a list of elements of the set.
LEMMA SequenceIsList ==
  ASSUME NEW S, NEW s \in Seq(S)
  PROVE  IsList(s) /\ Range(s) \subseteq S
  <1>1. Len(s) \in Nat /\ s \in [1..Len(s) -> S]
    BY LenProperties
  <1>2. s = [i \in 1..Len(s) |-> s[i]] /\ Range(s) \subseteq S
    BY <1>1 DEF Range
  <1> QED BY <1>1, <1>2, ListOf

AreThree(s, t, u) == IsList(s) /\ IsList(t) /\ IsList(u)

\* Putting lists together is associative.
LEMMA Assoc ==
  ASSUME NEW s, NEW t, NEW u, AreThree(s, t, u)
  PROVE  (s \o t) \o u = s \o (t \o u)
  <1> DEFINE S == Range(s) \cup Range(t) \cup Range(u)
  <1>1. s \in Seq(S) /\ t \in Seq(S) /\ u \in Seq(S)
    BY SeqMonotonic DEF IsList, AreThree
  <1> HIDE DEF S
  <1> QED BY <1>1, ConcatAssociative

\* The empty list adds nothing.
LEMMA NothingAdded ==
  ASSUME NEW s, IsList(s)
  PROVE  s \o <<>> = s /\ <<>> \o s = s
  BY DEF IsList

\* The two parts a list is cut into.
LEMMA CutInTwo ==
  ASSUME NEW s, IsList(s), NEW n \in 0..Len(s)
  PROVE  LET a == SubSeq(s, 1, n)
             b == SubSeq(s, n + 1, Len(s))
         IN /\ IsList(a) /\ IsList(b) /\ Len(a) = n /\ Len(b) = Len(s) - n /\ s = a \o b
            /\ Range(a) \subseteq Range(s) /\ Range(b) \subseteq Range(s)
  <1> DEFINE a == SubSeq(s, 1, n)
             b == SubSeq(s, n + 1, Len(s))
  <1>1. Len(s) \in Nat /\ DOMAIN s = 1..Len(s)
    BY ListShape
  <1>2. /\ a \in Seq(Range(s)) /\ Len(a) = n /\ \A i \in 1..n : a[i] = s[i]
    <2>1. \A i \in 1..n : s[i] \in Range(s)
      BY <1>1 DEF Range
    <2>2. /\ SubSeq(s, 1, n) \in Seq(Range(s))
          /\ Len(SubSeq(s, 1, n)) = IF 1 <= n THEN n - 1 + 1 ELSE 0
          /\ \A i \in 1..(n - 1 + 1) : SubSeq(s, 1, n)[i] = s[1 + i - 1]
      BY <1>1, <2>1, SubSeqProperties
    <2>3. ASSUME NEW i \in 1..n PROVE a[i] = s[i]
      <3>1. i \in 1..(n - 1 + 1) /\ 1 + i - 1 = i
        OBVIOUS
      <3> QED BY <2>2, <3>1
    <2>4. Len(a) = n
      BY <1>1, <2>2
    <2> QED BY <2>2, <2>3, <2>4
  <1>3. /\ b \in Seq(Range(s)) /\ Len(b) = Len(s) - n /\ \A i \in 1..(Len(s) - n) : b[i] = s[n + i]
    <2>1. \A i \in (n + 1)..Len(s) : s[i] \in Range(s)
      BY <1>1 DEF Range
    <2>2. n + 1 \in Int /\ Len(s) \in Int /\ n \in Int
      BY <1>1
    <2>3. /\ SubSeq(s, n + 1, Len(s)) \in Seq(Range(s))
          /\ Len(SubSeq(s, n + 1, Len(s))) = IF n + 1 <= Len(s) THEN Len(s) - (n + 1) + 1 ELSE 0
          /\ \A i \in 1..(Len(s) - (n + 1) + 1) : SubSeq(s, n + 1, Len(s))[i] = s[n + 1 + i - 1]
      BY <2>1, <2>2, SubSeqProperties
    <2>4. ASSUME NEW i \in 1..(Len(s) - n) PROVE b[i] = s[n + i]
      <3>1. i \in 1..(Len(s) - (n + 1) + 1) /\ n + 1 + i - 1 = n + i
        BY <1>1
      <3> QED BY <2>3, <3>1
    <2>5. Len(b) = Len(s) - n
      <3>1. PICK l \in Nat : l = Len(s)
        BY <1>1
      <3>2. n \in Nat /\ n <= l /\ (n + 1 <= l => l - (n + 1) + 1 = l - n) /\ (~ (n + 1 <= l) => l - n = 0)
        BY <3>1
      <3> QED BY <2>3, <3>1, <3>2
    <2> QED BY <2>3, <2>4, <2>5
  <1> HIDE DEF a, b
  <1>4. IsList(a) /\ IsList(b) /\ Range(a) \subseteq Range(s) /\ Range(b) \subseteq Range(s)
    <2>1. ASSUME NEW t \in Seq(Range(s)) PROVE IsList(t) /\ Range(t) \subseteq Range(s)
      BY <2>1, SequenceIsList
    <2> QED BY <1>2, <1>3, <2>1
  <1>5. s = a \o b
    <2>1. IsList(a \o b) /\ Len(a \o b) = Len(s)
          /\ (\A i \in 1..n : (a \o b)[i] = a[i])
          /\ (\A i \in 1..(Len(s) - n) : (a \o b)[n + i] = b[i])
      <3>1. n + (Len(s) - n) = Len(s)
        BY <1>1
      <3> QED BY <1>2, <1>3, <1>4, <3>1, PutTogether
    <2>2. ASSUME NEW i \in 1..Len(s) PROVE s[i] = (a \o b)[i]
      <3>1. CASE i <= n
        BY <1>2, <2>1, <3>1
      <3>2. CASE ~ (i <= n)
        <4>1. i - n \in 1..(Len(s) - n) /\ n + (i - n) = i
          BY <1>1, <3>2
        <4> QED BY <1>3, <2>1, <4>1
      <3> QED BY <3>1, <3>2
    <2> QED BY <2>1, <2>2, SameList
  <1> QED BY <1>2, <1>3, <1>4, <1>5 DEF a, b

\* The beginning of two lists put together.
LEMMA Beginning ==
  ASSUME NEW s, NEW t, IsList(s), IsList(t)
  PROVE  SubSeq(s \o t, 1, Len(s)) = s
  <1>1. IsList(s \o t) /\ Len(s) \in 0..Len(s \o t) /\ Len(s) \in Nat /\ \A i \in 1..Len(s) : (s \o t)[i] = s[i]
    BY PutTogether, ListShape
  <1> DEFINE a == SubSeq(s \o t, 1, Len(s))
  <1>2. IsList(a) /\ Len(a) = Len(s) /\ s \o t = a \o SubSeq(s \o t, Len(s) + 1, Len(s \o t))
          /\ IsList(SubSeq(s \o t, Len(s) + 1, Len(s \o t)))
    BY <1>1, CutInTwo
  <1> HIDE DEF a
  <1>3. \A i \in 1..Len(a) : a[i] = s[i]
    <2>1. \A i \in 1..Len(a) : (a \o SubSeq(s \o t, Len(s) + 1, Len(s \o t)))[i] = a[i]
      BY <1>2, PutTogether
    <2> QED BY <1>1, <1>2, <2>1
  <1>4. a = s
    BY <1>2, <1>3, SameList
  <1> QED BY <1>4 DEF a

\* Appending is putting a list of one element after it.
LEMMA AppendsOne ==
  ASSUME NEW s, NEW x, IsList(s)
  PROVE  Append(s, x) = s \o <<x>>
  <1> DEFINE S == Range(s) \cup {x}
  <1>1. s \in Seq(S) /\ x \in S
    BY SeqMonotonic DEF IsList
  <1> HIDE DEF S
  <1> QED BY <1>1, AppendIsConcat

\* A list that is not empty is its head and its tail.
LEMMA HeadAndTail ==
  ASSUME NEW s, IsList(s), s # <<>>
  PROVE  /\ s = <<Head(s)>> \o Tail(s) /\ IsList(Tail(s)) /\ Len(s) \in Nat /\ Len(s) # 0
         /\ Head(s) = s[1] /\ 1 \in DOMAIN s
         /\ \A i \in DOMAIN Tail(s) : i + 1 \in DOMAIN s /\ Tail(s)[i] = s[i + 1]
  <1>1. s \in Seq(Range(s)) /\ Len(s) \in Nat /\ DOMAIN s = 1..Len(s)
    BY ListShape DEF IsList
  <1>2. Len(s) # 0
    BY <1>1, EmptySeq
  <1>3. Tail(s) \in Seq(Range(s)) /\ Len(Tail(s)) = Len(s) - 1
        /\ \A i \in 1..Len(Tail(s)) : Tail(s)[i] = s[i + 1]
    BY <1>1, HeadTailProperties
  <1>4. IsList(Tail(s)) /\ DOMAIN Tail(s) = 1..(Len(s) - 1)
    <2>1. DOMAIN Tail(s) = 1..Len(Tail(s)) /\ Len(Tail(s)) \in Nat
      BY <1>3, LenProperties
    <2>2. Tail(s) = [i \in 1..Len(Tail(s)) |-> Tail(s)[i]]
      BY <1>3, LenProperties
    <2>3. IsList(Tail(s))
      BY <2>1, <2>2, ListOf
    <2> QED BY <1>3, <2>1, <2>3
  <1>5. Head(s) = s[1] /\ 1 \in DOMAIN s
    BY <1>1, <1>2
  <1>6. \A i \in DOMAIN Tail(s) : i + 1 \in DOMAIN s /\ Tail(s)[i] = s[i + 1]
    BY <1>1, <1>3, <1>4
  <1>7. s = <<Head(s)>> \o Tail(s)
    <2> DEFINE t == <<Head(s)>> \o Tail(s)
    <2>1. IsList(<<Head(s)>>) /\ Len(<<Head(s)>>) = 1 /\ <<Head(s)>>[1] = s[1]
      BY <1>5, Single
    <2>2. IsList(t) /\ Len(t) = 1 + (Len(s) - 1) /\ (\A i \in 1..1 : t[i] = <<Head(s)>>[i])
          /\ \A i \in 1..(Len(s) - 1) : t[1 + i] = Tail(s)[i]
      BY <1>3, <1>4, <2>1, PutTogether
    <2> HIDE DEF t
    <2>3. ASSUME NEW i \in 1..Len(s) PROVE s[i] = t[i]
      <3>1. CASE i = 1
        BY <2>1, <2>2, <3>1
      <3>2. CASE i # 1
        <4>1. PICK k : k = i - 1
          OBVIOUS
        <4>2. k \in 1..(Len(s) - 1) /\ 1 + k = i /\ k + 1 = i
          BY <1>1, <3>2, <4>1
        <4>3. t[1 + k] = Tail(s)[k] /\ Tail(s)[k] = s[k + 1]
          BY <1>3, <2>2, <4>2
        <4> QED BY <4>2, <4>3
      <3> QED BY <3>1, <3>2
    <2>4. s = t
      BY <1>1, <2>2, <2>3, SameList
    <2> QED BY <2>4 DEF t
  <1> QED BY <1>1, <1>2, <1>4, <1>5, <1>6, <1>7

\* Lists of lists.
AreLists(ss) == IsList(ss) /\ \A i \in DOMAIN ss : IsList(ss[i])

\* One more row.
LEMMA OneRowMore ==
  ASSUME NEW ss, AreLists(ss), NEW b, IsList(b)
  PROVE  AreLists(ss \o <<b>>) /\ FlattenSeq(ss \o <<b>>) = FlattenSeq(ss) \o b
  <1> DEFINE tt == ss \o <<b>>
  <1>1. IsList(ss) /\ IsList(<<b>>) /\ Len(<<b>>) = 1 /\ <<b>>[1] = b /\ DOMAIN ss = 1..Len(ss)
    BY Single, ListShape DEF AreLists
  <1>2. PICK n \in Nat : n = Len(ss)
    BY <1>1, ListShape
  <1>3. IsList(tt) /\ Len(tt) = n + 1 /\ (\A i \in 1..n : tt[i] = ss[i]) /\ tt[n + 1] = b /\ DOMAIN tt = 1..(n + 1)
    <2>1. IsList(tt) /\ Len(tt) = Len(ss) + 1 /\ (\A i \in 1..Len(ss) : tt[i] = ss[i])
            /\ (\A i \in 1..1 : tt[Len(ss) + i] = <<b>>[i])
      BY <1>1, PutTogether
    <2>2. 1 \in 1..1
      OBVIOUS
    <2>3. tt[n + 1] = b
      BY <1>1, <1>2, <2>1, <2>2
    <2> HIDE DEF tt
    <2>4. DOMAIN tt = 1..Len(tt)
      BY <2>1, ListShape
    <2> QED BY <1>2, <2>1, <2>3, <2>4
  <1> HIDE DEF tt
  <1>4. AreLists(tt)
    <2>1. ASSUME NEW i \in DOMAIN tt PROVE IsList(tt[i])
      <3>1. i \in 1..n \/ i = n + 1
        BY <1>3
      <3> QED BY <1>1, <1>2, <1>3, <3>1 DEF AreLists
    <2> QED BY <1>3, <2>1 DEF AreLists
  <1>5. PICK g : Flattens(g, n + 1, tt) /\ FlattenSeq(tt) = g[n + 1]
    BY <1>3, FlattenIs
  <1>6. \A i \in 1..(n + 1) : g[i] = IF i = 1 THEN tt[i] ELSE g[i - 1] \o tt[i]
    BY <1>5 DEF Flattens
  <1>7. CASE n = 0
    <2>1. ss = <<>> /\ FlattenSeq(ss) = ss
      BY <1>1, <1>2, <1>7, EmptySeq DEF FlattenSeq, IsList
    <2>2. g[n + 1] = b
      BY <1>3, <1>6, <1>7
    <2> QED BY <1>4, <1>5, <2>1, <2>2, NothingAdded DEF tt
  <1>8. CASE n # 0
    <2>1. PICK f : Flattens(f, n, ss) /\ FlattenSeq(ss) = f[n]
      BY <1>1, <1>2, <1>8, FlattenIs
    <2>2. \A i \in 1..n : f[i] = IF i = 1 THEN ss[i] ELSE f[i - 1] \o ss[i]
      BY <2>1 DEF Flattens
    <2> DEFINE T == {i \in 1..n : f[i] # g[i]}
    <2>3. T = {}
      <3> SUFFICES ASSUME T # {} PROVE FALSE
        OBVIOUS
      <3>1. T \subseteq Nat
        OBVIOUS
      <3>2. PICK i \in T : \A k \in T : i <= k
        <4> HIDE DEF T
        <4> QED BY <3>1, LeastOf
      <3>3. i \in 1..n /\ i \in 1..(n + 1) /\ f[i] # g[i]
        OBVIOUS
      <3>4. CASE i = 1
        BY <1>3, <1>6, <2>2, <3>3, <3>4
      <3>5. CASE i # 1
        <4>1. i - 1 \in 1..n /\ ~ (i <= i - 1)
          BY <3>3, <3>5
        <4>2. f[i - 1] = g[i - 1]
          BY <3>2, <4>1
        <4> QED BY <1>3, <1>6, <2>2, <3>3, <3>5, <4>2
      <3> QED BY <3>4, <3>5
    <2>4. n \in 1..n /\ n + 1 \in 1..(n + 1) /\ n + 1 # 1 /\ n + 1 - 1 = n
      BY <1>8
    <2>5. f[n] = g[n]
      BY <2>3, <2>4
    <2>6. g[n + 1] = IF n + 1 = 1 THEN tt[n + 1] ELSE g[n + 1 - 1] \o tt[n + 1]
      <3>1. PICK k \in 1..(n + 1) : k = n + 1
        BY <2>4
      <3>2. g[k] = IF k = 1 THEN tt[k] ELSE g[k - 1] \o tt[k]
        BY <1>6
      <3> QED BY <3>1, <3>2
    <2>7. g[n + 1] = g[n] \o tt[n + 1]
      BY <2>4, <2>6
    <2> QED BY <1>3, <1>4, <1>5, <2>1, <2>5, <2>7 DEF tt
  <1> QED BY <1>7, <1>8

\* The rows of tt may be flattened after those of ss.
FlatAfter(ss, tt) ==
  /\ AreLists(ss) /\ AreLists(tt) /\ AreLists(ss \o tt)
  /\ FlattenSeq(ss \o tt) = FlattenSeq(ss) \o FlattenSeq(tt)

\* One row more after another list of rows.
LEMMA RowByRow ==
  ASSUME NEW ss, NEW tt, FlatAfter(ss, tt), NEW row, IsList(row)
  PROVE  FlatAfter(ss, tt \o <<row>>)
  <1>0. /\ AreLists(ss) /\ AreLists(tt) /\ AreLists(ss \o tt)
        /\ FlattenSeq(ss \o tt) = FlattenSeq(ss) \o FlattenSeq(tt)
    BY DEF FlatAfter
  <1>1. AreLists(tt \o <<row>>) /\ FlattenSeq(tt \o <<row>>) = FlattenSeq(tt) \o row
    BY <1>0, OneRowMore
  <1>2. AreLists((ss \o tt) \o <<row>>) /\ FlattenSeq((ss \o tt) \o <<row>>) = FlattenSeq(ss \o tt) \o row
    BY <1>0, OneRowMore
  <1>3. (ss \o tt) \o <<row>> = ss \o (tt \o <<row>>)
    <2>1. IsList(ss) /\ IsList(tt) /\ IsList(<<row>>)
      BY <1>0, Single DEF AreLists
    <2>2. AreThree(ss, tt, <<row>>)
      BY <2>1 DEF AreThree
    <2> QED BY <2>2, Assoc
  <1>4. IsList(FlattenSeq(ss)) /\ IsList(FlattenSeq(tt))
    BY <1>0, FlattenReads DEF AreLists
  <1>5. (FlattenSeq(ss) \o FlattenSeq(tt)) \o row = FlattenSeq(ss) \o (FlattenSeq(tt) \o row)
    <2>1. AreThree(FlattenSeq(ss), FlattenSeq(tt), row)
      BY <1>4 DEF AreThree
    <2> QED BY <2>1, Assoc
  <1> QED BY <1>0, <1>1, <1>2, <1>3, <1>5 DEF FlatAfter

\* Flattening lists put together puts their flattenings together.
LEMMA FlattenBoth ==
  ASSUME NEW ss, NEW tt, AreLists(ss), AreLists(tt)
  PROVE  /\ AreLists(ss \o tt) /\ IsList(FlattenSeq(ss)) /\ IsList(FlattenSeq(tt))
         /\ FlattenSeq(ss \o tt) = FlattenSeq(ss) \o FlattenSeq(tt)
  <1> DEFINE Upto(n) == SubSeq(tt, 1, n)
             Good(n) == FlatAfter(ss, Upto(n))
  <1>1. IsList(ss) /\ IsList(tt) /\ IsList(FlattenSeq(ss)) /\ IsList(FlattenSeq(tt)) /\ DOMAIN tt = 1..Len(tt)
    BY FlattenReads, ListShape DEF AreLists
  <1>2. PICK l \in Nat : l = Len(tt)
    BY <1>1, ListShape
  <1>3. Good(0)
    <2>1. Upto(0) = <<>>
      BY SubSeqEmpty
    <2>2. AreLists(<<>>) /\ FlattenSeq(<<>>) = <<>>
      <3>1. Len(<<>>) = 0
        BY EmptySeq
      <3> QED BY <3>1, NoElement DEF AreLists, FlattenSeq
    <2>3. ss \o <<>> = ss /\ FlattenSeq(ss) \o <<>> = FlattenSeq(ss)
      BY <1>1, NothingAdded
    <2> HIDE DEF Upto
    <2> QED BY <2>1, <2>2, <2>3 DEF FlatAfter
  <1>4. ASSUME NEW n \in 1..l, Good(n - 1) PROVE Good(n)
    <2>1. Upto(n) = Upto(n - 1) \o <<tt[n]>> /\ IsList(tt[n])
      <3>1. 1 \in 1..Len(tt) /\ n \in 1..Len(tt) /\ tt \in Seq(Range(tt))
        BY <1>1, <1>2 DEF IsList
      <3>2. SubSeq(tt, 1, n) = SubSeq(tt, 1, n - 1) \o <<tt[n]>>
        BY <3>1, SubSeqRecursiveSecond
      <3> QED BY <1>1, <3>1, <3>2 DEF AreLists
    <2> HIDE DEF Upto
    <2> QED BY <1>4, <2>1, RowByRow
  <1> DEFINE T == {n \in 0..l : ~ Good(n)}
  <1>5. T = {}
    <2> SUFFICES ASSUME T # {} PROVE FALSE
      OBVIOUS
    <2>1. T \subseteq Nat
      OBVIOUS
    <2>2. PICK n \in T : \A k \in T : n <= k
      <3> HIDE DEF T
      <3> QED BY <2>1, LeastOf
    <2> HIDE DEF Good
    <2>3. n \in 0..l /\ ~ Good(n) /\ n # 0
      BY <1>3
    <2>4. n \in 1..l /\ n - 1 \in 0..l /\ ~ (n <= n - 1)
      BY <2>3
    <2>5. n - 1 \notin T
      BY <2>2, <2>4
    <2>6. Good(n - 1)
      BY <2>4, <2>5
    <2> QED BY <1>4, <2>3, <2>4, <2>6
  <1>6. Good(l)
    <2>1. l \in 0..l
      OBVIOUS
    <2> HIDE DEF Good
    <2> QED BY <1>5, <2>1
  <1>7. Upto(l) = tt
    BY <1>1, <1>2, SubSeqFull DEF IsList
  <1> HIDE DEF Upto
  <1> QED BY <1>1, <1>6, <1>7 DEF FlatAfter
=============================================================================
