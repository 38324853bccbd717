-------------------------- MODULE StrategiesProofs --------------------------
(***************************************************************************)
(* Theorems about Strategies: what each way of handing out seats gives,    *)
(* for any number of students, sections and seats.  First the lists they   *)
(* work on - the sort, the concatenation of the pools, a pool -, then the  *)
(* loops.                                                                  *)
(***************************************************************************)
EXTENDS Strategies, AllocationProofs, WellFoundedInduction

\* Every nonempty set of natural numbers has a least element.
LEMMA SmallestNumber ==
    ASSUME NEW S, S \subseteq Nat, S # {}
    PROVE  \E n \in S : \A m \in S : n <= m
<1>1. PICK n \in S : \A m \in S : ~(<<m, n>> \in OpToRel(<, Nat))
    BY NatLessThanWellFounded, WFMin
<1>2. \A m \in S : ~(m < n)
    BY <1>1 DEF OpToRel
<1> QED BY <1>2

-----------------------------------------------------------------------------
(* The stable sort. *)

\* The list w is s with x at position p.
IsInserted(w, s, p, x) ==
    /\ Len(w) = Len(s) + 1
    /\ \A i \in 1..(Len(s) + 1) : w[i] = IF i < p THEN s[i] ELSE IF i = p THEN x ELSE s[i - 1]

\* What InsertAt puts where.
LEMMA Inserted ==
    ASSUME NEW S, NEW s \in Seq(S), NEW p \in 1..(Len(s) + 1), NEW x \in S
    PROVE  InsertAt(s, p, x) \in Seq(S) /\ IsInserted(InsertAt(s, p, x), s, p, x)
<1> DEFINE m == p - 1
<1>1. /\ Len(s) \in Nat /\ m \in Nat /\ m <= Len(s) /\ p = m + 1
      /\ \A i \in 1..Len(s) : s[i] \in S
    BY ElementOfSeq
<1>2. InsertAt(s, p, x) = SubSeq(s, 1, m) \o <<x>> \o SubSeq(s, m + 1, Len(s))
    BY <1>1 DEF InsertAt
<1> HIDE DEF m
<1> DEFINE head == SubSeq(s, 1, m)
           tail == SubSeq(s, m + 1, Len(s))
<1>3. /\ head \in Seq(S) /\ Len(head) = m
      /\ \A i \in 1..m : head[i] = s[i]
    <2>1. \A i \in 1..m : s[i] \in S
        BY <1>1
    <2>2. /\ head \in Seq(S)
          /\ Len(head) = IF 1 <= m THEN m - 1 + 1 ELSE 0
          /\ \A i \in 1..(m - 1 + 1) : head[i] = s[1 + i - 1]
        BY <1>1, <2>1, SubSeqProperties
    <2> HIDE DEF head
    <2> QED BY <1>1, <2>2
<1>4. /\ tail \in Seq(S) /\ Len(tail) = Len(s) - m
      /\ \A i \in 1..(Len(s) - m) : tail[i] = s[m + i]
    <2>1. \A i \in (m + 1)..Len(s) : s[i] \in S
        BY <1>1
    <2>2. /\ tail \in Seq(S)
          /\ Len(tail) = IF m + 1 <= Len(s) THEN Len(s) - (m + 1) + 1 ELSE 0
          /\ \A i \in 1..(Len(s) - (m + 1) + 1) : tail[i] = s[m + 1 + i - 1]
        BY <1>1, <2>1, SubSeqProperties
    <2> HIDE DEF tail
    <2> QED BY <1>1, <2>2
<1>5. InsertAt(s, p, x) = head \o <<x>> \o tail
    BY <1>2
<1> HIDE DEF head, tail
<1>6. <<x>> \in Seq(S) /\ Len(<<x>>) = 1 /\ <<x>>[1] = x
    OBVIOUS
<1>7. /\ head \o <<x>> \in Seq(S) /\ Len(head \o <<x>>) = m + 1
      /\ \A i \in 1..(m + 1) : (head \o <<x>>)[i] = IF i <= m THEN head[i] ELSE x
    <2>1. \A i \in 1..(m + 1) : i <= m \/ i - m = 1
        BY <1>1
    <2> QED BY <1>1, <1>3, <1>6, <2>1, ConcatProperties
<1> DEFINE front == head \o <<x>>
<1>8. front \in Seq(S) /\ Len(front) = m + 1
    BY <1>7
<1>9. \A i \in 1..(m + 1) : front[i] = IF i <= m THEN head[i] ELSE x
    BY <1>7
<1>10. InsertAt(s, p, x) = front \o tail
    BY <1>5
<1> DEFINE whole == front \o tail
<1> HIDE DEF front
<1>11. /\ whole \in Seq(S)
       /\ Len(whole) = Len(front) + Len(tail)
       /\ \A i \in 1..(Len(front) + Len(tail)) :
              whole[i] = IF i <= Len(front) THEN front[i] ELSE tail[i - Len(front)]
    BY <1>4, <1>8, ConcatProperties
<1> HIDE DEF whole
<1>12. Len(front) + Len(tail) = Len(s) + 1
    BY <1>1, <1>4, <1>8
<1>13. \A i \in 1..(Len(s) + 1) :
           whole[i] = IF i <= m + 1 THEN front[i] ELSE tail[i - (m + 1)]
    BY <1>8, <1>11, <1>12
<1>14. ASSUME NEW i \in 1..(Len(s) + 1)
       PROVE  whole[i] = IF i <= m THEN s[i] ELSE IF i = m + 1 THEN x ELSE s[i - 1]
    <2>1. CASE i <= m
        <3>1. i \in 1..m /\ i \in 1..(m + 1) /\ i <= m + 1
            BY <1>1, <2>1
        <3> QED BY <1>3, <1>9, <1>13, <2>1, <3>1
    <2>2. CASE i = m + 1
        <3>1. i \in 1..(m + 1) /\ ~(i <= m) /\ i <= m + 1
            BY <1>1, <2>2
        <3> QED BY <1>9, <1>13, <2>2, <3>1
    <2>3. CASE i > m + 1
        <3>1. i - (m + 1) \in 1..(Len(s) - m) /\ m + (i - (m + 1)) = i - 1
            BY <1>1, <2>3
        <3>2. ~(i <= m + 1) /\ ~(i <= m) /\ i # m + 1
            BY <1>1, <2>3
        <3>3. whole[i] = tail[i - (m + 1)]
            BY <1>13, <3>2
        <3> QED BY <1>4, <3>1, <3>2, <3>3
    <2> QED BY <1>1, <2>1, <2>2, <2>3
<1>15. InsertAt(s, p, x) = whole
    BY <1>10 DEF whole
<1>16. whole \in Seq(S) /\ Len(whole) = Len(s) + 1
    BY <1>11, <1>12
<1>17. \A i \in 1..(Len(s) + 1) :
           whole[i] = IF i < p THEN s[i] ELSE IF i = p THEN x ELSE s[i - 1]
    BY <1>1, <1>14
<1> QED BY <1>15, <1>16, <1>17 DEF IsInserted

\* The last of the positions 0..n that are 0 or satisfy a condition.
LEMMA LastStop ==
    ASSUME NEW n \in Nat, NEW S \in SUBSET (1..n)
    PROVE  /\ Max(S \union {0}) \in 0..n
           /\ Max(S \union {0}) # 0 => Max(S \union {0}) \in S
           /\ \A i \in S : i <= Max(S \union {0})
<1> DEFINE T == {n - i : i \in S \union {0}}
<1>1. T \subseteq Nat /\ T # {}
    OBVIOUS
<1>2. PICK t \in T : \A u \in T : t <= u
    <2> HIDE DEF T
    <2> QED BY <1>1, SmallestNumber
<1>3. PICK x \in S \union {0} : t = n - x
    BY <1>2
<1>4. \A y \in S \union {0} : x >= y
    <2> SUFFICES ASSUME NEW y \in S \union {0} PROVE x >= y
        OBVIOUS
    <2>1. n - y \in T
        OBVIOUS
    <2>2. n - x <= n - y
        BY <1>2, <1>3, <2>1
    <2>3. x \in Int /\ y \in Int
        OBVIOUS
    <2> QED BY <2>2, <2>3
<1>5. /\ Max(S \union {0}) \in S \union {0}
      /\ \A y \in S \union {0} : Max(S \union {0}) >= y
    BY <1>3, <1>4 DEF Max
<1> DEFINE last == Max(S \union {0})
<1>6. last \in S \union {0} /\ \A y \in S \union {0} : last >= y
    BY <1>5
<1> HIDE DEF T, last
<1>7. \A i \in S : i \in Nat /\ i \in S \union {0}
    OBVIOUS
<1>8. last \in 0..n
    BY <1>6
<1>9. last # 0 => last \in S
    BY <1>6
<1>10. \A i \in S : i <= last
    BY <1>6, <1>7, <1>8
<1> QED BY <1>8, <1>9, <1>10 DEF last

\* The orders of the positions 1..k that Places goes through.
IsOrder(f, n, P) ==
    f = [k \in 0..n |->
            IF k = 0 THEN << >>
            ELSE InsertAt(f[k - 1],
                          Max({i \in 1..(k - 1) : <<k, f[k - 1][i]>> \notin P} \union {0}) + 1,
                          k)]

\* There are such orders for every length.
LEMMA OrdersExist ==
    ASSUME NEW P
    PROVE  \A n \in Nat : \E f : IsOrder(f, n, P)
<1> DEFINE next(s, k) ==
               InsertAt(s, Max({i \in 1..(k - 1) : <<k, s[i]>> \notin P} \union {0}) + 1, k)
           bad == {n \in Nat : ~\E f : IsOrder(f, n, P)}
<1> SUFFICES ASSUME bad # {} PROVE FALSE
    OBVIOUS
<1>1. PICK n \in bad : \A m \in bad : n <= m
    BY SmallestNumber
<1>2. CASE n = 0
    <2>1. IsOrder([k \in 0..0 |-> << >>], 0, P)
        BY DEF IsOrder
    <2> QED BY <1>2, <2>1
<1>3. CASE n # 0
    <2>1. n - 1 \in Nat /\ n - 1 \notin bad
        BY <1>1, <1>3
    <2>2. PICK f : IsOrder(f, n - 1, P)
        BY <2>1
    <2> DEFINE g == [k \in 0..n |-> IF k = n THEN next(f[n - 1], n) ELSE f[k]]
    <2>3. \A k \in 0..(n - 1) : f[k] = IF k = 0 THEN << >> ELSE next(f[k - 1], k)
        BY <2>2 DEF IsOrder
    <2>4. \A k \in 0..n : k # 0 => k - 1 \in 0..n /\ k - 1 # n
        OBVIOUS
    <2>5. \A k \in 0..n : k = n \/ k \in 0..(n - 1)
        OBVIOUS
    <2> HIDE DEF next
    <2>6. \A k \in 0..n : g[k] = IF k = 0 THEN << >> ELSE next(g[k - 1], k)
        <3> SUFFICES ASSUME NEW k \in 0..n
                     PROVE  g[k] = IF k = 0 THEN << >> ELSE next(g[k - 1], k)
            OBVIOUS
        <3>1. CASE k = n
            <4>1. g[n - 1] = f[n - 1]
                BY <1>3, <2>4
            <4>2. g[n] = next(f[n - 1], n)
                BY <3>1
            <4> QED BY <1>3, <3>1, <4>1, <4>2
        <3>2. CASE k # n
            <4>1. k \in 0..(n - 1)
                BY <2>5, <3>2
            <4>2. g[k] = f[k]
                BY <3>2
            <4>3. k # 0 => g[k - 1] = f[k - 1]
                BY <2>4
            <4> HIDE DEF g
            <4> QED BY <2>3, <4>1, <4>2, <4>3
        <3> QED BY <3>1, <3>2
    <2>7. g = [k \in 0..n |-> g[k]]
        OBVIOUS
    <2> HIDE DEF g
    <2>8. g = [k \in 0..n |-> IF k = 0 THEN << >> ELSE next(g[k - 1], k)]
        BY <2>6, <2>7
    <2>9. IsOrder(g, n, P)
        BY <2>8 DEF IsOrder, next
    <2> QED BY <2>9
<1> QED BY <1>2, <1>3

\* Nothing comes before what comes before it.
Asymmetric(P) == \A a, b \in Nat : <<a, b>> \in P => <<b, a>> \notin P

\* Among the first n positions: what does not come before an element that
\* does not come before a third does not come before that third either.
TiesAreTransitive(n, P) ==
    \A a, b, c \in 1..n : <<b, a>> \notin P /\ <<c, b>> \notin P => <<c, a>> \notin P

\* The positions 1..k, each once, in an order where only what comes before
\* another has overtaken it.
Permuted(o, k, P) ==
    /\ o \in Seq(Nat) /\ Len(o) = k
    /\ \A i \in 1..k : o[i] \in 1..k
    /\ \A i, j \in 1..k : o[i] = o[j] => i = j
    /\ \A m \in 1..k : \E i \in 1..k : o[i] = m
    /\ \A i, j \in 1..k : i < j /\ o[i] > o[j] => <<o[i], o[j]>> \in P

\* Neighbours are in order, whatever P is.
NeighboursOrdered(o, k, P) == \A i \in 1..(k - 1) : <<o[i + 1], o[i]>> \notin P

\* All elements are in order.
AllOrdered(o, k, P) == \A i, j \in 1..k : i < j => <<o[j], o[i]>> \notin P

\* What the sort has made of the first k of n positions.
SortedSoFar(o, k, n, P) ==
    /\ Permuted(o, k, P)
    /\ Asymmetric(P) => NeighboursOrdered(o, k, P)
    /\ Asymmetric(P) /\ TiesAreTransitive(n, P) => AllOrdered(o, k, P)

\* One turn of the sort keeps what was achieved.
LEMMA InsertionSorts ==
    ASSUME NEW n \in Nat, NEW k \in 1..n, NEW P, NEW o, SortedSoFar(o, k - 1, n, P)
    PROVE  SortedSoFar(InsertAt(o, Max({i \in 1..(k - 1) : <<k, o[i]>> \notin P} \union {0}) + 1, k),
                       k, n, P)
<1> DEFINE stops == {i \in 1..(k - 1) : <<k, o[i]>> \notin P}
           m     == Max(stops \union {0})
           p     == m + 1
           w     == InsertAt(o, p, k)
<1>1. /\ k \in Nat /\ k - 1 \in Nat /\ k <= n
      /\ Permuted(o, k - 1, P) /\ o \in Seq(Nat) /\ Len(o) = k - 1
    BY DEF SortedSoFar, Permuted
<1>2. /\ m \in 0..(k - 1)
      /\ m # 0 => m \in stops
      /\ \A i \in stops : i <= m
    <2>1. stops \in SUBSET (1..(k - 1))
        OBVIOUS
    <2> HIDE DEF stops
    <2> QED BY <1>1, <2>1, LastStop
<1> HIDE DEF m
<1>3. \A i \in 1..(k - 1) : i > m => <<k, o[i]>> \in P
    <2> SUFFICES ASSUME NEW i \in 1..(k - 1), i > m PROVE <<k, o[i]>> \in P
        OBVIOUS
    <2>1. i \notin stops
        BY <1>1, <1>2
    <2> QED BY <2>1
<1>4. m # 0 => <<k, o[m]>> \notin P
    BY <1>2
<1> HIDE DEF stops
<1>5. /\ w \in Seq(Nat) /\ Len(w) = k
      /\ \A i \in 1..k : w[i] = IF i <= m THEN o[i] ELSE IF i = m + 1 THEN k ELSE o[i - 1]
    <2>1. p \in 1..(Len(o) + 1) /\ k \in Nat /\ Len(o) + 1 = k
        BY <1>1, <1>2
    <2>2. w \in Seq(Nat) /\ IsInserted(w, o, p, k)
        <3> HIDE DEF p
        <3> QED BY <1>1, <2>1, Inserted
    <2>3. \A i \in 1..k : (i < p <=> i <= m) /\ (i = p <=> i = m + 1)
        BY <1>1, <1>2
    <2> HIDE DEF w, p
    <2> QED BY <2>1, <2>2, <2>3 DEF IsInserted
<1> HIDE DEF w, p
<1>6. /\ m + 1 \in 1..k /\ w[m + 1] = k
      /\ \A a \in 1..(k - 1) : a <= m => a \in 1..k /\ w[a] = o[a]
      /\ \A a \in 1..(k - 1) : a > m => a + 1 \in 1..k /\ w[a + 1] = o[a]
    <2>1. m + 1 \in 1..k /\ ~(m + 1 <= m)
        BY <1>1, <1>2
    <2>2. w[m + 1] = k
        BY <1>5, <2>1
    <2>3. ASSUME NEW a \in 1..(k - 1), a <= m PROVE a \in 1..k /\ w[a] = o[a]
        <3>1. a \in 1..k
            BY <1>1
        <3> QED BY <1>5, <2>3, <3>1
    <2>4. ASSUME NEW a \in 1..(k - 1), a > m PROVE a + 1 \in 1..k /\ w[a + 1] = o[a]
        <3>1. a + 1 \in 1..k /\ ~(a + 1 <= m) /\ a + 1 # m + 1 /\ (a + 1) - 1 = a
            BY <1>1, <1>2, <2>4
        <3> QED BY <1>5, <3>1
    <2> QED BY <2>1, <2>2, <2>3, <2>4
<1> DEFINE Moved(i, a) == /\ w[i] = o[a]
                          /\ (i <= m /\ a = i) \/ (i > m + 1 /\ i = a + 1)
<1>7. \A i \in 1..k : i = m + 1 \/ \E a \in 1..(k - 1) : Moved(i, a)
    <2> SUFFICES ASSUME NEW i \in 1..k, i # m + 1 PROVE \E a \in 1..(k - 1) : Moved(i, a)
        OBVIOUS
    <2>1. CASE i <= m
        <3>1. i \in 1..(k - 1)
            BY <1>1, <1>2, <2>1
        <3>2. w[i] = o[i]
            BY <1>6, <2>1, <3>1
        <3>3. Moved(i, i)
            BY <2>1, <3>2
        <3> HIDE DEF Moved
        <3> QED BY <3>1, <3>3
    <2>2. CASE i > m + 1
        <3>1. PICK a \in 1..(k - 1) : i = a + 1 /\ a > m
            BY <1>1, <1>2, <2>2
        <3> QED BY <1>6, <2>2, <3>1
    <2> QED BY <1>1, <1>2, <2>1, <2>2
<1>8. /\ \A a \in 1..(k - 1) : o[a] \in 1..(k - 1)
      /\ \A a, b \in 1..(k - 1) : o[a] = o[b] => a = b
      /\ \A x \in 1..(k - 1) : \E a \in 1..(k - 1) : o[a] = x
      /\ \A a, b \in 1..(k - 1) : a < b /\ o[a] > o[b] => <<o[a], o[b]>> \in P
    BY <1>1 DEF Permuted
<1>9. \A i, j \in 1..k, a, b \in 1..(k - 1) :
          Moved(i, a) /\ Moved(j, b) => (i < j <=> a < b) /\ (i = j <=> a = b)
    <2> SUFFICES ASSUME NEW i \in 1..k, NEW j \in 1..k,
                        NEW a \in 1..(k - 1), NEW b \in 1..(k - 1),
                        Moved(i, a), Moved(j, b)
                 PROVE  (i < j <=> a < b) /\ (i = j <=> a = b)
        OBVIOUS
    <2>1. i \in Int /\ j \in Int /\ a \in Int /\ b \in Int /\ m \in Int
        BY <1>1, <1>2
    <2>2. (i <= m /\ a = i) \/ (i > m + 1 /\ i = a + 1)
        OBVIOUS
    <2>3. (j <= m /\ b = j) \/ (j > m + 1 /\ j = b + 1)
        OBVIOUS
    <2> HIDE DEF Moved
    <2> QED BY ONLY <2>1, <2>2, <2>3
<1>10. \A i \in 1..k, a \in 1..(k - 1) :
           Moved(i, a) => w[i] = o[a] /\ (i < m + 1 <=> a <= m) /\ i # m + 1
    <2> SUFFICES ASSUME NEW i \in 1..k, NEW a \in 1..(k - 1), Moved(i, a)
                 PROVE  w[i] = o[a] /\ (i < m + 1 <=> a <= m) /\ i # m + 1
        OBVIOUS
    <2>1. i \in Int /\ a \in Int /\ m \in Int
        BY <1>1, <1>2
    <2>2. w[i] = o[a] /\ ((i <= m /\ a = i) \/ (i > m + 1 /\ i = a + 1))
        OBVIOUS
    <2> HIDE DEF Moved
    <2> QED BY ONLY <2>1, <2>2
<1> HIDE DEF Moved
<1>11. \A i \in 1..k : w[i] \in 1..k /\ (w[i] = k <=> i = m + 1)
    <2> SUFFICES ASSUME NEW i \in 1..k PROVE w[i] \in 1..k /\ (w[i] = k <=> i = m + 1)
        OBVIOUS
    <2>1. CASE i = m + 1
        BY <1>1, <1>6, <2>1
    <2>2. CASE i # m + 1
        <3>1. PICK a \in 1..(k - 1) : Moved(i, a)
            BY <1>7, <2>2
        <3>2. w[i] \in 1..(k - 1)
            BY <1>8, <1>10, <3>1
        <3> QED BY <1>1, <2>2, <3>2
    <2> QED BY <2>1, <2>2
<1>12. \A i, j \in 1..k : w[i] = w[j] => i = j
    <2> SUFFICES ASSUME NEW i \in 1..k, NEW j \in 1..k, w[i] = w[j] PROVE i = j
        OBVIOUS
    <2>1. CASE i = m + 1 \/ j = m + 1
        BY <1>11, <2>1
    <2>2. CASE i # m + 1 /\ j # m + 1
        <3>1. PICK a \in 1..(k - 1) : Moved(i, a)
            BY <1>7, <2>2
        <3>2. PICK b \in 1..(k - 1) : Moved(j, b)
            BY <1>7, <2>2
        <3> QED BY <1>8, <1>9, <1>10, <3>1, <3>2
    <2> QED BY <2>1, <2>2
<1>13. \A x \in 1..k : \E i \in 1..k : w[i] = x
    <2> SUFFICES ASSUME NEW x \in 1..k, x # k PROVE \E i \in 1..k : w[i] = x
        BY <1>6
    <2>1. x \in 1..(k - 1)
        BY <1>1
    <2>2. PICK a \in 1..(k - 1) : o[a] = x
        BY <1>8, <2>1
    <2>3. CASE a <= m
        BY <1>6, <2>2, <2>3
    <2>4. CASE a > m
        BY <1>6, <2>2, <2>4
    <2> QED BY <1>1, <1>2, <2>3, <2>4
<1>14. \A i, j \in 1..k : i < j /\ w[i] > w[j] => <<w[i], w[j]>> \in P
    <2> SUFFICES ASSUME NEW i \in 1..k, NEW j \in 1..k, i < j, w[i] > w[j]
                 PROVE  <<w[i], w[j]>> \in P
        OBVIOUS
    <2>1. j # m + 1
        BY <1>1, <1>11
    <2>2. PICK b \in 1..(k - 1) : Moved(j, b)
        BY <1>7, <2>1
    <2>3. CASE i = m + 1
        <3>1. b > m
            BY <1>1, <1>2, <1>10, <2>2, <2>3
        <3> QED BY <1>3, <1>6, <1>10, <2>2, <2>3, <3>1
    <2>4. CASE i # m + 1
        <3>1. PICK a \in 1..(k - 1) : Moved(i, a)
            BY <1>7, <2>4
        <3>2. a < b /\ w[i] = o[a] /\ w[j] = o[b]
            BY <1>9, <1>10, <2>2, <3>1
        <3> QED BY <1>8, <3>2
    <2> QED BY <2>3, <2>4
<1>15. Permuted(w, k, P)
    BY <1>5, <1>11, <1>12, <1>13, <1>14 DEF Permuted
<1>16. ASSUME Asymmetric(P), NEW j \in 1..k, j > m + 1
       PROVE  <<w[j], k>> \notin P
    <2>1. PICK b \in 1..(k - 1) : Moved(j, b)
        BY <1>1, <1>2, <1>7, <1>16
    <2>2. b > m /\ w[j] = o[b]
        BY <1>1, <1>2, <1>16, <1>10, <2>1
    <2>3. <<k, w[j]>> \in P /\ w[j] \in Nat
        BY <1>3, <1>8, <2>2
    <2> QED BY <1>1, <1>16, <2>3 DEF Asymmetric
<1>17. ASSUME NEW i \in 1..k, i = m PROVE <<k, w[i]>> \notin P
    <2>1. m # 0 /\ m \in 1..(k - 1)
        BY <1>1, <1>2, <1>17
    <2> QED BY <1>4, <1>6, <1>17, <2>1
<1>18. ASSUME Asymmetric(P) PROVE NeighboursOrdered(w, k, P)
    <2>1. \A a \in 1..(k - 1 - 1) : <<o[a + 1], o[a]>> \notin P
        BY <1>18 DEF SortedSoFar, NeighboursOrdered
    <2>2. \A a, b \in 1..(k - 1) : b = a + 1 => <<o[b], o[a]>> \notin P
        <3> SUFFICES ASSUME NEW a \in 1..(k - 1), NEW b \in 1..(k - 1), b = a + 1
                     PROVE  <<o[b], o[a]>> \notin P
            OBVIOUS
        <3>1. a \in 1..(k - 1 - 1)
            BY <1>1
        <3> QED BY <2>1, <3>1
    <2> SUFFICES ASSUME NEW i \in 1..k, NEW j \in 1..k, j = i + 1 PROVE <<w[j], w[i]>> \notin P
        BY <1>1 DEF NeighboursOrdered
    <2>3. CASE j = m + 1
        BY <1>1, <1>2, <1>6, <1>17, <2>3
    <2>4. CASE i = m + 1
        BY <1>1, <1>2, <1>6, <1>16, <1>18, <2>4
    <2>5. CASE i # m + 1 /\ j # m + 1
        <3>1. PICK a \in 1..(k - 1) : Moved(i, a)
            BY <1>7, <2>5
        <3>2. PICK b \in 1..(k - 1) : Moved(j, b)
            BY <1>7, <2>5
        <3>3. b = a + 1
            BY <1>1, <1>2, <2>5, <3>1, <3>2 DEF Moved
        <3> QED BY <1>10, <2>2, <3>1, <3>2, <3>3
    <2> QED BY <2>3, <2>4, <2>5
<1>19. ASSUME Asymmetric(P), TiesAreTransitive(n, P) PROVE AllOrdered(w, k, P)
    <2>1. \A a, b \in 1..(k - 1) : a < b => <<o[b], o[a]>> \notin P
        BY <1>19 DEF SortedSoFar, AllOrdered
    <2> SUFFICES ASSUME NEW i \in 1..k, NEW j \in 1..k, i < j PROVE <<w[j], w[i]>> \notin P
        BY DEF AllOrdered
    <2>2. CASE i = m + 1
        BY <1>1, <1>2, <1>6, <1>16, <1>19, <2>2
    <2>3. CASE j = m + 1
        <3>1. PICK a \in 1..(k - 1) : Moved(i, a)
            BY <1>1, <1>2, <1>7, <2>3
        <3>2. w[j] = k /\ w[i] = o[a] /\ a <= m
            BY <1>1, <1>2, <1>6, <1>10, <2>3, <3>1
        <3>3. m # 0 /\ m \in 1..(k - 1) /\ <<k, o[m]>> \notin P
            BY <1>1, <1>2, <1>4, <3>2
        <3>4. CASE a = m
            BY <3>2, <3>3, <3>4
        <3>5. CASE a # m
            <4>1. a < m
                BY <1>1, <1>2, <3>2, <3>5
            <4>2. <<o[m], o[a]>> \notin P
                BY <2>1, <3>3, <4>1
            <4>3. 1..(k - 1) \subseteq 1..n
                BY <1>1
            <4>4. o[a] \in 1..n /\ o[m] \in 1..n /\ k \in 1..n
                BY <1>8, <3>3, <4>3
            <4> QED BY <1>19, <3>2, <3>3, <4>2, <4>4 DEF TiesAreTransitive
        <3> QED BY <3>4, <3>5
    <2>4. CASE i # m + 1 /\ j # m + 1
        <3>1. PICK a \in 1..(k - 1) : Moved(i, a)
            BY <1>7, <2>4
        <3>2. PICK b \in 1..(k - 1) : Moved(j, b)
            BY <1>7, <2>4
        <3> QED BY <1>9, <1>10, <2>1, <3>1, <3>2
    <2> QED BY <2>2, <2>3, <2>4
<1>20. SortedSoFar(w, k, n, P)
    BY <1>15, <1>18, <1>19 DEF SortedSoFar
<1> QED BY <1>20 DEF w, p, m, stops

\* The sort gives every position once; overtaking needs a reason; neighbours
\* are in order; everything is, where ties are transitive.
LEMMA PlacesSorted ==
    ASSUME NEW n \in Nat, NEW P
    PROVE  SortedSoFar(Places(n, P), n, n, P)
<1> DEFINE f   == CHOOSE f : IsOrder(f, n, P)
           bad == {k \in 0..n : ~SortedSoFar(f[k], k, n, P)}
<1>1. IsOrder(f, n, P)
    BY OrdersExist
<1>2. Places(n, P) = f[n]
    BY DEF Places, IsOrder
<1> HIDE DEF f
<1>3. \A k \in 0..n :
          f[k] = IF k = 0 THEN << >>
                 ELSE InsertAt(f[k - 1],
                          Max({i \in 1..(k - 1) : <<k, f[k - 1][i]>> \notin P} \union {0}) + 1, k)
    BY <1>1 DEF IsOrder
<1>4. SortedSoFar(f[0], 0, n, P)
    <2>1. 0 \in 0..n
        OBVIOUS
    <2>2. f[0] = << >>
        BY <1>1, <2>1 DEF IsOrder
    <2>3. << >> \in Seq(Nat) /\ Len(<< >>) = 0
        BY EmptySeq
    <2> HIDE DEF bad
    <2>4. Permuted(<< >>, 0, P)
        BY <2>3 DEF Permuted
    <2>5. NeighboursOrdered(<< >>, 0, P) /\ AllOrdered(<< >>, 0, P)
        BY DEF NeighboursOrdered, AllOrdered
    <2> QED BY <2>2, <2>4, <2>5 DEF SortedSoFar
<1>5. bad = {}
    <2> SUFFICES ASSUME bad # {} PROVE FALSE
        OBVIOUS
    <2>1. bad \subseteq Nat
        OBVIOUS
    <2>2. PICK k \in bad : \A m \in bad : k <= m
        <3> HIDE DEF bad
        <3> QED BY <2>1, SmallestNumber
    <2>3. k \in 1..n /\ k - 1 \in 0..n
        BY <1>4, <2>2
    <2>4. SortedSoFar(f[k - 1], k - 1, n, P)
        BY <2>2, <2>3
    <2>5. f[k] = InsertAt(f[k - 1],
                     Max({i \in 1..(k - 1) : <<k, f[k - 1][i]>> \notin P} \union {0}) + 1, k)
        BY <1>3, <2>3
    <2>6. SortedSoFar(f[k], k, n, P)
        BY <2>3, <2>4, <2>5, InsertionSorts
    <2> QED BY <2>2, <2>6
<1> QED BY <1>2, <1>5

-----------------------------------------------------------------------------
(* Concatenation. *)

\* The list w consists of the first n lists of seqs, in their order.
Joined(w, seqs, n) ==
    /\ \A i \in 1..Len(w) : \E b \in 1..n : \E u \in 1..Len(seqs[b]) : w[i] = seqs[b][u]
    /\ \A b \in 1..n : \A u \in 1..Len(seqs[b]) : \E i \in 1..Len(w) : w[i] = seqs[b][u]
    /\ \A i, j \in 1..Len(w) : i < j =>
           \E b, c \in 1..n : \E u \in 1..Len(seqs[b]), v \in 1..Len(seqs[c]) :
               /\ w[i] = seqs[b][u] /\ w[j] = seqs[c][v]
               /\ b < c \/ (b = c /\ u < v)

\* The list z is w, then x.
IsConcat(z, w, x) ==
    /\ Len(z) = Len(w) + Len(x)
    /\ \A i \in 1..(Len(w) + Len(x)) : z[i] = IF i <= Len(w) THEN w[i] ELSE x[i - Len(w)]

\* One more list at the end.
LEMMA JoinOneMore ==
    ASSUME NEW S, NEW n \in Nat, n # 0, NEW m, m = n - 1, NEW seqs,
           NEW w \in Seq(S), NEW x \in Seq(S), x = seqs[n],
           NEW z, IsConcat(z, w, x),
           Joined(w, seqs, m)
    PROVE  Joined(z, seqs, n)
<1>1. /\ Len(w) \in Nat /\ Len(x) \in Nat
      /\ Len(z) = Len(w) + Len(x)
      /\ \A i \in 1..(Len(w) + Len(x)) : z[i] = IF i <= Len(w) THEN w[i] ELSE x[i - Len(w)]
    BY DEF IsConcat
<1>2. /\ \A i \in 1..Len(w) : \E b \in 1..(n - 1) : \E u \in 1..Len(seqs[b]) : w[i] = seqs[b][u]
      /\ \A b \in 1..(n - 1) : \A u \in 1..Len(seqs[b]) : \E i \in 1..Len(w) : w[i] = seqs[b][u]
      /\ \A i, j \in 1..Len(w) : i < j =>
             \E b, c \in 1..(n - 1) : \E u \in 1..Len(seqs[b]), v \in 1..Len(seqs[c]) :
                 /\ w[i] = seqs[b][u] /\ w[j] = seqs[c][v]
                 /\ b < c \/ (b = c /\ u < v)
    BY DEF Joined
<1>3. x = seqs[n] /\ n \in 1..n /\ \A b \in 1..(n - 1) : b \in 1..n /\ b < n
    OBVIOUS
<1>4. \A i \in 1..Len(w) : i \in 1..Len(z) /\ z[i] = w[i]
    BY <1>1
<1>5. \A u \in 1..Len(x) : \E i \in 1..Len(z) : z[i] = x[u]
    <2> SUFFICES ASSUME NEW u \in 1..Len(x) PROVE \E i \in 1..Len(z) : z[i] = x[u]
        OBVIOUS
    <2> DEFINE i == Len(w) + u
    <2>1. i \in 1..(Len(w) + Len(x)) /\ ~(i <= Len(w)) /\ i - Len(w) = u
        BY <1>1
    <2> HIDE DEF i
    <2>2. z[i] = x[u]
        BY <1>1, <2>1
    <2> QED BY <1>1, <2>1, <2>2
<1>6. \A i \in 1..Len(z) : \/ i \in 1..Len(w) /\ z[i] = w[i]
                           \/ \E u \in 1..Len(x) : z[i] = x[u] /\ i = Len(w) + u
    <2> SUFFICES ASSUME NEW i \in 1..Len(z), i > Len(w)
                 PROVE  \E u \in 1..Len(x) : z[i] = x[u] /\ i = Len(w) + u
        BY <1>1
    <2> DEFINE u == i - Len(w)
    <2>1. u \in 1..Len(x) /\ ~(i <= Len(w)) /\ i \in 1..(Len(w) + Len(x)) /\ i = Len(w) + u
        BY <1>1
    <2>2. z[i] = x[u]
        BY <1>1, <2>1
    <2> HIDE DEF u
    <2> QED BY <2>1, <2>2
<1>7. \A i \in 1..Len(z) : \E b \in 1..n : \E u \in 1..Len(seqs[b]) : z[i] = seqs[b][u]
    <2> SUFFICES ASSUME NEW i \in 1..Len(z)
                 PROVE  \E b \in 1..n : \E u \in 1..Len(seqs[b]) : z[i] = seqs[b][u]
        OBVIOUS
    <2>1. CASE i \in 1..Len(w) /\ z[i] = w[i]
        <3>1. PICK b \in 1..(n - 1) : \E u \in 1..Len(seqs[b]) : w[i] = seqs[b][u]
            BY <1>2, <2>1
        <3> QED BY <1>3, <2>1, <3>1
    <2>2. CASE \E u \in 1..Len(x) : z[i] = x[u]
        BY <1>3, <2>2
    <2> QED BY <1>6, <2>1, <2>2
<1>8. ASSUME NEW b \in 1..n, NEW u \in 1..Len(seqs[b])
      PROVE  \E i \in 1..Len(z) : z[i] = seqs[b][u]
    <2>1. CASE b = n
        BY <1>3, <1>5, <2>1
    <2>2. CASE b # n
        <3>1. b \in 1..(n - 1)
            BY <2>2
        <3>2. PICK i \in 1..Len(w) : w[i] = seqs[b][u]
            BY <1>2, <3>1
        <3> QED BY <1>4, <3>2
    <2> QED BY <2>1, <2>2
<1>9. ASSUME NEW i \in 1..Len(z), NEW j \in 1..Len(z), i < j
      PROVE  \E b, c \in 1..n : \E u \in 1..Len(seqs[b]), v \in 1..Len(seqs[c]) :
                 /\ z[i] = seqs[b][u] /\ z[j] = seqs[c][v]
                 /\ b < c \/ (b = c /\ u < v)
    <2>1. CASE j \in 1..Len(w) /\ z[j] = w[j]
        <3>1. i \in 1..Len(w) /\ z[i] = w[i]
            BY <1>1, <1>4, <1>9, <2>1
        <3>2. PICK b \in 1..(n - 1), c \in 1..(n - 1) :
                  \E u \in 1..Len(seqs[b]), v \in 1..Len(seqs[c]) :
                      /\ w[i] = seqs[b][u] /\ w[j] = seqs[c][v]
                      /\ b < c \/ (b = c /\ u < v)
            BY <1>2, <1>9, <2>1, <3>1
        <3> QED BY <1>3, <2>1, <3>1, <3>2
    <2>2. ASSUME NEW v \in 1..Len(x), z[j] = x[v], j = Len(w) + v
          PROVE  \E b, c \in 1..n : \E u \in 1..Len(seqs[b]), y \in 1..Len(seqs[c]) :
                     /\ z[i] = seqs[b][u] /\ z[j] = seqs[c][y]
                     /\ b < c \/ (b = c /\ u < y)
        <3>1. CASE i \in 1..Len(w) /\ z[i] = w[i]
            <4>1. PICK b \in 1..(n - 1) : \E u \in 1..Len(seqs[b]) : w[i] = seqs[b][u]
                BY <1>2, <3>1
            <4> QED BY <1>3, <2>2, <3>1, <4>1
        <3>2. ASSUME NEW u \in 1..Len(x), z[i] = x[u], i = Len(w) + u
              PROVE  u < v
            BY <1>1, <1>9, <2>2, <3>2
        <3> QED BY <1>3, <1>6, <2>2, <3>1, <3>2
    <2> QED BY <1>6, <2>1, <2>2
<1>10. Joined(z, seqs, n)
    BY <1>7, <1>8, <1>9 DEF Joined
<1> QED BY <1>10

\* What FlattenSeq goes through.
IsJoin(f, seqs, n) ==
    f = [i \in 1..n |-> IF i = 1 THEN seqs[i] ELSE f[i - 1] \o seqs[i]]

\* There are such lists for every number of lists.
LEMMA JoinsExist ==
    ASSUME NEW seqs
    PROVE  \A n \in Nat : \E f : IsJoin(f, seqs, n)
<1> DEFINE bad == {n \in Nat : ~\E f : IsJoin(f, seqs, n)}
<1> SUFFICES ASSUME bad # {} PROVE FALSE
    OBVIOUS
<1>1. PICK n \in bad : \A m \in bad : n <= m
    BY SmallestNumber
<1>2. CASE n = 0
    <2>1. IsJoin([k \in 1..0 |-> << >>], seqs, 0)
        BY DEF IsJoin
    <2> QED BY <1>2, <2>1
<1>3. CASE n # 0
    <2>1. n - 1 \in Nat /\ n - 1 \notin bad
        BY <1>1, <1>3
    <2>2. PICK f : IsJoin(f, seqs, n - 1)
        BY <2>1
    <2> DEFINE next(k) == IF k = 1 THEN seqs[k] ELSE f[k - 1] \o seqs[k]
               g == [k \in 1..n |-> IF k = n THEN next(n) ELSE f[k]]
    <2>3. \A k \in 1..(n - 1) : f[k] = next(k)
        BY <2>2 DEF IsJoin
    <2>4. \A k \in 1..n : g[k] = next(k)
        <3> HIDE DEF next
        <3>1. \A k \in 1..n : k = n \/ k \in 1..(n - 1)
            OBVIOUS
        <3> QED BY <2>3, <3>1
    <2>5. \A k \in 1..n : k # 1 => g[k - 1] = f[k - 1]
        <3>1. \A k \in 1..n : k # 1 => k - 1 \in 1..n /\ k - 1 # n
            OBVIOUS
        <3> QED BY <3>1
    <2>6. g = [k \in 1..n |-> g[k]]
        OBVIOUS
    <2> HIDE DEF g
    <2>7. \A k \in 1..n : g[k] = IF k = 1 THEN seqs[k] ELSE g[k - 1] \o seqs[k]
        BY <2>4, <2>5
    <2>8. IsJoin(g, seqs, n)
        BY <2>6, <2>7 DEF IsJoin
    <2> QED BY <2>8
<1> QED BY <1>2, <1>3

\* FlattenSeq concatenates.
LEMMA Flattened ==
    ASSUME NEW S, NEW seqs, NEW n \in Nat, Len(seqs) = n, n = 0 => seqs = << >>,
           \A b \in 1..n : seqs[b] \in Seq(S)
    PROVE  FlattenSeq(seqs) \in Seq(S) /\ Joined(FlattenSeq(seqs), seqs, n)
<1>1. CASE n = 0
    <2>1. FlattenSeq(seqs) = << >>
        BY <1>1 DEF FlattenSeq
    <2>2. << >> \in Seq(S) /\ Len(<< >>) = 0
        BY EmptySeq
    <2> QED BY <1>1, <2>1, <2>2 DEF Joined
<1>2. CASE n # 0
    <2> DEFINE f   == CHOOSE f : IsJoin(f, seqs, n)
               ok(k) == f[k] \in Seq(S) /\ Joined(f[k], seqs, k)
               bad == {k \in 1..n : ~ok(k)}
    <2>1. IsJoin(f, seqs, n)
        BY JoinsExist
    <2>2. FlattenSeq(seqs) = f[n]
        BY <1>2 DEF FlattenSeq, IsJoin
    <2> HIDE DEF f
    <2>3. \A k \in 1..n : f[k] = IF k = 1 THEN seqs[k] ELSE f[k - 1] \o seqs[k]
        BY <2>1 DEF IsJoin
    <2>4. ok(1)
        <3>1. 1 \in 1..n /\ 1 \in Nat /\ 1 # 0 /\ 0 = 1 - 1
            BY <1>2
        <3>2. f[1] = seqs[1] /\ seqs[1] \in Seq(S)
            BY <2>3, <3>1
        <3>3. << >> \in Seq(S) /\ Joined(<< >>, seqs, 0)
            BY EmptySeq DEF Joined
        <3>4. IsConcat(f[1], << >>, seqs[1])
            BY <3>2 DEF IsConcat
        <3> QED BY <3>1, <3>2, <3>3, <3>4, JoinOneMore
    <2>5. ASSUME NEW k \in 1..n, NEW m \in 1..n, m = k - 1, ok(m) PROVE ok(k)
        <3>1. k \in Nat /\ k # 0 /\ k # 1
            BY <2>5
        <3>2. f[k] = f[m] \o seqs[k] /\ seqs[k] \in Seq(S)
            BY <2>3, <2>5, <3>1
        <3>3. f[m] \in Seq(S) /\ Joined(f[m], seqs, m)
            BY <2>5
        <3>4. f[k] \in Seq(S) /\ IsConcat(f[k], f[m], seqs[k])
            BY <3>2, <3>3, ConcatProperties DEF IsConcat
        <3>5. Joined(f[k], seqs, k)
            BY <2>5, <3>1, <3>2, <3>3, <3>4, JoinOneMore
        <3> QED BY <3>4, <3>5
    <2> HIDE DEF ok
    <2>6. bad = {}
        <3> SUFFICES ASSUME bad # {} PROVE FALSE
            OBVIOUS
        <3>1. bad \subseteq Nat
            OBVIOUS
        <3>2. PICK k \in bad : \A m \in bad : k <= m
            <4> HIDE DEF bad
            <4> QED BY <3>1, SmallestNumber
        <3>3. k \in 1..n /\ k # 1 /\ k - 1 \in 1..n
            BY <2>4, <3>2
        <3>4. ok(k - 1)
            BY <3>2, <3>3
        <3> QED BY <2>5, <3>2, <3>3, <3>4
    <2>7. ok(n)
        BY <1>2, <2>6
    <2> QED BY <2>2, <2>7 DEF ok
<1> QED BY <1>1, <1>2

-----------------------------------------------------------------------------
(* The pool of a course. *)

\* The list w consists of those of the first n requests that are for a course,
\* in their order.
Picked(w, requests, course, n) ==
    /\ \A i \in 1..Len(w) : \E p \in 1..n : w[i] = requests[p] /\ requests[p].course = course
    /\ \A p \in 1..n : requests[p].course = course => \E i \in 1..Len(w) : w[i] = requests[p]
    /\ \A i, j \in 1..Len(w) : i < j =>
           \E p, q \in 1..n : p < q /\ w[i] = requests[p] /\ w[j] = requests[q]

\* The list z is w, then the element x.
IsAppend(z, w, x) ==
    /\ Len(z) = Len(w) + 1
    /\ \A i \in 1..Len(w) : z[i] = w[i]
    /\ z[Len(w) + 1] = x

\* What Append puts where.
LEMMA Appended ==
    ASSUME NEW S, NEW w \in Seq(S), NEW x \in S
    PROVE  Append(w, x) \in Seq(S) /\ IsAppend(Append(w, x), w, x)
<1>1. /\ Append(w, x) \in Seq(S)
      /\ Len(Append(w, x)) = Len(w) + 1
      /\ \A i \in 1..Len(w) : Append(w, x)[i] = w[i]
      /\ Append(w, x)[Len(w) + 1] = x
    BY AppendProperties
<1> QED BY <1>1 DEF IsAppend

\* One more request that is for the course.
LEMMA PickOneMore ==
    ASSUME NEW S, NEW requests, NEW course, NEW n \in Nat, NEW m \in Nat, n = m + 1,
           NEW w \in Seq(S), Picked(w, requests, course, m),
           requests[n].course = course, NEW z, IsAppend(z, w, requests[n])
    PROVE  Picked(z, requests, course, n)
<1>1. /\ Len(w) \in Nat /\ Len(z) = Len(w) + 1
      /\ \A i \in 1..Len(w) : z[i] = w[i]
      /\ z[Len(w) + 1] = requests[n]
    BY DEF IsAppend
<1>2. /\ \A i \in 1..Len(w) : \E p \in 1..m : w[i] = requests[p] /\ requests[p].course = course
      /\ \A p \in 1..m : requests[p].course = course => \E i \in 1..Len(w) : w[i] = requests[p]
      /\ \A i, j \in 1..Len(w) : i < j =>
             \E p, q \in 1..m : p < q /\ w[i] = requests[p] /\ w[j] = requests[q]
    BY DEF Picked
<1>3. /\ \A p \in 1..m : p \in 1..n /\ p < n
      /\ \A p \in 1..n : p \in 1..m \/ p = n
      /\ n \in 1..n
    OBVIOUS
<1>4. \A i \in 1..Len(z) : \/ i \in 1..Len(w) /\ z[i] = w[i]
                           \/ i = Len(w) + 1 /\ z[i] = requests[n]
    BY <1>1
<1>5. \A i \in 1..Len(w) : i \in 1..Len(z) /\ z[i] = w[i]
    BY <1>1
<1>6. ASSUME NEW i \in 1..Len(z)
      PROVE  \E p \in 1..n : z[i] = requests[p] /\ requests[p].course = course
    <2>1. CASE i \in 1..Len(w) /\ z[i] = w[i]
        <3>1. PICK p \in 1..m : w[i] = requests[p] /\ requests[p].course = course
            BY <1>2, <2>1
        <3> QED BY <1>3, <2>1, <3>1
    <2>2. CASE z[i] = requests[n]
        BY <1>3, <2>2
    <2> QED BY <1>4, <2>1, <2>2
<1>7. ASSUME NEW p \in 1..n, requests[p].course = course
      PROVE  \E i \in 1..Len(z) : z[i] = requests[p]
    <2>1. CASE p = n
        BY <1>1, <2>1
    <2>2. CASE p \in 1..m
        BY <1>2, <1>5, <1>7, <2>2
    <2> QED BY <1>3, <2>1, <2>2
<1>8. ASSUME NEW i \in 1..Len(z), NEW j \in 1..Len(z), i < j
      PROVE  \E p, q \in 1..n : p < q /\ z[i] = requests[p] /\ z[j] = requests[q]
    <2>1. i \in 1..Len(w) /\ z[i] = w[i]
        BY <1>1, <1>8
    <2>2. CASE j \in 1..Len(w) /\ z[j] = w[j]
        <3>1. PICK p \in 1..m, q \in 1..m : p < q /\ w[i] = requests[p] /\ w[j] = requests[q]
            BY <1>2, <1>8, <2>1, <2>2
        <3> QED BY <1>3, <2>1, <2>2, <3>1
    <2>3. CASE z[j] = requests[n]
        <3>1. PICK p \in 1..m : w[i] = requests[p]
            BY <1>2, <2>1
        <3> QED BY <1>3, <2>1, <2>3, <3>1
    <2> QED BY <1>4, <2>2, <2>3
<1> QED BY <1>6, <1>7, <1>8 DEF Picked

\* One more request that is for another course.
LEMMA PickNoMore ==
    ASSUME NEW requests, NEW course, NEW n \in Nat, NEW m \in Nat, n = m + 1,
           NEW w, Picked(w, requests, course, m), requests[n].course # course
    PROVE  Picked(w, requests, course, n)
<1>1. /\ \A p \in 1..m : p \in 1..n
      /\ \A p \in 1..n : p \in 1..m \/ p = n
    OBVIOUS
<1>2. \A i \in 1..Len(w) : \E p \in 1..n : w[i] = requests[p] /\ requests[p].course = course
    BY <1>1 DEF Picked
<1>3. \A p \in 1..n : requests[p].course = course => \E i \in 1..Len(w) : w[i] = requests[p]
    BY <1>1 DEF Picked
<1>4. \A i, j \in 1..Len(w) : i < j =>
          \E p, q \in 1..n : p < q /\ w[i] = requests[p] /\ w[j] = requests[q]
    BY <1>1 DEF Picked
<1> QED BY <1>2, <1>3, <1>4 DEF Picked

\* What Pool goes through.
IsPool(f, requests, course, n) ==
    f = [k \in 0..n |-> IF k = 0 THEN << >>
                        ELSE IF requests[k].course = course THEN Append(f[k - 1], requests[k])
                        ELSE f[k - 1]]

\* There are such lists for every number of requests.
LEMMA PoolsExist ==
    ASSUME NEW requests, NEW course
    PROVE  \A n \in Nat : \E f : IsPool(f, requests, course, n)
<1> DEFINE bad == {n \in Nat : ~\E f : IsPool(f, requests, course, n)}
<1> SUFFICES ASSUME bad # {} PROVE FALSE
    OBVIOUS
<1>1. PICK n \in bad : \A m \in bad : n <= m
    BY SmallestNumber
<1>2. CASE n = 0
    <2>1. IsPool([k \in 0..0 |-> << >>], requests, course, 0)
        BY DEF IsPool
    <2> QED BY <1>2, <2>1
<1>3. CASE n # 0
    <2>1. n - 1 \in Nat /\ n - 1 \notin bad
        BY <1>1, <1>3
    <2>2. PICK f : IsPool(f, requests, course, n - 1)
        BY <2>1
    <2> DEFINE next(s, k) == IF requests[k].course = course THEN Append(s, requests[k]) ELSE s
               g == [k \in 0..n |-> IF k = n THEN next(f[n - 1], n) ELSE f[k]]
    <2>3. \A k \in 0..(n - 1) : f[k] = IF k = 0 THEN << >> ELSE next(f[k - 1], k)
        BY <2>2 DEF IsPool
    <2> HIDE DEF next
    <2>4. \A k \in 0..n : k # 0 => g[k - 1] = f[k - 1]
        <3>1. \A k \in 0..n : k # 0 => k - 1 \in 0..n /\ k - 1 # n
            OBVIOUS
        <3> QED BY <3>1
    <2>5. \A k \in 0..n : g[k] = IF k = 0 THEN << >> ELSE next(f[k - 1], k)
        <3>1. \A k \in 0..n : k = n \/ k \in 0..(n - 1)
            OBVIOUS
        <3> QED BY <1>3, <2>3, <3>1
    <2>6. g = [k \in 0..n |-> g[k]]
        OBVIOUS
    <2> HIDE DEF g
    <2>7. \A k \in 0..n : g[k] = IF k = 0 THEN << >> ELSE next(g[k - 1], k)
        BY <2>4, <2>5
    <2>8. g = [k \in 0..n |-> IF k = 0 THEN << >> ELSE next(g[k - 1], k)]
        BY <2>6, <2>7
    <2>9. IsPool(g, requests, course, n)
        BY <2>8 DEF IsPool, next
    <2> QED BY <2>9
<1> QED BY <1>2, <1>3

\* Pool picks the requests of a course.
LEMMA PoolPicks ==
    ASSUME NEW S, NEW requests \in Seq(S), NEW course
    PROVE  /\ Pool(requests, course) \in Seq(S)
           /\ Picked(Pool(requests, course), requests, course, Len(requests))
<1> DEFINE n == Len(requests)
           f == CHOOSE f : IsPool(f, requests, course, n)
           ok(k) == f[k] \in Seq(S) /\ Picked(f[k], requests, course, k)
           bad == {k \in 0..n : ~ok(k)}
<1>1. n \in Nat /\ \A k \in 1..n : requests[k] \in S
    BY ElementOfSeq
<1>2. IsPool(f, requests, course, n)
    BY <1>1, PoolsExist
<1>3. Pool(requests, course) = f[n]
    BY DEF Pool, IsPool
<1> HIDE DEF f, n
<1>4. \A k \in 0..n : f[k] = IF k = 0 THEN << >>
                             ELSE IF requests[k].course = course THEN Append(f[k - 1], requests[k])
                             ELSE f[k - 1]
    BY <1>2 DEF IsPool
<1>5. ok(0)
    <2>1. 0 \in 0..n
        BY <1>1
    <2>2. f[0] = << >>
        BY <1>2, <2>1 DEF IsPool
    <2>3. << >> \in Seq(S) /\ Picked(<< >>, requests, course, 0)
        BY EmptySeq DEF Picked
    <2> QED BY <2>2, <2>3
<1>6. ASSUME NEW k \in 0..n, NEW m \in 0..n, k = m + 1, ok(m) PROVE ok(k)
    <2>1. k \in 1..n /\ k # 0 /\ k - 1 = m /\ requests[k] \in S /\ k \in Nat /\ m \in Nat
        BY <1>1, <1>6
    <2>2. f[m] \in Seq(S) /\ Picked(f[m], requests, course, m)
        BY <1>6
    <2>3. CASE requests[k].course = course
        <3>1. f[k] = Append(f[m], requests[k])
            BY <1>4, <2>1, <2>3
        <3>2. f[k] \in Seq(S) /\ IsAppend(f[k], f[m], requests[k])
            BY <2>1, <2>2, <3>1, Appended
        <3>3. Picked(f[k], requests, course, k)
            BY <1>6, <2>1, <2>2, <2>3, <3>2, PickOneMore
        <3> QED BY <3>2, <3>3
    <2>4. CASE requests[k].course # course
        <3>1. f[k] = f[m]
            BY <1>4, <2>1, <2>4
        <3>2. Picked(f[m], requests, course, k)
            BY <1>6, <2>1, <2>2, <2>4, PickNoMore
        <3> QED BY <2>2, <3>1, <3>2
    <2> QED BY <2>3, <2>4
<1> HIDE DEF ok
<1>7. bad = {}
    <2> SUFFICES ASSUME bad # {} PROVE FALSE
        OBVIOUS
    <2>1. bad \subseteq Nat
        BY <1>1
    <2>2. PICK k \in bad : \A m \in bad : k <= m
        <3> HIDE DEF bad
        <3> QED BY <2>1, SmallestNumber
    <2> DEFINE m == k - 1
    <2>3. k \in 0..n /\ m \in 0..n /\ k = m + 1 /\ ~(k <= m)
        BY <1>1, <1>5, <2>2
    <2>4. ok(m)
        BY <2>2, <2>3
    <2> HIDE DEF m
    <2> QED BY <1>6, <2>2, <2>3, <2>4
<1>8. ok(n)
    BY <1>1, <1>7
<1> QED BY <1>3, <1>8 DEF ok, n

-----------------------------------------------------------------------------
(* The ranking. *)

\* The list w is what SortStable makes of seq.
IsSortOf(w, seq, P) ==
    /\ Len(w) = Len(seq)
    /\ \E o : /\ SortedSoFar(o, Len(seq), Len(seq), P)
              /\ \A i \in 1..Len(seq) : w[i] = seq[o[i]]

\* Taking the elements at the positions of the sort.
LEMMA SortIsSorted ==
    ASSUME NEW S, NEW seq \in Seq(S), NEW P, NEW w,
           w = [i \in DOMAIN seq |-> seq[Places(Len(seq), P)[i]]]
    PROVE  w \in Seq(S) /\ IsSortOf(w, seq, P)
<1> DEFINE n == Len(seq)
           o == Places(n, P)
<1>1. n \in Nat /\ DOMAIN seq = 1..n /\ \A i \in 1..n : seq[i] \in S
    BY ElementOfSeq
<1>2. SortedSoFar(o, n, n, P)
    BY <1>1, PlacesSorted
<1>3. \A i \in 1..n : o[i] \in 1..n
    BY <1>2 DEF SortedSoFar, Permuted
<1>4. w = [i \in 1..n |-> seq[o[i]]]
    BY <1>1
<1> HIDE DEF n, o
<1>5. w \in [1..n -> S]
    BY <1>1, <1>3, <1>4
<1>6. w \in Seq(S) /\ Len(w) = n
    BY <1>1, <1>5
<1>7. \A i \in 1..n : w[i] = seq[o[i]]
    BY <1>4
<1> QED BY <1>2, <1>6, <1>7 DEF IsSortOf, n

\* The list w has the elements of seq, each as often.
Rearranged(w, seq) ==
    /\ \A i \in 1..Len(w) : \E p \in 1..Len(seq) : w[i] = seq[p]
    /\ \A p \in 1..Len(seq) : \E i \in 1..Len(w) : w[i] = seq[p]
    /\ \A i, j \in 1..Len(w) : i # j =>
           \E p, q \in 1..Len(seq) : p # q /\ w[i] = seq[p] /\ w[j] = seq[q]

\* Sorting rearranges.
LEMMA SortedElements ==
    ASSUME NEW w, NEW seq, NEW P, Len(seq) \in Nat, IsSortOf(w, seq, P)
    PROVE  Rearranged(w, seq)
<1> DEFINE n == Len(seq)
<1>1. PICK o : SortedSoFar(o, n, n, P) /\ \A i \in 1..n : w[i] = seq[o[i]]
    BY DEF IsSortOf
<1>2. /\ \A i \in 1..n : o[i] \in 1..n
      /\ \A i, j \in 1..n : o[i] = o[j] => i = j
      /\ \A m \in 1..n : \E i \in 1..n : o[i] = m
    BY <1>1 DEF SortedSoFar, Permuted
<1>3. Len(w) = n
    BY DEF IsSortOf
<1> HIDE DEF n
<1>4. \A i \in 1..n : \E p \in 1..n : w[i] = seq[p]
    BY <1>1, <1>2
<1>5. \A p \in 1..n : \E i \in 1..n : w[i] = seq[p]
    BY <1>1, <1>2
<1>6. \A i, j \in 1..n : i # j => \E p, q \in 1..n : p # q /\ w[i] = seq[p] /\ w[j] = seq[q]
    <2> SUFFICES ASSUME NEW i \in 1..n, NEW j \in 1..n, i # j
                 PROVE  \E p, q \in 1..n : p # q /\ w[i] = seq[p] /\ w[j] = seq[q]
        OBVIOUS
    <2>1. o[i] # o[j] /\ o[i] \in 1..n /\ o[j] \in 1..n
        BY <1>2
    <2> QED BY <1>1, <2>1
<1> QED BY <1>3, <1>4, <1>5, <1>6 DEF n, Rearranged

\* The fields the comparisons look at are numbers.
LEMMA StudentFields ==
    ASSUME NEW a \in Student
    PROVE  /\ a.id \in Students /\ a.course \in Courses /\ a.primary \in Sections
           /\ a.risk \in Nat /\ a.waited \in Nat /\ a.alternatives \in Nat
           /\ a.submittedAt \in Nat /\ a.closeness \in Nat
BY DEF Student

\* No two requests come before each other.
LEMMA ComesBeforeAsymmetric ==
    ASSUME NEW a \in Student, NEW b \in Student, ComesBefore(a, b)
    PROVE  ~ComesBefore(b, a)
<1>1. Tolerance \in Nat
    BY ToleranceAssumption
<1>2. /\ a.risk \in Nat /\ a.waited \in Nat /\ a.alternatives \in Nat
      /\ a.submittedAt \in Nat /\ a.closeness \in Nat
    BY StudentFields
<1>3. /\ b.risk \in Nat /\ b.waited \in Nat /\ b.alternatives \in Nat
      /\ b.submittedAt \in Nat /\ b.closeness \in Nat
    BY StudentFields
<1>4. Near(a, b) <=> Near(b, a)
    BY <1>1, <1>2, <1>3 DEF Near
<1>5. CASE Near(a, b)
    <2>1. TieBreak(a, b)
        BY <1>5 DEF ComesBefore
    <2>2. ~TieBreak(b, a)
        BY <1>2, <1>3, <2>1 DEF TieBreak
    <2> QED BY <1>4, <1>5, <2>2 DEF ComesBefore
<1>6. CASE ~Near(a, b)
    BY <1>2, <1>3, <1>4, <1>6 DEF ComesBefore
<1> QED BY <1>5, <1>6

\* Among three requests where nearness is transitive, not coming before is.
LEMMA NotBeforeTransitive ==
    ASSUME NEW a \in Student, NEW b \in Student, NEW c \in Student,
           Near(a, b) /\ Near(b, c) => Near(a, c),
           Near(b, a) /\ Near(a, c) => Near(b, c),
           Near(a, c) /\ Near(c, b) => Near(a, b),
           ~ComesBefore(b, a), ~ComesBefore(c, b)
    PROVE  ~ComesBefore(c, a)
<1>1. Tolerance \in Nat
    BY ToleranceAssumption
<1>2. /\ a.risk \in Nat /\ a.waited \in Nat /\ a.alternatives \in Nat
      /\ a.submittedAt \in Nat /\ a.closeness \in Nat
    BY StudentFields
<1>3. /\ b.risk \in Nat /\ b.waited \in Nat /\ b.alternatives \in Nat
      /\ b.submittedAt \in Nat /\ b.closeness \in Nat
    BY StudentFields
<1>4. /\ c.risk \in Nat /\ c.waited \in Nat /\ c.alternatives \in Nat
      /\ c.submittedAt \in Nat /\ c.closeness \in Nat
    BY StudentFields
<1>5. (Near(b, a) <=> Near(a, b)) /\ (Near(c, b) <=> Near(b, c)) /\ (Near(c, a) <=> Near(a, c))
    BY <1>1, <1>2, <1>3, <1>4 DEF Near
<1>6. CASE Near(a, b) /\ Near(b, c)
    <2>1. ~TieBreak(b, a) /\ ~TieBreak(c, b) /\ Near(c, a)
        BY <1>5, <1>6 DEF ComesBefore
    <2>2. ~TieBreak(c, a)
        BY <1>2, <1>3, <1>4, <2>1 DEF TieBreak
    <2> QED BY <2>1, <2>2 DEF ComesBefore
<1>7. CASE Near(a, b) /\ ~Near(b, c)
    <2>1. ~Near(a, c)
        BY <1>5, <1>7
    <2>2. c.closeness <= b.closeness
        BY <1>3, <1>4, <1>5, <1>7 DEF ComesBefore
    <2>3. a.closeness >= c.closeness
        BY <1>1, <1>2, <1>3, <1>4, <1>7, <2>1, <2>2 DEF Near
    <2> QED BY <1>2, <1>4, <1>5, <2>1, <2>3 DEF ComesBefore
<1>8. CASE ~Near(a, b) /\ Near(b, c)
    <2>1. ~Near(a, c)
        BY <1>5, <1>8
    <2>2. b.closeness <= a.closeness
        BY <1>2, <1>3, <1>5, <1>8 DEF ComesBefore
    <2>3. a.closeness >= c.closeness
        BY <1>1, <1>2, <1>3, <1>4, <1>8, <2>1, <2>2 DEF Near
    <2> QED BY <1>2, <1>4, <1>5, <2>1, <2>3 DEF ComesBefore
<1>9. CASE ~Near(a, b) /\ ~Near(b, c)
    <2>1. b.closeness <= a.closeness /\ c.closeness <= b.closeness
        BY <1>2, <1>3, <1>4, <1>5, <1>9 DEF ComesBefore
    <2>2. ~Near(a, c)
        BY <1>1, <1>2, <1>3, <1>4, <1>9, <2>1 DEF Near
    <2> QED BY <1>2, <1>3, <1>4, <1>5, <2>1, <2>2 DEF ComesBefore
<1> QED BY <1>6, <1>7, <1>8, <1>9

\* Numbers that grow by at most t from one to the next.
LEMMA SmallSteps ==
    ASSUME NEW n \in Nat, NEW t \in Nat, NEW c \in [1..n -> Int],
           \A i \in 1..(n - 1) : c[i + 1] <= c[i] + t
    PROVE  \A i, j \in 1..n : i < j => c[j] <= c[i] + t * (n - 1)
<1> SUFFICES ASSUME NEW i \in 1..n
             PROVE  \A j \in 1..n : i < j => c[j] <= c[i] + t * (n - 1)
    OBVIOUS
<1> DEFINE bad == {j \in 1..n : i < j /\ ~(c[j] <= c[i] + t * (j - i))}
<1>1. bad = {}
    <2> SUFFICES ASSUME bad # {} PROVE FALSE
        OBVIOUS
    <2>1. bad \subseteq Nat
        OBVIOUS
    <2>2. PICK j \in bad : \A m \in bad : j <= m
        <3> HIDE DEF bad
        <3> QED BY <2>1, SmallestNumber
    <2> DEFINE m == j - 1
    <2>3. m \in 1..(n - 1) /\ j = m + 1 /\ i <= m /\ j \in 1..n
        BY <2>2
    <2>4. c[j] <= c[m] + t /\ c[m] \in Int /\ c[j] \in Int /\ c[i] \in Int
        BY <2>3
    <2>5. ~(c[j] <= c[i] + t * (j - i))
        BY <2>2
    <2>6. m \notin bad
        BY <2>2, <2>3
    <2>7. CASE m = i
        <3>1. t * (j - i) = t
            BY <2>3, <2>7
        <3> QED BY <2>4, <2>5, <2>7, <3>1
    <2>8. CASE m # i
        <3>1. c[m] <= c[i] + t * (m - i)
            BY <2>3, <2>6, <2>8
        <3>2. t * (j - i) = t * (m - i) + t
            BY <2>3
        <3>3. t * (m - i) \in Int
            BY <2>3
        <3> DEFINE u == t * (m - i)
                   v == t * (j - i)
        <3>4. u \in Int /\ c[m] <= c[i] + u /\ v = u + t /\ ~(c[j] <= c[i] + v)
            BY <2>5, <3>1, <3>2, <3>3
        <3> HIDE DEF m, u, v, bad
        <3> QED BY <2>4, <3>4
    <2> QED BY <2>7, <2>8
<1> SUFFICES ASSUME NEW j \in 1..n, i < j PROVE c[j] <= c[i] + t * (n - 1)
    OBVIOUS
<1>2. c[j] <= c[i] + t * (j - i)
    BY <1>1
<1>3. t * (j - i) <= t * (n - 1)
    <2> DEFINE d == (n - 1) - (j - i)
    <2>1. d \in Nat /\ j - i \in Nat /\ n - 1 = (j - i) + d
        OBVIOUS
    <2>2. t * d \in Nat
        <3> HIDE DEF d
        <3> QED BY <2>1
    <2>3. t * (n - 1) = t * (j - i) + t * d
        OBVIOUS
    <2>4. t * (j - i) \in Nat
        BY <2>1
    <2> QED BY <2>2, <2>3, <2>4
<1> DEFINE v == t * (j - i)
           w == t * (n - 1)
<1>4. v \in Int /\ w \in Int /\ c[j] \in Int /\ c[i] \in Int
    OBVIOUS
<1>5. c[j] <= c[i] + v /\ v <= w
    BY <1>2, <1>3
<1>6. c[j] <= c[i] + w
    <2> HIDE DEF v, w
    <2> QED BY <1>4, <1>5
<1> QED BY <1>6

\* Each request has an id of its own.
OneEach(requests) ==
    \A p, q \in 1..Len(requests) : requests[p].id = requests[q].id => p = q

\* Nearness is transitive among the requests of a course.
NearTransitive(requests) ==
    \A p, q, r \in 1..Len(requests) :
        /\ requests[p].course = requests[q].course /\ requests[q].course = requests[r].course
        /\ Near(requests[p], requests[q]) /\ Near(requests[q], requests[r])
        => Near(requests[p], requests[r])

\* The list w ranks requests of a pool of n: neighbours differ by one tolerance
\* at most in the wrong direction, and all are in order if nearness is transitive.
RanksPool(w, n, transitive) ==
    \A i, j \in 1..Len(w) : i < j =>
        /\ w[i].id # w[j].id
        /\ w[j].closeness <= w[i].closeness + Tolerance * (n - 1)
        /\ transitive => ~ComesBefore(w[j], w[i])

\* The precedence that rankPool sorts a pool by.
LEMMA PoolPrecedence ==
    ASSUME NEW pool \in Seq(Student)
    PROVE  /\ Asymmetric(Precedence(pool, ComesBefore))
           /\ \A a, b \in 1..Len(pool) :
                  <<a, b>> \in Precedence(pool, ComesBefore) <=> ComesBefore(pool[a], pool[b])
<1> DEFINE P == Precedence(pool, ComesBefore)
<1>1. DOMAIN pool = 1..Len(pool) /\ \A i \in 1..Len(pool) : pool[i] \in Student
    BY ElementOfSeq
<1>2. \A a, b \in 1..Len(pool) : <<a, b>> \in P <=> ComesBefore(pool[a], pool[b])
    BY <1>1 DEF Precedence
<1>3. \A a, b \in Nat : <<a, b>> \in P => a \in 1..Len(pool) /\ b \in 1..Len(pool)
    BY <1>1 DEF Precedence
<1> HIDE DEF P
<1>4. Asymmetric(P)
    <2> SUFFICES ASSUME NEW a \in Nat, NEW b \in Nat, <<a, b>> \in P PROVE <<b, a>> \notin P
        BY DEF Asymmetric
    <2>1. a \in 1..Len(pool) /\ b \in 1..Len(pool)
        BY <1>3
    <2>2. ComesBefore(pool[a], pool[b])
        BY <1>2, <2>1
    <2>3. ~ComesBefore(pool[b], pool[a])
        BY <1>1, <2>1, <2>2, ComesBeforeAsymmetric
    <2> QED BY <1>2, <2>1, <2>3
<1> QED BY <1>2, <1>4 DEF P

\* The closeness of neighbours in a sorted pool.
LEMMA NeighboursClose ==
    ASSUME NEW a \in Student, NEW b \in Student, ~ComesBefore(b, a)
    PROVE  b.closeness <= a.closeness + Tolerance
<1>1. Tolerance \in Nat /\ a.closeness \in Nat /\ b.closeness \in Nat
    BY ToleranceAssumption, StudentFields
<1>2. CASE Near(b, a)
    BY <1>1, <1>2 DEF Near
<1>3. CASE ~Near(b, a)
    <2>1. ~(b.closeness > a.closeness)
        BY <1>3 DEF ComesBefore
    <2> QED BY <1>1, <2>1
<1> QED BY <1>2, <1>3

\* rankPool: the requests of the pool, ranked.
LEMMA PoolRanked ==
    ASSUME NEW pool \in Seq(Student), OneEach(pool), NEW w, w = RankPool(pool)
    PROVE  /\ w \in Seq(Student) /\ Len(w) = Len(pool) /\ Rearranged(w, pool)
           /\ \A t \in BOOLEAN :
                  (t => \A p, q, r \in 1..Len(pool) :
                            Near(pool[p], pool[q]) /\ Near(pool[q], pool[r])
                                => Near(pool[p], pool[r]))
                  => RanksPool(w, Len(pool), t)
<1> DEFINE P == Precedence(pool, ComesBefore)
           n == Len(pool)
<1>1. n \in Nat /\ \A i \in 1..n : pool[i] \in Student
    BY ElementOfSeq
<1>2. /\ Asymmetric(P)
      /\ \A a, b \in 1..n : <<a, b>> \in P <=> ComesBefore(pool[a], pool[b])
    BY PoolPrecedence
<1>3. w = [i \in DOMAIN pool |-> pool[Places(Len(pool), P)[i]]]
    BY DEF RankPool, SortStable
<1> HIDE DEF P
<1>4. w \in Seq(Student) /\ IsSortOf(w, pool, P)
    BY <1>3, SortIsSorted
<1>5. Rearranged(w, pool)
    BY <1>1, <1>4, SortedElements
<1>6. Len(w) = n
    BY <1>4 DEF IsSortOf
<1> HIDE DEF n
<1>7. PICK o : SortedSoFar(o, n, n, P) /\ \A i \in 1..n : w[i] = pool[o[i]]
    BY <1>4 DEF IsSortOf, n
<1>8. \A i \in 1..n : o[i] \in 1..n
    BY <1>7 DEF SortedSoFar, Permuted
<1>9. \A i, j \in 1..n : i < j => w[i].id # w[j].id
    <2> SUFFICES ASSUME NEW i \in 1..n, NEW j \in 1..n, i < j PROVE w[i].id # w[j].id
        OBVIOUS
    <2>1. i # j
        BY <1>1
    <2>2. PICK p \in 1..n, q \in 1..n : p # q /\ w[i] = pool[p] /\ w[j] = pool[q]
        BY <1>5, <1>6, <2>1 DEF n, Rearranged
    <2> QED BY <2>2 DEF OneEach, n
<1>10. \A i, j \in 1..n : i < j => w[j].closeness <= w[i].closeness + Tolerance * (n - 1)
    <2> DEFINE c == [i \in 1..n |-> w[i].closeness]
    <2>1. \A i \in 1..n : w[i] \in Student
        BY <1>1, <1>7, <1>8
    <2>2. c \in [1..n -> Int]
        BY <2>1, StudentFields
    <2>3. \A i \in 1..(n - 1) : c[i + 1] <= c[i] + Tolerance
        <3> SUFFICES ASSUME NEW i \in 1..(n - 1) PROVE c[i + 1] <= c[i] + Tolerance
            OBVIOUS
        <3>1. i \in 1..n /\ i + 1 \in 1..n
            BY <1>1
        <3>2. <<o[i + 1], o[i]>> \notin P
            BY <1>2, <1>7 DEF SortedSoFar, NeighboursOrdered
        <3>3. ~ComesBefore(pool[o[i + 1]], pool[o[i]])
            BY <1>2, <1>8, <3>1, <3>2 DEF n
        <3>4. ~ComesBefore(w[i + 1], w[i])
            BY <1>7, <3>1, <3>3
        <3>5. w[i + 1].closeness <= w[i].closeness + Tolerance
            BY <2>1, <3>1, <3>4, NeighboursClose
        <3> QED BY <3>1, <3>5
    <2>4. Tolerance \in Nat
        BY ToleranceAssumption
    <2> HIDE DEF c
    <2>5. \A i, j \in 1..n : i < j => c[j] <= c[i] + Tolerance * (n - 1)
        BY <1>1, <2>2, <2>3, <2>4, SmallSteps
    <2> QED BY <2>5 DEF c
<1>11. ASSUME \A p, q, r \in 1..n :
                  Near(pool[p], pool[q]) /\ Near(pool[q], pool[r]) => Near(pool[p], pool[r])
       PROVE  \A i, j \in 1..n : i < j => ~ComesBefore(w[j], w[i])
    <2>1. TiesAreTransitive(n, P)
        <3> SUFFICES ASSUME NEW a \in 1..n, NEW b \in 1..n, NEW c \in 1..n,
                            <<b, a>> \notin P, <<c, b>> \notin P
                     PROVE  <<c, a>> \notin P
            BY DEF TiesAreTransitive
        <3>1. ~ComesBefore(pool[b], pool[a]) /\ ~ComesBefore(pool[c], pool[b])
            BY <1>2 DEF n
        <3>2. pool[a] \in Student /\ pool[b] \in Student /\ pool[c] \in Student
            BY <1>1 DEF n
        <3>3. ~ComesBefore(pool[c], pool[a])
            BY <1>11, <3>1, <3>2, NotBeforeTransitive
        <3> QED BY <1>2, <3>3 DEF n
    <2>2. \A i, j \in 1..n : i < j => <<o[j], o[i]>> \notin P
        BY <1>2, <1>7, <2>1 DEF SortedSoFar, AllOrdered
    <2> SUFFICES ASSUME NEW i \in 1..n, NEW j \in 1..n, i < j PROVE ~ComesBefore(w[j], w[i])
        OBVIOUS
    <2>3. ~ComesBefore(pool[o[j]], pool[o[i]])
        BY <1>2, <1>8, <2>2 DEF n
    <2> QED BY <1>7, <2>3
<1>12. ASSUME NEW t \in BOOLEAN,
              t => \A p, q, r \in 1..n :
                       Near(pool[p], pool[q]) /\ Near(pool[q], pool[r]) => Near(pool[p], pool[r])
       PROVE  RanksPool(w, n, t)
    <2>1. t => \A i, j \in 1..n : i < j => ~ComesBefore(w[j], w[i])
        BY <1>11, <1>12
    <2> QED BY <1>6, <1>9, <1>10, <2>1 DEF RanksPool
<1> QED BY <1>4, <1>5, <1>6, <1>12 DEF n

\* The list w ranks the requests for a course.
RanksCourse(w, requests, course) ==
    /\ \A i \in 1..Len(w) :
           \E p \in 1..Len(requests) : w[i] = requests[p] /\ requests[p].course = course
    /\ \A p \in 1..Len(requests) :
           requests[p].course = course => \E i \in 1..Len(w) : w[i] = requests[p]
    /\ RanksPool(w, Len(Pool(requests, course)), NearTransitive(requests))

\* One entry of RankByCourse.
LEMMA CourseRanked ==
    ASSUME NEW requests \in Seq(Student), OneEach(requests), NEW course, NEW w,
           w = RankPool(Pool(requests, course))
    PROVE  w \in Seq(Student) /\ RanksCourse(w, requests, course)
<1> DEFINE pool == Pool(requests, course)
           n == Len(requests)
           m == Len(pool)
<1>1. pool \in Seq(Student) /\ Picked(pool, requests, course, n)
    BY PoolPicks
<1> HIDE DEF pool
<1>2. n \in Nat /\ m \in Nat /\ \A p \in 1..n : requests[p] \in Student
    BY <1>1, ElementOfSeq
<1> HIDE DEF n, m
<1>3. \A i \in 1..m : \E p \in 1..n : pool[i] = requests[p] /\ requests[p].course = course
    BY <1>1 DEF Picked, m
<1>4. OneEach(pool)
    <2> SUFFICES ASSUME NEW i \in 1..m, NEW j \in 1..m, i # j PROVE pool[i].id # pool[j].id
        BY DEF OneEach, m
    <2>1. ASSUME NEW k \in 1..m, NEW l \in 1..m, k < l PROVE pool[k].id # pool[l].id
        <3>1. PICK p \in 1..n, q \in 1..n : p < q /\ pool[k] = requests[p] /\ pool[l] = requests[q]
            BY <1>1, <2>1 DEF Picked, m
        <3>2. p # q
            BY <1>2, <3>1
        <3> QED BY <3>1, <3>2 DEF OneEach, n
    <2>2. i < j \/ j < i
        BY <1>2
    <2> QED BY <2>1, <2>2
<1>5. /\ w \in Seq(Student) /\ Len(w) = m /\ Rearranged(w, pool)
      /\ \A t \in BOOLEAN :
             (t => \A p, q, r \in 1..m :
                       Near(pool[p], pool[q]) /\ Near(pool[q], pool[r])
                           => Near(pool[p], pool[r]))
             => RanksPool(w, m, t)
    BY <1>1, <1>4, PoolRanked DEF pool, m
<1>6. NearTransitive(requests) =>
          \A p, q, r \in 1..m :
              Near(pool[p], pool[q]) /\ Near(pool[q], pool[r]) => Near(pool[p], pool[r])
    <2> SUFFICES ASSUME NearTransitive(requests), NEW p \in 1..m, NEW q \in 1..m, NEW r \in 1..m,
                        Near(pool[p], pool[q]), Near(pool[q], pool[r])
                 PROVE  Near(pool[p], pool[r])
        OBVIOUS
    <2>1. PICK a \in 1..n : pool[p] = requests[a] /\ requests[a].course = course
        BY <1>3
    <2>2. PICK b \in 1..n : pool[q] = requests[b] /\ requests[b].course = course
        BY <1>3
    <2>3. PICK c \in 1..n : pool[r] = requests[c] /\ requests[c].course = course
        BY <1>3
    <2> QED BY <2>1, <2>2, <2>3 DEF NearTransitive, n
<1>7. RanksPool(w, m, NearTransitive(requests))
    <2>1. CASE NearTransitive(requests)
        <3>1. RanksPool(w, m, TRUE)
            BY <1>5, <1>6, <2>1
        <3> QED BY <2>1, <3>1 DEF RanksPool
    <2>2. CASE ~NearTransitive(requests)
        <3>1. RanksPool(w, m, FALSE)
            BY <1>5
        <3> QED BY <2>2, <3>1 DEF RanksPool
    <2> QED BY <2>1, <2>2
<1>8. \A i \in 1..Len(w) :
          \E p \in 1..n : w[i] = requests[p] /\ requests[p].course = course
    <2> SUFFICES ASSUME NEW i \in 1..Len(w)
                 PROVE  \E p \in 1..n : w[i] = requests[p] /\ requests[p].course = course
        OBVIOUS
    <2>1. PICK k \in 1..m : w[i] = pool[k]
        BY <1>5 DEF Rearranged, m
    <2> QED BY <1>3, <2>1
<1>9. \A p \in 1..n : requests[p].course = course => \E i \in 1..Len(w) : w[i] = requests[p]
    <2> SUFFICES ASSUME NEW p \in 1..n, requests[p].course = course
                 PROVE  \E i \in 1..Len(w) : w[i] = requests[p]
        OBVIOUS
    <2>1. PICK k \in 1..m : pool[k] = requests[p]
        BY <1>1 DEF Picked, m
    <2>2. PICK i \in 1..Len(w) : w[i] = pool[k]
        BY <1>5, <2>1 DEF Rearranged, m
    <2> QED BY <2>1, <2>2
<1> QED BY <1>5, <1>7, <1>8, <1>9 DEF RanksCourse, pool, n, m

\* The list ranked holds the requests, each course in order.
IsRanking(ranked, requests) ==
    /\ ranked \in Seq(Student) /\ Rearranged(ranked, requests)
    /\ \A i, j \in 1..Len(ranked) : i < j /\ ranked[i].course = ranked[j].course =>
           /\ ranked[j].closeness
                <= ranked[i].closeness + Tolerance * (Len(Pool(requests, ranked[j].course)) - 1)
           /\ NearTransitive(requests) => ~ComesBefore(ranked[j], ranked[i])

\* The sequences of the elements of a finite set.
LEMMA AllInTurn ==
    ASSUME NEW S, IsFiniteSet(S), NEW order \in SetToSeqs(S)
    PROVE  /\ Cardinality(S) \in Nat /\ order \in [1..Cardinality(S) -> S]
           /\ \A i, j \in 1..Cardinality(S) : i # j => order[i] # order[j]
           /\ \A x \in S : \E i \in 1..Cardinality(S) : order[i] = x
<1> DEFINE n == Cardinality(S)
<1>1. n \in Nat /\ IsFiniteSet(1..n) /\ Cardinality(1..n) = n
    BY FS_CardinalityType, FS_Interval
<1>2. order \in [1..n -> S] /\ \A i, j \in 1..n : i # j => order[i] # order[j]
    BY DEF SetToSeqs
<1>3. order \in Injection(1..n, S)
    BY <1>2 DEF Injection, IsInjective
<1>4. order \in Surjection(1..n, S)
    BY <1>1, <1>3, FS_Injection
<1>5. \A x \in S : \E i \in 1..n : order[i] = x
    BY <1>4 DEF Surjection
<1> QED BY <1>1, <1>2, <1>5

\* RankByCourse, in whatever order its map is visited.
LEMMA MapRanked ==
    ASSUME NEW requests \in Seq(Student), OneEach(requests),
           NEW ranked \in InMapOrder(RankByCourse(requests))
    PROVE  IsRanking(ranked, requests)
<1> DEFINE m == Len(requests)
           D == {requests[i].course : i \in DOMAIN requests}
           byCourse == [course \in D |-> RankPool(Pool(requests, course))]
           n == Cardinality(D)
<1>1. m \in Nat /\ DOMAIN requests = 1..m /\ \A p \in 1..m : requests[p] \in Student
    BY ElementOfSeq
<1>2. IsFiniteSet(D)
    <2> DEFINE f == [i \in 1..m |-> requests[i].course]
    <2>1. f \in Surjection(1..m, D)
        <3>1. f \in [1..m -> D]
            BY <1>1
        <3>2. \A x \in D : \E i \in 1..m : f[i] = x
            BY <1>1
        <3> QED BY <3>1, <3>2 DEF Surjection
    <2>2. IsFiniteSet(1..m)
        BY <1>1, FS_Interval
    <2> HIDE DEF f, m, D
    <2> QED BY <2>1, <2>2, FS_Surjection
<1>3. RankByCourse(requests) = byCourse /\ DOMAIN byCourse = D
    BY DEF RankByCourse
<1>4. PICK order \in SetToSeqs(D) :
          ranked = FlattenSeq([i \in DOMAIN order |-> byCourse[order[i]]])
    BY <1>3 DEF InMapOrder
<1>5. /\ n \in Nat /\ order \in [1..n -> D]
      /\ \A i, j \in 1..n : i # j => order[i] # order[j]
      /\ \A x \in D : \E i \in 1..n : order[i] = x
    <2> HIDE DEF D
    <2> QED BY <1>2, <1>4, AllInTurn
<1>6. \A p \in 1..m : requests[p].course \in D
    BY <1>1
<1> DEFINE seqs == [i \in 1..n |-> byCourse[order[i]]]
<1>7. ranked = FlattenSeq(seqs)
    BY <1>4, <1>5
<1>8. \A b \in 1..n : seqs[b] = RankPool(Pool(requests, order[b])) /\ order[b] \in D
    BY <1>5
<1>9. \A b \in 1..n : seqs[b] \in Seq(Student) /\ RanksCourse(seqs[b], requests, order[b])
    <2> HIDE DEF seqs, n, D
    <2> QED BY <1>8, CourseRanked
<1>10. ASSUME NEW b \in 1..n, NEW u \in 1..Len(seqs[b])
       PROVE  \E p \in 1..m : seqs[b][u] = requests[p] /\ requests[p].course = order[b]
    <2> DEFINE w == seqs[b]
    <2>1. RanksCourse(w, requests, order[b]) /\ u \in 1..Len(w)
        <3> HIDE DEF seqs, n, D
        <3> QED BY <1>9
    <2> HIDE DEF w, seqs
    <2>2. \E p \in 1..m : w[u] = requests[p] /\ requests[p].course = order[b]
        BY <2>1 DEF RanksCourse
    <2> QED BY <2>2 DEF w
<1>11. Len(seqs) = n /\ (n = 0 => seqs = << >>)
    <2>1. seqs \in [1..n -> Seq(Student)]
        <3> HIDE DEF n, D, byCourse
        <3> QED BY <1>9
    <2>2. n \in Nat
        BY <1>5
    <2> HIDE DEF seqs, n
    <2>3. seqs \in Seq(Seq(Student)) /\ Len(seqs) = n
        BY <2>1, <2>2
    <2>4. Len(<< >>) = 0 /\ (seqs # << >> => Len(seqs) \in Nat \ {0})
        BY <2>3, EmptySeq
    <2> QED BY <2>3, <2>4
<1> HIDE DEF seqs, n, D, byCourse, m
<1>12. ranked \in Seq(Student) /\ Joined(ranked, seqs, n)
    BY <1>5, <1>7, <1>9, <1>11, Flattened
<1>13. Len(ranked) \in Nat
    BY <1>12
<1>14. ASSUME NEW i \in 1..Len(ranked), NEW j \in 1..Len(ranked), i < j
       PROVE  /\ ranked[i].id # ranked[j].id
              /\ ranked[i].course = ranked[j].course =>
                    /\ ranked[j].closeness
                         <= ranked[i].closeness
                              + Tolerance * (Len(Pool(requests, ranked[j].course)) - 1)
                    /\ NearTransitive(requests) => ~ComesBefore(ranked[j], ranked[i])
    <2>1. PICK b \in 1..n, c \in 1..n :
              \E u \in 1..Len(seqs[b]), v \in 1..Len(seqs[c]) :
                  /\ ranked[i] = seqs[b][u] /\ ranked[j] = seqs[c][v]
                  /\ b < c \/ (b = c /\ u < v)
        BY <1>12, <1>14 DEF Joined
    <2>2. PICK u \in 1..Len(seqs[b]), v \in 1..Len(seqs[c]) :
              /\ ranked[i] = seqs[b][u] /\ ranked[j] = seqs[c][v]
              /\ b < c \/ (b = c /\ u < v)
        BY <2>1
    <2>3. PICK p \in 1..m : ranked[i] = requests[p] /\ requests[p].course = order[b]
        BY <1>10, <2>2
    <2>4. PICK q \in 1..m : ranked[j] = requests[q] /\ requests[q].course = order[c]
        BY <1>10, <2>2
    <2>5. CASE b < c
        <3>1. order[b] # order[c]
            BY <1>5, <2>5
        <3>2. p # q
            BY <2>3, <2>4, <3>1
        <3>3. ranked[i].id # ranked[j].id
            BY <2>3, <2>4, <3>2 DEF OneEach, m
        <3>4. ranked[i].course # ranked[j].course
            BY <2>3, <2>4, <3>1
        <3> QED BY <3>3, <3>4
    <2>6. CASE b = c /\ u < v
        <3>1. RanksPool(seqs[b], Len(Pool(requests, order[b])), NearTransitive(requests))
            BY <1>9 DEF RanksCourse
        <3>2. /\ seqs[b][u].id # seqs[b][v].id
              /\ seqs[b][v].closeness
                   <= seqs[b][u].closeness + Tolerance * (Len(Pool(requests, order[b])) - 1)
              /\ NearTransitive(requests) => ~ComesBefore(seqs[b][v], seqs[b][u])
            BY <2>6, <3>1 DEF RanksPool
        <3>3. ranked[i] = seqs[b][u] /\ ranked[j] = seqs[b][v] /\ ranked[j].course = order[b]
            BY <2>2, <2>4, <2>6
        <3> QED BY <3>2, <3>3
    <2> QED BY <2>2, <2>5, <2>6
<1>15. \A i \in 1..Len(ranked) : \E p \in 1..m : ranked[i] = requests[p]
    <2> SUFFICES ASSUME NEW i \in 1..Len(ranked) PROVE \E p \in 1..m : ranked[i] = requests[p]
        OBVIOUS
    <2>1. PICK b \in 1..n : \E u \in 1..Len(seqs[b]) : ranked[i] = seqs[b][u]
        BY <1>12 DEF Joined
    <2>2. PICK u \in 1..Len(seqs[b]) : ranked[i] = seqs[b][u]
        BY <2>1
    <2> QED BY <1>10, <2>2
<1>16. \A p \in 1..m : \E i \in 1..Len(ranked) : ranked[i] = requests[p]
    <2> SUFFICES ASSUME NEW p \in 1..m PROVE \E i \in 1..Len(ranked) : ranked[i] = requests[p]
        OBVIOUS
    <2>1. PICK b \in 1..n : order[b] = requests[p].course
        BY <1>5, <1>6
    <2>2. PICK u \in 1..Len(seqs[b]) : seqs[b][u] = requests[p]
        BY <1>9, <2>1 DEF RanksCourse, m
    <2>3. PICK i \in 1..Len(ranked) : ranked[i] = seqs[b][u]
        BY <1>12 DEF Joined
    <2> QED BY <2>2, <2>3
<1>17. \A i, j \in 1..Len(ranked) : i # j =>
           \E p, q \in 1..m : p # q /\ ranked[i] = requests[p] /\ ranked[j] = requests[q]
    <2> SUFFICES ASSUME NEW i \in 1..Len(ranked), NEW j \in 1..Len(ranked), i # j
                 PROVE  \E p, q \in 1..m : p # q /\ ranked[i] = requests[p] /\ ranked[j] = requests[q]
        OBVIOUS
    <2>1. ranked[i].id # ranked[j].id
        <3>1. i < j \/ j < i
            BY <1>13
        <3> QED BY <1>14, <3>1
    <2>2. PICK p \in 1..m : ranked[i] = requests[p]
        BY <1>15
    <2>3. PICK q \in 1..m : ranked[j] = requests[q]
        BY <1>15
    <2>4. p # q
        BY <2>1, <2>2, <2>3
    <2> QED BY <2>2, <2>3, <2>4
<1> QED BY <1>12, <1>14, <1>15, <1>16, <1>17 DEF IsRanking, Rearranged, m

-----------------------------------------------------------------------------
(* The edges. *)

\* The edge of the alternative.
AltEdge(s) == [PrimaryEdge(s) EXCEPT !.section = s.alt]

\* One of the edges of a student.
IsEdgeOf(e, s) == e = PrimaryEdge(s) \/ (s.alt # NoSection /\ e = AltEdge(s))

\* What is in an edge.
LEMMA EdgeFields ==
    ASSUME NEW s \in Student
    PROVE  /\ PrimaryEdge(s) \in Edge
           /\ PrimaryEdge(s).student = s.id /\ PrimaryEdge(s).course = s.course
           /\ PrimaryEdge(s).section = s.primary /\ PrimaryEdge(s).score = s.closeness
           /\ s.alt # NoSection => AltEdge(s) \in Edge
           /\ AltEdge(s).student = s.id /\ AltEdge(s).course = s.course
           /\ AltEdge(s).section = s.alt /\ AltEdge(s).score = s.closeness
<1>1. /\ s.id \in Students /\ s.course \in Courses /\ s.primary \in Sections
      /\ s.closeness \in Int /\ s.alt \in Sections \union {NoSection}
    BY DEF Student
<1>2. PrimaryEdge(s) = [student |-> s.id, course |-> s.course, section |-> s.primary,
                        score |-> s.closeness]
    BY DEF PrimaryEdge
<1>3. AltEdge(s) = [student |-> s.id, course |-> s.course, section |-> s.alt,
                    score |-> s.closeness]
    BY <1>2 DEF AltEdge
<1> QED BY <1>1, <1>2, <1>3 DEF Edge

\* The list edges holds the edges of the students, in the order of the
\* students, the first choice first.
FollowsStudents(edges, students) ==
    /\ \A i \in 1..Len(edges) : \E p \in 1..Len(students) : IsEdgeOf(edges[i], students[p])
    /\ \A p \in 1..Len(students) : \E i \in 1..Len(edges) : edges[i] = PrimaryEdge(students[p])
    /\ \A i, j \in 1..Len(edges) : i < j =>
           \E p, q \in 1..Len(students) :
               /\ IsEdgeOf(edges[i], students[p]) /\ IsEdgeOf(edges[j], students[q])
               /\ p < q \/ (p = q /\ edges[i] = PrimaryEdge(students[p])
                                  /\ edges[j] = AltEdge(students[p]))

\* The edges of one student.
LEMMA EdgesOfOne ==
    ASSUME NEW s \in Student, NEW w, w = EdgesOf(s)
    PROVE  /\ w \in Seq(Edge) /\ Len(w) \in {1, 2} /\ w[1] = PrimaryEdge(s)
           /\ Len(w) = 2 => s.alt # NoSection /\ w[2] = AltEdge(s)
<1>1. CASE s.alt = NoSection
    <2>1. w = <<PrimaryEdge(s)>>
        BY <1>1 DEF EdgesOf
    <2> DEFINE e == PrimaryEdge(s)
    <2>2. e \in Edge
        BY EdgeFields
    <2> HIDE DEF e
    <2>3. <<e>> \in Seq(Edge) /\ Len(<<e>>) = 1 /\ <<e>>[1] = e
        BY <2>2
    <2> QED BY <2>1, <2>3 DEF e
<1>2. CASE s.alt # NoSection
    <2>1. w = <<PrimaryEdge(s), AltEdge(s)>>
        BY <1>2 DEF EdgesOf, AltEdge
    <2> DEFINE e == PrimaryEdge(s)
               f == AltEdge(s)
    <2>2. e \in Edge /\ f \in Edge
        BY <1>2, EdgeFields
    <2> HIDE DEF e, f
    <2>3. <<e, f>> \in Seq(Edge) /\ Len(<<e, f>>) = 2 /\ <<e, f>>[1] = e /\ <<e, f>>[2] = f
        BY <2>2
    <2> QED BY <1>2, <2>1, <2>3 DEF e, f
<1> QED BY <1>1, <1>2

\* AllEdges follows the students.
LEMMA AllEdgesFollow ==
    ASSUME NEW students \in Seq(Student), NEW edges, edges = AllEdges(students)
    PROVE  edges \in Seq(Edge) /\ FollowsStudents(edges, students)
<1> DEFINE n == Len(students)
           seqs == [i \in DOMAIN students |-> EdgesOf(students[i])]
<1>1. n \in Nat /\ DOMAIN students = 1..n /\ \A p \in 1..n : students[p] \in Student
    BY ElementOfSeq
<1>2. edges = FlattenSeq(seqs)
    BY DEF AllEdges
<1>3. \A b \in 1..n : seqs[b] = EdgesOf(students[b])
    BY <1>1
<1>4. seqs = [i \in 1..n |-> seqs[i]]
    BY <1>1
<1> HIDE DEF seqs, n
<1>5. \A b \in 1..n :
          /\ seqs[b] \in Seq(Edge) /\ Len(seqs[b]) \in {1, 2}
          /\ seqs[b][1] = PrimaryEdge(students[b])
          /\ Len(seqs[b]) = 2 =>
                 students[b].alt # NoSection /\ seqs[b][2] = AltEdge(students[b])
    BY <1>1, <1>3, EdgesOfOne
<1>6. Len(seqs) = n /\ (n = 0 => seqs = << >>)
    <2>1. seqs \in [1..n -> Seq(Edge)]
        BY <1>4, <1>5
    <2>2. seqs \in Seq(Seq(Edge)) /\ Len(seqs) = n
        BY <1>1, <2>1
    <2>3. Len(<< >>) = 0 /\ (seqs # << >> => Len(seqs) \in Nat \ {0})
        BY <2>2, EmptySeq
    <2> QED BY <2>2, <2>3
<1>7. edges \in Seq(Edge) /\ Joined(edges, seqs, n)
    <2>1. n \in Nat /\ \A b \in 1..n : seqs[b] \in Seq(Edge)
        BY <1>1, <1>5
    <2> QED BY <1>2, <1>6, <2>1, Flattened
<1>8. ASSUME NEW b \in 1..n, NEW u \in 1..Len(seqs[b])
      PROVE  /\ IsEdgeOf(seqs[b][u], students[b])
             /\ u = 1 => seqs[b][u] = PrimaryEdge(students[b])
             /\ u # 1 => seqs[b][u] = AltEdge(students[b])
             /\ u = 1 \/ u = 2
    <2> DEFINE l == Len(seqs[b])
    <2>1. u \in 1..l /\ l \in {1, 2}
        BY <1>5
    <2> HIDE DEF l
    <2>2. u = 1 \/ (u = 2 /\ l = 2)
        BY <2>1
    <2> USE DEF l
    <2>3. CASE u = 1
        BY <1>5, <2>3 DEF IsEdgeOf
    <2>4. CASE u = 2 /\ Len(seqs[b]) = 2
        BY <1>5, <2>4 DEF IsEdgeOf
    <2> QED BY <2>2, <2>3, <2>4
<1>9. \A i \in 1..Len(edges) : \E p \in 1..n : IsEdgeOf(edges[i], students[p])
    <2> SUFFICES ASSUME NEW i \in 1..Len(edges)
                 PROVE  \E p \in 1..n : IsEdgeOf(edges[i], students[p])
        OBVIOUS
    <2>1. PICK b \in 1..n : \E u \in 1..Len(seqs[b]) : edges[i] = seqs[b][u]
        BY <1>7 DEF Joined
    <2>2. PICK u \in 1..Len(seqs[b]) : edges[i] = seqs[b][u]
        BY <2>1
    <2> QED BY <1>8, <2>2
<1>10. \A p \in 1..n : \E i \in 1..Len(edges) : edges[i] = PrimaryEdge(students[p])
    <2> SUFFICES ASSUME NEW p \in 1..n
                 PROVE  \E i \in 1..Len(edges) : edges[i] = PrimaryEdge(students[p])
        OBVIOUS
    <2>1. 1 \in 1..Len(seqs[p])
        BY <1>5
    <2>2. PICK i \in 1..Len(edges) : edges[i] = seqs[p][1]
        BY <1>7, <2>1 DEF Joined
    <2> QED BY <1>5, <2>2
<1>11. ASSUME NEW i \in 1..Len(edges), NEW j \in 1..Len(edges), i < j
       PROVE  \E p, q \in 1..n :
                  /\ IsEdgeOf(edges[i], students[p]) /\ IsEdgeOf(edges[j], students[q])
                  /\ p < q \/ (p = q /\ edges[i] = PrimaryEdge(students[p])
                                     /\ edges[j] = AltEdge(students[p]))
    <2> DEFINE placed(k, l) ==
            \E b, c \in 1..n : \E u \in 1..Len(seqs[b]), v \in 1..Len(seqs[c]) :
                /\ edges[k] = seqs[b][u] /\ edges[l] = seqs[c][v]
                /\ b < c \/ (b = c /\ u < v)
    <2>1. \A k, l \in 1..Len(edges) : k < l => placed(k, l)
        BY <1>7 DEF Joined
    <2> HIDE DEF placed
    <2>2. placed(i, j)
        BY <1>11, <2>1
    <2>3. PICK b \in 1..n, c \in 1..n :
              \E u \in 1..Len(seqs[b]), v \in 1..Len(seqs[c]) :
                  /\ edges[i] = seqs[b][u] /\ edges[j] = seqs[c][v]
                  /\ b < c \/ (b = c /\ u < v)
        BY <2>2 DEF placed
    <2>4. PICK u \in 1..Len(seqs[b]), v \in 1..Len(seqs[c]) :
              /\ edges[i] = seqs[b][u] /\ edges[j] = seqs[c][v]
              /\ b < c \/ (b = c /\ u < v)
        BY <2>3
    <2>5. IsEdgeOf(edges[i], students[b]) /\ IsEdgeOf(edges[j], students[c])
        BY <1>8, <2>4
    <2>6. CASE b < c
        BY <2>5, <2>6
    <2>7. CASE b = c /\ u < v
        <3>1. u \in {1, 2} /\ v \in {1, 2}
            BY <1>8
        <3>2. u = 1 /\ v # 1
            BY <2>7, <3>1
        <3>3. edges[i] = PrimaryEdge(students[b]) /\ edges[j] = AltEdge(students[b])
            BY <1>8, <2>4, <2>7, <3>2
        <3> QED BY <2>5, <2>7, <3>3
    <2> QED BY <2>4, <2>6, <2>7
<1> QED BY <1>7, <1>9, <1>10, <1>11 DEF FollowsStudents, n

\* The edge f of students[q] may come after the edge e of students[p]: the
\* student is less close, or later, or the same with the other choice.
MayFollow(e, f, students, p, q) ==
    /\ IsEdgeOf(e, students[p]) /\ IsEdgeOf(f, students[q])
    /\ students[p].closeness >= students[q].closeness
    /\ students[p].closeness = students[q].closeness =>
           p < q \/ (p = q /\ e = PrimaryEdge(students[p]) /\ f = AltEdge(students[p]))

\* The list w holds the edges of the students from the highest score down.
EdgesByScore(w, students) ==
    /\ w \in Seq(Edge)
    /\ \A i \in 1..Len(w) : \E p \in 1..Len(students) : IsEdgeOf(w[i], students[p])
    /\ \A p \in 1..Len(students) : \E i \in 1..Len(w) : w[i] = PrimaryEdge(students[p])
    /\ \A i, j \in 1..Len(w) : i < j =>
           \E p, q \in 1..Len(students) : MayFollow(w[i], w[j], students, p, q)

\* The precedence by which Solve sorts.
LEMMA ScorePrecedence ==
    ASSUME NEW edges \in Seq(Edge), NEW P, P = Precedence(edges, HigherScore)
    PROVE  /\ Asymmetric(P) /\ TiesAreTransitive(Len(edges), P)
           /\ \A a, b \in 1..Len(edges) :
                  <<a, b>> \in P <=> edges[a].score > edges[b].score
<1> DEFINE n == Len(edges)
<1>1. DOMAIN edges = 1..n /\ \A i \in 1..n : edges[i].score \in Int
    <2>1. \A i \in 1..n : edges[i] \in Edge
        BY ElementOfSeq
    <2> QED BY <2>1 DEF Edge
<1>2. \A a, b \in 1..n : <<a, b>> \in P <=> edges[a].score > edges[b].score
    BY <1>1 DEF Precedence, HigherScore
<1>3. \A a, b \in Nat : <<a, b>> \in P => a \in 1..n /\ b \in 1..n
    BY <1>1 DEF Precedence
<1> HIDE DEF n
<1>4. Asymmetric(P)
    <2> SUFFICES ASSUME NEW a \in Nat, NEW b \in Nat, <<a, b>> \in P PROVE <<b, a>> \notin P
        BY DEF Asymmetric
    <2>1. a \in 1..n /\ b \in 1..n
        BY <1>3
    <2>2. ~(edges[b].score > edges[a].score)
        BY <1>1, <1>2, <2>1
    <2> QED BY <1>2, <2>1, <2>2
<1>5. TiesAreTransitive(n, P)
    <2> SUFFICES ASSUME NEW a \in 1..n, NEW b \in 1..n, NEW c \in 1..n,
                        <<b, a>> \notin P, <<c, b>> \notin P
                 PROVE  <<c, a>> \notin P
        BY DEF TiesAreTransitive
    <2>1. ~(edges[b].score > edges[a].score) /\ ~(edges[c].score > edges[b].score)
        BY <1>2
    <2>2. ~(edges[c].score > edges[a].score)
        BY <1>1, <2>1
    <2> QED BY <1>2, <2>2
<1> QED BY <1>2, <1>4, <1>5 DEF n

\* The edges Solve goes through.
LEMMA SortedByScore ==
    ASSUME NEW students \in Seq(Student), NEW w,
           w = SortStable(AllEdges(students), HigherScore)
    PROVE  EdgesByScore(w, students)
<1> DEFINE edges == AllEdges(students)
           n == Len(edges)
           m == Len(students)
           P == Precedence(edges, HigherScore)
<1>1. edges \in Seq(Edge) /\ FollowsStudents(edges, students)
    BY AllEdgesFollow
<1>2. w = [i \in DOMAIN edges |-> edges[Places(n, P)[i]]]
    BY DEF SortStable
<1> HIDE DEF edges
<1>3. /\ Asymmetric(P) /\ TiesAreTransitive(n, P)
      /\ \A a, b \in 1..n : <<a, b>> \in P <=> edges[a].score > edges[b].score
    BY <1>1, ScorePrecedence
<1> HIDE DEF P
<1>4. w \in Seq(Edge) /\ IsSortOf(w, edges, P)
    BY <1>1, <1>2, SortIsSorted
<1>5. n \in Nat /\ Len(w) = n
    BY <1>1, <1>4 DEF IsSortOf
<1>6. Rearranged(w, edges)
    BY <1>4, <1>5, SortedElements
<1> HIDE DEF n, m
<1>7. PICK o : SortedSoFar(o, n, n, P) /\ \A i \in 1..n : w[i] = edges[o[i]]
    BY <1>4 DEF IsSortOf, n
<1>8. \A i \in 1..n : o[i] \in 1..n
    BY <1>7 DEF SortedSoFar, Permuted
<1>9. \A i \in 1..n : \E p \in 1..m : IsEdgeOf(w[i], students[p])
    <2>1. \A i \in 1..n : \E p \in 1..m : IsEdgeOf(edges[i], students[p])
        BY <1>1 DEF FollowsStudents, n, m
    <2> QED BY <1>7, <1>8, <2>1
<1>10. \A p \in 1..m : \E i \in 1..n : w[i] = PrimaryEdge(students[p])
    <2> SUFFICES ASSUME NEW p \in 1..m PROVE \E i \in 1..n : w[i] = PrimaryEdge(students[p])
        OBVIOUS
    <2>1. PICK k \in 1..n : edges[k] = PrimaryEdge(students[p])
        BY <1>1 DEF FollowsStudents, n, m
    <2>2. PICK i \in 1..n : w[i] = edges[k]
        BY <1>5, <1>6, <2>1 DEF Rearranged, n
    <2> QED BY <2>1, <2>2
<1>11. ASSUME NEW e, NEW p \in 1..m, IsEdgeOf(e, students[p])
       PROVE  e.score = students[p].closeness /\ students[p].closeness \in Nat
    <2>1. students[p] \in Student
        BY ElementOfSeq DEF m
    <2>2. PrimaryEdge(students[p]).score = students[p].closeness
        BY <2>1, EdgeFields
    <2>3. AltEdge(students[p]).score = students[p].closeness
        BY <2>1, EdgeFields
    <2>4. students[p].closeness \in Nat
        BY <2>1, StudentFields
    <2>5. e = PrimaryEdge(students[p]) \/ e = AltEdge(students[p])
        BY <1>11 DEF IsEdgeOf
    <2> QED BY <2>2, <2>3, <2>4, <2>5
<1>12. ASSUME NEW i \in 1..n, NEW j \in 1..n, i < j
       PROVE  \E p, q \in 1..m : MayFollow(w[i], w[j], students, p, q)
    <2> DEFINE k == o[i]
               l == o[j]
    <2>1. k \in 1..n /\ l \in 1..n /\ w[i] = edges[k] /\ w[j] = edges[l]
        BY <1>7, <1>8
    <2>2. o[i] # o[j]
        <3>1. i # j
            BY <1>5, <1>12
        <3> QED BY <1>7, <3>1 DEF SortedSoFar, Permuted
    <2>3. <<o[j], o[i]>> \notin P
        BY <1>3, <1>7, <1>12 DEF SortedSoFar, AllOrdered
    <2>4. o[i] > o[j] => <<o[i], o[j]>> \in P
        BY <1>7, <1>12 DEF SortedSoFar, Permuted
    <2>5. ~(edges[l].score > edges[k].score)
        BY <1>3, <2>1, <2>3
    <2>6. k > l => edges[k].score > edges[l].score
        BY <1>3, <2>1, <2>4
    <2> HIDE DEF k, l
    <2>7. CASE k < l
        <3>1. PICK p \in 1..m, q \in 1..m :
                  /\ IsEdgeOf(edges[k], students[p]) /\ IsEdgeOf(edges[l], students[q])
                  /\ p < q \/ (p = q /\ edges[k] = PrimaryEdge(students[p])
                                     /\ edges[l] = AltEdge(students[p]))
            BY <1>1, <2>1, <2>7 DEF FollowsStudents, n, m
        <3>2. edges[k].score = students[p].closeness /\ edges[l].score = students[q].closeness
            BY <1>11, <3>1
        <3>3. students[p].closeness \in Nat /\ students[q].closeness \in Nat
            BY <1>11, <3>1
        <3>4. students[p].closeness >= students[q].closeness
            BY <2>5, <3>2, <3>3
        <3> QED BY <2>1, <3>1, <3>4 DEF MayFollow
    <2>8. CASE k > l
        <3>1. PICK p \in 1..m : IsEdgeOf(edges[k], students[p])
            BY <1>1, <2>1 DEF FollowsStudents, n, m
        <3>2. PICK q \in 1..m : IsEdgeOf(edges[l], students[q])
            BY <1>1, <2>1 DEF FollowsStudents, n, m
        <3>3. edges[k].score = students[p].closeness /\ edges[l].score = students[q].closeness
            BY <1>11, <3>1, <3>2
        <3>4. students[p].closeness \in Nat /\ students[q].closeness \in Nat
            BY <1>11, <3>1, <3>2
        <3>5. students[p].closeness > students[q].closeness
            BY <2>6, <2>8, <3>3
        <3>6. students[p].closeness >= students[q].closeness
              /\ students[p].closeness # students[q].closeness
            BY <3>4, <3>5
        <3> QED BY <2>1, <3>1, <3>2, <3>6 DEF MayFollow
    <2>9. k # l
        BY <2>2 DEF k, l
    <2> QED BY <1>5, <2>1, <2>7, <2>8, <2>9
<1> QED BY <1>4, <1>5, <1>9, <1>10, <1>12 DEF EdgesByScore, n, m

-----------------------------------------------------------------------------
(* The queues. *)

\* What PopulationsAssumption says of the students.
Consistent(students) ==
    /\ students \in Seq(Student) /\ OneEach(students)
    /\ \A a, b \in Range(students) :
           a.primary # a.alt /\ (Named(a) \intersect Named(b) # {} => a.course = b.course)

\* The refused r has nothing to object to h having the edge e.
Fair(students, name, h, r, e) ==
    /\ name \in {"TOPSIS", "Hybrid", "Batch"} => CloseEnough(students, name, h, r)
    /\ name \in {"TOPSIS", "Batch"} /\ NearIsTransitive(students) /\ e = PrimaryEdge(h)
         => TieKept(name, h, r)

\* The edge e may come before f: not if f is the first choice of the same
\* student, and only fairly if it is the one of another.
Ahead(students, name, e, f) ==
    \A r \in Range(students) : f = PrimaryEdge(r) =>
        /\ e.student # r.id
        /\ \A h \in Range(students) :
               e.student = h.id /\ h.course = r.course => Fair(students, name, h, r, e)

\* An edge a strategy makes for a student.
EdgeFor(name, e, s) ==
    e = PrimaryEdge(s) \/ (name \in {"Hybrid", "Batch"} /\ IsEdgeOf(e, s))

\* The list w is what a strategy has to go through.
Queued(students, name, w) ==
    /\ w \in Seq(Edge)
    /\ \A i \in 1..Len(w) : \E s \in Range(students) : EdgeFor(name, w[i], s)
    /\ \A s \in Range(students) : \E i \in 1..Len(w) : w[i] = PrimaryEdge(s)
    /\ \A i, j \in 1..Len(w) : i < j => Ahead(students, name, w[i], w[j])

\* The students of a consistent list.
LEMMA OfAList ==
    ASSUME NEW students, Consistent(students)
    PROVE  /\ Len(students) \in Nat
           /\ \A p \in 1..Len(students) : students[p] \in Student /\ students[p] \in Range(students)
           /\ \A s \in Range(students) :
                  s \in Student /\ \E p \in 1..Len(students) : s = students[p]
           /\ \A a, b \in Range(students) : a.id = b.id => a = b
<1>1. students \in Seq(Student)
    BY DEF Consistent
<1>2. DOMAIN students = 1..Len(students) /\ Len(students) \in Nat
    BY <1>1
<1>3. \A p \in 1..Len(students) : students[p] \in Student
    BY <1>1, ElementOfSeq
<1>4. Range(students) = {students[p] : p \in 1..Len(students)}
    BY <1>2 DEF Range
<1>5. \A a, b \in Range(students) : a.id = b.id => a = b
    BY <1>4 DEF Consistent, OneEach
<1> QED BY <1>2, <1>3, <1>4, <1>5

\* The students the populations of the model give.
LEMMA Populated ==
    ASSUME NEW p \in Populations
    PROVE  Consistent(p.students) /\ p.capacity \in [Sections -> Nat]
<1>1. p.students \in Seq(Student) /\ p.capacity \in [Sections -> Nat]
    BY PopulationsAssumption
<1>2. DOMAIN p.students = 1..Len(p.students)
    BY <1>1
<1>3. OneEach(p.students)
    BY <1>2, PopulationsAssumption DEF OneEach
<1> QED BY <1>1, <1>3, PopulationsAssumption DEF Consistent

\* What two edges for one student have in common.
LEMMA EdgeOfStudent ==
    ASSUME NEW s \in Student, NEW e, IsEdgeOf(e, s)
    PROVE  e \in Edge /\ e.student = s.id /\ e.course = s.course /\ e.section \in {s.primary, s.alt}
BY EdgeFields DEF IsEdgeOf

\* The edges from the highest score down are what Solve has to go through.
LEMMA EdgesQueued ==
    ASSUME NEW students, Consistent(students), NEW name \in {"Hybrid", "Batch"},
           NEW inOrder \in Seq(Student), Rearranged(inOrder, students),
           name = "Batch" => \A p, q \in 1..Len(inOrder) :
               /\ p < q /\ inOrder[p].course = inOrder[q].course
               /\ NearIsTransitive(students)
               => ~ComesBefore(inOrder[q], inOrder[p]),
           NEW w, EdgesByScore(w, inOrder)
    PROVE  Queued(students, name, w)
<1> DEFINE n == Len(inOrder)
<1>1. \A p \in 1..n : inOrder[p] \in Student /\ inOrder[p] \in Range(students)
    <2> SUFFICES ASSUME NEW p \in 1..n PROVE inOrder[p] \in Student /\ inOrder[p] \in Range(students)
        OBVIOUS
    <2>1. PICK q \in 1..Len(students) : inOrder[p] = students[q]
        BY DEF Rearranged
    <2> QED BY <2>1, OfAList
<1>2. \A s \in Range(students) : \E p \in 1..n : s = inOrder[p]
    <2> SUFFICES ASSUME NEW s \in Range(students) PROVE \E p \in 1..n : s = inOrder[p]
        OBVIOUS
    <2>1. PICK q \in 1..Len(students) : s = students[q]
        BY OfAList
    <2> QED BY <2>1 DEF Rearranged
<1> HIDE DEF n
<1>3. \A i \in 1..Len(w) : \E s \in Range(students) : EdgeFor(name, w[i], s)
    <2> SUFFICES ASSUME NEW i \in 1..Len(w) PROVE \E s \in Range(students) : EdgeFor(name, w[i], s)
        OBVIOUS
    <2>1. PICK p \in 1..n : IsEdgeOf(w[i], inOrder[p])
        BY DEF EdgesByScore, n
    <2> QED BY <1>1, <2>1 DEF EdgeFor
<1>4. \A s \in Range(students) : \E i \in 1..Len(w) : w[i] = PrimaryEdge(s)
    <2> SUFFICES ASSUME NEW s \in Range(students) PROVE \E i \in 1..Len(w) : w[i] = PrimaryEdge(s)
        OBVIOUS
    <2>1. PICK p \in 1..n : s = inOrder[p]
        BY <1>2
    <2> QED BY <2>1 DEF EdgesByScore, n
<1>5. ASSUME NEW i \in 1..Len(w), NEW j \in 1..Len(w), i < j,
             NEW r \in Range(students), w[j] = PrimaryEdge(r)
      PROVE  /\ w[i].student # r.id
             /\ \A h \in Range(students) : w[i].student = h.id => Fair(students, name, h, r, w[i])
    <2>1. PICK p \in 1..n, q \in 1..n : MayFollow(w[i], w[j], inOrder, p, q)
        BY <1>5 DEF EdgesByScore, n
    <2> DEFINE h == inOrder[p]
    <2>2. /\ h \in Student /\ h \in Range(students) /\ IsEdgeOf(w[i], h) /\ w[i].student = h.id
        BY <1>1, <2>1, EdgeOfStudent DEF MayFollow
    <2>3. r = inOrder[q]
        <3>1. inOrder[q] \in Student /\ inOrder[q] \in Range(students)
            BY <1>1
        <3>2. IsEdgeOf(w[j], inOrder[q])
            BY <2>1 DEF MayFollow
        <3>3. w[j].student = inOrder[q].id
            BY <3>1, <3>2, EdgeOfStudent
        <3>4. r \in Student
            BY OfAList
        <3>5. w[j].student = r.id
            BY <1>5, <3>4, EdgeFields
        <3> QED BY <3>1, <3>3, <3>5, OfAList
    <2>4. r \in Student /\ r.primary # r.alt /\ r.closeness \in Nat /\ h.closeness \in Nat
        BY <2>2, OfAList, StudentFields DEF Consistent
    <2>5. h.closeness >= r.closeness
        BY <2>1, <2>3 DEF MayFollow
    <2>6. h.closeness = r.closeness => p < q
        <3> SUFFICES ASSUME p = q, w[j] = AltEdge(inOrder[p]) PROVE FALSE
            BY <2>1, <2>3 DEF MayFollow
        <3>1. PrimaryEdge(r) = AltEdge(r)
            BY <1>5, <2>3
        <3> QED BY <2>4, <3>1, EdgeFields
    <2>7. h # r
        <3> SUFFICES ASSUME h = r PROVE FALSE
            OBVIOUS
        <3>1. p < q
            BY <2>6
        <3>2. p # q /\ p \in 1..n /\ q \in 1..n /\ inOrder[p] = inOrder[q]
            BY <2>3, <3>1
        <3>3. PICK a \in 1..Len(students), b \in 1..Len(students) :
                  a # b /\ inOrder[p] = students[a] /\ inOrder[q] = students[b]
            BY <3>2 DEF Rearranged, n
        <3> QED BY <3>2, <3>3 DEF Consistent, OneEach
    <2>8. h.id # r.id
        BY <2>2, <2>7, OfAList
    <2>9. CloseEnough(students, name, h, r)
        <3>1. name # "TOPSIS"
            OBVIOUS
        <3>2. h.closeness >= r.closeness - 0
            BY <2>4, <2>5
        <3> HIDE DEF h
        <3> QED BY <3>1, <3>2 DEF CloseEnough
    <2>10. ASSUME name = "Batch", NearIsTransitive(students), w[i] = PrimaryEdge(h)
           PROVE  TieKept(name, h, r)
        <3> SUFFICES ASSUME r.primary = h.primary, r.closeness = h.closeness
                     PROVE  ~TieBreak(r, h)
            BY <2>10 DEF TieKept
        <3>1. p < q
            BY <2>6
        <3>2. h.course = r.course
            <4>1. r.primary \in Named(r) /\ h.primary \in Named(h)
                <5>1. r.primary # NoSection /\ h.primary # NoSection
                    BY <2>2, <2>4, PopulationsAssumption, StudentFields
                <5> QED BY <5>1 DEF Named
            <4> QED BY <2>2, <4>1 DEF Consistent
        <3>3. ~ComesBefore(r, h)
            BY <2>3, <2>10, <3>1, <3>2 DEF n
        <3>4. Near(r, h)
            BY <2>4, ToleranceAssumption DEF Near
        <3> QED BY <3>3, <3>4 DEF ComesBefore
    <2>11. Fair(students, name, h, r, w[i])
        BY <2>9, <2>10 DEF Fair
    <2>12. \A g \in Range(students) : w[i].student = g.id => g = h
        BY <2>2, OfAList
    <2> HIDE DEF h
    <2> QED BY <2>2, <2>8, <2>11, <2>12
<1>6. \A i, j \in 1..Len(w) : i < j => Ahead(students, name, w[i], w[j])
    BY <1>5 DEF Ahead
<1> QED BY <1>3, <1>4, <1>6 DEF Queued, EdgesByScore

\* The first choices of a list of students are what the loops of the first
\* three strategies have to go through.
LEMMA PrimariesQueued ==
    ASSUME NEW students, Consistent(students), NEW name, NEW w \in Seq(Student),
           \A i \in 1..Len(w) : \E p \in 1..Len(students) :
               PrimaryEdge(w[i]) = PrimaryEdge(students[p]),
           \A p \in 1..Len(students) : \E i \in 1..Len(w) :
               PrimaryEdge(w[i]) = PrimaryEdge(students[p]),
           \A i, j \in 1..Len(w) : i < j =>
               /\ w[i].id # w[j].id
               /\ \A h, r \in Range(students) :
                      w[i].id = h.id /\ w[j].id = r.id /\ h.course = r.course
                        => Fair(students, name, h, r, PrimaryEdge(h))
    PROVE  Queued(students, name, Primaries(w))
<1> DEFINE q == Primaries(w)
           n == Len(w)
<1>1. n \in Nat /\ DOMAIN w = 1..n /\ \A i \in 1..n : w[i] \in Student
    BY ElementOfSeq
<1>2. q = [i \in 1..n |-> PrimaryEdge(w[i])]
    BY <1>1 DEF Primaries
<1> HIDE DEF q, n
<1>3. \A i \in 1..n : q[i] = PrimaryEdge(w[i])
    BY <1>2
<1>4. \A i \in 1..n : q[i] \in Edge /\ q[i].student = w[i].id
    BY <1>1, <1>3, EdgeFields
<1>5. q \in [1..n -> Edge]
    BY <1>2, <1>4
<1>6. q \in Seq(Edge) /\ Len(q) = n
    BY <1>1, <1>5
<1>7. \A i \in 1..n : \E s \in Range(students) : q[i] = PrimaryEdge(s)
    <2> SUFFICES ASSUME NEW i \in 1..n PROVE \E s \in Range(students) : q[i] = PrimaryEdge(s)
        OBVIOUS
    <2>1. PICK p \in 1..Len(students) : PrimaryEdge(w[i]) = PrimaryEdge(students[p])
        BY DEF n
    <2> QED BY <1>3, <2>1, OfAList
<1>8. \A s \in Range(students) : \E i \in 1..n : q[i] = PrimaryEdge(s)
    <2> SUFFICES ASSUME NEW s \in Range(students) PROVE \E i \in 1..n : q[i] = PrimaryEdge(s)
        OBVIOUS
    <2>1. PICK p \in 1..Len(students) : s = students[p]
        BY OfAList
    <2>2. PICK i \in 1..n : PrimaryEdge(w[i]) = PrimaryEdge(students[p])
        BY DEF n
    <2> QED BY <1>3, <2>1, <2>2
<1>9. ASSUME NEW i \in 1..n, NEW j \in 1..n, i < j,
             NEW r \in Range(students), q[j] = PrimaryEdge(r)
      PROVE  /\ q[i].student # r.id
             /\ \A h \in Range(students) :
                    q[i].student = h.id /\ h.course = r.course => Fair(students, name, h, r, q[i])
    <2>1. r \in Student
        BY OfAList
    <2>2. PrimaryEdge(r).student = r.id
        BY <2>1, EdgeFields
    <2>3. r \in Student /\ w[j].id = r.id
        BY <1>4, <1>9, <2>1, <2>2
    <2>4. w[i].id # w[j].id
        BY <1>9 DEF n
    <2>5. ASSUME NEW h \in Range(students), q[i].student = h.id, h.course = r.course
          PROVE  Fair(students, name, h, r, q[i])
        <3>1. w[i].id = h.id
            BY <1>4, <2>5
        <3>2. Fair(students, name, h, r, PrimaryEdge(h))
            BY <1>9, <2>3, <2>5, <3>1 DEF n
        <3>3. PICK g \in Range(students) : q[i] = PrimaryEdge(g)
            BY <1>7
        <3>4. g \in Student
            BY OfAList
        <3>5. q[i].student = g.id
            BY <3>3, <3>4, EdgeFields
        <3>6. g = h
            BY <2>5, <3>5, OfAList
        <3> QED BY <3>2, <3>3, <3>6
    <2> QED BY <1>4, <2>3, <2>4, <2>5
<1>10. \A i, j \in 1..n : i < j => Ahead(students, name, q[i], q[j])
    BY <1>9 DEF Ahead
<1>11. Queued(students, name, q)
    BY <1>6, <1>7, <1>8, <1>10 DEF Queued, EdgeFor
<1> QED BY <1>11 DEF q

\* runFIFO and runRuleBased: any order will do.
LEMMA SortedQueued ==
    ASSUME NEW students, Consistent(students), NEW name \in {"FIFO", "Rule-based"},
           NEW P, NEW w,
           w = [i \in DOMAIN students |-> students[Places(Len(students), P)[i]]]
    PROVE  Queued(students, name, Primaries(w))
<1>1. students \in Seq(Student) /\ Len(students) \in Nat
    BY OfAList DEF Consistent
<1>2. w \in Seq(Student) /\ IsSortOf(w, students, P)
    BY <1>1, SortIsSorted
<1>3. Rearranged(w, students)
    BY <1>1, <1>2, SortedElements
<1>4. \A i \in 1..Len(w) : \E p \in 1..Len(students) :
          PrimaryEdge(w[i]) = PrimaryEdge(students[p])
    BY <1>3 DEF Rearranged
<1>5. \A p \in 1..Len(students) : \E i \in 1..Len(w) :
          PrimaryEdge(w[i]) = PrimaryEdge(students[p])
    BY <1>3 DEF Rearranged
<1>6. ASSUME NEW i \in 1..Len(w), NEW j \in 1..Len(w), i < j PROVE w[i].id # w[j].id
    <2>1. i # j
        BY <1>2, <1>6
    <2>2. PICK p \in 1..Len(students), q \in 1..Len(students) :
              p # q /\ w[i] = students[p] /\ w[j] = students[q]
        BY <1>3, <2>1 DEF Rearranged
    <2> QED BY <2>2 DEF Consistent, OneEach
<1>7. \A i, j \in 1..Len(w) : i < j =>
          /\ w[i].id # w[j].id
          /\ \A h, r \in Range(students) :
                 w[i].id = h.id /\ w[j].id = r.id /\ h.course = r.course
                   => Fair(students, name, h, r, PrimaryEdge(h))
    BY <1>6 DEF Fair
<1>8. w \in Seq(Student)
    BY <1>2
<1> QED BY <1>4, <1>5, <1>7, <1>8, PrimariesQueued

\* The requests of runTopsisOnly are the students but for the time.
LEMMA RequestsOf ==
    ASSUME NEW students, Consistent(students), NEW requests, requests = ToRequests(students)
    PROVE  /\ requests \in Seq(Student) /\ Len(requests) = Len(students) /\ OneEach(requests)
           /\ \A p \in 1..Len(students) :
                  /\ PrimaryEdge(requests[p]) = PrimaryEdge(students[p])
                  /\ requests[p].id = students[p].id
                  /\ requests[p].course = students[p].course
                  /\ requests[p].closeness = students[p].closeness
                  /\ requests[p].risk = students[p].risk
                  /\ requests[p].waited = students[p].waited
                  /\ requests[p].alternatives = students[p].alternatives
           /\ NearIsTransitive(students) => NearTransitive(requests)
<1> DEFINE n == Len(students)
<1>1. n \in Nat /\ \A p \in 1..n : students[p] \in Student /\ students[p] \in Range(students)
    BY OfAList
<1>2. DOMAIN students = 1..n
    BY DEF Consistent
<1>3. requests = [p \in 1..n |-> [students[p] EXCEPT !.submittedAt = p]]
    BY <1>2 DEF ToRequests
<1> HIDE DEF n
<1>4. ASSUME NEW s \in Student, NEW t \in Nat, NEW x, x = [s EXCEPT !.submittedAt = t]
      PROVE  /\ x \in Student /\ x.id = s.id /\ x.course = s.course /\ x.closeness = s.closeness
             /\ x.risk = s.risk /\ x.waited = s.waited /\ x.alternatives = s.alternatives
             /\ x.primary = s.primary
    BY <1>4 DEF Student
<1>5. ASSUME NEW p \in 1..n
      PROVE  /\ requests[p] \in Student
             /\ requests[p].id = students[p].id
             /\ requests[p].course = students[p].course
             /\ requests[p].closeness = students[p].closeness
             /\ requests[p].risk = students[p].risk
             /\ requests[p].waited = students[p].waited
             /\ requests[p].alternatives = students[p].alternatives
             /\ requests[p].primary = students[p].primary
    <2>1. requests[p] = [students[p] EXCEPT !.submittedAt = p]
        BY <1>3
    <2>2. p \in Nat
        BY <1>1
    <2> QED BY <1>1, <1>4, <2>1, <2>2
<1>6. requests \in [1..n -> Student]
    BY <1>3, <1>5
<1>7. requests \in Seq(Student) /\ Len(requests) = n
    BY <1>1, <1>6
<1>8. OneEach(requests)
    BY <1>5, <1>7 DEF Consistent, OneEach, n
<1>9. \A p \in 1..n : PrimaryEdge(requests[p]) = PrimaryEdge(students[p])
    BY <1>5 DEF PrimaryEdge
<1>10. NearIsTransitive(students) => NearTransitive(requests)
    <2> SUFFICES ASSUME NearIsTransitive(students), NEW p \in 1..n, NEW q \in 1..n, NEW r \in 1..n,
                        requests[p].course = requests[q].course,
                        requests[q].course = requests[r].course,
                        Near(requests[p], requests[q]), Near(requests[q], requests[r])
                 PROVE  Near(requests[p], requests[r])
        BY <1>7 DEF NearTransitive
    <2>1. Near(students[p], students[q]) /\ Near(students[q], students[r])
        BY <1>5 DEF Near
    <2>2. Near(students[p], students[r])
        BY <1>1, <1>5, <2>1 DEF NearIsTransitive
    <2> QED BY <1>5, <2>2 DEF Near
<1> QED BY <1>5, <1>7, <1>8, <1>9, <1>10 DEF n

\* runTopsisOnly.
LEMMA TopsisQueued ==
    ASSUME NEW students, Consistent(students),
           NEW ranked \in InMapOrder(RankByCourse(ToRequests(students)))
    PROVE  Queued(students, "TOPSIS", Primaries(ranked))
<1> DEFINE requests == ToRequests(students)
           n == Len(students)
<1>1. /\ requests \in Seq(Student) /\ Len(requests) = n /\ OneEach(requests)
      /\ \A p \in 1..n :
             /\ PrimaryEdge(requests[p]) = PrimaryEdge(students[p])
             /\ requests[p].id = students[p].id
             /\ requests[p].course = students[p].course
             /\ requests[p].closeness = students[p].closeness
             /\ requests[p].risk = students[p].risk
             /\ requests[p].waited = students[p].waited
             /\ requests[p].alternatives = students[p].alternatives
      /\ NearIsTransitive(students) => NearTransitive(requests)
    BY RequestsOf
<1>2. IsRanking(ranked, requests)
    BY <1>1, MapRanked
<1>3. ranked \in Seq(Student) /\ Rearranged(ranked, requests) /\ Len(ranked) \in Nat
    BY <1>2 DEF IsRanking
<1> HIDE DEF requests, n
<1>4. \A i \in 1..Len(ranked) : \E p \in 1..n : ranked[i] = requests[p]
    BY <1>1, <1>3 DEF Rearranged
<1>5. \A i \in 1..Len(ranked) : \E p \in 1..n : PrimaryEdge(ranked[i]) = PrimaryEdge(students[p])
    BY <1>1, <1>4
<1>6. \A p \in 1..n : \E i \in 1..Len(ranked) : PrimaryEdge(ranked[i]) = PrimaryEdge(students[p])
    <2>1. \A p \in 1..n : \E i \in 1..Len(ranked) : ranked[i] = requests[p]
        BY <1>1, <1>3 DEF Rearranged
    <2> QED BY <1>1, <2>1
<1>7. ASSUME NEW i \in 1..Len(ranked), NEW j \in 1..Len(ranked), i < j
      PROVE  ranked[i].id # ranked[j].id
    <2>1. i # j
        BY <1>3, <1>7
    <2>2. PICK p \in 1..n, q \in 1..n : p # q /\ ranked[i] = requests[p] /\ ranked[j] = requests[q]
        BY <1>1, <1>3, <2>1 DEF Rearranged
    <2> QED BY <1>1, <2>2 DEF OneEach
<1>8. ASSUME NEW i \in 1..Len(ranked), NEW j \in 1..Len(ranked), i < j,
             NEW h \in Range(students), NEW r \in Range(students),
             ranked[i].id = h.id, ranked[j].id = r.id, h.course = r.course
      PROVE  Fair(students, "TOPSIS", h, r, PrimaryEdge(h))
    <2>1. PICK p \in 1..n : ranked[i] = requests[p]
        BY <1>4
    <2>2. PICK q \in 1..n : ranked[j] = requests[q]
        BY <1>4
    <2>3. h = students[p] /\ r = students[q]
        <3>1. students[p] \in Range(students) /\ students[q] \in Range(students)
            BY OfAList DEF n
        <3>2. students[p].id = h.id /\ students[q].id = r.id
            BY <1>1, <1>8, <2>1, <2>2
        <3> QED BY <3>1, <3>2, OfAList
    <2> DEFINE a == ranked[i]
               b == ranked[j]
    <2>4. /\ a.course = h.course /\ a.closeness = h.closeness /\ a.risk = h.risk
          /\ a.waited = h.waited /\ a.alternatives = h.alternatives
        BY <1>1, <2>1, <2>3
    <2>5. /\ b.course = r.course /\ b.closeness = r.closeness /\ b.risk = r.risk
          /\ b.waited = r.waited /\ b.alternatives = r.alternatives
        BY <1>1, <2>2, <2>3
    <2>6. /\ b.closeness <= a.closeness + Tolerance * (Len(Pool(requests, b.course)) - 1)
          /\ NearTransitive(requests) => ~ComesBefore(b, a)
        <3>1. a.course = b.course
            BY <1>8, <2>4, <2>5
        <3> QED BY <1>2, <1>8, <3>1 DEF IsRanking
    <2> HIDE DEF a, b
    <2>7. h \in Student /\ r \in Student
        BY OfAList
    <2>8. CloseEnough(students, "TOPSIS", h, r)
        <3> DEFINE c == Tolerance * (Len(Pool(requests, r.course)) - 1)
        <3>1. r.closeness <= h.closeness + c
            BY <2>4, <2>5, <2>6
        <3>2. h.closeness \in Int /\ r.closeness \in Int
            BY <2>7, StudentFields
        <3>3. c \in Int
            <4>1. Pool(requests, r.course) \in Seq(Student)
                BY <1>1, PoolPicks
            <4>2. Len(Pool(requests, r.course)) \in Nat
                BY <4>1
            <4> QED BY <4>2, ToleranceAssumption
        <3>4. CloseEnough(students, "TOPSIS", h, r) <=> h.closeness >= r.closeness - c
            BY DEF CloseEnough, requests
        <3> HIDE DEF c
        <3> QED BY <3>1, <3>2, <3>3, <3>4
    <2>9. ASSUME NearIsTransitive(students) PROVE TieKept("TOPSIS", h, r)
        <3> SUFFICES ASSUME Near(r, h), TieBreak(r, h)
                     PROVE  r.risk = h.risk /\ r.waited = h.waited /\ r.alternatives = h.alternatives
            BY DEF TieKept
        <3>1. ~ComesBefore(b, a)
            BY <1>1, <2>6, <2>9
        <3>2. Near(b, a)
            BY <2>4, <2>5 DEF Near
        <3>3. ~TieBreak(b, a)
            BY <3>1, <3>2 DEF ComesBefore
        <3> QED BY <2>4, <2>5, <3>3 DEF TieBreak
    <2> QED BY <2>8, <2>9 DEF Fair
<1> HIDE DEF n
<1>9. \A i, j \in 1..Len(ranked) : i < j =>
          /\ ranked[i].id # ranked[j].id
          /\ \A h, r \in Range(students) :
                 ranked[i].id = h.id /\ ranked[j].id = r.id /\ h.course = r.course
                   => Fair(students, "TOPSIS", h, r, PrimaryEdge(h))
    BY <1>7, <1>8
<1> QED BY <1>3, <1>5, <1>6, <1>9, PrimariesQueued DEF n

\* runHybrid.
LEMMA HybridQueued ==
    ASSUME NEW students, Consistent(students)
    PROVE  Queued(students, "Hybrid", SortStable(AllEdges(students), HigherScore))
<1> DEFINE w == SortStable(AllEdges(students), HigherScore)
<1>1. students \in Seq(Student)
    BY DEF Consistent
<1>2. EdgesByScore(w, students)
    BY <1>1, SortedByScore
<1>3. Rearranged(students, students)
    BY DEF Rearranged
<1>4. "Hybrid" \in {"Hybrid", "Batch"} /\ "Hybrid" # "Batch"
    OBVIOUS
<1> HIDE DEF w
<1>5. Queued(students, "Hybrid", w)
    BY <1>1, <1>2, <1>3, <1>4, EdgesQueued
<1> QED BY <1>5 DEF w

\* The batch: the edges in the order of the ranking, sorted by the score.
LEMMA BatchQueued ==
    ASSUME NEW students, Consistent(students),
           NEW ranked \in InMapOrder(RankByCourse(students))
    PROVE  Queued(students, "Batch", SortStable(AllEdges(ranked), HigherScore))
<1> DEFINE w == SortStable(AllEdges(ranked), HigherScore)
<1>1. students \in Seq(Student) /\ OneEach(students)
    BY DEF Consistent
<1>2. IsRanking(ranked, students)
    BY <1>1, MapRanked
<1>3. ranked \in Seq(Student) /\ Rearranged(ranked, students)
    BY <1>2 DEF IsRanking
<1>4. EdgesByScore(w, ranked)
    BY <1>3, SortedByScore
<1>5. NearIsTransitive(students) => NearTransitive(students)
    BY OfAList DEF NearIsTransitive, NearTransitive
<1>6. \A p, q \in 1..Len(ranked) :
          p < q /\ ranked[p].course = ranked[q].course /\ NearIsTransitive(students)
            => ~ComesBefore(ranked[q], ranked[p])
    BY <1>2, <1>5 DEF IsRanking
<1>7. "Batch" \in {"Hybrid", "Batch"}
    OBVIOUS
<1> HIDE DEF w
<1>8. Queued(students, "Batch", w)
    BY <1>3, <1>4, <1>6, <1>7, EdgesQueued
<1> QED BY <1>8 DEF w

-----------------------------------------------------------------------------
(* The loops. *)

\* No student twice.
OneSeatEach(w) == \A i, j \in 1..Len(w) : w[i].student = w[j].student => i = j

\* The list w confirms students of the population, no one twice.
Confirms(students, name, w) ==
    /\ w \in Seq(Edge) /\ OneSeatEach(w)
    /\ \A i \in 1..Len(w) : \E s \in Range(students) : EdgeFor(name, w[i], s)

Seats(w, section) == {e \in Range(w) : e.section = section}

\* Those who hold the section that r prefers do so fairly.
GoneFairly(students, name, w, r) ==
    \A i \in 1..Len(w) : w[i].section = r.primary =>
        \A h \in Range(students) : w[i].student = h.id => Fair(students, name, h, r, w[i])

\* A strategy at work, with the edges q to go: each first choice is still to
\* come, or confirmed, or came too late and fairly so.
AtWork(students, capacity, name, q, p) ==
    /\ q \in Seq(Edge)
    /\ \A i \in 1..Len(q) : \E s \in Range(students) : EdgeFor(name, q[i], s)
    /\ \A i, j \in 1..Len(q) : i < j => Ahead(students, name, q[i], q[j])
    /\ \A i \in 1..Len(p.confirmed), j \in 1..Len(q) :
           Ahead(students, name, p.confirmed[i], q[j])
    /\ Confirms(students, name, p.confirmed)
    /\ \A section \in Sections :
           /\ p.capLeft[section] \in Nat
           /\ p.capLeft[section] + Cardinality(Seats(p.confirmed, section)) = capacity[section]
    /\ \A r \in Range(students) :
           \/ \E j \in 1..Len(q) : q[j] = PrimaryEdge(r)
           \/ \E i \in 1..Len(p.confirmed) : p.confirmed[i] = PrimaryEdge(r)
           \/ p.capLeft[r.primary] = 0 /\ GoneFairly(students, name, p.confirmed, r)
    /\ name \in {"Hybrid", "Batch"} =>
           \A s \in Range(students) :
               p.assignedCourse[s.id] = s.course
                 <=> \E i \in 1..Len(p.confirmed) : p.confirmed[i].student = s.id

\* What a strategy leaves: each first choice is confirmed, or the section is
\* full, and fairly so.
Outcome(students, capacity, name, w) ==
    /\ Confirms(students, name, w)
    /\ \A section \in Sections : Cardinality(Seats(w, section)) <= capacity[section]
    /\ \A r \in Range(students) :
           \/ \E i \in 1..Len(w) : w[i] = PrimaryEdge(r)
           \/ /\ Cardinality(Seats(w, r.primary)) = capacity[r.primary]
              /\ GoneFairly(students, name, w, r)

\* The edge e takes a seat, or it is passed over.
Takes(name, p, z, e) ==
    /\ p.capLeft[e.section] > 0
    /\ z.capLeft = [p.capLeft EXCEPT ![e.section] = @ - 1]
    /\ z.confirmed = Append(p.confirmed, e)
    /\ name \in {"Hybrid", "Batch"} =>
           /\ p.assignedCourse[e.student] # e.course
           /\ z.assignedCourse = [p.assignedCourse EXCEPT ![e.student] = e.course]

Passes(name, p, z, e) ==
    /\ z.capLeft = p.capLeft /\ z.confirmed = p.confirmed
    /\ z.assignedCourse = p.assignedCourse
    /\ \/ ~(p.capLeft[e.section] > 0)
       \/ name \in {"Hybrid", "Batch"} /\ p.assignedCourse[e.student] = e.course

\* One turn of the loops.
LEMMA OneTurn ==
    ASSUME NEW name, NEW p \in Plan, NEW e \in Edge, NEW z,
           z = IF name \in {"Hybrid", "Batch"} THEN Consider(p, e, {}) ELSE TakeSeat(p, e)
    PROVE  z \in Plan /\ (Takes(name, p, z, e) \/ Passes(name, p, z, e))
<1>1. /\ p = [capLeft |-> p.capLeft, assignedCourse |-> p.assignedCourse,
              studentSections |-> p.studentSections, confirmed |-> p.confirmed,
              waitlist |-> p.waitlist]
      /\ p.confirmed \in Seq(Edge) /\ p.capLeft \in [Sections -> Int]
    BY DEF Plan, Assignment
<1>2. CASE name \in {"Hybrid", "Batch"}
    <2>1. z = Consider(p, e, {})
        BY <1>2
    <2>2. z \in Plan
        BY <2>1, ConsiderType
    <2>3. CASE CanAssign(p, e, {})
        <3>1. z = DoAssign(p, e)
            BY <2>1, <2>3 DEF Consider
        <3>2. Takes(name, p, z, e)
            BY <2>3, <3>1 DEF Takes, DoAssign, CanAssign
        <3> QED BY <2>2, <3>2
    <2>4. CASE ~CanAssign(p, e, {})
        <3>1. z = Defer(p, e)
            BY <2>1, <2>4 DEF Consider
        <3>2. z.capLeft = p.capLeft /\ z.confirmed = p.confirmed /\ z.assignedCourse = p.assignedCourse
            BY <1>1, <3>1 DEF Defer
        <3>3. Passes(name, p, z, e)
            BY <1>2, <2>4, <3>2 DEF Passes, CanAssign
        <3> QED BY <2>2, <3>3
    <2> QED BY <2>3, <2>4
<1>3. CASE name \notin {"Hybrid", "Batch"}
    <2>1. z = TakeSeat(p, e)
        BY <1>3
    <2>2. CASE p.capLeft[e.section] > 0
        <3> DEFINE left == [p.capLeft EXCEPT ![e.section] = @ - 1]
                   w    == Append(p.confirmed, e)
        <3>1. left \in [Sections -> Int] /\ w \in Seq(Edge)
            <4>1. e.section \in Sections
                BY DEF Edge
            <4> QED BY <1>1, <4>1, AppendProperties
        <3>2. z = [p EXCEPT !.capLeft = left, !.confirmed = w]
            BY <1>1, <2>1, <2>2 DEF TakeSeat
        <3> HIDE DEF left, w
        <3>3. z.capLeft = left /\ z.confirmed = w /\ z \in Plan
            BY <1>1, <3>1, <3>2 DEF Plan, Assignment
        <3> QED BY <1>3, <2>2, <3>3 DEF Takes, left, w
    <2>3. CASE ~(p.capLeft[e.section] > 0)
        <3>1. z = p
            BY <2>1, <2>3 DEF TakeSeat
        <3> QED BY <2>3, <3>1 DEF Passes
    <2> QED BY <2>2, <2>3
<1> QED BY <1>2, <1>3

\* The range of a list.
LEMMA RangeOf ==
    ASSUME NEW S, NEW w \in Seq(S)
    PROVE  Len(w) \in Nat /\ Range(w) = {w[i] : i \in 1..Len(w)} /\ IsFiniteSet(Range(w))
<1>1. DOMAIN w = 1..Len(w) /\ Len(w) \in Nat
    OBVIOUS
<1>2. Range(w) = {w[i] : i \in 1..Len(w)}
    BY <1>1 DEF Range
<1>3. IsFiniteSet(Range(w))
    <2> DEFINE n == Len(w)
               T == Range(w)
               f == [i \in 1..n |-> w[i]]
    <2>1. f \in Surjection(1..n, T)
        <3>1. f \in [1..n -> T]
            BY <1>2
        <3>2. \A x \in T : \E i \in 1..n : f[i] = x
            BY <1>2
        <3> QED BY <3>1, <3>2 DEF Surjection
    <2>2. IsFiniteSet(1..n)
        BY <1>1, FS_Interval
    <2> HIDE DEF f, T
    <2>3. IsFiniteSet(T)
        BY <2>1, <2>2, FS_Surjection
    <2> QED BY <2>3 DEF T
<1> QED BY <1>1, <1>2, <1>3

\* The seats of a section are finitely many.
LEMMA SeatsFinite ==
    ASSUME NEW w \in Seq(Edge), NEW section
    PROVE  IsFiniteSet(Seats(w, section)) /\ Cardinality(Seats(w, section)) \in Nat
<1>1. IsFiniteSet(Range(w)) /\ Seats(w, section) \in SUBSET Range(w)
    BY RangeOf DEF Seats
<1>2. IsFiniteSet(Seats(w, section))
    BY <1>1, FS_Subset
<1> QED BY <1>2, FS_CardinalityType

\* One more seat.
LEMMA SeatAdded ==
    ASSUME NEW w \in Seq(Edge), NEW e \in Edge, NEW z, z \in Seq(Edge), IsAppend(z, w, e),
           \A i \in 1..Len(w) : w[i].student # e.student, NEW section
    PROVE  Cardinality(Seats(z, section))
             = IF section = e.section THEN Cardinality(Seats(w, section)) + 1
               ELSE Cardinality(Seats(w, section))
<1>1. Len(w) \in Nat /\ Range(w) = {w[i] : i \in 1..Len(w)}
    BY RangeOf
<1>2. Len(z) = Len(w) + 1 /\ Range(z) = {z[i] : i \in 1..Len(z)}
    BY RangeOf DEF IsAppend
<1>3. Range(z) = Range(w) \union {e}
    <2>1. \A x \in Range(z) : x \in Range(w) \union {e}
        <3> SUFFICES ASSUME NEW i \in 1..(Len(w) + 1) PROVE z[i] \in Range(w) \union {e}
            BY <1>2
        <3>1. i \in 1..Len(w) \/ i = Len(w) + 1
            BY <1>1
        <3> QED BY <1>1, <3>1 DEF IsAppend
    <2>2. \A x \in Range(w) : x \in Range(z)
        <3> SUFFICES ASSUME NEW i \in 1..Len(w) PROVE w[i] \in Range(z)
            BY <1>1
        <3>1. i \in 1..Len(z) /\ z[i] = w[i]
            BY <1>1, <1>2 DEF IsAppend
        <3> QED BY <1>2, <3>1
    <2>3. e \in Range(z)
        <3>1. Len(w) + 1 \in 1..Len(z) /\ z[Len(w) + 1] = e
            BY <1>1, <1>2 DEF IsAppend
        <3> QED BY <1>2, <3>1
    <2> QED BY <2>1, <2>2, <2>3
<1>4. e \notin Range(w)
    BY <1>1
<1>5. CASE section = e.section
    <2>1. Seats(z, section) = Seats(w, section) \union {e} /\ e \notin Seats(w, section)
        BY <1>3, <1>4, <1>5 DEF Seats
    <2> DEFINE S == Seats(w, section)
               T == Seats(z, section)
    <2>2. IsFiniteSet(S) /\ T = S \union {e} /\ e \notin S
        BY <2>1, SeatsFinite
    <2> HIDE DEF S, T
    <2>3. Cardinality(T) = Cardinality(S) + 1
        BY <2>2, FS_AddElement
    <2> QED BY <1>5, <2>3 DEF S, T
<1>6. CASE section # e.section
    <2>1. Seats(z, section) = Seats(w, section)
        BY <1>3, <1>6 DEF Seats
    <2> QED BY <1>6, <2>1
<1> QED BY <1>5, <1>6

\* A strategy begins.
LEMMA Begins ==
    ASSUME NEW students, Consistent(students), NEW capacity \in [Sections -> Nat],
           NEW name, NEW q, Queued(students, name, q), NEW p, p = EmptyPlan(capacity)
    PROVE  p \in Plan /\ AtWork(students, capacity, name, q, p)
<1>1. /\ p.capLeft = capacity /\ p.confirmed = << >>
      /\ p.assignedCourse = [s \in Students |-> NoCourse]
    BY DEF EmptyPlan
<1>2. p \in Plan
    <2>1. capacity \in [Sections -> Int]
        OBVIOUS
    <2>2. << >> \in Seq(Edge) /\ << >> \in Seq(Assignment)
        BY EmptySeq
    <2> QED BY <2>1, <2>2 DEF EmptyPlan, Plan
<1>3. p.confirmed \in Seq(Edge) /\ Len(p.confirmed) = 0 /\ Range(p.confirmed) = {}
    <2>1. p.confirmed \in Seq(Edge) /\ Len(p.confirmed) = 0
        BY <1>1, EmptySeq
    <2> QED BY <2>1, RangeOf
<1>4. Confirms(students, name, p.confirmed)
    BY <1>3 DEF Confirms, OneSeatEach
<1>5. \A section \in Sections :
          /\ p.capLeft[section] \in Nat
          /\ p.capLeft[section] + Cardinality(Seats(p.confirmed, section)) = capacity[section]
    <2> SUFFICES ASSUME NEW section \in Sections
                 PROVE  /\ p.capLeft[section] \in Nat
                        /\ p.capLeft[section] + Cardinality(Seats(p.confirmed, section))
                             = capacity[section]
        OBVIOUS
    <2>1. Seats(p.confirmed, section) = {}
        BY <1>3 DEF Seats
    <2>2. Cardinality(Seats(p.confirmed, section)) = 0
        BY <2>1, FS_EmptySet
    <2> QED BY <1>1, <2>2
<1>6. \A s \in Range(students) : p.assignedCourse[s.id] # s.course
    <2> SUFFICES ASSUME NEW s \in Range(students) PROVE p.assignedCourse[s.id] # s.course
        OBVIOUS
    <2>1. s \in Student
        BY OfAList
    <2>2. s.id \in Students /\ s.course \in Courses
        BY <2>1, StudentFields
    <2> QED BY <1>1, <2>2, NoCourseAssumption
<1> QED BY <1>2, <1>3, <1>4, <1>5, <1>6 DEF AtWork, Queued

\* The rest of a list.
LEMMA TheRest ==
    ASSUME NEW S, NEW q \in Seq(S), q # << >>, NEW e, e = Head(q), NEW t, t = Tail(q)
    PROVE  /\ Len(q) \in Nat /\ 1 \in 1..Len(q) /\ e = q[1] /\ e \in S
           /\ t \in Seq(S) /\ Len(t) = Len(q) - 1
           /\ \A j \in 1..Len(t) : j + 1 \in 1..Len(q) /\ t[j] = q[j + 1]
           /\ \A j \in 1..Len(q) : j # 1 => j - 1 \in 1..Len(t) /\ t[j - 1] = q[j]
<1>1. Len(q) \in Nat \ {0}
    BY EmptySeq
<1>2. t \in Seq(S) /\ Len(t) = Len(q) - 1 /\ \A j \in 1..Len(t) : t[j] = q[j + 1]
    BY <1>1
<1>3. \A j \in 1..Len(t) : j + 1 \in 1..Len(q)
    BY <1>1, <1>2
<1>4. \A j \in 1..Len(q) : j # 1 => j - 1 \in 1..Len(t) /\ t[j - 1] = q[j]
    BY <1>1, <1>2
<1>5. e = q[1] /\ 1 \in 1..Len(q)
    BY <1>1
<1>6. e \in S
    BY <1>5, ElementOfSeq
<1> QED BY <1>1, <1>2, <1>3, <1>4, <1>5, <1>6

\* The edge e, then the edges t, after the confirmed edges w: what is known.
HeadAndTail(students, name, q, w, e, t) ==
    /\ e \in Edge /\ t \in Seq(Edge)
    /\ \E s \in Range(students) : EdgeFor(name, e, s)
    /\ \A i \in 1..Len(t) : \E s \in Range(students) : EdgeFor(name, t[i], s)
    /\ \A i, j \in 1..Len(t) : i < j => Ahead(students, name, t[i], t[j])
    /\ \A j \in 1..Len(t) : Ahead(students, name, e, t[j])
    /\ \A i \in 1..Len(w) : Ahead(students, name, w[i], e)
    /\ \A i \in 1..Len(w), j \in 1..Len(t) : Ahead(students, name, w[i], t[j])
    /\ \A x : (\E j \in 1..Len(q) : q[j] = x) => x = e \/ \E j \in 1..Len(t) : t[j] = x

\* The edges still to go, after one of them.
LEMMA QueueShrinks ==
    ASSUME NEW students, NEW capacity, NEW name, NEW p, NEW q, AtWork(students, capacity, name, q, p),
           q # << >>, NEW e, e = Head(q), NEW t, t = Tail(q)
    PROVE  HeadAndTail(students, name, q, p.confirmed, e, t)
<1>1. /\ q \in Seq(Edge)
      /\ \A i \in 1..Len(q) : \E s \in Range(students) : EdgeFor(name, q[i], s)
      /\ \A i, j \in 1..Len(q) : i < j => Ahead(students, name, q[i], q[j])
      /\ \A i \in 1..Len(p.confirmed), j \in 1..Len(q) :
             Ahead(students, name, p.confirmed[i], q[j])
    BY DEF AtWork
<1>2. /\ Len(q) \in Nat /\ 1 \in 1..Len(q) /\ e = q[1] /\ e \in Edge
      /\ t \in Seq(Edge) /\ Len(t) = Len(q) - 1
      /\ \A j \in 1..Len(t) : j + 1 \in 1..Len(q) /\ t[j] = q[j + 1]
      /\ \A j \in 1..Len(q) : j # 1 => j - 1 \in 1..Len(t) /\ t[j - 1] = q[j]
    BY <1>1, TheRest
<1>3. \A i, j \in 1..Len(t) : i < j => Ahead(students, name, t[i], t[j])
    <2> SUFFICES ASSUME NEW i \in 1..Len(t), NEW j \in 1..Len(t), i < j
                 PROVE  Ahead(students, name, t[i], t[j])
        OBVIOUS
    <2>1. i + 1 < j + 1
        OBVIOUS
    <2>2. /\ i + 1 \in 1..Len(q) /\ j + 1 \in 1..Len(q)
          /\ t[i] = q[i + 1] /\ t[j] = q[j + 1]
        BY <1>2
    <2>3. Ahead(students, name, q[i + 1], q[j + 1])
        BY <1>1, <2>1, <2>2
    <2> QED BY <2>2, <2>3
<1>4. \A j \in 1..Len(t) : Ahead(students, name, e, t[j])
    <2> SUFFICES ASSUME NEW j \in 1..Len(t) PROVE Ahead(students, name, e, t[j])
        OBVIOUS
    <2>1. j + 1 \in 1..Len(q) /\ t[j] = q[j + 1] /\ 1 < j + 1
        BY <1>2
    <2>2. Ahead(students, name, q[1], q[j + 1])
        BY <1>1, <1>2, <2>1
    <2> QED BY <1>2, <2>1, <2>2
<1>5. \A i \in 1..Len(t) : \E s \in Range(students) : EdgeFor(name, t[i], s)
    BY <1>1, <1>2
<1>6. \A i \in 1..Len(p.confirmed), j \in 1..Len(t) : Ahead(students, name, p.confirmed[i], t[j])
    BY <1>1, <1>2
<1>7. \A x : (\E j \in 1..Len(q) : q[j] = x) => x = e \/ \E j \in 1..Len(t) : t[j] = x
    BY <1>2
<1>8. \A i \in 1..Len(p.confirmed) : Ahead(students, name, p.confirmed[i], e)
    BY <1>1, <1>2
<1>9. \E s \in Range(students) : EdgeFor(name, e, s)
    BY <1>1, <1>2
<1> QED BY <1>2, <1>3, <1>4, <1>5, <1>6, <1>7, <1>8, <1>9 DEF HeadAndTail

\* A seat is taken.
LEMMA TakesKeeps ==
    ASSUME NEW students, Consistent(students), NEW capacity \in [Sections -> Nat], NEW name,
           NEW p \in Plan, NEW q, AtWork(students, capacity, name, q, p), q # << >>,
           NEW e, e = Head(q), NEW t, t = Tail(q), NEW z \in Plan, Takes(name, p, z, e)
    PROVE  AtWork(students, capacity, name, t, z)
<1> DEFINE w == p.confirmed
           x == z.confirmed
           l == Len(w)
<1>1. /\ e \in Edge /\ t \in Seq(Edge)
      /\ \E s \in Range(students) : EdgeFor(name, e, s)
      /\ \A i \in 1..Len(t) : \E s \in Range(students) : EdgeFor(name, t[i], s)
      /\ \A i, j \in 1..Len(t) : i < j => Ahead(students, name, t[i], t[j])
      /\ \A j \in 1..Len(t) : Ahead(students, name, e, t[j])
      /\ \A i \in 1..l : Ahead(students, name, w[i], e)
      /\ \A i \in 1..l, j \in 1..Len(t) : Ahead(students, name, w[i], t[j])
      /\ \A y : (\E j \in 1..Len(q) : q[j] = y) => y = e \/ \E j \in 1..Len(t) : t[j] = y
    <2>1. HeadAndTail(students, name, q, p.confirmed, e, t)
        BY QueueShrinks
    <2> QED BY <2>1 DEF HeadAndTail
<1>2. /\ w \in Seq(Edge) /\ OneSeatEach(w)
      /\ \A i \in 1..l : \E s \in Range(students) : EdgeFor(name, w[i], s)
    BY DEF AtWork, Confirms
<1>3. /\ \A section \in Sections :
             /\ p.capLeft[section] \in Nat
             /\ p.capLeft[section] + Cardinality(Seats(w, section)) = capacity[section]
      /\ \A r \in Range(students) :
             \/ \E j \in 1..Len(q) : q[j] = PrimaryEdge(r)
             \/ \E i \in 1..l : w[i] = PrimaryEdge(r)
             \/ p.capLeft[r.primary] = 0 /\ GoneFairly(students, name, w, r)
      /\ name \in {"Hybrid", "Batch"} =>
             \A s \in Range(students) :
                 p.assignedCourse[s.id] = s.course <=> \E i \in 1..l : w[i].student = s.id
    BY DEF AtWork
<1>4. /\ x \in Seq(Edge) /\ IsAppend(x, w, e)
    BY <1>1, <1>2, Appended DEF Takes
<1>5. /\ p.capLeft[e.section] > 0
      /\ z.capLeft = [p.capLeft EXCEPT ![e.section] = @ - 1]
      /\ name \in {"Hybrid", "Batch"} =>
             /\ p.assignedCourse[e.student] # e.course
             /\ z.assignedCourse = [p.assignedCourse EXCEPT ![e.student] = e.course]
    BY DEF Takes
<1>6. l \in Nat /\ Len(x) = l + 1 /\ (\A i \in 1..l : x[i] = w[i]) /\ x[l + 1] = e
    BY <1>2, <1>4 DEF IsAppend
<1>7. p.capLeft \in [Sections -> Int] /\ p.assignedCourse \in [Students -> Courses \union {NoCourse}]
    BY DEF Plan
<1> HIDE DEF w, x, l
<1>8. \A i \in 1..Len(x) : i \in 1..l \/ i = l + 1
    BY <1>6
<1>9. PICK s \in Range(students) : EdgeFor(name, e, s)
    BY <1>1
<1>10. s \in Student /\ e.student = s.id /\ e.course = s.course /\ s.id \in Students
    <2>1. s \in Student
        BY OfAList
    <2>2. IsEdgeOf(e, s)
        BY <1>9 DEF EdgeFor, IsEdgeOf
    <2> QED BY <2>1, <2>2, EdgeOfStudent, StudentFields
<1>11. \A i \in 1..l : w[i].student # e.student
    <2>1. CASE name \in {"Hybrid", "Batch"}
        BY <1>3, <1>5, <1>10, <2>1
    <2>2. CASE name \notin {"Hybrid", "Batch"}
        <3>1. e = PrimaryEdge(s)
            BY <1>9, <2>2 DEF EdgeFor
        <3> QED BY <1>1, <1>10, <3>1 DEF Ahead
    <2> QED BY <2>1, <2>2
<1>12. OneSeatEach(x)
    <2> SUFFICES ASSUME NEW i \in 1..Len(x), NEW j \in 1..Len(x), x[i].student = x[j].student
                 PROVE  i = j
        BY DEF OneSeatEach
    <2>1. CASE i \in 1..l /\ j \in 1..l
        BY <1>2, <1>6, <2>1 DEF OneSeatEach, l
    <2>2. CASE i \in 1..l /\ j = l + 1
        BY <1>6, <1>11, <2>2
    <2>3. CASE i = l + 1 /\ j \in 1..l
        BY <1>6, <1>11, <2>3
    <2> QED BY <1>8, <2>1, <2>2, <2>3
<1>13. \A i \in 1..Len(x) : \E a \in Range(students) : EdgeFor(name, x[i], a)
    BY <1>2, <1>6, <1>8, <1>9
<1>14. \A i \in 1..Len(x), j \in 1..Len(t) : Ahead(students, name, x[i], t[j])
    BY <1>1, <1>6, <1>8
<1>15. \A section \in Sections :
           /\ z.capLeft[section] \in Nat
           /\ z.capLeft[section] + Cardinality(Seats(x, section)) = capacity[section]
    <2> SUFFICES ASSUME NEW section \in Sections
                 PROVE  /\ z.capLeft[section] \in Nat
                        /\ z.capLeft[section] + Cardinality(Seats(x, section)) = capacity[section]
        OBVIOUS
    <2> DEFINE c == Cardinality(Seats(w, section))
               d == Cardinality(Seats(x, section))
    <2>1. d = IF section = e.section THEN c + 1 ELSE c
        BY <1>1, <1>2, <1>4, <1>11, SeatAdded DEF l
    <2>2. c \in Nat
        BY <1>2, SeatsFinite
    <2>3. p.capLeft[section] \in Nat /\ p.capLeft[section] + c = capacity[section]
        BY <1>3
    <2>4. z.capLeft[section]
            = IF section = e.section THEN p.capLeft[section] - 1 ELSE p.capLeft[section]
        BY <1>5, <1>7
    <2> HIDE DEF c, d
    <2>5. section = e.section =>
              z.capLeft[section] \in Nat /\ z.capLeft[section] + d = capacity[section]
        BY <1>5, <2>1, <2>2, <2>3, <2>4
    <2>6. section # e.section =>
              z.capLeft[section] \in Nat /\ z.capLeft[section] + d = capacity[section]
        BY <2>1, <2>2, <2>3, <2>4
    <2>7. z.capLeft[section] \in Nat /\ z.capLeft[section] + d = capacity[section]
        BY <2>5, <2>6
    <2> QED BY <2>7 DEF d
<1>16. \A r \in Range(students) :
           \/ \E j \in 1..Len(t) : t[j] = PrimaryEdge(r)
           \/ \E i \in 1..Len(x) : x[i] = PrimaryEdge(r)
           \/ z.capLeft[r.primary] = 0 /\ GoneFairly(students, name, x, r)
    <2> SUFFICES ASSUME NEW r \in Range(students)
                 PROVE  \/ \E j \in 1..Len(t) : t[j] = PrimaryEdge(r)
                        \/ \E i \in 1..Len(x) : x[i] = PrimaryEdge(r)
                        \/ z.capLeft[r.primary] = 0 /\ GoneFairly(students, name, x, r)
        OBVIOUS
    <2>1. CASE \E j \in 1..Len(q) : q[j] = PrimaryEdge(r)
        <3>1. PrimaryEdge(r) = e \/ \E j \in 1..Len(t) : t[j] = PrimaryEdge(r)
            BY <1>1, <2>1
        <3>2. l + 1 \in 1..Len(x) /\ x[l + 1] = e
            BY <1>6
        <3> QED BY <3>1, <3>2
    <2>2. CASE \E i \in 1..l : w[i] = PrimaryEdge(r)
        <3>1. \A i \in 1..l : i \in 1..Len(x) /\ x[i] = w[i]
            BY <1>6
        <3> QED BY <2>2, <3>1
    <2>3. CASE p.capLeft[r.primary] = 0 /\ GoneFairly(students, name, w, r)
        <3>1. e.section # r.primary
            BY <1>5, <2>3
        <3>2. r.primary \in Sections
            BY OfAList, StudentFields
        <3>3. z.capLeft[r.primary] = 0
            BY <1>5, <1>7, <2>3, <3>1, <3>2
        <3>4. ASSUME NEW i \in 1..Len(x), x[i].section = r.primary,
                     NEW h \in Range(students), x[i].student = h.id
              PROVE  Fair(students, name, h, r, x[i])
            <4>1. i \in 1..l /\ x[i] = w[i]
                BY <1>6, <1>8, <3>1, <3>4
            <4> QED BY <2>3, <3>4, <4>1 DEF GoneFairly, l
        <3>5. GoneFairly(students, name, x, r)
            BY <3>4 DEF GoneFairly
        <3> QED BY <3>3, <3>5
    <2> QED BY <1>3, <2>1, <2>2, <2>3
<1>17. ASSUME name \in {"Hybrid", "Batch"}, NEW a \in Range(students)
       PROVE  z.assignedCourse[a.id] = a.course <=> \E i \in 1..Len(x) : x[i].student = a.id
    <2>1. a.id \in Students
        BY OfAList, StudentFields
    <2>2. CASE a = s
        <3>1. z.assignedCourse[a.id] = a.course
            BY <1>5, <1>7, <1>10, <1>17, <2>2
        <3>2. l + 1 \in 1..Len(x) /\ x[l + 1].student = a.id
            BY <1>6, <1>10, <2>2
        <3> QED BY <3>1, <3>2
    <2>3. CASE a # s
        <3>1. a.id # e.student
            BY <1>10, <2>3, OfAList
        <3>2. z.assignedCourse[a.id] = p.assignedCourse[a.id]
            BY <1>5, <1>7, <1>17, <2>1, <3>1
        <3>3. (\E i \in 1..Len(x) : x[i].student = a.id) <=> \E i \in 1..l : w[i].student = a.id
            <4>1. ASSUME NEW i \in 1..Len(x), x[i].student = a.id
                  PROVE  \E k \in 1..l : w[k].student = a.id
                BY <1>6, <1>8, <3>1, <4>1
            <4>2. ASSUME NEW i \in 1..l, w[i].student = a.id
                  PROVE  \E k \in 1..Len(x) : x[k].student = a.id
                <5>1. i \in 1..Len(x) /\ x[i] = w[i]
                    BY <1>6
                <5> QED BY <4>2, <5>1
            <4> QED BY <4>1, <4>2
        <3> QED BY <1>3, <1>17, <3>2, <3>3
    <2> QED BY <2>2, <2>3
<1> QED BY <1>1, <1>4, <1>12, <1>13, <1>14, <1>15, <1>16, <1>17 DEF AtWork, Confirms, x

\* Who holds a section a student prefers wants the same course.
LEMMA SameCourse ==
    ASSUME NEW students, Consistent(students), NEW name,
           NEW h \in Range(students), NEW r \in Range(students),
           NEW e, EdgeFor(name, e, h), e.section = r.primary
    PROVE  h.course = r.course
<1>1. h \in Student /\ r \in Student
    BY OfAList
<1>2. e.section \in {h.primary, h.alt}
    <2>1. IsEdgeOf(e, h)
        BY DEF EdgeFor, IsEdgeOf
    <2> QED BY <1>1, <2>1, EdgeOfStudent
<1>3. r.primary # NoSection
    BY <1>1, StudentFields, PopulationsAssumption
<1>4. r.primary \in Named(r) /\ r.primary \in Named(h)
    BY <1>2, <1>3 DEF Named
<1> QED BY <1>4 DEF Consistent

\* An edge is passed over.
LEMMA PassesKeeps ==
    ASSUME NEW students, Consistent(students), NEW capacity \in [Sections -> Nat], NEW name,
           NEW p \in Plan, NEW q, AtWork(students, capacity, name, q, p), q # << >>,
           NEW e, e = Head(q), NEW t, t = Tail(q), NEW z \in Plan, Passes(name, p, z, e)
    PROVE  AtWork(students, capacity, name, t, z)
<1> DEFINE w == p.confirmed
           l == Len(w)
<1>1. HeadAndTail(students, name, q, w, e, t)
    BY QueueShrinks
<1>2. z.confirmed = w /\ z.capLeft = p.capLeft /\ z.assignedCourse = p.assignedCourse
    BY DEF Passes
<1>3. ~(p.capLeft[e.section] > 0)
      \/ (name \in {"Hybrid", "Batch"} /\ p.assignedCourse[e.student] = e.course)
    BY DEF Passes
<1>4. /\ Confirms(students, name, w)
      /\ \A section \in Sections :
             /\ p.capLeft[section] \in Nat
             /\ p.capLeft[section] + Cardinality(Seats(w, section)) = capacity[section]
      /\ \A r \in Range(students) :
             \/ \E j \in 1..Len(q) : q[j] = PrimaryEdge(r)
             \/ \E i \in 1..l : w[i] = PrimaryEdge(r)
             \/ p.capLeft[r.primary] = 0 /\ GoneFairly(students, name, w, r)
      /\ name \in {"Hybrid", "Batch"} =>
             \A s \in Range(students) :
                 p.assignedCourse[s.id] = s.course <=> \E i \in 1..l : w[i].student = s.id
    BY DEF AtWork
<1> HIDE DEF w, l
<1>5. ASSUME NEW r \in Range(students), e = PrimaryEdge(r)
      PROVE  p.capLeft[r.primary] = 0 /\ GoneFairly(students, name, w, r)
    <2>1. /\ r \in Student /\ e.section = r.primary /\ e.student = r.id /\ e.course = r.course
          /\ r.primary \in Sections
        BY <1>5, OfAList, EdgeFields, StudentFields
    <2>2. \A i \in 1..l : Ahead(students, name, w[i], e)
        BY <1>1 DEF HeadAndTail, l
    <2>3. \A i \in 1..l : w[i].student # r.id
        BY <1>5, <2>2 DEF Ahead
    <2>4. ~(p.capLeft[r.primary] > 0)
        BY <1>3, <1>4, <2>1, <2>3
    <2>5. p.capLeft[r.primary] \in Nat
        BY <1>4, <2>1
    <2>6. ASSUME NEW i \in 1..l, w[i].section = r.primary,
                 NEW h \in Range(students), w[i].student = h.id
          PROVE  Fair(students, name, h, r, w[i])
        <3>1. PICK g \in Range(students) : EdgeFor(name, w[i], g)
            BY <1>4 DEF Confirms, l
        <3>2. g = h
            <4>1. g \in Student /\ IsEdgeOf(w[i], g)
                BY <3>1, OfAList DEF EdgeFor, IsEdgeOf
            <4>2. w[i].student = g.id
                BY <4>1, EdgeOfStudent
            <4> QED BY <2>6, <4>2, OfAList
        <3>3. h.course = r.course
            BY <2>6, <3>1, <3>2, SameCourse
        <3> QED BY <1>5, <2>2, <2>6, <3>3 DEF Ahead
    <2> QED BY <2>4, <2>5, <2>6 DEF GoneFairly, l
<1>6. \A r \in Range(students) :
          \/ \E j \in 1..Len(t) : t[j] = PrimaryEdge(r)
          \/ \E i \in 1..l : w[i] = PrimaryEdge(r)
          \/ p.capLeft[r.primary] = 0 /\ GoneFairly(students, name, w, r)
    <2> SUFFICES ASSUME NEW r \in Range(students), \E j \in 1..Len(q) : q[j] = PrimaryEdge(r),
                        ~ \E j \in 1..Len(t) : t[j] = PrimaryEdge(r)
                 PROVE  p.capLeft[r.primary] = 0 /\ GoneFairly(students, name, w, r)
        BY <1>4
    <2>1. e = PrimaryEdge(r)
        BY <1>1 DEF HeadAndTail
    <2> QED BY <1>5, <2>1
<1> QED BY <1>1, <1>2, <1>4, <1>6 DEF AtWork, HeadAndTail, w, l

\* One turn of the loops keeps what is known.
LEMMA Serves ==
    ASSUME NEW students, Consistent(students), NEW capacity \in [Sections -> Nat], NEW name,
           NEW p \in Plan, NEW q, AtWork(students, capacity, name, q, p), q # << >>, NEW z,
           z = IF name \in {"Hybrid", "Batch"} THEN Consider(p, Head(q), {})
               ELSE TakeSeat(p, Head(q))
    PROVE  z \in Plan /\ AtWork(students, capacity, name, Tail(q), z)
<1> DEFINE e == Head(q)
           t == Tail(q)
<1>1. e \in Edge
    <2>1. HeadAndTail(students, name, q, p.confirmed, e, t)
        BY QueueShrinks
    <2> QED BY <2>1 DEF HeadAndTail
<1>2. z \in Plan /\ (Takes(name, p, z, e) \/ Passes(name, p, z, e))
    BY <1>1, OneTurn
<1>3. AtWork(students, capacity, name, t, z)
    BY <1>2, TakesKeeps, PassesKeeps
<1> QED BY <1>2, <1>3

\* A strategy returns.
LEMMA Returns ==
    ASSUME NEW students, Consistent(students), NEW capacity \in [Sections -> Nat], NEW name,
           NEW p \in Plan, AtWork(students, capacity, name, << >>, p)
    PROVE  Outcome(students, capacity, name, p.confirmed)
<1> DEFINE w == p.confirmed
<1>1. Confirms(students, name, w)
    BY DEF AtWork
<1>2. ASSUME NEW section \in Sections
      PROVE  /\ Cardinality(Seats(w, section)) <= capacity[section]
             /\ p.capLeft[section] = 0 => Cardinality(Seats(w, section)) = capacity[section]
    <2> DEFINE c == Cardinality(Seats(w, section))
    <2>1. c \in Nat
        BY <1>1, SeatsFinite DEF Confirms
    <2>2. p.capLeft[section] \in Nat /\ p.capLeft[section] + c = capacity[section]
        BY DEF AtWork
    <2> HIDE DEF c
    <2>3. c <= capacity[section] /\ (p.capLeft[section] = 0 => c = capacity[section])
        BY <2>1, <2>2
    <2> QED BY <2>3 DEF c
<1>3. \A r \in Range(students) :
          \/ \E i \in 1..Len(w) : w[i] = PrimaryEdge(r)
          \/ p.capLeft[r.primary] = 0 /\ GoneFairly(students, name, w, r)
    BY EmptySeq DEF AtWork
<1>4. \A r \in Range(students) : r.primary \in Sections
    BY OfAList, StudentFields
<1> HIDE DEF w
<1>5. Outcome(students, capacity, name, w)
    BY <1>1, <1>2, <1>3, <1>4 DEF Outcome
<1> QED BY <1>5 DEF w

-----------------------------------------------------------------------------
(* The invariant. *)

\* The strategy at work is the next one, and knows what it has done; those
\* before it have left what they should.
Inv ==
    /\ population \in Populations
    /\ running \in {"none"} \union Range(Names)
    /\ queue \in Seq(Edge) /\ plan \in Plan /\ OneSeatEach(plan.confirmed)
    /\ results \in Seq(Seq(Edge)) /\ Len(results) <= Len(Names)
    /\ running # "none" =>
           /\ Len(results) < Len(Names) /\ running = Names[Len(results) + 1]
           /\ AtWork(population.students, population.capacity, running, queue, plan)
    /\ \A k \in 1..Len(results) :
           Outcome(population.students, population.capacity, Names[k], results[k])

\* The names of the strategies.
LEMMA TheNames ==
    /\ Len(Names) = 5 /\ DOMAIN Names = 1..5
    /\ Names[1] = "FIFO" /\ Names[2] = "Rule-based" /\ Names[3] = "TOPSIS"
    /\ Names[4] = "Hybrid" /\ Names[5] = "Batch"
    /\ Range(Names) = {"FIFO", "Rule-based", "TOPSIS", "Hybrid", "Batch"}
    /\ "none" \notin Range(Names)
<1>1. /\ Len(Names) = 5 /\ DOMAIN Names = 1..5
      /\ Names[1] = "FIFO" /\ Names[2] = "Rule-based" /\ Names[3] = "TOPSIS"
      /\ Names[4] = "Hybrid" /\ Names[5] = "Batch"
    BY DEF Names
<1>2. Range(Names) = {Names[i] : i \in 1..5}
    BY <1>1 DEF Range
<1>3. 1..5 = {1, 2, 3, 4, 5}
    OBVIOUS
<1>4. Range(Names) = {"FIFO", "Rule-based", "TOPSIS", "Hybrid", "Batch"}
    BY <1>1, <1>2, <1>3
<1> QED BY <1>1, <1>4

\* The initial states satisfy the invariant.
LEMMA InitInv == Init => Inv
<1> SUFFICES ASSUME Init PROVE Inv
    OBVIOUS
<1>1. /\ population \in Populations /\ running = "none" /\ queue = << >>
      /\ plan = EmptyPlan(population.capacity) /\ results = << >>
    BY DEF Init
<1>2. Consistent(population.students) /\ population.capacity \in [Sections -> Nat]
    BY <1>1, Populated
<1>3. plan \in Plan /\ plan.confirmed = << >>
    <2>1. population.capacity \in [Sections -> Int]
        BY <1>2
    <2>2. << >> \in Seq(Edge) /\ << >> \in Seq(Assignment)
        BY EmptySeq
    <2> QED BY <1>1, <2>1, <2>2 DEF EmptyPlan, Plan
<1>4. OneSeatEach(<< >>)
    BY EmptySeq DEF OneSeatEach
<1>5. << >> \in Seq(Edge) /\ << >> \in Seq(Seq(Edge)) /\ Len(<< >>) = 0
    BY EmptySeq
<1> QED BY <1>1, <1>3, <1>4, <1>5, TheNames DEF Inv

\* Every step keeps the invariant.
LEMMA NextInv == Inv /\ [Next]_vars => Inv'
<1> SUFFICES ASSUME Inv, [Next]_vars PROVE Inv'
    OBVIOUS
<1> DEFINE students == population.students
           capacity == population.capacity
<1>1. /\ population \in Populations
      /\ running \in {"none"} \union Range(Names)
      /\ queue \in Seq(Edge) /\ plan \in Plan /\ OneSeatEach(plan.confirmed)
      /\ results \in Seq(Seq(Edge)) /\ Len(results) <= Len(Names)
      /\ running # "none" =>
             /\ Len(results) < Len(Names) /\ running = Names[Len(results) + 1]
             /\ AtWork(students, capacity, running, queue, plan)
      /\ \A k \in 1..Len(results) : Outcome(students, capacity, Names[k], results[k])
    BY DEF Inv
<1>2. Consistent(students) /\ capacity \in [Sections -> Nat]
    BY <1>1, Populated
<1>3. students \in Seq(Student)
    BY <1>2 DEF Consistent
<1>4. ASSUME NEW name \in Range(Names), NEW orders, running = "none",
             Len(results) < Len(Names), Names[Len(results) + 1] = name, running' = name,
             queue' \in orders, \A q \in orders : Queued(students, name, q),
             plan' = EmptyPlan(capacity), population' = population, results' = results
      PROVE  Inv'
    <2>1. Queued(students, name, queue')
        BY <1>4
    <2>2. plan' \in Plan /\ AtWork(students, capacity, name, queue', plan')
        BY <1>2, <1>4, <2>1, Begins
    <2>3. queue' \in Seq(Edge) /\ OneSeatEach(plan'.confirmed)
        BY <2>2 DEF AtWork, Confirms
    <2> QED BY <1>1, <1>4, <2>2, <2>3 DEF Inv
<1>5. CASE RunFIFO
    <2> DEFINE P == Precedence(students, Submitted)
               w == SortStable(students, Submitted)
    <2>1. w = [i \in DOMAIN students |-> students[Places(Len(students), P)[i]]]
        BY DEF SortStable
    <2> HIDE DEF P, w
    <2>2. "FIFO" \in Range(Names) /\ "FIFO" \in {"FIFO", "Rule-based"}
        BY TheNames
    <2>3. Queued(students, "FIFO", Primaries(w))
        BY <1>2, <2>1, <2>2, SortedQueued
    <2>4. /\ running = "none" /\ Len(results) < Len(Names) /\ Names[Len(results) + 1] = "FIFO"
          /\ running' = "FIFO" /\ queue' \in {Primaries(w)} /\ plan' = EmptyPlan(capacity)
          /\ population' = population /\ results' = results
        BY <1>5 DEF RunFIFO, Start, w
    <2>5. \A q \in {Primaries(w)} : Queued(students, "FIFO", q)
        BY <2>3
    <2> DEFINE orders == {Primaries(w)}
    <2> HIDE DEF students, capacity, orders
    <2>6. queue' \in orders
        BY <2>4 DEF orders
    <2>7. \A q \in orders : Queued(students, "FIFO", q)
        BY <2>5 DEF orders
    <2> QED BY <1>4, <2>2, <2>4, <2>6, <2>7
<1>6. CASE RunRuleBased
    <2> DEFINE P == Precedence(students, Ruled)
               w == SortStable(students, Ruled)
    <2>1. w = [i \in DOMAIN students |-> students[Places(Len(students), P)[i]]]
        BY DEF SortStable
    <2> HIDE DEF P, w
    <2>2. "Rule-based" \in Range(Names) /\ "Rule-based" \in {"FIFO", "Rule-based"}
        BY TheNames
    <2>3. Queued(students, "Rule-based", Primaries(w))
        BY <1>2, <2>1, <2>2, SortedQueued
    <2>4. /\ running = "none" /\ Len(results) < Len(Names)
          /\ Names[Len(results) + 1] = "Rule-based" /\ running' = "Rule-based"
          /\ queue' \in {Primaries(w)} /\ plan' = EmptyPlan(capacity)
          /\ population' = population /\ results' = results
        BY <1>6 DEF RunRuleBased, Start, w
    <2>5. \A q \in {Primaries(w)} : Queued(students, "Rule-based", q)
        BY <2>3
    <2> DEFINE orders == {Primaries(w)}
    <2> HIDE DEF students, capacity, orders
    <2>6. queue' \in orders
        BY <2>4 DEF orders
    <2>7. \A q \in orders : Queued(students, "Rule-based", q)
        BY <2>5 DEF orders
    <2> QED BY <1>4, <2>2, <2>4, <2>6, <2>7
<1>7. CASE RunTopsisOnly
    <2> DEFINE orders == {Primaries(ranked) : ranked \in InMapOrder(RankByCourse(ToRequests(students)))}
    <2>1. "TOPSIS" \in Range(Names)
        BY TheNames
    <2>2. \A q \in orders : Queued(students, "TOPSIS", q)
        BY <1>2, TopsisQueued
    <2>3. /\ running = "none" /\ Len(results) < Len(Names) /\ Names[Len(results) + 1] = "TOPSIS"
          /\ running' = "TOPSIS" /\ queue' \in orders /\ plan' = EmptyPlan(capacity)
          /\ population' = population /\ results' = results
        BY <1>7 DEF RunTopsisOnly, Start
    <2> HIDE DEF students, capacity, orders
    <2> QED BY <1>4, <2>1, <2>2, <2>3
<1>8. CASE RunHybrid
    <2> DEFINE w == SortStable(AllEdges(students), HigherScore)
    <2>1. "Hybrid" \in Range(Names)
        BY TheNames
    <2>2. Queued(students, "Hybrid", w)
        BY <1>2, HybridQueued
    <2>3. \A q \in {w} : Queued(students, "Hybrid", q)
        BY <2>2
    <2>4. /\ running = "none" /\ Len(results) < Len(Names) /\ Names[Len(results) + 1] = "Hybrid"
          /\ running' = "Hybrid" /\ queue' \in {w} /\ plan' = EmptyPlan(capacity)
          /\ population' = population /\ results' = results
        BY <1>8 DEF RunHybrid, Start
    <2> DEFINE orders == {w}
    <2> HIDE DEF students, capacity, w, orders
    <2>5. queue' \in orders
        BY <2>4 DEF orders
    <2>6. \A q \in orders : Queued(students, "Hybrid", q)
        BY <2>3 DEF orders
    <2> QED BY <1>4, <2>1, <2>4, <2>5, <2>6
<1>9. CASE Batch
    <2> DEFINE orders == {SortStable(AllEdges(ranked), HigherScore) :
                              ranked \in InMapOrder(RankByCourse(students))}
    <2>1. "Batch" \in Range(Names)
        BY TheNames
    <2>2. \A q \in orders : Queued(students, "Batch", q)
        BY <1>2, BatchQueued
    <2>3. /\ running = "none" /\ Len(results) < Len(Names) /\ Names[Len(results) + 1] = "Batch"
          /\ running' = "Batch" /\ queue' \in orders /\ plan' = EmptyPlan(capacity)
          /\ population' = population /\ results' = results
        BY <1>9 DEF Batch, Start
    <2> HIDE DEF students, capacity, orders
    <2> QED BY <1>4, <2>1, <2>2, <2>3
<1>10. CASE Serve
    <2>1. /\ running # "none" /\ queue # << >> /\ queue' = Tail(queue)
          /\ plan' = IF running \in {"Hybrid", "Batch"} THEN Consider(plan, Head(queue), {})
                     ELSE TakeSeat(plan, Head(queue))
          /\ population' = population /\ running' = running /\ results' = results
        BY <1>10 DEF Serve
    <2>2. plan' \in Plan /\ AtWork(students, capacity, running, queue', plan')
        <3> HIDE DEF students, capacity
        <3> QED BY <1>1, <1>2, <2>1, Serves
    <2>3. queue' \in Seq(Edge) /\ OneSeatEach(plan'.confirmed)
        BY <2>2 DEF AtWork, Confirms
    <2> QED BY <1>1, <2>1, <2>2, <2>3 DEF Inv
<1>11. CASE Return
    <2>1. /\ running # "none" /\ queue = << >> /\ results' = Append(results, plan.confirmed)
          /\ running' = "none" /\ population' = population /\ queue' = queue /\ plan' = plan
        BY <1>11 DEF Return
    <2>2. Outcome(students, capacity, running, plan.confirmed)
        <3> HIDE DEF students, capacity
        <3> QED BY <1>1, <1>2, <2>1, Returns
    <2> DEFINE n == Len(results)
    <2>3. plan.confirmed \in Seq(Edge) /\ n \in Nat
        BY <1>1 DEF Plan, Assignment
    <2>4. /\ results' \in Seq(Seq(Edge)) /\ Len(results') = n + 1
          /\ \A k \in 1..n : results'[k] = results[k]
          /\ results'[n + 1] = plan.confirmed
        BY <1>1, <2>1, <2>3, AppendProperties
    <2>5. n + 1 <= Len(Names)
        BY <1>1, <2>1, <2>3, TheNames
    <2>6. ASSUME NEW k \in 1..Len(results')
          PROVE  Outcome(students, capacity, Names[k], results'[k])
        <3>1. k \in 1..n \/ k = n + 1
            BY <2>3, <2>4
        <3>2. CASE k \in 1..n
            BY <1>1, <2>4, <3>2
        <3>3. CASE k = n + 1
            BY <1>1, <2>1, <2>2, <2>4, <3>3
        <3> QED BY <3>1, <3>2, <3>3
    <2> QED BY <1>1, <2>1, <2>4, <2>5, <2>6 DEF Inv
<1>12. CASE UNCHANGED vars
    BY <1>12 DEF Inv, vars
<1> QED BY <1>5, <1>6, <1>7, <1>8, <1>9, <1>10, <1>11, <1>12 DEF Next

\* The invariant holds in every state.
LEMMA Invariance == Spec => []Inv
<1>1. Init => Inv
    BY InitInv
<1>2. Inv /\ [Next]_vars => Inv'
    BY NextInv
<1> QED BY <1>1, <1>2, PTL DEF Spec

\* The state has its types, and no strategy confirms a student twice: what
\* assignedCourse ensures in Solve, and in the loops of the first three
\* strategies the students being different.
THEOREM TypeCorrect == Spec => []TypeOK
<1>1. Inv => TypeOK
    <2> SUFFICES ASSUME Inv PROVE TypeOK
        OBVIOUS
    <2>1. population.students \in Seq(Student) /\ population.capacity \in [Sections -> Nat]
        BY Populated DEF Inv, Consistent
    <2>2. plan.confirmed \in Seq(Edge)
        BY DEF Inv, Plan, Assignment
    <2>3. DOMAIN plan.confirmed = 1..Len(plan.confirmed)
        BY <2>2
    <2> QED BY <2>1, <2>3 DEF Inv, TypeOK, OneSeatEach
<1> QED BY <1>1, Invariance, PTL

\* The list of a strategy that is done.
LEMMA DoneOutcome ==
    ASSUME Inv, NEW name, Done(name)
    PROVE  Outcome(population.students, population.capacity, name, Result(name))
<1> DEFINE k == CHOOSE i \in DOMAIN results : Names[i] = name
<1>1. k \in DOMAIN results /\ Names[k] = name
    BY DEF Done
<1>2. DOMAIN results = 1..Len(results)
    BY DEF Inv
<1>3. Result(name) = results[k]
    BY DEF Result
<1> HIDE DEF k
<1>4. Outcome(population.students, population.capacity, Names[k], results[k])
    BY <1>1, <1>2 DEF Inv
<1> QED BY <1>1, <1>3, <1>4

\* Those who prefer a section, by position.
Wanting(students, section) == {i \in 1..Len(students) : students[i].primary = section}

\* A section is full, or everybody who prefers it has a seat there.
LEMMA FullOrServed ==
    ASSUME NEW students, Consistent(students), NEW capacity \in [Sections -> Nat], NEW name,
           NEW w, Outcome(students, capacity, name, w), NEW section \in Sections
    PROVE  /\ Cardinality(Wanting(students, section)) \in Nat
           /\ Cardinality(Seats(w, section)) \in Nat
           /\ Cardinality(Seats(w, section)) <= capacity[section]
           /\ \/ Cardinality(Seats(w, section)) = capacity[section]
              \/ Cardinality(Wanting(students, section)) <= Cardinality(Seats(w, section))
<1> DEFINE S == Seats(w, section)
           D == Wanting(students, section)
<1>1. /\ w \in Seq(Edge) /\ Cardinality(S) <= capacity[section]
      /\ \A r \in Range(students) :
             \/ \E i \in 1..Len(w) : w[i] = PrimaryEdge(r)
             \/ Cardinality(Seats(w, r.primary)) = capacity[r.primary]
    BY DEF Outcome, Confirms
<1>2. IsFiniteSet(S) /\ Cardinality(S) \in Nat
    BY <1>1, SeatsFinite
<1>3. IsFiniteSet(D) /\ Cardinality(D) \in Nat
    <2>1. Len(students) \in Nat
        BY OfAList
    <2>2. IsFiniteSet(1..Len(students)) /\ D \in SUBSET (1..Len(students))
        BY <2>1, FS_Interval DEF Wanting
    <2>3. IsFiniteSet(D)
        BY <2>2, FS_Subset
    <2> QED BY <2>3, FS_CardinalityType
<1>4. ASSUME Cardinality(S) # capacity[section]
      PROVE  Cardinality(D) <= Cardinality(S)
    <2> DEFINE f == [i \in D |-> PrimaryEdge(students[i])]
    <2>1. ASSUME NEW i \in D
          PROVE  PrimaryEdge(students[i]) \in S
        <3>1. i \in 1..Len(students) /\ students[i].primary = section
            BY DEF Wanting
        <3>2. students[i] \in Student /\ students[i] \in Range(students)
            BY <3>1, OfAList
        <3>3. PICK k \in 1..Len(w) : w[k] = PrimaryEdge(students[i])
            BY <1>1, <1>4, <3>1, <3>2
        <3>4. PrimaryEdge(students[i]) \in Range(w)
            BY <1>1, <3>3, RangeOf
        <3>5. PrimaryEdge(students[i]).section = section
            BY <3>1, <3>2, EdgeFields
        <3> QED BY <3>4, <3>5 DEF Seats
    <2>2. ASSUME NEW i \in D, NEW j \in D, PrimaryEdge(students[i]) = PrimaryEdge(students[j])
          PROVE  i = j
        <3>1. i \in 1..Len(students) /\ j \in 1..Len(students)
            BY DEF Wanting
        <3>2. students[i] \in Student /\ students[j] \in Student
            BY <3>1, OfAList
        <3>3. PrimaryEdge(students[i]).student = students[i].id
            BY <3>2, EdgeFields
        <3>4. PrimaryEdge(students[j]).student = students[j].id
            BY <3>2, EdgeFields
        <3>5. students[i].id = students[j].id
            BY <2>2, <3>3, <3>4
        <3> QED BY <3>1, <3>5 DEF Consistent, OneEach
    <2> HIDE DEF D, S
    <2>3. f \in Injection(D, S)
        BY <2>1, <2>2 DEF Injection, IsInjective
    <2> HIDE DEF f
    <2> QED BY <1>2, <2>3, FS_Injection
<1> QED BY <1>1, <1>2, <1>3, <1>4

\* The loops of the first three strategies confirm nobody in a section but
\* those who prefer it.
LEMMA OnlyWanting ==
    ASSUME NEW students, Consistent(students), NEW name, name \notin {"Hybrid", "Batch"},
           NEW w, Confirms(students, name, w), NEW section \in Sections
    PROVE  Cardinality(Seats(w, section)) <= Cardinality(Wanting(students, section))
<1> DEFINE S == Seats(w, section)
           D == Wanting(students, section)
           n == Len(students)
<1>1. /\ w \in Seq(Edge) /\ OneSeatEach(w)
      /\ \A i \in 1..Len(w) : \E s \in Range(students) : w[i] = PrimaryEdge(s)
    BY DEF Confirms, EdgeFor
<1>2. Range(w) = {w[i] : i \in 1..Len(w)}
    BY <1>1, RangeOf
<1>3. n \in Nat
    BY OfAList
<1>4. ASSUME NEW e \in S PROVE \E i \in D : students[i].id = e.student
    <2>1. PICK k \in 1..Len(w) : e = w[k]
        BY <1>2 DEF Seats
    <2>2. PICK s \in Range(students) : e = PrimaryEdge(s)
        BY <1>1, <2>1
    <2>3. s \in Student
        BY OfAList
    <2>4. e.student = s.id /\ e.section = s.primary
        BY <2>2, <2>3, EdgeFields
    <2>5. PICK i \in 1..n : s = students[i]
        BY OfAList
    <2>6. s.primary = section
        BY <2>4 DEF Seats
    <2> QED BY <2>4, <2>5, <2>6 DEF Wanting
<1>5. ASSUME NEW e \in S, NEW f \in S, e.student = f.student PROVE e = f
    <2>1. PICK k \in 1..Len(w) : e = w[k]
        BY <1>2 DEF Seats
    <2>2. PICK l \in 1..Len(w) : f = w[l]
        BY <1>2 DEF Seats
    <2> QED BY <1>1, <1>5, <2>1, <2>2 DEF OneSeatEach
<1> DEFINE g == [e \in S |-> CHOOSE i \in D : students[i].id = e.student]
<1>6. IsFiniteSet(D)
    <2>1. IsFiniteSet(1..n) /\ D \in SUBSET (1..n)
        BY <1>3, FS_Interval DEF Wanting
    <2> QED BY <2>1, FS_Subset
<1> HIDE DEF S, D
<1>7. \A e \in S : g[e] \in D /\ students[g[e]].id = e.student
    BY <1>4
<1>8. g \in Injection(S, D)
    <2>1. g \in [S -> D]
        BY <1>7
    <2>2. ASSUME NEW e \in S, NEW f \in S, g[e] = g[f] PROVE e = f
        <3>1. e.student = f.student
            BY <1>7, <2>2
        <3> QED BY <1>5, <3>1
    <2> HIDE DEF g
    <2> QED BY <2>1, <2>2 DEF Injection, IsInjective
<1> HIDE DEF g
<1>9. Cardinality(S) <= Cardinality(D)
    BY <1>6, <1>8, FS_Injection
<1> QED BY <1>9 DEF S, D

\* The smaller of two numbers.
LEMMA SmallerOf ==
    ASSUME NEW a \in Nat, NEW b \in Nat, NEW c \in Nat, c <= a, c <= b, c = a \/ b <= c
    PROVE  c = Min({a, b})
<1>1. c \in {a, b} /\ \A y \in {a, b} : c <= y
    OBVIOUS
<1>2. \A x \in {a, b} : (\A y \in {a, b} : x <= y) => x = c
    BY <1>1
<1> QED BY <1>1, <1>2 DEF Min

\* How many are served: each of the first three strategies fills a section up
\* to its demand, and the others leave none emptier.
THEOREM AsManyServed == Spec => []HybridServesAtLeast
<1>1. Inv => HybridServesAtLeast
    <2> SUFFICES ASSUME Inv, NEW section \in Sections
                 PROVE  /\ \A name \in {"FIFO", "Rule-based", "TOPSIS"} :
                               Done(name) => Cardinality(Served(name, section))
                                               = Min({population.capacity[section],
                                                      Cardinality(Demand(section))})
                        /\ \A name \in {"Hybrid", "Batch"} :
                               Done(name) => Cardinality(Served(name, section))
                                               >= Cardinality(Served("TOPSIS", section))
        BY DEF HybridServesAtLeast
    <2> DEFINE students == population.students
               c == population.capacity[section]
               d == Cardinality(Demand(section))
               s(name) == Cardinality(Served(name, section))
    <2>1. Consistent(students) /\ population.capacity \in [Sections -> Nat] /\ c \in Nat
        BY Populated DEF Inv
    <2>2. Demand(section) = Wanting(students, section)
        <3>1. DOMAIN students = 1..Len(students)
            BY <2>1 DEF Consistent
        <3> QED BY <3>1 DEF Demand, Wanting
    <2>3. ASSUME NEW name, Done(name)
          PROVE  d \in Nat /\ s(name) \in Nat /\ s(name) <= c /\ (s(name) = c \/ d <= s(name))
        <3>1. Outcome(students, population.capacity, name, Result(name))
            BY <2>3, DoneOutcome
        <3>2. Served(name, section) = Seats(Result(name), section)
            BY DEF Served, Seats
        <3> QED BY <2>1, <2>2, <3>1, <3>2, FullOrServed
    <2>4. ASSUME NEW name, Done(name), name \notin {"Hybrid", "Batch"}
          PROVE  s(name) <= d
        <3>1. Confirms(students, name, Result(name))
            BY <2>4, DoneOutcome DEF Outcome
        <3>2. Served(name, section) = Seats(Result(name), section)
            BY DEF Served, Seats
        <3> QED BY <2>1, <2>2, <2>4, <3>1, <3>2, OnlyWanting
    <2>5. ASSUME NEW name \in {"Hybrid", "Batch"}, Done(name) PROVE Done("TOPSIS")
        <3>1. DOMAIN results = 1..Len(results) /\ Len(results) \in Nat /\ Len(results) <= 5
            BY TheNames DEF Inv
        <3>2. PICK i \in 1..Len(results) : Names[i] = name
            BY <2>5, <3>1 DEF Done
        <3>3. i \in 1..5 /\ i # 1 /\ i # 2
            BY <3>1, <3>2, TheNames
        <3>4. 3 \in 1..Len(results)
            BY <3>1, <3>3
        <3> QED BY <3>1, <3>4, TheNames DEF Done
    <2> HIDE DEF s, c, d, students
    <2>6. ASSUME NEW name \in {"FIFO", "Rule-based", "TOPSIS"}, Done(name)
          PROVE  s(name) = Min({c, d})
        <3>1. /\ d \in Nat /\ s(name) \in Nat /\ s(name) <= c /\ s(name) <= d
              /\ s(name) = c \/ d <= s(name)
            BY <2>3, <2>4, <2>6
        <3> QED BY <2>1, <3>1, SmallerOf
    <2>7. ASSUME NEW name \in {"Hybrid", "Batch"}, Done(name)
          PROVE  s(name) >= s("TOPSIS")
        <3>1. s(name) \in Nat /\ (s(name) = c \/ d <= s(name)) /\ d \in Nat
            BY <2>3, <2>7
        <3>2. Done("TOPSIS")
            BY <2>5, <2>7
        <3>3. s("TOPSIS") \in Nat /\ s("TOPSIS") <= c
            BY <2>3, <3>2
        <3>4. s("TOPSIS") <= d
            BY <2>4, <3>2
        <3> QED BY <2>1, <3>1, <3>3, <3>4
    <2> QED BY <2>6, <2>7 DEF s, c, d
<1> QED BY <1>1, Invariance, PTL

\* Who got nothing did not get the first choice.
LEMMA RefusedAreDisplaced ==
    ASSUME Inv, NEW name, NEW r \in Refused(name)
    PROVE  r \in Displaced(name)
<1>1. r \in Range(population.students) /\ \A e \in Range(Result(name)) : e.student # r.id
    BY DEF Refused
<1>2. r \in Student
    BY <1>1, Populated, OfAList DEF Inv
<1>3. PrimaryEdge(r).student = r.id
    BY <1>2, EdgeFields
<1> QED BY <1>1, <1>3 DEF Displaced

\* Whoever lost his first choice sees only holders who are fairly so.
LEMMA HeldFairly ==
    ASSUME Inv, NEW name, Done(name), NEW r \in Displaced(name),
           NEW h \in Holders(name, r.primary)
    PROVE  \E e : /\ EdgeFor(name, e, h) /\ e.section = r.primary
                  /\ Fair(population.students, name, h, r, e)
<1> DEFINE students == population.students
           w == Result(name)
<1>1. Consistent(students)
    BY Populated DEF Inv
<1>2. /\ w \in Seq(Edge) /\ \A i \in 1..Len(w) : \E s \in Range(students) : EdgeFor(name, w[i], s)
      /\ \A s \in Range(students) :
             \/ \E i \in 1..Len(w) : w[i] = PrimaryEdge(s)
             \/ GoneFairly(students, name, w, s)
    BY DoneOutcome DEF Outcome, Confirms
<1>3. Range(w) = {w[i] : i \in 1..Len(w)}
    BY <1>2, RangeOf
<1>4. r \in Range(students) /\ PrimaryEdge(r) \notin Range(w)
    BY DEF Displaced
<1>5. h \in Range(students) /\ \E e \in Range(w) : e.section = r.primary /\ e.student = h.id
    BY DEF Holders, Served
<1> HIDE DEF students, w
<1>6. GoneFairly(students, name, w, r)
    BY <1>2, <1>3, <1>4
<1>7. PICK i \in 1..Len(w) : w[i].section = r.primary /\ w[i].student = h.id
    BY <1>3, <1>5
<1>8. Fair(students, name, h, r, w[i])
    BY <1>5, <1>6, <1>7 DEF GoneFairly
<1>9. EdgeFor(name, w[i], h)
    <2>1. PICK g \in Range(students) : EdgeFor(name, w[i], g)
        BY <1>2
    <2>2. g \in Student /\ IsEdgeOf(w[i], g)
        BY <1>1, <2>1, OfAList DEF EdgeFor, IsEdgeOf
    <2>3. w[i].student = g.id
        BY <2>2, EdgeOfStudent
    <2>4. g = h
        BY <1>1, <1>5, <1>7, <2>3, OfAList
    <2> QED BY <2>1, <2>4
<1> QED BY <1>7, <1>8, <1>9 DEF students

\* Whoever is refused sees a section of students who are close enough.
THEOREM CloserFirst == Spec => []SeatsGoByCloseness
<1>1. Inv => SeatsGoByCloseness
    BY HeldFairly, RefusedAreDisplaced DEF SeatsGoByCloseness, Fair
<1> QED BY <1>1, Invariance, PTL

\* Nobody loses a first choice in the hybrid or in the batch while the section
\* has a seat left, nor to a student who is less close, be it the first choice
\* of that student or the alternative.
THEOREM DisplacedByCloser == Spec => []DisplacedFairly
<1>1. Inv => DisplacedFairly
    <2> SUFFICES ASSUME Inv, NEW name \in {"Hybrid", "Batch"}, Done(name),
                        NEW r \in Displaced(name)
                 PROVE  /\ Cardinality(Served(name, r.primary)) = population.capacity[r.primary]
                        /\ \A h \in Holders(name, r.primary) : h.closeness >= r.closeness
        BY DEF DisplacedFairly
    <2>1. Cardinality(Served(name, r.primary)) = population.capacity[r.primary]
        <3> DEFINE w == Result(name)
        <3>1. /\ w \in Seq(Edge)
              /\ \A s \in Range(population.students) :
                     \/ \E i \in 1..Len(w) : w[i] = PrimaryEdge(s)
                     \/ Cardinality(Seats(w, s.primary)) = population.capacity[s.primary]
            BY DoneOutcome DEF Outcome, Confirms
        <3>2. r \in Range(population.students) /\ PrimaryEdge(r) \notin Range(w)
            BY DEF Displaced
        <3>3. Served(name, r.primary) = Seats(w, r.primary)
            BY DEF Served, Seats
        <3> HIDE DEF w
        <3>4. Range(w) = {w[i] : i \in 1..Len(w)}
            BY <3>1, RangeOf
        <3> QED BY <3>1, <3>2, <3>3, <3>4
    <2>2. ASSUME NEW h \in Holders(name, r.primary) PROVE h.closeness >= r.closeness
        <3>1. CloseEnough(population.students, name, h, r)
            BY HeldFairly DEF Fair
        <3>2. h \in Student /\ r \in Student
            BY Populated, OfAList DEF Inv, Holders, Displaced
        <3> QED BY <3>1, <3>2 DEF CloseEnough, Student
    <2> QED BY <2>1, <2>2
<1> QED BY <1>1, Invariance, PTL

\* The tie-break decides among the students who compete for a section.
THEOREM TiesDecided == Spec => []TieBreakKept
<1>1. Inv => TieBreakKept
    <2> SUFFICES ASSUME Inv, NearIsTransitive(population.students),
                        NEW name \in {"TOPSIS", "Batch"}, Done(name),
                        NEW r \in Refused(name), NEW h \in Holders(name, r.primary),
                        r.primary = h.primary
                 PROVE  TieKept(name, h, r)
        BY DEF TieBreakKept, TieKept
    <2>1. PICK e : /\ EdgeFor(name, e, h) /\ e.section = r.primary
                   /\ Fair(population.students, name, h, r, e)
        BY HeldFairly, RefusedAreDisplaced
    <2>2. h \in Student /\ h.primary # h.alt
        <3>1. Consistent(population.students)
            BY Populated DEF Inv
        <3>2. h \in Range(population.students)
            BY DEF Holders
        <3>3. h \in Student
            BY <3>1, <3>2, OfAList
        <3> QED BY <3>1, <3>2, <3>3 DEF Consistent
    <2>3. e = PrimaryEdge(h)
        <3> SUFFICES ASSUME e = AltEdge(h) PROVE FALSE
            BY <2>1 DEF EdgeFor, IsEdgeOf
        <3>1. e.section = h.alt
            BY <2>2, EdgeFields
        <3> QED BY <2>1, <2>2, <3>1
    <2> QED BY <2>1, <2>3 DEF Fair
<1> QED BY <1>1, Invariance, PTL

=============================================================================
