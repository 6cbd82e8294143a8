--------------------------- MODULE MemCacheProofs ---------------------------
(***************************************************************************)
(* Proofs about MemCache, for every set of keys, every finite set of       *)
(* revisions, every capacity and every time to live.                       *)
(***************************************************************************)
EXTENDS MemCache, SequenceTheorems, DataTheorems

\* No key is twice in a list.
NoRepeats(list) == \A i, j \in 1..Len(list) : list[i] = list[j] => i = j

\* What the first list has, the second one has in the same order.
SameOrder(list, other) ==
    \A i, j \in 1..Len(list), m, n \in 1..Len(other) :
        i < j /\ list[i] = other[m] /\ list[j] = other[n] => m < n

\* List and map agree; one entry too many is there only while Set evicts it.
ListInv ==
    /\ NoRepeats(ll)
    /\ ToSet(ll) = Present
    /\ IsFiniteSet(Present) /\ Len(ll) = Cardinality(Present)
    /\ IF evicting THEN Len(ll) = MaxEntries + 1 ELSE Len(ll) <= MaxEntries

\* The list is the keys by last use, without those that are gone.
OrderInv ==
    /\ NoRepeats(recent)
    /\ ToSet(ll) \subseteq ToSet(recent)
    /\ SameOrder(ll, recent)

IInv == /\ TypeOK /\ ListInv /\ OrderInv /\ bytes = StoredBytes
        /\ KeepsRecent /\ ReportBounded

-----------------------------------------------------------------------------
(* Lists.                                                                  *)

LEMMA ListFacts ==
    ASSUME NEW list \in Seq(Keys)
    PROVE  /\ Len(list) \in Nat
           /\ \A x : x \in ToSet(list) <=> \E i \in 1..Len(list) : list[i] = x
BY DEF ToSet

\* Taking k out of a list moves what is behind it one place to the front.
LEMMA WithoutIndex ==
    ASSUME NEW list \in Seq(Keys), NoRepeats(list), NEW k \in Keys
    PROVE  /\ Without(list, k) \in Seq(Keys)
           /\ \E p \in 1..(Len(list) + 1) :
                 /\ IF k \in ToSet(list)
                    THEN p <= Len(list) /\ list[p] = k /\ Len(Without(list, k)) = Len(list) - 1
                    ELSE p = Len(list) + 1 /\ Len(Without(list, k)) = Len(list)
                 /\ \A i \in 1..Len(Without(list, k)) :
                       /\ i < p => Without(list, k)[i] = list[i]
                       /\ i >= p => Without(list, k)[i] = list[i + 1]
<1>1. CASE k \notin ToSet(list)
  BY <1>1 DEF Without
<1>2. CASE k \in ToSet(list)
  <2> DEFINE p == CHOOSE i \in 1..Len(list) : list[i] = k
             w == SubSeq(list, 1, p - 1) \o SubSeq(list, p + 1, Len(list))
  <2>1. p \in 1..Len(list) /\ list[p] = k
    BY <1>2 DEF ToSet
  <2>2. Without(list, k) = w
    BY <1>2 DEF Without, RemoveAt
  <2> HIDE DEF p
  <2> DEFINE front == SubSeq(list, 1, p - 1)
             back  == SubSeq(list, p + 1, Len(list))
  <2>3. front \in Seq(Keys) /\ Len(front) = p - 1 /\ \A i \in 1..(p - 1) : front[i] = list[i]
    BY <2>1, SubSeqProperties, ElementOfSeq
  <2>4. /\ back \in Seq(Keys) /\ Len(back) = Len(list) - p
        /\ \A i \in 1..(Len(list) - p) : back[i] = list[p + i]
    BY <2>1, SubSeqProperties, ElementOfSeq
  <2> HIDE DEF front, back
  <2>5. /\ w \in Seq(Keys) /\ Len(w) = Len(list) - 1
        /\ \A i \in 1..Len(w) : /\ i < p => w[i] = list[i]
                                /\ i >= p => w[i] = list[i + 1]
    <3>1. /\ w \in Seq(Keys) /\ Len(w) = Len(front) + Len(back)
          /\ \A i \in 1..Len(w) : w[i] = IF i <= Len(front) THEN front[i] ELSE back[i - Len(front)]
      BY <2>3, <2>4, ConcatProperties DEF front, back
    <3> HIDE DEF w
    <3>2. Len(w) = Len(list) - 1 /\ Len(front) = p - 1 /\ p \in 1..Len(list) /\ Len(list) \in Nat
      BY <2>1, <2>3, <2>4, <3>1
    <3>3. ASSUME NEW i \in 1..Len(w), i < p
          PROVE  w[i] = list[i]
      BY <2>3, <3>1, <3>2, <3>3
    <3>4. ASSUME NEW i \in 1..Len(w), i >= p
          PROVE  w[i] = list[i + 1]
      <4>1. w[i] = back[i - (p - 1)]
        BY <3>1, <3>2, <3>4
      <4>2. i - (p - 1) \in 1..(Len(list) - p) /\ p + (i - (p - 1)) = i + 1
        BY <3>2, <3>4
      <4>. QED
        BY <2>4, <4>1, <4>2
    <3>. QED
      BY <3>1, <3>2, <3>3, <3>4
  <2> HIDE DEF w
  <2>. QED
    BY <1>2, <2>1, <2>2, <2>5
<1>. QED
  BY <1>1, <1>2

LEMMA WithoutList ==
    ASSUME NEW list \in Seq(Keys), NoRepeats(list), NEW k \in Keys
    PROVE  /\ Without(list, k) \in Seq(Keys)
           /\ NoRepeats(Without(list, k))
           /\ ToSet(Without(list, k)) = ToSet(list) \ {k}
           /\ Len(Without(list, k)) = IF k \in ToSet(list) THEN Len(list) - 1 ELSE Len(list)
<1> DEFINE w == Without(list, k)
<1>1. PICK p \in 1..(Len(list) + 1) :
         /\ w \in Seq(Keys)
         /\ IF k \in ToSet(list) THEN p <= Len(list) /\ list[p] = k /\ Len(w) = Len(list) - 1
                                 ELSE p = Len(list) + 1 /\ Len(w) = Len(list)
         /\ \A i \in 1..Len(w) : /\ i < p => w[i] = list[i]
                                 /\ i >= p => w[i] = list[i + 1]
  BY WithoutIndex
<1> HIDE DEF w
<1>2. NoRepeats(w)
  <2> DEFINE at(i) == IF i < p THEN i ELSE i + 1
  <2>1. \A i \in 1..Len(w) : at(i) \in 1..Len(list) /\ w[i] = list[at(i)]
    BY <1>1
  <2>2. \A i, j \in 1..Len(w) : at(i) = at(j) => i = j
    BY <1>1
  <2> HIDE DEF at
  <2>. QED
    BY <2>1, <2>2 DEF NoRepeats
<1>3. ToSet(w) \subseteq ToSet(list) \ {k}
  <2>1. ASSUME NEW i \in 1..Len(w)
        PROVE  w[i] \in ToSet(list) /\ w[i] # k
    <3>1. PICK j \in 1..Len(list) : w[i] = list[j] /\ j # p
      <4>1. CASE i < p
        BY <1>1, <4>1
      <4>2. CASE i >= p
        BY <1>1, <4>2
      <4>. QED
        BY <4>1, <4>2
    <3>2. CASE k \in ToSet(list)
      BY <1>1, <3>1, <3>2 DEF ToSet, NoRepeats
    <3>3. CASE k \notin ToSet(list)
      BY <3>1, <3>3 DEF ToSet
    <3>. QED
      BY <3>2, <3>3
  <2>. QED
    BY <1>1, <2>1 DEF ToSet
<1>4. ASSUME NEW j \in 1..Len(list), list[j] # k
      PROVE  list[j] \in ToSet(w)
  <2>1. CASE j < p
    <3>1. j \in 1..Len(w) /\ w[j] = list[j]
      BY <1>1, <2>1
    <3>. QED BY <3>1, <1>1 DEF ToSet
  <2>2. CASE j > p
    <3>1. j - 1 \in 1..Len(w) /\ w[j - 1] = list[j]
      BY <1>1, <2>2
    <3>. QED BY <3>1, <1>1 DEF ToSet
  <2>3. j # p
    BY <1>1, <1>4
  <2>. QED
    BY <2>1, <2>2, <2>3
<1>5. ToSet(list) \ {k} \subseteq ToSet(w)
  BY <1>4 DEF ToSet
<1>. QED
  BY <1>1, <1>2, <1>3, <1>5 DEF w

LEMMA ToFrontList ==
    ASSUME NEW list \in Seq(Keys), NoRepeats(list), NEW k \in Keys
    PROVE  /\ ToFront(list, k) \in Seq(Keys)
           /\ NoRepeats(ToFront(list, k))
           /\ ToSet(ToFront(list, k)) = ToSet(list) \cup {k}
           /\ Len(ToFront(list, k)) = IF k \in ToSet(list) THEN Len(list) ELSE Len(list) + 1
           /\ ToFront(list, k)[1] = k
           /\ \A i \in 2..Len(ToFront(list, k)) : ToFront(list, k)[i] = Without(list, k)[i - 1]
<1> DEFINE w == Without(list, k)
           t == ToFront(list, k)
<1>1. /\ w \in Seq(Keys) /\ NoRepeats(w) /\ ToSet(w) = ToSet(list) \ {k}
      /\ Len(w) = IF k \in ToSet(list) THEN Len(list) - 1 ELSE Len(list)
  BY WithoutList
<1>2. t = <<k>> \o w
  BY DEF ToFront
<1> HIDE DEF w, t
<1>3. /\ t \in Seq(Keys) /\ Len(t) = Len(w) + 1 /\ t[1] = k
      /\ \A i \in 2..Len(t) : t[i] = w[i - 1]
  BY <1>1, <1>2
<1> DEFINE n == Len(w)
<1>4. n \in Nat /\ Len(t) = n + 1
  BY <1>1, <1>3, ListFacts
<1> HIDE DEF n
<1>5. /\ \A x : x \in ToSet(w) <=> \E i \in 1..n : w[i] = x
      /\ \A x : x \in ToSet(t) <=> \E i \in 1..(n + 1) : t[i] = x
  BY <1>1, <1>3, <1>4, ListFacts DEF n
<1>6. \A i \in 1..n : i + 1 \in 2..(n + 1) /\ t[i + 1] = w[i]
  BY <1>3, <1>4
<1>7. \A i \in 1..(n + 1) : i = 1 \/ (i - 1 \in 1..n /\ i \in 2..(n + 1) /\ t[i] = w[i - 1])
  BY <1>3, <1>4
<1>8. ToSet(t) = ToSet(w) \cup {k}
  <2>1. \A x \in ToSet(t) : x \in ToSet(w) \cup {k}
    BY <1>3, <1>5, <1>7
  <2>2. \A x \in ToSet(w) : x \in ToSet(t)
    <3>1. \A i \in 1..n : i + 1 \in 1..(n + 1)
      BY <1>4
    <3>. QED BY <1>5, <1>6, <3>1
  <2>3. k \in ToSet(t)
    <3>1. 1 \in 1..(n + 1)
      BY <1>4
    <3>. QED BY <1>3, <1>5, <3>1
  <2>. QED
    BY <2>1, <2>2, <2>3
<1>9. NoRepeats(t)
  <2>1. \A i \in 1..(n + 1) : i # 1 => t[i] # k
    BY <1>1, <1>5, <1>7
  <2>2. \A i, j \in 1..n : w[i] = w[j] => i = j
    BY <1>1 DEF NoRepeats, n
  <2>3. ASSUME NEW i \in 1..(n + 1), NEW j \in 1..(n + 1), t[i] = t[j], i # j
        PROVE  FALSE
    <3>1. i # 1 /\ j # 1
      BY <1>3, <2>1, <2>3
    <3>2. i - 1 = j - 1
      BY <1>7, <2>2, <2>3, <3>1
    <3>. QED
      BY <1>4, <2>3, <3>2
  <2>. QED
    BY <1>4, <2>3 DEF NoRepeats
<1>10. Len(t) = IF k \in ToSet(list) THEN Len(list) ELSE Len(list) + 1
  BY <1>1, <1>4, ListFacts DEF n
<1>. QED
  BY <1>1, <1>3, <1>8, <1>9, <1>10 DEF w, t

\* The index a key of a list has after k has been taken out.
LEMMA IndexWithout ==
    ASSUME NEW list \in Seq(Keys), NoRepeats(list), NEW k \in Keys
    PROVE  \E at \in [1..Len(Without(list, k)) -> 1..Len(list)] :
              /\ \A i \in 1..Len(Without(list, k)) : Without(list, k)[i] = list[at[i]]
              /\ \A i, j \in 1..Len(Without(list, k)) : i < j <=> at[i] < at[j]
<1> DEFINE w == Without(list, k)
<1>1. PICK p \in 1..(Len(list) + 1) :
         /\ w \in Seq(Keys)
         /\ IF k \in ToSet(list) THEN p <= Len(list) /\ list[p] = k /\ Len(w) = Len(list) - 1
                                 ELSE p = Len(list) + 1 /\ Len(w) = Len(list)
         /\ \A i \in 1..Len(w) : /\ i < p => w[i] = list[i]
                                 /\ i >= p => w[i] = list[i + 1]
  BY WithoutIndex
<1>2. Len(list) \in Nat /\ Len(w) \in Nat
  BY <1>1, ListFacts
<1> HIDE DEF w
<1> DEFINE at == [i \in 1..Len(w) |-> IF i < p THEN i ELSE i + 1]
<1>3. ASSUME NEW i \in 1..Len(w)
      PROVE  at[i] \in 1..Len(list) /\ w[i] = list[at[i]]
  BY <1>1, <1>2
<1>4. \A i, j \in 1..Len(w) : i < j <=> at[i] < at[j]
  BY <1>1, <1>2
<1>5. at \in [1..Len(w) -> 1..Len(list)]
  BY <1>3
<1> HIDE DEF at
<1>. QED
  BY <1>3, <1>4, <1>5 DEF w

LEMMA SameOrderWithout ==
    ASSUME NEW list \in Seq(Keys), NoRepeats(list), NEW other \in Seq(Keys),
           SameOrder(list, other), NEW k \in Keys
    PROVE  SameOrder(Without(list, k), other)
<1> DEFINE w == Without(list, k)
<1>1. PICK at \in [1..Len(w) -> 1..Len(list)] :
              /\ \A i \in 1..Len(w) : w[i] = list[at[i]]
              /\ \A i, j \in 1..Len(w) : i < j <=> at[i] < at[j]
  BY IndexWithout
<1> HIDE DEF w
<1>2. ASSUME NEW i \in 1..Len(w), NEW j \in 1..Len(w), NEW m \in 1..Len(other), NEW n \in 1..Len(other),
             i < j, w[i] = other[m], w[j] = other[n]
      PROVE  m < n
  <2>1. at[i] \in 1..Len(list) /\ at[j] \in 1..Len(list)
    BY <1>1
  <2>2. at[i] < at[j] /\ list[at[i]] = other[m] /\ list[at[j]] = other[n]
    BY <1>1, <1>2
  <2>. QED
    BY <2>1, <2>2 DEF SameOrder
<1>3. SameOrder(w, other)
  BY <1>2 DEF SameOrder
<1>. QED
  BY <1>3 DEF w

LEMMA SameOrderWithoutBoth ==
    ASSUME NEW list \in Seq(Keys), NoRepeats(list), NEW other \in Seq(Keys), NoRepeats(other),
           SameOrder(list, other), NEW k \in Keys
    PROVE  SameOrder(Without(list, k), Without(other, k))
<1> DEFINE w == Without(list, k)
           v == Without(other, k)
<1>1. PICK at \in [1..Len(v) -> 1..Len(other)] :
              /\ \A i \in 1..Len(v) : v[i] = other[at[i]]
              /\ \A i, j \in 1..Len(v) : i < j <=> at[i] < at[j]
  BY IndexWithout
<1>2. SameOrder(w, other)
  BY SameOrderWithout
<1> HIDE DEF w, v
<1>3. ASSUME NEW i \in 1..Len(w), NEW j \in 1..Len(w), NEW m \in 1..Len(v), NEW n \in 1..Len(v),
             i < j, w[i] = v[m], w[j] = v[n]
      PROVE  m < n
  <2>1. at[m] \in 1..Len(other) /\ at[n] \in 1..Len(other)
    BY <1>1
  <2>2. w[i] = other[at[m]] /\ w[j] = other[at[n]]
    BY <1>1, <1>3
  <2>3. at[m] < at[n]
    BY <1>2, <1>3, <2>1, <2>2 DEF SameOrder
  <2>. QED
    BY <1>1, <2>3
<1>4. SameOrder(w, v)
  BY <1>3 DEF SameOrder
<1>. QED
  BY <1>4 DEF w, v

LEMMA SameOrderToFront ==
    ASSUME NEW list \in Seq(Keys), NoRepeats(list), NEW other \in Seq(Keys), NoRepeats(other),
           SameOrder(list, other), NEW k \in Keys
    PROVE  SameOrder(ToFront(list, k), ToFront(other, k))
<1> DEFINE w == Without(list, k)
           v == Without(other, k)
           t == ToFront(list, k)
           u == ToFront(other, k)
           a == Len(w)
           b == Len(v)
<1>1. /\ w \in Seq(Keys) /\ a = IF k \in ToSet(list) THEN Len(list) - 1 ELSE Len(list)
  BY WithoutList
<1>2. /\ v \in Seq(Keys) /\ b = IF k \in ToSet(other) THEN Len(other) - 1 ELSE Len(other)
  BY WithoutList
<1>3. /\ t \in Seq(Keys) /\ NoRepeats(t) /\ t[1] = k
      /\ Len(t) = IF k \in ToSet(list) THEN Len(list) ELSE Len(list) + 1
      /\ \A i \in 2..Len(t) : t[i] = w[i - 1]
  BY ToFrontList
<1>4. /\ u \in Seq(Keys) /\ NoRepeats(u) /\ u[1] = k
      /\ Len(u) = IF k \in ToSet(other) THEN Len(other) ELSE Len(other) + 1
      /\ \A i \in 2..Len(u) : u[i] = v[i - 1]
  BY ToFrontList
<1>5. SameOrder(w, v)
  BY SameOrderWithoutBoth
<1>6. Len(list) \in Nat /\ Len(other) \in Nat
  BY ListFacts
<1> HIDE DEF w, v, t, u
<1>7. /\ w \in Seq(Keys) /\ v \in Seq(Keys) /\ t \in Seq(Keys) /\ u \in Seq(Keys)
      /\ NoRepeats(t) /\ NoRepeats(u) /\ t[1] = k /\ u[1] = k
      /\ \A i \in 2..Len(t) : t[i] = w[i - 1]
      /\ \A i \in 2..Len(u) : u[i] = v[i - 1]
  BY <1>1, <1>2, <1>3, <1>4
<1>8. a \in Nat /\ b \in Nat /\ Len(t) = a + 1 /\ Len(u) = b + 1
  <2>1. Len(t) = a + 1 /\ Len(u) = b + 1
    <3> HIDE DEF a, b
    <3>. QED BY <1>1, <1>2, <1>3, <1>4, <1>6
  <2>. QED
    BY <1>7, <2>1, ListFacts
<1>9. SameOrder(w, v)
  BY <1>5
<1>10. \A i \in 1..(a + 1) : i = 1 \/ (i - 1 \in 1..a /\ t[i] = w[i - 1] /\ t[i] # k)
  BY <1>7, <1>8 DEF NoRepeats
<1>11. \A i \in 1..(b + 1) : i = 1 \/ (i - 1 \in 1..b /\ u[i] = v[i - 1] /\ u[i] # k)
  BY <1>7, <1>8 DEF NoRepeats
<1>12. \A i, j \in 1..a, m, n \in 1..b : i < j /\ w[i] = v[m] /\ w[j] = v[n] => m < n
  BY <1>9 DEF SameOrder
<1> HIDE DEF a, b
<1>13. ASSUME NEW i \in 1..(a + 1), NEW j \in 1..(a + 1), NEW m \in 1..(b + 1), NEW n \in 1..(b + 1),
             i < j, t[i] = u[m], t[j] = u[n]
      PROVE  m < n
  <2>1. j # 1
    BY <1>8, <1>13
  <2>2. n # 1
    BY <1>7, <1>10, <1>13, <2>1
  <2>3. CASE i = 1
    <3>1. m = 1
      BY <1>7, <1>11, <1>13, <2>3
    <3>. QED
      BY <1>8, <2>2, <3>1
  <2>4. CASE i # 1
    <3>1. m # 1
      BY <1>7, <1>10, <1>13, <2>4
    <3>2. i - 1 \in 1..a /\ j - 1 \in 1..a /\ m - 1 \in 1..b /\ n - 1 \in 1..b /\ i - 1 < j - 1
      BY <1>8, <1>10, <1>11, <1>13, <2>1, <2>2, <2>4, <3>1
    <3>3. w[i - 1] = v[m - 1] /\ w[j - 1] = v[n - 1]
      BY <1>10, <1>11, <1>13, <2>1, <2>2, <2>4, <3>1
    <3>4. m - 1 < n - 1
      BY <1>12, <3>2, <3>3
    <3>. QED
      BY <1>8, <3>4
  <2>. QED
    BY <2>3, <2>4
<1>14. SameOrder(t, u)
  BY <1>8, <1>13 DEF SameOrder
<1>. QED
  BY <1>14 DEF t, u

\* The front of a list that is in order.
LEMMA FrontList ==
    ASSUME NEW list \in Seq(Keys), NoRepeats(list), Len(list) > 0
    PROVE  /\ Front(list) \in Seq(Keys)
           /\ Len(Front(list)) = Len(list) - 1
           /\ NoRepeats(Front(list))
           /\ ToSet(Front(list)) = ToSet(list) \ {Last(list)}
           /\ Last(list) \in ToSet(list)
           /\ \A other \in Seq(Keys) : SameOrder(list, other) => SameOrder(Front(list), other)
<1> DEFINE w == Front(list)
           n == Len(list)
<1>1. n \in Nat /\ n - 1 \in Nat /\ n \in 1..n
  BY ListFacts
<1>2. w \in Seq(Keys) /\ Len(w) = n - 1 /\ \A i \in 1..(n - 1) : w[i] = list[i]
  <2>1. \A i \in 1..(n - 1) : list[i] \in Keys
    BY <1>1, ElementOfSeq
  <2>2. /\ SubSeq(list, 1, n - 1) \in Seq(Keys)
        /\ Len(SubSeq(list, 1, n - 1)) = IF 1 <= n - 1 THEN n - 1 - 1 + 1 ELSE 0
        /\ \A i \in 1..(n - 1 - 1 + 1) : SubSeq(list, 1, n - 1)[i] = list[1 + i - 1]
    BY <1>1, <2>1, SubSeqProperties
  <2>3. CASE n = 1
    BY <1>1, <2>2, <2>3 DEF Front
  <2>4. CASE n > 1
    <3>1. n - 1 - 1 + 1 = n - 1 /\ 1 <= n - 1
      BY <1>1, <2>4
    <3>2. \A i \in 1..(n - 1) : 1 + i - 1 = i
      OBVIOUS
    <3>3. w = SubSeq(list, 1, n - 1)
      BY DEF Front
    <3> HIDE DEF n, w
    <3>. QED BY <2>2, <3>1, <3>2, <3>3
  <2> HIDE DEF n, w
  <2>5. n = 1 \/ n > 1
    BY <1>1
  <2>. QED
    BY <2>3, <2>4, <2>5
<1> HIDE DEF w
<1>3. /\ \A x : x \in ToSet(w) <=> \E i \in 1..(n - 1) : w[i] = x
      /\ \A x : x \in ToSet(list) <=> \E i \in 1..n : list[i] = x
  BY <1>2, ListFacts
<1>4. \A i \in 1..n : i = n \/ i \in 1..(n - 1)
  BY <1>1
<1>5. \A i \in 1..(n - 1) : i \in 1..n /\ i # n
  BY <1>1
<1>6. \A i, j \in 1..n : list[i] = list[j] => i = j
  BY DEF NoRepeats
<1>7. Last(list) = list[n]
  BY DEF Last
<1> HIDE DEF n
<1>8. ToSet(w) = ToSet(list) \ {Last(list)} /\ Last(list) \in ToSet(list)
  BY <1>1, <1>2, <1>3, <1>4, <1>5, <1>6, <1>7
<1>9. NoRepeats(w)
  BY <1>2, <1>5, <1>6 DEF NoRepeats
<1>10. \A other \in Seq(Keys) : SameOrder(list, other) => SameOrder(w, other)
  BY <1>2, <1>5 DEF SameOrder, n
<1>. QED
  BY <1>2, <1>8, <1>9, <1>10 DEF w, n

\* The first M keys of a list are k and, of the first M before, the others.
LEMMA FirstOfToFront ==
    ASSUME NEW list \in Seq(Keys), NoRepeats(list), NEW k \in Keys, NEW M \in Nat, NEW S,
           \A i \in 1..Len(list) : i <= M => list[i] \in S
    PROVE  \A i \in 1..Len(ToFront(list, k)) : i <= M => ToFront(list, k)[i] \in (S \ {k}) \cup {k}
<1> DEFINE w == Without(list, k)
           t == ToFront(list, k)
<1>1. PICK p \in 1..(Len(list) + 1) :
         /\ w \in Seq(Keys)
         /\ IF k \in ToSet(list) THEN p <= Len(list) /\ list[p] = k /\ Len(w) = Len(list) - 1
                                 ELSE p = Len(list) + 1 /\ Len(w) = Len(list)
         /\ \A i \in 1..Len(w) : /\ i < p => w[i] = list[i]
                                 /\ i >= p => w[i] = list[i + 1]
  BY WithoutIndex
<1>2. /\ t \in Seq(Keys) /\ t[1] = k
      /\ Len(t) = IF k \in ToSet(list) THEN Len(list) ELSE Len(list) + 1
      /\ \A i \in 2..Len(t) : t[i] = w[i - 1]
  BY ToFrontList
<1>3. Len(list) \in Nat
  BY ListFacts
<1> HIDE DEF w, t
<1>4. ASSUME NEW i \in 1..Len(t), i <= M
      PROVE  t[i] \in S \cup {k}
  <2>1. CASE i = 1
    BY <1>2, <2>1
  <2>2. CASE i # 1
    <3>1. Len(t) = Len(w) + 1 /\ Len(w) \in Nat
      BY <1>1, <1>2, <1>3
    <3>2. i - 1 \in 1..Len(w) /\ i \in 2..Len(t) /\ (i - 1) + 1 = i
      BY <1>2, <2>2, <3>1
    <3>3. CASE i - 1 < p
      <4>1. t[i] = list[i - 1]
        BY <1>1, <1>2, <3>2, <3>3
      <4>2. i - 1 \in 1..Len(list) /\ i - 1 <= M
        BY <1>1, <1>3, <1>4, <3>1, <3>2
      <4>. QED
        BY <4>1, <4>2
    <3>4. CASE i - 1 >= p
      <4>1. t[i] = list[i]
        BY <1>1, <1>2, <3>2, <3>4
      <4>2. i \in 1..Len(list)
        BY <1>1, <1>3, <3>1, <3>2, <3>4
      <4>. QED
        BY <1>4, <4>1, <4>2
    <3>. QED
      BY <1>1, <3>2, <3>3, <3>4
  <2>. QED
    BY <2>1, <2>2
<1>. QED
  BY <1>4 DEF t

\* Where a longer list repeats the order of a list without repetitions, the
\* last key of the list is not before its place there.
LEMMA LastIsNotBefore ==
    ASSUME NEW list \in Seq(Keys), NoRepeats(list), Len(list) > 0,
           NEW other \in Seq(Keys), NoRepeats(other),
           ToSet(list) \subseteq ToSet(other), SameOrder(list, other),
           NEW m \in 1..Len(other), other[m] = Last(list)
    PROVE  m >= Len(list)
<1> DEFINE n == Len(list)
           f == [i \in 1..n |-> CHOOSE j \in 1..Len(other) : other[j] = list[i]]
<1>1. n \in Nat /\ n \in 1..n /\ Len(other) \in Nat
  BY ListFacts
<1>2. ASSUME NEW i \in 1..n
      PROVE  f[i] \in 1..Len(other) /\ other[f[i]] = list[i]
  <2>1. list[i] \in ToSet(list)
    BY ListFacts
  <2>2. \E j \in 1..Len(other) : other[j] = list[i]
    BY <2>1, ListFacts
  <2>. QED
    BY <2>2
<1>3. f \in [1..n -> Nat \ {0}]
  BY <1>1, <1>2
<1> HIDE DEF f
<1>4. \A i, j \in 1..n : i < j => f[i] < f[j]
  BY <1>2 DEF SameOrder
<1>5. f[n] >= n
  <2> HIDE DEF n
  <2>. QED BY <1>1, <1>3, <1>4, GrowsByOne
<1>6. m = f[n]
  BY <1>1, <1>2 DEF NoRepeats, Last
<1>. QED
  BY <1>5, <1>6

-----------------------------------------------------------------------------
(* Bytes.                                                                  *)

EntryMap == [Keys -> Entry \cup {NoEntry}]
Stored(it) == {k \in Keys : it[k] # NoEntry}
LengthsIn(it) == [k \in Stored(it) |-> Size[it[k].tile.rev]]
BytesOf(it) == SumFunction(LengthsIn(it))
MaxSize == Max({Size[rev] : rev \in Revs} \cup {0})

LEMMA EntryFacts ==
    /\ NoEntry \notin Entry
    /\ \A e \in Entry : e.tile \in Tile /\ Size[e.tile.rev] \in Nat
    /\ \A k \in Keys, rev \in Revs : NewEntry(k, rev) \in Entry
BY ConstantsAssumption DEF Entry, NoEntry, NewEntry, Tile

LEMMA StoredFacts ==
    ASSUME NEW it \in EntryMap
    PROVE  /\ BytesOf(it) = SumFunctionOnSet(LengthsIn(it), Stored(it))
           /\ \A k \in Stored(it) : /\ it[k] \in Entry
                                    /\ LengthsIn(it)[k] = Size[it[k].tile.rev]
                                    /\ LengthsIn(it)[k] \in Nat
<1>1. BytesOf(it) = SumFunctionOnSet(LengthsIn(it), Stored(it))
  BY DEF BytesOf, SumFunction, LengthsIn
<1>2. ASSUME NEW k \in Stored(it)
      PROVE  it[k] \in Entry
  BY DEF Stored, EntryMap
<1>. QED
  BY <1>1, <1>2, EntryFacts DEF LengthsIn

LEMMA MaxSizeFacts ==
    MaxSize \in Nat /\ \A rev \in Revs : Size[rev] <= MaxSize
<1> DEFINE S == {Size[rev] : rev \in Revs}
<1>1. IsFiniteSet(S)
  <2>1. [rev \in Revs |-> Size[rev]] \in Surjection(Revs, S)
    BY DEF Surjection
  <2>. QED
    BY <2>1, ConstantsAssumption, FS_Surjection
<1>2. IsFiniteSet(S \cup {0}) /\ S \cup {0} \subseteq Int /\ S \cup {0} # {}
  BY <1>1, ConstantsAssumption, FS_AddElement
<1>3. Max(S \cup {0}) \in S \cup {0} /\ \A x \in S \cup {0} : x <= Max(S \cup {0})
  <2> HIDE DEF S
  <2>. QED BY <1>2, MaxIsGreatest
<1>. QED
  BY <1>3, ConstantsAssumption DEF MaxSize

\* What is stored is no more than that many of the longest tiles.
LEMMA BytesBounded ==
    ASSUME NEW it \in EntryMap, IsFiniteSet(Stored(it))
    PROVE  /\ BytesOf(it) \in Nat
           /\ BytesOf(it) <= Cardinality(Stored(it)) * MaxSize
<1>1. \A k \in Stored(it) : LengthsIn(it)[k] \in 0..MaxSize
  <2>1. \A k \in Stored(it) : it[k].tile.rev \in Revs
    BY StoredFacts DEF Entry, Tile
  <2>. QED
    BY <2>1, StoredFacts, MaxSizeFacts
<1>2. BytesOf(it) \in 0..(Cardinality(Stored(it)) * MaxSize)
  BY <1>1, SumBound, StoredFacts, MaxSizeFacts
<1>. QED
  BY <1>2

LEMMA BytesDropped ==
    ASSUME NEW it \in EntryMap, IsFiniteSet(Stored(it)), NEW k \in Stored(it)
    PROVE  LET it2 == [it EXCEPT ![k] = NoEntry] IN
           /\ it2 \in EntryMap
           /\ Stored(it2) = Stored(it) \ {k}
           /\ IsFiniteSet(Stored(it2)) /\ Cardinality(Stored(it2)) = Cardinality(Stored(it)) - 1
           /\ BytesOf(it2) = BytesOf(it) - Size[it[k].tile.rev]
<1> DEFINE it2 == [it EXCEPT ![k] = NoEntry]
<1>1. it2 \in EntryMap /\ Stored(it2) = Stored(it) \ {k}
  BY DEF EntryMap, Stored
<1>2. \A j \in Stored(it2) : LengthsIn(it2)[j] = LengthsIn(it)[j]
  BY <1>1 DEF LengthsIn, EntryMap
<1> HIDE DEF it2
<1>3. BytesOf(it2) = SumFunctionOnSet(LengthsIn(it), Stored(it) \ {k})
  <2>1. IsFiniteSet(Stored(it2))
    BY <1>1, FS_Subset
  <2>2. SumFunctionOnSet(LengthsIn(it2), Stored(it2)) = SumFunctionOnSet(LengthsIn(it), Stored(it2))
    BY <1>2, <2>1, SumCongruence
  <2>. QED
    BY <1>1, <2>2, StoredFacts, Zenon
<1>4. BytesOf(it) = LengthsIn(it)[k] + SumFunctionOnSet(LengthsIn(it), Stored(it) \ {k})
  BY SumRemove, StoredFacts
<1>5. BytesOf(it) \in Int /\ BytesOf(it2) \in Int
  BY <1>1, BytesBounded, FS_Subset
<1>6. LengthsIn(it)[k] = Size[it[k].tile.rev] /\ Size[it[k].tile.rev] \in Nat
  BY StoredFacts
<1>7. BytesOf(it2) = BytesOf(it) - Size[it[k].tile.rev]
  BY <1>3, <1>4, <1>5, <1>6
<1>8. IsFiniteSet(Stored(it2)) /\ Cardinality(Stored(it2)) = Cardinality(Stored(it)) - 1
  <2>1. IsFiniteSet(Stored(it) \ {k}) /\ Cardinality(Stored(it) \ {k}) = Cardinality(Stored(it)) - 1
    BY FS_RemoveElement
  <2>. QED
    BY <1>1, <2>1, Zenon
<1>. QED
  BY <1>1, <1>7, <1>8 DEF it2

LEMMA BytesAdded ==
    ASSUME NEW it \in EntryMap, IsFiniteSet(Stored(it)), NEW k \in Keys \ Stored(it), NEW rev \in Revs
    PROVE  LET it2 == [it EXCEPT ![k] = NewEntry(k, rev)] IN
           /\ it2 \in EntryMap
           /\ Stored(it2) = Stored(it) \cup {k}
           /\ IsFiniteSet(Stored(it2)) /\ Cardinality(Stored(it2)) = Cardinality(Stored(it)) + 1
           /\ BytesOf(it2) = BytesOf(it) + Size[rev]
<1> DEFINE it2 == [it EXCEPT ![k] = NewEntry(k, rev)]
<1>1. NewEntry(k, rev) \in Entry /\ NewEntry(k, rev) # NoEntry /\ NewEntry(k, rev).tile.rev = rev
  BY EntryFacts DEF NewEntry
<1>2. it2 \in EntryMap /\ Stored(it2) = Stored(it) \cup {k} /\ it2[k] = NewEntry(k, rev)
  BY <1>1 DEF EntryMap, Stored
<1>3. /\ k \in Stored(it2) /\ IsFiniteSet(Stored(it2))
      /\ Cardinality(Stored(it2)) = Cardinality(Stored(it)) + 1
  <2>1. /\ IsFiniteSet(Stored(it) \cup {k})
        /\ Cardinality(Stored(it) \cup {k}) = Cardinality(Stored(it)) + 1
    BY FS_AddElement
  <2>2. k \in Stored(it2)
    BY <1>2
  <2>. QED
    BY <1>2, <2>1, <2>2, Zenon
<1>4. [it2 EXCEPT ![k] = NoEntry] = it
  BY DEF EntryMap, Stored
<1> HIDE DEF it2
<1>5. BytesOf(it) = BytesOf(it2) - Size[it2[k].tile.rev]
  BY <1>2, <1>3, <1>4, BytesDropped
<1>6. BytesOf(it) \in Int /\ BytesOf(it2) \in Int /\ Size[rev] \in Int
  <2>1. BytesOf(it) \in Int
    BY BytesBounded
  <2>2. it2 \in EntryMap /\ IsFiniteSet(Stored(it2))
    BY <1>2, <1>3
  <2>3. BytesOf(it2) \in Nat
    BY <2>2, BytesBounded, Zenon
  <2>. QED
    BY <2>1, <2>3, ConstantsAssumption
<1>7. BytesOf(it2) = BytesOf(it) + Size[rev]
  BY <1>1, <1>2, <1>5, <1>6
<1>. QED
  BY <1>2, <1>3, <1>7 DEF it2

LEMMA BytesReplaced ==
    ASSUME NEW it \in EntryMap, IsFiniteSet(Stored(it)), NEW k \in Stored(it), NEW rev \in Revs
    PROVE  LET it2 == [it EXCEPT ![k] = NewEntry(k, rev)] IN
           /\ it2 \in EntryMap
           /\ Stored(it2) = Stored(it)
           /\ BytesOf(it2) = BytesOf(it) + Size[rev] - Size[it[k].tile.rev]
<1> DEFINE it1 == [it EXCEPT ![k] = NoEntry]
           it2 == [it EXCEPT ![k] = NewEntry(k, rev)]
<1>1. /\ it1 \in EntryMap /\ Stored(it1) = Stored(it) \ {k}
      /\ BytesOf(it1) = BytesOf(it) - Size[it[k].tile.rev]
  BY BytesDropped
<1>2. [it1 EXCEPT ![k] = NewEntry(k, rev)] = it2
  BY DEF EntryMap, Stored
<1> HIDE DEF it1, it2
<1>3. k \in Keys \ Stored(it1) /\ IsFiniteSet(Stored(it1))
  BY <1>1, FS_Subset DEF Stored
<1>4. /\ it2 \in EntryMap /\ Stored(it2) = Stored(it1) \cup {k}
      /\ BytesOf(it2) = BytesOf(it1) + Size[rev]
  <2>1. LET it3 == [it1 EXCEPT ![k] = NewEntry(k, rev)] IN
           /\ it3 \in EntryMap
           /\ Stored(it3) = Stored(it1) \cup {k}
           /\ IsFiniteSet(Stored(it3)) /\ Cardinality(Stored(it3)) = Cardinality(Stored(it1)) + 1
           /\ BytesOf(it3) = BytesOf(it1) + Size[rev]
    <3>1. it1 \in EntryMap /\ IsFiniteSet(Stored(it1)) /\ k \in Keys \ Stored(it1)
      BY <1>1, <1>3
    <3>. QED
      BY <3>1, BytesAdded, Zenon
  <2>. QED
    BY <1>2, <2>1, Zenon
<1>5. BytesOf(it) \in Int /\ Size[rev] \in Int /\ Size[it[k].tile.rev] \in Int
  BY BytesBounded, ConstantsAssumption, StoredFacts
<1>6. BytesOf(it2) = BytesOf(it) + Size[rev] - Size[it[k].tile.rev]
  BY <1>1, <1>4, <1>5
<1>7. Stored(it2) = Stored(it)
  BY <1>1, <1>4
<1>. QED
  BY <1>4, <1>6, <1>7 DEF it2

LEMMA BytesAged ==
    ASSUME NEW it \in EntryMap, IsFiniteSet(Stored(it)), NEW it2 \in EntryMap,
           Stored(it2) = Stored(it), \A k \in Stored(it) : it2[k].tile = it[k].tile
    PROVE  BytesOf(it2) = BytesOf(it)
<1>1. \A k \in Stored(it) : LengthsIn(it2)[k] = LengthsIn(it)[k]
  BY DEF LengthsIn
<1>2. SumFunctionOnSet(LengthsIn(it2), Stored(it)) = SumFunctionOnSet(LengthsIn(it), Stored(it))
  BY <1>1, SumCongruence
<1>. QED
  BY <1>2, StoredFacts, Zenon

LEMMA BytesOfNothing ==
    LET it == [k \in Keys |-> NoEntry] IN
    it \in EntryMap /\ Stored(it) = {} /\ BytesOf(it) = 0
<1> DEFINE it == [k \in Keys |-> NoEntry]
<1>1. it \in EntryMap /\ Stored(it) = {}
  BY DEF EntryMap, Stored
<1> HIDE DEF it
<1>2. BytesOf(it) = SumFunctionOnSet(LengthsIn(it), {})
  BY <1>1, StoredFacts
<1>. QED
  BY <1>1, <1>2, SumEmpty DEF it

-----------------------------------------------------------------------------
(* The invariant is inductive.                                             *)

\* What the parts of the invariant say in the terms of the lemmas above.
LEMMA IInvFacts ==
    ASSUME IInv
    PROVE  /\ items \in EntryMap /\ Present = Stored(items)
           /\ IsFiniteSet(Stored(items)) /\ Cardinality(Stored(items)) = Len(ll)
           /\ ll \in Seq(Keys) /\ NoRepeats(ll) /\ ToSet(ll) = Stored(items)
           /\ recent \in Seq(Keys) /\ NoRepeats(recent)
           /\ Len(ll) \in Nat /\ Len(recent) \in Nat
           /\ bytes = BytesOf(items) /\ BytesOf(items) \in Nat
           /\ ToSet(ll) \subseteq ToSet(recent) /\ SameOrder(ll, recent)
<1>1. items \in EntryMap /\ Present = Stored(items)
  BY DEF IInv, TypeOK, EntryMap, Present, Stored
<1>2. bytes = BytesOf(items)
  BY DEF IInv, StoredBytes, BytesOf, LengthsIn, Present, Stored
<1>3. IsFiniteSet(Stored(items))
  BY <1>1 DEF IInv, ListInv
<1>4. BytesOf(items) \in Nat
  BY <1>1, <1>3, BytesBounded
<1>5. ll \in Seq(Keys) /\ recent \in Seq(Keys)
  BY DEF IInv, TypeOK
<1>6. Len(ll) \in Nat /\ Len(recent) \in Nat
  BY <1>5, ListFacts
<1>. QED
  BY <1>1, <1>2, <1>3, <1>4, <1>5, <1>6 DEF IInv, ListInv, OrderInv

\* From the terms of the lemmas back to the parts that speak of items and ll,
\* for the state after a step.
LEMMA IInvAfter ==
    ASSUME items' \in EntryMap, IsFiniteSet(Stored(items')), Cardinality(Stored(items')) = Len(ll'),
           ll' \in Seq(Keys), NoRepeats(ll'), ToSet(ll') = Stored(items'),
           IF evicting' THEN Len(ll') = MaxEntries + 1 ELSE Len(ll') <= MaxEntries,
           recent' \in Seq(Keys), NoRepeats(recent'),
           ToSet(ll') \subseteq ToSet(recent'), SameOrder(ll', recent'),
           bytes' = BytesOf(items')
    PROVE  /\ Present' = Stored(items')
           /\ (items \in [Keys -> Entry \cup {NoEntry}])'
           /\ ListInv' /\ OrderInv' /\ (bytes = StoredBytes)' /\ (bytes \in Nat)'
<1>1. Present' = Stored(items') /\ (items \in [Keys -> Entry \cup {NoEntry}])'
  BY DEF EntryMap, Present, Stored
<1>2. (bytes = StoredBytes)'
  BY DEF StoredBytes, BytesOf, LengthsIn, Present, Stored
<1>3. (bytes \in Nat)'
  BY BytesBounded
<1>4. ListInv'
  BY <1>1 DEF ListInv
<1>5. OrderInv'
  BY DEF OrderInv
<1>. QED
  BY <1>1, <1>2, <1>3, <1>4, <1>5

LEMMA EmptyList ==
    /\ Len(<<>>) = 0 /\ ToSet(<<>>) = {} /\ <<>> \in Seq(Keys) /\ NoRepeats(<<>>)
    /\ SameOrder(<<>>, <<>>)
BY DEF ToSet, NoRepeats, SameOrder

LEMMA IInvInit ==
    ASSUME Init
    PROVE  IInv
<1>1. items = [k \in Keys |-> NoEntry] /\ ll = <<>> /\ recent = <<>> /\ ~evicting /\ bytes = 0
  BY DEF Init
<1>2. items \in EntryMap /\ Stored(items) = {} /\ BytesOf(items) = 0
  BY <1>1, BytesOfNothing
<1>3. Present = {} /\ bytes = StoredBytes
  BY <1>1, <1>2 DEF StoredBytes, BytesOf, LengthsIn, Present, Stored
<1>4. IsFiniteSet(Present) /\ Cardinality(Present) = 0
  BY <1>3, FS_EmptySet
<1>5. ListInv
  BY <1>1, <1>3, <1>4, EmptyList, ConstantsAssumption DEF ListInv
<1>6. OrderInv
  BY <1>1, EmptyList DEF OrderInv
<1>7. TypeOK
  BY <1>2, EmptyList DEF Init, TypeOK, EntryMap
<1>8. KeepsRecent
  BY <1>1, EmptyList DEF KeepsRecent
<1>9. ReportBounded
  <2>1. (MaxEntries + 1) * MaxSize \in Nat
    BY MaxSizeFacts, ConstantsAssumption
  <2>. QED
    BY <2>1, ConstantsAssumption DEF Init, ReportBounded, MaxSize
<1>. QED
  BY <1>3, <1>5, <1>6, <1>7, <1>8, <1>9 DEF IInv

LEMMA StepGetMiss ==
    ASSUME IInv, NEW k \in Keys, GetMiss(k)
    PROVE  IInv'
<1> USE DEF GetMiss, history
<1>1. TypeOK'
  BY DEF IInv, TypeOK
<1>2. ListInv' /\ OrderInv' /\ (bytes = StoredBytes)'
  BY DEF IInv, ListInv, OrderInv, StoredBytes, Present
<1>3. KeepsRecent' /\ ReportBounded'
  BY DEF IInv, KeepsRecent, ReportBounded, Present
<1>. QED
  BY <1>1, <1>2, <1>3 DEF IInv

LEMMA StepGetExpired ==
    ASSUME IInv, NEW k \in Keys, GetExpired(k)
    PROVE  IInv'
<1>1. /\ ll' = Without(ll, k) /\ items' = [items EXCEPT ![k] = NoEntry]
      /\ bytes' = bytes - Size[items[k].tile.rev] /\ misses' = misses + 1
      /\ answer' = [key |-> k, tile |-> NoTile] /\ lapsed' = lapsed \cup {k}
      /\ UNCHANGED <<evicting, hits, evictions, bytesNext, report, recent>>
      /\ ~evicting /\ k \in Stored(items)
  BY IInvFacts DEF GetExpired, Counted
<1>2. /\ items' \in EntryMap /\ Stored(items') = Stored(items) \ {k}
      /\ IsFiniteSet(Stored(items')) /\ Cardinality(Stored(items')) = Cardinality(Stored(items)) - 1
      /\ BytesOf(items') = BytesOf(items) - Size[items[k].tile.rev]
  BY <1>1, IInvFacts, BytesDropped
<1>3. /\ ll' \in Seq(Keys) /\ NoRepeats(ll') /\ ToSet(ll') = ToSet(ll) \ {k}
      /\ Len(ll') = IF k \in ToSet(ll) THEN Len(ll) - 1 ELSE Len(ll)
  <2>1. ll \in Seq(Keys) /\ NoRepeats(ll)
    BY IInvFacts
  <2>. QED
    BY <1>1, <2>1, WithoutList
<1>4. ToSet(ll') = Stored(items') /\ Len(ll') = Len(ll) - 1 /\ ToSet(ll') \subseteq ToSet(recent)
  BY <1>1, <1>2, <1>3, IInvFacts
<1>5. SameOrder(ll', recent)
  BY <1>1, IInvFacts, SameOrderWithout
<1>6. IF evicting' THEN Len(ll') = MaxEntries + 1 ELSE Len(ll') <= MaxEntries
  <2>1. ~evicting /\ ~evicting' /\ Len(ll) <= MaxEntries
    BY <1>1 DEF IInv, ListInv
  <2>. QED
    BY <1>4, <2>1, IInvFacts, ConstantsAssumption
<1>7. bytes' = BytesOf(items') /\ Cardinality(Stored(items')) = Len(ll')
  BY <1>1, <1>2, <1>4, IInvFacts
<1>8. recent' = recent /\ recent \in Seq(Keys) /\ NoRepeats(recent)
  BY <1>1, IInvFacts
<1>9. /\ Present' = Stored(items') /\ (items \in [Keys -> Entry \cup {NoEntry}])'
      /\ ListInv' /\ OrderInv' /\ (bytes = StoredBytes)' /\ (bytes \in Nat)'
  BY <1>2, <1>3, <1>4, <1>5, <1>6, <1>7, <1>8, IInvAfter
<1>10. TypeOK'
  BY <1>1, <1>3, <1>9 DEF IInv, TypeOK
<1>11. KeepsRecent'
  BY <1>1, <1>2, <1>9, IInvFacts DEF IInv, KeepsRecent
<1>12. ReportBounded'
  BY <1>1 DEF IInv, ReportBounded
<1>. QED
  BY <1>9, <1>10, <1>11, <1>12 DEF IInv

\* A key that is used goes to the front of the list and of the history.
LEMMA UseKeepsOrder ==
    ASSUME IInv, NEW k \in Keys, ll' = ToFront(ll, k), Used(k),
           Present' = Present \cup {k}
    PROVE  /\ ll' \in Seq(Keys) /\ NoRepeats(ll') /\ ToSet(ll') = Stored(items) \cup {k}
           /\ Len(ll') = IF k \in Stored(items) THEN Len(ll) ELSE Len(ll) + 1
           /\ recent' \in Seq(Keys) /\ NoRepeats(recent')
           /\ ToSet(ll') \subseteq ToSet(recent') /\ SameOrder(ll', recent')
           /\ lapsed' \in SUBSET Keys
           /\ KeepsRecent'
<1>1. /\ ll' \in Seq(Keys) /\ NoRepeats(ll') /\ ToSet(ll') = ToSet(ll) \cup {k}
      /\ Len(ll') = IF k \in ToSet(ll) THEN Len(ll) ELSE Len(ll) + 1
  <2>1. ll \in Seq(Keys) /\ NoRepeats(ll)
    BY IInvFacts
  <2>. QED
    BY <2>1, ToFrontList
<1>2. recent' \in Seq(Keys) /\ NoRepeats(recent') /\ ToSet(recent') = ToSet(recent) \cup {k}
  BY IInvFacts, ToFrontList DEF Used
<1>3. /\ ToSet(ll') = Stored(items) \cup {k} /\ ToSet(ll') \subseteq ToSet(recent')
      /\ Len(ll') = IF k \in Stored(items) THEN Len(ll) ELSE Len(ll) + 1
  BY <1>1, <1>2, IInvFacts
<1>4. SameOrder(ll', recent')
  BY IInvFacts, SameOrderToFront DEF Used
<1>5. lapsed' \in SUBSET Keys
  BY DEF Used, IInv, TypeOK
<1>6. KeepsRecent'
  <2> DEFINE S == Present \cup lapsed
  <2>1. \A i \in 1..Len(recent) : i <= MaxEntries => recent[i] \in S
    BY DEF IInv, KeepsRecent
  <2>2. (S \ {k}) \cup {k} \subseteq Present' \cup lapsed'
    BY DEF Used
  <2> HIDE DEF S
  <2>3. \A i \in 1..Len(ToFront(recent, k)) : i <= MaxEntries => ToFront(recent, k)[i] \in (S \ {k}) \cup {k}
    BY <2>1, IInvFacts, FirstOfToFront, ConstantsAssumption
  <2>4. recent' = ToFront(recent, k)
    BY DEF Used
  <2>5. \A i \in 1..Len(recent') : i <= MaxEntries => recent'[i] \in Present' \cup lapsed'
    BY <2>2, <2>3, <2>4
  <2>. QED
    BY <2>5 DEF KeepsRecent
<1>. QED
  BY <1>1, <1>2, <1>3, <1>4, <1>5, <1>6

LEMMA StepGetHit ==
    ASSUME IInv, NEW k \in Keys, GetHit(k)
    PROVE  IInv'
<1>1. /\ ll' = ToFront(ll, k) /\ Used(k) /\ k \in Stored(items)
      /\ hits' = hits + 1 /\ answer' = [key |-> k, tile |-> items[k].tile]
      /\ UNCHANGED <<items, evicting, bytes, misses, evictions, bytesNext, report>>
  BY IInvFacts DEF GetHit
<1>2. Present' = Present \cup {k}
  BY <1>1, IInvFacts DEF Present
<1>3. /\ ll' \in Seq(Keys) /\ NoRepeats(ll') /\ ToSet(ll') = Stored(items) \cup {k}
      /\ Len(ll') = IF k \in Stored(items) THEN Len(ll) ELSE Len(ll) + 1
      /\ recent' \in Seq(Keys) /\ NoRepeats(recent')
      /\ ToSet(ll') \subseteq ToSet(recent') /\ SameOrder(ll', recent')
      /\ lapsed' \in SUBSET Keys
      /\ KeepsRecent'
  BY <1>1, <1>2, UseKeepsOrder
<1>4. ToSet(ll') = Stored(items) /\ Len(ll') = Len(ll)
  BY <1>1, <1>3
<1>5. IF evicting' THEN Len(ll') = MaxEntries + 1 ELSE Len(ll') <= MaxEntries
  BY <1>1, <1>4 DEF IInv, ListInv
<1>6. /\ items' \in EntryMap /\ Stored(items') = Stored(items)
      /\ IsFiniteSet(Stored(items')) /\ Cardinality(Stored(items')) = Len(ll')
      /\ bytes' = BytesOf(items')
  BY <1>1, <1>4, IInvFacts
<1>7. /\ (items \in [Keys -> Entry \cup {NoEntry}])'
      /\ ListInv' /\ OrderInv' /\ (bytes = StoredBytes)' /\ (bytes \in Nat)'
  <2>1. ToSet(ll') = Stored(items')
    BY <1>4, <1>6
  <2>. QED
    BY <1>3, <1>5, <1>6, <2>1, IInvAfter
<1>8. items[k].tile \in Tile
  BY <1>1, IInvFacts, StoredFacts, EntryFacts
<1>9. TypeOK'
  BY <1>1, <1>3, <1>7, <1>8 DEF IInv, TypeOK
<1>10. ReportBounded'
  BY <1>1 DEF IInv, ReportBounded
<1>. QED
  BY <1>3, <1>7, <1>9, <1>10 DEF IInv

LEMMA StepSetPresent ==
    ASSUME IInv, NEW k \in Keys, NEW rev \in Revs, SetPresent(k, rev)
    PROVE  IInv'
<1>1. /\ items' = [items EXCEPT ![k] = NewEntry(k, rev)] /\ k \in Stored(items)
      /\ ll' = ToFront(ll, k) /\ Used(k)
      /\ bytes' = bytes + Size[rev] - Size[items[k].tile.rev]
      /\ UNCHANGED <<evicting, hits, misses, evictions, answer, bytesNext, report>>
  BY IInvFacts DEF SetPresent
<1>2. /\ items' \in EntryMap /\ Stored(items') = Stored(items)
      /\ BytesOf(items') = BytesOf(items) + Size[rev] - Size[items[k].tile.rev]
  <2>1. items \in EntryMap /\ IsFiniteSet(Stored(items))
    BY IInvFacts
  <2>2. LET it2 == [items EXCEPT ![k] = NewEntry(k, rev)] IN
           /\ it2 \in EntryMap
           /\ Stored(it2) = Stored(items)
           /\ BytesOf(it2) = BytesOf(items) + Size[rev] - Size[items[k].tile.rev]
    BY <1>1, <2>1, BytesReplaced, Zenon
  <2>. QED
    BY <1>1, <2>2, Zenon
<1>3. Present' = Present \cup {k}
  <2>1. Present' = Stored(items')
    BY DEF Present, Stored
  <2>. QED
    BY <1>1, <1>2, <2>1, IInvFacts
<1>4. /\ ll' \in Seq(Keys) /\ NoRepeats(ll') /\ ToSet(ll') = Stored(items) \cup {k}
      /\ Len(ll') = IF k \in Stored(items) THEN Len(ll) ELSE Len(ll) + 1
      /\ recent' \in Seq(Keys) /\ NoRepeats(recent')
      /\ ToSet(ll') \subseteq ToSet(recent') /\ SameOrder(ll', recent')
      /\ lapsed' \in SUBSET Keys
      /\ KeepsRecent'
  BY <1>1, <1>3, UseKeepsOrder
<1>5. ToSet(ll') = Stored(items') /\ Len(ll') = Len(ll)
  BY <1>1, <1>2, <1>4
<1>6. IF evicting' THEN Len(ll') = MaxEntries + 1 ELSE Len(ll') <= MaxEntries
  BY <1>1, <1>5 DEF IInv, ListInv
<1>7. /\ IsFiniteSet(Stored(items')) /\ Cardinality(Stored(items')) = Len(ll')
      /\ bytes' = BytesOf(items')
  BY <1>1, <1>2, <1>5, IInvFacts
<1>8. /\ (items \in [Keys -> Entry \cup {NoEntry}])'
      /\ ListInv' /\ OrderInv' /\ (bytes = StoredBytes)' /\ (bytes \in Nat)'
  BY <1>2, <1>4, <1>5, <1>6, <1>7, IInvAfter
<1>9. TypeOK'
  BY <1>1, <1>4, <1>8 DEF IInv, TypeOK
<1>10. ReportBounded'
  BY <1>1 DEF IInv, ReportBounded
<1>. QED
  BY <1>4, <1>8, <1>9, <1>10 DEF IInv

LEMMA StepSetNew ==
    ASSUME IInv, NEW k \in Keys, NEW rev \in Revs, SetNew(k, rev)
    PROVE  IInv'
<1>1. /\ items' = [items EXCEPT ![k] = NewEntry(k, rev)] /\ k \in Keys \ Stored(items)
      /\ ll' = ToFront(ll, k) /\ Used(k)
      /\ bytes' = bytes + Size[rev] /\ evicting' = (Len(ll') > MaxEntries) /\ ~evicting
      /\ UNCHANGED <<hits, misses, evictions, answer, bytesNext, report>>
  BY IInvFacts DEF SetNew
<1>2. /\ items' \in EntryMap /\ Stored(items') = Stored(items) \cup {k}
      /\ IsFiniteSet(Stored(items')) /\ Cardinality(Stored(items')) = Cardinality(Stored(items)) + 1
      /\ BytesOf(items') = BytesOf(items) + Size[rev]
  <2>1. items \in EntryMap /\ IsFiniteSet(Stored(items))
    BY IInvFacts
  <2>2. LET it2 == [items EXCEPT ![k] = NewEntry(k, rev)] IN
           /\ it2 \in EntryMap
           /\ Stored(it2) = Stored(items) \cup {k}
           /\ IsFiniteSet(Stored(it2)) /\ Cardinality(Stored(it2)) = Cardinality(Stored(items)) + 1
           /\ BytesOf(it2) = BytesOf(items) + Size[rev]
    BY <1>1, <2>1, BytesAdded, Zenon
  <2>. QED
    BY <1>1, <2>2, Zenon
<1>3. Present' = Present \cup {k}
  <2>1. Present' = Stored(items')
    BY DEF Present, Stored
  <2>. QED
    BY <1>2, <2>1, IInvFacts
<1>4. /\ ll' \in Seq(Keys) /\ NoRepeats(ll') /\ ToSet(ll') = Stored(items) \cup {k}
      /\ Len(ll') = IF k \in Stored(items) THEN Len(ll) ELSE Len(ll) + 1
      /\ recent' \in Seq(Keys) /\ NoRepeats(recent')
      /\ ToSet(ll') \subseteq ToSet(recent') /\ SameOrder(ll', recent')
      /\ lapsed' \in SUBSET Keys
      /\ KeepsRecent'
  BY <1>1, <1>3, UseKeepsOrder
<1>5. ToSet(ll') = Stored(items') /\ Len(ll') = Len(ll) + 1
  BY <1>1, <1>2, <1>4
<1>6. IF evicting' THEN Len(ll') = MaxEntries + 1 ELSE Len(ll') <= MaxEntries
  <2>1. Len(ll) <= MaxEntries /\ Len(ll) \in Nat
    BY <1>1, IInvFacts DEF IInv, ListInv
  <2>2. Len(ll') > MaxEntries => Len(ll') = MaxEntries + 1
    BY <1>5, <2>1, ConstantsAssumption
  <2>3. Len(ll') > MaxEntries \/ Len(ll') <= MaxEntries
    BY <1>5, <2>1, ConstantsAssumption
  <2>. QED
    BY <1>1, <2>2, <2>3
<1>7. Cardinality(Stored(items')) = Len(ll') /\ bytes' = BytesOf(items')
  BY <1>1, <1>2, <1>5, IInvFacts
<1>8. /\ (items \in [Keys -> Entry \cup {NoEntry}])'
      /\ ListInv' /\ OrderInv' /\ (bytes = StoredBytes)' /\ (bytes \in Nat)'
  BY <1>2, <1>4, <1>5, <1>6, <1>7, IInvAfter
<1>9. evicting' \in BOOLEAN
  BY <1>1
<1>10. TypeOK'
  BY <1>1, <1>4, <1>8, <1>9 DEF IInv, TypeOK
<1>11. ReportBounded'
  BY <1>1 DEF IInv, ReportBounded
<1>. QED
  BY <1>4, <1>8, <1>10, <1>11 DEF IInv

\* What Evict takes out is behind the MaxEntries keys used last.
LEMMA StepEvict ==
    ASSUME IInv, Evict
    PROVE  IInv'
<1> DEFINE last == Last(ll)
<1>1. Len(ll) = MaxEntries + 1 /\ Len(ll) > 0 /\ evicting
  BY ConstantsAssumption DEF Evict, IInv, ListInv
<1>2. /\ ll' = Front(ll) /\ items' = [items EXCEPT ![last] = NoEntry]
      /\ bytes' = bytes - Size[items[last].tile.rev]
      /\ evicting' = (Len(ll') > MaxEntries) /\ evictions' = evictions + 1
      /\ UNCHANGED <<hits, misses, answer, bytesNext, report, recent, lapsed>>
  BY DEF Evict, history
<1>3. /\ ll' \in Seq(Keys) /\ Len(ll') = Len(ll) - 1 /\ NoRepeats(ll')
      /\ ToSet(ll') = ToSet(ll) \ {last} /\ last \in ToSet(ll)
      /\ SameOrder(ll', recent)
  BY <1>1, <1>2, IInvFacts, FrontList
<1>4. last \in Stored(items)
  BY <1>3, IInvFacts
<1> HIDE DEF last
<1>5. /\ items' \in EntryMap /\ Stored(items') = Stored(items) \ {last}
      /\ IsFiniteSet(Stored(items')) /\ Cardinality(Stored(items')) = Cardinality(Stored(items)) - 1
      /\ BytesOf(items') = BytesOf(items) - Size[items[last].tile.rev]
  BY <1>2, <1>4, IInvFacts, BytesDropped
<1>6. Len(ll') = MaxEntries
  BY <1>1, <1>3, ConstantsAssumption
<1>7. ~evicting' /\ evicting' \in BOOLEAN
  <2>1. ~(Len(ll') > MaxEntries)
    BY <1>6, ConstantsAssumption
  <2>2. evicting' \in BOOLEAN
    BY <1>2
  <2>3. evicting' => Len(ll') > MaxEntries
    BY <1>2
  <2>. QED
    BY <2>1, <2>2, <2>3
<1>8. bytes' = BytesOf(items') /\ Cardinality(Stored(items')) = Len(ll')
  BY <1>2, <1>3, <1>5, IInvFacts
<1>9. ToSet(ll') = Stored(items') /\ ToSet(ll') \subseteq ToSet(recent)
  BY <1>3, <1>5, IInvFacts
<1>10. recent' = recent /\ recent \in Seq(Keys) /\ NoRepeats(recent)
  BY <1>2, IInvFacts
<1>11. IF evicting' THEN Len(ll') = MaxEntries + 1 ELSE Len(ll') <= MaxEntries
  BY <1>6, <1>7, ConstantsAssumption
<1>12. /\ Present' = Stored(items') /\ (items \in [Keys -> Entry \cup {NoEntry}])'
       /\ ListInv' /\ OrderInv' /\ (bytes = StoredBytes)' /\ (bytes \in Nat)'
  BY <1>3, <1>5, <1>8, <1>9, <1>10, <1>11, IInvAfter
<1>13. TypeOK'
  BY <1>2, <1>3, <1>7, <1>12 DEF IInv, TypeOK
<1>14. KeepsRecent'
  <2>1. ASSUME NEW i \in 1..Len(recent), i <= MaxEntries
        PROVE  recent[i] \in Present' \cup lapsed
    <3>1. recent[i] \in Present \cup lapsed
      BY <2>1 DEF IInv, KeepsRecent
    <3>2. recent[i] # last
      <4>1. recent[i] = Last(ll) => i >= Len(ll)
        BY <1>1, IInvFacts, LastIsNotBefore
      <4>. QED
        BY <1>1, <2>1, <4>1, ConstantsAssumption DEF last
    <3>. QED
      BY <1>5, <1>12, <3>1, <3>2, IInvFacts
  <2>. QED
    BY <1>2, <2>1 DEF KeepsRecent
<1>15. ReportBounded'
  BY <1>2 DEF IInv, ReportBounded
<1>. QED
  BY <1>12, <1>13, <1>14, <1>15 DEF IInv

LEMMA StepPurge ==
    ASSUME IInv, Purge
    PROVE  IInv'
<1>1. /\ items' = [k \in Keys |-> NoEntry] /\ ll' = <<>> /\ recent' = <<>> /\ lapsed' = {}
      /\ bytes' = 0 /\ ~evicting
      /\ UNCHANGED <<evicting, hits, misses, evictions, answer, bytesNext, report>>
  BY DEF Purge
<1>2. items' \in EntryMap /\ Stored(items') = {} /\ BytesOf(items') = 0
  BY <1>1, BytesOfNothing
<1>3. IsFiniteSet(Stored(items')) /\ Cardinality(Stored(items')) = 0
  BY <1>2, FS_EmptySet
<1>4. /\ Len(ll') = 0 /\ ToSet(ll') = {} /\ ll' \in Seq(Keys) /\ NoRepeats(ll')
      /\ recent' \in Seq(Keys) /\ NoRepeats(recent') /\ SameOrder(ll', recent')
      /\ Len(recent') = 0
  BY <1>1, EmptyList
<1>5. IF evicting' THEN Len(ll') = MaxEntries + 1 ELSE Len(ll') <= MaxEntries
  BY <1>1, <1>4, ConstantsAssumption
<1>6. /\ (items \in [Keys -> Entry \cup {NoEntry}])'
      /\ ListInv' /\ OrderInv' /\ (bytes = StoredBytes)' /\ (bytes \in Nat)'
  <2>1. /\ ToSet(ll') = Stored(items') /\ ToSet(ll') \subseteq ToSet(recent')
        /\ Cardinality(Stored(items')) = Len(ll') /\ bytes' = BytesOf(items')
    BY <1>1, <1>2, <1>3, <1>4
  <2>. QED
    BY <1>2, <1>3, <1>4, <1>5, <2>1, IInvAfter
<1>7. TypeOK'
  BY <1>1, <1>4, <1>6 DEF IInv, TypeOK
<1>8. KeepsRecent'
  BY <1>4 DEF KeepsRecent
<1>9. ReportBounded'
  BY <1>1 DEF IInv, ReportBounded
<1>. QED
  BY <1>6, <1>7, <1>8, <1>9 DEF IInv

LEMMA AgedEntry ==
    ASSUME NEW e \in Entry, e.age <= TTL
    PROVE  /\ [e EXCEPT !.age = @ + 1] \in Entry
           /\ [e EXCEPT !.age = @ + 1].tile = e.tile
BY ConstantsAssumption DEF Entry

LEMMA TickKeepsTiles ==
    ASSUME items \in EntryMap, Tick
    PROVE  /\ items' \in EntryMap /\ Stored(items') = Stored(items)
           /\ \A k \in Keys : items'[k].tile = items[k].tile
<1>1. Present = Stored(items)
  BY DEF Present, Stored
<1>2. ASSUME NEW k \in Keys
      PROVE  /\ items'[k] \in Entry \cup {NoEntry}
             /\ items'[k] = NoEntry <=> items[k] = NoEntry
             /\ items'[k].tile = items[k].tile
  <2>1. CASE k \in Stored(items) /\ items[k].age <= TTL
    <3>1. items[k] \in Entry /\ items'[k] = [items[k] EXCEPT !.age = @ + 1]
      BY <1>1, <2>1 DEF Tick, Stored, EntryMap
    <3>2. items'[k] \in Entry /\ items'[k].tile = items[k].tile
      BY <2>1, <3>1, AgedEntry
    <3>. QED
      BY <3>1, <3>2, EntryFacts
  <2>2. CASE ~(k \in Stored(items) /\ items[k].age <= TTL)
    <3>1. items'[k] = items[k]
      BY <1>1, <2>2 DEF Tick
    <3>. QED
      BY <3>1 DEF EntryMap
  <2>. QED
    BY <2>1, <2>2
<1>3. items' \in EntryMap
  <2>1. items' = [k \in Keys |-> items'[k]]
    BY DEF Tick
  <2>. QED
    BY <1>2, <2>1 DEF EntryMap
<1>. QED
  BY <1>2, <1>3 DEF Stored

LEMMA StepTick ==
    ASSUME IInv, Tick
    PROVE  IInv'
<1>1. UNCHANGED <<ll, evicting, bytes, hits, misses, evictions, answer, bytesNext, report, recent, lapsed>>
  BY DEF Tick, counters, history
<1>2. /\ items' \in EntryMap /\ Stored(items') = Stored(items)
      /\ \A k \in Keys : items'[k].tile = items[k].tile
  BY IInvFacts, TickKeepsTiles
<1>3. BytesOf(items') = BytesOf(items)
  BY <1>2, IInvFacts, BytesAged DEF Stored
<1>4. IF evicting' THEN Len(ll') = MaxEntries + 1 ELSE Len(ll') <= MaxEntries
  BY <1>1 DEF IInv, ListInv
<1>5. /\ Present' = Stored(items') /\ (items \in [Keys -> Entry \cup {NoEntry}])'
      /\ ListInv' /\ OrderInv' /\ (bytes = StoredBytes)' /\ (bytes \in Nat)'
  <2>1. /\ ll' \in Seq(Keys) /\ NoRepeats(ll') /\ recent' \in Seq(Keys) /\ NoRepeats(recent')
        /\ ToSet(ll') \subseteq ToSet(recent') /\ SameOrder(ll', recent')
    BY <1>1, IInvFacts
  <2>2. /\ IsFiniteSet(Stored(items')) /\ Cardinality(Stored(items')) = Len(ll')
        /\ ToSet(ll') = Stored(items') /\ bytes' = BytesOf(items')
    BY <1>1, <1>2, <1>3, IInvFacts
  <2>. QED
    BY <1>2, <1>4, <2>1, <2>2, IInvAfter
<1>6. TypeOK'
  BY <1>1, <1>5 DEF IInv, TypeOK
<1>7. KeepsRecent'
  BY <1>1, <1>2, <1>5, IInvFacts DEF IInv, KeepsRecent
<1>8. ReportBounded'
  BY <1>1 DEF IInv, ReportBounded
<1>. QED
  BY <1>5, <1>6, <1>7, <1>8 DEF IInv

LEMMA StepStats ==
    ASSUME IInv, StatsEntries \/ StatsBytes
    PROVE  IInv'
<1>1. UNCHANGED <<items, ll, evicting, bytes, hits, misses, evictions, answer, recent, lapsed>>
  BY DEF StatsEntries, StatsBytes, counters, history
<1>2. ListInv' /\ OrderInv' /\ (bytes = StoredBytes)'
  BY <1>1 DEF IInv, ListInv, OrderInv, StoredBytes, Present
<1>3. KeepsRecent'
  BY <1>1 DEF IInv, KeepsRecent, Present
<1>4. CASE StatsEntries
  <2>1. report' = [entries |-> Len(ll), bytes |-> 0] /\ bytesNext' = TRUE /\ Len(ll) <= MaxEntries
    BY <1>4 DEF StatsEntries, IInv, ListInv
  <2>2. TypeOK'
    BY <1>1, <2>1, IInvFacts DEF IInv, TypeOK
  <2>3. 0 <= (MaxEntries + 1) * MaxSize
    BY MaxSizeFacts, ConstantsAssumption
  <2>4. ReportBounded'
    BY <2>1, <2>3 DEF ReportBounded, MaxSize
  <2>. QED
    BY <1>2, <1>3, <2>2, <2>4 DEF IInv
<1>5. CASE StatsBytes
  <2>1. report' = [report EXCEPT !.bytes = bytes] /\ bytesNext' = FALSE
    BY <1>5 DEF StatsBytes
  <2>2. report \in [entries : Nat, bytes : Nat] /\ bytes \in Nat
    BY DEF IInv, TypeOK
  <2>3. TypeOK'
    BY <1>1, <2>1, <2>2 DEF IInv, TypeOK
  <2>4. bytes <= Len(ll) * MaxSize
    BY IInvFacts, BytesBounded
  <2>5. Len(ll) \in Nat /\ Len(ll) <= MaxEntries + 1
    BY IInvFacts, ConstantsAssumption DEF IInv, ListInv
  <2>6. bytes <= (MaxEntries + 1) * MaxSize
    <3> DEFINE n == Len(ll)
               m == MaxEntries + 1
    <3>1. n \in Nat /\ m \in Nat /\ n <= m /\ MaxSize \in Nat /\ bytes \in Nat /\ bytes <= n * MaxSize
      BY <2>2, <2>4, <2>5, MaxSizeFacts, ConstantsAssumption
    <3> HIDE DEF n, m
    <3>2. n * MaxSize <= m * MaxSize
      BY <3>1
    <3>3. n * MaxSize \in Nat /\ m * MaxSize \in Nat
      BY <3>1
    <3>4. bytes <= m * MaxSize
      BY <3>1, <3>2, <3>3
    <3>. QED
      BY <3>4 DEF m
  <2>7. ReportBounded'
    BY <2>1, <2>2, <2>6 DEF IInv, ReportBounded, MaxSize
  <2>. QED
    BY <1>2, <1>3, <2>3, <2>7 DEF IInv
<1>. QED
  BY <1>4, <1>5

\* The invariant behind the theorems below: the list, the map and the counter
\* agree, at every moment and in the middle of Set too, and the list is in the
\* order of last use.
THEOREM Inductive == Spec => []IInv
<1>1. Init => IInv
  BY IInvInit
<1>2. IInv /\ [Next]_vars => IInv'
  <2> SUFFICES ASSUME IInv, [Next]_vars PROVE IInv'
    OBVIOUS
  <2>1. ASSUME NEW k \in Keys, GetMiss(k) PROVE IInv'
    BY <2>1, StepGetMiss
  <2>2. ASSUME NEW k \in Keys, GetExpired(k) PROVE IInv'
    BY <2>2, StepGetExpired
  <2>3. ASSUME NEW k \in Keys, GetHit(k) PROVE IInv'
    BY <2>3, StepGetHit
  <2>4. ASSUME NEW k \in Keys, NEW rev \in Revs, SetPresent(k, rev) PROVE IInv'
    BY <2>4, StepSetPresent
  <2>5. ASSUME NEW k \in Keys, NEW rev \in Revs, SetNew(k, rev) PROVE IInv'
    BY <2>5, StepSetNew
  <2>6. CASE Evict
    BY <2>6, StepEvict
  <2>7. CASE Purge
    BY <2>7, StepPurge
  <2>8. CASE Tick
    BY <2>8, StepTick
  <2>9. CASE StatsEntries \/ StatsBytes
    BY <2>9, StepStats
  <2>10. CASE UNCHANGED vars
    BY <2>10 DEF vars, counters, history, IInv, TypeOK, ListInv, OrderInv, StoredBytes, Present,
                 KeepsRecent, ReportBounded
  <2>. QED
    BY <2>1, <2>2, <2>3, <2>4, <2>5, <2>6, <2>7, <2>8, <2>9, <2>10 DEF Next
<1>. QED
  BY <1>1, <1>2, PTL DEF Spec

-----------------------------------------------------------------------------
\* Every variable keeps its type.
THEOREM TypeCorrect == Spec => []TypeOK
<1>1. IInv => TypeOK
  BY DEF IInv
<1>. QED
  BY <1>1, Inductive, PTL

\* List and map hold the same keys and the byte counter is what they store,
\* through expiry, overwriting, eviction and purges (cache.go:57-135).
THEOREM AccountsExact == Spec => []Accounting
<1>1. IInv => Accounting
  BY DEF IInv, ListInv, Accounting
<1>. QED
  BY <1>1, Inductive, PTL

\* The MaxEntries keys used last are in the cache unless they expired, for
\* every capacity and any number of keys (the loop at cache.go:100-107).
THEOREM RecentKept == Spec => []KeepsRecent
<1>1. IInv => KeepsRecent
  BY DEF IInv
<1>. QED
  BY <1>1, Inductive, PTL

\* A statistics request never reports more than the capacity allows, although
\* it reads the counters without the lock (cache.go:137-151).
THEOREM ReportsBounded == Spec => []ReportBounded
<1>1. IInv => ReportBounded
  BY DEF IInv
<1>. QED
  BY <1>1, Inductive, PTL

-----------------------------------------------------------------------------
(* Refinement.                                                             *)

\* What the abstract store sees of the map.
Tiles(it) == [k \in Keys |-> it[k].tile]

LEMMA StoreInit ==
    ASSUME Init
    PROVE  Store!Init
BY DEF Init, Store!Init, NoEntry

\* Every step of the cache is a step of the store, or none.
LEMMA StoreStep ==
    ASSUME IInv, [Next]_vars
    PROVE  Store!Next \/ UNCHANGED <<Tiles(items), answer>>
<1>1. items \in EntryMap
  BY IInvFacts
<1>2. ASSUME NEW k \in Keys, GetMiss(k)
      PROVE  Store!Look(k)
  BY <1>2 DEF GetMiss, Store!Look
<1>3. ASSUME NEW k \in Keys, GetExpired(k)
      PROVE  Store!Look(k)
  <2>1. Tiles(items)' = [Tiles(items) EXCEPT ![k] = NoTile]
    BY <1>1, <1>3 DEF GetExpired, Tiles, EntryMap, NoEntry
  <2>2. answer' = [key |-> k, tile |-> NoTile]
    BY <1>3 DEF GetExpired
  <2>. QED
    BY <2>1, <2>2 DEF Store!Look, Tiles
<1>4. ASSUME NEW k \in Keys, GetHit(k)
      PROVE  Store!Look(k)
  BY <1>4 DEF GetHit, Store!Look
<1>5. ASSUME NEW k \in Keys, NEW rev \in Revs, SetPresent(k, rev) \/ SetNew(k, rev)
      PROVE  Store!Put(k)
  <2> DEFINE t == [key |-> k, rev |-> rev]
  <2>1. items' = [items EXCEPT ![k] = NewEntry(k, rev)] /\ UNCHANGED answer
    BY <1>5 DEF SetPresent, SetNew
  <2>2. Tiles(items)' = [Tiles(items) EXCEPT ![k] = t]
    BY <1>1, <2>1 DEF Tiles, EntryMap, NewEntry
  <2>3. t \in Store!Tile /\ t.key = k
    BY DEF Store!Tile
  <2> HIDE DEF t
  <2>. QED
    BY <2>1, <2>2, <2>3 DEF Store!Put, Tiles
<1>6. ASSUME Evict
      PROVE  \E gone \in SUBSET Keys : Store!Forget(gone)
  <2>1. Last(ll) \in Keys
    BY <1>6, IInvFacts, FrontList, ConstantsAssumption DEF Evict, IInv, ListInv, Stored
  <2>2. UNCHANGED answer
    BY <1>6 DEF Evict
  <2>3. Tiles(items)' = [k \in Keys |-> IF k \in {Last(ll)} THEN NoTile ELSE Tiles(items)[k]]
    BY <1>1, <1>6, <2>1 DEF Evict, Tiles, EntryMap, NoEntry
  <2> DEFINE gone == {Last(ll)}
  <2>4. gone \in SUBSET Keys
    BY <2>1
  <2>5. Store!Forget(gone)
    BY <2>2, <2>3 DEF Store!Forget, Tiles
  <2> HIDE DEF gone
  <2>. QED
    BY <2>4, <2>5 DEF Store!Forget
<1>7. ASSUME Purge
      PROVE  \E gone \in SUBSET Keys : Store!Forget(gone)
  <2>1. Store!Forget(Keys)
    BY <1>7 DEF Purge, Store!Forget, NoEntry
  <2>. QED
    BY <2>1
<1>8. ASSUME Tick
      PROVE  UNCHANGED <<Tiles(items), answer>>
  <2>1. \A k \in Keys : items'[k].tile = items[k].tile
    BY <1>1, <1>8, TickKeepsTiles
  <2>. QED
    BY <1>8, <2>1 DEF Tick, Tiles
<1>9. ASSUME StatsEntries \/ StatsBytes \/ UNCHANGED vars
      PROVE  UNCHANGED <<Tiles(items), answer>>
  BY <1>9 DEF StatsEntries, StatsBytes, vars, Tiles
<1>. QED
  BY <1>2, <1>3, <1>4, <1>5, <1>6, <1>7, <1>8, <1>9 DEF Next, Store!Next

\* The memory tier is a store that may lose entries and never invents one: a
\* lookup is answered from what was stored last under its key, or not at all.
THEOREM StoreImplemented == Spec => ImplementsStore
<1>1. Init => Store!Init
  BY StoreInit
<1>2. IInv /\ [Next]_vars => [Store!Next]_<<Tiles(items), answer>>
  BY StoreStep
<1>. QED
  BY <1>1, <1>2, Inductive, PTL DEF Spec, ImplementsStore, Store!Spec, Tiles
=============================================================================
