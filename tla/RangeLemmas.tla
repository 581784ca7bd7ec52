----------------------------- MODULE RangeLemmas -----------------------------
(***************************************************************************)
(* Facts about sequences and their elements, and induction over the        *)
(* natural numbers.                                                        *)
(***************************************************************************)
EXTENDS Integers, Sequences, Functions, SequenceTheorems, WellFoundedInduction, TLAPS

(* Appending an element adds it to the range. *)
LEMMA RangeOfAppend ==
  ASSUME NEW T, NEW s \in Seq(T), NEW e \in T
  PROVE  /\ Append(s, e) \in Seq(T)
         /\ Append(s, e) # << >>
         /\ Range(Append(s, e)) = Range(s) \cup {e}
<1>1. DOMAIN Append(s, e) = 1..Len(s) + 1 /\ DOMAIN s = 1..Len(s) /\ Len(s) \in Nat
  OBVIOUS
<1>2. \A i \in 1..Len(s) : Append(s, e)[i] = s[i]
  OBVIOUS
<1>3. Append(s, e)[Len(s) + 1] = e
  OBVIOUS
<1>4. ASSUME NEW x \in Range(s) \cup {e} PROVE x \in Range(Append(s, e))
  BY <1>1, <1>2, <1>3 DEF Range
<1>5. ASSUME NEW x \in Range(Append(s, e)) PROVE x \in Range(s) \cup {e}
  <2>1. PICK i \in 1..Len(s) + 1 : x = Append(s, e)[i]
    BY <1>1 DEF Range
  <2>2. CASE i = Len(s) + 1
    BY <2>1, <2>2, <1>3
  <2>3. CASE i \in 1..Len(s)
    BY <2>1, <2>3, <1>1, <1>2 DEF Range
  <2> QED
    BY <1>1, <2>2, <2>3
<1> QED
  BY <1>4, <1>5

(* What is appended leaves a beginning as it was. *)
LEMMA PrefixStays ==
  ASSUME NEW T, NEW s \in Seq(T), NEW t \in Seq(T)
  PROVE  SubSeq(s, 1, Len(s)) = s /\ SubSeq(s \o t, 1, Len(s)) = s
  OBVIOUS

(* The part of a sequence from its second element on, one longer. *)
LEMMA InnerGrows ==
  ASSUME NEW T, NEW s \in Seq(T), NEW k \in Nat, k + 2 <= Len(s)
  PROVE  /\ SubSeq(s, 2, k + 1) \in Seq(T)
         /\ Len(SubSeq(s, 2, k + 1)) = k
         /\ s[k + 2] \in T
         /\ SubSeq(s, 2, k + 2) = SubSeq(s, 2, k + 1) \o <<s[k + 2]>>
<1>1. \A i \in 2..k + 1 : s[i] \in T
  OBVIOUS
<1>2. SubSeq(s, 2, k + 1) \in Seq(T) /\ Len(SubSeq(s, 2, k + 1)) = k
  BY <1>1, SubSeqProperties
<1>3. SubSeq(s, 2, k + 2) = SubSeq(s, 2, k + 1) \o <<s[k + 2]>>
  <2>1. 2 \in 1..Len(s) /\ k + 2 \in 2..Len(s) /\ (k + 2) - 1 = k + 1
    OBVIOUS
  <2> QED
    BY <2>1, SubSeqRecursiveSecond
<1> QED
  BY <1>2, <1>3

(* A sequence that holds nothing twice. *)
Distinct(s) == \A i, j \in 1..Len(s) : s[i] = s[j] => i = j

(* Taking the head away takes away one element. *)
LEMMA TailOfDistinct ==
  ASSUME NEW T, NEW s \in Seq(T), s # << >>, Distinct(s)
  PROVE  /\ Head(s) \in Range(s) /\ Head(s) \in T
         /\ Tail(s) \in Seq(T) /\ Distinct(Tail(s))
         /\ Range(Tail(s)) = Range(s) \ {Head(s)}
<1>1. /\ Len(s) \in Nat /\ Len(s) >= 1 /\ Head(s) = s[1] /\ s[1] \in T
      /\ Tail(s) \in Seq(T) /\ Len(Tail(s)) = Len(s) - 1
      /\ \A i \in 1..Len(s) - 1 : Tail(s)[i] = s[i + 1]
  OBVIOUS
<1> DEFINE t == Tail(s)
<1>2. /\ t \in Seq(T) /\ Len(t) = Len(s) - 1
      /\ \A i \in 1..Len(s) - 1 : t[i] = s[i + 1] /\ i + 1 \in 1..Len(s)
  BY <1>1
<1>3. DOMAIN t = 1..Len(s) - 1 /\ DOMAIN s = 1..Len(s)
  BY <1>1
<1> HIDE DEF t
<1>4. Distinct(t)
  BY <1>1, <1>2 DEF Distinct
<1>5. Range(t) = Range(s) \ {Head(s)}
  <2>1. ASSUME NEW x \in Range(t) PROVE x \in Range(s) \ {Head(s)}
    <3>1. PICK i \in 1..Len(s) - 1 : x = t[i]
      BY <1>3 DEF Range
    <3>2. x = s[i + 1] /\ i + 1 \in 1..Len(s) /\ i + 1 # 1 /\ 1 \in 1..Len(s)
      BY <1>1, <1>2, <3>1
    <3> QED
      BY <1>1, <1>3, <3>2 DEF Range, Distinct
  <2>2. ASSUME NEW x \in Range(s), x # Head(s) PROVE x \in Range(t)
    <3>1. PICK i \in 1..Len(s) : x = s[i]
      BY <1>3 DEF Range
    <3>2. i - 1 \in 1..Len(s) - 1 /\ (i - 1) + 1 = i
      BY <1>1, <2>2, <3>1
    <3> QED
      BY <1>2, <1>3, <3>1, <3>2 DEF Range
  <2> QED
    BY <2>1, <2>2
<1>6. Head(s) \in Range(s)
  <2>1. 1 \in DOMAIN s
    BY <1>1, <1>3
  <2> QED
    BY <1>1, <2>1 DEF Range
<1> QED
  BY <1>1, <1>2, <1>4, <1>5, <1>6 DEF t

(* Two sequences one after the other. *)
LEMMA RangeOfConcat ==
  ASSUME NEW T, NEW s \in Seq(T), NEW t \in Seq(T)
  PROVE  /\ s \o t \in Seq(T)
         /\ Range(s \o t) = Range(s) \cup Range(t)
         /\ Distinct(s) /\ Distinct(t) /\ Range(s) \cap Range(t) = {} => Distinct(s \o t)
<1> DEFINE u == s \o t
<1>1. /\ Len(s) \in Nat /\ Len(t) \in Nat /\ u \in Seq(T) /\ Len(u) = Len(s) + Len(t)
      /\ \A i \in 1..Len(s) : u[i] = s[i]
      /\ \A i \in 1..Len(t) : u[Len(s) + i] = t[i]
  OBVIOUS
<1>2. DOMAIN u = 1..Len(u) /\ DOMAIN s = 1..Len(s) /\ DOMAIN t = 1..Len(t)
  BY <1>1
<1> HIDE DEF u
<1>3. ASSUME NEW i \in 1..Len(u)
      PROVE  \/ i \in 1..Len(s) /\ u[i] = s[i]
             \/ i - Len(s) \in 1..Len(t) /\ u[i] = t[i - Len(s)]
  <2>1. CASE i <= Len(s)
    BY <1>1, <2>1
  <2>2. CASE i > Len(s)
    <3>1. i - Len(s) \in 1..Len(t) /\ Len(s) + (i - Len(s)) = i
      BY <1>1, <2>2
    <3> QED
      BY <1>1, <3>1
  <2> QED
    BY <1>1, <2>1, <2>2
<1>4. Range(u) = Range(s) \cup Range(t)
  <2>1. ASSUME NEW x \in Range(u) PROVE x \in Range(s) \cup Range(t)
    BY <1>2, <1>3 DEF Range
  <2>2. ASSUME NEW x \in Range(s) PROVE x \in Range(u)
    <3>1. PICK i \in 1..Len(s) : x = s[i]
      BY <1>2 DEF Range
    <3>2. i \in 1..Len(u) /\ u[i] = x
      BY <1>1, <3>1
    <3> QED
      BY <1>2, <3>2 DEF Range
  <2>3. ASSUME NEW x \in Range(t) PROVE x \in Range(u)
    <3>1. PICK i \in 1..Len(t) : x = t[i]
      BY <1>2 DEF Range
    <3>2. Len(s) + i \in 1..Len(u) /\ u[Len(s) + i] = x
      BY <1>1, <3>1
    <3> QED
      BY <1>2, <3>2 DEF Range
  <2> QED
    BY <2>1, <2>2, <2>3
<1>5. ASSUME Distinct(s), Distinct(t), Range(s) \cap Range(t) = {} PROVE Distinct(u)
  <2>1. ASSUME NEW i \in 1..Len(u), NEW j \in 1..Len(u), u[i] = u[j] PROVE i = j
    <3>1. /\ \A k \in 1..Len(s) : s[k] \in Range(s)
          /\ \A k \in 1..Len(t) : t[k] \in Range(t)
      BY <1>2 DEF Range
    <3>2. CASE i \in 1..Len(s) /\ u[i] = s[i] /\ j \in 1..Len(s) /\ u[j] = s[j]
      BY <1>5, <2>1, <3>2 DEF Distinct
    <3>3. CASE /\ i - Len(s) \in 1..Len(t) /\ u[i] = t[i - Len(s)]
               /\ j - Len(s) \in 1..Len(t) /\ u[j] = t[j - Len(s)]
      <4>1. i - Len(s) = j - Len(s)
        BY <1>5, <2>1, <3>3 DEF Distinct
      <4> QED
        BY <1>1, <4>1
    <3>4. CASE i \in 1..Len(s) /\ u[i] = s[i] /\ j - Len(s) \in 1..Len(t) /\ u[j] = t[j - Len(s)]
      BY <1>5, <2>1, <3>1, <3>4
    <3>5. CASE i - Len(s) \in 1..Len(t) /\ u[i] = t[i - Len(s)] /\ j \in 1..Len(s) /\ u[j] = s[j]
      BY <1>5, <2>1, <3>1, <3>5
    <3> QED
      BY <1>3, <3>2, <3>3, <3>4, <3>5
  <2> QED
    BY <2>1 DEF Distinct
<1> QED
  BY <1>1, <1>4, <1>5 DEF u

(* A sequence in which every element stands in the relation R (a set of     *)
(* pairs) to those after it.                                                *)
Sorted(s, R) == \A i, j \in 1..Len(s) : i < j => <<s[i], s[j]>> \in R

(* Taking the head away leaves it sorted. *)
LEMMA SortedTail ==
  ASSUME NEW T, NEW s \in Seq(T), s # << >>, NEW R, Sorted(s, R)
  PROVE  Sorted(Tail(s), R) /\ \A x \in Range(Tail(s)) : <<Head(s), x>> \in R
<1>1. /\ Len(s) \in Nat /\ Len(s) >= 1 /\ Head(s) = s[1]
      /\ Tail(s) \in Seq(T) /\ Len(Tail(s)) = Len(s) - 1
      /\ \A i \in 1..Len(s) - 1 : Tail(s)[i] = s[i + 1]
  OBVIOUS
<1> DEFINE t == Tail(s)
<1>2. t \in Seq(T) /\ Len(t) = Len(s) - 1 /\ \A i \in 1..Len(s) - 1 : t[i] = s[i + 1]
  BY <1>1
<1> HIDE DEF t
<1>3. Sorted(t, R)
  BY <1>1, <1>2 DEF Sorted
<1>4. ASSUME NEW x \in Range(t) PROVE <<s[1], x>> \in R
  <2>1. PICK i \in 1..Len(t) : x = t[i]
    BY <1>2 DEF Range
  <2> QED
    BY <1>1, <1>2, <2>1 DEF Sorted
<1> QED
  BY <1>1, <1>3, <1>4 DEF t

(* A larger relation, on the elements of the sequence. *)
LEMMA SortedStays ==
  ASSUME NEW T, NEW s \in Seq(T), NEW R, NEW Q, Sorted(s, R),
         \A x, y \in Range(s) : <<x, y>> \in R => <<x, y>> \in Q
  PROVE  Sorted(s, Q)
<1>1. \A i \in 1..Len(s) : s[i] \in Range(s)
  BY DEF Range
<1> QED
  BY <1>1 DEF Sorted

(* Two sorted sequences, one after the other. *)
LEMMA SortedConcat ==
  ASSUME NEW T, NEW s \in Seq(T), NEW t \in Seq(T), NEW R, Sorted(s, R), Sorted(t, R),
         \A x \in Range(s), y \in Range(t) : <<x, y>> \in R
  PROVE  Sorted(s \o t, R)
<1> DEFINE u == s \o t
<1>1. /\ Len(s) \in Nat /\ Len(t) \in Nat /\ u \in Seq(T) /\ Len(u) = Len(s) + Len(t)
      /\ \A i \in 1..Len(s) : u[i] = s[i]
      /\ \A i \in 1..Len(t) : u[Len(s) + i] = t[i]
  OBVIOUS
<1>2. /\ \A i \in 1..Len(s) : s[i] \in Range(s)
      /\ \A i \in 1..Len(t) : t[i] \in Range(t)
  BY DEF Range
<1> HIDE DEF u
<1>3. ASSUME NEW i \in 1..Len(u)
      PROVE  \/ i \in 1..Len(s) /\ u[i] = s[i]
             \/ i > Len(s) /\ i - Len(s) \in 1..Len(t) /\ u[i] = t[i - Len(s)]
  <2>1. CASE i <= Len(s)
    BY <1>1, <2>1
  <2>2. CASE i > Len(s)
    <3>1. i - Len(s) \in 1..Len(t) /\ Len(s) + (i - Len(s)) = i
      BY <1>1, <2>2
    <3> QED
      BY <1>1, <2>2, <3>1
  <2> QED
    BY <1>1, <2>1, <2>2
<1>4. ASSUME NEW i \in 1..Len(u), NEW j \in 1..Len(u), i < j
      PROVE  <<u[i], u[j]>> \in R
  <2>1. CASE i \in 1..Len(s) /\ u[i] = s[i] /\ j \in 1..Len(s) /\ u[j] = s[j]
    BY <1>4, <2>1 DEF Sorted
  <2>2. CASE /\ i \in 1..Len(s) /\ u[i] = s[i]
             /\ j - Len(s) \in 1..Len(t) /\ u[j] = t[j - Len(s)]
    BY <1>2, <2>2
  <2>3. CASE /\ i - Len(s) \in 1..Len(t) /\ u[i] = t[i - Len(s)]
             /\ j - Len(s) \in 1..Len(t) /\ u[j] = t[j - Len(s)]
    <3>1. i - Len(s) < j - Len(s)
      BY <1>1, <1>4
    <3> QED
      BY <2>3, <3>1 DEF Sorted
  <2> QED
    BY <1>1, <1>3, <1>4, <2>1, <2>2, <2>3
<1> QED
  BY <1>4 DEF Sorted, u
-----------------------------------------------------------------------------

(* A set that holds 0 and the successor of each of its elements holds every *)
(* natural number.                                                          *)
LEMMA SetInduction ==
  ASSUME NEW S \in SUBSET Nat, 0 \in S, \A n \in S : n + 1 \in S
  PROVE  S = Nat
<1> SUFFICES ASSUME S # Nat PROVE FALSE
  OBVIOUS
<1> DEFINE T == Nat \ S
           R == OpToRel(<, Nat)
<1>1. \A x, y \in Nat : y < x => <<y, x>> \in R
  BY DEF OpToRel
<1>2. T \subseteq Nat /\ T # {} /\ IsWellFoundedOn(R, Nat)
  BY NatLessThanWellFounded
<1> HIDE DEF R
<1>3. PICK x \in T : \A y \in T : ~ (<<y, x>> \in R)
  BY <1>2, WFMin
<1>4. x # 0 /\ x \in Nat /\ x - 1 \in Nat /\ x - 1 < x /\ x - 1 + 1 = x
  BY <1>3
<1>5. <<x - 1, x>> \in R
  BY <1>1, <1>4
<1>6. x - 1 \in S
  BY <1>3, <1>4, <1>5
<1> QED
  BY <1>3, <1>4, <1>6

(* A first value and a function from each value to the next make a sequence *)
(* of values.                                                               *)
LEMMA RecursionExists ==
  ASSUME NEW T, NEW A \in T, NEW F \in [T -> T]
  PROVE  \E B \in [Nat -> T] : B[0] = A /\ \A k \in Nat : B[k + 1] = F[B[k]]
<1> DEFINE Part(m, g) == g \in [0..m -> T] /\ g[0] = A /\ \A k \in 0..m - 1 : g[k + 1] = F[g[k]]
           S == {m \in Nat : \E g : Part(m, g)}
<1>1. 0 \in S
  <2>1. Part(0, [k \in 0..0 |-> A])
    OBVIOUS
  <2> QED
    BY <2>1
<1>2. ASSUME NEW m \in S PROVE m + 1 \in S
  <2>1. PICK g : Part(m, g)
    OBVIOUS
  <2> DEFINE h == [k \in 0..m + 1 |-> IF k = m + 1 THEN F[g[m]] ELSE g[k]]
  <2>2. m \in Nat /\ g[m] \in T /\ \A k \in 0..m : g[k] \in T
    BY <2>1
  <2>3. F[g[m]] \in T
    BY <2>2
  <2>4. h \in [0..m + 1 -> T] /\ h[0] = A
    BY <2>1, <2>2, <2>3
  <2>5. \A k \in 0..m : h[k + 1] = F[h[k]]
    BY <2>1, <2>2
  <2> HIDE DEF h
  <2>6. m + 1 - 1 = m
    BY <2>2
  <2>7. Part(m + 1, h)
    BY <2>4, <2>5, <2>6
  <2>8. m + 1 \in Nat
    BY <2>2
  <2> HIDE DEF Part
  <2> QED
    BY <2>7, <2>8
<1>3. S = Nat
  <2> HIDE DEF S
  <2>1. S \in SUBSET Nat
    BY DEF S
  <2> QED
    BY <1>1, <1>2, <2>1, SetInduction
<1> DEFINE G(m) == CHOOSE g : Part(m, g)
           B == [m \in Nat |-> G(m)[m]]
<1>4. ASSUME NEW m \in Nat PROVE Part(m, G(m))
  <2>1. \E g : Part(m, g)
    BY <1>3
  <2> HIDE DEF Part
  <2> QED
    BY <2>1
<1>5. ASSUME NEW m \in Nat, NEW g, NEW h, Part(m, g), Part(m + 1, h)
      PROVE  g[m] = h[m]
  <2> DEFINE E == {k \in Nat : k <= m => g[k] = h[k]}
  <2>1. 0 \in E
    BY <1>5
  <2>2. ASSUME NEW k \in E PROVE k + 1 \in E
    BY <1>5
  <2>3. E = Nat
    <3> HIDE DEF E
    <3>1. E \in SUBSET Nat
      BY DEF E
    <3> QED
      BY <2>1, <2>2, <3>1, SetInduction
  <2> QED
    BY <2>3
<1> HIDE DEF G
<1>6. \A k \in Nat : G(k) \in [0..k -> T] /\ G(k)[0] = A
  BY <1>4
<1>7. B \in [Nat -> T] /\ B[0] = A
  BY <1>6
<1>8. ASSUME NEW k \in Nat PROVE B[k + 1] = F[B[k]]
  <2>1. Part(k, G(k))
    BY <1>4
  <2>2. Part(k + 1, G(k + 1))
    <3>1. k + 1 \in Nat
      OBVIOUS
    <3> HIDE DEF Part
    <3> QED
      BY <1>4, <3>1
  <2>3. G(k)[k] = G(k + 1)[k]
    <3> HIDE DEF Part
    <3> QED
      BY <1>5, <2>1, <2>2
  <2>4. G(k + 1)[k + 1] = F[G(k + 1)[k]]
    BY <2>2
  <2> QED
    BY <2>3, <2>4
<1> QED
  BY <1>7, <1>8

(* What holds at 0 and is kept up to n holds up to n.                       *)
LEMMA RangeInduction ==
  ASSUME NEW n \in Nat, NEW S, 0 \in S, \A k \in 0..n - 1 : k \in S => k + 1 \in S
  PROVE  \A k \in 0..n : k \in S
<1> DEFINE R == {k \in Nat : k <= n => k \in S}
<1>1. 0 \in R
  OBVIOUS
<1>2. ASSUME NEW k \in R PROVE k + 1 \in R
  OBVIOUS
<1>3. R = Nat
  <2> HIDE DEF R
  <2>1. R \in SUBSET Nat
    BY DEF R
  <2> QED
    BY <1>1, <1>2, <2>1, SetInduction
<1> QED
  BY <1>3
===============================================================================
