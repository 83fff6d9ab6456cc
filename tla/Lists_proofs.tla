----------------------------- MODULE Lists_proofs -----------------------------
(***************************************************************************)
(* Lemmas about numbers and sequences that the other proofs share.  What a *)
(* function that is defined by recursion up to n returns is shown by the   *)
(* least number for which it were wrong.                                   *)
(***************************************************************************)
EXTENDS Integers, Sequences, NaturalsInduction, WellFoundedInduction, SequenceTheorems, TLAPS

(* A set of numbers has a least one.                                       *)
LEMMA LowestNat ==
  ASSUME NEW S, S \subseteq Nat, S # {}
  PROVE  \E x \in S : \A y \in S : x <= y
<1> DEFINE lt == OpToRel(<, Nat)
<1>1. \A x, y \in Nat : y < x => <<y, x>> \in lt
  BY DEF OpToRel
<1>2. IsWellFoundedOn(lt, Nat)
  BY NatLessThanWellFounded
<1> HIDE DEF lt
<1>3. PICK x \in S : \A y \in S : <<y, x>> \notin lt
  BY <1>2, WFMin
<1>4. \A y \in S : y \in Nat /\ ~(y < x)
  BY <1>1, <1>3
<1>5. x \in Nat /\ \A y \in S : x <= y
  BY <1>4
<1> QED
  BY <1>5

-----------------------------------------------------------------------------
(* Joining and cutting sequences                                           *)

LEMMA JoinAssoc ==
  ASSUME NEW S, NEW a \in Seq(S), NEW b \in Seq(S), NEW c \in Seq(S)
  PROVE  (a \o b) \o c = a \o (b \o c)
OBVIOUS

LEMMA JoinEmpty ==
  ASSUME NEW S, NEW a \in Seq(S)
  PROVE  a \o <<>> = a /\ <<>> \o a = a
OBVIOUS

LEMMA JoinIs ==
  ASSUME NEW S, NEW a \in Seq(S), NEW b \in Seq(S)
  PROVE  /\ a \o b \in Seq(S) /\ Len(a \o b) = Len(a) + Len(b)
         /\ \A i \in 1 .. Len(a) : (a \o b)[i] = a[i]
         /\ \A i \in 1 .. Len(b) : (a \o b)[Len(a) + i] = b[i]
OBVIOUS

LEMMA SameSeq ==
  ASSUME NEW S, NEW T, NEW a \in Seq(S), NEW b \in Seq(T), Len(a) = Len(b),
         \A i \in 1 .. Len(a) : a[i] = b[i]
  PROVE  a = b
OBVIOUS

LEMMA Cut ==
  ASSUME NEW S, NEW s \in Seq(S), NEW n \in 0 .. Len(s)
  PROVE  /\ SubSeq(s, 1, n) \in Seq(S) /\ Len(SubSeq(s, 1, n)) = n
         /\ \A i \in 1 .. n : SubSeq(s, 1, n)[i] = s[i]
         /\ SubSeq(s, n + 1, Len(s)) \in Seq(S) /\ Len(SubSeq(s, n + 1, Len(s))) = Len(s) - n
         /\ \A i \in 1 .. Len(s) - n : SubSeq(s, n + 1, Len(s))[i] = s[n + i]
         /\ SubSeq(s, 1, n) \o SubSeq(s, n + 1, Len(s)) = s
<1> DEFINE a == SubSeq(s, 1, n)  b == SubSeq(s, n + 1, Len(s))
<1>1. a \in Seq(S) /\ Len(a) = n /\ \A i \in 1 .. n : a[i] = s[i]
  OBVIOUS
<1>2. b \in Seq(S) /\ Len(b) = Len(s) - n /\ \A i \in 1 .. Len(s) - n : b[i] = s[n + i]
  OBVIOUS
<1> HIDE DEF a, b
<1>3. a \o b \in Seq(S) /\ Len(a \o b) = Len(s)
  BY <1>1, <1>2, SMTT(20)
<1>4. ASSUME NEW i \in 1 .. Len(s) PROVE (a \o b)[i] = s[i]
  <2>1. CASE i <= n
    BY <1>1, <1>2, <2>1, SMTT(20)
  <2>2. CASE i > n
    <3>1. i - n \in 1 .. Len(s) - n /\ n + (i - n) = i
      BY <2>2
    <3>2. (a \o b)[i] = b[i - n]
      BY <1>1, <1>2, <2>2
    <3> QED
      BY <1>2, <3>1, <3>2
  <2>3. i <= n \/ i > n
    OBVIOUS
  <2> QED
    BY <2>1, <2>2, <2>3, Zenon
<1>5. a \o b = s
  <2> DEFINE t == a \o b
  <2>1. t \in Seq(S) /\ Len(t) = Len(s) /\ \A i \in 1 .. Len(s) : t[i] = s[i]
    BY <1>3, <1>4
  <2> HIDE DEF t
  <2>2. t = s
    BY <2>1
  <2> QED
    BY <2>2 DEF t
<1> QED
  BY <1>1, <1>2, <1>5 DEF a, b

-----------------------------------------------------------------------------
(* A function that joins the pieces p[1], p[2], ... exists: were there a   *)
(* least number of pieces without one, one more piece would give it.       *)
LEMMA JoinExists ==
  ASSUME NEW n \in Nat, NEW p
  PROVE  \E f : f = [k \in 0 .. n |-> IF k = 0 THEN <<>> ELSE f[k - 1] \o p[k]]
<1> DEFINE Joins(f, m) == /\ f = [k \in 0 .. m |-> f[k]] /\ f[0] = <<>>
                          /\ \A k \in 1 .. m : f[k] = f[k - 1] \o p[k]
           Bad == {m \in 0 .. n : ~\E f : Joins(f, m)}
<1>1. \E f : Joins(f, n)
  <2> SUFFICES ASSUME Bad # {} PROVE FALSE
    <3> SUFFICES ASSUME Bad = {} PROVE \E f : Joins(f, n)
      OBVIOUS
    <3> HIDE DEF Joins
    <3> QED
      OBVIOUS
  <2>1. PICK m \in Bad : \A y \in Bad : m <= y
    <3> HIDE DEF Joins
    <3>1. Bad \subseteq Nat
      OBVIOUS
    <3> HIDE DEF Bad
    <3> QED
      BY <3>1, LowestNat
  <2>2. m # 0
    <3> DEFINE f == [k \in 0 .. 0 |-> <<>>]
    <3>2. 1 .. 0 = {} /\ f = [k \in 0 .. 0 |-> <<>>]
      OBVIOUS
    <3> HIDE DEF f
    <3>1. f = [k \in 0 .. 0 |-> f[k]] /\ f[0] = <<>>
      BY <3>2
    <3>3. Joins(f, 0)
      BY <3>1, <3>2
    <3> HIDE DEF Joins
    <3> QED
      BY <2>1, <3>3
  <2>3. m - 1 \in 0 .. n /\ m - 1 \notin Bad
    <3>1. m \in 0 .. n
      OBVIOUS
    <3> HIDE DEF Bad
    <3> QED
      BY <2>1, <2>2, <3>1
  <2>4. PICK f : Joins(f, m - 1)
    <3> HIDE DEF Joins
    <3> QED
      BY <2>3
  <2> DEFINE g == [k \in 0 .. m |-> IF k < m THEN f[k] ELSE f[m - 1] \o p[m]]
  <2>5. g[0] = <<>> /\ g[m] = f[m - 1] \o p[m] /\ \A k \in 0 .. m - 1 : g[k] = f[k]
    <3>0. m \in 0 .. n /\ m \in Nat /\ m # 0
      BY <2>1, <2>2
    <3>1. 0 \in 0 .. m /\ 0 < m /\ f[0] = <<>>
      BY <3>0, <2>4
    <3>2. m \in 0 .. m /\ ~(m < m)
      BY <3>0
    <3>3. \A k \in 0 .. m - 1 : k \in 0 .. m /\ k < m
      BY <3>0
    <3> QED
      BY <3>1, <3>2, <3>3
  <2>6. g = [k \in 0 .. m |-> g[k]]
    OBVIOUS
  <2> HIDE DEF g
  <2>7. \A k \in 1 .. m : g[k] = g[k - 1] \o p[k]
    <3> SUFFICES ASSUME NEW k \in 1 .. m PROVE g[k] = g[k - 1] \o p[k]
      OBVIOUS
    <3>0. m \in 0 .. n
      BY <2>1
    <3>1. CASE k = m
      <4>1. k - 1 = m - 1 /\ m - 1 \in 0 .. m - 1
        BY <2>2, <3>0, <3>1
      <4> QED
        BY <2>5, <3>1, <4>1
    <3>2. CASE k # m
      <4>1. k \in 1 .. m - 1 /\ k \in 0 .. m - 1 /\ k - 1 \in 0 .. m - 1
        BY <2>3, <3>2
      <4> QED
        BY <2>4, <2>5, <4>1
    <3> QED
      BY <3>1, <3>2
  <2>8. Joins(g, m)
    BY <2>5, <2>6, <2>7
  <2> HIDE DEF Joins
  <2> QED
    BY <2>1, <2>8
<1>2. PICK f : Joins(f, n)
  <2> HIDE DEF Joins
  <2> QED
    BY <1>1
<1>3. \A k \in 0 .. n : f[k] = IF k = 0 THEN <<>> ELSE f[k - 1] \o p[k]
  <2>1. f[0] = <<>> /\ \A k \in 1 .. n : f[k] = f[k - 1] \o p[k]
    BY <1>2, Zenon
  <2>2. \A k \in 0 .. n : k = 0 \/ k \in 1 .. n
    OBVIOUS
  <2> QED
    BY <2>1, <2>2
<1>4. f = [k \in 0 .. n |-> f[k]]
  BY <1>2, Zenon
<1>5. f = [k \in 0 .. n |-> IF k = 0 THEN <<>> ELSE f[k - 1] \o p[k]]
  BY <1>3, <1>4
<1> QED
  BY <1>5

(* Two that join the same pieces agree.                                    *)
LEMMA JoinsAgree ==
  ASSUME NEW n \in Nat, NEW f, NEW g, f[0] = g[0],
         \A k \in 1 .. n : f[k - 1] = g[k - 1] => f[k] = g[k]
  PROVE  f[n] = g[n]
<1> DEFINE Bad == {m \in 0 .. n : f[m] # g[m]}
<1> SUFFICES ASSUME Bad # {} PROVE FALSE
  OBVIOUS
<1>1. PICK m \in Bad : \A y \in Bad : m <= y
  <2>1. Bad \subseteq Nat
    OBVIOUS
  <2> HIDE DEF Bad
  <2> QED
    BY <2>1, LowestNat
<1>2. m # 0 /\ m \in 0 .. n
  OBVIOUS
<1>3. m - 1 \in 0 .. n /\ m - 1 \notin Bad
  <2> HIDE DEF Bad
  <2> QED
    BY <1>1, <1>2
<1> QED
  BY <1>2, <1>3


(* What the last of them holds follows from the first, step by step.       *)
LEMMA JoinsType ==
  ASSUME NEW n \in Nat, NEW S, NEW f, f[0] \in Seq(S),
         \A k \in 1 .. n : f[k - 1] \in Seq(S) => f[k] \in Seq(S)
  PROVE  \A k \in 0 .. n : f[k] \in Seq(S)
<1> DEFINE Bad == {m \in 0 .. n : f[m] \notin Seq(S)}
<1> SUFFICES ASSUME Bad # {} PROVE FALSE
  OBVIOUS
<1>1. PICK m \in Bad : \A y \in Bad : m <= y
  <2>1. Bad \subseteq Nat
    OBVIOUS
  <2> HIDE DEF Bad
  <2> QED
    BY <2>1, LowestNat
<1>2. m # 0 /\ m \in 0 .. n
  OBVIOUS
<1>3. m - 1 \in 0 .. n /\ m - 1 \notin Bad
  <2> HIDE DEF Bad
  <2> QED
    BY <1>1, <1>2
<1>4. m \in 1 .. n
  BY <1>2
<1>5. f[m - 1] \in Seq(S)
  <2> HIDE DEF Bad
  <2>1. \A k \in 0 .. n : k \notin Bad => f[k] \in Seq(S)
    BY DEF Bad
  <2> QED
    BY <1>3, <2>1, Zenon
<1>6. f[m] \in Seq(S) /\ f[m] \notin Seq(S)
  <2>1. f[m] \notin Seq(S)
    OBVIOUS
  <2> HIDE DEF Bad
  <2> QED
    BY <1>4, <1>5, <2>1, Zenon
<1> QED
  BY <1>6
=============================================================================
