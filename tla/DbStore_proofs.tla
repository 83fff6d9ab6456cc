---------------------------- MODULE DbStore_proofs ----------------------------
(***************************************************************************)
(* Proofs about DbStore, for any processes, keys, data, hash function and  *)
(* number of calls: the lists in the files are whole at every moment, also *)
(* after processes died between two writes, and db_store acts at once, as  *)
(* KvStore promises.                                                       *)
(***************************************************************************)
EXTENDS DbStore, Lists_proofs, FiniteSetTheorems, TLAPS

-----------------------------------------------------------------------------
(* Lists of records                                                        *)

(* s leads from record i along n records to the end, 0.                    *)
Path(file, i, n, s) ==
  /\ n \in Nat /\ s = [k \in 0 .. n |-> s[k]] /\ s[0] = i /\ s[n] = 0
  /\ \A k \in 0 .. n - 1 : s[k] \in 1 .. Len(file) /\ s[k + 1] = file[s[k]].ptr
  /\ \A j, k \in 0 .. n - 1 : s[j] = s[k] => j = k
HasPath(file, i) == \E n, s : Path(file, i, n, s)
On(n, s) == {s[k] : k \in 0 .. n - 1}

LEMMA PathLen ==
  ASSUME NEW file, Len(file) \in Nat, NEW i, NEW n, NEW s, Path(file, i, n, s)
  PROVE  n <= Len(file)
<1> DEFINE L == Len(file)  f == [k \in 0 .. n - 1 |-> s[k]]
<1>1. n \in Nat /\ L \in Nat
  BY DEF Path
<1> HIDE DEF L
<1>2. f \in [0 .. n - 1 -> 1 .. L]
  BY DEF Path, L
<1>3. f \in Injection(0 .. n - 1, 1 .. L)
  <2>1. \A j, k \in 0 .. n - 1 : f[j] = f[k] => j = k
    BY DEF Path
  <2> QED
    BY <1>2, <2>1 DEF Injection, IsInjective
<1> HIDE DEF f
<1>4. IsFiniteSet(1 .. L) /\ Cardinality(1 .. L) = L
  <2>1. 1 \in Int /\ L \in Int /\ (1 > L <=> L = 0) /\ L - 1 + 1 = L
    BY <1>1
  <2> QED
    BY <2>1, FS_Interval
<1>5. Cardinality(0 .. n - 1) = n
  <2>1. 0 \in Int /\ n - 1 \in Int /\ (0 > n - 1 <=> n = 0) /\ (n - 1) - 0 + 1 = n
    BY <1>1
  <2> QED
    BY <2>1, FS_Interval
<1> QED
  BY <1>3, <1>4, <1>5, FS_Injection DEF L

(* The walk from i is the path, and 0 from its end on.                     *)
LEMMA WalkIs ==
  ASSUME NEW file, Len(file) \in Nat, NEW i, NEW n, NEW s, Path(file, i, n, s)
  PROVE  /\ \A k \in 0 .. n : Walk(file, i)[k] = s[k]
         /\ \A k \in n .. Len(file) : Walk(file, i)[k] = 0
<1> DEFINE L == Len(file)  w == Walk(file, i)
           f == [k \in 0 .. L |-> IF k <= n THEN s[k] ELSE 0]
<1>1. n \in Nat /\ L \in Nat /\ n <= L
  BY PathLen DEF Path
<1>2. \A k \in 0 .. L : f[k] = IF k = 0 THEN i ELSE IF f[k - 1] = 0 THEN 0 ELSE file[f[k - 1]].ptr
  <2> SUFFICES ASSUME NEW k \in 0 .. L
               PROVE  f[k] = IF k = 0 THEN i
                             ELSE IF f[k - 1] = 0 THEN 0 ELSE file[f[k - 1]].ptr
    OBVIOUS
  <2>1. CASE k = 0
    BY <1>1, <2>1 DEF Path
  <2>2. CASE k # 0 /\ k <= n
    <3>1. k - 1 \in 0 .. n - 1 /\ k - 1 \in 0 .. L /\ k - 1 <= n /\ (k - 1) + 1 = k
      BY <1>1, <2>2
    <3>2. f[k] = s[k] /\ f[k - 1] = s[k - 1]
      BY <2>2, <3>1
    <3> HIDE DEF f
    <3>3. s[k - 1] \in 1 .. L /\ s[k] = file[s[k - 1]].ptr
      BY <3>1 DEF Path, L
    <3>4. s[k - 1] # 0
      BY <3>3
    <3> QED
      BY <2>2, <3>2, <3>3, <3>4
  <2>3. CASE k > n
    <3>1. k - 1 \in 0 .. L /\ k # 0 /\ ~(k <= n) /\ (k - 1 <= n => k - 1 = n)
      BY <1>1, <2>3
    <3>2. f[k] = 0 /\ (f[k - 1] = 0 \/ k - 1 = n)
      BY <3>1
    <3>3. k - 1 = n => f[k - 1] = 0
      BY <1>1, <3>1 DEF Path
    <3> QED
      BY <3>1, <3>2, <3>3
  <2> QED
    BY <1>1, <2>1, <2>2, <2>3
<1>3. f = [k \in 0 .. L |-> f[k]]
  OBVIOUS
<1>4. \A k \in 0 .. n : f[k] = s[k]
  BY <1>1
<1>5. \A k \in n .. L : f[k] = 0
  BY <1>1 DEF Path
<1> HIDE DEF f
<1>6. f = [k \in 0 .. L |-> IF k = 0 THEN i ELSE IF f[k - 1] = 0 THEN 0 ELSE file[f[k - 1]].ptr]
  BY <1>2, <1>3
<1>7. w = [k \in 0 .. L |-> IF k = 0 THEN i ELSE IF w[k - 1] = 0 THEN 0 ELSE file[w[k - 1]].ptr]
  BY <1>6 DEF Walk, L
<1> HIDE DEF w
<1>8. \A k \in 0 .. L : w[k] = IF k = 0 THEN i ELSE IF w[k - 1] = 0 THEN 0 ELSE file[w[k - 1]].ptr
  BY <1>7
<1>9. ASSUME NEW m \in 0 .. L PROVE w[m] = f[m]
  <2>1. ASSUME NEW k \in 1 .. m, w[k - 1] = f[k - 1] PROVE w[k] = f[k]
    <3>1. k \in 0 .. L /\ k # 0
      BY <1>1
    <3> QED
      BY <1>2, <1>8, <2>1, <3>1
  <2>2. w[0] = f[0]
    <3>1. 0 \in 0 .. L
      BY <1>1
    <3> QED
      BY <1>2, <1>8, <3>1
  <2>3. m \in Nat
    OBVIOUS
  <2> QED
    BY <2>1, <2>2, <2>3, JoinsAgree
<1>10. \A k \in 0 .. n : k \in 0 .. L
  BY <1>1
<1>11. \A k \in n .. L : k \in 0 .. L
  BY <1>1
<1> QED
  BY <1>4, <1>5, <1>9, <1>10, <1>11 DEF w, L

(* Where there is a path, the records linked are those on it.              *)
LEMMA LinkedIs ==
  ASSUME NEW file, Len(file) \in Nat, NEW i, NEW n, NEW s, Path(file, i, n, s)
  PROVE  Linked(file, i) = On(n, s) /\ Ends(file, i) /\ On(n, s) \subseteq 1 .. Len(file)
<1> DEFINE w == Walk(file, i)  L == Len(file)
<1>1. n \in Nat /\ L \in Nat /\ n <= L
  BY PathLen DEF Path
<1>2. (\A k \in 0 .. n : w[k] = s[k]) /\ \A k \in n .. L : w[k] = 0
  BY WalkIs
<1>3. \A k \in 0 .. n - 1 : s[k] \in 1 .. L /\ s[k] # 0
  <2>1. \A x \in 1 .. L : x # 0
    BY <1>1
  <2> QED
    BY <2>1 DEF Path
<1> HIDE DEF w, L
<1>4. w[L] = 0
  BY <1>1, <1>2
<1>5. ASSUME NEW k \in 0 .. L, w[k] # 0 PROVE w[k] \in On(n, s)
  <2>1. k \notin n .. L
    BY <1>2, <1>5
  <2>2. k \in 0 .. n - 1 /\ k \in 0 .. n
    BY <1>1, <2>1
  <2> QED
    BY <1>2, <2>2 DEF On
<1>6. ASSUME NEW k \in 0 .. n - 1 PROVE \E m \in 0 .. L : w[m] = s[k]
  <2>1. k \in 0 .. n /\ k \in 0 .. L
    BY <1>1
  <2> QED
    BY <1>2, <2>1
<1>7. {w[k] : k \in 0 .. L} \ {0} = On(n, s)
  BY <1>3, <1>5, <1>6 DEF On
<1>8. Linked(file, i) = {w[k] : k \in 0 .. L} \ {0}
  BY DEF Linked, w, L
<1> QED
  BY <1>3, <1>4, <1>7, <1>8 DEF Ends, On, w, L

LEMMA LinkedIn ==
  ASSUME NEW file, Len(file) \in Nat, NEW i, HasPath(file, i)
  PROVE  /\ Linked(file, i) \subseteq 1 .. Len(file) /\ Ends(file, i)
         /\ i # 0 => i \in Linked(file, i)
<1>1. PICK n, s : Path(file, i, n, s)
  BY DEF HasPath
<1>2. Linked(file, i) = On(n, s) /\ Ends(file, i) /\ On(n, s) \subseteq 1 .. Len(file)
  BY <1>1, LinkedIs
<1>3. i # 0 => i \in On(n, s)
  <2>1. n \in Nat /\ s[0] = i /\ s[n] = 0
    BY <1>1 DEF Path
  <2>2. ASSUME i # 0 PROVE 0 \in 0 .. n - 1
    BY <2>1, <2>2
  <2> QED
    BY <2>1, <2>2 DEF On
<1> QED
  BY <1>2, <1>3

LEMMA LinkedEnd ==
  ASSUME NEW file, Len(file) \in Nat
  PROVE  HasPath(file, 0) /\ Linked(file, 0) = {}
<1> DEFINE s == [k \in 0 .. 0 |-> 0]
<1>1. 0 .. 0 - 1 = {} /\ 0 \in 0 .. 0
  OBVIOUS
<1>2. Path(file, 0, 0, s)
  BY <1>1 DEF Path
<1> HIDE DEF s
<1>3. Linked(file, 0) = On(0, s)
  BY <1>2, LinkedIs
<1> QED
  BY <1>1, <1>2, <1>3 DEF HasPath, On

(* A list does not change with the records that are not on it.             *)
LEMMA LinkedSame ==
  ASSUME NEW file, Len(file) \in Nat, NEW file2, Len(file2) \in Nat, Len(file) <= Len(file2),
         NEW i, HasPath(file, i), \A j \in Linked(file, i) : file2[j].ptr = file[j].ptr
  PROVE  HasPath(file2, i) /\ Linked(file2, i) = Linked(file, i)
<1>1. PICK n, s : Path(file, i, n, s)
  BY DEF HasPath
<1>2. Linked(file, i) = On(n, s)
  BY <1>1, LinkedIs
<1>3. \A k \in 0 .. n - 1 : s[k] \in 1 .. Len(file2) /\ s[k + 1] = file2[s[k]].ptr
  <2> SUFFICES ASSUME NEW k \in 0 .. n - 1
               PROVE  s[k] \in 1 .. Len(file2) /\ s[k + 1] = file2[s[k]].ptr
    OBVIOUS
  <2>1. s[k] \in On(n, s)
    BY DEF On
  <2>2. s[k] \in 1 .. Len(file) /\ s[k + 1] = file[s[k]].ptr
    BY <1>1 DEF Path
  <2>3. s[k] \in 1 .. Len(file2)
    BY <2>2
  <2> QED
    BY <1>2, <2>1, <2>2, <2>3
<1>4. Path(file2, i, n, s)
  BY <1>1, <1>3 DEF Path
<1> QED
  BY <1>2, <1>4, LinkedIs DEF HasPath

(* A record that is not on a list goes before its first one.               *)
LEMMA LinkedPush ==
  ASSUME NEW file, Len(file) \in Nat, NEW i, HasPath(file, i),
         NEW j \in 1 .. Len(file), file[j].ptr = i, j \notin Linked(file, i)
  PROVE  HasPath(file, j) /\ Linked(file, j) = {j} \cup Linked(file, i)
<1>1. PICK n, s : Path(file, i, n, s)
  BY DEF HasPath
<1>2. Linked(file, i) = On(n, s)
  BY <1>1, LinkedIs
<1> DEFINE t == [k \in 0 .. n + 1 |-> IF k = 0 THEN j ELSE s[k - 1]]
<1>3. n \in Nat /\ s[0] = i /\ s[n] = 0
  BY <1>1 DEF Path
<1>4. /\ t = [k \in 0 .. n + 1 |-> t[k]] /\ t[0] = j /\ t[n + 1] = 0
      /\ \A k \in 0 .. n : t[k + 1] = s[k]
  BY <1>3
<1>5. \A k \in 1 .. n + 1 : t[k] = s[k - 1]
  BY <1>3
<1> HIDE DEF t
<1>6. \A k \in 0 .. n : k = 0 \/ (k \in 1 .. n + 1 /\ k - 1 \in 0 .. n - 1 /\ (k - 1) + 1 = k)
  BY <1>3
<1>7. ASSUME NEW k \in 0 .. n PROVE t[k] \in 1 .. Len(file) /\ t[k + 1] = file[t[k]].ptr
  <2>1. CASE k = 0
    <3>1. t[0 + 1] = s[0]
      BY <1>3, <1>4
    <3> QED
      BY <1>3, <1>4, <2>1, <3>1
  <2>2. CASE k # 0
    <3>1. k \in 1 .. n + 1 /\ k - 1 \in 0 .. n - 1 /\ (k - 1) + 1 = k
      BY <1>6, <2>2
    <3>2. t[k] = s[k - 1] /\ t[k + 1] = s[k]
      BY <1>4, <1>5, <3>1
    <3>3. s[k - 1] \in 1 .. Len(file) /\ s[(k - 1) + 1] = file[s[k - 1]].ptr
      BY <1>1, <3>1 DEF Path
    <3> QED
      BY <3>1, <3>2, <3>3
  <2> QED
    BY <2>1, <2>2
<1>8. \A k \in 0 .. n - 1 : s[k] # j
  BY <1>2 DEF On
<1>9. ASSUME NEW k \in 0 .. n, NEW m \in 0 .. n, t[k] = t[m] PROVE k = m
  <2>1. k # 0 /\ m # 0 => k = m
    <3>1. ASSUME k # 0, m # 0 PROVE k = m
      <4>1. /\ k \in 1 .. n + 1 /\ m \in 1 .. n + 1
            /\ k - 1 \in 0 .. n - 1 /\ m - 1 \in 0 .. n - 1
        BY <1>6, <3>1
      <4>2. s[k - 1] = s[m - 1]
        BY <1>5, <1>9, <4>1
      <4>3. k - 1 = m - 1
        BY <1>1, <4>1, <4>2 DEF Path
      <4> QED
        BY <4>3
    <3> QED
      BY <3>1
  <2>2. ASSUME NEW x \in 0 .. n, x # 0 PROVE t[x] # t[0]
    <3>1. x \in 1 .. n + 1 /\ x - 1 \in 0 .. n - 1
      BY <1>6, <2>2
    <3> QED
      BY <1>4, <1>5, <1>8, <3>1
  <2> QED
    BY <1>9, <2>1, <2>2
<1>10. Path(file, j, n + 1, t)
  <2>1. n + 1 \in Nat /\ (n + 1) - 1 = n
    BY <1>3
  <2> QED
    BY <1>4, <1>7, <1>9, <2>1 DEF Path
<1>11. On(n + 1, t) = {j} \cup On(n, s)
  <2>1. (n + 1) - 1 = n
    BY <1>3
  <2>2. ASSUME NEW k \in 0 .. n PROVE t[k] \in {j} \cup On(n, s)
    <3>1. CASE k = 0
      BY <1>4, <3>1
    <3>2. CASE k # 0
      BY <1>5, <1>6, <3>2 DEF On
    <3> QED
      BY <3>1, <3>2
  <2>3. ASSUME NEW k \in 0 .. n - 1 PROVE \E m \in 0 .. n : t[m] = s[k]
    <3>1. k + 1 \in 0 .. n /\ k \in 0 .. n
      BY <1>3
    <3> QED
      BY <1>4, <3>1
  <2>4. 0 \in 0 .. n /\ t[0] = j
    BY <1>3, <1>4
  <2>5. On(n + 1, t) = {t[k] : k \in 0 .. n}
    BY <2>1 DEF On
  <2> QED
    BY <2>2, <2>3, <2>4, <2>5 DEF On
<1> QED
  BY <1>2, <1>10, <1>11, LinkedIs DEF HasPath

(* A record is taken off a list when what pointed to it points to what it  *)
(* points to.                                                              *)
LEMMA LinkedCut ==
  ASSUME NEW file, Len(file) \in Nat, NEW file2, Len(file2) = Len(file),
         NEW i, HasPath(file, i), NEW j \in Linked(file, i),
         \A k \in Linked(file, i) \ {j} :
           file2[k].ptr = IF file[k].ptr = j THEN file[j].ptr ELSE file[k].ptr
  PROVE  LET i2 == IF i = j THEN file[j].ptr ELSE i
         IN  HasPath(file2, i2) /\ Linked(file2, i2) = Linked(file, i) \ {j}
<1> DEFINE i2 == IF i = j THEN file[j].ptr ELSE i
<1>1. PICK n, s : Path(file, i, n, s)
  BY DEF HasPath
<1>2. Linked(file, i) = On(n, s) /\ On(n, s) \subseteq 1 .. Len(file)
  BY <1>1, LinkedIs
<1>3. PICK m \in 0 .. n - 1 : s[m] = j
  BY <1>2 DEF On
<1>4. /\ n \in Nat /\ s[0] = i /\ s[n] = 0 /\ n # 0 /\ m \in Nat /\ m < n
      /\ \A k \in 0 .. n - 1 : s[k] \in 1 .. Len(file) /\ s[k + 1] = file[s[k]].ptr
      /\ \A x, k \in 0 .. n - 1 : s[x] = s[k] => x = k
  <2>1. /\ n \in Nat /\ s[0] = i /\ s[n] = 0
        /\ \A k \in 0 .. n - 1 : s[k] \in 1 .. Len(file) /\ s[k + 1] = file[s[k]].ptr
        /\ \A x, k \in 0 .. n - 1 : s[x] = s[k] => x = k
    BY <1>1 DEF Path
  <2>2. n # 0 /\ m \in Nat /\ m < n
    BY <2>1
  <2> QED
    BY <2>1, <2>2
<1>5. \A k \in 0 .. n - 1 : s[k] # 0
  BY <1>4
<1> DEFINE t == [k \in 0 .. n - 1 |-> IF k < m THEN s[k] ELSE s[k + 1]]
<1>6. t = [k \in 0 .. n - 1 |-> t[k]]
  OBVIOUS
<1>7. \A k \in 0 .. n - 1 : t[k] = IF k < m THEN s[k] ELSE s[k + 1]
  OBVIOUS
<1> HIDE DEF t
<1>8. t[n - 1] = 0
  <2>1. n - 1 \in 0 .. n - 1 /\ ~(n - 1 < m) /\ (n - 1) + 1 = n
    BY <1>4
  <2> QED
    BY <1>4, <1>7, <2>1
<1>9. t[0] = i2
  <2>0. 0 \in 0 .. n - 1
    BY <1>4
  <2>1. CASE m = 0
    <3>1. t[0] = s[0 + 1] /\ s[0 + 1] = file[s[0]].ptr /\ i = j
      BY <1>3, <1>4, <1>7, <2>0, <2>1
    <3> QED
      BY <1>4, <3>1
  <2>2. CASE m # 0
    <3>1. 0 < m /\ i # j
      BY <1>3, <1>4, <2>0, <2>2
    <3> QED
      BY <1>4, <1>7, <2>0, <3>1
  <2> QED
    BY <2>1, <2>2
<1>10. ASSUME NEW k \in 0 .. n - 2
       PROVE  t[k] \in 1 .. Len(file) /\ t[k] # j /\ t[k] \in On(n, s) /\ t[k + 1] = file2[t[k]].ptr
  <2>0. /\ k \in 0 .. n - 1 /\ k + 1 \in 0 .. n - 1 /\ (k + 1) + 1 = k + 2
        /\ (k + 2 = n \/ k + 2 \in 0 .. n - 1) /\ (k + 2 # m \/ k < m)
    BY <1>4
  <2>1. CASE k + 1 < m
    <3>1. t[k] = s[k] /\ t[k + 1] = s[k + 1] /\ k # m /\ k + 1 # m
      BY <1>4, <1>7, <2>0, <2>1
    <3>2. s[k] # j /\ s[k + 1] # j /\ s[k + 1] = file[s[k]].ptr /\ s[k] \in 1 .. Len(file)
      BY <1>3, <1>4, <2>0, <3>1
    <3>3. s[k] \in On(n, s)
      BY <2>0 DEF On
    <3>4. file2[s[k]].ptr = s[k + 1]
      BY <1>2, <3>2, <3>3
    <3> QED
      BY <3>1, <3>2, <3>3, <3>4
  <2>2. CASE k + 1 = m
    <3>1. t[k] = s[k] /\ t[k + 1] = s[(k + 1) + 1] /\ k # m
      BY <1>4, <1>7, <2>0, <2>2
    <3>2. s[k] # j /\ s[k + 1] = j /\ s[k + 1] = file[s[k]].ptr /\ s[k] \in 1 .. Len(file)
      BY <1>3, <1>4, <2>0, <2>2, <3>1
    <3>3. s[k] \in On(n, s)
      BY <2>0 DEF On
    <3>4. s[(k + 1) + 1] = file[s[k + 1]].ptr
      BY <1>4, <2>0
    <3>5. file2[s[k]].ptr = file[j].ptr
      BY <1>2, <3>2, <3>3
    <3> QED
      BY <3>1, <3>2, <3>3, <3>4, <3>5
  <2>3. CASE k >= m
    <3>0. ~(k < m) /\ ~(k + 1 < m) /\ k + 1 # m /\ k + 2 # m
      BY <1>4, <2>3
    <3>1. t[k] = s[k + 1] /\ t[k + 1] = s[k + 2]
      BY <1>7, <2>0, <3>0
    <3>2. s[k + 1] # j /\ s[k + 2] = file[s[k + 1]].ptr /\ s[k + 1] \in 1 .. Len(file)
      BY <1>3, <1>4, <2>0, <3>0
    <3>3. s[k + 2] # j
      <4>1. CASE k + 2 = n
        BY <1>3, <1>4, <1>5, <4>1
      <4>2. CASE k + 2 \in 0 .. n - 1
        BY <1>3, <1>4, <3>0, <4>2
      <4>3. k + 2 = n \/ k + 2 \in 0 .. n - 1
        BY <1>4
      <4> QED
        BY <4>1, <4>2, <4>3
    <3>4. s[k + 1] \in On(n, s)
      BY <2>0 DEF On
    <3>5. file2[s[k + 1]].ptr = s[k + 2]
      BY <1>2, <3>2, <3>3, <3>4
    <3> QED
      BY <3>1, <3>2, <3>4, <3>5
  <2> QED
    BY <1>4, <2>1, <2>2, <2>3
<1>11. ASSUME NEW x \in 0 .. n - 2, NEW k \in 0 .. n - 2, t[x] = t[k] PROVE x = k
  <2> DEFINE o(y) == IF y < m THEN y ELSE y + 1
  <2>1. \A y \in 0 .. n - 2 : y \in 0 .. n - 1 /\ o(y) \in 0 .. n - 1
    BY <1>4
  <2>2. \A y \in 0 .. n - 2 : t[y] = s[o(y)]
    BY <1>7, <2>1
  <2>3. o(x) = o(k)
    <3> HIDE DEF o
    <3>1. s[o(x)] = s[o(k)] /\ o(x) \in 0 .. n - 1 /\ o(k) \in 0 .. n - 1
      BY <1>11, <2>1, <2>2
    <3> QED
      BY <1>4, <3>1
  <2> QED
    BY <1>4, <2>3
<1>12. Path(file2, i2, n - 1, t)
  <2>1. n - 1 \in Nat /\ (n - 1) - 1 = n - 2
    BY <1>4
  <2> HIDE DEF i2
  <2> QED
    BY <1>6, <1>8, <1>9, <1>10, <1>11, <2>1 DEF Path
<1>13. On(n - 1, t) = On(n, s) \ {j}
  <2>1. On(n - 1, t) = {t[k] : k \in 0 .. n - 2}
    <3>1. (n - 1) - 1 = n - 2
      BY <1>4
    <3> QED
      BY <3>1 DEF On
  <2>2. ASSUME NEW k \in 0 .. n - 1, s[k] # j PROVE \E x \in 0 .. n - 2 : t[x] = s[k]
    <3>1. CASE k < m
      <4>1. k \in 0 .. n - 2
        BY <1>4, <3>1
      <4> QED
        BY <1>7, <3>1, <4>1
    <3>2. CASE k > m
      <4>1. k - 1 \in 0 .. n - 2 /\ k - 1 \in 0 .. n - 1 /\ ~(k - 1 < m) /\ (k - 1) + 1 = k
        BY <1>4, <3>2
      <4>2. t[k - 1] = s[k]
        BY <1>7, <4>1
      <4> QED
        BY <4>1, <4>2
    <3>3. k # m
      BY <1>3, <2>2
    <3> QED
      BY <1>4, <3>1, <3>2, <3>3
  <2>3. \A k \in 0 .. n - 2 : t[k] \in On(n, s) \ {j}
    BY <1>10
  <2>4. \A x \in On(n, s) \ {j} : x \in On(n - 1, t)
    <3>1. \A x \in On(n, s) : \E k \in 0 .. n - 1 : x = s[k]
      BY DEF On
    <3> QED
      BY <2>1, <2>2, <3>1
  <2>5. \A x \in On(n - 1, t) : x \in On(n, s) \ {j}
    BY <2>1, <2>3
  <2> QED
    BY <2>4, <2>5
<1>14. Linked(file2, i2) = On(n - 1, t)
  BY <1>4, <1>12, LinkedIs
<1> QED
  BY <1>2, <1>12, <1>13, <1>14 DEF HasPath


-----------------------------------------------------------------------------
(* The inductive invariant                                                 *)

Lens == {DatLen[d] : d \in Datas}
IdxRec == [key : Keys \cup {Blank}, dat : Nat, len : Lens, ptr : Nat]
Pcs == {"idle", "dead", "find", "findfree", "delete", "overwrite", "reuse", "reuseidx", "lockdat",
        "appenddat", "lockidx", "appendidx", "writeptr", "unlock"}
Local == [pc : Pcs, key : Keys \cup {None}, data : Datas \cup {None},
          flag : SUBSET {"insert", "replace"}, ptrval : Nat, datoff : Nat, idxoff : Nat,
          old : Datas \cup {Absent}, rc : {Pending, 0, 1, -1}]

DbTypes ==
  /\ idx \in Seq(IdxRec) /\ dat \in Seq(Datas \cup {Blank})
  /\ chain \in [Chains -> Nat] /\ free \in Seq(Nat)
  /\ chainlock \in [Chains -> Procs \cup {NoProc}]
  /\ datlock \in Procs \cup {NoProc} /\ idxlock \in Procs \cup {NoProc}
  /\ db \in [Procs -> Local]

(* Where a call is: it has found its record, it adds one, it holds a       *)
(* record that no list leads to, it holds data no record leads to.         *)
Changing == {"delete", "overwrite"}
Adding == {"findfree", "reuse", "reuseidx", "lockdat", "appenddat", "lockidx", "appendidx", "writeptr"}
Holding == Changing \cup Adding \cup {"unlock"}
HasRecord == {"reuse", "reuseidx", "writeptr"}
HasData == {"lockidx", "appendidx"}

(* Every chain ends; the records on it are the chain's, one for each key.  *)
ChainOk(h) ==
  /\ HasPath(idx, chain[h]) /\ InChain(h) \subseteq DOMAIN idx /\ InChain(h) \cap Free = {}
  /\ \A i \in InChain(h) : idx[i].key \in Keys /\ Hash[idx[i].key] = h /\ dat[idx[i].dat] \in Datas
  /\ \A i, j \in InChain(h) : idx[i].key = idx[j].key => i = j

(* The records on the free list are blank, and on it once.                 *)
FreeOk ==
  /\ Free \subseteq DOMAIN idx
  /\ \A i \in Free : idx[i].key = Blank /\ dat[idx[i].dat] = Blank
  /\ \A m, n \in DOMAIN free : free[m] = free[n] => m = n

(* No two records ever share data, those on no list included.              *)
DataOk ==
  /\ \A i \in DOMAIN idx : idx[i].dat \in DOMAIN dat
  /\ \A i, j \in DOMAIN idx : idx[i].dat = idx[j].dat => i = j

Called(p) ==
  /\ db[p].pc \notin {"idle", "dead"} => db[p].key \in Keys /\ db[p].data \in Datas
  /\ db[p].rc = Pending <=> db[p].pc # "unlock"
  /\ db[p].pc = "find" => db[p].old = Absent
Locks(p) ==
  /\ db[p].pc \in Holding => chainlock[ChainOf(p)] = p
  /\ db[p].pc = "appenddat" => datlock = p /\ db[p].datoff = Len(dat) + 1
  /\ db[p].pc = "appendidx" => idxlock = p /\ db[p].idxoff = Len(idx) + 1
Changes(p) ==
  db[p].pc \in Changing =>
    /\ db[p].idxoff \in Found(db[p].key) /\ db[p].datoff = idx[db[p].idxoff].dat
    /\ db[p].old = dat[db[p].datoff] /\ "insert" \notin db[p].flag
Adds(p) ==
  db[p].pc \in Adding =>
    /\ Found(db[p].key) = {} /\ db[p].ptrval = chain[ChainOf(p)]
    /\ db[p].old = Absent => "replace" \notin db[p].flag
    /\ db[p].old # Absent => "insert" \notin db[p].flag
    /\ db[p].pc \in {"findfree", "reuse", "reuseidx"} => db[p].old = Absent
OwnsRecord(p) ==
  /\ db[p].pc \in HasRecord =>
       /\ db[p].idxoff \in DOMAIN idx \ Free /\ \A h \in Chains : db[p].idxoff \notin InChain(h)
       /\ db[p].datoff = idx[db[p].idxoff].dat
  /\ db[p].pc = "writeptr" =>
       idx[db[p].idxoff].key = db[p].key /\ idx[db[p].idxoff].ptr = db[p].ptrval
OwnsData(p) ==
  /\ db[p].pc \in HasData =>
       db[p].datoff \in DOMAIN dat /\ \A i \in DOMAIN idx : idx[i].dat # db[p].datoff
  /\ db[p].pc \in HasData \cup {"reuseidx", "writeptr"} => dat[db[p].datoff] = db[p].data
LocalOk(p) == Called(p) /\ Locks(p) /\ Changes(p) /\ Adds(p) /\ OwnsRecord(p) /\ OwnsData(p)

(* No two calls hold the same record or the same data.                     *)
Apart ==
  \A p, q \in Procs : p # q =>
    /\ db[p].pc \in HasRecord /\ db[q].pc \in HasRecord => db[p].idxoff # db[q].idxoff
    /\ db[p].pc \in HasData /\ db[q].pc \in HasData => db[p].datoff # db[q].datoff

DbInv ==
  /\ DbTypes /\ FreeOk /\ DataOk /\ Apart
  /\ \A h \in Chains : ChainOk(h)
  /\ \A p \in Procs : LocalOk(p)

-----------------------------------------------------------------------------
(* The locals                                                              *)

(* What an assignment to some of a process's locals leaves of the others.  *)
LEMMA LocalIs ==
  ASSUME NEW r \in Local
  PROVE  /\ r.pc \in Pcs /\ r.key \in Keys \cup {None} /\ r.data \in Datas \cup {None}
         /\ r.flag \in SUBSET {"insert", "replace"} /\ r.ptrval \in Nat /\ r.datoff \in Nat
         /\ r.idxoff \in Nat /\ r.old \in Datas \cup {Absent} /\ r.rc \in {Pending, 0, 1, -1}
BY DEF Local

LEMMA IdleIs ==
  /\ Idle \in Local /\ [Idle EXCEPT !.pc = "dead"] \in Local
  /\ Idle.pc = "idle" /\ Idle.rc = Pending
  /\ [Idle EXCEPT !.pc = "dead"].pc = "dead" /\ [Idle EXCEPT !.pc = "dead"].rc = Pending
<1>1. Idle \in Local
  BY DEF Idle, Local, Pcs
<1>2. [Idle EXCEPT !.pc = "dead"] \in Local
  BY DEF Idle, Local, Pcs
<1> QED
  BY <1>1, <1>2 DEF Idle

-----------------------------------------------------------------------------
(* What a step leaves                                                      *)

(* Process p goes on to x, and assigns what is given to four of its locals.*)
Moves(p, x, ptrval, datoff, idxoff, old) ==
  /\ db' \in [Procs -> Local] /\ \A q \in Procs \ {p} : db'[q] = db[q]
  /\ db'[p].pc = x /\ db'[p].key = db[p].key /\ db'[p].data = db[p].data
  /\ db'[p].flag = db[p].flag /\ db'[p].rc = db[p].rc /\ db'[p].ptrval = ptrval
  /\ db'[p].datoff = datoff /\ db'[p].idxoff = idxoff /\ db'[p].old = old
Goes(p, x) == Moves(p, x, db[p].ptrval, db[p].datoff, db[p].idxoff, db[p].old)
Finishes(p, n) ==
  /\ db' \in [Procs -> Local] /\ \A q \in Procs \ {p} : db'[q] = db[q]
  /\ db'[p].pc = "unlock" /\ db'[p].key = db[p].key /\ db'[p].data = db[p].data
  /\ db'[p].flag = db[p].flag /\ db'[p].rc = n

LEMMA GotoMoves ==
  ASSUME DbTypes, NEW p \in Procs, NEW x \in Pcs, Goto(p, x)
  PROVE  Goes(p, x)
<1> DEFINE r == [db[p] EXCEPT !.pc = x]
<1>1. db[p] \in Local /\ db \in [Procs -> Local]
  BY DEF DbTypes
<1>2. r \in Local /\ r.pc = x /\ r.key = db[p].key /\ r.data = db[p].data /\ r.flag = db[p].flag
  BY <1>1 DEF Local
<1>3. r.ptrval = db[p].ptrval /\ r.datoff = db[p].datoff /\ r.idxoff = db[p].idxoff
      /\ r.old = db[p].old /\ r.rc = db[p].rc
  BY <1>1 DEF Local
<1>4. db' = [db EXCEPT ![p] = r]
  BY DEF Goto
<1> HIDE DEF r
<1>5. db' \in [Procs -> Local] /\ db'[p] = r /\ \A q \in Procs \ {p} : db'[q] = db[q]
  BY <1>1, <1>2, <1>4
<1> QED
  BY <1>2, <1>3, <1>5 DEF Goes, Moves

LEMMA DoneMoves ==
  ASSUME DbTypes, NEW p \in Procs, NEW n \in {0, 1, -1}, Done(p, n)
  PROVE  Finishes(p, n)
<1> DEFINE r == [db[p] EXCEPT !.pc = "unlock", !.rc = n]
<1>1. db[p] \in Local /\ db \in [Procs -> Local]
  BY DEF DbTypes
<1>2. r \in Local /\ r.pc = "unlock" /\ r.key = db[p].key /\ r.data = db[p].data
      /\ r.flag = db[p].flag /\ r.rc = n
  BY <1>1 DEF Local, Pcs
<1>3. db' = [db EXCEPT ![p] = r]
  BY DEF Done
<1> HIDE DEF r
<1>4. db' \in [Procs -> Local] /\ db'[p] = r /\ \A q \in Procs \ {p} : db'[q] = db[q]
  BY <1>1, <1>2, <1>3
<1> QED
  BY <1>2, <1>4 DEF Finishes

(* A call that has its result holds the lock of its chain and nothing else.*)
LEMMA DoneOk ==
  ASSUME NEW p \in Procs, NEW n \in {0, 1, -1}, Finishes(p, n), chainlock'[ChainOf(p)] = p,
         db[p].key \in Keys, db[p].data \in Datas
  PROVE  LocalOk(p)' /\ db'[p].pc \notin HasRecord /\ db'[p].pc \notin HasData
<1>1. /\ db'[p].pc = "unlock" /\ db'[p].key = db[p].key /\ db'[p].data = db[p].data
      /\ db'[p].rc # Pending
  BY DbAssumption DEF Finishes
<1>2. Called(p)'
  BY <1>1 DEF Called
<1>3. Locks(p)'
  BY <1>1 DEF Locks, ChainOf
<1>4. Changes(p)' /\ Adds(p)'
  BY <1>1 DEF Changes, Adds, Changing, Adding
<1>5. OwnsRecord(p)' /\ OwnsData(p)'
  BY <1>1 DEF OwnsRecord, OwnsData, HasRecord, HasData
<1> QED
  BY <1>1, <1>2, <1>3, <1>4, <1>5 DEF LocalOk, HasRecord, HasData

(* A chain that a step does not change, nor the records on it.             *)
ChainKept(h) ==
  /\ chain'[h] = chain[h] /\ HasPath(idx, chain[h])' /\ InChain(h)' = InChain(h)
  /\ \A i \in InChain(h) : i \in DOMAIN idx' /\ idx'[i] = idx[i] /\ dat'[idx[i].dat] = dat[idx[i].dat]

(* A step of another process leaves process q what it relies on.           *)
Spares(q) ==
  /\ db'[q] = db[q]
  /\ db[q].pc \in Holding => chainlock'[ChainOf(q)] = q /\ ChainKept(ChainOf(q))
  /\ db[q].pc = "appenddat" => datlock' = q /\ Len(dat') = Len(dat)
  /\ db[q].pc = "appendidx" => idxlock' = q /\ Len(idx') = Len(idx)
  /\ db[q].pc \in HasRecord =>
       /\ db[q].idxoff \in DOMAIN idx' \ Free' /\ idx'[db[q].idxoff] = idx[db[q].idxoff]
       /\ \A h \in Chains : db[q].idxoff \notin InChain(h)'
  /\ db[q].pc \in HasData \cup {"reuseidx", "writeptr"} => dat'[db[q].datoff] = dat[db[q].datoff]
  /\ db[q].pc \in HasData =>
       db[q].datoff \in DOMAIN dat' /\ \A i \in DOMAIN idx' : idx'[i].dat # db[q].datoff

(* The same records hold the key, with the same data.                      *)
SameFound(k) == Found(k)' = Found(k) /\ \A i \in Found(k) : dat'[idx'[i].dat] = dat[idx[i].dat]

LEMMA FoundKept ==
  ASSUME NEW k \in Keys, ChainKept(Hash[k])
  PROVE  SameFound(k) /\ Found(k)' = Found(k) /\ \A i \in Found(k) : idx'[i] = idx[i]
BY DEF ChainKept, Found, SameFound

LEMMA ChainsIn ==
  ASSUME NEW k \in Keys
  PROVE  Hash[k] \in Chains
BY DEF Chains

LEMMA SparedOk ==
  ASSUME DbInv, NEW q \in Procs, Spares(q)
  PROVE  LocalOk(q)'
<1>1. LocalOk(q) /\ db'[q] = db[q]
  BY DEF DbInv, Spares
<1>2. ChainOf(q)' = ChainOf(q)
  BY <1>1 DEF ChainOf
<1>3. Called(q)'
  BY <1>1 DEF LocalOk, Called
<1>4. Locks(q)'
  BY <1>1, <1>2 DEF LocalOk, Locks, Spares
<1>5. ASSUME db[q].pc \in Holding
      PROVE  /\ Found(db[q].key)' = Found(db[q].key) /\ chain'[ChainOf(q)] = chain[ChainOf(q)]
             /\ \A i \in Found(db[q].key) : idx'[i] = idx[i] /\ dat'[idx[i].dat] = dat[idx[i].dat]
  <2>1. db[q].key \in Keys
    BY <1>1, <1>5 DEF LocalOk, Called, Holding, Changing, Adding
  <2>2. ChainKept(Hash[db[q].key]) /\ ChainOf(q) = Hash[db[q].key]
    BY <1>5 DEF Spares, ChainOf
  <2>3. /\ {i \in InChain(Hash[db[q].key])' : idx'[i].key = db[q].key} = Found(db[q].key)
        /\ \A i \in Found(db[q].key) : idx'[i] = idx[i] /\ dat'[idx[i].dat] = dat[idx[i].dat]
    BY <2>2 DEF ChainKept, Found
  <2>4. Found(db[q].key)' = {i \in InChain(Hash[db[q].key])' : idx'[i].key = db[q].key}
    BY <1>1 DEF Found, InChain
  <2> QED
    BY <2>2, <2>3, <2>4 DEF ChainKept
<1>6. Changes(q)'
  <2>1. ASSUME db[q].pc \in Changing
        PROVE  /\ db[q].idxoff \in Found(db[q].key)' /\ db[q].datoff = idx'[db[q].idxoff].dat
               /\ db[q].old = dat'[db[q].datoff] /\ "insert" \notin db[q].flag
    BY <1>1, <1>5, <2>1 DEF LocalOk, Changes, Holding
  <2> QED
    BY <1>1, <2>1 DEF Changes
<1>7. Adds(q)'
  <2>1. ASSUME db[q].pc \in Adding
        PROVE  Found(db[q].key)' = {} /\ db[q].ptrval = chain'[ChainOf(q)]
    BY <1>1, <1>5, <2>1 DEF LocalOk, Adds, Holding
  <2> QED
    BY <1>1, <1>2, <2>1 DEF Adds, LocalOk
<1>8. OwnsRecord(q)'
  BY <1>1 DEF LocalOk, OwnsRecord, Spares, HasRecord
<1>9. OwnsData(q)'
  BY <1>1 DEF LocalOk, OwnsData, Spares, HasData
<1> QED
  BY <1>3, <1>4, <1>6, <1>7, <1>8, <1>9 DEF LocalOk

LEMMA KeptOk ==
  ASSUME NEW h \in Chains, ChainOk(h), ChainKept(h), InChain(h) \cap Free' = {}
  PROVE  ChainOk(h)'
<1>1. /\ HasPath(idx, chain[h])' /\ InChain(h)' = InChain(h)
      /\ \A i \in InChain(h) : i \in DOMAIN idx' /\ idx'[i] = idx[i] /\ dat'[idx[i].dat] = dat[idx[i].dat]
  BY DEF ChainKept
<1>2. /\ \A i \in InChain(h) : idx[i].key \in Keys /\ Hash[idx[i].key] = h /\ dat[idx[i].dat] \in Datas
      /\ \A i, j \in InChain(h) : idx[i].key = idx[j].key => i = j
  BY DEF ChainOk
<1>3. InChain(h)' \subseteq DOMAIN idx' /\ InChain(h)' \cap Free' = {}
  BY <1>1
<1>4. \A i \in InChain(h)' : idx'[i].key \in Keys /\ Hash[idx'[i].key] = h /\ dat'[idx'[i].dat] \in Datas
  BY <1>1, <1>2
<1>5. \A i, j \in InChain(h)' : idx'[i].key = idx'[j].key => i = j
  BY <1>1, <1>2
<1> QED
  BY <1>1, <1>3, <1>4, <1>5 DEF ChainOk

LEMMA FilesSame ==
  ASSUME DbInv, UNCHANGED files
  PROVE  /\ \A h \in Chains : ChainKept(h) /\ ChainOk(h)'
         /\ FreeOk' /\ DataOk' /\ Free' = Free
<1>1. idx' = idx /\ dat' = dat /\ chain' = chain /\ free' = free
  BY DEF files
<1>2. Free' = Free
  BY <1>1 DEF Free
<1>3. ASSUME NEW h \in Chains PROVE ChainKept(h) /\ ChainOk(h)'
  <2>1. ChainOk(h)
    BY DEF DbInv
  <2>2. InChain(h)' = InChain(h) /\ HasPath(idx, chain[h])'
    BY <1>1, <2>1 DEF InChain, ChainOk
  <2>3. ChainKept(h)
    BY <1>1, <2>1, <2>2 DEF ChainKept, ChainOk
  <2> QED
    BY <1>2, <2>1, <2>3, KeptOk DEF ChainOk
<1>4. FreeOk'
  BY <1>1, <1>2 DEF FreeOk, DbInv
<1>5. DataOk'
  BY <1>1 DEF DataOk, DbInv
<1> QED
  BY <1>2, <1>3, <1>4, <1>5

LEMMA ApartStep ==
  ASSUME Apart, NEW p \in Procs, \A q \in Procs \ {p} : db'[q] = db[q],
         db'[p].pc \in HasRecord =>
           \A q \in Procs \ {p} : db[q].pc \in HasRecord => db[q].idxoff # db'[p].idxoff,
         db'[p].pc \in HasData =>
           \A q \in Procs \ {p} : db[q].pc \in HasData => db[q].datoff # db'[p].datoff
  PROVE  Apart'
BY DEF Apart

LEMMA Together ==
  ASSUME DbInv, NEW p \in Procs, DbTypes', FreeOk', DataOk', Apart',
         \A h \in Chains : ChainOk(h)', LocalOk(p)', \A q \in Procs \ {p} : Spares(q)
  PROVE  DbInv'
<1>1. \A q \in Procs : LocalOk(q)'
  <2> SUFFICES ASSUME NEW q \in Procs PROVE LocalOk(q)'
    OBVIOUS
  <2>1. CASE q = p
    BY <2>1
  <2>2. CASE q # p
    BY <2>2, SparedOk
  <2> QED
    BY <2>1, <2>2
<1> QED
  BY <1>1 DEF DbInv

(* A step that writes to no file and takes no lock from another process.   *)
LocksKept(q) ==
  /\ \A h \in Chains : chainlock[h] = q => chainlock'[h] = q
  /\ datlock = q => datlock' = q
  /\ idxlock = q => idxlock' = q

LEMMA QuietSpares ==
  ASSUME DbInv, UNCHANGED files, NEW q \in Procs, db'[q] = db[q], LocksKept(q)
  PROVE  Spares(q)
<1>1. idx' = idx /\ dat' = dat /\ LocalOk(q)
  BY DEF files, DbInv
<1>2. Free' = Free /\ \A h \in Chains : ChainKept(h) /\ InChain(h)' = InChain(h)
  BY FilesSame DEF ChainKept
<1>3. ASSUME db[q].pc \in Holding PROVE chainlock'[ChainOf(q)] = q /\ ChainKept(ChainOf(q))
  <2>1. ChainOf(q) \in Chains /\ chainlock[ChainOf(q)] = q
    <3>1. db[q].key \in Keys
      BY <1>1, <1>3 DEF LocalOk, Called, Holding, Changing, Adding
    <3> QED
      BY <1>1, <1>3, <3>1, ChainsIn DEF LocalOk, Locks, ChainOf
  <2> QED
    BY <1>2, <2>1 DEF LocksKept
<1>4. db[q].pc = "appenddat" => datlock' = q
  BY <1>1 DEF LocalOk, Locks, LocksKept
<1>5. db[q].pc = "appendidx" => idxlock' = q
  BY <1>1 DEF LocalOk, Locks, LocksKept
<1>6. db[q].pc \in HasRecord =>
       /\ db[q].idxoff \in DOMAIN idx' \ Free' /\ idx'[db[q].idxoff] = idx[db[q].idxoff]
       /\ \A h \in Chains : db[q].idxoff \notin InChain(h)'
  BY <1>1, <1>2 DEF LocalOk, OwnsRecord
<1>7. db[q].pc \in HasData =>
       db[q].datoff \in DOMAIN dat' /\ \A i \in DOMAIN idx' : idx'[i].dat # db[q].datoff
  BY <1>1 DEF LocalOk, OwnsData
<1> QED
  BY <1>1, <1>3, <1>4, <1>5, <1>6, <1>7 DEF Spares

LEMMA QuietStep ==
  ASSUME DbInv, UNCHANGED files, NEW p \in Procs, DbTypes', LocalOk(p)',
         \A q \in Procs \ {p} : db'[q] = db[q] /\ LocksKept(q),
         db'[p].pc \notin HasRecord,
         db'[p].pc \in HasData => db[p].pc \in HasData /\ db'[p].datoff = db[p].datoff
  PROVE  DbInv'
<1>1. \A h \in Chains : ChainOk(h)'
  BY FilesSame
<1>2. FreeOk' /\ DataOk'
  BY FilesSame
<1>3. \A q \in Procs \ {p} : Spares(q)
  BY QuietSpares
<1>4. Apart
  BY DEF DbInv
<1>5. Apart'
  <2>1. db'[p].pc \in HasData =>
          \A q \in Procs \ {p} : db[q].pc \in HasData => db[q].datoff # db'[p].datoff
    BY <1>4 DEF Apart
  <2> QED
    BY <1>4, <2>1, ApartStep
<1> QED
  BY <1>1, <1>2, <1>3, <1>5, Together

LEMMA QuietFound ==
  ASSUME DbInv, UNCHANGED files
  PROVE  \A k \in Keys : Found(k)' = Found(k)
BY FilesSame, FoundKept, ChainsIn

LEMMA Typing ==
  ASSUME DbInv, NEW p \in Procs
  PROVE  /\ idx \in Seq(IdxRec) /\ dat \in Seq(Datas \cup {Blank})
         /\ chain \in [Chains -> Nat] /\ free \in Seq(Nat)
         /\ chainlock \in [Chains -> Procs \cup {NoProc}]
         /\ datlock \in Procs \cup {NoProc} /\ idxlock \in Procs \cup {NoProc}
         /\ db \in [Procs -> Local] /\ db[p] \in Local /\ LocalOk(p) /\ p # NoProc
         /\ db[p].pc \notin {"idle", "dead"} =>
              db[p].key \in Keys /\ db[p].data \in Datas /\ ChainOf(p) \in Chains
<1>1. DbTypes /\ LocalOk(p)
  BY DEF DbInv
<1>2. db[p].pc \notin {"idle", "dead"} => db[p].key \in Keys /\ db[p].data \in Datas
  BY <1>1 DEF LocalOk, Called
<1>3. db[p].key \in Keys => ChainOf(p) \in Chains
  BY ChainsIn DEF ChainOf
<1> QED
  BY <1>1, <1>2, <1>3, DbAssumption DEF DbTypes

-----------------------------------------------------------------------------
(* The steps that write to no file                                         *)

LEMMA CallKeeps ==
  ASSUME DbInv, NEW p \in Procs, Call(p)
  PROVE  DbInv'
<1>1. UNCHANGED files /\ UNCHANGED locks
  BY DEF Call
<1>2. /\ db \in [Procs -> Local] /\ DbTypes
  BY Typing DEF DbInv
<1>3. PICK k \in Keys, d \in Datas, f \in Flags :
        \/ db' = [db EXCEPT ![p] = [Idle EXCEPT !.pc = "dead"]]
        \/ db' = [db EXCEPT ![p] = [Idle EXCEPT !.pc = "find", !.key = k, !.data = d, !.flag = f]]
  BY DEF Call
<1>4. PICK r : /\ db' = [db EXCEPT ![p] = r] /\ r \in Local /\ r.rc = Pending
               /\ \/ r.pc = "dead"
                  \/ r.pc = "find" /\ r.key \in Keys /\ r.data \in Datas /\ r.old = Absent
  <2> DEFINE r1 == [Idle EXCEPT !.pc = "dead"]
             r2 == [Idle EXCEPT !.pc = "find", !.key = k, !.data = d, !.flag = f]
  <2>1. r1 \in Local /\ r1.rc = Pending /\ r1.pc = "dead"
    BY IdleIs
  <2>2. r2 \in Local /\ r2.rc = Pending /\ r2.pc = "find" /\ r2.key = k /\ r2.data = d /\ r2.old = Absent
    <3>1. k \in Keys /\ d \in Datas /\ f \in SUBSET {"insert", "replace"}
      BY <1>3, DbAssumption
    <3> QED
      BY <3>1 DEF Idle, Local, Pcs
  <2>3. db' = [db EXCEPT ![p] = r1] \/ db' = [db EXCEPT ![p] = r2]
    BY <1>3
  <2> HIDE DEF r1, r2
  <2> QED
    BY <2>1, <2>2, <2>3
<1>5. db' \in [Procs -> Local] /\ db'[p] = r /\ \A q \in Procs \ {p} : db'[q] = db[q]
  BY <1>2, <1>4
<1>6. DbTypes'
  BY <1>1, <1>2, <1>5 DEF DbTypes, files, locks
<1>7. LocalOk(p)'
  <2>1. Called(p)'
    BY <1>4, <1>5 DEF Called
  <2>2. Locks(p)' /\ Changes(p)'
    BY <1>4, <1>5 DEF Locks, Changes, Holding, Changing, Adding
  <2>3. Adds(p)'
    BY <1>4, <1>5 DEF Adds, Adding
  <2>4. OwnsRecord(p)' /\ OwnsData(p)'
    BY <1>4, <1>5 DEF OwnsRecord, OwnsData, HasRecord, HasData
  <2> QED
    BY <2>1, <2>2, <2>3, <2>4 DEF LocalOk
<1>8. \A q \in Procs \ {p} : LocksKept(q)
  BY <1>1 DEF LocksKept, locks
<1>9. db'[p].pc \notin HasRecord /\ db'[p].pc \notin HasData
  BY <1>4, <1>5 DEF HasRecord, HasData
<1> QED
  BY <1>1, <1>5, <1>6, <1>7, <1>8, <1>9, QuietStep

(* Taking the lock of the chain keeps the others' locks.                   *)
LEMMA LockChainKeeps ==
  ASSUME DbInv, NEW p \in Procs, db[p].pc = "find", LockChain(p)
  PROVE  /\ chainlock' \in [Chains -> Procs \cup {NoProc}] /\ chainlock'[ChainOf(p)] = p
         /\ \A q \in Procs : \A h \in Chains : chainlock[h] = q => chainlock'[h] = q
<1>1. /\ chainlock \in [Chains -> Procs \cup {NoProc}] /\ ChainOf(p) \in Chains
      /\ \A q \in Procs : q # NoProc
  BY Typing
<1> QED
  BY <1>1 DEF LockChain

LEMMA FindRecordKeeps ==
  ASSUME DbInv, NEW p \in Procs, FindRecord(p)
  PROVE  DbInv'
<1>1. /\ UNCHANGED files /\ datlock' = datlock /\ idxlock' = idxlock
      /\ db[p].pc = "find" /\ LockChain(p)
  BY DEF FindRecord, At
<1>2. /\ chainlock' \in [Chains -> Procs \cup {NoProc}] /\ chainlock'[ChainOf(p)] = p
      /\ \A q \in Procs : \A h \in Chains : chainlock[h] = q => chainlock'[h] = q
  BY <1>1, LockChainKeeps
<1>3. /\ db \in [Procs -> Local] /\ db[p] \in Local /\ DbTypes /\ LocalOk(p)
      /\ db[p].key \in Keys /\ db[p].data \in Datas /\ ChainOf(p) \in Chains /\ db[p].rc = Pending
  BY <1>1, Typing DEF DbInv, LocalOk, Called
<1>4. \A q \in Procs \ {p} : LocksKept(q)
  BY <1>1, <1>2 DEF LocksKept
<1>5. PICK i \in Found(db[p].key) :
        IF "insert" \in db[p].flag THEN Done(p, 1)
        ELSE db' = [db EXCEPT ![p].pc = IF DatLen[db[p].data] # idx[i].len THEN "delete" ELSE "overwrite",
                              ![p].idxoff = i, ![p].datoff = idx[i].dat, ![p].old = dat[idx[i].dat]]
  BY DEF FindRecord
<1>6. CASE Done(p, 1)
  <2>1. 1 \in {0, 1, -1}
    OBVIOUS
  <2>2. Finishes(p, 1)
    BY <1>3, <1>6, <2>1, DoneMoves
  <2>3. LocalOk(p)' /\ db'[p].pc \notin HasRecord /\ db'[p].pc \notin HasData
    BY <1>2, <1>3, <2>1, <2>2, DoneOk
  <2>4. db' \in [Procs -> Local] /\ \A q \in Procs \ {p} : db'[q] = db[q]
    BY <2>2 DEF Finishes
  <2>5. DbTypes'
    BY <1>1, <1>2, <1>3, <2>4 DEF DbTypes, files
  <2> QED
    BY <1>1, <1>4, <2>3, <2>4, <2>5, QuietStep
<1>7. CASE "insert" \notin db[p].flag
  <2>1. /\ i \in DOMAIN idx /\ idx[i].dat \in Nat /\ dat[idx[i].dat] \in Datas
    <3>1. ChainOk(ChainOf(p)) /\ idx \in Seq(IdxRec) /\ i \in InChain(ChainOf(p))
      BY <1>3, Typing DEF DbInv, Found, ChainOf
    <3>2. i \in DOMAIN idx /\ dat[idx[i].dat] \in Datas
      BY <3>1 DEF ChainOk
    <3>3. idx[i] \in IdxRec
      BY <3>1, <3>2
    <3> QED
      BY <3>2, <3>3 DEF IdxRec
  <2>2. PICK x \in Changing : Moves(p, x, db[p].ptrval, idx[i].dat, i, dat[idx[i].dat])
    <3> DEFINE x == IF DatLen[db[p].data] # idx[i].len THEN "delete" ELSE "overwrite"
               r == [db[p] EXCEPT !.pc = x, !.idxoff = i, !.datoff = idx[i].dat, !.old = dat[idx[i].dat]]
    <3>1. x \in Changing /\ x \in Pcs /\ i \in Nat
      BY <1>3, <2>1 DEF Changing, Pcs, DbTypes
    <3>2. db' = [db EXCEPT ![p] = r]
      BY <1>5, <1>7
    <3> HIDE DEF x
    <3>3. r \in Local /\ r.pc = x /\ r.key = db[p].key /\ r.data = db[p].data /\ r.flag = db[p].flag
      BY <1>3, <2>1, <3>1 DEF Local
    <3>4. /\ r.ptrval = db[p].ptrval /\ r.datoff = idx[i].dat /\ r.idxoff = i
          /\ r.old = dat[idx[i].dat] /\ r.rc = db[p].rc
      BY <1>3 DEF Local
    <3> HIDE DEF r
    <3>5. db' \in [Procs -> Local] /\ db'[p] = r /\ \A q \in Procs \ {p} : db'[q] = db[q]
      BY <1>3, <3>2, <3>3
    <3> QED
      BY <3>1, <3>3, <3>4, <3>5 DEF Moves
  <2>3. /\ db' \in [Procs -> Local] /\ \A q \in Procs \ {p} : db'[q] = db[q]
        /\ db'[p].pc \in Changing /\ db'[p].key = db[p].key /\ db'[p].data = db[p].data
        /\ db'[p].flag = db[p].flag /\ db'[p].rc = db[p].rc
        /\ db'[p].datoff = idx[i].dat /\ db'[p].idxoff = i /\ db'[p].old = dat[idx[i].dat]
    BY <2>2 DEF Moves
  <2>4. DbTypes'
    BY <1>1, <1>2, <1>3, <2>3 DEF DbTypes, files
  <2>5. LocalOk(p)'
    <3>1. Called(p)'
      BY <1>3, <2>3 DEF Called, Changing
    <3>2. Locks(p)'
      BY <1>2, <2>3 DEF Locks, ChainOf, Changing
    <3>3. Changes(p)'
      <4>1. Found(db[p].key)' = Found(db'[p].key)
        BY <1>1, <1>3, <2>3, QuietFound
      <4>2. idx' = idx /\ dat' = dat
        BY <1>1 DEF files
      <4> QED
        BY <1>7, <2>3, <4>1, <4>2 DEF Changes
    <3>4. Adds(p)'
      BY <2>3 DEF Adds, Changing, Adding
    <3>5. OwnsRecord(p)' /\ OwnsData(p)'
      BY <2>3 DEF OwnsRecord, OwnsData, HasRecord, HasData, Changing
    <3> QED
      BY <3>1, <3>2, <3>3, <3>4, <3>5 DEF LocalOk
  <2>6. db'[p].pc \notin HasRecord /\ db'[p].pc \notin HasData
    BY <2>3 DEF HasRecord, HasData, Changing
  <2> QED
    BY <1>1, <1>4, <2>3, <2>4, <2>5, <2>6, QuietStep
<1> QED
  BY <1>5, <1>6, <1>7

LEMMA FindNoneKeeps ==
  ASSUME DbInv, NEW p \in Procs, FindNone(p)
  PROVE  DbInv'
<1>1. /\ UNCHANGED files /\ datlock' = datlock /\ idxlock' = idxlock
      /\ db[p].pc = "find" /\ LockChain(p) /\ Found(db[p].key) = {}
  BY DEF FindNone, At
<1>2. /\ chainlock' \in [Chains -> Procs \cup {NoProc}] /\ chainlock'[ChainOf(p)] = p
      /\ \A q \in Procs : \A h \in Chains : chainlock[h] = q => chainlock'[h] = q
  BY <1>1, LockChainKeeps
<1>3. /\ db \in [Procs -> Local] /\ db[p] \in Local /\ DbTypes /\ LocalOk(p)
      /\ db[p].key \in Keys /\ db[p].data \in Datas /\ ChainOf(p) \in Chains /\ db[p].rc = Pending
      /\ chain \in [Chains -> Nat]
  BY <1>1, Typing DEF DbInv, LocalOk, Called
<1>4. \A q \in Procs \ {p} : LocksKept(q)
  BY <1>1, <1>2 DEF LocksKept
<1>5. CASE Done(p, -1)
  <2>1. -1 \in {0, 1, -1}
    OBVIOUS
  <2>2. Finishes(p, -1)
    BY <1>3, <1>5, <2>1, DoneMoves
  <2>3. LocalOk(p)' /\ db'[p].pc \notin HasRecord /\ db'[p].pc \notin HasData
    BY <1>2, <1>3, <2>1, <2>2, DoneOk
  <2>4. db' \in [Procs -> Local] /\ \A q \in Procs \ {p} : db'[q] = db[q]
    BY <2>2 DEF Finishes
  <2>5. DbTypes'
    BY <1>1, <1>2, <1>3, <2>4 DEF DbTypes, files
  <2> QED
    BY <1>1, <1>4, <2>3, <2>4, <2>5, QuietStep
<1>6. CASE /\ "replace" \notin db[p].flag
           /\ db' = [db EXCEPT ![p].pc = "findfree", ![p].ptrval = chain[ChainOf(p)]]
  <2>1. Moves(p, "findfree", chain[ChainOf(p)], db[p].datoff, db[p].idxoff, db[p].old)
    <3> DEFINE r == [db[p] EXCEPT !.pc = "findfree", !.ptrval = chain[ChainOf(p)]]
    <3>1. chain[ChainOf(p)] \in Nat /\ "findfree" \in Pcs
      BY <1>3 DEF Pcs
    <3>2. db' = [db EXCEPT ![p] = r]
      BY <1>6
    <3>3. r \in Local /\ r.pc = "findfree" /\ r.key = db[p].key /\ r.data = db[p].data /\ r.flag = db[p].flag
      BY <1>3, <3>1 DEF Local
    <3>4. /\ r.ptrval = chain[ChainOf(p)] /\ r.datoff = db[p].datoff /\ r.idxoff = db[p].idxoff
          /\ r.old = db[p].old /\ r.rc = db[p].rc
      BY <1>3 DEF Local
    <3> HIDE DEF r
    <3>5. db' \in [Procs -> Local] /\ db'[p] = r /\ \A q \in Procs \ {p} : db'[q] = db[q]
      BY <1>3, <3>2, <3>3
    <3> QED
      BY <3>3, <3>4, <3>5 DEF Moves
  <2>2. /\ db' \in [Procs -> Local] /\ \A q \in Procs \ {p} : db'[q] = db[q]
        /\ db'[p].pc = "findfree" /\ db'[p].key = db[p].key /\ db'[p].data = db[p].data
        /\ db'[p].flag = db[p].flag /\ db'[p].rc = db[p].rc
        /\ db'[p].ptrval = chain[ChainOf(p)] /\ db'[p].old = db[p].old
    BY <2>1 DEF Moves
  <2>3. DbTypes'
    BY <1>1, <1>2, <1>3, <2>2 DEF DbTypes, files
  <2>4. LocalOk(p)'
    <3>1. Called(p)'
      BY <1>3, <2>2 DEF Called
    <3>2. Locks(p)'
      BY <1>2, <2>2 DEF Locks, ChainOf
    <3>3. Changes(p)'
      BY <2>2 DEF Changes, Changing
    <3>4. Adds(p)'
      <4>1. Found(db[p].key)' = Found(db'[p].key) /\ chain' = chain /\ ChainOf(p)' = ChainOf(p)
        BY <1>1, <1>3, <2>2, QuietFound DEF ChainOf, files
      <4>2. db[p].old = Absent
        BY <1>1, <1>3 DEF LocalOk, Called
      <4> QED
        BY <1>1, <1>6, <2>2, <4>1, <4>2 DEF Adds
    <3>5. OwnsRecord(p)' /\ OwnsData(p)'
      BY <2>2 DEF OwnsRecord, OwnsData, HasRecord, HasData
    <3> QED
      BY <3>1, <3>2, <3>3, <3>4, <3>5 DEF LocalOk
  <2>5. db'[p].pc \notin HasRecord /\ db'[p].pc \notin HasData
    BY <2>2 DEF HasRecord, HasData
  <2> QED
    BY <1>1, <1>4, <2>2, <2>3, <2>4, <2>5, QuietStep
<1> QED
  BY <1>5, <1>6 DEF FindNone

LEMMA LockDatKeeps ==
  ASSUME DbInv, NEW p \in Procs, LockDat(p)
  PROVE  DbInv'
<1>1. /\ UNCHANGED files /\ chainlock' = chainlock /\ idxlock' = idxlock
      /\ db[p].pc = "lockdat" /\ datlock = NoProc /\ datlock' = p
      /\ db' = [db EXCEPT ![p].pc = "appenddat", ![p].datoff = Len(dat) + 1]
  BY DEF LockDat, At
<1>2. /\ db \in [Procs -> Local] /\ db[p] \in Local /\ DbTypes /\ LocalOk(p)
      /\ db[p].key \in Keys /\ db[p].data \in Datas /\ ChainOf(p) \in Chains
      /\ dat \in Seq(Datas \cup {Blank}) /\ \A q \in Procs : q # NoProc
  BY <1>1, Typing DEF DbInv
<1>3. /\ db' \in [Procs -> Local] /\ \A q \in Procs \ {p} : db'[q] = db[q]
      /\ db'[p].pc = "appenddat" /\ db'[p].key = db[p].key /\ db'[p].data = db[p].data
      /\ db'[p].flag = db[p].flag /\ db'[p].rc = db[p].rc /\ db'[p].ptrval = db[p].ptrval
      /\ db'[p].old = db[p].old /\ db'[p].datoff = Len(dat) + 1
  <2> DEFINE r == [db[p] EXCEPT !.pc = "appenddat", !.datoff = Len(dat) + 1]
  <2>1. Len(dat) + 1 \in Nat /\ "appenddat" \in Pcs
    BY <1>2 DEF Pcs
  <2>2. db' = [db EXCEPT ![p] = r]
    BY <1>1
  <2>3. r \in Local /\ r.pc = "appenddat" /\ r.key = db[p].key /\ r.data = db[p].data /\ r.flag = db[p].flag
    BY <1>2, <2>1 DEF Local
  <2>4. r.ptrval = db[p].ptrval /\ r.datoff = Len(dat) + 1 /\ r.old = db[p].old /\ r.rc = db[p].rc
    BY <1>2 DEF Local
  <2> HIDE DEF r
  <2>5. db' \in [Procs -> Local] /\ db'[p] = r /\ \A q \in Procs \ {p} : db'[q] = db[q]
    BY <1>2, <2>2, <2>3
  <2> QED
    BY <2>3, <2>4, <2>5
<1>4. DbTypes'
  BY <1>1, <1>2, <1>3 DEF DbTypes, files
<1>5. \A q \in Procs \ {p} : LocksKept(q)
  BY <1>1, <1>2 DEF LocksKept
<1>6. LocalOk(p)'
  <2>1. Called(p)'
    BY <1>1, <1>2, <1>3 DEF Called, LocalOk
  <2>2. Locks(p)'
    BY <1>1, <1>2, <1>3 DEF Locks, LocalOk, ChainOf, files, Holding, Adding
  <2>3. Changes(p)'
    BY <1>3 DEF Changes, Changing
  <2>4. Adds(p)'
    <3>1. Found(db[p].key)' = Found(db'[p].key) /\ chain' = chain /\ ChainOf(p)' = ChainOf(p)
      BY <1>1, <1>2, <1>3, QuietFound DEF ChainOf, files
    <3> QED
      BY <1>1, <1>2, <1>3, <3>1 DEF Adds, LocalOk, Adding
  <2>5. OwnsRecord(p)' /\ OwnsData(p)'
    BY <1>3 DEF OwnsRecord, OwnsData, HasRecord, HasData
  <2> QED
    BY <2>1, <2>2, <2>3, <2>4, <2>5 DEF LocalOk
<1>7. db'[p].pc \notin HasRecord /\ db'[p].pc \notin HasData
  BY <1>3 DEF HasRecord, HasData
<1> QED
  BY <1>1, <1>3, <1>4, <1>5, <1>6, <1>7, QuietStep

LEMMA LockIdxKeeps ==
  ASSUME DbInv, NEW p \in Procs, LockIdx(p)
  PROVE  DbInv'
<1>1. /\ UNCHANGED files /\ chainlock' = chainlock /\ datlock' = datlock
      /\ db[p].pc = "lockidx" /\ idxlock = NoProc /\ idxlock' = p
      /\ db' = [db EXCEPT ![p].pc = "appendidx", ![p].idxoff = Len(idx) + 1]
  BY DEF LockIdx, At
<1>2. /\ db \in [Procs -> Local] /\ db[p] \in Local /\ DbTypes /\ LocalOk(p)
      /\ db[p].key \in Keys /\ db[p].data \in Datas /\ ChainOf(p) \in Chains
      /\ idx \in Seq(IdxRec) /\ \A q \in Procs : q # NoProc
  BY <1>1, Typing DEF DbInv
<1>3. /\ db' \in [Procs -> Local] /\ \A q \in Procs \ {p} : db'[q] = db[q]
      /\ db'[p].pc = "appendidx" /\ db'[p].key = db[p].key /\ db'[p].data = db[p].data
      /\ db'[p].flag = db[p].flag /\ db'[p].rc = db[p].rc /\ db'[p].ptrval = db[p].ptrval
      /\ db'[p].old = db[p].old /\ db'[p].datoff = db[p].datoff /\ db'[p].idxoff = Len(idx) + 1
  <2> DEFINE r == [db[p] EXCEPT !.pc = "appendidx", !.idxoff = Len(idx) + 1]
  <2>1. Len(idx) + 1 \in Nat /\ "appendidx" \in Pcs
    BY <1>2 DEF Pcs
  <2>2. db' = [db EXCEPT ![p] = r]
    BY <1>1
  <2>3. r \in Local /\ r.pc = "appendidx" /\ r.key = db[p].key /\ r.data = db[p].data /\ r.flag = db[p].flag
    BY <1>2, <2>1 DEF Local
  <2>4. /\ r.ptrval = db[p].ptrval /\ r.idxoff = Len(idx) + 1 /\ r.old = db[p].old
        /\ r.rc = db[p].rc /\ r.datoff = db[p].datoff
    BY <1>2 DEF Local
  <2> HIDE DEF r
  <2>5. db' \in [Procs -> Local] /\ db'[p] = r /\ \A q \in Procs \ {p} : db'[q] = db[q]
    BY <1>2, <2>2, <2>3
  <2> QED
    BY <2>3, <2>4, <2>5
<1>4. DbTypes'
  BY <1>1, <1>2, <1>3 DEF DbTypes, files
<1>5. \A q \in Procs \ {p} : LocksKept(q)
  BY <1>1, <1>2 DEF LocksKept
<1>6. LocalOk(p)'
  <2>1. Called(p)'
    BY <1>1, <1>2, <1>3 DEF Called, LocalOk
  <2>2. Locks(p)'
    BY <1>1, <1>2, <1>3 DEF Locks, LocalOk, ChainOf, files, Holding, Adding
  <2>3. Changes(p)'
    BY <1>3 DEF Changes, Changing
  <2>4. Adds(p)'
    <3>1. Found(db[p].key)' = Found(db'[p].key) /\ chain' = chain /\ ChainOf(p)' = ChainOf(p)
      BY <1>1, <1>2, <1>3, QuietFound DEF ChainOf, files
    <3> QED
      BY <1>1, <1>2, <1>3, <3>1 DEF Adds, LocalOk, Adding
  <2>5. OwnsRecord(p)'
    BY <1>3 DEF OwnsRecord, HasRecord
  <2>6. OwnsData(p)'
    BY <1>1, <1>2, <1>3 DEF OwnsData, HasData, LocalOk, files
  <2> QED
    BY <2>1, <2>2, <2>3, <2>4, <2>5, <2>6 DEF LocalOk
<1>7. db'[p].pc \notin HasRecord /\ db[p].pc \in HasData /\ db'[p].datoff = db[p].datoff
  BY <1>1, <1>3 DEF HasRecord, HasData
<1> QED
  BY <1>1, <1>3, <1>4, <1>5, <1>6, <1>7, QuietStep

(* A process that is in no call has nothing to keep.                       *)
LEMMA OutOk ==
  ASSUME NEW p \in Procs, db'[p].pc \in {"idle", "dead"}, db'[p].rc = Pending
  PROVE  LocalOk(p)' /\ db'[p].pc \notin HasRecord /\ db'[p].pc \notin HasData
<1>1. Called(p)'
  BY DEF Called
<1>2. Locks(p)'
  BY DEF Locks, Holding, Changing, Adding
<1>3. Changes(p)' /\ Adds(p)'
  BY DEF Changes, Adds, Changing, Adding
<1>4. OwnsRecord(p)' /\ OwnsData(p)'
  BY DEF OwnsRecord, OwnsData, HasRecord, HasData
<1> QED
  BY <1>1, <1>2, <1>3, <1>4 DEF LocalOk, HasRecord, HasData

LEMMA UnlockKeeps ==
  ASSUME DbInv, NEW p \in Procs, Unlock(p)
  PROVE  DbInv'
<1>1. /\ UNCHANGED files /\ datlock' = datlock /\ idxlock' = idxlock
      /\ db[p].pc = "unlock" /\ db' = [db EXCEPT ![p] = Idle]
      /\ chainlock' = [chainlock EXCEPT ![ChainOf(p)] = NoProc]
  BY DEF Unlock, At
<1>2. /\ db \in [Procs -> Local] /\ DbTypes /\ LocalOk(p) /\ ChainOf(p) \in Chains
      /\ chainlock \in [Chains -> Procs \cup {NoProc}]
  BY <1>1, Typing DEF DbInv
<1>3. /\ db' \in [Procs -> Local] /\ \A q \in Procs \ {p} : db'[q] = db[q]
      /\ db'[p].pc = "idle" /\ db'[p].rc = Pending
  BY <1>1, <1>2, IdleIs
<1>4. DbTypes'
  BY <1>1, <1>2, <1>3 DEF DbTypes, files
<1>5. chainlock[ChainOf(p)] = p
  BY <1>1, <1>2 DEF LocalOk, Locks, Holding
<1>6. \A q \in Procs \ {p} : LocksKept(q)
  BY <1>1, <1>2, <1>5 DEF LocksKept
<1> QED
  BY <1>1, <1>3, <1>4, <1>6, OutOk, QuietStep

LEMMA KilledKeeps ==
  ASSUME DbInv, NEW p \in Procs, Killed(p)
  PROVE  DbInv'
<1>1. /\ UNCHANGED files /\ db' = [db EXCEPT ![p] = [Idle EXCEPT !.pc = "dead"]]
      /\ chainlock' = [h \in Chains |-> IF chainlock[h] = p THEN NoProc ELSE chainlock[h]]
      /\ datlock' = (IF datlock = p THEN NoProc ELSE datlock)
      /\ idxlock' = (IF idxlock = p THEN NoProc ELSE idxlock)
  BY DEF Killed
<1>2. /\ db \in [Procs -> Local] /\ DbTypes
      /\ chainlock \in [Chains -> Procs \cup {NoProc}]
      /\ datlock \in Procs \cup {NoProc} /\ idxlock \in Procs \cup {NoProc}
  BY Typing DEF DbInv
<1>3. /\ db' \in [Procs -> Local] /\ \A q \in Procs \ {p} : db'[q] = db[q]
      /\ db'[p].pc = "dead" /\ db'[p].rc = Pending
  BY <1>1, <1>2, IdleIs
<1>4. DbTypes'
  <2>1. chainlock' \in [Chains -> Procs \cup {NoProc}]
    BY <1>1, <1>2
  <2> QED
    BY <1>1, <1>2, <1>3, <2>1 DEF DbTypes, files
<1>5. \A q \in Procs \ {p} : LocksKept(q)
  BY <1>1, <1>2 DEF LocksKept
<1> QED
  BY <1>1, <1>3, <1>4, <1>5, OutOk, QuietStep

-----------------------------------------------------------------------------
(* The steps that write to a file                                          *)

(* Who holds a chain is alone with it, and a record is on one chain.       *)
LEMMA Holder ==
  ASSUME DbInv, NEW p \in Procs, NEW q \in Procs \ {p}, db[p].pc \in Holding, db[q].pc \in Holding
  PROVE  ChainOf(q) # ChainOf(p) /\ ChainOf(q) \in Chains
<1>1. chainlock[ChainOf(p)] = p /\ chainlock[ChainOf(q)] = q
  BY DEF DbInv, LocalOk, Locks
<1>2. db[q].pc \notin {"idle", "dead"}
  BY DEF Holding, Changing, Adding
<1>3. ChainOf(q) \in Chains
  BY <1>2, Typing
<1> QED
  BY <1>1, <1>3

LEMMA OneChain ==
  ASSUME DbInv, NEW g \in Chains, NEW h \in Chains, NEW i \in InChain(g), i \in InChain(h)
  PROVE  g = h
BY DEF DbInv, ChainOk

LEMMA ChainsKept ==
  ASSUME DbInv, NEW h \in Chains, idx' \in Seq(IdxRec), Len(idx) <= Len(idx'), chain'[h] = chain[h],
         \A i \in InChain(h) : idx'[i] = idx[i] /\ dat'[idx[i].dat] = dat[idx[i].dat]
  PROVE  ChainKept(h)
<1>1. ChainOk(h) /\ idx \in Seq(IdxRec)
  BY DEF DbInv, DbTypes
<1>2. /\ Len(idx) \in Nat /\ Len(idx') \in Nat /\ HasPath(idx, chain[h])
      /\ InChain(h) = Linked(idx, chain[h]) /\ InChain(h) \subseteq DOMAIN idx
  BY <1>1 DEF ChainOk, InChain
<1>3. HasPath(idx', chain[h]) /\ Linked(idx', chain[h]) = Linked(idx, chain[h])
  <2>1. \A i \in Linked(idx, chain[h]) : idx'[i].ptr = idx[i].ptr
    BY <1>2
  <2> QED
    BY <1>2, <2>1, LinkedSame
<1>4. InChain(h)' = InChain(h) /\ HasPath(idx, chain[h])'
  <2>1. InChain(h)' = Linked(idx', chain'[h])
    BY DEF InChain
  <2>2. HasPath(idx, chain[h])' <=> HasPath(idx', chain'[h])
    OBVIOUS
  <2> QED
    BY <1>2, <1>3, <2>1, <2>2
<1>5. \A i \in InChain(h) : i \in DOMAIN idx'
  <2>1. \A i \in 1 .. Len(idx) : i \in 1 .. Len(idx')
    BY <1>2
  <2>2. DOMAIN idx = 1 .. Len(idx) /\ DOMAIN idx' = 1 .. Len(idx')
    BY <1>1
  <2> QED
    BY <1>2, <2>1, <2>2
<1> QED
  BY <1>4, <1>5 DEF ChainKept

(* The data of one record is written; the record is not free.              *)
LEMMA DatWritten ==
  ASSUME DbInv, UNCHANGED <<idx, chain, free>>, NEW j \in DOMAIN idx \ Free, NEW v \in Datas,
         dat' = [dat EXCEPT ![idx[j].dat] = v]
  PROVE  /\ \A h \in Chains : ChainOk(h)' /\ InChain(h)' = InChain(h)
         /\ \A h \in Chains : j \notin InChain(h) => ChainKept(h)
         /\ FreeOk' /\ DataOk' /\ Free' = Free
         /\ dat' \in Seq(Datas \cup {Blank}) /\ DOMAIN dat' = DOMAIN dat /\ Len(dat') = Len(dat)
         /\ dat'[idx[j].dat] = v /\ \A x \in DOMAIN dat \ {idx[j].dat} : dat'[x] = dat[x]
         /\ \A k \in Keys : Found(k)' = Found(k)
<1>1. /\ idx' = idx /\ chain' = chain /\ free' = free /\ idx \in Seq(IdxRec)
      /\ dat \in Seq(Datas \cup {Blank}) /\ idx[j].dat \in DOMAIN dat
      /\ \A h \in Chains : ChainOk(h)
      /\ \A i \in DOMAIN idx : idx[i].dat \in DOMAIN dat /\ (i # j => idx[i].dat # idx[j].dat)
      /\ Free \subseteq DOMAIN idx
  BY DEF DbInv, DbTypes, DataOk, FreeOk
<1>2. /\ dat' \in Seq(Datas \cup {Blank}) /\ DOMAIN dat' = DOMAIN dat /\ Len(dat') = Len(dat)
      /\ dat'[idx[j].dat] = v /\ \A x \in DOMAIN dat \ {idx[j].dat} : dat'[x] = dat[x]
  BY <1>1
<1>3. Free' = Free
  BY <1>1 DEF Free
<1>4. ASSUME NEW h \in Chains PROVE InChain(h)' = InChain(h) /\ HasPath(idx, chain[h])'
  <2>1. HasPath(idx, chain[h])
    BY <1>1 DEF ChainOk
  <2> QED
    BY <1>1, <2>1 DEF InChain
<1>5. ASSUME NEW h \in Chains, j \notin InChain(h) PROVE ChainKept(h)
  <2>1. \A i \in InChain(h) : i \in DOMAIN idx /\ idx[i].dat \in DOMAIN dat \ {idx[j].dat}
    BY <1>1, <1>5 DEF ChainOk
  <2> QED
    BY <1>1, <1>2, <1>4, <2>1 DEF ChainKept
<1>6. ASSUME NEW h \in Chains PROVE ChainOk(h)'
  <2>1. \A i \in InChain(h) : dat'[idx[i].dat] \in Datas
    <3> SUFFICES ASSUME NEW i \in InChain(h) PROVE dat'[idx[i].dat] \in Datas
      OBVIOUS
    <3>1. i \in DOMAIN idx /\ dat[idx[i].dat] \in Datas
      BY <1>1 DEF ChainOk
    <3>2. CASE i = j
      BY <1>2, <3>2
    <3>3. CASE i # j
      BY <1>1, <1>2, <3>1, <3>3
    <3> QED
      BY <3>2, <3>3
  <2> QED
    BY <1>1, <1>3, <1>4, <2>1 DEF ChainOk
<1>7. FreeOk'
  <2>1. \A i \in Free : idx[i].key = Blank /\ dat'[idx[i].dat] = Blank
    <3> SUFFICES ASSUME NEW i \in Free PROVE idx[i].key = Blank /\ dat'[idx[i].dat] = Blank
      OBVIOUS
    <3>1. i \in DOMAIN idx /\ i # j /\ idx[i].key = Blank /\ dat[idx[i].dat] = Blank
      BY <1>1 DEF DbInv, FreeOk
    <3> QED
      BY <1>1, <1>2, <3>1
  <2>2. \A m, n \in DOMAIN free : free[m] = free[n] => m = n
    BY DEF DbInv, FreeOk
  <2> QED
    BY <1>1, <1>3, <2>1, <2>2 DEF FreeOk
<1>8. DataOk'
  <2>1. DataOk
    BY DEF DbInv
  <2> QED
    BY <1>1, <1>2, <2>1 DEF DataOk
<1>9. \A k \in Keys : Found(k)' = Found(k)
  BY <1>1, <1>4, ChainsIn DEF Found
<1> QED
  BY <1>2, <1>3, <1>4, <1>5, <1>6, <1>7, <1>8, <1>9

(* What a call that adds a record keeps while it goes on.                  *)
LEMMA AddsOn ==
  ASSUME DbInv, NEW p \in Procs, db[p].pc \in Adding, NEW x \in Adding, Goes(p, x),
         Found(db[p].key)' = {}, chain'[ChainOf(p)] = chain[ChainOf(p)], chainlock' = chainlock,
         x \notin {"appenddat", "appendidx"},
         x \in {"findfree", "reuse", "reuseidx"} => db[p].pc \in {"findfree", "reuse", "reuseidx"}
  PROVE  Called(p)' /\ Locks(p)' /\ Changes(p)' /\ Adds(p)'
<1>1. /\ db'[p].pc = x /\ db'[p].key = db[p].key /\ db'[p].data = db[p].data
      /\ db'[p].flag = db[p].flag /\ db'[p].rc = db[p].rc /\ db'[p].ptrval = db[p].ptrval
      /\ db'[p].old = db[p].old
  BY DEF Goes, Moves
<1>2. LocalOk(p)
  BY DEF DbInv
<1>3. ChainOf(p)' = ChainOf(p)
  BY <1>1 DEF ChainOf
<1>4. Called(p)'
  BY <1>1, <1>2 DEF LocalOk, Called, Adding
<1>5. Locks(p)'
  BY <1>1, <1>2, <1>3 DEF LocalOk, Locks, Holding
<1>6. Changes(p)'
  BY <1>1 DEF Changes, Changing, Adding
<1>7. Adds(p)'
  BY <1>1, <1>2, <1>3 DEF LocalOk, Adds
<1> QED
  BY <1>4, <1>5, <1>6, <1>7


(* One element taken out of a sequence without repetitions.                *)
LEMMA Skips ==
  ASSUME NEW L \in Nat, NEW i \in 1 .. L, NEW s, NEW t,
         \A k \in 1 .. L - 1 : t[k] = IF k < i THEN s[k] ELSE s[k + 1],
         NEW k \in 1 .. L - 1
  PROVE  LET o == IF k < i THEN k ELSE k + 1 IN t[k] = s[o] /\ o \in 1 .. L /\ o # i
OBVIOUS

LEMMA WithoutOnce ==
  ASSUME NEW L \in Nat, NEW i \in 1 .. L, NEW s, NEW t,
         \A m, n \in 1 .. L : s[m] = s[n] => m = n,
         \A k \in 1 .. L - 1 : t[k] = IF k < i THEN s[k] ELSE s[k + 1],
         NEW m \in 1 .. L - 1, NEW n \in 1 .. L - 1, t[m] = t[n]
  PROVE  m = n
<1> DEFINE o(k) == IF k < i THEN k ELSE k + 1
<1>1. t[m] = s[o(m)] /\ o(m) \in 1 .. L /\ t[n] = s[o(n)] /\ o(n) \in 1 .. L
  BY Skips
<1>2. o(m) = o(n)
  <2> HIDE DEF o
  <2> QED
    BY <1>1
<1>3. m \in Nat /\ n \in Nat /\ i \in Nat
  OBVIOUS
<1> QED
  BY <1>2, <1>3

LEMMA WithoutIt ==
  ASSUME NEW L \in Nat, NEW i \in 1 .. L, NEW s, NEW t,
         \A m, n \in 1 .. L : s[m] = s[n] => m = n,
         \A k \in 1 .. L - 1 : t[k] = IF k < i THEN s[k] ELSE s[k + 1],
         NEW k \in 1 .. L - 1
  PROVE  t[k] # s[i] /\ \E m \in 1 .. L : t[k] = s[m]
<1> DEFINE o == IF k < i THEN k ELSE k + 1
<1>1. t[k] = s[o] /\ o \in 1 .. L /\ o # i
  BY Skips
<1> HIDE DEF o
<1> QED
  BY <1>1

LEMMA Dropped ==
  ASSUME NEW s \in Seq(Nat), \A m, n \in DOMAIN s : s[m] = s[n] => m = n, NEW i \in DOMAIN s
  PROVE  LET t == SubSeq(s, 1, i - 1) \o SubSeq(s, i + 1, Len(s))
         IN  /\ t \in Seq(Nat) /\ \A m, n \in DOMAIN t : t[m] = t[n] => m = n
             /\ {t[k] : k \in DOMAIN t} = {s[k] : k \in DOMAIN s} \ {s[i]}
<1> DEFINE L == Len(s)  a == SubSeq(s, 1, i - 1)  b == SubSeq(s, i + 1, Len(s))  t == a \o b
<1>1. L \in Nat /\ i \in 1 .. L /\ DOMAIN s = 1 .. L
  OBVIOUS
<1>2. /\ a \in Seq(Nat) /\ Len(a) = i - 1
      /\ \A k \in 1 .. i - 1 : a[k] = s[k]
  <2>1. i - 1 \in 0 .. Len(s)
    BY <1>1
  <2> QED
    BY <2>1, Cut
<1>3. /\ b \in Seq(Nat) /\ Len(b) = L - i
      /\ \A k \in 1 .. L - i : b[k] = s[i + k]
  <2>1. i \in 0 .. Len(s)
    BY <1>1
  <2>2. b \in Seq(Nat) /\ Len(b) = Len(s) - i
    BY <2>1, Cut
  <2>3. \A k \in 1 .. Len(s) - i : b[k] = s[i + k]
    BY <2>1, Cut
  <2> QED
    BY <2>2, <2>3
<1> HIDE DEF L, a, b
<1>4. /\ t \in Seq(Nat) /\ Len(t) = (i - 1) + (L - i)
      /\ \A k \in 1 .. i - 1 : t[k] = a[k]
      /\ \A k \in 1 .. L - i : t[(i - 1) + k] = b[k]
  <2>1. /\ t \in Seq(Nat) /\ Len(t) = Len(a) + Len(b)
        /\ \A k \in 1 .. Len(a) : t[k] = a[k]
        /\ \A k \in 1 .. Len(b) : t[Len(a) + k] = b[k]
    <3>1. a \in Seq(Nat) /\ b \in Seq(Nat)
      BY <1>2, <1>3
    <3> QED
      BY <3>1, JoinIs
  <2> HIDE DEF t
  <2> QED
    BY <1>2, <1>3, <2>1
<1> HIDE DEF t
<1>5. DOMAIN t = 1 .. L - 1
  <2>1. (i - 1) + (L - i) = L - 1
    BY <1>1
  <2> QED
    BY <1>4, <2>1
<1>6. ASSUME NEW k \in 1 .. L - 1 PROVE t[k] = IF k < i THEN s[k] ELSE s[k + 1]
  <2>1. CASE k < i
    <3>1. k \in 1 .. i - 1
      BY <1>1, <2>1
    <3> QED
      BY <1>2, <1>4, <2>1, <3>1
  <2>2. CASE ~(k < i)
    <3>1. /\ k + 1 - i \in 1 .. L - i /\ (i - 1) + (k + 1 - i) = k
          /\ i + (k + 1 - i) = k + 1
      BY <1>1, <2>2
    <3>2. t[k] = b[k + 1 - i] /\ b[k + 1 - i] = s[k + 1]
      BY <1>3, <1>4, <3>1
    <3> QED
      BY <2>2, <3>2
  <2> QED
    BY <2>1, <2>2
<1>7. /\ \A m, n \in 1 .. L - 1 : t[m] = t[n] => m = n
      /\ {t[k] : k \in 1 .. L - 1} = {s[k] : k \in 1 .. L} \ {s[i]}
  <2>1. \A m, n \in 1 .. L : s[m] = s[n] => m = n
    BY <1>1
  <2>2. \A k \in 1 .. L - 1 : t[k] = IF k < i THEN s[k] ELSE s[k + 1]
    BY <1>6
  <2>3. L \in Nat /\ i \in 1 .. L
    BY <1>1
  <2>4. ASSUME NEW m \in 1 .. L - 1, NEW n \in 1 .. L - 1, t[m] = t[n] PROVE m = n
    BY <2>1, <2>2, <2>3, <2>4, WithoutOnce
  <2>5. ASSUME NEW k \in 1 .. L - 1 PROVE t[k] # s[i] /\ \E m \in 1 .. L : t[k] = s[m]
    BY <2>1, <2>2, <2>3, WithoutIt
  <2>6. ASSUME NEW k \in 1 .. L, s[k] # s[i] PROVE \E m \in 1 .. L - 1 : t[m] = s[k]
    <3>1. CASE k < i
      <4>1. k \in 1 .. L - 1 /\ t[k] = s[k]
        BY <2>2, <2>3, <3>1
      <4> QED
        BY <4>1
    <3>2. CASE k > i
      <4>1. k - 1 \in 1 .. L - 1 /\ ~(k - 1 < i) /\ (k - 1) + 1 = k
        BY <2>3, <3>2
      <4>2. t[k - 1] = s[k]
        BY <2>2, <4>1
      <4> QED
        BY <4>1, <4>2
    <3>3. k # i
      BY <2>6
    <3> QED
      BY <2>3, <3>1, <3>2, <3>3
  <2>7. \A x \in {t[k] : k \in 1 .. L - 1} : x \in {s[k] : k \in 1 .. L} \ {s[i]}
    BY <2>5
  <2>8. \A x \in {s[k] : k \in 1 .. L} \ {s[i]} : x \in {t[k] : k \in 1 .. L - 1}
    BY <2>6
  <2> QED
    BY <2>4, <2>7, <2>8
<1>8. /\ t \in Seq(Nat) /\ \A m, n \in DOMAIN t : t[m] = t[n] => m = n
      /\ {t[k] : k \in DOMAIN t} = {s[k] : k \in DOMAIN s} \ {s[i]}
  BY <1>1, <1>4, <1>5, <1>7
<1> QED
  BY <1>8 DEF t, a, b

LEMMA FindFreeKeeps ==
  ASSUME DbInv, NEW p \in Procs, FindFree(p)
  PROVE  DbInv' /\ \A h \in Chains : ChainKept(h)
<1>1. /\ idx' = idx /\ dat' = dat /\ chain' = chain /\ UNCHANGED locks /\ db[p].pc = "findfree"
  BY DEF FindFree, At
<1>2. /\ db \in [Procs -> Local] /\ db[p] \in Local /\ DbTypes /\ LocalOk(p)
      /\ db[p].key \in Keys /\ db[p].data \in Datas /\ ChainOf(p) \in Chains
      /\ idx \in Seq(IdxRec) /\ free \in Seq(Nat)
  BY <1>1, Typing DEF DbInv
<1>3. \A q \in Procs : LocksKept(q)
  BY <1>1 DEF LocksKept, locks
<1>4. db[p].pc \in Adding /\ Found(db[p].key) = {}
  BY <1>1, <1>2 DEF LocalOk, Adds, Adding
<1>5. CASE Goto(p, "lockdat") /\ UNCHANGED free
  <2>1. UNCHANGED files
    BY <1>1, <1>5 DEF files
  <2>2. Goes(p, "lockdat")
    BY <1>2, <1>5, GotoMoves DEF Pcs
  <2>3. /\ db' \in [Procs -> Local] /\ \A q \in Procs \ {p} : db'[q] = db[q]
        /\ db'[p].pc = "lockdat" /\ db'[p].key = db[p].key
    BY <2>2 DEF Goes, Moves
  <2>4. DbTypes'
    BY <1>1, <1>2, <1>5, <2>3 DEF DbTypes, locks
  <2>5. LocalOk(p)'
    <3>1. Found(db[p].key)' = {}
      BY <1>2, <1>4, <2>1, <2>3, QuietFound
    <3>2. "lockdat" \in Adding /\ "lockdat" \notin {"findfree", "reuse", "reuseidx", "appenddat", "appendidx"}
      BY DEF Adding
    <3>3. Called(p)' /\ Locks(p)' /\ Changes(p)' /\ Adds(p)'
      BY <1>1, <1>4, <2>2, <3>1, <3>2, AddsOn DEF locks
    <3>4. OwnsRecord(p)' /\ OwnsData(p)'
      BY <2>3 DEF OwnsRecord, OwnsData, HasRecord, HasData
    <3> QED
      BY <3>3, <3>4 DEF LocalOk
  <2>6. db'[p].pc \notin HasRecord /\ db'[p].pc \notin HasData
    BY <2>3 DEF HasRecord, HasData
  <2> QED
    BY <1>3, <2>1, <2>3, <2>4, <2>5, <2>6, QuietStep, FilesSame
<1>6. ASSUME NEW i \in DOMAIN free,
             free' = SubSeq(free, 1, i - 1) \o SubSeq(free, i + 1, Len(free)),
             db' = [db EXCEPT ![p].pc = "reuse", ![p].idxoff = free[i], ![p].datoff = idx[free[i]].dat]
      PROVE  DbInv' /\ \A h \in Chains : ChainKept(h)
  <2>1. FreeOk /\ free[i] \in Free /\ free[i] \in DOMAIN idx
    BY DEF DbInv, FreeOk, Free
  <2>2. /\ free' \in Seq(Nat) /\ \A m, n \in DOMAIN free' : free'[m] = free'[n] => m = n
        /\ Free' = Free \ {free[i]}
    <3> DEFINE t == SubSeq(free, 1, i - 1) \o SubSeq(free, i + 1, Len(free))
    <3>0. /\ t \in Seq(Nat) /\ \A m, n \in DOMAIN t : t[m] = t[n] => m = n
          /\ {t[k] : k \in DOMAIN t} = {free[k] : k \in DOMAIN free} \ {free[i]}
      <4>1. \A m, n \in DOMAIN free : free[m] = free[n] => m = n
        BY <2>1 DEF FreeOk
      <4> QED
        BY <1>2, <1>6, <4>1, Dropped
    <3>9. free' = t
      BY <1>6
    <3> HIDE DEF t
    <3>1. /\ free' \in Seq(Nat) /\ \A m, n \in DOMAIN free' : free'[m] = free'[n] => m = n
          /\ {free'[k] : k \in DOMAIN free'} = {free[k] : k \in DOMAIN free} \ {free[i]}
      BY <3>0, <3>9
    <3> QED
      BY <3>1 DEF Free
  <2>3. Moves(p, "reuse", db[p].ptrval, idx[free[i]].dat, free[i], db[p].old)
    <3> DEFINE r == [db[p] EXCEPT !.pc = "reuse", !.idxoff = free[i], !.datoff = idx[free[i]].dat]
    <3>1. idx[free[i]].dat \in Nat /\ free[i] \in Nat /\ "reuse" \in Pcs
      <4>1. idx[free[i]] \in IdxRec
        BY <1>2, <2>1
      <4> QED
        BY <1>2, <2>1, <4>1 DEF IdxRec, Pcs
    <3>2. db' = [db EXCEPT ![p] = r]
      BY <1>6
    <3>3. r \in Local /\ r.pc = "reuse" /\ r.key = db[p].key /\ r.data = db[p].data /\ r.flag = db[p].flag
      BY <1>2, <3>1 DEF Local
    <3>4. /\ r.ptrval = db[p].ptrval /\ r.datoff = idx[free[i]].dat /\ r.idxoff = free[i]
          /\ r.old = db[p].old /\ r.rc = db[p].rc
      BY <1>2 DEF Local
    <3> HIDE DEF r
    <3>5. db' \in [Procs -> Local] /\ db'[p] = r /\ \A q \in Procs \ {p} : db'[q] = db[q]
      BY <1>2, <3>2, <3>3
    <3> QED
      BY <3>3, <3>4, <3>5 DEF Moves
  <2>4. /\ db' \in [Procs -> Local] /\ \A q \in Procs \ {p} : db'[q] = db[q]
        /\ db'[p].pc = "reuse" /\ db'[p].key = db[p].key /\ db'[p].data = db[p].data
        /\ db'[p].flag = db[p].flag /\ db'[p].rc = db[p].rc /\ db'[p].ptrval = db[p].ptrval
        /\ db'[p].old = db[p].old /\ db'[p].idxoff = free[i] /\ db'[p].datoff = idx[free[i]].dat
    BY <2>3 DEF Moves
  <2>5. DbTypes'
    BY <1>1, <1>2, <2>2, <2>4 DEF DbTypes, locks
  <2>6. \A h \in Chains : ChainKept(h)
    BY <1>1, <1>2, ChainsKept
  <2>7. \A h \in Chains : ChainOk(h) /\ InChain(h)' = InChain(h) /\ InChain(h) \cap Free' = {}
    BY <2>2, <2>6 DEF DbInv, ChainOk, ChainKept
  <2>8. \A h \in Chains : ChainOk(h)'
    BY <2>6, <2>7, KeptOk
  <2>9. FreeOk'
    BY <1>1, <2>1, <2>2 DEF FreeOk
  <2>10. DataOk'
    BY <1>1 DEF DataOk, DbInv
  <2>11. LocalOk(p)'
    <3>1. Called(p)'
      BY <1>1, <1>2, <2>4 DEF LocalOk, Called
    <3>2. Locks(p)'
      BY <1>1, <1>2, <2>4 DEF LocalOk, Locks, Holding, Adding, ChainOf, locks
    <3>3. Changes(p)'
      BY <2>4 DEF Changes, Changing
    <3>4. Adds(p)'
      <4>1. Found(db[p].key)' = {}
        <5>1. Found(db[p].key)' = Found(db'[p].key)
          BY <1>1, <1>2, <2>4, <2>6, FoundKept, ChainsIn
        <5> QED
          BY <1>4, <2>4, <5>1
      <4>2. chain' = chain /\ ChainOf(p)' = ChainOf(p)
        BY <1>1, <2>4 DEF ChainOf
      <4> QED
        BY <1>1, <1>2, <2>4, <4>1, <4>2 DEF LocalOk, Adds, Adding
    <3>5. OwnsRecord(p)'
      <4>1. free[i] \in DOMAIN idx' \ Free' /\ \A h \in Chains : free[i] \notin InChain(h)'
        BY <1>1, <2>1, <2>2, <2>7 DEF ChainOk
      <4> QED
        BY <1>1, <2>4, <4>1 DEF OwnsRecord
    <3>6. OwnsData(p)'
      BY <2>4 DEF OwnsData, HasData
    <3> QED
      BY <3>1, <3>2, <3>3, <3>4, <3>5, <3>6 DEF LocalOk
  <2>12. ASSUME NEW q \in Procs \ {p} PROVE Spares(q)
    <3>1. LocalOk(q) /\ db'[q] = db[q] /\ (db[q].pc \in Holding => ChainOf(q) \in Chains)
      BY <2>4, Typing DEF Holding, Changing, Adding
    <3>2. db[q].pc \in Holding => chainlock'[ChainOf(q)] = q /\ ChainKept(ChainOf(q))
      BY <1>1, <2>6, <3>1 DEF LocalOk, Locks, locks
    <3>3. db[q].pc = "appenddat" => datlock' = q /\ Len(dat') = Len(dat)
      BY <1>1, <3>1 DEF LocalOk, Locks, locks
    <3>4. db[q].pc = "appendidx" => idxlock' = q /\ Len(idx') = Len(idx)
      BY <1>1, <3>1 DEF LocalOk, Locks, locks
    <3>5. db[q].pc \in HasRecord =>
           /\ db[q].idxoff \in DOMAIN idx' \ Free' /\ idx'[db[q].idxoff] = idx[db[q].idxoff]
           /\ \A h \in Chains : db[q].idxoff \notin InChain(h)'
      BY <1>1, <2>2, <2>7, <3>1 DEF LocalOk, OwnsRecord
    <3>6. db[q].pc \in HasData =>
           db[q].datoff \in DOMAIN dat' /\ \A j \in DOMAIN idx' : idx'[j].dat # db[q].datoff
      BY <1>1, <3>1 DEF LocalOk, OwnsData
    <3> QED
      BY <1>1, <3>1, <3>2, <3>3, <3>4, <3>5, <3>6 DEF Spares
  <2>13. Apart'
    <3>1. \A q \in Procs \ {p} : db[q].pc \in HasRecord => db[q].idxoff # db'[p].idxoff
      BY <2>1, <2>4 DEF DbInv, LocalOk, OwnsRecord
    <3>2. db'[p].pc \notin HasData /\ Apart
      BY <2>4 DEF HasData, DbInv
    <3> QED
      BY <2>4, <3>1, <3>2, ApartStep
  <2> QED
    BY <2>5, <2>6, <2>8, <2>9, <2>10, <2>11, <2>12, <2>13, Together
<1> QED
  BY <1>5, <1>6 DEF FindFree

LEMMA AppendDatKeeps ==
  ASSUME DbInv, NEW p \in Procs, AppendDat(p)
  PROVE  DbInv' /\ \A h \in Chains : ChainKept(h)
<1>1. /\ idx' = idx /\ chain' = chain /\ free' = free /\ chainlock' = chainlock /\ idxlock' = idxlock
      /\ db[p].pc = "appenddat" /\ datlock' = NoProc /\ Goto(p, "lockidx")
      /\ dat' = Put(dat, db[p].datoff, db[p].data)
  BY DEF AppendDat, At
<1>2. /\ db \in [Procs -> Local] /\ DbTypes /\ LocalOk(p)
      /\ db[p].key \in Keys /\ db[p].data \in Datas /\ ChainOf(p) \in Chains
      /\ idx \in Seq(IdxRec) /\ dat \in Seq(Datas \cup {Blank}) /\ DataOk /\ FreeOk
  BY <1>1, Typing DEF DbInv
<1>3. datlock = p /\ db[p].datoff = Len(dat) + 1
  BY <1>1, <1>2 DEF LocalOk, Locks
<1>4. /\ dat' \in Seq(Datas \cup {Blank}) /\ Len(dat') = Len(dat) + 1
      /\ DOMAIN dat' = DOMAIN dat \cup {db[p].datoff} /\ db[p].datoff \notin DOMAIN dat
      /\ dat'[db[p].datoff] = db[p].data /\ \A x \in DOMAIN dat : dat'[x] = dat[x]
  <2> DEFINE S == Datas \cup {Blank}  t == Put(dat, Len(dat) + 1, db[p].data)
  <2>1. dat \in Seq(S) /\ db[p].data \in S
    BY <1>2
  <2>2. dat' = t
    BY <1>1, <1>3
  <2> HIDE DEF S
  <2>3. t = Append(dat, db[p].data)
    BY DEF Put
  <2> HIDE DEF t
  <2>4. /\ t \in Seq(S) /\ Len(t) = Len(dat) + 1 /\ t[Len(dat) + 1] = db[p].data
        /\ \A x \in 1 .. Len(dat) : t[x] = dat[x]
    BY <2>1, <2>3
  <2>5. DOMAIN dat = 1 .. Len(dat) /\ DOMAIN t = 1 .. Len(dat) + 1
    BY <2>1, <2>4
  <2>6. /\ 1 .. Len(dat) + 1 = 1 .. Len(dat) \cup {Len(dat) + 1}
        /\ Len(dat) + 1 \notin 1 .. Len(dat)
    BY <2>1
  <2> QED
    BY <1>3, <2>2, <2>4, <2>5, <2>6 DEF S
<1>5. \A i \in DOMAIN idx : idx[i].dat \in DOMAIN dat
  BY <1>2 DEF DataOk
<1>6. "lockidx" \in Pcs /\ "lockidx" \in Adding
      /\ "lockidx" \notin {"findfree", "reuse", "reuseidx", "appenddat", "appendidx"}
  BY DEF Pcs, Adding
<1>7. Goes(p, "lockidx")
  BY <1>1, <1>2, <1>6, GotoMoves
<1>8. /\ db' \in [Procs -> Local] /\ \A q \in Procs \ {p} : db'[q] = db[q]
      /\ db'[p].pc = "lockidx" /\ db'[p].key = db[p].key /\ db'[p].data = db[p].data
      /\ db'[p].datoff = db[p].datoff
  BY <1>7 DEF Goes, Moves
<1>9. DbTypes'
  BY <1>1, <1>2, <1>4, <1>8 DEF DbTypes
<1>10. Free' = Free
  BY <1>1 DEF Free
<1>11. ASSUME NEW h \in Chains PROVE ChainKept(h) /\ ChainOk(h)'
  <2>1. ChainOk(h) /\ \A i \in InChain(h) : dat'[idx[i].dat] = dat[idx[i].dat]
    BY <1>4, <1>5 DEF DbInv, ChainOk
  <2>2. ChainKept(h)
    BY <1>1, <1>2, <2>1, ChainsKept
  <2> QED
    BY <1>10, <2>1, <2>2, KeptOk DEF ChainOk
<1>12. FreeOk'
  BY <1>1, <1>2, <1>4, <1>5, <1>10 DEF FreeOk
<1>13. DataOk'
  BY <1>1, <1>2, <1>4 DEF DataOk
<1>14. LocalOk(p)'
  <2>1. Found(db[p].key)' = {}
    <3>1. db[p].pc \in Adding
      BY <1>1 DEF Adding
    <3>2. Found(db[p].key) = {}
      BY <1>2, <3>1 DEF LocalOk, Adds
    <3> QED
      BY <1>2, <1>8, <1>11, <3>2, FoundKept, ChainsIn
  <2>2. Called(p)' /\ Locks(p)' /\ Changes(p)' /\ Adds(p)'
    <3>1. db[p].pc \in Adding
      BY <1>1 DEF Adding
    <3> QED
      BY <1>1, <1>6, <1>7, <2>1, <3>1, AddsOn
  <2>3. OwnsRecord(p)'
    BY <1>8 DEF OwnsRecord, HasRecord
  <2>4. OwnsData(p)'
    BY <1>1, <1>4, <1>5, <1>8 DEF OwnsData
  <2> QED
    BY <2>2, <2>3, <2>4 DEF LocalOk
<1>15. ASSUME NEW q \in Procs \ {p} PROVE Spares(q)
  <2>1. LocalOk(q) /\ db'[q] = db[q] /\ (db[q].pc \in Holding => ChainOf(q) \in Chains)
    BY <1>8, Typing DEF Holding, Changing, Adding
  <2>2. db[q].pc \in Holding => chainlock'[ChainOf(q)] = q /\ ChainKept(ChainOf(q))
    BY <1>1, <1>11, <2>1 DEF LocalOk, Locks
  <2>3. db[q].pc # "appenddat"
    BY <1>3, <2>1 DEF LocalOk, Locks
  <2>4. db[q].pc = "appendidx" => idxlock' = q /\ Len(idx') = Len(idx)
    BY <1>1, <2>1 DEF LocalOk, Locks
  <2>5. db[q].pc \in HasRecord =>
         /\ db[q].idxoff \in DOMAIN idx' \ Free' /\ idx'[db[q].idxoff] = idx[db[q].idxoff]
         /\ \A h \in Chains : db[q].idxoff \notin InChain(h)'
    BY <1>1, <1>10, <1>11, <2>1 DEF LocalOk, OwnsRecord, ChainKept
  <2>6. db[q].pc \in HasData =>
         /\ db[q].datoff \in DOMAIN dat' /\ \A j \in DOMAIN idx' : idx'[j].dat # db[q].datoff
         /\ dat'[db[q].datoff] = dat[db[q].datoff]
    BY <1>1, <1>4, <2>1 DEF LocalOk, OwnsData
  <2>7. db[q].pc \in {"reuseidx", "writeptr"} => dat'[db[q].datoff] = dat[db[q].datoff]
    BY <1>4, <1>5, <2>1 DEF LocalOk, OwnsRecord, HasRecord
  <2> QED
    BY <2>1, <2>2, <2>3, <2>4, <2>5, <2>6, <2>7 DEF Spares
<1>16. Apart'
  <2>1. \A q \in Procs \ {p} : db[q].pc \in HasData => db[q].datoff # db'[p].datoff
    BY <1>4, <1>8 DEF DbInv, LocalOk, OwnsData
  <2>2. db'[p].pc \notin HasRecord /\ Apart
    BY <1>8 DEF HasRecord, DbInv
  <2> QED
    BY <1>8, <2>1, <2>2, ApartStep
<1> QED
  BY <1>9, <1>11, <1>12, <1>13, <1>14, <1>15, <1>16, Together

LEMMA ReuseDatKeeps ==
  ASSUME DbInv, NEW p \in Procs, ReuseDat(p)
  PROVE  DbInv' /\ \A h \in Chains : ChainKept(h)
<1>1. /\ idx' = idx /\ chain' = chain /\ free' = free /\ UNCHANGED locks
      /\ db[p].pc = "reuse" /\ Goto(p, "reuseidx")
      /\ dat' = [dat EXCEPT ![db[p].datoff] = db[p].data]
  BY DEF ReuseDat, At
<1>2. /\ db \in [Procs -> Local] /\ DbTypes /\ LocalOk(p)
      /\ db[p].key \in Keys /\ db[p].data \in Datas /\ ChainOf(p) \in Chains
      /\ idx \in Seq(IdxRec) /\ dat \in Seq(Datas \cup {Blank}) /\ DataOk
  BY <1>1, Typing DEF DbInv
<1> DEFINE j == db[p].idxoff
<1>3. /\ j \in DOMAIN idx \ Free /\ db[p].datoff = idx[j].dat
      /\ \A h \in Chains : j \notin InChain(h)
  BY <1>1, <1>2 DEF LocalOk, OwnsRecord, HasRecord
<1> HIDE DEF j
<1>4. dat' = [dat EXCEPT ![idx[j].dat] = db[p].data]
  BY <1>1, <1>3
<1>5. /\ \A h \in Chains : ChainOk(h)' /\ InChain(h)' = InChain(h) /\ ChainKept(h)
      /\ FreeOk' /\ DataOk' /\ Free' = Free
      /\ dat' \in Seq(Datas \cup {Blank}) /\ DOMAIN dat' = DOMAIN dat /\ Len(dat') = Len(dat)
      /\ dat'[idx[j].dat] = db[p].data /\ \A x \in DOMAIN dat \ {idx[j].dat} : dat'[x] = dat[x]
      /\ \A k \in Keys : Found(k)' = Found(k)
  BY <1>1, <1>2, <1>3, <1>4, DatWritten
<1>6. "reuseidx" \in Pcs /\ "reuseidx" \in Adding /\ "reuseidx" \notin {"appenddat", "appendidx"}
  BY DEF Pcs, Adding
<1>7. Goes(p, "reuseidx")
  BY <1>1, <1>2, <1>6, GotoMoves
<1>8. /\ db' \in [Procs -> Local] /\ \A q \in Procs \ {p} : db'[q] = db[q]
      /\ db'[p].pc = "reuseidx" /\ db'[p].key = db[p].key /\ db'[p].data = db[p].data
      /\ db'[p].datoff = db[p].datoff /\ db'[p].idxoff = db[p].idxoff
  BY <1>7 DEF Goes, Moves
<1>9. DbTypes'
  BY <1>1, <1>2, <1>5, <1>8 DEF DbTypes, locks
<1>10. LocalOk(p)'
  <2>1. db[p].pc \in Adding
    BY <1>1 DEF Adding
  <2>2. Found(db[p].key)' = {}
    <3>1. Found(db[p].key) = {}
      BY <1>2, <2>1 DEF LocalOk, Adds
    <3> QED
      BY <1>2, <1>5, <1>8, <3>1
  <2>3. Called(p)' /\ Locks(p)' /\ Changes(p)' /\ Adds(p)'
    BY <1>1, <1>6, <1>7, <2>1, <2>2, AddsOn DEF locks
  <2>4. OwnsRecord(p)'
    BY <1>1, <1>3, <1>5, <1>8 DEF OwnsRecord, HasRecord, j
  <2>5. OwnsData(p)'
    BY <1>3, <1>5, <1>8 DEF OwnsData, HasData
  <2> QED
    BY <2>3, <2>4, <2>5 DEF LocalOk
<1>11. ASSUME NEW q \in Procs \ {p} PROVE Spares(q)
  <2>1. LocalOk(q) /\ db'[q] = db[q] /\ (db[q].pc \in Holding => ChainOf(q) \in Chains)
    BY <1>8, Typing DEF Holding, Changing, Adding
  <2>2. db[q].pc \in Holding => chainlock'[ChainOf(q)] = q /\ ChainKept(ChainOf(q))
    BY <1>1, <1>5, <2>1 DEF LocalOk, Locks, locks
  <2>3. db[q].pc = "appenddat" => datlock' = q /\ Len(dat') = Len(dat)
    BY <1>1, <1>5, <2>1 DEF LocalOk, Locks, locks
  <2>4. db[q].pc = "appendidx" => idxlock' = q /\ Len(idx') = Len(idx)
    BY <1>1, <2>1 DEF LocalOk, Locks, locks
  <2>5. db[q].pc \in HasRecord =>
         /\ db[q].idxoff \in DOMAIN idx' \ Free' /\ idx'[db[q].idxoff] = idx[db[q].idxoff]
         /\ \A h \in Chains : db[q].idxoff \notin InChain(h)'
    BY <1>1, <1>5, <2>1 DEF LocalOk, OwnsRecord
  <2>6. db[q].pc \in HasData =>
         /\ db[q].datoff \in DOMAIN dat' /\ \A i \in DOMAIN idx' : idx'[i].dat # db[q].datoff
         /\ dat'[db[q].datoff] = dat[db[q].datoff]
    BY <1>1, <1>3, <1>5, <2>1 DEF LocalOk, OwnsData
  <2>7. db[q].pc \in {"reuseidx", "writeptr"} => dat'[db[q].datoff] = dat[db[q].datoff]
    <3> SUFFICES ASSUME db[q].pc \in {"reuseidx", "writeptr"}
                 PROVE  dat'[db[q].datoff] = dat[db[q].datoff]
      OBVIOUS
    <3>1. db[q].pc \in HasRecord /\ db[p].pc \in HasRecord
      BY <1>1 DEF HasRecord
    <3>2. db[q].idxoff \in DOMAIN idx /\ db[q].datoff = idx[db[q].idxoff].dat /\ db[q].idxoff # j
      BY <2>1, <3>1 DEF DbInv, LocalOk, OwnsRecord, Apart, j
    <3>3. idx[db[q].idxoff].dat \in DOMAIN dat \ {idx[j].dat}
      BY <1>2, <1>3, <3>2 DEF DataOk
    <3> QED
      BY <1>5, <3>2, <3>3
  <2> QED
    BY <2>1, <2>2, <2>3, <2>4, <2>5, <2>6, <2>7 DEF Spares
<1>12. Apart'
  <2>1. \A q \in Procs \ {p} : db[q].pc \in HasRecord => db[q].idxoff # db'[p].idxoff
    BY <1>1, <1>8 DEF DbInv, Apart, HasRecord
  <2>2. db'[p].pc \notin HasData /\ Apart
    BY <1>8 DEF HasData, DbInv
  <2> QED
    BY <1>8, <2>1, <2>2, ApartStep
<1> QED
  BY <1>5, <1>9, <1>10, <1>11, <1>12, Together

(* The record found, which a call changes, is on its chain and not free.   *)
LEMMA ChangesRecord ==
  ASSUME DbInv, NEW p \in Procs, db[p].pc \in Changing
  PROVE  LET j == db[p].idxoff
         IN  /\ j \in DOMAIN idx \ Free /\ j \in InChain(ChainOf(p)) /\ db[p].datoff = idx[j].dat
             /\ idx[j].key = db[p].key /\ db[p].old = dat[idx[j].dat] /\ "insert" \notin db[p].flag
             /\ chainlock[ChainOf(p)] = p /\ ChainOf(p) \in Chains
             /\ \A h \in Chains : j \in InChain(h) => h = ChainOf(p)
             /\ \A q \in Procs \ {p} : db[q].pc \in HasRecord => db[q].idxoff # j
             /\ \A q \in Procs \ {p} : db[q].pc \in Holding => ChainOf(q) # ChainOf(p)
<1> DEFINE j == db[p].idxoff
<1>1. LocalOk(p) /\ db[p].pc \notin {"idle", "dead"} /\ db[p].pc \in Holding
  BY DEF DbInv, Changing, Holding
<1>2. ChainOf(p) \in Chains
  BY <1>1, Typing
<1>3. /\ j \in Found(db[p].key) /\ db[p].datoff = idx[j].dat
      /\ db[p].old = dat[idx[j].dat] /\ "insert" \notin db[p].flag
  BY <1>1 DEF LocalOk, Changes
<1>4. j \in InChain(ChainOf(p)) /\ idx[j].key = db[p].key
  BY <1>3 DEF Found, ChainOf
<1>5. j \in DOMAIN idx \ Free
  BY <1>2, <1>4 DEF DbInv, ChainOk
<1>6. \A h \in Chains : j \in InChain(h) => h = ChainOf(p)
  BY <1>2, <1>4, OneChain
<1>7. \A q \in Procs \ {p} : db[q].pc \in HasRecord => db[q].idxoff # j
  BY <1>2, <1>4 DEF DbInv, LocalOk, OwnsRecord
<1>8. \A q \in Procs \ {p} : db[q].pc \in Holding => ChainOf(q) # ChainOf(p)
  BY <1>1, Holder
<1>9. chainlock[ChainOf(p)] = p
  BY <1>1 DEF LocalOk, Locks
<1> QED
  BY <1>2, <1>3, <1>4, <1>5, <1>6, <1>7, <1>8, <1>9

LEMMA OverwriteKeeps ==
  ASSUME DbInv, NEW p \in Procs, Overwrite(p)
  PROVE  DbInv'
<1>1. /\ idx' = idx /\ chain' = chain /\ free' = free /\ UNCHANGED locks
      /\ db[p].pc = "overwrite" /\ Done(p, 0)
      /\ dat' = [dat EXCEPT ![db[p].datoff] = db[p].data]
  BY DEF Overwrite, At
<1>2. /\ db \in [Procs -> Local] /\ DbTypes /\ LocalOk(p)
      /\ db[p].key \in Keys /\ db[p].data \in Datas /\ ChainOf(p) \in Chains
      /\ idx \in Seq(IdxRec) /\ dat \in Seq(Datas \cup {Blank}) /\ DataOk
  BY <1>1, Typing DEF DbInv
<1> DEFINE j == db[p].idxoff
<1>3. /\ j \in DOMAIN idx \ Free /\ db[p].datoff = idx[j].dat /\ chainlock[ChainOf(p)] = p
      /\ \A h \in Chains : j \in InChain(h) => h = ChainOf(p)
      /\ \A q \in Procs \ {p} : db[q].pc \in HasRecord => db[q].idxoff # j
      /\ \A q \in Procs \ {p} : db[q].pc \in Holding => ChainOf(q) # ChainOf(p)
  <2>1. db[p].pc \in Changing
    BY <1>1 DEF Changing
  <2> QED
    BY <2>1, ChangesRecord
<1> HIDE DEF j
<1>4. dat' = [dat EXCEPT ![idx[j].dat] = db[p].data]
  BY <1>1, <1>3
<1>5. /\ \A h \in Chains : ChainOk(h)' /\ InChain(h)' = InChain(h)
      /\ \A h \in Chains : j \notin InChain(h) => ChainKept(h)
      /\ FreeOk' /\ DataOk' /\ Free' = Free
      /\ dat' \in Seq(Datas \cup {Blank}) /\ DOMAIN dat' = DOMAIN dat /\ Len(dat') = Len(dat)
      /\ \A x \in DOMAIN dat \ {idx[j].dat} : dat'[x] = dat[x]
  BY <1>1, <1>2, <1>3, <1>4, DatWritten
<1>6. Finishes(p, 0) /\ 0 \in {0, 1, -1}
  <2>1. 0 \in {0, 1, -1}
    OBVIOUS
  <2> QED
    BY <1>1, <1>2, <2>1, DoneMoves
<1>7. LocalOk(p)' /\ db'[p].pc \notin HasRecord /\ db'[p].pc \notin HasData
  BY <1>1, <1>2, <1>3, <1>6, DoneOk DEF locks
<1>8. db' \in [Procs -> Local] /\ \A q \in Procs \ {p} : db'[q] = db[q]
  BY <1>6 DEF Finishes
<1>9. DbTypes'
  BY <1>1, <1>2, <1>5, <1>8 DEF DbTypes, locks
<1>10. ASSUME NEW q \in Procs \ {p} PROVE Spares(q)
  <2>1. LocalOk(q) /\ db'[q] = db[q] /\ (db[q].pc \in Holding => ChainOf(q) \in Chains)
    BY <1>8, Typing DEF Holding, Changing, Adding
  <2>2. db[q].pc \in Holding => chainlock'[ChainOf(q)] = q /\ ChainKept(ChainOf(q))
    BY <1>1, <1>3, <1>5, <2>1 DEF LocalOk, Locks, locks
  <2>3. db[q].pc = "appenddat" => datlock' = q /\ Len(dat') = Len(dat)
    BY <1>1, <1>5, <2>1 DEF LocalOk, Locks, locks
  <2>4. db[q].pc = "appendidx" => idxlock' = q /\ Len(idx') = Len(idx)
    BY <1>1, <2>1 DEF LocalOk, Locks, locks
  <2>5. db[q].pc \in HasRecord =>
         /\ db[q].idxoff \in DOMAIN idx' \ Free' /\ idx'[db[q].idxoff] = idx[db[q].idxoff]
         /\ \A h \in Chains : db[q].idxoff \notin InChain(h)'
    BY <1>1, <1>5, <2>1 DEF LocalOk, OwnsRecord
  <2>6. db[q].pc \in HasData =>
         /\ db[q].datoff \in DOMAIN dat' /\ \A i \in DOMAIN idx' : idx'[i].dat # db[q].datoff
         /\ dat'[db[q].datoff] = dat[db[q].datoff]
    BY <1>1, <1>3, <1>5, <2>1 DEF LocalOk, OwnsData
  <2>7. db[q].pc \in {"reuseidx", "writeptr"} => dat'[db[q].datoff] = dat[db[q].datoff]
    <3> SUFFICES ASSUME db[q].pc \in {"reuseidx", "writeptr"}
                 PROVE  dat'[db[q].datoff] = dat[db[q].datoff]
      OBVIOUS
    <3>1. db[q].pc \in HasRecord
      BY DEF HasRecord
    <3>2. db[q].idxoff \in DOMAIN idx /\ db[q].datoff = idx[db[q].idxoff].dat /\ db[q].idxoff # j
      BY <1>3, <2>1, <3>1 DEF LocalOk, OwnsRecord
    <3>3. idx[db[q].idxoff].dat \in DOMAIN dat \ {idx[j].dat}
      BY <1>2, <1>3, <3>2 DEF DataOk
    <3> QED
      BY <1>5, <3>2, <3>3
  <2> QED
    BY <2>1, <2>2, <2>3, <2>4, <2>5, <2>6, <2>7 DEF Spares
<1>11. Apart'
  BY <1>7, <1>8, ApartStep DEF DbInv
<1> QED
  BY <1>5, <1>7, <1>9, <1>10, <1>11, Together

LEMMA RecordIs ==
  ASSUME DbInv, NEW p \in Procs, db[p].key \in Keys, db[p].data \in Datas
  PROVE  /\ Record(p) \in IdxRec /\ Record(p).key = db[p].key /\ Record(p).dat = db[p].datoff
         /\ Record(p).ptr = db[p].ptrval
<1>1. db[p] \in Local
  BY Typing
<1>2. db[p].datoff \in Nat /\ db[p].ptrval \in Nat
  BY <1>1, LocalIs
<1> QED
  BY <1>2 DEF Record, IdxRec, Lens

LEMMA AppendIdxKeeps ==
  ASSUME DbInv, NEW p \in Procs, AppendIdx(p)
  PROVE  DbInv' /\ \A h \in Chains : ChainKept(h)
<1>1. /\ dat' = dat /\ chain' = chain /\ free' = free /\ chainlock' = chainlock /\ datlock' = datlock
      /\ db[p].pc = "appendidx" /\ idxlock' = NoProc /\ Goto(p, "writeptr")
      /\ idx' = Put(idx, db[p].idxoff, Record(p))
  BY DEF AppendIdx, At
<1>2. /\ db \in [Procs -> Local] /\ DbTypes /\ LocalOk(p)
      /\ db[p].key \in Keys /\ db[p].data \in Datas /\ ChainOf(p) \in Chains
      /\ idx \in Seq(IdxRec) /\ DataOk /\ FreeOk
  BY <1>1, Typing DEF DbInv
<1>3. idxlock = p /\ db[p].idxoff = Len(idx) + 1
  BY <1>1, <1>2 DEF LocalOk, Locks
<1> DEFINE j == db[p].idxoff
<1>4. /\ idx' \in Seq(IdxRec) /\ Len(idx') = Len(idx) + 1
      /\ DOMAIN idx' = DOMAIN idx \cup {j} /\ j \notin DOMAIN idx
      /\ idx'[j] = Record(p) /\ \A x \in DOMAIN idx : idx'[x] = idx[x]
  <2> DEFINE t == Put(idx, Len(idx) + 1, Record(p))
  <2>1. idx \in Seq(IdxRec) /\ Record(p) \in IdxRec
    BY <1>2, RecordIs
  <2>2. idx' = t
    BY <1>1, <1>3
  <2>3. t = Append(idx, Record(p))
    BY DEF Put
  <2> HIDE DEF t
  <2>4. /\ t \in Seq(IdxRec) /\ Len(t) = Len(idx) + 1 /\ t[Len(idx) + 1] = Record(p)
        /\ \A x \in 1 .. Len(idx) : t[x] = idx[x]
    BY <2>1, <2>3
  <2>5. DOMAIN idx = 1 .. Len(idx) /\ DOMAIN t = 1 .. Len(idx) + 1
    BY <2>1, <2>4
  <2>6. /\ 1 .. Len(idx) + 1 = 1 .. Len(idx) \cup {Len(idx) + 1}
        /\ Len(idx) + 1 \notin 1 .. Len(idx)
    BY <2>1
  <2> QED
    BY <1>3, <2>2, <2>4, <2>5, <2>6
<1>5. idx'[j].key = db[p].key /\ idx'[j].dat = db[p].datoff /\ idx'[j].ptr = db[p].ptrval
  BY <1>2, <1>4, RecordIs
<1> HIDE DEF j
<1>6. /\ db[p].datoff \in DOMAIN dat /\ \A i \in DOMAIN idx : idx[i].dat # db[p].datoff
      /\ dat[db[p].datoff] = db[p].data
  BY <1>1, <1>2 DEF LocalOk, OwnsData, HasData
<1>7. "writeptr" \in Pcs /\ "writeptr" \in Adding
      /\ "writeptr" \notin {"findfree", "reuse", "reuseidx", "appenddat", "appendidx"}
  BY DEF Pcs, Adding
<1>8. Goes(p, "writeptr")
  BY <1>1, <1>2, <1>7, GotoMoves
<1>9. /\ db' \in [Procs -> Local] /\ \A q \in Procs \ {p} : db'[q] = db[q]
      /\ db'[p].pc = "writeptr" /\ db'[p].key = db[p].key /\ db'[p].data = db[p].data
      /\ db'[p].datoff = db[p].datoff /\ db'[p].idxoff = j /\ db'[p].ptrval = db[p].ptrval
  BY <1>8 DEF Goes, Moves, j
<1>10. DbTypes'
  BY <1>1, <1>2, <1>4, <1>9 DEF DbTypes
<1>11. Free' = Free /\ Free \subseteq DOMAIN idx
  BY <1>1, <1>2 DEF Free, FreeOk
<1>12. \A h \in Chains : ChainOk(h) /\ InChain(h) \subseteq DOMAIN idx
  BY DEF DbInv, ChainOk
<1>13. ASSUME NEW h \in Chains PROVE ChainKept(h) /\ ChainOk(h)'
  <2>1. ChainOk(h) /\ \A i \in InChain(h) : idx'[i] = idx[i]
    BY <1>4, <1>12
  <2>2. Len(idx) <= Len(idx')
    BY <1>2, <1>4
  <2>3. ChainKept(h)
    BY <1>1, <1>4, <2>1, <2>2, ChainsKept
  <2> QED
    BY <1>11, <2>1, <2>3, KeptOk DEF ChainOk
<1>14. FreeOk'
  BY <1>1, <1>2, <1>4, <1>11 DEF FreeOk
<1>15. DataOk'
  <2>1. \A i \in DOMAIN idx' : idx'[i].dat \in DOMAIN dat'
    BY <1>1, <1>2, <1>4, <1>5, <1>6 DEF DataOk
  <2>2. \A x, i \in DOMAIN idx' : idx'[x].dat = idx'[i].dat => x = i
    BY <1>2, <1>4, <1>5, <1>6 DEF DataOk
  <2> QED
    BY <2>1, <2>2 DEF DataOk
<1>16. LocalOk(p)'
  <2>1. db[p].pc \in Adding
    BY <1>1 DEF Adding
  <2>2. Found(db[p].key)' = {}
    <3>1. Found(db[p].key) = {}
      BY <1>2, <2>1 DEF LocalOk, Adds
    <3> QED
      BY <1>2, <1>9, <1>13, <3>1, FoundKept, ChainsIn
  <2>3. Called(p)' /\ Locks(p)' /\ Changes(p)' /\ Adds(p)'
    BY <1>1, <1>7, <1>8, <2>1, <2>2, AddsOn
  <2>4. OwnsRecord(p)'
    <3>1. j \in DOMAIN idx' \ Free' /\ \A h \in Chains : j \notin InChain(h)'
      BY <1>4, <1>11, <1>12, <1>13 DEF ChainKept
    <3> QED
      BY <1>5, <1>9, <3>1 DEF OwnsRecord
  <2>5. OwnsData(p)'
    BY <1>1, <1>6, <1>9 DEF OwnsData, HasData
  <2> QED
    BY <2>3, <2>4, <2>5 DEF LocalOk
<1>17. ASSUME NEW q \in Procs \ {p} PROVE Spares(q)
  <2>1. LocalOk(q) /\ db'[q] = db[q] /\ (db[q].pc \in Holding => ChainOf(q) \in Chains)
    BY <1>9, Typing DEF Holding, Changing, Adding
  <2>2. db[q].pc \in Holding => chainlock'[ChainOf(q)] = q /\ ChainKept(ChainOf(q))
    BY <1>1, <1>13, <2>1 DEF LocalOk, Locks
  <2>3. db[q].pc = "appenddat" => datlock' = q /\ Len(dat') = Len(dat)
    BY <1>1, <2>1 DEF LocalOk, Locks
  <2>4. db[q].pc # "appendidx"
    BY <1>3, <2>1 DEF LocalOk, Locks
  <2>5. db[q].pc \in HasRecord =>
         /\ db[q].idxoff \in DOMAIN idx' \ Free' /\ idx'[db[q].idxoff] = idx[db[q].idxoff]
         /\ \A h \in Chains : db[q].idxoff \notin InChain(h)'
    BY <1>4, <1>11, <1>13, <2>1 DEF LocalOk, OwnsRecord, ChainKept
  <2>6. db[q].pc \in HasData =>
         db[q].datoff \in DOMAIN dat' /\ \A i \in DOMAIN idx' : idx'[i].dat # db[q].datoff
    <3>1. db[p].pc \in HasData
      BY <1>1 DEF HasData
    <3>2. db[q].pc \in HasData => db[q].datoff # db[p].datoff
      BY <3>1 DEF DbInv, Apart
    <3> QED
      BY <1>1, <1>4, <1>5, <2>1, <3>2 DEF LocalOk, OwnsData
  <2> QED
    BY <1>1, <2>1, <2>2, <2>3, <2>4, <2>5, <2>6 DEF Spares
<1>18. Apart'
  <2>1. \A q \in Procs \ {p} : db[q].pc \in HasRecord => db[q].idxoff # db'[p].idxoff
    BY <1>4, <1>9 DEF DbInv, LocalOk, OwnsRecord
  <2>2. db'[p].pc \notin HasData /\ Apart
    BY <1>9 DEF HasData, DbInv
  <2> QED
    BY <1>9, <2>1, <2>2, ApartStep
<1> QED
  BY <1>10, <1>13, <1>14, <1>15, <1>16, <1>17, <1>18, Together

LEMMA ReuseIdxKeeps ==
  ASSUME DbInv, NEW p \in Procs, ReuseIdx(p)
  PROVE  DbInv' /\ \A h \in Chains : ChainKept(h)
<1>1. /\ dat' = dat /\ chain' = chain /\ free' = free /\ UNCHANGED locks
      /\ db[p].pc = "reuseidx" /\ Goto(p, "writeptr")
      /\ idx' = [idx EXCEPT ![db[p].idxoff] = Record(p)]
  BY DEF ReuseIdx, At
<1>2. /\ db \in [Procs -> Local] /\ DbTypes /\ LocalOk(p)
      /\ db[p].key \in Keys /\ db[p].data \in Datas /\ ChainOf(p) \in Chains
      /\ idx \in Seq(IdxRec) /\ DataOk /\ FreeOk
  BY <1>1, Typing DEF DbInv
<1> DEFINE j == db[p].idxoff
<1>3. /\ j \in DOMAIN idx \ Free /\ db[p].datoff = idx[j].dat
      /\ \A h \in Chains : j \notin InChain(h)
  BY <1>1, <1>2 DEF LocalOk, OwnsRecord, HasRecord
<1>4. Record(p) \in IdxRec
  BY <1>2, RecordIs
<1>5. /\ idx' \in Seq(IdxRec) /\ Len(idx') = Len(idx) /\ DOMAIN idx' = DOMAIN idx
      /\ idx'[j] = Record(p) /\ \A x \in DOMAIN idx \ {j} : idx'[x] = idx[x]
  BY <1>1, <1>2, <1>3, <1>4
<1>6. /\ idx'[j].key = db[p].key /\ idx'[j].dat = db[p].datoff /\ idx'[j].ptr = db[p].ptrval
      /\ \A x \in DOMAIN idx : idx'[x].dat = idx[x].dat
  <2>1. idx'[j].key = db[p].key /\ idx'[j].dat = db[p].datoff /\ idx'[j].ptr = db[p].ptrval
    BY <1>2, <1>5, RecordIs
  <2> QED
    BY <1>3, <1>5, <2>1
<1> HIDE DEF j
<1>7. "writeptr" \in Pcs /\ "writeptr" \in Adding
      /\ "writeptr" \notin {"findfree", "reuse", "reuseidx", "appenddat", "appendidx"}
  BY DEF Pcs, Adding
<1>8. Goes(p, "writeptr")
  BY <1>1, <1>2, <1>7, GotoMoves
<1>9. /\ db' \in [Procs -> Local] /\ \A q \in Procs \ {p} : db'[q] = db[q]
      /\ db'[p].pc = "writeptr" /\ db'[p].key = db[p].key /\ db'[p].data = db[p].data
      /\ db'[p].datoff = db[p].datoff /\ db'[p].idxoff = j /\ db'[p].ptrval = db[p].ptrval
  BY <1>8 DEF Goes, Moves, j
<1>10. DbTypes'
  BY <1>1, <1>2, <1>5, <1>9 DEF DbTypes, locks
<1>11. Free' = Free /\ Free \subseteq DOMAIN idx
  BY <1>1, <1>2 DEF Free, FreeOk
<1>12. ASSUME NEW h \in Chains PROVE ChainKept(h) /\ ChainOk(h)'
  <2>1. ChainOk(h) /\ \A i \in InChain(h) : i \in DOMAIN idx \ {j}
    BY <1>3 DEF DbInv, ChainOk
  <2>2. \A i \in InChain(h) : idx'[i] = idx[i]
    BY <1>5, <2>1
  <2>3. Len(idx) <= Len(idx')
    BY <1>2, <1>5
  <2>4. ChainKept(h)
    BY <1>1, <1>5, <2>2, <2>3, ChainsKept
  <2> QED
    BY <1>11, <2>1, <2>4, KeptOk DEF ChainOk
<1>13. FreeOk'
  <2>1. \A i \in Free : idx'[i] = idx[i]
    BY <1>3, <1>5, <1>11
  <2> QED
    BY <1>1, <1>2, <1>5, <1>11, <2>1 DEF FreeOk
<1>14. DataOk'
  BY <1>1, <1>2, <1>5, <1>6 DEF DataOk
<1>15. LocalOk(p)'
  <2>1. db[p].pc \in Adding
    BY <1>1 DEF Adding
  <2>2. Found(db[p].key)' = {}
    <3>1. Found(db[p].key) = {}
      BY <1>2, <2>1 DEF LocalOk, Adds
    <3> QED
      BY <1>2, <1>9, <1>12, <3>1, FoundKept, ChainsIn
  <2>3. Called(p)' /\ Locks(p)' /\ Changes(p)' /\ Adds(p)'
    BY <1>1, <1>7, <1>8, <2>1, <2>2, AddsOn DEF locks
  <2>4. OwnsRecord(p)'
    <3>1. j \in DOMAIN idx' \ Free' /\ \A h \in Chains : j \notin InChain(h)'
      BY <1>3, <1>5, <1>11, <1>12 DEF ChainKept
    <3> QED
      BY <1>6, <1>9, <3>1 DEF OwnsRecord
  <2>5. OwnsData(p)'
    BY <1>1, <1>2, <1>9 DEF OwnsData, HasData, LocalOk
  <2> QED
    BY <2>3, <2>4, <2>5 DEF LocalOk
<1>16. ASSUME NEW q \in Procs \ {p} PROVE Spares(q)
  <2>1. LocalOk(q) /\ db'[q] = db[q] /\ (db[q].pc \in Holding => ChainOf(q) \in Chains)
    BY <1>9, Typing DEF Holding, Changing, Adding
  <2>2. db[q].pc \in Holding => chainlock'[ChainOf(q)] = q /\ ChainKept(ChainOf(q))
    BY <1>1, <1>12, <2>1 DEF LocalOk, Locks, locks
  <2>3. db[q].pc = "appenddat" => datlock' = q /\ Len(dat') = Len(dat)
    BY <1>1, <2>1 DEF LocalOk, Locks, locks
  <2>4. db[q].pc = "appendidx" => idxlock' = q /\ Len(idx') = Len(idx)
    BY <1>1, <1>5, <2>1 DEF LocalOk, Locks, locks
  <2>5. ASSUME db[q].pc \in HasRecord
        PROVE  /\ db[q].idxoff \in DOMAIN idx' \ Free' /\ idx'[db[q].idxoff] = idx[db[q].idxoff]
               /\ \A h \in Chains : db[q].idxoff \notin InChain(h)'
    <3>1. db[p].pc \in HasRecord
      BY <1>1 DEF HasRecord
    <3>2. db[q].idxoff # j
      BY <2>5, <3>1 DEF DbInv, Apart, j
    <3> QED
      BY <1>5, <1>11, <1>12, <2>1, <2>5, <3>2 DEF LocalOk, OwnsRecord, ChainKept
  <2>6. db[q].pc \in HasData =>
         db[q].datoff \in DOMAIN dat' /\ \A i \in DOMAIN idx' : idx'[i].dat # db[q].datoff
    BY <1>1, <1>5, <1>6, <2>1 DEF LocalOk, OwnsData
  <2> QED
    BY <1>1, <2>1, <2>2, <2>3, <2>4, <2>5, <2>6 DEF Spares
<1>17. Apart'
  <2>1. \A q \in Procs \ {p} : db[q].pc \in HasRecord => db[q].idxoff # db'[p].idxoff
    BY <1>1, <1>9 DEF DbInv, Apart, HasRecord, j
  <2>2. db'[p].pc \notin HasData /\ Apart
    BY <1>9 DEF HasData, DbInv
  <2> QED
    BY <1>9, <2>1, <2>2, ApartStep
<1> QED
  BY <1>10, <1>12, <1>13, <1>14, <1>15, <1>16, <1>17, Together

LEMMA WritePtrKeeps ==
  ASSUME DbInv, NEW p \in Procs, WritePtr(p)
  PROVE  DbInv' /\ \A k \in Keys : Found(k)' = IF k = db[p].key THEN {db[p].idxoff} ELSE Found(k)
<1>1. /\ idx' = idx /\ dat' = dat /\ free' = free /\ UNCHANGED locks
      /\ db[p].pc = "writeptr" /\ Done(p, 0)
      /\ chain' = [chain EXCEPT ![ChainOf(p)] = db[p].idxoff]
  BY DEF WritePtr, At
<1>2. /\ db \in [Procs -> Local] /\ DbTypes /\ LocalOk(p)
      /\ db[p].key \in Keys /\ db[p].data \in Datas /\ ChainOf(p) \in Chains
      /\ idx \in Seq(IdxRec) /\ DataOk /\ FreeOk /\ chain \in [Chains -> Nat]
  BY <1>1, Typing DEF DbInv
<1> DEFINE j == db[p].idxoff
<1>0. PICK c \in Chains : c = ChainOf(p)
  BY <1>2
<1>3. db[p].pc \in HasRecord /\ db[p].pc \in Adding /\ db[p].pc \in Holding
  BY <1>1 DEF HasRecord, Holding, Adding
<1>4. /\ j \in DOMAIN idx \ Free /\ db[p].datoff = idx[j].dat
      /\ \A h \in Chains : j \notin InChain(h)
      /\ idx[j].key = db[p].key /\ idx[j].ptr = db[p].ptrval
  BY <1>1, <1>2, <1>3 DEF LocalOk, OwnsRecord
<1>5. Found(db[p].key) = {} /\ db[p].ptrval = chain[c] /\ chainlock[c] = p
  BY <1>0, <1>2, <1>3 DEF LocalOk, Adds, Locks
<1>6. dat[idx[j].dat] = db[p].data
  BY <1>1, <1>2, <1>4 DEF LocalOk, OwnsData
<1>7. Hash[db[p].key] = c
  BY <1>0 DEF ChainOf
<1> HIDE DEF j
<1>8. /\ chain' \in [Chains -> Nat] /\ chain'[c] = j
      /\ \A h \in Chains \ {c} : chain'[h] = chain[h]
  <2>1. j \in Nat
    BY <1>2, <1>4
  <2> QED
    BY <1>0, <1>1, <1>2, <2>1 DEF j
<1>9. Finishes(p, 0) /\ 0 \in {0, 1, -1}
  <2>1. 0 \in {0, 1, -1}
    OBVIOUS
  <2> QED
    BY <1>1, <1>2, <2>1, DoneMoves
<1>10. LocalOk(p)' /\ db'[p].pc \notin HasRecord /\ db'[p].pc \notin HasData
  BY <1>0, <1>1, <1>2, <1>5, <1>9, DoneOk DEF locks
<1>11. db' \in [Procs -> Local] /\ \A q \in Procs \ {p} : db'[q] = db[q]
  BY <1>9 DEF Finishes
<1>12. DbTypes'
  BY <1>1, <1>2, <1>8, <1>11 DEF DbTypes, locks
<1>13. Free' = Free /\ Free \subseteq DOMAIN idx
  BY <1>1, <1>2 DEF Free, FreeOk
<1>14. \A h \in Chains : ChainOk(h)
  BY DEF DbInv
<1>15. ASSUME NEW h \in Chains \ {c} PROVE ChainKept(h) /\ ChainOk(h)'
  <2>1. Len(idx) <= Len(idx')
    BY <1>1, <1>2
  <2>2. ChainKept(h)
    BY <1>1, <1>2, <1>8, <2>1, ChainsKept
  <2> QED
    BY <1>13, <1>14, <2>2, KeptOk DEF ChainOk
<1>16. InChain(c)' = {j} \cup InChain(c) /\ HasPath(idx, chain[c])'
  <2>1. /\ HasPath(idx, chain[c]) /\ idx[j].ptr = chain[c] /\ j \notin Linked(idx, chain[c])
        /\ Len(idx) \in Nat /\ j \in 1 .. Len(idx)
    BY <1>2, <1>4, <1>5, <1>14 DEF ChainOk, InChain
  <2>2. HasPath(idx, j) /\ Linked(idx, j) = {j} \cup Linked(idx, chain[c])
    BY <2>1, LinkedPush
  <2>3. InChain(c)' = Linked(idx', chain'[c]) /\ InChain(c) = Linked(idx, chain[c])
    BY DEF InChain
  <2>4. HasPath(idx, chain[c])' <=> HasPath(idx', chain'[c])
    OBVIOUS
  <2> QED
    BY <1>1, <1>8, <2>2, <2>3, <2>4
<1>17. ChainOk(c)'
  <2>1. ChainOk(c)
    BY <1>14
  <2>2. InChain(c)' \subseteq DOMAIN idx' /\ InChain(c)' \cap Free' = {}
    BY <1>1, <1>4, <1>13, <1>16, <2>1 DEF ChainOk
  <2>3. \A i \in InChain(c)' : idx'[i].key \in Keys /\ Hash[idx'[i].key] = c /\ dat'[idx'[i].dat] \in Datas
    BY <1>1, <1>2, <1>4, <1>6, <1>7, <1>16, <2>1 DEF ChainOk
  <2>4. \A i \in InChain(c) : idx[i].key # db[p].key
    BY <1>5, <1>7 DEF Found
  <2>5. \A i, k \in InChain(c)' : idx'[i].key = idx'[k].key => i = k
    BY <1>1, <1>4, <1>16, <2>1, <2>4 DEF ChainOk
  <2> QED
    BY <1>16, <2>2, <2>3, <2>5 DEF ChainOk
<1>18. \A h \in Chains : ChainOk(h)'
  BY <1>15, <1>17
<1>19. FreeOk' /\ DataOk'
  BY <1>1, <1>2, <1>13 DEF FreeOk, DataOk
<1>20. ASSUME NEW q \in Procs \ {p} PROVE Spares(q)
  <2>1. LocalOk(q) /\ db'[q] = db[q] /\ (db[q].pc \in Holding => ChainOf(q) \in Chains)
    BY <1>11, Typing DEF Holding, Changing, Adding
  <2>2. db[q].pc \in Holding => ChainOf(q) \in Chains \ {c}
    BY <1>0, <1>3, <2>1, Holder
  <2>3. db[q].pc \in Holding => chainlock'[ChainOf(q)] = q /\ ChainKept(ChainOf(q))
    BY <1>1, <1>15, <2>1, <2>2 DEF LocalOk, Locks, locks
  <2>4. /\ db[q].pc = "appenddat" => datlock' = q /\ Len(dat') = Len(dat)
        /\ db[q].pc = "appendidx" => idxlock' = q /\ Len(idx') = Len(idx)
    BY <1>1, <2>1 DEF LocalOk, Locks, locks
  <2>5. ASSUME db[q].pc \in HasRecord
        PROVE  /\ db[q].idxoff \in DOMAIN idx' \ Free' /\ idx'[db[q].idxoff] = idx[db[q].idxoff]
               /\ \A h \in Chains : db[q].idxoff \notin InChain(h)'
    <3>1. db[q].idxoff # j
      BY <1>3, <2>5 DEF DbInv, Apart, j
    <3>2. \A h \in Chains : db[q].idxoff \notin InChain(h)
      BY <2>1, <2>5 DEF LocalOk, OwnsRecord
    <3>3. ASSUME NEW h \in Chains PROVE db[q].idxoff \notin InChain(h)'
      <4>1. CASE h = c
        BY <1>16, <3>1, <3>2, <4>1
      <4>2. CASE h # c
        BY <1>15, <3>2, <4>2 DEF ChainKept
      <4> QED
        BY <4>1, <4>2
    <3> QED
      BY <1>1, <1>13, <2>1, <2>5, <3>3 DEF LocalOk, OwnsRecord
  <2>6. db[q].pc \in HasData =>
         db[q].datoff \in DOMAIN dat' /\ \A i \in DOMAIN idx' : idx'[i].dat # db[q].datoff
    BY <1>1, <2>1 DEF LocalOk, OwnsData
  <2> QED
    BY <1>1, <2>1, <2>3, <2>4, <2>5, <2>6 DEF Spares
<1>21. Apart'
  BY <1>10, <1>11, ApartStep DEF DbInv
<1>22. ASSUME NEW k \in Keys
       PROVE  Found(k)' = IF k = db[p].key THEN {db[p].idxoff} ELSE Found(k)
  <2>1. Found(k)' = {i \in InChain(Hash[k])' : idx[i].key = k} /\ Hash[k] \in Chains
    BY <1>1, ChainsIn DEF Found
  <2>2. CASE k = db[p].key
    <3>1. \A i \in InChain(c) : idx[i].key # k
      BY <1>5, <1>7, <2>2 DEF Found
    <3> QED
      BY <1>4, <1>7, <1>16, <2>1, <2>2, <3>1 DEF j
  <2>3. CASE k # db[p].key /\ Hash[k] = c
    BY <1>4, <1>16, <2>1, <2>3 DEF Found
  <2>4. CASE k # db[p].key /\ Hash[k] # c
    BY <1>15, <2>1, <2>4 DEF Found, ChainKept
  <2> QED
    BY <2>2, <2>3, <2>4
<1> QED
  BY <1>10, <1>12, <1>18, <1>19, <1>20, <1>21, <1>22, Together

LEMMA Pushed ==
  ASSUME NEW s \in Seq(Nat), \A m, n \in DOMAIN s : s[m] = s[n] => m = n,
         NEW i \in Nat, \A m \in DOMAIN s : s[m] # i
  PROVE  LET t == <<i>> \o s
         IN  /\ t \in Seq(Nat) /\ \A m, n \in DOMAIN t : t[m] = t[n] => m = n
             /\ {t[k] : k \in DOMAIN t} = {i} \cup {s[k] : k \in DOMAIN s}
<1> DEFINE a == <<i>>  t == a \o s  L == Len(s)
<1>1. a \in Seq(Nat) /\ Len(a) = 1 /\ a[1] = i
  OBVIOUS
<1>2. L \in Nat /\ DOMAIN s = 1 .. L
  OBVIOUS
<1> HIDE DEF a, L
<1>3. /\ t \in Seq(Nat) /\ Len(t) = 1 + L
      /\ \A k \in 1 .. 1 : t[k] = a[k]
      /\ \A k \in 1 .. L : t[1 + k] = s[k]
  <2>1. /\ t \in Seq(Nat) /\ Len(t) = Len(a) + Len(s)
        /\ \A k \in 1 .. Len(a) : t[k] = a[k]
        /\ \A k \in 1 .. Len(s) : t[Len(a) + k] = s[k]
    <3>1. a \in Seq(Nat) /\ s \in Seq(Nat)
      BY <1>1
    <3> QED
      BY <3>1, JoinIs
  <2> HIDE DEF t
  <2> QED
    BY <1>1, <2>1 DEF L
<1> HIDE DEF t
<1>4. DOMAIN t = 1 .. L + 1 /\ t[1] = i
  BY <1>1, <1>2, <1>3
<1>5. \A k \in 1 .. L + 1 : k = 1 \/ (k - 1 \in 1 .. L /\ t[k] = s[k - 1])
  <2> SUFFICES ASSUME NEW k \in 1 .. L + 1, k # 1 PROVE k - 1 \in 1 .. L /\ t[k] = s[k - 1]
    OBVIOUS
  <2>1. k - 1 \in 1 .. L /\ 1 + (k - 1) = k
    BY <1>2
  <2> QED
    BY <1>3, <2>1
<1>6. ASSUME NEW m \in 1 .. L + 1, NEW n \in 1 .. L + 1, t[m] = t[n] PROVE m = n
  <2>1. CASE m = 1 /\ n = 1
    BY <2>1
  <2>2. CASE m = 1 /\ n # 1
    BY <1>2, <1>4, <1>5, <1>6, <2>2
  <2>3. CASE m # 1 /\ n = 1
    BY <1>2, <1>4, <1>5, <1>6, <2>3
  <2>4. CASE m # 1 /\ n # 1
    <3>1. m - 1 \in DOMAIN s /\ n - 1 \in DOMAIN s /\ s[m - 1] = s[n - 1]
      BY <1>2, <1>5, <1>6, <2>4
    <3>2. m - 1 = n - 1
      BY <3>1
    <3> QED
      BY <1>2, <3>2
  <2> QED
    BY <2>1, <2>2, <2>3, <2>4
<1>7. ASSUME NEW x \in {t[k] : k \in 1 .. L + 1} PROVE x \in {i} \cup {s[k] : k \in 1 .. L}
  BY <1>4, <1>5
<1>8. ASSUME NEW x \in {i} \cup {s[k] : k \in 1 .. L} PROVE x \in {t[k] : k \in 1 .. L + 1}
  <2>1. 1 \in 1 .. L + 1 /\ \A k \in 1 .. L : 1 + k \in 1 .. L + 1
    BY <1>2
  <2>2. CASE x = i
    BY <1>4, <2>1, <2>2
  <2>3. CASE x \in {s[k] : k \in 1 .. L}
    <3>1. PICK k \in 1 .. L : x = s[k]
      BY <2>3
    <3>2. x = t[1 + k] /\ 1 + k \in 1 .. L + 1
      BY <1>3, <2>1, <3>1
    <3> QED
      BY <3>2
  <2> QED
    BY <1>8, <2>2, <2>3
<1>9. {t[k] : k \in DOMAIN t} = {i} \cup {s[k] : k \in DOMAIN s}
  BY <1>2, <1>4, <1>7, <1>8
<1>10. /\ t \in Seq(Nat) /\ \A m, n \in DOMAIN t : t[m] = t[n] => m = n
       /\ {t[k] : k \in DOMAIN t} = {i} \cup {s[k] : k \in DOMAIN s}
  BY <1>3, <1>4, <1>6, <1>9
<1> QED
  BY <1>10 DEF t, a

(* The files after a record was deleted.                                   *)
LEMMA Unlinks ==
  ASSUME DbInv, NEW c \in Chains, NEW j \in InChain(c), Unlinked(j, c)
  PROVE  /\ j \in DOMAIN idx /\ idx' \in Seq(IdxRec) /\ DOMAIN idx' = DOMAIN idx /\ Len(idx') = Len(idx)
         /\ idx'[j].key = Blank /\ \A x \in DOMAIN idx : idx'[x].dat = idx[x].dat
         /\ \A x \in DOMAIN idx \ {j} : idx'[x].key = idx[x].key
         /\ \A x \in DOMAIN idx : x \notin InChain(c) => idx'[x] = idx[x]
         /\ chain' \in [Chains -> Nat] /\ \A h \in Chains \ {c} : chain'[h] = chain[h]
         /\ HasPath(idx, chain[c])' /\ InChain(c)' = InChain(c) \ {j}
<1>1. /\ idx \in Seq(IdxRec) /\ chain \in [Chains -> Nat] /\ ChainOk(c)
  BY DEF DbInv, DbTypes
<1>2. /\ j \in DOMAIN idx /\ DOMAIN idx = 1 .. Len(idx) /\ Len(idx) \in Nat
      /\ InChain(c) \subseteq DOMAIN idx /\ HasPath(idx, chain[c])
  BY <1>1 DEF ChainOk
<1>3. \A x \in DOMAIN idx : idx[x] \in IdxRec
  BY <1>1
<1> DEFINE new(x) == IF x = j THEN [idx[j] EXCEPT !.key = Blank]
                     ELSE IF x \in InChain(c) /\ idx[x].ptr = j THEN [idx[x] EXCEPT !.ptr = idx[j].ptr]
                     ELSE idx[x]
<1>4. idx' = [x \in DOMAIN idx |-> new(x)]
  BY DEF Unlinked
<1>5. ASSUME NEW x \in DOMAIN idx
      PROVE  /\ new(x) \in IdxRec /\ new(x).dat = idx[x].dat
             /\ x = j => new(x).key = Blank
             /\ x # j => new(x).key = idx[x].key
             /\ x # j => new(x).ptr = IF x \in InChain(c) /\ idx[x].ptr = j THEN idx[j].ptr ELSE idx[x].ptr
             /\ x \notin InChain(c) => new(x) = idx[x]
  <2>1. idx[x] \in IdxRec /\ idx[j] \in IdxRec
    BY <1>2, <1>3
  <2>2. CASE x = j
    BY <2>1, <2>2 DEF IdxRec
  <2>3. CASE x # j /\ x \in InChain(c) /\ idx[x].ptr = j
    BY <2>1, <2>3 DEF IdxRec
  <2>4. CASE x # j /\ ~(x \in InChain(c) /\ idx[x].ptr = j)
    BY <2>1, <2>4
  <2> QED
    BY <2>2, <2>3, <2>4
<1> HIDE DEF new
<1>6. DOMAIN idx' = DOMAIN idx /\ \A x \in DOMAIN idx : idx'[x] = new(x)
  BY <1>4
<1>7. idx' \in Seq(IdxRec) /\ Len(idx') = Len(idx)
  <2>1. idx' \in [1 .. Len(idx) -> IdxRec]
    BY <1>2, <1>4, <1>5
  <2> QED
    BY <1>2, <2>1
<1>8. chain' = IF chain[c] = j THEN [chain EXCEPT ![c] = idx[j].ptr] ELSE chain
  BY DEF Unlinked
<1>9. /\ chain' \in [Chains -> Nat] /\ \A h \in Chains \ {c} : chain'[h] = chain[h]
      /\ chain'[c] = IF chain[c] = j THEN idx[j].ptr ELSE chain[c]
  <2>1. idx[j].ptr \in Nat
    BY <1>2, <1>3 DEF IdxRec
  <2> QED
    BY <1>1, <1>8, <2>1
<1>10. HasPath(idx', chain'[c]) /\ Linked(idx', chain'[c]) = Linked(idx, chain[c]) \ {j}
  <2>1. \A x \in Linked(idx, chain[c]) \ {j} :
          idx'[x].ptr = IF idx[x].ptr = j THEN idx[j].ptr ELSE idx[x].ptr
    BY <1>2, <1>5, <1>6 DEF InChain
  <2>2. j \in Linked(idx, chain[c])
    BY DEF InChain
  <2>3. LET i2 == IF chain[c] = j THEN idx[j].ptr ELSE chain[c]
        IN  HasPath(idx', i2) /\ Linked(idx', i2) = Linked(idx, chain[c]) \ {j}
    BY <1>2, <1>7, <2>1, <2>2, LinkedCut
  <2> QED
    BY <1>9, <2>3
<1>11. HasPath(idx, chain[c])' /\ InChain(c)' = InChain(c) \ {j}
  <2>1. HasPath(idx, chain[c])' <=> HasPath(idx', chain'[c])
    OBVIOUS
  <2> QED
    BY <1>10, <2>1 DEF InChain
<1> QED
  BY <1>2, <1>5, <1>6, <1>7, <1>9, <1>11

LEMMA DeleteKeeps ==
  ASSUME DbInv, NEW p \in Procs, Delete(p)
  PROVE  DbInv' /\ \A k \in Keys \ {db[p].key} : SameFound(k)
<1>1. /\ UNCHANGED locks /\ db[p].pc = "delete" /\ Unlinked(db[p].idxoff, ChainOf(p))
      /\ dat' = [dat EXCEPT ![db[p].datoff] = Blank] /\ free' = <<db[p].idxoff>> \o free
      /\ db' = [db EXCEPT ![p].pc = "lockdat", ![p].ptrval = chain'[ChainOf(p)]]
  BY DEF Delete, At
<1>2. /\ db \in [Procs -> Local] /\ db[p] \in Local /\ DbTypes /\ LocalOk(p)
      /\ db[p].key \in Keys /\ db[p].data \in Datas /\ ChainOf(p) \in Chains
      /\ idx \in Seq(IdxRec) /\ dat \in Seq(Datas \cup {Blank}) /\ free \in Seq(Nat)
      /\ DataOk /\ FreeOk
  BY <1>1, Typing DEF DbInv
<1>3. PICK c \in Chains : c = ChainOf(p)
  BY <1>2
<1>4. PICK j : j = db[p].idxoff
  OBVIOUS
<1>5. /\ j \in DOMAIN idx \ Free /\ j \in InChain(c) /\ db[p].datoff = idx[j].dat
      /\ idx[j].key = db[p].key /\ db[p].old = dat[idx[j].dat] /\ "insert" \notin db[p].flag
      /\ chainlock[c] = p
      /\ \A h \in Chains : j \in InChain(h) => h = c
      /\ \A q \in Procs \ {p} : db[q].pc \in HasRecord => db[q].idxoff # j
      /\ \A q \in Procs \ {p} : db[q].pc \in Holding => ChainOf(q) # c
  <2>1. db[p].pc \in Changing
    BY <1>1 DEF Changing
  <2> QED
    BY <1>3, <1>4, <2>1, ChangesRecord
<1>6. /\ idx' \in Seq(IdxRec) /\ DOMAIN idx' = DOMAIN idx /\ Len(idx') = Len(idx)
      /\ idx'[j].key = Blank /\ \A x \in DOMAIN idx : idx'[x].dat = idx[x].dat
      /\ \A x \in DOMAIN idx \ {j} : idx'[x].key = idx[x].key
      /\ \A x \in DOMAIN idx : x \notin InChain(c) => idx'[x] = idx[x]
      /\ chain' \in [Chains -> Nat] /\ \A h \in Chains \ {c} : chain'[h] = chain[h]
      /\ HasPath(idx, chain[c])' /\ InChain(c)' = InChain(c) \ {j}
  BY <1>1, <1>3, <1>4, <1>5, Unlinks
<1>7. /\ idx[j].dat \in DOMAIN dat
      /\ \A x \in DOMAIN idx \ {j} : idx[x].dat \in DOMAIN dat \ {idx[j].dat}
  BY <1>2, <1>5 DEF DataOk
<1>8. /\ dat' \in Seq(Datas \cup {Blank}) /\ DOMAIN dat' = DOMAIN dat /\ Len(dat') = Len(dat)
      /\ dat'[idx[j].dat] = Blank /\ \A x \in DOMAIN dat \ {idx[j].dat} : dat'[x] = dat[x]
  BY <1>1, <1>2, <1>5, <1>7
<1>9. /\ free' \in Seq(Nat) /\ \A m, n \in DOMAIN free' : free'[m] = free'[n] => m = n
      /\ Free' = {j} \cup Free
  <2>1. /\ \A m, n \in DOMAIN free : free[m] = free[n] => m = n
        /\ \A m \in DOMAIN free : free[m] # j
        /\ j \in Nat
    BY <1>2, <1>5 DEF FreeOk, Free
  <2> DEFINE t == <<j>> \o free
  <2>2. /\ t \in Seq(Nat) /\ \A m, n \in DOMAIN t : t[m] = t[n] => m = n
        /\ {t[k] : k \in DOMAIN t} = {j} \cup {free[k] : k \in DOMAIN free}
    BY <1>2, <2>1, Pushed
  <2>3. free' = t
    BY <1>1, <1>4
  <2> HIDE DEF t
  <2> QED
    BY <2>2, <2>3 DEF Free
<1>10. /\ db' \in [Procs -> Local] /\ \A q \in Procs \ {p} : db'[q] = db[q]
       /\ db'[p].pc = "lockdat" /\ db'[p].key = db[p].key /\ db'[p].data = db[p].data
       /\ db'[p].flag = db[p].flag /\ db'[p].rc = db[p].rc /\ db'[p].old = db[p].old
       /\ db'[p].ptrval = chain'[c]
  <2> DEFINE v == chain'[c]  r == [db[p] EXCEPT !.pc = "lockdat", !.ptrval = v]
  <2>1. v \in Nat /\ "lockdat" \in Pcs
    BY <1>6 DEF Pcs
  <2>2. db' = [db EXCEPT ![p] = r]
    BY <1>1, <1>3
  <2> HIDE DEF v
  <2>3. r \in Local /\ r.pc = "lockdat" /\ r.key = db[p].key /\ r.data = db[p].data /\ r.flag = db[p].flag
    BY <1>2, <2>1 DEF Local
  <2>4. r.ptrval = v /\ r.old = db[p].old /\ r.rc = db[p].rc
    BY <1>2 DEF Local
  <2> HIDE DEF r
  <2>5. db' \in [Procs -> Local] /\ db'[p] = r /\ \A q \in Procs \ {p} : db'[q] = db[q]
    BY <1>2, <2>2, <2>3
  <2> QED
    BY <2>3, <2>4, <2>5 DEF v
<1>11. DbTypes'
  BY <1>1, <1>2, <1>6, <1>8, <1>9, <1>10 DEF DbTypes, locks
<1>12. \A h \in Chains : ChainOk(h)
  BY DEF DbInv
<1>13. ASSUME NEW h \in Chains \ {c} PROVE ChainKept(h) /\ ChainOk(h)'
  <2>1. /\ \A i \in InChain(h) : i \in DOMAIN idx \ {j} /\ i \notin InChain(c)
        /\ InChain(h) \cap Free = {}
    BY <1>5, <1>12, OneChain DEF ChainOk
  <2>2. \A i \in InChain(h) : idx'[i] = idx[i] /\ dat'[idx[i].dat] = dat[idx[i].dat]
    BY <1>6, <1>7, <1>8, <2>1
  <2>3. Len(idx) <= Len(idx')
    BY <1>2, <1>6
  <2>4. ChainKept(h)
    BY <1>6, <2>2, <2>3, ChainsKept
  <2>5. InChain(h) \cap Free' = {}
    BY <1>9, <2>1
  <2> QED
    BY <1>12, <2>4, <2>5, KeptOk
<1>14. ChainOk(c)'
  <2>1. ChainOk(c)
    BY <1>12
  <2>2. InChain(c)' \subseteq DOMAIN idx' /\ InChain(c)' \cap Free' = {}
    BY <1>6, <1>9, <2>1 DEF ChainOk
  <2>3. \A i \in InChain(c)' : i \in InChain(c) /\ i \in DOMAIN idx \ {j}
    BY <1>6, <2>1 DEF ChainOk
  <2>4. \A i \in InChain(c)' : idx'[i].key = idx[i].key /\ dat'[idx'[i].dat] = dat[idx[i].dat]
    BY <1>6, <1>7, <1>8, <2>3
  <2>5. \A i \in InChain(c)' : idx'[i].key \in Keys /\ Hash[idx'[i].key] = c /\ dat'[idx'[i].dat] \in Datas
    BY <2>1, <2>3, <2>4 DEF ChainOk
  <2>6. \A i, k \in InChain(c)' : idx'[i].key = idx'[k].key => i = k
    BY <2>1, <2>3, <2>4 DEF ChainOk
  <2>7. HasPath(idx, chain[c])'
    BY <1>6
  <2> QED
    BY <2>2, <2>5, <2>6, <2>7 DEF ChainOk
<1>15. \A h \in Chains : ChainOk(h)'
  BY <1>13, <1>14
<1>16. FreeOk'
  <2>1. Free' \subseteq DOMAIN idx'
    BY <1>2, <1>5, <1>6, <1>9 DEF FreeOk
  <2>2. ASSUME NEW i \in Free' PROVE idx'[i].key = Blank /\ dat'[idx'[i].dat] = Blank
    <3>1. CASE i = j
      BY <1>5, <1>6, <1>8, <3>1
    <3>2. CASE i # j
      <4>1. i \in Free /\ i \in DOMAIN idx \ {j}
        BY <1>2, <1>9, <2>2, <3>2 DEF FreeOk
      <4>2. idx[i].key = Blank /\ dat[idx[i].dat] = Blank
        BY <1>2, <4>1 DEF FreeOk
      <4>3. idx'[i].key = idx[i].key /\ idx'[i].dat = idx[i].dat
        BY <1>6, <4>1
      <4>4. dat'[idx[i].dat] = dat[idx[i].dat]
        BY <1>7, <1>8, <4>1
      <4> QED
        BY <4>2, <4>3, <4>4
    <3> QED
      BY <3>1, <3>2
  <2> QED
    BY <1>9, <2>1, <2>2 DEF FreeOk
<1>17. DataOk'
  BY <1>2, <1>6, <1>8 DEF DataOk
<1>18. LocalOk(p)'
  <2>1. Called(p)'
    BY <1>1, <1>2, <1>10 DEF LocalOk, Called
  <2>2. Locks(p)'
    BY <1>1, <1>3, <1>5, <1>10 DEF Locks, ChainOf, locks
  <2>3. Changes(p)'
    BY <1>10 DEF Changes, Changing
  <2>4. Adds(p)'
    <3>1. c = Hash[db[p].key] /\ ChainOf(p)' = c
      BY <1>3, <1>10 DEF ChainOf
    <3>2. Found(db[p].key)' = {i \in InChain(c)' : idx'[i].key = db[p].key}
      BY <1>10, <3>1 DEF Found, InChain
    <3>3. ASSUME NEW i \in InChain(c)' PROVE idx'[i].key # db[p].key
      <4>1. i \in InChain(c) /\ i \in DOMAIN idx \ {j}
        BY <1>6, <1>12 DEF ChainOk
      <4>2. idx'[i].key = idx[i].key /\ idx[i].key # idx[j].key
        BY <1>5, <1>6, <1>12, <4>1 DEF ChainOk
      <4> QED
        BY <1>5, <4>2
    <3>4. db[p].old # Absent
      <4>1. dat[idx[j].dat] \in Datas
        BY <1>5, <1>12 DEF ChainOk
      <4> QED
        BY <1>5, <4>1, DbAssumption
    <3>5. Found(db[p].key)' = {}
      BY <3>2, <3>3
    <3> QED
      BY <1>5, <1>10, <3>1, <3>4, <3>5 DEF Adds
  <2>5. OwnsRecord(p)' /\ OwnsData(p)'
    BY <1>10 DEF OwnsRecord, OwnsData, HasRecord, HasData
  <2> QED
    BY <2>1, <2>2, <2>3, <2>4, <2>5 DEF LocalOk
<1>19. ASSUME NEW q \in Procs \ {p} PROVE Spares(q)
  <2>1. LocalOk(q) /\ db'[q] = db[q] /\ (db[q].pc \in Holding => ChainOf(q) \in Chains \ {c})
    BY <1>5, <1>10, Typing DEF Holding, Changing, Adding
  <2>2. db[q].pc \in Holding => chainlock'[ChainOf(q)] = q /\ ChainKept(ChainOf(q))
    BY <1>1, <1>13, <2>1 DEF LocalOk, Locks, locks
  <2>3. /\ db[q].pc = "appenddat" => datlock' = q /\ Len(dat') = Len(dat)
        /\ db[q].pc = "appendidx" => idxlock' = q /\ Len(idx') = Len(idx)
    BY <1>1, <1>6, <1>8, <2>1 DEF LocalOk, Locks, locks
  <2>4. ASSUME db[q].pc \in HasRecord
        PROVE  /\ db[q].idxoff \in DOMAIN idx \ {j} /\ db[q].datoff = idx[db[q].idxoff].dat
               /\ db[q].idxoff \in DOMAIN idx' \ Free' /\ idx'[db[q].idxoff] = idx[db[q].idxoff]
               /\ \A h \in Chains : db[q].idxoff \notin InChain(h)'
    <3>1. /\ db[q].idxoff # j /\ db[q].idxoff \in DOMAIN idx \ Free
          /\ db[q].datoff = idx[db[q].idxoff].dat
          /\ \A h \in Chains : db[q].idxoff \notin InChain(h)
      BY <1>5, <2>1, <2>4 DEF LocalOk, OwnsRecord
    <3>2. ASSUME NEW h \in Chains PROVE db[q].idxoff \notin InChain(h)'
      <4>1. CASE h = c
        BY <1>6, <3>1, <4>1
      <4>2. CASE h # c
        BY <1>13, <3>1, <4>2 DEF ChainKept
      <4> QED
        BY <4>1, <4>2
    <3> QED
      BY <1>6, <1>9, <3>1, <3>2
  <2>5. db[q].pc \in HasData =>
         /\ db[q].datoff \in DOMAIN dat' /\ \A i \in DOMAIN idx' : idx'[i].dat # db[q].datoff
         /\ dat'[db[q].datoff] = dat[db[q].datoff]
    BY <1>5, <1>6, <1>8, <2>1 DEF LocalOk, OwnsData
  <2>6. db[q].pc \in {"reuseidx", "writeptr"} => dat'[db[q].datoff] = dat[db[q].datoff]
    BY <1>7, <1>8, <2>4 DEF HasRecord
  <2> QED
    BY <2>1, <2>2, <2>3, <2>4, <2>5, <2>6 DEF Spares
<1>20. Apart'
  <2>1. db'[p].pc \notin HasRecord /\ db'[p].pc \notin HasData
    BY <1>10 DEF HasRecord, HasData
  <2> QED
    BY <1>10, <2>1, ApartStep DEF DbInv
<1>21. ASSUME NEW k \in Keys \ {db[p].key} PROVE SameFound(k)
  <2>1. CASE Hash[k] # c
    BY <1>13, <2>1, ChainsIn, FoundKept DEF SameFound
  <2>2. CASE Hash[k] = c
    <3>1. InChain(c) \subseteq DOMAIN idx
      BY <1>12 DEF ChainOk
    <3>2. Found(k)' = {i \in InChain(c) \ {j} : idx'[i].key = k}
      BY <1>6, <2>2 DEF Found
    <3>3. Found(k) = {i \in InChain(c) : idx[i].key = k} /\ idx[j].key # k
      BY <1>5, <2>2 DEF Found
    <3>4. Found(k)' = Found(k) /\ Found(k) \subseteq DOMAIN idx \ {j}
      BY <1>6, <3>1, <3>2, <3>3
    <3>5. \A i \in Found(k) : dat'[idx'[i].dat] = dat[idx[i].dat]
      BY <1>6, <1>7, <1>8, <3>4
    <3> QED
      BY <3>4, <3>5 DEF SameFound
  <2> QED
    BY <2>1, <2>2
<1> QED
  BY <1>11, <1>15, <1>16, <1>17, <1>18, <1>19, <1>20, <1>21, Together

-----------------------------------------------------------------------------
(* The files are whole                                                     *)

LEMMA DbStarts ==
  DbInit => DbInv
<1> SUFFICES ASSUME DbInit PROVE DbInv
  OBVIOUS
<1>1. /\ idx = <<>> /\ dat = <<>> /\ chain = [h \in Chains |-> 0] /\ free = <<>>
      /\ chainlock = [h \in Chains |-> NoProc] /\ datlock = NoProc /\ idxlock = NoProc
      /\ db = [p \in Procs |-> Idle]
  BY DEF DbInit
<1>2. Idle \in Local /\ Idle.pc = "idle" /\ Idle.rc = Pending
  BY IdleIs
<1>3. DbTypes
  BY <1>1, <1>2 DEF DbTypes
<1>4. Free = {} /\ DOMAIN idx = {} /\ DOMAIN free = {} /\ Len(idx) \in Nat
  BY <1>1 DEF Free
<1>5. ASSUME NEW h \in Chains PROVE ChainOk(h)
  <2>1. chain[h] = 0
    BY <1>1
  <2>2. HasPath(idx, 0) /\ Linked(idx, 0) = {}
    BY <1>4, LinkedEnd
  <2> QED
    BY <2>1, <2>2 DEF ChainOk, InChain
<1>6. FreeOk /\ DataOk
  BY <1>4 DEF FreeOk, DataOk
<1>7. ASSUME NEW p \in Procs PROVE LocalOk(p)
  <2>1. db[p].pc = "idle" /\ db[p].rc = Pending
    BY <1>1, <1>2
  <2>2. Called(p)
    BY <2>1 DEF Called
  <2>3. Locks(p)
    BY <2>1 DEF Locks, Holding, Changing, Adding
  <2>4. Changes(p) /\ Adds(p)
    BY <2>1 DEF Changes, Adds, Changing, Adding
  <2>5. OwnsRecord(p) /\ OwnsData(p)
    BY <2>1 DEF OwnsRecord, OwnsData, HasRecord, HasData
  <2> QED
    BY <2>2, <2>3, <2>4, <2>5 DEF LocalOk
<1>8. Apart
  BY <1>1, <1>2 DEF Apart, HasRecord, HasData
<1> QED
  BY <1>3, <1>5, <1>6, <1>7, <1>8 DEF DbInv

LEMMA DbKeeps ==
  DbInv /\ [DbNext]_dbVars => DbInv'
<1> SUFFICES ASSUME DbInv, [DbNext]_dbVars PROVE DbInv'
  OBVIOUS
<1>1. CASE UNCHANGED dbVars
  <2>1. UNCHANGED files /\ UNCHANGED locks /\ db' = db
    BY <1>1 DEF dbVars
  <2>2. DbTypes'
    BY <2>1 DEF DbInv, DbTypes, files, locks
  <2>3. \A h \in Chains : ChainOk(h)'
    BY <2>1, FilesSame
  <2>4. FreeOk' /\ DataOk'
    BY <2>1, FilesSame
  <2>5. \A q \in Procs : LocalOk(q)'
    <3>1. \A q \in Procs : LocksKept(q)
      BY <2>1 DEF LocksKept, locks
    <3> QED
      BY <2>1, <3>1, QuietSpares, SparedOk
  <2>6. Apart'
    BY <2>1 DEF DbInv, Apart
  <2> QED
    BY <2>2, <2>3, <2>4, <2>5, <2>6 DEF DbInv
<1>2. CASE DbNext
  <2>1. PICK p \in Procs :
          \/ Call(p) \/ FindRecord(p) \/ FindNone(p) \/ FindFree(p) \/ Delete(p)
          \/ LockDat(p) \/ AppendDat(p) \/ LockIdx(p) \/ AppendIdx(p) \/ ReuseDat(p) \/ ReuseIdx(p)
          \/ WritePtr(p) \/ Overwrite(p) \/ Unlock(p) \/ Killed(p)
    BY <1>2 DEF DbNext
  <2>2. CASE Call(p) \/ FindRecord(p) \/ FindNone(p) \/ FindFree(p) \/ Delete(p)
    BY <2>2, CallKeeps, FindRecordKeeps, FindNoneKeeps, FindFreeKeeps, DeleteKeeps
  <2>3. CASE LockDat(p) \/ AppendDat(p) \/ LockIdx(p) \/ AppendIdx(p)
    BY <2>3, LockDatKeeps, AppendDatKeeps, LockIdxKeeps, AppendIdxKeeps
  <2>4. CASE ReuseDat(p) \/ ReuseIdx(p) \/ WritePtr(p) \/ Overwrite(p)
    BY <2>4, ReuseDatKeeps, ReuseIdxKeeps, WritePtrKeeps, OverwriteKeeps
  <2>5. CASE Unlock(p) \/ Killed(p)
    BY <2>5, UnlockKeeps, KilledKeeps
  <2> QED
    BY <2>1, <2>2, <2>3, <2>4, <2>5
<1> QED
  BY <1>1, <1>2

LEMMA DbOwned ==
  DbInv => RecordsOwned
<1> SUFFICES ASSUME DbInv PROVE RecordsOwned
  OBVIOUS
<1>1. FreeOk /\ DataOk /\ free \in Seq(Nat) /\ \A h \in Chains : ChainOk(h)
  BY DEF DbInv, DbTypes
<1>2. checkfree = Len(free)
  BY <1>1 DEF checkfree, FreeOk, Free
<1>3. Cardinality(Free) = Len(free)
  <2> DEFINE L == Len(free)
  <2>1. L \in Nat /\ DOMAIN free = 1 .. L
    BY <1>1
  <2>2. free \in [1 .. L -> Free]
    BY <1>1, <2>1 DEF Free
  <2>3. \A m, n \in 1 .. L : free[m] = free[n] => m = n
    BY <1>1, <2>1 DEF FreeOk
  <2>4. \A x \in Free : \E m \in 1 .. L : free[m] = x
    BY <2>1 DEF Free
  <2> HIDE DEF L
  <2>5. free \in Bijection(1 .. L, Free)
    BY <2>2, <2>3, <2>4 DEF Bijection, Injection, Surjection, IsInjective
  <2>6. IsFiniteSet(1 .. L) /\ Cardinality(1 .. L) = L
    <3>1. 1 \in Int /\ L \in Int /\ (1 > L <=> L = 0) /\ L - 1 + 1 = L
      BY <2>1
    <3> QED
      BY <3>1, FS_Interval
  <2>7. Cardinality(Free) = L
    <3>1. ExistsBijection(1 .. L, Free)
      BY <2>5 DEF ExistsBijection
    <3> QED
      BY <2>6, <3>1, FS_Bijection
  <2> QED
    BY <2>7 DEF L
<1>4. ASSUME NEW h \in Chains
      PROVE  /\ Ends(idx, chain[h]) /\ InChain(h) \cap Free = {} /\ InChain(h) \subseteq DOMAIN idx
             /\ \A i \in InChain(h) : idx[i].key \in Keys /\ Hash[idx[i].key] = h
  <2>1. ChainOk(h) /\ Len(idx) \in Nat
    BY <1>1 DEF DbInv, DbTypes
  <2>2. Ends(idx, chain[h])
    BY <2>1, LinkedIn DEF ChainOk
  <2> QED
    BY <2>1, <2>2 DEF ChainOk
<1>5. \A i, j \in Free \cup UNION {InChain(h) : h \in Chains} : idx[i].dat = idx[j].dat => i = j
  <2>1. Free \cup UNION {InChain(h) : h \in Chains} \subseteq DOMAIN idx
    BY <1>1, <1>4 DEF FreeOk
  <2> QED
    BY <1>1, <2>1 DEF DataOk
<1>6. \A k \in Keys : \A i, j \in Found(k) : i = j
  BY <1>1, ChainsIn DEF Found, ChainOk
<1> QED
  BY <1>2, <1>3, <1>4, <1>5, <1>6 DEF RecordsOwned

(* At every moment, also after processes were killed between any two       *)
(* writes, every chain ends, each record is on one list at most and there  *)
(* once, no two that are on a list share data, no key has two records and  *)
(* the free list is not corrupted.                                         *)
THEOREM RecordsKept ==
  DbSpec => []RecordsOwned
<1> QED
  BY DbStarts, DbKeeps, DbOwned, PTL DEF DbSpec

-----------------------------------------------------------------------------
(* Each call acts at once                                                  *)

(* What the store of the abstract specification holds for each key: what   *)
(* a replaced record held, what the key's record does, or nothing.         *)
StoreFacts ==
  /\ \A p \in Procs : Replacing(p) => storeBar[db[p].key] = db[p].old
  /\ \A k \in Keys : (\A p \in Procs : ~(Replacing(p) /\ db[p].key = k)) =>
       /\ Found(k) = {} => storeBar[k] = Absent
       /\ \A i \in Found(k) : storeBar[k] = dat[idx[i].dat]
  /\ \A p, q \in Procs : db[p].pc \in Holding /\ Replacing(q) /\ db[q].key = db[p].key => p = q

LEMMA ReplacingHolds ==
  ASSUME NEW p \in Procs, Replacing(p)
  PROVE  db[p].pc \in Holding /\ db[p].pc \in Adding /\ db[p].pc \notin {"idle", "dead"}
BY DEF Replacing, Holding, Adding

LEMMA StoreOf ==
  DbInv => StoreFacts
<1> SUFFICES ASSUME DbInv PROVE StoreFacts
  OBVIOUS
<1>1. ASSUME NEW p \in Procs, NEW q \in Procs, db[p].pc \in Holding, Replacing(q), db[q].key = db[p].key
      PROVE  p = q
  <2>1. db[q].pc \in Holding /\ ChainOf(p) = ChainOf(q)
    BY <1>1, ReplacingHolds DEF ChainOf
  <2> QED
    BY <1>1, <2>1, Holder
<1>2. ASSUME NEW p \in Procs, Replacing(p) PROVE storeBar[db[p].key] = db[p].old
  <2> DEFINE k == db[p].key  by == {r \in Procs : Replacing(r) /\ db[r].key = k}
  <2>1. k \in Keys
    BY <1>2, ReplacingHolds, Typing
  <2>2. by = {p}
    BY <1>1, <1>2, ReplacingHolds
  <2>3. storeBar[k] = db[CHOOSE r \in by : TRUE].old
    BY <2>1, <2>2 DEF storeBar
  <2>4. (CHOOSE r \in by : TRUE) = p
    BY <2>2
  <2> QED
    BY <2>3, <2>4
<1>3. ASSUME NEW k \in Keys, \A p \in Procs : ~(Replacing(p) /\ db[p].key = k)
      PROVE  /\ Found(k) = {} => storeBar[k] = Absent
             /\ \A i \in Found(k) : storeBar[k] = dat[idx[i].dat]
  <2> DEFINE by == {r \in Procs : Replacing(r) /\ db[r].key = k}
  <2>1. by = {}
    BY <1>3
  <2>2. storeBar[k] = IF Found(k) = {} THEN Absent ELSE dat[idx[CHOOSE r \in Found(k) : TRUE].dat]
    BY <2>1 DEF storeBar
  <2>3. ASSUME NEW i \in Found(k) PROVE storeBar[k] = dat[idx[i].dat]
    <3>1. (CHOOSE r \in Found(k) : TRUE) \in Found(k)
      BY <2>3
    <3>2. \A x, y \in Found(k) : x = y
      <4>1. ChainOk(Hash[k])
        BY ChainsIn DEF DbInv
      <4> QED
        BY <4>1 DEF ChainOk, Found
    <3>3. (CHOOSE r \in Found(k) : TRUE) = i
      BY <2>3, <3>1, <3>2
    <3> QED
      BY <2>2, <2>3, <3>3
  <2> QED
    BY <2>2, <2>3
<1> QED
  BY <1>1, <1>2, <1>3 DEF StoreFacts

LEMMA StoreOfNext ==
  DbInv' => StoreFacts'
BY StoreOf, PTL

(* A step of p that does not concern key k.                                *)
LEMMA KeyKept ==
  ASSUME DbInv, DbInv', NEW p \in Procs, \A q \in Procs \ {p} : db'[q] = db[q],
         NEW k \in Keys, SameFound(k),
         Replacing(p) /\ db[p].key = k <=> Replacing(p)' /\ db'[p].key = k,
         Replacing(p) /\ db[p].key = k => db'[p].old = db[p].old
  PROVE  storeBar'[k] = storeBar[k]
<1>1. StoreFacts /\ StoreFacts'
  BY StoreOf, StoreOfNext
<1>2. \A q \in Procs : Replacing(q) /\ db[q].key = k <=> Replacing(q)' /\ db'[q].key = k
  BY DEF Replacing
<1>3. \A q \in Procs : Replacing(q) /\ db[q].key = k => db'[q].old = db[q].old
  OBVIOUS
<1>4. CASE \E q \in Procs : Replacing(q) /\ db[q].key = k
  <2>1. PICK q \in Procs : Replacing(q) /\ db[q].key = k
    BY <1>4
  <2>2. Replacing(q)' /\ db'[q].key = k /\ db'[q].old = db[q].old
    BY <1>2, <1>3, <2>1
  <2>3. storeBar[k] = db[q].old
    BY <1>1, <2>1 DEF StoreFacts
  <2>4. storeBar'[k] = db'[q].old
    BY <1>1, <2>2 DEF StoreFacts
  <2> QED
    BY <2>2, <2>3, <2>4
<1>5. CASE ~ \E q \in Procs : Replacing(q) /\ db[q].key = k
  <2>1. \A q \in Procs : ~(Replacing(q) /\ db[q].key = k)
    BY <1>5
  <2>2. \A q \in Procs : ~(Replacing(q)' /\ db'[q].key = k)
    BY <1>2, <2>1
  <2>3. /\ Found(k) = {} => storeBar[k] = Absent
        /\ \A i \in Found(k) : storeBar[k] = dat[idx[i].dat]
    BY <1>1, <2>1 DEF StoreFacts
  <2>4. /\ Found(k)' = {} => storeBar'[k] = Absent
        /\ \A i \in Found(k)' : storeBar'[k] = dat'[idx'[i].dat]
    BY <1>1, <2>2 DEF StoreFacts
  <2>5. Found(k)' = Found(k) /\ \A i \in Found(k) : dat'[idx'[i].dat] = dat[idx[i].dat]
    BY DEF SameFound
  <2> QED
    BY <2>3, <2>4, <2>5
<1> QED
  BY <1>4, <1>5

LEMMA StoreIsMap ==
  ASSUME \A k \in Keys : storeBar'[k] = storeBar[k]
  PROVE  storeBar' = storeBar
BY DEF storeBar

LEMMA StorePut ==
  ASSUME NEW k \in Keys, NEW v, storeBar'[k] = v,
         \A x \in Keys \ {k} : storeBar'[x] = storeBar[x]
  PROVE  storeBar' = [storeBar EXCEPT ![k] = v]
<1>1. /\ DOMAIN storeBar = Keys /\ DOMAIN storeBar' = Keys
      /\ storeBar = [x \in Keys |-> storeBar[x]] /\ storeBar' = [x \in Keys |-> storeBar'[x]]
  BY DEF storeBar
<1>2. \A x \in Keys : storeBar'[x] = [storeBar EXCEPT ![k] = v][x]
  BY <1>1
<1> QED
  BY <1>1, <1>2

(* The call of a process, and its result.                                  *)
Calling(p) == db[p].pc \notin {"idle", "dead"}

LEMMA OpOf ==
  ASSUME DbInv, NEW p \in Procs, Calling(p)
  PROVE  /\ opBar[p] # None /\ opBar[p].key = db[p].key /\ opBar[p].data = db[p].data
         /\ opBar[p].flag = db[p].flag /\ rcBar[p] = db[p].rc /\ db[p].key \in Keys
<1>1. /\ db[p].key \in Keys /\ db[p].data \in Datas /\ db[p].flag \in SUBSET {"insert", "replace"}
  BY Typing, LocalIs DEF Calling
<1>2. opBar[p] = [key |-> db[p].key, data |-> db[p].data, flag |-> db[p].flag]
  BY DEF opBar, Calling
<1>3. opBar[p] \in [key : Keys, data : Datas, flag : SUBSET {"insert", "replace"}]
  BY <1>1, <1>2
<1> QED
  BY <1>1, <1>2, <1>3, DbAssumption DEF rcBar

LEMMA OpKept ==
  ASSUME NEW p \in Procs, \A q \in Procs \ {p} : db'[q] = db[q], Calling(p), Calling(p)',
         db'[p].key = db[p].key, db'[p].data = db[p].data, db'[p].flag = db[p].flag
  PROVE  opBar' = opBar
<1> DEFINE f(q) == IF db[q].pc \in {"idle", "dead"} THEN None
                   ELSE [key |-> db[q].key, data |-> db[q].data, flag |-> db[q].flag]
           g(q) == IF db'[q].pc \in {"idle", "dead"} THEN None
                   ELSE [key |-> db'[q].key, data |-> db'[q].data, flag |-> db'[q].flag]
<1>1. ASSUME NEW q \in Procs PROVE f(q) = g(q)
  <2>1. CASE q = p
    BY <2>1 DEF Calling
  <2>2. CASE q # p
    BY <2>2
  <2> QED
    BY <2>1, <2>2
<1>2. opBar = [q \in Procs |-> f(q)] /\ opBar' = [q \in Procs |-> g(q)]
  BY DEF opBar
<1> HIDE DEF f, g
<1> QED
  BY <1>1, <1>2

LEMMA RcIs ==
  ASSUME NEW p \in Procs, \A q \in Procs \ {p} : db'[q] = db[q], NEW n, db'[p].rc = n
  PROVE  rcBar' = [rcBar EXCEPT ![p] = n] /\ (n = db[p].rc => rcBar' = rcBar)
BY DEF rcBar

(* A step inside a call that changes nothing of the abstract state.        *)
LEMMA Unseen ==
  ASSUME DbInv, DbInv', NEW p \in Procs, \A q \in Procs \ {p} : db'[q] = db[q], Calling(p), Calling(p)',
         db'[p].key = db[p].key, db'[p].data = db[p].data, db'[p].flag = db[p].flag,
         db'[p].rc = db[p].rc, storeBar' = storeBar
  PROVE  UNCHANGED Kv!kvVars
BY OpKept, RcIs DEF Kv!kvVars

(* A call takes effect: it is refused, or stores its data.                 *)
LEMMA Refused ==
  ASSUME DbInv, DbInv', NEW p \in Procs, Calling(p), NEW n, Finishes(p, n), db[p].rc = Pending,
         storeBar' = storeBar,
         \/ n = 1 /\ storeBar[db[p].key] # Absent /\ "insert" \in db[p].flag
         \/ n = -1 /\ storeBar[db[p].key] = Absent /\ "replace" \in db[p].flag
  PROVE  Kv!Effect(p)
<1>1. /\ opBar[p] # None /\ opBar[p].key = db[p].key /\ opBar[p].data = db[p].data
      /\ opBar[p].flag = db[p].flag /\ rcBar[p] = Pending
  BY OpOf
<1>2. /\ db'[p].key = db[p].key /\ db'[p].data = db[p].data /\ db'[p].flag = db[p].flag
      /\ db'[p].rc = n /\ db'[p].pc = "unlock" /\ \A q \in Procs \ {p} : db'[q] = db[q]
  BY DEF Finishes
<1>3. opBar' = opBar
  BY <1>2, OpKept DEF Calling
<1>4. rcBar' = [rcBar EXCEPT ![p] = n]
  BY <1>2, RcIs
<1>5. Kv!Returns(p, n)
  BY <1>3, <1>4 DEF Kv!Returns
<1> QED
  BY <1>1, <1>5 DEF Kv!Effect

LEMMA Stored ==
  ASSUME DbInv, DbInv', NEW p \in Procs, Calling(p), Finishes(p, 0), db[p].rc = Pending,
         IF storeBar[db[p].key] # Absent THEN "insert" \notin db[p].flag ELSE "replace" \notin db[p].flag,
         storeBar'[db[p].key] = db[p].data,
         \A k \in Keys \ {db[p].key} : storeBar'[k] = storeBar[k]
  PROVE  Kv!Effect(p)
<1>1. /\ opBar[p] # None /\ opBar[p].key = db[p].key /\ opBar[p].data = db[p].data
      /\ opBar[p].flag = db[p].flag /\ rcBar[p] = Pending /\ db[p].key \in Keys
  BY OpOf
<1>2. /\ db'[p].key = db[p].key /\ db'[p].data = db[p].data /\ db'[p].flag = db[p].flag
      /\ db'[p].rc = 0 /\ db'[p].pc = "unlock" /\ \A q \in Procs \ {p} : db'[q] = db[q]
  BY DEF Finishes
<1>3. opBar' = opBar
  BY <1>2, OpKept DEF Calling
<1>4. rcBar' = [rcBar EXCEPT ![p] = 0]
  BY <1>2, RcIs
<1>5. Kv!Returns(p, 0)
  BY <1>3, <1>4 DEF Kv!Returns
<1>6. storeBar' = [storeBar EXCEPT ![opBar[p].key] = opBar[p].data]
  BY <1>1, StorePut
<1> QED
  BY <1>1, <1>5, <1>6 DEF Kv!Effect

LEMMA AllKept ==
  ASSUME \A h \in Chains : ChainKept(h)
  PROVE  \A k \in Keys : SameFound(k)
BY FoundKept, ChainsIn

LEMMA StoreKept ==
  ASSUME DbInv, DbInv', NEW p \in Procs, \A q \in Procs \ {p} : db'[q] = db[q],
         \A h \in Chains : ChainKept(h), Replacing(p) <=> Replacing(p)',
         Replacing(p) => db'[p].key = db[p].key /\ db'[p].old = db[p].old
  PROVE  storeBar' = storeBar
<1>1. \A k \in Keys : SameFound(k)
  BY AllKept
<1>2. \A k \in Keys : storeBar'[k] = storeBar[k]
  BY <1>1, KeyKept
<1> QED
  BY <1>2, StoreIsMap

LEMMA CallMaps ==
  ASSUME DbInv, DbInv', NEW p \in Procs, Call(p)
  PROVE  [Kv!KvNext]_(Kv!kvVars)
<1>1. UNCHANGED files /\ db[p].pc = "idle" /\ db \in [Procs -> Local] /\ LocalOk(p)
  BY Typing DEF Call, At
<1>2. db[p].rc = Pending
  BY <1>1 DEF LocalOk, Called
<1>3. \A h \in Chains : ChainKept(h)
  BY <1>1, FilesSame
<1>4. opBar[p] = None
  BY <1>1 DEF opBar
<1>5. PICK k \in Keys, d \in Datas, f \in Flags :
        \/ db' = [db EXCEPT ![p] = [Idle EXCEPT !.pc = "dead"]]
        \/ db' = [db EXCEPT ![p] = [Idle EXCEPT !.pc = "find", !.key = k, !.data = d, !.flag = f]]
  BY DEF Call
<1>6. CASE db' = [db EXCEPT ![p] = [Idle EXCEPT !.pc = "dead"]]
  <2>1. db'[p].pc = "dead" /\ db'[p].rc = Pending /\ \A q \in Procs \ {p} : db'[q] = db[q]
    BY <1>1, <1>6, IdleIs
  <2>2. storeBar' = storeBar
    BY <1>1, <1>3, <2>1, StoreKept DEF Replacing
  <2>3. opBar' = opBar
    <3> DEFINE f1(q) == IF db[q].pc \in {"idle", "dead"} THEN None
                        ELSE [key |-> db[q].key, data |-> db[q].data, flag |-> db[q].flag]
               g1(q) == IF db'[q].pc \in {"idle", "dead"} THEN None
                        ELSE [key |-> db'[q].key, data |-> db'[q].data, flag |-> db'[q].flag]
    <3>1. ASSUME NEW q \in Procs PROVE f1(q) = g1(q)
      <4>1. CASE q = p
        BY <1>1, <2>1, <4>1
      <4>2. CASE q # p
        BY <2>1, <4>2
      <4> QED
        BY <4>1, <4>2
    <3>2. opBar = [q \in Procs |-> f1(q)] /\ opBar' = [q \in Procs |-> g1(q)]
      BY DEF opBar
    <3> HIDE DEF f1, g1
    <3> QED
      BY <3>1, <3>2
  <2>4. rcBar' = rcBar
    BY <1>2, <2>1, RcIs
  <2> QED
    BY <2>2, <2>3, <2>4 DEF Kv!kvVars
<1>7. CASE db' = [db EXCEPT ![p] = [Idle EXCEPT !.pc = "find", !.key = k, !.data = d, !.flag = f]]
  <2> DEFINE r == [Idle EXCEPT !.pc = "find", !.key = k, !.data = d, !.flag = f]
             call == [key |-> k, data |-> d, flag |-> f]
  <2>1. r.pc = "find" /\ r.key = k /\ r.data = d /\ r.flag = f /\ r.rc = Pending
    BY DEF Idle
  <2>2. db' = [db EXCEPT ![p] = r]
    BY <1>7
  <2> HIDE DEF r
  <2>3. /\ db'[p].pc = "find" /\ db'[p].key = k /\ db'[p].data = d /\ db'[p].flag = f
        /\ db'[p].rc = Pending /\ \A q \in Procs \ {p} : db'[q] = db[q]
    BY <1>1, <2>1, <2>2
  <2>4. storeBar' = storeBar
    BY <1>1, <1>3, <2>3, StoreKept DEF Replacing
  <2>5. rcBar' = rcBar
    BY <1>2, <2>3, RcIs
  <2>6. opBar' = [opBar EXCEPT ![p] = call]
    <3> DEFINE f1(q) == IF db[q].pc \in {"idle", "dead"} THEN None
                        ELSE [key |-> db[q].key, data |-> db[q].data, flag |-> db[q].flag]
               g1(q) == IF db'[q].pc \in {"idle", "dead"} THEN None
                        ELSE [key |-> db'[q].key, data |-> db'[q].data, flag |-> db'[q].flag]
    <3>1. g1(p) = call
      BY <2>3
    <3>2. \A q \in Procs \ {p} : g1(q) = f1(q)
      BY <2>3
    <3>3. opBar = [q \in Procs |-> f1(q)] /\ opBar' = [q \in Procs |-> g1(q)]
      BY DEF opBar
    <3> HIDE DEF f1, g1, call
    <3> QED
      BY <3>1, <3>2, <3>3
  <2>7. f \in SUBSET {"insert", "replace"}
    BY <1>5, DbAssumption
  <2>8. Kv!Begin(p, call)
    BY <1>4, <2>4, <2>5, <2>6 DEF Kv!Begin
  <2>9. k \in Keys /\ d \in Datas
    BY <1>5
  <2> QED
    BY <2>7, <2>8, <2>9 DEF Kv!KvNext
<1> QED
  BY <1>5, <1>6, <1>7

(* A call that has found its chain not locked finds what the store holds.  *)
LEMMA Sees ==
  ASSUME DbInv, NEW p \in Procs, db[p].pc = "find", LockChain(p)
  PROVE  /\ Found(db[p].key) = {} => storeBar[db[p].key] = Absent
         /\ \A i \in Found(db[p].key) : storeBar[db[p].key] = dat[idx[i].dat] /\ dat[idx[i].dat] \in Datas
<1>1. db[p].key \in Keys /\ ChainOf(p) \in Chains /\ ChainOf(p) = Hash[db[p].key]
  BY Typing DEF ChainOf
<1>2. \A q \in Procs : ~(Replacing(q) /\ db[q].key = db[p].key)
  <2> SUFFICES ASSUME NEW q \in Procs, Replacing(q), db[q].key = db[p].key PROVE FALSE
    OBVIOUS
  <2>1. chainlock[ChainOf(q)] = q /\ ChainOf(q) = ChainOf(p)
    BY ReplacingHolds DEF DbInv, LocalOk, Locks, ChainOf
  <2>2. chainlock[ChainOf(p)] = NoProc
    BY DEF LockChain
  <2> QED
    BY <2>1, <2>2, Typing
<1>3. \A i \in Found(db[p].key) : dat[idx[i].dat] \in Datas
  BY <1>1 DEF DbInv, ChainOk, Found
<1> QED
  BY <1>1, <1>2, <1>3, StoreOf DEF StoreFacts

LEMMA FindRecordMaps ==
  ASSUME DbInv, DbInv', NEW p \in Procs, FindRecord(p)
  PROVE  [Kv!KvNext]_(Kv!kvVars)
<1>1. /\ UNCHANGED files /\ db[p].pc = "find" /\ LockChain(p) /\ db \in [Procs -> Local]
      /\ db[p] \in Local /\ DbTypes /\ LocalOk(p) /\ Calling(p)
  BY Typing DEF FindRecord, At, DbInv, Calling
<1>2. db[p].rc = Pending
  BY <1>1 DEF LocalOk, Called
<1>3. \A h \in Chains : ChainKept(h)
  BY <1>1, FilesSame
<1>4. PICK i \in Found(db[p].key) :
        IF "insert" \in db[p].flag THEN Done(p, 1)
        ELSE db' = [db EXCEPT ![p].pc = IF DatLen[db[p].data] # idx[i].len THEN "delete" ELSE "overwrite",
                              ![p].idxoff = i, ![p].datoff = idx[i].dat, ![p].old = dat[idx[i].dat]]
  BY DEF FindRecord
<1>5. CASE "insert" \in db[p].flag
  <2>1. 1 \in {0, 1, -1} /\ Done(p, 1)
    BY <1>4, <1>5
  <2>2. Finishes(p, 1)
    BY <1>1, <2>1, DoneMoves
  <2>3. storeBar' = storeBar
    BY <1>1, <1>3, <2>2, StoreKept DEF Finishes, Replacing
  <2>4. storeBar[db[p].key] # Absent
    BY <1>1, <1>4, Sees, DbAssumption
  <2>5. Kv!Effect(p)
    BY <1>1, <1>2, <1>5, <2>2, <2>3, <2>4, Refused
  <2> QED
    BY <2>5 DEF Kv!KvNext
<1>6. CASE "insert" \notin db[p].flag
  <2> DEFINE x == IF DatLen[db[p].data] # idx[i].len THEN "delete" ELSE "overwrite"
             r == [db[p] EXCEPT !.pc = x, !.idxoff = i, !.datoff = idx[i].dat, !.old = dat[idx[i].dat]]
  <2>1. db' = [db EXCEPT ![p] = r] /\ x \in {"delete", "overwrite"}
    BY <1>4, <1>6
  <2> HIDE DEF x
  <2>2. r.pc = x /\ r.key = db[p].key /\ r.data = db[p].data /\ r.flag = db[p].flag /\ r.rc = db[p].rc
    BY <1>1 DEF Local
  <2> HIDE DEF r
  <2>3. /\ db'[p].pc \in {"delete", "overwrite"} /\ db'[p].key = db[p].key /\ db'[p].data = db[p].data
        /\ db'[p].flag = db[p].flag /\ db'[p].rc = db[p].rc /\ \A q \in Procs \ {p} : db'[q] = db[q]
    BY <1>1, <2>1, <2>2
  <2>4. storeBar' = storeBar
    BY <1>1, <1>3, <2>3, StoreKept DEF Replacing
  <2>5. Calling(p)'
    BY <2>3 DEF Calling
  <2> QED
    BY <1>1, <2>3, <2>4, <2>5, Unseen
<1> QED
  BY <1>5, <1>6

LEMMA FindNoneMaps ==
  ASSUME DbInv, DbInv', NEW p \in Procs, FindNone(p)
  PROVE  [Kv!KvNext]_(Kv!kvVars)
<1>1. /\ UNCHANGED files /\ db[p].pc = "find" /\ LockChain(p) /\ db \in [Procs -> Local]
      /\ db[p] \in Local /\ DbTypes /\ LocalOk(p) /\ Calling(p) /\ Found(db[p].key) = {}
  BY Typing DEF FindNone, At, DbInv, Calling
<1>2. db[p].rc = Pending
  BY <1>1 DEF LocalOk, Called
<1>3. \A h \in Chains : ChainKept(h)
  BY <1>1, FilesSame
<1>4. CASE "replace" \in db[p].flag
  <2>1. -1 \in {0, 1, -1} /\ Done(p, -1)
    BY <1>4 DEF FindNone
  <2>2. Finishes(p, -1)
    BY <1>1, <2>1, DoneMoves
  <2>3. storeBar' = storeBar
    BY <1>1, <1>3, <2>2, StoreKept DEF Finishes, Replacing
  <2>4. storeBar[db[p].key] = Absent
    BY <1>1, Sees
  <2>5. Kv!Effect(p)
    BY <1>1, <1>2, <1>4, <2>2, <2>3, <2>4, Refused
  <2> QED
    BY <2>5 DEF Kv!KvNext
<1>5. CASE "replace" \notin db[p].flag
  <2> DEFINE r == [db[p] EXCEPT !.pc = "findfree", !.ptrval = chain[ChainOf(p)]]
  <2>1. db' = [db EXCEPT ![p] = r]
    BY <1>5 DEF FindNone
  <2>2. /\ r.pc = "findfree" /\ r.key = db[p].key /\ r.data = db[p].data /\ r.flag = db[p].flag
        /\ r.rc = db[p].rc
    BY <1>1 DEF Local
  <2> HIDE DEF r
  <2>3. /\ db'[p].pc = "findfree" /\ db'[p].key = db[p].key /\ db'[p].data = db[p].data
        /\ db'[p].flag = db[p].flag /\ db'[p].rc = db[p].rc /\ \A q \in Procs \ {p} : db'[q] = db[q]
    BY <1>1, <2>1, <2>2
  <2>4. storeBar' = storeBar
    BY <1>1, <1>3, <2>3, StoreKept DEF Replacing
  <2>5. Calling(p)'
    BY <2>3 DEF Calling
  <2> QED
    BY <1>1, <2>3, <2>4, <2>5, Unseen
<1> QED
  BY <1>4, <1>5

(* What the store holds for the key of a call that holds its chain.        *)
StoreOwn ==
  \A p \in Procs :
    /\ db[p].pc \in Adding => storeBar[db[p].key] = db[p].old
    /\ db[p].pc \in Holding \ Adding => \A i \in Found(db[p].key) : storeBar[db[p].key] = dat[idx[i].dat]

LEMMA StoreOwned ==
  DbInv => StoreOwn
<1> SUFFICES ASSUME DbInv, NEW p \in Procs, db[p].pc \in Holding
             PROVE  /\ db[p].pc \in Adding => storeBar[db[p].key] = db[p].old
                    /\ db[p].pc \notin Adding =>
                         \A i \in Found(db[p].key) : storeBar[db[p].key] = dat[idx[i].dat]
  BY DEF StoreOwn, Holding
<1>1. StoreFacts /\ LocalOk(p) /\ db[p].key \in Keys
  <2>1. db[p].pc \notin {"idle", "dead"}
    BY DEF Holding, Changing, Adding
  <2> QED
    BY <2>1, StoreOf, Typing
<1>2. CASE Replacing(p)
  BY <1>1, <1>2, ReplacingHolds DEF StoreFacts
<1>3. CASE ~Replacing(p)
  <2>1. \A q \in Procs : ~(Replacing(q) /\ db[q].key = db[p].key)
    BY <1>1, <1>3 DEF StoreFacts
  <2>2. /\ Found(db[p].key) = {} => storeBar[db[p].key] = Absent
        /\ \A i \in Found(db[p].key) : storeBar[db[p].key] = dat[idx[i].dat]
    BY <1>1, <2>1 DEF StoreFacts
  <2>3. ASSUME db[p].pc \in Adding PROVE Found(db[p].key) = {} /\ db[p].old = Absent
    <3>1. db[p].pc \in {"findfree", "reuse", "reuseidx"}
      BY <1>3, <2>3 DEF Adding, Replacing
    <3> QED
      BY <1>1, <2>3, <3>1 DEF LocalOk, Adds
  <2> QED
    BY <2>2, <2>3
<1> QED
  BY <1>2, <1>3

LEMMA StoreOwnedNext ==
  DbInv' => StoreOwn'
BY StoreOwned, PTL

LEMMA OthersKept ==
  ASSUME DbInv, DbInv', NEW p \in Procs, \A q \in Procs \ {p} : db'[q] = db[q],
         Replacing(p)' => db'[p].key = db[p].key, \A k \in Keys \ {db[p].key} : SameFound(k)
  PROVE  \A k \in Keys \ {db[p].key} : storeBar'[k] = storeBar[k]
<1> SUFFICES ASSUME NEW k \in Keys \ {db[p].key} PROVE storeBar'[k] = storeBar[k]
  OBVIOUS
<1>1. ~(Replacing(p) /\ db[p].key = k) /\ ~(Replacing(p)' /\ db'[p].key = k) /\ SameFound(k)
  OBVIOUS
<1> QED
  BY <1>1, KeyKept

(* A call that adds a record goes on: the store keeps what it replaces.    *)
LEMMA AddsUnseen ==
  ASSUME DbInv, DbInv', NEW p \in Procs, \A q \in Procs \ {p} : db'[q] = db[q],
         db[p].pc \in Adding, db'[p].pc \in Adding, db'[p].key = db[p].key, db'[p].data = db[p].data,
         db'[p].flag = db[p].flag, db'[p].rc = db[p].rc, db'[p].old = db[p].old,
         \A h \in Chains : ChainKept(h)
  PROVE  UNCHANGED Kv!kvVars
<1>1. Calling(p) /\ Calling(p)'
  BY DEF Calling, Adding
<1>2. storeBar[db[p].key] = db[p].old /\ storeBar'[db[p].key] = db[p].old
  <2>1. storeBar'[db'[p].key] = db'[p].old
    BY StoreOwnedNext DEF StoreOwn
  <2> QED
    BY <2>1, StoreOwned DEF StoreOwn
<1>3. \A k \in Keys \ {db[p].key} : storeBar'[k] = storeBar[k]
  BY AllKept, OthersKept
<1>4. storeBar' = storeBar
  BY <1>2, <1>3, StoreIsMap
<1> QED
  BY <1>1, <1>4, Unseen

LEMMA GoesUnseen ==
  ASSUME DbInv, DbInv', NEW p \in Procs, NEW x \in Adding, db[p].pc \in Adding, Goto(p, x),
         \A h \in Chains : ChainKept(h)
  PROVE  UNCHANGED Kv!kvVars
<1>1. DbTypes /\ x \in Pcs
  BY DEF DbInv, Adding, Pcs
<1>2. Goes(p, x)
  BY <1>1, GotoMoves
<1>3. /\ \A q \in Procs \ {p} : db'[q] = db[q]
      /\ db'[p].pc = x /\ db'[p].key = db[p].key /\ db'[p].data = db[p].data
      /\ db'[p].flag = db[p].flag /\ db'[p].rc = db[p].rc /\ db'[p].old = db[p].old
  BY <1>2 DEF Goes, Moves
<1> QED
  BY <1>3, AddsUnseen

LEMMA FindFreeMaps ==
  ASSUME DbInv, DbInv', NEW p \in Procs, FindFree(p)
  PROVE  UNCHANGED Kv!kvVars
<1>1. db[p].pc \in Adding /\ db \in [Procs -> Local] /\ db[p] \in Local
  BY Typing DEF FindFree, At, Adding
<1>2. \A h \in Chains : ChainKept(h)
  BY FindFreeKeeps
<1>3. CASE Goto(p, "lockdat")
  BY <1>1, <1>2, <1>3, GoesUnseen DEF Adding
<1>4. CASE ~Goto(p, "lockdat")
  <2>1. PICK i \in DOMAIN free :
          db' = [db EXCEPT ![p].pc = "reuse", ![p].idxoff = free[i], ![p].datoff = idx[free[i]].dat]
    BY <1>4 DEF FindFree
  <2> DEFINE r == [db[p] EXCEPT !.pc = "reuse", !.idxoff = free[i], !.datoff = idx[free[i]].dat]
  <2>2. db' = [db EXCEPT ![p] = r]
    BY <2>1
  <2>3. /\ r.pc = "reuse" /\ r.key = db[p].key /\ r.data = db[p].data /\ r.flag = db[p].flag
        /\ r.rc = db[p].rc /\ r.old = db[p].old
    BY <1>1 DEF Local
  <2> HIDE DEF r
  <2>4. db'[p] = r /\ \A q \in Procs \ {p} : db'[q] = db[q]
    BY <1>1, <2>2
  <2> QED
    BY <1>1, <1>2, <2>3, <2>4, AddsUnseen DEF Adding
<1> QED
  BY <1>3, <1>4

LEMMA LockDatMaps ==
  ASSUME DbInv, DbInv', NEW p \in Procs, LockDat(p)
  PROVE  UNCHANGED Kv!kvVars
<1>1. /\ db[p].pc \in Adding /\ db \in [Procs -> Local] /\ db[p] \in Local /\ UNCHANGED files
      /\ db' = [db EXCEPT ![p].pc = "appenddat", ![p].datoff = Len(dat) + 1]
  BY Typing DEF LockDat, At, Adding
<1> DEFINE r == [db[p] EXCEPT !.pc = "appenddat", !.datoff = Len(dat) + 1]
<1>2. db' = [db EXCEPT ![p] = r]
  BY <1>1
<1>3. /\ r.pc = "appenddat" /\ r.key = db[p].key /\ r.data = db[p].data /\ r.flag = db[p].flag
      /\ r.rc = db[p].rc /\ r.old = db[p].old
  BY <1>1 DEF Local
<1> HIDE DEF r
<1>4. db'[p] = r /\ \A q \in Procs \ {p} : db'[q] = db[q]
  BY <1>1, <1>2
<1>5. \A h \in Chains : ChainKept(h)
  BY <1>1, FilesSame
<1> QED
  BY <1>1, <1>3, <1>4, <1>5, AddsUnseen DEF Adding

LEMMA LockIdxMaps ==
  ASSUME DbInv, DbInv', NEW p \in Procs, LockIdx(p)
  PROVE  UNCHANGED Kv!kvVars
<1>1. /\ db[p].pc \in Adding /\ db \in [Procs -> Local] /\ db[p] \in Local /\ UNCHANGED files
      /\ db' = [db EXCEPT ![p].pc = "appendidx", ![p].idxoff = Len(idx) + 1]
  BY Typing DEF LockIdx, At, Adding
<1> DEFINE r == [db[p] EXCEPT !.pc = "appendidx", !.idxoff = Len(idx) + 1]
<1>2. db' = [db EXCEPT ![p] = r]
  BY <1>1
<1>3. /\ r.pc = "appendidx" /\ r.key = db[p].key /\ r.data = db[p].data /\ r.flag = db[p].flag
      /\ r.rc = db[p].rc /\ r.old = db[p].old
  BY <1>1 DEF Local
<1> HIDE DEF r
<1>4. db'[p] = r /\ \A q \in Procs \ {p} : db'[q] = db[q]
  BY <1>1, <1>2
<1>5. \A h \in Chains : ChainKept(h)
  BY <1>1, FilesSame
<1> QED
  BY <1>1, <1>3, <1>4, <1>5, AddsUnseen DEF Adding

LEMMA AppendDatMaps ==
  ASSUME DbInv, DbInv', NEW p \in Procs, AppendDat(p)
  PROVE  UNCHANGED Kv!kvVars
<1>1. db[p].pc \in Adding /\ "lockidx" \in Adding /\ Goto(p, "lockidx")
  BY DEF AppendDat, At, Adding
<1>2. \A h \in Chains : ChainKept(h)
  BY AppendDatKeeps
<1> QED
  BY <1>1, <1>2, GoesUnseen

LEMMA AppendIdxMaps ==
  ASSUME DbInv, DbInv', NEW p \in Procs, AppendIdx(p)
  PROVE  UNCHANGED Kv!kvVars
<1>1. db[p].pc \in Adding /\ "writeptr" \in Adding /\ Goto(p, "writeptr")
  BY DEF AppendIdx, At, Adding
<1>2. \A h \in Chains : ChainKept(h)
  BY AppendIdxKeeps
<1> QED
  BY <1>1, <1>2, GoesUnseen

LEMMA ReuseDatMaps ==
  ASSUME DbInv, DbInv', NEW p \in Procs, ReuseDat(p)
  PROVE  UNCHANGED Kv!kvVars
<1>1. db[p].pc \in Adding /\ "reuseidx" \in Adding /\ Goto(p, "reuseidx")
  BY DEF ReuseDat, At, Adding
<1>2. \A h \in Chains : ChainKept(h)
  BY ReuseDatKeeps
<1> QED
  BY <1>1, <1>2, GoesUnseen

LEMMA ReuseIdxMaps ==
  ASSUME DbInv, DbInv', NEW p \in Procs, ReuseIdx(p)
  PROVE  UNCHANGED Kv!kvVars
<1>1. db[p].pc \in Adding /\ "writeptr" \in Adding /\ Goto(p, "writeptr")
  BY DEF ReuseIdx, At, Adding
<1>2. \A h \in Chains : ChainKept(h)
  BY ReuseIdxKeeps
<1> QED
  BY <1>1, <1>2, GoesUnseen

(* Once the record is deleted the store still has what it held.            *)
LEMMA DeleteMaps ==
  ASSUME DbInv, DbInv', NEW p \in Procs, Delete(p)
  PROVE  UNCHANGED Kv!kvVars
<1>1. /\ db[p].pc = "delete" /\ db \in [Procs -> Local] /\ db[p] \in Local /\ LocalOk(p)
      /\ db' = [db EXCEPT ![p].pc = "lockdat", ![p].ptrval = chain'[ChainOf(p)]]
  BY Typing DEF Delete, At
<1> DEFINE r == [db[p] EXCEPT !.pc = "lockdat", !.ptrval = chain'[ChainOf(p)]]
<1>2. db' = [db EXCEPT ![p] = r]
  BY <1>1
<1>3. /\ r.pc = "lockdat" /\ r.key = db[p].key /\ r.data = db[p].data /\ r.flag = db[p].flag
      /\ r.rc = db[p].rc /\ r.old = db[p].old
  BY <1>1 DEF Local
<1> HIDE DEF r
<1>4. db'[p] = r /\ \A q \in Procs \ {p} : db'[q] = db[q]
  BY <1>1, <1>2
<1>5. Calling(p) /\ Calling(p)'
  BY <1>1, <1>3, <1>4 DEF Calling
<1>6. storeBar[db[p].key] = db[p].old
  <2>1. db[p].idxoff \in Found(db[p].key) /\ db[p].old = dat[idx[db[p].idxoff].dat]
    BY <1>1 DEF LocalOk, Changes, Changing
  <2>2. db[p].pc \in Holding \ Adding
    BY <1>1 DEF Holding, Changing, Adding
  <2> QED
    BY <2>1, <2>2, StoreOwned DEF StoreOwn
<1>7. storeBar'[db[p].key] = db[p].old
  <2>1. db'[p].pc \in Adding
    BY <1>3, <1>4 DEF Adding
  <2>2. storeBar'[db'[p].key] = db'[p].old
    BY <2>1, StoreOwnedNext DEF StoreOwn
  <2> QED
    BY <1>3, <1>4, <2>2
<1>8. \A k \in Keys \ {db[p].key} : storeBar'[k] = storeBar[k]
  BY <1>3, <1>4, DeleteKeeps, OthersKept
<1>9. storeBar' = storeBar
  BY <1>6, <1>7, <1>8, StoreIsMap
<1> QED
  BY <1>3, <1>4, <1>5, <1>9, Unseen

(* A new record takes effect with the head of its chain.                   *)
LEMMA WritePtrMaps ==
  ASSUME DbInv, DbInv', NEW p \in Procs, WritePtr(p)
  PROVE  Kv!Effect(p)
<1>1. /\ db[p].pc = "writeptr" /\ Done(p, 0) /\ idx' = idx /\ dat' = dat /\ DbTypes /\ LocalOk(p)
      /\ db[p].data \in Datas /\ db[p].key \in Keys
  BY Typing DEF WritePtr, At, DbInv
<1>2. Finishes(p, 0)
  BY <1>1, DoneMoves
<1>3. /\ \A q \in Procs \ {p} : db'[q] = db[q]
      /\ db'[p].pc = "unlock" /\ db'[p].key = db[p].key
  BY <1>2 DEF Finishes
<1>4. db[p].pc \in Adding /\ Calling(p) /\ db[p].rc = Pending
  BY <1>1 DEF Adding, Calling, LocalOk, Called
<1>5. IF storeBar[db[p].key] # Absent THEN "insert" \notin db[p].flag ELSE "replace" \notin db[p].flag
  <2>1. storeBar[db[p].key] = db[p].old
    BY <1>4, StoreOwned DEF StoreOwn
  <2> QED
    BY <1>1, <1>4, <2>1 DEF LocalOk, Adds
<1>6. storeBar'[db[p].key] = db[p].data
  <2>1. Found(db[p].key)' = {db[p].idxoff}
    BY <1>1, <1>3, WritePtrKeeps
  <2>2. db'[p].pc \in Holding \ Adding
    BY <1>3 DEF Holding, Changing, Adding
  <2>3. \A i \in Found(db[p].key)' : storeBar'[db[p].key] = dat'[idx'[i].dat]
    BY <1>3, <2>2, StoreOwnedNext DEF StoreOwn
  <2>4. dat[idx[db[p].idxoff].dat] = db[p].data
    BY <1>1 DEF LocalOk, OwnsRecord, OwnsData, HasRecord
  <2> QED
    BY <1>1, <2>1, <2>3, <2>4
<1>7. \A k \in Keys \ {db[p].key} : SameFound(k)
  BY <1>1, WritePtrKeeps DEF SameFound
<1>8. \A k \in Keys \ {db[p].key} : storeBar'[k] = storeBar[k]
  BY <1>3, <1>7, OthersKept
<1> QED
  BY <1>2, <1>4, <1>5, <1>6, <1>8, Stored

(* Data of the same length take effect when they are written.              *)
LEMMA OverwriteMaps ==
  ASSUME DbInv, DbInv', NEW p \in Procs, Overwrite(p)
  PROVE  Kv!Effect(p)
<1>1. /\ db[p].pc = "overwrite" /\ Done(p, 0) /\ UNCHANGED <<idx, chain, free>> /\ DbTypes
      /\ LocalOk(p) /\ db[p].data \in Datas /\ db[p].key \in Keys
      /\ dat' = [dat EXCEPT ![db[p].datoff] = db[p].data]
  BY Typing DEF Overwrite, At, DbInv
<1>2. Finishes(p, 0)
  BY <1>1, DoneMoves
<1>3. /\ \A q \in Procs \ {p} : db'[q] = db[q]
      /\ db'[p].pc = "unlock" /\ db'[p].key = db[p].key
  BY <1>2 DEF Finishes
<1>4. db[p].pc \in Changing /\ db[p].pc \in Holding \ Adding /\ Calling(p) /\ db[p].rc = Pending
  BY <1>1 DEF Changing, Holding, Adding, Calling, LocalOk, Called
<1> DEFINE j == db[p].idxoff
<1>5. /\ j \in DOMAIN idx \ Free /\ db[p].datoff = idx[j].dat /\ "insert" \notin db[p].flag
      /\ idx[j].key = db[p].key /\ j \in Found(db[p].key)
  <2>1. j \in Found(db[p].key)
    BY <1>1, <1>4 DEF LocalOk, Changes
  <2> QED
    BY <1>4, <2>1, ChangesRecord
<1> HIDE DEF j
<1>6. dat' = [dat EXCEPT ![idx[j].dat] = db[p].data]
  BY <1>1, <1>5
<1>7. /\ dat'[idx[j].dat] = db[p].data /\ \A x \in DOMAIN dat \ {idx[j].dat} : dat'[x] = dat[x]
      /\ \A k \in Keys : Found(k)' = Found(k)
  BY <1>1, <1>5, <1>6, DatWritten, ZenonT(30)
<1>8. storeBar[db[p].key] # Absent
  <2>1. storeBar[db[p].key] = dat[idx[j].dat]
    BY <1>4, <1>5, StoreOwned DEF StoreOwn
  <2>2. dat[idx[j].dat] \in Datas
    BY <1>1, <1>5, ChainsIn DEF DbInv, ChainOk, Found
  <2> QED
    BY <2>1, <2>2, DbAssumption
<1>9. storeBar'[db[p].key] = db[p].data
  <2>1. db'[p].pc \in Holding \ Adding
    BY <1>3 DEF Holding, Changing, Adding
  <2>2. \A i \in Found(db[p].key)' : storeBar'[db[p].key] = dat'[idx'[i].dat]
    BY <1>3, <2>1, StoreOwnedNext DEF StoreOwn
  <2> QED
    BY <1>1, <1>3, <1>5, <1>7, <2>2
<1>10. ASSUME NEW k \in Keys \ {db[p].key} PROVE SameFound(k)
  <2>1. \A i \in Found(k) : i \in DOMAIN idx /\ i # j
    BY <1>5, ChainsIn DEF DbInv, ChainOk, Found
  <2>2. \A i \in Found(k) : idx[i].dat \in DOMAIN dat \ {idx[j].dat}
    BY <1>5, <2>1 DEF DbInv, DataOk
  <2> QED
    BY <1>1, <1>7, <2>2 DEF SameFound
<1>11. \A k \in Keys \ {db[p].key} : storeBar'[k] = storeBar[k]
  BY <1>3, <1>10, OthersKept
<1> QED
  BY <1>2, <1>4, <1>5, <1>8, <1>9, <1>11, Stored

(* A call ends, by its return or the death of its process.                 *)
LEMMA Ended ==
  ASSUME DbInv, NEW p \in Procs, NEW r, db' = [db EXCEPT ![p] = r], r.pc \in {"idle", "dead"}, r.rc = Pending
  PROVE  /\ \A q \in Procs \ {p} : db'[q] = db[q]
         /\ db'[p] = r /\ ~Replacing(p)'
         /\ opBar' = [opBar EXCEPT ![p] = None] /\ rcBar' = [rcBar EXCEPT ![p] = Pending]
<1>1. db'[p] = r /\ \A q \in Procs \ {p} : db'[q] = db[q]
  BY Typing
<1>2. ~Replacing(p)'
  BY <1>1 DEF Replacing
<1>3. opBar' = [opBar EXCEPT ![p] = None]
  <2> DEFINE f(q) == IF db[q].pc \in {"idle", "dead"} THEN None
                     ELSE [key |-> db[q].key, data |-> db[q].data, flag |-> db[q].flag]
             g(q) == IF db'[q].pc \in {"idle", "dead"} THEN None
                     ELSE [key |-> db'[q].key, data |-> db'[q].data, flag |-> db'[q].flag]
  <2>1. g(p) = None
    BY <1>1
  <2>2. \A q \in Procs \ {p} : g(q) = f(q)
    BY <1>1
  <2>3. opBar = [q \in Procs |-> f(q)] /\ opBar' = [q \in Procs |-> g(q)]
    BY DEF opBar
  <2> HIDE DEF f, g
  <2> QED
    BY <2>1, <2>2, <2>3
<1>4. rcBar' = [rcBar EXCEPT ![p] = Pending]
  BY <1>1, RcIs
<1> QED
  BY <1>1, <1>2, <1>3, <1>4

LEMMA UnlockMaps ==
  ASSUME DbInv, DbInv', NEW p \in Procs, Unlock(p)
  PROVE  Kv!Return(p)
<1>1. UNCHANGED files /\ db[p].pc = "unlock" /\ db' = [db EXCEPT ![p] = Idle] /\ LocalOk(p)
  BY Typing DEF Unlock, At
<1>2. rcBar[p] # Pending
  BY <1>1 DEF LocalOk, Called, rcBar
<1>3. /\ \A q \in Procs \ {p} : db'[q] = db[q]
      /\ ~Replacing(p)'
      /\ opBar' = [opBar EXCEPT ![p] = None] /\ rcBar' = [rcBar EXCEPT ![p] = Pending]
  BY <1>1, IdleIs, Ended
<1>4. \A h \in Chains : ChainKept(h)
  BY <1>1, FilesSame
<1>5. ~Replacing(p)
  BY <1>1 DEF Replacing
<1>6. storeBar' = storeBar
  BY <1>3, <1>4, <1>5, StoreKept
<1> QED
  BY <1>2, <1>3, <1>6 DEF Kv!Return

(* A process that dies while it replaces a record leaves the key without.  *)
LEMMA KilledMaps ==
  ASSUME DbInv, DbInv', NEW p \in Procs, Killed(p)
  PROVE  Kv!Die(p)
<1> DEFINE r == [Idle EXCEPT !.pc = "dead"]
<1>1. UNCHANGED files /\ Calling(p) /\ db' = [db EXCEPT ![p] = r] /\ LocalOk(p)
  BY Typing DEF Killed, At, Calling
<1>2. r.pc = "dead" /\ r.rc = Pending
  BY IdleIs
<1> HIDE DEF r
<1>3. /\ opBar[p] # None /\ opBar[p].key = db[p].key /\ opBar[p].flag = db[p].flag
      /\ rcBar[p] = db[p].rc /\ db[p].key \in Keys
  BY <1>1, OpOf
<1>4. /\ \A q \in Procs \ {p} : db'[q] = db[q]
      /\ ~Replacing(p)'
      /\ opBar' = [opBar EXCEPT ![p] = None] /\ rcBar' = [rcBar EXCEPT ![p] = Pending]
  BY <1>1, <1>2, Ended
<1>5. \A h \in Chains : ChainKept(h)
  BY <1>1, FilesSame
<1>6. CASE ~Replacing(p)
  <2>1. storeBar' = storeBar
    BY <1>4, <1>5, <1>6, StoreKept
  <2> QED
    BY <1>3, <1>4, <2>1 DEF Kv!Die
<1>7. CASE Replacing(p)
  <2>1. /\ db[p].pc \in Holding /\ db[p].pc \in Adding /\ db[p].pc # "unlock"
        /\ storeBar[db[p].key] = db[p].old /\ Found(db[p].key) = {}
    BY <1>1, <1>7, ReplacingHolds, StoreOwned DEF StoreOwn, LocalOk, Adds, Replacing
  <2>2. storeBar'[db[p].key] = Absent
    <3>1. ASSUME NEW q \in Procs PROVE ~(Replacing(q)' /\ db'[q].key = db[p].key)
      <4>1. CASE q = p
        BY <1>4, <4>1
      <4>2. CASE q # p
        <5>1. ~(Replacing(q) /\ db[q].key = db[p].key)
          BY <2>1, <4>2, StoreOf DEF StoreFacts
        <5> QED
          BY <1>4, <4>2, <5>1 DEF Replacing
      <4> QED
        BY <4>1, <4>2
    <3> DEFINE k == db[p].key
    <3>2. PICK x \in Keys : x = k
      BY <1>3
    <3>3. Found(x)' = {}
      BY <1>1, <2>1, <3>2, QuietFound
    <3>4. \A q \in Procs : ~(Replacing(q)' /\ db'[q].key = x)
      BY <3>1, <3>2
    <3>5. storeBar'[x] = Absent
      BY <3>3, <3>4, StoreOfNext DEF StoreFacts
    <3> QED
      BY <3>2, <3>5
  <2>3. \A k \in Keys \ {db[p].key} : storeBar'[k] = storeBar[k]
    BY <1>4, <1>5, AllKept, OthersKept
  <2>4. CASE db[p].old = Absent
    <3>1. storeBar' = storeBar
      BY <2>1, <2>2, <2>3, <2>4, StoreIsMap
    <3> QED
      BY <1>3, <1>4, <3>1 DEF Kv!Die
  <2>5. CASE db[p].old # Absent
    <3>1. "insert" \notin db[p].flag /\ db[p].rc = Pending
      BY <1>1, <2>1, <2>5 DEF LocalOk, Adds, Called
    <3>2. storeBar' = [storeBar EXCEPT ![opBar[p].key] = Absent]
      BY <1>3, <2>2, <2>3, StorePut
    <3> QED
      BY <1>3, <1>4, <3>1, <3>2 DEF Kv!Die
  <2> QED
    BY <2>4, <2>5
<1> QED
  BY <1>6, <1>7

LEMMA InitMaps ==
  DbInit => Kv!KvInit
<1> SUFFICES ASSUME DbInit PROVE Kv!KvInit
  OBVIOUS
<1>1. DbInv /\ db = [p \in Procs |-> Idle] /\ idx = <<>> /\ chain = [h \in Chains |-> 0]
  BY DbStarts DEF DbInit
<1>2. \A p \in Procs : db[p].pc = "idle" /\ db[p].rc = Pending
  BY <1>1, IdleIs
<1>3. ASSUME NEW k \in Keys PROVE storeBar[k] = Absent
  <2>1. \A p \in Procs : ~Replacing(p)
    BY <1>2 DEF Replacing
  <2>2. Found(k) = {}
    <3>1. InChain(Hash[k]) \subseteq DOMAIN idx
      BY <1>1, ChainsIn DEF DbInv, ChainOk
    <3>2. DOMAIN idx = {}
      BY <1>1
    <3> QED
      BY <3>1, <3>2 DEF Found
  <2> QED
    BY <1>1, <2>1, <2>2, StoreOf DEF StoreFacts
<1>4. storeBar = [k \in Keys |-> Absent]
  <2>1. storeBar = [k \in Keys |-> storeBar[k]]
    BY DEF storeBar
  <2> QED
    BY <1>3, <2>1
<1>5. opBar = [p \in Procs |-> None] /\ rcBar = [p \in Procs |-> Pending]
  BY <1>2 DEF opBar, rcBar
<1> QED
  BY <1>4, <1>5 DEF Kv!KvInit

LEMMA NextMaps ==
  DbInv /\ DbInv' /\ [DbNext]_dbVars => [Kv!KvNext]_(Kv!kvVars)
<1> SUFFICES ASSUME DbInv, DbInv', [DbNext]_dbVars PROVE [Kv!KvNext]_(Kv!kvVars)
  OBVIOUS
<1>1. CASE UNCHANGED dbVars
  <2>1. idx' = idx /\ dat' = dat /\ chain' = chain /\ db' = db
    BY <1>1 DEF dbVars, files
  <2> QED
    BY <2>1 DEF Kv!kvVars, storeBar, opBar, rcBar, Replacing, Found, InChain
<1>2. CASE DbNext
  <2>1. PICK p \in Procs :
          \/ Call(p) \/ FindRecord(p) \/ FindNone(p) \/ FindFree(p) \/ Delete(p)
          \/ LockDat(p) \/ AppendDat(p) \/ LockIdx(p) \/ AppendIdx(p) \/ ReuseDat(p) \/ ReuseIdx(p)
          \/ WritePtr(p) \/ Overwrite(p) \/ Unlock(p) \/ Killed(p)
    BY <1>2 DEF DbNext
  <2>2. CASE Call(p) \/ FindRecord(p) \/ FindNone(p)
    BY <2>2, CallMaps, FindRecordMaps, FindNoneMaps
  <2>3. CASE FindFree(p) \/ Delete(p) \/ ReuseDat(p) \/ ReuseIdx(p)
    BY <2>3, FindFreeMaps, DeleteMaps, ReuseDatMaps, ReuseIdxMaps
  <2>4. CASE LockDat(p) \/ AppendDat(p) \/ LockIdx(p) \/ AppendIdx(p)
    BY <2>4, LockDatMaps, AppendDatMaps, LockIdxMaps, AppendIdxMaps
  <2>5. CASE WritePtr(p) \/ Overwrite(p)
    BY <2>5, WritePtrMaps, OverwriteMaps DEF Kv!KvNext
  <2>6. CASE Unlock(p) \/ Killed(p)
    BY <2>6, UnlockMaps, KilledMaps DEF Kv!KvNext
  <2> QED
    BY <2>1, <2>2, <2>3, <2>4, <2>5, <2>6
<1> QED
  BY <1>1, <1>2

(* Calls of db_store act like atomic ones: each reads and changes the      *)
(* store at one moment between its call and its return, although it takes  *)
(* several locks and writes, other processes run between any two of them,  *)
(* and its process may be killed there, which at worst loses the record it *)
(* was replacing.                                                          *)
THEOREM StoresAtomically ==
  DbSpec => StoreIsAtomic
<1>1. DbInit => DbInv /\ Kv!KvInit
  BY DbStarts, InitMaps
<1>2. DbInv /\ [DbNext]_dbVars => DbInv'
  BY DbKeeps
<1>3. DbInv /\ DbInv' /\ [DbNext]_dbVars => [Kv!KvNext]_(Kv!kvVars)
  BY NextMaps
<1> QED
  BY <1>1, <1>2, <1>3, PTL DEF DbSpec, StoreIsAtomic, Kv!KvSpec
=============================================================================
