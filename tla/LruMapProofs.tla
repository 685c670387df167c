---------------------------- MODULE LruMapProofs ----------------------------
(***************************************************************************)
(* What the operations of the bounded map return, preserve and bound, for  *)
(* every map.  The components' proofs cite these and never look inside.    *)
(***************************************************************************)
EXTENDS LruMap, SequenceTheorems, WellFoundedInduction, TLAPS

(* Every entry of n is an entry of m: n was made from m by dropping and    *)
(* moving entries only.                                                    *)
Within(n, m) == \A i \in DOMAIN n : \E j \in DOMAIN m : n[i] = m[j]

(* Every entry of n is an entry of m or the entry e. *)
WithinOr(n, m, e) == \A i \in DOMAIN n : n[i] = e \/ \E j \in DOMAIN m : n[i] = m[j]

(* A function on 1..n with values in S is a sequence over S of length n. *)
LEMMA FunctionIsSeq ==
    ASSUME NEW S, NEW n \in Nat, NEW f \in [1..n -> S]
    PROVE  f \in Seq(S) /\ Len(f) = n
  <1>1. f \in Seq(S)
    BY SeqDef
  <1>2. DOMAIN f = 1..n /\ DOMAIN f = 1..Len(f) /\ Len(f) \in Nat
    BY <1>1, LenProperties
  <1> QED BY <1>1, <1>2

(* IndexOf names a position of the key, when the map has it. *)
LEMMA IndexOfHas ==
    ASSUME NEW m, NEW k, Has(m, k)
    PROVE  IndexOf(m, k) \in DOMAIN m /\ m[IndexOf(m, k)].key = k
  BY DEF Has, IndexOf

(* Dropping position p leaves a map one shorter, made of the other entries. *)
LEMMA DropAtFacts ==
    ASSUME NEW S, NEW m \in Seq(S), NEW p \in DOMAIN m
    PROVE  /\ DropAt(m, p) \in Seq(S)
           /\ Len(DropAt(m, p)) = Len(m) - 1
           /\ \A i \in 1..(Len(m) - 1) :
                 DropAt(m, p)[i] = m[IF i < p THEN i ELSE i + 1]
           /\ Within(DropAt(m, p), m)
  <1>1. Len(m) \in Nat /\ DOMAIN m = 1..Len(m) /\ p \in 1..Len(m)
    OBVIOUS
  <1>2. \A i \in 1..(Len(m) - 1) : DropAt(m, p)[i] = m[IF i < p THEN i ELSE i + 1]
    BY DEF DropAt
  <1>3. \A i \in 1..(Len(m) - 1) : (IF i < p THEN i ELSE i + 1) \in 1..Len(m)
    BY <1>1
  <1>4. DropAt(m, p) \in [1..(Len(m) - 1) -> S]
    BY <1>1, <1>3 DEF DropAt
  <1>5. DropAt(m, p) \in Seq(S) /\ Len(DropAt(m, p)) = Len(m) - 1
    <2> DEFINE n == Len(m) - 1
    <2>1. n \in Nat
      BY <1>1
    <2>2. DropAt(m, p) \in [1..n -> S]
      BY <1>4
    <2> HIDE DEF n
    <2>3. DropAt(m, p) \in Seq(S) /\ Len(DropAt(m, p)) = n
      BY <2>1, <2>2, FunctionIsSeq
    <2> QED BY <2>3 DEF n
  <1>6. DOMAIN DropAt(m, p) = 1..(Len(m) - 1)
    BY DEF DropAt
  <1>7. Within(DropAt(m, p), m)
    BY <1>1, <1>2, <1>3, <1>6 DEF Within
  <1> QED BY <1>2, <1>5, <1>7

(* Dropping an entry keeps the keys unique and gets rid of its own. *)
LEMMA DropAtUnique ==
    ASSUME NEW S, NEW m \in Seq(S), NEW p \in DOMAIN m, Unique(m)
    PROVE  Unique(DropAt(m, p)) /\ ~Has(DropAt(m, p), m[p].key)
  <1> DEFINE n == DropAt(m, p)
             at(i) == IF i < p THEN i ELSE i + 1
  <1>1. Len(m) \in Nat /\ DOMAIN m = 1..Len(m) /\ p \in 1..Len(m)
    OBVIOUS
  <1>2. DOMAIN n = 1..(Len(m) - 1)
    BY DEF DropAt
  <1>3. \A i \in DOMAIN n : n[i] = m[at(i)] /\ at(i) \in DOMAIN m /\ at(i) # p
    BY <1>1, <1>2 DEF DropAt
  <1>4. \A i, j \in DOMAIN n : at(i) = at(j) => i = j
    BY <1>1, <1>2
  <1> HIDE DEF n, at
  <1>5. Unique(n)
    BY <1>3, <1>4 DEF Unique
  <1>6. ~Has(n, m[p].key)
    BY <1>3 DEF Unique, Has
  <1> QED BY <1>5, <1>6 DEF n

(* delete: what is left is from m, and the key is gone. *)
LEMMA WithoutFacts ==
    ASSUME NEW S, NEW m \in Seq(S), NEW k
    PROVE  /\ Without(m, k) \in Seq(S)
           /\ Len(Without(m, k)) = IF Has(m, k) THEN Len(m) - 1 ELSE Len(m)
           /\ Within(Without(m, k), m)
           /\ Unique(m) => Unique(Without(m, k)) /\ ~Has(Without(m, k), k)
  <1>1. CASE Has(m, k)
    <2>1. IndexOf(m, k) \in DOMAIN m /\ m[IndexOf(m, k)].key = k
      BY <1>1, IndexOfHas
    <2>2. Without(m, k) = DropAt(m, IndexOf(m, k))
      BY <1>1 DEF Without
    <2>3. /\ Without(m, k) \in Seq(S)
          /\ Len(Without(m, k)) = Len(m) - 1
          /\ Within(Without(m, k), m)
      BY <2>1, <2>2, DropAtFacts
    <2>4. Unique(m) => Unique(Without(m, k)) /\ ~Has(Without(m, k), k)
      BY <2>1, <2>2, DropAtUnique
    <2> QED BY <1>1, <2>3, <2>4
  <1>2. CASE ~Has(m, k)
    BY <1>2 DEF Without, Within
  <1> QED BY <1>1, <1>2

(* Appending an entry whose key is new keeps the keys unique. *)
LEMMA AppendFacts ==
    ASSUME NEW S, NEW m \in Seq(S), NEW e \in S
    PROVE  /\ Append(m, e) \in Seq(S)
           /\ Len(Append(m, e)) = Len(m) + 1
           /\ WithinOr(Append(m, e), m, e)
           /\ Unique(m) /\ ~Has(m, e.key) => Unique(Append(m, e))
  <1>1. Len(m) \in Nat /\ DOMAIN m = 1..Len(m)
    OBVIOUS
  <1>2. DOMAIN Append(m, e) = 1..(Len(m) + 1)
    OBVIOUS
  <1>3. \A i \in DOMAIN Append(m, e) :
           \/ i \in DOMAIN m /\ Append(m, e)[i] = m[i]
           \/ i = Len(m) + 1 /\ Append(m, e)[i] = e
    BY <1>1
  <1>4. WithinOr(Append(m, e), m, e)
    BY <1>3 DEF WithinOr
  <1>5. Unique(m) /\ ~Has(m, e.key) => Unique(Append(m, e))
    BY <1>3 DEF Unique, Has
  <1> QED BY <1>4, <1>5

(* A get, hit or miss, adds nothing, never grows and keeps keys unique. *)
LEMMA AfterGetFacts ==
    ASSUME NEW S, NEW m \in Seq(S), NEW k
    PROVE  /\ AfterGet(m, k) \in Seq(S)
           /\ Len(AfterGet(m, k)) <= Len(m)
           /\ Within(AfterGet(m, k), m)
           /\ Unique(m) => Unique(AfterGet(m, k))
  <1>1. CASE Live(m, k)
    <2>1. Has(m, k) /\ IndexOf(m, k) \in DOMAIN m /\ Lookup(m, k) = m[IndexOf(m, k)]
          /\ Lookup(m, k).key = k
      BY <1>1, IndexOfHas DEF Live, Lookup
    <2>2. Lookup(m, k) \in S
      BY <2>1
    <2>3. AfterGet(m, k) = Append(Without(m, k), Lookup(m, k))
      BY <1>1 DEF AfterGet
    <2>4. /\ Without(m, k) \in Seq(S) /\ Len(Without(m, k)) = Len(m) - 1
          /\ Within(Without(m, k), m)
          /\ Unique(m) => Unique(Without(m, k)) /\ ~Has(Without(m, k), k)
      BY <2>1, WithoutFacts
    <2>5. /\ AfterGet(m, k) \in Seq(S) /\ Len(AfterGet(m, k)) = Len(m) - 1 + 1
          /\ WithinOr(AfterGet(m, k), Without(m, k), Lookup(m, k))
          /\ Unique(m) => Unique(AfterGet(m, k))
      BY <2>1, <2>2, <2>3, <2>4, AppendFacts
    <2>6. Within(AfterGet(m, k), m)
      BY <2>1, <2>4, <2>5 DEF Within, WithinOr
    <2> QED BY <2>5, <2>6
  <1>2. CASE ~Live(m, k)
    BY <1>2, WithoutFacts DEF AfterGet
  <1> QED BY <1>1, <1>2

(* Eviction makes room for one more entry under the bound. *)
LEMMA EvictFacts ==
    ASSUME NEW S, NEW m \in Seq(S), NEW max \in Nat \ {0}
    PROVE  /\ EvictOldest(m, max) \in Seq(S)
           /\ Len(m) <= max => Len(EvictOldest(m, max)) <= max - 1
           /\ Within(EvictOldest(m, max), m)
           /\ Unique(m) => Unique(EvictOldest(m, max))
           /\ \A k : ~Has(m, k) => ~Has(EvictOldest(m, max), k)
  <1>1. CASE Len(m) >= max
    <2>1. 1 \in DOMAIN m
      BY <1>1
    <2>2. EvictOldest(m, max) = DropAt(m, 1)
      BY <1>1 DEF EvictOldest
    <2> QED BY <2>1, <2>2, DropAtFacts, DropAtUnique DEF Has, Within
  <1>2. CASE ~(Len(m) >= max)
    BY <1>2 DEF EvictOldest, Within
  <1> QED BY <1>1, <1>2

(* DecisionCache.put: only the new entry is added, the bound and the       *)
(* uniqueness of keys survive.                                             *)
LEMMA PutInPlaceFacts ==
    ASSUME NEW S, NEW m \in Seq(S), NEW max \in Nat \ {0}, NEW e \in S
    PROVE  /\ PutInPlace(m, max, e) \in Seq(S)
           /\ Len(m) <= max => Len(PutInPlace(m, max, e)) <= max
           /\ WithinOr(PutInPlace(m, max, e), m, e)
           /\ Unique(m) => Unique(PutInPlace(m, max, e))
  <1>1. CASE Has(m, e.key)
    <2> DEFINE p == IndexOf(m, e.key)
               n == [m EXCEPT ![p] = e]
    <2>1. p \in DOMAIN m /\ m[p].key = e.key
      BY <1>1, IndexOfHas
    <2>2. PutInPlace(m, max, e) = n
      BY <1>1 DEF PutInPlace
    <2> HIDE DEF p
    <2>3. n \in Seq(S) /\ Len(n) = Len(m) /\ DOMAIN n = DOMAIN m
      BY <2>1
    <2>4. \A i \in DOMAIN m : n[i] = IF i = p THEN e ELSE m[i]
      BY <2>1
    <2> HIDE DEF n
    <2>5. WithinOr(n, m, e)
      BY <2>3, <2>4 DEF WithinOr
    <2>6. \A i \in DOMAIN n : n[i].key = m[i].key
      BY <2>1, <2>3, <2>4
    <2>7. Unique(m) => Unique(n)
      BY <2>3, <2>6 DEF Unique
    <2> QED BY <2>2, <2>3, <2>5, <2>7
  <1>2. CASE ~Has(m, e.key)
    <2> DEFINE o == EvictOldest(m, max)
    <2>1. PutInPlace(m, max, e) = Append(o, e)
      BY <1>2 DEF PutInPlace
    <2>2. /\ o \in Seq(S) /\ (Len(m) <= max => Len(o) <= max - 1) /\ Within(o, m)
          /\ (Unique(m) => Unique(o)) /\ ~Has(o, e.key)
      BY <1>2, EvictFacts
    <2> HIDE DEF o
    <2>3. /\ Append(o, e) \in Seq(S) /\ Len(Append(o, e)) = Len(o) + 1
          /\ WithinOr(Append(o, e), o, e)
          /\ Unique(o) /\ ~Has(o, e.key) => Unique(Append(o, e))
      BY <2>2, AppendFacts
    <2>4. WithinOr(Append(o, e), m, e)
      BY <2>2, <2>3 DEF Within, WithinOr
    <2>5. Len(m) <= max => Len(Append(o, e)) <= max
      BY <2>2, <2>3
    <2> QED BY <2>1, <2>2, <2>3, <2>4, <2>5
  <1> QED BY <1>1, <1>2

(* After DecisionCache.put, the new entry is the only one under its key. *)
LEMMA PutInPlaceReplaces ==
    ASSUME NEW S, NEW m \in Seq(S), NEW max \in Nat \ {0}, NEW e \in S, Unique(m),
           NEW i \in DOMAIN PutInPlace(m, max, e), PutInPlace(m, max, e)[i].key = e.key
    PROVE  PutInPlace(m, max, e)[i] = e
  <1>1. CASE Has(m, e.key)
    <2> DEFINE p == IndexOf(m, e.key)
    <2>1. p \in DOMAIN m /\ m[p].key = e.key
      BY <1>1, IndexOfHas
    <2> HIDE DEF p
    <2>2. PutInPlace(m, max, e) = [m EXCEPT ![p] = e]
      BY <1>1 DEF PutInPlace, p
    <2>3. i \in DOMAIN m /\ (i # p => PutInPlace(m, max, e)[i] = m[i])
      BY <2>2
    <2>4. i = p
      BY <2>1, <2>3 DEF Unique
    <2> QED BY <2>1, <2>2, <2>4
  <1>2. CASE ~Has(m, e.key)
    <2>1. WithinOr(PutInPlace(m, max, e), m, e)
      BY PutInPlaceFacts
    <2> QED BY <1>2, <2>1 DEF WithinOr, Has
  <1> QED BY <1>1, <1>2

(* ApprovalGrantCache.put: the same, with the entry moved to the tail. *)
LEMMA PutAtTailFacts ==
    ASSUME NEW S, NEW m \in Seq(S), NEW max \in Nat \ {0}, NEW e \in S
    PROVE  /\ PutAtTail(m, max, e) \in Seq(S)
           /\ Len(m) <= max => Len(PutAtTail(m, max, e)) <= max
           /\ WithinOr(PutAtTail(m, max, e), m, e)
           /\ Unique(m) => Unique(PutAtTail(m, max, e))
  <1> DEFINE w == Without(m, e.key)
             o == EvictOldest(w, max)
  <1>1. /\ w \in Seq(S) /\ (Len(m) <= max => Len(w) <= max) /\ Within(w, m)
        /\ Unique(m) => Unique(w) /\ ~Has(w, e.key)
    BY WithoutFacts
  <1>2. PutAtTail(m, max, e) = Append(o, e)
    BY DEF PutAtTail
  <1> HIDE DEF w
  <1>3. /\ o \in Seq(S) /\ (Len(w) <= max => Len(o) <= max - 1) /\ Within(o, w)
        /\ (Unique(w) => Unique(o)) /\ (~Has(w, e.key) => ~Has(o, e.key))
    BY <1>1, EvictFacts
  <1> HIDE DEF o
  <1>4. /\ Append(o, e) \in Seq(S) /\ Len(Append(o, e)) = Len(o) + 1
        /\ WithinOr(Append(o, e), o, e)
        /\ Unique(o) /\ ~Has(o, e.key) => Unique(Append(o, e))
    BY <1>3, AppendFacts
  <1>5. WithinOr(Append(o, e), m, e)
    BY <1>1, <1>3, <1>4 DEF Within, WithinOr
  <1>6. Len(m) <= max => Len(Append(o, e)) <= max
    BY <1>1, <1>3, <1>4
  <1> QED BY <1>1, <1>2, <1>3, <1>4, <1>5, <1>6

(* Induction over the naturals, for a set. *)
LEMMA NatInductionSet ==
    ASSUME NEW P, 0 \in P, \A n \in Nat : n \in P => n + 1 \in P
    PROVE  \A n \in Nat : n \in P
<1> DEFINE R == OpToRel(<, Nat)
           S == Nat \ P
<1> SUFFICES ASSUME S # {} PROVE FALSE  OBVIOUS
<1>1. IsWellFoundedOn(R, Nat)  BY NatLessThanWellFounded
<1>2. S \subseteq Nat  OBVIOUS
<1>3. PICK x \in S : \A y \in S : ~(<<y, x>> \in R)
  <2> HIDE DEF R, S
  <2> QED BY <1>1, <1>2, WFMin
<1>4. \A y \in S : y < x => <<y, x>> \in R  BY DEF OpToRel
<1> HIDE DEF R
<1>5. \A y \in S : ~(y < x)  BY <1>3, <1>4, Zenon
<1>6. x \in Nat /\ x # 0 /\ x - 1 \in Nat /\ x - 1 < x /\ (x - 1) + 1 = x  BY <1>3
<1>7. x - 1 \in P  BY <1>5, <1>6
<1> QED BY <1>3, <1>6, <1>7

(* The recursion of Sweep up to position n. *)
Sweeps(m, g, n) ==
    g = [i \in 0 .. n |-> IF i = 0 THEN <<>>
                          ELSE IF m[i].left > 0 THEN Append(g[i - 1], m[i]) ELSE g[i - 1]]
Sweepable(m, n) == \E g : Sweeps(m, g, n)

LEMMA SweepDefined ==
    ASSUME NEW m, NEW n \in Nat
    PROVE  Sweepable(m, n)
<1>1. Sweepable(m, 0)
  <2>1. PICK g : g = [i \in 0 .. 0 |-> <<>>]  OBVIOUS
  <2>2. Sweeps(m, g, 0)  BY <2>1 DEF Sweeps
  <2> QED BY <2>2 DEF Sweepable
<1>2. ASSUME NEW k \in Nat, Sweepable(m, k) PROVE Sweepable(m, k + 1)
  <2>1. PICK g : Sweeps(m, g, k)  BY <1>2 DEF Sweepable
  <2>2. PICK v : v = IF m[k + 1].left > 0 THEN Append(g[k], m[k + 1]) ELSE g[k]  OBVIOUS
  <2>3. PICK h : h = [i \in 0 .. k + 1 |-> IF i = k + 1 THEN v ELSE g[i]]  OBVIOUS
  <2>4. ASSUME NEW i \in 0 .. k + 1
        PROVE  h[i] = IF i = 0 THEN <<>>
                      ELSE IF m[i].left > 0 THEN Append(h[i - 1], m[i]) ELSE h[i - 1]
    <3>1. CASE i = k + 1
      <4>1. h[i - 1] = g[k] /\ h[i] = v /\ i # 0  BY <2>3, <3>1
      <4> QED BY <2>2, <3>1, <4>1
    <3>2. CASE i # k + 1
      <4>1. i \in 0 .. k /\ h[i] = g[i]  BY <2>3, <3>2
      <4>2. i # 0 => h[i - 1] = g[i - 1]  BY <2>3, <4>1
      <4>3. g[i] = IF i = 0 THEN <<>>
                   ELSE IF m[i].left > 0 THEN Append(g[i - 1], m[i]) ELSE g[i - 1]
        BY <2>1, <4>1 DEF Sweeps
      <4> QED BY <4>1, <4>2, <4>3
    <3> QED BY <3>1, <3>2
  <2>5. DOMAIN h = 0 .. k + 1 /\ h = [i \in 0 .. k + 1 |-> h[i]]  BY <2>3
  <2>6. Sweeps(m, h, k + 1)  BY <2>4, <2>5 DEF Sweeps
  <2> QED BY <2>6 DEF Sweepable
<1> DEFINE P == {k \in Nat : Sweepable(m, k)}
<1>3. 0 \in P /\ \A k \in Nat : k \in P => k + 1 \in P  BY <1>1, <1>2
<1>4. \A k \in Nat : k \in P
  <2> HIDE DEF P
  <2> QED BY <1>3, NatInductionSet
<1> QED BY <1>4

(* What is swept is from the map and not expired, and its keys stay unique. *)
SweptOK(m, s, n, S) ==
    /\ s \in Seq(S)
    /\ \A i \in DOMAIN s : \E j \in 1 .. n : s[i] = m[j] /\ m[j].left > 0
    /\ Unique(m) => Unique(s)

LEMMA SweepFacts ==
    ASSUME NEW S, NEW m \in Seq(S)
    PROVE  /\ Sweep(m) \in Seq(S) /\ Within(Sweep(m), m)
           /\ Unique(m) => Unique(Sweep(m))
<1>1. Len(m) \in Nat /\ DOMAIN m = 1 .. Len(m)  OBVIOUS
<1>2. PICK g : /\ Sweeps(m, g, Len(m)) /\ Sweep(m) = g[Len(m)]
  <2> DEFINE Swept == CHOOSE Swept : Swept =
        [i \in 0 .. Len(m) |-> IF i = 0 THEN <<>>
             ELSE IF m[i].left > 0 THEN Append(Swept[i - 1], m[i]) ELSE Swept[i - 1]]
  <2>1. \E f : f = [i \in 0 .. Len(m) |-> IF i = 0 THEN <<>>
             ELSE IF m[i].left > 0 THEN Append(f[i - 1], m[i]) ELSE f[i - 1]]
    BY <1>1, SweepDefined DEF Sweepable, Sweeps
  <2>2. Sweeps(m, Swept, Len(m))  BY <2>1 DEF Sweeps
  <2>3. Sweep(m) = Swept[Len(m)]  BY DEF Sweep
  <2> QED BY <2>2, <2>3
<1> DEFINE P == {n \in Nat : n <= Len(m) => SweptOK(m, g[n], n, S)}
<1>3. 0 \in P
  <2>1. g[0] = <<>>  BY <1>1, <1>2 DEF Sweeps
  <2>2. PICK s : s = <<>>  OBVIOUS
  <2>3. s \in Seq(S) /\ \A i \in DOMAIN s : FALSE  BY <2>2
  <2>4. SweptOK(m, s, 0, S)  BY <2>3 DEF SweptOK, Unique
  <2> QED BY <2>1, <2>2, <2>4
<1>4. ASSUME NEW n \in Nat, n \in P PROVE n + 1 \in P
  <2> SUFFICES ASSUME n + 1 <= Len(m) PROVE SweptOK(m, g[n + 1], n + 1, S)  OBVIOUS
  <2>1. SweptOK(m, g[n], n, S)  BY <1>1, <1>4
  <2>2. n + 1 \in 1 .. Len(m) /\ n + 1 \in 0 .. Len(m) /\ n + 1 # 0 /\ (n + 1) - 1 = n  BY <1>1
  <2>3. g[n + 1] = IF m[n + 1].left > 0 THEN Append(g[n], m[n + 1]) ELSE g[n]
    BY <1>2, <2>2 DEF Sweeps
  <2>4. PICK s, e : s = g[n] /\ e = m[n + 1]  OBVIOUS
  <2>5. e \in S  BY <1>1, <2>2, <2>4
  <2>6. CASE m[n + 1].left > 0
    <3>1. PICK t : t = Append(s, e)  OBVIOUS
    <3>2. s \in Seq(S) /\ t \in Seq(S) /\ DOMAIN t = 1 .. Len(s) + 1 /\ DOMAIN s = 1 .. Len(s) /\ Len(s) \in Nat
      BY <2>1, <2>4, <2>5, <3>1 DEF SweptOK
    <3>3. \A i \in DOMAIN t : (i \in DOMAIN s /\ t[i] = s[i]) \/ (i = Len(s) + 1 /\ t[i] = e)
      BY <3>1, <3>2
    <3>4. \A i \in DOMAIN s : \E j \in 1 .. n : s[i] = m[j] /\ m[j].left > 0
      BY <2>1, <2>4 DEF SweptOK
    <3>5. \A j \in 1 .. n : j \in 1 .. n + 1 /\ j \in DOMAIN m /\ j # n + 1  BY <1>1, <2>2
    <3>6. \A i \in DOMAIN t : \E j \in 1 .. n + 1 : t[i] = m[j] /\ m[j].left > 0
      BY <2>4, <2>6, <3>3, <3>4, <3>5
    <3>7. ASSUME Unique(m) PROVE Unique(t)
      <4>1. Unique(s)  BY <2>1, <2>4, <3>7 DEF SweptOK
      <4>2. \A i \in DOMAIN s : s[i].key # e.key
        BY <1>1, <2>2, <2>4, <3>4, <3>5, <3>7 DEF Unique
      <4> QED BY <3>3, <4>1, <4>2 DEF Unique
    <3>8. g[n + 1] = t  BY <2>3, <2>4, <2>6, <3>1
    <3> QED BY <3>2, <3>6, <3>7, <3>8 DEF SweptOK
  <2>7. CASE ~(m[n + 1].left > 0)
    <3>1. g[n + 1] = g[n]  BY <2>3, <2>7
    <3>2. \A j \in 1 .. n : j \in 1 .. n + 1  OBVIOUS
    <3> QED BY <2>1, <3>1, <3>2 DEF SweptOK
  <2> QED BY <2>6, <2>7
<1>5. \A n \in Nat : n \in P
  <2> HIDE DEF P
  <2> QED BY <1>3, <1>4, NatInductionSet
<1>6. SweptOK(m, Sweep(m), Len(m), S)  BY <1>1, <1>2, <1>5
<1> QED BY <1>1, <1>6 DEF SweptOK, Within

(* In a map with unique keys, Lookup finds the entry that has the key. *)
LEMMA LookupUnique ==
    ASSUME NEW m, Unique(m), NEW i \in DOMAIN m
    PROVE  Has(m, m[i].key) /\ Lookup(m, m[i].key) = m[i]
<1>1. Has(m, m[i].key)  BY DEF Has
<1>2. IndexOf(m, m[i].key) \in DOMAIN m /\ m[IndexOf(m, m[i].key)].key = m[i].key
  BY <1>1, IndexOfHas
<1> QED BY <1>1, <1>2 DEF Unique, Lookup

(* After a put at the tail the new entry is found under its key; another   *)
(* entry is found as before, or was evicted from a map that was full.      *)
LEMMA PutAtTailLookup ==
    ASSUME NEW S, NEW m \in Seq(S), NEW max \in Nat \ {0}, NEW e \in S, Unique(m)
    PROVE  /\ Has(PutAtTail(m, max, e), e.key) /\ Lookup(PutAtTail(m, max, e), e.key) = e
           /\ \A d : Has(m, d) /\ d # e.key =>
                 \/ /\ Has(PutAtTail(m, max, e), d)
                    /\ Lookup(PutAtTail(m, max, e), d) = Lookup(m, d)
                 \/ ~Has(PutAtTail(m, max, e), d) /\ Len(m) >= max
<1>1. PICK w, o, n : w = Without(m, e.key) /\ o = EvictOldest(w, max) /\ n = PutAtTail(m, max, e)  OBVIOUS
<1>2. n \in Seq(S) /\ WithinOr(n, m, e) /\ Unique(n)  BY <1>1, PutAtTailFacts
<1>3. n = Append(o, e)  BY <1>1 DEF PutAtTail
<1>4. w \in Seq(S) /\ Len(w) <= Len(m)  BY <1>1, WithoutFacts
<1>5. o \in Seq(S)  BY <1>1, <1>4, EvictFacts
<1>6. Len(o) + 1 \in DOMAIN n /\ n[Len(o) + 1] = e /\ \A i \in DOMAIN o : i \in DOMAIN n /\ n[i] = o[i]
  BY <1>3, <1>5
<1>7. Has(n, e.key) /\ Lookup(n, e.key) = e
  BY <1>2, <1>6, LookupUnique
<1>8. ASSUME NEW d, Has(m, d), d # e.key, Has(n, d) PROVE Lookup(n, d) = Lookup(m, d)
  <2>1. PICK i \in DOMAIN n : n[i].key = d  BY <1>8 DEF Has
  <2>2. PICK j \in DOMAIN m : n[i] = m[j]  BY <1>2, <1>8, <2>1 DEF WithinOr
  <2>3. Lookup(n, d) = n[i]  BY <1>2, <2>1, LookupUnique
  <2>4. Lookup(m, d) = m[j]  BY <2>1, <2>2, LookupUnique
  <2> QED BY <2>2, <2>3, <2>4
<1>9. ASSUME NEW d, Has(m, d), d # e.key, ~(Len(m) >= max) PROVE Has(n, d)
  <2>1. o = w  BY <1>1, <1>4, <1>9 DEF EvictOldest
  <2>2. PICK j \in DOMAIN m : m[j].key = d  BY <1>9 DEF Has
  <2>3. Has(w, d)
    <3>1. CASE ~Has(m, e.key)  BY <1>1, <1>9, <3>1 DEF Without
    <3>2. CASE Has(m, e.key)
      <4>1. PICK p : p = IndexOf(m, e.key)  OBVIOUS
      <4>2. p \in DOMAIN m /\ m[p].key = e.key  BY <3>2, <4>1, IndexOfHas
      <4>3. w = DropAt(m, p)  BY <1>1, <3>2, <4>1 DEF Without
      <4>4. DOMAIN w = 1 .. (Len(m) - 1) /\ \A i \in 1 .. (Len(m) - 1) : w[i] = m[IF i < p THEN i ELSE i + 1]
        BY <4>3 DEF DropAt
      <4>5. j # p /\ j \in 1 .. Len(m) /\ p \in 1 .. Len(m) /\ Len(m) \in Nat  BY <1>9, <2>2, <4>2
      <4>6. CASE j < p
        <5>1. j \in DOMAIN w /\ w[j] = m[j]  BY <4>4, <4>5, <4>6
        <5> QED BY <2>2, <5>1 DEF Has
      <4>7. CASE j > p
        <5>1. j - 1 \in DOMAIN w /\ w[j - 1] = m[j]  BY <4>4, <4>5, <4>7
        <5> QED BY <2>2, <5>1 DEF Has
      <4> QED BY <4>5, <4>6, <4>7
    <3> QED BY <3>1, <3>2
  <2> QED BY <1>6, <2>1, <2>3 DEF Has
<1> QED BY <1>1, <1>7, <1>8, <1>9
=============================================================================
