------------------------- MODULE FuncUnitPoolProofs -------------------------
(***************************************************************************)
(* Theorems about the functional units, for every set of nodes, every      *)
(* vector length and every slot limit.  The lemmas count slots in a bundle *)
(* and follow the undo log; the theorems go through the branches of place. *)
(***************************************************************************)
EXTENDS FuncUnitPoolHistory, FiniteSetTheorems, SequenceTheorems,
        WellFoundedInduction, TLAPS

-----------------------------------------------------------------------------
\* The least member of a set of numbers.
LEMMA LeastEntry ==
  ASSUME NEW S \in SUBSET Nat, S # {}
  PROVE  Min(S) \in S /\ \A y \in S : Min(S) <= y
<1>1. PICK m \in S : \A k \in S : ~ (<<k, m>> \in OpToRel(<, Nat))
  BY NatLessThanWellFounded, WFMin
<1>2. \A k \in S : ~ (k < m)
  BY <1>1 DEF OpToRel
<1>3. \A k \in S : m <= k
  BY <1>2
<1> QED
  BY <1>3 DEF Min

\* A member no other is below is the least.
LEMMA LeastOf ==
  ASSUME NEW S \in SUBSET Nat, NEW m \in S, \A y \in S : m <= y
  PROVE  Min(S) = m
<1>1. Min(S) \in S /\ \A y \in S : Min(S) <= y
  BY LeastEntry
<1>2. Min(S) <= m /\ m <= Min(S) /\ Min(S) \in Nat /\ m \in Nat
  BY <1>1
<1> QED
  BY <1>2

\* Removing the element at an index.
LEMMA RemoveAtProperties ==
  ASSUME NEW S, NEW s \in Seq(S), NEW i \in 1 .. Len(s)
  PROVE  /\ RemoveAt(s, i) \in Seq(S)
         /\ Len(RemoveAt(s, i)) = Len(s) - 1
         /\ \A j \in 1 .. i - 1 : RemoveAt(s, i)[j] = s[j]
         /\ \A j \in i .. Len(s) - 1 : RemoveAt(s, i)[j] = s[j + 1]
         /\ s = SubSeq(s, 1, i - 1) \o (<<s[i]>> \o SubSeq(s, i + 1, Len(s)))
         /\ SubSeq(s, 1, i - 1) \in Seq(S) /\ SubSeq(s, i + 1, Len(s)) \in Seq(S)
         /\ <<s[i]>> \in Seq(S)
<1> DEFINE a == SubSeq(s, 1, i - 1)
           b == SubSeq(s, i + 1, Len(s))
<1>1. Len(s) \in Nat /\ i \in Nat /\ i - 1 \in Int /\ i + 1 \in Int
  BY LenProperties
<1>2. \A k \in 1 .. Len(s) : s[k] \in S
  BY ElementOfSeq
<1>3. a \in Seq(S) /\ Len(a) = i - 1 /\ \A j \in 1 .. i - 1 : a[j] = s[j]
  <2>1. \A k \in 1 .. i - 1 : s[k] \in S
    BY <1>1, <1>2
  <2>2. a \in Seq(S) /\ Len(a) = (IF 1 <= i - 1 THEN i - 1 - 1 + 1 ELSE 0)
        /\ \A j \in 1 .. i - 1 - 1 + 1 : a[j] = s[1 + j - 1]
    BY <1>1, <2>1, SubSeqProperties
  <2> QED
    BY <1>1, <2>2
<1>4. b \in Seq(S) /\ Len(b) = Len(s) - i /\ \A j \in 1 .. Len(s) - i : b[j] = s[i + j]
  <2>1. \A k \in i + 1 .. Len(s) : s[k] \in S
    BY <1>1, <1>2
  <2>2. b \in Seq(S) /\ Len(b) = (IF i + 1 <= Len(s) THEN Len(s) - (i + 1) + 1 ELSE 0)
        /\ \A j \in 1 .. Len(s) - (i + 1) + 1 : b[j] = s[i + 1 + j - 1]
    BY <1>1, <2>1, SubSeqProperties
  <2> HIDE DEF b
  <2>3. Len(b) = Len(s) - i
    BY <1>1, <2>2
  <2>4. \A j \in 1 .. Len(s) - i : j \in 1 .. Len(s) - (i + 1) + 1 /\ i + 1 + j - 1 = i + j
    BY <1>1
  <2> QED
    BY <2>2, <2>3, <2>4
<1>5. <<s[i]>> \in Seq(S)
  BY <1>2
<1>6. s = a \o (<<s[i]>> \o b)
  <2> DEFINE x == <<s[i]>>
  <2>1. SubSeq(s, 1, Len(s)) = s
    BY SubSeqFull
  <2>2. SubSeq(s, 1, i - 1) \o SubSeq(s, (i - 1) + 1, Len(s)) = SubSeq(s, 1, Len(s))
    <3>1. 1 \in 1 .. Len(s) + 1 /\ i - 1 \in 1 - 1 .. Len(s) /\ Len(s) \in i - 1 .. Len(s)
      BY <1>1
    <3> QED
      BY <3>1, ConcatAdjacentSubSeq
  <2>3. SubSeq(s, i, Len(s)) = <<s[i]>> \o b
    <3>1. Len(s) \in i .. Len(s)
      BY <1>1
    <3> QED
      BY <3>1, SubSeqRecursiveFirst
  <2>4. (i - 1) + 1 = i
    BY <1>1
  <2>5. s = a \o (x \o b)
    BY <2>1, <2>2, <2>3, <2>4
  <2> QED
    BY <2>5
<1>7. RemoveAt(s, i) = a \o b
  BY DEF RemoveAt
<1>8. /\ a \o b \in Seq(S) /\ Len(a \o b) = Len(s) - 1
      /\ \A j \in 1 .. i - 1 : (a \o b)[j] = s[j]
      /\ \A j \in i .. Len(s) - 1 : (a \o b)[j] = s[j + 1]
  <2> HIDE DEF a, b
  <2>1. /\ a \o b \in Seq(S) /\ Len(a \o b) = Len(a) + Len(b)
        /\ \A k \in 1 .. Len(a) + Len(b) :
             (a \o b)[k] = IF k <= Len(a) THEN a[k] ELSE b[k - Len(a)]
    BY <1>3, <1>4, ConcatProperties
  <2>2. Len(a) = i - 1 /\ Len(b) = Len(s) - i
    BY <1>3, <1>4
  <2>3. ASSUME NEW j \in 1 .. i - 1 PROVE (a \o b)[j] = s[j]
    <3>1. j \in 1 .. Len(a) + Len(b) /\ j <= Len(a)
      BY <1>1, <2>2
    <3>2. (a \o b)[j] = a[j]
      BY <2>1, <3>1
    <3> QED
      BY <1>3, <3>2
  <2>4. ASSUME NEW j \in i .. Len(s) - 1 PROVE (a \o b)[j] = s[j + 1]
    <3>1. /\ j \in 1 .. Len(a) + Len(b) /\ ~ (j <= Len(a))
          /\ j - Len(a) \in 1 .. Len(s) - i /\ i + (j - Len(a)) = j + 1
      BY <1>1, <2>2
    <3>2. (a \o b)[j] = b[j - Len(a)]
      BY <2>1, <3>1
    <3> QED
      BY <1>4, <3>1, <3>2
  <2>5. Len(a \o b) = Len(s) - 1
    BY <1>1, <2>1, <2>2
  <2> QED
    BY <2>1, <2>3, <2>4, <2>5
<1>9. a \in Seq(S) /\ b \in Seq(S)
  BY <1>3, <1>4
<1> DEFINE x == <<s[i]>>
<1>10. x \in Seq(S) /\ s = a \o (x \o b)
  BY <1>5, <1>6
<1> HIDE DEF x, a, b
<1>11. /\ RemoveAt(s, i) \in Seq(S)
       /\ Len(RemoveAt(s, i)) = Len(s) - 1
       /\ \A j \in 1 .. i - 1 : RemoveAt(s, i)[j] = s[j]
       /\ \A j \in i .. Len(s) - 1 : RemoveAt(s, i)[j] = s[j + 1]
  BY <1>7, <1>8
<1> QED
  BY <1>9, <1>10, <1>11 DEF a, b, x

-----------------------------------------------------------------------------
\* Counting the slots of a bundle that execute a lane.
LEMMA TimesType ==
  ASSUME NEW S, NEW s \in Seq(S), NEW n, NEW l
  PROVE  Times(s, n, l) \in Nat
<1>1. IsFiniteSet(DOMAIN s)
  BY LenProperties, FS_Interval
<1> QED
  BY <1>1, FS_Subset, FS_CardinalityType DEF Times

\* How often a lane occurs in two slot lists, one after the other.
LEMMA TimesConcat ==
  ASSUME NEW S, NEW s \in Seq(S), NEW t \in Seq(S), NEW n, NEW l
  PROVE  Times(s \o t, n, l) = Times(s, n, l) + Times(t, n, l)
<1> DEFINE X == {Slot(n, All), Slot(n, l)}
           a == Len(s)
           b == Len(t)
           u == s \o t
           A == { k \in 1 .. a : s[k] \in X }
           B == { k \in 1 .. b : t[k] \in X }
           C == { k \in 1 .. a + b : u[k] \in X }
           D == { k \in C : k > a }
           f == [k \in B |-> k + a]
<1>1. a \in Nat /\ b \in Nat
  BY LenProperties
<1>2. \A k \in 1 .. a + b : u[k] = IF k <= a THEN s[k] ELSE t[k - a]
  BY ConcatProperties
<1>3. /\ Times(s, n, l) = Cardinality(A) /\ Times(t, n, l) = Cardinality(B)
      /\ Times(s \o t, n, l) = Cardinality(C)
  <2>1. DOMAIN s = 1 .. Len(s) /\ DOMAIN t = 1 .. Len(t)
    BY LenProperties
  <2>2. s \o t \in Seq(S) /\ Len(s \o t) = Len(s) + Len(t)
    BY ConcatProperties
  <2>3. DOMAIN (s \o t) = 1 .. Len(s) + Len(t)
    BY <2>2, LenProperties
  <2> QED
    BY <2>1, <2>3 DEF Times
<1> HIDE DEF X, a, b, u
<1>4. IsFiniteSet(A) /\ IsFiniteSet(B) /\ IsFiniteSet(C) /\ IsFiniteSet(D)
  <2>1. IsFiniteSet(1 .. a) /\ IsFiniteSet(1 .. b) /\ IsFiniteSet(1 .. a + b)
    BY <1>1, FS_Interval
  <2>2. A \in SUBSET (1 .. a) /\ B \in SUBSET (1 .. b) /\ C \in SUBSET (1 .. a + b)
        /\ D \in SUBSET (1 .. a + b)
    OBVIOUS
  <2> QED
    BY <2>1, <2>2, FS_Subset
<1>5. C = A \cup D /\ A \cap D = {}
  <2>1. \A k : k \in A <=> k \in C /\ k <= a
    BY <1>1, <1>2
  <2>2. \A k \in C : k <= a \/ k > a
    BY <1>1
  <2>3. \A k \in C : ~ (k <= a /\ k > a)
    BY <1>1
  <2> QED
    BY <2>1, <2>2, <2>3
<1>6. f \in Bijection(B, D)
  <2>1. \A k \in B : k + a \in D
    <3> SUFFICES ASSUME NEW k \in B PROVE k + a \in D
      OBVIOUS
    <3>1. k + a \in 1 .. a + b /\ k + a > a /\ (k + a) - a = k
      BY <1>1
    <3>2. u[k + a] = t[k]
      BY <1>1, <1>2, <3>1
    <3> QED
      BY <3>1, <3>2
  <2>2. \A k \in D : k - a \in B /\ k = (k - a) + a
    <3> SUFFICES ASSUME NEW k \in D PROVE k - a \in B /\ k = (k - a) + a
      OBVIOUS
    <3>1. k \in 1 .. a + b /\ ~ (k <= a) /\ k - a \in 1 .. b /\ k = (k - a) + a
      BY <1>1
    <3>2. u[k] = t[k - a]
      BY <1>2, <3>1
    <3> QED
      BY <3>1, <3>2
  <2>3. f \in [B -> D]
    BY <2>1
  <2>4. \A x, y \in B : f[x] = f[y] => x = y
    BY <1>1
  <2>5. \A k \in D : \E j \in B : f[j] = k
    BY <2>2
  <2> HIDE DEF f, B, D
  <2> QED
    BY <2>3, <2>4, <2>5 DEF Bijection, Injection, IsInjective, Surjection
<1> HIDE DEF A, B, C, D, f
<1>7. IsFiniteSet(D) /\ Cardinality(D) = Cardinality(B)
  BY <1>4, <1>6, FS_Bijection DEF ExistsBijection
<1>8. Cardinality(C) = Cardinality(A) + Cardinality(D) - Cardinality({})
  BY <1>4, <1>5, FS_Union
<1>9. Cardinality(A) \in Nat /\ Cardinality(D) \in Nat /\ Cardinality({}) = 0
  BY <1>4, FS_CardinalityType, FS_EmptySet
<1>10. Cardinality(C) = Cardinality(A) + Cardinality(B)
  BY <1>7, <1>8, <1>9
<1> QED
  BY <1>3, <1>10 DEF u

\* What the slots that place emits count for.
LEMMA TimesOne ==
  ASSUME NEW x, NEW n, NEW l
  PROVE  Times(<<x>>, n, l) = IF x \in {Slot(n, All), Slot(n, l)} THEN 1 ELSE 0
<1> DEFINE T == { k \in {1} : x \in {Slot(n, All), Slot(n, l)} }
<1>1. Times(<<x>>, n, l) = Cardinality(T)
  <2>1. DOMAIN <<x>> = {1} /\ <<x>>[1] = x
    OBVIOUS
  <2> QED
    BY <2>1 DEF Times
<1>2. T = IF x \in {Slot(n, All), Slot(n, l)} THEN {1} ELSE {}
  OBVIOUS
<1> QED
  BY <1>1, <1>2, FS_Singleton, FS_EmptySet

\* How often a lane occurs in a run of lanes: once, or not at all.
LEMMA TimesLanes ==
  ASSUME NEW m, NEW from \in Nat, NEW count \in Nat, NEW n, NEW l \in Nat
  PROVE  Times(Lanes(m, from, count), n, l) =
           IF n = m /\ from <= l /\ l < from + count THEN 1 ELSE 0
<1> DEFINE T == { k \in 1 .. count : Slot(m, from + k - 1) \in {Slot(n, All), Slot(n, l)} }
           hit == n = m /\ from <= l /\ l < from + count
<1>1. Times(Lanes(m, from, count), n, l) = Cardinality(T)
  <2>1. DOMAIN Lanes(m, from, count) = 1 .. count
    BY DEF Lanes
  <2>2. \A k \in 1 .. count : Lanes(m, from, count)[k] = Slot(m, from + k - 1)
    BY DEF Lanes
  <2> QED
    BY <2>1, <2>2 DEF Times
<1>2. \A k \in 1 .. count :
        Slot(m, from + k - 1) \in {Slot(n, All), Slot(n, l)} <=> m = n /\ from + k - 1 = l
  <2> SUFFICES ASSUME NEW k \in 1 .. count
               PROVE  Slot(m, from + k - 1) \in {Slot(n, All), Slot(n, l)}
                        <=> m = n /\ from + k - 1 = l
    OBVIOUS
  <2>1. from + k - 1 # All
    BY DEF All
  <2>2. \A x, y : Slot(m, x) = Slot(n, y) <=> m = n /\ x = y
    BY DEF Slot
  <2> QED
    BY <2>1, <2>2
<1>3. T = IF hit THEN {l - from + 1} ELSE {}
  <2>1. T = { k \in 1 .. count : m = n /\ from + k - 1 = l }
    BY <1>2
  <2>2. CASE hit
    BY <2>1, <2>2
  <2>3. CASE ~hit
    BY <2>1, <2>3
  <2> QED
    BY <2>2, <2>3
<1> QED
  BY <1>1, <1>3, FS_Singleton, FS_EmptySet

\* Removing a slot.
LEMMA TimesRemove ==
  ASSUME NEW S, NEW s \in Seq(S), NEW i \in 1 .. Len(s), NEW n, NEW l
  PROVE  Times(s, n, l) = Times(RemoveAt(s, i), n, l) + Times(<<s[i]>>, n, l)
<1> DEFINE a == SubSeq(s, 1, i - 1)
           b == SubSeq(s, i + 1, Len(s))
           x == <<s[i]>>
           xb == x \o b
<1>1. s = a \o xb /\ a \in Seq(S) /\ b \in Seq(S) /\ x \in Seq(S)
  BY RemoveAtProperties
<1>2. RemoveAt(s, i) = a \o b
  BY DEF RemoveAt
<1> HIDE DEF a, b, x
<1>3. xb \in Seq(S) /\ Times(xb, n, l) = Times(x, n, l) + Times(b, n, l)
  BY <1>1, TimesConcat, ConcatProperties
<1> HIDE DEF xb
<1>4. Times(s, n, l) = Times(a, n, l) + Times(xb, n, l)
  BY <1>1, <1>3, TimesConcat
<1>6. Times(a \o b, n, l) = Times(a, n, l) + Times(b, n, l)
  BY <1>1, TimesConcat
<1>7. Times(a, n, l) \in Nat /\ Times(b, n, l) \in Nat /\ Times(x, n, l) \in Nat
  BY <1>1, TimesType
<1>8. Times(s, n, l) = Times(RemoveAt(s, i), n, l) + Times(x, n, l)
  BY <1>2, <1>3, <1>4, <1>6, <1>7
<1> QED
  BY <1>8 DEF x

-----------------------------------------------------------------------------
\* The undo log: the entries of a field of a node since a token.
EntriesOf(L, token, n, field) ==
  { k \in token + 1 .. Len(L) : L[k].node = n /\ L[k].field = field }

\* Entries added at the end do not change which is the oldest.
AddedTo(L, es, token, n, field) ==
  LET E == EntriesOf(L, token, n, field)
      U == EntriesOf(L \o es, token, n, field)
  IN  /\ E # {} => U # {} /\ (L \o es)[Min(U)] = L[Min(E)]
      /\ E = {} /\ U # {} => \E k \in 1 .. Len(es) : /\ (L \o es)[Min(U)] = es[k]
                                                    /\ es[k].node = n /\ es[k].field = field
      /\ U = {} => \A k \in 1 .. Len(es) : ~ (es[k].node = n /\ es[k].field = field)

\* Progress that a longer undo log takes back.
LEMMA EntriesAdded ==
  ASSUME NEW S, NEW L \in Seq(S), NEW es \in Seq(S), NEW token \in 0 .. Len(L), NEW n, NEW field
  PROVE  AddedTo(L, es, token, n, field)
<1> DEFINE a == Len(L)
           b == Len(es)
           M == L \o es
           E == EntriesOf(L, token, n, field)
           U == EntriesOf(M, token, n, field)
<1>1. /\ a \in Nat /\ b \in Nat /\ token \in Nat /\ token <= a /\ Len(M) = a + b
      /\ \A k \in 1 .. a + b : M[k] = IF k <= a THEN L[k] ELSE es[k - a]
  BY ConcatProperties, LenProperties
<1>2. /\ E = { k \in token + 1 .. a : L[k].node = n /\ L[k].field = field }
      /\ U = { k \in token + 1 .. a + b : M[k].node = n /\ M[k].field = field }
  BY <1>1 DEF EntriesOf
<1> HIDE DEF a, b, M, E, U
<1>3. E \in SUBSET Nat /\ U \in SUBSET Nat
  BY <1>1, <1>2
<1>4. \A k \in E : k \in U /\ M[k] = L[k]
  <2> SUFFICES ASSUME NEW k \in E PROVE k \in U /\ M[k] = L[k]
    OBVIOUS
  <2>1. k \in token + 1 .. a + b /\ k \in 1 .. a + b /\ k <= a
    BY <1>1, <1>2
  <2>2. M[k] = L[k]
    BY <1>1, <2>1
  <2> QED
    BY <1>2, <2>1, <2>2
<1>5. \A k \in U : k \in E \/ (k > a /\ k - a \in 1 .. b /\ M[k] = es[k - a])
  <2> SUFFICES ASSUME NEW k \in U PROVE k \in E \/ (k > a /\ k - a \in 1 .. b /\ M[k] = es[k - a])
    OBVIOUS
  <2>1. k \in token + 1 .. a + b /\ k \in 1 .. a + b
    BY <1>1, <1>2
  <2>2. CASE k <= a
    <3>1. M[k] = L[k] /\ k \in token + 1 .. a
      BY <1>1, <2>1, <2>2
    <3> QED
      BY <1>2, <3>1
  <2>3. CASE ~ (k <= a)
    BY <1>1, <2>1, <2>3
  <2> QED
    BY <2>2, <2>3
<1>6. E # {} => U # {} /\ Min(U) = Min(E) /\ M[Min(U)] = L[Min(E)]
  <2> SUFFICES ASSUME E # {} PROVE U # {} /\ Min(U) = Min(E) /\ M[Min(U)] = L[Min(E)]
    OBVIOUS
  <2> DEFINE m == Min(E)
  <2>1. m \in E /\ \A y \in E : m <= y
    BY <1>3, LeastEntry
  <2> HIDE DEF m
  <2>2. m \in U /\ m <= a /\ M[m] = L[m]
    BY <1>1, <1>2, <1>4, <2>1
  <2>3. \A y \in U : m <= y
    BY <1>1, <1>3, <1>5, <2>1, <2>2
  <2>4. Min(U) = m
    BY <1>3, <2>2, <2>3, LeastOf
  <2> QED
    BY <2>2, <2>4 DEF m
<1>7. E = {} /\ U # {} => \E k \in 1 .. b : M[Min(U)] = es[k] /\ es[k].node = n /\ es[k].field = field
  <2> SUFFICES ASSUME E = {}, U # {}
               PROVE  \E k \in 1 .. b : M[Min(U)] = es[k] /\ es[k].node = n /\ es[k].field = field
    OBVIOUS
  <2> DEFINE m == Min(U)
  <2>1. m \in U
    BY <1>3, LeastEntry
  <2> HIDE DEF m
  <2>2. m - a \in 1 .. b /\ M[m] = es[m - a] /\ M[m].node = n /\ M[m].field = field
    BY <1>2, <1>5, <2>1
  <2> QED
    BY <2>2 DEF m
<1>8. U = {} => E = {} /\ \A k \in 1 .. b : ~ (es[k].node = n /\ es[k].field = field)
  <2> SUFFICES ASSUME U = {}
               PROVE  E = {} /\ \A k \in 1 .. b : ~ (es[k].node = n /\ es[k].field = field)
    OBVIOUS
  <2>1. ASSUME NEW k \in 1 .. b PROVE ~ (es[k].node = n /\ es[k].field = field)
    <3>1. /\ a + k \in 1 .. a + b /\ a + k \in token + 1 .. a + b /\ ~ (a + k <= a)
          /\ (a + k) - a = k
      BY <1>1
    <3>2. M[a + k] = es[k]
      BY <1>1, <3>1
    <3> QED
      BY <1>2, <3>1, <3>2
  <2> QED
    BY <1>4, <2>1
<1> QED
  BY <1>6, <1>7, <1>8 DEF AddedTo, M, b, E, U

\* Cutting the log back to a token leaves the entries before it.
CutTo(L, t, token, n, field) ==
  LET E == EntriesOf(L, token, n, field)
      V == EntriesOf(SubSeq(L, 1, t), token, n, field)
  IN  /\ V # {} => E # {} /\ SubSeq(L, 1, t)[Min(V)] = L[Min(E)]
      /\ V = {} => E = EntriesOf(L, t, n, field)

\* Progress that an undo log cut to an open token takes back.
LEMMA EntriesCut ==
  ASSUME NEW S, NEW L \in Seq(S), NEW t \in 0 .. Len(L), NEW token \in 0 .. t, NEW n, NEW field
  PROVE  CutTo(L, t, token, n, field)
<1> DEFINE a == Len(L)
           M == SubSeq(L, 1, t)
           E == EntriesOf(L, token, n, field)
           V == EntriesOf(M, token, n, field)
           T == EntriesOf(L, t, n, field)
<1>1. a \in Nat /\ t \in Nat /\ token \in Nat /\ token <= t /\ t <= a
  BY LenProperties
<1>2. Len(M) = t /\ \A k \in 1 .. t : M[k] = L[k]
  <2>1. \A k \in 1 .. t : L[k] \in S
    BY <1>1, ElementOfSeq
  <2>2. /\ Len(M) = (IF 1 <= t THEN t - 1 + 1 ELSE 0)
        /\ \A k \in 1 .. t - 1 + 1 : M[k] = L[1 + k - 1]
    BY <1>1, <2>1, SubSeqProperties
  <2> QED
    BY <1>1, <2>2
<1>3. /\ E = { k \in token + 1 .. a : L[k].node = n /\ L[k].field = field }
      /\ V = { k \in token + 1 .. t : M[k].node = n /\ M[k].field = field }
      /\ T = { k \in t + 1 .. a : L[k].node = n /\ L[k].field = field }
  BY <1>2 DEF EntriesOf
<1> HIDE DEF a, M, E, V, T
<1>4. V = { k \in E : k <= t }
  <2>1. \A k \in token + 1 .. t : M[k] = L[k] /\ k \in token + 1 .. a
    BY <1>1, <1>2
  <2>2. \A k \in token + 1 .. a : k <= t => k \in token + 1 .. t
    BY <1>1
  <2> QED
    BY <1>1, <1>3, <2>1, <2>2
<1>5. E \in SUBSET Nat /\ V \in SUBSET Nat
  BY <1>1, <1>3, <1>4
<1>6. V # {} => E # {} /\ Min(V) = Min(E) /\ M[Min(V)] = L[Min(E)]
  <2> SUFFICES ASSUME V # {} PROVE E # {} /\ Min(V) = Min(E) /\ M[Min(V)] = L[Min(E)]
    OBVIOUS
  <2> DEFINE m == Min(V)
  <2>1. m \in V /\ \A y \in V : m <= y
    BY <1>5, LeastEntry
  <2> HIDE DEF m
  <2>2. m \in E /\ m <= t /\ m \in Nat /\ M[m] = L[m]
    BY <1>1, <1>2, <1>3, <1>4, <2>1
  <2>3. \A y \in E : m <= y
    BY <1>1, <1>4, <1>5, <2>1, <2>2
  <2>4. Min(E) = m
    BY <1>5, <2>2, <2>3, LeastOf
  <2> QED
    BY <2>2, <2>4 DEF m
<1>7. V = {} => E = T
  <2> SUFFICES ASSUME V = {} PROVE E = T
    OBVIOUS
  <2>1. \A k \in E : ~ (k <= t)
    BY <1>4
  <2>2. \A k \in token + 1 .. a : ~ (k <= t) => k \in t + 1 .. a
    BY <1>1
  <2>3. \A k \in t + 1 .. a : k \in token + 1 .. a
    BY <1>1
  <2> QED
    BY <1>3, <2>1, <2>2, <2>3
<1> QED
  BY <1>6, <1>7 DEF CutTo, M, E, V, T

-----------------------------------------------------------------------------
\* The types that the steps below need, one by one.
LEMMA Typed ==
  ASSUME TypeOK
  PROVE  /\ lanesDone \in [Node -> Nat] /\ choice \in [Node -> Engine \cup {NoEngine}]
         /\ \A n \in Node : lanesDone[n] \in Nat /\ lanesDone[n] <= LanesTotal(n)
         /\ \A n \in Node : LanesTotal(n) \in Nat
         /\ log \in Seq(EntryType) /\ Len(log) \in Nat
         /\ tokens \subseteq 0 .. Len(log)
         /\ saved \in [tokens -> ProgressType]
<1>1. progress \in ProgressType /\ progress.lanesDone = lanesDone /\ progress.choice = choice
  BY DEF TypeOK, progress
<1>2. \A n \in Node : LanesTotal(n) \in Nat
  BY PoolAssumption DEF LanesTotal, Kinds
<1>3. Len(log) \in Nat
  BY LenProperties DEF TypeOK
<1> QED
  BY <1>1, <1>2, <1>3 DEF TypeOK, ProgressType

\* What place() logs: entries that hold the current value of their field, at
\* least one for each field it assigns.
HoldCurrent(es) ==
  \A k \in 1 .. Len(es) :
    /\ es[k].field = "lanes_done" => es[k].lanes = lanesDone[es[k].node]
    /\ es[k].field = "engine_choice" => es[k].engine = choice[es[k].node]

Covered(es) ==
  \A n \in Node :
    /\ \/ lanesDone'[n] = lanesDone[n]
       \/ \E k \in 1 .. Len(es) : es[k].node = n /\ es[k].field = "lanes_done"
    /\ \/ choice'[n] = choice[n]
       \/ \E k \in 1 .. Len(es) : es[k].node = n /\ es[k].field = "engine_choice"

\* Then the log leads back to the same progress as before.
LEMMA LogStep ==
  ASSUME TypeOK, Modes, LogExact,
         UNCHANGED <<tokens, saved>>,
         NEW es \in Seq(EntryType), Record(es), HoldCurrent(es), Covered(es)
  PROVE  LogExact'
<1>1. /\ log \in Seq(EntryType) /\ Len(log) \in Nat /\ tokens \subseteq 0 .. Len(log)
  BY Typed
<1>2. CASE ~recording
  <2>1. tokens = {}
    <3>1. Len(log) = 0 /\ 0 \notin tokens
      BY <1>2 DEF Modes
    <3> QED
      BY <1>1, <3>1
  <2> QED
    BY <2>1 DEF LogExact
<1>3. CASE recording
  <2> SUFFICES ASSUME NEW token \in tokens, NEW n \in Node
               PROVE  /\ LanesBefore(token, n)' = LanesBefore(token, n)
                      /\ ChoiceBefore(token, n)' = ChoiceBefore(token, n)
    BY DEF LogExact
  <2>1. log' = log \o es /\ token \in 0 .. Len(log)
    BY <1>1, <1>3 DEF Record
  <2>2. LanesBefore(token, n)' = LanesBefore(token, n)
    <3> DEFINE E == EntriesOf(log, token, n, "lanes_done")
               U == EntriesOf(log \o es, token, n, "lanes_done")
    <3>1. /\ LanesBefore(token, n) = IF E = {} THEN lanesDone[n] ELSE log[Min(E)].lanes
          /\ LanesBefore(token, n)' = IF U = {} THEN lanesDone'[n] ELSE (log \o es)[Min(U)].lanes
      BY <2>1 DEF LanesBefore, Since, EntriesOf, LastRestored
    <3>2. AddedTo(log, es, token, n, "lanes_done")
      BY <1>1, <2>1, EntriesAdded
    <3>6. /\ E # {} => U # {} /\ (log \o es)[Min(U)] = log[Min(E)]
          /\ E = {} /\ U # {} =>
               \E k \in 1 .. Len(es) : /\ (log \o es)[Min(U)] = es[k]
                                       /\ es[k].node = n /\ es[k].field = "lanes_done"
          /\ U = {} => \A k \in 1 .. Len(es) : ~ (es[k].node = n /\ es[k].field = "lanes_done")
      BY <3>2 DEF AddedTo
    <3> HIDE DEF E, U
    <3>3. CASE E # {}
      BY <3>1, <3>6, <3>3
    <3>4. CASE E = {} /\ U # {}
      <4>1. PICK k \in 1 .. Len(es) : /\ (log \o es)[Min(U)] = es[k]
                                      /\ es[k].node = n /\ es[k].field = "lanes_done"
        BY <3>6, <3>4
      <4>2. es[k].lanes = lanesDone[n]
        BY <4>1 DEF HoldCurrent
      <4> QED
        BY <3>1, <3>4, <4>1, <4>2
    <3>5. CASE E = {} /\ U = {}
      <4>1. lanesDone'[n] = lanesDone[n]
        BY <3>6, <3>5 DEF Covered
      <4> QED
        BY <3>1, <3>5, <4>1
    <3> QED
      BY <3>3, <3>4, <3>5
  <2>3. ChoiceBefore(token, n)' = ChoiceBefore(token, n)
    <3> DEFINE E == EntriesOf(log, token, n, "engine_choice")
               U == EntriesOf(log \o es, token, n, "engine_choice")
    <3>1. /\ ChoiceBefore(token, n) = IF E = {} THEN choice[n] ELSE log[Min(E)].engine
          /\ ChoiceBefore(token, n)' = IF U = {} THEN choice'[n] ELSE (log \o es)[Min(U)].engine
      BY <2>1 DEF ChoiceBefore, Since, EntriesOf, LastRestored
    <3>2. AddedTo(log, es, token, n, "engine_choice")
      BY <1>1, <2>1, EntriesAdded
    <3>6. /\ E # {} => U # {} /\ (log \o es)[Min(U)] = log[Min(E)]
          /\ E = {} /\ U # {} =>
               \E k \in 1 .. Len(es) : /\ (log \o es)[Min(U)] = es[k]
                                       /\ es[k].node = n /\ es[k].field = "engine_choice"
          /\ U = {} => \A k \in 1 .. Len(es) : ~ (es[k].node = n /\ es[k].field = "engine_choice")
      BY <3>2 DEF AddedTo
    <3> HIDE DEF E, U
    <3>3. CASE E # {}
      BY <3>1, <3>6, <3>3
    <3>4. CASE E = {} /\ U # {}
      <4>1. PICK k \in 1 .. Len(es) : /\ (log \o es)[Min(U)] = es[k]
                                      /\ es[k].node = n /\ es[k].field = "engine_choice"
        BY <3>6, <3>4
      <4>2. es[k].engine = choice[n]
        BY <4>1 DEF HoldCurrent
      <4> QED
        BY <3>1, <3>4, <4>1, <4>2
    <3>5. CASE E = {} /\ U = {}
      <4>1. choice'[n] = choice[n]
        BY <3>6, <3>5 DEF Covered
      <4> QED
        BY <3>1, <3>5, <4>1
    <3> QED
      BY <3>3, <3>4, <3>5
  <2> QED
    BY <2>2, <2>3
<1> QED
  BY <1>2, <1>3 DEF TypeOK

-----------------------------------------------------------------------------
\* The placements that put the slots of a node on one engine: lanes up to
\* `lanes` have landed, each new one in one of the slots.
Lands(n, e, slots, lanes, engine, es) ==
  /\ e \in {"alu", Native(n)}
  /\ slots \in Seq(SlotType)
  /\ bundle' = IF dry THEN bundle ELSE [bundle EXCEPT ![e] = @ \o slots]
  /\ IF e = "debug" THEN free' = free
                    ELSE Len(slots) <= free[e] /\ free' = [free EXCEPT ![e] = @ - Len(slots)]
  /\ lanes \in Nat /\ lanes <= LanesTotal(n)
  /\ lanesDone' = [lanesDone EXCEPT ![n] = lanes]
  /\ engine \in Engine \cup {NoEngine}
  /\ choice' = [choice EXCEPT ![n] = engine]
  /\ es \in Seq(EntryType) /\ Record(es) /\ HoldCurrent(es) /\ Covered(es)
  /\ \A m \in Node, l \in Lane : l < LanesTotal(m) =>
       Times(slots, m, l) + (IF l < lanesDone[m] THEN 1 ELSE 0) = IF l < lanesDone'[m] THEN 1 ELSE 0

\* An elementwise node on the valu is remembered with the index of its slot.
Remembered(n, e, slots) ==
  /\ Kind[n] = "vec_elem" /\ e = "valu" /\ slots = <<Slot(n, All)>>
  /\ valuElems' = Append(valuElems, [node |-> n, idx |-> IF dry THEN -1 ELSE Len(bundle["valu"]) + 1])

\* The entries of a placement.
LEMMA BothFields ==
  ASSUME TypeOK, NEW n \in Node, NEW lanes, NEW engine, Land(n, lanes, engine)
  PROVE  LET es == <<OldLanes(n), OldChoice(n)>>
         IN  es \in Seq(EntryType) /\ HoldCurrent(es) /\ Covered(es)
<1> DEFINE es == <<OldLanes(n), OldChoice(n)>>
<1>1. OldLanes(n) \in EntryType /\ OldChoice(n) \in EntryType
  BY Typed DEF OldLanes, OldChoice, EntryType
<1>2. es \in Seq(EntryType) /\ Len(es) = 2 /\ es[1] = OldLanes(n) /\ es[2] = OldChoice(n)
  BY <1>1
<1>3. HoldCurrent(es)
  BY <1>2 DEF HoldCurrent, OldLanes, OldChoice
<1>4. \A m \in Node : m # n => lanesDone'[m] = lanesDone[m] /\ choice'[m] = choice[m]
  BY Typed DEF Land
<1>5. es[1].node = n /\ es[1].field = "lanes_done" /\ es[2].node = n /\ es[2].field = "engine_choice"
  BY <1>2 DEF OldLanes, OldChoice
<1> HIDE DEF es
<1>6. Covered(es)
  BY <1>2, <1>4, <1>5 DEF Covered
<1> QED
  BY <1>2, <1>3, <1>6 DEF es

\* The slots of some lanes, and the one slot of a node emitted whole.
LEMMA LaneSlots ==
  ASSUME NEW n \in Node, NEW from \in Nat, NEW count \in Nat, from + count <= VLEN
  PROVE  Lanes(n, from, count) \in Seq(SlotType) /\ Len(Lanes(n, from, count)) = count
<1>1. \A k \in 1 .. count : Slot(n, from + k - 1) \in SlotType
  BY PoolAssumption DEF Slot, SlotType, Lane
<1> QED
  BY <1>1 DEF Lanes

\* A slot for all the lanes of a node.
LEMMA WholeSlot ==
  ASSUME NEW n \in Node
  PROVE  <<Slot(n, All)>> \in Seq(SlotType) /\ Len(<<Slot(n, All)>>) = 1
BY DEF Slot, SlotType

\* The slot of a node emitted whole lands all of its lanes at once.
LEMMA WholeTimes ==
  ASSUME NEW n \in Node, NEW m \in Node, NEW l \in Lane
  PROVE  Times(<<Slot(n, All)>>, m, l) = IF m = n THEN 1 ELSE 0
<1>1. Slot(n, All) \in {Slot(m, All), Slot(m, l)} <=> m = n
  BY DEF Slot
<1> QED
  BY <1>1, TimesOne

Placed(n) ==
  \E e, slots, lanes, engine, es :
    Lands(n, e, slots, lanes, engine, es) /\ (UNCHANGED valuElems \/ Remembered(n, e, slots))

\* A node placed on the vector unit lands.
LEMMA OnValuLands ==
  ASSUME TypeOK, NEW n \in Node, PlaceOnValu(n)
  PROVE  Placed(n)
<1> DEFINE slots == <<Slot(n, All)>>
           es == <<OldLanes(n), OldChoice(n)>>
<1>1. VLEN \in Nat /\ LanesTotal(n) = VLEN /\ Native(n) = "valu" /\ lanesDone[n] = 0
  BY PoolAssumption DEF PlaceOnValu, LanesTotal, Native
<1>2. es \in Seq(EntryType) /\ HoldCurrent(es) /\ Covered(es)
  BY BothFields DEF PlaceOnValu
<1>3. slots \in Seq(SlotType) /\ Len(slots) = 1
  BY WholeSlot
<1>4. /\ bundle' = IF dry THEN bundle ELSE [bundle EXCEPT !["valu"] = @ \o slots]
      /\ free["valu"] > 0 /\ free' = [free EXCEPT !["valu"] = @ - 1]
      /\ lanesDone' = [lanesDone EXCEPT ![n] = VLEN]
      /\ choice' = [choice EXCEPT ![n] = "valu"]
      /\ Record(es)
      /\ Remembered(n, "valu", slots)
  BY DEF PlaceOnValu, Emit, Land, Remembered
<1>5. free["valu"] \in Nat
  BY DEF TypeOK, Engine
<1>6. ASSUME NEW m \in Node, NEW l \in Lane, l < LanesTotal(m)
      PROVE  Times(slots, m, l) + (IF l < lanesDone[m] THEN 1 ELSE 0)
               = IF l < lanesDone'[m] THEN 1 ELSE 0
  <2>1. Times(slots, m, l) = IF m = n THEN 1 ELSE 0
    BY WholeTimes
  <2>2. lanesDone'[m] = IF m = n THEN VLEN ELSE lanesDone[m]
    BY <1>4, Typed
  <2>3. l \in Nat
    BY <1>1 DEF Lane
  <2> HIDE DEF slots
  <2> QED
    BY <1>1, <1>6, <2>1, <2>2, <2>3
<1> HIDE DEF slots, es
<1>7. Lands(n, "valu", slots, VLEN, "valu", es)
  BY <1>1, <1>2, <1>3, <1>4, <1>5, <1>6 DEF Lands, Engine
<1> QED
  BY <1>4, <1>7 DEF Placed

\* A node placed whole on its engine lands.
LEMMA WholeLands ==
  ASSUME TypeOK, NEW n \in Node, Offer(n), PlaceWhole(n)
  PROVE  Placed(n)
<1> DEFINE slots == <<Slot(n, All)>>
           es == <<OldLanes(n), OldChoice(n)>>
           e == Native(n)
<1>1. LanesTotal(n) = 1 /\ lanesDone[n] = 0 /\ e \in Engine
  <2>1. Kind[n] \in Kinds /\ Kind[n] \notin {"vec_elem", "gather", "debug"}
    BY PoolAssumption DEF PlaceWhole, Whole
  <2>2. LanesTotal(n) = 1 /\ e \in Engine
    BY <2>1 DEF LanesTotal, Native, Kinds, Engine
  <2>3. lanesDone[n] # 1
    BY <2>1, <2>2 DEF Offer, Complete
  <2>4. lanesDone[n] \in Nat /\ lanesDone[n] <= LanesTotal(n)
    BY Typed
  <2> QED
    BY <2>2, <2>3, <2>4
<1>2. es \in Seq(EntryType) /\ HoldCurrent(es) /\ Covered(es)
  BY BothFields DEF PlaceWhole
<1>3. slots \in Seq(SlotType) /\ Len(slots) = 1
  BY WholeSlot
<1>4. /\ bundle' = IF dry THEN bundle ELSE [bundle EXCEPT ![e] = @ \o slots]
      /\ free[e] > 0 /\ free' = [free EXCEPT ![e] = @ - 1]
      /\ lanesDone' = [lanesDone EXCEPT ![n] = 1]
      /\ choice' = [choice EXCEPT ![n] = e]
      /\ Record(es)
      /\ UNCHANGED valuElems
  BY DEF PlaceWhole, Emit, Land
<1>5. free[e] \in Nat
  BY <1>1 DEF TypeOK
<1>6. ASSUME NEW m \in Node, NEW l \in Lane, l < LanesTotal(m)
      PROVE  Times(slots, m, l) + (IF l < lanesDone[m] THEN 1 ELSE 0)
               = IF l < lanesDone'[m] THEN 1 ELSE 0
  <2>1. Times(slots, m, l) = IF m = n THEN 1 ELSE 0
    BY WholeTimes
  <2>2. lanesDone'[m] = IF m = n THEN 1 ELSE lanesDone[m]
    BY <1>4, Typed
  <2>3. l \in Nat
    BY PoolAssumption DEF Lane
  <2> HIDE DEF slots
  <2> QED
    BY <1>1, <1>6, <2>1, <2>2, <2>3
<1>8. e # "debug"
  BY <1>1 DEF Engine
<1>9. e \in {"alu", Native(n)}
  OBVIOUS
<1> HIDE DEF slots, es, e
<1>7. Lands(n, e, slots, 1, e, es)
  BY <1>1, <1>2, <1>3, <1>4, <1>5, <1>6, <1>8, <1>9 DEF Lands
<1> QED
  BY <1>4, <1>7 DEF Placed

\* Slots for the next lanes of a node land exactly those lanes.
LEMMA LanesLand ==
  ASSUME TypeOK, NEW n \in Node, NEW take \in Nat,
         lanesDone' = [lanesDone EXCEPT ![n] = lanesDone[n] + take],
         NEW m \in Node, NEW l \in Lane
  PROVE  Times(Lanes(n, lanesDone[n], take), m, l) + (IF l < lanesDone[m] THEN 1 ELSE 0)
           = IF l < lanesDone'[m] THEN 1 ELSE 0
<1>1. lanesDone[n] \in Nat /\ lanesDone[m] \in Nat /\ l \in Nat
  BY Typed, PoolAssumption DEF Lane
<1>2. Times(Lanes(n, lanesDone[n], take), m, l) =
        IF m = n /\ lanesDone[n] <= l /\ l < lanesDone[n] + take THEN 1 ELSE 0
  BY <1>1, TimesLanes
<1>3. lanesDone'[m] = IF m = n THEN lanesDone[n] + take ELSE lanesDone[m]
  BY Typed
<1> QED
  BY <1>1, <1>2, <1>3

\* A node spilled to the scalar unit lands some lanes.
LEMMA SpillLands ==
  ASSUME TypeOK, NEW n \in Node, Spill(n), ~Refused
  PROVE  Placed(n)
<1> DEFINE take == Lesser(VLEN - lanesDone[n], free["alu"])
           slots == Lanes(n, lanesDone[n], take)
           es == <<OldLanes(n), OldChoice(n)>>
<1>1. VLEN \in Nat /\ LanesTotal(n) = VLEN /\ lanesDone[n] \in Nat /\ free["alu"] \in Nat
  BY PoolAssumption, Typed DEF TypeOK, Spill, LanesTotal, Engine
<1>2. take \in Int /\ take <= VLEN - lanesDone[n] /\ take <= free["alu"]
  BY <1>1 DEF Lesser
<1>3. /\ take > 0
      /\ free' = [free EXCEPT !["alu"] = @ - take]
      /\ bundle' = IF dry THEN bundle ELSE [bundle EXCEPT !["alu"] = @ \o slots]
      /\ lanesDone' = [lanesDone EXCEPT ![n] = lanesDone[n] + take]
      /\ choice' = [choice EXCEPT ![n] = "alu"]
      /\ Land(n, lanesDone[n] + take, "alu")
      /\ Record(es)
      /\ UNCHANGED valuElems
  BY DEF Spill, Emit, Land
<1>4. es \in Seq(EntryType) /\ HoldCurrent(es) /\ Covered(es)
  BY <1>3, BothFields
<1> HIDE DEF take, es
<1>5. take \in Nat /\ lanesDone[n] + take <= VLEN
  BY <1>1, <1>2, <1>3
<1>6. slots \in Seq(SlotType) /\ Len(slots) = take
  BY <1>1, <1>5, LaneSlots
<1>7. ASSUME NEW m \in Node, NEW l \in Lane, l < LanesTotal(m)
      PROVE  Times(slots, m, l) + (IF l < lanesDone[m] THEN 1 ELSE 0)
               = IF l < lanesDone'[m] THEN 1 ELSE 0
  BY <1>3, <1>5, LanesLand
<1> HIDE DEF slots
<1>8. Lands(n, "alu", slots, lanesDone[n] + take, "alu", es)
  BY <1>1, <1>2, <1>3, <1>4, <1>5, <1>6, <1>7 DEF Lands, Engine
<1> QED
  BY <1>3, <1>8 DEF Placed

\* A gather lands some lanes.
LEMMA GatherLands ==
  ASSUME TypeOK, NEW n \in Node, PlaceGather(n), ~Refused
  PROVE  Placed(n)
<1> DEFINE take == Lesser(VLEN - lanesDone[n], free["load"])
           slots == Lanes(n, lanesDone[n], take)
           es == <<OldLanes(n)>>
<1>1. /\ VLEN \in Nat /\ LanesTotal(n) = VLEN /\ Native(n) = "load"
      /\ lanesDone[n] \in Nat /\ free["load"] \in Nat /\ choice[n] \in Engine \cup {NoEngine}
  BY PoolAssumption, Typed DEF TypeOK, PlaceGather, LanesTotal, Native, Engine
<1>2. take \in Int /\ take <= VLEN - lanesDone[n] /\ take <= free["load"]
  BY <1>1 DEF Lesser
<1>3. /\ take > 0
      /\ free' = [free EXCEPT !["load"] = @ - take]
      /\ bundle' = IF dry THEN bundle ELSE [bundle EXCEPT !["load"] = @ \o slots]
      /\ lanesDone' = [lanesDone EXCEPT ![n] = lanesDone[n] + take]
      /\ choice' = [choice EXCEPT ![n] = choice[n]]
      /\ choice' = choice
      /\ Record(es)
      /\ UNCHANGED valuElems
  BY Typed DEF PlaceGather, Emit
<1>4. es \in Seq(EntryType) /\ HoldCurrent(es) /\ Covered(es)
  <2>1. OldLanes(n) \in EntryType
    BY Typed DEF OldLanes, EntryType
  <2>2. es \in Seq(EntryType) /\ Len(es) = 1 /\ es[1] = OldLanes(n)
    BY <2>1
  <2>3. HoldCurrent(es)
    BY <2>2 DEF HoldCurrent, OldLanes
  <2>4. \A m \in Node : m # n => lanesDone'[m] = lanesDone[m]
    BY <1>3, Typed
  <2>5. es[1].node = n /\ es[1].field = "lanes_done"
    BY <2>2 DEF OldLanes
  <2> HIDE DEF es
  <2>6. Covered(es)
    BY <1>3, <2>2, <2>4, <2>5 DEF Covered
  <2> QED
    BY <2>2, <2>3, <2>6
<1> HIDE DEF take, es
<1>5. take \in Nat /\ lanesDone[n] + take <= VLEN
  BY <1>1, <1>2, <1>3
<1>6. slots \in Seq(SlotType) /\ Len(slots) = take
  BY <1>1, <1>5, LaneSlots
<1>7. ASSUME NEW m \in Node, NEW l \in Lane, l < LanesTotal(m)
      PROVE  Times(slots, m, l) + (IF l < lanesDone[m] THEN 1 ELSE 0)
               = IF l < lanesDone'[m] THEN 1 ELSE 0
  BY <1>3, <1>5, LanesLand
<1> HIDE DEF slots
<1>8. Lands(n, "load", slots, lanesDone[n] + take, choice[n], es)
  BY <1>1, <1>2, <1>3, <1>4, <1>5, <1>6, <1>7 DEF Lands, Engine
<1> QED
  BY <1>3, <1>8 DEF Placed

\* A debug comparison lands.
LEMMA DebugLands ==
  ASSUME TypeOK, NEW n \in Node, PlaceDebug(n)
  PROVE  Placed(n)
<1> DEFINE slots == <<Slot(n, All)>>
           es == << >>
<1>1. /\ LanesTotal(n) = 0 /\ Native(n) = "debug" /\ lanesDone[n] = 0
      /\ choice[n] \in Engine \cup {NoEngine}
  <2>1. LanesTotal(n) = 0 /\ Native(n) = "debug"
    BY DEF PlaceDebug, LanesTotal, Native
  <2> QED
    BY <2>1, Typed
<1>2. es \in Seq(EntryType) /\ Len(es) = 0 /\ HoldCurrent(es)
  BY DEF HoldCurrent
<1>3. slots \in Seq(SlotType)
  BY WholeSlot
<1>4. /\ bundle' = IF dry THEN bundle ELSE [bundle EXCEPT !["debug"] = @ \o slots]
      /\ free' = free /\ valuElems' = valuElems
      /\ lanesDone' = [lanesDone EXCEPT ![n] = 0] /\ lanesDone' = lanesDone
      /\ choice' = [choice EXCEPT ![n] = choice[n]] /\ choice' = choice
      /\ log' = log
  BY <1>1, Typed DEF PlaceDebug, Emit
<1>5. Covered(es)
  BY <1>4 DEF Covered
<1>6. Record(es)
  BY <1>4, Typed DEF Record
<1>7. ASSUME NEW m \in Node, NEW l \in Lane, l < LanesTotal(m)
      PROVE  Times(slots, m, l) + (IF l < lanesDone[m] THEN 1 ELSE 0)
               = IF l < lanesDone'[m] THEN 1 ELSE 0
  <2>1. Times(slots, m, l) = IF m = n THEN 1 ELSE 0
    BY WholeTimes
  <2>2. m # n
    BY <1>1, <1>7, PoolAssumption DEF Lane
  <2> HIDE DEF slots
  <2> QED
    BY <1>4, <2>1, <2>2
<1> HIDE DEF slots, es
<1>8. Lands(n, "debug", slots, 0, choice[n], es)
  BY <1>1, <1>2, <1>3, <1>4, <1>5, <1>6, <1>7 DEF Lands, Engine
<1> QED
  BY <1>4, <1>8 DEF Placed

\* What place() can do.
LEMMA PlaceCases ==
  ASSUME TypeOK, NEW n \in Node, Place(n)
  PROVE  Refused \/ Placed(n) \/ PlaceByEviction(n)
BY OnValuLands, SpillLands, WholeLands, GatherLands, DebugLands DEF Place, RefuseWhole

-----------------------------------------------------------------------------
\* What a bundle executes once slots are added to an engine.
LEMMA NativeEngine ==
  ASSUME NEW n \in Node
  PROVE  Native(n) \in Engine \cup {"debug"}
BY PoolAssumption DEF Native, Engine, Kinds

\* Occurrences in the bundle are counted by a number.
LEMMA BundleCounts ==
  ASSUME TypeOK, NEW m \in Node, NEW l
  PROVE  InBundle(m, l) \in Nat
<1>1. bundle["alu"] \in Seq(SlotType) /\ bundle[Native(m)] \in Seq(SlotType)
  BY NativeEngine DEF TypeOK, Engine
<1>2. Times(bundle["alu"], m, l) \in Nat /\ Times(bundle[Native(m)], m, l) \in Nat
  BY <1>1, TimesType
<1> QED
  BY <1>2 DEF InBundle

\* Slots added to one engine add their lanes to the bundle.
LEMMA SlotsAdded ==
  ASSUME TypeOK, NEW e \in Engine \cup {"debug"}, NEW slots \in Seq(SlotType),
         bundle' = [bundle EXCEPT ![e] = @ \o slots],
         NEW m \in Node, NEW l
  PROVE  InBundle(m, l)' = InBundle(m, l)
                             + IF e \in {"alu", Native(m)} THEN Times(slots, m, l) ELSE 0
<1> DEFINE T(q) == Times(q, m, l)
<1>1. /\ bundle["alu"] \in Seq(SlotType) /\ bundle[Native(m)] \in Seq(SlotType)
      /\ bundle[e] \in Seq(SlotType)
  BY NativeEngine DEF TypeOK, Engine
<1>2. /\ T(bundle["alu"]) \in Nat /\ T(bundle[Native(m)]) \in Nat /\ T(slots) \in Nat
  BY <1>1, TimesType
<1>3. T(bundle[e] \o slots) = T(bundle[e]) + T(slots)
  BY <1>1, TimesConcat
<1>4. \A g \in Engine \cup {"debug"} : bundle'[g] = IF g = e THEN bundle[e] \o slots ELSE bundle[g]
  BY DEF TypeOK
<1>5. InBundle(m, l) = T(bundle["alu"]) + (IF Native(m) = "alu" THEN 0 ELSE T(bundle[Native(m)]))
  BY DEF InBundle
<1>6. InBundle(m, l)' = T(bundle'["alu"]) + (IF Native(m) = "alu" THEN 0 ELSE T(bundle'[Native(m)]))
  BY DEF InBundle
<1>7. "alu" \in Engine \cup {"debug"} /\ Native(m) \in Engine \cup {"debug"}
  BY NativeEngine DEF Engine
<1> HIDE DEF T
<1> DEFINE a == bundle["alu"]
           b == bundle[Native(m)]
<1>8. CASE e = "alu"
  <2>1. T(bundle'["alu"]) = T(bundle["alu"]) + T(slots)
    BY <1>3, <1>4, <1>7, <1>8
  <2>2. Native(m) # "alu" => bundle'[Native(m)] = bundle[Native(m)]
    BY <1>4, <1>7, <1>8
  <2>3. InBundle(m, l)' = InBundle(m, l) + T(slots)
    BY <1>2, <1>5, <1>6, <2>1, <2>2
  <2> QED
    BY <1>8, <2>3 DEF T
<1>9. CASE e # "alu" /\ e = Native(m)
  <2>1. T(bundle'[Native(m)]) = T(bundle[Native(m)]) + T(slots)
    BY <1>3, <1>4, <1>7, <1>9
  <2>2. bundle'["alu"] = bundle["alu"]
    BY <1>4, <1>7, <1>9
  <2>3. InBundle(m, l)' = InBundle(m, l) + T(slots)
    BY <1>2, <1>5, <1>6, <1>9, <2>1, <2>2
  <2> QED
    BY <1>9, <2>3 DEF T
<1>10. CASE e \notin {"alu", Native(m)}
  <2>1. bundle'["alu"] = bundle["alu"] /\ bundle'[Native(m)] = bundle[Native(m)]
    BY <1>4, <1>7, <1>10
  <2>2. InBundle(m, l)' = InBundle(m, l) + 0
    BY <1>2, <1>5, <1>6, <2>1
  <2> QED
    BY <1>10, <2>2
<1> QED
  BY <1>8, <1>9, <1>10

\* A placement keeps each part of the invariant.
LEMMA LandsType ==
  ASSUME TypeOK, NEW n \in Node, Offer(n), UNCHANGED <<executed, saved>>, Placed(n)
  PROVE  TypeOK'
<1>1. PICK e, slots, lanes, engine, es :
        Lands(n, e, slots, lanes, engine, es) /\ (UNCHANGED valuElems \/ Remembered(n, e, slots))
  BY DEF Placed
<1>2. e \in Engine \cup {"debug"}
  BY <1>1, NativeEngine DEF Lands, Engine
<1>3. free' \in [Engine -> Nat]
  <2>1. CASE e = "debug"
    BY <1>1, <2>1 DEF TypeOK, Lands
  <2>2. CASE e # "debug"
    <3>1. free[e] \in Nat /\ Len(slots) \in Nat
      BY <1>1, <1>2, <2>2, LenProperties DEF TypeOK, Lands
    <3>2. Len(slots) <= free[e] /\ free' = [free EXCEPT ![e] = @ - Len(slots)]
      BY <1>1, <2>2 DEF Lands
    <3>3. free[e] - Len(slots) \in Nat
      BY <3>1, <3>2
    <3> QED
      BY <3>2, <3>3 DEF TypeOK
  <2> QED
    BY <2>1, <2>2
<1>4. bundle' \in [Engine \cup {"debug"} -> Seq(SlotType)]
  <2>1. bundle[e] \in Seq(SlotType) /\ slots \in Seq(SlotType)
    BY <1>1, <1>2 DEF TypeOK, Lands
  <2>2. bundle[e] \o slots \in Seq(SlotType)
    BY <2>1, ConcatProperties
  <2>3. bundle' = IF dry THEN bundle ELSE [bundle EXCEPT ![e] = @ \o slots]
    BY <1>1 DEF Lands
  <2> QED
    BY <1>2, <2>2, <2>3 DEF TypeOK
<1>5. valuElems' \in Seq([node : VecElem, idx : Int])
  <2>1. CASE UNCHANGED valuElems
    BY <2>1 DEF TypeOK
  <2>2. CASE Remembered(n, e, slots)
    <3>1. n \in VecElem
      BY <2>2 DEF Remembered, VecElem
    <3>2. Len(bundle["valu"]) \in Nat
      BY LenProperties DEF TypeOK, Engine
    <3>3. [node |-> n, idx |-> IF dry THEN -1 ELSE Len(bundle["valu"]) + 1] \in [node : VecElem, idx : Int]
      BY <3>1, <3>2
    <3> QED
      BY <2>2, <3>3, AppendProperties DEF Remembered, TypeOK
  <2> QED
    BY <1>1, <2>1, <2>2
<1>6. progress' \in ProgressType
  <2>1. /\ lanesDone' = [lanesDone EXCEPT ![n] = lanes] /\ choice' = [choice EXCEPT ![n] = engine]
        /\ lanes \in Nat /\ lanes <= LanesTotal(n) /\ engine \in Engine \cup {NoEngine}
    BY <1>1 DEF Lands
  <2>2. /\ lanesDone' \in [Node -> Nat] /\ choice' \in [Node -> Engine \cup {NoEngine}]
        /\ \A m \in Node : lanesDone'[m] <= LanesTotal(m)
    BY <2>1, Typed
  <2> QED
    BY <2>2 DEF progress, ProgressType
<1>7. log' \in Seq(EntryType) /\ tokens \subseteq 0 .. Len(log')
  <2>1. es \in Seq(EntryType) /\ Record(es)
    BY <1>1 DEF Lands
  <2>2. log \in Seq(EntryType) /\ tokens \subseteq 0 .. Len(log)
    BY Typed
  <2>3. log \o es \in Seq(EntryType) /\ Len(log \o es) = Len(log) + Len(es)
    BY <2>1, <2>2, ConcatProperties
  <2>4. Len(log) \in Nat /\ Len(es) \in Nat
    BY <2>1, <2>2, LenProperties
  <2>5. tokens \subseteq 0 .. Len(log) + Len(es)
    BY <2>2, <2>4
  <2> QED
    BY <2>1, <2>2, <2>3, <2>5 DEF Record
<1> QED
  BY <1>3, <1>4, <1>5, <1>6, <1>7 DEF TypeOK, Offer

\* In an emitted cycle nothing is being recorded, in a dry one everything is.
LEMMA OfferedMode ==
  ASSUME TypeOK, Modes, NEW n \in Node, Offer(n)
  PROVE  dry = recording /\ (dry => bundle = NoSlots)
BY DEF TypeOK, Modes, Offer

\* Landing keeps the modes of the nodes in progress.
LEMMA LandsModes ==
  ASSUME TypeOK, Modes, NEW n \in Node, Offer(n), Placed(n)
  PROVE  Modes'
<1>1. PICK e, slots, lanes, engine, es : Lands(n, e, slots, lanes, engine, es)
  BY DEF Placed
<1>2. dry => bundle' = bundle
  BY <1>1 DEF Lands
<1>3. ~recording => log' = log
  BY <1>1 DEF Lands, Record
<1>4. offered' # Node => offered # Node
  BY DEF Offer, TypeOK
<1> QED
  BY <1>2, <1>3, <1>4 DEF Modes, Offer, NoSlots

\* Landing takes its slots out of the budget.
LEMMA LandsBudget ==
  ASSUME TypeOK, BudgetExact, NEW n \in Node, Offer(n), Placed(n)
  PROVE  BudgetExact'
<1>1. PICK e, slots, lanes, engine, es : Lands(n, e, slots, lanes, engine, es)
  BY DEF Placed
<1>2. e \in Engine \cup {"debug"} /\ slots \in Seq(SlotType) /\ Len(slots) \in Nat
  BY <1>1, NativeEngine, LenProperties DEF Lands, Engine
<1>3. \A g \in Engine : free[g] \in Nat /\ Len(bundle[g]) \in Nat /\ Capacity[g] \in Nat
  BY PoolAssumption, LenProperties DEF TypeOK
<1>4. \A g \in Engine : g # e => free'[g] = free[g] /\ bundle'[g] = bundle[g]
  <2>1. bundle' = IF dry THEN bundle ELSE [bundle EXCEPT ![e] = @ \o slots]
    BY <1>1 DEF Lands
  <2>2. free' = free \/ free' = [free EXCEPT ![e] = @ - Len(slots)]
    BY <1>1 DEF Lands
  <2> QED
    BY <2>1, <2>2 DEF TypeOK
<1>5. e \in Engine => /\ Len(slots) <= free[e] /\ free'[e] = free[e] - Len(slots)
                      /\ ~dry => Len(bundle'[e]) = Len(bundle[e]) + Len(slots)
  <2> SUFFICES ASSUME e \in Engine
               PROVE  /\ Len(slots) <= free[e] /\ free'[e] = free[e] - Len(slots)
                      /\ ~dry => Len(bundle'[e]) = Len(bundle[e]) + Len(slots)
    OBVIOUS
  <2>1. Len(slots) <= free[e] /\ free'[e] = free[e] - Len(slots)
    BY <1>1 DEF Lands, TypeOK, Engine
  <2>2. ~dry => bundle'[e] = bundle[e] \o slots
    BY <1>1 DEF Lands, TypeOK
  <2>3. bundle[e] \in Seq(SlotType)
    BY DEF TypeOK
  <2>4. Len(bundle[e] \o slots) = Len(bundle[e]) + Len(slots)
    BY <1>2, <2>3, ConcatProperties
  <2> QED
    BY <2>1, <2>2, <2>4
<1>6. dry' = dry
  BY DEF Offer
<1> SUFFICES ASSUME NEW g \in Engine
             PROVE  free'[g] >= 0 /\ (~dry => free'[g] + Len(bundle'[g]) = Capacity[g])
  BY <1>6 DEF BudgetExact
<1>7. free[g] >= 0 /\ (~dry => free[g] + Len(bundle[g]) = Capacity[g])
  BY DEF BudgetExact
<1>8. CASE g # e
  BY <1>4, <1>7, <1>8
<1>9. CASE g = e
  BY <1>2, <1>3, <1>5, <1>7, <1>9
<1> QED
  BY <1>8, <1>9

\* Landing keeps the indices of evictable nodes.
LEMMA LandsIndices ==
  ASSUME TypeOK, IndicesGrow, EvictionIndexValid, NEW n \in Node, Offer(n), Placed(n)
  PROVE  IndicesGrow' /\ EvictionIndexValid'
<1>1. PICK e, slots, lanes, engine, es :
        Lands(n, e, slots, lanes, engine, es) /\ (UNCHANGED valuElems \/ Remembered(n, e, slots))
  BY DEF Placed
<1>2. dry' = dry
  BY DEF Offer
<1>3. CASE dry
  BY <1>2, <1>3 DEF IndicesGrow, EvictionIndexValid
<1>4. CASE ~dry
  <2> DEFINE B == bundle["valu"]
  <2>1. /\ e \in Engine \cup {"debug"} /\ slots \in Seq(SlotType) /\ B \in Seq(SlotType)
        /\ "valu" \in Engine
    BY <1>1, NativeEngine DEF Lands, Engine, TypeOK
  <2>2. bundle'["valu"] = IF e = "valu" THEN B \o slots ELSE B
    BY <1>1, <1>4, <2>1 DEF Lands, TypeOK
  <2>3. /\ Len(B) \in Nat /\ Len(slots) \in Nat /\ DOMAIN B = 1 .. Len(B)
        /\ Len(B \o slots) = Len(B) + Len(slots)
        /\ \A k \in 1 .. Len(B) + Len(slots) :
             (B \o slots)[k] = IF k <= Len(B) THEN B[k] ELSE slots[k - Len(B)]
    BY <2>1, ConcatProperties, LenProperties
  <2>4. DOMAIN (B \o slots) = 1 .. Len(B) + Len(slots)
    <3>1. B \o slots \in Seq(SlotType)
      BY <2>1, ConcatProperties
    <3> QED
      BY <2>3, <3>1, LenProperties
  <2>5. \A k \in DOMAIN B : k \in DOMAIN bundle'["valu"] /\ bundle'["valu"][k] = B[k]
    BY <2>2, <2>3, <2>4
  <2>6. \A k \in DOMAIN valuElems : valuElems[k].idx \in DOMAIN B /\ B[valuElems[k].idx] = Slot(valuElems[k].node, All)
    BY <1>4 DEF EvictionIndexValid
  <2>7. \A j, k \in DOMAIN valuElems : j < k => valuElems[j].idx < valuElems[k].idx
    BY <1>4 DEF IndicesGrow
  <2>8. CASE UNCHANGED valuElems
    BY <2>5, <2>6, <2>7, <2>8 DEF IndicesGrow, EvictionIndexValid
  <2>9. CASE Remembered(n, e, slots)
    <3> DEFINE v == [node |-> n, idx |-> Len(B) + 1]
               V == Append(valuElems, v)
               d == Len(valuElems)
    <3>1. valuElems' = V /\ e = "valu" /\ slots = <<Slot(n, All)>>
      BY <1>4, <2>9 DEF Remembered
    <3>2. /\ valuElems \in Seq([node : VecElem, idx : Int]) /\ v \in [node : VecElem, idx : Int]
      BY <2>3, <2>9 DEF TypeOK, Remembered, VecElem
    <3>3. /\ d \in Nat /\ DOMAIN valuElems = 1 .. d /\ DOMAIN V = 1 .. d + 1
          /\ V[d + 1] = v /\ \A k \in 1 .. d : V[k] = valuElems[k]
      BY <3>2, AppendProperties, LenProperties
    <3>4. Len(slots) = 1 /\ slots[1] = Slot(n, All)
      BY <3>1
    <3>5. v.idx = Len(B) + 1 /\ v.node = n
      OBVIOUS
    <3> HIDE DEF v, V, d, B
    <3>6. v.idx \in DOMAIN bundle'["valu"] /\ bundle'["valu"][v.idx] = Slot(v.node, All)
      <4>1. /\ Len(B) + 1 \in 1 .. Len(B) + Len(slots) /\ ~ (Len(B) + 1 <= Len(B))
            /\ (Len(B) + 1) - Len(B) = 1
        BY <2>3, <3>4
      <4> QED
        BY <2>2, <2>3, <2>4, <3>1, <3>4, <3>5, <4>1
    <3>7. \A k \in 1 .. d + 1 : k = d + 1 \/ k \in 1 .. d
      BY <3>3
    <3>8. \A k \in DOMAIN V : /\ V[k].idx \in DOMAIN bundle'["valu"]
                              /\ bundle'["valu"][V[k].idx] = Slot(V[k].node, All)
      BY <2>5, <2>6, <3>3, <3>6, <3>7
    <3>9. \A j, k \in DOMAIN V : j < k => V[j].idx < V[k].idx
      <4> SUFFICES ASSUME NEW j \in 1 .. d + 1, NEW k \in 1 .. d + 1, j < k
                   PROVE  V[j].idx < V[k].idx
        BY <3>3
      <4>1. j \in 1 .. d
        BY <3>3
      <4>2. CASE k \in 1 .. d
        BY <2>7, <3>3, <4>1, <4>2
      <4>3. CASE k = d + 1
        <5>1. V[j].idx \in 1 .. Len(B)
          BY <2>3, <2>6, <3>3, <4>1
        <5> QED
          BY <2>3, <3>3, <3>5, <4>3, <5>1
      <4> QED
        BY <3>7, <4>2, <4>3
    <3> QED
      BY <3>1, <3>8, <3>9 DEF IndicesGrow, EvictionIndexValid
  <2> QED
    BY <1>1, <2>8, <2>9
<1> QED
  BY <1>3, <1>4

\* Landing executes no lane twice.
LEMMA LandsOnce ==
  ASSUME TypeOK, Modes, LandedOnce, NEW n \in Node, Offer(n), UNCHANGED <<executed, saved>>,
         Placed(n)
  PROVE  LandedOnce'
<1>1. PICK e, slots, lanes, engine, es : Lands(n, e, slots, lanes, engine, es)
  BY DEF Placed
<1>2. dry = recording /\ recording' = recording
  BY OfferedMode DEF Offer
<1> SUFFICES ASSUME NEW m \in Node, NEW l \in Lane, l < LanesTotal(m)
             PROVE  executed[<<m, l>>] + InBundle(m, l)' =
                      IF l < Landed'[m] THEN 1 ELSE 0
  BY DEF LandedOnce, NodeLanes
<1>3. executed[<<m, l>>] + InBundle(m, l) = IF l < Landed[m] THEN 1 ELSE 0
  <2>1. <<m, l>> \in NodeLanes
    BY DEF NodeLanes
  <2> QED
    BY <2>1 DEF LandedOnce
<1>4. CASE recording
  <2>1. bundle' = bundle /\ Landed' = Landed
    BY <1>1, <1>2, <1>4 DEF Lands, Landed
  <2>2. InBundle(m, l)' = InBundle(m, l)
    BY <2>1 DEF InBundle
  <2> QED
    BY <1>3, <2>1, <2>2
<1>5. CASE ~recording
  <2>1. /\ e \in {"alu", Native(n)} /\ e \in Engine \cup {"debug"} /\ slots \in Seq(SlotType)
        /\ bundle' = [bundle EXCEPT ![e] = @ \o slots]
        /\ Times(slots, m, l) + (IF l < lanesDone[m] THEN 1 ELSE 0) = IF l < lanesDone'[m] THEN 1 ELSE 0
        /\ lanesDone' = [lanesDone EXCEPT ![n] = lanes]
    BY <1>1, <1>2, <1>5, NativeEngine DEF Lands, Engine
  <2>2. InBundle(m, l)' = InBundle(m, l) + IF e \in {"alu", Native(m)} THEN Times(slots, m, l) ELSE 0
    <3>1. e \in Engine \cup {"debug"} /\ slots \in Seq(SlotType)
      BY <2>1
    <3>2. bundle' = [bundle EXCEPT ![e] = @ \o slots]
      BY <2>1
    <3> QED
      BY ONLY TypeOK, <3>1, <3>2, m \in Node, SlotsAdded
  <2>3. Times(slots, m, l) \in Nat
    BY <2>1, TimesType
  <2>4. e \notin {"alu", Native(m)} => Times(slots, m, l) = 0
    <3>1. e \notin {"alu", Native(m)} => m # n
      BY <2>1
    <3>2. m # n => lanesDone'[m] = lanesDone[m]
      BY <2>1, Typed
    <3> QED
      BY <2>1, <2>3, <3>1, <3>2
  <2>5. InBundle(m, l)' = InBundle(m, l) + Times(slots, m, l)
    <3>1. InBundle(m, l) \in Nat
      BY BundleCounts
    <3> QED
      BY <2>2, <2>3, <2>4, <3>1
  <2>6. executed[<<m, l>>] \in Nat /\ InBundle(m, l) \in Nat
    <3>1. <<m, l>> \in NodeLanes
      BY DEF NodeLanes
    <3> QED
      BY <3>1, BundleCounts DEF TypeOK
  <2>7. Landed = lanesDone /\ Landed' = lanesDone'
    BY <1>2, <1>5 DEF Landed
  <2> QED
    BY <1>3, <2>1, <2>3, <2>5, <2>6, <2>7
<1> QED
  BY <1>4, <1>5 DEF TypeOK

-----------------------------------------------------------------------------
\* An eviction: the victim is an elementwise node with all its lanes landed in
\* the slot that the newcomer takes.
LEMMA EvictionFacts ==
  ASSUME TypeOK, EvictionIndexValid, NEW n \in Node, Offer(n), PlaceByEviction(n)
  PROVE  /\ VLEN \in Nat /\ Len(valuElems) \in Nat \ {0}
         /\ Victim.node \in Node /\ Victim.node # n /\ Victim.idx \in Int
         /\ Native(Victim.node) = "valu" /\ Native(n) = "valu"
         /\ LanesTotal(n) = 1 /\ lanesDone[n] = 0 /\ LanesTotal(Victim.node) = VLEN
         /\ ~dry => /\ Victim.idx \in 1 .. Len(bundle["valu"])
                    /\ bundle["valu"][Victim.idx] = Slot(Victim.node, All)
<1>1. Len(valuElems) \in Nat \ {0}
  BY EmptySeq, LenProperties DEF TypeOK, PlaceByEviction, CanEvict
<1>2. Len(valuElems) \in 1 .. Len(valuElems) /\ DOMAIN valuElems = 1 .. Len(valuElems)
  BY <1>1, LenProperties DEF TypeOK
<1>3. Victim \in [node : VecElem, idx : Int]
  BY <1>2, ElementOfSeq DEF TypeOK, Victim, LastPlaced
<1>4. Kind[n] = "vec_fma" /\ Kind[Victim.node] = "vec_elem" /\ Victim.node \in Node
  BY <1>3 DEF PlaceByEviction, VecElem
<1>5. /\ LanesTotal(n) = 1 /\ LanesTotal(Victim.node) = VLEN
      /\ Native(n) = "valu" /\ Native(Victim.node) = "valu"
  BY <1>4 DEF LanesTotal, Native
<1>6. lanesDone[n] = 0
  <2>1. lanesDone[n] # 1
    BY <1>4, <1>5 DEF Offer, Complete
  <2> QED
    BY <1>5, <2>1, Typed
<1>7. ~dry => /\ Victim.idx \in 1 .. Len(bundle["valu"])
              /\ bundle["valu"][Victim.idx] = Slot(Victim.node, All)
  <2>1. DOMAIN bundle["valu"] = 1 .. Len(bundle["valu"])
    BY LenProperties DEF TypeOK, Engine
  <2> QED
    BY <1>2, <2>1 DEF EvictionIndexValid, Victim, LastPlaced
<1> QED
  BY <1>1, <1>3, <1>4, <1>5, <1>6, <1>7, PoolAssumption

\* The bundle after it.
LEMMA EvictionBundle ==
  ASSUME TypeOK, EvictionIndexValid, NEW n \in Node, Offer(n), PlaceByEviction(n), ~dry
  PROVE  /\ bundle' \in [Engine \cup {"debug"} -> Seq(SlotType)]
         /\ bundle'["valu"] = Append(RemoveAt(bundle["valu"], Victim.idx), Slot(n, All))
         /\ bundle'["alu"] = bundle["alu"] \o Lanes(Victim.node, 0, VLEN)
         /\ \A e \in (Engine \cup {"debug"}) \ {"alu", "valu"} : bundle'[e] = bundle[e]
         /\ Len(bundle'["valu"]) = Len(bundle["valu"])
         /\ Len(bundle'["alu"]) = Len(bundle["alu"]) + VLEN
<1> DEFINE R == RemoveAt(bundle["valu"], Victim.idx)
           L == Lanes(Victim.node, 0, VLEN)
           x == Slot(n, All)
           A == bundle["alu"] \o L
           V == Append(R, x)
<1>1. bundle["valu"] \in Seq(SlotType) /\ bundle["alu"] \in Seq(SlotType)
  BY DEF TypeOK, Engine
<1>2. R \in Seq(SlotType) /\ Len(R) = Len(bundle["valu"]) - 1 /\ Len(bundle["valu"]) \in Nat
  BY <1>1, EvictionFacts, RemoveAtProperties, LenProperties
<1>3. x \in SlotType
  BY DEF Slot, SlotType
<1>4. L \in Seq(SlotType) /\ Len(L) = VLEN
  BY EvictionFacts, LaneSlots
<1>5. bundle' = [bundle EXCEPT !["valu"] = V, !["alu"] = A]
  BY DEF PlaceByEviction
<1> HIDE DEF R, L, x
<1>6. A \in Seq(SlotType) /\ Len(A) = Len(bundle["alu"]) + VLEN
  BY <1>1, <1>4, ConcatProperties
<1>7. V \in Seq(SlotType) /\ Len(V) = Len(bundle["valu"])
  BY <1>2, <1>3, AppendProperties
<1> HIDE DEF A, V
<1>8. /\ bundle' \in [Engine \cup {"debug"} -> Seq(SlotType)]
      /\ bundle'["valu"] = V /\ bundle'["alu"] = A
      /\ \A e \in (Engine \cup {"debug"}) \ {"alu", "valu"} : bundle'[e] = bundle[e]
  BY <1>5, <1>6, <1>7 DEF TypeOK, Engine
<1> QED
  BY <1>6, <1>7, <1>8 DEF A, V, R, L, x

\* The log entries of an eviction.
LEMMA EvictionLog ==
  ASSUME TypeOK, EvictionIndexValid, NEW n \in Node, Offer(n), PlaceByEviction(n)
  PROVE  \E es \in Seq(EntryType) : Record(es) /\ HoldCurrent(es) /\ Covered(es)
<1> DEFINE v == Victim.node
           es == <<OldChoice(v), OldLanes(n), OldChoice(n)>>
<1>1. v \in Node
  BY EvictionFacts
<1>2. OldChoice(v) \in EntryType /\ OldLanes(n) \in EntryType /\ OldChoice(n) \in EntryType
  BY <1>1, Typed DEF OldLanes, OldChoice, EntryType
<1>3. /\ es \in Seq(EntryType) /\ Len(es) = 3
      /\ es[1] = OldChoice(v) /\ es[2] = OldLanes(n) /\ es[3] = OldChoice(n)
  BY <1>2
<1>4. HoldCurrent(es)
  BY <1>3 DEF HoldCurrent, OldLanes, OldChoice
<1>5. Record(es)
  BY DEF PlaceByEviction
<1>6. /\ \A m \in Node : m # n => lanesDone'[m] = lanesDone[m]
      /\ \A m \in Node : m # n /\ m # v => choice'[m] = choice[m]
  BY Typed DEF PlaceByEviction
<1>7. /\ es[1].node = v /\ es[1].field = "engine_choice"
      /\ es[2].node = n /\ es[2].field = "lanes_done"
      /\ es[3].node = n /\ es[3].field = "engine_choice"
  BY <1>3 DEF OldLanes, OldChoice
<1> HIDE DEF es, v
<1>8. Covered(es)
  BY <1>3, <1>6, <1>7 DEF Covered
<1> QED
  BY <1>3, <1>4, <1>5, <1>8

\* An eviction keeps the types.
LEMMA EvictionType ==
  ASSUME TypeOK, EvictionIndexValid, NEW n \in Node, Offer(n), PlaceByEviction(n),
         UNCHANGED <<executed, saved>>
  PROVE  TypeOK'
<1>1. free' \in [Engine -> Nat]
  <2>1. free["alu"] \in Nat /\ VLEN \in Nat /\ free["alu"] >= VLEN
    BY EvictionFacts DEF TypeOK, PlaceByEviction, CanEvict, Engine
  <2>2. free["alu"] - VLEN \in Nat
    BY <2>1
  <2> QED
    BY <2>2 DEF PlaceByEviction, TypeOK
<1>2. bundle' \in [Engine \cup {"debug"} -> Seq(SlotType)]
  <2>1. dry => bundle' = bundle
    BY DEF PlaceByEviction
  <2> QED
    BY <2>1, EvictionBundle DEF TypeOK
<1>3. valuElems' \in Seq([node : VecElem, idx : Int])
  <2>1. Len(valuElems) \in 1 .. Len(valuElems)
    BY EvictionFacts
  <2>2. valuElems' = RemoveAt(valuElems, Len(valuElems))
    BY DEF PlaceByEviction, LastPlaced
  <2> QED
    BY <2>1, <2>2, RemoveAtProperties DEF TypeOK
<1>4. progress' \in ProgressType
  <2>1. LanesTotal(n) = 1
    BY EvictionFacts
  <2>2. /\ lanesDone' = [lanesDone EXCEPT ![n] = 1]
        /\ choice' = [choice EXCEPT ![Victim.node] = "alu", ![n] = "valu"]
    BY DEF PlaceByEviction
  <2>3. /\ lanesDone' \in [Node -> Nat] /\ choice' \in [Node -> Engine \cup {NoEngine}]
        /\ \A m \in Node : lanesDone'[m] <= LanesTotal(m)
    BY <2>1, <2>2, Typed DEF Engine
  <2> QED
    BY <2>3 DEF progress, ProgressType
<1>5. log' \in Seq(EntryType) /\ tokens \subseteq 0 .. Len(log')
  <2>1. PICK es \in Seq(EntryType) : Record(es)
    BY EvictionLog
  <2>2. log \in Seq(EntryType) /\ tokens \subseteq 0 .. Len(log)
    BY Typed
  <2>3. log \o es \in Seq(EntryType) /\ Len(log \o es) = Len(log) + Len(es)
    BY <2>1, <2>2, ConcatProperties
  <2>4. Len(log) \in Nat /\ Len(es) \in Nat
    BY <2>1, <2>2, LenProperties
  <2>5. tokens \subseteq 0 .. Len(log) + Len(es)
    BY <2>2, <2>4
  <2> QED
    BY <2>1, <2>2, <2>3, <2>5 DEF Record
<1> QED
  BY <1>1, <1>2, <1>3, <1>4, <1>5 DEF TypeOK, Offer

\* An eviction keeps the modes of the nodes in progress.
LEMMA EvictionModes ==
  ASSUME TypeOK, Modes, EvictionIndexValid, NEW n \in Node, Offer(n), PlaceByEviction(n)
  PROVE  Modes'
<1>1. dry => bundle' = bundle
  BY DEF PlaceByEviction
<1>2. ~recording => log' = log
  BY DEF PlaceByEviction, Record
<1>3. offered' # Node => offered # Node
  BY DEF Offer, TypeOK
<1> QED
  BY <1>1, <1>2, <1>3 DEF Modes, Offer, NoSlots

\* An eviction keeps the budget: a slot for a slot.
LEMMA EvictionBudget ==
  ASSUME TypeOK, BudgetExact, EvictionIndexValid, NEW n \in Node, Offer(n), PlaceByEviction(n)
  PROVE  BudgetExact'
<1>1. \A g \in Engine : free[g] \in Nat /\ Len(bundle[g]) \in Nat /\ Capacity[g] \in Nat
  BY PoolAssumption, LenProperties DEF TypeOK
<1>2. /\ VLEN \in Nat /\ free["alu"] >= VLEN /\ dry' = dry
      /\ \A g \in Engine : free'[g] = IF g = "alu" THEN free[g] - VLEN ELSE free[g]
  BY EvictionFacts DEF PlaceByEviction, CanEvict, TypeOK, Offer
<1>3. ~dry => \A g \in Engine : Len(bundle'[g]) = IF g = "alu" THEN Len(bundle[g]) + VLEN
                                                  ELSE Len(bundle[g])
  BY EvictionBundle
<1> QED
  BY <1>1, <1>2, <1>3 DEF BudgetExact

\* An eviction keeps the indices of the other evictable nodes.
LEMMA EvictionIndices ==
  ASSUME TypeOK, IndicesGrow, EvictionIndexValid, NEW n \in Node, Offer(n), PlaceByEviction(n)
  PROVE  IndicesGrow' /\ EvictionIndexValid'
<1>1. dry' = dry
  BY DEF Offer
<1>2. CASE dry
  BY <1>1, <1>2 DEF IndicesGrow, EvictionIndexValid
<1>3. CASE ~dry
  <2> DEFINE d == Len(valuElems)
             B == bundle["valu"]
             i == Victim.idx
             R == RemoveAt(B, i)
             x == Slot(n, All)
  <2>1. d \in 1 .. d /\ d \in Nat /\ i \in 1 .. Len(B) /\ valuElems[d].idx = i
    BY <1>3, EvictionFacts DEF Victim, LastPlaced
  <2>2. valuElems' = RemoveAt(valuElems, d)
    BY DEF PlaceByEviction, LastPlaced
  <2>3. /\ DOMAIN valuElems' = 1 .. d - 1
        /\ \A k \in 1 .. d - 1 : valuElems'[k] = valuElems[k]
        /\ DOMAIN valuElems = 1 .. d
    <3> DEFINE W == RemoveAt(valuElems, d)
    <3>1. /\ W \in Seq([node : VecElem, idx : Int]) /\ Len(W) = d - 1
          /\ \A k \in 1 .. d - 1 : W[k] = valuElems[k]
      BY <2>1, RemoveAtProperties DEF TypeOK
    <3>2. DOMAIN W = 1 .. d - 1 /\ DOMAIN valuElems = 1 .. d
      BY <3>1, LenProperties DEF TypeOK
    <3> QED
      BY <2>2, <3>1, <3>2
  <2>4. bundle'["valu"] = Append(R, x)
    BY <1>3, EvictionBundle
  <2>5. /\ B \in Seq(SlotType) /\ Len(B) \in Nat
    BY LenProperties DEF TypeOK, Engine
  <2>6. R \in Seq(SlotType) /\ Len(R) = Len(B) - 1 /\ \A j \in 1 .. i - 1 : R[j] = B[j]
    BY <2>1, <2>5, RemoveAtProperties
  <2>7. x \in SlotType
    BY DEF Slot, SlotType
  <2> HIDE DEF d, B, i, R, x
  <2>8. DOMAIN Append(R, x) = 1 .. Len(B) /\ \A j \in 1 .. i - 1 : Append(R, x)[j] = B[j]
    <3>1. /\ Append(R, x) \in Seq(SlotType) /\ Len(Append(R, x)) = Len(R) + 1
          /\ \A j \in 1 .. Len(R) : Append(R, x)[j] = R[j]
      BY <2>6, <2>7, AppendProperties
    <3>2. Len(R) + 1 = Len(B) /\ \A j \in 1 .. i - 1 : j \in 1 .. Len(R)
      BY <2>1, <2>5, <2>6
    <3> QED
      BY <2>6, <3>1, <3>2, LenProperties
  <2>9. \A k \in 1 .. d - 1 : k \in 1 .. d /\ k < d
    BY <2>1
  <2>10. \A k \in 1 .. d - 1 : valuElems[k].idx \in 1 .. i - 1 /\ valuElems[k].idx \in 1 .. Len(B)
    <3> SUFFICES ASSUME NEW k \in 1 .. d - 1
                 PROVE  valuElems[k].idx \in 1 .. i - 1 /\ valuElems[k].idx \in 1 .. Len(B)
      OBVIOUS
    <3>1. valuElems[k].idx < i
      BY <1>3, <2>1, <2>3, <2>9 DEF IndicesGrow
    <3>2. valuElems[k].idx \in 1 .. Len(B)
      BY <1>3, <2>3, <2>5, <2>9, LenProperties DEF EvictionIndexValid, B
    <3> QED
      BY <2>1, <3>1, <3>2
  <2>11. \A k \in 1 .. d - 1 : B[valuElems[k].idx] = Slot(valuElems[k].node, All)
    BY <1>3, <2>3, <2>9 DEF EvictionIndexValid, B
  <2>12. EvictionIndexValid'
    BY <2>3, <2>4, <2>8, <2>10, <2>11 DEF EvictionIndexValid
  <2>13. IndicesGrow'
    BY <1>3, <2>3, <2>9 DEF IndicesGrow
  <2> QED
    BY <2>12, <2>13
<1> QED
  BY <1>2, <1>3

\* An eviction executes the lanes of the victim and of the evictor once.
LEMMA EvictionOnce ==
  ASSUME TypeOK, Modes, LandedOnce, EvictionIndexValid, NEW n \in Node, Offer(n),
         PlaceByEviction(n), UNCHANGED <<executed, saved>>
  PROVE  LandedOnce'
<1>1. dry = recording /\ recording' = recording
  BY OfferedMode DEF Offer
<1> SUFFICES ASSUME NEW m \in Node, NEW l \in Lane, l < LanesTotal(m)
             PROVE  executed[<<m, l>>] + InBundle(m, l)' =
                      IF l < Landed'[m] THEN 1 ELSE 0
  BY DEF LandedOnce, NodeLanes
<1>2. <<m, l>> \in NodeLanes
  BY DEF NodeLanes
<1>3. /\ executed[<<m, l>>] + InBundle(m, l) = IF l < Landed[m] THEN 1 ELSE 0
      /\ executed[<<m, l>>] \in Nat
  BY <1>2 DEF LandedOnce, TypeOK
<1>4. CASE recording
  <2>1. bundle' = bundle /\ Landed' = Landed
    BY <1>1, <1>4 DEF PlaceByEviction, Landed
  <2>2. InBundle(m, l)' = InBundle(m, l)
    BY <2>1 DEF InBundle
  <2> QED
    BY <1>3, <2>1, <2>2
<1>5. CASE ~recording
  <2> DEFINE v == Victim.node
             B == bundle["valu"]
             i == Victim.idx
             R == RemoveAt(B, i)
             L == Lanes(v, 0, VLEN)
             x == Slot(n, All)
             y == Slot(v, All)
             T(q) == Times(q, m, l)
  <2>1. /\ VLEN \in Nat /\ v \in Node /\ v # n /\ Native(v) = "valu" /\ Native(n) = "valu"
        /\ LanesTotal(n) = 1 /\ lanesDone[n] = 0
        /\ i \in 1 .. Len(B) /\ B[i] = y
    BY <1>1, <1>5, EvictionFacts
  <2>2. B \in Seq(SlotType) /\ bundle["alu"] \in Seq(SlotType)
    BY DEF TypeOK, Engine
  <2>3. /\ R \in Seq(SlotType) /\ L \in Seq(SlotType)
        /\ <<x>> \in Seq(SlotType) /\ <<y>> \in Seq(SlotType)
    <3>1. R \in Seq(SlotType)
      BY <2>1, <2>2, RemoveAtProperties
    <3>2. L \in Seq(SlotType)
      <4>1. VLEN \in Nat /\ v \in Node /\ 0 \in Nat /\ 0 + VLEN <= VLEN
        BY <2>1
      <4> HIDE DEF v
      <4> QED
        BY ONLY <4>1, LaneSlots
    <3> QED
      BY <2>1, <3>1, <3>2, WholeSlot
  <2>4. T(B) = T(R) + T(<<y>>)
    BY <2>1, <2>2, TimesRemove
  <2>5. T(bundle'["valu"]) = T(R) + T(<<x>>)
    <3>1. bundle'["valu"] = Append(R, x)
      BY <1>1, <1>5, EvictionBundle
    <3>2. x \in SlotType
      BY DEF Slot, SlotType
    <3>3. Append(R, x) = R \o <<x>>
      BY <2>3, <3>2, AppendIsConcat
    <3> HIDE DEF R, x
    <3>4. Times(R \o <<x>>, m, l) = Times(R, m, l) + Times(<<x>>, m, l)
      <4> DEFINE X == <<x>>
      <4>1. R \in Seq(SlotType) /\ X \in Seq(SlotType)
        BY <2>3
      <4> HIDE DEF X
      <4>2. Times(R \o X, m, l) = Times(R, m, l) + Times(X, m, l)
        BY ONLY <4>1, TimesConcat
      <4> QED
        BY <4>2 DEF X
    <3> QED
      BY <3>1, <3>3, <3>4
  <2>6. T(bundle'["alu"]) = T(bundle["alu"]) + T(L)
    <3>1. bundle'["alu"] = bundle["alu"] \o L
      BY <1>1, <1>5, EvictionBundle
    <3> QED
      BY <2>2, <2>3, <3>1, TimesConcat
  <2>7. Native(m) \notin {"alu", "valu"} => bundle'[Native(m)] = bundle[Native(m)]
    BY <1>1, <1>5, EvictionBundle, NativeEngine
  <2>8. T(<<x>>) = (IF m = n THEN 1 ELSE 0) /\ T(<<y>>) = (IF m = v THEN 1 ELSE 0)
    BY <2>1, WholeTimes
  <2>9. T(L) = IF m = v THEN 1 ELSE 0
    <3>1. l \in Nat /\ l < 0 + VLEN /\ 0 <= l
      BY <2>1 DEF Lane
    <3> QED
      BY <2>1, <3>1, TimesLanes
  <2>10. bundle[Native(m)] \in Seq(SlotType)
    BY NativeEngine DEF TypeOK
  <2>11. T(R) \in Nat /\ T(bundle["alu"]) \in Nat /\ T(bundle[Native(m)]) \in Nat
    BY <2>2, <2>3, <2>10, TimesType
  <2>12. InBundle(m, l) = T(bundle["alu"]) + (IF Native(m) = "alu" THEN 0 ELSE T(bundle[Native(m)]))
    BY DEF InBundle
  <2>13. InBundle(m, l)' = T(bundle'["alu"]) + (IF Native(m) = "alu" THEN 0 ELSE T(bundle'[Native(m)]))
    BY DEF InBundle
  <2> HIDE DEF T, v, L, R, x, y, i
  <2>14. InBundle(m, l)' = InBundle(m, l) + IF m = n THEN 1 ELSE 0
    <3>1. CASE Native(m) = "valu"
      <4>1. /\ InBundle(m, l) = T(bundle["alu"]) + T(B)
            /\ InBundle(m, l)' = T(bundle'["alu"]) + T(bundle'["valu"])
        BY <2>12, <2>13, <3>1
      <4> QED
        BY <4>1, <2>4, <2>5, <2>6, <2>8, <2>9, <2>11
    <3>2. CASE Native(m) # "valu"
      <4>1. m # n /\ m # v
        BY <2>1, <3>2
      <4>2. Native(m) # "alu" => bundle'[Native(m)] = bundle[Native(m)]
        BY <2>7, <3>2
      <4>3. T(bundle'["alu"]) = T(bundle["alu"])
        BY <2>6, <2>9, <2>11, <4>1
      <4>4. InBundle(m, l)' = InBundle(m, l)
        BY <2>12, <2>13, <4>2, <4>3
      <4>5. InBundle(m, l) \in Nat
        BY BundleCounts
      <4> QED
        BY <4>1, <4>4, <4>5
    <3> QED
      BY <3>1, <3>2
  <2>15. /\ Landed = lanesDone /\ Landed' = lanesDone'
         /\ \A k \in Node : lanesDone'[k] = IF k = n THEN 1 ELSE lanesDone[k]
    BY <1>1, <1>5, Typed DEF Landed, PlaceByEviction
  <2>16. l \in Nat /\ InBundle(m, l) \in Nat /\ (m = n => l = 0)
    <3>1. l \in Nat
      BY PoolAssumption DEF Lane
    <3>2. m = n => l < 1
      BY <2>1
    <3> QED
      BY <3>1, <3>2, BundleCounts
  <2>17. CASE m = n
    <3>1. Landed[m] = 0 /\ Landed'[m] = 1 /\ l = 0
      BY <2>1, <2>15, <2>16, <2>17
    <3> QED
      BY <1>3, <2>14, <2>16, <2>17, <3>1
  <2>18. CASE m # n
    <3>1. Landed'[m] = Landed[m]
      BY <2>15, <2>18
    <3> QED
      BY <1>3, <2>14, <2>16, <2>18, <3>1
  <2> QED
    BY <2>17, <2>18
<1> QED
  BY <1>4, <1>5 DEF TypeOK

-----------------------------------------------------------------------------
\* Every branch of place() keeps the invariant.
LEMMA PlaceStep ==
  ASSUME PoolInv, NEW n \in Node, HPlace(n)
  PROVE  PoolInv'
<1>1. /\ TypeOK /\ Modes /\ BudgetExact /\ IndicesGrow /\ EvictionIndexValid /\ LogExact
      /\ LandedOnce
  BY DEF PoolInv
<1>2. Offer(n) /\ UNCHANGED <<executed, saved>> /\ UNCHANGED <<dry, recording, tokens>>
  BY DEF HPlace, Place, Offer
<1>3. CASE Refused
  <2>1. offered' \subseteq Node /\ (offered' # Node => offered # Node)
    BY <1>1, <1>2 DEF Offer, TypeOK
  <2>2. UNCHANGED <<free, bundle, valuElems, lanesDone, choice, log, executed, saved, dry, recording, tokens>>
    BY <1>2, <1>3 DEF Refused
  <2>3. TypeOK' /\ Modes'
    BY <1>1, <2>1, <2>2 DEF TypeOK, Modes, progress, NoSlots
  <2>4. BudgetExact' /\ IndicesGrow' /\ EvictionIndexValid'
    BY <1>1, <2>2 DEF BudgetExact, IndicesGrow, EvictionIndexValid
  <2>5. LogExact'
    <3>1. \A token, k : /\ LanesBefore(token, k)' = LanesBefore(token, k)
                        /\ ChoiceBefore(token, k)' = ChoiceBefore(token, k)
      BY <2>2 DEF LanesBefore, ChoiceBefore, Since
    <3> QED
      BY <1>1, <2>2, <3>1 DEF LogExact
  <2>6. LandedOnce'
    BY <1>1, <2>2 DEF LandedOnce, InBundle, Landed
  <2> QED
    BY <2>3, <2>4, <2>5, <2>6 DEF PoolInv
<1>4. CASE Placed(n)
  <2>1. PICK e, slots, lanes, engine, es : Lands(n, e, slots, lanes, engine, es)
    BY <1>4 DEF Placed
  <2>2. es \in Seq(EntryType) /\ Record(es) /\ HoldCurrent(es) /\ Covered(es)
    BY <2>1 DEF Lands
  <2>3. LogExact'
    BY <1>1, <1>2, <2>2, LogStep
  <2> QED
    BY <1>1, <1>2, <1>4, <2>3, LandsType, LandsModes, LandsBudget, LandsIndices, LandsOnce
    DEF PoolInv
<1>5. CASE PlaceByEviction(n)
  <2>1. PICK es \in Seq(EntryType) : Record(es) /\ HoldCurrent(es) /\ Covered(es)
    BY <1>1, <1>2, <1>5, EvictionLog
  <2>2. LogExact'
    BY <1>1, <1>2, <2>1, LogStep
  <2> QED
    BY <1>1, <1>2, <1>5, <2>2, EvictionType, EvictionModes, EvictionBudget, EvictionIndices,
       EvictionOnce
    DEF PoolInv
<1> QED
  BY <1>1, <1>3, <1>4, <1>5, PlaceCases DEF HPlace, Place

-----------------------------------------------------------------------------
\* The initial state, the start of a cycle, a checkpoint and a rollback.
LEMMA EmptyBundle ==
  ASSUME NEW m \in Node, NEW l
  PROVE  bundle = NoSlots => InBundle(m, l) = 0
<1>1. Times(<< >>, m, l) = 0
  <2>1. { k \in DOMAIN << >> : << >>[k] \in {Slot(m, All), Slot(m, l)} } = {}
    OBVIOUS
  <2> QED
    BY <2>1, FS_EmptySet DEF Times
<1>2. bundle = NoSlots => bundle["alu"] = << >> /\ bundle[Native(m)] = << >>
  BY NativeEngine DEF NoSlots, Engine
<1> QED
  BY <1>1, <1>2 DEF InBundle

\* The empty bundle.
LEMMA NoSlotsType ==
  NoSlots \in [Engine \cup {"debug"} -> Seq(SlotType)] /\ \A e \in Engine : NoSlots[e] = << >>
BY DEF NoSlots

\* The units are idle at first.
LEMMA InitInv ==
  ASSUME HInit
  PROVE  PoolInv
<1>1. TypeOK
  <2>1. \A n \in Node : LanesTotal(n) \in Nat
    BY PoolAssumption DEF LanesTotal, Kinds
  <2>2. progress \in ProgressType
    BY <2>1 DEF HInit, Init, progress, ProgressType
  <2>3. free \in [Engine -> Nat]
    BY PoolAssumption DEF HInit, Init
  <2>4. saved \in [tokens -> ProgressType]
    BY DEF HInit, Init
  <2>5. /\ bundle \in [Engine \cup {"debug"} -> Seq(SlotType)]
        /\ valuElems \in Seq([node : VecElem, idx : Int]) /\ log \in Seq(EntryType)
    BY NoSlotsType DEF HInit, Init
  <2>6. /\ offered \subseteq Node /\ dry \in BOOLEAN /\ recording \in BOOLEAN
        /\ tokens \subseteq 0 .. Len(log) /\ executed \in [NodeLanes -> Nat]
    BY DEF HInit, Init
  <2> QED
    BY <2>2, <2>3, <2>4, <2>5, <2>6 DEF TypeOK
<1>2. Modes
  BY DEF HInit, Init, Modes
<1>3. BudgetExact
  BY PoolAssumption, NoSlotsType DEF HInit, Init, BudgetExact
<1>4. IndicesGrow /\ EvictionIndexValid
  BY DEF HInit, Init, IndicesGrow, EvictionIndexValid
<1>5. LogExact
  BY DEF HInit, Init, LogExact
<1>6. LandedOnce
  <2> SUFFICES ASSUME NEW nl \in NodeLanes
               PROVE  executed[nl] + InBundle(nl[1], nl[2]) = IF nl[2] < Landed[nl[1]] THEN 1 ELSE 0
    BY DEF LandedOnce
  <2>1. nl[1] \in Node /\ nl[2] \in Nat
    BY PoolAssumption DEF NodeLanes, Lane
  <2>2. executed[nl] = 0 /\ InBundle(nl[1], nl[2]) = 0 /\ Landed[nl[1]] = 0
    BY <2>1, EmptyBundle DEF HInit, Init, Landed
  <2> QED
    BY <2>1, <2>2
<1> QED
  BY <1>1, <1>2, <1>3, <1>4, <1>5, <1>6 DEF PoolInv

\* A new cycle.
LEMMA NewCycleStep ==
  ASSUME PoolInv, NEW d \in BOOLEAN, HNewCycle(d)
  PROVE  PoolInv'
<1>1. /\ TypeOK /\ Modes /\ LogExact /\ LandedOnce
      /\ d = recording /\ free' = Capacity /\ bundle' = NoSlots /\ valuElems' = << >>
      /\ offered' = {} /\ dry' = d
      /\ UNCHANGED <<lanesDone, choice, recording, log, tokens, saved>>
      /\ executed' = [nl \in NodeLanes |-> executed[nl] + InBundle(nl[1], nl[2])]
  BY DEF PoolInv, HNewCycle, NewCycle
<1>2. \A nl \in NodeLanes : nl[1] \in Node /\ nl[2] \in Nat
  BY PoolAssumption DEF NodeLanes, Lane
<1>3. \A nl \in NodeLanes : executed[nl] \in Nat /\ InBundle(nl[1], nl[2]) \in Nat
  BY <1>1, <1>2, BundleCounts DEF TypeOK
<1>4. TypeOK'
  <2>1. executed' \in [NodeLanes -> Nat]
    BY <1>1, <1>3
  <2>2. free' \in [Engine -> Nat]
    BY <1>1, PoolAssumption
  <2> QED
    BY <1>1, <2>1, <2>2, NoSlotsType DEF TypeOK, progress
<1>5. Modes'
  BY <1>1 DEF Modes, NoSlots
<1>6. BudgetExact'
  BY <1>1, PoolAssumption, NoSlotsType DEF BudgetExact
<1>7. IndicesGrow' /\ EvictionIndexValid'
  BY <1>1 DEF IndicesGrow, EvictionIndexValid
<1>8. LogExact'
  <2>1. \A token, k : /\ LanesBefore(token, k)' = LanesBefore(token, k)
                      /\ ChoiceBefore(token, k)' = ChoiceBefore(token, k)
    BY <1>1 DEF LanesBefore, ChoiceBefore, Since
  <2> QED
    BY <1>1, <2>1 DEF LogExact
<1>9. LandedOnce'
  <2> SUFFICES ASSUME NEW nl \in NodeLanes
               PROVE  executed'[nl] + InBundle(nl[1], nl[2])' = IF nl[2] < Landed'[nl[1]] THEN 1 ELSE 0
    BY DEF LandedOnce
  <2>1. InBundle(nl[1], nl[2])' = 0
    <3>1. Times(<< >>, nl[1], nl[2]) = 0
      <4>1. { k \in DOMAIN << >> : << >>[k] \in {Slot(nl[1], All), Slot(nl[1], nl[2])} } = {}
        OBVIOUS
      <4> QED
        BY <4>1, FS_EmptySet DEF Times
    <3>2. bundle'["alu"] = << >> /\ bundle'[Native(nl[1])] = << >>
      BY <1>1, <1>2, NativeEngine DEF NoSlots, Engine
    <3> QED
      BY <3>1, <3>2 DEF InBundle
  <2>2. executed'[nl] = executed[nl] + InBundle(nl[1], nl[2]) /\ Landed' = Landed
    BY <1>1 DEF Landed
  <2> QED
    BY <1>1, <1>3, <2>1, <2>2 DEF LandedOnce
<1> QED
  BY <1>4, <1>5, <1>6, <1>7, <1>8, <1>9 DEF PoolInv

\* checkpoint().
LEMMA CheckpointStep ==
  ASSUME PoolInv, HCheckpoint
  PROVE  PoolInv'
<1> DEFINE here == Len(log)
<1>1. /\ TypeOK /\ Modes /\ BudgetExact /\ IndicesGrow /\ EvictionIndexValid /\ LogExact
      /\ LandedOnce
      /\ recording' = TRUE /\ tokens' = tokens \cup {here} /\ offered' = Node
      /\ UNCHANGED <<free, bundle, valuElems, dry, lanesDone, choice, log, executed>>
      /\ saved' = [k \in DOMAIN saved \cup {here} |-> IF k = here THEN progress ELSE saved[k]]
  BY DEF PoolInv, HCheckpoint, Checkpoint
<1>2. DOMAIN saved = tokens /\ here \in Nat /\ progress \in ProgressType
  BY <1>1, Typed DEF TypeOK
<1>3. \A token \in tokens' : saved'[token] = IF token = here THEN progress ELSE saved[token]
  BY <1>1, <1>2
<1>4. TypeOK'
  <2>1. tokens' \subseteq 0 .. Len(log)
    <3>1. tokens' = tokens \cup {here} /\ tokens \subseteq 0 .. Len(log)
      BY <1>1, Typed
    <3>2. here \in 0 .. Len(log)
      BY <1>2
    <3> QED
      BY <3>1, <3>2
  <2>2. saved' \in [tokens' -> ProgressType]
    BY <1>1, <1>2 DEF TypeOK
  <2> QED
    BY <1>1, <2>1, <2>2 DEF TypeOK, progress
<1>5. Modes'
  <2>1. 0 \in tokens'
    BY <1>1 DEF Modes
  <2> QED
    BY <1>1, <2>1 DEF Modes, NoSlots
<1>6. BudgetExact' /\ IndicesGrow' /\ EvictionIndexValid'
  BY <1>1 DEF BudgetExact, IndicesGrow, EvictionIndexValid
<1>7. \A n \in Node : LanesBefore(here, n) = lanesDone[n] /\ ChoiceBefore(here, n) = choice[n]
  <2>1. here + 1 .. Len(log) = {}
    BY <1>2
  <2>2. \A n \in Node : \A field : Since(here, n, field) = {}
    BY <2>1 DEF Since
  <2> QED
    BY <2>2 DEF LanesBefore, ChoiceBefore
<1>8. progress.lanesDone = lanesDone /\ progress.choice = choice
  BY DEF progress
<1> HIDE DEF here
<1>9. LogExact'
  <2>1. \A token, k : /\ LanesBefore(token, k)' = LanesBefore(token, k)
                      /\ ChoiceBefore(token, k)' = ChoiceBefore(token, k)
    BY <1>1 DEF LanesBefore, ChoiceBefore, Since
  <2> SUFFICES ASSUME NEW token \in tokens', NEW n \in Node
               PROVE  /\ LanesBefore(token, n) = saved'[token].lanesDone[n]
                      /\ ChoiceBefore(token, n) = saved'[token].choice[n]
    BY <2>1 DEF LogExact
  <2>2. CASE token = here
    BY <1>3, <1>7, <1>8, <2>2
  <2>3. CASE token # here
    <3>1. token \in tokens /\ saved'[token] = saved[token]
      BY <1>1, <1>3, <2>3
    <3>2. LogExact
      BY <1>1
    <3> QED
      BY <3>1, <3>2 DEF LogExact
  <2> QED
    BY <2>2, <2>3
<1>10. \A n \in Node : Landed'[n] = Landed[n]
  <2>1. Landed' = saved'[0].lanesDone /\ 0 \in tokens'
    BY <1>1, <1>5 DEF Landed, Modes
  <2>2. CASE here # 0
    <3>1. recording
      BY <1>1, <2>2 DEF Modes, here
    <3> QED
      BY <1>3, <2>1, <2>2, <3>1 DEF Landed
  <2>3. CASE here = 0
    <3>1. Landed' = lanesDone
      BY <1>3, <1>8, <2>1, <2>3
    <3>2. CASE recording
      <4>1. 0 \in tokens /\ Landed = saved[0].lanesDone
        BY <1>1, <3>2 DEF Modes, Landed
      <4> QED
        BY <1>1, <1>7, <2>3, <3>1, <4>1 DEF LogExact
    <3>3. CASE ~recording
      BY <3>1, <3>3 DEF Landed
    <3> QED
      BY <1>1, <3>2, <3>3 DEF TypeOK
  <2> QED
    BY <2>2, <2>3
<1>11. LandedOnce'
  <2>1. \A nl \in NodeLanes : nl[1] \in Node /\ InBundle(nl[1], nl[2])' = InBundle(nl[1], nl[2])
    BY <1>1 DEF NodeLanes, InBundle
  <2> QED
    BY <1>1, <1>10, <2>1 DEF LandedOnce
<1> QED
  BY <1>4, <1>5, <1>6, <1>9, <1>11 DEF PoolInv

\* The log leads back from what a rollback restores as it did from the present.
LEMMA CutBefore ==
  ASSUME TypeOK, NEW token \in tokens, NEW t \in tokens, t <= token, Rollback(token), NEW n \in Node
  PROVE  /\ LanesBefore(t, n)' = LanesBefore(t, n)
         /\ ChoiceBefore(t, n)' = ChoiceBefore(t, n)
<1>1. /\ log \in Seq(EntryType) /\ token \in 0 .. Len(log) /\ t \in 0 .. token
      /\ log' = SubSeq(log, 1, token)
      /\ lanesDone'[n] = LanesBefore(token, n) /\ choice'[n] = ChoiceBefore(token, n)
  <2>1. token \in 0 .. Len(log) /\ t \in 0 .. Len(log) /\ Len(log) \in Nat
    BY Typed
  <2>2. t \in 0 .. token
    BY <2>1
  <2> QED
    BY <2>1, <2>2, Typed DEF Rollback
<1>2. LanesBefore(t, n)' = LanesBefore(t, n)
  <2> DEFINE E == EntriesOf(log, t, n, "lanes_done")
             T == EntriesOf(log, token, n, "lanes_done")
             V == EntriesOf(SubSeq(log, 1, token), t, n, "lanes_done")
  <2>1. CutTo(log, token, t, n, "lanes_done")
    BY <1>1, EntriesCut
  <2>2. /\ V # {} => E # {} /\ SubSeq(log, 1, token)[Min(V)] = log[Min(E)]
        /\ V = {} => E = T
    BY <2>1 DEF CutTo
  <2>3. /\ LanesBefore(t, n) = IF E = {} THEN lanesDone[n] ELSE log[Min(E)].lanes
        /\ LanesBefore(token, n) = IF T = {} THEN lanesDone[n] ELSE log[Min(T)].lanes
        /\ LanesBefore(t, n)' = IF V = {} THEN lanesDone'[n] ELSE SubSeq(log, 1, token)[Min(V)].lanes
    BY <1>1 DEF LanesBefore, Since, EntriesOf, LastRestored
  <2> HIDE DEF E, T, V
  <2> QED
    BY <1>1, <2>2, <2>3
<1>3. ChoiceBefore(t, n)' = ChoiceBefore(t, n)
  <2> DEFINE E == EntriesOf(log, t, n, "engine_choice")
             T == EntriesOf(log, token, n, "engine_choice")
             V == EntriesOf(SubSeq(log, 1, token), t, n, "engine_choice")
  <2>1. CutTo(log, token, t, n, "engine_choice")
    BY <1>1, EntriesCut
  <2>2. /\ V # {} => E # {} /\ SubSeq(log, 1, token)[Min(V)] = log[Min(E)]
        /\ V = {} => E = T
    BY <2>1 DEF CutTo
  <2>3. /\ ChoiceBefore(t, n) = IF E = {} THEN choice[n] ELSE log[Min(E)].engine
        /\ ChoiceBefore(token, n) = IF T = {} THEN choice[n] ELSE log[Min(T)].engine
        /\ ChoiceBefore(t, n)' = IF V = {} THEN choice'[n] ELSE SubSeq(log, 1, token)[Min(V)].engine
    BY <1>1 DEF ChoiceBefore, Since, EntriesOf, LastRestored
  <2> HIDE DEF E, T, V
  <2> QED
    BY <1>1, <2>2, <2>3
<1> QED
  BY <1>2, <1>3

\* A rollback gives back the progress its checkpoint saw.
LEMMA RollbackSaved ==
  ASSUME TypeOK, LogExact, NEW token \in tokens, Rollback(token)
  PROVE  progress' = saved[token]
<1>1. saved[token] \in ProgressType
  BY Typed
<1>2. /\ saved[token] = [lanesDone |-> saved[token].lanesDone, choice |-> saved[token].choice]
      /\ saved[token].lanesDone = [n \in Node |-> saved[token].lanesDone[n]]
      /\ saved[token].choice = [n \in Node |-> saved[token].choice[n]]
  BY <1>1 DEF ProgressType
<1>3. /\ \A n \in Node : LanesBefore(token, n) = saved[token].lanesDone[n]
      /\ \A n \in Node : ChoiceBefore(token, n) = saved[token].choice[n]
  BY DEF LogExact
<1>4. /\ lanesDone' = [n \in Node |-> LanesBefore(token, n)]
      /\ choice' = [n \in Node |-> ChoiceBefore(token, n)]
  BY DEF Rollback
<1>5. lanesDone' = saved[token].lanesDone
  BY <1>2, <1>3, <1>4
<1>6. choice' = saved[token].choice
  BY <1>2, <1>3, <1>4
<1> QED
  BY <1>2, <1>5, <1>6 DEF progress

\* rollback(token).
LEMMA RollbackStep ==
  ASSUME PoolInv, NEW token \in tokens, HRollback(token)
  PROVE  PoolInv'
<1>1. TypeOK /\ Modes /\ BudgetExact /\ IndicesGrow /\ EvictionIndexValid /\ LogExact /\ LandedOnce
  BY DEF PoolInv
<1>2. /\ Rollback(token) /\ log' = SubSeq(log, 1, token) /\ recording' = (token # 0)
      /\ tokens' = IF token = 0 THEN {} ELSE { k \in tokens : k <= token }
      /\ offered' = Node /\ UNCHANGED <<free, bundle, valuElems, dry, executed>>
      /\ saved' = [k \in tokens' |-> saved[k]]
  BY DEF HRollback, Rollback
<1>3. /\ log \in Seq(EntryType) /\ Len(log) \in Nat /\ token \in 0 .. Len(log)
      /\ tokens \subseteq 0 .. Len(log)
  BY <1>1, Typed
<1>4. tokens' \subseteq tokens /\ tokens' \subseteq 0 .. token
  <2>1. \A k \in tokens : k <= token => k \in 0 .. token
    BY <1>3
  <2> QED
    BY <1>2, <2>1
<1>5. recording
  <2>1. ~recording => Len(log) = 0 /\ 0 \notin tokens
    BY <1>1 DEF Modes
  <2> QED
    BY <1>1, <1>3, <2>1 DEF TypeOK
<1>6. progress' = saved[token]
  BY <1>1, <1>2, RollbackSaved
<1>7. log' \in Seq(EntryType) /\ Len(log') = token
  <2>1. \A k \in 1 .. token : log[k] \in EntryType
    BY <1>3, ElementOfSeq
  <2>2. /\ SubSeq(log, 1, token) \in Seq(EntryType)
        /\ Len(SubSeq(log, 1, token)) = IF 1 <= token THEN token - 1 + 1 ELSE 0
    BY <1>3, <2>1, SubSeqProperties
  <2> QED
    BY <1>2, <1>3, <2>2
<1>8. TypeOK'
  <2>1. progress' \in ProgressType /\ saved' \in [tokens' -> ProgressType]
    BY <1>1, <1>2, <1>4, <1>6, Typed
  <2>2. tokens' \subseteq 0 .. Len(log') /\ recording' \in BOOLEAN
    BY <1>2, <1>4, <1>7
  <2> QED
    BY <1>1, <1>2, <1>7, <2>1, <2>2 DEF TypeOK
<1>9. Modes'
  <2>1. recording' <=> 0 \in tokens'
    <3>1. 0 \in tokens
      BY <1>1, <1>5 DEF Modes
    <3>2. CASE token = 0
      BY <1>2, <3>2
    <3>3. CASE token # 0
      <4>1. 0 <= token
        BY <1>3
      <4> QED
        BY <1>2, <3>1, <3>3, <4>1
    <3> QED
      BY <3>2, <3>3
  <2>2. ~recording' => log' = << >>
    BY <1>2, <1>7, EmptySeq
  <2>3. dry' => bundle' = NoSlots
    BY <1>1, <1>2 DEF Modes
  <2> QED
    BY <1>2, <2>1, <2>2, <2>3 DEF Modes, NoSlots
<1>10. BudgetExact' /\ IndicesGrow' /\ EvictionIndexValid'
  BY <1>1, <1>2 DEF BudgetExact, IndicesGrow, EvictionIndexValid
<1>11. LogExact'
  <2> SUFFICES ASSUME NEW t \in tokens', NEW n \in Node
               PROVE  /\ LanesBefore(t, n)' = saved'[t].lanesDone[n]
                      /\ ChoiceBefore(t, n)' = saved'[t].choice[n]
    BY DEF LogExact
  <2>1. t \in tokens /\ t <= token /\ saved'[t] = saved[t]
    BY <1>2, <1>4
  <2>2. LanesBefore(t, n)' = LanesBefore(t, n) /\ ChoiceBefore(t, n)' = ChoiceBefore(t, n)
    BY <1>1, <1>2, <2>1, CutBefore
  <2> QED
    BY <1>1, <2>1, <2>2 DEF LogExact
<1>12. LandedOnce'
  <2>1. Landed' = Landed
    <3>1. CASE token = 0
      <4>1. Landed' = lanesDone' /\ Landed = saved[0].lanesDone
        BY <1>2, <1>5, <3>1 DEF Landed
      <4>2. progress'.lanesDone = lanesDone'
        BY DEF progress
      <4> QED
        BY <1>6, <3>1, <4>1, <4>2
    <3>2. CASE token # 0
      <4>1. recording' /\ 0 \in tokens'
        BY <1>2, <1>9, <3>2 DEF Modes
      <4> QED
        BY <1>2, <1>5, <4>1 DEF Landed
    <3> QED
      BY <3>1, <3>2
  <2>2. \A nl \in NodeLanes : InBundle(nl[1], nl[2])' = InBundle(nl[1], nl[2])
    BY <1>2 DEF InBundle
  <2> QED
    BY <1>1, <1>2, <2>1, <2>2 DEF LandedOnce
<1> QED
  BY <1>8, <1>9, <1>10, <1>11, <1>12 DEF PoolInv

\* A step that leaves the units alone.
LEMMA StutterStep ==
  ASSUME PoolInv, UNCHANGED vars
  PROVE  PoolInv'
<1>1. UNCHANGED <<free, bundle, valuElems, offered, dry, lanesDone, choice, recording, log, tokens,
                  executed, saved>>
  BY DEF vars
<1>2. \A token, k : /\ LanesBefore(token, k)' = LanesBefore(token, k)
                    /\ ChoiceBefore(token, k)' = ChoiceBefore(token, k)
  BY <1>1 DEF LanesBefore, ChoiceBefore, Since
<1>3. TypeOK' /\ Modes'
  BY <1>1 DEF PoolInv, TypeOK, Modes, progress, NoSlots
<1>4. BudgetExact' /\ IndicesGrow' /\ EvictionIndexValid'
  BY <1>1 DEF PoolInv, BudgetExact, IndicesGrow, EvictionIndexValid
<1>5. LogExact'
  BY <1>1, <1>2 DEF PoolInv, LogExact
<1>6. LandedOnce'
  BY <1>1 DEF PoolInv, LandedOnce, InBundle, Landed
<1> QED
  BY <1>3, <1>4, <1>5, <1>6 DEF PoolInv

-----------------------------------------------------------------------------
\* The inductive invariant holds: the types, the exact budgets, the remembered
\* indices, the undo log and the lanes executed, through every interleaving of
\* placements, evictions, trials and rollbacks.
THEOREM PoolInvariant ==
  HSpec => []PoolInv
<1>1. HInit => PoolInv
  BY InitInv
<1>2. PoolInv /\ [HNext]_vars => PoolInv'
  <2> SUFFICES ASSUME PoolInv, [HNext]_vars
               PROVE  PoolInv'
    OBVIOUS
  <2>1. ASSUME NEW n \in Node, HPlace(n) PROVE PoolInv'
    BY <2>1, PlaceStep
  <2>2. ASSUME NEW d \in BOOLEAN, HNewCycle(d) PROVE PoolInv'
    BY <2>2, NewCycleStep
  <2>3. CASE HCheckpoint
    BY <2>3, CheckpointStep
  <2>4. ASSUME NEW token \in tokens, HRollback(token) PROVE PoolInv'
    BY <2>4, RollbackStep
  <2>5. CASE UNCHANGED vars
    BY <2>5, StutterStep
  <2> QED
    BY <2>1, <2>2, <2>3, <2>4, <2>5 DEF HNext
<1> QED
  BY <1>1, <1>2, PTL DEF HSpec

\* Every variable keeps its type: no node ever lands more lanes than it has.
THEOREM PoolTypes ==
  HSpec => []TypeOK
<1>1. PoolInv => TypeOK
  BY DEF PoolInv
<1> QED
  BY <1>1, PoolInvariant, PTL

\* No bundle exceeds an engine's slots and no slot is lost or given twice,
\* evictions included.
THEOREM PoolBudgetExact ==
  HSpec => []BudgetExact
<1>1. PoolInv => BudgetExact
  BY DEF PoolInv
<1> QED
  BY <1>1, PoolInvariant, PTL

\* The claim of a comment of _swap_elem_to_alu: the recorded indices of the
\* nodes still on the valu stay valid however many evictions there are.
THEOREM PoolEvictionIndexValid ==
  HSpec => []EvictionIndexValid
<1>1. PoolInv => EvictionIndexValid
  BY DEF PoolInv
<1> QED
  BY <1>1, PoolInvariant, PTL

\* Outside a trial, every lane that counts as landed is executed exactly once
\* and no other lane is.
THEOREM PoolLanesOnce ==
  HSpec => []LanesOnce
<1>1. PoolInv => LanesOnce
  BY DEF PoolInv, LandedOnce, LanesOnce, Landed
<1> QED
  BY <1>1, PoolInvariant, PTL

\* rollback() gives back the progress its checkpoint saw.
THEOREM PoolRollbackRestores ==
  HSpec => RollbackRestores
<1>1. PoolInv /\ [HNext]_vars =>
        [\A token \in tokens : HRollback(token) => progress' = saved[token]]_vars
  BY RollbackSaved DEF PoolInv, HRollback
<1> QED
  BY <1>1, PoolInvariant, PTL DEF HSpec, RollbackRestores
=============================================================================
