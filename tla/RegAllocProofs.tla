--------------------------- MODULE RegAllocProofs ---------------------------
(***************************************************************************)
(* Theorems about the register allocator, for every set of values, every   *)
(* granule size and every size of scratch.  Lemmas say what a call makes   *)
(* of a good state and that undoing its log entry gives that state back;   *)
(* the theorems carry both along the log of the open trial.  Last, the     *)
(* allocator keeps the promise of RegFile: every step of it is a step of   *)
(* the register file or leaves it unchanged.                               *)
(***************************************************************************)
EXTENDS RegAllocHistory, FiniteSetTheorems, SequenceTheorems, TLAPS

-----------------------------------------------------------------------------
\* Cutting off the last element.
LEMMA FrontAppend ==
  ASSUME NEW S, NEW q \in Seq(S), q # << >>
  PROVE  /\ Front(q) \in Seq(S) /\ Len(Front(q)) = Len(q) - 1 /\ Last(q) \in S
         /\ \A k \in 1 .. Len(q) - 1 : Front(q)[k] = q[k]
         /\ Append(Front(q), Last(q)) = q
<1>1. Len(q) \in Nat /\ Len(q) # 0
  BY EmptySeq, LenProperties
<1>2. \A k \in 1 .. Len(q) : q[k] \in S
  BY ElementOfSeq
<1>3. \A k \in 1 .. Len(q) - 1 : q[k] \in S
  BY <1>1, <1>2
<1>4. Len(q) - 1 \in Nat /\ 1 \in Nat
  BY <1>1
<1>5. /\ Front(q) \in Seq(S) /\ Len(Front(q)) = (IF 1 <= Len(q) - 1 THEN Len(q) - 1 - 1 + 1 ELSE 0)
      /\ \A k \in 1 .. Len(q) - 1 - 1 + 1 : Front(q)[k] = q[1 + k - 1]
  BY <1>3, <1>4, SubSeqProperties DEF Front
<1>6. Len(Front(q)) = Len(q) - 1 /\ \A k \in 1 .. Len(q) - 1 : Front(q)[k] = q[k]
  <2> DEFINE f == Front(q)
             n == Len(q)
  <2>1. /\ n \in Nat /\ n # 0
        /\ Len(f) = IF 1 <= n - 1 THEN n - 1 - 1 + 1 ELSE 0
        /\ \A k \in 1 .. n - 1 - 1 + 1 : f[k] = q[1 + k - 1]
    BY <1>1, <1>5
  <2> HIDE DEF f, n
  <2>2. Len(f) = n - 1
    BY <2>1
  <2>3. \A k \in 1 .. n - 1 : k \in 1 .. n - 1 - 1 + 1 /\ 1 + k - 1 = k
    BY <2>1
  <2>4. \A k \in 1 .. n - 1 : f[k] = q[k]
    BY <2>1, <2>3
  <2> QED
    BY <2>2, <2>4 DEF f, n
<1>7. Last(q) \in S
  BY <1>1, <1>2 DEF Last
<1>8. Append(Front(q), Last(q)) = q
  <2> DEFINE f == Front(q)
             x == Last(q)
  <2>1. f \in Seq(S) /\ x \in S /\ Len(f) = Len(q) - 1
    BY <1>5, <1>6, <1>7
  <2>2. /\ Append(f, x) \in Seq(S) /\ Len(Append(f, x)) = Len(f) + 1
        /\ \A k \in 1 .. Len(f) : Append(f, x)[k] = f[k]
        /\ Append(f, x)[Len(f) + 1] = x
    BY <2>1, AppendProperties
  <2>3. x = q[Len(q)] /\ \A k \in 1 .. Len(q) - 1 : f[k] = q[k]
    BY <1>6 DEF Last
  <2> HIDE DEF f, x
  <2>4. Len(Append(f, x)) = Len(q)
    BY <1>1, <2>1, <2>2
  <2>5. \A k \in 1 .. Len(q) : Append(f, x)[k] = q[k]
    <3> SUFFICES ASSUME NEW k \in 1 .. Len(q) PROVE Append(f, x)[k] = q[k]
      OBVIOUS
    <3>1. CASE k = Len(q)
      BY <1>1, <2>1, <2>2, <2>3, <3>1
    <3>2. CASE k # Len(q)
      <4>1. k \in 1 .. Len(q) - 1 /\ k \in 1 .. Len(f)
        BY <1>1, <2>1, <3>2
      <4> QED
        BY <2>2, <2>3, <4>1
    <3> QED
      BY <3>1, <3>2
  <2>6. Append(f, x) = q
    BY <2>2, <2>4, <2>5, SeqEqual
  <2> QED
    BY <2>6 DEF f, x
<1> QED
  BY <1>5, <1>6, <1>7, <1>8

\* Removing the first occurrence of an element that is at one end only.
LEMMA RemoveFirstIndex ==
  ASSUME NEW S, NEW q \in Seq(S), NEW i \in 1 .. Len(q), NEW w, q[i] = w,
         \A j \in 1 .. Len(q) : q[j] = w => i <= j
  PROVE  RemoveFirst(q, w) = RemoveAt(q, i)
<1> DEFINE I == { j \in 1 .. Len(q) : q[j] = w }
<1>1. I \in SUBSET Nat /\ i \in I /\ \A j \in I : i <= j
  BY LenProperties
<1>2. I # {} /\ Min(I) = i
  <2>1. \A j \in I : (\A k \in I : j <= k) => j = i
    BY <1>1
  <2> QED
    BY <1>1, <2>1 DEF Min
<1>3. SelectInSeq(q, LAMBDA v : v = w) = IF I # {} THEN Min(I) ELSE 0
  BY DEF SelectInSeq
<1> HIDE DEF I
<1>4. SelectInSeq(q, LAMBDA v : v = w) = i
  BY <1>2, <1>3
<1> QED
  BY <1>4 DEF RemoveFirst

\* Removing an element that was appended.
LEMMA RemoveFirstAppend ==
  ASSUME NEW S, NEW q \in Seq(S), NEW w \in S, \A k \in 1 .. Len(q) : q[k] # w
  PROVE  RemoveFirst(Append(q, w), w) = q
<1> DEFINE a == Append(q, w)
           n == Len(q)
           r == RemoveAt(a, n + 1)
<1>1. /\ a \in Seq(S) /\ Len(a) = n + 1 /\ a[n + 1] = w /\ n \in Nat
      /\ \A k \in 1 .. n : a[k] = q[k]
  BY AppendProperties, LenProperties
<1> HIDE DEF a
<1>2. n + 1 \in 1 .. Len(a)
  BY <1>1
<1>3. \A j \in 1 .. Len(a) : a[j] = w => n + 1 <= j
  <2>1. \A j \in 1 .. Len(a) : j \in 1 .. n \/ n + 1 <= j
    BY <1>1
  <2> QED
    BY <1>1, <2>1
<1>4. RemoveFirst(a, w) = r
  BY <1>1, <1>2, <1>3, RemoveFirstIndex
<1>5. r \in Seq(S) /\ Len(r) = n /\ \A j \in 1 .. n : r[j] = a[j]
  <2> DEFINE u == SubSeq(a, 1, n)
  <2>1. \A k \in 1 .. n : k \in 1 .. Len(a) /\ a[k] \in S
    BY <1>1, ElementOfSeq
  <2>2. /\ u \in Seq(S) /\ Len(u) = IF 1 <= n THEN n - 1 + 1 ELSE 0
        /\ \A j \in 1 .. n - 1 + 1 : u[j] = a[1 + j - 1]
    BY <1>1, <2>1, SubSeqProperties
  <2>3. SubSeq(a, n + 2, n + 1) = << >>
    BY <1>1, SubSeqEmpty
  <2>4. r = u \o << >>
    <3>1. (n + 1) - 1 = n /\ (n + 1) + 1 = n + 2 /\ Len(a) = n + 1
      BY <1>1
    <3> QED
      BY <2>3, <3>1 DEF RemoveAt
  <2> HIDE DEF u, r
  <2>5. r = u
    BY <2>2, <2>4, ConcatEmptySeq
  <2> QED
    BY <1>1, <2>2, <2>5
<1> HIDE DEF r
<1>6. r = q
  BY <1>1, <1>5, SeqEqual
<1> QED
  BY <1>4, <1>6 DEF a

\* Removing an element that was put in front.
LEMMA RemoveFirstCons ==
  ASSUME NEW S, NEW q \in Seq(S), NEW w \in S
  PROVE  RemoveFirst(<<w>> \o q, w) = q
<1> DEFINE a == <<w>> \o q
           n == Len(q)
           r == RemoveAt(a, 1)
<1>1. /\ a \in Seq(S) /\ Len(a) = n + 1 /\ a[1] = w /\ n \in Nat
      /\ \A k \in 1 .. n : a[k + 1] = q[k]
  <2> DEFINE x == <<w>>
  <2>1. x \in Seq(S) /\ Len(x) = 1 /\ x[1] = w /\ n \in Nat
    BY LenProperties
  <2> HIDE DEF x
  <2>2. /\ x \o q \in Seq(S) /\ Len(x \o q) = Len(x) + Len(q)
        /\ \A i \in 1 .. Len(x) + Len(q) : (x \o q)[i] = IF i <= Len(x) THEN x[i] ELSE q[i - Len(x)]
    BY <2>1, ConcatProperties
  <2>3. a = x \o q
    BY DEF x
  <2> HIDE DEF a, n
  <2>4. (x \o q)[1] = w
    BY <2>1, <2>2 DEF n
  <2>5. \A k \in 1 .. n : (x \o q)[k + 1] = q[k]
    <3> SUFFICES ASSUME NEW k \in 1 .. n PROVE (x \o q)[k + 1] = q[k]
      OBVIOUS
    <3>1. k + 1 \in 1 .. Len(x) + Len(q) /\ ~ (k + 1 <= Len(x)) /\ (k + 1) - Len(x) = k
      BY <2>1 DEF n
    <3> QED
      BY <2>2, <3>1
  <2>6. Len(x \o q) = n + 1
    BY <2>1, <2>2 DEF n
  <2> QED
    BY <2>1, <2>2, <2>3, <2>4, <2>5, <2>6
<1> HIDE DEF a
<1>2. 1 \in 1 .. Len(a) /\ \A j \in 1 .. Len(a) : a[j] = w => 1 <= j
  BY <1>1
<1>3. RemoveFirst(a, w) = r
  BY <1>1, <1>2, RemoveFirstIndex
<1>4. r \in Seq(S) /\ Len(r) = n /\ \A j \in 1 .. n : r[j] = a[j + 1]
  <2> DEFINE u == SubSeq(a, 2, n + 1)
  <2>1. \A k \in 2 .. n + 1 : k \in 1 .. Len(a) /\ a[k] \in S
    BY <1>1, ElementOfSeq
  <2>2. /\ u \in Seq(S) /\ Len(u) = IF 2 <= n + 1 THEN n + 1 - 2 + 1 ELSE 0
        /\ \A j \in 1 .. n + 1 - 2 + 1 : u[j] = a[2 + j - 1]
    BY <1>1, <2>1, SubSeqProperties
  <2>3. SubSeq(a, 1, 0) = << >>
    BY SubSeqEmpty
  <2>4. r = << >> \o u
    BY <1>1, <2>3 DEF RemoveAt
  <2> HIDE DEF u, r
  <2>5. r = u
    BY <2>2, <2>4, ConcatEmptySeq
  <2>6. \A j \in 1 .. n : j \in 1 .. n + 1 - 2 + 1 /\ 2 + j - 1 = j + 1
    BY <1>1
  <2> QED
    BY <1>1, <2>2, <2>5, <2>6
<1> HIDE DEF r
<1>5. r = q
  BY <1>1, <1>4, SeqEqual
<1> QED
  BY <1>3, <1>5 DEF a

-----------------------------------------------------------------------------
\* Lists of the members of a set.
LEMMA ListFront ==
  ASSUME NEW S, NEW q, ListOf(q, S), q # << >>
  PROVE  ListOf(Front(q), S \ {Last(q)}) /\ Last(q) \in S
<1> DEFINE f == Front(q)
           x == Last(q)
           n == Len(q)
<1>1. q \in Seq(S) /\ n \in Nat /\ n # 0 /\ DOMAIN q = 1 .. n
  BY EmptySeq, LenProperties DEF ListOf
<1>2. /\ f \in Seq(S) /\ Len(f) = n - 1 /\ x \in S /\ x = q[n]
      /\ \A k \in 1 .. n - 1 : f[k] = q[k]
  BY <1>1, FrontAppend DEF Last
<1>3. DOMAIN f = 1 .. n - 1
  BY <1>2, LenProperties
<1>4. \A i, j \in 1 .. n : q[i] = q[j] => i = j
  BY <1>1 DEF ListOf, IsInjective
<1> HIDE DEF f, x, n
<1>5. \A k \in 1 .. n - 1 : k \in 1 .. n /\ k # n /\ q[k] \in S
  <2>1. \A k \in 1 .. n - 1 : k \in 1 .. n /\ k # n
    BY <1>1
  <2>2. \A k \in 1 .. n : q[k] \in S
    BY <1>1, ElementOfSeq DEF n
  <2> QED
    BY <2>1, <2>2
<1>6. \A k \in 1 .. n - 1 : f[k] \in S \ {x}
  <2> SUFFICES ASSUME NEW k \in 1 .. n - 1 PROVE f[k] \in S \ {x}
    OBVIOUS
  <2>1. n \in 1 .. n
    BY <1>1
  <2>2. q[k] # q[n]
    BY <1>4, <1>5, <2>1
  <2> QED
    BY <1>2, <1>5, <2>2
<1>7. f \in Seq(S \ {x})
  <2>1. f = [k \in 1 .. n - 1 |-> f[k]]
    BY <1>2, <1>3
  <2>2. n - 1 \in Nat
    BY <1>1
  <2> QED
    BY <1>2, <1>3, <1>6, <2>1, <2>2
<1>8. IsInjective(f)
  BY <1>2, <1>3, <1>4, <1>5 DEF IsInjective
<1>9. \A y \in S \ {x} : \E k \in 1 .. n - 1 : f[k] = y
  <2> SUFFICES ASSUME NEW y \in S \ {x} PROVE \E k \in 1 .. n - 1 : f[k] = y
    OBVIOUS
  <2>1. PICK k \in 1 .. n : q[k] = y
    BY <1>1 DEF ListOf
  <2>2. k # n
    BY <1>2, <2>1
  <2>3. k \in 1 .. n - 1
    BY <1>1, <2>2
  <2> QED
    BY <1>2, <2>1, <2>3
<1> QED
  BY <1>2, <1>3, <1>7, <1>8, <1>9 DEF ListOf, f, x

\* A list without its first member.
LEMMA ListTail ==
  ASSUME NEW S, NEW q, ListOf(q, S), q # << >>
  PROVE  /\ ListOf(Tail(q), S \ {Head(q)}) /\ Head(q) \in S
         /\ <<Head(q)>> \o Tail(q) = q
<1> DEFINE f == Tail(q)
           x == Head(q)
           n == Len(q)
<1>1. q \in Seq(S) /\ n \in Nat /\ n # 0 /\ DOMAIN q = 1 .. n
  BY EmptySeq, LenProperties DEF ListOf
<1>2. /\ f \in Seq(S) /\ Len(f) = n - 1 /\ x \in S /\ x = q[1]
      /\ \A k \in 1 .. n - 1 : f[k] = q[k + 1]
  BY <1>1, HeadTailProperties
<1>3. DOMAIN f = 1 .. n - 1
  BY <1>2, LenProperties
<1>4. \A i, j \in 1 .. n : q[i] = q[j] => i = j
  BY <1>1 DEF ListOf, IsInjective
<1>10. <<x>> \o f = q
  BY <1>1, HeadTailProperties
<1> HIDE DEF f, x, n
<1>5. \A k \in 1 .. n - 1 : k + 1 \in 1 .. n /\ k + 1 # 1
  BY <1>1
<1>6. \A k \in 1 .. n - 1 : f[k] \in S \ {x}
  <2> SUFFICES ASSUME NEW k \in 1 .. n - 1 PROVE f[k] \in S \ {x}
    OBVIOUS
  <2>1. 1 \in 1 .. n
    BY <1>1
  <2>2. q[k + 1] # q[1]
    BY <1>4, <1>5, <2>1
  <2>3. f[k] \in S
    BY <1>2, <1>3, ElementOfSeq
  <2> QED
    BY <1>2, <2>2, <2>3
<1>7. f \in Seq(S \ {x})
  <2>1. f = [k \in 1 .. n - 1 |-> f[k]]
    BY <1>2, <1>3
  <2>2. n - 1 \in Nat
    BY <1>1
  <2> QED
    BY <1>2, <1>3, <1>6, <2>1, <2>2
<1>8. IsInjective(f)
  <2> SUFFICES ASSUME NEW i \in 1 .. n - 1, NEW j \in 1 .. n - 1, f[i] = f[j] PROVE i = j
    BY <1>3 DEF IsInjective
  <2>1. q[i + 1] = q[j + 1]
    BY <1>2
  <2>2. i + 1 = j + 1
    BY <1>4, <1>5, <2>1
  <2> QED
    BY <2>2
<1>9. \A y \in S \ {x} : \E k \in 1 .. n - 1 : f[k] = y
  <2> SUFFICES ASSUME NEW y \in S \ {x} PROVE \E k \in 1 .. n - 1 : f[k] = y
    OBVIOUS
  <2>1. PICK k \in 1 .. n : q[k] = y
    BY <1>1 DEF ListOf
  <2>2. k # 1
    BY <1>2, <2>1
  <2>3. k - 1 \in 1 .. n - 1 /\ (k - 1) + 1 = k
    BY <1>1, <2>2
  <2>4. f[k - 1] = y
    BY <1>2, <2>1, <2>3
  <2> QED
    BY <2>3, <2>4
<1> QED
  BY <1>2, <1>3, <1>7, <1>8, <1>9, <1>10 DEF ListOf, f, x

\* Two lists of disjoint sets.
LEMMA ListConcat ==
  ASSUME NEW S, NEW T, S \cap T = {}, NEW p, ListOf(p, S), NEW q, ListOf(q, T)
  PROVE  ListOf(p \o q, S \cup T)
<1> DEFINE m == Len(p)
           n == Len(q)
           r == p \o q
<1>1. /\ p \in Seq(S) /\ q \in Seq(T) /\ m \in Nat /\ n \in Nat
      /\ DOMAIN p = 1 .. m /\ DOMAIN q = 1 .. n
  BY LenProperties DEF ListOf
<1>2. /\ \A k \in 1 .. m : p[k] \in S
      /\ \A k \in 1 .. n : q[k] \in T
  BY <1>1, ElementOfSeq
<1>3. p \in Seq(S \cup T) /\ q \in Seq(S \cup T)
  <2>1. p \in [1 .. m -> S \cup T] /\ q \in [1 .. n -> S \cup T]
    BY <1>1, <1>2
  <2> QED
    BY <1>1, <2>1
<1>4. /\ r \in Seq(S \cup T) /\ Len(r) = m + n
      /\ \A k \in 1 .. m + n : r[k] = IF k <= m THEN p[k] ELSE q[k - m]
  BY <1>3, ConcatProperties
<1>5. DOMAIN r = 1 .. m + n
  BY <1>4, LenProperties
<1>6. \A k \in 1 .. m + n : \/ k \in 1 .. m /\ r[k] = p[k] /\ r[k] \in S
                            \/ k - m \in 1 .. n /\ r[k] = q[k - m] /\ r[k] \in T
  <2> HIDE DEF m, n, r
  <2> SUFFICES ASSUME NEW k \in 1 .. m + n
               PROVE  \/ k \in 1 .. m /\ r[k] = p[k] /\ r[k] \in S
                      \/ k - m \in 1 .. n /\ r[k] = q[k - m] /\ r[k] \in T
    OBVIOUS
  <2>1. CASE k <= m
    BY <1>1, <1>2, <1>4, <2>1
  <2>2. CASE ~ (k <= m)
    <3>1. k - m \in 1 .. n
      BY <1>1, <2>2
    <3> QED
      BY <1>2, <1>4, <2>2, <3>1
  <2> QED
    BY <2>1, <2>2
<1>7. /\ \A i, j \in 1 .. m : p[i] = p[j] => i = j
      /\ \A i, j \in 1 .. n : q[i] = q[j] => i = j
  BY <1>1 DEF ListOf, IsInjective
<1> HIDE DEF m, n, r
<1>8. IsInjective(r)
  <2> SUFFICES ASSUME NEW i \in 1 .. m + n, NEW j \in 1 .. m + n, r[i] = r[j] PROVE i = j
    BY <1>5 DEF IsInjective
  <2>1. CASE i \in 1 .. m /\ r[i] = p[i] /\ r[i] \in S
    BY <1>6, <1>7, <2>1
  <2>2. CASE i - m \in 1 .. n /\ r[i] = q[i - m] /\ r[i] \in T
    <3>1. j - m \in 1 .. n /\ r[j] = q[j - m]
      BY <1>6, <2>2
    <3>2. i - m = j - m
      BY <1>7, <2>2, <3>1
    <3> QED
      BY <1>1, <3>2
  <2> QED
    BY <1>6, <2>1, <2>2
<1>9. \A y \in S \cup T : \E k \in 1 .. m + n : r[k] = y
  <2> SUFFICES ASSUME NEW y \in S \cup T PROVE \E k \in 1 .. m + n : r[k] = y
    OBVIOUS
  <2>1. CASE y \in S
    <3>1. PICK k \in 1 .. m : p[k] = y
      BY <1>1, <2>1 DEF ListOf
    <3>2. k \in 1 .. m + n /\ k <= m
      BY <1>1
    <3> QED
      BY <1>4, <3>1, <3>2
  <2>2. CASE y \in T
    <3>1. PICK k \in 1 .. n : q[k] = y
      BY <1>1, <2>2 DEF ListOf
    <3>2. m + k \in 1 .. m + n /\ ~ (m + k <= m) /\ (m + k) - m = k
      BY <1>1
    <3> QED
      BY <1>4, <3>1, <3>2
  <2> QED
    BY <2>1, <2>2
<1> QED
  BY <1>4, <1>5, <1>8, <1>9 DEF ListOf, r

\* The list of one member.
LEMMA ListOne ==
  ASSUME NEW w
  PROVE  ListOf(<<w>>, {w})
<1> DEFINE x == <<w>>
<1>1. x \in Seq({w}) /\ DOMAIN x = {1} /\ x[1] = w
  OBVIOUS
<1> HIDE DEF x
<1>2. ListOf(x, {w})
  BY <1>1 DEF ListOf, IsInjective
<1> QED
  BY <1>2 DEF x

\* A list with a new member in front; removing it gives the list back.
LEMMA ListCons ==
  ASSUME NEW S, NEW q, ListOf(q, S), NEW w, w \notin S
  PROVE  ListOf(<<w>> \o q, S \cup {w}) /\ RemoveFirst(<<w>> \o q, w) = q
<1> DEFINE x == <<w>>
<1>1. ListOf(x, {w})
  BY ListOne
<1>2. q \in Seq(S \cup {w})
  <2>1. q \in Seq(S) /\ Len(q) \in Nat /\ DOMAIN q = 1 .. Len(q)
    BY LenProperties DEF ListOf
  <2>2. q \in [1 .. Len(q) -> S \cup {w}]
    BY <2>1, ElementOfSeq
  <2> QED
    BY <2>1, <2>2
<1>3. RemoveFirst(<<w>> \o q, w) = q
  BY <1>2, RemoveFirstCons
<1> HIDE DEF x
<1>4. {w} \cap S = {} /\ {w} \cup S = S \cup {w}
  OBVIOUS
<1>5. ListOf(x \o q, {w} \cup S)
  BY <1>1, <1>4, ListConcat
<1> QED
  BY <1>3, <1>4, <1>5 DEF x

\* A list with a new member at its end; removing it gives the list back.
LEMMA ListAppend ==
  ASSUME NEW S, NEW q, ListOf(q, S), NEW w, w \notin S
  PROVE  ListOf(Append(q, w), S \cup {w}) /\ RemoveFirst(Append(q, w), w) = q
<1> DEFINE x == <<w>>
<1>1. ListOf(x, {w})
  BY ListOne
<1>2. q \in Seq(S) /\ Len(q) \in Nat /\ DOMAIN q = 1 .. Len(q) /\ \A k \in 1 .. Len(q) : q[k] \in S
  <2>1. q \in Seq(S)
    BY DEF ListOf
  <2> QED
    BY <2>1, LenProperties, ElementOfSeq
<1>3. q \in Seq(S \cup {w})
  <2>1. q \in [1 .. Len(q) -> S \cup {w}]
    BY <1>2
  <2> QED
    BY <1>2, <2>1
<1>4. RemoveFirst(Append(q, w), w) = q
  <2>1. \A k \in 1 .. Len(q) : q[k] # w
    BY <1>2
  <2> QED
    BY <1>3, <2>1, RemoveFirstAppend
<1>5. Append(q, w) = q \o x
  BY <1>3, AppendIsConcat
<1> HIDE DEF x
<1>6. ListOf(q \o x, S \cup {w})
  BY <1>1, ListConcat
<1> QED
  BY <1>4, <1>5, <1>6

\* A list is as long as the set is large.
LEMMA ListLength ==
  ASSUME NEW S, NEW q, ListOf(q, S)
  PROVE  IsFiniteSet(S) /\ Cardinality(S) = Len(q) /\ Len(q) \in Nat
<1> DEFINE n == Len(q)
<1>1. /\ q \in Seq(S) /\ n \in Nat /\ DOMAIN q = 1 .. n
      /\ \A i, j \in 1 .. n : q[i] = q[j] => i = j
      /\ \A x \in S : \E k \in 1 .. n : q[k] = x
  BY LenProperties DEF ListOf, IsInjective
<1>2. q \in [1 .. n -> S]
  BY <1>1, ElementOfSeq
<1> HIDE DEF n
<1>3. q \in Bijection(1 .. n, S)
  BY <1>1, <1>2 DEF Bijection, Injection, Surjection, IsInjective
<1>4. ExistsBijection(1 .. n, S)
  BY <1>3 DEF ExistsBijection
<1> QED
  BY <1>1, <1>4, FS_CountingElements, FS_NatBijection DEF n

-----------------------------------------------------------------------------
\* Granules and words.
LEMMA QuotientUnique ==
  ASSUME NEW x \in Int, NEW q \in Int, NEW r \in 0 .. VLEN - 1, x = (VLEN * q) + r
  PROVE  x % VLEN = r
BY SizeAssumption

\* Every word of a granule has it as its base.
LEMMA GranuleFacts ==
  ASSUME NEW g \in Granule
  PROVE  /\ g \in Nat /\ Words(g) \subseteq Nat /\ g \in Words(g)
         /\ \A w \in Words(g) : Base(w) = g
         /\ Words(g) \subseteq Word
<1>1. g \in Int /\ g >= VLEN /\ VLEN \in Nat /\ VLEN > 0 /\ SCRATCH \in Nat /\ g % VLEN = 0
  BY SizeAssumption DEF Granule
<1>2. g = (VLEN * (g \div VLEN)) + 0 /\ g \div VLEN \in Int
  BY <1>1
<1>3. ASSUME NEW w \in Words(g) PROVE Base(w) = g
  <2> DEFINE q == g \div VLEN
             r == w - g
  <2>1. w \in Int /\ r \in 0 .. VLEN - 1 /\ q \in Int
    BY <1>1, <1>2 DEF Words
  <2>2. w = (VLEN * q) + r
    BY <1>1, <1>2, <2>1
  <2> HIDE DEF q
  <2>3. w % VLEN = r
    BY <2>1, <2>2, QuotientUnique
  <2> QED
    BY <1>1, <2>1, <2>3 DEF Base
<1> QED
  BY <1>1, <1>3 DEF Words, Word

\* Every word outside the pinned granule lies in the granule of its base.
LEMMA WordFacts ==
  ASSUME NEW w \in Word
  PROVE  w \in Nat /\ Base(w) \in Granule /\ w \in Words(Base(w))
<1>1. PICK g \in Granule : w \in Words(g)
  BY DEF Word
<1> QED
  BY <1>1, GranuleFacts

\* A list of some of the words of a granule.
LEMMA WordList ==
  ASSUME NEW g \in Granule, NEW S \in SUBSET Words(g), NEW q, ListOf(q, S)
  PROVE  q \in Seq(Word) /\ Len(q) \in 0 .. VLEN /\ (Len(q) = VLEN <=> S = Words(g))
<1>1. Words(g) \subseteq Word /\ g \in Nat
  BY GranuleFacts
<1>2. q \in Seq(Word)
  <2>1. q \in Seq(S) /\ Len(q) \in Nat /\ DOMAIN q = 1 .. Len(q)
    BY LenProperties DEF ListOf
  <2>2. q \in [1 .. Len(q) -> Word]
    BY <1>1, <2>1, ElementOfSeq
  <2> QED
    BY <2>1, <2>2
<1>3. IsFiniteSet(S) /\ Cardinality(S) = Len(q) /\ Len(q) \in Nat
  BY ListLength
<1>4. IsFiniteSet(Words(g)) /\ Cardinality(Words(g)) = VLEN
  <2>1. VLEN \in Nat /\ VLEN > 0 /\ g \in Int /\ g + VLEN - 1 \in Int
    BY <1>1, SizeAssumption
  <2>2. IsFiniteSet(Words(g)) /\ Cardinality(Words(g))
          = IF g > g + VLEN - 1 THEN 0 ELSE (g + VLEN - 1) - g + 1
    BY <2>1, FS_Interval DEF Words
  <2>3. ~ (g > g + VLEN - 1) /\ (g + VLEN - 1) - g + 1 = VLEN
    BY <2>1
  <2> QED
    BY <2>2, <2>3
<1>5. /\ Cardinality(S) <= VLEN
      /\ Cardinality(S) = VLEN => S = Words(g)
  BY <1>4, FS_Subset
<1>6. Len(q) \in 0 .. VLEN
  BY <1>3, <1>5, SizeAssumption
<1> QED
  BY <1>2, <1>3, <1>4, <1>5, <1>6

\* The list a granule is split into.
LEMMA SplitList ==
  ASSUME NEW g \in Granule
  PROVE  /\ ListOf(WordsInOrder(g), Words(g)) /\ Len(WordsInOrder(g)) = VLEN
         /\ WordsInOrder(g) # << >> /\ Last(WordsInOrder(g)) = g + VLEN - 1
         /\ g + VLEN - 1 \in Words(g)
<1> DEFINE q == WordsInOrder(g)
<1>1. g \in Nat /\ VLEN \in Nat /\ VLEN > 0
  BY GranuleFacts, SizeAssumption
<1>2. q = [k \in 1 .. VLEN |-> g + k - 1]
  BY DEF WordsInOrder
<1>3. \A k \in 1 .. VLEN : g + k - 1 \in Words(g)
  BY <1>1 DEF Words
<1>4. q \in Seq(Words(g)) /\ Len(q) = VLEN /\ DOMAIN q = 1 .. VLEN
  BY <1>1, <1>2, <1>3
<1>5. IsInjective(q)
  BY <1>1, <1>2 DEF IsInjective
<1>6. ASSUME NEW w \in Words(g) PROVE \E k \in 1 .. VLEN : q[k] = w
  <2>1. w - g + 1 \in 1 .. VLEN /\ g + (w - g + 1) - 1 = w
    BY <1>1 DEF Words
  <2> QED
    BY <1>2, <2>1
<1>7. q # << >> /\ q[VLEN] = g + VLEN - 1
  BY <1>1, <1>2, <1>4
<1> HIDE DEF q
<1> QED
  BY <1>1, <1>3, <1>4, <1>5, <1>6, <1>7 DEF ListOf, Last, q

\* Tables with an entry more and an entry less.
Table(f, D, S) == f \in [D -> S]
Gained(f, D, x, v, h) == /\ DOMAIN f = D /\ DOMAIN h = D \cup {x} /\ h[x] = v
                         /\ \A y \in D : y # x /\ h[y] = f[y]
                         /\ Without(h, x) = f
Lost(f, D, x, h) == /\ DOMAIN f = D /\ DOMAIN h = D \ {x}
                    /\ \A y \in D \ {x} : h[y] = f[y]
                    /\ With(h, x, f[x]) = f

\* A table with an entry more.
LEMMA TableWith ==
  ASSUME NEW S, NEW D, NEW f, Table(f, D, S), NEW x, x \notin D, NEW v \in S
  PROVE  Table(With(f, x, v), D \cup {x}, S) /\ Gained(f, D, x, v, With(f, x, v))
<1>1. DOMAIN f = D /\ f = [y \in D |-> f[y]] /\ \A y \in D : f[y] \in S
  BY DEF Table
<1>2. /\ DOMAIN With(f, x, v) = D \cup {x}
      /\ With(f, x, v)[x] = v
      /\ \A y \in D : y # x /\ With(f, x, v)[y] = f[y]
  BY <1>1 DEF With
<1>3. With(f, x, v) \in [D \cup {x} -> S]
  BY <1>1 DEF With
<1>4. (D \cup {x}) \ {x} = D
  OBVIOUS
<1>5. Without(With(f, x, v), x) = [y \in D |-> With(f, x, v)[y]]
  BY <1>2, <1>4 DEF Without, Restrict
<1>6. [y \in D |-> With(f, x, v)[y]] = [y \in D |-> f[y]]
  BY <1>2
<1> QED
  BY <1>1, <1>2, <1>3, <1>5, <1>6 DEF Table, Gained

\* A table with an entry less.
LEMMA TableWithout ==
  ASSUME NEW S, NEW D, NEW f, Table(f, D, S), NEW x \in D
  PROVE  Table(Without(f, x), D \ {x}, S) /\ Lost(f, D, x, Without(f, x)) /\ f[x] \in S
<1>0. DOMAIN f = D /\ f = [y \in D |-> f[y]] /\ \A y \in D : f[y] \in S
  BY DEF Table
<1>1. /\ DOMAIN Without(f, x) = D \ {x}
      /\ \A y \in D \ {x} : Without(f, x)[y] = f[y]
  BY <1>0 DEF Without, Restrict
<1>2. (D \ {x}) \cup {x} = D
  OBVIOUS
<1>3. Without(f, x) \in [D \ {x} -> S]
  BY <1>0 DEF Without, Restrict
<1>4. With(Without(f, x), x, f[x]) = [y \in D |-> IF y = x THEN f[x] ELSE Without(f, x)[y]]
  BY <1>1, <1>2 DEF With
<1>5. With(Without(f, x), x, f[x]) = [y \in D |-> f[y]]
  BY <1>1, <1>4
<1> QED
  BY <1>0, <1>1, <1>3, <1>5 DEF Table, Lost

-----------------------------------------------------------------------------
\* The registers in use when a value gets or loses one.
Distinct(s) == \A Shape \in {VecTag, ScalarTag} :
                 \A t, u \in Shape \cap DOMAIN s.assigned : s.assigned[t] = s.assigned[u] => t = u

\* What the values of either shape hold once t has w.
LEMMA HeldWith ==
  ASSUME NEW s, NEW u, NEW D, Table(s.assigned, D, Word), NEW t, t \notin D, NEW w \in Word,
         u.assigned = With(s.assigned, t, w),
         NEW Shape, NEW Other, t \in Shape, t \notin Other, {Shape, Other} = {VecTag, ScalarTag},
         Distinct(s), w \notin Held(s, Shape)
  PROVE  /\ Held(u, Shape) = Held(s, Shape) \cup {w} /\ Held(u, Other) = Held(s, Other)
         /\ Distinct(u)
<1>0. Gained(s.assigned, D, t, w, u.assigned)
  <2>1. Gained(s.assigned, D, t, w, With(s.assigned, t, w))
    BY TableWith
  <2> QED
    BY <2>1
<1>1. /\ DOMAIN s.assigned = D /\ DOMAIN u.assigned = D \cup {t} /\ u.assigned[t] = w
      /\ \A y \in D : y # t /\ u.assigned[y] = s.assigned[y]
  BY <1>0 DEF Gained
<1>2. Held(u, Shape) = Held(s, Shape) \cup {w}
  BY <1>1 DEF Held
<1>3. Held(u, Other) = Held(s, Other)
  BY <1>1 DEF Held
<1>4. Distinct(u)
  <2>1. \A y \in Shape \cap D : s.assigned[y] # w
    BY <1>1 DEF Held
  <2>2. \A x, y \in Shape \cap DOMAIN u.assigned : u.assigned[x] = u.assigned[y] => x = y
    BY <1>1, <2>1 DEF Distinct
  <2>3. \A x, y \in Other \cap DOMAIN u.assigned : u.assigned[x] = u.assigned[y] => x = y
    BY <1>1 DEF Distinct
  <2> QED
    BY <2>2, <2>3 DEF Distinct
<1> QED
  BY <1>2, <1>3, <1>4

\* What the values of either shape hold once t has given up its register.
LEMMA HeldWithout ==
  ASSUME NEW s, NEW u, NEW D, Table(s.assigned, D, Word), NEW t \in D,
         u.assigned = Without(s.assigned, t),
         NEW Shape, NEW Other, t \in Shape, t \notin Other, {Shape, Other} = {VecTag, ScalarTag},
         Distinct(s)
  PROVE  /\ Held(u, Shape) = Held(s, Shape) \ {s.assigned[t]} /\ Held(u, Other) = Held(s, Other)
         /\ Distinct(u) /\ s.assigned[t] \in Held(s, Shape) /\ s.assigned[t] \in Word
<1>0. Lost(s.assigned, D, t, u.assigned) /\ s.assigned[t] \in Word
  <2>1. Lost(s.assigned, D, t, Without(s.assigned, t)) /\ s.assigned[t] \in Word
    BY TableWithout
  <2> QED
    BY <2>1
<1>1. /\ DOMAIN s.assigned = D /\ DOMAIN u.assigned = D \ {t} /\ s.assigned[t] \in Word
      /\ \A y \in D \ {t} : u.assigned[y] = s.assigned[y]
  BY <1>0 DEF Lost
<1>2. Held(u, Shape) = Held(s, Shape) \ {s.assigned[t]}
  <2>1. \A y \in Shape \cap D : s.assigned[y] = s.assigned[t] => y = t
    BY <1>1 DEF Distinct
  <2>2. Held(s, Shape) = { s.assigned[y] : y \in Shape \cap D }
    BY <1>1 DEF Held
  <2>3. Held(u, Shape) = { s.assigned[y] : y \in Shape \cap (D \ {t}) }
    BY <1>1 DEF Held
  <2> QED
    BY <2>1, <2>2, <2>3
<1>3. Held(u, Other) = Held(s, Other)
  BY <1>1 DEF Held
<1>4. Distinct(u)
  BY <1>1 DEF Distinct
<1>5. s.assigned[t] \in Held(s, Shape) /\ s.assigned[t] \in Word
  BY <1>1 DEF Held
<1> QED
  BY <1>2, <1>3, <1>4, <1>5

\* The two tables of the values that have a register.
BindingsOK(s) == /\ DOMAIN s.assigned \subseteq Tag
                 /\ Table(s.assigned, DOMAIN s.assigned, Word)
                 /\ Table(s.remaining, DOMAIN s.assigned, Nat)
                 /\ Distinct(s)

Bound(s, u, t, w, Shape, Other) ==
  /\ BindingsOK(u)
  /\ Held(u, Shape) = Held(s, Shape) \cup {w} /\ Held(u, Other) = Held(s, Other)
  /\ Without(u.assigned, t) = s.assigned /\ Without(u.remaining, t) = s.remaining

Freed(s, u, t, w, Shape, Other) ==
  /\ BindingsOK(u)
  /\ w \in Held(s, Shape) /\ w \in Word
  /\ Held(u, Shape) = Held(s, Shape) \ {w} /\ Held(u, Other) = Held(s, Other)
  /\ With(u.assigned, t, w) = s.assigned /\ With(u.remaining, t, s.remaining[t]) = s.remaining

\* The bindings stay sound when a value gets a register no other holds.
LEMMA BindResult ==
  ASSUME NEW s, NEW u, BindingsOK(s), NEW t \in Tag, t \notin DOMAIN s.assigned,
         NEW Shape, NEW Other, t \in Shape, t \notin Other, {Shape, Other} = {VecTag, ScalarTag},
         NEW w \in Word, w \notin Held(s, Shape), NEW n \in Nat,
         u.assigned = With(s.assigned, t, w), u.remaining = With(s.remaining, t, n)
  PROVE  Bound(s, u, t, w, Shape, Other)
<1> DEFINE D == DOMAIN s.assigned
           E == D \cup {t}
<1>1. /\ D \subseteq Tag /\ t \notin D /\ Distinct(s)
      /\ Table(s.assigned, D, Word) /\ Table(s.remaining, D, Nat)
  BY DEF BindingsOK
<1> HIDE DEF D, E
<1>2. /\ Table(With(s.assigned, t, w), E, Word) /\ Gained(s.assigned, D, t, w, With(s.assigned, t, w))
      /\ Table(With(s.remaining, t, n), E, Nat) /\ Gained(s.remaining, D, t, n, With(s.remaining, t, n))
  BY <1>1, TableWith DEF E
<1>3. /\ Held(u, Shape) = Held(s, Shape) \cup {w} /\ Held(u, Other) = Held(s, Other)
      /\ Distinct(u)
  BY <1>1, HeldWith
<1>4. /\ Without(u.assigned, t) = s.assigned /\ Without(u.remaining, t) = s.remaining
      /\ DOMAIN u.assigned = E /\ E \subseteq Tag
  BY <1>1, <1>2 DEF Gained, E
<1> QED
  BY <1>2, <1>3, <1>4 DEF Bound, BindingsOK

\* The bindings stay sound when a value gives up its register.
LEMMA FreeResult ==
  ASSUME NEW s, NEW u, BindingsOK(s), NEW t \in DOMAIN s.assigned,
         NEW Shape, NEW Other, t \in Shape, t \notin Other, {Shape, Other} = {VecTag, ScalarTag},
         u.assigned = Without(s.assigned, t), u.remaining = Without(s.remaining, t)
  PROVE  Freed(s, u, t, s.assigned[t], Shape, Other)
<1> DEFINE D == DOMAIN s.assigned
           E == D \ {t}
<1>1. /\ D \subseteq Tag /\ t \in D /\ Distinct(s)
      /\ Table(s.assigned, D, Word) /\ Table(s.remaining, D, Nat)
  BY DEF BindingsOK
<1> HIDE DEF D, E
<1>2. /\ Table(Without(s.assigned, t), E, Word) /\ Lost(s.assigned, D, t, Without(s.assigned, t))
      /\ Table(Without(s.remaining, t), E, Nat) /\ Lost(s.remaining, D, t, Without(s.remaining, t))
  BY <1>1, TableWithout DEF E
<1>3. /\ Held(u, Shape) = Held(s, Shape) \ {s.assigned[t]} /\ Held(u, Other) = Held(s, Other)
      /\ Distinct(u) /\ s.assigned[t] \in Held(s, Shape) /\ s.assigned[t] \in Word
  BY <1>1, HeldWithout
<1>4. /\ With(u.assigned, t, s.assigned[t]) = s.assigned
      /\ With(u.remaining, t, s.remaining[t]) = s.remaining
      /\ DOMAIN u.assigned = E /\ E \subseteq Tag
  BY <1>1, <1>2 DEF Lost, E
<1> QED
  BY <1>2, <1>3, <1>4 DEF Freed, BindingsOK

\* The pools of free registers.
PoolsTyped(s) == /\ s.freeVec \in Seq(Granule)
                 /\ DOMAIN s.freeWords \subseteq Granule
                 /\ Table(s.freeWords, DOMAIN s.freeWords, Seq(Word))
                 /\ Table(s.freeCount, DOMAIN s.freeWords, 0 .. VLEN)
                 /\ s.claimOf \subseteq Word
VecPool(s) == /\ ListOf(s.freeVec, Granule \ (DOMAIN s.freeWords \cup Held(s, VecTag)))
              /\ Held(s, VecTag) \subseteq Granule \ DOMAIN s.freeWords
WordPool(s) == /\ \A g \in DOMAIN s.freeWords : ListOf(s.freeWords[g], Words(g) \ Held(s, ScalarTag))
               /\ \A w \in Held(s, ScalarTag) : Base(w) \in DOMAIN s.freeWords

\* A good state, part by part.
LEMMA GoodParts ==
  ASSUME NEW s
  PROVE  Good(s) <=> /\ IsRegs(s) /\ BindingsOK(s) /\ PoolsTyped(s)
                     /\ VecPool(s) /\ WordPool(s) /\ CountsAt(s)
<1>1. TypeAt(s) <=> /\ PoolsTyped(s) /\ DOMAIN s.assigned \subseteq Tag
                    /\ Table(s.assigned, DOMAIN s.assigned, Word)
                    /\ Table(s.remaining, DOMAIN s.assigned, Nat)
  BY DEF TypeAt, PoolsTyped, Table
<1>2. PartitionAt(s) <=> VecPool(s) /\ WordPool(s) /\ Distinct(s)
  BY DEF PartitionAt, VecPool, WordPool, Distinct
<1> QED
  BY <1>1, <1>2 DEF Good, BindingsOK

\* The fields of a state that gained or lost a binding.
LEMMA BindFields ==
  ASSUME NEW s, IsRegs(s), NEW t, NEW w, NEW n
  PROVE  Bind(s, t, w, n)
           = [freeVec |-> s.freeVec, freeWords |-> s.freeWords, freeCount |-> s.freeCount,
              claimOf |-> s.claimOf, assigned |-> With(s.assigned, t, w),
              remaining |-> With(s.remaining, t, n)]
<1> DEFINE a == With(s.assigned, t, w)
           m == With(s.remaining, t, n)
<1>1. Bind(s, t, w, n) = [s EXCEPT !.assigned = a, !.remaining = m]
  BY DEF Bind
<1> HIDE DEF a, m
<1>2. Bind(s, t, w, n)
        = [freeVec |-> s.freeVec, freeWords |-> s.freeWords, freeCount |-> s.freeCount,
           claimOf |-> s.claimOf, assigned |-> a, remaining |-> m]
  BY <1>1 DEF IsRegs
<1> QED
  BY <1>2 DEF a, m

\* The same for a binding less.
LEMMA UnbindFields ==
  ASSUME NEW s, IsRegs(s), NEW t
  PROVE  Unbind(s, t)
           = [freeVec |-> s.freeVec, freeWords |-> s.freeWords, freeCount |-> s.freeCount,
              claimOf |-> s.claimOf, assigned |-> Without(s.assigned, t),
              remaining |-> Without(s.remaining, t)]
<1> DEFINE a == Without(s.assigned, t)
           m == Without(s.remaining, t)
<1>1. Unbind(s, t) = [s EXCEPT !.assigned = a, !.remaining = m]
  BY DEF Unbind
<1> HIDE DEF a, m
<1>2. Unbind(s, t)
        = [freeVec |-> s.freeVec, freeWords |-> s.freeWords, freeCount |-> s.freeCount,
           claimOf |-> s.claimOf, assigned |-> a, remaining |-> m]
  BY <1>1 DEF IsRegs
<1> QED
  BY <1>2 DEF a, m

Popped(f, g) == [f EXCEPT ![g] = Front(@)]
Added(f, w) == [f EXCEPT ![Base(w)] = Append(@, w)]
Dropped(f, w) == [f EXCEPT ![Base(w)] = RemoveFirst(@, w)]
Less(f, g) == [f EXCEPT ![g] = @ - 1]
More(f, g) == [f EXCEPT ![g] = @ + 1]

\* The fields of a state in which a word was handed out.
LEMMA PopFields ==
  ASSUME NEW s, IsRegs(s), NEW g
  PROVE  PopWord(s, g)
           = [freeVec |-> s.freeVec, freeWords |-> Popped(s.freeWords, g), freeCount |-> Less(s.freeCount, g),
              claimOf |-> s.claimOf, assigned |-> s.assigned, remaining |-> s.remaining]
<1> DEFINE a == Popped(s.freeWords, g)
           m == Less(s.freeCount, g)
<1>1. PopWord(s, g) = [s EXCEPT !.freeWords = a, !.freeCount = m]
  BY DEF PopWord, Popped, Less
<1> HIDE DEF a, m
<1>2. PopWord(s, g)
        = [freeVec |-> s.freeVec, freeWords |-> a, freeCount |-> m,
           claimOf |-> s.claimOf, assigned |-> s.assigned, remaining |-> s.remaining]
  BY ONLY <1>1, IsRegs(s) DEF IsRegs
<1> QED
  BY <1>2 DEF a, m

\* The fields of a state in which a word was put back.
LEMMA PutFields ==
  ASSUME NEW s, IsRegs(s), NEW w
  PROVE  PutWord(s, w)
           = [freeVec |-> s.freeVec, freeWords |-> Added(s.freeWords, w), freeCount |-> More(s.freeCount, Base(w)),
              claimOf |-> s.claimOf, assigned |-> s.assigned, remaining |-> s.remaining]
<1> DEFINE a == Added(s.freeWords, w)
           m == More(s.freeCount, Base(w))
<1>1. PutWord(s, w) = [s EXCEPT !.freeWords = a, !.freeCount = m]
  BY DEF PutWord, Added, More
<1> HIDE DEF a, m
<1>2. PutWord(s, w)
        = [freeVec |-> s.freeVec, freeWords |-> a, freeCount |-> m,
           claimOf |-> s.claimOf, assigned |-> s.assigned, remaining |-> s.remaining]
  BY ONLY <1>1, IsRegs(s) DEF IsRegs
<1> QED
  BY <1>2 DEF a, m

\* The fields of a state in which a free word was taken out of its list.
LEMMA TakeFields ==
  ASSUME NEW s, IsRegs(s), NEW w
  PROVE  TakeWord(s, w)
           = [freeVec |-> s.freeVec, freeWords |-> Dropped(s.freeWords, w), freeCount |-> Less(s.freeCount, Base(w)),
              claimOf |-> s.claimOf, assigned |-> s.assigned, remaining |-> s.remaining]
<1> DEFINE a == Dropped(s.freeWords, w)
           m == Less(s.freeCount, Base(w))
<1>1. TakeWord(s, w) = [s EXCEPT !.freeWords = a, !.freeCount = m]
  BY DEF TakeWord, Dropped, Less
<1> HIDE DEF a, m
<1>2. TakeWord(s, w)
        = [freeVec |-> s.freeVec, freeWords |-> a, freeCount |-> m,
           claimOf |-> s.claimOf, assigned |-> s.assigned, remaining |-> s.remaining]
  BY ONLY <1>1, IsRegs(s) DEF IsRegs
<1> QED
  BY <1>2 DEF a, m

-----------------------------------------------------------------------------
\* Each call makes a good state from a good state, and undoing its log entry
\* gives the first one back.

\* The states after a write of either shape, and before an unwrite or a last
\* read is taken back.
VecWritten(s, t, g, n) == Bind([s EXCEPT !.freeVec = Tail(@)], t, g, n)
ClaimWritten(s, t, g, w, n) ==
  [Bind(PopWord(Claim(s, g), g), t, w, n) EXCEPT !.claimOf = @ \cup {w}]
VecUnbound(s, t, q) == [Unbind(s, t) EXCEPT !.freeVec = q]
VecRebound(s, t, g, n) == Bind([s EXCEPT !.freeVec = RemoveFirst(@, g)], t, g, n)
WordUnbound(s, t, w) == [PutWord(Unbind(s, t), w) EXCEPT !.claimOf = @ \ {w}]
ClaimUnbound(s, t, g, w) == [Unclaim(Unbind(s, t), g) EXCEPT !.claimOf = @ \ {w}]
ClaimRebound(s, t, g, w, n) ==
  Bind(TakeWord([Claim(s, g) EXCEPT !.freeVec = RemoveFirst(s.freeVec, g),
                                    !.claimOf = @ \cup {w}], w), t, w, n)

WriteUndone(u, e, s) == UndoWrite(u, e) = s
VecRegained(u, t, g, n, s) == VecRebound(u, t, g, n) = s
WordRegained(u, e, t, w, n, s) == Bind(RetakeWord(u, e), t, w, n) = s
ClaimRegained(u, t, g, w, n, s) == ClaimRebound(u, t, g, w, n) = s
FreshClaim(u, g, w) == /\ Base(w) = g /\ w \in u.claimOf
                       /\ u.freeCount[g] = VLEN - 1 /\ u.freeWords[g] = Front(WordsInOrder(g))

\* write(t) of a vector tag.
LEMMA VecTaken ==
  ASSUME NEW s, Good(s), NEW t \in VecTag, t \notin DOMAIN s.assigned, Len(s.freeVec) > 0,
         NEW n \in Nat, NEW g, g = Head(s.freeVec),
         NEW u, u = VecWritten(s, t, g, n)
  PROVE  Good(u) /\ WriteUndone(u, Entry("W", t, g, FALSE), s)
<1>1. u = [freeVec |-> Tail(s.freeVec), freeWords |-> s.freeWords, freeCount |-> s.freeCount,
           claimOf |-> s.claimOf, assigned |-> With(s.assigned, t, g),
           remaining |-> With(s.remaining, t, n)]
  BY DEF Good, IsRegs, Bind, VecWritten
<1>2. /\ u.freeVec = Tail(s.freeVec) /\ u.freeWords = s.freeWords /\ u.freeCount = s.freeCount
      /\ u.claimOf = s.claimOf /\ u.assigned = With(s.assigned, t, g)
      /\ u.remaining = With(s.remaining, t, n)
  BY ONLY <1>1
<1>3. IsRegs(u)
  BY <1>1, <1>2 DEF IsRegs
<1>4. /\ IsRegs(s) /\ BindingsOK(s) /\ PoolsTyped(s) /\ VecPool(s) /\ WordPool(s) /\ CountsAt(s)
  BY GoodParts
<1>5. /\ ListOf(Tail(s.freeVec), (Granule \ (DOMAIN s.freeWords \cup Held(s, VecTag))) \ {g})
      /\ g \in Granule \ (DOMAIN s.freeWords \cup Held(s, VecTag))
      /\ <<g>> \o Tail(s.freeVec) = s.freeVec
  <2>1. ListOf(s.freeVec, Granule \ (DOMAIN s.freeWords \cup Held(s, VecTag)))
    BY <1>4 DEF VecPool
  <2>2. s.freeVec # << >>
    OBVIOUS
  <2> QED
    BY <2>1, <2>2, ListTail
<1>6. g \in Granule /\ g \in Word /\ t \notin ScalarTag /\ t \in Tag
  BY <1>5, GranuleFacts, SizeAssumption DEF Tag
<1>7. Bound(s, u, t, g, VecTag, ScalarTag)
  BY <1>2, <1>4, <1>5, <1>6, BindResult
<1>8. PoolsTyped(u)
  <2>1. Tail(s.freeVec) \in Seq(Granule)
    BY <1>4, <1>5, HeadTailProperties DEF PoolsTyped
  <2> QED
    BY <1>2, <1>4, <2>1 DEF PoolsTyped
<1>9. VecPool(u)
  <2>1. Granule \ (DOMAIN s.freeWords \cup Held(u, VecTag))
          = (Granule \ (DOMAIN s.freeWords \cup Held(s, VecTag))) \ {g}
    BY <1>7 DEF Bound
  <2>2. ListOf(u.freeVec, Granule \ (DOMAIN u.freeWords \cup Held(u, VecTag)))
    BY <1>2, <1>5, <2>1
  <2>3. Held(u, VecTag) \subseteq Granule \ DOMAIN u.freeWords
    BY <1>2, <1>4, <1>5, <1>7 DEF VecPool, Bound
  <2> QED
    BY <2>2, <2>3 DEF VecPool
<1>10. WordPool(u) /\ CountsAt(u)
  BY <1>2, <1>4, <1>7 DEF WordPool, CountsAt, Bound
<1>11. UndoWrite(u, Entry("W", t, g, FALSE)) = s
  <2> DEFINE e == Entry("W", t, g, FALSE)
  <2>1. e.kind = "W" /\ e.tag = t /\ e.addr = g
    BY DEF Entry
  <2> HIDE DEF e
  <2>2. UndoWrite(u, e)
          = [u EXCEPT !.assigned = Without(@, t), !.remaining = Without(@, t), !.freeVec = <<g>> \o @]
    BY <2>1 DEF UndoWrite, Unbind
  <2>3. UndoWrite(u, e)
          = [freeVec |-> <<g>> \o Tail(s.freeVec), freeWords |-> s.freeWords, freeCount |-> s.freeCount,
             claimOf |-> s.claimOf, assigned |-> Without(u.assigned, t),
             remaining |-> Without(u.remaining, t)]
    BY ONLY <1>1, <2>2
  <2> QED
    BY <1>4, <1>5, <1>7, <2>3 DEF IsRegs, Bound, e
<1> QED
  BY <1>3, <1>7, <1>8, <1>9, <1>10, <1>11, GoodParts DEF Bound, WriteUndone

\* The last read of a vector tag, or an unwrite of it: the granule goes to one
\* end of the deque.
LEMMA VecReturned ==
  ASSUME NEW s, Good(s), NEW t \in VecTag, t \in DOMAIN s.assigned, NEW g, g = s.assigned[t],
         NEW q, q \in {<<g>> \o s.freeVec, Append(s.freeVec, g)},
         NEW u, u = VecUnbound(s, t, q)
  PROVE  Good(u) /\ VecRegained(u, t, g, s.remaining[t], s)
<1>1. u = [freeVec |-> q, freeWords |-> s.freeWords, freeCount |-> s.freeCount,
           claimOf |-> s.claimOf, assigned |-> Without(s.assigned, t),
           remaining |-> Without(s.remaining, t)]
  BY DEF Good, IsRegs, Unbind, VecUnbound
<1>2. /\ u.freeVec = q /\ u.freeWords = s.freeWords /\ u.freeCount = s.freeCount
      /\ u.claimOf = s.claimOf /\ u.assigned = Without(s.assigned, t)
      /\ u.remaining = Without(s.remaining, t)
  BY ONLY <1>1
<1>3. IsRegs(u)
  BY <1>1, <1>2 DEF IsRegs
<1>4. /\ IsRegs(s) /\ BindingsOK(s) /\ PoolsTyped(s) /\ VecPool(s) /\ WordPool(s) /\ CountsAt(s)
  BY GoodParts
<1>5. Freed(s, u, t, g, VecTag, ScalarTag)
  <2>1. t \notin ScalarTag
    BY SizeAssumption
  <2> QED
    BY <1>2, <1>4, <2>1, FreeResult
<1>6. g \in Granule /\ g \notin DOMAIN s.freeWords /\ g \in Held(s, VecTag)
  BY <1>4, <1>5 DEF VecPool, Freed
<1> DEFINE S == Granule \ (DOMAIN s.freeWords \cup Held(s, VecTag))
<1>7. ListOf(s.freeVec, S) /\ g \notin S
  BY <1>4, <1>6 DEF VecPool
<1>8. S \cup {g} = Granule \ (DOMAIN s.freeWords \cup Held(u, VecTag))
  BY <1>5, <1>6 DEF Freed
<1> HIDE DEF S
<1>9. ListOf(q, S \cup {g}) /\ RemoveFirst(q, g) = s.freeVec
  <2> DEFINE d == s.freeVec
  <2>1. ListOf(d, S) /\ g \notin S
    BY <1>7
  <2> HIDE DEF d
  <2>2. ListOf(<<g>> \o d, S \cup {g}) /\ RemoveFirst(<<g>> \o d, g) = d
    BY ONLY <2>1, ListCons
  <2>3. ListOf(Append(d, g), S \cup {g}) /\ RemoveFirst(Append(d, g), g) = d
    BY ONLY <2>1, ListAppend
  <2> QED
    BY <2>2, <2>3 DEF d
<1>10. VecPool(u)
  BY <1>2, <1>4, <1>5, <1>8, <1>9 DEF VecPool, Freed
<1>11. q \in Seq(Granule)
  <2> DEFINE x == <<g>>
  <2>1. x \in Seq(Granule) /\ s.freeVec \in Seq(Granule)
    BY <1>4, <1>6 DEF PoolsTyped
  <2> HIDE DEF x
  <2>2. x \o s.freeVec \in Seq(Granule) /\ Append(s.freeVec, g) \in Seq(Granule)
    BY <1>6, <2>1, ConcatProperties, AppendProperties
  <2> QED
    BY <2>2 DEF x
<1>12. PoolsTyped(u)
  BY <1>2, <1>4, <1>11 DEF PoolsTyped
<1>13. WordPool(u) /\ CountsAt(u)
  BY <1>2, <1>4, <1>5 DEF WordPool, CountsAt, Freed
<1>14. Bind([u EXCEPT !.freeVec = RemoveFirst(@, g)], t, g, s.remaining[t])
         = [freeVec |-> RemoveFirst(q, g), freeWords |-> s.freeWords, freeCount |-> s.freeCount,
            claimOf |-> s.claimOf, assigned |-> With(Without(s.assigned, t), t, g),
            remaining |-> With(Without(s.remaining, t), t, s.remaining[t])]
  <2> DEFINE v == [u EXCEPT !.freeVec = RemoveFirst(@, g)]
             a == Without(s.assigned, t)
             m == Without(s.remaining, t)
             n == s.remaining[t]
             r == RemoveFirst(q, g)
  <2>1. v = [freeVec |-> r, freeWords |-> s.freeWords, freeCount |-> s.freeCount,
             claimOf |-> s.claimOf, assigned |-> a, remaining |-> m]
    BY ONLY <1>1
  <2> HIDE DEF v, a, m, n, r
  <2>2. IsRegs(v) /\ v.freeVec = r /\ v.freeWords = s.freeWords /\ v.freeCount = s.freeCount
        /\ v.claimOf = s.claimOf /\ v.assigned = a /\ v.remaining = m
    BY ONLY <2>1 DEF IsRegs
  <2>3. Bind(v, t, g, n) = [freeVec |-> r, freeWords |-> s.freeWords, freeCount |-> s.freeCount,
             claimOf |-> s.claimOf, assigned |-> With(a, t, g), remaining |-> With(m, t, n)]
    BY <2>2, BindFields
  <2> QED
    BY <2>3 DEF v, a, m, n, r
<1> QED
  <2>1. Good(u)
    BY <1>3, <1>5, <1>10, <1>12, <1>13, GoodParts DEF Freed
  <2>2. With(Without(s.assigned, t), t, g) = s.assigned
        /\ With(Without(s.remaining, t), t, s.remaining[t]) = s.remaining
    BY <1>2, <1>5 DEF Freed
  <2> QED
    BY <1>4, <1>9, <1>14, <2>1, <2>2 DEF IsRegs, VecRebound, VecRegained

\* The free list of one claimed granule changes with the words held of it.
LEMMA WordPoolUpdated ==
  ASSUME NEW s, NEW u, PoolsTyped(s), VecPool(s), WordPool(s), CountsAt(s),
         NEW g \in DOMAIN s.freeWords, NEW w \in Words(g), NEW q, NEW c, c = Len(q),
         u.freeVec = s.freeVec,
         u.freeWords = [s.freeWords EXCEPT ![g] = q], u.freeCount = [s.freeCount EXCEPT ![g] = c],
         ListOf(q, Words(g) \ Held(u, ScalarTag)),
         Held(u, ScalarTag) \ {w} = Held(s, ScalarTag) \ {w}, Held(u, VecTag) = Held(s, VecTag),
         u.claimOf \subseteq Held(u, ScalarTag), u.claimOf \subseteq Word
  PROVE  PoolsTyped(u) /\ VecPool(u) /\ WordPool(u) /\ CountsAt(u)
<1> DEFINE D == DOMAIN s.freeWords
<1>1. /\ D \subseteq Granule /\ s.freeVec \in Seq(Granule)
      /\ s.freeWords \in [D -> Seq(Word)] /\ s.freeCount \in [D -> 0 .. VLEN]
  BY DEF PoolsTyped, Table
<1>2. q \in Seq(Word) /\ c \in 0 .. VLEN
  <2>1. Words(g) \ Held(u, ScalarTag) \in SUBSET Words(g) /\ g \in Granule
    BY <1>1
  <2> QED
    BY <2>1, WordList
<1>3. /\ DOMAIN u.freeWords = D /\ DOMAIN u.freeCount = D
      /\ u.freeWords[g] = q /\ u.freeCount[g] = c
      /\ \A h \in D : h # g => u.freeWords[h] = s.freeWords[h] /\ u.freeCount[h] = s.freeCount[h]
  BY <1>1
<1>4. PoolsTyped(u)
  <2>1. u.freeWords \in [D -> Seq(Word)] /\ u.freeCount \in [D -> 0 .. VLEN]
    BY <1>1, <1>2
  <2> QED
    BY <1>1, <1>3, <2>1 DEF PoolsTyped, Table
<1>5. VecPool(u)
  BY <1>3 DEF VecPool
<1>6. WordPool(u)
  <2>1. ASSUME NEW h \in D PROVE ListOf(u.freeWords[h], Words(h) \ Held(u, ScalarTag))
    <3>1. CASE h = g
      BY <1>3, <3>1
    <3>2. CASE h # g
      <4>1. w \notin Words(h)
        BY <1>1, <3>2, GranuleFacts
      <4>2. Words(h) \ Held(u, ScalarTag) = Words(h) \ Held(s, ScalarTag)
        BY <4>1
      <4>3. ListOf(s.freeWords[h], Words(h) \ Held(s, ScalarTag))
        BY DEF WordPool
      <4> QED
        BY <1>3, <3>2, <4>2, <4>3
    <3> QED
      BY <3>1, <3>2
  <2>2. Base(w) = g
    BY <1>1, GranuleFacts
  <2>3. \A v \in Held(u, ScalarTag) : Base(v) \in D
    BY <2>2 DEF WordPool
  <2> QED
    BY <1>3, <2>1, <2>3 DEF WordPool
<1>7. CountsAt(u)
  BY <1>3 DEF CountsAt
<1> QED
  BY <1>4, <1>5, <1>6, <1>7

\* write(t) of a scalar tag, in a granule already claimed.
LEMMA WordTaken ==
  ASSUME NEW s, Good(s), NEW t \in ScalarTag, t \notin DOMAIN s.assigned,
         NEW g \in DOMAIN s.freeCount, s.freeCount[g] > 0,
         NEW n \in Nat, NEW w, w = Last(s.freeWords[g]),
         NEW u, u = Bind(PopWord(s, g), t, w, n)
  PROVE  Good(u) /\ WriteUndone(u, Entry("Ws", t, w, FALSE), s) /\ w \notin u.claimOf
<1> DEFINE q == Front(s.freeWords[g])
           c == s.freeCount[g] - 1
           fw == Popped(s.freeWords, g)
           fc == Less(s.freeCount, g)
<1>1. u = [freeVec |-> s.freeVec, freeWords |-> fw, freeCount |-> fc,
           claimOf |-> s.claimOf, assigned |-> With(s.assigned, t, w),
           remaining |-> With(s.remaining, t, n)]
  <2> DEFINE v == PopWord(s, g)
  <2>1. v = [freeVec |-> s.freeVec, freeWords |-> fw, freeCount |-> fc,
             claimOf |-> s.claimOf, assigned |-> s.assigned, remaining |-> s.remaining]
    BY PopFields DEF Good
  <2> HIDE DEF v, fw, fc
  <2>2. IsRegs(v) /\ v.freeVec = s.freeVec /\ v.freeWords = fw /\ v.freeCount = fc
        /\ v.claimOf = s.claimOf /\ v.assigned = s.assigned /\ v.remaining = s.remaining
    BY ONLY <2>1 DEF IsRegs
  <2>3. u = Bind(v, t, w, n)
    BY DEF v
  <2> QED
    BY <2>2, <2>3, BindFields
<1>2. /\ u.freeVec = s.freeVec /\ u.freeWords = fw /\ u.freeCount = fc
      /\ u.claimOf = s.claimOf /\ u.assigned = With(s.assigned, t, w)
      /\ u.remaining = With(s.remaining, t, n)
  <2> HIDE DEF fw, fc
  <2> QED
    BY ONLY <1>1
<1>3. IsRegs(u)
  <2> HIDE DEF fw, fc
  <2> QED
    BY <1>1, <1>2 DEF IsRegs
<1>4. /\ IsRegs(s) /\ BindingsOK(s) /\ PoolsTyped(s) /\ VecPool(s) /\ WordPool(s) /\ CountsAt(s)
  BY GoodParts
<1>5. /\ g \in DOMAIN s.freeWords /\ g \in Granule /\ s.freeCount[g] = Len(s.freeWords[g])
      /\ ListOf(s.freeWords[g], Words(g) \ Held(s, ScalarTag))
  BY <1>4 DEF PoolsTyped, Table, WordPool, CountsAt
<1>6. /\ s.freeWords[g] # << >> /\ s.freeWords[g] \in Seq(Word)
      /\ DOMAIN s.freeCount = DOMAIN s.freeWords /\ s.freeCount[g] \in Nat
      /\ s.freeWords = [h \in DOMAIN s.freeWords |-> s.freeWords[h]]
      /\ s.freeCount = [h \in DOMAIN s.freeCount |-> s.freeCount[h]]
  BY <1>4, <1>5, SizeAssumption DEF PoolsTyped, Table
<1>7. ListOf(q, (Words(g) \ Held(s, ScalarTag)) \ {w}) /\ w \in Words(g) \ Held(s, ScalarTag)
  BY <1>5, <1>6, ListFront
<1>8. Len(q) = c /\ Append(q, w) = s.freeWords[g]
  BY <1>5, <1>6, FrontAppend
<1>9. Base(w) = g /\ w \in Word /\ t \notin VecTag /\ t \in Tag
  BY <1>5, <1>7, GranuleFacts, SizeAssumption DEF Tag
<1>10. Bound(s, u, t, w, ScalarTag, VecTag)
  <2>1. {ScalarTag, VecTag} = {VecTag, ScalarTag}
    OBVIOUS
  <2> QED
    BY <1>2, <1>4, <1>7, <1>9, <2>1, BindResult
<1>11. PoolsTyped(u) /\ VecPool(u) /\ WordPool(u) /\ CountsAt(u)
  <2>1. (Words(g) \ Held(s, ScalarTag)) \ {w} = Words(g) \ Held(u, ScalarTag)
    BY <1>10 DEF Bound
  <2>2. Held(u, ScalarTag) \ {w} = Held(s, ScalarTag) \ {w} /\ Held(u, VecTag) = Held(s, VecTag)
    BY <1>10 DEF Bound
  <2>3. u.claimOf \subseteq Held(u, ScalarTag) /\ u.claimOf \subseteq Word
    BY <1>2, <1>4, <1>10 DEF CountsAt, PoolsTyped, Bound
  <2>4. ListOf(q, Words(g) \ Held(u, ScalarTag)) /\ w \in Words(g)
    BY <1>7, <2>1
  <2>5. fw = [s.freeWords EXCEPT ![g] = q] /\ fc = [s.freeCount EXCEPT ![g] = c]
    BY DEF Popped, Less
  <2> HIDE DEF q, c
  <2> QED
    BY <1>2, <1>4, <1>5, <1>8, <2>2, <2>3, <2>4, <2>5, WordPoolUpdated
<1>12. UndoWrite(u, Entry("Ws", t, w, FALSE)) = s
  <2> DEFINE e == Entry("Ws", t, w, FALSE)
             v == Unbind(u, t)
  <2>1. e.kind = "Ws" /\ e.tag = t /\ e.addr = w /\ e.claim = FALSE
    BY DEF Entry
  <2> HIDE DEF e, fw, fc
  <2>2. UndoWrite(u, e) = PutWord(v, w)
    BY <2>1 DEF UndoWrite
  <2>3. v = [freeVec |-> s.freeVec, freeWords |-> fw, freeCount |-> fc, claimOf |-> s.claimOf,
             assigned |-> s.assigned, remaining |-> s.remaining]
    BY <1>2, <1>3, <1>10, UnbindFields DEF Bound
  <2> HIDE DEF v
  <2>4. IsRegs(v) /\ v.freeVec = s.freeVec /\ v.freeWords = fw /\ v.freeCount = fc
        /\ v.claimOf = s.claimOf /\ v.assigned = s.assigned /\ v.remaining = s.remaining
    BY ONLY <2>3 DEF IsRegs
  <2>5. s.freeWords = Added(fw, w)
    BY <1>5, <1>6, <1>8, <1>9 DEF fw, Added, Popped
  <2>6. s.freeCount = More(fc, g)
    BY <1>5, <1>6 DEF fc, More, Less
  <2>7. PutWord(v, w) = [freeVec |-> s.freeVec, freeWords |-> s.freeWords, freeCount |-> s.freeCount,
             claimOf |-> s.claimOf, assigned |-> s.assigned, remaining |-> s.remaining]
    BY <1>9, <2>4, <2>5, <2>6, PutFields
  <2> QED
    BY <1>4, <2>2, <2>7 DEF IsRegs, e
<1> QED
  <2>1. w \notin u.claimOf
    BY <1>2, <1>4, <1>7 DEF CountsAt
  <2> QED
    BY <1>3, <1>10, <1>11, <1>12, <2>1, GoodParts DEF Bound, WriteUndone

\* The last read of a scalar tag, or an unwrite of it that leaves its granule
\* claimed: the word goes back to the free list of the granule.
LEMMA WordReturned ==
  ASSUME NEW s, Good(s), NEW t \in ScalarTag, t \in DOMAIN s.assigned, NEW w, w = s.assigned[t],
         NEW u, u = WordUnbound(s, t, w),
         NEW e, e.addr = w, e.claim = (w \in s.claimOf)
  PROVE  Good(u) /\ WordRegained(u, e, t, w, s.remaining[t], s)
<1> DEFINE g == Base(w)
           q == Append(s.freeWords[g], w)
           c == s.freeCount[g] + 1
           fw == Added(s.freeWords, w)
           fc == More(s.freeCount, g)
           co == s.claimOf \ {w}
<1>1. u = [freeVec |-> s.freeVec, freeWords |-> fw, freeCount |-> fc,
           claimOf |-> co, assigned |-> Without(s.assigned, t),
           remaining |-> Without(s.remaining, t)]
  <2> DEFINE v == Unbind(s, t)
             x == PutWord(v, w)
             a == Without(s.assigned, t)
             m == Without(s.remaining, t)
  <2>1. v = [freeVec |-> s.freeVec, freeWords |-> s.freeWords, freeCount |-> s.freeCount,
             claimOf |-> s.claimOf, assigned |-> a, remaining |-> m]
    BY UnbindFields DEF Good
  <2> HIDE DEF v, a, m
  <2>2. IsRegs(v) /\ v.freeVec = s.freeVec /\ v.freeWords = s.freeWords /\ v.freeCount = s.freeCount
        /\ v.claimOf = s.claimOf /\ v.assigned = a /\ v.remaining = m
    BY ONLY <2>1 DEF IsRegs
  <2> HIDE DEF g, fw, fc, co
  <2>3. x = [freeVec |-> s.freeVec, freeWords |-> fw, freeCount |-> fc,
             claimOf |-> s.claimOf, assigned |-> a, remaining |-> m]
    BY <2>2, PutFields DEF fw, fc, g
  <2>4. u = [x EXCEPT !.claimOf = @ \ {w}]
    BY DEF v, WordUnbound
  <2> HIDE DEF x
  <2>5. u = [x EXCEPT !.claimOf = co]
    BY <2>3, <2>4 DEF co
  <2> QED
    BY ONLY <2>3, <2>5 DEF a, m
<1>2. /\ u.freeVec = s.freeVec /\ u.freeWords = fw /\ u.freeCount = fc
      /\ u.claimOf = co /\ u.assigned = Without(s.assigned, t)
      /\ u.remaining = Without(s.remaining, t)
  <2> HIDE DEF fw, fc, co
  <2> QED
    BY ONLY <1>1
<1>3. IsRegs(u)
  <2> HIDE DEF fw, fc, co
  <2> QED
    BY <1>1, <1>2 DEF IsRegs
<1>4. /\ IsRegs(s) /\ BindingsOK(s) /\ PoolsTyped(s) /\ VecPool(s) /\ WordPool(s) /\ CountsAt(s)
  BY GoodParts
<1>5. Freed(s, u, t, w, ScalarTag, VecTag)
  <2>1. t \notin VecTag /\ {ScalarTag, VecTag} = {VecTag, ScalarTag}
    BY SizeAssumption
  <2> HIDE DEF fw, fc, co
  <2> QED
    BY ONLY t \in ScalarTag, t \in DOMAIN s.assigned, w = s.assigned[t], <1>2, <1>4, <2>1, FreeResult
<1>6. /\ w \in Held(s, ScalarTag) /\ w \in Word /\ g \in DOMAIN s.freeWords
      /\ g \in Granule /\ w \in Words(g)
  BY <1>4, <1>5, WordFacts DEF Freed, WordPool
<1>7. /\ s.freeCount[g] = Len(s.freeWords[g])
      /\ ListOf(s.freeWords[g], Words(g) \ Held(s, ScalarTag))
  BY <1>4, <1>6 DEF WordPool, CountsAt
<1>8. /\ DOMAIN s.freeCount = DOMAIN s.freeWords /\ s.freeWords[g] \in Seq(Word)
      /\ s.freeCount[g] \in Nat
      /\ s.freeWords = [h \in DOMAIN s.freeWords |-> s.freeWords[h]]
      /\ s.freeCount = [h \in DOMAIN s.freeCount |-> s.freeCount[h]]
  BY <1>4, <1>6, SizeAssumption DEF PoolsTyped, Table
<1>9. /\ ListOf(q, (Words(g) \ Held(s, ScalarTag)) \cup {w}) /\ RemoveFirst(q, w) = s.freeWords[g]
  <2> DEFINE d == s.freeWords[g]
             S == Words(g) \ Held(s, ScalarTag)
  <2>1. ListOf(d, S) /\ w \notin S
    BY <1>6, <1>7
  <2> HIDE DEF d, S
  <2>2. ListOf(Append(d, w), S \cup {w}) /\ RemoveFirst(Append(d, w), w) = d
    BY ONLY <2>1, ListAppend
  <2> QED
    BY <2>2 DEF d, S
<1>10. Len(q) = c
  BY <1>6, <1>7, <1>8, AppendProperties
<1>11. PoolsTyped(u) /\ VecPool(u) /\ WordPool(u) /\ CountsAt(u)
  <2>1. (Words(g) \ Held(s, ScalarTag)) \cup {w} = Words(g) \ Held(u, ScalarTag)
    BY <1>5, <1>6 DEF Freed
  <2>2. Held(u, ScalarTag) \ {w} = Held(s, ScalarTag) \ {w} /\ Held(u, VecTag) = Held(s, VecTag)
    BY <1>5 DEF Freed
  <2>3. u.claimOf \subseteq Held(u, ScalarTag) /\ u.claimOf \subseteq Word
    BY <1>2, <1>4, <1>5 DEF CountsAt, PoolsTyped, Freed
  <2>4. ListOf(q, Words(g) \ Held(u, ScalarTag)) /\ w \in Words(g)
    BY <1>6, <1>9, <2>1
  <2>5. fw = [s.freeWords EXCEPT ![g] = q] /\ fc = [s.freeCount EXCEPT ![g] = c]
    BY DEF Added, More
  <2> HIDE DEF q, c, fw, fc, co, g
  <2> QED
    BY ONLY <1>2, <1>4, <1>6, <1>10, <2>2, <2>3, <2>4, <2>5, WordPoolUpdated
<1>12. Bind(RetakeWord(u, e), t, w, s.remaining[t]) = s
  <2> DEFINE v == TakeWord(u, w)
             x == RetakeWord(u, e)
             a == Without(s.assigned, t)
             m == Without(s.remaining, t)
             n == s.remaining[t]
  <2>1. Dropped(fw, w) = s.freeWords
    BY <1>6, <1>8, <1>9 DEF Added, Dropped
  <2>2. Less(fc, g) = s.freeCount
    BY <1>6, <1>8 DEF More, Less
  <2> HIDE DEF fw, fc, g
  <2>3. v = [freeVec |-> s.freeVec, freeWords |-> s.freeWords, freeCount |-> s.freeCount,
             claimOf |-> co, assigned |-> a, remaining |-> m]
    BY ONLY <1>2, <1>3, <2>1, <2>2, TakeFields DEF g
  <2>4. x = [v EXCEPT !.claimOf = IF w \in s.claimOf THEN @ \cup {w} ELSE @]
    BY DEF RetakeWord
  <2>5. (IF w \in s.claimOf THEN co \cup {w} ELSE co) = s.claimOf
    OBVIOUS
  <2> HIDE DEF v, x, a, m, n, co
  <2>6. v.claimOf = co
    BY ONLY <2>3
  <2>7. x = [v EXCEPT !.claimOf = s.claimOf]
    BY <2>4, <2>5, <2>6
  <2>8. x = [freeVec |-> s.freeVec, freeWords |-> s.freeWords, freeCount |-> s.freeCount,
             claimOf |-> s.claimOf, assigned |-> a, remaining |-> m]
    BY ONLY <2>3, <2>7
  <2>9. IsRegs(x) /\ x.freeVec = s.freeVec /\ x.freeWords = s.freeWords /\ x.freeCount = s.freeCount
        /\ x.claimOf = s.claimOf /\ x.assigned = a /\ x.remaining = m
    BY ONLY <2>8 DEF IsRegs
  <2>10. With(a, t, w) = s.assigned /\ With(m, t, n) = s.remaining
    BY <1>2, <1>5 DEF a, m, n, Freed
  <2>11. Bind(x, t, w, n) = [freeVec |-> s.freeVec, freeWords |-> s.freeWords,
             freeCount |-> s.freeCount, claimOf |-> s.claimOf,
             assigned |-> s.assigned, remaining |-> s.remaining]
    BY <2>9, <2>10, BindFields
  <2> QED
    BY <1>4, <2>11 DEF IsRegs, x, n
<1> QED
  BY <1>3, <1>5, <1>11, <1>12, GoodParts DEF Freed, WordRegained

\* A read that is not the last.
LEMMA ReadOne ==
  ASSUME NEW s, Good(s), NEW t \in DOMAIN s.assigned, s.remaining[t] > 1,
         NEW u, u = [s EXCEPT !.remaining[t] = @ - 1]
  PROVE  Good(u) /\ [u EXCEPT !.remaining[t] = @ + 1] = s
<1> DEFINE r == [s.remaining EXCEPT ![t] = @ - 1]
<1>1. /\ IsRegs(s) /\ BindingsOK(s) /\ PoolsTyped(s) /\ VecPool(s) /\ WordPool(s) /\ CountsAt(s)
  BY GoodParts
<1>2. s.remaining \in [DOMAIN s.assigned -> Nat]
  BY <1>1 DEF BindingsOK, Table
<1>3. r \in [DOMAIN s.assigned -> Nat] /\ [r EXCEPT ![t] = @ + 1] = s.remaining
  BY <1>2
<1>4. u = [s EXCEPT !.remaining = r]
  OBVIOUS
<1> HIDE DEF r
<1>5. u = [freeVec |-> s.freeVec, freeWords |-> s.freeWords, freeCount |-> s.freeCount,
           claimOf |-> s.claimOf, assigned |-> s.assigned, remaining |-> r]
  BY ONLY <1>1, <1>4 DEF IsRegs
<1>6. /\ IsRegs(u) /\ u.freeVec = s.freeVec /\ u.freeWords = s.freeWords /\ u.freeCount = s.freeCount
      /\ u.claimOf = s.claimOf /\ u.assigned = s.assigned /\ u.remaining = r
  BY ONLY <1>5 DEF IsRegs
<1>7. /\ Held(u, VecTag) = Held(s, VecTag) /\ Held(u, ScalarTag) = Held(s, ScalarTag)
      /\ Distinct(u) <=> Distinct(s)
  BY <1>6 DEF Held, Distinct
<1>8. Good(u)
  <2>1. BindingsOK(u)
    BY <1>1, <1>3, <1>6, <1>7 DEF BindingsOK, Table
  <2>2. PoolsTyped(u) /\ VecPool(u) /\ WordPool(u) /\ CountsAt(u)
    BY <1>1, <1>6, <1>7 DEF PoolsTyped, VecPool, WordPool, CountsAt
  <2> QED
    BY <1>6, <2>1, <2>2, GoodParts
<1>9. [u EXCEPT !.remaining[t] = @ + 1] = s
  <2>1. [u EXCEPT !.remaining[t] = @ + 1] = [u EXCEPT !.remaining = s.remaining]
    BY <1>3, <1>6
  <2>2. [u EXCEPT !.remaining = s.remaining]
          = [freeVec |-> s.freeVec, freeWords |-> s.freeWords, freeCount |-> s.freeCount,
             claimOf |-> s.claimOf, assigned |-> s.assigned, remaining |-> s.remaining]
    BY ONLY <1>5
  <2> QED
    BY <1>1, <2>1, <2>2 DEF IsRegs
<1> QED
  BY <1>8, <1>9

\* The granule g joins the claimed ones: the deque loses it, and all its words
\* but w, which a scalar tag gets, are free.
Claimed(s, u, t, g, w, n) ==
  /\ u.freeVec = Tail(s.freeVec)
  /\ u.freeWords = With(s.freeWords, g, Front(WordsInOrder(g)))
  /\ u.freeCount = With(s.freeCount, g, VLEN - 1)
  /\ u.claimOf = s.claimOf \cup {w}
  /\ u.assigned = With(s.assigned, t, w) /\ u.remaining = With(s.remaining, t, n)

\* write(t) of a scalar tag that claims a granule: the state.
LEMMA ClaimFields ==
  ASSUME NEW s, IsRegs(s), NEW t, NEW n, NEW g, g \notin DOMAIN s.freeWords,
         g \notin DOMAIN s.freeCount, NEW w,
         NEW u, u = ClaimWritten(s, t, g, w, n)
  PROVE  IsRegs(u) /\ Claimed(s, u, t, g, w, n)
<1> DEFINE q == Tail(s.freeVec)
           fw1 == With(s.freeWords, g, WordsInOrder(g))
           fc1 == With(s.freeCount, g, VLEN)
           fw == With(s.freeWords, g, Front(WordsInOrder(g)))
           fc == With(s.freeCount, g, VLEN - 1)
           co == s.claimOf \cup {w}
           a == With(s.assigned, t, w)
           m == With(s.remaining, t, n)
           v == Claim(s, g)
           x == PopWord(v, g)
           y == Bind(x, t, w, n)
<1>1. Popped(fw1, g) = fw
  BY DEF Popped, With
<1>2. Less(fc1, g) = fc
  BY DEF Less, With
<1>3. v = [s EXCEPT !.freeVec = q, !.freeWords = fw1, !.freeCount = fc1]
  BY DEF Claim
<1>4. u = [y EXCEPT !.claimOf = @ \cup {w}]
  BY DEF ClaimWritten
<1> HIDE DEF q, fw1, fc1, fw, fc, v
<1>5. v = [freeVec |-> q, freeWords |-> fw1, freeCount |-> fc1, claimOf |-> s.claimOf,
           assigned |-> s.assigned, remaining |-> s.remaining]
  BY ONLY <1>3, IsRegs(s) DEF IsRegs
<1>6. IsRegs(v) /\ v.freeVec = q /\ v.freeWords = fw1 /\ v.freeCount = fc1
      /\ v.claimOf = s.claimOf /\ v.assigned = s.assigned /\ v.remaining = s.remaining
  BY ONLY <1>5 DEF IsRegs
<1>7. x = [freeVec |-> q, freeWords |-> fw, freeCount |-> fc, claimOf |-> s.claimOf,
           assigned |-> s.assigned, remaining |-> s.remaining]
  BY ONLY <1>1, <1>2, <1>6, PopFields
<1> HIDE DEF x
<1>8. IsRegs(x) /\ x.freeVec = q /\ x.freeWords = fw /\ x.freeCount = fc
      /\ x.claimOf = s.claimOf /\ x.assigned = s.assigned /\ x.remaining = s.remaining
  BY ONLY <1>7 DEF IsRegs
<1>9. y = [freeVec |-> q, freeWords |-> fw, freeCount |-> fc, claimOf |-> s.claimOf,
           assigned |-> a, remaining |-> m]
  BY ONLY <1>8, BindFields
<1> HIDE DEF y, a, m
<1>10. u = [y EXCEPT !.claimOf = co]
  BY <1>4, <1>9
<1> HIDE DEF co
<1>11. u = [freeVec |-> q, freeWords |-> fw, freeCount |-> fc, claimOf |-> co,
            assigned |-> a, remaining |-> m]
  BY ONLY <1>9, <1>10
<1>12. IsRegs(u) /\ u.freeVec = q /\ u.freeWords = fw /\ u.freeCount = fc /\ u.claimOf = co
       /\ u.assigned = a /\ u.remaining = m
  BY ONLY <1>11 DEF IsRegs
<1> QED
  BY ONLY <1>12 DEF Claimed, q, fw, fc, co, a, m

\* write(t) of a scalar tag that claims a granule.
LEMMA ClaimTaken ==
  ASSUME NEW s, Good(s), NEW t \in ScalarTag, t \notin DOMAIN s.assigned, Len(s.freeVec) > 0,
         NEW n \in Nat, NEW g, g = Head(s.freeVec), NEW w, w = g + VLEN - 1,
         NEW u, u = ClaimWritten(s, t, g, w, n)
  PROVE  /\ Good(u) /\ WriteUndone(u, Entry("Ws", t, w, TRUE), s)
         /\ FreshClaim(u, g, w)
<1> DEFINE q == Tail(s.freeVec)
           d == Front(WordsInOrder(g))
           D == DOMAIN s.freeWords
<1>1. /\ IsRegs(s) /\ BindingsOK(s) /\ PoolsTyped(s) /\ VecPool(s) /\ WordPool(s) /\ CountsAt(s)
  BY GoodParts
<1>2. /\ ListOf(q, (Granule \ (D \cup Held(s, VecTag))) \ {g})
      /\ g \in Granule \ (D \cup Held(s, VecTag))
      /\ <<g>> \o q = s.freeVec
  <2>1. ListOf(s.freeVec, Granule \ (D \cup Held(s, VecTag)))
    BY <1>1 DEF VecPool
  <2>2. s.freeVec # << >>
    OBVIOUS
  <2> QED
    BY <2>1, <2>2, ListTail
<1>3. /\ Table(s.freeWords, D, Seq(Word)) /\ Table(s.freeCount, D, 0 .. VLEN)
      /\ D \subseteq Granule /\ s.freeVec \in Seq(Granule)
  BY <1>1 DEF PoolsTyped
<1>4. g \notin D /\ g \notin DOMAIN s.freeCount /\ g \in Granule
  BY <1>2, <1>3 DEF Table
<1> HIDE DEF D
<1>5. IsRegs(u) /\ Claimed(s, u, t, g, w, n)
  <2> HIDE DEF q, d
  <2>1. g \notin DOMAIN s.freeWords
    BY <1>4 DEF D
  <2> QED
    BY ONLY u = ClaimWritten(s, t, g, w, n), <1>1, <1>4, <2>1, ClaimFields
<1>6. /\ ListOf(WordsInOrder(g), Words(g)) /\ Len(WordsInOrder(g)) = VLEN
      /\ WordsInOrder(g) # << >> /\ Last(WordsInOrder(g)) = w /\ w \in Words(g)
  BY <1>4, SplitList
<1>7. ListOf(d, Words(g) \ {w})
  BY <1>6, ListFront
<1>8. Len(d) = VLEN - 1 /\ d \in Seq(Word) /\ VLEN - 1 \in 0 .. VLEN
  <2>1. WordsInOrder(g) \in Seq(Words(g))
    BY <1>6 DEF ListOf
  <2>2. Len(d) = VLEN - 1
    BY <1>6, <2>1, FrontAppend
  <2>3. d \in Seq(Word)
    <3>1. Words(g) \ {w} \in SUBSET Words(g)
      OBVIOUS
    <3> QED
      BY <1>4, <1>7, <3>1, WordList
  <2> QED
    BY <2>2, <2>3, SizeAssumption
<1>9. Base(w) = g /\ w \in Word /\ t \notin VecTag /\ t \in Tag
  BY <1>4, <1>6, GranuleFacts, SizeAssumption DEF Tag
<1>10. /\ \A v \in Held(s, ScalarTag) : v \notin Words(g)
       /\ w \notin Held(s, ScalarTag) /\ w \notin s.claimOf
  BY <1>1, <1>4, <1>6, GranuleFacts DEF WordPool, CountsAt, D
<1>11. Bound(s, u, t, w, ScalarTag, VecTag)
  <2>1. {ScalarTag, VecTag} = {VecTag, ScalarTag}
    OBVIOUS
  <2>2. u.assigned = With(s.assigned, t, w) /\ u.remaining = With(s.remaining, t, n)
    BY <1>5 DEF Claimed
  <2> QED
    BY ONLY t \in ScalarTag, t \notin DOMAIN s.assigned, n \in Nat,
            <1>1, <1>9, <1>10, <2>1, <2>2, BindResult
<1> DEFINE E == D \cup {g}
<1> HIDE DEF E, d
<1>12. /\ Table(u.freeWords, E, Seq(Word)) /\ Gained(s.freeWords, D, g, d, u.freeWords)
       /\ Table(u.freeCount, E, 0 .. VLEN) /\ Gained(s.freeCount, D, g, VLEN - 1, u.freeCount)
  <2>1. /\ Table(With(s.freeWords, g, d), E, Seq(Word))
        /\ Gained(s.freeWords, D, g, d, With(s.freeWords, g, d))
    BY <1>3, <1>4, <1>8, TableWith DEF E
  <2>2. /\ Table(With(s.freeCount, g, VLEN - 1), E, 0 .. VLEN)
        /\ Gained(s.freeCount, D, g, VLEN - 1, With(s.freeCount, g, VLEN - 1))
    BY ONLY <1>3, <1>4, <1>8, TableWith DEF E
  <2> QED
    BY <1>5, <2>1, <2>2 DEF Claimed, d
<1>13. /\ DOMAIN u.freeWords = E /\ u.freeWords[g] = d /\ u.freeCount[g] = VLEN - 1
       /\ \A h \in D : h # g /\ u.freeWords[h] = s.freeWords[h] /\ u.freeCount[h] = s.freeCount[h]
       /\ Without(u.freeWords, g) = s.freeWords /\ Without(u.freeCount, g) = s.freeCount
  BY <1>12 DEF Gained, E
<1>14. PoolsTyped(u)
  <2>1. q \in Seq(Granule)
    BY <1>3, HeadTailProperties
  <2>2. s.claimOf \subseteq Word
    BY <1>1 DEF PoolsTyped
  <2>3. u.freeVec = q /\ u.claimOf = s.claimOf \cup {w} /\ E \subseteq Granule
    BY <1>3, <1>4, <1>5 DEF Claimed, E
  <2> QED
    BY <1>9, <1>12, <1>13, <2>1, <2>2, <2>3 DEF PoolsTyped
<1>15. VecPool(u)
  <2>1. (Granule \ (D \cup Held(s, VecTag))) \ {g} = Granule \ (E \cup Held(u, VecTag))
    BY <1>11 DEF Bound, E
  <2>2. Held(u, VecTag) \subseteq Granule \ E
    BY <1>1, <1>2, <1>11 DEF VecPool, Bound, D, E
  <2>3. u.freeVec = q
    BY <1>5 DEF Claimed
  <2> QED
    BY <1>2, <1>13, <2>1, <2>2, <2>3 DEF VecPool
<1>16. WordPool(u)
  <2>1. Words(g) \ Held(u, ScalarTag) = Words(g) \ {w}
    BY <1>10, <1>11 DEF Bound
  <2>2. ASSUME NEW h \in D PROVE ListOf(u.freeWords[h], Words(h) \ Held(u, ScalarTag))
    <3>1. w \notin Words(h)
      BY <1>3, <1>4, <1>9, GranuleFacts
    <3>2. Words(h) \ Held(u, ScalarTag) = Words(h) \ Held(s, ScalarTag)
      BY <1>11, <3>1 DEF Bound
    <3>3. ListOf(s.freeWords[h], Words(h) \ Held(s, ScalarTag))
      BY <1>1 DEF WordPool, D
    <3> QED
      BY <1>13, <3>2, <3>3
  <2>3. \A v \in Held(u, ScalarTag) : Base(v) \in E
    BY <1>1, <1>9, <1>11 DEF WordPool, Bound, D, E
  <2>4. \A h \in E : ListOf(u.freeWords[h], Words(h) \ Held(u, ScalarTag))
    BY <1>7, <1>13, <2>1, <2>2 DEF E
  <2> QED
    BY <1>13, <2>3, <2>4 DEF WordPool
<1>17. CountsAt(u)
  <2>1. u.claimOf \subseteq Held(u, ScalarTag)
    BY <1>1, <1>5, <1>11 DEF CountsAt, Claimed, Bound
  <2>2. \A h \in E : u.freeCount[h] = Len(u.freeWords[h])
    BY <1>1, <1>8, <1>13 DEF CountsAt, D, E
  <2> QED
    BY <1>13, <2>1, <2>2 DEF CountsAt
<1>18. UndoWrite(u, Entry("Ws", t, w, TRUE)) = s
  <2> DEFINE e == Entry("Ws", t, w, TRUE)
             v == Unbind(u, t)
             x == Unclaim(v, g)
  <2>1. e.kind = "Ws" /\ e.tag = t /\ e.addr = w /\ e.claim = TRUE
    BY DEF Entry
  <2> HIDE DEF e
  <2>2. UndoWrite(u, e) = [x EXCEPT !.claimOf = @ \ {w}]
    BY <1>9, <2>1 DEF UndoWrite
  <2>3. v = [freeVec |-> u.freeVec, freeWords |-> u.freeWords, freeCount |-> u.freeCount,
             claimOf |-> u.claimOf, assigned |-> s.assigned, remaining |-> s.remaining]
    BY ONLY <1>5, <1>11, UnbindFields DEF Bound
  <2>4. <<g>> \o u.freeVec = s.freeVec /\ u.claimOf \ {w} = s.claimOf
    BY <1>2, <1>5, <1>10 DEF Claimed
  <2>5. x = [v EXCEPT !.freeVec = <<g>> \o @, !.freeWords = Without(@, g), !.freeCount = Without(@, g)]
    BY DEF Unclaim
  <2> HIDE DEF v, x
  <2>6. IsRegs(v) /\ v.freeVec = u.freeVec /\ v.freeWords = u.freeWords /\ v.freeCount = u.freeCount
        /\ v.claimOf = u.claimOf /\ v.assigned = s.assigned /\ v.remaining = s.remaining
    BY ONLY <2>3 DEF IsRegs
  <2>7. x = [v EXCEPT !.freeVec = s.freeVec, !.freeWords = s.freeWords, !.freeCount = s.freeCount]
    BY <1>13, <2>4, <2>5, <2>6
  <2>8. x = [freeVec |-> s.freeVec, freeWords |-> s.freeWords, freeCount |-> s.freeCount,
             claimOf |-> u.claimOf, assigned |-> s.assigned, remaining |-> s.remaining]
    BY ONLY <2>3, <2>7
  <2>9. UndoWrite(u, e) = [x EXCEPT !.claimOf = s.claimOf]
    BY <2>2, <2>4, <2>8
  <2>10. UndoWrite(u, e) = [freeVec |-> s.freeVec, freeWords |-> s.freeWords,
             freeCount |-> s.freeCount, claimOf |-> s.claimOf,
             assigned |-> s.assigned, remaining |-> s.remaining]
    BY ONLY <2>8, <2>9
  <2> QED
    BY <1>1, <2>10 DEF IsRegs, e
<1> QED
  <2>1. Good(u)
    BY <1>5, <1>11, <1>14, <1>15, <1>16, <1>17, GoodParts DEF Bound
  <2>2. w \in u.claimOf
    BY <1>5 DEF Claimed
  <2> QED
    BY <1>9, <1>13, <1>18, <2>1, <2>2 DEF d, WriteUndone, FreshClaim

\* An unwrite that gives a claimed granule back to the deque.
LEMMA ClaimReversed ==
  ASSUME NEW s, Good(s), NEW t \in ScalarTag, t \in DOMAIN s.assigned, NEW w, w = s.assigned[t],
         NEW g, g = Base(w), w \in s.claimOf, s.freeCount[g] = VLEN - 1, w = g + VLEN - 1,
         s.freeWords[g] = Front(WordsInOrder(g)),
         NEW u, u = ClaimUnbound(s, t, g, w)
  PROVE  Good(u) /\ ClaimRegained(u, t, g, w, s.remaining[t], s)
<1> DEFINE q == <<g>> \o s.freeVec
           d == Front(WordsInOrder(g))
           D == DOMAIN s.freeWords
           fw == Without(s.freeWords, g)
           fc == Without(s.freeCount, g)
           co == s.claimOf \ {w}
<1>1. u = [freeVec |-> q, freeWords |-> fw, freeCount |-> fc,
           claimOf |-> co, assigned |-> Without(s.assigned, t),
           remaining |-> Without(s.remaining, t)]
  <2> DEFINE v == Unbind(s, t)
             x == Unclaim(v, g)
             a == Without(s.assigned, t)
             m == Without(s.remaining, t)
  <2>1. v = [freeVec |-> s.freeVec, freeWords |-> s.freeWords, freeCount |-> s.freeCount,
             claimOf |-> s.claimOf, assigned |-> a, remaining |-> m]
    BY UnbindFields DEF Good
  <2>2. x = [v EXCEPT !.freeVec = <<g>> \o @, !.freeWords = Without(@, g), !.freeCount = Without(@, g)]
    BY DEF Unclaim
  <2>3. u = [x EXCEPT !.claimOf = @ \ {w}]
    BY DEF ClaimUnbound
  <2> HIDE DEF v, x, a, m
  <2>4. /\ v.freeVec = s.freeVec /\ v.freeWords = s.freeWords /\ v.freeCount = s.freeCount
        /\ v.claimOf = s.claimOf /\ v.assigned = a /\ v.remaining = m
    BY ONLY <2>1
  <2>5. x = [v EXCEPT !.freeVec = q, !.freeWords = fw, !.freeCount = fc]
    BY <2>2, <2>4
  <2> HIDE DEF q, fw, fc
  <2>6. x = [freeVec |-> q, freeWords |-> fw, freeCount |-> fc, claimOf |-> s.claimOf,
             assigned |-> a, remaining |-> m]
    BY ONLY <2>1, <2>5
  <2>7. u = [x EXCEPT !.claimOf = co]
    BY <2>3, <2>6
  <2> HIDE DEF co
  <2> QED
    BY ONLY <2>6, <2>7 DEF a, m
<1>2. /\ u.freeVec = q /\ u.freeWords = fw /\ u.freeCount = fc
      /\ u.claimOf = co /\ u.assigned = Without(s.assigned, t)
      /\ u.remaining = Without(s.remaining, t)
  <2> HIDE DEF q, fw, fc, co
  <2> QED
    BY ONLY <1>1
<1>3. IsRegs(u)
  <2> HIDE DEF q, fw, fc, co
  <2> QED
    BY ONLY <1>1, <1>2 DEF IsRegs
<1>4. /\ IsRegs(s) /\ BindingsOK(s) /\ PoolsTyped(s) /\ VecPool(s) /\ WordPool(s) /\ CountsAt(s)
  BY GoodParts
<1>5. Freed(s, u, t, w, ScalarTag, VecTag)
  <2>1. t \notin VecTag /\ {ScalarTag, VecTag} = {VecTag, ScalarTag}
    BY SizeAssumption
  <2> HIDE DEF q, fw, fc, co
  <2> QED
    BY ONLY t \in ScalarTag, t \in DOMAIN s.assigned, w = s.assigned[t], <1>2, <1>4, <2>1, FreeResult
<1>6. /\ w \in Held(s, ScalarTag) /\ w \in Word /\ g \in D /\ g \in Granule /\ w \in Words(g)
      /\ g \notin Held(s, VecTag)
  BY <1>4, <1>5, WordFacts DEF Freed, WordPool, VecPool
<1>7. /\ ListOf(WordsInOrder(g), Words(g)) /\ WordsInOrder(g) # << >> /\ Last(WordsInOrder(g)) = w
  BY <1>6, SplitList
<1>8. ListOf(d, Words(g) \ {w}) /\ Append(d, w) = WordsInOrder(g) /\ RemoveFirst(WordsInOrder(g), w) = d
  <2> DEFINE o == WordsInOrder(g)
             S == Words(g) \ {w}
  <2>1. ListOf(o, Words(g)) /\ o # << >> /\ Last(o) = w
    BY <1>7
  <2>2. ListOf(d, S) /\ w \notin S
    BY <1>7, ListFront
  <2>3. o \in Seq(Words(g))
    BY <1>7 DEF ListOf
  <2>4. Append(d, w) = o
    BY <2>1, <2>3, FrontAppend
  <2> HIDE DEF o, S, d
  <2>5. RemoveFirst(Append(d, w), w) = d
    BY ONLY <2>2, ListAppend
  <2> QED
    BY <2>2, <2>4, <2>5 DEF o, S
<1>9. Held(s, ScalarTag) \cap Words(g) = {w}
  <2>1. ListOf(d, Words(g) \ Held(s, ScalarTag))
    BY <1>4, <1>6 DEF WordPool
  <2> HIDE DEF d
  <2>2. \A x \in Words(g) : x \notin Held(s, ScalarTag) <=> \E k \in DOMAIN d : d[k] = x
    BY <2>1, ElementOfSeq, LenProperties DEF ListOf
  <2>3. \A x \in Words(g) : x # w <=> \E k \in DOMAIN d : d[k] = x
    BY <1>8, ElementOfSeq, LenProperties DEF ListOf
  <2> QED
    BY <1>6, <2>2, <2>3
<1> HIDE DEF d
<1> DEFINE E == D \ {g}
<1>10. /\ Table(s.freeWords, D, Seq(Word)) /\ Table(s.freeCount, D, 0 .. VLEN)
       /\ D \subseteq Granule /\ s.freeVec \in Seq(Granule) /\ s.claimOf \subseteq Word
  BY <1>4 DEF PoolsTyped
<1>11. /\ Table(fw, E, Seq(Word)) /\ Lost(s.freeWords, D, g, fw)
       /\ Table(fc, E, 0 .. VLEN) /\ Lost(s.freeCount, D, g, fc)
  <2> HIDE DEF D, E
  <2>1. E = D \ {g}
    BY DEF E
  <2>2. Table(Without(s.freeWords, g), E, Seq(Word)) /\ Lost(s.freeWords, D, g, Without(s.freeWords, g))
    BY ONLY <1>6, <1>10, TableWithout DEF E
  <2>3. Table(Without(s.freeCount, g), E, 0 .. VLEN) /\ Lost(s.freeCount, D, g, Without(s.freeCount, g))
    BY ONLY <1>6, <1>10, TableWithout DEF E
  <2> QED
    BY <2>2, <2>3
<1> HIDE DEF q, fw, fc, co, D, E
<1>12. /\ DOMAIN u.freeWords = E
       /\ \A h \in E : u.freeWords[h] = s.freeWords[h] /\ u.freeCount[h] = s.freeCount[h]
       /\ With(fw, g, d) = s.freeWords /\ With(fc, g, VLEN - 1) = s.freeCount
  BY <1>2, <1>11 DEF Lost, E, d
<1>13. /\ ListOf(q, Granule \ (E \cup Held(u, VecTag))) /\ RemoveFirst(q, g) = s.freeVec
  <2> DEFINE S == Granule \ (D \cup Held(s, VecTag))
             p == s.freeVec
  <2>1. ListOf(p, S) /\ g \notin S
    BY <1>4, <1>6 DEF VecPool, D
  <2>2. S \cup {g} = Granule \ (E \cup Held(u, VecTag))
    BY <1>5, <1>6, <1>10 DEF Freed, E
  <2>3. q = <<g>> \o p
    BY DEF q
  <2> HIDE DEF S, p
  <2>4. ListOf(<<g>> \o p, S \cup {g}) /\ RemoveFirst(<<g>> \o p, g) = p
    BY ONLY <2>1, ListCons
  <2> QED
    BY <2>2, <2>3, <2>4 DEF p
<1>14. PoolsTyped(u)
  <2>1. q \in Seq(Granule)
    <3> DEFINE x == <<g>>
    <3>1. x \in Seq(Granule)
      BY <1>6
    <3> HIDE DEF x
    <3>2. x \o s.freeVec \in Seq(Granule)
      BY <1>10, <3>1, ConcatProperties
    <3> QED
      BY <3>2 DEF x, q
  <2>2. E \subseteq Granule /\ co \subseteq Word
    BY <1>10 DEF E, co
  <2> QED
    BY <1>2, <1>11, <1>12, <2>1, <2>2 DEF PoolsTyped
<1>15. VecPool(u)
  <2>1. Held(u, VecTag) \subseteq Granule \ E
    BY <1>4, <1>5 DEF VecPool, Freed, D, E
  <2> QED
    BY <1>2, <1>12, <1>13, <2>1 DEF VecPool
<1>16. WordPool(u)
  <2>1. ASSUME NEW h \in E PROVE ListOf(u.freeWords[h], Words(h) \ Held(u, ScalarTag))
    <3>1. w \notin Words(h) /\ h \in D
      BY <1>6, <1>10, GranuleFacts DEF E
    <3>2. Words(h) \ Held(u, ScalarTag) = Words(h) \ Held(s, ScalarTag)
      BY <1>5, <3>1 DEF Freed
    <3>3. ListOf(s.freeWords[h], Words(h) \ Held(s, ScalarTag))
      BY <1>4, <3>1 DEF WordPool, D
    <3> QED
      BY <1>12, <3>2, <3>3
  <2>2. ASSUME NEW v \in Held(u, ScalarTag) PROVE Base(v) \in E
    <3>1. v \in Held(s, ScalarTag) /\ v # w /\ Base(v) \in D
      BY <1>4, <1>5 DEF Freed, WordPool, D
    <3>2. v \in Word
      BY <1>4, <3>1 DEF BindingsOK, Table, Held
    <3>3. v \in Words(Base(v))
      BY <3>2, WordFacts
    <3>4. Base(v) # g
      BY <1>9, <3>1, <3>3
    <3> QED
      BY <3>1, <3>4 DEF E
  <2> QED
    BY <1>12, <2>1, <2>2 DEF WordPool
<1>17. CountsAt(u)
  <2>1. u.claimOf \subseteq Held(u, ScalarTag)
    BY <1>2, <1>4, <1>5 DEF CountsAt, Freed, co
  <2>2. \A h \in E : u.freeCount[h] = Len(u.freeWords[h])
    BY <1>4, <1>12 DEF CountsAt, D, E
  <2> QED
    BY <1>12, <2>1, <2>2 DEF CountsAt
<1> DEFINE v == Claim(u, g)
           x == [v EXCEPT !.freeVec = RemoveFirst(u.freeVec, g), !.claimOf = @ \cup {w}]
           y == TakeWord(x, w)
           n == s.remaining[t]
           a == Without(s.assigned, t)
           m == Without(s.remaining, t)
           o == With(fw, g, WordsInOrder(g))
           k == With(fc, g, VLEN)
<1>18. v = [u EXCEPT !.freeVec = Tail(@), !.freeWords = o, !.freeCount = k]
  BY <1>2 DEF Claim
<1>19. Dropped(o, w) = With(fw, g, d) /\ Less(k, g) = With(fc, g, VLEN - 1)
  <2>1. Dropped(o, w) = With(fw, g, d)
    BY <1>8 DEF Dropped, With
  <2>2. Less(k, g) = With(fc, g, VLEN - 1)
    BY DEF Less, With
  <2> QED
    BY <2>1, <2>2
<1>20. co \cup {w} = s.claimOf
  BY DEF co
<1>21. With(a, t, w) = s.assigned /\ With(m, t, n) = s.remaining
  BY <1>2, <1>5 DEF Freed
<1>22. x = [v EXCEPT !.freeVec = RemoveFirst(u.freeVec, g), !.claimOf = @ \cup {w}]
  OBVIOUS
<1>23. u.freeVec = q /\ u.claimOf = co /\ u.assigned = a /\ u.remaining = m
  BY <1>2
<1> HIDE DEF v, x, y, n, a, m, o, k
<1>24. /\ v.claimOf = co
       /\ v = [freeVec |-> Tail(u.freeVec), freeWords |-> o, freeCount |-> k, claimOf |-> co,
               assigned |-> a, remaining |-> m]
  BY ONLY <1>3, <1>18, <1>23 DEF IsRegs
<1>25. x = [v EXCEPT !.freeVec = s.freeVec, !.claimOf = s.claimOf]
  BY <1>13, <1>20, <1>22, <1>23, <1>24
<1>26. x = [freeVec |-> s.freeVec, freeWords |-> o, freeCount |-> k, claimOf |-> s.claimOf,
            assigned |-> a, remaining |-> m]
  <2> DEFINE p == s.freeVec
             c == s.claimOf
             r == Tail(u.freeVec)
  <2>1. /\ x = [v EXCEPT !.freeVec = p, !.claimOf = c]
        /\ v = [freeVec |-> r, freeWords |-> o, freeCount |-> k, claimOf |-> co,
                assigned |-> a, remaining |-> m]
    BY ONLY <1>24, <1>25
  <2> HIDE DEF p, c, r
  <2>2. x = [freeVec |-> p, freeWords |-> o, freeCount |-> k, claimOf |-> c,
             assigned |-> a, remaining |-> m]
    BY ONLY <2>1
  <2> QED
    BY ONLY <2>2 DEF p, c
<1>27. IsRegs(x) /\ x.freeVec = s.freeVec /\ x.freeWords = o /\ x.freeCount = k
       /\ x.claimOf = s.claimOf /\ x.assigned = a /\ x.remaining = m
  BY ONLY <1>26 DEF IsRegs
<1>28. y = [freeVec |-> s.freeVec, freeWords |-> Dropped(o, w), freeCount |-> Less(k, Base(w)),
            claimOf |-> s.claimOf, assigned |-> a, remaining |-> m]
  BY ONLY <1>27, TakeFields DEF y
<1>29. Dropped(o, w) = s.freeWords /\ Less(k, Base(w)) = s.freeCount
  BY <1>12, <1>19
<1>30. IsRegs(y) /\ y.freeVec = s.freeVec /\ y.freeWords = s.freeWords /\ y.freeCount = s.freeCount
       /\ y.claimOf = s.claimOf /\ y.assigned = a /\ y.remaining = m
  BY ONLY <1>28, <1>29 DEF IsRegs
<1>31. Bind(y, t, w, n) = [freeVec |-> s.freeVec, freeWords |-> s.freeWords,
          freeCount |-> s.freeCount, claimOf |-> s.claimOf,
          assigned |-> s.assigned, remaining |-> s.remaining]
  BY ONLY <1>21, <1>30, BindFields
<1>32. Bind(y, t, w, n) = s
  BY <1>4, <1>31 DEF IsRegs
<1>33. Good(u)
  BY <1>3, <1>5, <1>14, <1>15, <1>16, <1>17, GoodParts DEF Freed
<1> QED
  BY ONLY <1>32, <1>33 DEF v, x, y, n, ClaimRebound, ClaimRegained

-----------------------------------------------------------------------------
\* Sequences that grow and shrink at the end.
GrownBy(q, x, p) == /\ p \in Seq(Range(p)) /\ Len(q) \in Nat /\ DOMAIN q = 1 .. Len(q)
                    /\ Len(p) = Len(q) + 1 /\ DOMAIN p = 1 .. Len(q) + 1
                    /\ \A k \in 1 .. Len(q) : p[k] = q[k]
                    /\ p[Len(q) + 1] = x
CutTo(q, p) == /\ p \in Seq(Range(p)) /\ Len(q) \in Nat /\ DOMAIN q = 1 .. Len(q)
               /\ Len(p) = Len(q) - 1 /\ DOMAIN p = 1 .. Len(q) - 1
               /\ \A k \in 1 .. Len(q) - 1 : p[k] = q[k]

\* A sequence with an element more.
LEMMA Grown ==
  ASSUME NEW q, q \in Seq(Range(q)), NEW x
  PROVE  GrownBy(q, x, Append(q, x))
<1> DEFINE p == Append(q, x)
<1> DEFINE S == Range(q) \cup {x}
<1>1. Len(q) \in Nat /\ DOMAIN q = 1 .. Len(q) /\ q \in [1 .. Len(q) -> S]
  BY LenProperties, ElementOfSeq
<1>2. q \in Seq(S)
  BY <1>1
<1> HIDE DEF S
<1>3. /\ p \in Seq(S) /\ Len(p) = Len(q) + 1
      /\ \A k \in 1 .. Len(q) : p[k] = q[k]
      /\ p[Len(q) + 1] = x
  <2>1. x \in S
    BY DEF S
  <2> QED
    BY <1>2, <2>1, AppendProperties
<1> HIDE DEF p
<1>4. DOMAIN p = 1 .. Len(q) + 1 /\ Len(p) \in Nat /\ p = [k \in 1 .. Len(p) |-> p[k]]
  BY <1>3, LenProperties
<1>5. p \in Seq(Range(p))
  BY <1>3, <1>4 DEF Range
<1> QED
  BY <1>1, <1>3, <1>4, <1>5 DEF GrownBy, p

\* A sequence with an element less.
LEMMA Cut ==
  ASSUME NEW q, q \in Seq(Range(q)), Len(q) > 0
  PROVE  CutTo(q, Front(q))
<1> DEFINE p == Front(q)
<1>1. Len(q) \in Nat /\ DOMAIN q = 1 .. Len(q) /\ q # << >>
  BY LenProperties
<1>2. /\ p \in Seq(Range(q)) /\ Len(p) = Len(q) - 1
      /\ \A k \in 1 .. Len(q) - 1 : p[k] = q[k]
  BY <1>1, FrontAppend
<1>3. DOMAIN p = 1 .. Len(q) - 1 /\ Len(p) \in Nat /\ p = [k \in 1 .. Len(p) |-> p[k]]
  BY <1>2, LenProperties
<1>4. p \in Seq(Range(p))
  <2>1. \A k \in 1 .. Len(p) : p[k] \in Range(p)
    BY <1>2, <1>3 DEF Range
  <2>2. p \in [1 .. Len(p) -> Range(p)]
    BY <1>3, <2>1
  <2> QED
    BY <1>3, <2>2
<1> QED
  BY <1>1, <1>2, <1>3, <1>4 DEF CutTo

\* A call whose entry undoes it keeps the invariant, recorded or not.
LEMMA RecordedStep ==
  ASSUME RegInv, target = Idle, UNCHANGED <<readCount, recording, target>>, NEW e,
         Good(regs'), \A t \in DOMAIN assigned' : remaining'[t] <= readCount[t],
         Undo(regs', e, readCount) = regs,
         e.kind = "Ws" /\ e.claim => /\ e.addr \in claimOf'
                                     /\ freeCount'[Base(e.addr)] = VLEN - 1,
         Record(e), Note, latest' \subseteq DOMAIN assigned', LatestFresh'
  PROVE  RegInv'
<1>1. /\ log \in Seq(Range(log)) /\ past \in Seq(Range(past)) /\ Len(past) = Len(log)
      /\ Len(log) \in Nat /\ DOMAIN log = 1 .. Len(log) /\ DOMAIN past = 1 .. Len(log)
      /\ readCount \in [Tag -> Nat] /\ recording \in BOOLEAN
      /\ Good(regs) /\ \A t \in DOMAIN assigned : remaining[t] <= readCount[t]
  <2>1. IsRegs(regs)
    BY DEF IsRegs, regs
  <2>2. Good(regs)
    BY <2>1 DEF RegInv, TypeOK, Partition, CountsAgree, Good
  <2> QED
    BY <2>2, LenProperties DEF RegInv, TypeOK, UndoExact, TrialGood
<1>2. Partition' /\ CountsAgree' /\ TypeAt(regs')
  BY DEF Good, Partition, CountsAgree
<1>3. CASE ~recording
  <2>1. log' = log /\ past' = past /\ log = << >> /\ Len(log) = 0
    BY <1>3 DEF Record, Note, RegInv, UndoExact
  <2>2. TypeOK'
    BY <1>1, <1>2, <2>1 DEF TypeOK, Idle
  <2>3. UndoExact' /\ TrialGood'
    BY <1>1, <1>3, <2>1 DEF UndoExact, TrialGood
  <2> QED
    BY <1>2, <2>2, <2>3 DEF RegInv
<1>4. CASE recording
  <2>0. PICK n \in Nat : n = Len(log)
    BY <1>1
  <2>1. log' = Append(log, e) /\ past' = Append(past, regs)
    BY <1>4 DEF Record, Note
  <2>2. /\ log' \in Seq(Range(log')) /\ past' \in Seq(Range(past'))
        /\ Len(log') = n + 1 /\ Len(past') = n + 1
        /\ DOMAIN log' = 1 .. n + 1 /\ DOMAIN past' = 1 .. n + 1
        /\ \A k \in 1 .. n : log'[k] = log[k] /\ past'[k] = past[k]
        /\ log'[n + 1] = e /\ past'[n + 1] = regs
    <3>1. /\ log' \in Seq(Range(log')) /\ Len(log') = Len(log) + 1 /\ DOMAIN log' = 1 .. Len(log) + 1
          /\ \A k \in 1 .. Len(log) : log'[k] = log[k]
          /\ log'[Len(log) + 1] = e
      <4>1. GrownBy(log, e, log')
        BY <1>1, <2>1, Grown
      <4> QED
        BY <4>1 DEF GrownBy
    <3>2. /\ past' \in Seq(Range(past')) /\ Len(past') = Len(past) + 1 /\ DOMAIN past' = 1 .. Len(past) + 1
          /\ \A k \in 1 .. Len(past) : past'[k] = past[k]
          /\ past'[Len(past) + 1] = regs
      <4>1. GrownBy(past, regs, past')
        BY <1>1, <2>1, Grown
      <4> QED
        BY <4>1 DEF GrownBy
    <3> QED
      BY <1>1, <2>0, <3>1, <3>2
  <2>3. TypeOK'
    BY <1>1, <1>2, <2>0, <2>2 DEF TypeOK, Idle
  <2>4. \A k \in 1 .. n : After(k)' = After(k)
    <3> SUFFICES ASSUME NEW k \in 1 .. n PROVE After(k)' = After(k)
      OBVIOUS
    <3>1. k # n + 1
      BY <2>2
    <3>2. CASE k = n
      BY <2>0, <2>2, <3>1, <3>2 DEF After
    <3>3. CASE k # n
      <4>1. k + 1 \in 1 .. n
        BY <2>2, <3>3
      <4>2. After(k)' = past'[k + 1] /\ After(k) = past[k + 1]
        BY <2>0, <2>2, <3>1, <3>3 DEF After
      <4> QED
        BY <2>2, <4>1, <4>2
    <3> QED
      BY <3>2, <3>3
  <2>5. After(n + 1)' = regs'
    BY <2>2 DEF After
  <2>6. \A k \in 1 .. n + 1 : k \in 1 .. n \/ k = n + 1
    BY <2>2
  <2>7. UndoExact'
    <3>1. ASSUME NEW k \in 1 .. n + 1
          PROVE  Undo(After(k)', log'[k], readCount) = past'[k]
      <4>1. CASE k \in 1 .. n
        <5>1. Undo(After(k), log[k], readCount) = past[k]
          BY <2>0, <4>1 DEF RegInv, UndoExact
        <5> QED
          BY <2>2, <2>4, <4>1, <5>1
      <4>2. CASE k = n + 1
        BY <2>2, <2>5, <4>2
      <4> QED
        BY <2>6, <4>1, <4>2
    <3> QED
      BY <1>4, <2>2, <3>1 DEF UndoExact
  <2>8. TrialGood'
    <3>1. ASSUME NEW k \in 1 .. n + 1
          PROVE  /\ Good(past'[k])
                 /\ \A t \in DOMAIN past'[k].assigned : past'[k].remaining[t] <= readCount[t]
      <4>1. CASE k \in 1 .. n
        BY <1>1, <2>0, <2>2, <4>1 DEF RegInv, TrialGood
      <4>2. CASE k = n + 1
        <5>1. past'[k] = regs /\ regs.assigned = assigned /\ regs.remaining = remaining
          BY <2>2, <4>2 DEF regs
        <5> QED
          BY <1>1, <5>1
      <4> QED
        BY <2>6, <4>1, <4>2
    <3>2. ASSUME NEW k \in 1 .. n + 1, log'[k].kind = "Ws", log'[k].claim
          PROVE  /\ log'[k].addr \in After(k)'.claimOf
                 /\ After(k)'.freeCount[Base(log'[k].addr)] = VLEN - 1
      <4>1. CASE k \in 1 .. n
        <5>1. /\ log[k].addr \in After(k).claimOf
              /\ After(k).freeCount[Base(log[k].addr)] = VLEN - 1
          BY <1>1, <2>0, <2>2, <3>2, <4>1 DEF RegInv, TrialGood
        <5> QED
          BY <2>2, <2>4, <4>1, <5>1
      <4>2. CASE k = n + 1
        BY <2>2, <2>5, <3>2, <4>2 DEF regs
      <4> QED
        BY <2>6, <4>1, <4>2
    <3> QED
      BY <2>2, <3>1, <3>2 DEF TrialGood
  <2> QED
    BY <1>2, <2>3, <2>7, <2>8 DEF RegInv
<1> QED
  BY <1>1, <1>3, <1>4

\* The state that an action leaves.
LEMMA BecomeRegs ==
  ASSUME NEW s, IsRegs(s), Become(s)
  PROVE  regs' = s
<1>1. regs' = [freeVec |-> s.freeVec, freeWords |-> s.freeWords, freeCount |-> s.freeCount,
               claimOf |-> s.claimOf, assigned |-> s.assigned, remaining |-> s.remaining]
  BY DEF Become, regs
<1> QED
  BY <1>1 DEF IsRegs

\* The parts of the invariant that a call starts from.
LEMMA Ready ==
  ASSUME RegInv
  PROVE  /\ Good(regs) /\ readCount \in [Tag -> Nat]
         /\ regs.freeVec = freeVec /\ regs.freeWords = freeWords /\ regs.freeCount = freeCount
         /\ regs.claimOf = claimOf /\ regs.assigned = assigned /\ regs.remaining = remaining
         /\ DOMAIN assigned \subseteq Tag /\ DOMAIN remaining = DOMAIN assigned
         /\ \A t \in DOMAIN assigned : remaining[t] \in Nat /\ remaining[t] <= readCount[t]
<1>1. IsRegs(regs) /\ TypeAt(regs)
  BY DEF IsRegs, regs, RegInv, TypeOK
<1>2. Good(regs)
  BY <1>1 DEF RegInv, Partition, CountsAgree, Good
<1>3. /\ regs.freeVec = freeVec /\ regs.freeWords = freeWords /\ regs.freeCount = freeCount
      /\ regs.claimOf = claimOf /\ regs.assigned = assigned /\ regs.remaining = remaining
  BY DEF regs
<1> QED
  BY <1>1, <1>2, <1>3 DEF RegInv, TypeOK, TypeAt

\* write(t).
LEMMA WriteStep ==
  ASSUME RegInv, NEW t \in Tag, HWrite(t)
  PROVE  RegInv'
<1>1. /\ target = Idle /\ t \notin DOMAIN assigned /\ latest' = {t} /\ Note
      /\ UNCHANGED <<readCount, recording, target>>
      /\ WriteVec(t) \/ WriteWord(t) \/ WriteClaim(t)
  BY DEF HWrite, Write
<1>2. /\ Good(regs) /\ readCount \in [Tag -> Nat] /\ readCount[t] \in Nat
      /\ regs.freeVec = freeVec /\ regs.freeWords = freeWords /\ regs.freeCount = freeCount
      /\ regs.claimOf = claimOf /\ regs.assigned = assigned /\ regs.remaining = remaining
      /\ DOMAIN remaining = DOMAIN assigned
      /\ \A x \in DOMAIN assigned : remaining[x] <= readCount[x]
  BY Ready
<1>3. ASSUME NEW w, assigned' = With(assigned, t, w), remaining' = With(remaining, t, readCount[t])
      PROVE  /\ DOMAIN assigned' = DOMAIN assigned \cup {t} /\ assigned'[t] = w
             /\ \A x \in DOMAIN assigned' : remaining'[x] <= readCount[x]
             /\ latest' \subseteq DOMAIN assigned'
  <2>1. /\ DOMAIN assigned' = DOMAIN assigned \cup {t} /\ assigned'[t] = w
        /\ remaining'[t] = readCount[t] /\ \A x \in DOMAIN assigned : remaining'[x] = remaining[x]
    BY <1>1, <1>2, <1>3 DEF With
  <2> QED
    BY <1>1, <1>2, <2>1
<1>4. CASE WriteVec(t)
  <2> DEFINE g == Head(freeVec)
             u == VecWritten(regs, t, g, readCount[t])
             e == Entry("W", t, g, FALSE)
  <2>1. t \in VecTag /\ freeVec # << >> /\ Become(u) /\ Record(e)
    BY <1>4 DEF WriteVec, VecWritten
  <2>2. Good(u) /\ UndoWrite(u, e) = regs
    <3>1. /\ t \notin DOMAIN regs.assigned /\ Len(regs.freeVec) > 0 /\ g = Head(regs.freeVec)
          /\ u = VecWritten(regs, t, g, readCount[t])
      <4>1. freeVec \in Seq(Granule)
        BY <1>2 DEF Good, TypeAt
      <4>2. Len(freeVec) > 0
        BY <2>1, <4>1, EmptySeq, LenProperties
      <4> QED
        BY <1>1, <1>2, <2>1, <4>2
    <3> HIDE DEF u, g
    <3> QED
      <4>1. Good(regs) /\ t \in VecTag /\ readCount[t] \in Nat
        BY <1>2, <2>1
      <4> DEFINE n == readCount[t]
      <4> HIDE DEF n
      <4>2. /\ Good(regs) /\ t \in VecTag /\ n \in Nat /\ t \notin DOMAIN regs.assigned
            /\ Len(regs.freeVec) > 0 /\ g = Head(regs.freeVec) /\ u = VecWritten(regs, t, g, n)
        BY <3>1, <4>1 DEF n
      <4>3. Good(u) /\ WriteUndone(u, Entry("W", t, g, FALSE), regs)
        BY ONLY <4>2, VecTaken
      <4> QED
        BY <4>3 DEF e, WriteUndone
  <2>3. u.assigned = With(assigned, t, g) /\ u.remaining = With(remaining, t, readCount[t])
    BY <1>2 DEF Bind, VecWritten, regs
  <2>4. e.kind = "W"
    BY DEF Entry
  <2> HIDE DEF u, e, g
  <2>5. regs' = u
    BY <2>1, <2>2, BecomeRegs DEF Good
  <2>6. assigned' = With(assigned, t, g) /\ remaining' = With(remaining, t, readCount[t])
    BY <2>1, <2>3 DEF Become
  <2>7. Undo(regs', e, readCount) = regs
    BY <2>2, <2>4, <2>5 DEF Undo
  <2>8. LatestFresh'
    BY <1>1, <2>1, SizeAssumption DEF LatestFresh
  <2> QED
    BY <1>1, <1>3, <2>1, <2>2, <2>4, <2>5, <2>6, <2>7, <2>8, RecordedStep
<1>5. CASE WriteWord(t)
  <2>0. PICK g \in BestFit(regs) :
          /\ Become(Bind(PopWord(regs, g), t, Last(freeWords[g]), readCount[t]))
          /\ Record(Entry("Ws", t, Last(freeWords[g]), FALSE))
    BY <1>5 DEF WriteWord
  <2> DEFINE w == Last(freeWords[g])
             u == Bind(PopWord(regs, g), t, w, readCount[t])
             e == Entry("Ws", t, w, FALSE)
  <2>1. t \in ScalarTag /\ Become(u) /\ Record(e)
    BY <1>5, <2>0 DEF WriteWord
  <2>2. g \in DOMAIN regs.freeCount /\ regs.freeCount[g] > 0
    BY DEF BestFit
  <2>3. Good(u) /\ UndoWrite(u, e) = regs /\ w \notin u.claimOf
    BY <1>1, <1>2, <2>1, <2>2, WordTaken DEF WriteUndone
  <2>4. u.assigned = With(assigned, t, w) /\ u.remaining = With(remaining, t, readCount[t])
    BY <1>2 DEF Bind, PopWord, regs
  <2>5. e.kind = "Ws" /\ e.claim = FALSE
    BY DEF Entry
  <2> HIDE DEF u, e, w
  <2>6. regs' = u
    BY <2>1, <2>3, BecomeRegs DEF Good
  <2>7. /\ assigned' = With(assigned, t, w) /\ remaining' = With(remaining, t, readCount[t])
        /\ claimOf' = u.claimOf
    BY <2>1, <2>4 DEF Become
  <2>8. Undo(regs', e, readCount) = regs
    BY <2>3, <2>5, <2>6 DEF Undo
  <2>9. LatestFresh'
    <3>1. assigned'[t] = w
      BY <1>3, <2>7
    <3> QED
      BY <1>1, <2>3, <2>7, <3>1 DEF LatestFresh
  <2> QED
    BY <1>1, <1>3, <2>1, <2>3, <2>5, <2>6, <2>7, <2>8, <2>9, RecordedStep
<1>6. CASE WriteClaim(t)
  <2> DEFINE g == Head(freeVec)
             w == g + VLEN - 1
             u == ClaimWritten(regs, t, g, w, readCount[t])
             e == Entry("Ws", t, w, TRUE)
  <2>1. t \in ScalarTag /\ freeVec # << >> /\ Become(u) /\ Record(e)
    BY <1>6 DEF WriteClaim, ClaimWritten
  <2>2. /\ Good(u) /\ UndoWrite(u, e) = regs
        /\ Base(w) = g /\ w \in u.claimOf
        /\ u.freeCount[g] = VLEN - 1 /\ u.freeWords[g] = Front(WordsInOrder(g))
    <3>1. /\ t \notin DOMAIN regs.assigned /\ Len(regs.freeVec) > 0 /\ g = Head(regs.freeVec)
          /\ w = g + VLEN - 1
          /\ u = ClaimWritten(regs, t, g, w, readCount[t])
      <4>1. freeVec \in Seq(Granule)
        BY <1>2 DEF Good, TypeAt
      <4>2. Len(freeVec) > 0
        BY <2>1, <4>1, EmptySeq, LenProperties
      <4> QED
        BY <1>1, <1>2, <2>1, <4>2
    <3> HIDE DEF u, g, w
    <3> QED
      <4>1. Good(regs) /\ t \in ScalarTag /\ readCount[t] \in Nat
        BY <1>2, <2>1
      <4> DEFINE n == readCount[t]
      <4> HIDE DEF n
      <4>2. /\ Good(regs) /\ t \in ScalarTag /\ n \in Nat /\ t \notin DOMAIN regs.assigned
            /\ Len(regs.freeVec) > 0 /\ g = Head(regs.freeVec) /\ w = g + VLEN - 1
            /\ u = ClaimWritten(regs, t, g, w, n)
        BY <3>1, <4>1 DEF n
      <4>3. /\ Good(u) /\ WriteUndone(u, Entry("Ws", t, w, TRUE), regs)
            /\ FreshClaim(u, g, w)
        BY ONLY <4>2, ClaimTaken
      <4> QED
        BY <4>3 DEF e, WriteUndone, FreshClaim
  <2>3. u.assigned = With(assigned, t, w) /\ u.remaining = With(remaining, t, readCount[t])
    BY <1>2 DEF Bind, PopWord, Claim, ClaimWritten, regs
  <2>4. e.kind = "Ws" /\ e.addr = w
    BY DEF Entry
  <2>5. w = g + VLEN - 1
    OBVIOUS
  <2> HIDE DEF u, e, g, w
  <2>6. regs' = u
    BY <2>1, <2>2, BecomeRegs DEF Good
  <2>7. /\ assigned' = With(assigned, t, w) /\ remaining' = With(remaining, t, readCount[t])
        /\ claimOf' = u.claimOf /\ freeCount' = u.freeCount /\ freeWords' = u.freeWords
    BY <2>1, <2>3 DEF Become
  <2>8. Undo(regs', e, readCount) = regs
    BY <2>2, <2>4, <2>6 DEF Undo
  <2>9. LatestFresh'
    <3>1. assigned'[t] = w
      BY <1>3, <2>7
    <3> QED
      BY <1>1, <2>2, <2>5, <2>7, <3>1 DEF LatestFresh
  <2> QED
    BY <1>1, <1>3, <2>1, <2>2, <2>4, <2>6, <2>7, <2>8, <2>9, RecordedStep
<1> QED
  BY <1>1, <1>4, <1>5, <1>6

\* unwrite(t).
LEMMA UnwriteStep ==
  ASSUME RegInv, NEW t \in Tag, HUnwrite(t)
  PROVE  RegInv'
<1> DEFINE w == assigned[t]
           n == readCount[t]
<1>1. /\ target = Idle /\ t \in latest /\ t \in DOMAIN assigned /\ remaining[t] = n
      /\ latest' = {} /\ Note
      /\ UNCHANGED <<readCount, recording, target>>
  BY DEF HUnwrite, Unwrite
<1>2. /\ Good(regs) /\ n = regs.remaining[t] /\ w = regs.assigned[t] /\ t \in DOMAIN regs.assigned
      /\ regs.freeVec = freeVec /\ regs.freeWords = freeWords /\ regs.freeCount = freeCount
      /\ regs.claimOf = claimOf /\ regs.assigned = assigned /\ regs.remaining = remaining
      /\ DOMAIN remaining = DOMAIN assigned
      /\ \A x \in DOMAIN assigned : remaining[x] <= readCount[x]
  BY <1>1, Ready
<1>3. ASSUME assigned' = Without(assigned, t), remaining' = Without(remaining, t)
      PROVE  \A x \in DOMAIN assigned' : remaining'[x] <= readCount[x]
  BY <1>2, <1>3 DEF Without, Restrict
<1>4. LatestFresh' /\ latest' \subseteq DOMAIN assigned'
  BY <1>1 DEF LatestFresh
<1>5. CASE t \in VecTag /\ Become(VecUnbound(regs, t, <<w>> \o freeVec)) /\ Record(Entry("U", t, w, FALSE))
  <2> DEFINE u == VecUnbound(regs, t, <<w>> \o freeVec)
             q == <<w>> \o freeVec
             e == Entry("U", t, w, FALSE)
  <2>1. e.kind = "U" /\ e.addr = w /\ e.tag = t
    BY DEF Entry
  <2>2. Become(u) /\ Record(e)
    BY <1>5
  <2>3. u.assigned = Without(assigned, t) /\ u.remaining = Without(remaining, t)
    BY <1>2 DEF VecUnbound, Unbind, regs
  <2>4. q \in {<<w>> \o regs.freeVec, Append(regs.freeVec, w)} /\ u = VecUnbound(regs, t, q)
    BY <1>2
  <2> HIDE DEF u, q, e, w, n
  <2>5. Good(u) /\ VecRegained(u, t, w, n, regs)
    BY ONLY <1>2, <1>5, <2>4, VecReturned
  <2>6. regs' = u /\ assigned' = u.assigned /\ remaining' = u.remaining
    BY <2>2, <2>5, BecomeRegs DEF Good, Become
  <2>7. Undo(regs', e, readCount) = regs
    BY <2>1, <2>5, <2>6 DEF Undo, UndoUnwrite, VecRegained, VecRebound, n
  <2> QED
    BY <1>1, <1>3, <1>4, <2>1, <2>2, <2>3, <2>5, <2>6, <2>7, RecordedStep
<1>6. CASE /\ t \in ScalarTag /\ Reversible(regs, w)
           /\ Become(ClaimUnbound(regs, t, Base(w), w)) /\ Record(Entry("Urev", t, w, TRUE))
  <2> DEFINE g == Base(w)
             u == ClaimUnbound(regs, t, g, w)
             e == Entry("Urev", t, w, TRUE)
  <2>1. e.kind = "Urev" /\ e.addr = w /\ e.tag = t
    BY DEF Entry
  <2>2. Become(u) /\ Record(e)
    BY <1>6
  <2>3. u.assigned = Without(assigned, t) /\ u.remaining = Without(remaining, t)
    BY <1>2 DEF ClaimUnbound, Unclaim, Unbind, regs
  <2>4. /\ w \in regs.claimOf /\ regs.freeCount[g] = VLEN - 1
        /\ w = g + VLEN - 1 /\ regs.freeWords[g] = Front(WordsInOrder(g))
    BY <1>1, <1>2, <1>6 DEF Reversible, RegInv, LatestFresh
  <2>5. g = Base(w) /\ u = ClaimUnbound(regs, t, g, w)
    OBVIOUS
  <2> HIDE DEF u, g, e, w, n
  <2>6. Good(u) /\ ClaimRegained(u, t, g, w, n, regs)
    BY ONLY <1>2, <1>6, <2>4, <2>5, ClaimReversed
  <2>7. regs' = u /\ assigned' = u.assigned /\ remaining' = u.remaining
    BY <2>2, <2>6, BecomeRegs DEF Good, Become
  <2>8. Undo(regs', e, readCount) = regs
    BY <2>1, <2>5, <2>6, <2>7 DEF Undo, UndoUnwrite, ClaimRegained, ClaimRebound, n
  <2> QED
    BY <1>1, <1>3, <1>4, <2>1, <2>2, <2>3, <2>6, <2>7, <2>8, RecordedStep
<1>7. CASE /\ t \in ScalarTag /\ Become(WordUnbound(regs, t, w))
           /\ Record(Entry("Uret", t, w, w \in claimOf))
  <2> DEFINE u == WordUnbound(regs, t, w)
             e == Entry("Uret", t, w, w \in claimOf)
  <2>1. e.kind = "Uret" /\ e.addr = w /\ e.tag = t /\ e.claim = (w \in regs.claimOf)
    BY <1>2 DEF Entry
  <2>2. Become(u) /\ Record(e)
    BY <1>7
  <2>3. u.assigned = Without(assigned, t) /\ u.remaining = Without(remaining, t)
    BY <1>2 DEF WordUnbound, PutWord, Unbind, regs
  <2>4. u = WordUnbound(regs, t, w)
    OBVIOUS
  <2> HIDE DEF u, e, w, n
  <2>5. Good(u) /\ WordRegained(u, e, t, w, n, regs)
    BY ONLY <1>2, <1>7, <2>1, <2>4, WordReturned
  <2>6. regs' = u /\ assigned' = u.assigned /\ remaining' = u.remaining
    BY <2>2, <2>5, BecomeRegs DEF Good, Become
  <2>7. Undo(regs', e, readCount) = regs
    BY <2>1, <2>5, <2>6 DEF Undo, UndoUnwrite, WordRegained, n
  <2> QED
    BY <1>1, <1>3, <1>4, <2>1, <2>2, <2>3, <2>5, <2>6, <2>7, RecordedStep
<1> QED
  <2>1. \/ /\ t \in VecTag
           /\ Become([Unbind(regs, t) EXCEPT !.freeVec = <<w>> \o @])
           /\ Record(Entry("U", t, w, FALSE))
        \/ /\ t \in ScalarTag
           /\ Reversible(regs, w)
           /\ Become([Unclaim(Unbind(regs, t), Base(w)) EXCEPT !.claimOf = @ \ {w}])
           /\ Record(Entry("Urev", t, w, TRUE))
        \/ /\ t \in ScalarTag
           /\ Become([PutWord(Unbind(regs, t), w) EXCEPT !.claimOf = @ \ {w}])
           /\ Record(Entry("Uret", t, w, w \in claimOf))
    BY DEF HUnwrite, Unwrite
  <2>2. [Unbind(regs, t) EXCEPT !.freeVec = <<w>> \o @] = VecUnbound(regs, t, <<w>> \o freeVec)
    BY <1>2 DEF VecUnbound, Unbind, regs
  <2> QED
    BY <1>5, <1>6, <1>7, <2>1, <2>2 DEF ClaimUnbound, WordUnbound

\* read(t).
LEMMA ReadStep ==
  ASSUME RegInv, NEW t \in Tag, HRead(t)
  PROVE  RegInv'
<1> DEFINE w == assigned[t]
<1>1. /\ target = Idle /\ t \in DOMAIN assigned /\ remaining[t] > 0
      /\ latest' = {} /\ Note
      /\ UNCHANGED <<readCount, recording, target>>
  BY DEF HRead, Read
<1>2. /\ Good(regs) /\ w = regs.assigned[t] /\ t \in DOMAIN regs.assigned
      /\ regs.freeVec = freeVec /\ regs.freeWords = freeWords /\ regs.freeCount = freeCount
      /\ regs.claimOf = claimOf /\ regs.assigned = assigned /\ regs.remaining = remaining
      /\ DOMAIN remaining = DOMAIN assigned
      /\ \A x \in DOMAIN assigned : remaining[x] \in Nat /\ remaining[x] <= readCount[x]
      /\ \A x \in DOMAIN assigned : readCount[x] \in Nat
  BY <1>1, Ready
<1>3. ASSUME assigned' = Without(assigned, t), remaining' = Without(remaining, t)
      PROVE  \A x \in DOMAIN assigned' : remaining'[x] <= readCount[x]
  BY <1>2, <1>3 DEF Without, Restrict
<1>4. LatestFresh' /\ latest' \subseteq DOMAIN assigned'
  BY <1>1 DEF LatestFresh
<1>5. CASE remaining[t] > 1 /\ Become([regs EXCEPT !.remaining[t] = @ - 1]) /\ Record(Entry("R", t, w, FALSE))
  <2> DEFINE u == [regs EXCEPT !.remaining[t] = @ - 1]
             e == Entry("R", t, w, FALSE)
  <2>1. e.kind = "R" /\ e.tag = t
    BY DEF Entry
  <2>2. Become(u) /\ Record(e)
    BY <1>5
  <2>3. Good(u) /\ [u EXCEPT !.remaining[t] = @ + 1] = regs
    BY <1>2, <1>5, ReadOne
  <2>4. u.assigned = assigned /\ u.remaining = [remaining EXCEPT ![t] = @ - 1]
    BY DEF regs
  <2> HIDE DEF u, e, w
  <2>5. regs' = u /\ assigned' = assigned /\ remaining' = [remaining EXCEPT ![t] = @ - 1]
    BY <2>2, <2>3, <2>4, BecomeRegs DEF Good, Become
  <2>6. \A x \in DOMAIN assigned' : remaining'[x] <= readCount[x]
    BY <1>2, <2>5
  <2>7. Undo(regs', e, readCount) = regs
    BY <2>1, <2>3, <2>5 DEF Undo, UndoRead
  <2> QED
    BY <1>1, <1>4, <2>1, <2>2, <2>3, <2>5, <2>6, <2>7, RecordedStep
<1>6. CASE /\ remaining[t] = 1 /\ t \in VecTag
           /\ Become(VecUnbound(regs, t, Append(freeVec, w))) /\ Record(Entry("F", t, w, FALSE))
  <2> DEFINE q == Append(freeVec, w)
             u == VecUnbound(regs, t, q)
             e == Entry("F", t, w, FALSE)
  <2>1. e.kind = "F" /\ e.addr = w /\ e.tag = t
    BY DEF Entry
  <2>2. Become(u) /\ Record(e)
    BY <1>6
  <2>3. u.assigned = Without(assigned, t) /\ u.remaining = Without(remaining, t)
    BY <1>2 DEF VecUnbound, Unbind, regs
  <2>4. q \in {<<w>> \o regs.freeVec, Append(regs.freeVec, w)} /\ u = VecUnbound(regs, t, q)
    BY <1>2
  <2> HIDE DEF u, q, e, w
  <2>5. Good(u) /\ VecRegained(u, t, w, regs.remaining[t], regs)
    BY ONLY <1>2, <1>6, <2>4, VecReturned
  <2>6. regs' = u /\ assigned' = u.assigned /\ remaining' = u.remaining
    BY <2>2, <2>5, BecomeRegs DEF Good, Become
  <2>7. Undo(regs', e, readCount) = regs
    BY <1>2, <1>6, <2>1, <2>5, <2>6 DEF Undo, UndoRead, VecRegained, VecRebound
  <2> QED
    BY <1>1, <1>3, <1>4, <2>1, <2>2, <2>3, <2>5, <2>6, <2>7, RecordedStep
<1>7. CASE /\ remaining[t] = 1 /\ t \in ScalarTag
           /\ Become(WordUnbound(regs, t, w)) /\ Record(Entry("Fs", t, w, w \in claimOf))
  <2> DEFINE u == WordUnbound(regs, t, w)
             e == Entry("Fs", t, w, w \in claimOf)
  <2>1. e.kind = "Fs" /\ e.addr = w /\ e.tag = t /\ e.claim = (w \in regs.claimOf)
    BY <1>2 DEF Entry
  <2>2. Become(u) /\ Record(e)
    BY <1>7
  <2>3. u.assigned = Without(assigned, t) /\ u.remaining = Without(remaining, t)
    BY <1>2 DEF WordUnbound, PutWord, Unbind, regs
  <2>4. u = WordUnbound(regs, t, w)
    OBVIOUS
  <2> HIDE DEF u, e, w
  <2>5. Good(u) /\ WordRegained(u, e, t, w, regs.remaining[t], regs)
    BY ONLY <1>2, <1>7, <2>1, <2>4, WordReturned
  <2>6. regs' = u /\ assigned' = u.assigned /\ remaining' = u.remaining
    BY <2>2, <2>5, BecomeRegs DEF Good, Become
  <2>7. Undo(regs', e, readCount) = regs
    BY <1>2, <1>7, <2>1, <2>5, <2>6 DEF Undo, UndoRead, WordRegained
  <2> QED
    BY <1>1, <1>3, <1>4, <2>1, <2>2, <2>3, <2>5, <2>6, <2>7, RecordedStep
<1> QED
  <2>1. \/ /\ remaining[t] > 1
           /\ Become([regs EXCEPT !.remaining[t] = @ - 1])
           /\ Record(Entry("R", t, w, FALSE))
        \/ /\ remaining[t] = 1
           /\ t \in VecTag
           /\ Become([Unbind(regs, t) EXCEPT !.freeVec = Append(@, w)])
           /\ Record(Entry("F", t, w, FALSE))
        \/ /\ remaining[t] = 1
           /\ t \in ScalarTag
           /\ Become([PutWord(Unbind(regs, t), w) EXCEPT !.claimOf = @ \ {w}])
           /\ Record(Entry("Fs", t, w, w \in claimOf))
    BY DEF HRead, Read
  <2>2. [Unbind(regs, t) EXCEPT !.freeVec = Append(@, w)] = VecUnbound(regs, t, Append(freeVec, w))
    BY <1>2 DEF VecUnbound, Unbind, regs
  <2> QED
    BY <1>5, <1>6, <1>7, <2>1, <2>2 DEF WordUnbound

-----------------------------------------------------------------------------
\* The steps that leave the registers alone.
LEMMA IdleStep ==
  ASSUME RegInv, UNCHANGED <<readCount, freeVec, freeWords, freeCount, claimOf, assigned, remaining>>,
         UNCHANGED <<log, past>>,
         recording' \in BOOLEAN, ~recording' => log = << >>,
         target' \in {Idle} \cup 0 .. Len(log), latest' \in {latest, {}},
         target' # Idle => latest' = {}
  PROVE  RegInv'
<1>1. regs' = regs
  BY DEF regs
<1>2. /\ readCount \in [Tag -> Nat] /\ TypeAt(regs) /\ PartitionAt(regs) /\ CountsAt(regs)
      /\ \A t \in DOMAIN assigned : remaining[t] <= readCount[t]
      /\ latest \subseteq DOMAIN assigned
  BY DEF RegInv, TypeOK, Partition, CountsAgree
<1>3. TypeOK' /\ Partition' /\ CountsAgree'
  BY <1>1, <1>2 DEF TypeOK, Partition, CountsAgree
<1>4. \A k : After(k)' = After(k)
  BY <1>1 DEF After
<1>5. UndoExact'
  BY <1>4 DEF RegInv, UndoExact
<1>6. TrialGood'
  BY <1>4 DEF RegInv, TrialGood
<1>7. LatestFresh'
  BY DEF RegInv, LatestFresh
<1> QED
  BY <1>3, <1>5, <1>6, <1>7 DEF RegInv

\* checkpoint().
LEMMA CheckpointStep ==
  ASSUME RegInv, HCheckpoint
  PROVE  RegInv'
BY IdleStep DEF HCheckpoint, Checkpoint, RegInv, TypeOK

\* rollback(token) begins.
LEMMA RollbackStep ==
  ASSUME RegInv, NEW token \in 0 .. Len(log), HRollback(token)
  PROVE  RegInv'
BY IdleStep DEF HRollback, Rollback, RegInv, TypeOK

\* rollback() ends.
LEMMA RollbackDoneStep ==
  ASSUME RegInv, HRollbackDone
  PROVE  RegInv'
<1>1. /\ target # Idle /\ Len(log) <= target /\ recording' = (target # 0) /\ target' = Idle
      /\ UNCHANGED <<readCount, freeVec, freeWords, freeCount, claimOf, assigned,
                     remaining, log, latest, past>>
  BY DEF HRollbackDone, RollbackDone
<1>2. log \in Seq(Range(log)) /\ Len(log) \in Nat
  BY LenProperties DEF RegInv, TrialGood
<1>3. ~recording' => log = << >>
  <2> SUFFICES ASSUME ~recording' PROVE log = << >>
    OBVIOUS
  <2>1. target = 0
    BY <1>1
  <2>2. Len(log) = 0
    BY <1>1, <1>2, <2>1
  <2> QED
    BY <1>2, <2>2
<1> QED
  BY <1>1, <1>3, IdleStep DEF Idle

\* One entry is undone.
LEMMA PopStep ==
  ASSUME RegInv, HPopEntry
  PROVE  RegInv'
<1>1. /\ target # Idle /\ Len(log) > target /\ Become(Undo(regs, Last(log), readCount))
      /\ log' = Front(log) /\ past' = Front(past)
      /\ UNCHANGED <<readCount, recording, target, latest>>
  BY DEF HPopEntry, PopEntry
<1>2. /\ log \in Seq(Range(log)) /\ past \in Seq(Range(past)) /\ Len(past) = Len(log)
      /\ Len(log) \in Nat /\ target \in 0 .. Len(log)
      /\ readCount \in [Tag -> Nat] /\ recording \in BOOLEAN /\ latest = {}
  BY <1>1, LenProperties DEF RegInv, TypeOK, UndoExact, TrialGood, LatestFresh
<1>3. PICK n \in Nat : n = Len(log)
  BY <1>2
<1>4. n > 0 /\ n \in 1 .. n /\ n - 1 \in Nat /\ recording
  <2>1. n > 0
    BY <1>1, <1>2, <1>3
  <2>2. log # << >>
    BY <1>3, <2>1
  <2> QED
    BY <1>2, <1>3, <2>1, <2>2 DEF RegInv, UndoExact
<1>5. CutTo(log, log') /\ CutTo(past, past')
  BY <1>1, <1>2, <1>3, <1>4, Cut
<1>6. /\ log' \in Seq(Range(log')) /\ past' \in Seq(Range(past'))
      /\ Len(log') = n - 1 /\ Len(past') = n - 1
      /\ DOMAIN log' = 1 .. n - 1 /\ DOMAIN past' = 1 .. n - 1
      /\ DOMAIN log = 1 .. n /\ DOMAIN past = 1 .. n
      /\ \A k \in 1 .. n - 1 : log'[k] = log[k] /\ past'[k] = past[k]
  BY <1>2, <1>3, <1>5 DEF CutTo
<1>7. /\ Undo(regs, Last(log), readCount) = past[n] /\ Good(past[n])
      /\ \A t \in DOMAIN past[n].assigned : past[n].remaining[t] <= readCount[t]
  <2>1. Last(log) = log[n] /\ After(n) = regs
    BY <1>3 DEF Last, After
  <2>2. Undo(After(n), log[n], readCount) = past[n]
    BY <1>3, <1>4 DEF RegInv, UndoExact
  <2> QED
    BY <1>4, <1>6, <2>1, <2>2 DEF RegInv, TrialGood
<1>8. /\ regs' = past[n]
      /\ assigned' = past[n].assigned /\ remaining' = past[n].remaining
  BY <1>1, <1>7, BecomeRegs DEF Good, Become
<1>9. TypeOK' /\ Partition' /\ CountsAgree'
  <2>1. Good(regs') /\ \A t \in DOMAIN assigned' : remaining'[t] <= readCount[t]
    BY <1>7, <1>8
  <2>2. target' \in 0 .. Len(log')
    BY <1>1, <1>2, <1>3, <1>6
  <2> QED
    BY <1>1, <1>2, <2>1, <2>2 DEF Good, TypeOK, Partition, CountsAgree
<1>10. \A k \in 1 .. n - 1 : k \in 1 .. n /\ After(k)' = After(k)
  <2> SUFFICES ASSUME NEW k \in 1 .. n - 1 PROVE k \in 1 .. n /\ After(k)' = After(k)
    OBVIOUS
  <2>1. k # n /\ k \in 1 .. n /\ k + 1 \in 1 .. n
    BY <1>4
  <2>2. After(k) = past[k + 1]
    BY <1>3, <2>1 DEF After
  <2>3. CASE k = n - 1
    <3>1. After(k)' = regs' /\ k + 1 = n
      BY <1>6, <2>3 DEF After
    <3> QED
      BY <1>8, <2>2, <3>1
  <2>4. CASE k # n - 1
    <3>1. After(k)' = past'[k + 1] /\ k + 1 \in 1 .. n - 1
      BY <1>6, <2>4 DEF After
    <3> QED
      BY <1>6, <2>2, <3>1
  <2> QED
    BY <2>1, <2>3, <2>4
<1>11. UndoExact'
  <2>1. ASSUME NEW k \in 1 .. n - 1
        PROVE  Undo(After(k)', log'[k], readCount) = past'[k]
    <3>1. Undo(After(k), log[k], readCount) = past[k]
      BY <1>3, <1>10 DEF RegInv, UndoExact
    <3> QED
      BY <1>6, <1>10, <3>1
  <2> QED
    BY <1>1, <1>4, <1>6, <2>1 DEF UndoExact
<1>12. TrialGood'
  <2>1. ASSUME NEW k \in 1 .. n - 1
        PROVE  /\ Good(past'[k])
               /\ \A t \in DOMAIN past'[k].assigned : past'[k].remaining[t] <= readCount[t]
    BY <1>6, <1>10 DEF RegInv, TrialGood
  <2>2. ASSUME NEW k \in 1 .. n - 1, log'[k].kind = "Ws", log'[k].claim
        PROVE  /\ log'[k].addr \in After(k)'.claimOf
               /\ After(k)'.freeCount[Base(log'[k].addr)] = VLEN - 1
    <3>1. /\ log[k].addr \in After(k).claimOf
          /\ After(k).freeCount[Base(log[k].addr)] = VLEN - 1
      BY <1>6, <1>10, <2>2 DEF RegInv, TrialGood
    <3> QED
      BY <1>6, <1>10, <3>1
  <2> QED
    BY <1>1, <1>6, <2>1, <2>2 DEF TrialGood
<1>13. LatestFresh' /\ (latest \subseteq DOMAIN assigned)'
  BY <1>1, <1>2 DEF LatestFresh
<1> QED
  BY <1>9, <1>11, <1>12, <1>13 DEF RegInv

-----------------------------------------------------------------------------
\* The end-of-cycle collection.  A sequence of SetToSeqs lists its set.
LEMMA OrderList ==
  ASSUME NEW S, IsFiniteSet(S), NEW q \in SetToSeqs(S)
  PROVE  ListOf(q, S)
<1> DEFINE n == Cardinality(S)
<1>1. q \in [1 .. n -> S] /\ IsInjective(q) /\ n \in Nat
  BY FS_CardinalityType DEF SetToSeqs, IsInjective
<1> HIDE DEF n
<1>2. q \in Seq(S) /\ Len(q) = n /\ DOMAIN q = 1 .. n
  BY <1>1
<1> DEFINE R == Range(q)
<1>3. R \subseteq S /\ q \in [1 .. n -> R] /\ \A x \in R : \E k \in 1 .. n : q[k] = x
  BY <1>1 DEF Range
<1> HIDE DEF R
<1>4. q \in Seq(R)
  BY <1>1, <1>3
<1>5. ListOf(q, R)
  BY <1>1, <1>2, <1>3, <1>4 DEF ListOf
<1>6. Cardinality(R) = n
  BY <1>2, <1>5, ListLength
<1>7. R = S
  BY <1>3, <1>6, FS_Subset DEF n
<1> QED
  BY <1>5, <1>7

\* There are finitely many granules.
LEMMA GranulesFinite ==
  IsFiniteSet(Granule)
<1>1. VLEN \in Int /\ SCRATCH - 1 \in Int
  BY SizeAssumption
<1>2. IsFiniteSet(VLEN .. SCRATCH - 1)
  BY <1>1, FS_Interval
<1>3. Granule \subseteq VLEN .. SCRATCH - 1
  BY DEF Granule
<1> QED
  BY <1>2, <1>3, FS_Subset

\* A table restricted to some of its keys.
LEMMA RestrictFields ==
  ASSUME NEW f, NEW D, D \subseteq DOMAIN f
  PROVE  DOMAIN Restrict(f, D) = D /\ \A x \in D : Restrict(f, D)[x] = f[x]
BY DEF Restrict

\* A granule whose words are all free holds no value, so it may join the deque.
LEMMA CollectGood ==
  ASSUME RegInv, Collect
  PROVE  Good(regs') /\ \A g \in DOMAIN freeWords' : g \in Granule /\ freeCount'[g] # VLEN
<1> DEFINE S == Reclaimable
           D == DOMAIN freeWords
           s == regs'
<1>1. /\ target = Idle /\ ~recording /\ latest' = {}
      /\ freeWords' = Restrict(freeWords, D \ S)
      /\ freeCount' = Restrict(freeCount, DOMAIN freeCount \ S)
      /\ UNCHANGED <<readCount, claimOf, assigned, remaining, recording, log, target>>
  BY DEF Collect
<1>2. PICK order \in SetToSeqs(S) : freeVec' = freeVec \o order
  BY DEF Collect
<1>3. /\ Good(regs) /\ readCount \in [Tag -> Nat]
      /\ regs.freeVec = freeVec /\ regs.freeWords = freeWords /\ regs.freeCount = freeCount
      /\ regs.claimOf = claimOf /\ regs.assigned = assigned /\ regs.remaining = remaining
      /\ \A t \in DOMAIN assigned : remaining[t] <= readCount[t]
  BY Ready
<1>4. /\ BindingsOK(regs) /\ PoolsTyped(regs) /\ VecPool(regs) /\ WordPool(regs) /\ CountsAt(regs)
  BY <1>3, GoodParts
<1>5. /\ s.freeVec = freeVec' /\ s.freeWords = freeWords' /\ s.freeCount = freeCount'
      /\ s.claimOf = claimOf /\ s.assigned = assigned /\ s.remaining = remaining /\ IsRegs(s)
  BY <1>1 DEF regs, IsRegs
<1>6. D \subseteq Granule /\ DOMAIN freeCount = D /\ S \subseteq D
      /\ \A g \in D : g \in S <=> freeCount[g] = VLEN
  BY <1>3, <1>4 DEF PoolsTyped, Table, Reclaimable
<1>7. /\ Held(s, VecTag) = Held(regs, VecTag) /\ Held(s, ScalarTag) = Held(regs, ScalarTag)
  BY <1>3, <1>5 DEF Held
<1>8. /\ DOMAIN freeWords' = D \ S /\ \A g \in D \ S : freeWords'[g] = freeWords[g]
      /\ DOMAIN freeCount' = D \ S /\ \A g \in D \ S : freeCount'[g] = freeCount[g]
  BY <1>1, <1>6, RestrictFields
<1>9. \A g \in S : Words(g) \cap Held(regs, ScalarTag) = {}
  <2> SUFFICES ASSUME NEW g \in S PROVE Words(g) \cap Held(regs, ScalarTag) = {}
    OBVIOUS
  <2> DEFINE W == Words(g) \ Held(regs, ScalarTag)
             q == freeWords[g]
  <2>1. ListOf(q, W) /\ Len(q) = VLEN
    BY <1>3, <1>4, <1>6 DEF WordPool, CountsAt
  <2>2. g \in Granule /\ W \in SUBSET Words(g)
    BY <1>6
  <2> HIDE DEF W, q
  <2>3. W = Words(g)
    BY <2>1, <2>2, WordList
  <2> QED
    BY <2>3 DEF W
<1> DEFINE H == Held(regs, VecTag)
           F == Granule \ (D \cup H)
<1>10. /\ ListOf(freeVec, F) /\ H \subseteq Granule \ D
  BY <1>3, <1>4 DEF VecPool
<1>11. ListOf(order, S)
  BY <1>6, GranulesFinite, FS_Subset, OrderList
<1>12. F \cap S = {} /\ F \cup S = Granule \ ((D \ S) \cup H)
  BY <1>6, <1>10
<1> HIDE DEF S, D, F, H, s
<1>13. ListOf(freeVec \o order, F \cup S)
  BY <1>10, <1>11, <1>12, ListConcat
<1>14. VecPool(s)
  BY <1>2, <1>5, <1>7, <1>8, <1>10, <1>12, <1>13 DEF VecPool, H
<1>15. WordPool(s)
  <2>1. ASSUME NEW g \in D \ S
        PROVE  ListOf(freeWords'[g], Words(g) \ Held(s, ScalarTag))
    BY <1>3, <1>4, <1>7, <1>8 DEF WordPool, D
  <2>2. ASSUME NEW w \in Held(s, ScalarTag)
        PROVE  Base(w) \in D \ S
    <3>1. w \in Held(regs, ScalarTag) /\ Base(w) \in D
      BY <1>3, <1>4, <1>7 DEF WordPool, D
    <3>2. w \in Word
      BY <3>1, <1>4 DEF Held, BindingsOK, Table
    <3>3. w \in Words(Base(w))
      BY <3>2, WordFacts
    <3> QED
      BY <1>9, <3>1, <3>3
  <2> QED
    BY <1>5, <1>8, <2>1, <2>2 DEF WordPool
<1>16. PoolsTyped(s)
  <2>1. freeVec' \in Seq(Granule)
    <3>1. F \cup S \subseteq Granule /\ freeVec' \in Seq(F \cup S)
      BY <1>2, <1>12, <1>13 DEF ListOf
    <3>2. Len(freeVec') \in Nat /\ DOMAIN freeVec' = 1 .. Len(freeVec')
      BY <3>1, LenProperties
    <3>3. freeVec' \in [1 .. Len(freeVec') -> Granule]
      BY <3>1, <3>2, ElementOfSeq
    <3> QED
      BY <3>2, <3>3
  <2>2. freeWords \in [D -> Seq(Word)] /\ freeCount \in [D -> 0 .. VLEN] /\ claimOf \subseteq Word
    BY <1>3, <1>4 DEF PoolsTyped, Table, D
  <2>3. freeWords' \in [D \ S -> Seq(Word)] /\ freeCount' \in [D \ S -> 0 .. VLEN]
    BY <1>1, <1>6, <1>8, <2>2 DEF Restrict
  <2> QED
    BY <1>5, <1>6, <1>8, <2>1, <2>2, <2>3 DEF PoolsTyped, Table
<1>17. CountsAt(s)
  BY <1>3, <1>4, <1>5, <1>7, <1>8 DEF CountsAt, D
<1>18. BindingsOK(s)
  BY <1>3, <1>4, <1>5 DEF BindingsOK, Distinct
<1>19. Good(s)
  BY <1>5, <1>14, <1>15, <1>16, <1>17, <1>18, GoodParts
<1> QED
  BY <1>6, <1>8, <1>19 DEF s

\* The collection keeps the invariant; no trial is open, so no log entry.
LEMMA CollectStep ==
  ASSUME RegInv, HCollect
  PROVE  RegInv'
<1>1. /\ Collect /\ target = Idle /\ ~recording /\ latest' = {}
      /\ UNCHANGED <<readCount, claimOf, assigned, remaining, recording, log, target, past>>
  BY DEF HCollect, Collect
<1>2. Good(regs')
  BY <1>1, CollectGood
<1>3. readCount \in [Tag -> Nat] /\ \A t \in DOMAIN assigned : remaining[t] <= readCount[t]
  BY Ready
<1>4. TypeOK' /\ Partition' /\ CountsAgree'
  <2>1. target' \in {Idle} \cup 0 .. Len(log') /\ recording' \in BOOLEAN
    BY <1>1 DEF RegInv, TypeOK
  <2> QED
    BY <1>1, <1>3, <1>2, <2>1 DEF Good, TypeOK, Partition, CountsAgree
<1>5. /\ log = << >> /\ past \in Seq(Range(past)) /\ log \in Seq(Range(log))
       /\ Len(past) = Len(log)
  BY <1>1 DEF RegInv, UndoExact, TrialGood
<1>6. Len(log) = 0 /\ DOMAIN log = {} /\ DOMAIN past = {}
  <2>1. Len(log) = 0 /\ DOMAIN log = 1 .. 0
    BY <1>5
  <2>2. DOMAIN past = 1 .. 0
    BY <1>5, <2>1, LenProperties
  <2> QED
    BY <2>1, <2>2
<1>7. UndoExact'
  BY <1>1, <1>5, <1>6 DEF UndoExact
<1>8. TrialGood'
  BY <1>1, <1>5, <1>6 DEF TrialGood
<1>9. LatestFresh'
  BY <1>1 DEF LatestFresh
<1> QED
  BY <1>4, <1>7, <1>8, <1>9 DEF RegInv

-----------------------------------------------------------------------------
\* The deque of an empty allocator lists every granule but the pinned one.
LEMMA EmptyPool ==
  ListOf(Empty.freeVec, Granule)
<1> DEFINE n == (SCRATCH \div VLEN) - 1
           q == [k \in 1 .. n |-> k * VLEN]
<1>1. VLEN \in Nat /\ VLEN > 0 /\ SCRATCH \in Nat /\ SCRATCH % VLEN = 0
  BY SizeAssumption
<1>2. SCRATCH = VLEN * (SCRATCH \div VLEN) /\ SCRATCH \div VLEN \in Int
  BY <1>1
<1>3. n \in Int /\ SCRATCH = VLEN * (n + 1)
  BY <1>2
<1> HIDE DEF n
<1>4. ASSUME NEW k \in 1 .. n PROVE k * VLEN \in Granule
  <2>1. k \in Int /\ 1 <= k /\ k + 1 <= n + 1
    BY <1>3
  <2>2. k * VLEN >= VLEN
    BY <1>1, <2>1
  <2>3. VLEN * (k + 1) <= VLEN * (n + 1)
    BY <1>1, <1>3, <2>1
  <2>4. VLEN * (k + 1) = k * VLEN + VLEN
    BY <1>1, <2>1
  <2>5. k * VLEN \in Int /\ k * VLEN <= SCRATCH - 1
    BY <1>1, <1>3, <2>1, <2>3, <2>4
  <2>6. k * VLEN = (VLEN * k) + 0 /\ 0 \in 0 .. VLEN - 1
    BY <1>1, <2>1
  <2>7. (k * VLEN) % VLEN = 0
    BY <2>1, <2>5, <2>6, QuotientUnique
  <2> QED
    BY <1>1, <2>2, <2>5, <2>7 DEF Granule
<1>5. n \in Nat \/ n = -1
  <2> SUFFICES ASSUME n < -1 PROVE FALSE
    BY <1>3
  <2>1. n + 1 \in Int /\ n + 1 <= -1
    BY <1>3
  <2>2. VLEN * (n + 1) <= VLEN * (-1)
    BY <1>1, <2>1
  <2> QED
    BY <1>1, <1>3, <2>2
<1>6. q \in Seq(Granule) /\ DOMAIN q = 1 .. n /\ \A k \in 1 .. n : q[k] = k * VLEN
  <2>1. CASE n \in Nat
    BY <1>4, <2>1 DEF q
  <2>2. CASE n = -1
    <3>1. 1 .. n = 1 .. 0
      BY <2>2
    <3>2. q = [k \in 1 .. 0 |-> k * VLEN]
      BY <3>1 DEF q
    <3>3. q = << >> /\ \A k \in 1 .. 0 : FALSE
      BY <3>2
    <3>4. << >> \in Seq(Granule) /\ DOMAIN << >> = 1 .. 0
      <4>1. DOMAIN << >> = {} /\ 1 .. 0 = {}
        OBVIOUS
      <4> QED
        BY <4>1
    <3> QED
      BY <3>1, <3>3, <3>4
  <2> QED
    BY <1>5, <2>1, <2>2
<1> HIDE DEF q
<1>7. IsInjective(q)
  <2>1. ASSUME NEW i \in 1 .. n, NEW j \in 1 .. n, i * VLEN = j * VLEN PROVE i = j
    BY <1>1, <1>3, <2>1
  <2> QED
    BY <1>6, <2>1 DEF IsInjective
<1>8. ASSUME NEW g \in Granule PROVE \E k \in 1 .. n : q[k] = g
  <2> DEFINE k == g \div VLEN
  <2>1. g \in Int /\ VLEN <= g /\ g <= SCRATCH - 1 /\ g % VLEN = 0
    BY <1>1 DEF Granule
  <2>2. k \in Int /\ g = VLEN * k
    BY <1>1, <2>1
  <2> HIDE DEF k
  <2>3. k >= 1
    BY <1>1, <2>1, <2>2
  <2>4. k < n + 1
    BY <1>1, <1>3, <2>1, <2>2
  <2>5. k \in 1 .. n /\ k * VLEN = g
    BY <1>1, <1>3, <2>2, <2>3, <2>4
  <2> QED
    BY <1>6, <2>5
<1> QED
  BY <1>6, <1>7, <1>8 DEF ListOf, Empty, q, n

\* An empty allocator satisfies the invariant.
LEMMA InitInv ==
  HInit => RegInv
<1> SUFFICES ASSUME HInit PROVE RegInv
  OBVIOUS
<1>1. /\ readCount \in ReadCounts /\ freeVec = Empty.freeVec
      /\ freeWords = << >> /\ freeCount = << >> /\ claimOf = {}
      /\ assigned = << >> /\ remaining = << >> /\ recording = FALSE
      /\ log = << >> /\ target = Idle /\ latest = {} /\ past = << >>
  BY DEF HInit, Init, Empty
<1>2. /\ regs.freeVec = freeVec /\ regs.freeWords = << >> /\ regs.freeCount = << >>
      /\ regs.claimOf = {} /\ regs.assigned = << >> /\ regs.remaining = << >>
  BY <1>1 DEF regs
<1>3. DOMAIN << >> = {} /\ Len(<< >>) = 0
  OBVIOUS
<1>4. readCount \in [Tag -> Nat]
  BY <1>1, SizeAssumption
<1>5. ListOf(freeVec, Granule)
  BY <1>1, EmptyPool
<1>6. Held(regs, VecTag) = {} /\ Held(regs, ScalarTag) = {}
  BY <1>2, <1>3 DEF Held
<1>7. \A S : << >> \in [{} -> S]
  OBVIOUS
<1>8. TypeAt(regs)
  BY <1>2, <1>3, <1>5, <1>7 DEF TypeAt, ListOf
<1>9. PartitionAt(regs)
  BY <1>2, <1>3, <1>5, <1>6 DEF PartitionAt
<1>10. CountsAt(regs)
  BY <1>2, <1>3, <1>6 DEF CountsAt
<1>11. TypeOK
  BY <1>1, <1>3, <1>4, <1>8 DEF TypeOK
<1>12. UndoExact
  BY <1>1, <1>3 DEF UndoExact
<1>13. TrialGood
  BY <1>1, <1>3 DEF TrialGood
<1>14. LatestFresh
  BY <1>1 DEF LatestFresh
<1> QED
  BY <1>9, <1>10, <1>11, <1>12, <1>13, <1>14 DEF RegInv, Partition, CountsAgree

\* Every step keeps the invariant.
LEMMA NextInv ==
  RegInv /\ [HNext]_vars => RegInv'
<1> SUFFICES ASSUME RegInv, [HNext]_vars PROVE RegInv'
  OBVIOUS
<1>1. ASSUME NEW t \in Tag, HWrite(t) PROVE RegInv'
  BY <1>1, WriteStep
<1>2. ASSUME NEW t \in Tag, HUnwrite(t) PROVE RegInv'
  BY <1>2, UnwriteStep
<1>3. ASSUME NEW t \in Tag, HRead(t) PROVE RegInv'
  BY <1>3, ReadStep
<1>4. CASE HCollect
  BY <1>4, CollectStep
<1>5. CASE HCheckpoint
  BY <1>5, CheckpointStep
<1>6. ASSUME NEW token \in 0 .. Len(log), HRollback(token) PROVE RegInv'
  BY <1>6, RollbackStep
<1>7. CASE HPopEntry
  BY <1>7, PopStep
<1>8. CASE HRollbackDone
  BY <1>8, RollbackDoneStep
<1>9. CASE UNCHANGED vars
  <2>1. regs' = regs
    BY <1>9 DEF vars, regs
  <2> QED
    BY <1>9, <2>1 DEF vars, RegInv, TypeOK, Partition, CountsAgree, UndoExact, TrialGood,
                      LatestFresh, After
<1> QED
  BY <1>1, <1>2, <1>3, <1>4, <1>5, <1>6, <1>7, <1>8, <1>9 DEF HNext

-----------------------------------------------------------------------------
\* The inductive invariant holds in every reachable state of the allocator.
THEOREM RegInvariant == HSpec => []RegInv
BY InitInv, NextInv, PTL DEF HSpec

\* The tables are typed, and no value has more reads to come than the program.
THEOREM RegTypes == HSpec => []TypeOK
<1>1. RegInv => TypeOK
  BY DEF RegInv
<1> QED
  BY <1>1, RegInvariant, PTL

\* Through any sequence of write, unwrite, read, collection, checkpoint and
\* rollback no register is lost and none is held twice.
THEOREM RegPartition == HSpec => []Partition
<1>1. RegInv => Partition
  BY DEF RegInv
<1> QED
  BY <1>1, RegInvariant, PTL

\* The counts that choose the best fit and trigger reclamation are exact, in
\* the middle of a rollback too.
THEOREM RegCountsAgree == HSpec => []CountsAgree
<1>1. RegInv => CountsAgree
  BY DEF RegInv
<1> QED
  BY <1>1, RegInvariant, PTL

\* Popping the log gives back every state of the trial, the order of the deque
\* and of the free lists included.
THEOREM RegUndoExact == HSpec => []UndoExact
<1>1. RegInv => UndoExact
  BY DEF RegInv
<1> QED
  BY <1>1, RegInvariant, PTL

\* When rollback() reverses a claim, every sibling of the word is free.
THEOREM RegClaimReversalSafe == HSpec => []ClaimReversalSafe
<1>1. RegInv => ClaimReversalSafe
  <2> SUFFICES ASSUME RegInv, target # Idle, Len(log) > target,
                      Last(log).kind = "Ws", Last(log).claim
               PROVE  /\ Last(log).addr \in claimOf
                      /\ freeCount[Base(Last(log).addr)] = VLEN - 1
    BY DEF ClaimReversalSafe
  <2> DEFINE n == Len(log)
  <2>1. log \in Seq(Range(log)) /\ n \in Nat /\ DOMAIN log = 1 .. n /\ target \in 0 .. n
    BY LenProperties DEF RegInv, TrialGood, TypeOK
  <2>2. n \in DOMAIN log /\ Last(log) = log[n] /\ After(n) = regs
    BY <2>1 DEF Last, After
  <2>3. log[n].addr \in regs.claimOf /\ regs.freeCount[Base(log[n].addr)] = VLEN - 1
    BY <2>2 DEF RegInv, TrialGood
  <2> QED
    BY <2>2, <2>3 DEF regs
<1> QED
  BY <1>1, RegInvariant, PTL

\* After a collection every granule is in the deque, held, or holds a value.
LEMMA CollectedGranule ==
  ASSUME RegInv, Collect, NEW g \in Granule
  PROVE  \/ \E k \in DOMAIN freeVec' : freeVec'[k] = g
         \/ \E t \in DOMAIN assigned' : Base(assigned'[t]) = g
<1> DEFINE s == regs'
<1>1. /\ VecPool(s) /\ WordPool(s) /\ CountsAt(s)
      /\ \A h \in DOMAIN freeWords' : freeCount'[h] # VLEN
  BY CollectGood, GoodParts
<1>2. /\ s.freeVec = freeVec' /\ s.freeWords = freeWords' /\ s.freeCount = freeCount'
      /\ s.assigned = assigned'
  BY DEF regs
<1> HIDE DEF s
<1>3. \A Shape : \A w \in Held(s, Shape) : \E t \in DOMAIN assigned' : assigned'[t] = w
  BY <1>2 DEF Held
<1>4. CASE g \notin DOMAIN freeWords' \cup Held(s, VecTag)
  BY <1>1, <1>2, <1>4 DEF VecPool, ListOf
<1>5. CASE g \in Held(s, VecTag)
  BY <1>3, <1>5, GranuleFacts
<1>6. CASE g \in DOMAIN freeWords'
  <2> DEFINE W == Words(g) \ Held(s, ScalarTag)
             q == freeWords'[g]
  <2>1. ListOf(q, W) /\ Len(q) # VLEN
    BY <1>1, <1>2, <1>6 DEF WordPool, CountsAt
  <2>2. W \in SUBSET Words(g)
    OBVIOUS
  <2> HIDE DEF W, q
  <2>3. W # Words(g)
    BY <2>1, <2>2, WordList
  <2>4. PICK w \in Words(g) : w \in Held(s, ScalarTag)
    BY <2>3 DEF W
  <2>5. Base(w) = g
    BY GranuleFacts
  <2> QED
    BY <1>3, <2>4, <2>5
<1> QED
  BY <1>4, <1>5, <1>6

\* The end-of-cycle collection leaves no granule out of the vector pool that
\* no live value needs.
THEOREM RegNoGranuleStranded == HSpec => NoGranuleStranded
<1>1. RegInv => (Collect => \A g \in Granule :
        \/ \E k \in DOMAIN freeVec' : freeVec'[k] = g
        \/ \E t \in DOMAIN assigned' : Base(assigned'[t]) = g)
  BY CollectedGranule
<1> QED
  BY <1>1, RegInvariant, PTL DEF NoGranuleStranded
-----------------------------------------------------------------------------
\* No two values of a good state share a word, and each has a register that
\* is fit for it.
LEMMA Footprints ==
  ASSUME NEW s, Good(s), NEW t \in DOMAIN s.assigned
  PROVE  /\ Footprint(t, s.assigned[t]) \in FileRegisters(t)
         /\ \A u \in DOMAIN s.assigned \ {t} :
              Footprint(u, s.assigned[u]) \cap Footprint(t, s.assigned[t]) = {}
<1> DEFINE a == s.assigned
<1>1. /\ DOMAIN a \subseteq Tag /\ \A u \in DOMAIN a : a[u] \in Word
      /\ Distinct(s) /\ VecPool(s) /\ WordPool(s)
  BY GoodParts DEF BindingsOK, Table
<1>2. ASSUME NEW u \in DOMAIN a \cap VecTag
      PROVE  a[u] \in Held(s, VecTag) /\ a[u] \in Granule /\ a[u] \notin DOMAIN s.freeWords
             /\ Footprint(u, a[u]) = Words(a[u])
  BY <1>1 DEF Held, VecPool, Footprint
<1>3. ASSUME NEW u \in DOMAIN a, u \notin VecTag
      PROVE  u \in ScalarTag /\ a[u] \in Held(s, ScalarTag) /\ Base(a[u]) \in DOMAIN s.freeWords
             /\ Footprint(u, a[u]) = {a[u]} /\ a[u] \in Word
  BY <1>1, <1>3 DEF Held, WordPool, Footprint, Tag
<1>4. \A u, v \in DOMAIN a : (u \in VecTag <=> v \in VecTag) /\ a[u] = a[v] => u = v
  <2> SUFFICES ASSUME NEW u \in DOMAIN a, NEW v \in DOMAIN a,
                      u \in VecTag <=> v \in VecTag, a[u] = a[v]
               PROVE  u = v
    OBVIOUS
  <2>1. CASE u \in VecTag
    BY <1>1, <2>1 DEF Distinct
  <2>2. CASE u \notin VecTag
    BY <1>1, <1>3, <2>2 DEF Distinct
  <2> QED
    BY <2>1, <2>2
<1>5. Footprint(t, a[t]) \in FileRegisters(t)
  <2>1. CASE t \in VecTag
    BY <1>2, <2>1 DEF FileRegisters
  <2>2. CASE t \notin VecTag
    BY <1>3, <2>2 DEF FileRegisters, Word
  <2> QED
    BY <2>1, <2>2
<1>6. ASSUME NEW u \in DOMAIN a \ {t}
      PROVE  Footprint(u, a[u]) \cap Footprint(t, a[t]) = {}
  <2> SUFFICES ASSUME NEW x \in Footprint(u, a[u]), x \in Footprint(t, a[t])
               PROVE  FALSE
    OBVIOUS
  <2>1. CASE u \in VecTag /\ t \in VecTag
    <3>1. Base(x) = a[u] /\ Base(x) = a[t]
      BY <1>2, <2>1, GranuleFacts
    <3> QED
      BY <1>4, <2>1, <3>1
  <2>2. CASE u \in VecTag /\ t \notin VecTag
    <3>1. Base(x) = a[u] /\ a[u] \notin DOMAIN s.freeWords
      BY <1>2, <2>2, GranuleFacts
    <3>2. x = a[t] /\ Base(a[t]) \in DOMAIN s.freeWords
      BY <1>3, <2>2
    <3> QED
      BY <3>1, <3>2
  <2>3. CASE u \notin VecTag /\ t \in VecTag
    <3>1. Base(x) = a[t] /\ a[t] \notin DOMAIN s.freeWords
      BY <1>2, <2>3, GranuleFacts
    <3>2. x = a[u] /\ Base(a[u]) \in DOMAIN s.freeWords
      BY <1>3, <2>3
    <3> QED
      BY <3>1, <3>2
  <2>4. CASE u \notin VecTag /\ t \notin VecTag
    <3>1. a[u] = x /\ a[t] = x
      BY <1>3, <2>4
    <3> QED
      BY <1>4, <2>4, <3>1
  <2> QED
    BY <2>1, <2>2, <2>3, <2>4
<1> QED
  BY <1>5, <1>6

\* The file's trail of a longer history.
LEMMA TrailGrown ==
  ASSUME NEW p, p \in Seq(Range(p)), NEW s
  PROVE  FileTrail(Append(p, s)) = Append(FileTrail(p), FilePoint(s))
<1> DEFINE q == Append(p, s)
           r == FileTrail(p)
           e == FilePoint(s)
           n == Len(p)
<1>1. n \in Nat /\ DOMAIN p = 1 .. n
  BY LenProperties
<1>2. r = [k \in 1 .. n |-> FilePoint(p[k])]
  BY DEF FileTrail
<1> HIDE DEF n, r, e
<1>3. DOMAIN r = 1 .. n /\ \A k \in 1 .. n : r[k] = FilePoint(p[k]) /\ r[k] \in Range(r)
  BY <1>2 DEF Range
<1>4. r \in Seq(Range(r)) /\ Len(r) = n
  <2>1. r \in [1 .. n -> Range(r)]
    BY <1>2, <1>3
  <2> QED
    BY <1>1, <2>1
<1>5. GrownBy(p, s, q) /\ GrownBy(r, e, Append(r, e))
  BY <1>4, Grown
<1> HIDE DEF q
<1> DEFINE z == Append(r, e)
<1>6. /\ Len(q) = n + 1 /\ \A k \in 1 .. n : q[k] = p[k]
      /\ q[n + 1] = s
  BY <1>5 DEF GrownBy, n
<1>7. /\ z \in Seq(Range(z)) /\ Len(z) = n + 1 /\ \A k \in 1 .. n : z[k] = r[k]
      /\ z[n + 1] = e
  BY <1>4, <1>5 DEF GrownBy
<1> HIDE DEF z
<1>8. z = [k \in 1 .. n + 1 |-> z[k]]
  BY <1>1, <1>7
<1>9. ASSUME NEW k \in 1 .. n + 1 PROVE z[k] = FilePoint(q[k])
  <2>1. CASE k \in 1 .. n
    BY <1>3, <1>6, <1>7, <2>1
  <2>2. CASE k = n + 1
    BY <1>6, <1>7, <2>2 DEF e
  <2> QED
    BY <1>1, <2>1, <2>2
<1> QED
  BY <1>6, <1>8, <1>9 DEF FileTrail, z, e, q, r

\* The same with one entry less; the last entry is the file's state then.
LEMMA TrailCut ==
  ASSUME NEW p, p \in Seq(Range(p)), Len(p) > 0
  PROVE  /\ FileTrail(Front(p)) = SubSeq(FileTrail(p), 1, Len(FileTrail(p)) - 1)
         /\ FileTrail(p) # << >>
         /\ FileTrail(p)[Len(FileTrail(p))] = FilePoint(p[Len(p)])
<1> DEFINE q == Front(p)
           r == FileTrail(p)
           n == Len(p)
<1>1. n \in Nat /\ n > 0 /\ n \in 1 .. n /\ DOMAIN p = 1 .. n
  BY LenProperties
<1>2. r = [k \in 1 .. n |-> FilePoint(p[k])]
  BY DEF FileTrail
<1> HIDE DEF n, r
<1>3. DOMAIN r = 1 .. n /\ \A k \in 1 .. n : r[k] = FilePoint(p[k]) /\ r[k] \in Range(r)
  BY <1>2 DEF Range
<1>4. r \in Seq(Range(r)) /\ Len(r) = n
  <2>1. r \in [1 .. n -> Range(r)]
    BY <1>2, <1>3
  <2> QED
    BY <1>1, <2>1
<1>5. CutTo(p, q) /\ CutTo(r, Front(r))
  BY <1>1, <1>4, Cut DEF n
<1> HIDE DEF q
<1> DEFINE z == Front(r)
<1>6. Len(q) = n - 1 /\ \A k \in 1 .. n - 1 : q[k] = p[k]
  BY <1>5 DEF CutTo, n
<1>7. z \in Seq(Range(z)) /\ Len(z) = n - 1 /\ \A k \in 1 .. n - 1 : z[k] = r[k]
  BY <1>4, <1>5 DEF CutTo
<1>8. z = SubSeq(r, 1, Len(r) - 1)
  BY DEF Front
<1> HIDE DEF z
<1>9. z = [k \in 1 .. n - 1 |-> z[k]]
  BY <1>1, <1>7
<1>10. ASSUME NEW k \in 1 .. n - 1 PROVE z[k] = FilePoint(q[k])
  BY <1>1, <1>3, <1>6, <1>7
<1>11. FileTrail(q) = z
  BY <1>6, <1>9, <1>10 DEF FileTrail
<1>12. r # << >>
  BY <1>1, <1>4
<1> QED
  BY <1>1, <1>3, <1>4, <1>8, <1>11, <1>12 DEF q, r, n

\* A call that the allocator records, the file records.
LEMMA LeaveStep ==
  ASSUME RegInv, Note
  PROVE  File!Leave
<1>1. regs.assigned = assigned /\ regs.remaining = remaining
  BY DEF regs
<1>2. FilePoint(regs) = [held |-> FileHeld(assigned), left |-> remaining]
  BY <1>1 DEF FilePoint
<1>3. FileTrail(Append(past, regs)) = Append(FileTrail(past), FilePoint(regs))
  BY TrailGrown DEF RegInv, TrialGood
<1> QED
  BY <1>2, <1>3 DEF Note, File!Leave, File!point

-----------------------------------------------------------------------------
\* write(t) acquires a register.
LEMMA AcquireStep ==
  ASSUME RegInv, NEW t \in Tag, HWrite(t)
  PROVE  File!Acquire(t)
<1>1. /\ t \notin DOMAIN assigned /\ Note /\ UNCHANGED <<readCount, recording>>
      /\ WriteVec(t) \/ WriteWord(t) \/ WriteClaim(t)
  BY DEF HWrite, Write
<1>2. PICK w : assigned' = With(assigned, t, w) /\ remaining' = With(remaining, t, readCount[t])
  <2>1. CASE WriteVec(t)
    BY <2>1 DEF WriteVec, Become, Bind, regs
  <2>2. CASE WriteWord(t)
    BY <2>2 DEF WriteWord, Become, Bind, PopWord, regs
  <2>3. CASE WriteClaim(t)
    BY <2>3 DEF WriteClaim, Become, Bind, PopWord, Claim, regs
  <2> QED
    BY <1>1, <2>1, <2>2, <2>3
<1>3. /\ DOMAIN assigned' = DOMAIN assigned \cup {t} /\ assigned'[t] = w
      /\ \A u \in DOMAIN assigned : u # t /\ assigned'[u] = assigned[u]
  BY <1>1, <1>2 DEF With
<1>4. RegInv'
  BY WriteStep
<1>5. Good(regs') /\ regs'.assigned = assigned'
  BY <1>4 DEF RegInv, TypeOK, Partition, CountsAgree, Good, IsRegs, regs
<1> DEFINE r == Footprint(t, w)
<1>6. /\ r \in FileRegisters(t)
      /\ \A u \in DOMAIN assigned : Footprint(u, assigned[u]) \cap r = {}
  <2> DEFINE s == regs'
  <2>1. Good(s) /\ t \in DOMAIN s.assigned /\ s.assigned[t] = w
        /\ \A u \in DOMAIN assigned : u \in DOMAIN s.assigned \ {t} /\ s.assigned[u] = assigned[u]
    BY <1>3, <1>5
  <2> HIDE DEF s
  <2>2. /\ Footprint(t, s.assigned[t]) \in FileRegisters(t)
        /\ \A u \in DOMAIN s.assigned \ {t} :
             Footprint(u, s.assigned[u]) \cap Footprint(t, s.assigned[t]) = {}
    BY <2>1, Footprints
  <2> QED
    BY <2>1, <2>2
<1> HIDE DEF r
<1>7. FileHeld(assigned') = File!Put(FileHeld(assigned), t, r)
  BY <1>3 DEF FileHeld, File!Put, r
<1>8. DOMAIN FileHeld(assigned) = DOMAIN assigned
      /\ \A u \in DOMAIN assigned : FileHeld(assigned)[u] = Footprint(u, assigned[u])
  BY DEF FileHeld
<1>9. remaining' = File!Put(remaining, t, readCount[t])
  BY <1>2 DEF With, File!Put
<1>10. File!Leave
  BY <1>1, LeaveStep
<1> QED
  BY <1>1, <1>6, <1>7, <1>8, <1>9, <1>10 DEF File!Acquire, File!Become

\* A value that loses its register, in the allocator and in the file.
LEMMA HeldDropped ==
  ASSUME NEW a, NEW t
  PROVE  FileHeld(Without(a, t)) = File!Drop(FileHeld(a), t)
<1>1. Without(a, t) = [u \in DOMAIN a \ {t} |-> a[u]]
  BY DEF Without, Restrict
<1> QED
  BY <1>1 DEF FileHeld, File!Drop

\* The count of reads goes with it.
LEMMA LeftDropped ==
  ASSUME NEW f, NEW t
  PROVE  Without(f, t) = File!Drop(f, t)
BY DEF Without, Restrict, File!Drop

\* unwrite(t) returns the register unused.
LEMMA ReturnStep ==
  ASSUME RegInv, NEW t \in Tag, HUnwrite(t)
  PROVE  File!Return(t)
<1>1. /\ t \in DOMAIN assigned /\ remaining[t] = readCount[t]
      /\ Note /\ UNCHANGED <<readCount, recording>>
  BY DEF HUnwrite, Unwrite
<1>2. assigned' = Without(assigned, t) /\ remaining' = Without(remaining, t)
  BY DEF HUnwrite, Unwrite, Become, Unbind, Unclaim, PutWord, regs
<1>3. FileHeld(assigned') = File!Drop(FileHeld(assigned), t)
      /\ remaining' = File!Drop(remaining, t)
  BY <1>2, HeldDropped, LeftDropped
<1>4. DOMAIN FileHeld(assigned) = DOMAIN assigned
  BY DEF FileHeld
<1>5. File!Leave
  BY <1>1, LeaveStep
<1> QED
  BY <1>1, <1>3, <1>4, <1>5 DEF File!Return, File!Become

\* read(t) uses the value, and frees its register after the last use.
LEMMA UseStep ==
  ASSUME RegInv, NEW t \in Tag, HRead(t)
  PROVE  File!Use(t)
<1>1. /\ t \in DOMAIN assigned /\ Note /\ UNCHANGED <<readCount, recording>>
  BY DEF HRead, Read
<1>2. DOMAIN FileHeld(assigned) = DOMAIN assigned
  BY DEF FileHeld
<1>3. File!Leave
  BY <1>1, LeaveStep
<1>4. DOMAIN remaining = DOMAIN assigned
  BY Ready
<1>5. \/ remaining[t] > 1 /\ assigned' = assigned
         /\ remaining' = [remaining EXCEPT ![t] = @ - 1]
      \/ remaining[t] = 1 /\ assigned' = Without(assigned, t)
         /\ remaining' = Without(remaining, t)
  BY DEF HRead, Read, Become, Unbind, PutWord, regs
<1>6. CASE /\ remaining[t] > 1 /\ assigned' = assigned
           /\ remaining' = [remaining EXCEPT ![t] = @ - 1]
  <2>1. remaining' = File!Put(remaining, t, remaining[t] - 1)
    BY <1>1, <1>4, <1>6 DEF File!Put
  <2> QED
    BY <1>1, <1>2, <1>3, <1>6, <2>1 DEF File!Use, File!Become
<1>7. CASE /\ remaining[t] = 1 /\ assigned' = Without(assigned, t)
           /\ remaining' = Without(remaining, t)
  <2>1. FileHeld(assigned') = File!Drop(FileHeld(assigned), t)
        /\ remaining' = File!Drop(remaining, t)
    BY <1>7, HeldDropped, LeftDropped
  <2> QED
    BY <1>1, <1>2, <1>3, <1>7, <2>1 DEF File!Use, File!Become
<1> QED
  BY <1>5, <1>6, <1>7

\* Undoing an entry steps the file back.
LEMMA BackStep ==
  ASSUME RegInv, HPopEntry
  PROVE  File!StepBack
<1>1. /\ target # Idle /\ Len(log) > target /\ Become(Undo(regs, Last(log), readCount))
      /\ past' = Front(past) /\ UNCHANGED <<readCount, recording>>
  BY DEF HPopEntry, PopEntry
<1>2. /\ log \in Seq(Range(log)) /\ past \in Seq(Range(past)) /\ Len(past) = Len(log)
      /\ Len(log) \in Nat /\ target \in 0 .. Len(log)
  BY <1>1, LenProperties DEF RegInv, TypeOK, UndoExact, TrialGood
<1>3. Len(past) > 0 /\ Len(log) \in 1 .. Len(log)
  BY <1>1, <1>2
<1>4. Undo(regs, Last(log), readCount) = past[Len(past)]
  <2>1. Last(log) = log[Len(log)] /\ After(Len(log)) = regs
    BY DEF Last, After
  <2> QED
    BY <1>2, <1>3, <2>1 DEF RegInv, UndoExact
<1>5. assigned' = past[Len(past)].assigned /\ remaining' = past[Len(past)].remaining
  BY <1>1, <1>4 DEF Become
<1>6. /\ FileTrail(past') = SubSeq(FileTrail(past), 1, Len(FileTrail(past)) - 1)
      /\ FileTrail(past) # << >>
      /\ FileTrail(past)[Len(FileTrail(past))] = FilePoint(past[Len(past)])
  BY <1>1, <1>2, <1>3, TrailCut
<1>7. /\ FilePoint(past[Len(past)]).held = FileHeld(assigned')
      /\ FilePoint(past[Len(past)]).left = remaining'
  BY <1>5 DEF FilePoint
<1> QED
  BY <1>1, <1>6, <1>7 DEF File!StepBack, File!Become

-----------------------------------------------------------------------------
\* The empty allocator is an empty register file.
LEMMA FileInit ==
  HInit => File!Init
<1> SUFFICES ASSUME HInit PROVE File!Init
  OBVIOUS
<1>1. /\ readCount \in ReadCounts /\ assigned = << >> /\ remaining = << >>
      /\ recording = FALSE /\ past = << >>
  BY DEF HInit, Init, Empty
<1>2. DOMAIN << >> = {} /\ Len(<< >>) = 0 /\ 1 .. 0 = {}
  OBVIOUS
<1>3. FileHeld(assigned) = << >> /\ FileTrail(past) = << >>
  BY <1>1, <1>2 DEF FileHeld, FileTrail
<1> QED
  BY <1>1, <1>3 DEF File!Init

\* Every step of the allocator is a step of the file, or none.
LEMMA FileNext ==
  RegInv /\ [HNext]_vars => [File!Next]_(File!fileVars)
<1> SUFFICES ASSUME RegInv, [HNext]_vars PROVE [File!Next]_(File!fileVars)
  OBVIOUS
<1>1. ASSUME NEW t \in Tag, HWrite(t) PROVE File!Next
  BY <1>1, AcquireStep DEF File!Next
<1>2. ASSUME NEW t \in Tag, HUnwrite(t) PROVE File!Next
  BY <1>2, ReturnStep DEF File!Next
<1>3. ASSUME NEW t \in Tag, HRead(t) PROVE File!Next
  BY <1>3, UseStep DEF File!Next
<1>4. CASE HCheckpoint
  <2>1. File!Open
    BY <1>4 DEF HCheckpoint, Checkpoint, File!Open
  <2> QED
    BY <2>1 DEF File!Next
<1>5. CASE HPopEntry
  BY <1>5, BackStep DEF File!Next
<1>6. ASSUME UNCHANGED <<readCount, assigned, remaining, recording, past>>
      PROVE  UNCHANGED File!fileVars
  BY <1>6 DEF File!fileVars
<1>7. CASE HCollect
  BY <1>6, <1>7 DEF HCollect, Collect
<1>8. ASSUME NEW token \in 0 .. Len(log), HRollback(token) PROVE UNCHANGED File!fileVars
  BY <1>6, <1>8 DEF HRollback, Rollback
<1>9. CASE HRollbackDone
  <2>1. /\ target # Idle /\ Len(log) <= target /\ recording' = (target # 0)
        /\ UNCHANGED <<readCount, assigned, remaining, past>>
    BY <1>9 DEF HRollbackDone, RollbackDone
  <2>2. /\ log \in Seq(Range(log)) /\ Len(log) \in Nat /\ Len(past) = Len(log)
        /\ target \in 0 .. Len(log) /\ recording \in BOOLEAN
        /\ ~recording => log = << >>
    BY <2>1, LenProperties DEF RegInv, TypeOK, UndoExact, TrialGood
  <2>3. CASE target = 0
    <3>1. Len(past) = 0 /\ 1 .. Len(past) = {} /\ DOMAIN << >> = {}
      BY <2>1, <2>2, <2>3
    <3>2. FileTrail(past) = << >>
      BY <3>1 DEF FileTrail
    <3>3. File!Close
      BY <2>1, <2>3, <3>2 DEF File!Close
    <3> QED
      BY <3>3 DEF File!Next
  <2>4. CASE target # 0
    <3>1. Len(log) > 0 /\ recording' = TRUE
      BY <2>1, <2>2, <2>4
    <3>2. recording = TRUE
      BY <2>2, <3>1
    <3> QED
      BY <1>6, <2>1, <3>1, <3>2
  <2> QED
    BY <2>3, <2>4
<1>10. CASE UNCHANGED vars
  BY <1>6, <1>10 DEF vars
<1> QED
  BY <1>1, <1>2, <1>3, <1>4, <1>5, <1>7, <1>8, <1>9, <1>10 DEF HNext

\* The allocator implements the register file: every live value keeps a
\* register of its shape that it shares with no other until its last read, and
\* a trial taken back leaves no trace.
THEOREM AllocatorKeepsPromise == HSpec => ImplementsRegFile
BY FileInit, FileNext, RegInvariant, PTL DEF HSpec, ImplementsRegFile, File!Spec
=============================================================================
