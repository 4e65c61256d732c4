---------------------------- MODULE ProgramProofs ----------------------------
(***************************************************************************)
(* Theorems about the program before and after it is scheduled.            *)
(*                                                                         *)
(* The kernel, for every shape of tree, number of lanes and rounds, width  *)
(* of words and constants of the stages' shapes:                           *)
(*   - the arithmetic build_vec_hash relies on: linear stages as one       *)
(*     multiply-add, stages 2 and 3 in one, and the deferred xor;          *)
(*   - where a lane of the walk is after so many rounds, and the           *)
(*     arithmetic by which the kernel takes it there;                      *)
(*   - the kernel's lockstep steps are rounds of the walk, and its         *)
(*     addresses follow the walk's indices.                                *)
(*                                                                         *)
(* The pauses, for every schedule: they cost no cycle, and memory is as    *)
(* expected whenever run() returns.                                        *)
(*                                                                         *)
(* The front end, for programs of every length, over any symbols.  Its     *)
(* inductive invariant follows the passes.  Tagging: a tag that is read    *)
(* was made by the last write of its symbol (TaggedOK), because `current`  *)
(* holds the last tag of each (CurrentOK) and the counter makes tags that  *)
(* were never seen (CounterOK).  Building: `writer` is the inverse of the  *)
(* tagging, so the edges so far are the data flow into the nodes so far    *)
(* (BuildOK).  Pruning: what is marked is needed, and what a finished node *)
(* needs is marked (WalkOK).  Compaction renumbers the survivors in order  *)
(* (FinalOK), and the counts are of the reads so far (Counts).             *)
(***************************************************************************)
EXTENDS FrontEnd, Kernel, PauseBarriers, FiniteSetTheorems, SequenceTheorems,
        WellFoundedInduction, TLAPS

\* Division by the number of words.
LEMMA ModRange ==
  ASSUME NEW x \in Int
  PROVE  x % M \in Word /\ x \div M \in Int /\ x = (M * (x \div M)) + (x % M)
BY WordAssumption DEF Word

\* The word congruent to a number is unique.
LEMMA ModUnique ==
  ASSUME NEW x \in Int, NEW q \in Int, NEW r \in Word, x = (M * q) + r
  PROVE x % M = r
BY WordAssumption DEF Word

\* A term may be reduced to a word before it is added.
LEMMA ModSum ==
  ASSUME NEW x \in Int, NEW y \in Int
  PROVE  ((x % M) + y) % M = (x + y) % M
<1> DEFINE q == x \div M
           r == x % M
           z == r + y
           p == z \div M
<1>1. r \in Int /\ q \in Int /\ x = (M * q) + r
  BY ModRange, WordAssumption DEF Word
<1>2. z \in Int
  BY <1>1
<1>3. z % M \in Word /\ p \in Int /\ z = (M * p) + (z % M)
  BY <1>2, ModRange
<1> HIDE DEF q, p, r, z
<1>4. M \in Int /\ z % M \in Int
  BY <1>3, WordAssumption DEF Word
<1>5. x + y = (M * q) + z
  BY <1>1, <1>4 DEF z
<1>6. x + y = (M * (q + p)) + (z % M)
  BY <1>1, <1>3, <1>4, <1>5
<1>7. (x + y) % M = z % M
  BY <1>1, <1>3, <1>6, ModUnique
<1> QED
  BY <1>7 DEF z, r

\* A factor may be reduced to a word before it is multiplied.
LEMMA ModProduct ==
  ASSUME NEW x \in Int, NEW y \in Int
  PROVE  ((x % M) * y) % M = (x * y) % M
<1> DEFINE q == x \div M
           r == x % M
           z == r * y
           p == z \div M
<1>1. r \in Int /\ q \in Int /\ x = (M * q) + r
  BY ModRange, WordAssumption DEF Word
<1>2. z \in Int
  BY <1>1
<1>3. z % M \in Word /\ p \in Int /\ z = (M * p) + (z % M)
  BY <1>2, ModRange
<1> HIDE DEF q, p, r, z
<1>5. M \in Int /\ z % M \in Int
  BY <1>3, WordAssumption DEF Word
<1>4. x * y = (M * (q * y)) + (r * y)
  BY <1>1, <1>5
<1>6. (M * (q * y)) + (M * p) = M * ((q * y) + p)
  BY <1>1, <1>3, <1>5
<1>7. q * y \in Int
  BY <1>1
<1>8. x * y = (M * ((q * y) + p)) + (z % M)
  BY <1>1, <1>2, <1>3, <1>4, <1>5, <1>6, <1>7 DEF z
<1>9. (x * y) % M = z % M
  BY <1>1, <1>3, <1>7, <1>8, ModUnique
<1> QED
  BY <1>9 DEF z, r

\* Both terms may be reduced.
LEMMA ModSumBoth ==
  ASSUME NEW x \in Int, NEW y \in Int
  PROVE  ((x % M) + (y % M)) % M = (x + y) % M
<1>1. x % M \in Int /\ y % M \in Int
  BY ModRange, WordAssumption DEF Word
<1>2. ((x % M) + (y % M)) % M = (x + (y % M)) % M
  BY <1>1, ModSum
<1>3. ((y % M) + x) % M = (y + x) % M
  BY <1>1, ModSum
<1>4. x + (y % M) = (y % M) + x /\ x + y = y + x
  BY <1>1
<1> QED
  BY <1>2, <1>3, <1>4

\* A multiply-add computes the word of the number it stands for.
LEMMA FmaWord ==
  ASSUME NEW x \in Int, NEW y \in Int, NEW z \in Int
  PROVE  /\ Fma(x, y % M, z) = ((x * y) + z) % M
         /\ Fma(x, y % M, z % M) = ((x * y) + z) % M
<1>1. y % M \in Int /\ z % M \in Int /\ x * y \in Int
  BY ModRange, WordAssumption DEF Word
<1>2. (x * (y % M)) % M = (x * y) % M
  <2>1. ((y % M) * x) % M = (y * x) % M
    BY ModProduct
  <2>2. x * (y % M) = (y % M) * x /\ x * y = y * x
    BY <1>1
  <2> QED
    BY <2>1, <2>2
<1>3. (((x * y) % M) + z) % M = ((x * y) + z) % M
  BY <1>1, ModSum
<1>4. (((x * y) % M) + (z % M)) % M = ((x * y) + z) % M
  BY <1>1, ModSumBoth
<1> QED
  BY <1>2, <1>3, <1>4 DEF Fma

-----------------------------------------------------------------------------
\* What the operations of the alu compute.
LEMMA AluOps ==
  ASSUME NEW x, NEW y
  PROVE  /\ Alu("+", x, y) = (x + y) % M
         /\ Alu("-", x, y) = (x - y) % M
         /\ Alu("^", x, y) = Xor(x, y)
         /\ Alu("&", x, y) = And(x, y)
         /\ Alu("<<", x, y) = (x * 2 ^ y) % M
         /\ Alu(">>", x, y) = x \div (2 ^ y)
BY DEF Alu

\* A linear stage, (a + K) + (a << s), is one multiply-add with the vectors of
\* 2^s + 1 and K, whichever stage it is.
THEOREM LinearStage ==
  ASSUME NEW k \in 0 .. LastStage, StageIs(k, "+", "+", "<<"), NEW a \in Word
  PROVE  Fma(a, Multiplier(k) % M, HASH_STAGES[k].val1) = Stage(k, a)
<1> DEFINE K == HASH_STAGES[k].val1
           P == 2 ^ HASH_STAGES[k].val3
<1>1. K \in Int /\ P \in Int /\ a \in Int
  BY WordAssumption, ShiftAssumption DEF StageIs, Word
<1>2. Stage(k, a) = (((a + K) % M) + ((a * P) % M)) % M
  BY AluOps DEF Stage, StageIs
<1>3. Multiplier(k) = P + 1
  BY DEF Multiplier
<1> HIDE DEF K, P
<1>4. P + 1 \in Int /\ a + K \in Int /\ a * P \in Int /\ (a * (P + 1)) + K = (a + K) + (a * P)
  BY <1>1
<1>5. Stage(k, a) = ((a + K) + (a * P)) % M
  BY <1>2, <1>4, ModSumBoth
<1>6. Fma(a, (P + 1) % M, K) = ((a * (P + 1)) + K) % M
  BY <1>1, <1>4, FmaWord
<1> QED
  BY <1>3, <1>4, <1>5, <1>6 DEF K

\* Stages 2 and 3 in one: two multiply-adds of the input and one xor, with the
\* constants the module derives from the two stages, never compute the value
\* between them and agree with it on every word.
THEOREM FusedStages ==
  ASSUME NEW a \in Word
  PROVE  Xor(Fma(a, Multiplier(2) % M, FUSED23_ADD1), Fma(a, FUSED23_MULT % M, FUSED23_ADD2))
           = Stage(3, Stage(2, a))
<1> DEFINE C2 == HASH_STAGES[2].val1
           C3 == HASH_STAGES[3].val1
           m == Multiplier(2)
           P3 == 2 ^ HASH_STAGES[3].val3
           b == (a * m) + C2
<1>1. C2 \in Int /\ C3 \in Int /\ m \in Int /\ P3 \in Int /\ a \in Int
  BY WordAssumption, ShapeAssumption, ShiftAssumption DEF StageIs, Word, Multiplier, LastStage
<1>2. Stage(2, a) = b % M
  <2>1. Fma(a, m % M, C2) = Stage(2, a)
    BY LinearStage, ShapeAssumption DEF LastStage
  <2> QED
    BY <1>1, <2>1, FmaWord
<1>3. Stage(3, b % M) = Xor(((b % M) + C3) % M, ((b % M) * P3) % M)
  BY AluOps, ShapeAssumption DEF Stage, StageIs
<1>4. /\ FUSED23_MULT = m * P3
      /\ FUSED23_ADD1 = (C2 + C3) % M
      /\ FUSED23_ADD2 = (C2 * P3) % M
  BY DEF FUSED23_MULT, FUSED23_ADD1, FUSED23_ADD2
<1> HIDE DEF C2, C3, m, P3
<1>5. /\ b \in Int /\ C2 + C3 \in Int /\ m * P3 \in Int /\ C2 * P3 \in Int
      /\ (a * m) + (C2 + C3) = b + C3
      /\ (a * (m * P3)) + (C2 * P3) = b * P3
  <2>1. a * m \in Int /\ C2 + C3 \in Int /\ m * P3 \in Int /\ C2 * P3 \in Int
    BY <1>1
  <2>2. a * (m * P3) = (a * m) * P3
    BY <1>1
  <2>3. ((a * m) + C2) * P3 = ((a * m) * P3) + (C2 * P3)
    BY <1>1, <2>1
  <2> QED
    BY <1>1, <2>1, <2>2, <2>3
<1> HIDE DEF b
<1>6. Fma(a, m % M, (C2 + C3) % M) = (b + C3) % M
  <2>1. Fma(a, m % M, (C2 + C3) % M) = ((a * m) + (C2 + C3)) % M
    BY <1>1, <1>5, FmaWord
  <2> QED
    BY <1>5, <2>1
<1>7. Fma(a, (m * P3) % M, (C2 * P3) % M) = (b * P3) % M
  <2>1. Fma(a, (m * P3) % M, (C2 * P3) % M) = ((a * (m * P3)) + (C2 * P3)) % M
    BY <1>1, <1>5, FmaWord
  <2> QED
    BY <1>5, <2>1
<1>8. ((b % M) + C3) % M = (b + C3) % M /\ ((b % M) * P3) % M = (b * P3) % M
  BY <1>1, <1>5, ModSum, ModProduct
<1> QED
  BY <1>2, <1>3, <1>4, <1>6, <1>7, <1>8 DEF m

\* The third constant needs no load: shifting the vector of the first
\* multiplier gives it.
THEOREM FusedMultiplierComputed ==
  Alu("<<", Multiplier(2) % M, HASH_STAGES[3].val3) = FUSED23_MULT % M
<1> DEFINE m == Multiplier(2)
           p == 2 ^ HASH_STAGES[3].val3
<1>1. m \in Int /\ p \in Int
  BY ShiftAssumption DEF Multiplier, LastStage
<1>2. /\ Alu("<<", m % M, HASH_STAGES[3].val3) = ((m % M) * p) % M
      /\ FUSED23_MULT = m * p
  BY AluOps DEF FUSED23_MULT
<1> HIDE DEF m, p
<1>3. ((m % M) * p) % M = (m * p) % M
  BY <1>1, ModProduct
<1>4. Alu("<<", m % M, HASH_STAGES[3].val3) = FUSED23_MULT % M
  BY <1>2, <1>3
<1> QED
  BY <1>4 DEF m

\* A shift to the right stays a word.
LEMMA ShiftedRight ==
  ASSUME NEW a \in Word, NEW p \in Nat \ {0}
  PROVE  a \div p \in Word
BY WordAssumption DEF Word

\* The deferral: a value that misses the last constant of the hash, entered
\* into the next round with a node that has it, is what the next round should
\* start its hash from.
THEOREM DeferralRepaired ==
  ASSUME NEW a \in Word, NEW node \in Word
  PROVE  LET C5 == HASH_STAGES[LastStage].val1
             deferred == Xor(a, Alu(">>", a, HASH_STAGES[LastStage].val3))
         IN  Xor(deferred, Xor(node, C5)) = Xor(Stage(LastStage, a), node)
<1> DEFINE C5 == HASH_STAGES[LastStage].val1
           shifted == a \div 2 ^ HASH_STAGES[LastStage].val3
<1>1. C5 \in Word
  BY ShapeAssumption DEF StageIs
<1>2. shifted \in Word
  BY ShiftAssumption, ShiftedRight DEF LastStage
<1>3. Stage(LastStage, a) = Xor(Xor(a, C5), shifted)
  BY ShapeAssumption, AluOps DEF Stage, StageIs
<1>4. Alu(">>", a, HASH_STAGES[LastStage].val3) = shifted
  BY AluOps
<1> HIDE DEF C5, shifted
<1>5. Xor(Xor(a, C5), shifted) = Xor(Xor(a, shifted), C5)
  <2>1. Xor(Xor(a, C5), shifted) = Xor(a, Xor(C5, shifted))
    BY <1>1, <1>2, XorAssumption
  <2>2. Xor(C5, shifted) = Xor(shifted, C5)
    BY <1>1, <1>2, XorAssumption
  <2>3. Xor(a, Xor(shifted, C5)) = Xor(Xor(a, shifted), C5)
    BY <1>1, <1>2, XorAssumption
  <2> QED
    BY <2>1, <2>2, <2>3
<1>6. Xor(a, shifted) \in Word
  BY <1>2, XorAssumption
<1>7. Xor(Xor(a, shifted), Xor(node, C5)) = Xor(Xor(Xor(a, shifted), C5), node)
  <2>1. Xor(node, C5) = Xor(C5, node)
    BY <1>1, XorAssumption
  <2> QED
    BY <1>1, <1>6, <2>1, XorAssumption
<1> QED
  BY <1>3, <1>4, <1>5, <1>7 DEF C5, shifted
-----------------------------------------------------------------------------
\* Levels come one after the other: a least level that starts beyond the end
\* of the tree would have a successor that does, too.
LEMMA LevelsGrow ==
  ASSUME NEW l \in 0 .. FOREST_HEIGHT + 1
  PROVE  LevelStart[l] \in Nat /\ LevelStart[l] <= n_nodes
<1> DEFINE Beyond == { k \in Nat : k <= FOREST_HEIGHT + 1
                                   /\ LevelStart[FOREST_HEIGHT + 1 - k] > n_nodes }
<1>1. \A k \in 0 .. FOREST_HEIGHT + 1 : LevelStart[k] \in Nat
  BY LevelAssumption
<1>2. ASSUME Beyond # {} PROVE FALSE
  <2>1. PICK m \in Beyond : \A k \in Beyond : ~ (<<k, m>> \in OpToRel(<, Nat))
    BY <1>2, NatLessThanWellFounded, WFMin
  <2>2. m \in Nat /\ m <= FOREST_HEIGHT + 1 /\ FOREST_HEIGHT \in Nat
    BY WalkAssumption
  <2>3. m # 0
    BY <1>1, <2>2, WalkAssumption DEF n_nodes
  <2>4. m - 1 \in Nat /\ m - 1 < m /\ FOREST_HEIGHT + 1 - m \in Level
    BY <2>2, <2>3 DEF Level
  <2>5. LevelStart[FOREST_HEIGHT + 1 - (m - 1)] = 2 * LevelStart[FOREST_HEIGHT + 1 - m] + 1
    <3>1. FOREST_HEIGHT + 1 - (m - 1) = (FOREST_HEIGHT + 1 - m) + 1
      BY <2>2
    <3> QED
      BY <2>4, <3>1, LevelAssumption
  <2>6. LevelStart[FOREST_HEIGHT + 1 - m] \in Nat /\ n_nodes \in Nat
    BY <1>1, <2>4, WalkAssumption DEF Level, n_nodes
  <2>7. m - 1 \in Beyond
    <3>1. LevelStart[FOREST_HEIGHT + 1 - m] > n_nodes
      BY <2>1
    <3>2. 2 * LevelStart[FOREST_HEIGHT + 1 - m] + 1 > n_nodes
      BY <2>6, <3>1
    <3>3. LevelStart[FOREST_HEIGHT + 1 - (m - 1)] > n_nodes
      BY <2>5, <3>2
    <3> QED
      BY <2>2, <2>4, <3>3
  <2> QED
    BY <2>1, <2>2, <2>4, <2>7 DEF OpToRel
<1>3. FOREST_HEIGHT + 1 - l \in Nat /\ FOREST_HEIGHT + 1 - l <= FOREST_HEIGHT + 1
      /\ FOREST_HEIGHT + 1 - (FOREST_HEIGHT + 1 - l) = l
  BY WalkAssumption
<1>4. ~ (LevelStart[FOREST_HEIGHT + 1 - (FOREST_HEIGHT + 1 - l)] > n_nodes)
  BY <1>2, <1>3
<1>5. LevelStart[l] \in Nat /\ n_nodes \in Nat
  BY <1>1, WalkAssumption DEF n_nodes
<1> QED
  BY <1>3, <1>4, <1>5

\* The level of the next round.
LEMMA NextLevel ==
  ASSUME NEW d \in Nat
  PROVE  /\ LevelOf(d) \in Level
         /\ LevelOf(d + 1) = IF LevelOf(d) = FOREST_HEIGHT THEN 0 ELSE LevelOf(d) + 1
BY WalkAssumption DEF LevelOf, Level

\* One round takes a lane from its level to the next one, from a leaf to the
\* root.
LEMMA LevelStep ==
  ASSUME NEW d \in Nat, NEW n \in Nat, NEW v \in Word,
         LevelStart[LevelOf(d)] <= n, n < LevelStart[LevelOf(d) + 1]
  PROVE  /\ NextIndex(n, v) \in Node
         /\ LevelStart[LevelOf(d + 1)] <= NextIndex(n, v)
         /\ NextIndex(n, v) < LevelStart[LevelOf(d + 1) + 1]
<1> DEFINE l == LevelOf(d)
           child == 2 * n + (IF v % 2 = 0 THEN 1 ELSE 2)
<1>1. l \in Level /\ l + 1 \in 0 .. FOREST_HEIGHT + 1 /\ FOREST_HEIGHT \in Nat
  BY NextLevel, WalkAssumption DEF Level
<1>2. /\ LevelStart[l] \in Nat /\ LevelStart[l + 1] \in Nat /\ n_nodes \in Nat
      /\ LevelStart[l + 1] = 2 * LevelStart[l] + 1
  <2>1. l \in 0 .. FOREST_HEIGHT + 1 /\ FOREST_HEIGHT + 1 \in 0 .. FOREST_HEIGHT + 1
    BY <1>1 DEF Level
  <2> HIDE DEF l
  <2>2. LevelStart[l] \in Nat /\ LevelStart[l + 1] \in Nat /\ n_nodes \in Nat
    BY <1>1, <2>1, LevelAssumption DEF n_nodes
  <2> QED
    BY <1>1, <2>2, LevelAssumption
<1>3. child \in Nat /\ 2 * n + 1 <= child /\ child <= 2 * n + 2
  OBVIOUS
<1>4. NextIndex(n, v) = IF child >= n_nodes THEN 0 ELSE child
  BY DEF NextIndex
<1>5. CASE l = FOREST_HEIGHT
  <2>1. LevelStart[0] = 0 /\ LevelStart[1] = 1 /\ n_nodes >= 1 /\ LevelOf(d + 1) = 0
    <3>1. LevelStart[0] = 0 /\ LevelStart[0 + 1] = 2 * LevelStart[0] + 1
      BY <1>1, LevelAssumption DEF Level
    <3>2. LevelStart[0 + 1] <= n_nodes
      BY <1>1, LevelsGrow
    <3> QED
      BY <1>2, <1>5, <3>1, <3>2, NextLevel
  <2>2. child >= n_nodes
    BY <1>1, <1>2, <1>3, <1>5 DEF n_nodes
  <2>3. NextIndex(n, v) = 0
    BY <1>4, <2>2
  <2>4. LevelStart[LevelOf(d + 1)] = 0 /\ LevelStart[LevelOf(d + 1) + 1] = 1
    BY <2>1
  <2> QED
    BY <1>2, <2>1, <2>3, <2>4 DEF Node
<1>6. CASE l # FOREST_HEIGHT
  <2>1. l + 1 \in Level /\ LevelOf(d + 1) = l + 1 /\ (l + 1) + 1 \in 0 .. FOREST_HEIGHT + 1
    BY <1>1, <1>6, NextLevel DEF Level
  <2>2. LevelStart[(l + 1) + 1] = 2 * LevelStart[l + 1] + 1 /\ LevelStart[(l + 1) + 1] \in Nat
    BY <2>1, LevelAssumption
  <2>3. LevelStart[(l + 1) + 1] <= n_nodes
    BY <2>1, LevelsGrow
  <2> HIDE DEF l, child
  <2>4. LevelStart[l + 1] <= child /\ child < LevelStart[(l + 1) + 1]
    BY <1>2, <1>3, <2>2 DEF l
  <2> QED
    BY <1>2, <1>3, <1>4, <2>1, <2>2, <2>3, <2>4 DEF Node
<1> QED
  BY <1>5, <1>6

-----------------------------------------------------------------------------
\* The level a lane is on is only known while its index is a node, its next
\* node only depends on the parity of a word, and the hash makes words of words.
WalkInv == /\ tree \in [Node -> Word]
           /\ values \in [Lane -> Word]
           /\ indices \in [Lane -> Node]
           /\ done \in [Lane -> Nat]
           /\ LevelKnown

\* The walk starts in its invariant.
LEMMA WalkInitInv ==
  ASSUME WalkInit
  PROVE  WalkInv
<1>1. FOREST_HEIGHT \in Nat /\ 0 \in Level /\ LevelOf(0) = 0
  BY WalkAssumption DEF Level, LevelOf
<1>2. LevelStart[0] = 0 /\ LevelStart[0 + 1] = 1
  BY <1>1, LevelAssumption
<1>3. n_nodes \in Nat /\ n_nodes >= 1
  <2>1. 0 + 1 \in 0 .. FOREST_HEIGHT + 1 /\ FOREST_HEIGHT + 1 \in 0 .. FOREST_HEIGHT + 1
    BY <1>1
  <2> QED
    BY <1>2, <2>1, LevelsGrow, LevelAssumption DEF n_nodes
<1>4. 0 \in Node
  BY <1>3 DEF Node
<1>5. LevelKnown
  BY <1>1, <1>2 DEF WalkInit, LevelKnown
<1> QED
  BY <1>4, <1>5, WalkAssumption DEF WalkInit, WalkInv

\* The value a round computes is a word.
LEMMA HashedIsWord ==
  ASSUME WalkInv, NEW i \in Lane
  PROVE  Hashed(i) \in Word
BY XorAssumption, HashAssumption DEF WalkInv, Hashed

\* A round of any lanes keeps all lanes on the level of their round.
LEMMA RoundInv ==
  ASSUME WalkInv, NEW S, Round(S)
  PROVE  WalkInv'
<1>1. tree' \in [Node -> Word]
  BY DEF WalkInv, Round
<1>2. values' \in [Lane -> Word] /\ \A i \in Lane \cap S : values'[i] \in Word
  BY HashedIsWord DEF WalkInv, Round
<1>3. done' \in [Lane -> Nat]
  BY DEF WalkInv, Round
<1>4. ASSUME NEW i \in Lane
      PROVE  /\ indices'[i] \in Node
             /\ LevelStart[LevelOf(done'[i])] <= indices'[i]
             /\ indices'[i] < LevelStart[LevelOf(done'[i]) + 1]
  <2>1. /\ indices[i] \in Node /\ indices[i] \in Nat /\ done[i] \in Nat
        /\ LevelStart[LevelOf(done[i])] <= indices[i]
        /\ indices[i] < LevelStart[LevelOf(done[i]) + 1]
    BY DEF WalkInv, LevelKnown, Node
  <2>2. CASE i \in S
    <3>1. indices'[i] = NextIndex(indices[i], values'[i]) /\ done'[i] = done[i] + 1
      BY <2>2 DEF Round
    <3> QED
      BY <1>2, <2>1, <2>2, <3>1, LevelStep
  <2>3. CASE i \notin S
    <3>1. indices'[i] = indices[i] /\ done'[i] = done[i]
      BY <2>3 DEF Round
    <3> QED
      BY <2>1, <3>1
  <2> QED
    BY <2>2, <2>3
<1>5. indices' \in [Lane -> Node]
  BY <1>4 DEF Round
<1>6. LevelKnown'
  BY <1>4 DEF LevelKnown
<1> QED
  BY <1>1, <1>2, <1>3, <1>5, <1>6 DEF WalkInv

\* A round the builder takes to be on some level is on it, for every lane.
THEOREM WalkLevelKnown == WalkSpec => []LevelKnown
<1>1. WalkInit => WalkInv
  BY WalkInitInv
<1>2. WalkInv /\ [WalkNext]_walkVars => WalkInv'
  <2> SUFFICES ASSUME WalkInv, [WalkNext]_walkVars PROVE WalkInv'
    OBVIOUS
  <2>1. CASE WalkNext
    BY <2>1, RoundInv DEF WalkNext
  <2>2. CASE UNCHANGED walkVars
    BY <2>2 DEF walkVars, WalkInv, LevelKnown
  <2> QED
    BY <2>1, <2>2
<1>3. WalkInv => LevelKnown
  BY DEF WalkInv
<1> QED
  BY <1>1, <1>2, <1>3, PTL DEF WalkSpec
-----------------------------------------------------------------------------
\* In every state of the program every lane is on the level the builder took
\* its round to be on.
THEOREM KernelLevelKnown == Spec => []LevelKnown
<1>1. Init => WalkInv
  BY WalkInitInv DEF Init
<1>2. WalkInv /\ [Next]_vars => WalkInv'
  <2> SUFFICES ASSUME WalkInv, [Next]_vars PROVE WalkInv'
    OBVIOUS
  <2>1. CASE UNCHANGED walkVars
    BY <2>1 DEF walkVars, WalkInv, LevelKnown
  <2>2. CASE Prologue
    BY <2>1, <2>2 DEF Prologue
  <2>3. CASE GroupRound
    BY <2>3, RoundInv DEF GroupRound
  <2>4. CASE UNCHANGED vars
    BY <2>1, <2>4 DEF vars
  <2> QED
    BY <2>2, <2>3, <2>4 DEF Next
<1>3. WalkInv => LevelKnown
  BY DEF WalkInv
<1> QED
  BY <1>1, <1>2, <1>3, PTL DEF Spec

-----------------------------------------------------------------------------
\* The path bit of a value is its parity.
LEMMA PathBit ==
  ASSUME NEW v \in Word
  PROVE  Alu("&", v, 1) = v % 2
<1>1. v \in Int /\ v % 2 \in {0, 1} /\ v = (2 * (v \div 2)) + (v % 2)
  BY WordAssumption DEF Word
<1>2. Alu("&", v, 1) = (v + 1 - Xor(v, 1)) \div 2
  BY AluOps DEF And
<1>3. CASE v % 2 = 0
  <2>1. v + 1 - Xor(v, 1) = 0
    BY <1>1, <1>3, LowBitAssumption
  <2> QED
    BY <1>2, <1>3, <2>1
<1>4. CASE v % 2 = 1
  <2>1. v + 1 - Xor(v, 1) = 2
    BY <1>1, <1>4, LowBitAssumption
  <2> QED
    BY <1>2, <1>4, <2>1
<1> QED
  BY <1>1, <1>3, <1>4

\* The address of a lane's node, 2 * addr + (1 - forest_p) + path bit, stays the
\* address of the node the walk goes to, whatever it wraps to on the way; the
\* first round needs no address, and a leaf's wraps to the root's.
THEOREM AddressFollows ==
  ASSUME NEW p \in Word, NEW n \in Node, NEW v \in Word
  PROVE  LET neg_fp1 == Alu("-", 1, p)
             bit == Alu("&", v, 1)
         IN  /\ 2 * n + 2 < n_nodes =>
                  Alu("+", Fma((p + n) % M, 2, neg_fp1), bit) = (p + NextIndex(n, v)) % M
             /\ n = 0 /\ 2 < n_nodes =>
                  Alu("+", Alu("-", 2, neg_fp1), bit) = (p + NextIndex(n, v)) % M
             /\ 2 * n + 1 >= n_nodes =>
                  Alu("-", 1, neg_fp1) = (p + NextIndex(n, v)) % M
<1> DEFINE neg == (1 - p) % M
           bit == v % 2
<1>1. /\ Alu("-", 1, p) = neg /\ Alu("&", v, 1) = bit
      /\ bit \in {0, 1} /\ bit \in Int /\ p \in Nat /\ n \in Nat /\ neg \in Int /\ M \in Int
  <2>1. p \in Nat /\ n \in Nat /\ v \in Int /\ M \in Int
    BY WordAssumption DEF Word, Node
  <2>2. 1 - p \in Int /\ bit \in {0, 1}
    BY <2>1
  <2>3. neg \in Word
    BY <2>2, ModRange
  <2>4. neg \in Int
    BY <2>3, WordAssumption DEF Word
  <2> QED
    BY <2>1, <2>2, <2>4, PathBit, AluOps
<1>2. /\ 2 * n + 2 < n_nodes => NextIndex(n, v) = 2 * n + 1 + bit
      /\ 2 * n + 1 >= n_nodes => NextIndex(n, v) = 0
  <2>1. FOREST_HEIGHT + 1 \in 0 .. FOREST_HEIGHT + 1
    BY WalkAssumption
  <2>2. n_nodes \in Nat
    BY <2>1, LevelAssumption DEF n_nodes
  <2> QED
    BY <1>1, <2>2 DEF NextIndex
<1>3. Fma((p + n) % M, 2, neg) = (p + 2 * n + 1) % M
  <2>1. (((p + n) % M) * 2) % M = ((p + n) * 2) % M
    BY <1>1, ModProduct
  <2>2. ((((p + n) * 2) % M) + ((1 - p) % M)) % M = (((p + n) * 2) + (1 - p)) % M
    <3>1. (p + n) * 2 \in Int /\ 1 - p \in Int
      BY <1>1
    <3> QED
      BY <3>1, ModSumBoth
  <2>3. ((p + n) * 2) + (1 - p) = p + 2 * n + 1
    BY <1>1
  <2> QED
    BY <2>1, <2>2, <2>3 DEF Fma
<1>4. ASSUME NEW k \in Int
      PROVE  (k - neg) % M = (k - 1 + p) % M
  <2> DEFINE q == (1 - p) \div M
  <2>1. q \in Int /\ 1 - p = (M * q) + neg
    BY <1>1, ModRange
  <2> HIDE DEF q, neg
  <2>2. k - neg \in Int /\ k - 1 + p \in Int
    BY <1>1
  <2>3. (k - neg) % M \in Word /\ (k - neg) \div M \in Int
        /\ k - neg = (M * ((k - neg) \div M)) + ((k - neg) % M)
    BY <2>2, ModRange
  <2> DEFINE e == (k - neg) \div M
             w == (k - neg) % M
  <2> HIDE DEF e, w
  <2>4. e \in Int /\ w \in Int /\ w \in Word /\ k - neg = (M * e) + w
    BY <2>3, WordAssumption DEF e, w, Word
  <2>5. k - 1 + p = (M * (e - q)) + w
    <3>1. M * (e - q) = (M * e) - (M * q)
      BY <1>1, <2>1, <2>4
    <3>2. M * e \in Int /\ M * q \in Int
      BY <1>1, <2>1, <2>4
    <3> QED
      BY <1>1, <2>1, <2>4, <3>1, <3>2
  <2>6. (k - 1 + p) % M = w
    <3>1. e - q \in Int
      BY <2>1, <2>4
    <3> QED
      BY <2>4, <2>5, <2>2, <3>1, ModUnique
  <2> QED
    BY <2>6 DEF w
<1> HIDE DEF neg, bit
<1>5. ASSUME NEW x \in Int PROVE Alu("+", x % M, bit) = (x + bit) % M
  <2>1. ((x % M) + bit) % M = (x + bit) % M
    BY <1>1, <1>5, ModSum
  <2> QED
    BY <2>1, AluOps
<1>6. 2 * n + 2 < n_nodes => Alu("+", Fma((p + n) % M, 2, neg), bit) = (p + NextIndex(n, v)) % M
  <2>1. Alu("+", (p + 2 * n + 1) % M, bit) = (p + 2 * n + 1 + bit) % M
    BY <1>1, <1>5
  <2>2. p + (2 * n + 1 + bit) = p + 2 * n + 1 + bit
    BY <1>1
  <2> QED
    BY <1>2, <1>3, <2>1, <2>2
<1>7. n = 0 /\ 2 < n_nodes => Alu("+", Alu("-", 2, neg), bit) = (p + NextIndex(n, v)) % M
  <2>1. Alu("-", 2, neg) = (2 - 1 + p) % M
    BY <1>4, AluOps
  <2>2. Alu("+", (2 - 1 + p) % M, bit) = (2 - 1 + p + bit) % M
    <3>1. 2 - 1 + p \in Int
      BY <1>1
    <3> QED
      BY <3>1, <1>5
  <2>3. n = 0 => p + (2 * n + 1 + bit) = 2 - 1 + p + bit
    BY <1>1
  <2> QED
    BY <1>1, <1>2, <2>1, <2>2, <2>3
<1>8. 2 * n + 1 >= n_nodes => Alu("-", 1, neg) = (p + NextIndex(n, v)) % M
  <2>1. Alu("-", 1, neg) = (1 - 1 + p) % M /\ 1 - 1 + p = p + 0
    BY <1>1, <1>4, AluOps
  <2> QED
    BY <1>2, <2>1
<1> QED
  BY <1>1, <1>6, <1>7, <1>8

-----------------------------------------------------------------------------
(***************************************************************************)
(* The two pauses of _insert_pauses, for every pruned program and every    *)
(* schedule of it.  PauseInv says what a schedule in the making looks like *)
(* (ScheduleOK), what the insertion makes of a finished one (InsertedOK),  *)
(* and how far a run has come (RunOK).  The lemmas FirstBundle, LastBundle *)
(* and TwoBundles are why the pauses fit: nothing that reads is in the     *)
(* first bundle, and nothing that is read is in the last.                  *)
(***************************************************************************)
size == Len(program)

\* What the bundles before the c-th hold.
Before(c) == UNION { program[d].slots : d \in 1 .. c - 1 }

\* The bundles up to the m-th that cost a cycle whatever pauses they hold.
Working(b) == { i \in b.slots : engine[i] # "debug" }
Costly(m) == { c \in 1 .. m : Working(program[c]) # {} }

-----------------------------------------------------------------------------
\* Each bundle holds something, all of it new, and its operands are earlier.
Ordered ==
  \A c \in 1 .. size : /\ program[c].slots # {}
                       /\ program[c].slots \cap Before(c) = {}
                       /\ \A i \in program[c].slots : reads[i] \subseteq Before(c)

\* A debug check is placed as soon as it can be, and waits for what was
\* placed last as long as it is not.
ChecksAtOnce ==
  /\ \A c \in 2 .. size : \A i \in Of(program[c], "debug") :
        reads[i] \cap program[c - 1].slots # {}
  /\ size > 0 => \A i \in Instr \ Placed : engine[i] = "debug" => ~(reads[i] \subseteq Before(size))

WithinLimits ==
  \A c \in 1 .. size : \A e \in DOMAIN SLOT_LIMITS \ {"debug"} :
    SlotsOf(program[c], e) <= SLOT_LIMITS[e]

ScheduleOK == /\ reads \in Programs
              /\ program \in Seq(Bundle)
              /\ Ordered
              /\ ChecksAtOnce
              /\ emitted = Cardinality(Costly(size))

NotStarted == /\ phase = "schedule"
              /\ \A c \in 1 .. size : program[c].pauses = 0
              /\ MachineInit /\ valueTrace = FALSE

\* The finished schedule has its pauses, and each fits.
InsertedOK == /\ Placed = Instr
              /\ size >= 2
              /\ \A c \in 1 .. size : program[c].pauses = IF c \in {1, size} THEN 1 ELSE 0

RunOK == /\ phase \in {"run1", "run2", "compared"}
         /\ machineError = "none"
         /\ pc \in 1 .. size + 1
         /\ scratch = Before(pc) \cap Values
         /\ mem = Before(pc) \cap Stores
         /\ cycle = Cardinality(Costly(pc - 1))
         /\ coreState \in {"RUNNING", "PAUSED", "STOPPED"}
         /\ coreState = "PAUSED" => enablePause /\ pc \in {2, size + 1}
         /\ coreState = "STOPPED" => pc = size + 1
         /\ phase = "run1" /\ enablePause => \/ pc = 1 /\ coreState = "RUNNING"
                                             \/ pc = 2 /\ coreState = "PAUSED"
         /\ phase = "run2" => enablePause /\ valueTrace /\ pc >= 2
         /\ phase = "run2" /\ coreState = "PAUSED" => pc = size + 1
         /\ phase = "compared" => pc = size + 1

PauseInv == /\ ScheduleOK
            /\ WithinLimits
            /\ enableDebug = enablePause /\ enablePause \in BOOLEAN
            /\ NotStarted \/ (InsertedOK /\ RunOK)

-----------------------------------------------------------------------------
\* Counting in a bundle.
LEMMA OfFacts ==
  ASSUME NEW b \in Bundle, NEW e
  PROVE  /\ Cardinality(Of(b, e)) \in Nat
         /\ Cardinality(Of(b, e)) = 0 <=> Of(b, e) = {}
         /\ SlotsOf(b, e) = Cardinality(Of(b, e)) + (IF e = "flow" THEN b.pauses ELSE 0)
<1>1. Of(b, e) \subseteq Instr
  BY DEF Of, Bundle
<1>2. IsFiniteSet(Of(b, e))
  BY <1>1, InstrAssumption, FS_Subset
<1>3. Cardinality(Of(b, e)) \in Nat /\ (Cardinality(Of(b, e)) = 0 <=> Of(b, e) = {})
  BY <1>2, FS_CardinalityType, FS_EmptySet
<1>4. SlotsOf(b, e) = Cardinality(Of(b, e)) + (IF e = "flow" THEN b.pauses ELSE 0)
  BY DEF SlotsOf, Of
<1> QED
  BY <1>3, <1>4

\* A bundle is free when it holds checks only.
LEMMA FreeBundle ==
  ASSUME NEW b \in Bundle
  PROVE  Engines(b) \subseteq {"debug"} <=> Working(b) = {} /\ b.pauses = 0
<1>1. b.pauses \in Nat /\ b.slots \subseteq Instr
  BY DEF Bundle
<1>2. \A e : SlotsOf(b, e) > 0 <=> Of(b, e) # {} \/ (e = "flow" /\ b.pauses > 0)
  BY <1>1, OfFacts
<1>3. \A i \in b.slots : engine[i] \in DOMAIN SLOT_LIMITS /\ i \in Of(b, engine[i])
  BY <1>1, EngineAssumption DEF Of
<1>4. ASSUME Engines(b) \subseteq {"debug"}
      PROVE  Working(b) = {} /\ b.pauses = 0
  <2>1. \A i \in b.slots : engine[i] \in Engines(b)
    BY <1>2, <1>3 DEF Engines
  <2>2. b.pauses > 0 => "flow" \in Engines(b)
    BY <1>2, LimitAssumption DEF Engines
  <2> QED
    BY <1>1, <1>4, <2>1, <2>2 DEF Working
<1>5. ASSUME Working(b) = {}, b.pauses = 0
      PROVE  Engines(b) \subseteq {"debug"}
  <2>1. \A e \in Engines(b) : Of(b, e) # {}
    BY <1>2, <1>5 DEF Engines
  <2>2. \A e : Of(b, e) # {} => e = "debug"
    BY <1>5 DEF Of, Working
  <2> QED
    BY <2>1, <2>2
<1> QED
  BY <1>4, <1>5

\* Counting the bundles that cost a cycle.
LEMMA CostlyNext ==
  ASSUME NEW m \in Nat
  PROVE  /\ IsFiniteSet(Costly(m)) /\ Cardinality(Costly(m)) \in Nat
         /\ Costly(0) = {}
         /\ Cardinality(Costly(m + 1)) =
              Cardinality(Costly(m)) + (IF Working(program[m + 1]) = {} THEN 0 ELSE 1)
<1>1. IsFiniteSet(1 .. m)
  BY FS_Interval
<1>2. Costly(m) \subseteq 1 .. m
  BY DEF Costly
<1>3. IsFiniteSet(Costly(m)) /\ Cardinality(Costly(m)) \in Nat
  BY <1>1, <1>2, FS_Subset, FS_CardinalityType
<1>4. 1 .. m + 1 = (1 .. m) \cup {m + 1} /\ m + 1 \notin 1 .. m
  OBVIOUS
<1> DEFINE k == Cardinality(Costly(m))
<1>5. Costly(0) = {}
  BY DEF Costly
<1>6. CASE Working(program[m + 1]) = {}
  <2>1. Costly(m + 1) = Costly(m)
    BY <1>4, <1>6 DEF Costly
  <2>2. Cardinality(Costly(m + 1)) = k + 0
    BY <1>3, <2>1
  <2> QED
    BY <1>3, <1>5, <1>6, <2>2
<1>7. CASE Working(program[m + 1]) # {}
  <2>1. Costly(m + 1) = Costly(m) \cup {m + 1} /\ m + 1 \notin Costly(m)
    BY <1>4, <1>7 DEF Costly
  <2>2. Cardinality(Costly(m + 1)) = k + 1
    BY <1>3, <2>1, FS_AddElement
  <2> QED
    BY <1>3, <1>5, <1>7, <2>2
<1> QED
  BY <1>6, <1>7

\* What is placed.
LEMMA PlacedAt ==
  ASSUME program \in Seq(Bundle)
  PROVE  /\ size \in Nat /\ DOMAIN program = 1 .. size
         /\ Placed = Before(size + 1)
         /\ \A i \in Placed : \E c \in 1 .. size : i \in program[c].slots
         /\ \A c \in 1 .. size : program[c] \in Bundle /\ program[c].slots \subseteq Placed
<1>1. size \in Nat /\ DOMAIN program = 1 .. size /\ \A c \in 1 .. size : program[c] \in Bundle
  BY LenProperties, ElementOfSeq DEF size
<1>2. (size + 1) - 1 = size
  BY <1>1
<1>3. Placed = Before(size + 1)
  BY <1>1, <1>2 DEF Placed, Before
<1> QED
  BY <1>1, <1>3 DEF Placed

LEMMA BeforeNext ==
  ASSUME program \in Seq(Bundle), NEW c \in 1 .. size
  PROVE  Before(c + 1) = Before(c) \cup program[c].slots
<1>1. c \in Nat /\ 1 .. (c + 1) - 1 = (1 .. c - 1) \cup {c}
  BY PlacedAt
<1> QED
  BY <1>1 DEF Before

-----------------------------------------------------------------------------
\* Nothing that reads is in the first bundle.
LEMMA FirstBundle ==
  ASSUME ScheduleOK, size > 0
  PROVE  /\ program[1].slots \subseteq Values
         /\ Of(program[1], "flow") = {} /\ Of(program[1], "store") = {} /\ Of(program[1], "debug") = {}
<1>1. 1 \in 1 .. size /\ Before(1) = {}
  BY PlacedAt DEF ScheduleOK, Before
<1>2. program[1] \in Bundle /\ Pruned(reads)
  BY <1>1, PlacedAt, ProgramsAssumption DEF ScheduleOK
<1>3. \A i \in program[1].slots : i \in Instr /\ reads[i] = {}
  BY <1>1, <1>2 DEF ScheduleOK, Ordered, Bundle
<1>4. \A i \in program[1].slots : engine[i] \notin {"store", "debug", "flow"}
  BY <1>2, <1>3 DEF Pruned
<1> QED
  BY <1>3, <1>4 DEF Values, Of

\* A value has a reader in a later bundle, which costs a cycle.
LEMMA ReaderLater ==
  ASSUME ScheduleOK, Placed = Instr, NEW c \in 1 .. size, NEW v \in program[c].slots, v \in Values
  PROVE  \E d \in 1 .. size : d > c /\ Working(program[d]) # {}
<1>1. program \in Seq(Bundle) /\ Pruned(reads) /\ size \in Nat
  BY ProgramsAssumption, PlacedAt DEF ScheduleOK
<1>2. PICK i \in Instr : engine[i] # "debug" /\ v \in reads[i]
  BY <1>1 DEF Pruned
<1>3. PICK d \in 1 .. size : i \in program[d].slots
  BY <1>1, PlacedAt
<1>4. PICK f \in 1 .. d - 1 : v \in program[f].slots
  BY <1>2, <1>3 DEF ScheduleOK, Ordered, Before
<1>5. f \in 1 .. size
  BY <1>1, <1>4
<1>6. ~ (c < f) /\ ~ (f < c)
  <2>1. ASSUME NEW x \in 1 .. size, NEW y \in 1 .. size, x < y, v \in program[x].slots, v \in program[y].slots
        PROVE  FALSE
    <3>1. x \in 1 .. y - 1
      BY <1>1, <2>1
    <3>2. v \in Before(y)
      BY <2>1, <3>1 DEF Before
    <3> QED
      BY <2>1, <3>2 DEF ScheduleOK, Ordered
  <2> QED
    BY <1>4, <1>5, <2>1
<1>7. d > c
  BY <1>1, <1>4, <1>5, <1>6
<1>8. i \in Working(program[d])
  BY <1>2, <1>3 DEF Working
<1> QED
  BY <1>7, <1>8

\* Nothing that is read is in the last bundle, and not only checks are.
LEMMA LastBundle ==
  ASSUME ScheduleOK, Placed = Instr
  PROVE  /\ size >= 2
         /\ program[size].slots \cap Values = {}
         /\ Of(program[size], "flow") = {}
         /\ Working(program[size]) # {}
<1>1. program \in Seq(Bundle) /\ Pruned(reads) /\ size \in Nat
  BY ProgramsAssumption, PlacedAt DEF ScheduleOK
<1>2. size > 0
  BY <1>1, PlacedAt, InstrAssumption
<1>3. size \in 1 .. size /\ program[size] \in Bundle /\ program[size].slots # {}
  BY <1>1, <1>2, PlacedAt DEF ScheduleOK, Ordered
<1>4. program[size].slots \cap Values = {}
  <2>1. ASSUME NEW v \in program[size].slots, v \in Values
        PROVE  FALSE
    <3>1. PICK d \in 1 .. size : d > size
      BY <1>3, <2>1, ReaderLater
    <3> QED
      BY <1>1, <3>1
  <2> QED
    BY <2>1
<1>5. size >= 2
  <2>1. size # 1
    BY <1>2, <1>3, <1>4, FirstBundle
  <2> QED
    BY <1>1, <1>2, <2>1
<1>6. Of(program[size], "flow") = {}
  BY <1>3, <1>4 DEF Of, Values, Bundle
<1>7. Working(program[size]) # {}
  <2>1. SUFFICES ASSUME Working(program[size]) = {} PROVE FALSE
    OBVIOUS
  <2>2. PICK i \in program[size].slots : i \in Of(program[size], "debug")
    BY <1>3, <2>1 DEF Working, Of
  <2>3. size \in 2 .. size /\ size - 1 \in 1 .. size
    BY <1>1, <1>5
  <2>4. PICK v \in program[size - 1].slots : v \in reads[i]
    BY <2>2, <2>3 DEF ScheduleOK, ChecksAtOnce
  <2>5. v \in Values
    BY <1>1, <1>3, <2>2, <2>4 DEF Pruned, Bundle
  <2>6. PICK d \in 1 .. size : d > size - 1 /\ Working(program[d]) # {}
    BY <2>3, <2>4, <2>5, ReaderLater
  <2>7. d = size
    BY <1>1, <2>6
  <2> QED
    BY <2>1, <2>6, <2>7
<1> QED
  BY <1>4, <1>5, <1>6, <1>7

-----------------------------------------------------------------------------
\* The schedulers' own steps.
LEMMA InitStep ==
  ASSUME PauseInit
  PROVE  PauseInv
<1>1. /\ program = <<>> /\ reads \in Programs /\ phase = "schedule" /\ emitted = 0 /\ valueTrace = FALSE
      /\ MachineInit /\ enableDebug = enablePause /\ enablePause \in BOOLEAN
  BY DEF PauseInit
<1>2. program \in Seq(Bundle) /\ size = 0 /\ 1 .. size = {} /\ 2 .. size = {}
  BY <1>1 DEF size
<1>3. emitted = Cardinality(Costly(size))
  BY <1>1, <1>2, CostlyNext, FS_EmptySet
<1>4. ScheduleOK
  BY <1>1, <1>2, <1>3 DEF ScheduleOK, Ordered, ChecksAtOnce
<1>5. WithinLimits /\ NotStarted
  BY <1>1, <1>2 DEF WithinLimits, NotStarted
<1> QED
  BY <1>1, <1>4, <1>5 DEF PauseInv

LEMMA EmitStep ==
  ASSUME PauseInv, NEW S \in SUBSET Instr, EmitBundle(S)
  PROVE  PauseInv'
<1> DEFINE b == [slots |-> S, pauses |-> 0]
<1>1. /\ ScheduleOK /\ WithinLimits /\ NotStarted
      /\ program \in Seq(Bundle) /\ size \in Nat
  BY PlacedAt DEF PauseInv, ScheduleOK, RunOK, EmitBundle
<1>2. /\ phase = "schedule" /\ S # {} /\ MustPlace \subseteq S /\ S \subseteq ReadyNodes
      /\ \A e \in DOMAIN SLOT_LIMITS \ {"debug"} : SlotsOf(b, e) <= SLOT_LIMITS[e]
      /\ program' = Append(program, b)
      /\ emitted' = IF Engines(b) \subseteq {"debug"} THEN emitted ELSE emitted + 1
      /\ UNCHANGED <<reads, enablePause, enableDebug, valueTrace, machineVars, phase>>
  BY DEF EmitBundle
<1>3. b \in Bundle /\ b.slots = S /\ b.pauses = 0
  BY DEF Bundle
<1> HIDE DEF b
<1>4. PICK N \in Nat : N = size
  BY <1>1
<1>5. /\ program' \in Seq(Bundle) /\ size' = N + 1
      /\ program'[N + 1] = b
      /\ \A c \in 1 .. N : program'[c] = program[c]
      /\ reads' = reads /\ phase' = phase
  BY <1>1, <1>2, <1>3, <1>4, AppendProperties DEF size
<1>6. \A c \in 1 .. N + 1 : c \in 1 .. N \/ c = N + 1
  OBVIOUS
<1>7. \A c \in 1 .. N + 1 : Before(c)' = Before(c)
  <2> SUFFICES ASSUME NEW c \in 1 .. N + 1 PROVE Before(c)' = Before(c)
    OBVIOUS
  <2>1. \A d \in 1 .. c - 1 : program'[d] = program[d]
    BY <1>5
  <2> QED
    BY <2>1 DEF Before
<1>8. Placed = Before(N + 1) /\ Placed' = Placed \cup S
  <2>1. DOMAIN program' = (1 .. N) \cup {N + 1} /\ DOMAIN program = 1 .. N
    BY <1>1, <1>4, <1>5, LenProperties DEF size
  <2>2. { program'[c].slots : c \in DOMAIN program' } = { program[c].slots : c \in DOMAIN program } \cup {S}
    BY <1>3, <1>5, <2>1
  <2>3. UNION ({ program[c].slots : c \in DOMAIN program } \cup {S}) = Placed \cup S
    BY DEF Placed
  <2> QED
    BY <1>1, <1>4, <2>2, <2>3, PlacedAt DEF Placed
<1>9. \A i \in S : i \in Instr /\ i \notin Placed /\ reads[i] \subseteq Placed
  BY <1>2 DEF ReadyNodes
<1>10. Ordered'
  <2>1. \A c \in 1 .. N : /\ program'[c].slots # {} /\ program'[c].slots \cap Before(c)' = {}
                          /\ \A i \in program'[c].slots : reads'[i] \subseteq Before(c)'
    <3> SUFFICES ASSUME NEW c \in 1 .. N
                 PROVE  /\ program'[c].slots # {} /\ program'[c].slots \cap Before(c)' = {}
                        /\ \A i \in program'[c].slots : reads'[i] \subseteq Before(c)'
      OBVIOUS
    <3>1. program'[c] = program[c] /\ Before(c)' = Before(c) /\ c \in 1 .. size
      BY <1>4, <1>5, <1>7
    <3> QED
      BY <1>1, <1>5, <3>1 DEF ScheduleOK, Ordered
  <2>2. /\ program'[N + 1].slots # {} /\ program'[N + 1].slots \cap Before(N + 1)' = {}
        /\ \A i \in program'[N + 1].slots : reads'[i] \subseteq Before(N + 1)'
    <3>1. Before(N + 1)' = Placed
      BY <1>7, <1>8
    <3> QED
      BY <1>2, <1>3, <1>5, <1>9, <3>1
  <2> QED
    BY <1>5, <1>6, <2>1, <2>2 DEF Ordered
<1>11. ChecksAtOnce'
  <2>1. ASSUME NEW c \in 2 .. N + 1, NEW i \in Of(program'[c], "debug")
        PROVE  reads[i] \cap program'[c - 1].slots # {}
    <3>1. c - 1 \in 1 .. N /\ program'[c - 1] = program[c - 1]
      BY <1>5
    <3>2. CASE c \in 1 .. N
      <4>1. program'[c] = program[c] /\ c \in 2 .. size
        BY <1>4, <1>5, <3>2
      <4> QED
        BY <1>1, <2>1, <3>1, <4>1 DEF ScheduleOK, ChecksAtOnce
    <3>3. CASE c = N + 1
      <4>1. i \in Instr \ Placed /\ engine[i] = "debug" /\ reads[i] \subseteq Placed
        BY <1>3, <1>5, <1>9, <2>1, <3>3 DEF Of
      <4>2. size > 0 /\ size \in 1 .. size /\ c - 1 = size
        BY <1>4, <3>1, <3>3
      <4>3. ~ (reads[i] \subseteq Before(size))
        BY <1>1, <4>1, <4>2 DEF ScheduleOK, ChecksAtOnce
      <4>4. Placed = Before(size) \cup program[size].slots
        BY <1>1, <4>2, BeforeNext, PlacedAt
      <4> QED
        BY <3>1, <4>1, <4>2, <4>3, <4>4
    <3> QED
      BY <1>6, <3>2, <3>3
  <2>2. ASSUME NEW i \in Instr \ Placed', engine[i] = "debug"
        PROVE  ~ (reads'[i] \subseteq Before(N + 1)')
    <3>1. i \notin MustPlace /\ i \in Instr \ Placed
      BY <1>2, <1>8, <2>2
    <3>2. ~ (reads[i] \subseteq Placed)
      BY <2>2, <3>1 DEF MustPlace, ReadyNodes
    <3>3. Before(N + 1)' = Placed
      BY <1>7, <1>8
    <3> QED
      BY <1>5, <3>2, <3>3
  <2> QED
    BY <1>5, <2>1, <2>2 DEF ChecksAtOnce
<1>12. emitted' = Cardinality(Costly(N + 1)')
  <2> DEFINE A == Costly(N)
             B == Costly(N + 1)'
  <2>1. emitted = Cardinality(A) /\ IsFiniteSet(A) /\ Cardinality(A) \in Nat /\ N + 1 \notin A
    <3>1. N + 1 \notin A
      BY DEF Costly
    <3>2. emitted = Cardinality(A)
      BY <1>1, <1>4 DEF ScheduleOK
    <3> QED
      BY <3>1, <3>2, CostlyNext
  <2>2. Engines(b) \subseteq {"debug"} <=> Working(b) = {}
    BY <1>3, FreeBundle
  <2>3. B = A \cup (IF Working(b) = {} THEN {} ELSE {N + 1})
    <3>1. \A c \in 1 .. N : program'[c] = program[c]
      BY <1>5
    <3>2. 1 .. N + 1 = (1 .. N) \cup {N + 1}
      OBVIOUS
    <3> QED
      BY <1>5, <3>1, <3>2 DEF Costly
  <2> HIDE DEF A, B
  <2>4. CASE Working(b) = {}
    BY <1>2, <2>1, <2>2, <2>3, <2>4 DEF B
  <2>5. CASE Working(b) # {}
    <3>1. Cardinality(B) = Cardinality(A) + 1
      BY <2>1, <2>3, <2>5, FS_AddElement
    <3> QED
      BY <1>2, <2>1, <2>2, <2>5, <3>1 DEF B
  <2> QED
    BY <2>4, <2>5
<1>13. ScheduleOK'
  <2>1. reads' \in Programs
    BY <1>1, <1>5 DEF ScheduleOK
  <2>2. emitted' = Cardinality(Costly(size)')
    BY <1>5, <1>12
  <2> QED
    BY <1>5, <1>10, <1>11, <2>1, <2>2 DEF ScheduleOK
<1>14. WithinLimits'
  <2>1. \A c \in 1 .. N + 1 : \A e \in DOMAIN SLOT_LIMITS \ {"debug"} :
          SlotsOf(program'[c], e) <= SLOT_LIMITS[e]
    BY <1>1, <1>2, <1>4, <1>5, <1>6 DEF WithinLimits
  <2> QED
    BY <1>5, <2>1 DEF WithinLimits
<1>15. NotStarted'
  <2>1. \A c \in 1 .. N + 1 : program'[c].pauses = 0
    BY <1>1, <1>3, <1>4, <1>5, <1>6 DEF NotStarted
  <2> QED
    BY <1>1, <1>2, <1>5, <2>1 DEF NotStarted, MachineInit, machineVars
<1> QED
  BY <1>2, <1>13, <1>14, <1>15 DEF PauseInv

-----------------------------------------------------------------------------
\* What the slots of the bundles decide stays when they do.
LEMMA SameSlots ==
  ASSUME ScheduleOK, size' = size, program' \in Seq(Bundle), reads' = reads, emitted' = emitted,
         \A c \in 1 .. size : program'[c].slots = program[c].slots
  PROVE  ScheduleOK' /\ Placed' = Placed
<1>1. PICK N \in Nat : N = size /\ size' = N
  BY PlacedAt DEF ScheduleOK
<1>2. \A c \in 1 .. N : program'[c].slots = program[c].slots
  BY <1>1
<1>3. \A c \in 1 .. N + 1 : Before(c)' = Before(c)
  <2> SUFFICES ASSUME NEW c \in 1 .. N + 1 PROVE Before(c)' = Before(c)
    OBVIOUS
  <2>1. \A d \in 1 .. c - 1 : program'[d].slots = program[d].slots
    BY <1>2
  <2> QED
    BY <2>1 DEF Before
<1>4. \A c \in 1 .. N : c \in 1 .. N + 1
  OBVIOUS
<1>5. Placed' = Placed
  <2>1. DOMAIN program = 1 .. N /\ DOMAIN program' = 1 .. N
    BY <1>1, PlacedAt, LenProperties DEF ScheduleOK, size
  <2>2. { program'[c].slots : c \in DOMAIN program' } = { program[c].slots : c \in DOMAIN program }
    BY <1>2, <2>1
  <2> QED
    BY <2>2 DEF Placed
<1>6. Ordered'
  <2>1. \A c \in 1 .. N : /\ program'[c].slots # {} /\ program'[c].slots \cap Before(c)' = {}
                          /\ \A i \in program'[c].slots : reads'[i] \subseteq Before(c)'
    <3> SUFFICES ASSUME NEW c \in 1 .. N
                 PROVE  /\ program'[c].slots # {} /\ program'[c].slots \cap Before(c)' = {}
                        /\ \A i \in program'[c].slots : reads'[i] \subseteq Before(c)'
      OBVIOUS
    <3>1. program'[c].slots = program[c].slots /\ Before(c)' = Before(c) /\ c \in 1 .. size
      BY <1>1, <1>2, <1>3, <1>4
    <3> QED
      BY <3>1 DEF ScheduleOK, Ordered
  <2> QED
    BY <1>1, <2>1 DEF Ordered
<1>7. ChecksAtOnce'
  <2>1. ASSUME NEW c \in 2 .. N, NEW i \in Of(program'[c], "debug")
        PROVE  reads'[i] \cap program'[c - 1].slots # {}
    <3>1. c \in 1 .. N /\ c - 1 \in 1 .. N
      OBVIOUS
    <3>2. program'[c].slots = program[c].slots /\ program'[c - 1].slots = program[c - 1].slots
      BY <1>2, <3>1
    <3>3. i \in Of(program[c], "debug") /\ c \in 2 .. size
      BY <1>1, <2>1, <3>2 DEF Of
    <3> QED
      BY <3>2, <3>3 DEF ScheduleOK, ChecksAtOnce
  <2>2. ASSUME N > 0, NEW i \in Instr \ Placed', engine[i] = "debug"
        PROVE  ~ (reads'[i] \subseteq Before(N)')
    <3>1. N \in 1 .. N + 1 /\ size > 0
      BY <1>1, <2>2
    <3>2. Before(N)' = Before(N) /\ Before(N) = Before(size)
      BY <1>1, <1>3, <3>1
    <3> QED
      BY <1>5, <2>2, <3>1, <3>2 DEF ScheduleOK, ChecksAtOnce
  <2> QED
    BY <1>1, <2>1, <2>2 DEF ChecksAtOnce
<1>8. emitted' = Cardinality(Costly(size)')
  <2>1. \A c \in 1 .. N : Working(program'[c]) = Working(program[c])
    BY <1>2 DEF Working
  <2>2. Costly(N)' = Costly(N)
    BY <2>1 DEF Costly
  <2> QED
    BY <1>1, <2>2 DEF ScheduleOK
<1> QED
  BY <1>5, <1>6, <1>7, <1>8 DEF ScheduleOK

\* Both pauses find room.
LEMMA InsertStep ==
  ASSUME PauseInv, InsertPauses
  PROVE  PauseInv'
<1>1. /\ ScheduleOK /\ WithinLimits /\ NotStarted
      /\ program \in Seq(Bundle) /\ Placed = Instr /\ phase = "schedule"
      /\ enableDebug = enablePause /\ enablePause \in BOOLEAN
  BY DEF PauseInv, ScheduleOK, RunOK, InsertPauses
<1>2. PICK N \in Nat : N = size
  BY <1>1, PlacedAt
<1>3. /\ N >= 2 /\ 1 \in 1 .. N /\ N \in 1 .. N
      /\ \A c \in 1 .. N : program[c] \in Bundle /\ program[c].pauses = 0
      /\ DOMAIN program = 1 .. N
  BY <1>1, <1>2, LastBundle, PlacedAt DEF NotStarted
<1>4. /\ Of(program[1], "flow") = {} /\ Of(program[1], "store") = {}
      /\ Of(program[N], "flow") = {}
  BY <1>1, <1>2, <1>3, FirstBundle, LastBundle
<1>5. FlowFree(program[1]) /\ FlowFree(program[N])
  BY <1>3, <1>4, OfFacts DEF FlowFree
<1>6. FirstFree(program) = {1}
  <2> DEFINE open == { c \in DOMAIN program : FlowFree(program[c]) }
  <2>1. 1 \in open /\ open \subseteq 1 .. N
    BY <1>3, <1>5
  <2>2. FirstFree(program) = { c \in open : \A d \in open : c <= d }
    BY DEF FirstFree
  <2> HIDE DEF open
  <2>3. \A c \in open : 1 <= c /\ (c <= 1 => c = 1)
    BY <2>1
  <2>4. \A c \in open : (\A d \in open : c <= d) <=> c = 1
    BY <2>1, <2>3
  <2> QED
    BY <2>1, <2>2, <2>4
<1>7. ~ StoreBefore(program)
  <2>1. ASSUME NEW c \in 1 .. N, c <= 1
        PROVE  Of(program[c], "store") = {}
    BY <1>4, <2>1
  <2> QED
    BY <1>3, <1>6, <2>1 DEF StoreBefore
<1>8. \A c \in 1 .. N : /\ WithPause(program[c]) \in Bundle
                        /\ WithPause(program[c]).slots = program[c].slots
                        /\ WithPause(program[c]).pauses = 1
  BY <1>3 DEF WithPause, Bundle
<1> DEFINE p == InsertFirst(program)
<1>9. p = [c \in 1 .. N |-> IF c = 1 THEN WithPause(program[c]) ELSE program[c]]
  BY <1>3, <1>6 DEF InsertFirst
<1>10. p \in Seq(Bundle) /\ Len(p) = N /\ p[N] = program[N]
  BY <1>3, <1>8, <1>9
<1> HIDE DEF p
<1>11. program' = [p EXCEPT ![N] = WithPause(program[N])]
  <2>1. program' = InsertLast(p)
    BY DEF InsertPauses, p
  <2> QED
    BY <1>5, <1>10, <2>1 DEF InsertLast
<1>12. /\ program' \in Seq(Bundle) /\ size' = N
       /\ \A c \in 1 .. N : program'[c] = IF c \in {1, N} THEN WithPause(program[c]) ELSE program[c]
  BY <1>3, <1>8, <1>9, <1>10, <1>11 DEF size
<1>13. \A c \in 1 .. N : /\ program'[c].slots = program[c].slots
                         /\ program'[c].pauses = IF c \in {1, N} THEN 1 ELSE 0
                         /\ program'[c] \in Bundle
  BY <1>3, <1>8, <1>12
<1>14. /\ UNCHANGED <<reads, enablePause, enableDebug, valueTrace, machineVars, emitted>>
       /\ phase' = "run1"
  BY <1>7 DEF InsertPauses
<1>15. ScheduleOK' /\ Placed' = Instr
  BY <1>1, <1>2, <1>12, <1>13, <1>14, SameSlots
<1>16. WithinLimits'
  <2> SUFFICES ASSUME NEW c \in 1 .. N, NEW e \in DOMAIN SLOT_LIMITS \ {"debug"}
               PROVE  SlotsOf(program'[c], e) <= SLOT_LIMITS[e]
    BY <1>12 DEF WithinLimits
  <2>1. Of(program'[c], e) = Of(program[c], e)
    BY <1>13 DEF Of
  <2>2. SlotsOf(program[c], e) <= SLOT_LIMITS[e]
    BY <1>1, <1>2 DEF WithinLimits
  <2>3. /\ SlotsOf(program[c], e) = Cardinality(Of(program[c], e)) + (IF e = "flow" THEN 0 ELSE 0)
        /\ SlotsOf(program'[c], e) = Cardinality(Of(program[c], e)) + (IF e = "flow" THEN program'[c].pauses ELSE 0)
        /\ Cardinality(Of(program[c], e)) \in Nat
    BY <1>3, <1>13, <2>1, OfFacts
  <2>4. CASE e = "flow" /\ c \in {1, N}
    <3>1. Cardinality(Of(program[c], e)) = 0
      BY <1>3, <1>4, <2>4, OfFacts
    <3> QED
      BY <1>13, <2>3, <2>4, <3>1, LimitAssumption
  <2>5. CASE ~ (e = "flow" /\ c \in {1, N})
    BY <1>13, <2>2, <2>3, <2>5
  <2> QED
    BY <2>4, <2>5
<1>17. InsertedOK'
  BY <1>3, <1>12, <1>13, <1>15 DEF InsertedOK
<1>18. RunOK'
  <2>1. pc = 1 /\ coreState = "RUNNING" /\ cycle = 0 /\ scratch = {} /\ mem = {} /\ machineError = "none"
    BY <1>1 DEF NotStarted, MachineInit
  <2>2. Before(1)' = {}
    BY DEF Before
  <2>3. Costly(0)' = {}
    BY DEF Costly
  <2>4. UNCHANGED <<pc, coreState, cycle, scratch, mem, machineError>>
    BY <1>14 DEF machineVars
  <2>5. Before(pc)' = {} /\ Costly(pc - 1)' = {}
    BY <2>1, <2>2, <2>3, <2>4
  <2>6. pc' \in 1 .. size' + 1
    BY <1>12, <2>1, <2>4
  <2>7. /\ scratch' = Before(pc)' \cap Values /\ mem' = Before(pc)' \cap Stores
        /\ cycle' = Cardinality(Costly(pc - 1)')
    BY <2>1, <2>4, <2>5, FS_EmptySet
  <2> QED
    BY <1>14, <2>1, <2>4, <2>6, <2>7 DEF RunOK
<1> QED
  BY <1>1, <1>14, <1>15, <1>16, <1>17, <1>18 DEF PauseInv

-----------------------------------------------------------------------------
\* A run leaves the program and its schedule as they are.
LEMMA ProgramKept ==
  ASSUME ScheduleOK, WithinLimits, InsertedOK, UNCHANGED <<reads, program, emitted>>
  PROVE  /\ ScheduleOK' /\ WithinLimits' /\ InsertedOK' /\ size' = size
         /\ \A c : Before(c)' = Before(c) /\ Costly(c)' = Costly(c)
<1>1. size' = size /\ Placed' = Placed
  BY DEF size, Placed
<1>2. \A c : Before(c)' = Before(c) /\ Costly(c)' = Costly(c)
  BY DEF Before, Costly
<1>3. ScheduleOK'
  <2>1. \A c \in 1 .. size : program'[c].slots = program[c].slots
    OBVIOUS
  <2>2. program' \in Seq(Bundle)
    BY DEF ScheduleOK
  <2> QED
    BY <1>1, <2>1, <2>2, SameSlots
<1>4. WithinLimits' /\ InsertedOK'
  BY <1>1 DEF WithinLimits, InsertedOK
<1> QED
  BY <1>1, <1>2, <1>3, <1>4

\* What is known before each bundle of a run.
LEMMA BundleFacts ==
  ASSUME PauseInv, phase # "schedule", pc <= size
  PROVE  /\ ScheduleOK /\ WithinLimits /\ InsertedOK /\ RunOK
         /\ size \in Nat /\ pc \in 1 .. size /\ pc \in Nat /\ program[pc] \in Bundle
         /\ Before(pc + 1) = Before(pc) \cup program[pc].slots
         /\ \A i \in program[pc].slots : i \in Instr /\ reads[i] \subseteq scratch
<1>1. /\ ScheduleOK /\ WithinLimits /\ InsertedOK /\ RunOK /\ program \in Seq(Bundle) /\ Pruned(reads)
  BY ProgramsAssumption DEF PauseInv, ScheduleOK, NotStarted
<1>2. size \in Nat /\ pc \in 1 .. size /\ pc \in Nat /\ program[pc] \in Bundle
  <2>1. size \in Nat /\ \A c \in 1 .. size : program[c] \in Bundle
    BY <1>1, PlacedAt
  <2>2. pc \in 1 .. size + 1
    BY <1>1 DEF RunOK
  <2>3. pc \in 1 .. size /\ pc \in Nat
    BY <2>1, <2>2
  <2> QED
    BY <2>1, <2>3
<1>3. Before(pc + 1) = Before(pc) \cup program[pc].slots
  BY <1>1, <1>2, BeforeNext
<1>4. \A i \in program[pc].slots : i \in Instr /\ reads[i] \subseteq Before(pc)
  BY <1>1, <1>2 DEF ScheduleOK, Ordered, Bundle
<1>5. \A i \in Instr : reads[i] \subseteq Values
  BY <1>1 DEF Pruned
<1> QED
  BY <1>1, <1>2, <1>3, <1>4, <1>5 DEF RunOK

\* No bundle makes the machine raise anything.
LEMMA NeverRaises ==
  ASSUME PauseInv, phase \in {"run1", "run2"}, coreState = "RUNNING", pc <= size
  PROVE  Raised(program[pc]) = "none"
<1> DEFINE b == program[pc]
<1>1. /\ ScheduleOK /\ WithinLimits /\ InsertedOK /\ RunOK
      /\ size \in Nat /\ pc \in 1 .. size /\ b \in Bundle
      /\ \A i \in b.slots : i \in Instr /\ reads[i] \subseteq scratch
      /\ enableDebug = enablePause
  BY BundleFacts DEF PauseInv
<1>2. enableDebug /\ Of(b, "debug") # {} => valueTrace
  <2>1. enableDebug /\ phase = "run1" => pc = 1
    BY <1>1 DEF RunOK
  <2>2. pc = 1 => Of(b, "debug") = {}
    <3>1. size > 0
      BY <1>1 DEF InsertedOK
    <3> QED
      BY <1>1, <3>1, FirstBundle
  <2>3. phase = "run2" => valueTrace
    BY <1>1 DEF RunOK
  <2> QED
    BY <2>1, <2>2, <2>3
<1>3. \A i \in Of(b, "debug") : reads[i] \subseteq scratch
  BY <1>1 DEF Of
<1>4. \A e \in Engines(b) \ {"debug"} : ~ (SlotsOf(b, e) > SLOT_LIMITS[e])
  <2> SUFFICES ASSUME NEW e \in Engines(b) \ {"debug"} PROVE ~ (SlotsOf(b, e) > SLOT_LIMITS[e])
    OBVIOUS
  <2>1. e \in DOMAIN SLOT_LIMITS \ {"debug"}
    BY DEF Engines
  <2>2. SlotsOf(b, e) <= SLOT_LIMITS[e] /\ SLOT_LIMITS[e] \in Nat
    BY <1>1, <2>1, LimitAssumption DEF WithinLimits
  <2>3. SlotsOf(b, e) \in Nat
    BY <1>1, OfFacts DEF Bundle
  <2> QED
    BY <2>2, <2>3
<1> HIDE DEF b
<1>5. Raised(b) = "none"
  BY <1>2, <1>3, <1>4 DEF Raised
<1> QED
  BY <1>5 DEF b

\* A bundle is run.
LEMMA StepStep ==
  ASSUME PauseInv, phase \in {"run1", "run2"}, Step, UNCHANGED <<phase, emitted>>
  PROVE  PauseInv'
<1> DEFINE b == program[pc]
<1>1. /\ coreState = "RUNNING" /\ pc <= size
      /\ machineError' = Raised(b) /\ pc' = pc + 1
      /\ scratch' = scratch \cup WritesScratch(b)
      /\ mem' = mem \cup WritesMem(b)
      /\ coreState' = IF b.pauses > 0 /\ enablePause THEN "PAUSED" ELSE "RUNNING"
      /\ cycle' = IF Engines(b) \subseteq {"debug"} THEN cycle ELSE cycle + 1
      /\ UNCHANGED <<reads, program, enablePause, enableDebug, valueTrace>>
  BY DEF Step, settings, size
<1>2. /\ ScheduleOK /\ WithinLimits /\ InsertedOK /\ RunOK
      /\ size \in Nat /\ pc \in 1 .. size /\ pc \in Nat /\ b \in Bundle
      /\ Before(pc + 1) = Before(pc) \cup b.slots
      /\ \A i \in b.slots : i \in Instr /\ reads[i] \subseteq scratch
  BY <1>1, BundleFacts
<1>3. machineError' = "none"
  BY <1>1, NeverRaises
<1>4. /\ ScheduleOK' /\ WithinLimits' /\ InsertedOK' /\ size' = size
      /\ \A c : Before(c)' = Before(c) /\ Costly(c)' = Costly(c)
  BY <1>1, <1>2, ProgramKept
<1>5. b.pauses = (IF pc \in {1, size} THEN 1 ELSE 0)
  BY <1>2 DEF InsertedOK
<1> HIDE DEF b
<1>6. size >= 2 /\ size \in Nat /\ pc \in Nat /\ pc >= 1 /\ pc <= size /\ pc' = pc + 1 /\ size' = size
  <2>1. size >= 2
    BY <1>2 DEF InsertedOK
  <2> QED
    BY <1>1, <1>2, <1>4, <2>1
<1>7. scratch' = Before(pc + 1) \cap Values
  <2>1. WritesScratch(b) = b.slots \cap Values
    BY <1>2 DEF WritesScratch, Of, Values
  <2> QED
    BY <1>1, <1>2, <2>1 DEF RunOK
<1>8. mem' = Before(pc + 1) \cap Stores
  <2>1. WritesMem(b) = b.slots \cap Stores
    BY <1>2 DEF WritesMem, Of, Stores
  <2> QED
    BY <1>1, <1>2, <2>1 DEF RunOK
<1>9. cycle' = Cardinality(Costly(pc))
  <2>1. Engines(b) \subseteq {"debug"} <=> Working(b) = {} /\ b.pauses = 0
    BY <1>2, FreeBundle
  <2>2. b.pauses # 0 => Working(b) # {}
    <3>1. Working(program[size]) # {}
      BY <1>2, LastBundle DEF InsertedOK
    <3>2. Working(program[1]) # {}
      <4>1. 1 \in 1 .. size /\ size > 0
        BY <1>6
      <4>2. program[1].slots # {} /\ program[1].slots \subseteq Values
        BY <1>2, <4>1, FirstBundle DEF ScheduleOK, Ordered
      <4> QED
        BY <4>2 DEF Values, Working
    <3> QED
      BY <1>5, <3>1, <3>2 DEF b
  <2> DEFINE m == pc - 1
             k == Cardinality(Costly(m))
  <2>3. m \in Nat /\ m + 1 = pc /\ cycle = k
    <3>1. cycle = k
      BY <1>2 DEF RunOK
    <3> QED
      BY <1>6, <3>1
  <2>4. /\ k \in Nat
        /\ Cardinality(Costly(m + 1)) = k + (IF Working(program[m + 1]) = {} THEN 0 ELSE 1)
    BY <2>3, CostlyNext
  <2> HIDE DEF m, k
  <2>5. Cardinality(Costly(pc)) = k + (IF Working(b) = {} THEN 0 ELSE 1)
    BY <2>3, <2>4 DEF b
  <2>6. cycle' = IF Working(b) = {} THEN k ELSE k + 1
    BY <1>1, <2>1, <2>2, <2>3
  <2> QED
    BY <2>4, <2>5, <2>6
<1>10. RunOK'
  <2>1. pc' \in 1 .. size' + 1 /\ pc' - 1 = pc
    BY <1>6
  <2>2. /\ Before(pc)' = Before(pc + 1)
        /\ Costly(pc - 1)' = Costly(pc)
    BY <1>1, <2>1 DEF Before, Costly
  <2>3. /\ coreState' \in {"RUNNING", "PAUSED"}
        /\ coreState' = "PAUSED" => enablePause /\ pc \in {1, size}
    <3>1. b.pauses > 0 <=> pc \in {1, size}
      BY <1>5
    <3> QED
      BY <1>1, <3>1
  <2>4. phase = "run1" /\ enablePause => pc = 1
    BY <1>1, <1>2 DEF RunOK
  <2>5. phase = "run1" /\ enablePause => pc' = 2 /\ coreState' = "PAUSED"
    <3>1. phase = "run1" /\ enablePause => pc' = 2 /\ b.pauses = 1
      BY <1>5, <1>6, <2>4
    <3> QED
      BY <1>1, <3>1
  <2>6. phase = "run2" => enablePause /\ valueTrace /\ pc >= 2
    BY <1>2 DEF RunOK
  <2>7. phase = "run2" /\ coreState' = "PAUSED" => pc' = size' + 1
    BY <1>6, <2>3, <2>6
  <2>8. coreState' = "PAUSED" => pc' \in {2, size' + 1}
    BY <1>6, <2>3
  <2>9. phase' = phase /\ phase' # "compared"
    OBVIOUS
  <2> QED
    BY <1>1, <1>2, <1>3, <1>7, <1>8, <1>9, <2>1, <2>2, <2>3, <2>5, <2>6, <2>7, <2>8, <2>9 DEF RunOK
<1> QED
  BY <1>1, <1>4, <1>10 DEF PauseInv

\* What is true of a run when the program is as it was.
LEMMA RunKept ==
  ASSUME PauseInv, phase # "schedule",
         UNCHANGED <<reads, program, enablePause, enableDebug, emitted>>, RunOK'
  PROVE  PauseInv'
<1>1. ScheduleOK /\ WithinLimits /\ InsertedOK
  BY DEF PauseInv, NotStarted
<1>2. ScheduleOK' /\ WithinLimits' /\ InsertedOK'
  BY <1>1, ProgramKept
<1> QED
  BY <1>2 DEF PauseInv

\* The core stops behind the last bundle.
LEMMA StopStep ==
  ASSUME PauseInv, phase \in {"run1", "run2"}, RunOffTheEnd, UNCHANGED <<phase, emitted>>
  PROVE  PauseInv'
<1>1. /\ coreState = "RUNNING" /\ pc > size /\ coreState' = "STOPPED"
      /\ UNCHANGED <<reads, program, enablePause, enableDebug, valueTrace>>
      /\ UNCHANGED <<pc, cycle, scratch, mem, machineError>>
  BY DEF RunOffTheEnd, settings, size
<1>2. RunOK /\ InsertedOK /\ size \in Nat
  BY PlacedAt DEF PauseInv, NotStarted, ScheduleOK
<1>3. pc = size + 1 /\ size >= 2 /\ size' = size
  BY <1>1, <1>2 DEF RunOK, InsertedOK, size
<1>4. \A c : Before(c)' = Before(c) /\ Costly(c)' = Costly(c)
  BY <1>1 DEF Before, Costly
<1>5. pc' = size' + 1 /\ pc' \in 1 .. size' + 1 /\ pc # 1
  BY <1>1, <1>2, <1>3
<1>6. ~ (phase = "run1" /\ enablePause)
  BY <1>1, <1>2, <1>5 DEF RunOK
<1>7. /\ scratch' = Before(pc)' \cap Values /\ mem' = Before(pc)' \cap Stores
      /\ cycle' = Cardinality(Costly(pc - 1)')
  BY <1>1, <1>2 DEF RunOK, Before, Costly
<1>8. phase = "run2" => enablePause' /\ valueTrace' /\ pc' >= 2
  BY <1>1, <1>2 DEF RunOK
<1>9. machineError' = "none"
  BY <1>1, <1>2 DEF RunOK
<1>10. RunOK'
  BY <1>1, <1>5, <1>6, <1>7, <1>8, <1>9 DEF RunOK
<1> QED
  BY <1>1, <1>10, RunKept

\* The development test resumes the core.
LEMMA YieldStep ==
  ASSUME PauseInv, SecondYield
  PROVE  PauseInv'
<1>1. /\ phase = "run1" /\ enablePause /\ RunReturns /\ valueTrace' = TRUE /\ Resume /\ phase' = "run2"
      /\ UNCHANGED <<reads, program, enablePause, enableDebug, pc, cycle, scratch, mem, machineError, emitted>>
  BY DEF SecondYield
<1>2. RunOK
  BY <1>1 DEF PauseInv, NotStarted
<1>3. pc = 2 /\ coreState' = "RUNNING"
  BY <1>1, <1>2 DEF RunOK, RunReturns, Resume
<1>4. size' = size
  BY <1>1 DEF size
<1>5. /\ scratch' = Before(pc)' \cap Values /\ mem' = Before(pc)' \cap Stores
      /\ cycle' = Cardinality(Costly(pc - 1)')
  BY <1>1, <1>2 DEF RunOK, Before, Costly
<1>6. machineError' = "none" /\ pc' \in 1 .. size' + 1 /\ pc' >= 2
  BY <1>1, <1>2, <1>3, <1>4 DEF RunOK
<1>7. RunOK'
  BY <1>1, <1>3, <1>5, <1>6 DEF RunOK
<1> QED
  BY <1>1, <1>7, RunKept

\* The last run() has returned.
LEMMA CompareStep ==
  ASSUME PauseInv, Compare
  PROVE  PauseInv'
<1>1. /\ phase = (IF enablePause THEN "run2" ELSE "run1") /\ RunReturns /\ phase' = "compared"
      /\ UNCHANGED <<reads, program, enablePause, enableDebug, valueTrace>>
      /\ UNCHANGED <<pc, coreState, cycle, scratch, mem, machineError, emitted>>
  BY DEF Compare, settings, machineVars
<1>2. phase \in {"run1", "run2"}
  BY <1>1
<1>3. RunOK
  BY <1>2 DEF PauseInv, NotStarted
<1>4. pc = size + 1
  BY <1>1, <1>3 DEF RunOK, RunReturns
<1>5. size' = size
  BY <1>1 DEF size
<1>6. /\ scratch' = Before(pc)' \cap Values /\ mem' = Before(pc)' \cap Stores
      /\ cycle' = Cardinality(Costly(pc - 1)')
  BY <1>1, <1>3 DEF RunOK, Before, Costly
<1>7. RunOK'
  BY <1>1, <1>3, <1>4, <1>5, <1>6 DEF RunOK
<1> QED
  BY <1>1, <1>2, <1>7, RunKept

LEMMA IdleStep ==
  ASSUME PauseInv, UNCHANGED pauseVars
  PROVE  PauseInv'
<1>1. /\ UNCHANGED <<reads, program, enablePause, enableDebug, valueTrace>>
      /\ UNCHANGED <<pc, coreState, cycle, scratch, mem, machineError, phase, emitted>>
  BY DEF pauseVars, settings, machineVars
<1>2. size' = size /\ Placed' = Placed
  BY <1>1 DEF size, Placed
<1>3. ScheduleOK'
  <2>1. program' \in Seq(Bundle) /\ \A c \in 1 .. size : program'[c].slots = program[c].slots
    BY <1>1 DEF PauseInv, ScheduleOK
  <2> QED
    BY <1>1, <1>2, <2>1, SameSlots DEF PauseInv
<1>4. WithinLimits'
  BY <1>1, <1>2 DEF PauseInv, WithinLimits
<1>5. NotStarted => NotStarted'
  BY <1>1, <1>2 DEF NotStarted, MachineInit
<1>6. InsertedOK => InsertedOK'
  BY <1>1, <1>2 DEF InsertedOK
<1>7. RunOK => RunOK'
  BY <1>1, <1>2 DEF RunOK, Before, Costly
<1> QED
  BY <1>1, <1>3, <1>4, <1>5, <1>6, <1>7 DEF PauseInv

-----------------------------------------------------------------------------
\* PauseInv is an invariant: the first bundle of any schedule of a pruned
\* program takes pause 1 and the last takes pause 2, and every run of the
\* result has landed, bundle by bundle, what the bundles behind it hold.
THEOREM PauseInvariant == PauseSpec => []PauseInv
<1>1. PauseInit => PauseInv
  BY InitStep
<1>2. PauseInv /\ [PauseNext]_pauseVars => PauseInv'
  <2> SUFFICES ASSUME PauseInv, [PauseNext]_pauseVars PROVE PauseInv'
    OBVIOUS
  <2>1. ASSUME NEW S \in SUBSET Instr, EmitBundle(S) PROVE PauseInv'
    BY <2>1, EmitStep
  <2>2. CASE InsertPauses
    BY <2>2, InsertStep
  <2>3. CASE Running
    BY <2>3, StepStep, StopStep DEF Running
  <2>4. CASE SecondYield
    BY <2>4, YieldStep
  <2>5. CASE Compare
    BY <2>5, CompareStep
  <2>6. CASE UNCHANGED pauseVars
    BY <2>6, IdleStep
  <2> QED
    BY <2>1, <2>2, <2>3, <2>4, <2>5, <2>6 DEF PauseNext
<1> QED
  BY <1>1, <1>2, PTL DEF PauseSpec

\* When the first run() of the development test returns, nothing has been
\* stored and the program has not ended; when the last run() returns, there and
\* in grading, every store has landed with the value it should have.
THEOREM PauseMemory == PauseSpec => []MemoryAtEachReturn
<1>1. PauseInv => MemoryAtEachReturn
  <2> SUFFICES ASSUME PauseInv PROVE MemoryAtEachReturn
    OBVIOUS
  <2>1. ASSUME phase \in {"run1", "compared"}
        PROVE  ScheduleOK /\ InsertedOK /\ RunOK /\ size \in Nat
    BY <2>1, PlacedAt DEF PauseInv, NotStarted, ScheduleOK
  <2>2. ASSUME phase = "run1", enablePause, RunReturns
        PROVE  mem = {} /\ pc <= Len(program)
    <3>1. pc = 2 /\ mem = Before(2) \cap Stores
      BY <2>1, <2>2 DEF RunOK, RunReturns
    <3>2. size >= 2 /\ size > 0 /\ 1 .. 2 - 1 = {1}
      BY <2>1, <2>2 DEF InsertedOK
    <3>3. Before(2) = program[1].slots
      BY <3>2 DEF Before
    <3>4. program[1].slots \subseteq Values
      BY <2>1, <2>2, <3>2, FirstBundle
    <3> QED
      BY <3>1, <3>2, <3>3, <3>4 DEF Values, Stores, size
  <2>3. ASSUME phase = "compared"
        PROVE  mem = Stores
    <3>1. pc = size + 1 /\ mem = Before(pc) \cap Stores /\ Placed = Instr
      BY <2>1, <2>3 DEF RunOK, InsertedOK
    <3>2. Before(size + 1) = Instr
      BY <2>1, <2>3, <3>1, PlacedAt DEF ScheduleOK
    <3> QED
      BY <3>1, <3>2 DEF Stores
  <2> QED
    BY <2>2, <2>3 DEF MemoryAtEachReturn
<1> QED
  BY <1>1, PauseInvariant, PTL

\* The assertion about stores before pause 1 never fails, no debug check runs
\* before the reference's trace is there or reads a value too early, and no
\* bundle exceeds a slot limit with its pause.
THEOREM PauseRaisesNothing == PauseSpec => []NothingRaised
<1>1. PauseInv => NothingRaised
  BY DEF PauseInv, NotStarted, MachineInit, RunOK, NothingRaised
<1> QED
  BY <1>1, PauseInvariant, PTL

\* The run of a schedule costs as many cycles as it had bundles that cost one
\* before the pauses were inserted.
THEOREM PausesCostNothing == PauseSpec => []PausesAreFree
<1>1. PauseInv => PausesAreFree
  <2> SUFFICES ASSUME PauseInv, phase = "compared" PROVE cycle = emitted
    BY DEF PausesAreFree
  <2>1. ScheduleOK /\ RunOK /\ size \in Nat
    BY PlacedAt DEF PauseInv, NotStarted, ScheduleOK
  <2>2. pc = size + 1 /\ cycle = Cardinality(Costly(pc - 1))
    BY <2>1 DEF RunOK
  <2>3. pc - 1 = size
    BY <2>1, <2>2
  <2> QED
    BY <2>1, <2>2, <2>3 DEF ScheduleOK
<1> QED
  BY <1>1, PauseInvariant, PTL

-----------------------------------------------------------------------------
\* The front end.

\* What tag_raw_chains makes.
TaggedInstruction == [engine : { i.engine : i \in Instruction }, dest : SUBSET Tag,
                      reads : Seq(Tag \cup Pinned)]

\* An operand of instruction n over tags: the tag its symbol was given by the
\* last write before.
Renames(n, k) ==
  \/ instrs[n].reads[k] \in Pinned /\ tagged[n].reads[k] = instrs[n].reads[k]
  \/ \E m \in LastWriter(n, instrs[n].reads[k]) : tagged[n].reads[k] \in tagged[m].dest

\* No two instructions write one tag.
TagsApart == \A m, n \in DOMAIN tagged : m # n => tagged[m].dest \cap tagged[n].dest = {}

\* The program over tags, as far as it goes, is the source program renamed.
TaggedOK ==
  /\ instrs \in Seq(Instruction) /\ tagged \in Seq(TaggedInstruction)
  /\ Len(tagged) = Len(instrs)
  /\ \A n \in DOMAIN instrs : /\ tagged[n].engine = instrs[n].engine
                              /\ DOMAIN tagged[n].reads = DOMAIN instrs[n].reads
                              /\ \A k \in DOMAIN instrs[n].reads : Renames(n, k)
                              /\ \A t, u \in tagged[n].dest : t = u
                              /\ tagged[n].engine \in {"store", "debug"} => tagged[n].dest = {}
  /\ TagsApart

\* A symbol's current tag was made by the last instruction that writes it.
CurrentOK ==
  \A s \in DOMAIN current : \E m \in DOMAIN instrs :
    /\ s \in instrs[m].dest /\ current[s] \in tagged[m].dest
    /\ \A l \in DOMAIN instrs : s \in instrs[l].dest => l <= m

\* The tags made so far have the numbers below the counter.
CounterOK ==
  /\ IsFiniteSet(DOMAIN readCount)
  /\ \A n \in DOMAIN tagged : tagged[n].dest \subseteq DOMAIN readCount
  /\ \A t \in DOMAIN readCount : t \in Tag /\ t.n < Cardinality(DOMAIN readCount)

\* The counts are of the operands of some instructions; what they read and,
\* for the whole program, what they write has a count.
Counts(f, list, S) ==
  /\ \A t \in DOMAIN f : /\ IsFiniteSet(ReadersOf(list, S, t))
                         /\ f[t] = Cardinality(ReadersOf(list, S, t))
  /\ \A n \in S : Range(list[n].reads) \ Pinned \subseteq DOMAIN f
  /\ DOMAIN f \cap Pinned = {}

\* The counts of the whole program.
AllCounted == /\ Counts(readCount, tagged, DOMAIN tagged)
              /\ \A n \in DOMAIN tagged : tagged[n].dest \subseteq DOMAIN readCount

\* While tagging, nothing has been built.
TagOK == /\ CurrentOK /\ CounterOK /\ AllCounted
         /\ kept = <<>> /\ writer = <<>> /\ edges = {}

\* The nodes made so far, and the edges into them.
BuildOK ==
  /\ kept \in Seq(Nat) /\ Len(kept) <= Len(tagged)
  /\ \A n \in DOMAIN kept : kept[n] = n
  /\ \A t \in DOMAIN writer : writer[t] \in DOMAIN kept /\ t \in tagged[writer[t]].dest
  /\ \A n \in DOMAIN kept : tagged[n].dest \subseteq DOMAIN writer
  /\ edges = { e \in DataFlow : e[2] \in DOMAIN kept }

\* Where the backward walk starts.
StoreNodes == { n \in DOMAIN instrs : instrs[n].engine = "store" }

\* A marked node is a store, or one that is marked reads it.
HasUse == \A i \in useful : i \in StoreNodes \/ \E e \in DataFlow : e[1] = i /\ e[2] \in useful

\* What is marked is needed; what a node that was looked at needs is marked.
WalkOK ==
  /\ StoreNodes \subseteq useful /\ work \subseteq useful /\ useful \subseteq DOMAIN instrs
  /\ \A e \in DataFlow : e[2] \in useful \ work => e[1] \in useful
  /\ \A T \in SUBSET (DOMAIN instrs) : StoreNodes \subseteq T /\ Closed(T) => useful \subseteq T
  /\ HasUse

\* The survivors, in order, and the graph over them.
FinalOK ==
  /\ kept \in Seq(DOMAIN instrs)
  /\ \A i, j \in DOMAIN kept : i < j => kept[i] < kept[j]
  /\ IF prune THEN useful = DependsOn(StoreNodes) /\ Range(kept) = Keep /\ HasUse
     ELSE Range(kept) = DOMAIN instrs /\ nodes = tagged
  /\ DOMAIN nodes = DOMAIN kept
  /\ \A n \in DOMAIN nodes : nodes[n] = tagged[kept[n]]
  /\ nodeEdges = { e \in (DOMAIN kept) \X (DOMAIN kept) : <<kept[e[1]], kept[e[2]]>> \in DataFlow }

\* The survivors whose reads have been counted.
RecountOK == counted \in 0 .. Len(kept) /\ Counts(readCount, nodes, 1 .. counted)

\* The invariant, by the function that runs.
FrontInv ==
  /\ TaggedOK
  /\ at \in {"tag", "build", "no_store", "walk", "pruned", "count", "allocate"}
  /\ at = "tag" => TagOK
  /\ at = "build" => BuildOK
  /\ at = "build" \/ (at = "allocate" /\ ~prune) => AllCounted
  /\ at \in {"walk", "pruned", "count", "allocate"} => edges = DataFlow
  /\ at = "walk" => WalkOK
  /\ at \in {"walk", "pruned", "count"} => prune
  /\ at \in {"pruned", "count", "allocate"} => FinalOK
  /\ at = "count" \/ (at = "allocate" /\ prune) => RecountOK
  /\ at = "allocate" /\ prune => counted = Len(kept)

-----------------------------------------------------------------------------
\* The parts of an instruction, and of one over tags.
LEMMA PartsOfInstrs ==
  ASSUME TaggedOK
  PROVE  /\ Len(instrs) \in Nat /\ DOMAIN instrs = 1 .. Len(instrs)
         /\ DOMAIN tagged = DOMAIN instrs
         /\ \A n \in DOMAIN instrs :
              /\ instrs[n].dest \subseteq Sym
              /\ \A k \in DOMAIN instrs[n].reads : instrs[n].reads[k] \in Sym \cup Pinned
              /\ tagged[n].dest \subseteq Tag
              /\ \A k \in DOMAIN tagged[n].reads : tagged[n].reads[k] \in Tag \cup Pinned
<1>1. /\ Len(instrs) \in Nat /\ DOMAIN instrs = 1 .. Len(instrs)
      /\ DOMAIN tagged = DOMAIN instrs
      /\ \A n \in DOMAIN instrs : instrs[n] \in Instruction /\ tagged[n] \in TaggedInstruction
  BY LenProperties, ElementOfSeq DEF TaggedOK
<1>2. ASSUME NEW n \in DOMAIN instrs
      PROVE  /\ instrs[n].dest \subseteq Sym
             /\ \A k \in DOMAIN instrs[n].reads : instrs[n].reads[k] \in Sym \cup Pinned
  <2>1. instrs[n].dest \subseteq Sym /\ instrs[n].reads \in Seq(Sym \cup Pinned)
    BY <1>1, InstructionAssumption
  <2> QED
    BY <2>1, LenProperties, ElementOfSeq
<1>3. ASSUME NEW n \in DOMAIN instrs
      PROVE  /\ tagged[n].dest \subseteq Tag
             /\ \A k \in DOMAIN tagged[n].reads : tagged[n].reads[k] \in Tag \cup Pinned
  <2>1. tagged[n].dest \subseteq Tag /\ tagged[n].reads \in Seq(Tag \cup Pinned)
    BY <1>1 DEF TaggedInstruction
  <2> QED
    BY <2>1, LenProperties, ElementOfSeq
<1> QED
  BY <1>1, <1>2, <1>3

\* A value has one last writer, and that is an earlier instruction.
LEMMA OneWriter ==
  ASSUME TaggedOK, NEW n \in DOMAIN instrs, NEW s, NEW m \in LastWriter(n, s)
  PROVE  /\ m \in DOMAIN instrs /\ m < n /\ s \in instrs[m].dest
         /\ \A l \in LastWriter(n, s) : l = m
<1>1. m \in 1 .. n - 1 /\ n \in 1 .. Len(instrs) /\ Len(instrs) \in Nat /\ s \in instrs[m].dest
  BY PartsOfInstrs DEF LastWriter
<1>2. \A l \in LastWriter(n, s) : l \in 1 .. n - 1 /\ l <= m /\ m <= l
  BY DEF LastWriter
<1> QED
  BY <1>1, <1>2, PartsOfInstrs

\* An operand over tags, and the instruction it comes from.
LEMMA WhereFrom ==
  ASSUME TaggedOK, NEW m \in DOMAIN instrs, NEW n \in DOMAIN instrs
  PROVE  Feeds(m, n) <=> \E t \in Range(tagged[n].reads) : t \in tagged[m].dest
<1>1. ASSUME NEW s \in Range(instrs[n].reads), m \in LastWriter(n, s)
      PROVE  \E t \in Range(tagged[n].reads) : t \in tagged[m].dest
  <2>1. PICK k \in DOMAIN instrs[n].reads : instrs[n].reads[k] = s
    BY DEF Range
  <2>2. s \in instrs[m].dest /\ s \notin Pinned
    BY <1>1, OneWriter, PartsOfInstrs, InstructionAssumption
  <2>3. PICK l \in LastWriter(n, s) : tagged[n].reads[k] \in tagged[l].dest
    BY <2>1, <2>2 DEF TaggedOK, Renames
  <2>4. l = m
    BY <2>3, <1>1, OneWriter
  <2>5. k \in DOMAIN tagged[n].reads
    BY DEF TaggedOK
  <2> QED
    BY <2>3, <2>4, <2>5 DEF Range
<1>2. ASSUME NEW t \in Range(tagged[n].reads), t \in tagged[m].dest
      PROVE  Feeds(m, n)
  <2>1. PICK k \in DOMAIN tagged[n].reads : tagged[n].reads[k] = t
    BY DEF Range
  <2>2. k \in DOMAIN instrs[n].reads /\ Renames(n, k)
    BY <2>1 DEF TaggedOK
  <2>3. t \notin Pinned
    BY <1>2, PartsOfInstrs, InstructionAssumption
  <2>4. PICK l \in LastWriter(n, instrs[n].reads[k]) : t \in tagged[l].dest
    BY <2>1, <2>2, <2>3 DEF Renames
  <2>5. l \in DOMAIN instrs
    BY OneWriter
  <2>6. l = m
    BY <2>4, <2>5, <1>2, PartsOfInstrs DEF TaggedOK, TagsApart
  <2> QED
    BY <2>2, <2>4, <2>6 DEF Feeds, Range
<1> QED
  BY <1>1, <1>2 DEF Feeds

-----------------------------------------------------------------------------
\* A program without instructions.
LEMMA FrontStart ==
  ASSUME FrontInit
  PROVE  FrontInv
<1>1. /\ <<>> \in Seq(Instruction) /\ <<>> \in Seq(TaggedInstruction)
      /\ Len(<<>>) = 0 /\ DOMAIN <<>> = {}
  BY EmptySeq
<1>2. IsFiniteSet({}) /\ Cardinality({}) = 0
  BY FS_EmptySet
<1>3. TaggedOK
  BY <1>1 DEF FrontInit, TaggedOK, TagsApart
<1>4. TagOK
  BY <1>1, <1>2 DEF FrontInit, TagOK, CurrentOK, CounterOK, AllCounted, Counts
<1> QED
  BY <1>3, <1>4 DEF FrontInit, FrontInv

\* The reads of one more instruction are counted.
LEMMA OneMore ==
  ASSUME NEW list, NEW S, NEW n, n \notin S, NEW t, IsFiniteSet(ReadersOf(list, S, t)),
         IsFiniteSet(DOMAIN list[n].reads)
  PROVE  /\ IsFiniteSet(ReadersOf(list, S \cup {n}, t))
         /\ Cardinality(ReadersOf(list, S \cup {n}, t))
              = Cardinality(ReadersOf(list, S, t)) + Occurrences(t, list[n].reads)
         /\ Cardinality(ReadersOf(list, S, t)) \in Nat
         /\ Occurrences(t, list[n].reads) \in Nat
         /\ t \notin Range(list[n].reads) => Occurrences(t, list[n].reads) = 0
<1> DEFINE K == { k \in DOMAIN list[n].reads : list[n].reads[k] = t }
           A == ReadersOf(list, S, t)
           B == {n} \X K
<1>1. ReadersOf(list, S \cup {n}, t) = A \cup B
  BY DEF ReadersOf
<1>2. A \cap B = {}
  BY DEF ReadersOf
<1>3. /\ IsFiniteSet(K) /\ Cardinality(K) \in Nat
      /\ Cardinality(A) \in Nat
  BY FS_Subset, FS_CardinalityType
<1>4. IsFiniteSet({n}) /\ Cardinality({n}) = 1
  BY FS_Singleton
<1>5. IsFiniteSet(B) /\ Cardinality(B) = Cardinality(K)
  <2> HIDE DEF K
  <2>1. IsFiniteSet(B) /\ Cardinality(B) = Cardinality({n}) * Cardinality(K)
    BY <1>3, <1>4, FS_Product
  <2>2. 1 * Cardinality(K) = Cardinality(K)
    BY <1>3
  <2> QED
    BY <2>1, <2>2, <1>4
<1>6. Cardinality(A \cap B) = 0
  BY <1>2, FS_EmptySet
<1>10. IsFiniteSet(A)
  OBVIOUS
<1> HIDE DEF A, B, K
<1>7. IsFiniteSet(A \cup B) /\ Cardinality(A \cup B) = Cardinality(A) + Cardinality(K)
  <2>1. /\ IsFiniteSet(A \cup B)
        /\ Cardinality(A \cup B) = Cardinality(A) + Cardinality(B) - Cardinality(A \cap B)
    BY <1>5, <1>10, FS_Union
  <2> QED
    BY <2>1, <1>3, <1>5, <1>6
<1>8. Occurrences(t, list[n].reads) = Cardinality(K)
  BY DEF Occurrences, K
<1>9. t \notin Range(list[n].reads) => Cardinality(K) = 0
  <2>1. t \notin Range(list[n].reads) => K = {}
    BY DEF Range, K
  <2> QED
    BY <2>1, FS_EmptySet
<1> QED
  BY <1>1, <1>3, <1>7, <1>8, <1>9 DEF A

\* A turn of counting counts one more instruction.
LEMMA CountStep ==
  ASSUME NEW f, NEW list, NEW S, NEW n, n \notin S, Counts(f, list, S),
         IsFiniteSet(DOMAIN list[n].reads)
  PROVE  /\ DOMAIN CountReads(f, list[n].reads) = DOMAIN f \cup (Range(list[n].reads) \ Pinned)
         /\ Counts(CountReads(f, list[n].reads), list, S \cup {n})
<1> DEFINE counts == CountReads(f, list[n].reads)
<1>1. DOMAIN counts = DOMAIN f \cup (Range(list[n].reads) \ Pinned)
  BY DEF CountReads
<1>2. \A t \in DOMAIN counts :
        counts[t] = (IF t \in DOMAIN f THEN f[t] ELSE 0) + Occurrences(t, list[n].reads)
  BY <1>1 DEF CountReads
<1> HIDE DEF counts
<1>3. DOMAIN counts \cap Pinned = {}
  BY <1>1 DEF Counts
<1>4. ASSUME NEW t \in DOMAIN counts
      PROVE  /\ IsFiniteSet(ReadersOf(list, S \cup {n}, t))
             /\ counts[t] = Cardinality(ReadersOf(list, S \cup {n}, t))
  <2>1. /\ IsFiniteSet(ReadersOf(list, S, t))
        /\ (IF t \in DOMAIN f THEN f[t] ELSE 0) = Cardinality(ReadersOf(list, S, t))
    <3>1. CASE t \in DOMAIN f
      BY <3>1 DEF Counts
    <3>2. CASE t \notin DOMAIN f
      <4>1. ReadersOf(list, S, t) = {}
        BY <1>3, <3>2 DEF Counts, ReadersOf, Range
      <4> QED
        BY <3>2, <4>1, FS_EmptySet
    <3> QED
      BY <3>1, <3>2
  <2> QED
    BY <2>1, <1>2, OneMore
<1>5. \A m \in S \cup {n} : Range(list[m].reads) \ Pinned \subseteq DOMAIN counts
  BY <1>1 DEF Counts
<1>6. Counts(counts, list, S \cup {n})
  BY <1>3, <1>4, <1>5 DEF Counts
<1> QED
  BY <1>1, <1>6 DEF counts

\* What an instruction makes over tags: the tag of its result, if it has one,
\* is new.
LEMMA MadeTag ==
  ASSUME CounterOK, NEW i \in Instruction
  PROVE  LET made == [s \in i.dest |-> Fresh(s)]
         IN  /\ Range(made) \subseteq Tag
             /\ Range(made) \cap DOMAIN readCount = {}
             /\ \A t, u \in Range(made) : t = u
             /\ i.engine \in {"store", "debug"} => Range(made) = {}
             /\ IsFiniteSet(DOMAIN readCount \cup Range(made))
             /\ \A t \in DOMAIN readCount \cup Range(made) :
                  t.n < Cardinality(DOMAIN readCount \cup Range(made))
<1> DEFINE made == [s \in i.dest |-> Fresh(s)]
           D == DOMAIN readCount
<1>1. IsFiniteSet(D) /\ Cardinality(D) \in Nat
  BY FS_CardinalityType DEF CounterOK
<1>2. \A s \in i.dest : Fresh(s) \in Tag /\ Fresh(s).n = Cardinality(D)
  BY <1>1, InstructionAssumption DEF Fresh, Tag
<1>3. \A t \in D : t \in Tag /\ t.n \in Nat /\ t.n < Cardinality(D)
  BY DEF CounterOK, Tag
<1>4. \A t \in Range(made) : \E s \in i.dest : t = Fresh(s)
  BY DEF Range
<1>5. Range(made) \cap D = {}
  BY <1>1, <1>2, <1>3, <1>4
<1>8. i.engine \in {"store", "debug"} => Range(made) = {}
  BY <1>4, InstructionAssumption
<1>6. CASE i.dest = {}
  <2>1. Range(made) = {} /\ D \cup Range(made) = D
    BY <1>4, <1>6
  <2> QED
    BY <2>1, <1>1, <1>3, <1>8
<1>7. CASE i.dest # {}
  <2>1. PICK s \in i.dest : \A r \in i.dest : r = s
    BY <1>7, InstructionAssumption
  <2>2. Range(made) = {Fresh(s)}
    BY <2>1 DEF Range
  <2>3. Fresh(s) \notin D
    BY <1>5, <2>2
  <2>4. /\ IsFiniteSet(D \cup {Fresh(s)})
        /\ Cardinality(D \cup {Fresh(s)}) = Cardinality(D) + 1
    BY <1>1, <2>3, FS_AddElement
  <2>5. \A t \in D \cup {Fresh(s)} : t.n < Cardinality(D) + 1
    BY <1>1, <1>2, <1>3, <2>1
  <2> QED
    BY <1>2, <1>4, <1>5, <1>8, <2>2, <2>4, <2>5
<1> QED
  BY <1>6, <1>7

\* One turn of tag_raw_chains.
LEMMA TagStep ==
  ASSUME FrontInv, NEW i \in Instruction, TagInstr(i)
  PROVE  FrontInv'
<1>0. PICK N \in Nat : N = Len(instrs)
  BY PartsOfInstrs DEF FrontInv
<1> DEFINE operands == Resolve(i)
           made == [s \in i.dest |-> Fresh(s)]
           new == [engine |-> i.engine, dest |-> Range(made), reads |-> operands]
<1>1. /\ at = "tag" /\ TaggedOK /\ TagOK /\ Len(instrs) = N /\ Len(tagged) = N
      /\ instrs \in Seq(Instruction) /\ tagged \in Seq(TaggedInstruction)
      /\ DOMAIN instrs = 1 .. N /\ DOMAIN tagged = 1 .. N
  BY <1>0, PartsOfInstrs DEF FrontInv, TagInstr, TaggedOK
<1>2. /\ i.reads \in Seq(Sym \cup Pinned) /\ i.dest \subseteq Sym
      /\ Len(i.reads) \in Nat /\ DOMAIN i.reads = 1 .. Len(i.reads)
      /\ \A k \in DOMAIN i.reads : i.reads[k] \in Sym \cup Pinned
  BY InstructionAssumption, LenProperties, ElementOfSeq
<1>3. \A k \in DOMAIN i.reads : i.reads[k] \notin Pinned => i.reads[k] \in DOMAIN current
  BY DEF TagInstr, Range
<1>4. /\ DOMAIN operands = DOMAIN i.reads
      /\ \A k \in DOMAIN i.reads :
           operands[k] = IF i.reads[k] \in Pinned THEN i.reads[k] ELSE current[i.reads[k]]
  BY DEF Resolve
<1>5. \A s \in DOMAIN current : current[s] \in Tag
  BY <1>1, PartsOfInstrs DEF TagOK, CurrentOK
<1>6. operands \in Seq(Tag \cup Pinned)
  <2>1. \A k \in 1 .. Len(i.reads) : operands[k] \in Tag \cup Pinned
    BY <1>2, <1>3, <1>4, <1>5
  <2>2. operands = [k \in 1 .. Len(i.reads) |-> operands[k]]
    BY <1>2 DEF Resolve
  <2> QED
    <3> DEFINE n == Len(i.reads)
    <3>1. n \in Nat /\ operands = [k \in 1 .. n |-> operands[k]]
      BY <1>2, <2>2
    <3>2. \A k \in 1 .. n : operands[k] \in Tag \cup Pinned
      BY <2>1
    <3> HIDE DEF n, operands
    <3> QED
      BY <3>1, <3>2, IsASeq
<1>7. /\ Range(made) \subseteq Tag /\ Range(made) \cap DOMAIN readCount = {}
      /\ \A t, u \in Range(made) : t = u
      /\ i.engine \in {"store", "debug"} => Range(made) = {}
      /\ IsFiniteSet(DOMAIN readCount \cup Range(made))
      /\ \A t \in DOMAIN readCount \cup Range(made) :
           t \in Tag /\ t.n < Cardinality(DOMAIN readCount \cup Range(made))
  BY <1>1, MadeTag DEF TagOK, CounterOK
<1>8. new \in TaggedInstruction
  BY <1>6, <1>7 DEF TaggedInstruction
<1>9. /\ instrs' = Append(instrs, i) /\ tagged' = Append(tagged, new)
      /\ current' = Extend(current, made)
      /\ readCount' = Extend(CountReads(readCount, operands), [t \in Range(made) |-> 0])
      /\ UNCHANGED <<prune, at, writer, edges, useful, work, kept, nodes, nodeEdges>>
  BY DEF TagInstr
<1>21. \A k \in DOMAIN operands : operands[k] \in DOMAIN readCount \cup Pinned
  BY <1>1, <1>3, <1>4 DEF TagOK, CurrentOK, AllCounted
<1>22. DOMAIN readCount' = DOMAIN readCount \cup Range(made)
  <2>1. Range(operands) \ Pinned \subseteq DOMAIN readCount
    BY <1>21 DEF Range
  <2> QED
    BY <2>1, <1>9 DEF Extend, CountReads
<1>10. /\ new.engine = i.engine /\ new.dest = Range(made) /\ new.reads = operands
       /\ \A s \in i.dest : made[s] \in Range(made)
  BY DEF Range
<1> HIDE DEF operands, made, new
<1>11. /\ instrs' \in Seq(Instruction) /\ Len(instrs') = N + 1 /\ DOMAIN instrs' = 1 .. N + 1
       /\ \A n \in 1 .. N : instrs'[n] = instrs[n]
       /\ instrs'[N + 1] = i
  BY <1>1, <1>9, AppendProperties, LenProperties
<1>12. /\ tagged' \in Seq(TaggedInstruction) /\ Len(tagged') = N + 1 /\ DOMAIN tagged' = 1 .. N + 1
       /\ \A n \in 1 .. N : tagged'[n] = tagged[n]
       /\ tagged'[N + 1] = new
  BY <1>1, <1>8, <1>9, AppendProperties, LenProperties
<1>13. \A n \in 1 .. N : new.dest \cap tagged[n].dest = {}
  BY <1>1, <1>7, <1>10 DEF TagOK, CounterOK
<1>14. TagsApart'
  BY <1>1, <1>12, <1>13 DEF TagsApart, TaggedOK
<1>15. \A n \in 1 .. N : \A s : LastWriter(n, s)' = LastWriter(n, s)
  <2> SUFFICES ASSUME NEW n \in 1 .. N, NEW s PROVE LastWriter(n, s)' = LastWriter(n, s)
    OBVIOUS
  <2>1. \A m \in 1 .. n - 1 : m \in 1 .. N
    BY <1>1
  <2>2. \A m \in 1 .. n - 1 : instrs'[m].dest = instrs[m].dest
    BY <1>11, <2>1
  <2>3. { m \in 1 .. n - 1 : s \in instrs'[m].dest } = { m \in 1 .. n - 1 : s \in instrs[m].dest }
    BY <2>2
  <2> QED
    BY <2>3 DEF LastWriter
<1>16. ASSUME NEW n \in 1 .. N, NEW k \in DOMAIN instrs[n].reads
       PROVE  Renames(n, k)'
  <2>1. Renames(n, k) /\ instrs'[n] = instrs[n] /\ tagged'[n] = tagged[n]
    BY <1>1, <1>11, <1>12 DEF TaggedOK
  <2>2. CASE instrs[n].reads[k] \in Pinned /\ tagged[n].reads[k] = instrs[n].reads[k]
    BY <2>1, <2>2 DEF Renames
  <2>3. CASE \E m \in LastWriter(n, instrs[n].reads[k]) : tagged[n].reads[k] \in tagged[m].dest
    <3>0. PICK s : s = instrs[n].reads[k]
      OBVIOUS
    <3>1. PICK m \in LastWriter(n, s) : tagged[n].reads[k] \in tagged[m].dest
      BY <2>3, <3>0
    <3>2. m \in 1 .. N /\ tagged'[m] = tagged[m]
      BY <1>1, <1>12, OneWriter
    <3>3. m \in LastWriter(n, s)'
      BY <1>15
    <3> QED
      BY <2>1, <3>0, <3>1, <3>2, <3>3 DEF Renames
  <2> QED
    BY <2>1, <2>2, <2>3 DEF Renames
<1>17. ASSUME NEW k \in DOMAIN i.reads
       PROVE  Renames(N + 1, k)'
  <2>1. CASE i.reads[k] \in Pinned
    BY <2>1, <1>4, <1>10, <1>11, <1>12 DEF Renames
  <2>2. CASE i.reads[k] \notin Pinned
    <3>0. PICK s : s = i.reads[k]
      OBVIOUS
    <3>1. s \in DOMAIN current /\ operands[k] = current[s]
      BY <2>2, <3>0, <1>3, <1>4
    <3>2. PICK m \in DOMAIN instrs : /\ s \in instrs[m].dest /\ current[s] \in tagged[m].dest
                                     /\ \A l \in DOMAIN instrs : s \in instrs[l].dest => l <= m
      BY <3>1, <1>1 DEF TagOK, CurrentOK
    <3>3. m \in LastWriter(N + 1, s)'
      BY <3>2, <1>1, <1>11 DEF LastWriter
    <3>4. operands[k] \in tagged'[m].dest
      BY <3>1, <3>2, <1>1, <1>12
    <3> QED
      BY <3>0, <3>3, <3>4, <1>10, <1>11, <1>12 DEF Renames
  <2> QED
    BY <2>1, <2>2
<1>18. TaggedOK'
  <2>1. ASSUME NEW n \in 1 .. N + 1
        PROVE  /\ tagged'[n].engine = instrs'[n].engine
               /\ DOMAIN tagged'[n].reads = DOMAIN instrs'[n].reads
               /\ \A k \in DOMAIN instrs'[n].reads : Renames(n, k)'
               /\ \A t, u \in tagged'[n].dest : t = u
               /\ tagged'[n].engine \in {"store", "debug"} => tagged'[n].dest = {}
    <3>1. CASE n \in 1 .. N
      BY <3>1, <1>1, <1>11, <1>12, <1>16 DEF TaggedOK
    <3>2. CASE n = N + 1
      BY <3>2, <1>4, <1>7, <1>10, <1>11, <1>12, <1>17
    <3> QED
      BY <3>1, <3>2, <1>1
  <2> QED
    BY <2>1, <1>11, <1>12, <1>14 DEF TaggedOK
<1>19. CurrentOK'
  <2> SUFFICES ASSUME NEW s \in DOMAIN current'
               PROVE  \E m \in 1 .. N + 1 :
                        /\ s \in instrs'[m].dest /\ current'[s] \in tagged'[m].dest
                        /\ \A l \in 1 .. N + 1 : s \in instrs'[l].dest => l <= m
    BY <1>11 DEF CurrentOK
  <2>1. DOMAIN made = i.dest
    BY DEF made
  <2>2. CASE s \in i.dest
    <3>1. current'[s] = made[s]
      BY <2>1, <2>2, <1>9 DEF Extend
    <3>2. s \in instrs'[N + 1].dest /\ current'[s] \in tagged'[N + 1].dest
      BY <3>1, <2>2, <1>10, <1>11, <1>12
    <3>3. \A l \in 1 .. N + 1 : l <= N + 1
      BY <1>1
    <3>4. N + 1 \in 1 .. N + 1
      BY <1>1
    <3> QED
      BY <3>2, <3>3, <3>4
  <2>3. CASE s \notin i.dest
    <3>1. s \in DOMAIN current /\ current'[s] = current[s]
      BY <2>1, <2>3, <1>9 DEF Extend
    <3>2. PICK m \in 1 .. N : /\ s \in instrs[m].dest /\ current[s] \in tagged[m].dest
                              /\ \A l \in 1 .. N : s \in instrs[l].dest => l <= m
      BY <3>1, <1>1 DEF TagOK, CurrentOK
    <3>3. s \in instrs'[m].dest /\ current'[s] \in tagged'[m].dest
      BY <3>1, <3>2, <1>11, <1>12
    <3>4. ASSUME NEW l \in 1 .. N + 1, s \in instrs'[l].dest
          PROVE  l <= m
      <4>1. l # N + 1
        BY <3>4, <2>3, <1>11
      <4>2. l \in 1 .. N
        BY <4>1, <1>1
      <4> QED
        BY <4>2, <3>2, <3>4, <1>11
    <3>5. m \in 1 .. N + 1
      BY <1>1
    <3> QED
      BY <3>3, <3>4, <3>5
  <2> QED
    BY <2>2, <2>3
<1>20. CounterOK'
  <2>1. \A n \in 1 .. N + 1 : tagged'[n].dest \subseteq DOMAIN readCount'
    <3>1. \A n \in 1 .. N : tagged'[n].dest \subseteq DOMAIN readCount'
      BY <1>1, <1>12, <1>22 DEF TagOK, CounterOK
    <3>2. tagged'[N + 1].dest \subseteq DOMAIN readCount'
      BY <1>10, <1>12, <1>22
    <3> QED
      BY <3>1, <3>2, <1>1
  <2> QED
    BY <2>1, <1>7, <1>12, <1>22 DEF CounterOK
<1>23. AllCounted'
  <2> DEFINE D == DOMAIN readCount
             R == Range(operands)
             Made == Range(made)
             counts == CountReads(readCount, operands)
  <2>1. R \ Pinned \subseteq D
    BY <1>21 DEF Range
  <2>2. IsFiniteSet(DOMAIN operands)
    BY <1>2, <1>4, FS_Interval
  <2>3. Counts(readCount, tagged, 1 .. N)
    BY <1>1 DEF TagOK, AllCounted
  <2>4. Counts(readCount, tagged', 1 .. N)
    <3>1. \A t : ReadersOf(tagged', 1 .. N, t) = ReadersOf(tagged, 1 .. N, t)
      BY <1>12 DEF ReadersOf
    <3> QED
      BY <2>3, <3>1, <1>12 DEF Counts
  <2>5. N + 1 \notin 1 .. N /\ (1 .. N) \cup {N + 1} = 1 .. N + 1
    OBVIOUS
  <2>6. tagged'[N + 1].reads = operands
    BY <1>10, <1>12
  <2>7. /\ DOMAIN counts = D
        /\ \A t \in D : /\ IsFiniteSet(ReadersOf(tagged', 1 .. N + 1, t))
                        /\ counts[t] = Cardinality(ReadersOf(tagged', 1 .. N + 1, t))
    <3>1. PICK list : list = tagged'
      OBVIOUS
    <3>2. /\ Counts(readCount, list, 1 .. N) /\ N + 1 \notin 1 .. N
          /\ list[N + 1].reads = operands /\ IsFiniteSet(DOMAIN list[N + 1].reads)
      BY <2>2, <2>4, <2>5, <2>6, <3>1
    <3>3. /\ DOMAIN CountReads(readCount, operands) = D \cup (R \ Pinned)
          /\ Counts(CountReads(readCount, operands), list, (1 .. N) \cup {N + 1})
      <4>1. /\ DOMAIN CountReads(readCount, list[N + 1].reads)
                 = DOMAIN readCount \cup (Range(list[N + 1].reads) \ Pinned)
            /\ Counts(CountReads(readCount, list[N + 1].reads), list, (1 .. N) \cup {N + 1})
        BY <3>2, CountStep
      <4> QED
        BY <4>1, <3>2
    <3>4. D \cup (R \ Pinned) = D
      BY <2>1
    <3> HIDE DEF R, D, counts
    <3> QED
      BY <2>5, <3>1, <3>3, <3>4 DEF Counts, counts
  <2>8. D \cap Pinned = {} /\ Made \cap Pinned = {}
    BY <1>1, <1>7, InstructionAssumption DEF TagOK, CounterOK
  <2>9. ASSUME NEW t \in Made
        PROVE  ReadersOf(tagged', 1 .. N + 1, t) = {}
    <3>1. t \notin D /\ t \notin Pinned
      BY <1>7, InstructionAssumption
    <3>2. \A n \in 1 .. N : t \notin Range(tagged'[n].reads)
      BY <3>1, <2>3, <1>12 DEF Counts
    <3>3. t \notin Range(tagged'[N + 1].reads)
      BY <3>1, <2>1, <2>6
    <3>4. \A n \in 1 .. N + 1 : t \notin Range(tagged'[n].reads)
      BY <3>2, <3>3, <2>5
    <3> QED
      BY <3>4 DEF ReadersOf, Range
  <2>10. \A t \in D \cup Made : /\ IsFiniteSet(ReadersOf(tagged', 1 .. N + 1, t))
                                /\ readCount'[t] = Cardinality(ReadersOf(tagged', 1 .. N + 1, t))
    <3>1. \A t \in Made : readCount'[t] = 0
      BY <1>9 DEF Extend
    <3>2. \A t \in D : readCount'[t] = counts[t]
      BY <1>7, <1>9, <2>7 DEF Extend
    <3> HIDE DEF D, Made, counts
    <3> QED
      BY <3>1, <3>2, <2>7, <2>9, FS_EmptySet
  <2>11. \A n \in 1 .. N + 1 : Range(tagged'[n].reads) \ Pinned \subseteq D \cup Made
    <3>1. \A n \in 1 .. N : Range(tagged'[n].reads) \ Pinned \subseteq D
      BY <2>4 DEF Counts
    <3> QED
      BY <3>1, <2>1, <2>5, <2>6
  <2> HIDE DEF D, Made
  <2>12. DOMAIN readCount' = D \cup Made /\ DOMAIN tagged' = 1 .. N + 1
    BY <1>12, <1>22 DEF D, Made
  <2>13. \A n \in 1 .. N + 1 : tagged'[n].dest \subseteq DOMAIN readCount'
    BY <1>20, <1>12 DEF CounterOK
  <2> QED
    BY <2>8, <2>10, <2>11, <2>12, <2>13 DEF AllCounted, Counts
<1> QED
  BY <1>1, <1>9, <1>18, <1>19, <1>20, <1>23 DEF FrontInv, TagOK

-----------------------------------------------------------------------------
\* After tagging, the program and its data flow stay as they are.
LEMMA ProgramStays ==
  ASSUME TaggedOK, UNCHANGED <<instrs, tagged>>
  PROVE  /\ TaggedOK' /\ DataFlow' = DataFlow /\ StoreNodes' = StoreNodes
         /\ DependsOn(StoreNodes)' = DependsOn(StoreNodes)
         /\ \A T : Closed(T)' = Closed(T)
<1>1. \A n, s : LastWriter(n, s)' = LastWriter(n, s)
  BY DEF LastWriter
<1>2. TaggedOK'
  BY <1>1 DEF TaggedOK, Renames, TagsApart
<1>3. DataFlow' = DataFlow /\ StoreNodes' = StoreNodes
  BY <1>1 DEF DataFlow, Feeds, StoreNodes
<1> QED
  BY <1>2, <1>3 DEF DependsOn, Closed

\* An edge of the data flow goes forward.
LEMMA FlowForward ==
  ASSUME TaggedOK, NEW e \in DataFlow
  PROVE  /\ e[1] \in DOMAIN instrs /\ e[2] \in DOMAIN instrs /\ e[1] < e[2]
         /\ e = <<e[1], e[2]>> /\ Feeds(e[1], e[2])
<1>1. e[1] \in DOMAIN instrs /\ e[2] \in DOMAIN instrs /\ Feeds(e[1], e[2]) /\ e = <<e[1], e[2]>>
  BY DEF DataFlow
<1> QED
  BY <1>1, OneWriter DEF Feeds

\* Tagging is done: no node has been made.
LEMMA BuildStart ==
  ASSUME FrontInv, TaggingDone
  PROVE  FrontInv'
<1>1. /\ TaggedOK /\ TagOK /\ at' = "build"
      /\ UNCHANGED <<instrs, tagged, readCount, kept, writer, edges>>
  BY DEF FrontInv, TaggingDone
<1>2. /\ <<>> \in Seq(Nat) /\ Len(<<>>) = 0 /\ DOMAIN <<>> = {}
  BY EmptySeq
<1>3. Len(tagged) \in Nat
  BY <1>1, PartsOfInstrs DEF TaggedOK
<1>4. TaggedOK' /\ DataFlow' = DataFlow
  BY <1>1, ProgramStays
<1>5. /\ kept' = <<>> /\ writer' = <<>> /\ edges' = {} /\ Len(tagged)' = Len(tagged)
  BY <1>1 DEF TagOK
<1>6. BuildOK'
  BY <1>2, <1>3, <1>4, <1>5 DEF BuildOK
<1>7. AllCounted'
  BY <1>1 DEF TagOK, AllCounted, Counts
<1> QED
  BY <1>1, <1>4, <1>6, <1>7 DEF FrontInv

\* One turn of build_dag: the edges into the new node are the data flow into
\* it.
LEMMA BuildStep ==
  ASSUME FrontInv, BuildNode
  PROVE  FrontInv'
<1>1. /\ at = "build" /\ TaggedOK /\ BuildOK /\ AllCounted
      /\ UNCHANGED <<prune, at, instrs, tagged, readCount, useful, work, nodes, nodeEdges>>
  BY DEF FrontInv, BuildNode
<1>2. PICK n \in Nat \ {0} : n = Len(kept) + 1
  BY <1>1, LenProperties DEF BuildOK
<1>3. /\ n \in DOMAIN instrs /\ DOMAIN kept = 1 .. n - 1 /\ kept \in Seq(Nat)
      /\ Len(tagged) \in Nat /\ n <= Len(tagged)
  BY <1>1, <1>2, PartsOfInstrs, LenProperties DEF BuildOK, BuildNode, TaggedOK
<1>4. /\ edges' = edges \cup { <<writer[t], n>> : t \in Range(tagged[n].reads) \cap DOMAIN writer }
      /\ writer' = Extend(writer, [t \in tagged[n].dest |-> n])
      /\ kept' = Append(kept, n)
  BY <1>2 DEF BuildNode
<1>5. /\ kept' \in Seq(Nat) /\ Len(kept') = n /\ DOMAIN kept' = 1 .. n
      /\ \A k \in 1 .. n - 1 : kept'[k] = kept[k]
      /\ kept'[n] = n
  BY <1>2, <1>3, <1>4, AppendProperties, LenProperties
<1>6. \A k \in 1 .. n : kept'[k] = k
  <2>1. \A k \in 1 .. n - 1 : kept'[k] = k
    BY <1>1, <1>3, <1>5 DEF BuildOK
  <2> QED
    BY <2>1, <1>5
<1>7. TaggedOK' /\ DataFlow' = DataFlow
  BY <1>1, ProgramStays
<1>8. /\ DOMAIN writer' = DOMAIN writer \cup tagged[n].dest
      /\ \A t \in tagged[n].dest : writer'[t] = n
      /\ \A t \in DOMAIN writer \ tagged[n].dest : writer'[t] = writer[t]
  BY <1>4 DEF Extend
<1>9. \A t \in DOMAIN writer' : writer'[t] \in 1 .. n /\ t \in tagged[writer'[t]].dest
  <2>1. \A t \in DOMAIN writer : writer[t] \in 1 .. n - 1 /\ t \in tagged[writer[t]].dest
    BY <1>1, <1>3 DEF BuildOK
  <2>2. n \in 1 .. n /\ \A m \in 1 .. n - 1 : m \in 1 .. n
    OBVIOUS
  <2> QED
    BY <2>1, <2>2, <1>8
<1>10. \A m \in 1 .. n : tagged[m].dest \subseteq DOMAIN writer'
  <2>1. \A m \in 1 .. n - 1 : tagged[m].dest \subseteq DOMAIN writer
    BY <1>1, <1>3 DEF BuildOK
  <2>2. \A m \in 1 .. n : m \in 1 .. n - 1 \/ m = n
    OBVIOUS
  <2> QED
    BY <2>1, <2>2, <1>8
<1>11. \A t \in DOMAIN writer : \A m \in DOMAIN instrs : t \in tagged[m].dest => writer[t] = m
  <2>1. \A t \in DOMAIN writer : writer[t] \in DOMAIN instrs /\ t \in tagged[writer[t]].dest
    <3>1. \A m \in 1 .. n - 1 : m \in DOMAIN instrs
      BY <1>1, <1>3, PartsOfInstrs
    <3> QED
      BY <3>1, <1>1, <1>3 DEF BuildOK
  <2> QED
    BY <2>1, <1>1, PartsOfInstrs DEF TaggedOK, TagsApart
<1>12. ASSUME NEW m \in DOMAIN instrs, Feeds(m, n)
       PROVE  \E t \in Range(tagged[n].reads) \cap DOMAIN writer : writer[t] = m
  <2>1. PICK t \in Range(tagged[n].reads) : t \in tagged[m].dest
    BY <1>1, <1>3, <1>12, WhereFrom
  <2>2. m \in 1 .. n - 1
    BY <1>1, <1>3, <1>12, OneWriter, PartsOfInstrs DEF Feeds
  <2>3. t \in DOMAIN writer
    BY <2>1, <2>2, <1>1, <1>3 DEF BuildOK
  <2> QED
    BY <2>1, <2>3, <1>11
<1>13. ASSUME NEW t \in Range(tagged[n].reads) \cap DOMAIN writer
       PROVE  <<writer[t], n>> \in DataFlow
  <2>1. writer[t] \in DOMAIN instrs /\ t \in tagged[writer[t]].dest
    BY <1>1, <1>3, PartsOfInstrs DEF BuildOK
  <2>2. Feeds(writer[t], n)
    BY <2>1, <1>1, <1>3, WhereFrom
  <2> QED
    BY <2>1, <2>2, <1>3 DEF DataFlow
<1>14. edges = { e \in DataFlow : e[2] \in 1 .. n - 1 }
  BY <1>1, <1>3 DEF BuildOK
<1>15. \A e \in DataFlow : e[2] = n => e \in edges'
  <2> TAKE e \in DataFlow
  <2> HAVE e[2] = n
  <2>1. e[1] \in DOMAIN instrs /\ Feeds(e[1], n) /\ e = <<e[1], n>>
    BY <1>1, FlowForward
  <2>2. PICK t \in Range(tagged[n].reads) \cap DOMAIN writer : writer[t] = e[1]
    BY <2>1, <1>12
  <2> QED
    BY <2>1, <2>2, <1>4
<1>16. edges' = { e \in DataFlow : e[2] \in 1 .. n }
  <2>1. ASSUME NEW e \in edges'
        PROVE  e \in DataFlow /\ e[2] \in 1 .. n
    <3>1. CASE e \in edges
      BY <3>1, <1>14
    <3>2. CASE e \in { <<writer[t], n>> : t \in Range(tagged[n].reads) \cap DOMAIN writer }
      <4>1. e \in DataFlow /\ e[2] = n
        BY <3>2, <1>13
      <4> QED
        BY <4>1
    <3> QED
      BY <3>1, <3>2, <1>4
  <2>2. ASSUME NEW e \in DataFlow, e[2] \in 1 .. n
        PROVE  e \in edges'
    <3>1. CASE e[2] = n
      BY <3>1, <1>15
    <3>2. CASE e[2] # n
      <4>1. e[2] \in 1 .. n - 1
        BY <2>2, <3>2
      <4> QED
        BY <4>1, <1>4, <1>14
    <3> QED
      BY <3>1, <3>2
  <2> QED
    BY <2>1, <2>2
<1>17. BuildOK'
  BY <1>1, <1>3, <1>5, <1>6, <1>7, <1>9, <1>10, <1>16 DEF BuildOK
<1>18. AllCounted'
  BY <1>1 DEF AllCounted, Counts
<1> QED
  BY <1>1, <1>7, <1>17, <1>18 DEF FrontInv

\* The graph is built; it is used as it is, or the walk starts at the stores.
LEMMA BuiltStep ==
  ASSUME FrontInv, GraphBuilt
  PROVE  FrontInv'
<1>1. /\ at = "build" /\ TaggedOK /\ BuildOK /\ AllCounted /\ Len(kept) = Len(tagged)
      /\ UNCHANGED <<prune, instrs, tagged, readCount, kept, edges>>
  BY DEF FrontInv, GraphBuilt
<1>2. /\ DOMAIN kept = DOMAIN instrs /\ DOMAIN tagged = DOMAIN instrs
      /\ \A n \in DOMAIN instrs : kept[n] = n /\ n \in Nat
  BY <1>1, PartsOfInstrs, LenProperties DEF BuildOK, TaggedOK
<1>3. edges = DataFlow
  BY <1>1, <1>2, FlowForward DEF BuildOK
<1>4. /\ TaggedOK' /\ DataFlow' = DataFlow /\ StoreNodes' = StoreNodes
      /\ \A T : Closed(T)' = Closed(T)
  BY <1>1, ProgramStays
<1>5. CASE ~prune
  <2>1. at' = "allocate" /\ nodes' = tagged /\ nodeEdges' = edges
    BY <1>5 DEF GraphBuilt
  <2>2. kept \in Seq(DOMAIN instrs)
    <3>1. kept = [n \in 1 .. Len(instrs) |-> kept[n]] /\ Len(instrs) \in Nat
      BY <1>1, PartsOfInstrs, LenProperties, SeqDef DEF BuildOK, TaggedOK
    <3>2. \A n \in 1 .. Len(instrs) : kept[n] \in DOMAIN instrs
      BY <1>1, <1>2, PartsOfInstrs
    <3> QED
      BY <3>1, <3>2, IsASeq
  <2>3. Range(kept) = DOMAIN instrs
    BY <1>2 DEF Range
  <2>4. \A i, j \in DOMAIN kept : i < j => kept[i] < kept[j]
    BY <1>2
  <2>5. edges = { e \in (DOMAIN kept) \X (DOMAIN kept) : <<kept[e[1]], kept[e[2]]>> \in DataFlow }
    <3>1. \A e \in (DOMAIN kept) \X (DOMAIN kept) : <<kept[e[1]], kept[e[2]]>> = e
      BY <1>2
    <3>2. \A e \in DataFlow : e \in (DOMAIN kept) \X (DOMAIN kept)
      BY <1>2 DEF DataFlow
    <3> QED
      BY <3>1, <3>2, <1>3
  <2>6. \A n \in DOMAIN kept : tagged[n] = tagged[kept[n]]
    BY <1>2
  <2>7. FinalOK'
    BY <1>1, <1>2, <1>4, <1>5, <2>1, <2>2, <2>3, <2>4, <2>5, <2>6 DEF FinalOK
  <2>8. AllCounted'
    BY <1>1 DEF AllCounted, Counts
  <2> QED
    BY <1>1, <1>3, <1>4, <1>5, <2>1, <2>7, <2>8 DEF FrontInv
<1>6. CASE prune
  <2>1. StoreNodes = { n \in DOMAIN tagged : tagged[n].engine = "store" }
    BY <1>1, <1>2 DEF StoreNodes, TaggedOK
  <2>2. at' \in {"no_store", "walk"} /\ useful' = StoreNodes /\ work' = StoreNodes
    BY <1>6, <2>1 DEF GraphBuilt
  <2>3. StoreNodes \subseteq DOMAIN instrs
    BY DEF StoreNodes
  <2>4. WalkOK'
    BY <1>1, <1>4, <2>2, <2>3 DEF WalkOK, HasUse
  <2> QED
    BY <1>1, <1>3, <1>4, <1>6, <2>2, <2>4 DEF FrontInv
<1> QED
  BY <1>5, <1>6

-----------------------------------------------------------------------------
\* One turn of the walk: what a needed node reads is needed.
LEMMA WalkStep ==
  ASSUME FrontInv, NEW i \in DOMAIN tagged, WalkBack(i)
  PROVE  FrontInv'
<1> DEFINE found == { e[1] : e \in { f \in edges : f[2] = i } } \ useful
<1>1. /\ at = "walk" /\ prune /\ TaggedOK /\ WalkOK /\ edges = DataFlow /\ i \in work
      /\ useful' = useful \cup found /\ work' = (work \ {i}) \cup found
      /\ UNCHANGED <<prune, at, instrs, tagged, edges>>
  BY DEF FrontInv, WalkBack
<1>2. /\ TaggedOK' /\ DataFlow' = DataFlow /\ StoreNodes' = StoreNodes
      /\ \A T : Closed(T)' = Closed(T)
  BY <1>1, ProgramStays
<1>3. \A x \in found : x \in DOMAIN instrs /\ x \notin useful
                       /\ \E e \in DataFlow : e[2] = i /\ e[1] = x
  BY <1>1, FlowForward
<1>4. \A e \in DataFlow : e[2] = i => e[1] \in useful \/ e[1] \in found
  BY <1>1
<1> HIDE DEF found
<1>5. \A e \in DataFlow : e[2] \in useful' \ work' => e[1] \in useful'
  <2> TAKE e \in DataFlow
  <2> HAVE e[2] \in useful' \ work'
  <2>1. e[2] = i \/ e[2] \in useful \ work
    BY <1>1
  <2> QED
    BY <2>1, <1>1, <1>4 DEF WalkOK
<1>6. ASSUME NEW T \in SUBSET (DOMAIN instrs), StoreNodes \subseteq T, Closed(T)
      PROVE  useful' \subseteq T
  <2>1. useful \subseteq T /\ i \in T
    BY <1>1, <1>6 DEF WalkOK
  <2>2. found \subseteq T
    BY <1>3, <1>6, <2>1 DEF Closed
  <2> QED
    BY <2>1, <2>2, <1>1
<1>7. /\ StoreNodes \subseteq useful' /\ work' \subseteq useful' /\ useful' \subseteq DOMAIN instrs
  BY <1>1, <1>3 DEF WalkOK
<1>9. HasUse'
  <2> SUFFICES ASSUME NEW x \in useful'
               PROVE  x \in StoreNodes \/ \E e \in DataFlow : e[1] = x /\ e[2] \in useful'
    BY <1>2 DEF HasUse
  <2>1. CASE x \in useful
    BY <2>1, <1>1 DEF WalkOK, HasUse
  <2>2. CASE x \in found
    BY <2>2, <1>1, <1>3 DEF WalkOK
  <2> QED
    BY <2>1, <2>2, <1>1
<1>8. WalkOK'
  BY <1>1, <1>2, <1>5, <1>6, <1>7, <1>9 DEF WalkOK
<1> QED
  BY <1>1, <1>2, <1>8 DEF FrontInv

\* Numbering the members of a finite set in order is one to one.
LEMMA Numbered ==
  ASSUME IsFiniteSet(Keep), Keep \subseteq Nat
  PROVE  /\ Cardinality(Keep) \in Nat
         /\ \A i \in Keep : Remap(i) \in 1 .. Cardinality(Keep)
         /\ \A i, j \in Keep : i < j <=> Remap(i) < Remap(j)
         /\ \A k \in 1 .. Cardinality(Keep) : \E i \in Keep : Remap(i) = k
<1> DEFINE UpTo(i) == { j \in Keep : j <= i }
           N == Cardinality(Keep)
<1>1. N \in Nat
  BY FS_CardinalityType
<1>2. ASSUME NEW i \in Keep
      PROVE  IsFiniteSet(UpTo(i)) /\ Remap(i) = Cardinality(UpTo(i)) /\ Remap(i) \in 1 .. N
  <2>1. /\ UpTo(i) \in SUBSET Keep /\ i \in UpTo(i)
    OBVIOUS
  <2>2. /\ IsFiniteSet(UpTo(i)) /\ Cardinality(UpTo(i)) <= N
        /\ Cardinality(UpTo(i)) \in Nat /\ Cardinality(UpTo(i)) # 0
    BY <2>1, FS_Subset, FS_CardinalityType, FS_EmptySet
  <2> QED
    BY <2>2, <1>1 DEF Remap
<1>3. ASSUME NEW i \in Keep, NEW j \in Keep, i < j
      PROVE  Remap(i) < Remap(j)
  <2>0. i \in Nat /\ j \in Nat /\ \A k \in Keep : k \in Nat
    OBVIOUS
  <2>1. UpTo(i) \in SUBSET UpTo(j) /\ j \in UpTo(j) /\ j \notin UpTo(i)
    <3>1. \A k \in Keep : k <= i => k <= j
      BY <1>3, <2>0
    <3>2. j <= j /\ ~(j <= i)
      BY <1>3, <2>0
    <3> QED
      BY <3>1, <3>2
  <2>2. /\ Cardinality(UpTo(i)) <= Cardinality(UpTo(j))
        /\ Cardinality(UpTo(i)) # Cardinality(UpTo(j))
    BY <2>1, <1>2, FS_Subset
  <2> QED
    BY <2>2, <1>2
<1> HIDE DEF UpTo, N
<1>6. \A i \in Keep : i \in Nat /\ Remap(i) \in 1 .. N /\ Remap(i) \in Nat
  <2>1. \A i \in Keep : Remap(i) \in 1 .. N
    BY <1>2
  <2>2. \A k \in 1 .. N : k \in Nat
    BY <1>1
  <2> QED
    BY <2>1, <2>2
<1>4. \A i, j \in Keep : i < j <=> Remap(i) < Remap(j)
  <2> TAKE i, j \in Keep
  <2>1. i \in Nat /\ j \in Nat /\ Remap(i) \in Nat /\ Remap(j) \in Nat
    BY <1>6
  <2>2. i = j => Remap(i) = Remap(j)
    OBVIOUS
  <2> QED
    BY <2>1, <2>2, <1>3
<1>5. ASSUME NEW k \in 1 .. N
      PROVE  \E i \in Keep : Remap(i) = k
  <2> DEFINE f == [i \in Keep |-> Remap(i)]
  <2>1. f \in Injection(Keep, 1 .. N)
    <3>1. f \in [Keep -> 1 .. N]
      BY <1>2
    <3>2. \A i, j \in Keep : f[i] = f[j] => i = j
      <4> TAKE i, j \in Keep
      <4>1. i \in Nat /\ j \in Nat /\ Remap(i) \in Nat /\ Remap(j) \in Nat
        BY <1>6
      <4> QED
        BY <4>1, <1>4
    <3> QED
      BY <3>1, <3>2 DEF Injection, IsInjective
  <2>2. IsFiniteSet(1 .. N) /\ Cardinality(1 .. N) = N
    BY <1>1, FS_Interval
  <2>3. f \in Surjection(Keep, 1 .. N)
    BY <2>1, <2>2, FS_Injection DEF N
  <2> QED
    BY <2>3 DEF Surjection
<1> QED
  BY <1>1, <1>4, <1>5, <1>6 DEF N

\* The survivors are instructions, and an edge into a survivor comes from one.
LEMMA Survivors ==
  ASSUME TaggedOK, edges = DataFlow, useful \subseteq DOMAIN instrs
  PROVE  /\ Keep \subseteq DOMAIN instrs /\ Keep \subseteq Nat /\ IsFiniteSet(Keep)
         /\ Closed(useful) => \A e \in DataFlow : e[2] \in Keep => e[1] \in Keep
<1>1. Keep \subseteq DOMAIN instrs
  BY PartsOfInstrs DEF Keep
<1>2. IsFiniteSet(DOMAIN instrs)
  BY PartsOfInstrs, FS_Interval
<1>3. IsFiniteSet(Keep)
  BY <1>1, <1>2, FS_Subset
<1>4. DOMAIN instrs \subseteq Nat
  BY PartsOfInstrs
<1> QED
  BY <1>1, <1>3, <1>4 DEF Keep, Closed

\* Renumbering keeps the order of the survivors.
LEMMA CompactStep ==
  ASSUME FrontInv, Compact
  PROVE  FrontInv'
<1>1. /\ at = "walk" /\ prune /\ TaggedOK /\ WalkOK /\ edges = DataFlow /\ work = {}
      /\ UNCHANGED <<prune, instrs, tagged, edges, useful>> /\ at' = "pruned"
      /\ kept' = [k \in 1 .. Cardinality(Keep) |-> CHOOSE i \in Keep : Remap(i) = k]
      /\ nodes' = [n \in DOMAIN kept' |-> tagged[kept'[n]]]
      /\ nodeEdges' = CompactEdges(kept')
  BY DEF FrontInv, Compact
<1>2. /\ TaggedOK' /\ DataFlow' = DataFlow
      /\ DependsOn(StoreNodes)' = DependsOn(StoreNodes) /\ StoreNodes' = StoreNodes
  BY <1>1, ProgramStays
<1>3. useful \subseteq DOMAIN instrs /\ Closed(useful) /\ StoreNodes \subseteq useful
  BY <1>1 DEF WalkOK, Closed
<1>4. useful = DependsOn(StoreNodes)
  <2>1. DependsOn(StoreNodes) \subseteq useful
    BY <1>3 DEF DependsOn
  <2>2. useful \subseteq DependsOn(StoreNodes)
    BY <1>1, <1>3 DEF DependsOn, WalkOK
  <2> QED
    BY <2>1, <2>2
<1>5. Keep \subseteq DOMAIN instrs /\ Keep \subseteq Nat /\ IsFiniteSet(Keep)
  BY <1>1, <1>3, Survivors
<1>6. PICK N \in Nat : N = Cardinality(Keep)
  BY <1>5, Numbered
<1>7. /\ DOMAIN kept' = 1 .. N
      /\ \A k \in 1 .. N : kept'[k] \in Keep /\ Remap(kept'[k]) = k
  BY <1>1, <1>5, <1>6, Numbered
<1>8. Keep' = Keep
  BY <1>1 DEF Keep
<1>9. kept' \in Seq(DOMAIN instrs)
  <2>1. kept' = [k \in 1 .. N |-> kept'[k]]
    BY <1>1, <1>6
  <2>2. \A k \in 1 .. N : kept'[k] \in DOMAIN instrs
    BY <1>5, <1>7
  <2> QED
    BY <2>1, <2>2, IsASeq
<1>10. \A i, j \in 1 .. N : i < j => kept'[i] < kept'[j]
  BY <1>5, <1>7, Numbered
<1>11. Range(kept') = Keep
  <2>1. ASSUME NEW i \in Keep
        PROVE  kept'[Remap(i)] = i /\ Remap(i) \in 1 .. N
    <3>1. Remap(i) \in 1 .. N
      BY <1>5, <1>6, Numbered
    <3>2. kept'[Remap(i)] \in Keep /\ Remap(kept'[Remap(i)]) = Remap(i)
      BY <3>1, <1>7
    <3>3. \A j \in Keep : Remap(j) = Remap(i) => j = i
      <4> TAKE j \in Keep
      <4>1. i \in Nat /\ j \in Nat /\ Remap(i) \in Nat /\ Remap(j) \in Nat
        BY <1>5, <1>6, Numbered
      <4> QED
        BY <4>1, <1>5, Numbered
    <3> QED
      BY <3>1, <3>2, <3>3
  <2> QED
    BY <2>1, <1>7 DEF Range
<1>12. nodeEdges' = { e \in (DOMAIN kept') \X (DOMAIN kept') : <<kept'[e[1]], kept'[e[2]]>> \in DataFlow }
  BY <1>1 DEF CompactEdges
<1>13. DOMAIN nodes' = DOMAIN kept' /\ \A n \in DOMAIN nodes' : nodes'[n] = tagged[kept'[n]]
  BY <1>1
<1>14. FinalOK'
  <2>1. kept' \in Seq(DOMAIN instrs')
    BY <1>1, <1>9
  <2>2. /\ useful' = DependsOn(StoreNodes)' /\ Range(kept') = Keep' /\ prune'
        /\ HasUse'
    BY <1>1, <1>2, <1>4, <1>8, <1>11 DEF WalkOK, HasUse
  <2>3. \A i, j \in DOMAIN kept' : i < j => kept'[i] < kept'[j]
    BY <1>7, <1>10
  <2>4. \A n \in DOMAIN nodes' : nodes'[n] = tagged'[kept'[n]]
    BY <1>1, <1>13
  <2> QED
    BY <2>1, <2>2, <2>3, <2>4, <1>2, <1>12, <1>13 DEF FinalOK
<1> QED
  BY <1>1, <1>2, <1>14 DEF FrontInv

\* The recount touches neither the graph nor the program.
LEMMA GraphStays ==
  ASSUME TaggedOK, UNCHANGED <<prune, instrs, tagged, edges, useful, kept, nodes, nodeEdges>>
  PROVE  TaggedOK' /\ DataFlow' = DataFlow /\ (FinalOK => FinalOK')
<1>1. /\ TaggedOK' /\ DataFlow' = DataFlow /\ StoreNodes' = StoreNodes
      /\ DependsOn(StoreNodes)' = DependsOn(StoreNodes)
  BY ProgramStays
<1>2. Keep' = Keep
  BY DEF Keep
<1>3. HasUse => HasUse'
  BY <1>1 DEF HasUse
<1>4. FinalOK => FinalOK'
  BY <1>1, <1>2, <1>3 DEF FinalOK
<1> QED
  BY <1>1, <1>4

\* The final program's instructions are tagged ones.
LEMMA PartsOfNodes ==
  ASSUME TaggedOK, FinalOK
  PROVE  /\ Len(kept) \in Nat /\ DOMAIN kept = 1 .. Len(kept) /\ DOMAIN nodes = 1 .. Len(kept)
         /\ \A n \in DOMAIN nodes : /\ nodes[n] = tagged[kept[n]]
                                   /\ kept[n] \in DOMAIN instrs /\ kept[n] \in Nat
                                   /\ IsFiniteSet(DOMAIN nodes[n].reads)
<1>1. /\ Len(kept) \in Nat /\ DOMAIN kept = 1 .. Len(kept) /\ DOMAIN nodes = DOMAIN kept
      /\ \A n \in DOMAIN nodes : nodes[n] = tagged[kept[n]] /\ kept[n] \in DOMAIN instrs
  BY LenProperties, ElementOfSeq DEF FinalOK
<1>2. ASSUME NEW n \in DOMAIN nodes
      PROVE  kept[n] \in Nat /\ IsFiniteSet(DOMAIN nodes[n].reads)
  <2>1. tagged[kept[n]] \in TaggedInstruction
    BY <1>1, PartsOfInstrs, ElementOfSeq DEF TaggedOK
  <2>2. nodes[n].reads \in Seq(Tag \cup Pinned)
    BY <2>1, <1>1 DEF TaggedInstruction
  <2>3. DOMAIN nodes[n].reads = 1 .. Len(nodes[n].reads) /\ Len(nodes[n].reads) \in Nat
    BY <2>2, LenProperties
  <2>4. IsFiniteSet(DOMAIN nodes[n].reads)
    <3>1. \A k \in Nat : IsFiniteSet(1 .. k)
      BY FS_Interval
    <3> QED
      BY <2>3, <3>1
  <2>5. kept[n] \in DOMAIN instrs
    BY <1>1
  <2>6. kept[n] \in Nat
    BY <2>5, PartsOfInstrs
  <2> QED
    BY <2>4, <2>6
<1> QED
  BY <1>1, <1>2

\* The recount starts with no instruction counted.
LEMMA RecountStart ==
  ASSUME FrontInv, BeginRecount
  PROVE  FrontInv'
<1>1. /\ at = "pruned" /\ prune /\ TaggedOK /\ FinalOK /\ edges = DataFlow
      /\ UNCHANGED <<prune, instrs, tagged, edges, useful, kept, nodes, nodeEdges>>
      /\ at' = "count" /\ readCount' = <<>> /\ counted' = 0
  BY DEF FrontInv, BeginRecount, FreshCounts
<1>2. TaggedOK' /\ DataFlow' = DataFlow /\ FinalOK'
  BY <1>1, GraphStays
<1>3. counted' \in 0 .. Len(kept') /\ 1 .. counted' = {}
  BY <1>1, PartsOfNodes
<1>4. DOMAIN readCount' = {}
  BY <1>1
<1>5. RecountOK'
  BY <1>3, <1>4 DEF RecountOK, Counts
<1> QED
  BY <1>1, <1>2, <1>5 DEF FrontInv

\* A turn of the recount.
LEMMA RecountStep ==
  ASSUME FrontInv, RecountNode
  PROVE  FrontInv'
<1>1. /\ at = "count" /\ prune /\ TaggedOK /\ FinalOK /\ edges = DataFlow /\ RecountOK
      /\ UNCHANGED <<prune, at, instrs, tagged, edges, useful, kept, nodes, nodeEdges>>
      /\ counted < Len(kept) /\ counted' = counted + 1
      /\ readCount' = CountReads(readCount, nodes[counted + 1].reads)
  BY DEF FrontInv, RecountNode
<1>2. TaggedOK' /\ DataFlow' = DataFlow /\ FinalOK'
  BY <1>1, GraphStays
<1>3. PICK c \in Nat : c = counted /\ c + 1 \in 1 .. Len(kept) /\ Len(kept) \in Nat
  BY <1>1, PartsOfNodes DEF RecountOK
<1>4. IsFiniteSet(DOMAIN nodes[c + 1].reads)
  BY <1>1, <1>3, PartsOfNodes
<1>5. c + 1 \notin 1 .. c /\ (1 .. c) \cup {c + 1} = 1 .. c + 1
  OBVIOUS
<1>6. Counts(readCount, nodes, 1 .. c)
  BY <1>1, <1>3 DEF RecountOK
<1>7. readCount' = CountReads(readCount, nodes[c + 1].reads)
  BY <1>1, <1>3
<1>8. Counts(readCount', nodes, (1 .. c) \cup {c + 1})
  BY <1>4, <1>5, <1>6, <1>7, CountStep
<1>9. Counts(readCount, nodes, 1 .. c + 1)'
  BY <1>1, <1>5, <1>8 DEF Counts
<1>10. counted' = c + 1 /\ nodes' = nodes /\ Len(kept') = Len(kept)
  BY <1>1, <1>3
<1>11. RecountOK'
  BY <1>3, <1>9, <1>10 DEF RecountOK
<1> QED
  BY <1>1, <1>2, <1>11 DEF FrontInv

\* The end of the recount, and steps that leave everything as it is.
LEMMA SettledStep ==
  ASSUME FrontInv, Recounted \/ UNCHANGED frontVars
  PROVE  FrontInv'
<1>1. /\ UNCHANGED <<prune, instrs, tagged, edges, readCount, counted, current, writer, work>>
      /\ UNCHANGED <<useful, kept, nodes, nodeEdges>>
      /\ TaggedOK
  BY DEF Recounted, frontVars, FrontInv
<1>2. /\ TaggedOK' /\ DataFlow' = DataFlow /\ (FinalOK => FinalOK')
  BY <1>1, GraphStays
<1>3. RecountOK => RecountOK'
  <2>1. Counts(readCount, nodes, 1 .. counted) => Counts(readCount, nodes, 1 .. counted)'
    BY <1>1 DEF Counts
  <2> QED
    BY <2>1, <1>1 DEF RecountOK
<1>4. StoreNodes' = StoreNodes /\ \A T : Closed(T)' = Closed(T)
  BY <1>1, ProgramStays
<1>5. CASE Recounted
  BY <1>1, <1>2, <1>3, <1>5 DEF Recounted, FrontInv
<1>6. CASE UNCHANGED frontVars
  <2>1. at' = at
    BY <1>6 DEF frontVars
  <2>2. TagOK => TagOK'
    BY <1>1 DEF TagOK, CurrentOK, CounterOK, AllCounted, Counts
  <2>3. BuildOK => BuildOK'
    BY <1>1, <1>2 DEF BuildOK
  <2>4. WalkOK => WalkOK'
    BY <1>1, <1>2, <1>4 DEF WalkOK, HasUse
  <2>5. AllCounted => AllCounted'
    BY <1>1 DEF AllCounted, Counts
  <2> QED
    BY <2>1, <2>2, <2>3, <2>4, <2>5, <1>1, <1>2, <1>3 DEF FrontInv
<1> QED
  BY <1>5, <1>6

-----------------------------------------------------------------------------
\* The invariant of the front end.
THEOREM FrontInvariant == FrontSpec => []FrontInv
<1>1. FrontInv /\ [FrontNext]_frontVars => FrontInv'
  <2> SUFFICES ASSUME FrontInv, [FrontNext]_frontVars
               PROVE  FrontInv'
    OBVIOUS
  <2>1. CASE \E i \in Instruction : TagInstr(i)
    BY <2>1, TagStep
  <2>2. CASE TaggingDone
    BY <2>2, BuildStart
  <2>3. CASE BuildNode
    BY <2>3, BuildStep
  <2>4. CASE GraphBuilt
    BY <2>4, BuiltStep
  <2>5. CASE \E i \in DOMAIN tagged : WalkBack(i)
    BY <2>5, WalkStep
  <2>6. CASE Compact
    BY <2>6, CompactStep
  <2>7. CASE BeginRecount
    BY <2>7, RecountStart
  <2>8. CASE RecountNode
    BY <2>8, RecountStep
  <2>9. CASE Recounted \/ UNCHANGED frontVars
    BY <2>9, SettledStep
  <2> QED
    BY <2>1, <2>2, <2>3, <2>4, <2>5, <2>6, <2>7, <2>8, <2>9 DEF FrontNext
<1> QED
  BY <1>1, FrontStart, PTL DEF FrontSpec

\* Two survivors are ordered by the graph that the schedulers get exactly when
\* one reads in the source program what the other wrote.
THEOREM FrontEdgesAreDataFlow == FrontSpec => []EdgesAreDataFlow
<1>1. FrontInv => EdgesAreDataFlow
  BY DEF FrontInv, FinalOK, EdgesAreDataFlow, Ready
<1> QED
  BY <1>1, FrontInvariant, PTL

\* The final program has one writer for each tag, and it comes before the
\* readers, whatever was pruned between them.
THEOREM FrontWellTagged == FrontSpec => []ProgramWellTagged
<1>1. FrontInv => ProgramWellTagged
  <2> SUFFICES ASSUME FrontInv, at = "allocate"
               PROVE  /\ \A m, n \in DOMAIN nodes : m # n => nodes[m].dest \cap nodes[n].dest = {}
                      /\ \A n \in DOMAIN nodes : \A t \in Range(nodes[n].reads) \ Pinned :
                           \E m \in 1 .. n - 1 : t \in nodes[m].dest
    BY DEF ProgramWellTagged, Ready
  <2>1. /\ TaggedOK /\ FinalOK /\ edges = DataFlow
        /\ DOMAIN nodes = DOMAIN kept /\ \A n \in DOMAIN nodes : nodes[n] = tagged[kept[n]]
        /\ \A i, j \in DOMAIN kept : i < j => kept[i] < kept[j]
    BY DEF FrontInv, FinalOK
  <2>2. /\ DOMAIN kept = 1 .. Len(kept) /\ Len(kept) \in Nat
        /\ \A n \in DOMAIN kept : kept[n] \in DOMAIN instrs /\ kept[n] \in Nat
    BY <2>1, LenProperties, ElementOfSeq, PartsOfInstrs DEF FinalOK
  <2>3. \A m, n \in DOMAIN nodes : m # n => kept[m] # kept[n]
    BY <2>1, <2>2
  <2>4. \A m, n \in DOMAIN nodes : m # n => nodes[m].dest \cap nodes[n].dest = {}
    BY <2>1, <2>2, <2>3, PartsOfInstrs DEF TaggedOK, TagsApart
  <2>5. \A e \in DataFlow : e[2] \in Range(kept) => e[1] \in Range(kept)
    <3>1. CASE prune
      <4>1. useful = DependsOn(StoreNodes) /\ Range(kept) = Keep
        BY <3>1, <2>1 DEF FinalOK
      <4>2. useful \subseteq DOMAIN instrs
        BY <4>1 DEF DependsOn
      <4>3. Closed(useful)
        <5> SUFFICES ASSUME NEW e \in DataFlow, e[2] \in DependsOn(StoreNodes)
                     PROVE  e[1] \in DependsOn(StoreNodes)
          BY <4>1 DEF Closed
        <5>1. e[1] \in DOMAIN instrs
          BY <2>1, FlowForward
        <5> QED
          BY <5>1 DEF DependsOn, Closed
      <4> QED
        BY <4>1, <4>2, <4>3, <2>1, Survivors
    <3>2. CASE ~prune
      BY <3>2, <2>1, FlowForward DEF FinalOK
    <3> QED
      BY <3>1, <3>2
  <2>6. ASSUME NEW n \in DOMAIN nodes, NEW t \in Range(nodes[n].reads), t \notin Pinned
        PROVE  \E m \in 1 .. n - 1 : t \in nodes[m].dest
    <3>1. t \in Range(tagged[kept[n]].reads) /\ kept[n] \in DOMAIN instrs /\ kept[n] \in Range(kept)
      BY <2>1, <2>2 DEF Range
    <3>2. PICK k \in DOMAIN tagged[kept[n]].reads : tagged[kept[n]].reads[k] = t
      BY <3>1 DEF Range
    <3>3. k \in DOMAIN instrs[kept[n]].reads /\ Renames(kept[n], k)
      BY <3>1, <3>2, <2>1 DEF TaggedOK
    <3>4. PICK w \in LastWriter(kept[n], instrs[kept[n]].reads[k]) : t \in tagged[w].dest
      BY <2>6, <3>2, <3>3 DEF Renames
    <3>5. w \in DOMAIN instrs /\ w < kept[n] /\ Feeds(w, kept[n])
      BY <3>1, <3>3, <3>4, <2>1, OneWriter DEF Feeds, Range
    <3>6. <<w, kept[n]>> \in DataFlow
      BY <3>1, <3>5 DEF DataFlow
    <3>7. w \in Range(kept)
      BY <3>6, <3>1, <2>5
    <3>8. PICK m \in DOMAIN kept : kept[m] = w
      BY <3>7 DEF Range
    <3>9. m \in Nat /\ n \in Nat /\ m >= 1 /\ ~(n < m) /\ m # n
      BY <3>5, <3>8, <2>1, <2>2
    <3> QED
      BY <3>4, <3>8, <3>9, <2>1
  <2> QED
    BY <2>4, <2>6
<1> QED
  BY <1>1, FrontInvariant, PTL

\* Pruning keeps what stores depend on and the checks of it, and nothing else.
THEOREM FrontKeptIsNeeded == FrontSpec => []KeptIsNeeded
<1>1. FrontInv => KeptIsNeeded
  <2> SUFFICES ASSUME FrontInv, at = "allocate", prune
               PROVE  Range(kept) =
                        DependsOn(StoreNodes)
                        \cup { n \in DOMAIN instrs :
                                 /\ instrs[n].engine = "debug"
                                 /\ \A e \in DataFlow : e[2] = n => e[1] \in DependsOn(StoreNodes) }
    BY DEF KeptIsNeeded, Ready, StoreNodes
  <2>1. /\ TaggedOK /\ edges = DataFlow /\ useful = DependsOn(StoreNodes)
        /\ Range(kept) = Keep
    BY DEF FrontInv, FinalOK
  <2>2. DOMAIN tagged = DOMAIN instrs /\ \A n \in DOMAIN instrs : tagged[n].engine = instrs[n].engine
    BY <2>1, PartsOfInstrs DEF TaggedOK
  <2> QED
    BY <2>1, <2>2 DEF Keep
<1> QED
  BY <1>1, FrontInvariant, PTL

\* The allocator frees a register after as many reads as it is told, and that
\* is how many there are; after pruning every register is read at least once.
THEOREM FrontCountsMatchReaders == FrontSpec => []CountsMatchReaders
<1>1. FrontInv => CountsMatchReaders
  <2> SUFFICES ASSUME FrontInv, at = "allocate", NEW n \in DOMAIN nodes, NEW t \in nodes[n].dest
               PROVE  LET readers == ReadersOf(nodes, DOMAIN nodes, t)
                      IN  /\ prune => readers # {}
                          /\ t \in DOMAIN readCount => readCount[t] = Cardinality(readers)
                          /\ readers # {} => t \in DOMAIN readCount
    BY DEF CountsMatchReaders, Ready
  <2>1. /\ TaggedOK /\ FinalOK /\ edges = DataFlow
        /\ prune => RecountOK /\ counted = Len(kept)
        /\ ~prune => AllCounted
    BY DEF FrontInv
  <2>2. /\ DOMAIN nodes = 1 .. Len(kept) /\ DOMAIN kept = DOMAIN nodes
        /\ kept[n] \in DOMAIN instrs /\ nodes[n] = tagged[kept[n]]
    BY <2>1, PartsOfNodes
  <2>3. t \in tagged[kept[n]].dest /\ t \notin Pinned
    BY <2>1, <2>2, PartsOfInstrs, InstructionAssumption
  <2>4. CASE prune
    <3>1. Counts(readCount, nodes, DOMAIN nodes)
      BY <2>1, <2>2, <2>4 DEF RecountOK
    <3>2. ReadersOf(nodes, DOMAIN nodes, t) # {} => t \in DOMAIN readCount
      BY <3>1, <2>3 DEF Counts, ReadersOf, Range
    <3>3. useful = DependsOn(StoreNodes) /\ Range(kept) = Keep /\ HasUse
      BY <2>1, <2>4 DEF FinalOK
    <3>4. kept[n] \in useful
      <4>1. kept[n] \in Keep
        BY <3>3, <2>2 DEF Range
      <4>2. tagged[kept[n]].engine # "debug"
        BY <2>1, <2>2, <2>3 DEF TaggedOK
      <4> QED
        BY <4>1, <4>2 DEF Keep
    <3>5. kept[n] \notin StoreNodes
      BY <2>1, <2>2, <2>3 DEF TaggedOK, StoreNodes
    <3>6. PICK e \in DataFlow : e[1] = kept[n] /\ e[2] \in useful
      BY <3>3, <3>4, <3>5 DEF HasUse
    <3>7. e[2] \in DOMAIN instrs /\ Feeds(kept[n], e[2])
      BY <3>6, <2>1, FlowForward
    <3>8. PICK u \in Range(tagged[e[2]].reads) : u \in tagged[kept[n]].dest
      BY <3>7, <2>1, <2>2, WhereFrom
    <3>9. u = t
      BY <3>8, <2>1, <2>2, <2>3 DEF TaggedOK
    <3>10. PICK r \in DOMAIN nodes : kept[r] = e[2]
      BY <3>3, <3>6, <2>2 DEF Keep, Range
    <3>11. t \in Range(nodes[r].reads)
      BY <3>8, <3>9, <3>10, <2>1, PartsOfNodes
    <3>12. ReadersOf(nodes, DOMAIN nodes, t) # {}
      <4>1. PICK k \in DOMAIN nodes[r].reads : nodes[r].reads[k] = t
        BY <3>11 DEF Range
      <4>2. <<r, k>> \in ReadersOf(nodes, DOMAIN nodes, t)
        BY <4>1 DEF ReadersOf
      <4> QED
        BY <4>2
    <3> QED
      BY <3>1, <3>2, <3>12 DEF Counts
  <2>5. CASE ~prune
    <3>1. nodes = tagged /\ Counts(readCount, nodes, DOMAIN nodes) /\ kept[n] \in DOMAIN tagged
      BY <2>1, <2>2, <2>5, PartsOfInstrs DEF FinalOK, AllCounted
    <3>2. t \in DOMAIN readCount
      BY <3>1, <2>1, <2>3, <2>5 DEF AllCounted
    <3> QED
      BY <3>1, <3>2, <2>5 DEF Counts
  <2> QED
    BY <2>4, <2>5
<1> QED
  BY <1>1, FrontInvariant, PTL
==============================================================================
