------------------------------ MODULE TreeWalk ------------------------------
(***************************************************************************)
(* What the kernel promises (reference_kernel, reference_kernel2): every   *)
(* lane of a batch walks down a perfect binary tree for a number of        *)
(* rounds.  A round hashes the lane's value with the node it is on and     *)
(* goes to a child by the parity of the result, from a leaf to the root.   *)
(* Lanes do not see each other, so any lanes may take a round together;    *)
(* the memory of the results is only looked at when all rounds are done.   *)
(***************************************************************************)
EXTENDS HashStages

CONSTANTS BATCH,        \* lanes are 0 .. BATCH - 1
          ROUNDS,
          FOREST_HEIGHT,
          LevelStart,   \* level -> its first node
          Together,     \* the sets of lanes that take a round together
          Trees, Inputs \* the trees and initial values considered

Lane == 0 .. BATCH - 1
Level == 0 .. FOREST_HEIGHT
n_nodes == LevelStart[FOREST_HEIGHT + 1]
Node == 0 .. n_nodes - 1

ASSUME WalkAssumption == /\ BATCH \in Nat /\ ROUNDS \in Nat /\ FOREST_HEIGHT \in Nat
                         /\ Together \subseteq SUBSET Lane
                         /\ Trees \subseteq [Node -> Word]
                         /\ Inputs \subseteq [Lane -> Word]

\* Nodes are numbered level by level.
ASSUME LevelAssumption ==
  /\ LevelStart \in [0 .. FOREST_HEIGHT + 1 -> Nat]
  /\ LevelStart[0] = 0
  /\ \A l \in Level : LevelStart[l + 1] = 2 * LevelStart[l] + 1

ASSUME HashAssumption == \A a \in Word : MyHash(a) \in Word

VARIABLES tree,     \* node -> value
          values,   \* lane -> value
          indices,  \* lane -> the node it is on
          done,     \* lane -> rounds it has done
          result    \* lane -> its word in the memory of results

walkVars == <<tree, values, indices, done, result>>

WalkInit == /\ tree \in Trees
            /\ values \in Inputs
            /\ indices = [i \in Lane |-> 0]
            /\ done = [i \in Lane |-> 0]
            /\ result = values

-----------------------------------------------------------------------------
Hashed(i) == MyHash(Xor(values[i], tree[indices[i]]))

\* Mutant: the children of a node are numbered from its double.
ChildFromDouble(n, v) == LET child == (2 * n) + (v % 2)
                         IN  IF child >= n_nodes THEN 0 ELSE child

\* Where a lane on node n goes with value v.
NextIndex(n, v) == LET child == 2 * n + (IF v % 2 = 0 THEN 1 ELSE 2)
                   IN  IF child >= n_nodes THEN 0 ELSE child

Round(S) ==
  /\ S # {}
  /\ \A i \in S : done[i] < ROUNDS
  /\ values' = [i \in Lane |-> IF i \in S THEN Hashed(i) ELSE values[i]]
  /\ indices' = [i \in Lane |-> IF i \in S THEN NextIndex(indices[i], values'[i]) ELSE indices[i]]
  /\ done' = [i \in Lane |-> IF i \in S THEN done[i] + 1 ELSE done[i]]
  /\ result' = [i \in Lane |-> IF done'[i] = ROUNDS THEN values'[i] ELSE result[i]]
  /\ UNCHANGED tree

WalkNext == \E S \in Together : Round(S)

WalkSpec == WalkInit /\ [][WalkNext]_walkVars

-----------------------------------------------------------------------------
LevelOf(r) == r % (FOREST_HEIGHT + 1)

\* After r rounds every lane is on a node of level r % (FOREST_HEIGHT + 1),
\* whatever its values were: the builder decides per round, when it builds,
\* which nodes to preload, when to read memory, and when to wrap.
LevelKnown == \A i \in Lane : /\ LevelStart[LevelOf(done[i])] <= indices[i]
                              /\ indices[i] < LevelStart[LevelOf(done[i]) + 1]
=============================================================================
