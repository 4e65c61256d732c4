----------------------------- MODULE HashStages -----------------------------
(***************************************************************************)
(* The hash of problem.py (HASH_STAGES, myhash), and the constants that    *)
(* perf_takehome.py derives from its stages to compute stages 2 and 3 in   *)
(* one.  The stages are numbered from 0, as in the code.                   *)
(***************************************************************************)
EXTENDS Words

CONSTANT HASH_STAGES   \* stage -> its operations and constants

LastStage == 5

StageIs(k, op1, op2, op3) ==
  LET s == HASH_STAGES[k]
  IN  s.op1 = op1 /\ s.op2 = op2 /\ s.op3 = op3 /\ s.val1 \in Word /\ s.val3 \in Nat

\* The shapes the fusion and the deferral rely on; the code asserts the
\* first two.
ASSUME ShapeAssumption ==
  /\ StageIs(2, "+", "+", "<<")
  /\ StageIs(3, "+", "^", "<<")
  /\ StageIs(LastStage, "^", "^", ">>")

\* A shift by a stage's constant multiplies by a power of two.
ASSUME ShiftAssumption ==
  \A k \in 0 .. LastStage : 2 ^ HASH_STAGES[k].val3 \in Nat \ {0}

Stage(k, a) ==
  LET s == HASH_STAGES[k]
  IN  Alu(s.op2, Alu(s.op1, a, s.val1), Alu(s.op3, a, s.val3))

\* What myhash_traced records of a word, after the word itself.
HashTrace(a) == LET a0 == Stage(0, a)
                    a1 == Stage(1, a0)
                    a2 == Stage(2, a1)
                    a3 == Stage(3, a2)
                    a4 == Stage(4, a3)
                    a5 == Stage(5, a4)
                IN  <<a, a0, a1, a2, a3, a4, a5>>

Trace == [a \in Word |-> HashTrace(a)]

AfterStage(k, a) == Trace[a][k + 2]
MyHash(a) == AfterStage(LastStage, a)

\* The multiplier of a linear stage: (a + K) + (a << s) is a * (2^s + 1) + K.
Multiplier(k) == 2 ^ HASH_STAGES[k].val3 + 1

FUSED23_MULT == Multiplier(2) * 2 ^ HASH_STAGES[3].val3
FUSED23_ADD1 == (HASH_STAGES[2].val1 + HASH_STAGES[3].val1) % M
FUSED23_ADD2 == (HASH_STAGES[2].val1 * 2 ^ HASH_STAGES[3].val3) % M
=============================================================================
