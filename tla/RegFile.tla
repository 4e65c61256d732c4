------------------------------ MODULE RegFile ------------------------------
(***************************************************************************)
(* What a register allocator promises: every live value has a register of  *)
(* its shape that it shares with no other, holds it until its last read,   *)
(* and a trial that is taken back leaves no trace.                         *)
(***************************************************************************)
EXTENDS Integers, Sequences

CONSTANTS Tag,          \* values
          Registers(_), \* the registers fit for a value: sets of words
          ReadCounts

VARIABLES
  readCount,  \* reads of each value
  held,       \* live value -> the words of its register
  left,       \* live value -> reads still to come
  trying,     \* a trial is open
  trail       \* the states the open trial can step back through

fileVars == <<readCount, held, left, trying, trail>>

point == [held |-> held, left |-> left]
Leave == trail' = IF trying THEN Append(trail, point) ELSE trail

Become(h, l) == held' = h /\ left' = l
Drop(f, t) == [u \in DOMAIN f \ {t} |-> f[u]]
Put(f, t, v) == [u \in DOMAIN f \cup {t} |-> IF u = t THEN v ELSE f[u]]

Init == /\ readCount \in ReadCounts
        /\ held = <<>>
        /\ left = <<>>
        /\ trying = FALSE
        /\ trail = <<>>

Acquire(t) == /\ t \notin DOMAIN held
              /\ \E r \in Registers(t) :
                   /\ \A u \in DOMAIN held : held[u] \cap r = {}
                   /\ Become(Put(held, t, r), Put(left, t, readCount[t]))
              /\ Leave
              /\ UNCHANGED <<readCount, trying>>

\* The node that was to compute t is not placed after all.
Return(t) == /\ t \in DOMAIN held
             /\ left[t] = readCount[t]
             /\ Become(Drop(held, t), Drop(left, t))
             /\ Leave
             /\ UNCHANGED <<readCount, trying>>

Use(t) == /\ t \in DOMAIN held
          /\ \/ left[t] > 1 /\ Become(held, Put(left, t, left[t] - 1))
             \/ left[t] = 1 /\ Become(Drop(held, t), Drop(left, t))
          /\ Leave
          /\ UNCHANGED <<readCount, trying>>

Open == /\ trying' = TRUE
        /\ UNCHANGED <<readCount, held, left, trail>>

StepBack == /\ trail # <<>>
            /\ Become(trail[Len(trail)].held, trail[Len(trail)].left)
            /\ trail' = SubSeq(trail, 1, Len(trail) - 1)
            /\ UNCHANGED <<readCount, trying>>

Close == /\ trail = <<>>
         /\ trying' = FALSE
         /\ UNCHANGED <<readCount, held, left, trail>>

Next == \/ \E t \in Tag : Acquire(t) \/ Return(t) \/ Use(t)
        \/ Open
        \/ StepBack
        \/ Close

Spec == Init /\ [][Next]_fileVars
=============================================================================
