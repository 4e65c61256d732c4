--------------------------- MODULE RegAllocHistory ---------------------------
(***************************************************************************)
(* RegAlloc with a history of the open trial, its properties, and the      *)
(* refinement of RegFile.                                                  *)
(***************************************************************************)
EXTENDS RegAlloc

VARIABLE past   \* the state before each mutation in the log, oldest first

vars == <<readCount, freeVec, freeWords, freeCount, claimOf, assigned,
          remaining, recording, log, target, latest, past>>

Note == past' = IF recording THEN Append(past, regs) ELSE past

HInit == Init /\ past = <<>>

HWrite(t) == Write(t) /\ Note
HUnwrite(t) == Unwrite(t) /\ Note
HRead(t) == Read(t) /\ Note
HCollect == Collect /\ UNCHANGED past
HCheckpoint == Checkpoint /\ UNCHANGED past
HRollback(token) == Rollback(token) /\ UNCHANGED past
HPopEntry == PopEntry /\ past' = Front(past)
HRollbackDone == RollbackDone /\ UNCHANGED past

HNext == \/ \E t \in Tag : HWrite(t) \/ HUnwrite(t) \/ HRead(t)
         \/ HCollect
         \/ HCheckpoint
         \/ \E token \in 0 .. Len(log) : HRollback(token)
         \/ HPopEntry
         \/ HRollbackDone

HSpec == HInit /\ [][HNext]_vars

-----------------------------------------------------------------------------
\* Scratch outside the pinned granule.
Word == UNION { Words(g) : g \in Granule }

TypeAt(s) ==
  /\ s.freeVec \in Seq(Granule)
  /\ DOMAIN s.freeWords \subseteq Granule
  /\ s.freeWords \in [DOMAIN s.freeWords -> Seq(Word)]
  /\ s.freeCount \in [DOMAIN s.freeWords -> 0 .. VLEN]
  /\ s.claimOf \subseteq Word
  /\ DOMAIN s.assigned \subseteq Tag
  /\ s.assigned \in [DOMAIN s.assigned -> Word]
  /\ s.remaining \in [DOMAIN s.assigned -> Nat]

\* Type of every variable; no value has more reads to come than the program has.
TypeOK ==
  /\ readCount \in [Tag -> Nat]
  /\ TypeAt(regs)
  /\ \A t \in DOMAIN assigned : remaining[t] <= readCount[t]
  /\ recording \in BOOLEAN
  /\ target \in {Idle} \cup 0 .. Len(log)
  /\ latest \subseteq DOMAIN assigned

\* q lists the members of S, each once.
ListOf(q, S) == /\ q \in Seq(S)
                /\ IsInjective(q)
                /\ \A x \in S : \E k \in DOMAIN q : q[k] = x

Held(s, Shape) == { s.assigned[t] : t \in Shape \cap DOMAIN s.assigned }

\* Nothing is lost and nothing is handed out twice: the deque lists the
\* granules that no vector holds and that are not claimed for scalars; the
\* free list of a claimed granule lists its words that no scalar holds; and no
\* two values of a shape hold the same register.
PartitionAt(s) ==
  /\ ListOf(s.freeVec, Granule \ (DOMAIN s.freeWords \cup Held(s, VecTag)))
  /\ Held(s, VecTag) \subseteq Granule \ DOMAIN s.freeWords
  /\ \A g \in DOMAIN s.freeWords : ListOf(s.freeWords[g], Words(g) \ Held(s, ScalarTag))
  /\ \A w \in Held(s, ScalarTag) : Base(w) \in DOMAIN s.freeWords
  /\ \A Shape \in {VecTag, ScalarTag} :
       \A t, u \in Shape \cap DOMAIN s.assigned : s.assigned[t] = s.assigned[u] => t = u
Partition == PartitionAt(regs)

\* The free counts that choose the best fit and trigger reclamation agree
\* with the free lists, and a fresh-claim mark is on a live word only.
CountsAt(s) == /\ \A g \in DOMAIN s.freeWords : s.freeCount[g] = Len(s.freeWords[g])
               /\ s.claimOf \subseteq Held(s, ScalarTag)
CountsAgree == CountsAt(regs)

\* rollback() reverses a claim without looking at the siblings: "reverse-order
\* undo guarantees the sibling words are all back in the free list".
ClaimReversalSafe ==
  (target # Idle /\ Len(log) > target) =>
    LET e == Last(log)
    IN  (e.kind = "Ws" /\ e.claim) => /\ e.addr \in claimOf
                                      /\ freeCount[Base(e.addr)] = VLEN - 1

\* A state of the allocator: a record of its six tables.
IsRegs(s) == s = [freeVec |-> s.freeVec, freeWords |-> s.freeWords, freeCount |-> s.freeCount,
                  claimOf |-> s.claimOf, assigned |-> s.assigned, remaining |-> s.remaining]

Good(s) == IsRegs(s) /\ TypeAt(s) /\ PartitionAt(s) /\ CountsAt(s)

\* The state after the k-th entry of the log.
After(k) == IF k = Len(log) THEN regs ELSE past[k + 1]

\* rollback() leads back through exactly the states the trial came from, the
\* order of the deque and of every free list included: the replay of a trial
\* hands out the same registers.
UndoExact ==
  /\ Len(past) = Len(log)
  /\ ~recording => log = <<>>
  /\ \A k \in 1 .. Len(log) : Undo(After(k), log[k], readCount) = past[k]

\* The state before each entry was as good as the present one, and an entry
\* that claimed a granule was followed by a state the claim can be reversed in.
TrialGood ==
  /\ past \in Seq(Range(past)) /\ log \in Seq(Range(log))
  /\ \A k \in DOMAIN past :
       /\ Good(past[k])
       /\ \A t \in DOMAIN past[k].assigned : past[k].remaining[t] <= readCount[t]
  /\ \A k \in DOMAIN log : log[k].kind = "Ws" /\ log[k].claim =>
       log[k].addr \in After(k).claimOf /\ After(k).freeCount[Base(log[k].addr)] = VLEN - 1

\* If the tag just allocated claimed a granule, the granule is as it was split
\* but for the last word.
LatestFresh ==
  /\ target # Idle => latest = {}
  /\ \A t \in latest : t \in ScalarTag /\ assigned[t] \in claimOf =>
       /\ assigned[t] = Base(assigned[t]) + VLEN - 1
       /\ freeWords[Base(assigned[t])] = Front(WordsInOrder(Base(assigned[t])))

\* The inductive invariant.
RegInv == /\ TypeOK
          /\ Partition
          /\ CountsAgree
          /\ UndoExact
          /\ TrialGood
          /\ LatestFresh

\* After the end-of-cycle collection a granule is out of the vector pool only
\* if some live value holds it or a word of it.
NoGranuleStranded ==
  [][Collect => \A g \in Granule :
       \/ \E k \in DOMAIN freeVec' : freeVec'[k] = g
       \/ \E t \in DOMAIN assigned' : Base(assigned'[t]) = g]_vars

Footprint(t, w) == IF t \in VecTag THEN Words(w) ELSE {w}
FileRegisters(t) == IF t \in VecTag THEN { Words(g) : g \in Granule }
                    ELSE { {w} : w \in UNION { Words(g) : g \in Granule } }

FileHeld(a) == [t \in DOMAIN a |-> Footprint(t, a[t])]
FilePoint(s) == [held |-> FileHeld(s.assigned), left |-> s.remaining]
FileTrail(p) == [k \in 1 .. Len(p) |-> FilePoint(p[k])]

\* The allocator keeps the promise of RegFile.
File == INSTANCE RegFile WITH
  Registers <- FileRegisters,
  held <- FileHeld(assigned),
  left <- remaining,
  trying <- recording,
  trail <- FileTrail(past)

ImplementsRegFile == File!Spec
=============================================================================
