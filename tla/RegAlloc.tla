------------------------------ MODULE RegAlloc ------------------------------
(***************************************************************************)
(* The register allocator of regalloc.py.  Scratch is split into granules  *)
(* of VLEN words; granule 0 is pinned.  A vector tag takes a whole granule *)
(* from a deque; a scalar tag takes a word of a granule claimed for        *)
(* scalars, and claims one when no claimed granule has a free word.  A     *)
(* tag's register is freed by its last read; a claimed granule whose words *)
(* are all free goes back to the vector pool at the end of a cycle.        *)
(*                                                                         *)
(* The word -> granule table of the code is the arithmetic Base(w) here.   *)
(* The statistics and the debug names are left out.  The log entries of    *)
(* one read() (the read, and the free it may cause) are one entry.         *)
(***************************************************************************)
EXTENDS Integers, Sequences, FiniteSets, Functions, SequencesExt

CONSTANTS VecTag, ScalarTag,  \* the values a program computes, by shape
          VLEN,               \* words in a granule
          SCRATCH,            \* words of scratch
          ReadCounts,         \* the read counts checked: functions on tags
          MaxLog              \* bound: mutations in one trial

Tag == VecTag \cup ScalarTag

ASSUME SizeAssumption == /\ VLEN \in Nat \ {0}
                         /\ SCRATCH \in Nat
                         /\ SCRATCH % VLEN = 0
                         /\ VecTag \cap ScalarTag = {}
                         /\ ReadCounts \subseteq [Tag -> Nat]

VARIABLES
  readCount,  \* reads of each tag in the program; chosen once
  freeVec,    \* deque of free granules
  freeWords,  \* claimed granule -> its free words, last one handed out first
  freeCount,  \* claimed granule -> how many of its words are free
  claimOf,    \* live words that were the first taken from a fresh claim
  assigned,   \* live tag -> first word of its register
  remaining,  \* live tag -> reads still to come
  recording,  \* a checkpoint is open
  log,        \* undo log
  target,     \* length a running rollback pops down to, or Idle
  latest      \* the tag the caller has just allocated, if it is still placing it

regVars == <<readCount, freeVec, freeWords, freeCount, claimOf, assigned,
             remaining, recording, log, target, latest>>

Idle == -1

Granule == { g \in VLEN .. SCRATCH - 1 : g % VLEN = 0 }
Base(w) == w - (w % VLEN)
Words(g) == g .. g + VLEN - 1

regs == [freeVec |-> freeVec, freeWords |-> freeWords, freeCount |-> freeCount,
         claimOf |-> claimOf, assigned |-> assigned, remaining |-> remaining]

Become(s) == /\ freeVec' = s.freeVec
             /\ freeWords' = s.freeWords
             /\ freeCount' = s.freeCount
             /\ claimOf' = s.claimOf
             /\ assigned' = s.assigned
             /\ remaining' = s.remaining

With(f, x, v) == [y \in DOMAIN f \cup {x} |-> IF y = x THEN v ELSE f[y]]
Without(f, x) == Restrict(f, DOMAIN f \ {x})

-----------------------------------------------------------------------------
Empty == [freeVec |-> [k \in 1 .. (SCRATCH \div VLEN) - 1 |-> k * VLEN],
          freeWords |-> <<>>, freeCount |-> <<>>, claimOf |-> {},
          assigned |-> <<>>, remaining |-> <<>>]

Init == /\ readCount \in ReadCounts
        /\ freeVec = Empty.freeVec
        /\ freeWords = Empty.freeWords
        /\ freeCount = Empty.freeCount
        /\ claimOf = Empty.claimOf
        /\ assigned = Empty.assigned
        /\ remaining = Empty.remaining
        /\ recording = FALSE
        /\ log = <<>>
        /\ target = Idle
        /\ latest = {}

\* The fullest claimed granule with a free word, the lowest of them on a
\* tie; the set is empty when there is none.
BestFit(s) ==
  { g \in DOMAIN s.freeCount :
      /\ s.freeCount[g] > 0
      /\ \A h \in DOMAIN s.freeCount : s.freeCount[h] > 0 =>
           \/ s.freeCount[g] < s.freeCount[h]
           \/ s.freeCount[g] = s.freeCount[h] /\ g <= h }

\* Mutant: a vector granule is always kept in reserve.
CanWriteSpare(s, t) == \/ t \in DOMAIN s.assigned
                       \/ Len(s.freeVec) > 1
                       \/ t \in ScalarTag /\ BestFit(s) # {}

\* can_write(t): t has a register, or one is free.
CanWrite(s, t) == \/ t \in DOMAIN s.assigned
                  \/ s.freeVec # <<>>
                  \/ t \in ScalarTag /\ BestFit(s) # {}

WordsInOrder(g) == [k \in 1 .. VLEN |-> g + k - 1]

\* Mutant: the claimed granule stays in the vector pool.
ClaimKeepsGranule(s, g) ==
  [s EXCEPT !.freeWords = With(@, g, WordsInOrder(g)),
            !.freeCount = With(@, g, VLEN)]

\* A granule leaves the deque to be split into words, or is put back.
Claim(s, g) ==
  [s EXCEPT !.freeVec = Tail(@),
            !.freeWords = With(@, g, WordsInOrder(g)),
            !.freeCount = With(@, g, VLEN)]
Unclaim(s, g) ==
  [s EXCEPT !.freeVec = <<g>> \o @,
            !.freeWords = Without(@, g),
            !.freeCount = Without(@, g)]

\* Mutants: a freed word counted twice; a word handed out and still counted.
PutWordTwice(s, w) == [s EXCEPT !.freeWords[Base(w)] = Append(@, w),
                                !.freeCount[Base(w)] = @ + 2]
PopWordUncounted(s, g) == [s EXCEPT !.freeWords[g] = Front(@)]

\* The last free word of a granule is handed out; a word is put back; a word
\* that had been put back is taken out of the list again.
PopWord(s, g) == [s EXCEPT !.freeWords[g] = Front(@), !.freeCount[g] = @ - 1]
PutWord(s, w) == [s EXCEPT !.freeWords[Base(w)] = Append(@, w),
                           !.freeCount[Base(w)] = @ + 1]
TakeWord(s, w) == [s EXCEPT !.freeWords[Base(w)] = RemoveFirst(@, w),
                            !.freeCount[Base(w)] = @ - 1]

Bind(s, t, w, n) == [s EXCEPT !.assigned = With(@, t, w), !.remaining = With(@, t, n)]
Unbind(s, t) == [s EXCEPT !.assigned = Without(@, t), !.remaining = Without(@, t)]

Entry(kind, t, w, claim) == [kind |-> kind, tag |-> t, addr |-> w, claim |-> claim]

Record(e) == log' = IF recording THEN Append(log, e) ELSE log

Room == recording => Len(log) < MaxLog

-----------------------------------------------------------------------------
\* write(t) of a vector tag.
WriteVec(t) ==
  /\ t \in VecTag
  /\ freeVec # <<>>
  /\ LET g == Head(freeVec)
     IN  /\ Become(Bind([regs EXCEPT !.freeVec = Tail(@)], t, g, readCount[t]))
         /\ Record(Entry("W", t, g, FALSE))

\* write(t) of a scalar tag, in a granule already claimed.
WriteWord(t) ==
  /\ t \in ScalarTag
  /\ \E g \in BestFit(regs) :
       LET w == Last(freeWords[g])
       IN  /\ Become(Bind(PopWord(regs, g), t, w, readCount[t]))
           /\ Record(Entry("Ws", t, w, FALSE))

\* write(t) of a scalar tag that claims a granule.
WriteClaim(t) ==
  /\ t \in ScalarTag
  /\ BestFit(regs) = {}
  /\ freeVec # <<>>
  /\ LET g == Head(freeVec)
         w == g + VLEN - 1
         s == PopWord(Claim(regs, g), g)
     IN  /\ Become([Bind(s, t, w, readCount[t]) EXCEPT !.claimOf = @ \cup {w}])
         /\ Record(Entry("Ws", t, w, TRUE))

\* write(t), after can_write(t); a tag that has a register keeps it.
Write(t) ==
  /\ target = Idle
  /\ Room
  /\ t \notin DOMAIN assigned
  /\ CanWrite(regs, t)
  /\ WriteVec(t) \/ WriteWord(t) \/ WriteClaim(t)
  /\ latest' = {t}
  /\ UNCHANGED <<readCount, recording, target>>

\* _scalar_dealloc: the word was a fresh claim and its siblings are free.
Reversible(s, w) == w \in s.claimOf /\ s.freeCount[Base(w)] = VLEN - 1

\* unwrite(t): the node just given a register for t landed no lane.
Unwrite(t) ==
  /\ target = Idle
  /\ Room
  /\ t \in latest
  /\ t \in DOMAIN assigned
  /\ remaining[t] = readCount[t]
  /\ LET w == assigned[t]
         s == Unbind(regs, t)
     IN  \/ /\ t \in VecTag
            /\ Become([s EXCEPT !.freeVec = <<w>> \o @])
            /\ Record(Entry("U", t, w, FALSE))
         \/ /\ t \in ScalarTag
            /\ Reversible(regs, w)
            /\ Become([Unclaim(s, Base(w)) EXCEPT !.claimOf = @ \ {w}])
            /\ Record(Entry("Urev", t, w, TRUE))
         \/ /\ t \in ScalarTag
            /\ ~Reversible(regs, w)
            /\ Become([PutWord(s, w) EXCEPT !.claimOf = @ \ {w}])
            /\ Record(Entry("Uret", t, w, w \in claimOf))
  /\ latest' = {}
  /\ UNCHANGED <<readCount, recording, target>>

\* read(t): one read has committed; the last one frees the register.
Read(t) ==
  /\ target = Idle
  /\ Room
  /\ t \in DOMAIN assigned
  /\ remaining[t] > 0
  /\ LET w == assigned[t]
         s == Unbind(regs, t)
     IN  \/ /\ remaining[t] > 1
            /\ Become([regs EXCEPT !.remaining[t] = @ - 1])
            /\ Record(Entry("R", t, w, FALSE))
         \/ /\ remaining[t] = 1
            /\ t \in VecTag
            /\ Become([s EXCEPT !.freeVec = Append(@, w)])
            /\ Record(Entry("F", t, w, FALSE))
         \/ /\ remaining[t] = 1
            /\ t \in ScalarTag
            /\ Become([PutWord(s, w) EXCEPT !.claimOf = @ \ {w}])
            /\ Record(Entry("Fs", t, w, w \in claimOf))
  /\ latest' = {}
  /\ UNCHANGED <<readCount, recording, target>>

\* Mutants: a granule is never wholly free; one word short of wholly free.
ReclaimableNone == {}
ReclaimableEarly == { g \in DOMAIN freeCount : freeCount[g] = VLEN - 1 }

Reclaimable == { g \in DOMAIN freeCount : freeCount[g] = VLEN }

\* collect_scalar_garbage(), at the end of a cycle, outside any trial: every
\* claimed granule that is wholly free goes back, in the order the code's dict
\* was filled; any order is allowed here.
Collect ==
  /\ target = Idle
  /\ ~recording
  /\ Reclaimable # {}
  /\ \E order \in SetToSeqs(Reclaimable) : freeVec' = freeVec \o order
  /\ freeWords' = Restrict(freeWords, DOMAIN freeWords \ Reclaimable)
  /\ freeCount' = Restrict(freeCount, DOMAIN freeCount \ Reclaimable)
  /\ latest' = {}
  /\ UNCHANGED <<readCount, claimOf, assigned, remaining, recording, log, target>>

-----------------------------------------------------------------------------
\* Mutant: the granule goes back to the wrong end of the deque.
UndoWriteRight(s, e) ==
  LET u == Unbind(s, e.tag)
  IN  IF e.kind = "W" THEN [u EXCEPT !.freeVec = Append(@, e.addr)]
      ELSE IF e.claim THEN [Unclaim(u, Base(e.addr)) EXCEPT !.claimOf = @ \ {e.addr}]
      ELSE PutWord(u, e.addr)

\* Undoing a write: the register goes back to where it was taken from.
UndoWrite(s, e) ==
  LET u == Unbind(s, e.tag)
  IN  IF e.kind = "W" THEN [u EXCEPT !.freeVec = <<e.addr>> \o @]
      ELSE IF e.claim THEN [Unclaim(u, Base(e.addr)) EXCEPT !.claimOf = @ \ {e.addr}]
      ELSE PutWord(u, e.addr)

\* Mutant: the fresh-claim mark is lost.
RetakeUnmarked(s, e) == TakeWord(s, e.addr)

\* A word leaves its free list again, marked if it had been a fresh claim.
RetakeWord(s, e) ==
  [TakeWord(s, e.addr) EXCEPT !.claimOf = IF e.claim THEN @ \cup {e.addr} ELSE @]

\* Mutant: the granule is live again and still in the pool.
UndoReadStillFree(s, e) ==
  CASE e.kind = "R"  -> [s EXCEPT !.remaining[e.tag] = @ + 1]
    [] e.kind = "F"  -> Bind(s, e.tag, e.addr, 1)
    [] e.kind = "Fs" -> Bind(RetakeWord(s, e), e.tag, e.addr, 1)

\* Undoing a read, and the free it caused.
UndoRead(s, e) ==
  CASE e.kind = "R"  -> [s EXCEPT !.remaining[e.tag] = @ + 1]
    [] e.kind = "F"  -> Bind([s EXCEPT !.freeVec = RemoveFirst(@, e.addr)], e.tag, e.addr, 1)
    [] e.kind = "Fs" -> Bind(RetakeWord(s, e), e.tag, e.addr, 1)

\* Undoing an unwrite: the register is taken again.
UndoUnwrite(s, e, reads) ==
  LET g == Base(e.addr)
      retaken == CASE e.kind = "U"    -> [s EXCEPT !.freeVec = RemoveFirst(@, e.addr)]
                   [] e.kind = "Urev" -> TakeWord([Claim(s, g) EXCEPT
                                            !.freeVec = RemoveFirst(s.freeVec, g),
                                            !.claimOf = @ \cup {e.addr}], e.addr)
                   [] e.kind = "Uret" -> RetakeWord(s, e)
  IN  Bind(retaken, e.tag, e.addr, reads[e.tag])

\* What rollback() does for the entry it pops.
Undo(s, e, reads) == CASE e.kind \in {"W", "Ws"}           -> UndoWrite(s, e)
                       [] e.kind \in {"R", "F", "Fs"}      -> UndoRead(s, e)
                       [] e.kind \in {"U", "Urev", "Uret"} -> UndoUnwrite(s, e, reads)

\* checkpoint(); its token is the length of the log.
Checkpoint ==
  /\ target = Idle
  /\ recording' = TRUE
  /\ latest' = {}
  /\ UNCHANGED <<readCount, freeVec, freeWords, freeCount, claimOf, assigned,
                 remaining, log, target>>

\* rollback(token), with a token no later rollback has passed.
Rollback(token) ==
  /\ target = Idle
  /\ recording
  /\ token \in 0 .. Len(log)
  /\ target' = token
  /\ latest' = {}
  /\ UNCHANGED <<readCount, freeVec, freeWords, freeCount, claimOf, assigned,
                 remaining, recording, log>>

PopEntry ==
  /\ target # Idle
  /\ Len(log) > target
  /\ Become(Undo(regs, Last(log), readCount))
  /\ log' = Front(log)
  /\ UNCHANGED <<readCount, recording, target, latest>>

\* The loop has ended; token 0 closes the log.
RollbackDone ==
  /\ target # Idle
  /\ Len(log) <= target
  /\ recording' = (target # 0)
  /\ target' = Idle
  /\ UNCHANGED <<readCount, freeVec, freeWords, freeCount, claimOf, assigned,
                 remaining, log, latest>>

Next == \/ \E t \in Tag : Write(t) \/ Unwrite(t) \/ Read(t)
        \/ Collect
        \/ Checkpoint
        \/ \E token \in 0 .. Len(log) : Rollback(token)
        \/ PopEntry
        \/ RollbackDone

Spec == Init /\ [][Next]_regVars
=============================================================================
