--------------------------- MODULE RolloutHistory ---------------------------
(***************************************************************************)
(* RolloutSchedule with the history of the open trial that DepDagHistory   *)
(* and RegAllocHistory keep: the states the rollbacks go back through.     *)
(* History variables only watch: every step below is a step of             *)
(* RolloutSchedule, and a note of what it did.                             *)
(***************************************************************************)
EXTENDS RolloutScheduleProperties

VARIABLES
  flying,   \* nodes the trial committed that some node waits for by RAW
  dagPast,  \* the graph before each mutation in its log, oldest first
  regPast   \* the allocator before each mutation in its log

history == <<flying, dagPast, regPast>>
hvars == <<vars, history>>

NoteDag == dagPast' = IF dagLog' = dagLog THEN dagPast
                      ELSE Append(dagPast, [dag |-> Dag!live, inFlight |-> flying])
NoteRegs == regPast' = IF regLog' = regLog THEN regPast ELSE Append(regPast, Reg!regs)
NoteCommit == flying' = IF dagRecording /\ Dag!RawOut(graph, node) # {}
                        THEN flying \cup {node} ELSE flying

HInit == Init /\ flying = {} /\ dagPast = <<>> /\ regPast = <<>>

HInner == Inner /\ NoteRegs /\ UNCHANGED <<flying, dagPast>>
HCommit == Commit /\ NoteCommit /\ NoteDag /\ UNCHANGED regPast
HEndTrial == EndTrial /\ NoteDag /\ flying' = {} /\ UNCHANGED regPast

HUndoRegs == /\ UndoRegs
             /\ regPast' = IF regLog' = regLog THEN regPast ELSE Front(regPast)
             /\ UNCHANGED <<flying, dagPast>>
HUndoDag == /\ UndoDag
            /\ IF dagLog' = dagLog THEN UNCHANGED <<flying, dagPast>>
               ELSE dagPast' = Front(dagPast) /\ flying' = Last(dagPast).inFlight
            /\ UNCHANGED regPast

HNext == \/ HInner \/ HCommit \/ HEndTrial \/ HUndoRegs \/ HUndoDag
         \/ BeginSearch /\ UNCHANGED history
         \/ OpenTrial /\ UNCHANGED history
         \/ StartTrial /\ UNCHANGED history
         \/ Pick /\ UNCHANGED history
         \/ Judge /\ UNCHANGED history
         \/ UndoPlacements /\ UNCHANGED history
         \/ Replay /\ UNCHANGED history
         \/ EndReplay /\ UNCHANGED history
         \/ Advance /\ UNCHANGED history
         \/ Collect /\ UNCHANGED history
         \/ Fail /\ UNCHANGED history
         \/ Return /\ UNCHANGED history
         \/ Stay /\ UNCHANGED history

HSpec == HInit /\ [][HNext]_hvars /\ WF_hvars(HNext)
=============================================================================
