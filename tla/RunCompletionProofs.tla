------------------------- MODULE RunCompletionProofs -------------------------
(***************************************************************************)
(* Proofs about the completion callback for any number of deliveries, in   *)
(* flight together or one after the other.                                 *)
(*                                                                         *)
(* The claim of the publication row is what makes the response unique: the *)
(* inductive invariant says that at most one delivery is posting, that it  *)
(* is posting only while the row is 'approved', and how many messages there *)
(* are at each of its steps.  The text is right because a delivery past    *)
(* the end of the run holds a snapshot equal to the run's final state.     *)
(***************************************************************************)
EXTENDS RunCompletion, TLAPS

\* Labels a delivery reaches only once the run has ended.
Ended == {"end_job", "release", "claim", "project", "ok"} \cup Delivering

\* Who is posting, and what has been posted.
PostingInv ==
  /\ \A d \in Deliveries : pc[d] \in Delivering => publication = "approved"
  /\ \A d, e \in Deliveries : pc[d] \in Delivering /\ pc[e] \in Delivering => d = e
  /\ \A d \in Deliveries : pc[d] \in {"post", "record_failure"} => Len(messages) = 0
  /\ \A d \in Deliveries : pc[d] = "record" => Len(messages) = 1

\* A delivery past the end of the run knows how the run ended.
SnapshotInv ==
  \A d \in Deliveries : pc[d] \in Ended => run \in Terminal /\ snapshot[d] = run

\* A task's run is about to end only after its final activity.
ActivityInv ==
  \A d \in Deliveries : kind = "task" /\ pc[d] = "finish" => activity > 0

Inv ==
  /\ TypeOK /\ OneResponse /\ ResponseTellsOutcome /\ ActivityBeforeOutcome
  /\ PostingInv /\ SnapshotInv /\ ActivityInv
  /\ Len(messages) > 0 => run \in Terminal

\* The callback starts with nothing posted and nobody posting.
LEMMA InitInv == Init => Inv
  BY CompletionConstants
  DEF Init, Inv, TypeOK, OneResponse, ResponseTellsOutcome, ActivityBeforeOutcome,
      PostingInv, SnapshotInv, ActivityInv, Ended, Delivering, Labels, Outcomes, Terminal

USE DEF Labels, Outcomes, Terminal, Ended, Delivering

\* Every step of a delivery, of the workflow or of the run keeps it so.
LEMMA StepInv == Inv /\ [Next]_vars => Inv'
<1> SUFFICES ASSUME Inv, [Next]_vars PROVE Inv'
  OBVIOUS
<1> USE CompletionConstants
    DEF Inv, TypeOK, OneResponse, ResponseTellsOutcome, ActivityBeforeOutcome,
        PostingInv, SnapshotInv, ActivityInv
<1>1. ASSUME NEW d \in Deliveries, Send(d) PROVE Inv'
  BY <1>1 DEF Send, rows, personalAgentRuntimeCompletionOutcome
<1>2. ASSUME NEW d \in Deliveries, Stops(d) PROVE Inv'
  BY <1>2 DEF Stops, AnswerError, rows
<1>3. ASSUME NEW d \in Deliveries, Validate(d) PROVE Inv'
  BY <1>3 DEF Validate, Goto, AfterRelease, Publishes, rows
<1>4. ASSUME NEW d \in Deliveries, ReserveUsage(d) \/ SettleUsage(d) PROVE Inv'
  BY <1>4 DEF ReserveUsage, SettleUsage, AfterSettle, Goto
<1>5. ASSUME NEW d \in Deliveries, FindFinalActivity(d) \/ AddFinalActivity(d) PROVE Inv'
  BY <1>5 DEF FindFinalActivity, AddFinalActivity, Goto, rows
<1>6. ASSUME NEW d \in Deliveries, FinishSpaceRun(d) PROVE Inv'
  BY <1>6 DEF FinishSpaceRun, Unfinished, Goto
<1>7. ASSUME NEW d \in Deliveries, FinishJob(d) \/ ReleaseReservations(d) PROVE Inv'
  BY <1>7 DEF FinishJob, JobState, ReleaseReservations, Released, AfterRelease,
     Publishes, Goto
<1>8. ASSUME NEW d \in Deliveries, ClaimRunResponsePublication(d) PROVE Inv'
  BY <1>8 DEF ClaimRunResponsePublication, Claimable, Goto
<1>9. ASSUME NEW d \in Deliveries, PostResponse(d) PROVE Inv'
  <2>1. /\ TypeOK /\ pc[d] = "post" /\ messages = <<>> /\ publication = "approved"
        /\ snapshot[d] = run /\ run \in Terminal
    BY <1>9 DEF PostResponse
  <2>2. CASE UNCHANGED messages /\ pc' = [pc EXCEPT ![d] = "record_failure"]
    BY <1>9, <2>1, <2>2 DEF PostResponse, Goto
  <2>3. CASE /\ messages' = Append(messages, IF Says(d) = "completed" THEN "finished" ELSE "unfinished")
             /\ pc' = [pc EXCEPT ![d] = "record"]
    <3> DEFINE text == IF run = "completed" THEN "finished" ELSE "unfinished"
    <3>1. messages' = <<text>>
      BY <2>1, <2>3 DEF Says
    <3>2. Len(messages') = 1 /\ messages'[1] = text /\ messages' \in Seq({"finished", "unfinished"})
      BY <3>1
    <3>3. /\ UNCHANGED <<kind, run, job, usage, activity, publication, invocation,
                       snapshot, workflow, waitsFor, outcome>>
      BY <1>9 DEF PostResponse, Goto
    <3>4. TypeOK'
      BY <2>1, <2>3, <3>2, <3>3
    <3>5. OneResponse' /\ ResponseTellsOutcome'
      BY <2>1, <3>2, <3>3
    <3>6. PostingInv'
      BY <2>1, <2>3, <3>2, <3>3
    <3>7. ActivityBeforeOutcome' /\ SnapshotInv' /\ ActivityInv'
      BY <2>1, <2>3, <3>3
    <3> QED
      BY <2>1, <3>3, <3>4, <3>5, <3>6, <3>7
  <2> QED
    BY <1>9, <2>2, <2>3 DEF PostResponse, Goto
<1>10. ASSUME NEW d \in Deliveries, FinishRunResponsePublication(d) PROVE Inv'
  BY <1>10 DEF FinishRunResponsePublication, Goto, AnswerError
<1>11. ASSUME NEW d \in Deliveries, completeLinkedAIInvocation(d) PROVE Inv'
  BY <1>11 DEF completeLinkedAIInvocation, AnswerOK, AnswerError
<1>12. CASE StopWaiting \/ WorkflowEnds \/ UNCHANGED vars
  BY <1>12 DEF StopWaiting, WorkflowEnds, vars, rows
<1>13. CASE CancelPersonalAgentTaskRunForOwner \/ RecordAgentRuntimeStatus \/ SyncJob
  BY <1>13 DEF CancelPersonalAgentTaskRunForOwner, RecordAgentRuntimeStatus,
     SyncJob, JobState, Released
<1> QED
  BY <1>1, <1>2, <1>3, <1>4, <1>5, <1>6, <1>7, <1>8, <1>9, <1>10, <1>11, <1>12, <1>13
  DEF Next, Handle

\* The inductive invariant holds in every reachable state.
THEOREM CompletionInvariant == Spec => []Inv
  BY InitInv, StepInv, PTL DEF Spec

\* Every variable keeps its type.
THEOREM TypeOKHolds == Spec => []TypeOK
<1>1. Inv => TypeOK BY DEF Inv
<1> QED BY <1>1, CompletionInvariant, PTL

\* However many completions are replayed, overlap or die half way, at most
\* one response is posted for the run, and its publication row tells so.
THEOREM OneResponseHolds == Spec => []OneResponse
<1>1. Inv => OneResponse BY DEF Inv
<1> QED BY <1>1, CompletionInvariant, PTL

\* The posted response agrees with the final state of the run.
THEOREM ResponseTellsOutcomeHolds == Spec => []ResponseTellsOutcome
<1>1. Inv => ResponseTellsOutcome BY DEF Inv
<1> QED BY <1>1, CompletionInvariant, PTL

\* The run of a task ends with errors or without only after its activity.
THEOREM ActivityBeforeOutcomeHolds == Spec => []ActivityBeforeOutcome
<1>1. Inv => ActivityBeforeOutcome BY DEF Inv
<1> QED BY <1>1, CompletionInvariant, PTL

\* An ended run stays as it ended, an acknowledged completion leaves no run
\* open, and the linked invocation is only closed behind an ended run.
THEOREM AcknowledgedIsEndedHolds == Spec => AcknowledgedIsEnded
<1> DEFINE Acknowledged ==
      /\ run \in Terminal => run' = run
      /\ \A d \in Deliveries : pc[d] # "ok" /\ pc'[d] = "ok" => run' \in Terminal
      /\ invocation' # invocation => invocation = "open" /\ run \in Terminal
<1>1. Inv /\ [Next]_vars => [Acknowledged]_vars
  <2> SUFFICES ASSUME Inv, Next PROVE Acknowledged
    BY DEF vars
  <2> USE DEF Inv, TypeOK
  <2>1. ASSUME NEW d \in Deliveries, Send(d) \/ Stops(d) \/ Validate(d) PROVE Acknowledged
    BY <2>1 DEF Send, Stops, Validate, AnswerError, Goto, AfterRelease, rows
  <2>2. ASSUME NEW d \in Deliveries,
               ReserveUsage(d) \/ SettleUsage(d) \/ FindFinalActivity(d) \/ AddFinalActivity(d)
        PROVE Acknowledged
    BY <2>2 DEF ReserveUsage, SettleUsage, FindFinalActivity, AddFinalActivity,
       AfterSettle, Goto, rows
  <2>3. ASSUME NEW d \in Deliveries,
               FinishSpaceRun(d) \/ FinishJob(d) \/ ReleaseReservations(d)
        PROVE Acknowledged
    BY <2>3 DEF FinishSpaceRun, Unfinished, FinishJob, ReleaseReservations, AfterRelease, Goto
  <2>4. ASSUME NEW d \in Deliveries,
               ClaimRunResponsePublication(d) \/ PostResponse(d) \/ FinishRunResponsePublication(d)
        PROVE Acknowledged
    BY <2>4 DEF ClaimRunResponsePublication, PostResponse, FinishRunResponsePublication,
       AnswerError, Goto
  <2>5. ASSUME NEW d \in Deliveries, completeLinkedAIInvocation(d) PROVE Acknowledged
    BY <2>5 DEF completeLinkedAIInvocation, AnswerOK, AnswerError, SnapshotInv
  <2>6. CASE StopWaiting \/ WorkflowEnds \/ SyncJob
    BY <2>6 DEF StopWaiting, WorkflowEnds, SyncJob, rows
  <2>7. CASE CancelPersonalAgentTaskRunForOwner \/ RecordAgentRuntimeStatus
    BY <2>7 DEF CancelPersonalAgentTaskRunForOwner, RecordAgentRuntimeStatus
  <2> QED
    BY <2>1, <2>2, <2>3, <2>4, <2>5, <2>6, <2>7 DEF Next, Handle
<1> QED
  BY <1>1, CompletionInvariant, PTL DEF Spec, AcknowledgedIsEnded
=============================================================================
