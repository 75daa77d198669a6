---------------------------- MODULE RunCompletion ----------------------------
(***************************************************************************)
(* The completion callback of one agent run: AgentRuntimeComplete with the *)
(* updates it makes one after the other, each in a transaction of its own. *)
(* The workflow gives a request 30 seconds and then sends it again, so a   *)
(* later delivery overlaps an earlier one that is still being handled; a   *)
(* delivery stops at any update when that update fails, when its sender    *)
(* hangs up (the request's context is then canceled) or when the process   *)
(* dies.  The run may be canceled or reconciled in between.                *)
(***************************************************************************)
EXTENDS Naturals, Sequences

CONSTANTS
  Deliveries,   \* the requests the workflow sends, retries included (bound)
  Nobody        \* no request is being waited for

ASSUME CompletionConstants == Nobody \notin Deliveries

VARIABLES
  kind,         \* where the run comes from; it never changes
  run,          \* space_runs.state of a run whose job has been dispatched
  job,          \* agent_run_jobs.state
  usage,        \* the run's hosted-AI reservation ("released": or no row)
  activity,     \* number of runtime_final rows of space_task_activity
  publication,  \* the conversation_response row of space_run_actions
  messages,     \* the responses posted, by what they say of the run
  invocation,   \* state of the linked ai_invocations row
  workflow,     \* "reporting", "reporting_failure", then "over"
  waitsFor,     \* the delivery whose answer the workflow waits for
  pc,           \* where each delivery is
  outcome,      \* the state it computed for the run
  snapshot      \* the run state it read or wrote last

rows == <<run, job, usage, activity, publication, messages, invocation>>
vars == <<kind, rows, workflow, waitsFor, pc, outcome, snapshot>>

Outcomes == {"completed", "completed_with_errors", "failed"}
Terminal == Outcomes \cup {"canceled"}

Kinds == {"task", "conversation", "direct"}

Init ==
  /\ kind \in Kinds
  /\ run = "running" /\ job = "dispatched"
  /\ usage \in {"reserved", "released"}
  /\ activity = 0 /\ publication = "none" /\ messages = <<>>
  /\ invocation = "open"
  /\ workflow = "reporting" /\ waitsFor = Nobody
  /\ pc = [d \in Deliveries |-> "unsent"]
  /\ outcome = [d \in Deliveries |-> "failed"]
  /\ snapshot = [d \in Deliveries |-> "running"]

-----------------------------------------------------------------------------
(* The workflow's complete step.                                           *)

\* The state that the reported status gives the run; success may still be
\* turned into an error by unconfirmed effects or an unfinished task.
personalAgentRuntimeCompletionOutcome ==
  IF workflow = "reporting" THEN Outcomes ELSE {"failed"}

Send(d) ==
  /\ workflow # "over" /\ waitsFor = Nobody
  /\ pc[d] = "unsent"
  /\ waitsFor' = d
  /\ pc' = [pc EXCEPT ![d] = "validate"]
  /\ \E state \in personalAgentRuntimeCompletionOutcome :
       outcome' = [outcome EXCEPT ![d] = state]
  /\ UNCHANGED <<kind, rows, workflow, snapshot>>

\* No answer in time, or a dropped connection: the step will be retried.
StopWaiting ==
  /\ waitsFor # Nobody
  /\ waitsFor' = Nobody
  /\ UNCHANGED <<kind, rows, workflow, pc, outcome, snapshot>>

-----------------------------------------------------------------------------
(* The handler.  A delivery nobody waits for goes on all the same, until   *)
(* its canceled context stops it.                                          *)

Goto(d, label) ==
  /\ pc' = [pc EXCEPT ![d] = label]
  /\ UNCHANGED <<kind, workflow, waitsFor, outcome>>

\* 200: the workflow is done.
AnswerOK(d) ==
  /\ pc' = [pc EXCEPT ![d] = "ok"]
  /\ workflow' = IF waitsFor = d THEN "over" ELSE workflow
  /\ waitsFor' = IF waitsFor = d THEN Nobody ELSE waitsFor
  /\ UNCHANGED <<kind, outcome>>

\* An error: a transient one is retried; any other ends the step, and the
\* workflow reports a failure once.
AnswerError(d) ==
  /\ pc' = [pc EXCEPT ![d] = "error"]
  /\ \/ workflow' = workflow
     \/ /\ waitsFor = d
        /\ workflow' = IF workflow = "reporting" THEN "reporting_failure" ELSE "over"
  /\ waitsFor' = IF waitsFor = d THEN Nobody ELSE waitsFor
  /\ UNCHANGED <<kind, outcome>>

Stops(d) ==
  /\ pc[d] \notin {"unsent", "ok", "error"}
  /\ AnswerError(d)
  /\ UNCHANGED <<rows, snapshot>>

\* A run in this state is answered in its source conversation.
Publishes(state) == state = "completed" \/ kind = "conversation"

AfterRelease(state) == IF Publishes(state) THEN "claim" ELSE "project"

\* ValidatePersonalAgentTaskRuntime, or else the replay of an ended run.
Validate(d) ==
  /\ pc[d] = "validate"
  /\ snapshot' = [snapshot EXCEPT ![d] = run]
  /\ \/ run = "running" /\ job = "dispatched" /\ Goto(d, "reserve")
     \/ run \in Terminal /\ Goto(d, AfterRelease(run))
  /\ UNCHANGED rows

AfterSettleAtOnce == "finish"

AfterSettle == IF kind = "task" THEN "find_activity" ELSE "finish"

\* settlePersonalAgentRuntimeUsage takes a released reservation again (or is
\* refused one, which a failed run survives) ...
ReserveUsage(d) ==
  /\ pc[d] = "reserve"
  /\ \/ /\ usage' = IF usage = "released" THEN "reserved" ELSE usage
        /\ Goto(d, "settle")
     \/ outcome[d] = "failed" /\ Goto(d, AfterSettle) /\ UNCHANGED usage
  /\ UNCHANGED <<run, job, activity, publication, messages, invocation, snapshot>>

\* ... then releases it, when the run failed or no usage was reported, or
\* settles it; one that is no longer reserved stays as it is.
SettleUsage(d) ==
  /\ pc[d] = "settle"
  /\ \E end \in {"settled", "released"} :
       /\ outcome[d] = "failed" => end = "released"
       /\ usage' = IF usage = "reserved" THEN end ELSE usage
  /\ Goto(d, AfterSettle)
  /\ UNCHANGED <<run, job, activity, publication, messages, invocation, snapshot>>

\* AddPersonalAgentRuntimeFinalActivity looks, then inserts; nothing keeps
\* two transactions from doing so at once.
FindFinalActivity(d) ==
  /\ pc[d] = "find_activity"
  /\ Goto(d, IF activity > 0 THEN "finish" ELSE "add_activity")
  /\ UNCHANGED <<rows, snapshot>>

AddFinalActivity(d) ==
  /\ pc[d] = "add_activity"
  /\ activity' = activity + 1
  /\ Goto(d, "finish")
  /\ UNCHANGED <<run, job, usage, publication, messages, invocation, snapshot>>

UnfinishedOrCanceled == {"running", "canceled"}

\* The states FinishSpaceRun may end.
Unfinished == {"running"}

FinishSpaceRun(d) ==
  /\ pc[d] = "finish" /\ run \in Unfinished
  /\ run' = outcome[d]
  /\ snapshot' = [snapshot EXCEPT ![d] = outcome[d]]
  /\ Goto(d, "end_job")
  /\ UNCHANGED <<job, usage, activity, publication, messages, invocation>>

JobState(state) ==
  IF state \in {"completed", "completed_with_errors"} THEN "completed" ELSE state

\* FinishDispatchedPersonalAgentTaskRunJob.
FinishJob(d) ==
  /\ pc[d] = "end_job" /\ job \in {"dispatched", JobState(outcome[d])}
  /\ job' = JobState(outcome[d])
  /\ Goto(d, "release")
  /\ UNCHANGED <<run, usage, activity, publication, messages, invocation, snapshot>>

Released == IF usage = "reserved" THEN "released" ELSE usage

\* ReleasePersonalAgentRuntimeReservations.
ReleaseReservations(d) ==
  /\ pc[d] = "release"
  /\ usage' = Released
  /\ Goto(d, AfterRelease(snapshot[d]))
  /\ UNCHANGED <<run, job, activity, publication, messages, invocation, snapshot>>

ClaimableAgain == publication # "completed" /\ run \in Terminal

Claimable ==
  \/ publication = "failed"
  \/ publication = "none" /\ run \in {"completed", "failed", "canceled"}

\* Under the advisory lock of the run; a claim that is not granted is no error.
ClaimRunResponsePublication(d) ==
  /\ pc[d] = "claim"
  /\ \/ Claimable /\ publication' = "approved" /\ Goto(d, "post")
     \/ ~Claimable /\ UNCHANGED publication /\ Goto(d, "project")
  /\ UNCHANGED <<run, job, usage, activity, messages, invocation, snapshot>>

SaysOutcome(d) == outcome[d]

\* What the text says of the run: "Completed ..." or "I couldn't finish that."
Says(d) == snapshot[d]

\* CreatePersonalAgentSpaceMessage and its siblings; the author may have lost
\* the right to write.
PostResponse(d) ==
  /\ pc[d] = "post"
  /\ \/ /\ messages' = Append(messages, IF Says(d) = "completed" THEN "finished" ELSE "unfinished")
        /\ Goto(d, "record")
     \/ UNCHANGED messages /\ Goto(d, "record_failure")
  /\ UNCHANGED <<run, job, usage, activity, publication, invocation, snapshot>>

FinishRunResponsePublication(d) ==
  /\ \/ /\ pc[d] = "record" /\ Goto(d, "project")
        /\ publication' = IF publication = "approved" THEN "completed" ELSE publication
     \/ /\ pc[d] = "record_failure" /\ AnswerError(d)
        /\ publication' = IF publication = "approved" THEN "failed" ELSE publication
  /\ UNCHANGED <<run, job, usage, activity, messages, invocation, snapshot>>

\* A linked invocation that is still open gets its final event.  When it
\* cannot be loaded or restored, or its failure cannot be recorded, it stays
\* open and the answer is 200 all the same; only the errors of preparing and
\* finishing an answer are reported, the latter perhaps after the commit.
completeLinkedAIInvocation(d) ==
  /\ pc[d] = "project"
  /\ invocation' \in {invocation, "closed"}
  /\ AnswerOK(d) \/ AnswerError(d)
  /\ UNCHANGED <<run, job, usage, activity, publication, messages, snapshot>>

-----------------------------------------------------------------------------
(* What may happen to the run in the meantime.                             *)

CancelPersonalAgentTaskRunForOwner ==
  /\ run = "running"
  /\ run' = "canceled" /\ job' = "canceled" /\ usage' = Released
  /\ UNCHANGED <<activity, publication, messages, invocation>>
  /\ UNCHANGED <<kind, workflow, waitsFor, pc, outcome, snapshot>>

\* The workflow is over and the run has no confirmed completion.
RecordAgentRuntimeStatus ==
  /\ run = "running" /\ workflow = "over"
  /\ run' = "failed" /\ job' = "failed" /\ usage' = Released
  /\ UNCHANGED <<activity, publication, messages, invocation>>
  /\ UNCHANGED <<kind, workflow, waitsFor, pc, outcome, snapshot>>

\* The first statement of every claim of jobs.
SyncJob ==
  /\ run \in Terminal /\ job = "dispatched"
  /\ job' = JobState(run)
  /\ UNCHANGED <<run, usage, activity, publication, messages, invocation>>
  /\ UNCHANGED <<kind, workflow, waitsFor, pc, outcome, snapshot>>

\* The workflow is canceled, or its engine gives up on it.
WorkflowEnds ==
  /\ workflow # "over"
  /\ workflow' = "over" /\ waitsFor' = Nobody
  /\ UNCHANGED <<kind, rows, pc, outcome, snapshot>>

-----------------------------------------------------------------------------
Handle(d) ==
  \/ Validate(d)
  \/ ReserveUsage(d)
  \/ SettleUsage(d)
  \/ FindFinalActivity(d)
  \/ AddFinalActivity(d)
  \/ FinishSpaceRun(d)
  \/ FinishJob(d)
  \/ ReleaseReservations(d)
  \/ ClaimRunResponsePublication(d)
  \/ PostResponse(d)
  \/ FinishRunResponsePublication(d)
  \/ completeLinkedAIInvocation(d)

Next ==
  \/ \E d \in Deliveries : Send(d) \/ Handle(d) \/ Stops(d)
  \/ StopWaiting
  \/ WorkflowEnds
  \/ CancelPersonalAgentTaskRunForOwner
  \/ RecordAgentRuntimeStatus
  \/ SyncJob

Spec == Init /\ [][Next]_vars

-----------------------------------------------------------------------------
Labels == {"unsent", "validate", "reserve", "settle", "find_activity",
           "add_activity", "finish", "end_job", "release", "claim", "post", "record",
           "record_failure", "project", "ok", "error"}

TypeOK ==
  /\ kind \in Kinds
  /\ run \in {"running"} \cup Terminal
  /\ job \in {"dispatched", "completed", "failed", "canceled"}
  /\ usage \in {"reserved", "settled", "released"}
  /\ activity \in Nat
  /\ publication \in {"none", "approved", "completed", "failed"}
  /\ messages \in Seq({"finished", "unfinished"})
  /\ invocation \in {"open", "closed"}
  /\ workflow \in {"reporting", "reporting_failure", "over"}
  /\ waitsFor \in Deliveries \cup {Nobody}
  /\ pc \in [Deliveries -> Labels]
  /\ outcome \in [Deliveries -> Outcomes]
  /\ snapshot \in [Deliveries -> {"running"} \cup Terminal]

\* Replayed and overlapping completions post one response at most, and the
\* publication row never claims a response that does not exist or denies one
\* that does.
OneResponse ==
  /\ Len(messages) <= 1
  /\ publication = "completed" => Len(messages) = 1
  /\ publication \in {"none", "failed"} => Len(messages) = 0

\* The response says of the run what its row says, although its text is
\* written by a delivery that may have computed another outcome itself.
ResponseTellsOutcome ==
  \A i \in 1..Len(messages) : (messages[i] = "finished") <=> (run = "completed")

\* A task's run is not reported completed before its final activity can be
\* read, whichever of several deliveries wrote it.
ActivityBeforeOutcome ==
  kind = "task" /\ run \in {"completed", "completed_with_errors"} => activity > 0

\* A run canceled under a completion in flight stays canceled, no delivery
\* that answers 200 leaves the run open, and AgentRuntimeComplete closes the
\* linked invocation only behind a run that has ended.  (Its 200 says nothing
\* of the invocation, which may be left open.)
AcknowledgedIsEnded ==
  [][/\ run \in Terminal => run' = run
     /\ \A d \in Deliveries : pc[d] # "ok" /\ pc'[d] = "ok" => run' \in Terminal
     /\ invocation' # invocation => invocation = "open" /\ run \in Terminal]_vars

\* The terminal result of a conversation's run is delivered to it: an
\* acknowledged completion has at least claimed the publication.
TerminalResultClaimed ==
  kind = "conversation" /\ (\E d \in Deliveries : pc[d] = "ok") => publication # "none"

Delivering == {"post", "record", "record_failure"}

\* The claim is retryable after a failed delivery: it is not left taken when
\* nothing was posted and no delivery is under way.
FailedDeliveryRetryable ==
  publication = "approved" /\ messages = <<>>
    => \E d \in Deliveries : pc[d] \in Delivering
=============================================================================
