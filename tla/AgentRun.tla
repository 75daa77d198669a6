------------------------------ MODULE AgentRun ------------------------------
(***************************************************************************)
(* The lifecycle of a Space agent run: the rows space_runs, agent_run_jobs *)
(* and agent_runtime_start_receipts, the polling workers that claim jobs   *)
(* and dispatch them, the start adapter of apps/agent-runtime that submits *)
(* a durable workflow under a start receipt, the workflow itself, and the  *)
(* reconciliation and cancellation deliveries.  Every action is one        *)
(* database transaction or one remote call of one actor, so that crashes,  *)
(* timeouts and late requests fall between them.                           *)
(*                                                                         *)
(* Workflows of a run are numbered 1, 2, ... in order of submission; 0     *)
(* stands for the empty runtime_run_id.                                    *)
(***************************************************************************)
EXTENDS Naturals, FiniteSets, Sequences

CONSTANTS
  Runs,         \* identities of space_runs rows
  Agents,       \* identities of misty_ask_identities rows
  AgentOf,      \* agent_id of each run
  TaskRuns,     \* the runs with a source_task_id
  LegacyRuns,   \* failed task runs that earlier releases left behind
  Backlog,      \* runs whose last lease expired with its process, oldest first
  Workers,      \* processes that run runPersonalAgentTaskProcessing
  Nobody,       \* lease_owner IS NULL
  Gone,         \* lease_owner of a process that no longer exists
  Limit,        \* jobs per claim: the 2 of runPersonalAgentTaskProcessing
  MaxAttempts,  \* the 3 of FailPersonalAgentTaskRunJob and of the CHECK
  MaxCrashes    \* bound on worker crashes explored

ASSUME RunConstants ==
  /\ AgentOf \in [Runs -> Agents]
  /\ TaskRuns \subseteq Runs /\ LegacyRuns \subseteq TaskRuns
  /\ Nobody \notin Workers /\ Gone \notin Workers /\ Nobody # Gone
  /\ Limit \in Nat \ {0} /\ MaxAttempts \in Nat \ {0} /\ MaxCrashes \in Nat

ASSUME BacklogConstants ==
  /\ Backlog \in Seq(Runs \ LegacyRuns)
  /\ \A i, j \in 1..Len(Backlog) :
       AgentOf[Backlog[i]] = AgentOf[Backlog[j]] => i = j

VARIABLES
  run,       \* space_runs.state ("absent": no row; "awaiting": awaiting_*)
  runtime,   \* space_runs.runtime_run_id
  reconcileDue, \* a runtime.reconcile delivery is queued
  cancelDue,    \* a runtime.cancel delivery is queued
  job,       \* agent_run_jobs.state ("none": no row)
  attempt,   \* agent_run_jobs.attempt
  lease,     \* agent_run_jobs.lease_owner
  expired,   \* lease_expires_at <= NOW()
  order,     \* the jobs whose available_at has come, by available_at
  token,     \* agent_runtime_start_receipts: the row, with its claim, exists
  recorded,  \* agent_runtime_start_receipts.runtime_run_id
  adapter,   \* the start adapter that holds the claim of the run
  late,      \* a start request its sender gave up on is still on its way
  wf,        \* the workflows submitted for the run and how far each got
  acted,     \* the workflows of the run that had a tool call admitted
  hand,      \* completion callback: "idle", "validated" or "finished"
  pc, cur, reply, batch,  \* dispatch loop of each worker
  crashes

space_runs == <<run, runtime, reconcileDue, cancelDue>>
agent_run_jobs == <<job, attempt, lease, expired, order>>
receipts == <<token, recorded>>
runtimeVars == <<adapter, late, wf, acted, hand>>
workerVars == <<pc, cur, reply, batch, crashes>>
vars == <<space_runs, agent_run_jobs, receipts, runtimeVars, workerVars>>

Terminal == {"completed", "completed_with_errors", "failed", "canceled"}
Live == {"queued", "running"}
Active == {"leased", "dispatched"}
Open == {"queued", "leased", "dispatched"}

-----------------------------------------------------------------------------
(* Rows are created together with their job, by a new run or by a retry.   *)

\* A worker claimed the run for the last time and died before it sent the
\* start, as WorkerCrashes may leave a run behind.
Stranded(r) == \E i \in 1..Len(Backlog) : Backlog[i] = r

Init ==
  /\ run = [r \in Runs |-> IF Stranded(r) THEN "running"
                           ELSE IF r \in LegacyRuns THEN "failed" ELSE "absent"]
  /\ job = [r \in Runs |-> IF Stranded(r) THEN "leased"
                           ELSE IF r \in LegacyRuns THEN "failed" ELSE "none"]
  /\ runtime = [r \in Runs |-> 0]
  /\ reconcileDue = [r \in Runs |-> FALSE]
  /\ cancelDue = [r \in Runs |-> FALSE]
  /\ attempt = [r \in Runs |-> IF Stranded(r) THEN MaxAttempts ELSE 0]
  /\ lease = [r \in Runs |-> IF Stranded(r) THEN Gone ELSE Nobody]
  /\ expired = [r \in Runs |-> Stranded(r)]
  /\ order = Backlog
  /\ token = [r \in Runs |-> FALSE]
  /\ recorded = [r \in Runs |-> 0]
  /\ adapter = [r \in Runs |-> "idle"]
  /\ late = [r \in Runs |-> FALSE]
  /\ wf = [r \in Runs |-> <<>>]
  /\ acted = [r \in Runs |-> {}]
  /\ hand = [r \in Runs |-> "idle"]
  /\ pc = [w \in Workers |-> "idle"]
  /\ cur = [w \in Workers |-> Nobody]
  /\ reply = [w \in Workers |-> 0]
  /\ batch = [w \in Workers |-> {}]
  /\ crashes = 0

Insert(r) ==
  /\ run[r] = "absent"
  /\ run' = [run EXCEPT ![r] = "queued"]
  /\ job' = [job EXCEPT ![r] = "queued"]
  /\ order' = Append(order, r)
  /\ UNCHANGED <<runtime, reconcileDue, cancelDue, attempt, lease, expired>>
  /\ UNCHANGED <<receipts, runtimeVars, workerVars>>

CreateCreatorAgentRun(r) == r \notin TaskRuns /\ Insert(r)

\* A completed run may be retried when one of its steps failed; steps are
\* not modelled, so any completed run may.
RetryPersonalAgentTaskRunForOwner(old, new) ==
  /\ run[old] \in Terminal
  /\ AgentOf[old] = AgentOf[new] /\ (old \in TaskRuns <=> new \in TaskRuns)
  /\ Insert(new)

-----------------------------------------------------------------------------
(* The jobs table: claims, leases and availability.                        *)

\* The job state that a run's outcome asks for.
JobOutcomeIgnoresFailure(r) ==
  IF run[r] = "canceled" THEN "canceled" ELSE "completed"
JobOutcomeVerbatim(r) == run[r]

JobOutcome(r) ==
  IF run[r] \in {"completed", "completed_with_errors"} THEN "completed" ELSE run[r]

\* Jobs of terminal runs follow their run at the start of every claim.
NeverSynced(r) == job[r]

Synced(r) ==
  IF job[r] \in Open /\ run[r] \in Terminal THEN JobOutcome(r) ELSE job[r]

CandidateOrSuspect(r) ==
  /\ \E i \in 1..Len(order) : order[i] = r
  /\ \/ job[r] = "queued" \/ (job[r] = "leased" /\ expired[r])
     \/ job[r] = "dispatched" /\ reconcileDue[r]
  /\ run[r] \in Live

Candidate(r) ==
  /\ \E i \in 1..Len(order) : order[i] = r
  /\ job[r] = "queued" \/ (job[r] = "leased" /\ expired[r])
  /\ run[r] \in Live

Before(r, q) ==
  \E i, j \in 1..Len(order) : i < j /\ order[i] = r /\ order[j] = q

AgentNotDispatched(r) ==
  \A q \in Runs \ {r} : AgentOf[q] = AgentOf[r] => Synced(q) # "dispatched"

\* No other job of the agent is leased or dispatched.
AgentFree(r) ==
  \A q \in Runs \ {r} : AgentOf[q] = AgentOf[r] => Synced(q) \notin Active

\* The jobs a claim may take: its agent's advisory lock is not held by the
\* concurrent claim of another worker (busy) and the agent is free.
Eligible(busy) ==
  {r \in Runs : Candidate(r) /\ AgentOf[r] \notin busy /\ AgentFree(r)}

\* One job per agent, in order of availability, at most Limit of them.
Chosen(busy, S) ==
  /\ S \subseteq Eligible(busy)
  /\ \A r, q \in S : AgentOf[r] = AgentOf[q] => r = q
  /\ Cardinality(S) <= Limit
  /\ \A r \in Eligible(busy) \ S :
       \/ \E q \in S : AgentOf[q] = AgentOf[r] /\ Before(q, r)
       \/ Cardinality(S) = Limit /\ \A q \in S : Before(q, r)

\* A job whose claim would ask for more attempts than the table's CHECK has.
AttemptsUsedUp == \E r \in Eligible({}) : attempt[r] = MaxAttempts

\* Such a claim is refused: the transaction, sync included, is undone.
ClaimPersonalAgentTaskRunJobs(w, busy, S) ==
  /\ pc[w] = "idle"
  /\ Chosen(busy, S)
  /\ \A r \in S : attempt[r] < MaxAttempts
  /\ job' = [r \in Runs |-> IF r \in S THEN "leased" ELSE Synced(r)]
  /\ lease' = [r \in Runs |-> IF r \in S THEN w
                              ELSE IF Synced(r) # job[r] THEN Nobody
                              ELSE lease[r]]
  /\ attempt' = [r \in Runs |-> IF r \in S THEN attempt[r] + 1 ELSE attempt[r]]
  /\ expired' = [r \in Runs |-> expired[r] /\ r \notin S /\ Synced(r) = job[r]]
  /\ run' = [r \in Runs |-> IF r \in S THEN "running" ELSE run[r]]
  /\ batch' = [batch EXCEPT ![w] = S]
  /\ pc' = [pc EXCEPT ![w] = IF S = {} THEN "idle" ELSE "start"]
  /\ UNCHANGED <<runtime, reconcileDue, cancelDue, order, cur, reply, crashes>>
  /\ UNCHANGED <<receipts, runtimeVars>>

LeaseExpires(r) ==
  /\ job[r] = "leased" /\ ~expired[r]
  /\ expired' = [expired EXCEPT ![r] = TRUE]
  /\ UNCHANGED <<job, attempt, lease, order>>
  /\ UNCHANGED <<space_runs, receipts, runtimeVars, workerVars>>

\* The retry delay of a requeued job has passed.
BecomesAvailable(r) ==
  /\ job[r] = "queued" /\ \A i \in 1..Len(order) : order[i] # r
  /\ order' = Append(order, r)
  /\ UNCHANGED <<job, attempt, lease, expired>>
  /\ UNCHANGED <<space_runs, receipts, runtimeVars, workerVars>>

-----------------------------------------------------------------------------
(* The dispatch loop of a worker, one job of its batch after the other.    *)

\* The worker is done with run r.
NextJob(w, r) ==
  /\ batch' = [batch EXCEPT ![w] = @ \ {r}]
  /\ pc' = [pc EXCEPT ![w] = IF batch[w] = {r} THEN "idle" ELSE "start"]
  /\ cur' = [cur EXCEPT ![w] = Nobody]
  /\ reply' = [reply EXCEPT ![w] = 0]

Goto(w, label, id) ==
  /\ pc' = [pc EXCEPT ![w] = label]
  /\ reply' = [reply EXCEPT ![w] = id]
  /\ UNCHANGED <<cur, batch, crashes>>

\* The worker sends POST /v1/runs.
Start(w, r) ==
  /\ pc[w] = "start" /\ r \in batch[w]
  /\ pc' = [pc EXCEPT ![w] = "sent"]
  /\ cur' = [cur EXCEPT ![w] = r]
  /\ UNCHANGED <<reply, batch, crashes>>
  /\ UNCHANGED <<space_runs, agent_run_jobs, receipts, runtimeVars>>

\* AgentRuntimeStartReceipt without a claim: the first caller, and no other,
\* may submit.
UnclaimedOrPending(r) == runtime[r] = 0 /\ recorded[r] = 0 /\ run[r] \in Live

Unclaimed(r) ==
  runtime[r] = 0 /\ recorded[r] = 0 /\ run[r] \in Live /\ ~token[r]

GrantClaim(r) ==
  /\ Unclaimed(r)
  /\ token' = [token EXCEPT ![r] = TRUE]
  /\ adapter' = [adapter EXCEPT ![r] = "submit"]
  /\ UNCHANGED recorded

\* The identity it answers with: of the bound or else the recorded workflow.
KnownIdentity(r) == IF runtime[r] # 0 THEN runtime[r] ELSE recorded[r]

StartClaimed(w) ==
  /\ pc[w] = "sent" /\ GrantClaim(cur[w])
  /\ Goto(w, "submitting", 0)
  /\ UNCHANGED <<late, wf, acted, hand>>
  /\ UNCHANGED <<space_runs, agent_run_jobs>>

StartKnown(w) ==
  /\ pc[w] = "sent" /\ KnownIdentity(cur[w]) # 0
  /\ Goto(w, "started", KnownIdentity(cur[w]))
  /\ UNCHANGED <<space_runs, agent_run_jobs, receipts, runtimeVars>>

\* The run is over, or its claim is held by an unconfirmed start.
StartRefused(w) ==
  /\ pc[w] = "sent" /\ KnownIdentity(cur[w]) = 0
  /\ ~Unclaimed(cur[w])
  /\ Goto(w, "failed", 0)
  /\ UNCHANGED <<space_runs, agent_run_jobs, receipts, runtimeVars>>

\* The adapter that holds the claim of cur[w] has answered.
StartAnswered(w) ==
  /\ pc[w] = "submitting"
  /\ \/ adapter[cur[w]] = "done" /\ Goto(w, "started", recorded[cur[w]])
     \/ adapter[cur[w]] = "stopped" /\ Goto(w, "failed", 0)
  /\ UNCHANGED <<space_runs, agent_run_jobs, receipts, runtimeVars>>

\* No answer within 20 s, or a broken connection; the request may yet arrive.
StartTimesOut(w) ==
  /\ pc[w] \in {"sent", "submitting"}
  /\ Goto(w, "failed", 0)
  /\ late' = [late EXCEPT ![cur[w]] = @ \/ pc[w] = "sent"]
  /\ UNCHANGED <<adapter, wf, acted, hand>>
  /\ UNCHANGED <<space_runs, agent_run_jobs, receipts>>

\* The two statements that bind workflow k and end the lease.
Dispatch(r, k) ==
  /\ job' = [job EXCEPT ![r] = "dispatched"]
  /\ lease' = [lease EXCEPT ![r] = Nobody]
  /\ expired' = [expired EXCEPT ![r] = FALSE]
  /\ run' = [run EXCEPT ![r] = "running"]
  /\ runtime' = [runtime EXCEPT ![r] = k]
  /\ UNCHANGED <<attempt, order, reconcileDue, cancelDue>>

MayMark(w, r, k) ==
  /\ runtime[r] \in {0, k}
  /\ job[r] = "dispatched" \/ (job[r] = "leased" /\ lease[r] = w)
  /\ run[r] \in Live

MarkPersonalAgentTaskRunDispatched(w) ==
  /\ pc[w] = "started"
  /\ \/ /\ MayMark(w, cur[w], reply[w])
        /\ Dispatch(cur[w], reply[w])
        /\ NextJob(w, cur[w]) /\ UNCHANGED crashes
     \/ /\ ~MayMark(w, cur[w], reply[w])
        /\ Goto(w, "failed", 0)
        /\ UNCHANGED <<space_runs, agent_run_jobs>>
  /\ UNCHANGED <<receipts, runtimeVars>>

Holds(w, r) == job[r] = "leased" /\ lease[r] = w

EndJob(r, state) ==
  /\ job' = [job EXCEPT ![r] = state]
  /\ lease' = [lease EXCEPT ![r] = Nobody]
  /\ expired' = [expired EXCEPT ![r] = FALSE]

\* FailPersonalAgentTaskRunJob: another attempt, after a delay.
Requeue(w, r) ==
  /\ Holds(w, r) /\ attempt[r] < MaxAttempts /\ run[r] = "running"
  /\ EndJob(r, "queued")
  /\ run' = [run EXCEPT ![r] = "queued"]
  /\ \E i \in 1..Len(order) :
       order[i] = r /\ order' = SubSeq(order, 1, i - 1) \o SubSeq(order, i + 1, Len(order))
  /\ NextJob(w, r)
  /\ UNCHANGED attempt

\* ... no further attempt: the job ends, and the caller still has to end the
\* run of a task; the run of a direct instruction is left as it is.
GiveUp(w, r) ==
  /\ Holds(w, r) /\ ~(attempt[r] < MaxAttempts /\ run[r] = "running")
  /\ EndJob(r, IF run[r] = "canceled" THEN "canceled" ELSE "failed")
  /\ IF r \in TaskRuns THEN Goto(w, "finishing", 0) ELSE NextJob(w, r)
  /\ UNCHANGED <<run, attempt, order>>

\* ... the lease is lost; a job that failed meanwhile counts as failed here.
LeaseLost(w, r) ==
  /\ ~Holds(w, r)
  /\ IF job[r] = "failed" /\ r \in TaskRuns
     THEN Goto(w, "finishing", 0) ELSE NextJob(w, r)
  /\ UNCHANGED <<run, agent_run_jobs>>

FailPersonalAgentTaskRunJob(w) ==
  /\ pc[w] = "failed"
  /\ \/ Requeue(w, cur[w])
     \/ GiveUp(w, cur[w])
     \/ LeaseLost(w, cur[w])
  /\ UNCHANGED <<runtime, reconcileDue, cancelDue, receipts, runtimeVars, crashes>>

\* finishPersonalAgentTaskRun.
FinishTaskRun(w) ==
  /\ pc[w] = "finishing"
  /\ run' = [run EXCEPT ![cur[w]] = IF @ \in Live THEN "failed" ELSE @]
  /\ NextJob(w, cur[w])
  /\ UNCHANGED <<runtime, reconcileDue, cancelDue, agent_run_jobs>>
  /\ UNCHANGED <<receipts, runtimeVars, crashes>>

\* A restarted process polls under a new worker id.
WorkerCrashes(w) ==
  /\ pc[w] # "idle" /\ crashes < MaxCrashes
  /\ pc' = [pc EXCEPT ![w] = "idle"]
  /\ batch' = [batch EXCEPT ![w] = {}]
  /\ cur' = [cur EXCEPT ![w] = Nobody]
  /\ reply' = [reply EXCEPT ![w] = 0]
  /\ crashes' = crashes + 1
  /\ lease' = [r \in Runs |-> IF lease[r] = w THEN Gone ELSE lease[r]]
  /\ late' = [r \in Runs |-> late[r] \/ (pc[w] = "sent" /\ cur[w] = r)]
  /\ UNCHANGED <<job, attempt, expired, order>>
  /\ UNCHANGED <<adapter, wf, acted, hand, space_runs, receipts>>

-----------------------------------------------------------------------------
(* The start adapter: startWithReceipt of apps/agent-runtime.              *)

\* A request nobody waits for any more reaches the adapter.
LateStart(r) ==
  /\ late[r] /\ late' = [late EXCEPT ![r] = FALSE]
  /\ GrantClaim(r) \/ (~Unclaimed(r) /\ UNCHANGED <<receipts, adapter>>)
  /\ UNCHANGED <<wf, acted, hand>>
  /\ UNCHANGED <<space_runs, agent_run_jobs, workerVars>>

\* The engine may commit the submission and still raise, or the adapter may
\* die after it; and it may fail before committing anything.
AdapterSubmit(r) ==
  /\ adapter[r] = "submit"
  /\ \/ /\ wf' = [wf EXCEPT ![r] = Append(@, "submitted")]
        /\ \E next \in {"record", "stopped"} :
             adapter' = [adapter EXCEPT ![r] = next]
     \/ adapter' = [adapter EXCEPT ![r] = "stopped"] /\ UNCHANGED wf
  /\ UNCHANGED <<late, acted, hand>>
  /\ UNCHANGED <<space_runs, agent_run_jobs, receipts, workerVars>>

\* AgentRuntimeStartReceipt with the claim and the new workflow's identity.
AdapterRecord(r) ==
  LET id == Len(wf[r]) IN
  /\ adapter[r] = "record"
  /\ \/ /\ recorded[r] \in {0, id} /\ runtime[r] \in {0, id}
        /\ recorded' = [recorded EXCEPT ![r] = id]
        /\ adapter' = [adapter EXCEPT ![r] = "done"]
     \/ adapter' = [adapter EXCEPT ![r] = "stopped"] /\ UNCHANGED recorded
  /\ UNCHANGED <<token, late, wf, acted, hand>>
  /\ UNCHANGED <<space_runs, agent_run_jobs, workerVars>>

-----------------------------------------------------------------------------
(* The workflow runSpaceTaskAgent and the control plane it calls.          *)

MayActivate(r, k) ==
  job[r] \in Active /\ runtime[r] \in {0, k} /\ run[r] \in Live

\* The step is retried when its answer is lost; a refusal is fatal.
ActivatePersonalAgentTaskRuntime(r, k) ==
  /\ wf[r][k] = "submitted"
  /\ \/ /\ MayActivate(r, k) /\ Dispatch(r, k)
        /\ \E next \in {"working", "submitted"} : wf' = [wf EXCEPT ![r][k] = next]
     \/ /\ ~MayActivate(r, k)
        /\ wf' = [wf EXCEPT ![r][k] = "exited"]
        /\ UNCHANGED <<space_runs, agent_run_jobs>>
  /\ UNCHANGED <<adapter, late, acted, hand>>
  /\ UNCHANGED <<receipts, workerVars>>

ValidatePersonalAgentTaskRuntime(r, k) ==
  run[r] = "running" /\ runtime[r] = k /\ job[r] = "dispatched"

\* A tool call, a model turn or a checkpoint is admitted.  What it then does
\* is the subject of ToolJournal.
AdmitToolCall(r, k) ==
  /\ wf[r][k] = "working" /\ ValidatePersonalAgentTaskRuntime(r, k)
  /\ acted' = [acted EXCEPT ![r] = @ \cup {k}]
  /\ UNCHANGED <<adapter, late, wf, hand>>
  /\ UNCHANGED <<space_runs, agent_run_jobs, receipts, workerVars>>

\* An approval, a device or an intervention is waited for ...
Await(r, k) ==
  /\ wf[r][k] = "working" /\ ValidatePersonalAgentTaskRuntime(r, k)
  /\ run' = [run EXCEPT ![r] = "awaiting"]
  /\ UNCHANGED <<runtime, reconcileDue, cancelDue>>
  /\ UNCHANGED <<agent_run_jobs, receipts, runtimeVars, workerVars>>

\* ... and decided or expired.
Resume(r) ==
  /\ run[r] = "awaiting"
  /\ run' = [run EXCEPT ![r] = "running"]
  /\ UNCHANGED <<runtime, reconcileDue, cancelDue>>
  /\ UNCHANGED <<agent_run_jobs, receipts, runtimeVars, workerVars>>

\* AgentRuntimeComplete validates, ends the run, then ends the job.
CompleteValidated(r, k) ==
  /\ wf[r][k] = "working" /\ ValidatePersonalAgentTaskRuntime(r, k)
  /\ hand[r] = "idle" /\ hand' = [hand EXCEPT ![r] = "validated"]
  /\ UNCHANGED <<adapter, late, wf, acted>>
  /\ UNCHANGED <<space_runs, agent_run_jobs, receipts, workerVars>>

FinishSpaceRun(r, state) ==
  /\ hand[r] = "validated"
  /\ \/ /\ run[r] \in Live
        /\ run' = [run EXCEPT ![r] = state]
        /\ hand' = [hand EXCEPT ![r] = "finished"]
     \/ /\ run[r] \notin Live
        /\ hand' = [hand EXCEPT ![r] = "idle"] /\ UNCHANGED run
  /\ UNCHANGED <<runtime, reconcileDue, cancelDue, adapter, late, wf, acted>>
  /\ UNCHANGED <<agent_run_jobs, receipts, workerVars>>

FinishDispatchedPersonalAgentTaskRunJob(r) ==
  /\ hand[r] = "finished" /\ hand' = [hand EXCEPT ![r] = "idle"]
  /\ job' = [job EXCEPT ![r] =
       IF @ = "dispatched" THEN JobOutcome(r) ELSE @]
  /\ UNCHANGED <<attempt, lease, expired, order, adapter, late, wf, acted>>
  /\ UNCHANGED <<space_runs, receipts, workerVars>>

HandlerCrashes(r) ==
  /\ hand[r] # "idle" /\ hand' = [hand EXCEPT ![r] = "idle"]
  /\ UNCHANGED <<adapter, late, wf, acted>>
  /\ UNCHANGED <<space_runs, agent_run_jobs, receipts, workerVars>>

\* The workflow returns, throws or is lost by its engine.
WorkflowExits(r, k) ==
  /\ wf[r][k] = "working"
  /\ wf' = [wf EXCEPT ![r][k] = "exited"]
  /\ UNCHANGED <<adapter, late, acted, hand>>
  /\ UNCHANGED <<space_runs, agent_run_jobs, receipts, workerVars>>

-----------------------------------------------------------------------------
(* Reconciliation and cancellation.                                        *)

SuspectRunning == {"running"}

Suspect == {"running", "awaiting"}

\* No heartbeat for twelve minutes, as may be the case at any time.
ReconcileStalePersonalAgentTaskRuns(r) ==
  /\ job[r] = "dispatched" /\ run[r] \in Suspect /\ runtime[r] # 0
  /\ ~reconcileDue[r]
  /\ reconcileDue' = [reconcileDue EXCEPT ![r] = TRUE]
  /\ UNCHANGED <<run, runtime, cancelDue>>
  /\ UNCHANGED <<agent_run_jobs, receipts, runtimeVars, workerVars>>

\* Delivery of runtime.reconcile: the engine's status decides.
RecordAgentRuntimeStatus(r) ==
  LET lost == wf[r][runtime[r]] = "exited" /\ run[r] \in Suspect IN
  /\ reconcileDue[r] /\ reconcileDue' = [reconcileDue EXCEPT ![r] = FALSE]
  /\ run' = [run EXCEPT ![r] = IF lost THEN "failed" ELSE @]
  /\ job' = [job EXCEPT ![r] = IF lost /\ @ = "dispatched" THEN "failed" ELSE @]
  /\ UNCHANGED <<runtime, cancelDue, attempt, lease, expired, order>>
  /\ UNCHANGED <<receipts, runtimeVars, workerVars>>

CancelableCompleted == Live \cup {"awaiting", "completed"}

Cancelable == Live \cup {"awaiting"}

CancelRows(S) ==
  /\ run' = [r \in Runs |-> IF r \in S THEN "canceled" ELSE run[r]]
  /\ job' = [r \in Runs |-> IF r \in S /\ job[r] \in Open
                            THEN "canceled" ELSE job[r]]
  /\ lease' = [r \in Runs |-> IF r \in S THEN Nobody ELSE lease[r]]
  /\ expired' = [r \in Runs |-> expired[r] /\ r \notin S]
  /\ UNCHANGED <<runtime, reconcileDue, attempt, order>>
  /\ UNCHANGED <<receipts, runtimeVars, workerVars>>

CancelPersonalAgentTaskRunForOwner(r) ==
  /\ run[r] \in Cancelable
  /\ CancelRows({r})
  /\ cancelDue' = [cancelDue EXCEPT ![r] = runtime[r] # 0]

\* The agent is disabled or deleted; no runtime.cancel is queued.
cancelPersonalAgentRunsTx(a) ==
  LET S == {r \in Runs : AgentOf[r] = a /\ run[r] \in Cancelable} IN
  /\ S # {}
  /\ CancelRows(S)
  /\ UNCHANGED cancelDue

DeliverCancel(r) ==
  /\ cancelDue[r] /\ cancelDue' = [cancelDue EXCEPT ![r] = FALSE]
  /\ wf' = [wf EXCEPT ![r][runtime[r]] = "exited"]
  /\ UNCHANGED <<run, runtime, reconcileDue, adapter, late, acted, hand>>
  /\ UNCHANGED <<agent_run_jobs, receipts, workerVars>>

-----------------------------------------------------------------------------
WorkerStep(w) ==
  \/ \E r \in Runs : Start(w, r)
  \/ StartClaimed(w)
  \/ StartKnown(w)
  \/ StartRefused(w)
  \/ StartAnswered(w)
  \/ MarkPersonalAgentTaskRunDispatched(w)
  \/ FailPersonalAgentTaskRunJob(w)
  \/ FinishTaskRun(w)

\* A claim skips the agents another worker's claim holds the lock of.
Claim(w) ==
  \E busy \in SUBSET {AgentOf[r] : r \in {q \in Runs : Candidate(q)}} :
    /\ busy = {} \/ Workers # {w}
    /\ \E S \in SUBSET Eligible(busy) : ClaimPersonalAgentTaskRunJobs(w, busy, S)

\* A claim that no exhausted job can take down.
UnharmedClaim(w) == pc[w] = "idle" /\ ~AttemptsUsedUp /\ Claim(w)

ClockStep(r) == LeaseExpires(r) \/ BecomesAvailable(r)

AdapterStep(r) == AdapterSubmit(r) \/ AdapterRecord(r)

WorkflowStep(r) ==
  \E k \in 1..Len(wf[r]) :
    \/ ActivatePersonalAgentTaskRuntime(r, k)
    \/ AdmitToolCall(r, k)
    \/ Await(r, k)
    \/ CompleteValidated(r, k)
    \/ WorkflowExits(r, k)

HandlerStep(r) ==
  \/ \E state \in Terminal \ {"canceled"} : FinishSpaceRun(r, state)
  \/ FinishDispatchedPersonalAgentTaskRunJob(r)

ReconcileStep(r) ==
  \/ ReconcileStalePersonalAgentTaskRuns(r)
  \/ RecordAgentRuntimeStatus(r)

Next ==
  \/ \E r \in Runs :
       \/ CreateCreatorAgentRun(r)
       \/ \E old \in Runs : RetryPersonalAgentTaskRunForOwner(old, r)
       \/ ClockStep(r)
       \/ LateStart(r)
       \/ AdapterStep(r)
       \/ WorkflowStep(r)
       \/ Resume(r)
       \/ HandlerStep(r)
       \/ HandlerCrashes(r)
       \/ ReconcileStep(r)
       \/ CancelPersonalAgentTaskRunForOwner(r)
       \/ DeliverCancel(r)
  \/ \E a \in Agents : cancelPersonalAgentRunsTx(a)
  \/ \E w \in Workers :
       \/ Claim(w)
       \/ WorkerStep(w)
       \/ StartTimesOut(w)
       \/ WorkerCrashes(w)

Spec == Init /\ [][Next]_vars

\* Workers poll every two seconds, drain their batch and deliver what is
\* queued; leases, delays and heartbeats run out; the adapter finishes or
\* stops.  A tick is sure to claim only while no job can take the claim
\* down: nothing is assumed of the ticks before an exhausted job is gone.
\* Nothing is assumed of the users, of the model that drives a workflow, or
\* of how often a process crashes.
Fairness ==
  /\ \A w \in Workers :
       WF_vars(UnharmedClaim(w)) /\ WF_vars(WorkerStep(w))
  /\ \A r \in Runs :
       WF_vars(ClockStep(r)) /\ WF_vars(AdapterStep(r)) /\ WF_vars(ReconcileStep(r))

FairSpec == Spec /\ Fairness

-----------------------------------------------------------------------------
TypeOK ==
  /\ run \in [Runs -> {"absent", "awaiting"} \cup Live \cup Terminal]
  /\ job \in [Runs -> {"none", "completed", "failed", "canceled"} \cup Open]
  /\ runtime \in [Runs -> Nat] /\ recorded \in [Runs -> Nat]
  /\ attempt \in [Runs -> 0..MaxAttempts]
  /\ lease \in [Runs -> Workers \cup {Nobody, Gone}]
  /\ reconcileDue \in [Runs -> BOOLEAN] /\ cancelDue \in [Runs -> BOOLEAN]
  /\ expired \in [Runs -> BOOLEAN]
  /\ token \in [Runs -> BOOLEAN] /\ late \in [Runs -> BOOLEAN]
  /\ order \in Seq(Runs)
  /\ adapter \in [Runs -> {"idle", "submit", "record", "done", "stopped"}]
  /\ wf \in [Runs -> Seq({"submitted", "working", "exited"})]
  /\ acted \in [Runs -> SUBSET Nat]
  /\ hand \in [Runs -> {"idle", "validated", "finished"}]
  /\ pc \in [Workers -> {"idle", "start", "sent", "submitting", "started",
                         "failed", "finishing"}]
  /\ cur \in [Workers -> Runs \cup {Nobody}]
  /\ reply \in [Workers -> Nat]
  /\ batch \in [Workers -> SUBSET Runs]
  /\ crashes \in 0..MaxCrashes

\* An agent works on one run at a time, whatever the claims, expired leases,
\* crashes and retries (TestPersonalAgentRuntimeIsFIFOAndSingleActivePerAgent).
SingleActivePerAgent ==
  \A r, q \in Runs :
    job[r] \in Active /\ job[q] \in Active /\ AgentOf[r] = AgentOf[q] => r = q

\* However often the start of a run is asked for, given up and asked for
\* again, at most one workflow is submitted for it.
NoDuplicateSubmission == \A r \in Runs : Len(wf[r]) <= 1

\* The receipt and the binding name the same workflow, and only the bound
\* workflow ever had a tool call of the run admitted.
OneIdentity ==
  \A r \in Runs :
    /\ runtime[r] # 0 /\ recorded[r] # 0 => runtime[r] = recorded[r]
    /\ acted[r] \subseteq {runtime[r]} \ {0}

\* An ended job agrees with its run, except that a job given up before a
\* workflow was bound may have left its run unfinished.
JobAgreesWithRun ==
  \A r \in Runs :
    /\ job[r] = "completed" => run[r] \in {"completed", "completed_with_errors"}
    /\ job[r] = "canceled" => run[r] = "canceled"
    /\ job[r] = "failed" => run[r] = "failed" \/ runtime[r] = 0
    /\ job[r] = "dispatched" => runtime[r] \in 1..Len(wf[r])

\* A missed heartbeat, a late worker or a second activation never restarts a
\* dispatched run: its job does not go back to the queue, it gets no further
\* attempt and its runtime identity stays.
DispatchedNeverRestarts ==
  [][\A r \in Runs : job[r] = "dispatched" =>
       /\ job'[r] \notin {"queued", "leased"}
       /\ attempt'[r] = attempt[r] /\ runtime'[r] = runtime[r]]_vars

\* A run that ended keeps its outcome, whichever of completion, cancellation,
\* reconciliation and given-up dispatch came first, and no tool call is
\* admitted for it any more.
OutcomeIsFinal ==
  [][\A r \in Runs : run[r] \in Terminal =>
       run'[r] = run[r] /\ acted'[r] = acted[r]]_vars

\* Once a run ended, its job ends too and frees the agent, even when the
\* completion handler died between the two updates, provided that the claims
\* of the polling workers do not fail for ever: the sync of ended runs shares
\* the transaction of the claim, which an exhausted job of any agent aborts.
EndedRunFreesAgent ==
  <>[]~AttemptsUsedUp =>
    \A r \in Runs : (run[r] \in Terminal) ~> (job[r] \notin Active)

\* The same without the proviso.
EndedRunAlwaysFreesAgent ==
  \A r \in Runs : (run[r] \in Terminal) ~> (job[r] \notin Active)

\* A dispatched run whose workflow is gone does not stay open for ever.
LostRuntimeSurfaces ==
  \A r \in Runs :
    (job[r] = "dispatched" /\ runtime[r] # 0 /\ wf[r] = <<"exited">>)
      ~> run[r] \in Terminal

\* The CHECK of agent_run_jobs: no claim asks for an attempt beyond the third.
ClaimWithinAttempts ==
  \A w \in Workers, S \in SUBSET Runs :
    pc[w] = "idle" /\ Chosen({}, S) => \A r \in S : attempt[r] < MaxAttempts

\* A workflow that exited without a confirmed completion becomes a visible
\* failure of its run.
ExitedRuntimeBecomesVisible ==
  \A r \in Runs :
    (run[r] \notin Terminal /\ wf[r] = <<"exited">>) ~> run[r] \in Terminal
=============================================================================
