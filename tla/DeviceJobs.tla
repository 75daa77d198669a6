----------------------------- MODULE DeviceJobs -----------------------------
(* One browser action of an agent, executed on a device of the user.  The     *)
(* tool call is admitted by the action journal and waits on a durable job     *)
(* (httpapi/browser_agent_tools.go, postgres/workflow_device_jobs.go); the    *)
(* device polls, leases the job, acknowledges the start, executes and reports *)
(* (postgres/workflow_device_delivery.go, httpapi/agents_validation.go).      *)
(* Leases and deadlines run out, either side falls silent, the run ends or    *)
(* loses its authority.  A step of a device that never comes stands for a     *)
(* reply that was lost or for a device that went to sleep.                    *)
EXTENDS Naturals

CONSTANTS Pollers,       \* claim requests that may overlap
          MaxDeliveries, \* leases of one job (3)
          MaxRecoveries  \* times it is armed again (3)

ASSUME DeviceAssumption == MaxDeliveries \in Nat \ {0} /\ MaxRecoveries \in Nat

VARIABLES job,     \* the row of workflow_device_node_jobs
          call,    \* the journal's row of the tool call
          waiter,  \* the request that executes the call
          poller,  \* claim requests in progress
          device,  \* by lease token: how far the device is
          effects, \* how often the action took effect
          run,     \* state of the run row
          target   \* the context is attached and its device trusted and alive

vars == <<job, call, waiter, poller, device, effects, run, target>>
server == <<call, waiter>>
world == <<run, target>>

\* A lease token is named by the delivery that made it; 0 is none.
Tokens == 1 .. MaxDeliveries
JobStates == {"none", "queued", "leased", "executing", "completed", "failed", "canceled", "uncertain"}
OpenStates == {"queued", "leased", "executing"}
NoJob == [state |-> "none", version |-> 2, token |-> 0, started |-> FALSE, cancel |-> FALSE,
          deliveries |-> 0, recoveries |-> 0, late |-> FALSE, lapsed |-> FALSE]
Idle == [pc |-> "idle", answer |-> "none"]

DeviceTypeOK ==
  /\ job \in [state : JobStates, version : {1, 2}, token : {0} \cup Tokens, started : BOOLEAN,
              cancel : BOOLEAN, deliveries : 0 .. MaxDeliveries, recoveries : 0 .. MaxRecoveries,
              late : BOOLEAN, lapsed : BOOLEAN]
  /\ call \in {"none", "started", "not_attempted", "unknown", "completed"}
  /\ waiter \in [pc : {"idle", "queue", "rearm", "poll", "record"},
                 answer : {"none", "not_attempted", "unknown", "completed"}]
  /\ poller \in [Pollers -> {"idle", "reaped"}]
  /\ device \in [Tokens -> {"none", "claimed", "begun", "done", "quit"}]
  /\ effects \in Nat
  /\ run \in {"running", "waiting", "ended"} /\ target \in BOOLEAN

\* A call of this release, or a job that an earlier one left open: it was admitted,
\* and perhaps leased, under protocol 1 by a process that is gone.
Init ==
  /\ \/ job = NoJob /\ call = "none" /\ device = [t \in Tokens |-> "none"]
     \/ /\ call = "started"
        /\ \/ job = [NoJob EXCEPT !.state = "queued", !.version = 1] /\ device = [t \in Tokens |-> "none"]
           \/ /\ job = [NoJob EXCEPT !.state = "leased", !.version = 1, !.token = 1, !.deliveries = 1]
              /\ device = [t \in Tokens |-> IF t = 1 THEN "begun" ELSE "none"]
  /\ waiter = Idle
  /\ poller = [p \in Pollers |-> "idle"]
  /\ effects = 0
  /\ run = "running" /\ target = TRUE

-----------------------------------------------------------------------------
(* The run and the clock.                                                     *)

\* deviceRunAuthorityTx and validateDeviceJobTargetTx.
Authorized == run = "running" /\ target

\* The run waits for something else, and goes on.
Suspend ==
  /\ run /= "ended" /\ run' = (IF run = "running" THEN "waiting" ELSE "running")
  /\ UNCHANGED <<job, server, poller, device, effects, target>>

TargetChanges ==
  /\ target' = ~target
  /\ UNCHANGED <<job, server, poller, device, effects, run>>

\* Execution may have begun: under protocol 1 from the lease on.
MayHaveBegunNever == FALSE
MayHaveBegun == job.state = "executing" \/ (job.state = "leased" /\ job.version = 1)

\* The trigger cancel_run_device_work.
EndRun ==
  /\ run /= "ended"
  /\ run' = "ended"
  /\ job' = IF job.state \notin OpenStates THEN job
            ELSE [job EXCEPT !.cancel = TRUE, !.state = IF MayHaveBegun THEN @ ELSE "canceled"]
  /\ UNCHANGED <<server, poller, device, effects, target>>

\* A deleted account gives up the work that has not started.
DeleteAccount ==
  /\ job.state \in {"queued", "leased"}
  /\ job' = [job EXCEPT !.state = "canceled"]
  /\ UNCHANGED <<server, poller, device, effects, world>>

\* A lease runs out, at the deadline at the latest.
LeaseLapses ==
  /\ job.state \in {"leased", "executing"} /\ ~job.lapsed
  /\ job' = [job EXCEPT !.lapsed = TRUE]
  /\ UNCHANGED <<server, poller, device, effects, world>>

DeadlinePasses ==
  /\ job.state \in OpenStates /\ ~job.late
  /\ job' = [job EXCEPT !.late = TRUE, !.lapsed = TRUE]
  /\ UNCHANGED <<server, poller, device, effects, world>>

-----------------------------------------------------------------------------
(* The tool call: executeBrowserAgentToolInvocation within the journal.       *)

\* The journal admits a call that is new or is known not to have been attempted.
ClaimCall ==
  /\ waiter = Idle /\ call \in {"none", "not_attempted"}
  /\ call' = "started" /\ waiter' = [Idle EXCEPT !.pc = "queue"]
  /\ UNCHANGED <<job, poller, device, effects, world>>

Answer(a) == waiter' = [pc |-> "record", answer |-> a]
Goto(pc) == waiter' = [waiter EXCEPT !.pc = pc]

\* The job is inserted, or found again.  A run without authority, a job for other
\* arguments, another context or another device, and a failed transaction are errors,
\* which the journal takes for unknown.
QueueJob ==
  /\ waiter.pc = "queue"
  /\ \/ Answer("unknown") /\ UNCHANGED job
     \/ run = "running" /\ ~target /\ Answer("not_attempted") /\ UNCHANGED job
     \/ Authorized /\ job.state = "none" /\ Goto("poll") /\ job' = [NoJob EXCEPT !.state = "queued"]
     \/ /\ Authorized /\ job.state /= "none" /\ UNCHANGED job
        /\ Goto(IF job.state = "canceled" /\ job.version = 2 /\ ~job.started THEN "rearm" ELSE "poll")
  /\ UNCHANGED <<call, poller, device, effects, world>>

\* RearmUnstartedBrowserJob: every grant is checked, lease and token are discarded;
\* a refusal or a failed transaction leaves the canceled job.
RearmUnstartedBrowserJob ==
  /\ waiter.pc = "rearm"
  /\ \/ /\ Authorized /\ job.state = "canceled" /\ job.version = 2 /\ ~job.started
        /\ job.recoveries < MaxRecoveries /\ job.deliveries < MaxDeliveries
        /\ job' = [NoJob EXCEPT !.state = "queued", !.deliveries = job.deliveries,
                                !.recoveries = job.recoveries + 1]
        /\ Goto("poll")
     \/ Answer("not_attempted") /\ UNCHANGED job
  /\ UNCHANGED <<call, poller, device, effects, world>>

\* What the waiter makes of a job that has ended; a failed write is unknown.
AnswerOf(state) ==
  CASE state = "completed" -> "completed"
    [] state = "canceled" -> "not_attempted"
    [] OTHER -> "unknown"

Poll ==
  /\ waiter.pc = "poll" /\ job.state \notin OpenStates
  /\ Answer(AnswerOf(job.state))
  /\ UNCHANGED <<job, call, poller, device, effects, world>>

\* StopWorkflowDeviceNodeJob, when the request is cancelled, the deadline has come
\* or the job could not be read; if it fails nothing is known.
StopWorkflowDeviceNodeJob ==
  /\ waiter.pc = "poll"
  /\ \/ /\ job' = [job EXCEPT !.cancel = TRUE,
                              !.state = IF MayHaveBegun THEN "uncertain"
                                        ELSE IF @ \in {"queued", "leased"} THEN "canceled" ELSE @]
        /\ Answer(AnswerOf(job'.state))
     \/ Answer("unknown") /\ UNCHANGED job
  /\ UNCHANGED <<call, poller, device, effects, world>>

\* The journal records the answer; a process that dies leaves the call started.
Record ==
  /\ waiter.pc = "record"
  /\ call' = waiter.answer /\ waiter' = Idle
  /\ UNCHANGED <<job, poller, device, effects, world>>

Die ==
  /\ waiter /= Idle
  /\ waiter' = Idle
  /\ UNCHANGED <<job, call, poller, device, effects, world>>

-----------------------------------------------------------------------------
(* The device.                                                                *)

\* Only a lease without a start acknowledgement is delivered again.
RedeliverableAny ==
  job.state \in {"leased", "executing"} /\ ~job.cancel /\ ~job.late /\ job.deliveries < MaxDeliveries
Redeliverable ==
  /\ job.state = "leased" /\ job.version = 2 /\ ~job.started
  /\ ~job.cancel /\ ~job.late /\ job.deliveries < MaxDeliveries

Reapable ==
  /\ job.state \in OpenStates
  /\ \/ job.late
     \/ job.state \in {"leased", "executing"} /\ job.lapsed
     \/ job.cancel /\ ~MayHaveBegun

\* A claim request starts with a transaction of its own that ends what is overdue.
ReapWorkflowDeviceJobs(p) ==
  /\ poller[p] = "idle"
  /\ poller' = [poller EXCEPT ![p] = "reaped"]
  /\ job' = IF Reapable
            THEN [job EXCEPT !.state = IF Redeliverable THEN "queued"
                                       ELSE IF MayHaveBegun THEN "uncertain" ELSE "canceled"]
            ELSE job
  /\ UNCHANGED <<server, device, effects, world>>

\* A device claims jobs of the protocol it speaks; protocol 1 executes at once.
ClaimWorkflowDeviceNodeJob(p) ==
  /\ poller[p] = "reaped"
  /\ poller' = [poller EXCEPT ![p] = "idle"]
  /\ LET t == job.deliveries + 1
         open == job.state = "queued" /\ ~job.late /\ ~job.cancel IN
     \/ /\ open /\ Authorized
        /\ job' = [job EXCEPT !.state = "leased", !.token = t, !.deliveries = t, !.lapsed = FALSE]
        /\ device' = [device EXCEPT ![t] = IF job.version = 2 THEN "claimed" ELSE "begun"]
     \/ /\ open /\ ~Authorized
        /\ job' = [job EXCEPT !.state = "canceled", !.cancel = TRUE]
        /\ UNCHANGED device
     \/ ~open /\ UNCHANGED <<job, device>>
  /\ UNCHANGED <<server, effects, world>>

\* The lease that token t proves is still in force.
LeaseHoldsForAny(t) == job.state \in {"leased", "executing"} /\ ~job.lapsed /\ ~job.cancel
LeaseHolds(t) ==
  job.token = t /\ job.state \in {"leased", "executing"} /\ ~job.lapsed /\ ~job.cancel

\* Begin and renewal check every grant first; a run or a target that lost its
\* authority marks the job to be stopped.
Denied(t) ==
  /\ ~Authorized /\ job.token = t /\ job.state \in {"leased", "executing"}
  /\ job' = [job EXCEPT !.cancel = TRUE]
  /\ UNCHANGED device

\* The device executes only with an acknowledgement; without one it may ask again.
BeginWorkflowDeviceNodeJob(t) ==
  /\ device[t] = "claimed" /\ job.version = 2
  /\ \/ Denied(t)
     \/ /\ Authorized /\ LeaseHolds(t)
        /\ job' = [job EXCEPT !.state = "executing", !.started = TRUE]
        /\ device' \in {device, [device EXCEPT ![t] = "begun"]}
  /\ UNCHANGED <<server, poller, effects, world>>

\* A renewal moves the end of a lease that has not lapsed.
RenewWorkflowDeviceNodeJob(t) ==
  /\ device[t] \in {"claimed", "begun", "done"}
  /\ \/ Denied(t)
     \/ Authorized /\ LeaseHolds(t) /\ UNCHANGED <<job, device>>
  /\ UNCHANGED <<server, poller, effects, world>>

Execute(t) ==
  /\ device[t] = "begun"
  /\ device' = [device EXCEPT ![t] = "done"] /\ effects' = effects + 1
  /\ UNCHANGED <<job, server, poller, world>>

\* What an honest device may report: success when it is done, failure when it will
\* not execute, and that it does not know.
Reports(t) ==
  CASE device[t] = "claimed" -> {"failed"}
    [] device[t] = "begun" -> {"failed", "uncertain"}
    [] device[t] = "done" -> {"completed", "uncertain"}
    [] OTHER -> {}

\* A report is accepted from the holder of the last lease, also after cancellation
\* or expiry, until an outcome is confirmed; an unstarted job can only fail.
Accepted(t, s) ==
  /\ job.token = t /\ job.state \in {"leased", "executing", "uncertain"}
  /\ job.version = 2 /\ ~job.started => s = "failed"

FinishWorkflowDeviceNodeJob(t, s) ==
  /\ s \in Reports(t)
  /\ job' = IF Accepted(t, s) THEN [job EXCEPT !.state = s] ELSE job
  /\ device' = IF s = "failed" THEN [device EXCEPT ![t] = "quit"] ELSE device
  /\ UNCHANGED <<server, poller, effects, world>>

-----------------------------------------------------------------------------
WaiterStep ==
  \/ ClaimCall \/ QueueJob \/ RearmUnstartedBrowserJob \/ Poll \/ StopWorkflowDeviceNodeJob
  \/ Record \/ Die

DeviceStep(t) ==
  \/ BeginWorkflowDeviceNodeJob(t) \/ RenewWorkflowDeviceNodeJob(t) \/ Execute(t)
  \/ \E s \in JobStates : FinishWorkflowDeviceNodeJob(t, s)

Next ==
  \/ WaiterStep
  \/ \E p \in Pollers : ReapWorkflowDeviceJobs(p) \/ ClaimWorkflowDeviceNodeJob(p)
  \/ \E t \in Tokens : DeviceStep(t)
  \/ Suspend \/ TargetChanges \/ EndRun \/ DeleteAccount \/ LeaseLapses \/ DeadlinePasses

Spec == Init /\ [][Next]_vars

-----------------------------------------------------------------------------
\* A possibly executed action is never delivered again, by no reaping, rearming,
\* repeated call or stale token: it takes effect at most once.
ActionAtMostOnce == effects <= 1

\* The journal takes a call for not attempted, and admits it again, only while the
\* device has not executed it and no device is in a position to.
NotAttemptedIsTrue ==
  "not_attempted" \in {call, waiter.answer} =>
    effects = 0 /\ \A t \in Tokens : device[t] /= "begun"

\* "Original device receipts can reconcile late results" and nothing overwrites a
\* completion: a device that began holds the token of the job, which stays open to
\* its report or has taken it; a call that returned a result has one.
ReceiptsReconcile ==
  /\ job.version = 2 => \A t \in Tokens : device[t] \in {"begun", "done"} =>
       job.token = t /\ job.started /\ job.state \in {"executing", "uncertain", "completed"}
  /\ call = "completed" => effects = 1 /\ job.state = "completed"
=============================================================================
