# A TLA+ model of the Misty server

Misty is a collaborative workspace server: Spaces with members, messages, tasks,
notes and files, and AI agents that work in them. The server is a Go process (or
several) over one PostgreSQL database; agents run as durable workflows in a
separate TypeScript service (`apps/agent-runtime`) that calls the server back.
The state of the system is in the database: the processes are interchangeable,
may crash between any two transactions, and coordinate through rows, leases,
advisory locks and idempotency keys. That coordination is what is modelled here.

Paths below are relative to the repository; `postgres/` stands for
`internal/platform/postgres/` and `httpapi/` for `internal/platform/httpapi/`.

## 1. Inventory

| Component | State | Operations | Hard behaviour | What makes it correct | Module |
|---|---|---|---|---|---|
| Hosted-AI wallet (`postgres/credits_*.go`, `billing/credits.go`) | personal and Space wallets, reservations, ledger, licenses | reserve, settle, release, release of a run, refund, stale reclaim, weekly reset, plan change, ownership transfer | the license is read before the transaction that applies it; one reservation is held in two wallets; late, repeated and reclaimed completions | counters equal the open reservations, no overdraft, no double charge, the ledger explains the wallet | `HostedAIWallet` |
| Agent run queue, dispatch and recovery (`postgres/personal_agent_task_run_jobs.go`, `agent_runtime_start_receipts.go`, `httpapi/personal_agent_task_worker.go`, `apps/agent-runtime/src/start-receipt.ts`) | `space_runs`, `agent_run_jobs`, start receipts, queued runtime deliveries; worker loop and workflow progress | create, retry, claim, start, record receipt, mark, activate, requeue, give up, wait and resume, complete, reconcile, cancel | several pollers, expiring leases, lost and late start requests, crash after an uncertain submission, completion against cancellation against reconciliation | one run per agent at a time, one workflow per run, outcomes are final, nothing dispatched restarts, nothing stays open for ever | `AgentRun` |
| Run completion and response publication (`httpapi/agent_runtime_complete_handler.go`, `agent_runtime_completion.go`, `postgres/run_lifecycle.go`) | the run and its job, its usage reservation, the task's final activity, the publication row, the posted message, the linked invocation | the updates one request makes, and its retries | retries overlap requests that are still handled; each update may be the last; cancellation in between | one response, telling the true outcome, never acknowledged while open | `RunCompletion` |
| Tool action journal and budgets (`postgres/agent_toolbox_action_journal.go`, `httpapi/agent_toolbox_execution_journal.go`) | one row per call, by idempotency key; the state of the run | claim, execute, record, replay, check of the effects at completion | a call is executed between two transactions, and delivered again by an engine that lost the answer | a write takes effect at most once, what is not known to have happened is never reported as done | `ToolJournal` |
| SDK invocations and routines (`postgres/sdk_invocations.go`, `routine_runs.go`, `routine_agent_steps.go`, `routine_timed_waits.go`, `httpapi/routine_runtime.go`) | the routine run, agent checkpoints, admitted calls, timed waits, evidence | authorize a call, open and finish agent steps, wait and wake, cancel, evaluate and publish an outcome | the outcome is evaluated outside the transaction that publishes it; cancellation against effects in flight | success only with confirmed evidence, what is in flight makes the outcome uncertain, steps in order | `RoutineRun`, over `ToolJournal` |
| Approvals, device and user-action continuations (`postgres/agent_continuation_delivery.go`, `agent_runtime_delivery.go`, `creator_agent_approvals.go`, `ai_device_waits.go`, `ai_intervention_waits.go`) | pending decisions, device waits, leased deliveries | open, decide, expire, queue, lease, deliver, acknowledge | decision against expiry, delivery lost after its effect, acknowledgement after the next wait | no execution without consent, an answer arrives, an overdue wait ends | `Continuations` |
| AI invocations (`httpapi/ai_invocation_hub.go`, `ai_invocations.go`, `ai_invocation_agent_runtime.go`, `postgres/ai_invocation_event_commit.go`, `ai_runtime_recovery.go`) | the invocation and its event log; an in-memory copy per replica; start, cancel and observation deliveries; the client's stream | start, callbacks, stop, observe, stream, reconnect, expire, purge | replicas with different memories, repeated callbacks, stop against completion, retention under an open stream | the client gets the log in order and without gaps, one outcome, the run settles and so does its stream | `AIInvocation`, which implements `InvocationStream` |
| Library uploads, deduplication and cleanup (`postgres/space_library_*.go`, `library_object_*.go`, `httpapi` upload handlers and retention loop) | uploads, reservations, blobs, files, library items / assets / attachments, contributions, usage; objects in the store | create, put, finalize, deduplicate, heal, trash, restore, delete, expire, purge, sweep | the database and the object store change in turn, finalization against expiry, purge and sweep | no live reference to a deleted object, usage equals the rows, storage comes back | `LibraryStorage` |
| Workflow engine and device jobs (`postgres/workflow_device_*.go`, `httpapi/browser_agent_tools.go`, `internal/workflows/`) | the durable job of an action on a user's device, its leases; a definition and step states | queue, rearm, reap, claim, begin, renew, finish, stop; advance | a device sleeps or its replies are lost between start and report; the waiter gives up meanwhile | an action executes at most once, is retried only if it did not, and its late report lands | `DeviceJobs` (not the engine) |
| Notes, drawings, collaboration rooms (`apps/journal-collab/`) | room documents, control outbox | connect, update, checkpoint, revoke | outbox delivery against room restart | a revoked member writes nothing | not modelled |
| Self-hosted relay (`apps/self-host-collab/`) | room connections | forward | none of its own | that of the rooms | not modelled |
| Payments and subscriptions (`postgres/subscription_checkout.go`) | checkouts, licenses | webhook events | events out of order | the license follows the newest event | its effect is `ChangePlan` of the wallet |
| Provider integrations, social, mail (`postgres/social_delivery.go`) | leased delivery queues | enqueue, lease, send | mostly calls to external services | same as runtime deliveries | not modelled |
| Membership, messages, tasks, calendars | rows | single transactions | little protocol between them | foreign keys and checks | not modelled |
| Accounts, sessions, tokens | rows | single-row updates | deletion spans external stores | | not modelled |

How the parts meet: a claimed run is started in the agent runtime, which binds
itself to the run, calls tools (each may reserve from the wallet), may wait for a
person, and reports completion; the completion settles the run's usage, ends run
and job, answers in the conversation and closes the linked invocation. Cancelling
or reconciling a run releases its reservations (`ReleaseRun` of the wallet). Tool
calls of runs, invocations and routines all pass the journal; a call that needs a
person or a device parks its workflow until a continuation is delivered. Purges of
journal assets and of deleted messages meet finalizing uploads in the deduplicated
blobs.

The hazards of the code, each at its line with the properties that would catch it
going wrong, are listed in `PROJECT.json`.

## 2. Modules and how they correspond to the code

Every action is one database transaction, or one remote call, of one actor;
PostgreSQL's row locks make each transaction atomic, so crashes, timeouts and
other actors fall between actions and nowhere else. The `map` of `PROJECT.json`
names the lines behind every definition.

### `HostedAIWallet` (with `Sums`)

One record per account, a user or a Space; one reservation per idempotency key.
A Space reservation is held in two wallets at once. A reserving request is three
steps, because the code makes three separate database calls: `ReadLicense`
(`CreditMeter.reserve`), `GetOrCreateWallet` (its own transaction: reclaim stale
personal reservations, create, reset or adjust to the plan read before), and
`Reserve` or `ReserveRefused`. `Settle`, `Release`, `ReleaseRun`, `Refund`,
`RefreshSpace` and `TransferOwnership` are one transaction each, with the stale
reclaims and refreshes they make. Time is `GrowStale` (fifteen minutes) and
`NewWeek`. `SumTo` is the SQL `SUM(amount)` as a recursive function, so that it
can be proved about. `spent` is a history variable: what settlements took since
the last full grant. Weeks are counted; amounts are micro-dollars in the code and
small numbers in the runs; no arithmetic of the code comes near 2^63 for
allowances of some dollars, so integers are unbounded.

### `AgentRun`

The lifecycle of runs, their jobs and their start receipts. A worker's tick is
`Claim`, then per job of its batch `Start`, one of `StartClaimed`, `StartKnown`,
`StartRefused`, `StartTimesOut`, then `StartAnswered`, and
`MarkPersonalAgentTaskRunDispatched` or `FailPersonalAgentTaskRunJob` (which
requeues, gives up, or finds its lease lost), and for tasks `FinishTaskRun`.
A start request whose sender gave up can still arrive (`LateStart`). The start
adapter submits to the workflow engine and records the identity as two steps; it
may stop after either and the engine may commit a submission and still raise. The
workflow activates itself, has its tool calls admitted (`AdmitToolCall`; what an
admitted call does is `ToolJournal`'s subject), waits, and completes. `order` is the sequence of jobs whose `available_at` has come; the
claim takes the first job per free agent, skips agents whose advisory lock a
concurrent claim holds (`busy`), and first lets the jobs of ended runs follow
their runs (`Synced`). A claim is one step: that two of them never decide for the
same agent at once is what the lock per agent is for, and is assumed, so a claim
that forgot the lock would not be noticed here. A claim that chooses a job whose
attempts are used up is refused by the table and leaves everything as it was, the
sync included (`AttemptsUsedUp`). `Backlog` names runs that stand there from the
beginning, as workers that died leave them.

Abstractions. `awaiting_approval`, `awaiting_device` and `awaiting_intervention`
are one state, and the extra allowance of `ValidatePersonalAgentTaskRuntime` for
interventions is not distinguished. One queued `runtime.reconcile` stands for
several. A child run is an ordinary run. Other system cancellations (a task
unassigned, an account disabled, a Space deleted) do to a subset of runs what
`cancelPersonalAgentRunsTx` does and are not separate actions. The reservations of
a run are the wallet's. `RenewPersonalAgentTaskRunLease` has no caller and is left
out, as are the claim's condition on archived or reassigned tasks, its `LIMIT` of
candidates, and the order within a batch (any order is allowed). Init has runs that
earlier releases left failed (`LegacyRuns`), since a task run is created by a retry.

### `RunCompletion`

One run and the completion requests (`Deliveries`) its workflow sends, one action
per update of `AgentRuntimeComplete` in the order the code makes them: validate
(or replay of an ended run), reserve and settle the usage, find and add the final
activity, finish the run, finish the job, release, claim the publication, post,
record, close the invocation. The last of these may leave the invocation open and
the answer is 200 all the same: errors of loading or restoring it, and of
recording its failure, are dropped (`httpapi/ai_invocation_agent_projection.go:24`,
`:97`). A delivery may stop at any point; the workflow stops
waiting after 30 seconds and sends again while the old request goes on; after a
fatal refusal it reports a failure once. `snapshot` is the run state the handler
read or wrote last and words the response from; `outcome` is what it computed.

Abstractions. The usage of the run is one aggregate reservation. Posting a message
commits or fails cleanly. Awaiting states, message texts, artifacts and the events
of the linked invocation (open or closed here) are left out.

### `ToolJournal` and `RoutineRun`

`ToolJournal` is `JournalAgentToolboxAction`: the claim transaction (`ClaimCall`,
with its refusals, stored answers and the settled-run check), the execution outside
any transaction (`Execute`), the recording transaction (`Record`), which may be lost
(`RecordLost`), and the death of the process anywhere between (`Crash`). A logical
call keeps its identity over deliveries while its arguments are whatever the engine
sends this time. An adapter that reports a call as not attempted is believed, as
the code believes it: `Execute` gives that answer only to a call without effect. One
path of the repository can break this: `httpapi/sdk_browser_execution.go:98` joins
"not attempted" to an uncertain commit if the approval of an intervention cannot be
invalidated. `Suspend`, `Resume`, `CheckEffects` and `EndRun` are the run
around it. Idle workers forget everything but the last result they returned, which is
what `ResultsAreReal` is about.

`RoutineRun` EXTENDS it: the two share the journal's rows and the run's state.
Capability, agent and wait steps are admitted in order (`AuthorizeRoutineCall`,
`OpenRoutineAgent`, `OpenRoutineWait`); effects are claimed and served through the
journal; agent steps claim model turns, and are finished from evidence that is checked
again in the transaction; timed waits wake, or expire when late; a cancellation may be
requested at any time. `EvaluateReport` computes the outcome from the receipts and
`PublishRoutineCompletion` publishes it, in another transaction. Manifest validation,
drafts and the transport of SDK invocations are left out; conditions are the sets
`Skipped` and `Broken`.

### `Continuations`

Calls of one workflow that need an approval, a device or an action of the user. The run
row is one of `ai_invocations` or of `space_runs`, chosen in Init, as the code treats
the two differently. A decision, an expiry or a returning device ends a wait and
queues a delivery in the same transaction; workers lease it (`ClaimDelivery`), check
that it is still wanted, call the hook of the workflow, and acknowledge. The check may
fail (`CheckFails`), the reply may be lost and the lease may expire at each of these
points. A sweep of space runs first lists decided and expired approvals (`ListApprovals`)
and then resumes each of them in a transaction of its own, which also accepts a run
without a wait: a late sweep puts back the wait of an answer that was delivered, and
queues it again. That a decision is listed only in the phase `approval_resume_pending`
is left out, so the model lists more. A browser is prepared before its approval is asked
for, so the two waits come in either order; a user's readiness is not consumed if the
page is gone by then. A workflow that
is resumed repeats its call, at most `MaxAttempts` times.

### `AIInvocation` and `InvocationStream`

The row, the event log, and per replica the copy of both in `hub`, which a restart
loses. `ClaimStart`, `Submit`, `MarkDispatched`, `CheckActivation` and `FailStart` are
the delivery that starts a workflow; `Send` puts a callback into a handler of some
replica, which walks through `Activate`, `Event` or `Complete`, its `AppendEvent`s and
`Touch`; `Cancel`, `Revoke` and `StopRuntime` are the user's stop; `Reconcile`,
`Observe` and `RecordStatus` watch a silent workflow; `Connect` to `Emit` is the
client's stream. An event is its type: what matters of its content is whether its
receipt repeats (`Receipted`). `Reload` merges the commit of an event with the reload
of the hub's copy that follows it. `Expire` and `Purge` are the retention of an
invocation: a record that is a day old is found by no stream (`Gone` is the client's 404)
and starts no workflow, and `PurgeExpiredAITransients` then deletes row and log whatever
their state. `MaxWaits` bounds how often a workflow parks; nothing makes a wait end.

Left out: decisions on artifacts and the contents of answers; a repeated receipt with
another payload, which is a conflict and changes nothing
(`postgres/ai_invocation_event_commit.go:32`); what a start that is given up does for a
routine or an SDK invocation after its event is committed
(`httpapi/agent_runtime_delivery.go:84`), which `StartUndeliverable` of `RoutineRun` is
for routines; and `pruneLocked` of the hub, which only `hub.create` calls, and that only
the tests' entry point (`httpapi/ai_testing.go`): in production an expired record stays
in memory and is refused by its date.

`InvocationStream` is what this promises the client, in fifty lines: one log that only
grows, one outcome after which nothing is added, a stream that delivers a prefix of
the log and closes only with all of it. `AIInvocation` instantiates it with
`outcome`, `received` and `closed` computed from its own state, and
`StreamIsAsPromised` says that every behaviour implements it.

### `LibraryStorage`

All uploads carry the same content, the case in which a blob is shared, and one byte;
an identifier of `Uploads` also names the object, blob, file and item the upload becomes.
A finalization is a chain of transactions and store calls: `FinalizeUpload`,
`HeadObject`, the choice of a duplicate and its repair, `CompleteBegin` and
`CompleteCommit` (between which the transaction holds the row and the advisory lock on
the content), and the removal of a duplicate's object. It may stop at each point
(`Abandon`). The retention loop of each replica expires uploads, claims one deleted
asset for a purge, removes its objects and completes the purge, and removes orphans,
each with the store calls between its transactions; `ReadSums` and `WriteUsage` are
two steps, since the recomputation of the usage reads under READ COMMITTED. The purge
delay is any time after the deletion; the grace period of orphans is an upload past
its expiry.

A rejection whose transaction fails still deletes the object (`RejectFails`), as
`rejectAndDelete` drops the error. `overtaken` is a history variable: the blobs that
`DeleteMessage`, which takes no lock on the content, deleted while a completion that
had read them was about to commit.

Left out: the proxy route of development builds, renditions, edits and copies, legal
holds, the report of missing objects (it changes nothing), and the quota of a person
(the same code as the Space's, keyed differently). A promoted attachment is a copy, which
`cleanupSpaceMessagesTx` skips (`postgres/space_conversation_deletion.go:43`). The client
PUTs only while its upload is initiated; its presigned URL is good for fifteen minutes and
would let it put the object once more after finalization or rejection
(`httpapi/library_presign.go:82`). No property is about what is in an object, and one put
back after a rejection is what the sweep is for.

### `DeviceJobs`

One browser action that an agent's tool call executes on a device. The call is a row of
the journal, here its state only: admitted (`ClaimCall`, once more when it is known not
to have been attempted), answered (`Record`), or left started by a process that died
(`Die`). The request in between queues the job or finds it again (`QueueJob`), arms a
canceled one again (`RearmUnstartedBrowserJob`), polls it, and stops it when it cannot
wait longer. A poll of the device is two transactions, `ReapWorkflowDeviceJobs` and
`ClaimWorkflowDeviceNodeJob`. A lease token is named by its delivery, and `device` has
one entry per token, since a device that slept may still act on an old one. There is no
action for a lost reply: it is a step of the device that never comes, or, for a start that
was acknowledged in vain, the choice in `BeginWorkflowDeviceNodeJob`. `Authorized`
is everything that `deviceRunAuthorityTx` and `validateDeviceJobTargetTx` ask of run, grants,
context and device. Init also has the jobs that were open when protocol 2 was
introduced: of them the lease alone permits execution. `ReceiptsReconcile` is about
protocol 2, as the deletion of an account cancels a leased job of protocol 1 that
may be executing.

Abstractions. The action is a write (a failed read may be repeated freely); outputs and
their schemas are left out, and so is a run that moves to another runtime, which loses
authority like any other. A transaction that fails has not committed. If the commit of a
rearming were reported as failed, the call would count as not attempted with its job
queued: `NotAttemptedIsTrue` would not hold, while `ActionAtMostOnce` still
would, as the retried call finds that job again (checked on a variant of the model).
A refused start or renewal (`Denied`) checks its token and marks the job in one step; the code
reads the token without a lock and then marks the job by its id
(`postgres/workflow_device_delivery.go:129`, `:144`), so it may mark the delivery after it,
of the same run with the same lack of authority.

## 3. Runs

| Run | Instance | Properties | Result |
|---|---|---|---|
| `wallet` | two users, one Space, 2 keys, 1 request at a time, 2 plans, 1 weekly reset | `TypeOK`, `ReservedExact`, `NeverOverbilled`, `LedgerReconciles`, `OnlyPlanChangeUnderbacks`, `ChargedOnce` | hold, 934 thousand states |
| `run_dispatch` | a retried task run and another agent's run at its last attempt, 2 workers, 2 attempts, 2 crashes, fairness | `TypeOK`, `NoDuplicateSubmission`, `OneIdentity`, `JobAgreesWithRun`, `DispatchedNeverRestarts`, `OutcomeIsFinal`, `EndedRunFreesAgent`, `LostRuntimeSurfaces` | hold, 67,032 states |
| `run_queue` | two runs of one agent, 2 workers, 2 attempts, 1 crash | `SingleActivePerAgent` | holds, 360,819 states |
| `completion` | a run of a conversation or of a task, 3 deliveries | `OneResponse`, `ResponseTellsOutcome`, `ActivityBeforeOutcome`, `AcknowledgedIsEnded` | hold, 1,175,183 states |
| `journal` | 2 writes and a read, 2 arguments, 2 workers | `MutationsAtMostOnce`, `OneUnconfirmedWrite`, `ResultsAreReal` | hold, 530,303 states |
| `routine` | an agent step, a wait and a capability step, 1 worker, 1 completer | `SuccessIsConfirmed`, `InFlightIsUncertain`, `StepsInOrder` | hold, 441,999 states |
| `continuations` | 2 calls: approval and device, then user action; 2 attempts, 1 fault, both tables, fairness | `ConsentIsReal`, `LaterInvocationWaitSurvives`, `AnswerArrives`, `OverdueWaitEnds` | hold, 111,655 states |
| `invocation` | 2 replicas, 2 handlers, 3 callbacks, 1 fault | `FinishedIsRecorded`, `RepeatsAreRecordedOnce`, `StreamIsAsPromised` | hold, 2,407,770 states |
| `invocation_live` | 1 replica, 2 handlers, 3 callbacks, 1 wait, 1 fault, fairness | `RunSettles` | holds, 1,097,336 states |
| `library` | 2 uploads, 2 requests, 2 workers, 1 fault | `DeletionIsConfirmed`, `BytesAccounted`, `ReservationsReleasedOnce` | hold, 1,594,118 states |
| `library_settles` | 2 uploads, 1 request, 2 workers, 1 fault, fairness | `StorageSettles` | holds, 592,145 states |
| `device_jobs` | 2 polls, 3 deliveries, 3 recoveries, both protocols | `ActionAtMostOnce`, `NotAttemptedIsTrue`, `ReceiptsReconcile` | hold, 180,378 states |

The type invariants of the other modules are stated there and are theorems; they are
not part of a run. `RemainingWithinAllowance` is a theorem only. The inductive
invariants of the proofs (section 4) were model-checked on the instances of the runs
before they were proved, that of `LibraryStorage` also by simulation with three uploads
and four faults.

Why the bounds are enough. *Wallet*: two keys are the least with a second hold that a
settlement must not touch, and both users meet in the Space's wallet through their open
reservations; the allowances and charges make every minimum and clamp bind; one
weekly reset lets a refund, a settlement and a reclaim fall after it. *Runs*: two
workers are what it takes for a job to be reclaimed while its first holder is still
dispatching; two attempts, where the code has three, are the least that tell a retry
from the last attempt; two crashes lose the first and the second holder. The second agent's
run is there so that claims can be refused for a while, or, if nobody cancels it, for ever. `run_queue` explores two runs of one agent until one of them goes
beyond its dispatch (`UntilDispatch`), as the claim's exclusion is decided there; the
theorem covers the rest. *Completion*: three deliveries are one that died, one that is
slow and one that replays. *Journal*: two writes are needed for one unconfirmed write to
block another, two arguments for a changed redelivery, and two workers for a claim
beside an execution; `MaxEffects` is 2, one more than is allowed. *Routine*: one step of
each kind; the call of the agent step and the capability call can both be in flight
when a cancellation is published. *Continuations*: the first call may wait twice, so
that the acknowledgement of the first wait can meet the second, which uses up its
attempts, and the second call is a third wait; a fault is a lost reply, a failed check or an
expired lease; the theorems are for any number of attempts. *Invocation*: two replicas
let a callback, a stop and a stream meet three views of one log; three callbacks are
activation, completion and one repeat. `invocation_live` has a second handler because a
slow request may commit its event behind a later one, and one wait that may or may not
be answered. *Library*: two uploads share a blob; two
requests finalize the same upload or both; two workers overlap a purge with expiry, a
recount or the sweep; the fault is a crash, an aborted transaction or a store error.
`Quota` is 2, so that both uploads fit and a leaked reservation refuses the next.
*Device jobs*: deliveries and recoveries are bounded by the code, at three each; two
polls let one reap what the other is about to claim.

Symmetry is used over workers, runs, deliveries, replicas, handlers, uploads and
requests where they occur in no property other than through quantifiers, and never in
a run with a liveness property.

`CHECK_DEADLOCK FALSE` in all models but the wallet, the journal and the device jobs:
finitely many runs, deliveries, calls or uploads all end and nothing further happens, as
in the system. In the wallet plans can always change, in the journal a call can always be
delivered again and a device can always poll, so deadlock is checked there and does not
occur.

Fairness is weak unless said otherwise, and nothing is assumed of users, of the
language model that drives a workflow, or of crashes, which are bounded (an endless series
of crashes guarantees nothing).

- `AgentRun`: the worker's steps, since `runPersonalAgentTaskProcessing`
  polls on a ticker of two seconds and drains its batch; `UnharmedClaim`, a claim in a
  state in which no job has used up its attempts. Nothing is assumed of the ticks before
  that, as a refused claim undoes the whole transaction. `ClockStep`, which is the clock; the adapter's steps, each of which ends or
  stops; reconciliation, which runs in every tick. This assumes that the other calls of
  a tick do not fail for ever, and that the engine's status can eventually be read.
- `Continuations`: the steps of the workflow, the sweeps of the polling loop and the
  steps of a delivery. The claim of each delivery is strongly fair: a claim takes the
  oldest `available_at`, so another delivery may come first, but not again and again.
- `AIInvocation`: a request that is being handled, the workflow's next callback, the
  start, cancel and observation deliveries, and the client's reconnection. Not the
  resumption of a wait: an expired approval of an invocation is never resumed, see
  `ExpiryArrives` below, and `RunSettles` allows for a workflow that is left waiting.
- `LibraryStorage`: the clock that expires an upload, a request that was received, and
  `runAgentRetention`, which ticks every minute in every replica.

### Disagreements found

They are operators of the modules, stated where the code's own words promise them;
checking one in place of the properties of a `.cfg` of the module shows the
counterexample (`MCAgentRun_attempts.cfg` is there for `ClaimWithinAttempts`, and with
`FairSpec` for `ExitedRuntimeBecomesVisible`; state predicates are checked as invariants).

- `ClaimWithinAttempts`: a job whose third lease expired is a
  candidate; its claim asks for a fourth attempt, which the table's `CHECK` refuses, and
  the error undoes the whole claim transaction, every tick, for every agent.
- `EndedRunAlwaysFreesAgent`: for as long as such a job is there, a run whose completion
  handler died before its second update keeps its agent busy, as the sync that would free
  it shares the refused transaction (`postgres/personal_agent_task_run_jobs.go:55`,
  `:108`). `EndedRunFreesAgent` therefore has the proviso that claims are not refused
  for ever.
- `UsagePreserved`: a Space wallet knows usage only as allowance minus remaining,
  both clamped. A downgrade below the usage and an upgrade in the same week forget
  part of it, against the comment of `GetOrCreateSpaceHostedAIWallet`
  (`postgres/credits_hosted_ai_limit_reached_error.go:229`).
- `ExitedRuntimeBecomesVisible`: a direct run whose dispatch is given up stays
  `running` with a failed job and no runtime identity, where neither claim nor
  reconciliation looks; `docs/automation-beta-implementation.md:226` promises a
  visible failure.
- `TerminalResultClaimed`: the claim of a response publication leaves out
  `completed_with_errors`, so such a conversation's run is acknowledged without a
  response, although the handler and its sibling publish for that state
  (`postgres/run_lifecycle.go:149`).
- `FailedDeliveryRetryable`: the claim of a delivery that died between claim and
  record is never granted again, against the comment above it
  (`postgres/run_lifecycle.go:125`, `:138`).
- `ChangedArgumentsConflict`, with a completed row of the older key scheme
  (`Legacy <- OneLegacy`): a redelivery with other arguments misses the older row, whose key
  holds the arguments, and executes again (`httpapi/agent_toolbox_execution_journal.go:49`).
- `CompletedRunIsConfirmed`: the effects are checked before the transaction that ends
  the run, so a write claimed in between ends `completed` unconfirmed, against
  `docs/automation-beta-implementation.md:186`.
- `CancelledMeansNothingDone`: an action that is in flight when the outcome is
  evaluated and recorded before it is published ends behind a cancellation label
  (`postgres/routine_runs.go:301`, against the comment at `:291`).
- `ExpiryArrives`: the sweep expires the approvals of all runs and then looks for hooks
  to resume among `space_runs` only, so an invocation's workflow stays parked at its
  expired approval (`postgres/creator_agent_approvals.go:210`, against the comment at
  `:201`); `OverdueWaitEnds` holds for space runs. Related: the
  acknowledgement of a device wait clears the wait of a space run without asking which
  wait it is, where the one of an invocation asks (`postgres/agent_continuation_delivery.go:125`,
  `:57`); `LaterInvocationWaitSurvives` is therefore about invocations.
- `ReconnectKeepsRun`: the identity of the workflow and the state of the row are read
  apart; a client that connects during the activation sees no identity with a running
  state, and its stream fails the bound run (`httpapi/ai_invocations.go:346`, against the
  comment at `:343`).
- `ParkedIsAwaiting`: an event takes the state it names whatever the row says
  (`postgres/ai_invocation_event_commit.go:43`), so a slow `started` turns a waiting
  row back to running, and the resumption, which asks for a waiting row, finds none.
- `DispatchedIsActivated`: only rows that left the queue are observed
  (`postgres/ai_runtime_recovery.go:19`), so an invocation whose workflow was lost after its
  dispatch and before its activation stays queued until it is purged.
- `StopReplyIsTrue`: a stop whose event could not be appended is answered as not
  persisted although the row is cancelled (`httpapi/ai_invocations.go:430`).
- `LiveContentStored`: a second finalization whose HEAD fails is refused its rejection,
  as the upload is ready by then, and deletes the object all the same
  (`rejectAndDelete`); "permanent objects that should exist"
  (`postgres/library_object_reconciliation.go:68`) then do not.
- `LiveFilesSpared`: a completion reads the blob it will share; the deletion of the last
  message that uses it sets the blob to deleted, without the lock on the content
  (`postgres/space_conversation_deletion.go:68`); the completion commits a file on that blob and
  removes its own object as a duplicate; the sweep then takes the blob's object, the only copy
  of a live file. `DeletionIsConfirmed` is what holds: a purge, the removal of a duplicate
  and the sweep spare every ready blob and every live file whose blob was not overtaken in
  this way.

Read from the code while modelling, with no property of their own: a callback that
reaches a replica without the record gets 404, which the workflow takes as final; a
start delivery that gives up can race the activation; one whose invocation was purged ends
its pass with an error before it is finished (`httpapi/agent_runtime_delivery.go:94`), comes back
with every lease and takes the rest of its batch with it; an effect reported after completion
is refused; a healed blob lives in the object
of an upload that can still expire; a purge and a finalization can deadlock on blob row and
advisory lock, of which PostgreSQL aborts one (a fault of the model); a duplicate's
object stays for good if the process dies before removing it, since the sweep expects the keys
of ready uploads (`postgres/library_object_reconciliation.go:20`).

## 4. Proofs

Every safety property of the runs is a theorem, proved by TLAPS for every value of the
constants that satisfies the named assumptions of the module:

| Module | Assumptions | Proved |
|---|---|---|
| `HostedAIWalletProofs` | `WalletConstants` | `TypeOK`, `ReservedExact`, `RemainingWithinAllowance`, `NeverOverbilled`, `LedgerReconciles`, `ChargedOnce`, `OnlyPlanChangeUnderbacks` |
| `AgentRunProofs` | `RunConstants`, `BacklogConstants` | `TypeOK`, `SingleActivePerAgent`, `NoDuplicateSubmission`, `OneIdentity`, `JobAgreesWithRun`, `DispatchedNeverRestarts`, `OutcomeIsFinal` |
| `RunCompletionProofs` | `CompletionConstants` | `TypeOK`, `OneResponse`, `ResponseTellsOutcome`, `ActivityBeforeOutcome`, `AcknowledgedIsEnded` |
| `RoutineRunProofs`, the journal | `CallsAssumption` | `JournalTypeOK`, `ResultsAreReal`, `OneUnconfirmedWrite`, `FreshMutationsAtMostOnce`; `MutationsAtMostOnce` if `Legacy = {}` |
| `RoutineRunProofs`, the routine | `CallsAssumption`, `StepsAssumption` | `RoutineTypeOK`, `SuccessIsConfirmed`, `InFlightIsUncertain`, `StepsInOrder`, `MutationsAtMostOnce` |
| `ContinuationsProofs` | `ContinuationAssumption` | `ContTypeOK`, `ConsentIsReal`, `LaterInvocationWaitSurvives` |
| `AIInvocationProofs` | `InvocationAssumption` | `InvTypeOK`, `FinishedIsRecorded`, `RepeatsAreRecordedOnce`, `StreamIsAsPromised` |
| `LibraryStorageProofs` | `QuotaAssumption`, `NobodyAssumption`, `UploadsAssumption` | `LibraryTypeOK`, `BytesAccounted`, `DeletionIsConfirmed`, `ReservationsReleasedOnce` |
| `DeviceJobsProofs` | `DeviceAssumption` | `DeviceTypeOK`, `ActionAtMostOnce`, `NotAttemptedIsTrue`, `ReceiptsReconcile` |

Each proof has one inductive invariant. Where the actions are few it is proved action by
action; in `AIInvocationProofs` and `LibraryStorageProofs` every action is first shown to
make only certain *moves* (what a step may do to a row, a copy, a request or a worker),
and the moves are shown to keep the invariant, so that the argument is made once for each
kind of state and not once for each pair of an action and a conjunct.

*Wallet.* `ReservedExact` needs the `GREATEST(0, ...)` of every release never to
bind, which is `ReservedExact` itself with the fact that a part of a sum of
non-negative numbers is at most the sum. The first lemmas of the module give what
is needed of sums: addition of two summand functions, change of one summand, and that the sum
covers each summand. The induction is on sets of naturals, from the least element of
the complement, as `<` is well-founded. `ChargedOnce` needs that a key with a consumption
row is settled or refunded, and refunded when it has a refund row. For
`OnlyPlanChangeUnderbacks` each transaction is taken apart into the changes it makes to a
wallet in a row (reclaim, reset or adjustment to the plan, then the hold or the charge), and
each change keeps a covered wallet covered: a release lowers the hold only, a grant was
checked against what is available, a charge takes at most what the other reservations
leave, and a Space changes hands only while it holds nothing.

*Runs.* `Inv` is `TypeOK`, `RunInv`, `ReceiptInv` and `WorkerInv`. Relative to it
`SingleActivePerAgent` is inductive: a claim takes at most one job per agent and none
beside an active one, and dispatching a leased job or retaking an expired lease stays
within one job. `NoDuplicateSubmission` and `OneIdentity` rest on the receipt: no
workflow exists before the claim is taken, the holder of the claim has submitted none,
and every identity that travels (the worker's reply, the record, the binding) names
the one workflow. `JobAgreesWithRun` also needs that no runtime is bound before
dispatch and that the completion handler ends the job of a run that ended. A backlog of
exhausted jobs, at most one per agent, is a state in which `Inv` holds, so it may be there
from the beginning.
`DispatchedNeverRestarts` and `OutcomeIsFinal` are action properties that follow from
the same invariant.

*Completion.* Deliveries that post are distinct from the state of the row: at most
one delivery is between claim and record, the row is then `approved`, and no
message exists while one is still to post (`PostingInv`). A delivery beyond
validation of an ended run, or beyond `FinishSpaceRun`, has a snapshot equal to the
run (`SnapshotInv`), which is why its wording is right although its own `outcome`
may not be. A delivery that is about to finish a task's run has seen or written the
activity (`ActivityInv`). `AcknowledgedIsEnded` says that a 200 stands for a run that has ended
and that the invocation is closed behind such a run only. It does not say that the invocation
was closed, which the code does not ensure.

*Device jobs.* Tokens above the number of deliveries are unused (`DeliveryInv`), so a claim
gives a fresh one; a device that began under protocol 2 holds the last token of a job
marked as started, and nothing takes a started job back to `queued` (`StartInv`). Hence
at most one token is live (`OneLive`) and its effect is the only one (`EffectInv`). A
call that is not attempted has no job or a canceled one, from which only that call's own
retry leads back (`WaiterInv`).

*Journal and routines.* A request that executes holds a row in state `started` that no
other request holds (`HoldersHoldStartedRows`, `OneHolder`); a row of the older key scheme is
never claimed (`OldKeysFixed`); and a write whose row can still be claimed, or whose holder
has not acted, has not taken effect (`Untouched`). `FreshMutationsAtMostOnce` needs no
further hypothesis. `MutationsAtMostOnce` as the run checks it has the hypothesis
`Legacy = {}`, as the run has: with a row left behind by an older release it is false, see
`ChangedArgumentsConflict` above. A routine adds that an outcome is published only by ending
the run (`EndedWhenPublished`), that a caller past its authorization stands at a step that
is reached (`AuthorizedIsReached`), and that a stored success of a step is backed by the
rows of its calls (`CheckpointsBacked`). `SuccessIsConfirmed` holds for ever after
because a claim needs a running run. `StepsAssumption` says that every call of a routine
requires a settled run, which is what `httpapi/agent_sdk_capabilities.go:261` passes to
the journal.

*Continuations.* A decision is final, so what a delivery or a worker carries of it stays
true however late it arrives (`DeliveriesMeanIt`, `WorkersMeanIt`). A delivery of an approval
exists only once the approval is decided (`ContinuedMeansDecided`), and the approval an
invocation stands at has none (`InvocationWaits`): an acknowledgement therefore
cannot be that of the current wait. What a sweep has listed is decided or expired, and
stays so until it is resumed. The same is false for space runs, as said above.

*Invocations.* A copy of the log, in a replica or at the client, is a prefix of it
(`CopiesOfLog`); an end that anybody has seen has happened (`EndsAreReal`); and a request
the workflow waits for is at the point the workflow is at (`EngineWaits`,
`HandlersAtWork`). A purge takes the log away but from nobody's copy, so the promise is about the
log as it was written, and no part of the invariant speaks of what is still stored (`Stored`).
With these each step is one of `InvocationStream` or leaves its variables
alone, which is the refinement `StreamIsAsPromised`: a client that catches up takes
exactly what lies beyond its cursor (`RestCompletes`), and it closes its stream only at the
end of the log, since an ended row gets no further event.

*Library.* What a purge, the removal of a duplicate or the sweep has decided to delete is safe
because of what the rows said when it was decided, so the invariant says what every
request and worker between two steps may still rely on. A completion that holds the lock
on the content finds its upload unverified and the blob it read still the only live one, or
deleted with the last message that used it (`CommitOK`); what it will discard is no
blob's object (`DiscardOK`); a claimed blob stays `purging` until its object is gone
(`PurgeOK`); and the objects of the sweep are of uploads that are over and of no live blob
(`OrphansOK`). That a lock is held exactly while its holder commits (`RequestOK`) and that
one blob of a content is live (`OneLiveBlob`) make the four stable. Live files have an
invariant of their own (`LiveInv`): the blob of one is ready or overtaken, and so is the blob
that a completion has read. `ReservationsReleasedOnce` needs that the reservation a completion
is about to consume is active, which is `CommitOK` with the first half of `BytesAccounted`. The sums of the
usage row need `Uploads` to be finite (`UploadsAssumption`), as a table is.

Only model-checked: the liveness properties (`EndedRunFreesAgent`, `LostRuntimeSurfaces`,
`AnswerArrives`, `OverdueWaitEnds`, `RunSettles`, `StorageSettles`), as
fairness and `ENABLED` are beyond the prover, and the violated properties. The abstract
specification `InvocationStream` states no fairness, so its refinement is proved in full;
that the stream gets to its end is `RunSettles`, which TLC checks.

How the proofs shaped the models: the verdicts of `RoutineRun` are `IF`/`ELSE` in the
order of the code's early returns, since the arms of a `CASE` overlap and TLA+ leaves open
which one applies; the id of a device's continuation is written as a tuple; and
`LibraryTypeOK` covers requests and workers.

## 5. Plan

Composition of wallet and completion: the reservations of an ended run are released or
reclaimed, whatever crashed. It closes the hazards of the completion's replay, which
releases no reservations, and of its settlement.

## 6. Not modelled

Most of the repository is request parsing, authorization of one request, row mapping
and single-transaction updates: rows go in and come out, and a model of it would
restate the code without a question to ask of it. What is left of the parts that do
have a protocol:

- *Workflow engine* (`internal/workflows/`): a pure function of a definition and its
  step states, called by one process, that repeats a node up to three times; it is tested
  by its own examples. Its device nodes only read, and may be read again.
- *Collaboration rooms and relay*: documents are merged by the Yjs library, so what
  the rooms guarantee rests on code outside the repository. The control outbox is a leased
  queue like the deliveries of `Continuations`.
- *Payments*: the order of webhook events is decided by the payment provider; the
  effect on a license, at any time, is `ChangePlan`.
- *Provider integrations, social and mail*: leased queues of the shape modelled in
  `Continuations`, around calls to external services.
- *Membership, messages, tasks, calendars, accounts, sessions*: one transaction each.
  Message deletion is modelled where it meets the library's storage.
- Within the modelled components, what the sections above name as left out.
