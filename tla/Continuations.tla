--------------------------- MODULE Continuations ---------------------------
(* How a paused agent comes back: a tool call opens a wait for an approval, a *)
(* device or a user action (postgres/sdk_invocation_approvals.go,             *)
(* creator_agent_approvals.go, ai_device_waits.go, ai_intervention_waits.go), *)
(* a decision or an expiry ends it and queues a continuation in the same      *)
(* transaction (agent_continuation_delivery.go), and leased workers deliver   *)
(* it to the hook of the durable workflow (agent_runtime_delivery.go).        *)
(* Replies are lost, leases expire, the device comes and goes.                *)
EXTENDS Naturals

CONSTANTS NumCalls,     \* the workflow executes calls 1 .. NumCalls, in order
          Approvals,    \* calls that need an approval
          Devices,      \* calls executed on a device
          UserActions,  \* calls that ask the user to act
          MaxAttempts,  \* requests of one call (64 in tool-execution.ts)
          Workers,      \* delivery loops
          MaxFaults     \* bound: lost replies and expired leases

Calls == 1 .. NumCalls
Attempts == 0 .. (MaxAttempts - 1)

ASSUME ContinuationAssumption ==
  /\ NumCalls \in Nat \ {0} /\ MaxAttempts \in Nat \ {0} /\ MaxFaults \in Nat
  /\ Approvals \cup Devices \cup UserActions \subseteq Calls
  /\ UserActions \cap (Approvals \cup Devices) = {}

VARIABLES table,       \* the run row is one of ai_invocations or of space_runs
          run,         \* state of the run row
          approvals,   \* agent_run_tool_approvals, by call: state and hook
          approvalWait,\* approval_wait_id of the run row, 0 for none
          deviceWait,  \* device_wait_hook_token of the run row
          actions,     \* ai_intervention_waits, by call
          late,        \* calls whose wait has run out of time
          listed,      \* approvals that a sweep has read and not yet resumed
          deliveries,  \* agent_runtime_deliveries
          worker,      \* what each delivery loop is doing
          wf,          \* the workflow: call, attempt, and the hook it is parked at
          executed,    \* calls that were executed
          faults

vars == <<table, run, approvals, approvalWait, deviceWait, actions, late, listed, deliveries, worker, wf,
          executed, faults>>
rows == <<approvals, approvalWait, deviceWait, actions>>

NoToken == <<0, 0>>
Tokens == (Calls \X Attempts) \cup {NoToken}
DecisionStates == {"none", "pending", "approved", "denied", "expired"}
ActionStates == {"none", "pending", "ready", "declined", "expired"}

\* A delivery is identified by operation and wait: an approval or a user action
\* by its call, a device wait by its hook token.
Ids == ({"approval"} \X Approvals \X {0}) \cup ({"user"} \X UserActions \X {0})
       \cup ({"device"} \X Devices \X Attempts)
NoDelivery == [state |-> "none", lease |-> "none", expired |-> FALSE, hook |-> 0, yes |-> FALSE]
NoId == <<"none", 0, 0>>
IdleWorker == [pc |-> "idle", id |-> NoId, yes |-> FALSE]

Invocation == table = "ai_invocations"

ContTypeOK ==
  /\ table \in {"ai_invocations", "space_runs"}
  /\ run \in {"running", "awaiting_approval", "awaiting_device", "awaiting_intervention", "ended"}
  /\ approvals \in [Calls -> [state : DecisionStates, hook : Attempts]]
  /\ approvalWait \in Calls \cup {0}
  /\ deviceWait \in Tokens
  /\ actions \in [Calls -> [state : ActionStates, hook : Attempts, consumed : BOOLEAN]]
  /\ late \subseteq Calls /\ listed \subseteq Calls
  /\ deliveries \in [Ids -> [state : {"none", "pending", "leased", "completed"},
                             lease : Workers \cup {"none"}, expired : BOOLEAN,
                             hook : Attempts, yes : BOOLEAN]]
  /\ worker \in [Workers -> [pc : {"idle", "claimed", "checked", "accepted", "refused"},
                             id : Ids \cup {NoId}, yes : BOOLEAN]]
  /\ wf \in [pc : {"request", "opening", "parked", "ended"}, call : Calls, attempt : Attempts,
             kind : {"none", "approval", "device", "user"}]
  /\ executed \subseteq Calls
  /\ faults \in 0 .. MaxFaults

Init ==
  /\ table \in {"ai_invocations", "space_runs"}
  /\ run = "running"
  /\ approvals = [c \in Calls |-> [state |-> "none", hook |-> 0]]
  /\ approvalWait = 0
  /\ deviceWait = NoToken
  /\ actions = [c \in Calls |-> [state |-> "none", hook |-> 0, consumed |-> FALSE]]
  /\ late = {} /\ listed = {}
  /\ deliveries = [i \in Ids |-> NoDelivery]
  /\ worker = [w \in Workers |-> IdleWorker]
  /\ wf = [pc |-> "request", call |-> 1, attempt |-> 0, kind |-> "none"]
  /\ executed = {}
  /\ faults = 0

-----------------------------------------------------------------------------
(* A tool request of the workflow.  Its reply parks the workflow, or ends the *)
(* call; a lost reply makes the workflow send the same request again.         *)

Token == <<wf.call, wf.attempt>>

NextCall ==
  IF wf.call = NumCalls THEN [wf EXCEPT !.pc = "ended", !.kind = "none"]
  ELSE [wf EXCEPT !.pc = "request", !.call = @ + 1, !.attempt = 0, !.kind = "none"]

Replied(next) ==
  \/ wf' = next /\ UNCHANGED faults
  \/ faults < MaxFaults /\ faults' = faults + 1 /\ wf' = wf

ParkFor(kind) == Replied([wf EXCEPT !.pc = "opening", !.kind = kind])

\* Requests of a personal agent are only served while its run is running.
Served(states) == run = "running" \/ (Invocation /\ run \in states)

Undecided(c) == c \in Approvals /\ approvals[c].state /= "approved"

RequireApproval ==
  LET c == wf.call IN
  /\ wf.pc = "request" /\ Undecided(c)
  /\ Served({"awaiting_approval"})
  /\ CASE approvals[c].state = "none" ->
            /\ run = "running"
            /\ approvals' = [approvals EXCEPT ![c] = [state |-> "pending", hook |-> wf.attempt]]
            /\ approvalWait' = c
            /\ run' = "awaiting_approval"
            /\ ParkFor("approval")
       [] approvals[c].state = "pending" ->
            ParkFor("approval") /\ UNCHANGED <<run, approvals, approvalWait>>
       [] OTHER -> Replied(NextCall) /\ UNCHANGED <<run, approvals, approvalWait>>
  /\ UNCHANGED <<table, deviceWait, actions, late, listed, deliveries, worker, executed>>

\* The device is not there: the run waits, under the token of this attempt.  A
\* browser is prepared before its approval is asked for, so this may come first.
AwaitDevice ==
  /\ wf.pc = "request" /\ wf.call \in Devices
  /\ \/ run = "running"
     \/ Invocation /\ run = "awaiting_device" /\ deviceWait = Token
  /\ run' = "awaiting_device"
  /\ deviceWait' = Token
  /\ ParkFor("device")
  /\ UNCHANGED <<table, approvals, approvalWait, actions, late, listed, deliveries, worker, executed>>

\* The wait for a user action is asked for, and later consumed, by the same call;
\* it is not if the page the user was ready at is gone by then.
AwaitUserIntervention ==
  LET c == wf.call IN
  /\ wf.pc = "request" /\ c \in UserActions
  /\ run \in {"running", "awaiting_intervention"}
  /\ CASE actions[c].state = "none" ->
            /\ run = "running"
            /\ actions' = [actions EXCEPT ![c] =
                 [state |-> "pending", hook |-> wf.attempt, consumed |-> FALSE]]
            /\ run' = "awaiting_intervention"
            /\ ParkFor("user")
            /\ UNCHANGED executed
       [] actions[c].state = "pending" ->
            actions[c].hook = wf.attempt /\ ParkFor("user") /\ UNCHANGED <<run, actions, executed>>
       [] OTHER ->
            /\ run = "running"
            /\ \/ /\ actions' = [actions EXCEPT ![c].consumed = TRUE]
                  /\ executed' = IF actions[c].state = "ready" THEN executed \cup {c} ELSE executed
               \/ actions[c].state = "ready" /\ UNCHANGED <<actions, executed>>
            /\ Replied(NextCall)
            /\ UNCHANGED run
  /\ UNCHANGED <<table, approvals, approvalWait, deviceWait, late, listed, deliveries, worker>>

\* The call itself; the device is there.
ExecuteCall ==
  /\ wf.pc = "request" /\ run = "running"
  /\ ~ Undecided(wf.call) /\ wf.call \notin UserActions
  /\ executed' = executed \cup {wf.call}
  /\ Replied(NextCall)
  /\ UNCHANGED <<table, run, rows, late, listed, deliveries, worker>>

\* A request the run's state does not allow ends the call with an error; so does
\* one that finds the device away while the run waits for the approval.
RequestRefused ==
  LET c == wf.call IN
  /\ wf.pc = "request" /\ run /= "running"
  /\ c \in Devices \/ ~ (Undecided(c) /\ Served({"awaiting_approval"}) /\ approvals[c].state /= "none")
  /\ ~ (c \in Devices /\ Invocation /\ run = "awaiting_device" /\ deviceWait = Token)
  /\ ~ (c \in UserActions /\ run = "awaiting_intervention" /\ actions[c].state = "pending"
                          /\ actions[c].hook = wf.attempt)
  /\ wf' = NextCall
  /\ UNCHANGED <<table, run, rows, late, listed, deliveries, worker, executed, faults>>

OpenHook ==
  /\ wf.pc = "opening"
  /\ wf' = [wf EXCEPT !.pc = "parked"]
  /\ UNCHANGED <<table, run, rows, late, listed, deliveries, worker, executed, faults>>

\* Cancellation, expiry of the run, completion by somebody else.
EndRun ==
  /\ run /= "ended"
  /\ run' = "ended"
  /\ UNCHANGED <<table, rows, late, listed, deliveries, worker, wf, executed, faults>>

-----------------------------------------------------------------------------
(* Decisions and expiries.                                                    *)

\* ON CONFLICT DO NOTHING: the first continuation of a wait stays.
Queued(i, hook, yes) ==
  IF deliveries[i].state /= "none" THEN deliveries
  ELSE [deliveries EXCEPT ![i] = [NoDelivery EXCEPT !.state = "pending", !.hook = hook, !.yes = yes]]

\* A wait of the call that is open runs out of time.
Passes(c) ==
  /\ c \notin late
  /\ approvals[c].state = "pending" \/ actions[c].state = "pending" \/ deviceWait[1] = c
  /\ late' = late \cup {c}
  /\ UNCHANGED <<table, run, rows, listed, deliveries, worker, wf, executed, faults>>

\* The owner decides; an SDK decision may be repeated, never changed.
MayDecideAnew(c, state) == TRUE
MayDecide(c, state) ==
  \/ approvals[c].state = "pending"
  \/ Invocation /\ approvals[c].state = state

Decide(c, state) ==
  /\ approvalWait = c /\ c \notin late
  /\ approvals[c].state /= "none" /\ MayDecide(c, state)
  /\ run = "awaiting_approval" \/ (Invocation /\ run = "running")
  /\ approvals' = [approvals EXCEPT ![c].state = state]
  /\ run' = "running"
  /\ deliveries' = Queued(<<"approval", c, 0>>, approvals[c].hook, state = "approved")
  /\ UNCHANGED <<table, approvalWait, deviceWait, actions, late, listed, worker, wf, executed, faults>>

\* ExpireSDKToolApprovals: pending approvals of invocations, resumed as denied.
ExpireSDKToolApprovals(c) ==
  /\ Invocation
  /\ approvals[c].state = "pending" /\ c \in late
  /\ run = "awaiting_approval" /\ approvalWait = c
  /\ approvals' = [approvals EXCEPT ![c].state = "expired"]
  /\ run' = "running"
  /\ deliveries' = Queued(<<"approval", c, 0>>, approvals[c].hook, FALSE)
  /\ UNCHANGED <<table, approvalWait, deviceWait, actions, late, listed, worker, wf, executed, faults>>

\* Mutant: expired approvals are not listed.
ListableDecision(c) ==
  /\ ~ Invocation /\ approvalWait = c
  /\ run = "running" /\ approvals[c].state \in {"approved", "denied"}

\* What the sweeps of space_runs read: decisions whose hook is not acknowledged,
\* and expiries the run still waits at.
Listable(c) ==
  /\ ~ Invocation /\ approvalWait = c
  /\ \/ run = "running" /\ approvals[c].state \in {"approved", "denied"}
     \/ run = "awaiting_approval" /\ approvals[c].state = "expired"

ListApprovals ==
  /\ \E c \in Calls \ listed : Listable(c)
  /\ listed' = listed \cup {c \in Calls : Listable(c)}
  /\ UNCHANGED <<table, run, rows, late, deliveries, worker, wf, executed, faults>>

\* ExpireCreatorToolApprovals: every pending approval of the table is expired,
\* an invocation's too, which no sweep resumes.
ExpireCreatorToolApprovals ==
  /\ \E c \in late : approvals[c].state = "pending"
  /\ approvals' = [c \in Calls |-> IF c \in late /\ approvals[c].state = "pending"
                                   THEN [approvals[c] EXCEPT !.state = "expired"]
                                   ELSE approvals[c]]
  /\ UNCHANGED <<table, run, approvalWait, deviceWait, actions, late, listed, deliveries, worker, wf,
                 executed, faults>>

\* A listed approval is resumed in a transaction of its own, if its wait is still
\* there, or none: a late sweep puts back the wait of an answer that was delivered.
\* Another sweep may have it on its list too.
QueueAgentApprovalResume(c) ==
  /\ c \in listed
  /\ listed' \in {listed, listed \ {c}}
  /\ IF approvalWait \in {c, 0} /\ run \in {"running", "awaiting_approval"}
     THEN /\ run' = "running" /\ approvalWait' = c
          /\ deliveries' = Queued(<<"approval", c, 0>>, approvals[c].hook,
                                  approvals[c].state = "approved")
     ELSE UNCHANGED <<run, approvalWait, deliveries>>
  /\ UNCHANGED <<table, approvals, deviceWait, actions, late, worker, wf, executed, faults>>

\* The device is back, or its wait has expired.  An invocation whose authority is
\* gone is told that there is no device.
QueueAgentDeviceResume ==
  /\ run = "awaiting_device" /\ deviceWait /= NoToken
  /\ \E available \in BOOLEAN, authorized \in {TRUE, ~ Invocation} :
       /\ available \/ deviceWait[1] \in late
       /\ deliveries' = Queued(<<"device", deviceWait[1], deviceWait[2]>>, deviceWait[2],
                               available /\ authorized /\ deviceWait[1] \notin late)
  /\ run' = "running"
  /\ UNCHANGED <<table, rows, late, listed, worker, wf, executed, faults>>

\* DecideAIUserIntervention, by the user or by the sweep of expired waits.
DecideUserIntervention(c, ready) ==
  LET state == IF c \in late THEN "expired" ELSE IF ready THEN "ready" ELSE "declined" IN
  /\ run = "awaiting_intervention" /\ actions[c].state = "pending"
  /\ actions' = [actions EXCEPT ![c].state = state]
  /\ run' = "running"
  /\ deliveries' = Queued(<<"user", c, 0>>, actions[c].hook, state = "ready")
  /\ UNCHANGED <<table, approvals, approvalWait, deviceWait, late, listed, worker, wf, executed, faults>>

-----------------------------------------------------------------------------
(* Delivery.                                                                  *)

ClaimDelivery(w, i) ==
  /\ worker[w] = IdleWorker
  /\ deliveries[i].state = "pending" \/ (deliveries[i].state = "leased" /\ deliveries[i].expired)
  /\ deliveries' = [deliveries EXCEPT ![i].state = "leased", ![i].lease = w, ![i].expired = FALSE]
  /\ worker' = [worker EXCEPT ![w] = [pc |-> "claimed", id |-> i, yes |-> deliveries[i].yes]]
  /\ UNCHANGED <<table, run, rows, late, listed, wf, executed, faults>>

LeaseExpires(i) ==
  /\ deliveries[i].state = "leased" /\ ~ deliveries[i].expired /\ faults < MaxFaults
  /\ deliveries' = [deliveries EXCEPT ![i].expired = TRUE]
  /\ faults' = faults + 1
  /\ UNCHANGED <<table, run, rows, late, listed, worker, wf, executed>>

\* Is the wait of this continuation still the one the run stands at?
Current(i) ==
  CASE i[1] = "approval" ->
         /\ approvalWait = i[2]
         /\ run = "running" \/ (~ Invocation /\ run \in {"awaiting_approval", "awaiting_device"})
    [] i[1] = "device" ->
         deviceWait = <<i[2], i[3]>> /\ run \in {"running", "awaiting_approval", "awaiting_device"}
    [] OTHER ->
         actions[i[2]].state \in {"ready", "declined", "expired"} /\ ~ actions[i[2]].consumed
         /\ run = "running"

\* FinishAgentRuntimeDelivery, under the lease; without it nothing is written.
FinishAs(w, state) ==
  LET i == worker[w].id IN
  /\ worker' = [worker EXCEPT ![w] = IdleWorker]
  /\ deliveries' = IF deliveries[i].state = "leased" /\ deliveries[i].lease = w
                   THEN [deliveries EXCEPT ![i].state = state, ![i].lease = "none", ![i].expired = FALSE]
                   ELSE deliveries

\* The permission to go on with a yes may be gone by now; a no stays a no.
CheckCurrent(w) ==
  LET i == worker[w].id IN
  /\ worker[w].pc = "claimed"
  /\ IF Current(i)
     THEN /\ \E yes \in (IF i[1] = "approval" \/ (i[1] = "device" /\ ~ Invocation) THEN {worker[w].yes}
                         ELSE {worker[w].yes, FALSE}) :
               worker' = [worker EXCEPT ![w].pc = "checked", ![w].yes = yes]
          /\ UNCHANGED deliveries
     ELSE FinishAs(w, "completed")
  /\ UNCHANGED <<table, run, rows, late, listed, wf, executed, faults>>

\* The check itself fails: the delivery is tried again.
CheckFails(w) ==
  /\ worker[w].pc = "claimed" /\ faults < MaxFaults
  /\ faults' = faults + 1
  /\ FinishAs(w, "pending")
  /\ UNCHANGED <<table, run, rows, late, listed, wf, executed>>

HookOf(i) == [pc |-> "parked", call |-> i[2], attempt |-> deliveries[i].hook, kind |-> i[1]]

Resumed(yes) ==
  IF ~ yes THEN NextCall
  ELSE IF wf.attempt + 1 \in Attempts
       THEN [wf EXCEPT !.pc = "request", !.attempt = @ + 1, !.kind = "none"]
  ELSE [wf EXCEPT !.pc = "ended", !.kind = "none"]

\* The hook accepts one answer; the reply of the runtime may be lost.
ResumeHook(w) ==
  LET i == worker[w].id IN
  /\ worker[w].pc = "checked"
  /\ wf = HookOf(i)
  /\ wf' = Resumed(worker[w].yes)
  /\ \/ worker' = [worker EXCEPT ![w].pc = "accepted"] /\ UNCHANGED faults
     \/ faults < MaxFaults /\ faults' = faults + 1 /\ worker' = [worker EXCEPT ![w].pc = "refused"]
  /\ UNCHANGED <<table, run, rows, late, listed, deliveries, executed>>

\* The hook does not exist yet, or no more.
HookMissing(w) ==
  /\ worker[w].pc = "checked"
  /\ wf /= HookOf(worker[w].id)
  /\ worker' = [worker EXCEPT ![w].pc = "refused"]
  /\ UNCHANGED <<table, run, rows, late, listed, deliveries, wf, executed, faults>>

\* FinishAgentContinuation clears the wait that was answered.
ClearsAnyState(i) == i[1] = "device" /\ deviceWait = <<i[2], i[3]>>
ClearsDeviceWait(i) ==
  /\ i[1] = "device" /\ deviceWait = <<i[2], i[3]>>
  /\ Invocation => run /= "awaiting_device"

Acknowledge(w) ==
  LET i == worker[w].id IN
  /\ worker[w].pc = "accepted"
  /\ approvalWait' = IF i[1] = "approval" /\ approvalWait = i[2] THEN 0 ELSE approvalWait
  /\ deviceWait' = IF ClearsDeviceWait(i) THEN NoToken ELSE deviceWait
  /\ FinishAs(w, "completed")
  /\ UNCHANGED <<table, run, approvals, actions, late, listed, wf, executed, faults>>

\* After an error: a wait that has moved on shows that the answer arrived.
AfterErrorDone(i) == "completed"
AfterError(i) == IF Current(i) THEN "pending" ELSE "completed"

LookAgain(w) ==
  /\ worker[w].pc = "refused"
  /\ FinishAs(w, AfterError(worker[w].id))
  /\ UNCHANGED <<table, run, rows, late, listed, wf, executed, faults>>

Deliver(w) ==
  \/ \E i \in Ids : ClaimDelivery(w, i)
  \/ CheckCurrent(w) \/ CheckFails(w) \/ ResumeHook(w) \/ HookMissing(w) \/ Acknowledge(w) \/ LookAgain(w)

Workflow == RequireApproval \/ AwaitDevice \/ AwaitUserIntervention \/ ExecuteCall
            \/ RequestRefused \/ OpenHook

SweepDecisions ==
  ListApprovals \/ \E c \in Calls : QueueAgentApprovalResume(c) \/ ExpireSDKToolApprovals(c)
SweepActions == \E c \in late : DecideUserIntervention(c, FALSE)

Next ==
  \/ \E w \in Workers : Deliver(w)
  \/ Workflow \/ EndRun
  \/ SweepDecisions \/ ExpireCreatorToolApprovals \/ QueueAgentDeviceResume
  \/ \E c \in Calls :
       \/ Passes(c)
       \/ \E state \in {"approved", "denied"} : Decide(c, state)
       \/ \E ready \in BOOLEAN : DecideUserIntervention(c, ready)
  \/ \E i \in Ids : LeaseExpires(i)

Spec == Init /\ [][Next]_vars

\* The polling loop runs every sweep and the deliveries over and over, and the
\* workflow engine runs its workflows.  Claims are ordered by available_at, which
\* every failed delivery moves behind the others: each one is claimed in turn.
FairSpec ==
  /\ Spec
  /\ WF_vars(Workflow)
  /\ WF_vars(SweepDecisions) /\ WF_vars(ExpireCreatorToolApprovals)
  /\ WF_vars(SweepActions) /\ WF_vars(QueueAgentDeviceResume)
  /\ \A w \in Workers : WF_vars(Deliver(w))
  /\ \A i \in Ids : SF_vars(\E w \in Workers : ClaimDelivery(w, i))

-----------------------------------------------------------------------------

\* The workflow is told what the owner decided: no lost reply, expired lease or
\* repeated decision turns a denial or an expiry into a yes at a hook, and what
\* needs consent is executed only with it.
ConsentIsReal ==
  /\ \A w \in Workers : worker[w].pc \in {"checked", "accepted"} /\ worker[w].yes =>
       LET i == worker[w].id IN
       /\ i[1] = "approval" => approvals[i[2]].state = "approved"
       /\ i[1] = "user" => actions[i[2]].state = "ready"
  /\ \A c \in executed : /\ c \in Approvals => approvals[c].state = "approved"
                         /\ c \in UserActions => actions[c].state = "ready"

\* An invocation that waits for an approval or a device knows what it waits for:
\* the late acknowledgement of an earlier continuation cannot clear a later wait.
\* (A space run's acknowledgement has no such guard: see the README.)
LaterInvocationWaitSurvives ==
  Invocation => /\ run = "awaiting_device" => deviceWait /= NoToken
                /\ run = "awaiting_approval" => approvalWait /= 0

\* The wait the workflow is parked at has been answered.
Answered ==
  /\ wf.pc = "parked"
  /\ \/ wf.kind = "approval" /\ approvals[wf.call].state \in {"approved", "denied"}
     \/ wf.kind = "user" /\ actions[wf.call].state \in {"ready", "declined", "expired"}

\* An answer reaches the workflow, unless the run ends first.
AnswerArrives == Answered ~> (wf.pc /= "parked" \/ run = "ended")

\* A wait that runs out of time ends: the workflow at a device goes on, and an
\* expired approval of a space run resumes it with a denial.
OverdueWaitEnds ==
  /\ (wf.pc = "parked" /\ wf.kind = "device" /\ wf.call \in late)
       ~> (wf.pc /= "parked" \/ run = "ended")
  /\ (~ Invocation /\ wf.pc = "parked" /\ wf.kind = "approval" /\ approvals[wf.call].state = "expired")
       ~> (wf.pc /= "parked" \/ run = "ended")

\* So does every expired approval, an invocation's too.
ExpiryArrives ==
  (wf.pc = "parked" /\ wf.kind = "approval" /\ approvals[wf.call].state = "expired")
    ~> (wf.pc /= "parked" \/ run = "ended")
=============================================================================
