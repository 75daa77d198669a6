-------------------------- MODULE DeviceJobsProofs --------------------------
(* The safety of DeviceJobs for every number of polls, deliveries and         *)
(* recoveries.                                                                *)
EXTENDS DeviceJobs, TLAPS

\* The device acts on token t.
Live(t) == device[t] \in {"begun", "done"}

\* Deliveries number the tokens; a queued job has one left, one that does not exist
\* has had none.
DeliveryInv ==
  /\ \A t \in Tokens : t > job.deliveries => device[t] = "none"
  /\ job.token <= job.deliveries
  /\ job.state = "queued" => job.deliveries < MaxDeliveries
  /\ job.state = "none" => job = NoJob

\* A start is acknowledged once and for the last lease; a job of protocol 1 is
\* delivered at most once and nobody waits for it.
StartInv ==
  /\ job.started => job.version = 2 /\ job.state \in {"executing", "uncertain", "completed", "failed"}
  /\ job.state = "executing" => job.started
  /\ job.version = 2 => \A t \in Tokens : Live(t) =>
       job.token = t /\ job.started /\ job.state \in {"executing", "uncertain", "completed"}
  /\ job.version = 1 =>
       /\ waiter = Idle /\ call = "started"
       /\ job.deliveries <= 1
       /\ job.state = "queued" => job.deliveries = 0

\* The action took effect on the one token that is done.
EffectInv ==
  /\ effects \in {0, 1}
  /\ effects = 1 <=> \E t \in Tokens : device[t] = "done"
  /\ job.state = "completed" => effects = 1

\* A call that may be admitted, or is about to be queued, armed or recorded as not
\* attempted has no job or a canceled one.
WaiterInv ==
  /\ waiter.pc /= "idle" => call = "started"
  /\ waiter.pc = "record" <=> waiter.answer /= "none"
  /\ waiter.pc = "poll" => job.state /= "none"
  /\ (call \in {"none", "not_attempted"} \/ waiter.pc \in {"queue", "rearm"} \/ waiter.answer = "not_attempted") =>
       job.version = 2 /\ job.state \in {"none", "canceled"}
  /\ "completed" \in {call, waiter.answer} => job.state = "completed"

\* The inductive invariant.
Inv == DeviceTypeOK /\ DeliveryInv /\ StartInv /\ EffectInv /\ WaiterInv

-----------------------------------------------------------------------------
\* At most one token is live, and none while a call counts as not attempted.
LEMMA OneLive ==
  ASSUME Inv
  PROVE  /\ \A t, u \in Tokens : Live(t) /\ Live(u) => t = u
         /\ job.version = 2 /\ job.state \in {"none", "queued", "leased", "canceled"} =>
              (\A t \in Tokens : ~Live(t)) /\ effects = 0
  BY DeviceAssumption DEF Inv, DeviceTypeOK, DeliveryInv, StartInv, EffectInv, Live, Tokens

\* A call of this release, and each job an earlier one may have left, satisfies Inv.
LEMMA InitInv == Init => Inv
<1> SUFFICES ASSUME Init PROVE Inv
  OBVIOUS
<1> USE DeviceAssumption DEF NoJob, Idle, Tokens, Live
<1>0. waiter = Idle /\ poller = [p \in Pollers |-> "idle"] /\ effects = 0 /\ run = "running" /\ target = TRUE
  BY DEF Init
<1>1. CASE job = NoJob /\ call = "none" /\ device = [t \in Tokens |-> "none"]
  BY <1>0, <1>1 DEF Inv, DeviceTypeOK, DeliveryInv, StartInv, EffectInv, WaiterInv, JobStates
<1>2. CASE /\ call = "started"
           /\ job = [NoJob EXCEPT !.state = "queued", !.version = 1]
           /\ device = [t \in Tokens |-> "none"]
  <2>1. job = [state |-> "queued", version |-> 1, token |-> 0, started |-> FALSE, cancel |-> FALSE,
               deliveries |-> 0, recoveries |-> 0, late |-> FALSE, lapsed |-> FALSE]
    BY <1>2
  <2>2. call = "started" /\ device = [t \in Tokens |-> "none"]
    BY <1>2
  <2> QED
    BY <1>0, <2>1, <2>2 DEF Inv, DeviceTypeOK, DeliveryInv, StartInv, EffectInv, WaiterInv, JobStates
<1>3. CASE /\ call = "started"
           /\ job = [NoJob EXCEPT !.state = "leased", !.version = 1, !.token = 1, !.deliveries = 1]
           /\ device = [t \in Tokens |-> IF t = 1 THEN "begun" ELSE "none"]
  <2>1. job = [state |-> "leased", version |-> 1, token |-> 1, started |-> FALSE, cancel |-> FALSE,
               deliveries |-> 1, recoveries |-> 0, late |-> FALSE, lapsed |-> FALSE]
    BY <1>3
  <2>2. call = "started" /\ device = [t \in Tokens |-> IF t = 1 THEN "begun" ELSE "none"]
    BY <1>3
  <2> QED
    BY <1>0, <2>1, <2>2 DEF Inv, DeviceTypeOK, DeliveryInv, StartInv, EffectInv, WaiterInv, JobStates
<1> QED
  BY <1>1, <1>2, <1>3 DEF Init

\* A call is admitted with no job or a canceled one.
LEMMA ClaimCallInv ==
  ASSUME Inv, ClaimCall
  PROVE  Inv'
  BY DeviceAssumption, OneLive DEF ClaimCall, world, Idle, NoJob, Inv, Live, Tokens, JobStates,
     DeviceTypeOK, DeliveryInv, StartInv, EffectInv, WaiterInv

\* A job is made only where there is none.
LEMMA QueueJobInv ==
  ASSUME Inv, QueueJob
  PROVE  Inv'
<1> USE DeviceAssumption, OneLive DEF QueueJob, world, Answer, Goto, Authorized, Idle, NoJob, Inv,
      Live, Tokens, JobStates
<1>1. CASE Answer("unknown") /\ UNCHANGED job
  BY <1>1 DEF DeviceTypeOK, DeliveryInv, StartInv, EffectInv, WaiterInv
<1>2. CASE run = "running" /\ ~target /\ Answer("not_attempted") /\ UNCHANGED job
  BY <1>2 DEF DeviceTypeOK, DeliveryInv, StartInv, EffectInv, WaiterInv
<1>3. CASE Authorized /\ job.state = "none" /\ Goto("poll") /\ job' = [NoJob EXCEPT !.state = "queued"]
  <2>1. DeviceTypeOK'
    BY <1>3 DEF DeviceTypeOK, DeliveryInv
  <2>2. DeliveryInv'
    BY <1>3 DEF DeviceTypeOK, DeliveryInv
  <2>3. StartInv'
    BY <1>3 DEF DeviceTypeOK, StartInv
  <2>4. EffectInv'
    BY <1>3 DEF DeviceTypeOK, EffectInv
  <2>5. WaiterInv'
    BY <1>3 DEF DeviceTypeOK, WaiterInv
  <2> QED
    BY <2>1, <2>2, <2>3, <2>4, <2>5
<1>4. CASE /\ Authorized /\ job.state /= "none" /\ UNCHANGED job
           /\ (Goto("rearm") /\ job.state = "canceled") \/ Goto("poll")
  BY <1>4 DEF DeviceTypeOK, DeliveryInv, StartInv, EffectInv, WaiterInv
<1> QED
  BY <1>1, <1>2, <1>3, <1>4

\* Arming again starts from a canceled job, which no device acts on.
LEMMA RearmUnstartedBrowserJobInv ==
  ASSUME Inv, RearmUnstartedBrowserJob
  PROVE  Inv'
<1> USE DeviceAssumption, OneLive DEF RearmUnstartedBrowserJob, world, Answer, Goto, Authorized,
      Idle, NoJob, Inv, Live, Tokens, JobStates
<1>1. CASE /\ Authorized /\ job.state = "canceled" /\ job.version = 2 /\ ~job.started
           /\ job.recoveries < MaxRecoveries /\ job.deliveries < MaxDeliveries
           /\ job' = [NoJob EXCEPT !.state = "queued", !.deliveries = job.deliveries,
                                   !.recoveries = job.recoveries + 1]
           /\ Goto("poll")
  <2>1. DeviceTypeOK'
    <3>1. job' = [state |-> "queued", version |-> 2, token |-> 0, started |-> FALSE, cancel |-> FALSE,
                  deliveries |-> job.deliveries, recoveries |-> job.recoveries + 1,
                  late |-> FALSE, lapsed |-> FALSE]
      BY <1>1
    <3>2. job.deliveries \in 0 .. MaxDeliveries /\ job.recoveries + 1 \in 0 .. MaxRecoveries
      BY <1>1 DEF DeviceTypeOK
    <3>3. DeviceTypeOK /\ waiter' = [waiter EXCEPT !.pc = "poll"] /\ UNCHANGED <<call, poller, device, effects, run, target>>
      BY <1>1
    <3> HIDE DEF RearmUnstartedBrowserJob, Inv
    <3> QED
      BY <3>1, <3>2, <3>3 DEF DeviceTypeOK
  <2>2. DeliveryInv'
    BY <1>1 DEF DeviceTypeOK, DeliveryInv
  <2>3. StartInv'
    BY <1>1 DEF DeviceTypeOK, StartInv
  <2>4. EffectInv'
    BY <1>1 DEF DeviceTypeOK, EffectInv
  <2>5. WaiterInv'
    BY <1>1 DEF DeviceTypeOK, WaiterInv
  <2> QED
    BY <2>1, <2>2, <2>3, <2>4, <2>5
<1>2. CASE Answer("not_attempted") /\ UNCHANGED job
  BY <1>2 DEF DeviceTypeOK, DeliveryInv, StartInv, EffectInv, WaiterInv
<1> QED
  BY <1>1, <1>2

\* A canceled job is answered as not attempted, a completed one with its result.
LEMMA PollInv ==
  ASSUME Inv, Poll
  PROVE  Inv'
<1> USE DeviceAssumption, OneLive DEF Poll, world, Answer, AnswerOf, OpenStates, Idle, NoJob, Inv,
      Live, Tokens, JobStates
<1>1. DeviceTypeOK'
  BY DEF DeviceTypeOK
<1>2. DeliveryInv'
  BY DEF DeviceTypeOK, DeliveryInv
<1>3. StartInv'
  BY DEF DeviceTypeOK, StartInv
<1>4. EffectInv'
  BY DEF DeviceTypeOK, EffectInv
<1>5. WaiterInv'
  BY DEF DeviceTypeOK, StartInv, WaiterInv
<1> QED
  BY <1>1, <1>2, <1>3, <1>4, <1>5

\* Stopping cancels only what has not started.
LEMMA StopWorkflowDeviceNodeJobInv ==
  ASSUME Inv, StopWorkflowDeviceNodeJob
  PROVE  Inv'
<1> USE DeviceAssumption, OneLive DEF StopWorkflowDeviceNodeJob, world, Answer, AnswerOf,
      MayHaveBegun, Idle, NoJob, Inv, Live, Tokens, JobStates
<1>1. CASE /\ job' = [job EXCEPT !.cancel = TRUE,
                              !.state = IF MayHaveBegun THEN "uncertain"
                                        ELSE IF @ \in {"queued", "leased"} THEN "canceled" ELSE @]
           /\ Answer(AnswerOf(job'.state))
  <2>1. DeviceTypeOK'
    BY <1>1 DEF DeviceTypeOK
  <2>2. DeliveryInv'
    BY <1>1 DEF DeviceTypeOK, DeliveryInv, StartInv, WaiterInv
  <2>3. StartInv'
    BY <1>1 DEF DeviceTypeOK, StartInv
  <2>4. EffectInv'
    BY <1>1 DEF DeviceTypeOK, EffectInv
  <2>5. WaiterInv'
    BY <1>1 DEF DeviceTypeOK, StartInv, WaiterInv
  <2> QED
    BY <2>1, <2>2, <2>3, <2>4, <2>5
<1>2. CASE Answer("unknown") /\ UNCHANGED job
  <2>1. DeviceTypeOK'
    BY <1>2 DEF DeviceTypeOK
  <2>2. DeliveryInv'
    BY <1>2 DEF DeviceTypeOK, DeliveryInv
  <2>3. StartInv'
    BY <1>2 DEF DeviceTypeOK, StartInv
  <2>4. EffectInv'
    BY <1>2 DEF DeviceTypeOK, EffectInv
  <2>5. WaiterInv'
    BY <1>2 DEF DeviceTypeOK, WaiterInv
  <2> QED
    BY <2>1, <2>2, <2>3, <2>4, <2>5
<1> QED
  BY <1>1, <1>2

\* Recording moves the answer to the call.
LEMMA RecordInv ==
  ASSUME Inv, Record
  PROVE  Inv'
  BY DeviceAssumption, OneLive DEF Record, world, Idle, NoJob, Inv, Live, Tokens, JobStates,
     DeviceTypeOK, DeliveryInv, StartInv, EffectInv, WaiterInv

\* A dead process leaves the call started.
LEMMA DieInv ==
  ASSUME Inv, Die
  PROVE  Inv'
  BY DeviceAssumption, OneLive DEF Die, world, Idle, NoJob, Inv, Live, Tokens, JobStates,
     DeviceTypeOK, DeliveryInv, StartInv, EffectInv, WaiterInv

\* Only an unstarted lease of protocol 2 with a delivery left is queued again.
LEMMA ReapWorkflowDeviceJobsInv ==
  ASSUME NEW p \in Pollers, Inv, ReapWorkflowDeviceJobs(p)
  PROVE  Inv'
<1>1. DeviceTypeOK'
  <2>1. DeviceTypeOK /\ UNCHANGED <<call, waiter, device, effects, run, target>>
    BY DEF Inv, ReapWorkflowDeviceJobs, server, world
  <2>2. \E s \in JobStates : job' \in {job, [job EXCEPT !.state = s]}
    BY DEF ReapWorkflowDeviceJobs, JobStates
  <2>3. poller' \in [Pollers -> {"idle", "reaped"}]
    BY <2>1 DEF ReapWorkflowDeviceJobs, DeviceTypeOK
  <2> QED
    BY <2>1, <2>2, <2>3 DEF DeviceTypeOK
<1> USE DeviceAssumption, OneLive DEF ReapWorkflowDeviceJobs, server, world, MayHaveBegun,
      Redeliverable, Reapable, OpenStates, Idle, NoJob, Inv, Live, Tokens, JobStates
<1>2. DeliveryInv'
  BY DEF DeviceTypeOK, DeliveryInv
<1>3. StartInv'
  BY DEF DeviceTypeOK, StartInv
<1>4. EffectInv'
  BY DEF DeviceTypeOK, EffectInv
<1>5. WaiterInv'
  BY DEF DeviceTypeOK, WaiterInv
<1> QED
  BY <1>1, <1>2, <1>3, <1>4, <1>5

\* A claim uses a new token.
LEMMA ClaimWorkflowDeviceNodeJobInv ==
  ASSUME NEW p \in Pollers, Inv, ClaimWorkflowDeviceNodeJob(p)
  PROVE  Inv'
<1> USE DeviceAssumption, OneLive DEF ClaimWorkflowDeviceNodeJob, server, world, Authorized, Idle,
      NoJob, Inv, Live, Tokens, JobStates
<1>1. CASE /\ job.state = "queued" /\ Authorized
           /\ job' = [job EXCEPT !.state = "leased", !.token = job.deliveries + 1,
                                 !.deliveries = job.deliveries + 1, !.lapsed = FALSE]
           /\ device' = [device EXCEPT ![job.deliveries + 1] = IF job.version = 2 THEN "claimed" ELSE "begun"]
  <2>1. DeviceTypeOK'
    <3>1. job.deliveries + 1 \in Tokens /\ job.deliveries + 1 \in 0 .. MaxDeliveries
      BY <1>1 DEF DeviceTypeOK, DeliveryInv
    <3>2. device' \in [Tokens -> {"none", "claimed", "begun", "done", "quit"}]
      BY <1>1, <3>1 DEF DeviceTypeOK
    <3> QED
      BY <1>1, <3>1, <3>2 DEF DeviceTypeOK
  <2>2. DeliveryInv'
    BY <1>1 DEF DeviceTypeOK, DeliveryInv
  <2>3. StartInv'
    BY <1>1 DEF DeviceTypeOK, StartInv
  <2>4. EffectInv'
    BY <1>1 DEF DeviceTypeOK, DeliveryInv, EffectInv
  <2>5. WaiterInv'
    BY <1>1 DEF DeviceTypeOK, WaiterInv
  <2> QED
    BY <2>1, <2>2, <2>3, <2>4, <2>5
<1>2. CASE /\ job.state = "queued" /\ ~Authorized
           /\ job' = [job EXCEPT !.state = "canceled", !.cancel = TRUE]
           /\ UNCHANGED device
  <2>1. DeviceTypeOK'
    BY <1>2 DEF DeviceTypeOK
  <2>2. DeliveryInv'
    BY <1>2 DEF DeviceTypeOK, DeliveryInv
  <2>3. StartInv'
    BY <1>2 DEF DeviceTypeOK, StartInv
  <2>4. EffectInv'
    BY <1>2 DEF DeviceTypeOK, EffectInv
  <2>5. WaiterInv'
    BY <1>2 DEF DeviceTypeOK, WaiterInv
  <2> QED
    BY <2>1, <2>2, <2>3, <2>4, <2>5
<1>3. CASE UNCHANGED <<job, device>>
  BY <1>3 DEF DeviceTypeOK, DeliveryInv, StartInv, EffectInv, WaiterInv
<1> QED
  BY <1>1, <1>2, <1>3

\* The start is acknowledged to the holder of the last lease, before which nobody is live.
LEMMA BeginWorkflowDeviceNodeJobInv ==
  ASSUME NEW t \in Tokens, Inv, BeginWorkflowDeviceNodeJob(t)
  PROVE  Inv'
<1> USE DeviceAssumption, OneLive DEF BeginWorkflowDeviceNodeJob, server, world, Authorized,
      LeaseHolds, Denied, Idle, NoJob, Inv, Live, Tokens, JobStates
<1>1. CASE Denied(t)
  <2>1. DeviceTypeOK'
    <3>1. /\ DeviceTypeOK /\ job' = [job EXCEPT !.cancel = TRUE]
          /\ UNCHANGED <<call, waiter, poller, device, effects, run, target>>
      BY <1>1
    <3> HIDE DEF BeginWorkflowDeviceNodeJob, Inv
    <3> QED
      BY <3>1 DEF DeviceTypeOK
  <2>2. DeliveryInv'
    BY <1>1 DEF DeviceTypeOK, DeliveryInv
  <2>3. StartInv'
    BY <1>1 DEF DeviceTypeOK, StartInv
  <2>4. EffectInv'
    BY <1>1 DEF DeviceTypeOK, EffectInv
  <2>5. WaiterInv'
    BY <1>1 DEF DeviceTypeOK, WaiterInv
  <2> QED
    BY <2>1, <2>2, <2>3, <2>4, <2>5
<1>2. CASE /\ Authorized /\ LeaseHolds(t)
           /\ job' = [job EXCEPT !.state = "executing", !.started = TRUE]
           /\ UNCHANGED device
  <2>1. DeviceTypeOK'
    BY <1>2 DEF DeviceTypeOK
  <2>2. DeliveryInv'
    BY <1>2 DEF DeviceTypeOK, DeliveryInv
  <2>3. StartInv'
    BY <1>2 DEF DeviceTypeOK, StartInv
  <2>4. EffectInv'
    BY <1>2 DEF DeviceTypeOK, EffectInv
  <2>5. WaiterInv'
    BY <1>2 DEF DeviceTypeOK, WaiterInv
  <2> QED
    BY <2>1, <2>2, <2>3, <2>4, <2>5
<1>3. CASE /\ Authorized /\ LeaseHolds(t)
           /\ job' = [job EXCEPT !.state = "executing", !.started = TRUE]
           /\ device' = [device EXCEPT ![t] = "begun"]
  <2>1. DeviceTypeOK'
    BY <1>3 DEF DeviceTypeOK
  <2>2. DeliveryInv'
    BY <1>3 DEF DeviceTypeOK, DeliveryInv
  <2>3. StartInv'
    BY <1>3 DEF DeviceTypeOK, StartInv
  <2>4. EffectInv'
    BY <1>3 DEF DeviceTypeOK, EffectInv
  <2>5. WaiterInv'
    BY <1>3 DEF DeviceTypeOK, WaiterInv
  <2> QED
    BY <2>1, <2>2, <2>3, <2>4, <2>5
<1> QED
  BY <1>1, <1>2, <1>3

\* A renewal marks the job at most.
LEMMA RenewWorkflowDeviceNodeJobInv ==
  ASSUME NEW t \in Tokens, Inv, RenewWorkflowDeviceNodeJob(t)
  PROVE  Inv'
<1> USE DeviceAssumption, OneLive DEF RenewWorkflowDeviceNodeJob, server, world, Authorized,
      LeaseHolds, Denied, Idle, NoJob, Inv, Live, Tokens, JobStates
<1>1. CASE Denied(t)
  <2>1. DeviceTypeOK'
    <3>1. /\ DeviceTypeOK /\ job' = [job EXCEPT !.cancel = TRUE]
          /\ UNCHANGED <<call, waiter, poller, device, effects, run, target>>
      BY <1>1
    <3> HIDE DEF RenewWorkflowDeviceNodeJob, Inv
    <3> QED
      BY <3>1 DEF DeviceTypeOK
  <2>2. DeliveryInv'
    BY <1>1 DEF DeviceTypeOK, DeliveryInv
  <2>3. StartInv'
    BY <1>1 DEF DeviceTypeOK, StartInv
  <2>4. EffectInv'
    BY <1>1 DEF DeviceTypeOK, EffectInv
  <2>5. WaiterInv'
    BY <1>1 DEF DeviceTypeOK, WaiterInv
  <2> QED
    BY <2>1, <2>2, <2>3, <2>4, <2>5
<1>2. CASE UNCHANGED <<job, device>>
  BY <1>2 DEF DeviceTypeOK, DeliveryInv, StartInv, EffectInv, WaiterInv
<1> QED
  BY <1>1, <1>2

\* The action takes effect on the only live token.
LEMMA ExecuteInv ==
  ASSUME NEW t \in Tokens, Inv, Execute(t)
  PROVE  Inv'
  BY DeviceAssumption, OneLive DEF Execute, server, world, Idle, NoJob, Inv, Live, Tokens,
     JobStates, DeviceTypeOK, DeliveryInv, StartInv, EffectInv, WaiterInv

\* A live device reports no failure for what it has done, and completes only what it has done.
LEMMA FinishWorkflowDeviceNodeJobInv ==
  ASSUME NEW t \in Tokens, NEW s \in JobStates, Inv, FinishWorkflowDeviceNodeJob(t, s)
  PROVE  Inv'
<1>1. DeviceTypeOK'
  <2>1. DeviceTypeOK /\ UNCHANGED <<call, waiter, poller, effects, run, target>>
    BY DEF Inv, FinishWorkflowDeviceNodeJob, server, world
  <2>2. job' \in {job, [job EXCEPT !.state = s]}
    BY DEF FinishWorkflowDeviceNodeJob
  <2>3. device' \in [Tokens -> {"none", "claimed", "begun", "done", "quit"}]
    BY <2>1 DEF FinishWorkflowDeviceNodeJob, DeviceTypeOK
  <2> QED
    BY <2>1, <2>2, <2>3 DEF DeviceTypeOK
<1> USE DeviceAssumption, OneLive DEF FinishWorkflowDeviceNodeJob, server, world, Accepted, Reports,
      Idle, NoJob, Inv, Live, Tokens, JobStates
<1>2. DeliveryInv'
  BY DEF DeviceTypeOK, DeliveryInv
<1>3. StartInv'
  BY DEF DeviceTypeOK, StartInv
<1>4. EffectInv'
  BY DEF DeviceTypeOK, EffectInv
<1>5. WaiterInv'
  BY DEF DeviceTypeOK, WaiterInv
<1> QED
  BY <1>1, <1>2, <1>3, <1>4, <1>5

\* The run waits or goes on.
LEMMA SuspendInv ==
  ASSUME Inv, Suspend
  PROVE  Inv'
  BY DeviceAssumption, OneLive DEF Suspend, server, Idle, NoJob, Inv, Live, Tokens, JobStates,
     DeviceTypeOK, DeliveryInv, StartInv, EffectInv, WaiterInv

\* The target changes.
LEMMA TargetChangesInv ==
  ASSUME Inv, TargetChanges
  PROVE  Inv'
  BY DeviceAssumption, OneLive DEF TargetChanges, server, Idle, NoJob, Inv, Live, Tokens, JobStates,
     DeviceTypeOK, DeliveryInv, StartInv, EffectInv, WaiterInv

\* The end of a run cancels what has not started.
LEMMA EndRunInv ==
  ASSUME Inv, EndRun
  PROVE  Inv'
<1> USE DeviceAssumption, OneLive DEF EndRun, server, MayHaveBegun, OpenStates, Idle, NoJob, Inv,
      Live, Tokens, JobStates
<1>1. DeviceTypeOK'
  BY DEF DeviceTypeOK
<1>2. DeliveryInv'
  BY DEF DeviceTypeOK, DeliveryInv
<1>3. StartInv'
  BY DEF DeviceTypeOK, StartInv
<1>4. EffectInv'
  BY DEF DeviceTypeOK, EffectInv
<1>5. WaiterInv'
  BY DEF DeviceTypeOK, WaiterInv
<1> QED
  BY <1>1, <1>2, <1>3, <1>4, <1>5

\* Account deletion cancels what has not started.
LEMMA DeleteAccountInv ==
  ASSUME Inv, DeleteAccount
  PROVE  Inv'
  BY DeviceAssumption, OneLive DEF DeleteAccount, server, world, Idle, NoJob, Inv, Live, Tokens,
     JobStates, DeviceTypeOK, DeliveryInv, StartInv, EffectInv, WaiterInv

\* A lease lapses.
LEMMA LeaseLapsesInv ==
  ASSUME Inv, LeaseLapses
  PROVE  Inv'
<1> USE DeviceAssumption, OneLive DEF LeaseLapses, server, world, Idle, NoJob, Inv, Live, Tokens,
      JobStates
<1>1. DeviceTypeOK'
  BY DEF DeviceTypeOK
<1>2. DeliveryInv'
  BY DEF DeviceTypeOK, DeliveryInv
<1>3. StartInv'
  BY DEF DeviceTypeOK, StartInv
<1>4. EffectInv'
  BY DEF DeviceTypeOK, EffectInv
<1>5. WaiterInv'
  BY DEF DeviceTypeOK, WaiterInv
<1> QED
  BY <1>1, <1>2, <1>3, <1>4, <1>5

\* The deadline passes.
LEMMA DeadlinePassesInv ==
  ASSUME Inv, DeadlinePasses
  PROVE  Inv'
<1> USE DeviceAssumption, OneLive DEF DeadlinePasses, server, world, OpenStates, Idle, NoJob, Inv,
      Live, Tokens, JobStates
<1>1. DeviceTypeOK'
  BY DEF DeviceTypeOK
<1>2. DeliveryInv'
  BY DEF DeviceTypeOK, DeliveryInv
<1>3. StartInv'
  BY DEF DeviceTypeOK, StartInv
<1>4. EffectInv'
  BY DEF DeviceTypeOK, EffectInv
<1>5. WaiterInv'
  BY DEF DeviceTypeOK, WaiterInv
<1> QED
  BY <1>1, <1>2, <1>3, <1>4, <1>5

\* Every step of waiter, polls, devices and clock preserves Inv.
LEMMA StepInv == Inv /\ [Next]_vars => Inv'
<1> SUFFICES ASSUME Inv, [Next]_vars PROVE Inv'
  OBVIOUS
<1>1. CASE WaiterStep
  BY <1>1, ClaimCallInv, QueueJobInv, RearmUnstartedBrowserJobInv, PollInv, StopWorkflowDeviceNodeJobInv,
     RecordInv, DieInv DEF WaiterStep
<1>2. CASE \E p \in Pollers : ReapWorkflowDeviceJobs(p) \/ ClaimWorkflowDeviceNodeJob(p)
  BY <1>2, ReapWorkflowDeviceJobsInv, ClaimWorkflowDeviceNodeJobInv
<1>3. CASE \E t \in Tokens : DeviceStep(t)
  BY <1>3, BeginWorkflowDeviceNodeJobInv, RenewWorkflowDeviceNodeJobInv, ExecuteInv,
     FinishWorkflowDeviceNodeJobInv DEF DeviceStep
<1>4. CASE Suspend \/ TargetChanges \/ EndRun \/ DeleteAccount \/ LeaseLapses \/ DeadlinePasses
  BY <1>4, SuspendInv, TargetChangesInv, EndRunInv, DeleteAccountInv, LeaseLapsesInv, DeadlinePassesInv
<1>5. CASE UNCHANGED vars
  BY <1>5 DEF vars, Inv, DeviceTypeOK, DeliveryInv, StartInv, EffectInv, WaiterInv, Live
<1> QED
  BY <1>1, <1>2, <1>3, <1>4, <1>5 DEF Next

\* Inv holds throughout; the properties of the code follow from it.
THEOREM Safety == Spec => []Inv
<1>1. Init => Inv
  BY InitInv
<1>2. Inv /\ [Next]_vars => Inv'
  BY StepInv
<1> QED
  BY <1>1, <1>2, PTL DEF Spec

-----------------------------------------------------------------------------
\* Every value stays within its type, so no lease is granted beyond MaxDeliveries and
\* no job is armed more than MaxRecoveries times.
THEOREM DeviceTypeOKHolds == Spec => []DeviceTypeOK
<1>1. Inv => DeviceTypeOK
  BY DEF Inv
<1> QED
  BY <1>1, Safety, PTL

\* An action takes effect at most once, whatever is delivered again
\* (ReapWorkflowDeviceJobs, RearmUnstartedBrowserJob).
THEOREM ActionAtMostOnceHolds == Spec => []ActionAtMostOnce
<1>1. Inv => ActionAtMostOnce
  BY DEF Inv, EffectInv, ActionAtMostOnce
<1> QED
  BY <1>1, Safety, PTL

\* What the journal takes for not attempted was not executed and will not be
\* (StopWorkflowDeviceNodeJob, executeBrowserAgentToolInvocation).
THEOREM NotAttemptedIsTrueHolds == Spec => []NotAttemptedIsTrue
<1>1. Inv => NotAttemptedIsTrue
  BY OneLive DEF Inv, WaiterInv, NotAttemptedIsTrue, Live
<1> QED
  BY <1>1, Safety, PTL

\* A device that began can report, and a result is that of a completed job
\* (FinishWorkflowDeviceNodeJob).
THEOREM ReceiptsReconcileHolds == Spec => []ReceiptsReconcile
<1>1. Inv => ReceiptsReconcile
  BY DEF Inv, StartInv, EffectInv, WaiterInv, ReceiptsReconcile, Live
<1> QED
  BY <1>1, Safety, PTL
=============================================================================
