------------------------ MODULE ContinuationsProofs ------------------------
(* Proofs about the continuations of a paused agent: that a yes at a hook is  *)
(* the owner's, and that an invocation never loses the wait it stands at.     *)
EXTENDS Continuations, TLAPS

-----------------------------------------------------------------------------
(* The invariant.  A decision is final, so what a delivery or a worker carries *)
(* of it stays true however late it arrives; and a continuation exists only   *)
(* for a wait that has been decided, so that acknowledging it cannot clear    *)
(* the wait an invocation stands at.                                          *)

\* A yes to this wait is what the owner said.
Granted(i) ==
  /\ i[1] = "approval" => approvals[i[2]].state = "approved"
  /\ i[1] = "user" => actions[i[2]].state = "ready"

DeliveriesMeanIt == \A i \in Ids : deliveries[i].yes => Granted(i)

WorkersMeanIt ==
  \A w \in Workers :
    /\ worker[w].yes => Granted(worker[w].id)
    /\ worker[w].pc /= "idle" => worker[w].id \in Ids /\ deliveries[worker[w].id].state /= "none"

ExecutedWithConsent ==
  \A c \in executed : /\ c \in Approvals => approvals[c].state = "approved"
                      /\ c \in UserActions => actions[c].state = "ready"

ContinuedMeansDecided ==
  /\ \A c \in Approvals : deliveries[<<"approval", c, 0>>].state /= "none" =>
       approvals[c].state \in {"approved", "denied", "expired"}
  /\ \A c \in listed : c \in Approvals /\ approvals[c].state \in {"approved", "denied", "expired"}

WaitsAreOfCalls ==
  /\ approvalWait \in Approvals \cup {0}
  /\ deviceWait \in (Devices \X Attempts) \cup {NoToken}
  /\ \A c \in Calls : actions[c].state /= "none" => c \in UserActions

InvocationWaits ==
  Invocation =>
    /\ run = "awaiting_device" => deviceWait /= NoToken
    /\ run = "awaiting_approval" =>
         approvalWait /= 0 /\ deliveries[<<"approval", approvalWait, 0>>].state = "none"

ContInv ==
  /\ ContTypeOK
  /\ DeliveriesMeanIt
  /\ WorkersMeanIt
  /\ ExecutedWithConsent
  /\ ContinuedMeansDecided
  /\ WaitsAreOfCalls
  /\ InvocationWaits

-----------------------------------------------------------------------------
(* What the constants and the types give.                                     *)

\* Bound: the names of calls, attempts and waits, from the assumption on the
\* constants.
LEMMA Names ==
  /\ Calls \subseteq Nat /\ 0 \notin Calls /\ 1 \in Calls
  /\ Attempts \subseteq Nat /\ 0 \in Attempts
  /\ Approvals \subseteq Calls /\ Devices \subseteq Calls /\ UserActions \subseteq Calls
  /\ UserActions \cap Approvals = {}
BY ContinuationAssumption DEF Calls, Attempts

\* A delivery's id names the wait it answers (agent_continuation_delivery.go).
LEMMA IdShape ==
  ASSUME NEW i \in Ids \cup {NoId}
  PROVE  /\ i[1] = "approval" => i[2] \in Approvals /\ i = <<"approval", i[2], 0>> /\ i \in Ids
         /\ i[1] = "user" => i[2] \in UserActions /\ i \in Ids
         /\ i[1] = "device" => i[2] \in Devices /\ i[3] \in Attempts /\ i \in Ids
         /\ i[1] \in {"approval", "user", "device", "none"}
BY DEF Ids, NoId

\* The ids of the three kinds of wait.
LEMMA IdOf ==
  /\ \A c \in Approvals : <<"approval", c, 0>> \in Ids
  /\ \A c \in UserActions : <<"user", c, 0>> \in Ids
  /\ \A c \in Devices, a \in Attempts : <<"device", c, a>> \in Ids
BY DEF Ids

\* The next call of the workflow is a call, and the one after the last is none.
LEMMA NextCallIs ==
  ASSUME ContTypeOK
  PROVE  NextCall \in [pc : {"request", "opening", "parked", "ended"}, call : Calls,
                       attempt : Attempts, kind : {"none", "approval", "device", "user"}]
<1>1. wf \in [pc : {"request", "opening", "parked", "ended"}, call : Calls,
              attempt : Attempts, kind : {"none", "approval", "device", "user"}]
  BY DEF ContTypeOK
<1>2. wf.call /= NumCalls => wf.call + 1 \in Calls
  BY <1>1, ContinuationAssumption DEF Calls
<1> QED
  BY <1>1, <1>2, Names DEF NextCall

\* The reply of a request leaves the workflow at a call, whether it is lost or not.
LEMMA RepliedType ==
  ASSUME ContTypeOK,
         NEW next \in [pc : {"request", "opening", "parked", "ended"}, call : Calls,
                       attempt : Attempts, kind : {"none", "approval", "device", "user"}],
         Replied(next)
  PROVE  /\ wf' \in [pc : {"request", "opening", "parked", "ended"}, call : Calls,
                     attempt : Attempts, kind : {"none", "approval", "device", "user"}]
         /\ faults' \in 0 .. MaxFaults
BY ContinuationAssumption DEF ContTypeOK, Replied

\* Parking leaves it at the same call.
LEMMA ParkType ==
  ASSUME ContTypeOK, NEW kind \in {"approval", "device", "user"}, ParkFor(kind)
  PROVE  /\ wf' \in [pc : {"request", "opening", "parked", "ended"}, call : Calls,
                     attempt : Attempts, kind : {"none", "approval", "device", "user"}]
         /\ faults' \in 0 .. MaxFaults
<1>1. [wf EXCEPT !.pc = "opening", !.kind = kind] \in
        [pc : {"request", "opening", "parked", "ended"}, call : Calls,
         attempt : Attempts, kind : {"none", "approval", "device", "user"}]
  BY DEF ContTypeOK
<1> QED
  BY <1>1, RepliedType DEF ParkFor

-----------------------------------------------------------------------------
(* Decisions are final, and what was made of them stays true.                 *)

\* A step takes back neither a consent nor a decision.
DecisionsStand ==
  \A c \in Calls :
    /\ approvals[c].state = "approved" => approvals'[c].state = "approved"
    /\ approvals[c].state \in {"approved", "denied", "expired"} =>
         approvals'[c].state \in {"approved", "denied", "expired"}
    /\ actions[c].state = "ready" => actions'[c].state = "ready"

\* A consent given stays given for the continuation that carries it.
LEMMA GrantedStays ==
  ASSUME DecisionsStand, NEW i \in Ids \cup {NoId}, Granted(i)
  PROVE  /\ i[1] = "approval" => approvals'[i[2]].state = "approved"
         /\ i[1] = "user" => actions'[i[2]].state = "ready"
BY IdShape, Names DEF DecisionsStand, Granted

\* The parts of the invariant that speak of decisions survive every step that
\* keeps the decisions, the deliveries, the workers and the executed calls.
LEMMA MeaningStays ==
  ASSUME ContInv, DecisionsStand, UNCHANGED <<listed, deliveries, worker, executed>>
  PROVE  DeliveriesMeanIt' /\ WorkersMeanIt' /\ ExecutedWithConsent' /\ ContinuedMeansDecided'
<1> USE DEF ContInv
<1>1. DeliveriesMeanIt'
  BY GrantedStays DEF DeliveriesMeanIt, Granted
<1>2. WorkersMeanIt'
  <2> SUFFICES ASSUME NEW w \in Workers
               PROVE  /\ worker[w].yes => Granted(worker[w].id)'
                      /\ worker[w].pc /= "idle" =>
                           worker[w].id \in Ids /\ deliveries[worker[w].id].state /= "none"
    BY DEF WorkersMeanIt, Granted
  <2>1. worker[w].id \in Ids \cup {NoId}
    BY DEF ContTypeOK
  <2> QED
    BY <2>1, GrantedStays DEF WorkersMeanIt, Granted
<1>3. ExecutedWithConsent'
  BY Names DEF ExecutedWithConsent, DecisionsStand
<1>4. ContinuedMeansDecided'
  BY Names DEF ContinuedMeansDecided, DecisionsStand
<1> QED
  BY <1>1, <1>2, <1>3, <1>4

-----------------------------------------------------------------------------
(* The steps of the workflow and of the run row.                              *)

\* Steps that leave the rows, the deliveries and the workers alone: a refused
\* request, the opening of a hook, the end of the run, the passing of time.
LEMMA QuietSteps ==
  ASSUME ContInv, RequestRefused \/ OpenHook \/ EndRun \/ \E c \in Calls : Passes(c)
  PROVE  ContInv'
<1> USE DEF ContInv
<1>1. UNCHANGED <<table, approvals, approvalWait, deviceWait, actions, listed, deliveries, worker,
                  executed>>
  BY DEF RequestRefused, OpenHook, EndRun, Passes, rows
<1>2. run' \in {run, "ended"} /\ faults' = faults
  BY DEF RequestRefused, OpenHook, EndRun, Passes, rows
<1>3. wf' \in [pc : {"request", "opening", "parked", "ended"}, call : Calls,
               attempt : Attempts, kind : {"none", "approval", "device", "user"}]
  BY NextCallIs DEF RequestRefused, OpenHook, EndRun, Passes, ContTypeOK
<1>4. late' \subseteq Calls
  BY DEF RequestRefused, OpenHook, EndRun, Passes, ContTypeOK
<1>5. ContTypeOK'
  BY <1>1, <1>2, <1>3, <1>4 DEF ContTypeOK
<1>6. DecisionsStand
  BY <1>1 DEF DecisionsStand
<1>7. WaitsAreOfCalls' /\ InvocationWaits'
  BY <1>1, <1>2 DEF WaitsAreOfCalls, InvocationWaits, Invocation
<1> QED
  BY <1>1, <1>5, <1>6, <1>7, MeaningStays

\* Asking for an approval (RequireSDKToolApproval): the new wait has no
\* continuation yet, because it has not been decided.
LEMMA RequireApprovalInv ==
  ASSUME ContInv, RequireApproval
  PROVE  ContInv'
<1> USE DEF ContInv
<1> DEFINE c == wf.call
<1>1. UNCHANGED <<table, deviceWait, actions, late, listed, deliveries, worker, executed>>
  BY DEF RequireApproval
<1>2. c \in Approvals /\ c \in Calls /\ wf.attempt \in Attempts /\ c /= 0
  BY Names DEF RequireApproval, Undecided, ContTypeOK
<1>3. CASE approvals[c].state = "none"
  <2>1. /\ approvals' = [approvals EXCEPT ![c] = [state |-> "pending", hook |-> wf.attempt]]
        /\ approvalWait' = c /\ run' = "awaiting_approval" /\ ParkFor("approval")
    BY <1>3 DEF RequireApproval
  <2>2. approvals' \in [Calls -> [state : DecisionStates, hook : Attempts]]
    BY <1>2, <2>1 DEF ContTypeOK, DecisionStates
  <2>3. ContTypeOK'
    BY <1>1, <1>2, <2>1, <2>2, ParkType DEF ContTypeOK
  <2>4. DecisionsStand
    BY <1>1, <1>2, <1>3, <2>1 DEF DecisionsStand, ContTypeOK
  <2>5. deliveries[<<"approval", c, 0>>].state = "none"
    BY <1>2, <1>3 DEF ContinuedMeansDecided
  <2>6. WaitsAreOfCalls' /\ InvocationWaits'
    BY <1>1, <1>2, <2>1, <2>5 DEF WaitsAreOfCalls, InvocationWaits, Invocation
  <2> QED
    BY <1>1, <2>3, <2>4, <2>6, MeaningStays
<1>4. CASE approvals[c].state /= "none"
  <2>1. UNCHANGED <<run, approvals, approvalWait>> /\ (ParkFor("approval") \/ Replied(NextCall))
    BY <1>4 DEF RequireApproval
  <2>2. ContTypeOK'
    BY <1>1, <2>1, ParkType, RepliedType, NextCallIs DEF ContTypeOK
  <2>3. DecisionsStand
    BY <1>1, <2>1 DEF DecisionsStand
  <2>4. WaitsAreOfCalls' /\ InvocationWaits'
    BY <1>1, <2>1 DEF WaitsAreOfCalls, InvocationWaits, Invocation
  <2> QED
    BY <1>1, <2>2, <2>3, <2>4, MeaningStays
<1> QED
  BY <1>3, <1>4

\* Waiting for a device (AwaitAIDevice): the run names the token it waits under.
LEMMA AwaitDeviceInv ==
  ASSUME ContInv, AwaitDevice
  PROVE  ContInv'
<1> USE DEF ContInv
<1>1. /\ UNCHANGED <<table, approvals, approvalWait, actions, late, listed, deliveries, worker, executed>>
      /\ run' = "awaiting_device" /\ deviceWait' = Token /\ ParkFor("device")
  BY DEF AwaitDevice
<1>2. Token \in Devices \X Attempts /\ Token /= NoToken /\ Token \in Tokens
  BY Names DEF AwaitDevice, ContTypeOK, Token, NoToken, Tokens
<1>3. ContTypeOK'
  BY <1>1, <1>2, ParkType DEF ContTypeOK
<1>4. DecisionsStand
  BY <1>1 DEF DecisionsStand
<1>5. WaitsAreOfCalls' /\ InvocationWaits'
  BY <1>1, <1>2 DEF WaitsAreOfCalls, InvocationWaits, Invocation
<1> QED
  BY <1>1, <1>3, <1>4, <1>5, MeaningStays

\* Executing a call (the tool handlers): its approval, where it needs one, is there.
LEMMA ExecuteCallInv ==
  ASSUME ContInv, ExecuteCall
  PROVE  ContInv'
<1> USE DEF ContInv
<1>1. /\ UNCHANGED <<table, run, approvals, approvalWait, deviceWait, actions, late, listed, deliveries, worker>>
      /\ executed' = executed \cup {wf.call} /\ Replied(NextCall)
      /\ ~ Undecided(wf.call) /\ wf.call \notin UserActions
  BY DEF ExecuteCall, rows
<1>2. wf.call \in Calls
  BY DEF ContTypeOK
<1>3. ContTypeOK'
  BY <1>1, <1>2, RepliedType, NextCallIs DEF ContTypeOK
<1>4. ExecutedWithConsent'
  BY <1>1 DEF ExecutedWithConsent, Undecided
<1>5. WaitsAreOfCalls' /\ InvocationWaits' /\ ContinuedMeansDecided'
  BY <1>1 DEF WaitsAreOfCalls, InvocationWaits, Invocation, ContinuedMeansDecided
<1>6. DeliveriesMeanIt'
  BY <1>1 DEF DeliveriesMeanIt, Granted
<1>7. WorkersMeanIt'
  BY <1>1 DEF WorkersMeanIt, Granted
<1> QED
  BY <1>3, <1>4, <1>5, <1>6, <1>7

\* Asking the user to act (AwaitUserIntervention), and taking the answer: the
\* call counts as done only when the user said so.
LEMMA AwaitUserInterventionInv ==
  ASSUME ContInv, AwaitUserIntervention
  PROVE  ContInv'
<1> USE DEF ContInv
<1> DEFINE c == wf.call
<1>1. UNCHANGED <<table, approvals, approvalWait, deviceWait, late, listed, deliveries, worker>>
  BY DEF AwaitUserIntervention
<1>2. c \in UserActions /\ c \in Calls /\ wf.attempt \in Attempts /\ c \notin Approvals
  BY Names DEF AwaitUserIntervention, ContTypeOK
<1>3. CASE actions[c].state = "none"
  <2>1. /\ actions' = [actions EXCEPT ![c] =
              [state |-> "pending", hook |-> wf.attempt, consumed |-> FALSE]]
        /\ run' = "awaiting_intervention" /\ ParkFor("user") /\ UNCHANGED executed
    BY <1>3 DEF AwaitUserIntervention
  <2>2. actions' \in [Calls -> [state : ActionStates, hook : Attempts, consumed : BOOLEAN]]
    BY <1>2, <2>1 DEF ContTypeOK, ActionStates
  <2>3. ContTypeOK'
    BY <1>1, <1>2, <2>1, <2>2, ParkType DEF ContTypeOK
  <2>4. /\ \A d \in Calls : d /= c => actions'[d] = actions[d]
        /\ actions'[c].state = "pending"
    BY <1>2, <2>1 DEF ContTypeOK
  <2>5. DecisionsStand
    BY <1>1, <1>3, <2>4 DEF DecisionsStand
  <2>6. WaitsAreOfCalls' /\ InvocationWaits'
    BY <1>1, <1>2, <2>1, <2>4 DEF WaitsAreOfCalls, InvocationWaits, Invocation
  <2> QED
    BY <1>1, <2>1, <2>3, <2>5, <2>6, MeaningStays
<1>4. CASE actions[c].state = "pending"
  <2>1. UNCHANGED <<run, actions, executed>> /\ ParkFor("user")
    BY <1>4 DEF AwaitUserIntervention
  <2>2. ContTypeOK'
    BY <1>1, <2>1, ParkType DEF ContTypeOK
  <2>3. DecisionsStand
    BY <1>1, <2>1 DEF DecisionsStand
  <2>4. WaitsAreOfCalls' /\ InvocationWaits'
    BY <1>1, <2>1 DEF WaitsAreOfCalls, InvocationWaits, Invocation
  <2> QED
    BY <1>1, <2>1, <2>2, <2>3, <2>4, MeaningStays
<1>5. CASE /\ actions[c].state \notin {"none", "pending"}
           /\ UNCHANGED <<run, actions, executed>> /\ Replied(NextCall)
  <2>1. ContTypeOK'
    BY <1>1, <1>5, RepliedType, NextCallIs DEF ContTypeOK
  <2>2. DecisionsStand
    BY <1>1, <1>5 DEF DecisionsStand
  <2>3. WaitsAreOfCalls' /\ InvocationWaits'
    BY <1>1, <1>5 DEF WaitsAreOfCalls, InvocationWaits, Invocation
  <2> QED
    BY <1>1, <1>5, <2>1, <2>2, <2>3, MeaningStays
<1>6. CASE /\ actions[c].state \notin {"none", "pending"}
           /\ UNCHANGED run /\ Replied(NextCall)
           /\ actions' = [actions EXCEPT ![c].consumed = TRUE]
           /\ executed' = IF actions[c].state = "ready" THEN executed \cup {c} ELSE executed
  <2>1. /\ UNCHANGED run /\ Replied(NextCall)
        /\ actions' = [actions EXCEPT ![c].consumed = TRUE]
        /\ executed' = IF actions[c].state = "ready" THEN executed \cup {c} ELSE executed
    BY <1>6
  <2>2. actions' \in [Calls -> [state : ActionStates, hook : Attempts, consumed : BOOLEAN]]
    <3>1. actions[c] \in [state : ActionStates, hook : Attempts, consumed : BOOLEAN]
      BY <1>2 DEF ContTypeOK
    <3>2. [actions[c] EXCEPT !.consumed = TRUE] \in
            [state : ActionStates, hook : Attempts, consumed : BOOLEAN]
      BY <3>1
    <3>3. actions' = [actions EXCEPT ![c] = [actions[c] EXCEPT !.consumed = TRUE]]
      BY <2>1
    <3> QED
      BY <1>2, <3>2, <3>3 DEF ContTypeOK
  <2>3. \A d \in Calls : actions'[d].state = actions[d].state
    BY <1>2, <2>1 DEF ContTypeOK
  <2>4. executed' \subseteq Calls
    BY <1>2, <2>1 DEF ContTypeOK
  <2>5. ContTypeOK'
    BY <1>1, <2>1, <2>2, <2>4, RepliedType, NextCallIs DEF ContTypeOK
  <2>6. DecisionsStand
    BY <1>1, <2>3 DEF DecisionsStand
  <2>7. ExecutedWithConsent'
    BY <1>1, <1>2, <2>1, <2>3 DEF ExecutedWithConsent, ContTypeOK
  <2>8. WaitsAreOfCalls' /\ InvocationWaits' /\ ContinuedMeansDecided'
    BY <1>1, <2>1, <2>3 DEF WaitsAreOfCalls, InvocationWaits, Invocation, ContinuedMeansDecided
  <2>9. DeliveriesMeanIt'
    BY <1>1, <2>6, GrantedStays DEF DeliveriesMeanIt, Granted
  <2>10. WorkersMeanIt'
    <3> SUFFICES ASSUME NEW w \in Workers
                 PROVE  /\ worker[w].yes => Granted(worker[w].id)'
                        /\ worker[w].pc /= "idle" =>
                             worker[w].id \in Ids /\ deliveries[worker[w].id].state /= "none"
      BY <1>1 DEF WorkersMeanIt, Granted
    <3>1. worker[w].id \in Ids \cup {NoId}
      BY DEF ContTypeOK
    <3> QED
      BY <1>1, <2>6, <3>1, GrantedStays DEF WorkersMeanIt, Granted
  <2> QED
    BY <2>5, <2>7, <2>8, <2>9, <2>10
<1> QED
  BY <1>3, <1>4, <1>5, <1>6 DEF AwaitUserIntervention

-----------------------------------------------------------------------------
(* Decisions and expiries, each with the continuation it queues.              *)

\* Queueing a continuation (queueAgentContinuation, ON CONFLICT DO NOTHING)
\* touches no other one, and its yes is the old one or the one asked for.
LEMMA QueuedIs ==
  ASSUME ContTypeOK, NEW i \in Ids, NEW hook \in Attempts, NEW yes \in BOOLEAN,
         deliveries' = Queued(i, hook, yes)
  PROVE  /\ deliveries' \in [Ids -> [state : {"none", "pending", "leased", "completed"},
                                     lease : Workers \cup {"none"}, expired : BOOLEAN,
                                     hook : Attempts, yes : BOOLEAN]]
         /\ \A j \in Ids : j /= i => deliveries'[j] = deliveries[j]
         /\ deliveries'[i].state /= "none"
         /\ deliveries'[i].yes => deliveries[i].yes \/ yes
<1> DEFINE D == [state : {"none", "pending", "leased", "completed"},
                 lease : Workers \cup {"none"}, expired : BOOLEAN,
                 hook : Attempts, yes : BOOLEAN]
<1>1. deliveries \in [Ids -> D]
  BY DEF ContTypeOK
<1>2. CASE deliveries[i].state /= "none"
  BY <1>1, <1>2 DEF Queued
<1>3. CASE deliveries[i].state = "none"
  <2> DEFINE d == [NoDelivery EXCEPT !.state = "pending", !.hook = hook, !.yes = yes]
  <2>1. d \in D /\ d.state = "pending" /\ d.yes = yes
    <3>1. CASE yes = TRUE
      BY <3>1 DEF NoDelivery
    <3>2. CASE yes = FALSE
      BY <3>2 DEF NoDelivery
    <3> QED
      BY <3>1, <3>2
  <2>2. deliveries' = [deliveries EXCEPT ![i] = d]
    BY <1>3 DEF Queued
  <2> HIDE DEF d
  <2>3. deliveries'[i] = d /\ deliveries' \in [Ids -> D]
    BY <1>1, <2>1, <2>2
  <2> QED
    BY <1>1, <2>1, <2>2, <2>3
<1> QED
  BY <1>2, <1>3

\* The parts of the invariant that speak of decisions, after a decision that
\* queued the continuation i: a yes in it is the owner's.
LEMMA DecisionMeansIt ==
  ASSUME ContInv, DecisionsStand, UNCHANGED <<worker, executed>>, listed' \subseteq listed,
         NEW i \in Ids, NEW yes \in BOOLEAN,
         \A j \in Ids : j /= i => deliveries'[j] = deliveries[j],
         deliveries'[i].state /= "none",
         deliveries'[i].yes => deliveries[i].yes \/ yes,
         yes /\ i[1] = "approval" => approvals'[i[2]].state = "approved",
         yes /\ i[1] = "user" => actions'[i[2]].state = "ready",
         i[1] = "approval" => approvals'[i[2]].state \in {"approved", "denied", "expired"}
  PROVE  DeliveriesMeanIt' /\ WorkersMeanIt' /\ ExecutedWithConsent' /\ ContinuedMeansDecided'
<1> USE DEF ContInv
<1>1. DeliveriesMeanIt'
  <2> SUFFICES ASSUME NEW j \in Ids, deliveries'[j].yes
               PROVE  /\ j[1] = "approval" => approvals'[j[2]].state = "approved"
                      /\ j[1] = "user" => actions'[j[2]].state = "ready"
    BY DEF DeliveriesMeanIt, Granted
  <2>1. CASE deliveries[j].yes
    <3>1. Granted(j)
      BY <2>1 DEF DeliveriesMeanIt
    <3> QED
      BY <3>1, GrantedStays
  <2>2. CASE ~ deliveries[j].yes
    <3>1. j = i /\ yes
      BY <2>2
    <3> QED
      BY <3>1
  <2> QED
    BY <2>1, <2>2
<1>2. WorkersMeanIt'
  <2> SUFFICES ASSUME NEW w \in Workers
               PROVE  /\ worker[w].yes => Granted(worker[w].id)'
                      /\ worker[w].pc /= "idle" =>
                           worker[w].id \in Ids /\ deliveries'[worker[w].id].state /= "none"
    BY DEF WorkersMeanIt, Granted
  <2>1. worker[w].id \in Ids \cup {NoId}
    BY DEF ContTypeOK
  <2>2. worker[w].yes => Granted(worker[w].id)'
    BY <2>1, GrantedStays DEF WorkersMeanIt, Granted
  <2>3. worker[w].pc /= "idle" => worker[w].id \in Ids /\ deliveries[worker[w].id].state /= "none"
    BY DEF WorkersMeanIt
  <2> QED
    BY <2>2, <2>3
<1>3. ExecutedWithConsent'
  BY Names DEF ExecutedWithConsent, DecisionsStand
<1>4. ContinuedMeansDecided'
  <2>3. ASSUME NEW c \in listed'
        PROVE  c \in Approvals /\ approvals'[c].state \in {"approved", "denied", "expired"}
    BY <2>3, Names DEF ContinuedMeansDecided, DecisionsStand
  <2> SUFFICES ASSUME NEW c \in Approvals, deliveries'[<<"approval", c, 0>>].state /= "none"
               PROVE  approvals'[c].state \in {"approved", "denied", "expired"}
    BY <2>3 DEF ContinuedMeansDecided
  <2>1. CASE i = <<"approval", c, 0>>
    BY <2>1
  <2>2. CASE i /= <<"approval", c, 0>>
    <3>1. deliveries[<<"approval", c, 0>>].state /= "none"
      BY <2>2, IdOf
    <3>2. approvals[c].state \in {"approved", "denied", "expired"}
      BY <3>1 DEF ContinuedMeansDecided
    <3> QED
      BY <3>2, Names DEF DecisionsStand
  <2> QED
    BY <2>1, <2>2
<1> QED
  BY <1>1, <1>2, <1>3, <1>4

\* The owner decides (DecideSDKToolApproval, DecideCreatorToolApproval): what was
\* decided before is repeated, never changed.
LEMMA DecideInv ==
  ASSUME ContInv, NEW c \in Calls, NEW state \in {"approved", "denied"}, Decide(c, state)
  PROVE  ContInv'
<1> USE DEF ContInv
<1> DEFINE i == <<"approval", c, 0>>
<1>1. /\ UNCHANGED <<table, approvalWait, deviceWait, actions, late, listed, worker, wf, executed, faults>>
      /\ approvals' = [approvals EXCEPT ![c].state = state] /\ run' = "running"
      /\ approvalWait = c /\ MayDecide(c, state)
  BY DEF Decide
<1>2. c \in Approvals /\ i \in Ids /\ approvals[c].hook \in Attempts
  BY <1>1, Names, IdOf DEF WaitsAreOfCalls, ContTypeOK
<1>3. \E yes \in BOOLEAN : /\ yes => state = "approved"
                           /\ deliveries' = Queued(i, approvals[c].hook, yes)
  <2>1. (state = "approved") \in BOOLEAN
    OBVIOUS
  <2> QED
    BY <2>1, Zenon DEF Decide
<1>4. PICK yes \in BOOLEAN : /\ yes => state = "approved"
                             /\ deliveries' = Queued(i, approvals[c].hook, yes)
  BY <1>3
<1>5. approvals' \in [Calls -> [state : DecisionStates, hook : Attempts]]
  <2>1. [approvals[c] EXCEPT !.state = state] \in [state : DecisionStates, hook : Attempts]
    BY DEF ContTypeOK, DecisionStates
  <2>2. approvals' = [approvals EXCEPT ![c] = [approvals[c] EXCEPT !.state = state]]
    BY <1>1
  <2> QED
    BY <2>1, <2>2 DEF ContTypeOK
<1>6. approvals'[c].state = state /\ \A d \in Calls : d /= c => approvals'[d] = approvals[d]
  BY <1>1 DEF ContTypeOK
<1>7. ContTypeOK'
  BY <1>1, <1>2, <1>4, <1>5, QueuedIs DEF ContTypeOK
<1>8. DecisionsStand
  BY <1>1, <1>6 DEF DecisionsStand, MayDecide
<1>9. /\ \A j \in Ids : j /= i => deliveries'[j] = deliveries[j]
      /\ deliveries'[i].state /= "none"
      /\ deliveries'[i].yes => deliveries[i].yes \/ yes
  BY <1>2, <1>4, QueuedIs
<1>10. DeliveriesMeanIt' /\ WorkersMeanIt' /\ ExecutedWithConsent' /\ ContinuedMeansDecided'
  <2>1. i[1] = "approval" /\ i[2] = c
    OBVIOUS
  <2> HIDE DEF i
  <2> QED
    BY <1>1, <1>2, <1>4, <1>6, <1>8, <1>9, <2>1, DecisionMeansIt
<1>11. WaitsAreOfCalls' /\ InvocationWaits'
  BY <1>1 DEF WaitsAreOfCalls, InvocationWaits
<1> QED
  BY <1>7, <1>10, <1>11

\* The sweep of an invocation's overdue approvals (ExpireSDKToolApprovals) answers no.
LEMMA ExpireSDKInv ==
  ASSUME ContInv, NEW c \in Calls, ExpireSDKToolApprovals(c)
  PROVE  ContInv'
<1> USE DEF ContInv
<1> DEFINE i == <<"approval", c, 0>>
<1>1. /\ UNCHANGED <<table, approvalWait, deviceWait, actions, late, listed, worker, wf, executed, faults>>
      /\ approvals' = [approvals EXCEPT ![c].state = "expired"] /\ run' = "running"
      /\ approvalWait = c /\ approvals[c].state = "pending"
      /\ deliveries' = Queued(i, approvals[c].hook, FALSE)
  BY DEF ExpireSDKToolApprovals
<1>2. c \in Approvals /\ i \in Ids /\ approvals[c].hook \in Attempts
  BY <1>1, Names, IdOf DEF WaitsAreOfCalls, ContTypeOK
<1>3. approvals' \in [Calls -> [state : DecisionStates, hook : Attempts]]
  <2>1. [approvals[c] EXCEPT !.state = "expired"] \in [state : DecisionStates, hook : Attempts]
    BY DEF ContTypeOK, DecisionStates
  <2>2. approvals' = [approvals EXCEPT ![c] = [approvals[c] EXCEPT !.state = "expired"]]
    BY <1>1
  <2> QED
    BY <2>1, <2>2 DEF ContTypeOK
<1>4. approvals'[c].state = "expired" /\ \A d \in Calls : d /= c => approvals'[d] = approvals[d]
  BY <1>1 DEF ContTypeOK
<1>5. PICK yes \in BOOLEAN : ~ yes /\ deliveries' = Queued(i, approvals[c].hook, yes)
  BY <1>1
<1>6. ContTypeOK'
  BY <1>1, <1>2, <1>3, <1>5, QueuedIs DEF ContTypeOK
<1>7. DecisionsStand
  BY <1>1, <1>4 DEF DecisionsStand
<1>8. /\ \A j \in Ids : j /= i => deliveries'[j] = deliveries[j]
      /\ deliveries'[i].state /= "none"
      /\ deliveries'[i].yes => deliveries[i].yes \/ yes
  BY <1>2, <1>5, QueuedIs
<1>9. DeliveriesMeanIt' /\ WorkersMeanIt' /\ ExecutedWithConsent' /\ ContinuedMeansDecided'
  <2>1. i[1] = "approval" /\ i[2] = c
    OBVIOUS
  <2> HIDE DEF i
  <2> QED
    BY <1>1, <1>2, <1>4, <1>5, <1>7, <1>8, <2>1, DecisionMeansIt
<1>10. WaitsAreOfCalls' /\ InvocationWaits'
  BY <1>1 DEF WaitsAreOfCalls, InvocationWaits
<1> QED
  BY <1>6, <1>9, <1>10

\* The sweep of all overdue approvals (ExpireCreatorToolApprovals) takes back no
\* decision.
LEMMA ExpireCreatorInv ==
  ASSUME ContInv, ExpireCreatorToolApprovals
  PROVE  ContInv'
<1> USE DEF ContInv
<1>1. /\ UNCHANGED <<table, run, approvalWait, deviceWait, actions, late, listed, deliveries, worker, wf,
                     executed, faults>>
      /\ approvals' = [c \in Calls |-> IF c \in late /\ approvals[c].state = "pending"
                                       THEN [approvals[c] EXCEPT !.state = "expired"]
                                       ELSE approvals[c]]
  BY DEF ExpireCreatorToolApprovals
<1>2. approvals' \in [Calls -> [state : DecisionStates, hook : Attempts]]
  BY <1>1 DEF ContTypeOK, DecisionStates
<1>3. \A c \in Calls : approvals[c].state /= "pending" => approvals'[c] = approvals[c]
  BY <1>1
<1>4. ContTypeOK'
  BY <1>1, <1>2 DEF ContTypeOK
<1>5. DecisionsStand
  BY <1>1, <1>3 DEF DecisionsStand
<1>6. WaitsAreOfCalls' /\ InvocationWaits'
  BY <1>1 DEF WaitsAreOfCalls, InvocationWaits, Invocation
<1> QED
  BY <1>1, <1>4, <1>5, <1>6, MeaningStays

\* A sweep reads the decided approvals (CreatorToolApprovalResumesPending,
\* ExpireCreatorToolApprovals).
LEMMA ListApprovalsInv ==
  ASSUME ContInv, ListApprovals
  PROVE  ContInv'
<1> USE DEF ContInv
<1>1. /\ UNCHANGED <<table, run, approvals, approvalWait, deviceWait, actions, late, deliveries, worker,
                     wf, executed, faults>>
      /\ listed' = listed \cup {c \in Calls : Listable(c)}
  BY DEF ListApprovals, rows
<1>2. \A c \in Calls : Listable(c) =>
        c \in Approvals /\ approvals[c].state \in {"approved", "denied", "expired"}
  BY Names DEF Listable, WaitsAreOfCalls
<1>3. ContTypeOK'
  BY <1>1 DEF ContTypeOK
<1>4. ContinuedMeansDecided'
  BY <1>1, <1>2 DEF ContinuedMeansDecided
<1>5. DeliveriesMeanIt' /\ ExecutedWithConsent'
  BY <1>1 DEF DeliveriesMeanIt, ExecutedWithConsent, Granted
<1>6. WorkersMeanIt'
  BY <1>1 DEF WorkersMeanIt, Granted
<1>7. WaitsAreOfCalls' /\ InvocationWaits'
  BY <1>1 DEF WaitsAreOfCalls, InvocationWaits, Invocation
<1> QED
  BY <1>3, <1>4, <1>5, <1>6, <1>7

\* A space run's decided approval is resumed with that decision
\* (QueueAgentApprovalResume), however long ago it was read.
LEMMA ApprovalResumeInv ==
  ASSUME ContInv, NEW c \in Calls, QueueAgentApprovalResume(c)
  PROVE  ContInv'
<1> USE DEF ContInv
<1> DEFINE i == <<"approval", c, 0>>
<1>1. /\ UNCHANGED <<table, approvals, deviceWait, actions, late, worker, wf, executed, faults>>
      /\ c \in listed /\ listed' \subseteq listed
  BY DEF QueueAgentApprovalResume
<1>2. /\ c \in Approvals /\ i \in Ids /\ approvals[c].hook \in Attempts
      /\ approvals[c].state \in {"approved", "denied", "expired"}
  BY <1>1, IdOf DEF ContinuedMeansDecided, ContTypeOK
<1>3. DecisionsStand
  BY <1>1 DEF DecisionsStand
<1>4. CASE UNCHANGED <<run, approvalWait, deliveries>>
  <2>1. ContTypeOK'
    BY <1>1, <1>4 DEF ContTypeOK
  <2>2. DeliveriesMeanIt' /\ ExecutedWithConsent' /\ ContinuedMeansDecided'
    BY <1>1, <1>4 DEF DeliveriesMeanIt, ExecutedWithConsent, ContinuedMeansDecided, Granted
  <2>3. WorkersMeanIt'
    BY <1>1, <1>4 DEF WorkersMeanIt, Granted
  <2>4. WaitsAreOfCalls' /\ InvocationWaits'
    BY <1>1, <1>4 DEF WaitsAreOfCalls, InvocationWaits, Invocation
  <2> QED
    BY <2>1, <2>2, <2>3, <2>4
<1>5. CASE /\ run' = "running" /\ approvalWait' = c
           /\ deliveries' = Queued(i, approvals[c].hook, approvals[c].state = "approved")
  <2>1. (approvals[c].state = "approved") \in BOOLEAN
    OBVIOUS
  <2>2. PICK yes \in BOOLEAN : /\ yes => approvals[c].state = "approved"
                               /\ deliveries' = Queued(i, approvals[c].hook, yes)
    BY <1>5, <2>1, Zenon
  <2>3. ContTypeOK'
    BY <1>1, <1>2, <1>5, <2>2, QueuedIs DEF ContTypeOK
  <2>4. /\ \A j \in Ids : j /= i => deliveries'[j] = deliveries[j]
        /\ deliveries'[i].state /= "none"
        /\ deliveries'[i].yes => deliveries[i].yes \/ yes
    BY <1>2, <2>2, QueuedIs
  <2>5. DeliveriesMeanIt' /\ WorkersMeanIt' /\ ExecutedWithConsent' /\ ContinuedMeansDecided'
    <3>1. i[1] = "approval" /\ i[2] = c
      OBVIOUS
    <3> HIDE DEF i
    <3> QED
      BY <1>1, <1>2, <1>3, <2>2, <2>4, <3>1, DecisionMeansIt
  <2>6. WaitsAreOfCalls' /\ InvocationWaits'
    BY <1>1, <1>2, <1>5 DEF WaitsAreOfCalls, InvocationWaits
  <2> QED
    BY <2>3, <2>5, <2>6
<1> QED
  BY <1>4, <1>5 DEF QueueAgentApprovalResume

\* The device is back or its wait is over (QueueAgentDeviceResume).
LEMMA DeviceResumeInv ==
  ASSUME ContInv, QueueAgentDeviceResume
  PROVE  ContInv'
<1> USE DEF ContInv
<1> DEFINE i == <<"device", deviceWait[1], deviceWait[2]>>
<1>1. /\ UNCHANGED <<table, approvals, approvalWait, deviceWait, actions, late, listed, worker, wf, executed,
                     faults>>
      /\ run' = "running" /\ deviceWait /= NoToken
  BY DEF QueueAgentDeviceResume, rows
<1>2. i \in Ids /\ deviceWait[2] \in Attempts
  BY <1>1, IdOf DEF WaitsAreOfCalls
<1>3. \E yes \in BOOLEAN : deliveries' = Queued(i, deviceWait[2], yes)
  <2>1. PICK available \in BOOLEAN, authorized \in {TRUE, ~ Invocation} :
           deliveries' = Queued(i, deviceWait[2],
                                available /\ authorized /\ deviceWait[1] \notin late)
    BY Zenon DEF QueueAgentDeviceResume
  <2>2. (available /\ authorized /\ deviceWait[1] \notin late) \in BOOLEAN
    OBVIOUS
  <2> QED
    BY <2>1, <2>2, Zenon
<1>4. PICK yes \in BOOLEAN : deliveries' = Queued(i, deviceWait[2], yes)
  BY <1>3
<1>5. ContTypeOK'
  BY <1>1, <1>2, <1>4, QueuedIs DEF ContTypeOK
<1>6. DecisionsStand
  BY <1>1 DEF DecisionsStand
<1>7. /\ \A j \in Ids : j /= i => deliveries'[j] = deliveries[j]
      /\ deliveries'[i].state /= "none"
      /\ deliveries'[i].yes => deliveries[i].yes \/ yes
  BY <1>2, <1>4, QueuedIs
<1>8. DeliveriesMeanIt' /\ WorkersMeanIt' /\ ExecutedWithConsent' /\ ContinuedMeansDecided'
  <2>1. i[1] = "device"
    OBVIOUS
  <2> HIDE DEF i
  <2> QED
    BY <1>1, <1>2, <1>4, <1>6, <1>7, <2>1, DecisionMeansIt
<1>9. WaitsAreOfCalls' /\ InvocationWaits'
  BY <1>1 DEF WaitsAreOfCalls, InvocationWaits
<1> QED
  BY <1>5, <1>8, <1>9

\* The user answers, or the wait is over (DecideAIUserIntervention).
LEMMA DecideUserInv ==
  ASSUME ContInv, NEW c \in Calls, NEW ready \in BOOLEAN, DecideUserIntervention(c, ready)
  PROVE  ContInv'
<1> USE DEF ContInv
<1> DEFINE i == <<"user", c, 0>>
           state == IF c \in late THEN "expired" ELSE IF ready THEN "ready" ELSE "declined"
<1>1. /\ UNCHANGED <<table, approvals, approvalWait, deviceWait, late, listed, worker, wf, executed, faults>>
      /\ actions' = [actions EXCEPT ![c].state = state] /\ run' = "running"
      /\ actions[c].state = "pending"
  BY DEF DecideUserIntervention
<1>2. c \in UserActions /\ i \in Ids /\ actions[c].hook \in Attempts
  BY <1>1, IdOf DEF WaitsAreOfCalls, ContTypeOK
<1>3. \E yes \in BOOLEAN : /\ yes => state = "ready"
                           /\ deliveries' = Queued(i, actions[c].hook, yes)
  <2>1. (state = "ready") \in BOOLEAN
    OBVIOUS
  <2>2. deliveries' = Queued(i, actions[c].hook, state = "ready")
    BY Zenon DEF DecideUserIntervention
  <2> QED
    BY <2>1, <2>2, Zenon
<1>4. PICK yes \in BOOLEAN : /\ yes => state = "ready"
                             /\ deliveries' = Queued(i, actions[c].hook, yes)
  BY <1>3
<1>5. state \in ActionStates
  BY DEF ActionStates
<1> HIDE DEF state
<1>6. actions' \in [Calls -> [state : ActionStates, hook : Attempts, consumed : BOOLEAN]]
  <2>1. actions[c] \in [state : ActionStates, hook : Attempts, consumed : BOOLEAN]
    BY DEF ContTypeOK
  <2>2. [actions[c] EXCEPT !.state = state] \in
          [state : ActionStates, hook : Attempts, consumed : BOOLEAN]
    BY <1>5, <2>1
  <2>3. actions' = [actions EXCEPT ![c] = [actions[c] EXCEPT !.state = state]]
    BY <1>1
  <2> QED
    BY <2>2, <2>3 DEF ContTypeOK
<1>7. actions'[c].state = state /\ \A d \in Calls : d /= c => actions'[d] = actions[d]
  BY <1>1 DEF ContTypeOK
<1>8. ContTypeOK'
  BY <1>1, <1>2, <1>4, <1>6, QueuedIs DEF ContTypeOK
<1>9. DecisionsStand
  BY <1>1, <1>7 DEF DecisionsStand
<1>10. /\ \A j \in Ids : j /= i => deliveries'[j] = deliveries[j]
       /\ deliveries'[i].state /= "none"
       /\ deliveries'[i].yes => deliveries[i].yes \/ yes
  BY <1>2, <1>4, QueuedIs
<1>11. DeliveriesMeanIt' /\ WorkersMeanIt' /\ ExecutedWithConsent' /\ ContinuedMeansDecided'
  <2>1. i[1] = "user" /\ i[2] = c
    OBVIOUS
  <2> HIDE DEF i
  <2> QED
    BY <1>1, <1>2, <1>4, <1>7, <1>9, <1>10, <2>1, DecisionMeansIt
<1>12. WaitsAreOfCalls' /\ InvocationWaits'
  BY <1>1, <1>2, <1>7 DEF WaitsAreOfCalls, InvocationWaits
<1> QED
  BY <1>8, <1>11, <1>12

-----------------------------------------------------------------------------
(* Delivery: leases move, what a delivery says does not.                      *)

\* A step of the delivery loop changes the lease of deliveries only, and a
\* worker's yes is one it had or one it reads from its delivery.
DeliveryStands ==
  /\ UNCHANGED <<approvals, actions, executed, listed>>
  /\ \A i \in Ids : /\ deliveries'[i].yes <=> deliveries[i].yes
                    /\ deliveries'[i].state = "none" <=> deliveries[i].state = "none"
  /\ \A w \in Workers :
       \/ worker'[w] = worker[w]
       \/ worker'[w] = IdleWorker
       \/ /\ worker'[w].id \in Ids /\ deliveries[worker'[w].id].state /= "none"
          /\ worker'[w].yes => \/ deliveries[worker'[w].id].yes
                               \/ worker[w].yes /\ worker'[w].id = worker[w].id

\* Such a step keeps the parts of the invariant that speak of decisions.
LEMMA DeliveryMeansIt ==
  ASSUME ContInv, DeliveryStands
  PROVE  DeliveriesMeanIt' /\ WorkersMeanIt' /\ ExecutedWithConsent' /\ ContinuedMeansDecided'
<1> USE DEF ContInv
<1>1. DeliveriesMeanIt'
  BY DEF DeliveriesMeanIt, DeliveryStands, Granted
<1>2. WorkersMeanIt'
  <2> SUFFICES ASSUME NEW w \in Workers
               PROVE  /\ worker'[w].yes => Granted(worker[w].id)'
                      /\ worker'[w].pc /= "idle" =>
                           worker'[w].id \in Ids /\ deliveries'[worker'[w].id].state /= "none"
    BY DEF WorkersMeanIt
  <2>1. /\ worker[w].yes => Granted(worker[w].id)
        /\ worker[w].pc /= "idle" => worker[w].id \in Ids /\ deliveries[worker[w].id].state /= "none"
    BY DEF WorkersMeanIt
  <2>2. CASE worker'[w] = worker[w]
    BY <2>1, <2>2 DEF DeliveryStands, Granted
  <2>3. CASE worker'[w] = IdleWorker
    BY <2>3 DEF IdleWorker
  <2>4. CASE /\ worker'[w].id \in Ids /\ deliveries[worker'[w].id].state /= "none"
             /\ worker'[w].yes => \/ deliveries[worker'[w].id].yes
                                  \/ worker[w].yes /\ worker'[w].id = worker[w].id
    <3>1. worker'[w].yes => Granted(worker'[w].id)
      BY <2>1, <2>4 DEF DeliveriesMeanIt
    <3> QED
      BY <2>4, <3>1 DEF DeliveryStands, Granted
  <2> QED
    BY <2>2, <2>3, <2>4 DEF DeliveryStands
<1>3. ExecutedWithConsent'
  BY DEF ExecutedWithConsent, DeliveryStands
<1>4. ContinuedMeansDecided'
  BY IdOf DEF ContinuedMeansDecided, DeliveryStands
<1> QED
  BY <1>1, <1>2, <1>3, <1>4

\* While the run row is left alone, an invocation keeps its waits.
LEMMA WaitsStay ==
  ASSUME ContInv, DeliveryStands, UNCHANGED <<table, run, approvalWait, deviceWait>>
  PROVE  WaitsAreOfCalls' /\ InvocationWaits'
<1> USE DEF ContInv
<1>1. WaitsAreOfCalls'
  BY DEF WaitsAreOfCalls, DeliveryStands
<1>2. approvalWait /= 0 => <<"approval", approvalWait, 0>> \in Ids
  BY IdOf DEF WaitsAreOfCalls
<1>3. InvocationWaits'
  BY <1>2 DEF InvocationWaits, Invocation, DeliveryStands
<1> QED
  BY <1>1, <1>3

\* Finishing a delivery (FinishAgentRuntimeDelivery) writes only under the lease
\* and changes neither what the delivery says nor that it was queued.
LEMMA FinishKeeps ==
  ASSUME ContInv, NEW w \in Workers, worker[w].pc /= "idle",
         NEW state \in {"pending", "completed"}, FinishAs(w, state),
         UNCHANGED <<approvals, actions, executed, listed>>
  PROVE  /\ deliveries' \in [Ids -> [state : {"none", "pending", "leased", "completed"},
                                     lease : Workers \cup {"none"}, expired : BOOLEAN,
                                     hook : Attempts, yes : BOOLEAN]]
         /\ worker' \in [Workers -> [pc : {"idle", "claimed", "checked", "accepted", "refused"},
                                     id : Ids \cup {NoId}, yes : BOOLEAN]]
         /\ DeliveryStands
<1> USE DEF ContInv
<1> DEFINE D == [state : {"none", "pending", "leased", "completed"},
                 lease : Workers \cup {"none"}, expired : BOOLEAN,
                 hook : Attempts, yes : BOOLEAN]
           i == worker[w].id
<1>1. i \in Ids
  BY DEF WorkersMeanIt
<1>2. deliveries \in [Ids -> D] /\ deliveries[i] \in D
  BY <1>1 DEF ContTypeOK
<1>3. /\ worker' = [worker EXCEPT ![w] = IdleWorker]
      /\ deliveries' = IF deliveries[i].state = "leased" /\ deliveries[i].lease = w
                       THEN [deliveries EXCEPT ![i].state = state, ![i].lease = "none",
                                               ![i].expired = FALSE]
                       ELSE deliveries
  BY DEF FinishAs
<1>4. IdleWorker \in [pc : {"idle", "claimed", "checked", "accepted", "refused"},
                      id : Ids \cup {NoId}, yes : BOOLEAN]
  BY DEF IdleWorker
<1>5. worker' \in [Workers -> [pc : {"idle", "claimed", "checked", "accepted", "refused"},
                               id : Ids \cup {NoId}, yes : BOOLEAN]]
  BY <1>3, <1>4 DEF ContTypeOK
<1>6. \A u \in Workers : worker'[u] = worker[u] \/ worker'[u] = IdleWorker
  BY <1>3 DEF ContTypeOK
<1>7. CASE deliveries[i].state = "leased" /\ deliveries[i].lease = w
  <2> DEFINE d == [deliveries[i] EXCEPT !.state = state, !.lease = "none", !.expired = FALSE]
  <2>1. d \in D /\ d.state = state /\ d.yes = deliveries[i].yes
    BY <1>2
  <2>2. deliveries' = [deliveries EXCEPT ![i] = d]
    BY <1>3, <1>7
  <2> HIDE DEF d
  <2>3. deliveries' \in [Ids -> D] /\ deliveries'[i] = d
    BY <1>1, <1>2, <2>1, <2>2
  <2>4. \A j \in Ids : j /= i => deliveries'[j] = deliveries[j]
    BY <1>2, <2>2
  <2>5. DeliveryStands
    BY <1>1, <1>6, <1>7, <2>1, <2>3, <2>4 DEF DeliveryStands
  <2> QED
    BY <1>5, <2>3, <2>5
<1>8. CASE ~ (deliveries[i].state = "leased" /\ deliveries[i].lease = w)
  <2>1. deliveries' = deliveries
    BY <1>3, <1>8
  <2>2. DeliveryStands
    BY <1>6, <2>1 DEF DeliveryStands
  <2> QED
    BY <1>2, <1>5, <2>1, <2>2
<1> QED
  BY <1>7, <1>8

\* A worker leases a delivery (ClaimAgentRuntimeDeliveries) and carries its answer.
LEMMA ClaimInv ==
  ASSUME ContInv, NEW w \in Workers, NEW i \in Ids, ClaimDelivery(w, i)
  PROVE  ContInv'
<1> USE DEF ContInv
<1> DEFINE D == [state : {"none", "pending", "leased", "completed"},
                 lease : Workers \cup {"none"}, expired : BOOLEAN,
                 hook : Attempts, yes : BOOLEAN]
           d == [deliveries[i] EXCEPT !.state = "leased", !.lease = w, !.expired = FALSE]
           v == [pc |-> "claimed", id |-> i, yes |-> deliveries[i].yes]
<1>1. /\ UNCHANGED <<table, run, approvals, approvalWait, deviceWait, actions, late, listed, wf, executed,
                     faults>>
      /\ deliveries[i].state \in {"pending", "leased"}
      /\ deliveries' = [deliveries EXCEPT ![i] = d]
      /\ worker' = [worker EXCEPT ![w] = v]
  BY DEF ClaimDelivery, rows
<1>2. deliveries \in [Ids -> D] /\ deliveries[i] \in D
  BY DEF ContTypeOK
<1>3. d \in D /\ d.state = "leased" /\ d.yes = deliveries[i].yes
  BY <1>2
<1>4. /\ v \in [pc : {"idle", "claimed", "checked", "accepted", "refused"},
                id : Ids \cup {NoId}, yes : BOOLEAN]
      /\ v.id = i /\ (v.yes <=> deliveries[i].yes)
  BY <1>2
<1> HIDE DEF d, v
<1>5. /\ deliveries' \in [Ids -> D] /\ deliveries'[i] = d
      /\ \A j \in Ids : j /= i => deliveries'[j] = deliveries[j]
  BY <1>1, <1>2, <1>3
<1>6. /\ worker' \in [Workers -> [pc : {"idle", "claimed", "checked", "accepted", "refused"},
                                  id : Ids \cup {NoId}, yes : BOOLEAN]]
      /\ worker'[w] = v /\ \A u \in Workers : u /= w => worker'[u] = worker[u]
  BY <1>1, <1>4 DEF ContTypeOK
<1>7. ContTypeOK'
  BY <1>1, <1>5, <1>6 DEF ContTypeOK
<1>8. DeliveryStands
  <2>1. \A j \in Ids : /\ deliveries'[j].yes <=> deliveries[j].yes
                       /\ deliveries'[j].state = "none" <=> deliveries[j].state = "none"
    BY <1>1, <1>3, <1>5
  <2>2. /\ worker'[w].id \in Ids /\ deliveries[worker'[w].id].state /= "none"
        /\ worker'[w].yes => deliveries[worker'[w].id].yes
    BY <1>1, <1>4, <1>6
  <2> QED
    BY <1>1, <1>6, <2>1, <2>2 DEF DeliveryStands
<1> QED
  BY <1>1, <1>7, <1>8, DeliveryMeansIt, WaitsStay

\* A lease runs out.
LEMMA LeaseExpiresInv ==
  ASSUME ContInv, NEW i \in Ids, LeaseExpires(i)
  PROVE  ContInv'
<1> USE DEF ContInv
<1> DEFINE D == [state : {"none", "pending", "leased", "completed"},
                 lease : Workers \cup {"none"}, expired : BOOLEAN,
                 hook : Attempts, yes : BOOLEAN]
           d == [deliveries[i] EXCEPT !.expired = TRUE]
<1>1. /\ UNCHANGED <<table, run, approvals, approvalWait, deviceWait, actions, late, listed, worker, wf,
                     executed>>
      /\ deliveries' = [deliveries EXCEPT ![i] = d]
      /\ faults < MaxFaults /\ faults' = faults + 1
  BY DEF LeaseExpires, rows
<1>2. deliveries \in [Ids -> D] /\ deliveries[i] \in D
  BY DEF ContTypeOK
<1>3. d \in D /\ d.state = deliveries[i].state /\ d.yes = deliveries[i].yes
  BY <1>2
<1> HIDE DEF d
<1>4. /\ deliveries' \in [Ids -> D] /\ deliveries'[i] = d
      /\ \A j \in Ids : j /= i => deliveries'[j] = deliveries[j]
  BY <1>1, <1>2, <1>3
<1>5. faults' \in 0 .. MaxFaults
  BY <1>1, ContinuationAssumption DEF ContTypeOK
<1>6. ContTypeOK'
  BY <1>1, <1>4, <1>5 DEF ContTypeOK
<1>7. DeliveryStands
  BY <1>1, <1>3, <1>4 DEF DeliveryStands
<1> QED
  BY <1>1, <1>6, <1>7, DeliveryMeansIt, WaitsStay

\* The worker's own step to a later point of the delivery, where it may turn its
\* yes into a no.
LEMMA WorkerMoves ==
  ASSUME ContInv, NEW w \in Workers, worker[w].pc /= "idle",
         NEW v \in [pc : {"idle", "claimed", "checked", "accepted", "refused"},
                    id : Ids \cup {NoId}, yes : BOOLEAN],
         v.id = worker[w].id, v.yes => worker[w].yes,
         worker' = [worker EXCEPT ![w] = v],
         UNCHANGED <<approvals, actions, executed, listed, deliveries>>
  PROVE  /\ worker' \in [Workers -> [pc : {"idle", "claimed", "checked", "accepted", "refused"},
                                     id : Ids \cup {NoId}, yes : BOOLEAN]]
         /\ DeliveryStands
<1> USE DEF ContInv
<1>1. worker[w].id \in Ids /\ deliveries[worker[w].id].state /= "none"
  BY DEF WorkersMeanIt
<1>2. /\ worker' \in [Workers -> [pc : {"idle", "claimed", "checked", "accepted", "refused"},
                                  id : Ids \cup {NoId}, yes : BOOLEAN]]
      /\ worker'[w] = v /\ \A u \in Workers : u /= w => worker'[u] = worker[u]
  BY DEF ContTypeOK
<1>3. DeliveryStands
  BY <1>1, <1>2 DEF DeliveryStands
<1> QED
  BY <1>2, <1>3

\* The check before the hook is resumed (currentAgentContinuation).
LEMMA CheckCurrentInv ==
  ASSUME ContInv, NEW w \in Workers, CheckCurrent(w)
  PROVE  ContInv'
<1> USE DEF ContInv
<1>1. /\ UNCHANGED <<table, run, approvals, approvalWait, deviceWait, actions, late, listed, wf, executed,
                     faults>>
      /\ worker[w].pc = "claimed"
  BY DEF CheckCurrent, rows
<1>2. CASE Current(worker[w].id)
  <2>1. worker[w] \in [pc : {"idle", "claimed", "checked", "accepted", "refused"},
                       id : Ids \cup {NoId}, yes : BOOLEAN]
    BY DEF ContTypeOK
  <2>2. PICK yes \in {worker[w].yes, FALSE} :
          worker' = [worker EXCEPT ![w].pc = "checked", ![w].yes = yes]
    BY <1>2 DEF CheckCurrent
  <2>3. yes \in BOOLEAN /\ (yes => worker[w].yes)
    BY <2>1
  <2>4. /\ [worker[w] EXCEPT !.pc = "checked", !.yes = yes] \in
             [pc : {"idle", "claimed", "checked", "accepted", "refused"},
              id : Ids \cup {NoId}, yes : BOOLEAN]
        /\ [worker[w] EXCEPT !.pc = "checked", !.yes = yes].id = worker[w].id
        /\ [worker[w] EXCEPT !.pc = "checked", !.yes = yes].yes => worker[w].yes
        /\ worker' = [worker EXCEPT ![w] = [worker[w] EXCEPT !.pc = "checked", !.yes = yes]]
    <3>1. CASE yes = TRUE
      BY <2>1, <2>2, <2>3, <3>1
    <3>2. CASE yes = FALSE
      BY <2>1, <2>2, <2>3, <3>2
    <3> QED
      BY <2>3, <3>1, <3>2
  <2>5. deliveries' = deliveries
    BY <1>2 DEF CheckCurrent
  <2>6. /\ worker' \in [Workers -> [pc : {"idle", "claimed", "checked", "accepted", "refused"},
                                    id : Ids \cup {NoId}, yes : BOOLEAN]]
        /\ DeliveryStands
    BY <1>1, <2>3, <2>4, <2>5, WorkerMoves
  <2>7. ContTypeOK'
    BY <1>1, <2>5, <2>6 DEF ContTypeOK
  <2> QED
    BY <1>1, <2>6, <2>7, DeliveryMeansIt, WaitsStay
<1>3. CASE ~ Current(worker[w].id)
  <2>1. FinishAs(w, "completed")
    BY <1>3 DEF CheckCurrent
  <2>2. ContTypeOK' /\ DeliveryStands
    BY <1>1, <2>1, FinishKeeps DEF ContTypeOK
  <2> QED
    BY <1>1, <2>2, DeliveryMeansIt, WaitsStay
<1> QED
  BY <1>2, <1>3

\* The hook is resumed (resumeHook); the reply may be lost.
LEMMA ResumeHookInv ==
  ASSUME ContInv, NEW w \in Workers, ResumeHook(w)
  PROVE  ContInv'
<1> USE DEF ContInv
<1>1. /\ UNCHANGED <<table, run, approvals, approvalWait, deviceWait, actions, late, listed, deliveries,
                     executed>>
      /\ worker[w].pc = "checked" /\ wf' = Resumed(worker[w].yes)
  BY DEF ResumeHook, rows
<1>2. worker[w] \in [pc : {"idle", "claimed", "checked", "accepted", "refused"},
                     id : Ids \cup {NoId}, yes : BOOLEAN]
  BY DEF ContTypeOK
<1>3. PICK pc \in {"accepted", "refused"} : worker' = [worker EXCEPT ![w].pc = pc]
  BY DEF ResumeHook
<1>4. faults' \in 0 .. MaxFaults
  BY ContinuationAssumption DEF ResumeHook, ContTypeOK
<1>5. /\ [worker[w] EXCEPT !.pc = pc] \in
           [pc : {"idle", "claimed", "checked", "accepted", "refused"},
            id : Ids \cup {NoId}, yes : BOOLEAN]
      /\ [worker[w] EXCEPT !.pc = pc].id = worker[w].id
      /\ [worker[w] EXCEPT !.pc = pc].yes => worker[w].yes
      /\ worker' = [worker EXCEPT ![w] = [worker[w] EXCEPT !.pc = pc]]
  BY <1>2, <1>3
<1>6. /\ worker' \in [Workers -> [pc : {"idle", "claimed", "checked", "accepted", "refused"},
                                  id : Ids \cup {NoId}, yes : BOOLEAN]]
      /\ DeliveryStands
  BY <1>1, <1>2, <1>5, WorkerMoves
<1>7. wf' \in [pc : {"request", "opening", "parked", "ended"}, call : Calls,
               attempt : Attempts, kind : {"none", "approval", "device", "user"}]
  <2>1. wf \in [pc : {"request", "opening", "parked", "ended"}, call : Calls,
                attempt : Attempts, kind : {"none", "approval", "device", "user"}]
    BY DEF ContTypeOK
  <2> QED
    BY <1>1, <2>1, NextCallIs DEF Resumed
<1>8. ContTypeOK'
  BY <1>1, <1>4, <1>6, <1>7 DEF ContTypeOK
<1> QED
  BY <1>1, <1>6, <1>8, DeliveryMeansIt, WaitsStay

\* The hook is not there.
LEMMA HookMissingInv ==
  ASSUME ContInv, NEW w \in Workers, HookMissing(w)
  PROVE  ContInv'
<1> USE DEF ContInv
<1>1. /\ UNCHANGED <<table, run, approvals, approvalWait, deviceWait, actions, late, listed, deliveries, wf,
                     executed, faults>>
      /\ worker[w].pc = "checked" /\ worker' = [worker EXCEPT ![w].pc = "refused"]
  BY DEF HookMissing, rows
<1>2. worker[w] \in [pc : {"idle", "claimed", "checked", "accepted", "refused"},
                     id : Ids \cup {NoId}, yes : BOOLEAN]
  BY DEF ContTypeOK
<1>3. /\ [worker[w] EXCEPT !.pc = "refused"] \in
           [pc : {"idle", "claimed", "checked", "accepted", "refused"},
            id : Ids \cup {NoId}, yes : BOOLEAN]
      /\ [worker[w] EXCEPT !.pc = "refused"].id = worker[w].id
      /\ [worker[w] EXCEPT !.pc = "refused"].yes => worker[w].yes
      /\ worker' = [worker EXCEPT ![w] = [worker[w] EXCEPT !.pc = "refused"]]
  BY <1>2, <1>1
<1>4. /\ worker' \in [Workers -> [pc : {"idle", "claimed", "checked", "accepted", "refused"},
                                  id : Ids \cup {NoId}, yes : BOOLEAN]]
      /\ DeliveryStands
  BY <1>1, <1>2, <1>3, WorkerMoves
<1>5. ContTypeOK'
  BY <1>1, <1>4 DEF ContTypeOK
<1> QED
  BY <1>1, <1>4, <1>5, DeliveryMeansIt, WaitsStay

\* The acknowledgement (FinishAgentContinuation) clears the wait it answers.  An
\* approval the invocation still waits for has no continuation, so it is another
\* one; a device wait is only cleared once the run is past it.
LEMMA AcknowledgeInv ==
  ASSUME ContInv, NEW w \in Workers, Acknowledge(w)
  PROVE  ContInv'
<1> USE DEF ContInv
<1> DEFINE i == worker[w].id
<1>1. /\ UNCHANGED <<table, run, approvals, actions, late, listed, wf, executed, faults>>
      /\ worker[w].pc = "accepted" /\ FinishAs(w, "completed")
      /\ approvalWait' = IF i[1] = "approval" /\ approvalWait = i[2] THEN 0 ELSE approvalWait
      /\ deviceWait' = IF ClearsDeviceWait(i) THEN NoToken ELSE deviceWait
  BY DEF Acknowledge
<1>2. ContTypeOK' /\ DeliveryStands
  BY <1>1, FinishKeeps DEF ContTypeOK, Tokens
<1>3. i \in Ids /\ deliveries[i].state /= "none"
  BY <1>1 DEF WorkersMeanIt
<1>4. WaitsAreOfCalls'
  BY <1>1 DEF WaitsAreOfCalls
<1>5. InvocationWaits'
  <2> SUFFICES ASSUME Invocation
               PROVE  /\ run = "awaiting_device" => deviceWait' /= NoToken
                      /\ run = "awaiting_approval" =>
                           /\ approvalWait' /= 0
                           /\ deliveries'[<<"approval", approvalWait', 0>>].state = "none"
    BY <1>1 DEF InvocationWaits, Invocation
  <2>1. run = "awaiting_device" => deviceWait' /= NoToken
    BY <1>1 DEF InvocationWaits, ClearsDeviceWait
  <2>2. ASSUME run = "awaiting_approval"
        PROVE  /\ approvalWait' /= 0
               /\ deliveries'[<<"approval", approvalWait', 0>>].state = "none"
    <3>1. approvalWait /= 0 /\ deliveries[<<"approval", approvalWait, 0>>].state = "none"
      BY <2>2 DEF InvocationWaits
    <3>2. ~ (i[1] = "approval" /\ approvalWait = i[2])
      BY <1>3, <3>1, IdShape
    <3>3. approvalWait' = approvalWait /\ <<"approval", approvalWait, 0>> \in Ids
      BY <1>1, <3>1, <3>2, IdOf DEF WaitsAreOfCalls
    <3> QED
      BY <1>2, <3>1, <3>3 DEF DeliveryStands
  <2> QED
    BY <2>1, <2>2
<1> QED
  BY <1>2, <1>4, <1>5, DeliveryMeansIt

\* The check fails, and the delivery is tried again.
LEMMA CheckFailsInv ==
  ASSUME ContInv, NEW w \in Workers, CheckFails(w)
  PROVE  ContInv'
<1> USE DEF ContInv
<1>1. /\ UNCHANGED <<table, run, approvals, approvalWait, deviceWait, actions, late, listed, wf, executed>>
      /\ worker[w].pc = "claimed" /\ FinishAs(w, "pending")
      /\ faults < MaxFaults /\ faults' = faults + 1
  BY DEF CheckFails, rows
<1>2. faults' \in 0 .. MaxFaults
  BY <1>1, ContinuationAssumption DEF ContTypeOK
<1>3. ContTypeOK' /\ DeliveryStands
  BY <1>1, <1>2, FinishKeeps DEF ContTypeOK
<1> QED
  BY <1>1, <1>3, DeliveryMeansIt, WaitsStay

\* The look after an error.
LEMMA LookAgainInv ==
  ASSUME ContInv, NEW w \in Workers, LookAgain(w)
  PROVE  ContInv'
<1> USE DEF ContInv
<1>1. /\ UNCHANGED <<table, run, approvals, approvalWait, deviceWait, actions, late, listed, wf, executed,
                     faults>>
      /\ worker[w].pc = "refused" /\ FinishAs(w, AfterError(worker[w].id))
  BY DEF LookAgain, rows
<1>2. AfterError(worker[w].id) \in {"pending", "completed"}
  BY DEF AfterError
<1>3. ContTypeOK' /\ DeliveryStands
  BY <1>1, <1>2, FinishKeeps DEF ContTypeOK
<1> QED
  BY <1>1, <1>3, DeliveryMeansIt, WaitsStay

-----------------------------------------------------------------------------
(* The invariant holds, and with it the properties.                           *)

\* Initially nothing is asked, decided or queued.
LEMMA ContInit ==
  ASSUME Init
  PROVE  ContInv
<1>1. ContTypeOK
  <2>1. approvals \in [Calls -> [state : DecisionStates, hook : Attempts]]
    BY Names DEF Init, DecisionStates
  <2>2. actions \in [Calls -> [state : ActionStates, hook : Attempts, consumed : BOOLEAN]]
    BY Names DEF Init, ActionStates
  <2>3. deliveries \in [Ids -> [state : {"none", "pending", "leased", "completed"},
                                lease : Workers \cup {"none"}, expired : BOOLEAN,
                                hook : Attempts, yes : BOOLEAN]]
    BY Names DEF Init, NoDelivery
  <2>4. worker \in [Workers -> [pc : {"idle", "claimed", "checked", "accepted", "refused"},
                                id : Ids \cup {NoId}, yes : BOOLEAN]]
    BY DEF Init, IdleWorker
  <2>5. wf \in [pc : {"request", "opening", "parked", "ended"}, call : Calls,
                attempt : Attempts, kind : {"none", "approval", "device", "user"}]
    BY Names DEF Init
  <2> QED
    BY <2>1, <2>2, <2>3, <2>4, <2>5, ContinuationAssumption DEF Init, ContTypeOK, Tokens
<1>2. DeliveriesMeanIt /\ WorkersMeanIt /\ ExecutedWithConsent
  BY DEF Init, DeliveriesMeanIt, WorkersMeanIt, ExecutedWithConsent, NoDelivery, IdleWorker
<1>3. ContinuedMeansDecided
  BY IdOf DEF Init, ContinuedMeansDecided, NoDelivery
<1>4. WaitsAreOfCalls /\ InvocationWaits
  BY DEF Init, WaitsAreOfCalls, InvocationWaits
<1> QED
  BY <1>1, <1>2, <1>3, <1>4 DEF ContInv

\* Every step keeps it.
LEMMA ContStep ==
  ASSUME ContInv, [Next]_vars
  PROVE  ContInv'
<1>1. ASSUME NEW w \in Workers, Deliver(w)
      PROVE  ContInv'
  BY <1>1, ClaimInv, CheckCurrentInv, CheckFailsInv, ResumeHookInv, HookMissingInv, AcknowledgeInv,
     LookAgainInv DEF Deliver
<1>2. CASE Workflow
  BY <1>2, RequireApprovalInv, AwaitDeviceInv, AwaitUserInterventionInv, ExecuteCallInv, QuietSteps
     DEF Workflow
<1>3. CASE SweepDecisions \/ ExpireCreatorToolApprovals \/ QueueAgentDeviceResume
  BY <1>3, ListApprovalsInv, ApprovalResumeInv, ExpireSDKInv, ExpireCreatorInv, DeviceResumeInv DEF SweepDecisions
<1>4. ASSUME NEW c \in Calls,
             \/ Passes(c)
             \/ \E state \in {"approved", "denied"} : Decide(c, state)
             \/ \E ready \in BOOLEAN : DecideUserIntervention(c, ready)
      PROVE  ContInv'
  BY <1>4, QuietSteps, DecideInv, DecideUserInv
<1>5. CASE EndRun
  BY <1>5, QuietSteps
<1>6. CASE \E i \in Ids : LeaseExpires(i)
  BY <1>6, LeaseExpiresInv
<1>7. CASE UNCHANGED vars
  BY <1>7 DEF vars, ContInv, ContTypeOK, DeliveriesMeanIt, WorkersMeanIt, ExecutedWithConsent,
     ContinuedMeansDecided, WaitsAreOfCalls, InvocationWaits, Invocation, Granted
<1> QED
  BY <1>1, <1>2, <1>3, <1>4, <1>5, <1>6, <1>7 DEF Next

\* The inductive invariant of the continuations.
THEOREM ContinuationsInvariant == Spec => []ContInv
<1>1. Init => ContInv
  BY ContInit
<1>2. ContInv /\ [Next]_vars => ContInv'
  BY ContStep
<1> QED
  BY <1>1, <1>2, PTL DEF Spec

\* The rows, the deliveries, the workers and the workflow keep their types.
THEOREM ContinuationsTypeCorrect == Spec => []ContTypeOK
<1>1. ContInv => ContTypeOK
  BY DEF ContInv
<1> QED
  BY <1>1, ContinuationsInvariant, PTL

\* A yes at a hook is the owner's, and nothing that needs consent is executed
\* without it, whatever is lost, repeated or late
\* (agent_runtime_delivery.go, sdk_invocation_approvals.go).
THEOREM ConsentIsRealHolds == Spec => []ConsentIsReal
<1>1. ContInv => ConsentIsReal
  BY DEF ContInv, WorkersMeanIt, ExecutedWithConsent, ConsentIsReal, Granted
<1> QED
  BY <1>1, ContinuationsInvariant, PTL

\* The late acknowledgement of an earlier continuation leaves an invocation the
\* wait it stands at (agent_continuation_delivery.go).
THEOREM LaterInvocationWaitSurvivesHolds == Spec => []LaterInvocationWaitSurvives
<1>1. ContInv => LaterInvocationWaitSurvives
  BY DEF ContInv, InvocationWaits, LaterInvocationWaitSurvives
<1> QED
  BY <1>1, ContinuationsInvariant, PTL
=============================================================================
