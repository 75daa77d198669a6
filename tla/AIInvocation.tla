---------------------------- MODULE AIInvocation ----------------------------
(* One AI invocation: its row and its event log in the database              *)
(* (postgres/ai_invocation_persistence.go, ai_invocation_event_commit.go),    *)
(* the in-memory copy every replica of the server keeps of it                 *)
(* (httpapi/ai_invocation_hub.go), the client that follows it over an event   *)
(* stream and may stop it (httpapi/ai_invocations.go), the delivery that      *)
(* starts a durable workflow for it (httpapi/agent_runtime_delivery.go), the  *)
(* callbacks of that workflow (httpapi/ai_invocation_agent_runtime.go), and   *)
(* the observation of a silent workflow (postgres/ai_runtime_recovery.go),    *)
(* and the end of its retention (postgres/ai_everywhere.go).                  *)
(* Requests overlap, replies are lost, replicas restart.                      *)
EXTENDS Naturals, Sequences

CONSTANTS Replicas,     \* processes of the server
          Handlers,     \* requests that can be in progress at once
          Results,      \* what the workflow may report, of Statuses
          StartAttempts,\* deliveries of a start before it is given up (3)
          MaxRequests,  \* bound: callbacks of the workflow, repeats included
          MaxWaits,     \* bound: waits the workflow parks at
          MaxFaults     \* bound: what disturbs the run (stops, restarts, lost
                        \* replies, disconnects, failures of the engine, the end
                        \* of its retention), in all

\* The result of a workflow: a final answer, an answer that becomes a proposal
\* to review, partial work, a failure, an answer that cannot be shown.
Statuses == {"success", "proposal", "incomplete", "failed", "unusable"}

ASSUME InvocationAssumption ==
  /\ Results \subseteq Statuses
  /\ StartAttempts \in Nat \ {0} /\ MaxRequests \in Nat
  /\ MaxWaits \in Nat /\ MaxFaults \in Nat
  /\ "none" \notin Replicas \cup Handlers

Active == {"running", "awaiting"}
Ended == {"completed", "failed", "canceled"}
States == {"queued"} \cup Active \cup Ended

\* An event is its type.  The receipt of those in Receipted is derived from what
\* they report, so that a repeat finds it; every other event gets a fresh one.
Progress == {"started", "status", "progress", "waiting", "resumed", "message", "artifact", "approval"}
Endings == {"completed", "failed", "canceled", "interrupted", "undelivered", "reconciled"}
Events == Progress \cup Endings
Receipted == {"progress", "waiting", "resumed", "undelivered", "reconciled"}

VARIABLES
  state,     \* ai_invocations.state
  bound,     \* ai_invocations.runtime_run_id is set
  log,       \* ai_invocation_events in sequence order
  life,      \* where now is: before expires_at, after it, or after the purge of
             \* the row; state, bound and log then are what the row last said
  hub,       \* by replica: the record of the invocation in memory
  start,     \* the invocation.start delivery
  cancelDue, \* a runtime.cancel delivery is queued
  probe,     \* the runtime.reconcile delivery
  engine,    \* the durable workflow
  handler,   \* requests in progress
  told,      \* what the user who asked to stop was told
  stream,    \* the event stream of the client
  requests, waits, faults

rows == <<state, bound, log, life>>
counts == <<requests, waits, faults>>
vars == <<rows, hub, start, cancelDue, probe, engine, handler, told, stream, counts>>

NoRecord == [here |-> FALSE, events |-> <<>>, state |-> "queued"]
Idle == [pc |-> "idle", kind |-> "none", replica |-> "none", status |-> "none",
         todo |-> <<>>]
NoStream == [pc |-> "off", replica |-> "none", seen |-> "queued", bound |-> FALSE, got |-> <<>>]
NoProbe == [pc |-> "none", stopped |-> FALSE, late |-> FALSE]

Init ==
  /\ state = "queued" /\ bound = FALSE /\ log = <<>> /\ life = "fresh"
  /\ hub = [r \in Replicas |-> NoRecord]
  /\ start = [pc |-> "pending", attempts |-> 0, fatal |-> FALSE]
  /\ cancelDue = FALSE
  /\ probe = NoProbe
  /\ engine = [pc |-> "none", status |-> "none", call |-> "none"]
  /\ handler = [h \in Handlers |-> Idle]
  /\ told = "nothing"
  /\ stream = NoStream
  /\ requests = 0 /\ waits = 0 /\ faults = 0

-----------------------------------------------------------------------------
(* The event log.                                                             *)

\* The row is there; what a read of its events returns.
Present == life /= "purged"
Stored == IF Present THEN log ELSE <<>>

Logged(e) == \E i \in DOMAIN log : log[i] = e

\* Mutant: a repeat is not recognised.
RepeatedNever(e) == FALSE

\* Mutant: events are taken after the end.
RefusedNever(e) == FALSE

\* A receipt found in the log is a repeat and changes nothing.
Repeated(e) == Present /\ e \in Receipted /\ Logged(e)
Refused(e) == ~Repeated(e) /\ (state \in Ended \/ ~Present)

StateAfter(e) ==
  CASE e = "started" -> "running"
    [] e \in {"completed", "canceled"} -> e
    [] e \in Endings \ {"completed", "canceled"} -> "failed"
    [] e \in Progress \ {"started"} -> state

\* updated_at is later than the observation a queued probe asks for.
Touched == [probe EXCEPT !.late = (probe.pc /= "none")]

CommitEvent(e) ==
  /\ ~Refused(e)
  /\ log' = IF Repeated(e) THEN log ELSE Append(log, e)
  /\ state' = IF Repeated(e) THEN state ELSE StateAfter(e)
  /\ probe' = IF Repeated(e) THEN probe ELSE Touched
  /\ cancelDue' = (cancelDue \/ (~Repeated(e) /\ e = "canceled" /\ bound))
  /\ UNCHANGED life

\* Mutant: only a longer copy is taken.
RestoredLonger(record, events, seen) ==
  IF ~record.here \/ Len(events) > Len(record.events)
  THEN [here |-> TRUE, events |-> events, state |-> seen]
  ELSE record

\* restore: the copy is replaced by a longer one, or by one with a newer state.
Restored(record, events, seen) ==
  IF \/ ~record.here
     \/ Len(events) > Len(record.events)
     \/ Len(events) = Len(record.events) /\ seen /= record.state /\ record.state \notin Ended
  THEN [here |-> TRUE, events |-> events, state |-> seen]
  ELSE record

-----------------------------------------------------------------------------
(* The durable workflow and its callbacks.                                    *)

Spend == faults < MaxFaults /\ faults' = faults + 1

Send(h, r) ==
  /\ engine.pc \in {"activate", "work", "complete"} /\ engine.call = "none"
  /\ handler[h].pc = "idle"
  /\ requests < MaxRequests
  /\ requests' = requests + 1
  /\ engine' = [engine EXCEPT !.call = h]
  /\ handler' = [handler EXCEPT ![h] = [Idle EXCEPT !.pc = "begin", !.kind = engine.pc,
                                          !.replica = r, !.status = engine.status]]
  /\ UNCHANGED <<rows, hub, start, cancelDue, probe, told, stream, waits, faults>>

\* Mutant: the workflow takes a refused completion for an acknowledged one.
AfterReplyUnchecked(answer) ==
  CASE answer = "again" -> {[engine EXCEPT !.call = "none"]}
    [] answer /= "again" /\ engine.pc = "activate" -> {[engine EXCEPT !.call = "none", !.pc = "work"]}
    [] answer /= "again" /\ engine.pc = "work" ->
         {[pc |-> "complete", call |-> "none", status |-> s] : s \in Results}
    [] OTHER -> {[engine EXCEPT !.call = "none", !.pc = "ended"]}

\* A refused checkpoint is reported as a failure, a refused activation or
\* completion ends the workflow; any other error is tried again.
AfterReply(answer) ==
  CASE answer = "again" -> {[engine EXCEPT !.call = "none"]}
    [] answer = "ok" /\ engine.pc = "activate" -> {[engine EXCEPT !.call = "none", !.pc = "work"]}
    [] answer = "ok" /\ engine.pc = "work" ->
         {[pc |-> "complete", call |-> "none", status |-> s] : s \in Results}
    [] answer = "ok" /\ engine.pc = "complete" -> {[engine EXCEPT !.call = "none", !.pc = "ended"]}
    [] answer = "no" /\ engine.pc = "work" ->
         {[pc |-> "complete", call |-> "none", status |-> "failed"]}
    [] OTHER -> {[engine EXCEPT !.call = "none", !.pc = "refused"]}

Answer(h, answer) ==
  /\ handler' = [handler EXCEPT ![h] = Idle]
  /\ engine' \in IF engine.call = h THEN AfterReply(answer) ELSE {engine}
  /\ UNCHANGED told

StopReply(h, answer) ==
  /\ handler' = [handler EXCEPT ![h] = Idle]
  /\ told' = answer
  /\ UNCHANGED engine

\* The reply is lost, or takes longer than the workflow waits for it.
Timeout ==
  /\ engine.call /= "none"
  /\ Spend
  /\ engine' = [engine EXCEPT !.call = "none"]
  /\ UNCHANGED <<rows, hub, start, cancelDue, probe, handler, told, stream, requests, waits>>

\* A step that keeps failing ends the workflow, and so does the loss of its engine.
GiveUp ==
  /\ engine.pc \in {"activate", "work", "complete"} /\ engine.call = "none"
  /\ requests = MaxRequests
  /\ engine' = [engine EXCEPT !.pc = "refused"]
  /\ UNCHANGED <<rows, hub, start, cancelDue, probe, handler, told, stream, counts>>

EngineLost ==
  /\ engine.pc \notin {"none", "lost", "ended", "refused"}
  /\ Spend
  /\ engine' = [engine EXCEPT !.pc = "refused", !.call = "none"]
  /\ UNCHANGED <<rows, hub, start, cancelDue, probe, handler, told, stream, requests, waits>>

\* agentRuntimeActivateAIInvocation
Activate(h) ==
  /\ handler[h].pc = "begin" /\ handler[h].kind = "activate"
  /\ IF Present /\ state \in {"queued", "running"}
     THEN /\ bound' = TRUE /\ state' = "running" /\ probe' = Touched
          /\ hub' = [hub EXCEPT ![handler[h].replica] = Restored(@, log, "running")]
          /\ handler' = [handler EXCEPT ![h].pc = "append", ![h].todo = <<"started", "status">>]
          /\ UNCHANGED <<engine, told>>
     ELSE Answer(h, "no") /\ UNCHANGED <<bound, state, probe, hub>>
  /\ UNCHANGED <<log, life, start, cancelDue, stream, counts>>

MayReport == Present /\ bound /\ state \in Active

\* agentRuntimeEventAIInvocation
Event(h) ==
  /\ handler[h].pc = "begin" /\ handler[h].kind = "work"
  /\ IF MayReport
     THEN /\ handler' = [handler EXCEPT ![h].pc = "append", ![h].todo = <<"progress">>]
          /\ UNCHANGED <<engine, told>>
     ELSE Answer(h, "no")
  /\ UNCHANGED <<rows, hub, start, cancelDue, probe, stream, counts>>

Script(status) ==
  CASE status = "success" -> <<"message", "completed">>
    [] status = "proposal" -> <<"message", "artifact", "approval", "completed">>
    [] status = "incomplete" -> <<"message", "failed">>
    [] status \in {"failed", "unusable"} -> <<"failed">>

\* agentRuntimeCompleteAIInvocation: an ended invocation is acknowledged; a
\* success with actions that are not confirmed is only partial.
Complete(h) ==
  /\ handler[h].pc = "begin" /\ handler[h].kind = "complete"
  /\ IF MayReport
     THEN /\ \E s \in {handler[h].status, "incomplete"} :
               /\ s = handler[h].status \/ handler[h].status \in {"success", "proposal"}
               /\ handler' = [handler EXCEPT ![h].pc = "append", ![h].status = s,
                                             ![h].todo = Script(s)]
          /\ UNCHANGED <<engine, told>>
     ELSE Answer(h, IF Present /\ bound /\ state \in Ended THEN "ok" ELSE "no")
  /\ UNCHANGED <<rows, hub, start, cancelDue, probe, stream, counts>>

-----------------------------------------------------------------------------
(* What handlers share.  appendReceipt needs the copy of the replica to be    *)
(* there, commits the event and reloads the copy.                             *)

Reload(r) == hub' = [hub EXCEPT ![r] = Restored(@, log', state')]

\* The handler goes on to its next event; the last one ends it, except that an
\* event callback still touches the row.
Advance(h, last) ==
  LET todo == Tail(handler[h].todo)
  IN  IF todo /= <<>>
      THEN handler' = [handler EXCEPT ![h].todo = todo] /\ UNCHANGED <<engine, told>>
      ELSE last

AppendEvent(h) ==
  /\ handler[h].pc = "append"
  /\ hub[handler[h].replica].here
  /\ CommitEvent(Head(handler[h].todo))
  /\ Reload(handler[h].replica)
  /\ Advance(h, CASE handler[h].kind = "work" ->
                       handler' = [handler EXCEPT ![h].pc = "touch"] /\ UNCHANGED <<engine, told>>
                  [] handler[h].kind = "cancel" -> StopReply(h, "stopped")
                  [] OTHER -> Answer(h, CASE handler[h].status = "unusable" -> "again"
                                          [] handler[h].status = "lost" -> "no"
                                          [] OTHER -> "ok"))
  /\ UNCHANGED <<bound, start, stream, counts>>

\* An activation goes on without its events, any other request fails; an answer
\* that could not be written is reported as a failure before the reply.
AppendFails(h) ==
  /\ handler[h].pc = "append"
  /\ ~hub[handler[h].replica].here \/ Refused(Head(handler[h].todo))
  /\ CASE handler[h].kind = "activate" -> Advance(h, Answer(h, "ok"))
       [] handler[h].kind = "cancel" -> StopReply(h, "not persisted")
       [] handler[h].kind = "complete" /\ handler[h].status \in {"success", "proposal"} ->
            /\ handler' = [handler EXCEPT ![h].status = "lost", ![h].todo = <<"failed">>]
            /\ UNCHANGED <<engine, told>>
       [] OTHER -> Answer(h, IF handler[h].status = "unusable" THEN "again" ELSE "no")
  /\ UNCHANGED <<rows, hub, start, cancelDue, probe, stream, counts>>

\* TouchAIInvocationRuntime
Touch(h) ==
  /\ handler[h].pc = "touch"
  /\ Answer(h, IF MayReport THEN "ok" ELSE "no")
  /\ probe' = IF MayReport THEN Touched ELSE probe
  /\ UNCHANGED <<rows, hub, start, cancelDue, stream, counts>>

-----------------------------------------------------------------------------
(* The user stops the invocation, or its Space goes.                          *)

\* CancelInvocation reads the row and decides everything by what it read.
Cancel(h, r) ==
  /\ told = "nothing" /\ \A g \in Handlers : handler[g].kind /= "cancel"
  /\ handler[h].pc = "idle" /\ Present
  /\ Spend
  /\ handler' = [handler EXCEPT ![h] =
       [Idle EXCEPT !.pc = "revoke", !.kind = "cancel", !.replica = r, !.todo = <<"canceled">>,
                    !.status = IF state \in Ended THEN "ended" ELSE IF bound THEN "bound" ELSE "unbound"]]
  /\ hub' = [hub EXCEPT ![r] = Restored(@, log, state)]
  /\ UNCHANGED <<rows, start, cancelDue, probe, engine, told, stream, requests, waits>>

\* CancelMistyInvocationChildren ends the row itself, without an event.
CancelRow ==
  IF state \in Ended \/ ~Present THEN UNCHANGED <<state, probe>> ELSE state' = "canceled" /\ probe' = Touched

Revoke(h) ==
  /\ handler[h].pc = "revoke"
  /\ CancelRow
  /\ IF ~Present THEN StopReply(h, "failed")
     ELSE IF handler[h].status = "ended" THEN StopReply(h, "stopped")
     ELSE /\ handler' = [handler EXCEPT ![h].pc = IF handler[h].status = "bound" THEN "stop" ELSE "append"]
          /\ UNCHANGED <<engine, told>>
  /\ UNCHANGED <<bound, log, life, hub, start, cancelDue, stream, counts>>

Stopped(e) == [e EXCEPT !.pc = IF @ = "refused" THEN @ ELSE "ended", !.call = "none"]

\* The engine is asked to stop; a failure is ignored.
StopRuntime(h) ==
  /\ handler[h].pc = "stop"
  /\ \/ engine' = Stopped(engine) /\ UNCHANGED faults
     \/ Spend /\ UNCHANGED engine
  /\ handler' = [handler EXCEPT ![h].pc = "append"]
  /\ UNCHANGED <<rows, hub, start, cancelDue, probe, told, stream, requests, waits>>

\* cancelMistySpaceTx
CancelSpace ==
  /\ state \notin Ended /\ Present
  /\ Spend
  /\ state' = "canceled" /\ probe' = Touched
  /\ cancelDue' = (cancelDue \/ bound)
  /\ UNCHANGED <<bound, log, life, hub, start, engine, handler, told, stream, requests, waits>>

DeliverCancel ==
  /\ cancelDue
  /\ cancelDue' = FALSE
  /\ engine' = Stopped(engine)
  /\ UNCHANGED <<rows, hub, start, probe, handler, told, stream, counts>>

-----------------------------------------------------------------------------
(* Waits: the workflow parks and the row says so, with an event.              *)

Park ==
  /\ engine.pc = "work" /\ engine.call = "none" /\ waits < MaxWaits
  /\ Present /\ state = "running"
  /\ waits' = waits + 1
  /\ engine' = [engine EXCEPT !.pc = "parked"]
  /\ state' = "awaiting" /\ probe' = Touched
  /\ log' = IF Logged("waiting") THEN log ELSE Append(log, "waiting")
  /\ UNCHANGED <<bound, life, hub, start, cancelDue, handler, told, stream, requests, faults>>

\* The wait is answered.  It may never be: nobody has to answer, and an approval
\* that runs out is not always delivered (Continuations is about both).
Resume ==
  /\ engine.pc = "parked" /\ Present /\ state = "awaiting"
  /\ engine' = [engine EXCEPT !.pc = "work"]
  /\ state' = "running" /\ probe' = Touched
  /\ log' = IF Logged("resumed") THEN log ELSE Append(log, "resumed")
  /\ UNCHANGED <<bound, life, hub, start, cancelDue, handler, told, stream, counts>>

-----------------------------------------------------------------------------
(* The start delivery.  A workflow is submitted once, under a start receipt.  *)

\* Attempts are counted up to StartAttempts, which is all that is asked of them.
Claimed(pc, fatal) ==
  start' = [pc |-> pc, fatal |-> fatal,
            attempts |-> IF start.attempts < StartAttempts THEN start.attempts + 1 ELSE start.attempts]

\* Nothing to start, a start, a request that can no longer be prepared or has
\* expired, or one whose row is gone.
ClaimStart ==
  /\ start.pc = "pending"
  /\ \/ Present /\ (state \in Ended \/ bound) /\ Claimed("done", FALSE) /\ UNCHANGED faults
     \/ life = "fresh" /\ state \notin Ended /\ ~bound /\ Claimed("starting", FALSE) /\ UNCHANGED faults
     \/ life = "fresh" /\ state \notin Ended /\ ~bound /\ Claimed("unstarted", TRUE) /\ Spend
     \/ life = "expired" /\ state \notin Ended /\ ~bound /\ Claimed("unstarted", TRUE) /\ UNCHANGED faults
     \/ ~Present /\ Claimed("unstarted", FALSE) /\ UNCHANGED faults
  /\ UNCHANGED <<rows, hub, cancelDue, probe, engine, handler, told, stream, requests, waits>>

MayStart == Present /\ state \in {"queued", "running"}

\* Only the first request that claims the receipt submits.  Its outcome may stay
\* unknown: then a later request gets the runtime once it is bound or recorded.
Submit ==
  /\ start.pc = "starting"
  /\ \/ /\ engine.pc = "none" /\ MayStart
        /\ engine' = [engine EXCEPT !.pc = "activate"]
        /\ \/ start' = [start EXCEPT !.pc = "started"] /\ UNCHANGED faults
           \/ start' = [start EXCEPT !.pc = "unstarted"] /\ Spend
     \/ /\ engine.pc = "none" /\ MayStart
        /\ engine' \in {engine, [engine EXCEPT !.pc = "lost"]}
        /\ start' = [start EXCEPT !.pc = "unstarted"]
        /\ Spend
     \/ /\ engine.pc \notin {"none", "lost"} /\ Present
        /\ start' = [start EXCEPT !.pc = "started"]
        /\ UNCHANGED <<engine, faults>>
     \/ /\ engine.pc /= "none" \/ ~MayStart
        /\ start' = [start EXCEPT !.pc = "unstarted"]
        /\ UNCHANGED <<engine, faults>>
  /\ UNCHANGED <<rows, hub, cancelDue, probe, handler, told, stream, requests, waits>>

\* MarkAIInvocationDispatched
MarkDispatched ==
  /\ start.pc = "started"
  /\ IF MayStart
     THEN bound' = TRUE /\ probe' = Touched /\ start' = [start EXCEPT !.pc = "done"]
     ELSE start' = [start EXCEPT !.pc = "unstarted"] /\ UNCHANGED <<bound, probe>>
  /\ UNCHANGED <<state, log, life, hub, cancelDue, engine, handler, told, stream, counts>>

\* Activation may have succeeded although its reply was lost.
CheckActivation ==
  /\ start.pc = "unstarted"
  /\ start' = [start EXCEPT !.pc = IF Present /\ bound THEN "done"
                                   ELSE IF start.fatal \/ start.attempts >= StartAttempts THEN "failing"
                                   ELSE "pending"]
  /\ UNCHANGED <<rows, hub, cancelDue, probe, engine, handler, told, stream, counts>>

\* The failure of a run whose row is gone cannot be recorded: the delivery is
\* left to its lease and comes back.
FailStart ==
  /\ start.pc = "failing"
  /\ IF Refused("undelivered") THEN UNCHANGED <<state, log, life, probe, cancelDue>>
     ELSE CommitEvent("undelivered")
  /\ start' = IF Present THEN [start EXCEPT !.pc = "done"]
              ELSE [start EXCEPT !.pc = "pending", !.fatal = FALSE]
  /\ UNCHANGED <<bound, hub, engine, handler, told, stream, counts>>

-----------------------------------------------------------------------------
(* A workflow that has been silent is observed.                               *)

\* ReconcileStaleAIInvocations
Reconcile ==
  /\ MayReport /\ probe.pc = "none"
  /\ probe' = [NoProbe EXCEPT !.pc = "queued"]
  /\ UNCHANGED <<rows, hub, start, cancelDue, engine, handler, told, stream, counts>>

Observe ==
  /\ probe.pc = "queued"
  /\ probe' = [probe EXCEPT !.pc = "observed", !.stopped = (engine.pc \in {"ended", "refused"})]
  /\ UNCHANGED <<rows, hub, start, cancelDue, engine, handler, told, stream, counts>>

\* RecordAIInvocationRuntimeStatus: a newer commit of the workflow wins.
RecordStatus ==
  /\ probe.pc = "observed"
  /\ probe' = NoProbe
  /\ IF Present /\ probe.stopped /\ ~probe.late /\ state \notin Ended
     THEN state' = "failed" /\ log' = IF Logged("reconciled") THEN log ELSE Append(log, "reconciled")
     ELSE UNCHANGED <<state, log>>
  /\ UNCHANGED <<bound, life, hub, start, cancelDue, engine, handler, told, stream, counts>>

-----------------------------------------------------------------------------
(* InvocationEvents: the event stream of the client.  A copy that has expired *)
(* is not found (hub.events); "gone" is the answer that there is nothing.      *)

Connect(r) ==
  /\ stream.pc = "off"
  /\ stream' = [stream EXCEPT !.pc = IF hub[r].here /\ life = "fresh" THEN "loop" ELSE "row",
                              !.replica = r]
  /\ UNCHANGED <<rows, hub, start, cancelDue, probe, engine, handler, told, counts>>

Gone == [NoStream EXCEPT !.pc = "gone", !.got = stream.got]

LoadRow ==
  /\ stream.pc = "row"
  /\ stream' = IF Present THEN [stream EXCEPT !.pc = "state", !.bound = bound] ELSE Gone
  /\ UNCHANGED <<rows, hub, start, cancelDue, probe, engine, handler, told, counts>>

\* An open stream that finds no row just ends.
StreamState ==
  /\ stream.pc \in {"state", "loop"}
  /\ stream' = IF Present
               THEN [stream EXCEPT !.pc = IF @ = "state" THEN "events" ELSE "emit", !.seen = state]
               ELSE IF stream.pc = "state" THEN Gone ELSE [Gone EXCEPT !.pc = "off"]
  /\ UNCHANGED <<rows, hub, start, cancelDue, probe, engine, handler, told, counts>>

\* A copy rebuilt for a run that started and has no runtime is interrupted.
Interrupted(record) == record.state \notin Ended /\ stream.seen /= "queued" /\ ~stream.bound

LoadEvents ==
  /\ stream.pc = "events"
  /\ LET record == Restored(hub[stream.replica], Stored, stream.seen)
     IN  /\ hub' = [hub EXCEPT ![stream.replica] = record]
         /\ stream' = [stream EXCEPT !.pc = IF Interrupted(record) THEN "interrupt" ELSE "loop",
                                     !.seen = "queued", !.bound = FALSE]
  /\ UNCHANGED <<rows, start, cancelDue, probe, engine, handler, told, counts>>

Interrupt ==
  /\ stream.pc = "interrupt"
  /\ IF Refused("interrupted") THEN UNCHANGED <<state, log, life, hub, probe, cancelDue>>
     ELSE CommitEvent("interrupted") /\ Reload(stream.replica)
  /\ stream' = [stream EXCEPT !.pc = "loop"]
  /\ UNCHANGED <<bound, start, engine, handler, told, counts>>

\* What the client has is its cursor; the reloaded copy is sent from there on.
Beyond(events, cursor) == SubSeq(events, cursor + 1, Len(events))

Emit ==
  /\ stream.pc = "emit"
  /\ LET record == Restored(hub[stream.replica], Stored, stream.seen)
     IN  /\ hub' = [hub EXCEPT ![stream.replica] = record]
         /\ stream' = IF life /= "fresh" THEN Gone
                      ELSE [stream EXCEPT !.got = @ \o Beyond(record.events, Len(@)), !.seen = "queued",
                                          !.pc = IF record.state \in Ended THEN "closed" ELSE "loop"]
  /\ UNCHANGED <<rows, start, cancelDue, probe, engine, handler, told, counts>>

Disconnect ==
  /\ stream.pc \notin {"off", "closed", "gone"}
  /\ Spend
  /\ stream' = [NoStream EXCEPT !.got = stream.got]
  /\ UNCHANGED <<rows, hub, start, cancelDue, probe, engine, handler, told, requests, waits>>

-----------------------------------------------------------------------------
\* A replica restarts: its memory and the requests it was serving are gone.
Restart(r) ==
  /\ hub[r].here
  /\ Spend
  /\ hub' = [hub EXCEPT ![r] = NoRecord]
  /\ handler' = [h \in Handlers |-> IF handler[h].replica = r THEN Idle ELSE handler[h]]
  /\ engine' = [engine EXCEPT !.call = IF @ \in Handlers /\ handler[@].replica = r THEN "none" ELSE @]
  /\ stream' = IF stream.replica = r /\ stream.pc \notin {"closed", "gone"}
               THEN [NoStream EXCEPT !.got = stream.got] ELSE stream
  /\ UNCHANGED <<rows, start, cancelDue, probe, told, requests, waits>>

\* The delivery worker dies: its lease runs out.
LoseStart ==
  /\ start.pc \notin {"pending", "done"}
  /\ Spend
  /\ start' = [start EXCEPT !.pc = "pending", !.fatal = FALSE]
  /\ UNCHANGED <<rows, hub, cancelDue, probe, engine, handler, told, stream, requests, waits>>

-----------------------------------------------------------------------------
(* Retention: an invocation expires a day after its admission.                *)

Expire ==
  /\ life = "fresh"
  /\ Spend
  /\ life' = "expired"
  /\ UNCHANGED <<state, bound, log, hub, start, cancelDue, probe, engine, handler, told, stream,
                 requests, waits>>

\* PurgeExpiredAITransients: whatever its state.  An applied proposal keeps it.
Purge ==
  /\ life = "expired"
  /\ life' = "purged"
  /\ UNCHANGED <<state, bound, log, hub, start, cancelDue, probe, engine, handler, told, stream,
                 counts>>

-----------------------------------------------------------------------------
HandlerStep(h) ==
  \/ Activate(h) \/ Event(h) \/ Complete(h)
  \/ AppendEvent(h) \/ AppendFails(h) \/ Touch(h)
  \/ Revoke(h) \/ StopRuntime(h)

StartStep == ClaimStart \/ Submit \/ MarkDispatched \/ CheckActivation \/ FailStart

EngineStep == GiveUp \/ \E h \in Handlers, r \in Replicas : Send(h, r)

ProbeStep == Reconcile \/ Observe \/ RecordStatus

ClientStep ==
  \/ LoadRow \/ StreamState \/ LoadEvents \/ Interrupt \/ Emit
  \/ \E r \in Replicas : Connect(r)

Next ==
  \/ \E h \in Handlers, r \in Replicas : Cancel(h, r)
  \/ \E h \in Handlers : HandlerStep(h)
  \/ \E r \in Replicas : Restart(r)
  \/ EngineStep \/ Timeout \/ EngineLost
  \/ CancelSpace \/ DeliverCancel
  \/ Park \/ Resume
  \/ StartStep \/ LoseStart
  \/ ProbeStep
  \/ ClientStep \/ Disconnect
  \/ Expire \/ Purge

Spec == Init /\ [][Next]_vars

\* Requests are served, the client reconnects, and the delivery loop comes round:
\* a start, a stop and a silent workflow are attended to.  Nothing makes a wait end.
Fairness ==
  /\ \A h \in Handlers : WF_vars(HandlerStep(h))
  /\ WF_vars(EngineStep) /\ WF_vars(ClientStep)
  /\ WF_vars(StartStep) /\ WF_vars(DeliverCancel) /\ WF_vars(ProbeStep)

FairSpec == Spec /\ Fairness

-----------------------------------------------------------------------------
\* The states of the model are the states of the tables, the memory and the
\* processes it stands for.
InvTypeOK ==
  /\ state \in States /\ bound \in BOOLEAN /\ log \in Seq(Events)
  /\ life \in {"fresh", "expired", "purged"}
  /\ hub \in [Replicas -> [here : BOOLEAN, events : Seq(Events), state : States]]
  /\ start \in [pc : {"pending", "starting", "started", "unstarted", "failing", "done"},
                 attempts : Nat, fatal : BOOLEAN]
  /\ cancelDue \in BOOLEAN
  /\ probe \in [pc : {"none", "queued", "observed"}, stopped : BOOLEAN, late : BOOLEAN]
  /\ engine \in [pc : {"none", "lost", "activate", "work", "parked", "complete", "ended", "refused"},
                  status : Statuses \cup {"none"}, call : Handlers \cup {"none"}]
  /\ handler \in [Handlers -> [pc : {"idle", "begin", "append", "touch", "revoke", "stop"},
                                kind : {"none", "activate", "work", "complete", "cancel"},
                                replica : Replicas \cup {"none"},
                                status : Statuses \cup {"none", "ended", "bound", "unbound", "lost"},
                                todo : Seq(Events)]]
  /\ told \in {"nothing", "stopped", "not persisted", "failed"}
  /\ stream \in [pc : {"off", "row", "state", "events", "interrupt", "loop", "emit", "closed", "gone"},
                  replica : Replicas \cup {"none"}, seen : States, bound : BOOLEAN, got : Seq(Events)]
  /\ requests \in 0 .. MaxRequests /\ waits \in 0 .. MaxWaits /\ faults \in 0 .. MaxFaults

\* The stream of a client is what InvocationStream promises, whatever replica
\* serves it and however often it reconnects.
EndingsOf == [completed |-> {"completed"}, canceled |-> {"canceled"},
              failed |-> {"failed", "interrupted", "undelivered", "reconciled"}]
Promise == INSTANCE InvocationStream WITH
             outcome <- IF state \in Ended THEN state ELSE "none",
             received <- stream.got, closed <- (stream.pc = "closed")
StreamIsAsPromised == Promise!Spec

\* A workflow that has finished has had its result recorded: its completion is
\* acknowledged, and it is told to stop, only when the invocation has ended.
FinishedIsRecorded == engine.pc = "ended" => state \in Ended

\* A callback that is repeated after a lost reply is not recorded twice.
RepeatsAreRecordedOnce ==
  \A i, j \in DOMAIN log : log[i] = log[j] /\ log[i] \in Receipted => i = j

\* A run that is under way ends, whatever becomes of its workflow, unless it is
\* left waiting for an answer or its record is purged first; and the client of a
\* run that has ended gets to the end of the stream, or is told, once the record
\* has expired, that there is nothing to follow.
Settled ==
  /\ state \in Active => engine.pc = "parked" \/ ~Present
  /\ state \in Ended => stream.pc = "closed" \/ (stream.pc = "gone" /\ life /= "fresh")
RunSettles == []<>Settled

\* Reconnecting "must not convert an active run into a failure merely because
\* the in-memory hub was rebuilt" (ai_invocations.go:344).
ReconnectKeepsRun == Logged("interrupted") => ~bound

\* A user is told that the stop request "could not" be persisted only when it
\* was not (ai_invocations.go:432).
StopReplyIsTrue == told = "not persisted" => state /= "canceled"

\* The row of a run whose workflow waits says so: CommitAIInvocationEvent takes
\* the state an event names whatever the row says, and a resumption asks for a
\* waiting row.
ParkedIsAwaiting == engine.pc = "parked" /\ state \in Active => state = "awaiting"

\* A run that is dispatched leaves the queue: only rows that were activated are
\* looked after (ai_runtime_recovery.go:19).
DispatchedIsActivated == bound ~> (state /= "queued" \/ ~Present)
=============================================================================
