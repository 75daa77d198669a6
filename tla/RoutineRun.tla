----------------------------- MODULE RoutineRun -----------------------------
(* One admitted routine run: capability, agent and wait steps executed in     *)
(* order by an external runtime whose every move is admitted by the control   *)
(* plane (httpapi/routine_runtime.go, routine_agent_runtime.go,               *)
(* routine_wait_runtime.go; postgres/routine_runs.go, routine_agent_steps.go, *)
(* routine_timed_waits.go).  External effects go through the tool journal:    *)
(* the model extends ToolJournal, whose `run' is here the state of the        *)
(* ai_invocations row.  What a completion reports is evaluated outside the    *)
(* transaction that publishes it.                                             *)
EXTENDS ToolJournal

CONSTANTS NumSteps,     \* steps are 1 .. NumSteps, in order
          AgentSteps, WaitSteps,   \* the others are capability steps
          StepOf,       \* [Calls -> Steps]
          Skipped,      \* steps whose condition is false
          Broken,       \* steps whose condition or input cannot be evaluated
          PartialCalls, \* calls whose provider reports a partial outcome
          AllowPartial, \* steps that may go on after a partial outcome
          MaxTurns,     \* model turns an agent step may take
          Completers    \* requests and deliveries completing the run

Steps == 1 .. NumSteps

ASSUME StepsAssumption ==
  /\ NumSteps \in Nat \ {0} /\ MaxTurns \in Nat \ {0}
  /\ AgentSteps \cap WaitSteps = {}
  /\ StepOf \in [Calls -> Steps \ WaitSteps]
  /\ \A s \in Steps \ (AgentSteps \cup WaitSteps) : \E c \in Calls : StepOf[c] = s
  /\ Settled = Calls   \* every SDK capability call requires a settled run

VARIABLES checkpoint,  \* misty_routine_agent_steps.state
          admitted,    \* misty_routine_agent_calls
          turns,       \* model turns claimed, and those with a usage receipt
          waits,       \* misty_routine_waits.state
          clock,       \* where the wall clock is with respect to each wait
          cancelRequested,
          outcome,     \* misty_routine_runs.outcome
          auth,        \* the call each worker has been authorized for
          finishing,   \* an agent step being finished: what was evaluated
          completing   \* completions under way: what each has evaluated

routineVars == <<checkpoint, admitted, turns, waits, clock, cancelRequested, outcome,
                 auth, finishing, completing>>
allVars == <<journalVars, routineVars>>

Terminal == {"completed", "failed", "canceled"}
StepStates == {"completed", "partial", "uncertain", "failed", "skipped", "not_run"}
NotFinishing == [step |-> 0, state |-> "none", calls |-> 0, turns |-> 0]
NotCompleting == [pc |-> "idle", todo |-> {}, asCancel |-> FALSE, state |-> "none",
                  seal |-> NotFinishing]

RoutineTypeOK ==
  /\ rows \in [Keys -> [state : States, code : Codes, args : Args \cup {v2}]]
  /\ run \in {"queued", "running", "awaiting_approval", "awaiting_timer"} \cup Terminal
  /\ checkpoint \in [AgentSteps -> {"pending", "running", "completed", "failed", "partial", "uncertain"}]
  /\ admitted \subseteq Calls
  /\ turns \in [AgentSteps -> [claimed : 0 .. MaxTurns, finished : 0 .. MaxTurns]]
  /\ waits \in [WaitSteps -> {"pending", "waiting", "completed", "expired", "cancelled"}]
  /\ clock \in [WaitSteps -> {"early", "due", "late"}]
  /\ cancelRequested \in BOOLEAN
  /\ outcome \in {"", "completed", "partial", "failed", "uncertain", "cancelled"}
  /\ auth \in [Workers -> Calls \cup {"none"}]
  /\ finishing.step \in AgentSteps \cup {0}
  /\ \A p \in Completers : completing[p].pc \in {"idle", "recovering", "evaluated"} /\ completing[p].seal.step \in AgentSteps \cup {0}

RoutineInit ==
  /\ rows = [k \in Keys |-> Absent]
  /\ served = [w \in Workers |-> Idle(NoKey, "none")]
  /\ effects = [c \in Calls |-> 0]
  /\ run = "queued"
  /\ verdict = "unchecked"
  /\ checkpoint = [s \in AgentSteps |-> "pending"]
  /\ admitted = {}
  /\ turns = [s \in AgentSteps |-> [claimed |-> 0, finished |-> 0]]
  /\ waits = [s \in WaitSteps |-> "pending"]
  /\ clock = [s \in WaitSteps |-> "early"]
  /\ cancelRequested = FALSE
  /\ outcome = ""
  /\ auth = [w \in Workers |-> "none"]
  /\ finishing = NotFinishing
  /\ completing = [p \in Completers |-> NotCompleting]

-----------------------------------------------------------------------------
(* evaluateRoutinePlan: the evidence in the journal, the checkpoints and the  *)
(* waits decides how far the routine has come.                                *)

RowOf(c) == rows[<<c, v2>>].state
CallOf(s) == CHOOSE c \in Calls : StepOf[c] = s
CallsOf(s) == {c \in admitted : StepOf[c] = s}

Receipt(s) ==
  CASE s \in AgentSteps -> checkpoint[s]
    [] s \in WaitSteps -> waits[s]
    [] OTHER -> RowOf(CallOf(s))

\* What the evidence says about a step, were the steps before it done.
StepVerdict(s) ==
  IF s \in Broken THEN "failed"
  ELSE IF s \in Skipped THEN "skipped"
  ELSE CASE Receipt(s) \in {"absent", "pending", "waiting", "running"} -> "not_run"
         [] Receipt(s) \in {"started", "unknown", "uncertain"} -> "uncertain"
         [] Receipt(s) = "partial" -> "partial"
         [] Receipt(s) = "completed" ->
              IF s \notin (AgentSteps \cup WaitSteps) /\ CallOf(s) \in PartialCalls
              THEN "partial" ELSE "completed"
         [] OTHER -> "failed"

GoesOn(s) ==
  \/ StepVerdict(s) \in {"skipped", "completed"}
  \/ StepVerdict(s) = "partial" /\ s \notin AgentSteps /\ s \in AllowPartial

Reached(s) == \A t \in 1 .. (s - 1) : GoesOn(t)
StopsAt(s) == Reached(s) /\ ~ GoesOn(s)
NextStepAnywhere(s) == StepVerdict(s) = "not_run"
NextStep(s) == StopsAt(s) /\ StepVerdict(s) = "not_run"

\* A step that was done is replayed, never executed again.
Replays(s) == Reached(s) /\ s \notin Skipped \cup Broken /\ Receipt(s) = "completed"

SomethingDone == \E s \in Steps : Replays(s)

ReportState ==
  LET stop == {s \in Steps : StopsAt(s)} IN
  IF stop = {} THEN IF \E s \in Steps : StepVerdict(s) = "partial" THEN "partial" ELSE "completed"
  ELSE LET s == CHOOSE x \in stop : TRUE IN
       IF StepVerdict(s) \in {"uncertain", "partial"} THEN StepVerdict(s)
       ELSE IF SomethingDone THEN "partial" ELSE "failed"

-----------------------------------------------------------------------------
(* Tool calls of the runtime.                                                 *)

Activate ==
  /\ run = "queued"
  /\ run' = "running"
  /\ UNCHANGED <<rows, served, effects, verdict, routineVars>>

\* The run lock every checkpoint transaction takes.
RunLocked(allowWait) ==
  ~ cancelRequested /\ run \in {"running"} \cup (IF allowWait THEN {"awaiting_approval"} ELSE {})

\* authorizeRoutineCall; a call of an agent step is admitted by name here.
AuthorizeRoutineCall(w, c) ==
  LET s == StepOf[c] IN
  /\ served[w].pc = "idle" /\ auth[w] = "none"
  /\ run \in {"running", "awaiting_approval", "awaiting_timer"} /\ ~ cancelRequested /\ outcome = ""
  /\ NextStep(s) \/ Replays(s)
  /\ IF s \in AgentSteps
     THEN /\ RunLocked(TRUE)
          /\ c \in admitted \/ (NextStep(s) /\ checkpoint[s] = "running" /\ RunLocked(FALSE))
          /\ admitted' = admitted \cup {c}
     ELSE UNCHANGED admitted
  /\ auth' = [auth EXCEPT ![w] = c]
  /\ UNCHANGED <<journalVars, checkpoint, turns, waits, clock, cancelRequested, outcome,
                 finishing, completing>>

\* The part of the claim transaction that is about routines: no claim after a
\* cancellation request, and a closed agent step only replays a confirmed effect.
EffectClaimRefused(c) ==
  \/ cancelRequested
  \/ StepOf[c] \in AgentSteps /\ checkpoint[StepOf[c]] /= "running" /\ RowOf(c) /= "completed"

ClaimEffect(w, a) ==
  /\ auth[w] /= "none"
  /\ IF EffectClaimRefused(auth[w]) THEN UNCHANGED journalVars ELSE ClaimCall(w, auth[w], a)
  /\ auth' = [auth EXCEPT ![w] = "none"]
  /\ UNCHANGED <<checkpoint, admitted, turns, waits, clock, cancelRequested, outcome,
                 finishing, completing>>

ServeEffect(w) ==
  /\ Execute(w) \/ Record(w) \/ RecordLost(w) \/ Crash(w)
  /\ UNCHANGED routineVars

\* An SDK approval suspends the run and its decision resumes it.
Approval ==
  /\ run \in {"running", "awaiting_approval"}
  /\ run' = IF run = "running" THEN "awaiting_approval" ELSE "running"
  /\ UNCHANGED <<rows, served, effects, verdict, routineVars>>

-----------------------------------------------------------------------------
(* Agent steps.                                                               *)

OpenRoutineAgent(s) ==
  /\ RunLocked(FALSE) /\ outcome = ""
  /\ NextStep(s) /\ checkpoint[s] = "pending"
  /\ checkpoint' = [checkpoint EXCEPT ![s] = "running"]
  /\ UNCHANGED <<journalVars, admitted, turns, waits, clock, cancelRequested, outcome, auth,
                 finishing, completing>>

\* Turns are claimed one by one, each after the usage of the last is known.
ReserveModelTurn(s) ==
  /\ RunLocked(FALSE) /\ outcome = ""
  /\ NextStep(s) /\ checkpoint[s] = "running"
  /\ turns[s].claimed = turns[s].finished /\ turns[s].claimed < MaxTurns
  /\ turns' = [turns EXCEPT ![s].claimed = @ + 1]
  /\ UNCHANGED <<journalVars, checkpoint, admitted, waits, clock, cancelRequested, outcome,
                 auth, finishing, completing>>

RecordRoutineModelUsage(s) ==
  /\ turns[s].finished < turns[s].claimed
  /\ turns' = [turns EXCEPT ![s].finished = @ + 1]
  /\ UNCHANGED <<journalVars, checkpoint, admitted, waits, clock, cancelRequested, outcome,
                 auth, finishing, completing>>

\* evaluateRoutineAgentResult: the receipts overrule what the model reports.
AgentVerdict(s, reported, recovery) ==
  LET done == {c \in CallsOf(s) : RowOf(c) = "completed"} IN
  IF reported = "uncertain" \/ \E c \in CallsOf(s) : RowOf(c) \in {"started", "unknown"}
  THEN "uncertain"
  ELSE IF done \cap PartialCalls /= {} THEN "partial"
  ELSE IF /\ ~ recovery /\ reported = "completed" /\ done = CallsOf(s)
          /\ turns[s].claimed = turns[s].finished /\ turns[s].claimed > 0
  THEN "completed"
  ELSE IF done /= {} THEN "partial" ELSE "failed"

EvaluateRoutineAgent(s) ==
  /\ run = "running" /\ ~ cancelRequested /\ outcome = ""
  /\ NextStep(s) /\ checkpoint[s] = "running" /\ finishing = NotFinishing
  /\ \E reported \in {"completed", "failed", "uncertain"} :
       finishing' = [step |-> s, state |-> AgentVerdict(s, reported, FALSE),
                     calls |-> Cardinality(CallsOf(s)), turns |-> turns[s].claimed]
  /\ UNCHANGED <<journalVars, checkpoint, admitted, turns, waits, clock, cancelRequested,
                 outcome, auth, completing>>

\* FinishRoutineAgent: the evidence is counted again under the run lock.
AgentEvidenceHoldsUnchecked(s, state, calls, n) == TRUE
AgentEvidenceHolds(s, state, calls, n) ==
  /\ calls = Cardinality(CallsOf(s))
  /\ state = "completed" =>
       /\ n = turns[s].claimed /\ turns[s].finished = turns[s].claimed
       /\ \A c \in CallsOf(s) : RowOf(c) = "completed"

FinishRoutineAgent ==
  LET f == finishing IN
  /\ f.step /= 0
  /\ finishing' = NotFinishing
  /\ checkpoint' =
       IF /\ RunLocked(FALSE) /\ checkpoint[f.step] = "running"
          /\ AgentEvidenceHolds(f.step, f.state, f.calls, f.turns)
       THEN [checkpoint EXCEPT ![f.step] = f.state] ELSE checkpoint
  /\ UNCHANGED <<journalVars, admitted, turns, waits, clock, cancelRequested, outcome, auth,
                 completing>>

-----------------------------------------------------------------------------
(* Timed waits.                                                               *)

WaitRunLocked == ~ cancelRequested /\ run \notin Terminal \cup {"queued"}

\* Opening a wait suspends the run, unless its time has already come.
OpenRoutineWait(s) ==
  /\ WaitRunLocked /\ outcome = "" /\ run = "running"
  /\ NextStep(s) /\ waits[s] = "pending"
  /\ \A k \in Keys : rows[k].state \notin {"started", "unknown"}
  /\ IF clock[s] = "early"
     THEN waits' = [waits EXCEPT ![s] = "waiting"] /\ run' = "awaiting_timer"
     ELSE waits' = [waits EXCEPT ![s] = "completed"] /\ run' = run
  /\ UNCHANGED <<rows, served, effects, verdict, checkpoint, admitted, turns, clock,
                 cancelRequested, outcome, auth, finishing, completing>>

\* A wake-up is an observation: the clock of the control plane decides.
WakeState(s) == CASE clock[s] = "early" -> "waiting" [] clock[s] = "due" -> "completed"
                  [] OTHER -> "expired"

ResumeRoutineWait(s) ==
  /\ WaitRunLocked /\ outcome = ""
  /\ NextStep(s) /\ waits[s] = "waiting" /\ run = "awaiting_timer"
  /\ waits' = [waits EXCEPT ![s] = WakeState(s)]
  /\ run' = IF WakeState(s) = "waiting" THEN run ELSE "running"
  /\ UNCHANGED <<rows, served, effects, verdict, checkpoint, admitted, turns, clock,
                 cancelRequested, outcome, auth, finishing, completing>>

\* The sweep expires a wait nobody woke, and asks for the run's cancellation.
ExpireRoutineWait(s) ==
  /\ run = "awaiting_timer" /\ waits[s] = "waiting" /\ clock[s] = "late"
  /\ waits' = [waits EXCEPT ![s] = "expired"]
  /\ cancelRequested' = TRUE
  /\ UNCHANGED <<journalVars, checkpoint, admitted, turns, clock, outcome, auth, finishing,
                 completing>>

Tick(s) ==
  /\ clock[s] /= "late"
  /\ clock' = [clock EXCEPT ![s] = IF @ = "early" THEN "due" ELSE "late"]
  /\ UNCHANGED <<journalVars, checkpoint, admitted, turns, waits, cancelRequested, outcome,
                 auth, finishing, completing>>

-----------------------------------------------------------------------------
(* Cancellation and completion.                                               *)

RequestRoutineCancellation ==
  /\ run \notin Terminal
  /\ cancelRequested' = TRUE
  /\ IF run = "queued" THEN run' = "canceled" /\ outcome' = "cancelled"
                       ELSE UNCHANGED <<run, outcome>>
  /\ UNCHANGED <<rows, served, effects, verdict, checkpoint, admitted, turns, waits, clock,
                 auth, finishing, completing>>

\* completeRoutine is called by the runtime's own completion (also a late or
\* repeated one), by the delivery of a cancellation, and when the engine is
\* found stopped, which it may report as cancelled.
CompleteRoutine(p, asCancel) ==
  /\ completing[p].pc = "idle" /\ outcome = "" /\ run /= "queued"
  /\ completing' = [completing EXCEPT ![p] =
       [NotCompleting EXCEPT !.pc = "recovering", !.asCancel = asCancel \/ cancelRequested,
                             !.todo = {s \in AgentSteps : checkpoint[s] = "running"}]]
  /\ UNCHANGED <<journalVars, checkpoint, admitted, turns, waits, clock, cancelRequested,
                 outcome, auth, finishing>>

\* The start could not be delivered: the invocation fails, then completes.
StartUndeliverable(p) ==
  /\ completing[p].pc = "idle" /\ run = "queued"
  /\ run' = "failed"
  /\ completing' = [completing EXCEPT ![p] = [NotCompleting EXCEPT !.pc = "recovering"]]
  /\ UNCHANGED <<rows, served, effects, verdict, checkpoint, admitted, turns, waits, clock,
                 cancelRequested, outcome, auth, finishing>>

\* Steps still running are sealed by what their receipts show, and again the
\* evidence is read before the transaction that stores the verdict.
RecoverRoutineAgent(p, s) ==
  /\ completing[p].pc = "recovering" /\ s \in completing[p].todo
  /\ completing[p].seal = NotFinishing
  /\ completing' = [completing EXCEPT ![p].seal =
       [step |-> s, state |-> AgentVerdict(s, "failed", TRUE),
        calls |-> Cardinality(CallsOf(s)), turns |-> turns[s].claimed]]
  /\ UNCHANGED <<journalVars, checkpoint, admitted, turns, waits, clock, cancelRequested,
                 outcome, auth, finishing>>

\* A call admitted meanwhile makes the completion fail: it is tried again later.
SealRoutineAgent(p) ==
  LET f == completing[p].seal
      stale == checkpoint[f.step] = "running" /\ ~ AgentEvidenceHolds(f.step, f.state, f.calls, f.turns)
  IN
  /\ f.step /= 0
  /\ completing' = [completing EXCEPT ![p] =
       IF stale THEN NotCompleting
       ELSE [completing[p] EXCEPT !.todo = completing[p].todo \ {f.step}, !.seal = NotFinishing]]
  /\ checkpoint' = IF checkpoint[f.step] = "running" /\ ~ stale
                   THEN [checkpoint EXCEPT ![f.step] = f.state] ELSE checkpoint
  /\ UNCHANGED <<journalVars, admitted, turns, waits, clock, cancelRequested, outcome, auth,
                 finishing>>

EvaluateReport(p) ==
  LET expired == \E s \in WaitSteps : waits[s] = "expired" IN
  /\ completing[p].pc = "recovering" /\ completing[p].todo = {}
  /\ completing' = [completing EXCEPT ![p].pc = "evaluated", ![p].state =
       IF ~ expired /\ completing[p].asCancel /\ ReportState = "failed" THEN "cancelled" ELSE ReportState]
  /\ UNCHANGED <<journalVars, checkpoint, admitted, turns, waits, clock, cancelRequested,
                 outcome, auth, finishing>>

InFlight == {k \in Keys : rows[k].state \in {"started", "unknown"}}

\* "completed" is published only when the journal holds exactly the confirmed
\* effects of the steps that were not skipped.
CompletionConfirmed ==
  /\ \A s \in Steps \ Skipped : Receipt(s) = "completed"
  /\ \A c \in Calls : RowOf(c) /= "absent" =>
       RowOf(c) = "completed" /\ StepOf[c] \notin Skipped
                              /\ (StepOf[c] \in AgentSteps => c \in admitted)

\* PublishRoutineCompletion, under the run lock that claims take too.
PublishedOutcomeAsEvaluated(state) == state
PublishedOutcome(state) == IF InFlight /= {} THEN "uncertain" ELSE state

NotPublished == outcome = ""

\* The state of the invocation that goes with an outcome.
StateOf(o) == CASE o = "completed" -> "completed" [] o = "cancelled" -> "canceled" [] OTHER -> "failed"

PublishRoutineCompletion(p) ==
  LET o == PublishedOutcome(completing[p].state)
      published == NotPublished /\ (o = "completed" => CompletionConfirmed)
  IN
  /\ completing[p].pc = "evaluated"
  /\ completing' = [completing EXCEPT ![p] = NotCompleting]
  /\ IF published
     THEN /\ outcome' = o
          /\ run' = StateOf(o)
          /\ waits' = [s \in WaitSteps |-> IF waits[s] = "waiting" THEN "cancelled" ELSE waits[s]]
     ELSE UNCHANGED <<outcome, run, waits>>
  /\ UNCHANGED <<rows, served, effects, verdict, checkpoint, admitted, turns, clock,
                 cancelRequested, auth, finishing>>

CrashCompletion(p) ==
  /\ completing[p].pc /= "idle"
  /\ completing' = [completing EXCEPT ![p] = NotCompleting]
  /\ UNCHANGED <<journalVars, checkpoint, admitted, turns, waits, clock, cancelRequested,
                 outcome, auth, finishing>>

-----------------------------------------------------------------------------

RoutineNext ==
  \/ Activate \/ Approval \/ FinishRoutineAgent \/ RequestRoutineCancellation
  \/ \E w \in Workers :
       \/ \E c \in Calls : AuthorizeRoutineCall(w, c)
       \/ \E a \in Args : ClaimEffect(w, a)
       \/ ServeEffect(w)
  \/ \E s \in AgentSteps :
       \/ OpenRoutineAgent(s) \/ ReserveModelTurn(s) \/ RecordRoutineModelUsage(s)
       \/ EvaluateRoutineAgent(s)
       \/ \E p \in Completers : RecoverRoutineAgent(p, s)
  \/ \E s \in WaitSteps :
       OpenRoutineWait(s) \/ ResumeRoutineWait(s) \/ ExpireRoutineWait(s) \/ Tick(s)
  \/ \E p \in Completers :
       \/ \E asCancel \in BOOLEAN : CompleteRoutine(p, asCancel)
       \/ StartUndeliverable(p) \/ SealRoutineAgent(p) \/ EvaluateReport(p) \/ PublishRoutineCompletion(p)
       \/ CrashCompletion(p)

RoutineSpec == RoutineInit /\ [][RoutineNext]_allVars

-----------------------------------------------------------------------------

\* The label "completed" is only ever on a run all of whose steps are done and
\* whose every journalled call is confirmed and really took effect, now and for
\* ever after: a late delivery cannot add an effect behind a published success.
\* Nor is it on an agent step with a call that is not confirmed, however the
\* evaluation of the step raced with its own calls.
SuccessIsConfirmed ==
  /\ outcome = "completed" =>
       /\ \A c \in Calls : IF effects[c] = 0 THEN RowOf(c) = "absent" ELSE RowOf(c) = "completed"
       /\ \A s \in Steps \ Skipped : Receipt(s) = "completed"
  /\ \A s \in AgentSteps : checkpoint[s] = "completed" => \A c \in CallsOf(s) : RowOf(c) = "completed"

\* An action in flight is never published as a cancellation or a failure, and
\* none starts once the outcome is public.
InFlightIsUncertain == InFlight /= {} /\ outcome /= "" => outcome = "uncertain"

\* A step is executed only when every step before it is done, a timed wait not
\* before its time: an effect of a later step never exists without those of the
\* earlier ones, however often and however early a timer wakes the run.
StepsInOrder ==
  /\ \A c \in Calls : RowOf(c) /= "absent" => Reached(StepOf[c])
  /\ \A s \in WaitSteps : waits[s] = "completed" => clock[s] /= "early"

\* What the comment on PublishRoutineCompletion promises of a cancellation
\* label: no action that was under way ends up, confirmed, behind it.
CancelledMeansNothingDone == outcome = "cancelled" => \A c \in Calls : RowOf(c) /= "completed"
=============================================================================
