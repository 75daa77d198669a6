---------------------------- MODULE ToolJournal ----------------------------
(* The journal that stands between an agent run and the tools it calls:       *)
(* JournalAgentToolboxAction (postgres/agent_toolbox_action_journal.go).  A   *)
(* call is claimed in one transaction, executed outside any transaction and   *)
(* recorded in a second one.  The process may die, and the second transaction *)
(* may fail, anywhere in between.  The model follows one run of one user; a   *)
(* logical call keeps its identity over every delivery, while its arguments   *)
(* are whatever the runtime sends this time.                                  *)
EXTENDS Naturals, FiniteSets

CONSTANTS Calls,     \* logical calls of the run (request ids)
          Args,      \* arguments a delivery may carry
          Workers,   \* requests being served at the same time
          Reads,     \* calls of a read-only tool
          Redacted,  \* calls whose result is stored encrypted (MCP, SDK)
          Settled,   \* calls that require a settled run
          Legacy,    \* completed rows <<call, args>> of the older key scheme
          MaxEffects \* bound: executions of one call that are told apart

ASSUME CallsAssumption ==
  /\ Reads \subseteq Calls
  /\ Redacted \subseteq Calls
  /\ Settled \subseteq Calls
  /\ Legacy \subseteq Calls \X Args
  /\ MaxEffects \in Nat \ {0}

VARIABLES rows,      \* agent_toolbox_action_journal, by key
          served,    \* what each worker is doing
          effects,   \* how often each call really took effect
          run,       \* state of the run row
          verdict    \* the completion handler: what its check has seen

journalVars == <<rows, served, effects, run, verdict>>

v2 == "toolbox:v2"

\* A key is <<call, v2>>, or <<call, args>> in the older scheme.
Keys == Calls \X ({v2} \cup Args)

Absent == [state |-> "absent", code |-> "", args |-> v2]
Row(s, c, a) == [state |-> s, code |-> c, args |-> a]
States == {"absent", "started", "completed", "failed", "unknown"}
Codes == {"", "tool_not_attempted", "tool_execution_failed", "tool_outcome_unknown"}
Answers == {"none", "result", "unknown", "terminal", "in_progress", "conflict", "pending"}
Outcomes == {"none", "ok", "error", "not_attempted"}

NoKey == <<"", "">>

\* A worker that is done remembers the answer it gave and the call of a result.
Idle(k, answer) ==
  [pc |-> "idle", key |-> IF answer = "result" THEN k ELSE NoKey,
   args |-> v2, out |-> "none", answer |-> answer]

JournalTypeOK ==
  /\ rows \in [Keys -> [state : States, code : Codes, args : Args \cup {v2}]]
  /\ served \in [Workers -> [pc : {"idle", "executing", "executed"}, key : Keys \cup {NoKey},
                             args : Args \cup {v2}, out : Outcomes, answer : Answers]]
  /\ effects \in [Calls -> 0 .. MaxEffects]
  /\ run \in {"running", "waiting", "completed", "incomplete"}
  /\ verdict \in {"unchecked", "clean", "unconfirmed"}

JournalInit ==
  /\ rows = [k \in Keys |-> IF k \in Legacy THEN Row("completed", "", k[2]) ELSE Absent]
  /\ served = [w \in Workers |-> Idle(NoKey, "none")]
  /\ effects = [c \in Calls |-> IF \E a \in Args : <<c, a>> \in Legacy THEN 1 ELSE 0]
  /\ run = "running"
  /\ verdict = "unchecked"

-----------------------------------------------------------------------------
(* The claim transaction.                                                     *)

IsWrite(k) == k[1] \notin Reads

\* Rows of other calls whose effect is not confirmed: they block a settled call.
PendingEffects(k) ==
  {j \in Keys : /\ j /= k
                /\ IsWrite(j)
                /\ \/ rows[j].state \in {"started", "unknown"}
                   \/ rows[j].state = "failed" /\ rows[j].code /= "tool_not_attempted"}

\* The row the call uses: its own, else the one an older release wrote for it.
KeyOf(c, a) ==
  IF rows[<<c, v2>>].state = "absent" /\ rows[<<c, a>>].state /= "absent"
  THEN <<c, a>> ELSE <<c, v2>>

\* A failed call that is known not to have taken effect may be claimed again.
RetryableAnyFailure(k) == rows[k].state \in {"failed", "unknown"}
Retryable(k) ==
  /\ rows[k].state = "failed"
  /\ \/ rows[k].code = "tool_not_attempted"
     \/ k[1] \in Reads /\ k[1] \notin Redacted

\* What a row that is not claimed tells the caller; a result stored encrypted
\* may fail to be restored.
StoredAnswers(k) ==
  CASE rows[k].state = "completed" -> {"result"} \cup (IF k[1] \in Redacted THEN {"unknown"} ELSE {})
    [] rows[k].state = "unknown" -> {"unknown"}
    [] rows[k].state = "failed" -> {"terminal"}
    [] OTHER -> {"in_progress"}

\* Under RequireSettledRun the run row is locked and examined first.
SettledRefusalNone(c) == "none"
SettledRefusal(c) ==
  IF c \notin Settled THEN "none"
  ELSE IF run /= "running" THEN "conflict"
  ELSE IF PendingEffects(<<c, v2>>) /= {} THEN "pending"
  ELSE "none"

ClaimRefused(w, c, a) ==
  /\ SettledRefusal(c) /= "none"
  /\ served' = [served EXCEPT ![w] = Idle(<<c, v2>>, SettledRefusal(c))]
  /\ UNCHANGED <<rows, effects, run, verdict>>

Claimable(k, a) ==
  \/ rows[k].state = "absent"
  \/ rows[k].args = a /\ Retryable(k)

ClaimTaken(w, c, a) ==
  LET k == KeyOf(c, a) IN
  /\ SettledRefusal(c) = "none"
  /\ Claimable(k, a)
  /\ rows' = [rows EXCEPT ![k] = Row("started", "", a)]
  /\ served' = [served EXCEPT ![w] = [pc |-> "executing", key |-> k, args |-> a,
                                      out |-> "none", answer |-> "none"]]
  /\ UNCHANGED <<effects, run, verdict>>

\* An existing row: other arguments conflict, the rest is answered from the row.
ClaimAnswered(w, c, a) ==
  LET k == KeyOf(c, a) IN
  /\ SettledRefusal(c) = "none"
  /\ ~ Claimable(k, a)
  /\ \E answer \in IF rows[k].args /= a THEN {"conflict"} ELSE StoredAnswers(k) :
       served' = [served EXCEPT ![w] = Idle(k, answer)]
  /\ UNCHANGED <<rows, effects, run, verdict>>

ClaimCall(w, c, a) ==
  /\ served[w].pc = "idle"
  /\ ClaimRefused(w, c, a) \/ ClaimTaken(w, c, a) \/ ClaimAnswered(w, c, a)

-----------------------------------------------------------------------------
(* The tool itself, and the transaction that records its outcome.             *)

\* An error says nothing about the effect, unless the adapter proves that the
\* action was never dispatched.
Execute(w) ==
  /\ served[w].pc = "executing"
  /\ \E out \in {"ok", "error", "not_attempted"}, took \in {0, 1} :
       /\ out = "ok" => took = 1
       /\ out = "not_attempted" => took = 0
       /\ effects[served[w].key[1]] + took <= MaxEffects
       /\ effects' = [effects EXCEPT ![served[w].key[1]] = @ + took]
       /\ served' = [served EXCEPT ![w].pc = "executed", ![w].out = out]
  /\ UNCHANGED <<rows, run, verdict>>

RecordedRowTrusting(k, out, a) == Row("completed", "", a)
RecordedRow(k, out, a) ==
  CASE out = "ok" -> Row("completed", "", a)
    [] out = "not_attempted" -> Row("failed", "tool_not_attempted", a)
    [] out = "error" /\ IsWrite(k) -> Row("unknown", "tool_outcome_unknown", a)
    [] OTHER -> Row("failed", "tool_execution_failed", a)

Record(w) ==
  LET k == served[w].key IN
  /\ served[w].pc = "executed"
  /\ rows[k].state = "started"
  /\ rows' = [rows EXCEPT ![k] = RecordedRow(k, served[w].out, served[w].args)]
  /\ served' = [served EXCEPT ![w] =
       Idle(k, CASE served[w].out = "ok" -> "result"
                 [] served[w].out = "error" /\ IsWrite(k) -> "unknown"
                 [] OTHER -> "none")]
  /\ UNCHANGED <<effects, run, verdict>>

\* The result cannot be encrypted, or the second transaction fails or finds no
\* started row: the caller is told that the outcome is uncertain.
RecordLost(w) ==
  /\ served[w].pc = "executed"
  /\ served' = [served EXCEPT ![w] = Idle(served[w].key, "unknown")]
  /\ UNCHANGED <<rows, effects, run, verdict>>

Crash(w) ==
  /\ served[w].pc /= "idle"
  /\ served' = [served EXCEPT ![w] = Idle(served[w].key, "none")]
  /\ UNCHANGED <<rows, effects, run, verdict>>

-----------------------------------------------------------------------------
(* The run around the journal.                                                *)

Suspend ==
  /\ run = "running"
  /\ run' = "waiting"
  /\ UNCHANGED <<rows, served, effects, verdict>>

Resume ==
  /\ run = "waiting"
  /\ run' = "running"
  /\ UNCHANGED <<rows, served, effects, verdict>>

Unconfirmed == {k \in Keys : IsWrite(k) /\ rows[k].state \in {"started", "unknown", "failed"}}

\* The completion handler reads the journal in a transaction of its own ...
CheckEffects ==
  /\ run \in {"running", "waiting"}
  /\ verdict = "unchecked"
  /\ verdict' = IF Unconfirmed = {} THEN "clean" ELSE "unconfirmed"
  /\ UNCHANGED <<rows, served, effects, run>>

\* ... and ends the run in a later one.
EndRun ==
  /\ run \in {"running", "waiting"}
  /\ verdict /= "unchecked"
  /\ run' = IF verdict = "clean" THEN "completed" ELSE "incomplete"
  /\ UNCHANGED <<rows, served, effects, verdict>>

JournalStep(w) ==
  \/ \E c \in Calls, a \in Args : ClaimCall(w, c, a)
  \/ Execute(w)
  \/ Record(w)
  \/ RecordLost(w)
  \/ Crash(w)

JournalNext ==
  \/ \E w \in Workers : JournalStep(w)
  \/ Suspend \/ Resume \/ CheckEffects \/ EndRun

JournalSpec == JournalInit /\ [][JournalNext]_journalVars

-----------------------------------------------------------------------------

\* A mutation takes effect at most once, whatever is redelivered, whatever
\* dies between the effect and its record, and however the tool fails.
MutationsAtMostOnce == \A c \in Calls \ Reads : effects[c] <= 1

\* Of the writes of settled calls at most one is unconfirmed at any time: a
\* replanner cannot start a replacement while the original is uncertain.
OneUnconfirmedWrite ==
  \A j, k \in {x \in Unconfirmed : x[1] \in Settled} :
    rows[j].code /= "tool_not_attempted" /\ rows[k].code /= "tool_not_attempted" => j = k

\* A stored result, and every result a caller is given, stands for a call that
\* took effect.
ResultsAreReal ==
  /\ \A k \in Keys : rows[k].state = "completed" => effects[k[1]] >= 1
  /\ \A w \in Workers : served[w].answer = "result" => effects[served[w].key[1]] >= 1

\* What the comment on the v2 key promises: changed arguments conflict with
\* the effect of the logical call, they never allocate another mutation.
ChangedArgumentsConflict == MutationsAtMostOnce

\* What the completion check is there for: a run reported as completed has no
\* unconfirmed effect.
CompletedRunIsConfirmed == run = "completed" => Unconfirmed = {}
=============================================================================
