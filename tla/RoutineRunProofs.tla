-------------------------- MODULE RoutineRunProofs --------------------------
(* Proofs about the tool journal and the routines that run on top of it.      *)
EXTENDS RoutineRun, TLAPS

-----------------------------------------------------------------------------
(* The journal.  Its invariant says who may still change what: a started row  *)
(* is held by at most one request, a row of the older key scheme is never     *)
(* claimed, and a write whose row is claimable has not taken effect.  `old'   *)
(* are the calls that an older release has left a completed row for.          *)

JournalTypes ==
  /\ rows \in [Keys -> [state : States, code : Codes, args : Args \cup {v2}]]
  /\ served \in [Workers -> [pc : {"idle", "executing", "executed"}, key : Keys \cup {NoKey},
                             args : Args \cup {v2}, out : Outcomes, answer : Answers]]
  /\ effects \in [Calls -> 0 .. MaxEffects]

HoldsStartedRow(w) ==
  /\ served[w].key \in Keys /\ served[w].key[2] = v2
  /\ rows[served[w].key].state = "started" /\ rows[served[w].key].code = ""
  /\ served[w].answer = "none"
  /\ served[w].args \in Args
  /\ served[w].pc = "executed" => served[w].out /= "none"

HoldersHoldStartedRows == \A w \in Workers : served[w].pc /= "idle" => HoldsStartedRow(w)

OneHolder ==
  \A v, w \in Workers :
    served[v].pc /= "idle" /\ served[w].pc /= "idle" /\ served[v].key = served[w].key => v = w

OldKeysFixed == \A k \in Keys : k[2] /= v2 => rows[k].state \in {"absent", "completed"}

AnswersStored ==
  \A w \in Workers : served[w].answer = "result" =>
    served[w].key \in Keys /\ rows[served[w].key].state = "completed"

EffectsBehind ==
  /\ \A k \in Keys : rows[k].state = "completed" => effects[k[1]] >= 1
  /\ \A w \in Workers : served[w].pc = "executed" /\ served[w].out = "ok" =>
       effects[served[w].key[1]] >= 1

\* The request holds the call's row and has certainly not caused its effect.
YetToAct(w, c) ==
  /\ served[w].pc /= "idle" /\ served[w].key = <<c, v2>>
  /\ served[w].pc = "executing" \/ served[w].out = "not_attempted"

NoEffectYet(c) ==
  \/ rows[<<c, v2>>].state \in {"absent", "failed"}
  \/ \E w \in Workers : YetToAct(w, c)

Untouched(old) ==
  \A c \in Calls \ old :
    /\ rows[<<c, v2>>].state = "absent" => effects[c] = 0
    /\ c \notin Reads => effects[c] <= 1 /\ (NoEffectYet(c) => effects[c] = 0)

JournalInv(old) ==
  /\ JournalTypes
  /\ HoldersHoldStartedRows
  /\ OneHolder
  /\ OldKeysFixed
  /\ AnswersStored
  /\ EffectsBehind
  /\ Untouched(old)
  /\ OneUnconfirmedWrite

LegacyCalls == {c \in Calls : \E a \in Args : <<c, a>> \in Legacy}

\* A key is a pair of a call and the rest.
LEMMA KeyParts == \A k \in Keys : k[1] \in Calls /\ k = <<k[1], k[2]>>
BY DEF Keys

\* A request that leaves the journal alone and only gives its answer: a result
\* is given from a completed row.
LEMMA AnswerKeepsJournal ==
  ASSUME NEW old, JournalInv(old), NEW w \in Workers, NEW k \in Keys \cup {NoKey},
         NEW answer \in Answers,
         answer = "result" => k \in Keys /\ rows[k].state = "completed",
         served' = [served EXCEPT ![w] = Idle(k, answer)],
         UNCHANGED <<rows, effects>>
  PROVE  JournalInv(old)'
<1>0. Idle(k, answer) \in [pc : {"idle", "executing", "executed"}, key : Keys \cup {NoKey},
                           args : Args \cup {v2}, out : Outcomes, answer : Answers]
  BY DEF Idle, Outcomes
<1>1. JournalTypes'
  BY <1>0 DEF JournalInv, JournalTypes
<1>2. \A u \in Workers : u /= w => served'[u] = served[u]
  BY DEF JournalInv, JournalTypes
<1>3. served'[w] = Idle(k, answer)
  BY DEF JournalInv, JournalTypes
<1>4. HoldersHoldStartedRows'
  <2>1. \A u \in Workers : served'[u].pc /= "idle" => served'[u] = served[u]
    BY <1>2, <1>3 DEF Idle
  <2>2. \A u \in Workers : served[u].pc /= "idle" /\ served'[u] = served[u] => HoldsStartedRow(u)'
    BY DEF JournalInv, HoldersHoldStartedRows, HoldsStartedRow
  <2> QED BY <2>1, <2>2 DEF HoldersHoldStartedRows
<1>5. OneHolder'
  BY <1>2, <1>3 DEF JournalInv, OneHolder, Idle
<1>6. OldKeysFixed'
  BY DEF JournalInv, OldKeysFixed
<1>7. AnswersStored'
  BY <1>2, <1>3 DEF JournalInv, AnswersStored, Idle
<1>8. EffectsBehind'
  BY <1>2, <1>3 DEF JournalInv, EffectsBehind, Idle
<1>9. Untouched(old)'
  <2>1. \A c \in Calls : NoEffectYet(c)' => NoEffectYet(c)
    BY <1>2, <1>3 DEF NoEffectYet, YetToAct, Idle
  <2> QED BY <2>1 DEF JournalInv, Untouched
<1>10. OneUnconfirmedWrite'
  BY DEF JournalInv, OneUnconfirmedWrite, Unconfirmed
<1> QED BY <1>1, <1>4, <1>5, <1>6, <1>7, <1>8, <1>9, <1>10 DEF JournalInv

\* Only a row under the current key is ever claimed: a row of the older scheme
\* is used when it exists, and then it is completed.
LEMMA ClaimedKey ==
  ASSUME NEW old, JournalInv(old), NEW c \in Calls, NEW a \in Args, Claimable(KeyOf(c, a), a)
  PROVE  /\ KeyOf(c, a) = <<c, v2>>
         /\ rows[<<c, v2>>].state \in {"absent", "failed"}
         /\ rows[<<c, v2>>].state = "failed" /\ c \notin Reads =>
              rows[<<c, v2>>].code = "tool_not_attempted"
<1>1. <<c, v2>> \in Keys /\ <<c, a>> \in Keys
  BY DEF Keys
<1>2. KeyOf(c, a) = <<c, v2>>
  BY <1>1 DEF JournalInv, OldKeysFixed, KeyOf, Claimable, Retryable
<1> QED BY <1>1, <1>2 DEF Claimable, Retryable

\* The claim of a call.
LEMMA ClaimTakenInv ==
  ASSUME NEW old, JournalInv(old), NEW w \in Workers, NEW c \in Calls, NEW a \in Args,
         served[w].pc = "idle", ClaimTaken(w, c, a)
  PROVE  JournalInv(old)'
<1> DEFINE k == <<c, v2>>
<1>0. k \in Keys /\ k[1] = c /\ k[2] = v2
  BY DEF Keys
<1>1. /\ KeyOf(c, a) = k
      /\ rows[k].state \in {"absent", "failed"}
      /\ rows[k].state = "failed" /\ c \notin Reads => rows[k].code = "tool_not_attempted"
  BY ClaimedKey DEF ClaimTaken
<1>2. /\ SettledRefusal(c) = "none"
      /\ rows' = [rows EXCEPT ![k] = Row("started", "", a)]
      /\ served' = [served EXCEPT ![w] = [pc |-> "executing", key |-> k, args |-> a,
                                          out |-> "none", answer |-> "none"]]
      /\ effects' = effects
  BY <1>1 DEF ClaimTaken
<1> HIDE DEF k
<1>3. JournalTypes'
  <2>1. Row("started", "", a) \in [state : States, code : Codes, args : Args \cup {v2}]
    BY DEF Row, States, Codes
  <2>2. [pc |-> "executing", key |-> k, args |-> a, out |-> "none", answer |-> "none"]
           \in [pc : {"idle", "executing", "executed"}, key : Keys \cup {NoKey},
                args : Args \cup {v2}, out : Outcomes, answer : Answers]
    BY <1>0 DEF Outcomes, Answers
  <2> QED BY <1>0, <1>2, <2>1, <2>2 DEF JournalInv, JournalTypes
<1>4. /\ \A j \in Keys : j /= k => rows'[j] = rows[j]
      /\ rows'[k].state = "started" /\ rows'[k].code = ""
  BY <1>0, <1>2 DEF JournalInv, JournalTypes, Row
<1>5. /\ \A u \in Workers : u /= w => served'[u] = served[u]
      /\ served'[w].pc = "executing" /\ served'[w].key = k /\ served'[w].args = a
      /\ served'[w].out = "none" /\ served'[w].answer = "none"
  BY <1>2 DEF JournalInv, JournalTypes
<1>6. \A u \in Workers : served[u].pc /= "idle" => served[u].key /= k
  BY <1>0, <1>1 DEF JournalInv, HoldersHoldStartedRows, HoldsStartedRow
<1>7. HoldersHoldStartedRows'
  <2> SUFFICES ASSUME NEW u \in Workers, served'[u].pc /= "idle"
               PROVE  HoldsStartedRow(u)'
    BY DEF HoldersHoldStartedRows
  <2>1. CASE u = w
    BY <2>1, <1>0, <1>4, <1>5 DEF HoldsStartedRow
  <2>2. CASE u /= w
    <3>1. served'[u] = served[u] /\ served[u].key /= k
      BY <2>2, <1>5, <1>6
    <3>2. HoldsStartedRow(u)
      BY <3>1 DEF JournalInv, HoldersHoldStartedRows
    <3> QED BY <3>1, <3>2, <1>4 DEF HoldsStartedRow
  <2> QED BY <2>1, <2>2
<1>8. OneHolder'
  BY <1>5, <1>6 DEF JournalInv, OneHolder
<1>9. OldKeysFixed'
  BY <1>0, <1>4 DEF JournalInv, OldKeysFixed
<1>10. AnswersStored'
  <2> SUFFICES ASSUME NEW u \in Workers, served'[u].answer = "result"
               PROVE  served'[u].key \in Keys /\ rows'[served'[u].key].state = "completed"
    BY DEF AnswersStored
  <2>1. u /= w /\ served'[u] = served[u]
    BY <1>5
  <2>2. served[u].key \in Keys /\ rows[served[u].key].state = "completed"
    BY <2>1 DEF JournalInv, AnswersStored
  <2> QED BY <2>1, <2>2, <1>1, <1>4
<1>11. EffectsBehind'
  <2>1. \A j \in Keys : rows'[j].state = "completed" => rows[j].state = "completed"
    BY <1>4
  <2>2. \A u \in Workers : served'[u].pc = "executed" => u /= w /\ served'[u] = served[u]
    BY <1>5
  <2> QED BY <2>1, <2>2, <1>2 DEF JournalInv, EffectsBehind
<1>12. Untouched(old)'
  <2> SUFFICES ASSUME NEW d \in Calls \ old
               PROVE  /\ rows'[<<d, v2>>].state = "absent" => effects'[d] = 0
                      /\ d \notin Reads => effects'[d] <= 1 /\ (NoEffectYet(d)' => effects'[d] = 0)
    BY DEF Untouched
  <2>1. <<d, v2>> \in Keys /\ effects'[d] = effects[d]
    BY <1>2 DEF Keys
  <2>2. /\ rows[<<d, v2>>].state = "absent" => effects[d] = 0
        /\ d \notin Reads => effects[d] <= 1 /\ (NoEffectYet(d) => effects[d] = 0)
    BY DEF JournalInv, Untouched
  <2>3. CASE d = c
    <3>1. <<d, v2>> = k
      BY <2>3 DEF k
    <3>2. NoEffectYet(d)
      BY <3>1, <1>1 DEF NoEffectYet
    <3>3. rows'[<<d, v2>>].state = "started"
      BY <3>1, <1>4
    <3> QED BY <3>2, <3>3, <2>1, <2>2
  <2>4. CASE d /= c
    <3>1. <<d, v2>> /= k
      BY <2>4 DEF k
    <3>2. rows'[<<d, v2>>] = rows[<<d, v2>>]
      BY <3>1, <2>1, <1>4
    <3>3. NoEffectYet(d)' => NoEffectYet(d)
      BY <3>1, <3>2, <1>5 DEF NoEffectYet, YetToAct
    <3> QED BY <3>2, <3>3, <2>1, <2>2
  <2> QED BY <2>3, <2>4
<1>13. OneUnconfirmedWrite'
  <2> SUFFICES ASSUME NEW i \in Keys, NEW j \in Keys,
                      i \in Unconfirmed', j \in Unconfirmed', i[1] \in Settled, j[1] \in Settled,
                      rows'[i].code /= "tool_not_attempted", rows'[j].code /= "tool_not_attempted"
               PROVE  i = j
    BY DEF OneUnconfirmedWrite, Unconfirmed
  <2>1. CASE i /= k /\ j /= k
    BY <2>1, <1>4 DEF JournalInv, OneUnconfirmedWrite, Unconfirmed
  <2>2. CASE c \in Settled
    <3>1. PendingEffects(k) = {}
      BY <1>2, <2>2 DEF SettledRefusal, k
    <3>2. \A x \in Keys : x /= k /\ x \in Unconfirmed' => rows'[x].code = "tool_not_attempted"
      <4> SUFFICES ASSUME NEW x \in Keys, x /= k, x \in Unconfirmed', rows'[x].code /= "tool_not_attempted"
                   PROVE  FALSE
        OBVIOUS
      <4>1. rows'[x] = rows[x] /\ IsWrite(x) /\ rows'[x].state \in {"started", "unknown", "failed"}
        BY <1>4 DEF Unconfirmed, IsWrite
      <4>2. x \in PendingEffects(k)
        BY <4>1 DEF PendingEffects
      <4> QED BY <4>2, <3>1
    <3> QED BY <3>2
  <2>3. CASE c \notin Settled
    BY <2>1, <2>3, <1>0
  <2> QED BY <2>2, <2>3
<1> QED BY <1>3, <1>7, <1>8, <1>9, <1>10, <1>11, <1>12, <1>13 DEF JournalInv

\* The tool runs: the effect of an executing request is the first of its call.
LEMMA ExecuteInv ==
  ASSUME NEW old, JournalInv(old), NEW w \in Workers, Execute(w)
  PROVE  JournalInv(old)'
<1> DEFINE k == served[w].key
<1>0. /\ served[w].pc = "executing" /\ rows' = rows /\ HoldsStartedRow(w)
      /\ k \in Keys /\ k[2] = v2 /\ rows[k].state = "started" /\ k[1] \in Calls /\ k = <<k[1], v2>>
  <2>1. served[w].pc = "executing" /\ rows' = rows
    BY DEF Execute
  <2>2. HoldsStartedRow(w)
    BY <2>1 DEF JournalInv, HoldersHoldStartedRows
  <2> QED BY <2>1, <2>2, KeyParts DEF HoldsStartedRow
<1>1. PICK out \in {"ok", "error", "not_attempted"}, took \in {0, 1} :
       /\ out = "ok" => took = 1
       /\ out = "not_attempted" => took = 0
       /\ effects[k[1]] + took <= MaxEffects
       /\ effects' = [effects EXCEPT ![k[1]] = @ + took]
       /\ served' = [served EXCEPT ![w].pc = "executed", ![w].out = out]
  BY DEF Execute
<1>2. /\ \A u \in Workers : u /= w => served'[u] = served[u]
      /\ served'[w].pc = "executed" /\ served'[w].out = out /\ served'[w].key = k
      /\ served'[w].answer = served[w].answer /\ served'[w].args = served[w].args
  BY <1>1 DEF JournalInv, JournalTypes
<1>3. /\ \A c \in Calls : c /= k[1] => effects'[c] = effects[c]
      /\ effects'[k[1]] = effects[k[1]] + took
      /\ \A c \in Calls : effects[c] \in 0 .. MaxEffects /\ effects'[c] >= effects[c]
  BY <1>0, <1>1, CallsAssumption DEF JournalInv, JournalTypes
<1>4. JournalTypes'
  <2>1. effects' \in [Calls -> 0 .. MaxEffects]
    BY <1>0, <1>1, <1>3, CallsAssumption DEF JournalInv, JournalTypes
  <2>2. served' \in [Workers -> [pc : {"idle", "executing", "executed"}, key : Keys \cup {NoKey},
                             args : Args \cup {v2}, out : Outcomes, answer : Answers]]
    <3>1. [served[w] EXCEPT !.pc = "executed", !.out = out]
            \in [pc : {"idle", "executing", "executed"}, key : Keys \cup {NoKey},
                 args : Args \cup {v2}, out : Outcomes, answer : Answers]
      BY DEF JournalInv, JournalTypes, Outcomes
    <3>2. served' = [served EXCEPT ![w] = [served[w] EXCEPT !.pc = "executed", !.out = out]]
      BY <1>1
    <3> QED BY <3>1, <3>2 DEF JournalInv, JournalTypes
  <2> QED BY <1>0, <2>1, <2>2 DEF JournalInv, JournalTypes
<1>5. HoldersHoldStartedRows'
  <2>1. HoldsStartedRow(w)'
    BY <1>0, <1>1, <1>2 DEF HoldsStartedRow
  <2>2. \A u \in Workers : u /= w /\ served[u].pc /= "idle" => HoldsStartedRow(u)'
    BY <1>0, <1>2 DEF JournalInv, HoldersHoldStartedRows, HoldsStartedRow
  <2> QED BY <2>1, <2>2, <1>2 DEF HoldersHoldStartedRows
<1>6. OneHolder'
  BY <1>0, <1>2 DEF JournalInv, OneHolder
<1>7. OldKeysFixed'
  BY <1>0 DEF JournalInv, OldKeysFixed
<1>8. AnswersStored'
  BY <1>0, <1>2 DEF JournalInv, AnswersStored
<1>9. EffectsBehind'
  <2>1. \A j \in Keys : j[1] \in Calls
    BY DEF Keys
  <2>2. \A u \in Workers : served[u].pc = "executed" => served[u].key \in Keys
    BY DEF JournalInv, HoldersHoldStartedRows, HoldsStartedRow
  <2>3. \A j \in Keys : rows'[j].state = "completed" => effects'[j[1]] >= 1
    BY <2>1, <1>0, <1>3 DEF JournalInv, EffectsBehind
  <2>4. \A u \in Workers : u /= w /\ served'[u].pc = "executed" /\ served'[u].out = "ok" =>
           effects'[served'[u].key[1]] >= 1
    BY <2>1, <2>2, <1>2, <1>3 DEF JournalInv, EffectsBehind
  <2>5. out = "ok" => effects'[k[1]] >= 1
    BY <1>0, <1>1, <1>3
  <2> QED BY <2>3, <2>4, <2>5, <1>2 DEF EffectsBehind
<1>10. Untouched(old)'
  <2>1. \A u \in Workers : u /= w /\ served[u].pc /= "idle" => served[u].key /= k
    BY <1>0 DEF JournalInv, OneHolder
  <2> SUFFICES ASSUME NEW d \in Calls \ old
               PROVE  /\ rows'[<<d, v2>>].state = "absent" => effects'[d] = 0
                      /\ d \notin Reads => effects'[d] <= 1 /\ (NoEffectYet(d)' => effects'[d] = 0)
    BY DEF Untouched
  <2>2. /\ rows[<<d, v2>>].state = "absent" => effects[d] = 0
        /\ d \notin Reads => effects[d] <= 1 /\ (NoEffectYet(d) => effects[d] = 0)
    BY DEF JournalInv, Untouched
  <2>3. CASE d = k[1]
    <3>1. <<d, v2>> = k
      BY <2>3, <1>0
    <3>2. NoEffectYet(d)
      BY <3>1, <1>0 DEF NoEffectYet, YetToAct
    <3>3. d \notin Reads => effects'[d] = took
      BY <3>2, <2>2, <2>3, <1>3
    <3>4. NoEffectYet(d)' => out = "not_attempted"
      BY <3>1, <2>1, <1>0, <1>2 DEF NoEffectYet, YetToAct
    <3>5. rows'[<<d, v2>>].state = "started"
      BY <3>1, <1>0
    <3> QED BY <3>3, <3>4, <3>5, <1>1
  <2>4. CASE d /= k[1]
    <3>1. effects'[d] = effects[d]
      BY <2>4, <1>3
    <3>2. k /= <<d, v2>>
      BY <2>4
    <3>3. NoEffectYet(d)' => NoEffectYet(d)
      BY <3>2, <1>0, <1>2 DEF NoEffectYet, YetToAct
    <3> QED BY <3>1, <3>3, <2>2, <1>0
  <2> QED BY <2>3, <2>4
<1>11. OneUnconfirmedWrite'
  BY <1>0 DEF JournalInv, OneUnconfirmedWrite, Unconfirmed
<1> QED BY <1>4, <1>5, <1>6, <1>7, <1>8, <1>9, <1>10, <1>11 DEF JournalInv

\* The record of the outcome: the row leaves "started" for good, unless the
\* tool was never attempted.
LEMMA RecordInv ==
  ASSUME NEW old, JournalInv(old), NEW w \in Workers, Record(w)
  PROVE  JournalInv(old)'
<1> DEFINE k == served[w].key
           out == served[w].out
           r == RecordedRow(k, out, served[w].args)
           answer == CASE out = "ok" -> "result"
                       [] out = "error" /\ IsWrite(k) -> "unknown"
                       [] OTHER -> "none"
<1>0. /\ k \in Keys /\ k[2] = v2 /\ rows[k].state = "started" /\ k[1] \in Calls /\ k = <<k[1], v2>>
      /\ served[w].pc = "executed" /\ effects' = effects /\ served[w].args \in Args
      /\ rows[k].code = "" /\ out \in {"ok", "error", "not_attempted"}
  <2>1. served[w].pc = "executed" /\ effects' = effects /\ out \in Outcomes
    BY DEF Record, JournalInv, JournalTypes
  <2>2. HoldsStartedRow(w)
    BY <2>1 DEF JournalInv, HoldersHoldStartedRows
  <2>3. out \in {"ok", "error", "not_attempted"}
    BY <2>1, <2>2 DEF HoldsStartedRow, Outcomes
  <2> QED BY <2>1, <2>2, <2>3, KeyParts DEF HoldsStartedRow
<1>1. /\ rows' = [rows EXCEPT ![k] = r]
      /\ served' = [served EXCEPT ![w] = Idle(k, answer)]
  BY DEF Record
<1>2. /\ r \in [state : States, code : Codes, args : Args \cup {v2}]
      /\ r.state \in {"completed", "failed", "unknown"}
      /\ r.state = "completed" <=> out = "ok"
      /\ r.state = "failed" /\ IsWrite(k) => out = "not_attempted" /\ r.code = "tool_not_attempted"
  <2>1. CASE out = "ok"
    BY <1>0, <2>1 DEF RecordedRow, Row, States, Codes
  <2>2. CASE out = "not_attempted"
    BY <1>0, <2>2 DEF RecordedRow, Row, States, Codes
  <2>3. CASE out = "error" /\ IsWrite(k)
    BY <1>0, <2>3 DEF RecordedRow, Row, States, Codes
  <2>4. CASE out = "error" /\ ~ IsWrite(k)
    BY <1>0, <2>4 DEF RecordedRow, Row, States, Codes
  <2> QED BY <1>0, <2>1, <2>2, <2>3, <2>4
<1>3. answer \in Answers /\ (answer = "result" <=> out = "ok")
  BY DEF Answers
<1> HIDE DEF r, answer
<1>4. JournalTypes'
  <2>1. Idle(k, answer) \in [pc : {"idle", "executing", "executed"}, key : Keys \cup {NoKey},
                             args : Args \cup {v2}, out : Outcomes, answer : Answers]
    BY <1>0, <1>3 DEF Idle, Outcomes
  <2> QED BY <1>0, <1>1, <1>2, <2>1 DEF JournalInv, JournalTypes
<1>5. /\ \A j \in Keys : j /= k => rows'[j] = rows[j]
      /\ rows'[k] = r
  BY <1>0, <1>1 DEF JournalInv, JournalTypes
<1>6. /\ \A u \in Workers : u /= w => served'[u] = served[u]
      /\ served'[w] = Idle(k, answer)
  BY <1>1 DEF JournalInv, JournalTypes
<1>7. \A u \in Workers : u /= w /\ served[u].pc /= "idle" => served[u].key /= k
  BY <1>0 DEF JournalInv, OneHolder
<1>8. served'[w].pc = "idle" /\ served'[w].answer = answer /\ (answer = "result" => served'[w].key = k)
  BY <1>6 DEF Idle
<1>9. HoldersHoldStartedRows'
  <2> SUFFICES ASSUME NEW u \in Workers, served'[u].pc /= "idle"
               PROVE  HoldsStartedRow(u)'
    BY DEF HoldersHoldStartedRows
  <2>1. u /= w /\ served'[u] = served[u] /\ served[u].key /= k
    BY <1>6, <1>7, <1>8
  <2>2. HoldsStartedRow(u)
    BY <2>1 DEF JournalInv, HoldersHoldStartedRows
  <2> QED BY <2>1, <2>2, <1>5 DEF HoldsStartedRow
<1>10. OneHolder'
  BY <1>6, <1>8 DEF JournalInv, OneHolder
<1>11. OldKeysFixed'
  BY <1>0, <1>5 DEF JournalInv, OldKeysFixed
<1>12. AnswersStored'
  <2> SUFFICES ASSUME NEW u \in Workers, served'[u].answer = "result"
               PROVE  served'[u].key \in Keys /\ rows'[served'[u].key].state = "completed"
    BY DEF AnswersStored
  <2>1. CASE u = w
    BY <2>1, <1>0, <1>2, <1>3, <1>5, <1>8
  <2>2. CASE u /= w
    <3>1. served[u].key \in Keys /\ rows[served[u].key].state = "completed" /\ served'[u] = served[u]
      BY <2>2, <1>6 DEF JournalInv, AnswersStored
    <3> QED BY <3>1, <1>0, <1>5
  <2> QED BY <2>1, <2>2
<1>13. EffectsBehind'
  <2>1. out = "ok" => effects[k[1]] >= 1
    BY <1>0 DEF JournalInv, EffectsBehind
  <2>2. \A j \in Keys : rows'[j].state = "completed" => effects'[j[1]] >= 1
    BY <2>1, <1>0, <1>2, <1>5 DEF JournalInv, EffectsBehind
  <2>3. \A u \in Workers : served'[u].pc = "executed" => served'[u] = served[u]
    BY <1>6, <1>8
  <2> QED BY <2>2, <2>3, <1>0 DEF JournalInv, EffectsBehind
<1>14. Untouched(old)'
  <2> SUFFICES ASSUME NEW d \in Calls \ old
               PROVE  /\ rows'[<<d, v2>>].state = "absent" => effects'[d] = 0
                      /\ d \notin Reads => effects'[d] <= 1 /\ (NoEffectYet(d)' => effects'[d] = 0)
    BY DEF Untouched
  <2>1. <<d, v2>> \in Keys /\ effects'[d] = effects[d]
    BY <1>0 DEF Keys
  <2>2. /\ rows[<<d, v2>>].state = "absent" => effects[d] = 0
        /\ d \notin Reads => effects[d] <= 1 /\ (NoEffectYet(d) => effects[d] = 0)
    BY DEF JournalInv, Untouched
  <2>3. CASE d = k[1]
    <3>1. <<d, v2>> = k
      BY <2>3, <1>0
    <3>2. d \notin Reads /\ NoEffectYet(d)' => out = "not_attempted"
      BY <3>1, <2>3, <1>2, <1>5, <1>6, <1>7, <1>8 DEF NoEffectYet, YetToAct, IsWrite
    <3>3. d \notin Reads /\ NoEffectYet(d)' => NoEffectYet(d)
      BY <3>1, <3>2, <1>0 DEF NoEffectYet, YetToAct
    <3>4. rows'[<<d, v2>>].state /= "absent"
      BY <3>1, <1>2, <1>5
    <3> QED BY <3>3, <3>4, <2>1, <2>2
  <2>4. CASE d /= k[1]
    <3>1. <<d, v2>> /= k
      BY <2>4
    <3>2. rows'[<<d, v2>>] = rows[<<d, v2>>]
      BY <3>1, <2>1, <1>5
    <3>3. NoEffectYet(d)' => NoEffectYet(d)
      BY <3>1, <3>2, <1>6, <1>8 DEF NoEffectYet, YetToAct
    <3> QED BY <3>2, <3>3, <2>1, <2>2
  <2> QED BY <2>3, <2>4
<1>15. OneUnconfirmedWrite'
  <2>1. \A x \in Keys : x \in Unconfirmed' /\ rows'[x].code /= "tool_not_attempted" =>
           x \in Unconfirmed /\ rows[x].code /= "tool_not_attempted"
    BY <1>0, <1>2, <1>5 DEF Unconfirmed
  <2> QED BY <2>1 DEF JournalInv, OneUnconfirmedWrite, Unconfirmed
<1> QED BY <1>4, <1>9, <1>10, <1>11, <1>12, <1>13, <1>14, <1>15 DEF JournalInv

\* Every step of a request on the journal.
LEMMA ClaimCallInv ==
  ASSUME NEW old, JournalInv(old), NEW w \in Workers, NEW c \in Calls, NEW a \in Args,
         ClaimCall(w, c, a)
  PROVE  JournalInv(old)'
<1>1. <<c, v2>> \in Keys /\ <<c, a>> \in Keys /\ KeyOf(c, a) \in Keys
  BY DEF Keys, KeyOf
<1>2. CASE ClaimRefused(w, c, a)
  <2>1. SettledRefusal(c) \in Answers /\ SettledRefusal(c) /= "result"
    BY DEF SettledRefusal, Answers
  <2> QED BY <1>1, <1>2, <2>1, AnswerKeepsJournal DEF ClaimRefused
<1>3. CASE ClaimTaken(w, c, a)
  BY <1>3, ClaimTakenInv DEF ClaimCall
<1>4. CASE ClaimAnswered(w, c, a)
  <2> DEFINE k == KeyOf(c, a)
  <2>1. PICK answer \in IF rows[k].args /= a THEN {"conflict"} ELSE StoredAnswers(k) :
           served' = [served EXCEPT ![w] = Idle(k, answer)]
    BY <1>4 DEF ClaimAnswered
  <2>2. UNCHANGED <<rows, effects>>
    BY <1>4 DEF ClaimAnswered
  <2>3. answer \in Answers /\ (answer = "result" => rows[k].state = "completed")
    BY <2>1 DEF StoredAnswers, Answers
  <2> HIDE DEF k
  <2>4. k \in Keys
    BY <1>1 DEF k
  <2> QED BY <2>1, <2>2, <2>3, <2>4, AnswerKeepsJournal
<1> QED BY <1>2, <1>3, <1>4 DEF ClaimCall

\* Execution, record, lost record and crash keep the journal's invariant.
LEMMA ServedInv ==
  ASSUME NEW old, JournalInv(old), NEW w \in Workers,
         Execute(w) \/ Record(w) \/ RecordLost(w) \/ Crash(w)
  PROVE  JournalInv(old)'
<1>1. served[w].key \in Keys \cup {NoKey} /\ "unknown" \in Answers /\ "none" \in Answers
  BY DEF JournalInv, JournalTypes, Answers
<1>2. CASE RecordLost(w)
  BY <1>1, <1>2, AnswerKeepsJournal DEF RecordLost
<1>3. CASE Crash(w)
  BY <1>1, <1>3, AnswerKeepsJournal DEF Crash
<1> QED BY <1>2, <1>3, ExecuteInv, RecordInv

\* A step that leaves the journal's rows, requests and effects alone.
LEMMA JournalUnchanged ==
  ASSUME NEW old, JournalInv(old), UNCHANGED <<rows, served, effects>>
  PROVE  JournalInv(old)'
BY DEF JournalInv, JournalTypes, HoldersHoldStartedRows, HoldsStartedRow, OneHolder, OldKeysFixed,
       AnswersStored, EffectsBehind, Untouched, NoEffectYet, YetToAct, OneUnconfirmedWrite, Unconfirmed

-----------------------------------------------------------------------------

\* The journal's own invariant.
LEMMA JournalSafety == JournalSpec => [](JournalInv(LegacyCalls) /\ JournalTypeOK)
<1>1. JournalInit => JournalInv(LegacyCalls) /\ JournalTypeOK
  <2> SUFFICES ASSUME JournalInit PROVE JournalInv(LegacyCalls) /\ JournalTypeOK
    OBVIOUS
  <2>0. effects = [c \in Calls |-> IF c \in LegacyCalls THEN 1 ELSE 0]
    BY DEF JournalInit, LegacyCalls
  <2>1. Idle(NoKey, "none") \in [pc : {"idle", "executing", "executed"}, key : Keys \cup {NoKey},
                             args : Args \cup {v2}, out : Outcomes, answer : Answers]
    BY DEF Idle, Outcomes, Answers
  <2>2. Absent \in [state : States, code : Codes, args : Args \cup {v2}]
    BY DEF Absent, States, Codes
  <2>3. \A k \in Keys : k \in Legacy =>
           Row("completed", "", k[2]) \in [state : States, code : Codes, args : Args \cup {v2}]
    BY DEF Row, States, Codes, Keys
  <2>4. \A k \in Keys : rows[k] = IF k \in Legacy THEN Row("completed", "", k[2]) ELSE Absent
    BY DEF JournalInit
  <2>5. \A k \in Keys : rows[k].state = IF k \in Legacy THEN "completed" ELSE "absent"
    <3> SUFFICES ASSUME NEW k \in Keys
                 PROVE  rows[k].state = IF k \in Legacy THEN "completed" ELSE "absent"
      OBVIOUS
    <3>0. Row("completed", "", k[2]).state = "completed" /\ Absent.state = "absent"
      BY DEF Row, Absent
    <3>1. CASE k \in Legacy
      BY <2>4, <3>0, <3>1
    <3>2. CASE k \notin Legacy
      BY <2>4, <3>0, <3>2
    <3> QED BY <3>1, <3>2
  <2>6. JournalTypes
    <3>1. rows \in [Keys -> [state : States, code : Codes, args : Args \cup {v2}]]
      <4> DEFINE T == [state : States, code : Codes, args : Args \cup {v2}]
                 row(k) == IF k \in Legacy THEN Row("completed", "", k[2]) ELSE Absent
      <4>1. rows = [k \in Keys |-> row(k)]
        BY DEF JournalInit
      <4>2. \A k \in Keys : row(k) \in T
        BY <2>2, <2>3
      <4> HIDE DEF T, row
      <4>3. rows \in [Keys -> T]
        BY <4>1, <4>2
      <4> QED BY <4>3 DEF T
    <3>2. effects \in [Calls -> 0 .. MaxEffects]
      BY <2>0, CallsAssumption
    <3> QED BY <3>1, <3>2, <2>1 DEF JournalInit, JournalTypes
  <2>7. \A w \in Workers : served[w].pc = "idle" /\ served[w].answer = "none"
    BY DEF JournalInit, Idle
  <2>8. HoldersHoldStartedRows /\ OneHolder /\ AnswersStored
    BY <2>7 DEF HoldersHoldStartedRows, OneHolder, AnswersStored
  <2>9. OldKeysFixed
    BY <2>5 DEF OldKeysFixed
  <2>10. EffectsBehind
    <3>1. \A k \in Keys : k \in Legacy => k[1] \in Calls /\ <<k[1], k[2]>> \in Legacy /\ k[2] \in Args
      BY KeyParts, CallsAssumption
    <3>2. \A k \in Keys : k \in Legacy => k[1] \in LegacyCalls
      BY <3>1 DEF LegacyCalls
    <3>3. \A k \in Keys : k \in Legacy => effects[k[1]] = 1
      BY <3>1, <3>2, <2>0
    <3>4. \A k \in Keys : rows[k].state = "completed" => k \in Legacy
      BY <2>5
    <3>5. \A k \in Keys : rows[k].state = "completed" => effects[k[1]] >= 1
      BY <3>3, <3>4
    <3> QED BY <3>5, <2>7 DEF EffectsBehind
  <2>11. Untouched(LegacyCalls)
    BY <2>0 DEF Untouched
  <2>12. OneUnconfirmedWrite
    BY <2>5 DEF OneUnconfirmedWrite, Unconfirmed
  <2> QED BY <2>6, <2>8, <2>9, <2>10, <2>11, <2>12 DEF JournalInv, JournalTypes, JournalTypeOK, JournalInit
<1>2. JournalInv(LegacyCalls) /\ JournalTypeOK /\ [JournalNext]_journalVars
        => (JournalInv(LegacyCalls) /\ JournalTypeOK)'
  <2> SUFFICES ASSUME JournalInv(LegacyCalls), JournalTypeOK, [JournalNext]_journalVars
               PROVE  JournalInv(LegacyCalls)' /\ run' \in {"running", "waiting", "completed", "incomplete"}
                        /\ verdict' \in {"unchecked", "clean", "unconfirmed"}
    BY DEF JournalInv, JournalTypes, JournalTypeOK
  <2>1. ASSUME NEW w \in Workers, JournalStep(w)
        PROVE  JournalInv(LegacyCalls)' /\ UNCHANGED <<run, verdict>>
    <3>1. ASSUME NEW c \in Calls, NEW a \in Args, ClaimCall(w, c, a)
          PROVE  JournalInv(LegacyCalls)' /\ UNCHANGED <<run, verdict>>
      <4>1. JournalInv(LegacyCalls)'
        BY <3>1, ClaimCallInv
      <4>2. UNCHANGED <<run, verdict>>
        BY <3>1 DEF ClaimCall, ClaimRefused, ClaimTaken, ClaimAnswered
      <4> QED BY <4>1, <4>2
    <3>2. CASE Execute(w) \/ Record(w) \/ RecordLost(w) \/ Crash(w)
      BY <3>2, ServedInv DEF Execute, Record, RecordLost, Crash
    <3> QED BY <2>1, <3>1, <3>2 DEF JournalStep
  <2>2. CASE Suspend \/ Resume \/ CheckEffects \/ EndRun
    BY <2>2, JournalUnchanged DEF Suspend, Resume, CheckEffects, EndRun, JournalTypeOK
  <2>3. CASE UNCHANGED journalVars
    BY <2>3, JournalUnchanged DEF journalVars, JournalTypeOK
  <2> QED BY <2>1, <2>2, <2>3 DEF JournalNext, JournalTypeOK
<1> QED BY <1>1, <1>2, PTL DEF JournalSpec

\* The journal is well typed.
THEOREM JournalTypeCorrect == JournalSpec => []JournalTypeOK
BY JournalSafety, PTL

\* A stored result, and every result a caller is given (JournalAgentToolboxAction),
\* stands for a call that took effect.
THEOREM ResultsAreRealHolds == JournalSpec => []ResultsAreReal
<1>1. JournalInv(LegacyCalls) => ResultsAreReal
  BY DEF JournalInv, AnswersStored, EffectsBehind, ResultsAreReal
<1> QED BY <1>1, JournalSafety, PTL

\* A replanner cannot start a replacement of an uncertain write: at most one
\* write of a settled call is unconfirmed (the claim transaction).
THEOREM OneUnconfirmedWriteHolds == JournalSpec => []OneUnconfirmedWrite
<1>1. JournalInv(LegacyCalls) => OneUnconfirmedWrite
  BY DEF JournalInv
<1> QED BY <1>1, JournalSafety, PTL

\* A mutation takes effect at most once, whatever is redelivered and whatever
\* dies, unless an older release has left a row for its call: such a row answers
\* only the arguments it was written for (the legacy key lookup).
THEOREM FreshMutationsAtMostOnce ==
  JournalSpec => [](\A c \in Calls \ (Reads \cup LegacyCalls) : effects[c] <= 1)
<1>1. JournalInv(LegacyCalls) => \A c \in Calls \ (Reads \cup LegacyCalls) : effects[c] <= 1
  BY DEF JournalInv, Untouched
<1> QED BY <1>1, JournalSafety, PTL

\* With no such row left behind, every mutation does.
THEOREM MutationsAtMostOnceHolds ==
  ASSUME Legacy = {}
  PROVE  JournalSpec => []MutationsAtMostOnce
<1>1. JournalInv(LegacyCalls) => MutationsAtMostOnce
  BY DEF JournalInv, Untouched, LegacyCalls, MutationsAtMostOnce
<1> QED BY <1>1, JournalSafety, PTL

-----------------------------------------------------------------------------
(* The routine.  What has been read before a transaction is only trusted      *)
(* where it cannot have changed: a confirmed receipt stays confirmed, so that *)
(* a step that was reached when a call was authorized is still reached when   *)
(* the call is claimed, and a claim needs a run that is still running, so     *)
(* that nothing is claimed behind a published outcome.                        *)

SealTypes ==
  [step : AgentSteps \cup {0}, state : {"none", "completed", "partial", "uncertain", "failed"},
   calls : {Cardinality(S) : S \in SUBSET Calls} \cup {0}, turns : 0 .. MaxTurns]

SealStated(f) == f.step /= 0 => f.state /= "none"

CompletingTypes ==
  [pc : {"idle", "recovering", "evaluated"}, todo : SUBSET AgentSteps, asCancel : BOOLEAN,
   state : {"none", "completed", "partial", "failed", "uncertain", "cancelled"}, seal : SealTypes]

RoutineTypes ==
  /\ RoutineTypeOK
  /\ finishing \in SealTypes /\ SealStated(finishing)
  /\ completing \in [Completers -> CompletingTypes]
  /\ \A p \in Completers : /\ SealStated(completing[p].seal)
                           /\ completing[p].pc = "evaluated" => completing[p].state /= "none"

EndedWhenPublished == outcome /= "" => run \in Terminal

QueuedIsFresh == run = "queued" => \A k \in Keys : rows[k].state = "absent"

AuthorizedIsReached == \A w \in Workers : auth[w] /= "none" => Reached(StepOf[auth[w]])

CheckpointsBacked ==
  \A s \in AgentSteps : checkpoint[s] = "completed" => \A c \in CallsOf(s) : RowOf(c) = "completed"

PublishedSuccess ==
  outcome = "completed" =>
    /\ \A c \in Calls : RowOf(c) \in {"absent", "completed"}
    /\ \A s \in Steps \ Skipped : Receipt(s) = "completed"

RoutineInv ==
  /\ JournalInv({})
  /\ RoutineTypes
  /\ EndedWhenPublished
  /\ QueuedIsFresh
  /\ InFlightIsUncertain
  /\ AuthorizedIsReached
  /\ StepsInOrder
  /\ CheckpointsBacked
  /\ PublishedSuccess

\* Every capability step has a call.
LEMMA CallOfStep ==
  ASSUME NEW s \in Steps, s \notin AgentSteps \cup WaitSteps
  PROVE  CallOf(s) \in Calls /\ <<CallOf(s), v2>> \in Keys
<1>1. \E c \in Calls : StepOf[c] = s
  BY StepsAssumption
<1>2. CallOf(s) \in Calls
  BY <1>1 DEF CallOf
<1> QED BY <1>2 DEF Keys

\* Which evidence lets the routine go past a step: none if it is skipped, else
\* a confirmed receipt.
GoesOnWith(s, receipt) ==
  /\ s \notin Broken
  /\ \/ s \in Skipped
     \/ /\ receipt = "completed"
        /\ s \in AgentSteps \cup WaitSteps \/ CallOf(s) \notin PartialCalls \/ s \in AllowPartial

\* The model's verdict on a step agrees with that reading of the evidence ...
LEMMA GoesOnMeans ==
  \A s \in Steps : RoutineTypeOK => (GoesOn(s) <=> GoesOnWith(s, Receipt(s)))
<1> SUFFICES ASSUME NEW s \in Steps, RoutineTypeOK
             PROVE  GoesOn(s) <=> GoesOnWith(s, Receipt(s))
  OBVIOUS
<1>1. s \notin AgentSteps => Receipt(s) /= "partial"
  <2>1. CASE s \in WaitSteps
    BY <2>1, StepsAssumption DEF RoutineTypeOK, Receipt
  <2>2. CASE s \notin AgentSteps \cup WaitSteps
    BY <2>2, CallOfStep DEF RoutineTypeOK, Receipt, RowOf, States
  <2> QED BY <2>1, <2>2
<1>2. CASE s \in Broken
  <2>1. StepVerdict(s) = "failed"
    BY <1>2 DEF StepVerdict
  <2> QED BY <2>1, <1>2 DEF GoesOn, GoesOnWith
<1>3. CASE s \notin Broken /\ s \in Skipped
  <2>1. StepVerdict(s) = "skipped"
    BY <1>3 DEF StepVerdict
  <2> QED BY <2>1, <1>3 DEF GoesOn, GoesOnWith
<1>4. CASE s \notin Broken /\ s \notin Skipped /\ Receipt(s) = "completed"
  <2>1. StepVerdict(s) = IF s \notin (AgentSteps \cup WaitSteps) /\ CallOf(s) \in PartialCalls
                         THEN "partial" ELSE "completed"
    BY <1>4 DEF StepVerdict
  <2> QED BY <2>1, <1>4 DEF GoesOn, GoesOnWith
<1>5. CASE s \notin Broken /\ s \notin Skipped /\ Receipt(s) /= "completed"
  <2>1. StepVerdict(s) \in {"not_run", "uncertain", "partial", "failed"}
    BY <1>5 DEF StepVerdict
  <2>2. s \notin AgentSteps => StepVerdict(s) /= "partial"
    BY <1>1, <1>5 DEF StepVerdict
  <2> QED BY <2>1, <2>2, <1>5 DEF GoesOn, GoesOnWith
<1> QED BY <1>2, <1>3, <1>4, <1>5

\* ... also after a step.
LEMMA GoesOnMeansNext ==
  \A s \in Steps : RoutineTypeOK' => (GoesOn(s)' <=> GoesOnWith(s, Receipt(s)'))
<1>1. (\A s \in Steps : RoutineTypeOK => (GoesOn(s) <=> GoesOnWith(s, Receipt(s))))'
  BY GoesOnMeans, PTL
<1> QED BY <1>1 DEF GoesOnWith, CallOf, Steps

\* A step's evidence stays confirmed, and so a step that was reached stays
\* reached.
ReceiptsKept ==
  /\ \A c \in Calls : RowOf(c) = "completed" => RowOf(c)' = "completed"
  /\ \A s \in AgentSteps : checkpoint[s] = "completed" => checkpoint'[s] = "completed"
  /\ \A s \in WaitSteps : waits[s] = "completed" => waits'[s] = "completed"

\* A confirmed receipt of a step stays confirmed.
LEMMA ReceiptStable ==
  ASSUME ReceiptsKept, NEW s \in Steps, Receipt(s) = "completed"
  PROVE  Receipt(s)' = "completed"
<1>1. CASE s \in AgentSteps
  BY <1>1 DEF ReceiptsKept, Receipt
<1>2. CASE s \in WaitSteps
  BY <1>2, StepsAssumption DEF ReceiptsKept, Receipt
<1>3. CASE s \notin AgentSteps \cup WaitSteps
  <2>1. RowOf(CallOf(s)) = "completed"
    BY <1>3 DEF Receipt
  <2>2. RowOf(CallOf(s))' = "completed"
    BY <2>1, <1>3, CallOfStep DEF ReceiptsKept
  <2> QED BY <2>2, <1>3 DEF Receipt, CallOf
<1> QED BY <1>1, <1>2, <1>3

\* A step that was reached stays reached.
LEMMA ReachedStable ==
  ASSUME RoutineTypeOK, RoutineTypeOK', ReceiptsKept, NEW s \in Steps, Reached(s)
  PROVE  Reached(s)'
<1> SUFFICES ASSUME NEW t \in 1 .. (s - 1)
             PROVE  GoesOn(t)'
  BY DEF Reached
<1>1. t \in Steps
  BY StepsAssumption DEF Steps
<1>2. GoesOnWith(t, Receipt(t))
  BY <1>1, GoesOnMeans DEF Reached
<1>3. GoesOnWith(t, Receipt(t)')
  BY <1>1, <1>2, ReceiptStable DEF GoesOnWith
<1> QED BY <1>1, <1>3, GoesOnMeansNext

\* Steps that leave the journal and the published outcome alone: what they have
\* to respect.
LEMMA QuietInv ==
  ASSUME RoutineInv, RoutineTypes',
         UNCHANGED <<rows, served, effects, outcome>>,
         \A s \in AgentSteps : checkpoint[s] = "completed" => checkpoint'[s] = "completed",
         \A s \in WaitSteps : waits[s] = "completed" => waits'[s] = "completed",
         outcome /= "" => run' \in Terminal,
         run' = "queued" => run = "queued",
         \A w \in Workers : auth'[w] /= "none" => auth'[w] = auth[w] \/ Reached(StepOf[auth'[w]]),
         \A s \in WaitSteps : waits'[s] = "completed" => clock'[s] /= "early",
         \A s \in AgentSteps : checkpoint'[s] = "completed" =>
           \A c \in CallsOf(s)' : RowOf(c) = "completed"
  PROVE  RoutineInv'
<1>1. JournalInv({})'
  BY JournalUnchanged DEF RoutineInv
<1>2. RoutineTypeOK /\ RoutineTypeOK'
  BY DEF RoutineInv, RoutineTypes
<1>3. ReceiptsKept
  BY DEF ReceiptsKept, RowOf
<1>4. \A s \in Steps : Reached(s) => Reached(s)'
  BY <1>2, <1>3, ReachedStable
<1>5. \A w \in Workers : auth'[w] /= "none" => auth'[w] \in Calls /\ StepOf[auth'[w]] \in Steps
  <2>1. \A w \in Workers : auth'[w] \in Calls \cup {"none"}
    BY <1>2 DEF RoutineTypeOK
  <2>2. \A c \in Calls : StepOf[c] \in Steps
    BY StepsAssumption
  <2> QED BY <2>1, <2>2
<1>6. AuthorizedIsReached'
  BY <1>4, <1>5 DEF RoutineInv, AuthorizedIsReached
<1>7. StepsInOrder'
  <2>1. \A c \in Calls : RowOf(c)' = RowOf(c) /\ StepOf[c] \in Steps
    BY StepsAssumption DEF RowOf
  <2> QED BY <2>1, <1>4 DEF RoutineInv, StepsInOrder
<1>8. CheckpointsBacked'
  <2>1. \A c : RowOf(c)' = RowOf(c)
    BY DEF RowOf
  <2> QED BY <2>1 DEF CheckpointsBacked
<1>9. PublishedSuccess'
  <2>1. \A c \in Calls : RowOf(c)' = RowOf(c)
    BY DEF RowOf
  <2>2. \A s \in Steps : Receipt(s) = "completed" => Receipt(s)' = "completed"
    BY <1>3, ReceiptStable
  <2> QED BY <2>1, <2>2 DEF RoutineInv, PublishedSuccess
<1>10. EndedWhenPublished' /\ QueuedIsFresh' /\ InFlightIsUncertain'
  BY DEF RoutineInv, EndedWhenPublished, QueuedIsFresh, InFlightIsUncertain, InFlight
<1> QED BY <1>1, <1>6, <1>7, <1>8, <1>9, <1>10 DEF RoutineInv

\* What a request does to the journal never unconfirms a row; a row that leaves
\* "absent", or becomes in flight, has been claimed under a running run.
LEMMA ClaimKeepsRows ==
  ASSUME NEW old, JournalInv(old), NEW w \in Workers, NEW c \in Calls, NEW a \in Args,
         ClaimCall(w, c, a)
  PROVE  /\ \A k \in Keys : rows[k].state \in {"completed", "started", "unknown"} => rows'[k] = rows[k]
         /\ \A k \in Keys : rows'[k] /= rows[k] => k = <<c, v2>> /\ SettledRefusal(c) = "none"
         /\ UNCHANGED <<run, effects>>
<1>1. CASE ClaimTaken(w, c, a)
  <2>1. KeyOf(c, a) = <<c, v2>> /\ rows[<<c, v2>>].state \in {"absent", "failed"}
    BY <1>1, ClaimedKey DEF ClaimTaken
  <2>2. rows' = [rows EXCEPT ![<<c, v2>>] = Row("started", "", a)] /\ SettledRefusal(c) = "none"
        /\ UNCHANGED <<run, effects>>
    BY <1>1, <2>1 DEF ClaimTaken
  <2>3. \A k \in Keys : k /= <<c, v2>> => rows'[k] = rows[k]
    BY <2>2 DEF JournalInv, JournalTypes
  <2> QED BY <2>1, <2>2, <2>3
<1>2. CASE ClaimRefused(w, c, a) \/ ClaimAnswered(w, c, a)
  BY <1>2 DEF ClaimRefused, ClaimAnswered
<1> QED BY <1>1, <1>2 DEF ClaimCall

\* Serving a claimed call only changes started rows, and starts none.
LEMMA ServedKeepsRows ==
  ASSUME NEW old, JournalInv(old), NEW w \in Workers,
         Execute(w) \/ Record(w) \/ RecordLost(w) \/ Crash(w)
  PROVE  /\ \A k \in Keys : rows'[k] /= rows[k] => rows[k].state = "started"
         /\ \A k \in Keys : rows'[k].state \in {"started", "unknown"} => rows[k].state \in {"started", "unknown"}
         /\ \A k \in Keys : rows[k].state = "absent" <=> rows'[k].state = "absent"
         /\ UNCHANGED run
<1>1. CASE Record(w)
  <2> DEFINE k == served[w].key
             r == RecordedRow(k, served[w].out, served[w].args)
  <2>1. rows' = [rows EXCEPT ![k] = r] /\ rows[k].state = "started" /\ UNCHANGED run
    BY <1>1 DEF Record
  <2>2. r.state \in {"completed", "failed", "unknown"}
    BY DEF RecordedRow, Row
  <2> HIDE DEF k, r
  <2>3. \A j \in Keys : IF j = k THEN rows'[j] = r ELSE rows'[j] = rows[j]
    BY <2>1 DEF JournalInv, JournalTypes
  <2> QED BY <2>1, <2>2, <2>3
<1>2. CASE Execute(w) \/ RecordLost(w) \/ Crash(w)
  BY <1>2 DEF Execute, RecordLost, Crash
<1> QED BY <1>1, <1>2

\* The claim of an authorized call.
LEMMA ClaimEffectInv ==
  ASSUME RoutineInv, NEW w \in Workers, NEW a \in Args, ClaimEffect(w, a)
  PROVE  RoutineInv'
<1>1. /\ auth' = [auth EXCEPT ![w] = "none"]
      /\ UNCHANGED <<checkpoint, admitted, turns, waits, clock, cancelRequested, outcome,
                     finishing, completing>>
  BY DEF ClaimEffect
<1>2. auth[w] \in Calls /\ StepOf[auth[w]] \in Steps /\ Reached(StepOf[auth[w]])
  BY StepsAssumption DEF ClaimEffect, RoutineInv, RoutineTypes, RoutineTypeOK, AuthorizedIsReached
<1>3. /\ auth' \in [Workers -> Calls \cup {"none"}]
      /\ \A u \in Workers : auth'[u] /= "none" => auth'[u] = auth[u]
  BY <1>1 DEF RoutineInv, RoutineTypes, RoutineTypeOK
<1>4. CASE EffectClaimRefused(auth[w])
  <2>1. UNCHANGED journalVars
    BY <1>4 DEF ClaimEffect
  <2>2. RoutineTypes'
    BY <1>1, <1>3, <2>1 DEF journalVars, RoutineInv, RoutineTypes, RoutineTypeOK
  <2>3. \A s \in AgentSteps : checkpoint'[s] = "completed" => \A c \in CallsOf(s)' : RowOf(c) = "completed"
    BY <1>1 DEF RoutineInv, CheckpointsBacked, CallsOf
  <2> QED BY <1>1, <1>3, <2>1, <2>2, <2>3, QuietInv
          DEF journalVars, RoutineInv, EndedWhenPublished, StepsInOrder
<1>5. CASE ~ EffectClaimRefused(auth[w])
  <2> DEFINE d == auth[w]
  <2>1. ClaimCall(w, d, a)
    BY <1>5 DEF ClaimEffect
  <2>2. JournalInv({})'
    BY <1>2, <2>1, ClaimCallInv DEF RoutineInv
  <2>3. /\ \A k \in Keys : rows[k].state \in {"completed", "started", "unknown"} => rows'[k] = rows[k]
        /\ \A k \in Keys : rows'[k] /= rows[k] => k = <<d, v2>> /\ SettledRefusal(d) = "none"
        /\ UNCHANGED <<run, effects>>
    BY <1>2, <2>1, ClaimKeepsRows DEF RoutineInv
  <2>4. \A k \in Keys : rows'[k] /= rows[k] => run = "running" /\ outcome = ""
    <3>1. SettledRefusal(d) = "none" => run = "running"
      BY <1>2, StepsAssumption DEF SettledRefusal
    <3>2. run = "running" => outcome = ""
      BY DEF RoutineInv, EndedWhenPublished, Terminal
    <3> QED BY <3>1, <3>2, <2>3
  <2> HIDE DEF d
  <2>5. RoutineTypes'
    BY <1>1, <1>3, <2>2, <2>3 DEF RoutineInv, RoutineTypes, RoutineTypeOK, JournalInv, JournalTypes
  <2>6. ReceiptsKept
    BY <1>1, <2>3 DEF ReceiptsKept, RowOf, Keys
  <2>7. \A s \in Steps : Reached(s) => Reached(s)'
    BY <2>5, <2>6, ReachedStable DEF RoutineInv, RoutineTypes
  <2>8. \A c \in Calls : <<c, v2>> \in Keys /\ StepOf[c] \in Steps
    BY StepsAssumption DEF Keys
  <2>9. EndedWhenPublished' /\ QueuedIsFresh'
    BY <1>1, <2>3, <2>4 DEF RoutineInv, EndedWhenPublished, QueuedIsFresh
  <2>10. InFlightIsUncertain'
    <3>1. outcome /= "" => InFlight' = InFlight
      BY <2>4 DEF InFlight
    <3> QED BY <3>1, <1>1 DEF RoutineInv, InFlightIsUncertain
  <2>11. AuthorizedIsReached'
    <3> SUFFICES ASSUME NEW u \in Workers, auth'[u] /= "none" PROVE Reached(StepOf[auth[u]])'
      BY DEF AuthorizedIsReached
    <3>1. auth'[u] = auth[u] /\ auth[u] \in Calls
      BY <1>3
    <3>2. StepOf[auth[u]] \in Steps /\ Reached(StepOf[auth[u]])
      BY <3>1, <2>8 DEF RoutineInv, AuthorizedIsReached
    <3> QED BY <3>1, <3>2, <2>7
  <2>12. StepsInOrder'
    <3>1. \A c \in Calls : RowOf(c)' /= "absent" => RowOf(c) /= "absent" \/ c = d
      BY <2>3, <2>8 DEF RowOf
    <3>2. \A c \in Calls : RowOf(c)' /= "absent" => Reached(StepOf[c])
      BY <3>1, <1>2 DEF RoutineInv, StepsInOrder, d
    <3>3. \A c \in Calls : RowOf(c)' /= "absent" => Reached(StepOf[c])'
      BY <3>2, <2>7, <2>8
    <3> QED BY <3>3, <1>1 DEF RoutineInv, StepsInOrder
  <2>13. CheckpointsBacked'
    <3>1. \A s : CallsOf(s)' = CallsOf(s) /\ CallsOf(s) \subseteq Calls
      BY <1>1 DEF CallsOf, RoutineInv, RoutineTypes, RoutineTypeOK
    <3> QED BY <3>1, <1>1, <2>6 DEF RoutineInv, CheckpointsBacked, ReceiptsKept
  <2>14. PublishedSuccess'
    <3>1. outcome /= "" => \A c \in Calls : RowOf(c)' = RowOf(c)
      BY <2>4, <2>8 DEF RowOf
    <3>2. \A s \in Steps : Receipt(s) = "completed" => Receipt(s)' = "completed"
      BY <2>6, ReceiptStable
    <3> QED BY <3>1, <3>2, <1>1 DEF RoutineInv, PublishedSuccess
  <2> QED BY <2>2, <2>5, <2>9, <2>10, <2>11, <2>12, <2>13, <2>14 DEF RoutineInv
<1> QED BY <1>4, <1>5

\* Execution, its record, its loss and the crash of a request.
LEMMA ServeEffectInv ==
  ASSUME RoutineInv, NEW w \in Workers, ServeEffect(w)
  PROVE  RoutineInv'
<1>1. UNCHANGED <<checkpoint, admitted, turns, waits, clock, cancelRequested, outcome, auth,
                  finishing, completing>>
  BY DEF ServeEffect, routineVars
<1>2. JournalInv({})'
  BY ServedInv DEF RoutineInv, ServeEffect
<1>3. /\ \A k \in Keys : rows'[k] /= rows[k] => rows[k].state = "started"
      /\ \A k \in Keys : rows'[k].state \in {"started", "unknown"} => rows[k].state \in {"started", "unknown"}
      /\ \A k \in Keys : rows[k].state = "absent" <=> rows'[k].state = "absent"
      /\ UNCHANGED run
  BY ServedKeepsRows DEF RoutineInv, ServeEffect
<1>4. RoutineTypes'
  BY <1>1, <1>2, <1>3 DEF RoutineInv, RoutineTypes, RoutineTypeOK, JournalInv, JournalTypes
<1>5. \A c \in Calls : <<c, v2>> \in Keys /\ StepOf[c] \in Steps
  BY StepsAssumption DEF Keys
<1>6. ReceiptsKept
  BY <1>1, <1>3, <1>5 DEF ReceiptsKept, RowOf
<1>7. \A s \in Steps : Reached(s) => Reached(s)'
  BY <1>4, <1>6, ReachedStable DEF RoutineInv, RoutineTypes
<1>8. EndedWhenPublished' /\ QueuedIsFresh'
  BY <1>1, <1>3 DEF RoutineInv, EndedWhenPublished, QueuedIsFresh
<1>9. InFlightIsUncertain'
  <2>1. InFlight' \subseteq InFlight
    BY <1>3 DEF InFlight
  <2> QED BY <2>1, <1>1 DEF RoutineInv, InFlightIsUncertain
<1>10. AuthorizedIsReached'
  <2> SUFFICES ASSUME NEW u \in Workers, auth[u] /= "none" PROVE Reached(StepOf[auth[u]])'
    BY <1>1 DEF AuthorizedIsReached
  <2>1. auth[u] \in Calls
    BY DEF RoutineInv, RoutineTypes, RoutineTypeOK
  <2>2. StepOf[auth[u]] \in Steps /\ Reached(StepOf[auth[u]])
    BY <2>1, <1>5 DEF RoutineInv, AuthorizedIsReached
  <2> QED BY <2>2, <1>7, <1>1
<1>11. StepsInOrder'
  <2>1. \A c \in Calls : RowOf(c)' /= "absent" => RowOf(c) /= "absent"
    BY <1>3, <1>5 DEF RowOf
  <2>2. \A c \in Calls : RowOf(c)' /= "absent" => Reached(StepOf[c])'
    BY <2>1, <1>5, <1>7 DEF RoutineInv, StepsInOrder
  <2> QED BY <2>2, <1>1 DEF RoutineInv, StepsInOrder
<1>12. CheckpointsBacked'
  <2>1. \A s : CallsOf(s)' = CallsOf(s) /\ CallsOf(s) \subseteq Calls
    BY <1>1 DEF CallsOf, RoutineInv, RoutineTypes, RoutineTypeOK
  <2> QED BY <2>1, <1>1, <1>6 DEF RoutineInv, CheckpointsBacked, ReceiptsKept
<1>13. PublishedSuccess'
  <2>1. outcome = "completed" => \A c \in Calls : RowOf(c)' \in {"absent", "completed"}
    BY <1>3, <1>5, <1>6 DEF RoutineInv, PublishedSuccess, ReceiptsKept, RowOf
  <2>2. \A s \in Steps : Receipt(s) = "completed" => Receipt(s)' = "completed"
    BY <1>6, ReceiptStable
  <2> QED BY <2>1, <2>2, <1>1 DEF RoutineInv, PublishedSuccess
<1> QED BY <1>2, <1>4, <1>8, <1>9, <1>10, <1>11, <1>12, <1>13 DEF RoutineInv

-----------------------------------------------------------------------------
(* The steps that do not touch the journal.                                   *)

\* What the invariant says of the state before such a step.
LEMMA QuietFacts ==
  ASSUME RoutineInv
  PROVE  /\ outcome /= "" => run \in Terminal
         /\ \A s \in WaitSteps : waits[s] = "completed" => clock[s] /= "early"
         /\ \A s \in AgentSteps : checkpoint[s] = "completed" =>
              \A c \in CallsOf(s) : RowOf(c) = "completed"
BY DEF RoutineInv, EndedWhenPublished, StepsInOrder, CheckpointsBacked

\* The records of an idle evaluation and an idle completion are well formed.
LEMMA NotCompletingType ==
  /\ NotFinishing \in SealTypes /\ SealStated(NotFinishing) /\ NotFinishing.step = 0
  /\ NotCompleting \in CompletingTypes
  /\ SealStated(NotCompleting.seal) /\ NotCompleting.pc = "idle"
<1>1. NotFinishing \in SealTypes /\ SealStated(NotFinishing) /\ NotFinishing.step = 0
  BY StepsAssumption DEF NotFinishing, SealTypes, SealStated
<1>2. /\ NotCompleting \in CompletingTypes
      /\ NotCompleting.seal = NotFinishing /\ NotCompleting.pc = "idle"
  BY <1>1 DEF NotCompleting, CompletingTypes
<1> QED BY <1>1, <1>2

\* A completion moves on and stays well formed.
LEMMA CompletingTyped ==
  ASSUME RoutineTypes, NEW p \in Completers,
         \E x \in CompletingTypes : /\ SealStated(x.seal) /\ (x.pc = "evaluated" => x.state /= "none")
                                    /\ completing' = [completing EXCEPT ![p] = x]
  PROVE  /\ completing' \in [Completers -> CompletingTypes]
         /\ \A q \in Completers : /\ completing'[q].pc \in {"idle", "recovering", "evaluated"}
                                  /\ completing'[q].seal.step \in AgentSteps \cup {0}
                                  /\ SealStated(completing[q].seal)'
                                  /\ completing'[q].pc = "evaluated" => completing'[q].state /= "none"
<1>1. PICK x \in CompletingTypes : /\ SealStated(x.seal) /\ (x.pc = "evaluated" => x.state /= "none")
                                   /\ completing' = [completing EXCEPT ![p] = x]
  OBVIOUS
<1>2. completing' \in [Completers -> CompletingTypes]
  BY <1>1 DEF RoutineTypes
<1>3. \A q \in Completers : IF q = p THEN completing'[q] = x ELSE completing'[q] = completing[q]
  BY <1>1 DEF RoutineTypes
<1>4. \A q \in Completers : completing'[q].pc \in {"idle", "recovering", "evaluated"}
                            /\ completing'[q].seal \in SealTypes
  BY <1>2 DEF CompletingTypes
<1>5. \A q \in Completers : completing'[q].seal.step \in AgentSteps \cup {0}
  BY <1>4 DEF SealTypes
<1>6. \A q \in Completers : /\ SealStated(completing[q].seal)'
                            /\ completing'[q].pc = "evaluated" => completing'[q].state /= "none"
  <2> SUFFICES ASSUME NEW q \in Completers
               PROVE  /\ SealStated(completing[q].seal)'
                      /\ completing'[q].pc = "evaluated" => completing'[q].state /= "none"
    OBVIOUS
  <2>1. CASE q = p
    BY <2>1, <1>1, <1>3 DEF SealStated
  <2>2. CASE q /= p
    BY <2>2, <1>3 DEF RoutineTypes, SealStated
  <2> QED BY <2>1, <2>2
<1> QED BY <1>2, <1>4, <1>5, <1>6

\* Activation and approvals only change the state of the run.
LEMMA RunStateInv ==
  ASSUME RoutineInv, Activate \/ Approval
  PROVE  RoutineInv'
<1>1. /\ run \notin Terminal /\ run' \in {"running", "awaiting_approval"}
      /\ UNCHANGED <<rows, served, effects, routineVars>>
  BY DEF Activate, Approval, Terminal
<1>2. RoutineTypes'
  BY <1>1 DEF routineVars, RoutineInv, RoutineTypes, RoutineTypeOK
<1>3. \A s \in AgentSteps : checkpoint'[s] = "completed" => \A c \in CallsOf(s)' : RowOf(c) = "completed"
  BY <1>1, QuietFacts DEF routineVars, CallsOf
<1> QED BY <1>1, <1>2, <1>3, QuietInv, QuietFacts DEF routineVars

\* A call is authorized, and admitted to its agent step while the step is open.
LEMMA AuthorizeInv ==
  ASSUME RoutineInv, NEW w \in Workers, NEW c \in Calls, AuthorizeRoutineCall(w, c)
  PROVE  RoutineInv'
<1>1. /\ auth' = [auth EXCEPT ![w] = c]
      /\ UNCHANGED <<journalVars, checkpoint, turns, waits, clock, cancelRequested, outcome,
                     finishing, completing>>
      /\ Reached(StepOf[c])
      /\ admitted' \in {admitted, admitted \cup {c}}
      /\ admitted' /= admitted => checkpoint[StepOf[c]] = "running"
  BY DEF AuthorizeRoutineCall, NextStep, StopsAt, Replays
<1>2. auth' \in [Workers -> Calls \cup {"none"}] /\ admitted' \subseteq Calls
  BY <1>1 DEF RoutineInv, RoutineTypes, RoutineTypeOK
<1>3. RoutineTypes'
  BY <1>1, <1>2 DEF journalVars, RoutineInv, RoutineTypes, RoutineTypeOK
<1>4. \A u \in Workers : auth'[u] /= "none" => auth'[u] = auth[u] \/ Reached(StepOf[auth'[u]])
  BY <1>1 DEF RoutineInv, RoutineTypes, RoutineTypeOK
<1>5. \A s \in AgentSteps : checkpoint'[s] = "completed" => \A d \in CallsOf(s)' : RowOf(d) = "completed"
  BY <1>1, QuietFacts DEF CallsOf
<1> QED BY <1>1, <1>3, <1>4, <1>5, QuietInv, QuietFacts DEF journalVars

\* Opening an agent step.
LEMMA OpenAgentInv ==
  ASSUME RoutineInv, NEW s \in AgentSteps, OpenRoutineAgent(s)
  PROVE  RoutineInv'
<1>1. /\ checkpoint[s] = "pending" /\ checkpoint' = [checkpoint EXCEPT ![s] = "running"]
      /\ UNCHANGED <<journalVars, admitted, turns, waits, clock, cancelRequested, outcome, auth,
                     finishing, completing>>
  BY DEF OpenRoutineAgent
<1>2. RoutineTypes'
  BY <1>1 DEF journalVars, RoutineInv, RoutineTypes, RoutineTypeOK
<1>3. \A t \in AgentSteps : checkpoint'[t] = "completed" <=> checkpoint[t] = "completed"
  BY <1>1 DEF RoutineInv, RoutineTypes, RoutineTypeOK
<1>4. \A t \in AgentSteps : checkpoint'[t] = "completed" => \A c \in CallsOf(t)' : RowOf(c) = "completed"
  BY <1>1, <1>3, QuietFacts DEF CallsOf
<1> QED BY <1>1, <1>2, <1>3, <1>4, QuietInv, QuietFacts DEF journalVars

\* Model turns.
LEMMA TurnsInv ==
  ASSUME RoutineInv, NEW s \in AgentSteps, ReserveModelTurn(s) \/ RecordRoutineModelUsage(s)
  PROVE  RoutineInv'
<1>1. UNCHANGED <<journalVars, checkpoint, admitted, waits, clock, cancelRequested, outcome,
                  auth, finishing, completing>>
  BY DEF ReserveModelTurn, RecordRoutineModelUsage
<1>0. turns \in [AgentSteps -> [claimed : 0 .. MaxTurns, finished : 0 .. MaxTurns]]
  BY DEF RoutineInv, RoutineTypes, RoutineTypeOK
<1>2. turns[s].claimed \in 0 .. MaxTurns /\ turns[s].finished \in 0 .. MaxTurns
  BY <1>0
<1>3. turns' \in [AgentSteps -> [claimed : 0 .. MaxTurns, finished : 0 .. MaxTurns]]
  <2>1. CASE ReserveModelTurn(s)
    <3>0. turns[s].claimed < MaxTurns
      BY <2>1 DEF ReserveModelTurn
    <3>1. turns[s].claimed + 1 \in 0 .. MaxTurns
      BY <3>0, <1>2, StepsAssumption
    <3>2. turns' = [turns EXCEPT ![s].claimed = turns[s].claimed + 1]
      BY <2>1 DEF ReserveModelTurn
    <3> QED BY <1>0, <3>1, <3>2
  <2>2. CASE RecordRoutineModelUsage(s)
    <3>0. turns[s].finished < turns[s].claimed
      BY <2>2 DEF RecordRoutineModelUsage
    <3>1. turns[s].finished + 1 \in 0 .. MaxTurns
      BY <3>0, <1>2, StepsAssumption
    <3>2. turns' = [turns EXCEPT ![s].finished = turns[s].finished + 1]
      BY <2>2 DEF RecordRoutineModelUsage
    <3> QED BY <1>0, <3>1, <3>2
  <2> QED BY <2>1, <2>2
<1>4. RoutineTypes'
  BY <1>1, <1>3 DEF journalVars, RoutineInv, RoutineTypes, RoutineTypeOK
<1>5. \A t \in AgentSteps : checkpoint'[t] = "completed" => \A c \in CallsOf(t)' : RowOf(c) = "completed"
  BY <1>1, QuietFacts DEF CallsOf
<1> QED BY <1>1, <1>4, <1>5, QuietInv, QuietFacts DEF journalVars

\* What an evaluation remembers of an agent step.
LEMMA EvaluationType ==
  ASSUME RoutineInv, NEW s \in AgentSteps, NEW reported, NEW recovery
  PROVE  LET f == [step |-> s, state |-> AgentVerdict(s, reported, recovery),
                   calls |-> Cardinality(CallsOf(s)), turns |-> turns[s].claimed]
         IN  f \in SealTypes /\ SealStated(f)
<1>1. AgentVerdict(s, reported, recovery) \in {"completed", "partial", "uncertain", "failed"}
  BY DEF AgentVerdict
<1>2. Cardinality(CallsOf(s)) \in {Cardinality(S) : S \in SUBSET Calls}
  BY DEF CallsOf, RoutineInv, RoutineTypes, RoutineTypeOK
<1>3. turns[s].claimed \in 0 .. MaxTurns
  BY DEF RoutineInv, RoutineTypes, RoutineTypeOK
<1> QED BY <1>1, <1>2, <1>3 DEF SealTypes, SealStated

\* The evaluation of an agent step on behalf of the runtime.
LEMMA EvaluateAgentInv ==
  ASSUME RoutineInv, NEW s \in AgentSteps, EvaluateRoutineAgent(s)
  PROVE  RoutineInv'
<1>1. UNCHANGED <<journalVars, checkpoint, admitted, turns, waits, clock, cancelRequested,
                  outcome, auth, completing>>
  BY DEF EvaluateRoutineAgent
<1>2. finishing' \in SealTypes /\ SealStated(finishing)'
  BY EvaluationType DEF EvaluateRoutineAgent, SealStated
<1>3. finishing'.step \in AgentSteps \cup {0}
  BY <1>2 DEF SealTypes
<1>4. RoutineTypes'
  BY <1>1, <1>2, <1>3 DEF journalVars, RoutineInv, RoutineTypes, RoutineTypeOK
<1>5. \A t \in AgentSteps : checkpoint'[t] = "completed" => \A c \in CallsOf(t)' : RowOf(c) = "completed"
  BY <1>1, QuietFacts DEF CallsOf
<1> QED BY <1>1, <1>4, <1>5, QuietInv, QuietFacts DEF journalVars

\* An evaluated verdict is stored only if its evidence still holds under the
\* run lock: a completed step has only confirmed calls.
LEMMA StoredVerdict ==
  ASSUME RoutineInv, NEW f \in SealTypes, f.step /= 0, f.state /= "none",
         checkpoint[f.step] = "running",
         AgentEvidenceHolds(f.step, f.state, f.calls, f.turns),
         checkpoint' = [checkpoint EXCEPT ![f.step] = f.state]
  PROVE  /\ checkpoint' \in [AgentSteps -> {"pending", "running", "completed", "failed", "partial", "uncertain"}]
         /\ \A t \in AgentSteps : checkpoint[t] = "completed" => checkpoint'[t] = "completed"
         /\ \A t \in AgentSteps : checkpoint'[t] = "completed" => \A c \in CallsOf(t) : RowOf(c) = "completed"
<1>1. f.step \in AgentSteps /\ f.state \in {"completed", "partial", "uncertain", "failed"}
  BY DEF SealTypes
<1>2. checkpoint \in [AgentSteps -> {"pending", "running", "completed", "failed", "partial", "uncertain"}]
  BY DEF RoutineInv, RoutineTypes, RoutineTypeOK
<1>3. \A t \in AgentSteps : t /= f.step => checkpoint'[t] = checkpoint[t]
  BY <1>2
<1>4. checkpoint'[f.step] = f.state
  BY <1>1, <1>2
<1>5. f.state = "completed" => \A c \in CallsOf(f.step) : RowOf(c) = "completed"
  BY DEF AgentEvidenceHolds
<1>6. checkpoint' \in [AgentSteps -> {"pending", "running", "completed", "failed", "partial", "uncertain"}]
  BY <1>1, <1>2
<1> QED BY <1>3, <1>4, <1>5, <1>6, QuietFacts

\* An agent step is finished by the runtime.
LEMMA FinishAgentInv ==
  ASSUME RoutineInv, FinishRoutineAgent
  PROVE  RoutineInv'
<1> DEFINE f == finishing
<1>0. f \in SealTypes /\ f.step /= 0 /\ f.state /= "none"
  BY DEF FinishRoutineAgent, RoutineInv, RoutineTypes, SealStated
<1>1. /\ finishing' = NotFinishing
      /\ UNCHANGED <<journalVars, admitted, turns, waits, clock, cancelRequested, outcome, auth,
                     completing>>
  BY DEF FinishRoutineAgent
<1>2. \/ checkpoint' = checkpoint
      \/ /\ checkpoint[f.step] = "running"
         /\ AgentEvidenceHolds(f.step, f.state, f.calls, f.turns)
         /\ checkpoint' = [checkpoint EXCEPT ![f.step] = f.state]
  BY DEF FinishRoutineAgent
<1>3. /\ checkpoint' \in [AgentSteps -> {"pending", "running", "completed", "failed", "partial", "uncertain"}]
      /\ \A t \in AgentSteps : checkpoint[t] = "completed" => checkpoint'[t] = "completed"
      /\ \A t \in AgentSteps : checkpoint'[t] = "completed" => \A c \in CallsOf(t) : RowOf(c) = "completed"
  <2>1. CASE checkpoint' = checkpoint
    BY <2>1, QuietFacts DEF RoutineInv, RoutineTypes, RoutineTypeOK
  <2> QED BY <2>1, <1>0, <1>2, StoredVerdict
<1>4. RoutineTypes'
  BY <1>1, <1>3, NotCompletingType DEF journalVars, RoutineInv, RoutineTypes, RoutineTypeOK
<1>5. \A t : CallsOf(t)' = CallsOf(t)
  BY <1>1 DEF CallsOf
<1> QED BY <1>1, <1>3, <1>4, <1>5, QuietInv, QuietFacts DEF journalVars

\* A completion stores the verdict it has evaluated for a step still running.
LEMMA SealAgentInv ==
  ASSUME RoutineInv, NEW p \in Completers, SealRoutineAgent(p)
  PROVE  RoutineInv'
<1> DEFINE f == completing[p].seal
<1>0. f \in SealTypes /\ f.step /= 0 /\ f.state /= "none" /\ completing[p] \in CompletingTypes
  BY DEF SealRoutineAgent, RoutineInv, RoutineTypes, SealStated, CompletingTypes
<1>1. /\ UNCHANGED <<journalVars, admitted, turns, waits, clock, cancelRequested, outcome, auth,
                     finishing>>
      /\ completing' \in {[completing EXCEPT ![p] = NotCompleting],
                          [completing EXCEPT ![p] = [completing[p] EXCEPT !.todo = completing[p].todo \ {f.step},
                                                                          !.seal = NotFinishing]]}
  <2> DEFINE stale == checkpoint[f.step] = "running" /\ ~ AgentEvidenceHolds(f.step, f.state, f.calls, f.turns)
             x == [completing[p] EXCEPT !.todo = completing[p].todo \ {f.step}, !.seal = NotFinishing]
  <2>1. completing' = [completing EXCEPT ![p] = IF stale THEN NotCompleting ELSE x]
    BY DEF SealRoutineAgent
  <2>2. UNCHANGED <<journalVars, admitted, turns, waits, clock, cancelRequested, outcome, auth, finishing>>
    BY DEF SealRoutineAgent
  <2> HIDE DEF stale
  <2> QED BY <2>1, <2>2
<1>2. \/ checkpoint' = checkpoint
      \/ /\ checkpoint[f.step] = "running"
         /\ AgentEvidenceHolds(f.step, f.state, f.calls, f.turns)
         /\ checkpoint' = [checkpoint EXCEPT ![f.step] = f.state]
  BY DEF SealRoutineAgent
<1>3. /\ checkpoint' \in [AgentSteps -> {"pending", "running", "completed", "failed", "partial", "uncertain"}]
      /\ \A t \in AgentSteps : checkpoint[t] = "completed" => checkpoint'[t] = "completed"
      /\ \A t \in AgentSteps : checkpoint'[t] = "completed" => \A c \in CallsOf(t) : RowOf(c) = "completed"
  <2>1. CASE checkpoint' = checkpoint
    BY <2>1, QuietFacts DEF RoutineInv, RoutineTypes, RoutineTypeOK
  <2> QED BY <2>1, <1>0, <1>2, StoredVerdict
<1>4. \E x \in CompletingTypes : /\ SealStated(x.seal) /\ (x.pc = "evaluated" => x.state /= "none")
                                 /\ completing' = [completing EXCEPT ![p] = x]
  <2> DEFINE x == [completing[p] EXCEPT !.todo = completing[p].todo \ {f.step}, !.seal = NotFinishing]
  <2>1. x \in CompletingTypes /\ x.seal = NotFinishing /\ x.pc = completing[p].pc /\ x.state = completing[p].state
    BY <1>0, NotCompletingType DEF CompletingTypes
  <2>2. completing[p].pc = "evaluated" => completing[p].state /= "none"
    BY DEF RoutineInv, RoutineTypes
  <2> HIDE DEF f
  <2> QED BY <2>1, <2>2, <1>1, NotCompletingType DEF SealStated
<1>5. RoutineTypes'
  BY <1>1, <1>3, <1>4, CompletingTyped DEF journalVars, RoutineInv, RoutineTypes, RoutineTypeOK
<1>6. \A t : CallsOf(t)' = CallsOf(t)
  BY <1>1 DEF CallsOf
<1> QED BY <1>1, <1>3, <1>5, <1>6, QuietInv, QuietFacts DEF journalVars

\* Completions under way: started, evaluating, dying.
LEMMA CompletingInv ==
  ASSUME RoutineInv, NEW p \in Completers,
         \/ \E asCancel \in BOOLEAN : CompleteRoutine(p, asCancel)
         \/ \E s \in AgentSteps : RecoverRoutineAgent(p, s)
         \/ EvaluateReport(p)
         \/ CrashCompletion(p)
  PROVE  RoutineInv'
<1>1. UNCHANGED <<journalVars, checkpoint, admitted, turns, waits, clock, cancelRequested,
                  outcome, auth, finishing>>
  BY DEF CompleteRoutine, RecoverRoutineAgent, EvaluateReport, CrashCompletion
<1>2. /\ completing[p] \in CompletingTypes /\ SealStated(completing[p].seal)
      /\ completing[p].pc = "evaluated" => completing[p].state /= "none"
  BY DEF RoutineInv, RoutineTypes
<1>3. \E x \in CompletingTypes : /\ SealStated(x.seal) /\ (x.pc = "evaluated" => x.state /= "none")
                                 /\ completing' = [completing EXCEPT ![p] = x]
  <2>1. ASSUME NEW asCancel \in BOOLEAN, CompleteRoutine(p, asCancel)
        PROVE  \E x \in CompletingTypes : /\ SealStated(x.seal) /\ (x.pc = "evaluated" => x.state /= "none")
                                          /\ completing' = [completing EXCEPT ![p] = x]
    <3> DEFINE b == asCancel \/ cancelRequested
               todo == {s \in AgentSteps : checkpoint[s] = "running"}
               x == [NotCompleting EXCEPT !.pc = "recovering", !.asCancel = b, !.todo = todo]
    <3>1. b \in BOOLEAN
      OBVIOUS
    <3>2. completing' = [completing EXCEPT ![p] = x]
      BY <2>1 DEF CompleteRoutine
    <3>3. todo \in SUBSET AgentSteps
      OBVIOUS
    <3> HIDE DEF b, todo
    <3>4. x \in CompletingTypes /\ x.seal = NotCompleting.seal /\ x.pc = "recovering"
      BY <3>1, <3>3, NotCompletingType DEF CompletingTypes
    <3> QED BY <3>2, <3>4, NotCompletingType
  <2>2. ASSUME NEW s \in AgentSteps, RecoverRoutineAgent(p, s)
        PROVE  \E x \in CompletingTypes : /\ SealStated(x.seal) /\ (x.pc = "evaluated" => x.state /= "none")
                                          /\ completing' = [completing EXCEPT ![p] = x]
    <3> DEFINE f == [step |-> s, state |-> AgentVerdict(s, "failed", TRUE),
                     calls |-> Cardinality(CallsOf(s)), turns |-> turns[s].claimed]
               x == [completing[p] EXCEPT !.seal = f]
    <3>1. f \in SealTypes /\ SealStated(f)
      BY EvaluationType
    <3>2. completing' = [completing EXCEPT ![p] = x]
      BY <2>2 DEF RecoverRoutineAgent
    <3> HIDE DEF f
    <3>3. x \in CompletingTypes /\ x.seal = f /\ x.pc = completing[p].pc /\ x.state = completing[p].state
      BY <1>2, <3>1 DEF CompletingTypes
    <3> QED BY <1>2, <3>1, <3>2, <3>3
  <2>3. ASSUME EvaluateReport(p)
        PROVE  \E x \in CompletingTypes : /\ SealStated(x.seal) /\ (x.pc = "evaluated" => x.state /= "none")
                                          /\ completing' = [completing EXCEPT ![p] = x]
    <3> DEFINE state == IF /\ ~ (\E s \in WaitSteps : waits[s] = "expired")
                           /\ completing[p].asCancel /\ ReportState = "failed"
                        THEN "cancelled" ELSE ReportState
               x == [completing[p] EXCEPT !.pc = "evaluated", !.state = state]
    <3>1. ReportState \in {"completed", "partial", "failed", "uncertain"}
      BY DEF ReportState
    <3>2. state \in {"completed", "partial", "failed", "uncertain", "cancelled"}
      BY <3>1
    <3>3. completing' = [completing EXCEPT ![p] = x]
      BY <2>3 DEF EvaluateReport
    <3> HIDE DEF state
    <3>4. x \in CompletingTypes /\ x.seal = completing[p].seal /\ x.state = state
      BY <1>2, <3>2 DEF CompletingTypes
    <3> QED BY <1>2, <3>2, <3>3, <3>4
  <2>4. ASSUME CrashCompletion(p)
        PROVE  \E x \in CompletingTypes : /\ SealStated(x.seal) /\ (x.pc = "evaluated" => x.state /= "none")
                                          /\ completing' = [completing EXCEPT ![p] = x]
    BY <2>4, NotCompletingType DEF CrashCompletion
  <2> QED BY <2>1, <2>2, <2>3, <2>4
<1>4. RoutineTypes'
  BY <1>1, <1>3, CompletingTyped DEF journalVars, RoutineInv, RoutineTypes, RoutineTypeOK
<1>5. \A t \in AgentSteps : checkpoint'[t] = "completed" => \A c \in CallsOf(t)' : RowOf(c) = "completed"
  BY <1>1, QuietFacts DEF CallsOf
<1> QED BY <1>1, <1>4, <1>5, QuietInv, QuietFacts DEF journalVars

\* The start of the run could not be delivered.
LEMMA StartUndeliverableInv ==
  ASSUME RoutineInv, NEW p \in Completers, StartUndeliverable(p)
  PROVE  RoutineInv'
<1>1. /\ UNCHANGED <<rows, served, effects, checkpoint, admitted, turns, waits, clock,
                     cancelRequested, outcome, auth, finishing>>
      /\ run' = "failed"
  BY DEF StartUndeliverable
<1>2. \E x \in CompletingTypes : /\ SealStated(x.seal) /\ (x.pc = "evaluated" => x.state /= "none")
                                 /\ completing' = [completing EXCEPT ![p] = x]
  <2> DEFINE x == [NotCompleting EXCEPT !.pc = "recovering"]
  <2>1. x \in CompletingTypes /\ x.seal = NotCompleting.seal /\ x.pc = "recovering"
    BY NotCompletingType DEF CompletingTypes
  <2>2. completing' = [completing EXCEPT ![p] = x]
    BY DEF StartUndeliverable
  <2> QED BY <2>1, <2>2, NotCompletingType
<1>3. RoutineTypes'
  BY <1>1, <1>2, CompletingTyped DEF RoutineInv, RoutineTypes, RoutineTypeOK, Terminal
<1>4. \A t \in AgentSteps : checkpoint'[t] = "completed" => \A c \in CallsOf(t)' : RowOf(c) = "completed"
  BY <1>1, QuietFacts DEF CallsOf
<1> QED BY <1>1, <1>3, <1>4, QuietInv, QuietFacts DEF Terminal

\* Timed waits: a wait completes only when the clock of the control plane says so.
LEMMA WaitsInv ==
  ASSUME RoutineInv, NEW s \in WaitSteps,
         OpenRoutineWait(s) \/ ResumeRoutineWait(s) \/ ExpireRoutineWait(s) \/ Tick(s)
  PROVE  RoutineInv'
<1>1. UNCHANGED <<rows, served, effects, checkpoint, admitted, turns, outcome, auth, finishing, completing>>
  BY DEF OpenRoutineWait, ResumeRoutineWait, ExpireRoutineWait, Tick, journalVars
<1>2. \A t \in AgentSteps : checkpoint'[t] = "completed" => \A c \in CallsOf(t)' : RowOf(c) = "completed"
  BY <1>1, QuietFacts DEF CallsOf
<1>3. /\ waits \in [WaitSteps -> {"pending", "waiting", "completed", "expired", "cancelled"}]
      /\ clock \in [WaitSteps -> {"early", "due", "late"}]
  BY DEF RoutineInv, RoutineTypes, RoutineTypeOK
<1>4. CASE OpenRoutineWait(s) \/ ResumeRoutineWait(s)
  <2>1. /\ waits[s] \in {"pending", "waiting"} /\ outcome = "" /\ run \in {"running", "awaiting_timer"}
        /\ run' \in {"running", "awaiting_timer"}
        /\ UNCHANGED <<clock, cancelRequested>>
    BY <1>4 DEF OpenRoutineWait, ResumeRoutineWait
  <2>2. \E v \in {"waiting", "completed", "expired"} :
           waits' = [waits EXCEPT ![s] = v] /\ (v = "completed" => clock[s] /= "early")
    BY <1>4 DEF OpenRoutineWait, ResumeRoutineWait, WakeState
  <2>3. /\ waits' \in [WaitSteps -> {"pending", "waiting", "completed", "expired", "cancelled"}]
        /\ \A t \in WaitSteps : waits[t] = "completed" => waits'[t] = "completed"
        /\ \A t \in WaitSteps : waits'[t] = "completed" => clock'[t] /= "early"
    BY <2>1, <2>2, <1>3, QuietFacts
  <2>4. RoutineTypes'
    BY <2>1, <2>3, <1>1 DEF RoutineInv, RoutineTypes, RoutineTypeOK
  <2> QED BY <2>1, <2>3, <2>4, <1>1, <1>2, QuietInv, QuietFacts
<1>5. CASE ExpireRoutineWait(s)
  <2>1. waits' = [waits EXCEPT ![s] = "expired"] /\ waits[s] = "waiting" /\ UNCHANGED <<clock, run>>
        /\ cancelRequested' = TRUE
    BY <1>5 DEF ExpireRoutineWait, journalVars
  <2>2. /\ waits' \in [WaitSteps -> {"pending", "waiting", "completed", "expired", "cancelled"}]
        /\ \A t \in WaitSteps : waits'[t] = "completed" <=> waits[t] = "completed"
    BY <2>1, <1>3
  <2>3. RoutineTypes'
    BY <2>1, <2>2, <1>1 DEF RoutineInv, RoutineTypes, RoutineTypeOK
  <2> QED BY <2>1, <2>2, <2>3, <1>1, <1>2, QuietInv, QuietFacts
<1>6. CASE Tick(s)
  <2>1. clock' = [clock EXCEPT ![s] = IF clock[s] = "early" THEN "due" ELSE "late"]
        /\ UNCHANGED <<waits, run, cancelRequested>>
    BY <1>6 DEF Tick, journalVars
  <2>2. /\ clock' \in [WaitSteps -> {"early", "due", "late"}]
        /\ \A t \in WaitSteps : clock'[t] = "early" => clock[t] = "early"
    BY <2>1, <1>3
  <2>3. RoutineTypes'
    BY <2>1, <2>2, <1>1 DEF RoutineInv, RoutineTypes, RoutineTypeOK
  <2> QED BY <2>1, <2>2, <2>3, <1>1, <1>2, QuietInv, QuietFacts
<1> QED BY <1>4, <1>5, <1>6

\* A cancellation request: a run that was never activated ends at once, with no
\* row of it in the journal.
LEMMA RequestCancellationInv ==
  ASSUME RoutineInv, RequestRoutineCancellation
  PROVE  RoutineInv'
<1>1. /\ UNCHANGED <<rows, served, effects, checkpoint, admitted, turns, waits, clock, auth,
                     finishing, completing>>
      /\ cancelRequested' = TRUE /\ run \notin Terminal
  BY DEF RequestRoutineCancellation
<1>2. \A t \in AgentSteps : checkpoint'[t] = "completed" => \A c \in CallsOf(t)' : RowOf(c) = "completed"
  BY <1>1, QuietFacts DEF CallsOf
<1>3. CASE run /= "queued"
  <2>1. UNCHANGED <<run, outcome>>
    BY <1>3 DEF RequestRoutineCancellation
  <2>2. RoutineTypes'
    BY <2>1, <1>1 DEF RoutineInv, RoutineTypes, RoutineTypeOK
  <2> QED BY <2>1, <2>2, <1>1, <1>2, QuietInv, QuietFacts
<1>4. CASE run = "queued"
  <2>1. run' = "canceled" /\ outcome' = "cancelled"
    BY <1>4 DEF RequestRoutineCancellation
  <2>2. RoutineTypes'
    BY <2>1, <1>1 DEF RoutineInv, RoutineTypes, RoutineTypeOK, Terminal
  <2>3. InFlight' = {}
    BY <1>1, <1>4 DEF RoutineInv, QueuedIsFresh, InFlight
  <2>4. JournalInv({})'
    BY <1>1, JournalUnchanged DEF RoutineInv
  <2>5. EndedWhenPublished' /\ QueuedIsFresh' /\ InFlightIsUncertain' /\ PublishedSuccess'
    BY <2>1, <2>3 DEF EndedWhenPublished, QueuedIsFresh, InFlightIsUncertain, PublishedSuccess, Terminal
  <2>6. \A s : Reached(s)' = Reached(s)
    BY <1>1 DEF Reached, GoesOn, StepVerdict, Receipt, RowOf, CallOf
  <2>7. AuthorizedIsReached' /\ StepsInOrder'
    BY <1>1, <2>6 DEF RoutineInv, AuthorizedIsReached, StepsInOrder, RowOf
  <2>8. CheckpointsBacked'
    BY <1>1 DEF RoutineInv, CheckpointsBacked, CallsOf, RowOf
  <2> QED BY <2>2, <2>4, <2>5, <2>7, <2>8 DEF RoutineInv
<1> QED BY <1>3, <1>4

\* Publication: what is in flight makes the outcome uncertain, and a success is
\* confirmed against the journal in the same transaction.
LEMMA PublishInv ==
  ASSUME RoutineInv, NEW p \in Completers, PublishRoutineCompletion(p)
  PROVE  RoutineInv'
<1> DEFINE o == PublishedOutcome(completing[p].state)
           published == NotPublished /\ (o = "completed" => CompletionConfirmed)
<1>1. /\ UNCHANGED <<rows, served, effects, checkpoint, admitted, turns, clock, cancelRequested,
                     auth, finishing>>
      /\ completing[p].pc = "evaluated"
      /\ completing' = [completing EXCEPT ![p] = NotCompleting]
  BY DEF PublishRoutineCompletion
<1>2. /\ completing' \in [Completers -> CompletingTypes]
      /\ \A q \in Completers : /\ completing'[q].pc \in {"idle", "recovering", "evaluated"}
                               /\ completing'[q].seal.step \in AgentSteps \cup {0}
                               /\ SealStated(completing[q].seal)'
                               /\ completing'[q].pc = "evaluated" => completing'[q].state /= "none"
  BY <1>1, CompletingTyped, NotCompletingType DEF RoutineInv
<1>3. o \in {"completed", "partial", "failed", "uncertain", "cancelled"}
  BY <1>1 DEF RoutineInv, RoutineTypes, CompletingTypes, PublishedOutcome
<1>4. \A t \in AgentSteps : checkpoint'[t] = "completed" => \A c \in CallsOf(t)' : RowOf(c) = "completed"
  BY <1>1, QuietFacts DEF CallsOf
<1>5. CASE ~ published
  <2>1. UNCHANGED <<outcome, run, waits>>
    BY <1>5 DEF PublishRoutineCompletion
  <2>2. RoutineTypes'
    BY <2>1, <1>1, <1>2 DEF RoutineInv, RoutineTypes, RoutineTypeOK
  <2> QED BY <2>1, <2>2, <1>1, <1>4, QuietInv, QuietFacts
<1>6. CASE published
  <2>1. /\ outcome' = o /\ run' = StateOf(o) /\ outcome = ""
        /\ waits' = [s \in WaitSteps |-> IF waits[s] = "waiting" THEN "cancelled" ELSE waits[s]]
        /\ o = "completed" => CompletionConfirmed
    BY <1>6 DEF PublishRoutineCompletion, NotPublished
  <2>2. StateOf(o) \in Terminal
    BY DEF StateOf, Terminal
  <2>3. InFlight' /= {} => o = "uncertain"
    BY <1>1 DEF InFlight, PublishedOutcome
  <2> HIDE DEF o, published
  <2>4. \A s \in WaitSteps : waits'[s] = "completed" <=> waits[s] = "completed"
    BY <2>1
  <2>5. waits' \in [WaitSteps -> {"pending", "waiting", "completed", "expired", "cancelled"}]
    BY <2>1 DEF RoutineInv, RoutineTypes, RoutineTypeOK
  <2>6. RoutineTypes'
    BY <2>1, <2>2, <2>5, <1>1, <1>2, <1>3 DEF RoutineInv, RoutineTypes, RoutineTypeOK, Terminal
  <2>7. JournalInv({})'
    BY <1>1, JournalUnchanged DEF RoutineInv
  <2>8. EndedWhenPublished' /\ QueuedIsFresh' /\ InFlightIsUncertain'
    BY <2>1, <2>2, <2>3 DEF EndedWhenPublished, QueuedIsFresh, InFlightIsUncertain, Terminal
  <2>9. ReceiptsKept
    BY <1>1, <2>4 DEF ReceiptsKept, RowOf
  <2>10. \A s \in Steps : Reached(s) => Reached(s)'
    BY <2>6, <2>9, ReachedStable DEF RoutineInv, RoutineTypes
  <2>11. \A c \in Calls : RowOf(c)' = RowOf(c) /\ StepOf[c] \in Steps
    BY <1>1, StepsAssumption DEF RowOf
  <2>12. AuthorizedIsReached'
    <3>1. \A u \in Workers : auth[u] /= "none" => StepOf[auth[u]] \in Steps
      BY <2>11 DEF RoutineInv, RoutineTypes, RoutineTypeOK
    <3> QED BY <3>1, <2>10, <1>1 DEF RoutineInv, AuthorizedIsReached
  <2>13. StepsInOrder'
    BY <1>1, <2>4, <2>10, <2>11 DEF RoutineInv, StepsInOrder
  <2>14. CheckpointsBacked'
    BY <1>1 DEF RoutineInv, CheckpointsBacked, CallsOf, RowOf
  <2>15. PublishedSuccess'
    <3>1. CompletionConfirmed => \A c \in Calls : RowOf(c) \in {"absent", "completed"}
      BY DEF CompletionConfirmed
    <3>2. CompletionConfirmed => \A s \in Steps \ Skipped : Receipt(s)' = "completed"
      BY <2>9, ReceiptStable DEF CompletionConfirmed
    <3> QED BY <3>1, <3>2, <2>1, <2>11 DEF PublishedSuccess
  <2> QED BY <2>6, <2>7, <2>8, <2>12, <2>13, <2>14, <2>15 DEF RoutineInv
<1> QED BY <1>5, <1>6

\* Every step of the routine keeps the invariant.
LEMMA RoutineStepInv == RoutineInv /\ [RoutineNext]_allVars => RoutineInv'
<1> SUFFICES ASSUME RoutineInv, [RoutineNext]_allVars PROVE RoutineInv'
  OBVIOUS
<1>1. CASE UNCHANGED allVars
  <2>1. RoutineTypes'
    BY <1>1 DEF allVars, journalVars, routineVars, RoutineInv, RoutineTypes, RoutineTypeOK
  <2>2. \A t \in AgentSteps : checkpoint'[t] = "completed" => \A c \in CallsOf(t)' : RowOf(c) = "completed"
    BY <1>1, QuietFacts DEF CallsOf, allVars, routineVars
  <2> QED BY <1>1, <2>1, <2>2, QuietInv, QuietFacts DEF allVars, journalVars, routineVars
<1>2. CASE RoutineNext
  <2>1. ASSUME NEW w \in Workers,
               \/ \E c \in Calls : AuthorizeRoutineCall(w, c)
               \/ \E a \in Args : ClaimEffect(w, a)
               \/ ServeEffect(w)
        PROVE  RoutineInv'
    BY <2>1, AuthorizeInv, ClaimEffectInv, ServeEffectInv
  <2>2. ASSUME NEW s \in AgentSteps,
               \/ OpenRoutineAgent(s) \/ ReserveModelTurn(s) \/ RecordRoutineModelUsage(s)
               \/ EvaluateRoutineAgent(s)
               \/ \E p \in Completers : RecoverRoutineAgent(p, s)
        PROVE  RoutineInv'
    BY <2>2, OpenAgentInv, TurnsInv, EvaluateAgentInv, CompletingInv
  <2>3. ASSUME NEW p \in Completers,
               \/ \E asCancel \in BOOLEAN : CompleteRoutine(p, asCancel)
               \/ StartUndeliverable(p) \/ SealRoutineAgent(p) \/ EvaluateReport(p)
               \/ PublishRoutineCompletion(p) \/ CrashCompletion(p)
        PROVE  RoutineInv'
    BY <2>3, CompletingInv, StartUndeliverableInv, SealAgentInv, PublishInv
  <2> QED BY <1>2, <2>1, <2>2, <2>3, RunStateInv, FinishAgentInv, RequestCancellationInv, WaitsInv
          DEF RoutineNext
<1> QED BY <1>1, <1>2

\* The routine's invariant.
LEMMA RoutineSafety == RoutineSpec => []RoutineInv
<1>1. RoutineInit => RoutineInv
  <2> SUFFICES ASSUME RoutineInit PROVE RoutineInv
    OBVIOUS
  <2>1. /\ Absent \in [state : States, code : Codes, args : Args \cup {v2}]
        /\ Absent.state = "absent"
    BY DEF Absent, States, Codes
  <2>2. Idle(NoKey, "none") \in [pc : {"idle", "executing", "executed"}, key : Keys \cup {NoKey},
                                 args : Args \cup {v2}, out : Outcomes, answer : Answers]
    BY DEF Idle, Outcomes, Answers
  <2>3. JournalTypes
    <3>1. rows \in [Keys -> [state : States, code : Codes, args : Args \cup {v2}]]
      BY <2>1 DEF RoutineInit
    <3>2. 0 \in 0 .. MaxEffects
      BY CallsAssumption
    <3>3. effects \in [Calls -> 0 .. MaxEffects]
      BY <3>2 DEF RoutineInit
    <3> QED BY <2>2, <3>1, <3>3 DEF RoutineInit, JournalTypes
  <2>4. /\ \A k \in Keys : rows[k].state = "absent"
        /\ \A w \in Workers : served[w].pc = "idle" /\ served[w].answer = "none"
        /\ \A c \in Calls : effects[c] = 0
    <3>1. \A k \in Keys : rows[k] = Absent
      BY DEF RoutineInit
    <3>2. \A w \in Workers : served[w].pc = "idle" /\ served[w].answer = "none"
      BY DEF RoutineInit, Idle
    <3>3. \A c \in Calls : effects[c] = 0
      BY DEF RoutineInit
    <3> QED BY <2>1, <3>1, <3>2, <3>3
  <2>5. JournalInv({})
    <3>1. HoldersHoldStartedRows /\ OneHolder /\ OldKeysFixed /\ AnswersStored /\ EffectsBehind
      BY <2>4 DEF HoldersHoldStartedRows, OneHolder, OldKeysFixed, AnswersStored, EffectsBehind
    <3>2. Untouched({}) /\ OneUnconfirmedWrite
      BY <2>4 DEF Untouched, OneUnconfirmedWrite, Unconfirmed
    <3> QED BY <2>3, <3>1, <3>2 DEF JournalInv
  <2>6. completing \in [Completers -> CompletingTypes]
    BY NotCompletingType DEF RoutineInit
  <2>7. \A p \in Completers : completing[p] = NotCompleting
    BY DEF RoutineInit
  <2>8. NotCompleting.seal.step \in AgentSteps \cup {0}
    BY NotCompletingType DEF NotCompleting
  <2>9. turns \in [AgentSteps -> [claimed : 0 .. MaxTurns, finished : 0 .. MaxTurns]]
    <3>1. [claimed |-> 0, finished |-> 0] \in [claimed : 0 .. MaxTurns, finished : 0 .. MaxTurns]
      BY StepsAssumption
    <3> QED BY <3>1 DEF RoutineInit
  <2>10. RoutineTypeOK
    <3>1. \A p \in Completers : /\ completing[p].pc \in {"idle", "recovering", "evaluated"}
                                 /\ completing[p].seal.step \in AgentSteps \cup {0}
      BY <2>7, <2>8, NotCompletingType
    <3>2. finishing.step \in AgentSteps \cup {0}
      BY NotCompletingType DEF RoutineInit
    <3>3. rows \in [Keys -> [state : States, code : Codes, args : Args \cup {v2}]]
      BY <2>3 DEF JournalTypes
    <3>4. /\ checkpoint \in [AgentSteps -> {"pending", "running", "completed", "failed", "partial", "uncertain"}]
          /\ waits \in [WaitSteps -> {"pending", "waiting", "completed", "expired", "cancelled"}]
          /\ clock \in [WaitSteps -> {"early", "due", "late"}]
          /\ auth \in [Workers -> Calls \cup {"none"}]
      BY DEF RoutineInit
    <3>5. /\ run \in {"queued", "running", "awaiting_approval", "awaiting_timer"} \cup Terminal
          /\ admitted \subseteq Calls
          /\ cancelRequested \in BOOLEAN
          /\ outcome \in {"", "completed", "partial", "failed", "uncertain", "cancelled"}
      BY DEF RoutineInit
    <3> QED BY <2>9, <3>1, <3>2, <3>3, <3>4, <3>5 DEF RoutineTypeOK
  <2>11. RoutineTypes
    BY <2>6, <2>7, <2>10, NotCompletingType DEF RoutineTypes, RoutineInit
  <2>12. \A c \in Calls : <<c, v2>> \in Keys
    BY DEF Keys
  <2>13. EndedWhenPublished /\ QueuedIsFresh /\ InFlightIsUncertain /\ AuthorizedIsReached /\ PublishedSuccess
    BY <2>4 DEF RoutineInit, EndedWhenPublished, QueuedIsFresh, InFlightIsUncertain, AuthorizedIsReached,
       PublishedSuccess
  <2>14. StepsInOrder /\ CheckpointsBacked
    BY <2>4, <2>12 DEF RoutineInit, StepsInOrder, RowOf, CheckpointsBacked
  <2> QED BY <2>5, <2>11, <2>13, <2>14 DEF RoutineInv
<1> QED BY <1>1, RoutineStepInv, PTL DEF RoutineSpec

\* The routine is well typed.
THEOREM RoutineTypeCorrect == RoutineSpec => []RoutineTypeOK
<1>1. RoutineInv => RoutineTypeOK
  BY DEF RoutineInv, RoutineTypes
<1> QED BY <1>1, RoutineSafety, PTL

\* A published success (PublishRoutineCompletion) stands for steps that are all
\* done and calls that are all confirmed and took effect, for ever after; so
\* does an agent step stored as completed (FinishRoutineAgent).
THEOREM SuccessIsConfirmedHolds == RoutineSpec => []SuccessIsConfirmed
<1>1. RoutineInv => SuccessIsConfirmed
  <2> SUFFICES ASSUME RoutineInv PROVE SuccessIsConfirmed
    OBVIOUS
  <2>1. \A c \in Calls : <<c, v2>> \in Keys /\ effects[c] \in Nat
    BY CallsAssumption DEF Keys, RoutineInv, JournalInv, JournalTypes
  <2>2. \A c \in Calls : RowOf(c) = "absent" => effects[c] = 0
    BY DEF RoutineInv, JournalInv, Untouched, RowOf
  <2>3. \A c \in Calls : RowOf(c) = "completed" => effects[c] /= 0
    <3> SUFFICES ASSUME NEW c \in Calls, RowOf(c) = "completed" PROVE effects[c] /= 0
      OBVIOUS
    <3>1. effects[<<c, v2>>[1]] >= 1
      BY <2>1 DEF RoutineInv, JournalInv, EffectsBehind, RowOf
    <3> QED BY <3>1, <2>1
  <2>4. outcome = "completed" =>
          \A c \in Calls : IF effects[c] = 0 THEN RowOf(c) = "absent" ELSE RowOf(c) = "completed"
    BY <2>2, <2>3 DEF RoutineInv, PublishedSuccess
  <2>5. outcome = "completed" => \A s \in Steps \ Skipped : Receipt(s) = "completed"
    BY DEF RoutineInv, PublishedSuccess
  <2> QED BY <2>4, <2>5 DEF RoutineInv, CheckpointsBacked, SuccessIsConfirmed
<1> QED BY <1>1, RoutineSafety, PTL

\* An action in flight is only ever published as uncertain, and none starts
\* behind a published outcome (the claim needs the lock of a running run).
THEOREM InFlightIsUncertainHolds == RoutineSpec => []InFlightIsUncertain
<1>1. RoutineInv => InFlightIsUncertain
  BY DEF RoutineInv
<1> QED BY <1>1, RoutineSafety, PTL

\* No effect of a step without those of the steps before it, and no wait that
\* is over before its time (authorizeRoutineCall, ResumeRoutineWait).
THEOREM StepsInOrderHolds == RoutineSpec => []StepsInOrder
<1>1. RoutineInv => StepsInOrder
  BY DEF RoutineInv
<1> QED BY <1>1, RoutineSafety, PTL

\* The mutations of a routine, too, take effect at most once.
THEOREM RoutineMutatesAtMostOnce == RoutineSpec => []MutationsAtMostOnce
<1>1. RoutineInv => MutationsAtMostOnce
  BY DEF RoutineInv, JournalInv, Untouched, MutationsAtMostOnce
<1> QED BY <1>1, RoutineSafety, PTL
=============================================================================
