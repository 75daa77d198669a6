------------------------- MODULE AIInvocationProofs -------------------------
(* Proofs about one AI invocation: what its callbacks leave in the log, that  *)
(* a workflow which has finished has been recorded, and that the client's     *)
(* stream implements InvocationStream whatever replica serves it.             *)
EXTENDS AIInvocation, SequenceTheorems, TLAPS

-----------------------------------------------------------------------------
(* The invariant.  A copy of the log, in a replica or at the client, is a     *)
(* prefix of it; an end that anybody has seen has happened; a request the     *)
(* workflow waits for is at the point the workflow is at.                     *)

RecordT == [here : BOOLEAN, events : Seq(Events), state : States]
StartT == [pc : {"pending", "starting", "started", "unstarted", "failing", "done"},
           attempts : Nat, fatal : BOOLEAN]
ProbeT == [pc : {"none", "queued", "observed"}, stopped : BOOLEAN, late : BOOLEAN]
EngineT == [pc : {"none", "lost", "activate", "work", "parked", "complete", "ended", "refused"},
            status : Statuses \cup {"none"}, call : Handlers \cup {"none"}]
HandlerT == [pc : {"idle", "begin", "append", "touch", "revoke", "stop"},
             kind : {"none", "activate", "work", "complete", "cancel"},
             replica : Replicas \cup {"none"},
             status : Statuses \cup {"none", "ended", "bound", "unbound", "lost"},
             todo : Seq(Events)]
StreamT == [pc : {"off", "row", "state", "events", "interrupt", "loop", "emit", "closed", "gone"},
            replica : Replicas \cup {"none"}, seen : States, bound : BOOLEAN, got : Seq(Events)]

\* What a request may still have to append: the rest of its script.
Todos(kind) ==
  CASE kind = "activate" -> {<<"started", "status">>, <<"status">>}
    [] kind = "work" -> {<<"progress">>}
    [] kind = "cancel" -> {<<"canceled">>}
    [] kind = "complete" ->
         {<<"message", "artifact", "approval", "completed">>, <<"artifact", "approval", "completed">>,
          <<"approval", "completed">>, <<"message", "completed">>, <<"completed">>,
          <<"message", "failed">>, <<"failed">>}
    [] OTHER -> {}

AtWork(v) ==
  /\ v.pc /= "idle" => v.replica \in Replicas
  /\ v.pc = "begin" => v.kind \in {"activate", "work", "complete"}
  /\ v.pc = "append" => v.todo \in Todos(v.kind)
  /\ v.pc = "touch" => v.kind = "work"
  /\ v.pc \in {"revoke", "stop"} => v.kind = "cancel" /\ v.todo = <<"canceled">>
  /\ v.kind = "complete" => v.status \in Statuses \cup {"lost"}
  /\ v.kind = "complete" /\ v.pc = "begin" => v.status \in Statuses

HandlersAtWork == \A h \in Handlers : AtWork(handler[h])

EngineWaits ==
  /\ engine.call /= "none" => /\ handler[engine.call].pc \in {"begin", "append", "touch"}
                              /\ handler[engine.call].kind = engine.pc
                              /\ engine.pc \in {"activate", "work", "complete"}
  /\ engine.pc = "complete" => engine.status \in Statuses

EndsAreReal ==
  \/ state \in Ended
  \/ /\ ~cancelDue
     /\ \A h \in Handlers : handler[h].pc /= "stop"
     /\ \A r \in Replicas : hub[r].state \notin Ended
     /\ stream.seen \notin Ended

PartOf(s, t) == Len(s) <= Len(t) /\ \A i \in 1 .. Len(s) : s[i] = t[i]

CopiesOfLog ==
  /\ \A r \in Replicas : PartOf(hub[r].events, log)
  /\ PartOf(stream.got, log)
  /\ stream.pc \notin {"off", "gone"} => stream.replica \in Replicas

\* The types of everything but the life of the row, by part.
PartsOK ==
  /\ state \in States /\ bound \in BOOLEAN /\ log \in Seq(Events)
  /\ hub \in [Replicas -> RecordT]
  /\ start \in StartT /\ cancelDue \in BOOLEAN /\ probe \in ProbeT
  /\ engine \in EngineT /\ handler \in [Handlers -> HandlerT]
  /\ told \in {"nothing", "stopped", "not persisted", "failed"}
  /\ stream \in StreamT
  /\ requests \in 0 .. MaxRequests /\ waits \in 0 .. MaxWaits /\ faults \in 0 .. MaxFaults

InvocationInv ==
  /\ PartsOK
  /\ HandlersAtWork
  /\ EngineWaits
  /\ FinishedIsRecorded
  /\ RepeatsAreRecordedOnce
  /\ EndsAreReal
  /\ CopiesOfLog

-----------------------------------------------------------------------------
(* Sequences and small records.                                               *)

\* Appending to a log keeps what was part of it.
LEMMA PartOfAppend ==
  ASSUME NEW s \in Seq(Events), NEW t \in Seq(Events), NEW e \in Events, PartOf(s, t)
  PROVE  PartOf(s, Append(t, e))
BY DEF PartOf

\* A part of a log that is no shorter than it is the log.
LEMMA PartIsWhole ==
  ASSUME NEW s \in Seq(Events), NEW t \in Seq(Events), PartOf(s, t), Len(t) <= Len(s)
  PROVE  s = t
BY DEF PartOf

\* What lies beyond the cursor completes the log (the loop of InvocationEvents).
LEMMA RestCompletes ==
  ASSUME NEW s \in Seq(Events), NEW t \in Seq(Events), PartOf(s, t)
  PROVE  s \o Beyond(t, Len(s)) = t
<1> DEFINE b == Beyond(t, Len(s))
           c == s \o b
<1>1. Len(s) \in Nat /\ Len(t) \in Nat /\ Len(s) <= Len(t)
  BY DEF PartOf
<1>2. /\ b \in Seq(Events) /\ Len(b) = Len(t) - Len(s)
      /\ \A i \in 1 .. (Len(t) - Len(s)) : b[i] = t[Len(s) + i]
  BY <1>1 DEF Beyond
<1> HIDE DEF b
<1>3. /\ c \in Seq(Events) /\ Len(c) = Len(s) + Len(b)
      /\ \A i \in 1 .. Len(s) + Len(b) : c[i] = IF i <= Len(s) THEN s[i] ELSE b[i - Len(s)]
  BY <1>2, ConcatProperties
<1> HIDE DEF c
<1>4. ASSUME NEW i \in 1 .. Len(c)
      PROVE  c[i] = t[i]
  <2>1. CASE i <= Len(s)
    BY <1>1, <1>2, <1>3, <2>1 DEF PartOf
  <2>2. CASE i > Len(s)
    BY <1>1, <1>2, <1>3, <2>2
  <2> QED
    BY <1>1, <2>1, <2>2
<1>5. c = t
  BY <1>1, <1>2, <1>3, <1>4, SeqEqual
<1> QED
  BY <1>5 DEF b, c

\* The probe keeps its type when the row is touched.
LEMMA TouchedType ==
  ASSUME probe \in ProbeT
  PROVE  Touched \in ProbeT
<1>1. CASE probe.pc = "none"
  BY <1>1 DEF Touched, ProbeT
<1>2. CASE probe.pc /= "none"
  BY <1>2 DEF Touched, ProbeT
<1> QED
  BY <1>1, <1>2

\* The first and the other elements of a short sequence.
LEMMA Tails ==
  ASSUME NEW a, NEW b, NEW c, NEW d
  PROVE  /\ Tail(<<a>>) = <<>> /\ Tail(<<a, b>>) = <<b>>
         /\ Tail(<<a, b, c>>) = <<b, c>> /\ Tail(<<a, b, c, d>>) = <<b, c, d>>
         /\ Head(<<a>>) = a /\ Head(<<a, b>>) = a
         /\ Head(<<a, b, c>>) = a /\ Head(<<a, b, c, d>>) = a
         /\ <<a>> /= <<>> /\ <<a, b>> /= <<>> /\ <<a, b, c>> /= <<>> /\ <<a, b, c, d>> /= <<>>
OBVIOUS

\* The script of a completion (agentRuntimeCompleteAIInvocation) is one of the
\* lists of events that a completion may still have to append.
LEMMA ScriptIs ==
  \A s \in Statuses : Script(s) \in Todos("complete")
BY DEF Todos, Script, Statuses

\* What is left of a script after its first event; a completion ends with the
\* event that ends the invocation.
LEMMA RestOfScript ==
  ASSUME NEW k \in {"activate", "work", "cancel", "complete"}, NEW t \in Todos(k)
  PROVE  /\ t \in Seq(Events) /\ Head(t) \in Events
         /\ Tail(t) = <<>> \/ Tail(t) \in Todos(k)
         /\ k \in {"work", "cancel"} => Tail(t) = <<>>
         /\ k = "complete" => /\ Head(t) \notin Receipted
                              /\ Tail(t) = <<>> => Head(t) \in {"completed", "failed"}
<1> USE Tails DEF Events, Progress, Endings, Receipted, Todos
<1>1. CASE k = "complete" /\ t = <<"message", "artifact", "approval", "completed">>
  BY <1>1
<1>2. CASE k = "complete" /\ t = <<"artifact", "approval", "completed">>
  BY <1>2
<1>3. CASE k = "complete" /\ t = <<"approval", "completed">>
  BY <1>3
<1>4. CASE k = "complete" /\ t = <<"message", "completed">>
  BY <1>4
<1>5. CASE k = "complete" /\ t = <<"completed">>
  BY <1>5
<1>6. CASE k = "complete" /\ t = <<"message", "failed">>
  BY <1>6
<1>7. CASE k = "complete" /\ t = <<"failed">>
  BY <1>7
<1>8. CASE k = "activate" /\ t = <<"started", "status">>
  BY <1>8
<1>9. CASE k = "activate" /\ t = <<"status">>
  BY <1>9
<1>10. CASE k = "work" /\ t = <<"progress">>
  BY <1>10
<1>11. CASE k = "cancel" /\ t = <<"canceled">>
  BY <1>11
<1>12. \/ k = "complete" /\ t \in {<<"message", "artifact", "approval", "completed">>,
            <<"artifact", "approval", "completed">>, <<"approval", "completed">>,
            <<"message", "completed">>, <<"completed">>, <<"message", "failed">>, <<"failed">>}
       \/ k = "activate" /\ t \in {<<"started", "status">>, <<"status">>}
       \/ k = "work" /\ t = <<"progress">>
       \/ k = "cancel" /\ t = <<"canceled">>
  OBVIOUS
<1> QED
  BY <1>1, <1>2, <1>3, <1>4, <1>5, <1>6, <1>7, <1>8, <1>9,
     <1>10, <1>11, <1>12

\* The states and the events.
LEMMA Sorts ==
  /\ Ended \subseteq States /\ Active \subseteq States /\ Active \cap Ended = {}
  /\ "queued" \in States \ Ended /\ "running" \in States \ Ended /\ "awaiting" \in States \ Ended
  /\ "canceled" \in Ended /\ "failed" \in Ended
  /\ Progress \cap Endings = {} /\ Events = Progress \cup Endings
  /\ {"undelivered", "interrupted", "reconciled"} \subseteq Endings
  /\ {"waiting", "resumed"} \subseteq Progress
BY DEF States, Active, Ended, Events, Progress, Endings

-----------------------------------------------------------------------------
(* What any step does, part by part: to the rows, to the copies in memory, to *)
(* the client's stream, to the requests and the workflow, and to the rest.    *)

Outcome == IF state \in Ended THEN state ELSE "none"

\* The row and the log take a step of InvocationStream, or none.
RowsMove ==
  /\ state' \in States /\ bound' \in BOOLEAN /\ log' \in Seq(Events)
  /\ state \in Ended => state' = state /\ log' = log
  /\ PartOf(log, log')
  /\ RepeatsAreRecordedOnce'
  /\ \/ log' = log /\ Outcome' = Outcome
     \/ Outcome = "none" /\ Outcome' = "none" /\ \E e \in Progress : log' = Append(log, e)
     \/ /\ Outcome = "none" /\ Outcome' \in Ended
        /\ log' = log \/ \E e \in EndingsOf[Outcome'] : log' = Append(log, e)

\* A copy is kept, lost, or taken afresh from the log.
HubMoves ==
  /\ hub' \in [Replicas -> RecordT]
  /\ \A r \in Replicas :
       \/ hub'[r] = hub[r]
       \/ hub'[r].events \in {<<>>, log'} /\ (hub'[r].state \in Ended => state' \in Ended)

\* The client has what it had, or all of the log.
StreamMoves ==
  /\ stream' \in StreamT
  /\ stream'.pc \notin {"off", "gone"} => stream'.replica \in Replicas
  /\ stream'.seen \in Ended => stream.seen \in Ended \/ state' \in Ended
  /\ \/ stream'.got = stream.got /\ (stream'.pc = "closed" <=> stream.pc = "closed")
     \/ /\ stream'.got = log /\ stream.pc /= "closed" /\ log' = log /\ state' = state
        /\ stream'.pc = "closed" => state \in Ended

AgentMoves ==
  /\ handler' \in [Handlers -> HandlerT] /\ engine' \in EngineT
  /\ told' \in {"nothing", "stopped", "not persisted", "failed"}
  /\ HandlersAtWork' /\ EngineWaits' /\ FinishedIsRecorded'
  /\ \A h \in Handlers : handler'[h].pc = "stop" => handler[h].pc = "stop" \/ state' \in Ended

RestMoves ==
  /\ start' \in StartT /\ probe' \in ProbeT
  /\ cancelDue' \in BOOLEAN /\ (cancelDue' => cancelDue \/ state' \in Ended)
  /\ requests' \in 0 .. MaxRequests /\ waits' \in 0 .. MaxWaits /\ faults' \in 0 .. MaxFaults

Moves == RowsMove /\ HubMoves /\ StreamMoves /\ AgentMoves /\ RestMoves

\* The types, by part.
LEMMA Types ==
  PartsOK <=>
    /\ state \in States /\ bound \in BOOLEAN /\ log \in Seq(Events)
    /\ hub \in [Replicas -> RecordT]
    /\ start \in StartT /\ cancelDue \in BOOLEAN /\ probe \in ProbeT
    /\ engine \in EngineT /\ handler \in [Handlers -> HandlerT]
    /\ told \in {"nothing", "stopped", "not persisted", "failed"}
    /\ stream \in StreamT
    /\ requests \in 0 .. MaxRequests /\ waits \in 0 .. MaxWaits /\ faults \in 0 .. MaxFaults
BY DEF PartsOK

\* The types of the next state, by part.
LEMMA TypesNext ==
  (/\ state \in States /\ bound \in BOOLEAN /\ log \in Seq(Events)
   /\ hub \in [Replicas -> RecordT]
   /\ start \in StartT /\ cancelDue \in BOOLEAN /\ probe \in ProbeT
   /\ engine \in EngineT /\ handler \in [Handlers -> HandlerT]
   /\ told \in {"nothing", "stopped", "not persisted", "failed"}
   /\ stream \in StreamT
   /\ requests \in 0 .. MaxRequests /\ waits \in 0 .. MaxWaits /\ faults \in 0 .. MaxFaults)'
  => PartsOK'
BY DEF PartsOK

\* A step that moves every part as described keeps the invariant.
LEMMA MovesKeepInv ==
  ASSUME InvocationInv, Moves
  PROVE  InvocationInv'
<1> USE DEF InvocationInv, Moves
<1>1. PartsOK'
  BY TypesNext DEF RowsMove, HubMoves, StreamMoves, AgentMoves, RestMoves
<1>2. HandlersAtWork' /\ EngineWaits' /\ FinishedIsRecorded'
  BY DEF AgentMoves
<1>3. RepeatsAreRecordedOnce'
  BY DEF RowsMove
<1>4. EndsAreReal'
  <2> SUFFICES ASSUME state' \notin Ended
               PROVE  EndsAreReal'
    BY DEF EndsAreReal
  <2>1. state \notin Ended
    BY DEF RowsMove
  <2>2. /\ ~cancelDue
        /\ \A h \in Handlers : handler[h].pc /= "stop"
        /\ \A r \in Replicas : hub[r].state \notin Ended
        /\ stream.seen \notin Ended
    BY <2>1 DEF EndsAreReal
  <2>3. ~cancelDue'
    BY <2>2 DEF RestMoves
  <2>4. \A h \in Handlers : handler'[h].pc /= "stop"
    BY <2>2 DEF AgentMoves
  <2>5. \A r \in Replicas : hub'[r].state \notin Ended
    BY <2>2 DEF HubMoves
  <2>6. stream'.seen \notin Ended
    BY <2>2 DEF StreamMoves
  <2> QED
    BY <2>3, <2>4, <2>5, <2>6 DEF EndsAreReal
<1>5. CopiesOfLog'
  <2>1. log \in Seq(Events) /\ log' \in Seq(Events) /\ PartOf(log, log')
    BY Types DEF RowsMove
  <2>2. \A s \in Seq(Events) : PartOf(s, log) => PartOf(s, log')
    BY <2>1 DEF PartOf
  <2>3. PartOf(log', log')
    BY <2>1 DEF PartOf
  <2>4. PartOf(<<>>, log')
    BY <2>1 DEF PartOf
  <2>5. ASSUME NEW r \in Replicas
        PROVE  PartOf(hub'[r].events, log')
    <3>1. hub[r].events \in Seq(Events) /\ PartOf(hub[r].events, log)
      BY Types DEF RecordT, CopiesOfLog
    <3> QED
      BY <2>2, <2>3, <2>4, <3>1 DEF HubMoves
  <2>6. PartOf(stream'.got, log')
    <3>1. stream.got \in Seq(Events) /\ PartOf(stream.got, log)
      BY Types DEF StreamT, CopiesOfLog
    <3> QED
      BY <2>1, <2>2, <3>1 DEF StreamMoves
  <2> QED
    BY <2>5, <2>6 DEF CopiesOfLog, StreamMoves
<1> QED
  BY <1>1, <1>2, <1>3, <1>4, <1>5

\* The outcomes that the endings report.
LEMMA OutcomesHaveEndings == DOMAIN EndingsOf = Ended
BY DEF EndingsOf, Ended

\* A step that moves every part as described is a step of InvocationStream.
LEMMA MovesKeepPromise ==
  ASSUME InvocationInv, Moves
  PROVE  [Promise!Next]_(Promise!vars)
<1> USE DEF InvocationInv, Moves
<1>1. stream.got \in Seq(Events) /\ log \in Seq(Events) /\ PartOf(stream.got, log)
  BY Types DEF StreamT, CopiesOfLog
<1>2. CASE stream'.got = stream.got /\ (stream'.pc = "closed" <=> stream.pc = "closed")
  <2>1. (stream.pc = "closed")' = (stream.pc = "closed")
    BY <1>2
  <2>2. CASE log' = log /\ Outcome' = Outcome
    BY <1>2, <2>1, <2>2 DEF Promise!vars, Outcome
  <2>3. CASE Outcome = "none" /\ Outcome' = "none" /\ \E e \in Progress : log' = Append(log, e)
    BY <1>2, <2>1, <2>3 DEF Promise!vars, Promise!Next, Promise!Record, Outcome
  <2>4. CASE /\ Outcome = "none" /\ Outcome' \in Ended
             /\ log' = log \/ \E e \in EndingsOf[Outcome'] : log' = Append(log, e)
    BY <1>2, <2>1, <2>4, OutcomesHaveEndings DEF Promise!vars, Promise!Next, Promise!End, Outcome
  <2> QED
    BY <2>2, <2>3, <2>4 DEF RowsMove
<1>3. CASE /\ stream'.got = log /\ stream.pc /= "closed" /\ log' = log /\ state' = state
           /\ stream'.pc = "closed" => state \in Ended
  <2>1. Len(log) \in Len(stream.got) .. Len(log) /\ SubSeq(log, 1, Len(log)) = log
    BY <1>1 DEF PartOf
  <2>2. stream'.pc = "closed" => Outcome /= "none"
    BY <1>3 DEF Outcome, Ended
  <2>3. (stream.pc = "closed")' \in {FALSE, Outcome /= "none" /\ Len(log) = Len(log)}
    BY <2>2
  <2>4. Promise!Deliver(Len(log))
    BY <1>3, <2>1, <2>3 DEF Promise!Deliver, Outcome
  <2> QED
    BY <2>1, <2>4 DEF Promise!Next
<1> QED
  BY <1>2, <1>3 DEF StreamMoves

-----------------------------------------------------------------------------
(* Parts that a step leaves alone.                                            *)

\* The rows.
LEMMA RowsStay ==
  ASSUME InvocationInv, UNCHANGED <<state, log>>, bound' \in BOOLEAN
  PROVE  RowsMove
<1> USE DEF InvocationInv
<1>1. state \in States /\ log \in Seq(Events)
  BY Types
<1>2. PartOf(log, log)
  BY <1>1 DEF PartOf
<1>3. RepeatsAreRecordedOnce'
  BY DEF RepeatsAreRecordedOnce
<1> QED
  BY <1>1, <1>2, <1>3 DEF RowsMove, Outcome

\* A state that stays between its ends, with the log as it is.
LEMMA StateMoves ==
  ASSUME InvocationInv, state \notin Ended, state' \in States \ Ended, log' = log, bound' \in BOOLEAN
  PROVE  RowsMove
<1> USE DEF InvocationInv
<1>1. log \in Seq(Events)
  BY Types
<1>2. PartOf(log, log)
  BY <1>1 DEF PartOf
<1>3. RepeatsAreRecordedOnce'
  BY DEF RepeatsAreRecordedOnce
<1> QED
  BY <1>1, <1>2, <1>3 DEF RowsMove, Outcome

\* An end without an event: what CancelRow does, and the end of the Space.
LEMMA RowEnds ==
  ASSUME InvocationInv, state \notin Ended, state' \in Ended, log' = log, bound' \in BOOLEAN
  PROVE  RowsMove
<1> USE DEF InvocationInv
<1>1. log \in Seq(Events)
  BY Types
<1>2. PartOf(log, log)
  BY <1>1 DEF PartOf
<1>3. RepeatsAreRecordedOnce'
  BY DEF RepeatsAreRecordedOnce
<1> QED
  BY <1>1, <1>2, <1>3, Sorts DEF RowsMove, Outcome

\* A receipt that is not in the log is there once after it is appended.
LEMMA RecordedOnce ==
  ASSUME InvocationInv, NEW e \in Events, e \in Receipted => ~Logged(e), log' = Append(log, e)
  PROVE  /\ log' \in Seq(Events) /\ PartOf(log, log')
         /\ RepeatsAreRecordedOnce'
<1> USE DEF InvocationInv
<1>1. log \in Seq(Events)
  BY Types
<1>2. log' \in Seq(Events) /\ PartOf(log, log')
  BY <1>1 DEF PartOf
<1>3. RepeatsAreRecordedOnce'
  <2> SUFFICES ASSUME NEW i \in DOMAIN log', NEW j \in DOMAIN log',
                      log'[i] = log'[j], log'[i] \in Receipted
               PROVE  i = j
    BY DEF RepeatsAreRecordedOnce
  <2>1. /\ Len(log) \in Nat /\ DOMAIN log = 1 .. Len(log) /\ DOMAIN log' = 1 .. (Len(log) + 1)
        /\ log'[Len(log) + 1] = e /\ \A k \in 1 .. Len(log) : log'[k] = log[k]
    BY <1>1
  <2>2. CASE i \in 1 .. Len(log) /\ j \in 1 .. Len(log)
    BY <2>1, <2>2 DEF RepeatsAreRecordedOnce
  <2>3. CASE i = Len(log) + 1 /\ j \in 1 .. Len(log)
    BY <2>1, <2>3 DEF Logged
  <2>4. CASE j = Len(log) + 1 /\ i \in 1 .. Len(log)
    BY <2>1, <2>4 DEF Logged
  <2> QED
    BY <2>1, <2>2, <2>3, <2>4
<1> QED
  BY <1>2, <1>3

\* An event of an invocation that goes on.
LEMMA RowRecords ==
  ASSUME InvocationInv, NEW e \in Progress, e \in Receipted => ~Logged(e), state \notin Ended,
         log' = Append(log, e), state' \in States \ Ended, bound' \in BOOLEAN
  PROVE  RowsMove
<1>1. e \in Events
  BY Sorts
<1> QED
  BY <1>1, RecordedOnce DEF RowsMove, Outcome

\* The event that reports an end comes with it.
LEMMA RowReportsEnd ==
  ASSUME InvocationInv, state \notin Ended, state' \in Ended,
         NEW e \in EndingsOf[state'], e \in Events, e \in Receipted => ~Logged(e),
         log' = Append(log, e), bound' \in BOOLEAN
  PROVE  RowsMove
BY RecordedOnce, Sorts DEF RowsMove, Outcome

\* A committed event (CommitAIInvocationEvent) moves the rows and the rest; the
\* event of an end leaves the invocation ended.
LEMMA CommitMoves ==
  ASSUME InvocationInv, NEW e \in Events, CommitEvent(e), bound' = bound
  PROVE  /\ RowsMove
         /\ probe' \in ProbeT
         /\ cancelDue' \in BOOLEAN /\ (cancelDue' => cancelDue \/ state' \in Ended)
         /\ e \in Endings \ Receipted => state' \in Ended
<1> USE DEF InvocationInv
<1>1. state \in States /\ bound \in BOOLEAN /\ cancelDue \in BOOLEAN /\ probe \in ProbeT
  BY Types
<1>2. cancelDue' \in BOOLEAN
  BY <1>1 DEF CommitEvent
<1>3. probe' \in ProbeT
  BY <1>1, TouchedType DEF CommitEvent
<1>4. CASE Repeated(e)
  <2>1. UNCHANGED <<state, log>> /\ (cancelDue' => cancelDue)
    BY <1>4 DEF CommitEvent
  <2>2. e \in Receipted
    BY <1>4 DEF Repeated
  <2> QED
    BY <1>1, <1>2, <1>3, <2>1, <2>2, RowsStay
<1>5. CASE ~Repeated(e)
  <2>1. /\ state \notin Ended /\ log' = Append(log, e) /\ state' = StateAfter(e)
        /\ e \in Receipted => ~Logged(e)
        /\ cancelDue' => cancelDue \/ e = "canceled"
    BY <1>5 DEF CommitEvent, Refused, Repeated
  <2>2. CASE e \in Progress
    <3>1. state' \in States \ Ended
      BY <1>1, <2>1, <2>2, Sorts DEF StateAfter, Progress, Endings
    <3>2. e \notin Endings
      BY <2>2, Sorts
    <3>3. e /= "canceled"
      BY <3>2 DEF Endings
    <3> QED
      BY <1>1, <1>2, <1>3, <2>1, <2>2, <3>1, <3>2, <3>3, RowRecords
  <2>3. CASE e \in Endings
    <3>1. state' \in Ended /\ e \in EndingsOf[state']
      BY <2>1, <2>3 DEF StateAfter, Ended, Endings, EndingsOf, Progress
    <3> QED
      BY <1>1, <1>2, <1>3, <2>1, <3>1, RowReportsEnd
  <2> QED
    BY <2>2, <2>3, Sorts
<1> QED
  BY <1>4, <1>5

\* The copies in memory.
LEMMA HubStays ==
  ASSUME InvocationInv, UNCHANGED hub
  PROVE  HubMoves
BY Types DEF InvocationInv, HubMoves

\* The stream.
LEMMA StreamStays ==
  ASSUME InvocationInv, UNCHANGED stream
  PROVE  StreamMoves
BY Types DEF InvocationInv, StreamMoves, CopiesOfLog

\* The requests and the workflow.
LEMMA AgentStays ==
  ASSUME InvocationInv, RowsMove, UNCHANGED <<handler, engine, told>>
  PROVE  AgentMoves
<1> USE DEF InvocationInv
<1>1. /\ handler \in [Handlers -> HandlerT] /\ engine \in EngineT
      /\ told \in {"nothing", "stopped", "not persisted", "failed"}
  BY Types
<1>2. HandlersAtWork' /\ EngineWaits'
  BY DEF HandlersAtWork, AtWork, EngineWaits
<1>3. FinishedIsRecorded'
  BY DEF FinishedIsRecorded, RowsMove
<1> QED
  BY <1>1, <1>2, <1>3 DEF AgentMoves

\* Everything but the counters.
LEMMA RestStays ==
  ASSUME InvocationInv, UNCHANGED <<start, cancelDue, requests, waits>>,
         probe' \in {probe, Touched}, faults' = faults \/ Spend
  PROVE  RestMoves
<1> USE DEF InvocationInv
<1>1. /\ start \in StartT /\ probe \in ProbeT /\ cancelDue \in BOOLEAN
      /\ requests \in 0 .. MaxRequests /\ waits \in 0 .. MaxWaits /\ faults \in 0 .. MaxFaults
  BY Types
<1>2. faults' \in 0 .. MaxFaults
  BY <1>1, InvocationAssumption DEF Spend
<1> QED
  BY <1>1, <1>2, TouchedType DEF RestMoves

-----------------------------------------------------------------------------
(* Parts that steps have in common.                                           *)

\* restore keeps a copy or takes the log, and a copy of the log is complete
\* after it.
LEMMA RestoredIs ==
  ASSUME NEW record \in RecordT, NEW events \in Seq(Events), NEW seen \in States
  PROVE  /\ Restored(record, events, seen) \in RecordT
         /\ \/ Restored(record, events, seen) = record
            \/ /\ Restored(record, events, seen).events = events
               /\ Restored(record, events, seen).state = seen
         /\ PartOf(record.events, events) => Restored(record, events, seen).events = events
<1> DEFINE taken == [here |-> TRUE, events |-> events, state |-> seen]
<1>1. taken \in RecordT /\ taken.events = events /\ taken.state = seen
  BY DEF RecordT
<1>2. record.events \in Seq(Events)
  BY DEF RecordT
<1>3. CASE Restored(record, events, seen) = taken
  BY <1>1, <1>3
<1>4. CASE Restored(record, events, seen) = record /\ ~ (Len(events) > Len(record.events))
  <2>1. Len(events) <= Len(record.events)
    BY <1>2, <1>4
  <2>2. PartOf(record.events, events) => record.events = events
    BY <1>2, <2>1, PartIsWhole
  <2> QED
    BY <1>4, <2>2
<1>5. \/ Restored(record, events, seen) = taken
      \/ Restored(record, events, seen) = record /\ ~ (Len(events) > Len(record.events))
  BY DEF Restored
<1> QED
  BY <1>3, <1>4, <1>5

\* One replica restores its copy from the log, or from nothing.
LEMMA HubRestores ==
  ASSUME InvocationInv, NEW r \in Replicas, NEW seen \in States, seen \in Ended => state' \in Ended,
         log' \in Seq(Events), NEW events \in {<<>>, log'},
         hub' = [hub EXCEPT ![r] = Restored(hub[r], events, seen)]
  PROVE  HubMoves
<1> USE DEF InvocationInv
<1> DEFINE v == Restored(hub[r], events, seen)
<1>1. hub \in [Replicas -> RecordT] /\ hub[r] \in RecordT /\ events \in Seq(Events)
  <2>1. <<>> \in Seq(Events)
    OBVIOUS
  <2> QED
    BY <2>1, Types
<1>2. v \in RecordT /\ (v = hub[r] \/ (v.events = events /\ v.state = seen))
  BY <1>1, RestoredIs
<1>3. hub' = [hub EXCEPT ![r] = v]
  OBVIOUS
<1> HIDE DEF v
<1>4. /\ hub' \in [Replicas -> RecordT] /\ hub'[r] = v
      /\ \A q \in Replicas : q /= r => hub'[q] = hub[q]
  BY <1>1, <1>2, <1>3
<1> QED
  BY <1>2, <1>4 DEF HubMoves

\* One request moves; what becomes of the workflow is given.
LEMMA OneHandler ==
  ASSUME InvocationInv, RowsMove, NEW h \in Handlers, NEW v \in HandlerT, AtWork(v),
         v.pc = "stop" => state' \in Ended,
         handler' = [handler EXCEPT ![h] = v],
         engine' \in EngineT, told' \in {"nothing", "stopped", "not persisted", "failed"},
         EngineWaits', FinishedIsRecorded'
  PROVE  AgentMoves
<1> USE DEF InvocationInv
<1>1. handler \in [Handlers -> HandlerT]
  BY Types
<1>2. /\ handler' \in [Handlers -> HandlerT] /\ handler'[h] = v
      /\ \A g \in Handlers : g /= h => handler'[g] = handler[g]
  BY <1>1
<1>3. HandlersAtWork'
  <2> SUFFICES ASSUME NEW g \in Handlers
               PROVE  AtWork(handler'[g])
    BY DEF HandlersAtWork, AtWork
  <2>1. AtWork(handler[g])
    BY DEF HandlersAtWork
  <2> QED
    BY <1>2, <2>1
<1> QED
  BY <1>2, <1>3 DEF AgentMoves

\* An idle request is at no work.
LEMMA IdleIs == Idle \in HandlerT /\ AtWork(Idle) /\ Idle.pc = "idle"
BY DEF Idle, HandlerT, AtWork

\* A request moves on while the workflow waits for its reply.
LEMMA HandlerSteps ==
  ASSUME InvocationInv, RowsMove, NEW h \in Handlers, NEW v \in HandlerT, AtWork(v),
         v.pc = "stop" => state' \in Ended,
         engine.call = h => v.pc \in {"begin", "append", "touch"} /\ v.kind = handler[h].kind,
         handler' = [handler EXCEPT ![h] = v], UNCHANGED <<engine, told>>
  PROVE  AgentMoves
<1> USE DEF InvocationInv
<1>1. /\ engine \in EngineT /\ told \in {"nothing", "stopped", "not persisted", "failed"}
      /\ handler \in [Handlers -> HandlerT]
  BY Types
<1>2. engine.call \in Handlers \cup {"none"}
  BY <1>1 DEF EngineT
<1>3. handler'[h] = v /\ \A g \in Handlers : g /= h => handler'[g] = handler[g]
  BY <1>1
<1>4. EngineWaits'
  BY <1>2, <1>3 DEF EngineWaits
<1>5. FinishedIsRecorded'
  BY DEF FinishedIsRecorded, RowsMove
<1> QED
  BY <1>1, <1>4, <1>5, OneHandler

\* Another request than the one the workflow waits for ends with a reply to the
\* user (CancelInvocation).
LEMMA StopReplyMoves ==
  ASSUME InvocationInv, RowsMove, NEW h \in Handlers, handler[h].kind = "cancel",
         NEW answer \in {"stopped", "not persisted", "failed"}, StopReply(h, answer)
  PROVE  AgentMoves
<1> USE DEF InvocationInv
<1>1. /\ engine \in EngineT /\ handler \in [Handlers -> HandlerT]
      /\ engine.call \in Handlers \cup {"none"}
  BY Types DEF EngineT
<1>2. handler' = [handler EXCEPT ![h] = Idle] /\ engine' = engine /\ told' = answer
  BY DEF StopReply
<1>3. engine.call /= h
  BY InvocationAssumption DEF EngineWaits
<1>4. \A g \in Handlers : g /= h => handler'[g] = handler[g]
  BY <1>1, <1>2
<1>5. EngineWaits'
  BY <1>1, <1>2, <1>3, <1>4 DEF EngineWaits
<1>6. FinishedIsRecorded'
  BY <1>2 DEF FinishedIsRecorded, RowsMove
<1> QED
  BY <1>1, <1>2, <1>5, <1>6, IdleIs, OneHandler

\* What the workflow makes of a reply: it waits no more, and it has finished only
\* if its completion was acknowledged (misty-agent-runtime's callbacks).
LEMMA AfterReplyIs ==
  ASSUME engine \in EngineT, engine.pc \in {"activate", "work", "complete"},
         engine.pc = "complete" => engine.status \in Statuses,
         NEW answer, NEW e \in AfterReply(answer)
  PROVE  /\ e \in EngineT /\ e.call = "none"
         /\ e.pc = "ended" => answer = "ok" /\ engine.pc = "complete"
         /\ e.pc = "complete" => e.status \in Statuses
<1> USE DEF EngineT
<1>1. CASE e = [engine EXCEPT !.call = "none"]
  BY <1>1
<1>2. CASE e = [engine EXCEPT !.call = "none", !.pc = "work"]
  BY <1>2
<1>3. CASE \E s \in Results : e = [pc |-> "complete", call |-> "none", status |-> s]
  BY <1>3, InvocationAssumption
<1>4. CASE e = [engine EXCEPT !.call = "none", !.pc = "ended"] /\ answer = "ok" /\ engine.pc = "complete"
  BY <1>4
<1>5. CASE e = [pc |-> "complete", call |-> "none", status |-> "failed"]
  BY <1>5 DEF Statuses
<1>6. CASE e = [engine EXCEPT !.call = "none", !.pc = "refused"]
  BY <1>6
<1>7. CASE answer = "again"
  BY <1>1, <1>7 DEF AfterReply
<1>8. CASE answer = "ok"
  BY <1>2, <1>3, <1>4, <1>8 DEF AfterReply
<1>9. CASE answer \notin {"again", "ok"}
  BY <1>5, <1>6, <1>9 DEF AfterReply
<1> QED
  BY <1>7, <1>8, <1>9

\* A request ends with a reply to the workflow.  The reply to a completion says
\* ok only when the invocation has ended.
LEMMA AnswerMoves ==
  ASSUME InvocationInv, RowsMove, NEW h \in Handlers, NEW answer, Answer(h, answer),
         handler[h].kind = "complete" /\ answer = "ok" => state' \in Ended
  PROVE  AgentMoves
<1> USE DEF InvocationInv
<1>1. /\ engine \in EngineT /\ handler \in [Handlers -> HandlerT]
      /\ told \in {"nothing", "stopped", "not persisted", "failed"}
      /\ engine.call \in Handlers \cup {"none"}
  BY Types DEF EngineT
<1>2. handler' = [handler EXCEPT ![h] = Idle] /\ told' = told
  BY DEF Answer
<1>3. CASE engine.call = h
  <2>1. /\ engine.pc \in {"activate", "work", "complete"} /\ handler[h].kind = engine.pc
        /\ engine.pc = "complete" => engine.status \in Statuses
    BY <1>3, InvocationAssumption DEF EngineWaits
  <2>2. engine' \in AfterReply(answer)
    BY <1>3 DEF Answer
  <2>3. /\ engine' \in EngineT /\ engine'.call = "none"
        /\ engine'.pc = "ended" => answer = "ok" /\ engine.pc = "complete"
        /\ engine'.pc = "complete" => engine'.status \in Statuses
    BY <1>1, <2>1, <2>2, AfterReplyIs
  <2>4. EngineWaits' /\ FinishedIsRecorded'
    BY <2>1, <2>3 DEF EngineWaits, FinishedIsRecorded
  <2> QED
    BY <1>1, <1>2, <2>3, <2>4, IdleIs, OneHandler
<1>4. CASE engine.call /= h
  <2>1. engine' = engine
    BY <1>4 DEF Answer
  <2>2. \A g \in Handlers : g /= h => handler'[g] = handler[g]
    BY <1>1, <1>2
  <2>3. EngineWaits'
    BY <1>1, <1>4, <2>1, <2>2 DEF EngineWaits
  <2>4. FinishedIsRecorded'
    BY <2>1 DEF FinishedIsRecorded, RowsMove
  <2> QED
    BY <1>1, <1>2, <2>1, <2>3, <2>4, IdleIs, OneHandler
<1> QED
  BY <1>3, <1>4

\* The workflow moves and waits for no reply.
LEMMA EngineSteps ==
  ASSUME InvocationInv, RowsMove, engine' \in EngineT, engine'.call = "none",
         engine'.pc = "ended" => state' \in Ended,
         engine'.pc = "complete" => engine.pc = "complete" /\ engine'.status = engine.status,
         UNCHANGED <<handler, told>>
  PROVE  AgentMoves
<1> USE DEF InvocationInv
<1>1. /\ handler \in [Handlers -> HandlerT] /\ told \in {"nothing", "stopped", "not persisted", "failed"}
  BY Types
<1>2. HandlersAtWork'
  BY DEF HandlersAtWork, AtWork
<1>3. EngineWaits' /\ FinishedIsRecorded'
  BY DEF EngineWaits, FinishedIsRecorded
<1> QED
  BY <1>1, <1>2, <1>3 DEF AgentMoves

-----------------------------------------------------------------------------
(* The workflow and the end of the run.                                       *)

\* The workflow sends a request (the callbacks of misty-agent-runtime).
LEMMA SendMoves ==
  ASSUME InvocationInv, NEW h \in Handlers, NEW r \in Replicas, Send(h, r)
  PROVE  Moves
<1> USE DEF InvocationInv
<1> DEFINE v == [Idle EXCEPT !.pc = "begin", !.kind = engine.pc, !.replica = r, !.status = engine.status]
<1>1. /\ UNCHANGED <<state, bound, log, hub, start, cancelDue, probe, told, stream, waits, faults>>
      /\ engine.pc \in {"activate", "work", "complete"} /\ engine.call = "none"
      /\ requests < MaxRequests /\ requests' = requests + 1
      /\ engine' = [engine EXCEPT !.call = h] /\ handler' = [handler EXCEPT ![h] = v]
  BY DEF Send, rows
<1>2. /\ engine \in EngineT /\ handler \in [Handlers -> HandlerT] /\ requests \in 0 .. MaxRequests
      /\ start \in StartT /\ probe \in ProbeT /\ cancelDue \in BOOLEAN /\ bound \in BOOLEAN
      /\ told \in {"nothing", "stopped", "not persisted", "failed"}
      /\ waits \in 0 .. MaxWaits /\ faults \in 0 .. MaxFaults
  BY Types
<1>3. RowsMove /\ HubMoves /\ StreamMoves
  BY <1>1, <1>2, RowsStay, HubStays, StreamStays
<1>4. engine' \in EngineT /\ engine'.call = h /\ engine'.pc = engine.pc /\ engine'.status = engine.status
  BY <1>1, <1>2 DEF EngineT
<1>5. /\ v \in HandlerT /\ AtWork(v)
      /\ v.pc = "begin" /\ v.kind = engine.pc
  <2>1. engine.status \in Statuses \cup {"none"}
    BY <1>2 DEF EngineT
  <2>2. /\ v \in HandlerT /\ v.pc = "begin" /\ v.kind = engine.pc /\ v.replica = r
        /\ v.status = engine.status
    BY <1>1, <2>1, IdleIs DEF HandlerT
  <2>3. engine.pc = "complete" => engine.status \in Statuses
    BY DEF EngineWaits
  <2> HIDE DEF v
  <2>4. AtWork(v)
    BY <1>1, <2>2, <2>3 DEF AtWork
  <2> QED
    BY <2>2, <2>4
<1>6. handler'[h] = v
  BY <1>1, <1>2
<1> HIDE DEF v
<1>7. EngineWaits'
  BY <1>1, <1>4, <1>5, <1>6 DEF EngineWaits
<1>8. FinishedIsRecorded'
  BY <1>1, <1>4 DEF FinishedIsRecorded
<1>9. AgentMoves
  BY <1>1, <1>2, <1>3, <1>4, <1>5, <1>7, <1>8, OneHandler
<1>10. requests' \in 0 .. MaxRequests
  <2>1. requests < MaxRequests /\ requests' = requests + 1 /\ requests \in 0 .. MaxRequests
    BY <1>1, <1>2
  <2> QED
    BY <2>1, InvocationAssumption
<1>11. RestMoves
  BY <1>1, <1>2, <1>10 DEF RestMoves
<1> QED
  BY <1>3, <1>9, <1>11 DEF Moves

\* The reply is lost, the workflow gives up, its engine is lost.
LEMMA EngineFails ==
  ASSUME InvocationInv, Timeout \/ GiveUp \/ EngineLost
  PROVE  Moves
<1> USE DEF InvocationInv
<1>1. /\ UNCHANGED <<state, bound, log, hub, start, cancelDue, probe, handler, told, stream, requests,
                     waits>>
      /\ faults' = faults \/ Spend
  BY DEF Timeout, GiveUp, EngineLost, rows, counts
<1>2. engine \in EngineT /\ bound \in BOOLEAN
  BY Types
<1>3. RowsMove /\ HubMoves /\ StreamMoves /\ RestMoves
  BY <1>1, <1>2, RowsStay, HubStays, StreamStays, RestStays
<1>4. /\ engine' \in EngineT /\ engine'.call = "none"
      /\ engine'.pc \in {engine.pc, "refused"} /\ engine'.status = engine.status
  BY <1>2 DEF Timeout, GiveUp, EngineLost, EngineT
<1>5. AgentMoves
  BY <1>1, <1>3, <1>4, EngineSteps DEF FinishedIsRecorded
<1> QED
  BY <1>3, <1>5 DEF Moves

\* The Space goes (cancelMistySpaceTx): the row ends without an event.
LEMMA CancelSpaceMoves ==
  ASSUME InvocationInv, CancelSpace
  PROVE  Moves
<1> USE DEF InvocationInv
<1>1. /\ UNCHANGED <<bound, log, hub, start, engine, handler, told, stream, requests, waits>>
      /\ state \notin Ended /\ state' = "canceled" /\ probe' = Touched /\ Spend
      /\ cancelDue' = (cancelDue \/ bound)
  BY DEF CancelSpace
<1>2. /\ start \in StartT /\ probe \in ProbeT /\ cancelDue \in BOOLEAN /\ bound \in BOOLEAN
      /\ requests \in 0 .. MaxRequests /\ waits \in 0 .. MaxWaits /\ faults \in 0 .. MaxFaults
  BY Types
<1>3. state' \in Ended
  BY <1>1, Sorts
<1>4. RowsMove /\ HubMoves /\ StreamMoves
  BY <1>1, <1>2, <1>3, RowEnds, HubStays, StreamStays
<1>5. AgentMoves
  BY <1>1, <1>4, AgentStays
<1>6. cancelDue' \in BOOLEAN
  BY <1>1, <1>2
<1>7. faults' \in 0 .. MaxFaults
  BY <1>1, <1>2, InvocationAssumption DEF Spend
<1>8. RestMoves
  BY <1>1, <1>2, <1>3, <1>6, <1>7, TouchedType DEF RestMoves
<1> QED
  BY <1>4, <1>5, <1>8 DEF Moves

\* The engine that is asked to stop has finished, unless it failed before.
LEMMA StoppedIs ==
  ASSUME engine \in EngineT
  PROVE  /\ Stopped(engine) \in EngineT /\ Stopped(engine).call = "none"
         /\ Stopped(engine).pc \in {"refused", "ended"}
<1>1. CASE engine.pc = "refused"
  BY <1>1 DEF Stopped, EngineT
<1>2. CASE engine.pc /= "refused"
  BY <1>2 DEF Stopped, EngineT
<1> QED
  BY <1>1, <1>2

\* A queued stop reaches the engine: it is queued only for an ended invocation.
LEMMA DeliverCancelMoves ==
  ASSUME InvocationInv, DeliverCancel
  PROVE  Moves
<1> USE DEF InvocationInv
<1>1. /\ UNCHANGED <<state, bound, log, hub, start, probe, handler, told, stream, requests, waits, faults>>
      /\ cancelDue /\ cancelDue' = FALSE /\ engine' = Stopped(engine)
  BY DEF DeliverCancel, rows, counts
<1>2. /\ start \in StartT /\ probe \in ProbeT /\ bound \in BOOLEAN /\ engine \in EngineT
      /\ requests \in 0 .. MaxRequests /\ waits \in 0 .. MaxWaits /\ faults \in 0 .. MaxFaults
  BY Types
<1>3. RowsMove /\ HubMoves /\ StreamMoves
  BY <1>1, <1>2, RowsStay, HubStays, StreamStays
<1>4. state' \in Ended
  BY <1>1 DEF EndsAreReal
<1>5. /\ engine' \in EngineT /\ engine'.call = "none"
      /\ engine'.pc \in {"refused", "ended"}
  BY <1>1, <1>2, StoppedIs
<1>6. AgentMoves
  BY <1>1, <1>3, <1>4, <1>5, EngineSteps
<1>7. RestMoves
  BY <1>1, <1>2 DEF RestMoves
<1> QED
  BY <1>3, <1>6, <1>7 DEF Moves

\* The workflow parks at a wait, and goes on.
LEMMA WaitsMove ==
  ASSUME InvocationInv, Park \/ Resume
  PROVE  Moves
<1> USE DEF InvocationInv
<1>1. /\ UNCHANGED <<bound, hub, start, cancelDue, handler, told, stream, requests, faults>>
      /\ probe' = Touched /\ engine.pc \in {"work", "parked"}
      /\ state \in Active /\ state' \in Active
      /\ engine' \in {[engine EXCEPT !.pc = "parked"], [engine EXCEPT !.pc = "work"]}
  BY DEF Park, Resume, Active, counts
<1>2. PICK e \in {"waiting", "resumed"} : log' = IF Logged(e) THEN log ELSE Append(log, e)
  BY DEF Park, Resume
<1>3. /\ start \in StartT /\ probe \in ProbeT /\ bound \in BOOLEAN /\ cancelDue \in BOOLEAN
      /\ engine \in EngineT
      /\ requests \in 0 .. MaxRequests /\ waits \in 0 .. MaxWaits /\ faults \in 0 .. MaxFaults
  BY Types
<1>4. state \notin Ended /\ state' \in States \ Ended
  BY <1>1, Sorts
<1>5. e \in Progress
  BY <1>2, Sorts
<1>6. RowsMove
  <2>1. CASE Logged(e)
    BY <1>1, <1>2, <1>3, <1>4, <2>1, StateMoves
  <2>2. CASE ~Logged(e)
    <3>1. log' = Append(log, e)
      BY <1>2, <2>2
    <3> QED
      BY <1>1, <1>3, <1>4, <1>5, <2>2, <3>1, RowRecords
  <2> QED
    BY <2>1, <2>2
<1>7. engine.call = "none"
  BY <1>1 DEF Park, Resume, EngineWaits
<1>8. /\ engine' \in EngineT /\ engine'.call = "none" /\ engine'.pc \in {"parked", "work"}
  BY <1>1, <1>3, <1>7 DEF EngineT
<1>9. HubMoves /\ StreamMoves /\ AgentMoves
  BY <1>1, <1>6, <1>8, HubStays, StreamStays, EngineSteps
<1>10. waits' \in 0 .. MaxWaits
  BY <1>3, InvocationAssumption DEF Park, Resume, counts
<1>11. RestMoves
  BY <1>1, <1>3, <1>10, TouchedType DEF RestMoves
<1> QED
  BY <1>6, <1>9, <1>11 DEF Moves

-----------------------------------------------------------------------------
(* The start delivery and the observation of a silent workflow.               *)

\* The steps of the start delivery that write no event.
LEMMA StartMoves ==
  ASSUME InvocationInv, ClaimStart \/ CheckActivation \/ MarkDispatched \/ LoseStart
  PROVE  Moves
<1> USE DEF InvocationInv
<1>1. /\ UNCHANGED <<state, log, hub, cancelDue, engine, handler, told, stream, requests, waits>>
      /\ bound' \in {bound, TRUE} /\ probe' \in {probe, Touched}
      /\ faults' = faults \/ Spend
  BY DEF ClaimStart, CheckActivation, MarkDispatched, LoseStart, rows, counts
<1>2. /\ start \in StartT /\ probe \in ProbeT /\ bound \in BOOLEAN /\ cancelDue \in BOOLEAN
      /\ requests \in 0 .. MaxRequests /\ waits \in 0 .. MaxWaits /\ faults \in 0 .. MaxFaults
  BY Types
<1>3. bound' \in BOOLEAN
  BY <1>1, <1>2
<1>4. RowsMove /\ HubMoves /\ StreamMoves
  BY <1>1, <1>3, RowsStay, HubStays, StreamStays
<1>5. AgentMoves
  BY <1>1, <1>4, AgentStays
<1>6. start' \in StartT
  <2>1. CASE ClaimStart
    <3>1. PICK pc \in {"done", "starting", "unstarted"}, fatal \in BOOLEAN : Claimed(pc, fatal)
      BY <2>1 DEF ClaimStart
    <3>2. /\ start.attempts \in Nat /\ start.attempts + 1 \in Nat
      BY <1>2 DEF StartT
    <3>3. PICK n \in Nat : start' = [pc |-> pc, fatal |-> fatal, attempts |-> n]
      BY <3>1, <3>2 DEF Claimed
    <3> QED
      BY <3>3 DEF StartT
  <2>2. CASE CheckActivation
    <3>1. PICK pc \in {"done", "failing", "pending"} : start' = [start EXCEPT !.pc = pc]
      BY <2>2 DEF CheckActivation
    <3> QED
      BY <1>2, <3>1 DEF StartT
  <2>3. CASE MarkDispatched
    BY <1>2, <2>3 DEF MarkDispatched, StartT
  <2>4. CASE LoseStart
    BY <1>2, <2>4 DEF LoseStart, StartT
  <2> QED
    BY <2>1, <2>2, <2>3, <2>4
<1>7. faults' \in 0 .. MaxFaults
  BY <1>1, <1>2, InvocationAssumption DEF Spend
<1>8. RestMoves
  BY <1>1, <1>2, <1>6, <1>7, TouchedType DEF RestMoves
<1> QED
  BY <1>4, <1>5, <1>8 DEF Moves

\* A workflow is submitted, or thought to be.
LEMMA SubmitMoves ==
  ASSUME InvocationInv, Submit
  PROVE  Moves
<1> USE DEF InvocationInv
<1>1. /\ UNCHANGED <<state, bound, log, hub, cancelDue, probe, handler, told, stream, requests, waits>>
      /\ faults' = faults \/ Spend
      /\ start' \in {[start EXCEPT !.pc = "started"], [start EXCEPT !.pc = "unstarted"]}
      /\ \/ engine' = engine
         \/ /\ engine.pc = "none"
            /\ engine' \in {[engine EXCEPT !.pc = "activate"], [engine EXCEPT !.pc = "lost"]}
  BY DEF Submit, rows
<1>2. /\ start \in StartT /\ probe \in ProbeT /\ bound \in BOOLEAN /\ cancelDue \in BOOLEAN
      /\ engine \in EngineT
      /\ requests \in 0 .. MaxRequests /\ waits \in 0 .. MaxWaits /\ faults \in 0 .. MaxFaults
  BY Types
<1>3. RowsMove /\ HubMoves /\ StreamMoves
  BY <1>1, <1>2, RowsStay, HubStays, StreamStays
<1>4. AgentMoves
  <2>1. CASE engine' = engine
    BY <1>1, <1>3, <2>1, AgentStays
  <2>2. CASE /\ engine.pc = "none"
             /\ engine' \in {[engine EXCEPT !.pc = "activate"], [engine EXCEPT !.pc = "lost"]}
    <3>1. engine.call = "none"
      BY <2>2 DEF EngineWaits
    <3>2. engine' \in EngineT /\ engine'.call = "none" /\ engine'.pc \in {"activate", "lost"}
      BY <1>2, <2>2, <3>1 DEF EngineT
    <3> QED
      BY <1>1, <1>3, <3>2, EngineSteps
  <2> QED
    BY <1>1, <2>1, <2>2
<1>5. start' \in StartT
  BY <1>1, <1>2 DEF StartT
<1>6. faults' \in 0 .. MaxFaults
  BY <1>1, <1>2, InvocationAssumption DEF Spend
<1>7. RestMoves
  BY <1>1, <1>2, <1>5, <1>6 DEF RestMoves
<1> QED
  BY <1>3, <1>4, <1>7 DEF Moves

\* A start that failed for good is reported (failAIInvocationDelivery).
LEMMA FailStartMoves ==
  ASSUME InvocationInv, FailStart
  PROVE  Moves
<1> USE DEF InvocationInv
<1>1. /\ UNCHANGED <<bound, hub, engine, handler, told, stream, requests, waits, faults>>
      /\ start' \in {[start EXCEPT !.pc = "done"], [start EXCEPT !.pc = "pending", !.fatal = FALSE]}
      /\ \/ UNCHANGED <<state, log, probe, cancelDue>>
         \/ CommitEvent("undelivered")
  BY DEF FailStart, counts
<1>2. /\ start \in StartT /\ probe \in ProbeT /\ bound \in BOOLEAN /\ cancelDue \in BOOLEAN
      /\ requests \in 0 .. MaxRequests /\ waits \in 0 .. MaxWaits /\ faults \in 0 .. MaxFaults
  BY Types
<1>3. "undelivered" \in Events
  BY Sorts
<1>4. /\ RowsMove /\ probe' \in ProbeT
      /\ cancelDue' \in BOOLEAN /\ (cancelDue' => cancelDue \/ state' \in Ended)
  <2>1. CASE UNCHANGED <<state, log, probe, cancelDue>>
    BY <1>1, <1>2, <2>1, RowsStay
  <2>2. CASE CommitEvent("undelivered")
    BY <1>1, <1>3, <2>2, CommitMoves
  <2> QED
    BY <1>1, <2>1, <2>2
<1>5. HubMoves /\ StreamMoves /\ AgentMoves
  BY <1>1, <1>4, HubStays, StreamStays, AgentStays
<1>6. start' \in StartT
  BY <1>1, <1>2 DEF StartT
<1>7. RestMoves
  BY <1>1, <1>2, <1>4, <1>6 DEF RestMoves
<1> QED
  BY <1>4, <1>5, <1>7 DEF Moves

\* A silent workflow is looked for and observed.
LEMMA ProbeMoves ==
  ASSUME InvocationInv, Reconcile \/ Observe
  PROVE  Moves
<1> USE DEF InvocationInv
<1>1. UNCHANGED <<state, bound, log, hub, start, cancelDue, engine, handler, told, stream, requests,
                  waits, faults>>
  BY DEF Reconcile, Observe, rows, counts
<1>2. /\ start \in StartT /\ probe \in ProbeT /\ bound \in BOOLEAN /\ cancelDue \in BOOLEAN
      /\ requests \in 0 .. MaxRequests /\ waits \in 0 .. MaxWaits /\ faults \in 0 .. MaxFaults
  BY Types
<1>3. RowsMove /\ HubMoves /\ StreamMoves
  BY <1>1, <1>2, RowsStay, HubStays, StreamStays
<1>4. AgentMoves
  BY <1>1, <1>3, AgentStays
<1>5. probe' \in ProbeT
  <2>1. CASE Reconcile
    BY <2>1 DEF Reconcile, NoProbe, ProbeT
  <2>2. CASE Observe
    <3>1. PICK b \in BOOLEAN : probe' = [probe EXCEPT !.pc = "observed", !.stopped = b]
      <4>1. (engine.pc \in {"ended", "refused"}) \in BOOLEAN
        OBVIOUS
      <4> QED
        BY <2>2, <4>1, Zenon DEF Observe
    <3>2. CASE b = TRUE
      BY <1>2, <3>1, <3>2 DEF ProbeT
    <3>3. CASE b = FALSE
      BY <1>2, <3>1, <3>3 DEF ProbeT
    <3> QED
      BY <3>2, <3>3
  <2> QED
    BY <2>1, <2>2
<1>6. RestMoves
  BY <1>1, <1>2, <1>5 DEF RestMoves
<1> QED
  BY <1>3, <1>4, <1>6 DEF Moves

\* What was observed is recorded, unless the run has moved since
\* (RecordAIInvocationRuntimeStatus).
LEMMA RecordStatusMoves ==
  ASSUME InvocationInv, RecordStatus
  PROVE  Moves
<1> USE DEF InvocationInv
<1>1. /\ UNCHANGED <<bound, hub, start, cancelDue, engine, handler, told, stream, requests, waits, faults>>
      /\ probe' = NoProbe
      /\ \/ UNCHANGED <<state, log>>
         \/ /\ state \notin Ended /\ state' = "failed"
            /\ log' = IF Logged("reconciled") THEN log ELSE Append(log, "reconciled")
  BY DEF RecordStatus, counts
<1>2. /\ start \in StartT /\ bound \in BOOLEAN /\ cancelDue \in BOOLEAN
      /\ requests \in 0 .. MaxRequests /\ waits \in 0 .. MaxWaits /\ faults \in 0 .. MaxFaults
  BY Types
<1>3. probe' \in ProbeT
  BY <1>1 DEF NoProbe, ProbeT
<1>4. "reconciled" \in Events /\ "failed" \in Ended /\ "reconciled" \in EndingsOf["failed"]
  BY Sorts DEF EndingsOf
<1>5. RowsMove
  <2>1. CASE UNCHANGED <<state, log>>
    BY <1>1, <1>2, <2>1, RowsStay
  <2>2. CASE state \notin Ended /\ state' = "failed" /\ log' = log
    BY <1>1, <1>2, <1>4, <2>2, RowEnds
  <2>3. CASE state \notin Ended /\ state' = "failed" /\ log' = Append(log, "reconciled")
                /\ ~Logged("reconciled")
    BY <1>1, <1>2, <1>4, <2>3, RowReportsEnd
  <2> QED
    BY <1>1, <2>1, <2>2, <2>3
<1>6. HubMoves /\ StreamMoves /\ AgentMoves
  BY <1>1, <1>5, HubStays, StreamStays, AgentStays
<1>7. RestMoves
  BY <1>1, <1>2, <1>3 DEF RestMoves
<1> QED
  BY <1>5, <1>6, <1>7 DEF Moves

-----------------------------------------------------------------------------
(* The requests.                                                              *)

\* Activation (agentRuntimeActivateAIInvocation).
LEMMA ActivateMoves ==
  ASSUME InvocationInv, NEW h \in Handlers, Activate(h)
  PROVE  Moves
<1> USE DEF InvocationInv
<1>1. /\ UNCHANGED <<log, start, cancelDue, stream, requests, waits, faults>>
      /\ handler[h].pc = "begin" /\ handler[h].kind = "activate"
  BY DEF Activate, counts
<1>2. /\ handler \in [Handlers -> HandlerT] /\ handler[h] \in HandlerT /\ AtWork(handler[h])
      /\ bound \in BOOLEAN /\ log \in Seq(Events)
  BY Types DEF HandlersAtWork
<1>3. handler[h].replica \in Replicas
  BY <1>1, <1>2 DEF AtWork
<1>4. StreamMoves
  BY <1>1, StreamStays
<1>5. CASE Present /\ state \in {"queued", "running"}
  <2> DEFINE v == [handler[h] EXCEPT !.pc = "append", !.todo = <<"started", "status">>]
  <2>1. /\ bound' = TRUE /\ state' = "running" /\ probe' = Touched
        /\ hub' = [hub EXCEPT ![handler[h].replica] = Restored(hub[handler[h].replica], log, "running")]
        /\ handler' = [handler EXCEPT ![h] = v] /\ UNCHANGED <<engine, told>>
    BY <1>5 DEF Activate
  <2>2. state \notin Ended /\ state' \in States \ Ended /\ "running" \in States /\ "running" \notin Ended
    BY <1>5, <2>1, Sorts DEF Ended
  <2>3. RowsMove
    BY <1>1, <2>1, <2>2, StateMoves
  <2>4. HubMoves
    BY <1>1, <1>2, <1>3, <2>1, <2>2, HubRestores
  <2>5. <<"started", "status">> \in Todos("activate") /\ <<"started", "status">> \in Seq(Events)
    <3>1. <<"started", "status">> \in Todos("activate")
      BY DEF Todos
    <3> QED
      BY <3>1, RestOfScript
  <2>6. /\ v \in HandlerT /\ v.pc = "append" /\ v.kind = "activate" /\ v.replica = handler[h].replica
        /\ v.todo = <<"started", "status">>
    BY <1>1, <1>2, <2>5 DEF HandlerT
  <2> HIDE DEF v
  <2>7. AtWork(v)
    BY <1>3, <2>5, <2>6 DEF AtWork
  <2>8. AgentMoves
    BY <1>1, <2>1, <2>3, <2>6, <2>7, HandlerSteps
  <2>9. RestMoves
    BY <1>1, <2>1, RestStays
  <2> QED
    BY <1>4, <2>3, <2>4, <2>8, <2>9 DEF Moves
<1>6. CASE ~(Present /\ state \in {"queued", "running"})
  <2>1. Answer(h, "no") /\ UNCHANGED <<bound, state, probe, hub>>
    BY <1>6 DEF Activate
  <2>2. RowsMove
    BY <1>1, <1>2, <2>1, RowsStay
  <2>3. HubMoves /\ AgentMoves
    BY <1>1, <2>1, <2>2, HubStays, AnswerMoves
  <2>4. RestMoves
    BY <1>1, <2>1, RestStays
  <2> QED
    BY <1>4, <2>2, <2>3, <2>4 DEF Moves
<1> QED
  BY <1>5, <1>6

\* An event of the workflow (agentRuntimeEventAIInvocation) and the touch after
\* it (TouchAIInvocationRuntime).
LEMMA EventMoves ==
  ASSUME InvocationInv, NEW h \in Handlers, Event(h) \/ Touch(h)
  PROVE  Moves
<1> USE DEF InvocationInv
<1>1. /\ UNCHANGED <<state, bound, log, hub, start, cancelDue, stream, requests, waits, faults>>
      /\ probe' \in {probe, Touched} /\ handler[h].pc \in {"begin", "touch"}
  BY DEF Event, Touch, rows, counts
<1>2. /\ handler \in [Handlers -> HandlerT] /\ handler[h] \in HandlerT /\ AtWork(handler[h])
      /\ bound \in BOOLEAN
  BY Types DEF HandlersAtWork
<1>3. handler[h].kind = "work" /\ handler[h].replica \in Replicas
  BY <1>1, <1>2 DEF AtWork, Event, Touch
<1>4. RowsMove /\ HubMoves /\ StreamMoves /\ RestMoves
  BY <1>1, <1>2, RowsStay, HubStays, StreamStays, RestStays
<1>5. CASE \E answer : Answer(h, answer)
  BY <1>3, <1>4, <1>5, AnswerMoves DEF Moves
<1>6. CASE /\ handler' = [handler EXCEPT ![h].pc = "append", ![h].todo = <<"progress">>]
           /\ UNCHANGED <<engine, told>>
  <2> DEFINE v == [handler[h] EXCEPT !.pc = "append", !.todo = <<"progress">>]
  <2>1. <<"progress">> \in Todos("work") /\ <<"progress">> \in Seq(Events)
    <3>1. <<"progress">> \in Todos("work")
      BY DEF Todos
    <3> QED
      BY <3>1, RestOfScript
  <2>2. /\ v \in HandlerT /\ v.pc = "append" /\ v.kind = "work" /\ v.replica = handler[h].replica
        /\ v.todo = <<"progress">>
    BY <1>2, <1>3, <2>1 DEF HandlerT
  <2>3. handler' = [handler EXCEPT ![h] = v]
    BY <1>6
  <2> HIDE DEF v
  <2>4. AtWork(v)
    BY <1>3, <2>1, <2>2 DEF AtWork
  <2>5. AgentMoves
    BY <1>3, <1>4, <1>6, <2>2, <2>3, <2>4, HandlerSteps
  <2> QED
    BY <1>4, <2>5 DEF Moves
<1> QED
  BY <1>5, <1>6 DEF Event, Touch

\* The completion (agentRuntimeCompleteAIInvocation): acknowledged at once only
\* when the invocation has ended, otherwise it has a script to append.
LEMMA CompleteMoves ==
  ASSUME InvocationInv, NEW h \in Handlers, Complete(h)
  PROVE  Moves
<1> USE DEF InvocationInv
<1>1. /\ UNCHANGED <<state, bound, log, hub, start, cancelDue, probe, stream, requests, waits, faults>>
      /\ handler[h].pc = "begin" /\ handler[h].kind = "complete"
  BY DEF Complete, rows, counts
<1>2. /\ handler \in [Handlers -> HandlerT] /\ handler[h] \in HandlerT /\ AtWork(handler[h])
      /\ bound \in BOOLEAN
  BY Types DEF HandlersAtWork
<1>3. handler[h].replica \in Replicas /\ handler[h].status \in Statuses
  BY <1>1, <1>2 DEF AtWork
<1>4. RowsMove /\ HubMoves /\ StreamMoves /\ RestMoves
  BY <1>1, <1>2, RowsStay, HubStays, StreamStays, RestStays
<1>5. CASE MayReport
  <2>1. PICK s \in Statuses :
          /\ handler' = [handler EXCEPT ![h].pc = "append", ![h].status = s, ![h].todo = Script(s)]
          /\ UNCHANGED <<engine, told>>
    BY <1>3, <1>5 DEF Complete, Statuses
  <2> DEFINE v == [handler[h] EXCEPT !.pc = "append", !.status = s, !.todo = Script(s)]
  <2>2. Script(s) \in Todos("complete") /\ Script(s) \in Seq(Events)
    BY ScriptIs, RestOfScript
  <2>3. /\ v \in HandlerT /\ v.pc = "append" /\ v.kind = "complete" /\ v.replica = handler[h].replica
        /\ v.todo = Script(s) /\ v.status = s
    BY <1>1, <1>2, <2>2 DEF HandlerT
  <2>4. handler' = [handler EXCEPT ![h] = v]
    BY <2>1
  <2> HIDE DEF v
  <2>5. AtWork(v)
    BY <1>3, <2>2, <2>3 DEF AtWork
  <2>6. AgentMoves
    BY <1>1, <1>4, <2>1, <2>3, <2>4, <2>5, HandlerSteps
  <2> QED
    BY <1>4, <2>6 DEF Moves
<1>6. CASE ~MayReport
  <2>1. Answer(h, IF Present /\ bound /\ state \in Ended THEN "ok" ELSE "no")
    BY <1>6 DEF Complete
  <2>2. PICK answer : Answer(h, answer) /\ (answer = "ok" => state \in Ended)
    BY <2>1
  <2>3. AgentMoves
    BY <1>1, <1>4, <2>2, AnswerMoves
  <2> QED
    BY <1>4, <2>3 DEF Moves
<1> QED
  BY <1>5, <1>6

\* What is left to append after an event is the rest of the script.
LEMMA RestOfTodo ==
  ASSUME InvocationInv, NEW h \in Handlers, handler[h].pc = "append"
  PROVE  /\ handler[h].kind \in {"activate", "work", "cancel", "complete"}
         /\ handler[h].todo \in Todos(handler[h].kind)
         /\ handler[h].replica \in Replicas
<1> USE DEF InvocationInv
<1>1. handler[h] \in HandlerT /\ AtWork(handler[h])
  BY Types DEF HandlersAtWork
<1>2. handler[h].kind \in {"none", "activate", "work", "complete", "cancel"}
  BY <1>1 DEF HandlerT
<1>3. handler[h].todo \in Todos(handler[h].kind)
  BY <1>1 DEF AtWork
<1>4. handler[h].kind /= "none"
  BY <1>3 DEF Todos
<1> QED
  BY <1>1, <1>2, <1>3, <1>4 DEF AtWork

\* A request goes on to its next event.
LEMMA NextEvent ==
  ASSUME InvocationInv, RowsMove, NEW h \in Handlers, handler[h].pc = "append",
         Tail(handler[h].todo) /= <<>>,
         handler' = [handler EXCEPT ![h].todo = Tail(handler[h].todo)], UNCHANGED <<engine, told>>
  PROVE  AgentMoves
<1> USE DEF InvocationInv
<1> DEFINE v == [handler[h] EXCEPT !.todo = Tail(handler[h].todo)]
<1>1. handler[h] \in HandlerT /\ AtWork(handler[h])
  BY Types DEF HandlersAtWork
<1>2. /\ handler[h].kind \in {"activate", "work", "cancel", "complete"}
      /\ handler[h].todo \in Todos(handler[h].kind) /\ handler[h].replica \in Replicas
  BY RestOfTodo
<1>3. Tail(handler[h].todo) \in Todos(handler[h].kind)
  BY <1>2, RestOfScript
<1>4. Tail(handler[h].todo) \in Seq(Events)
  BY <1>2, <1>3, RestOfScript
<1>5. /\ v \in HandlerT /\ v.pc = "append" /\ v.kind = handler[h].kind
      /\ v.replica = handler[h].replica /\ v.todo = Tail(handler[h].todo)
      /\ v.status = handler[h].status
  BY <1>1, <1>4 DEF HandlerT
<1>6. handler' = [handler EXCEPT ![h] = v]
  OBVIOUS
<1> HIDE DEF v
<1>7. AtWork(v)
  BY <1>1, <1>2, <1>3, <1>5 DEF AtWork
<1> QED
  BY <1>5, <1>6, <1>7, HandlerSteps

\* An event is committed and the copy reloaded (appendReceipt).  The last event
\* of a completion ends the invocation before the completion is acknowledged.
LEMMA AppendEventMoves ==
  ASSUME InvocationInv, NEW h \in Handlers, AppendEvent(h)
  PROVE  Moves
<1> USE DEF InvocationInv
<1> DEFINE r == handler[h].replica
           e == Head(handler[h].todo)
           k == handler[h].kind
<1>1. /\ UNCHANGED <<bound, start, stream, requests, waits, faults>>
      /\ handler[h].pc = "append" /\ CommitEvent(e) /\ Reload(r)
  BY DEF AppendEvent, counts
<1>2. /\ k \in {"activate", "work", "cancel", "complete"} /\ r \in Replicas
      /\ handler[h].todo \in Todos(k)
  BY <1>1, RestOfTodo
<1>3. /\ e \in Events
      /\ k \in {"work", "cancel"} => Tail(handler[h].todo) = <<>>
      /\ k = "complete" => /\ e \notin Receipted
                           /\ Tail(handler[h].todo) = <<>> => e \in {"completed", "failed"}
  BY <1>2, RestOfScript
<1>4. /\ RowsMove /\ probe' \in ProbeT
      /\ cancelDue' \in BOOLEAN /\ (cancelDue' => cancelDue \/ state' \in Ended)
      /\ e \in Endings \ Receipted => state' \in Ended
  BY <1>1, <1>3, CommitMoves
<1>5. HubMoves
  <2>1. state' \in States /\ log' \in Seq(Events)
    BY <1>4 DEF RowsMove
  <2>2. hub' = [hub EXCEPT ![r] = Restored(hub[r], log', state')]
    BY <1>1 DEF Reload
  <2> QED
    BY <1>2, <2>1, <2>2, HubRestores
<1>6. StreamMoves
  BY <1>1, StreamStays
<1>7. /\ start \in StartT
      /\ requests \in 0 .. MaxRequests /\ waits \in 0 .. MaxWaits /\ faults \in 0 .. MaxFaults
  BY Types
<1>8. RestMoves
  BY <1>1, <1>4, <1>7 DEF RestMoves
<1>9. AgentMoves
  <2>1. CASE Tail(handler[h].todo) /= <<>>
    <3>1. handler' = [handler EXCEPT ![h].todo = Tail(handler[h].todo)] /\ UNCHANGED <<engine, told>>
      BY <2>1 DEF AppendEvent, Advance
    <3> QED
      BY <1>1, <1>4, <2>1, <3>1, NextEvent
  <2>2. CASE Tail(handler[h].todo) = <<>> /\ k = "work"
    <3> DEFINE v == [handler[h] EXCEPT !.pc = "touch"]
    <3>1. handler' = [handler EXCEPT ![h] = v] /\ UNCHANGED <<engine, told>>
      BY <2>2 DEF AppendEvent, Advance
    <3>2. handler[h] \in HandlerT
      BY Types
    <3>3. v \in HandlerT /\ v.pc = "touch" /\ v.kind = "work" /\ v.replica = r
      BY <2>2, <3>2 DEF HandlerT
    <3> HIDE DEF v
    <3>4. AtWork(v)
      BY <1>2, <3>3 DEF AtWork
    <3> QED
      BY <1>4, <2>2, <3>1, <3>3, <3>4, HandlerSteps
  <2>3. CASE Tail(handler[h].todo) = <<>> /\ k = "cancel"
    <3>1. StopReply(h, "stopped")
      BY <2>3 DEF AppendEvent, Advance
    <3> QED
      BY <1>4, <2>3, <3>1, StopReplyMoves
  <2>4. CASE Tail(handler[h].todo) = <<>> /\ k \in {"activate", "complete"}
    <3>1. \E answer \in {"again", "no", "ok"} : Answer(h, answer)
      BY <2>4 DEF AppendEvent, Advance
    <3>2. k = "complete" => state' \in Ended
      BY <1>3, <1>4, <2>4 DEF Endings
    <3> QED
      BY <1>4, <3>1, <3>2, AnswerMoves
  <2> QED
    BY <1>2, <2>1, <2>2, <2>3, <2>4
<1> QED
  BY <1>4, <1>5, <1>6, <1>8, <1>9 DEF Moves

\* The event is refused, or the replica has no copy: only an activation goes on,
\* and a completion is never acknowledged this way.
LEMMA AppendFailsMoves ==
  ASSUME InvocationInv, NEW h \in Handlers, AppendFails(h)
  PROVE  Moves
<1> USE DEF InvocationInv
<1>1. /\ UNCHANGED <<state, bound, log, hub, start, cancelDue, probe, stream, requests, waits, faults>>
      /\ handler[h].pc = "append"
  BY DEF AppendFails, rows, counts
<1>2. bound \in BOOLEAN
  BY Types
<1>3. RowsMove /\ HubMoves /\ StreamMoves /\ RestMoves
  BY <1>1, <1>2, RowsStay, HubStays, StreamStays, RestStays
<1>4. AgentMoves
  <2>1. CASE handler[h].kind = "activate" /\ Tail(handler[h].todo) /= <<>>
    <3>1. handler' = [handler EXCEPT ![h].todo = Tail(handler[h].todo)] /\ UNCHANGED <<engine, told>>
      BY <2>1 DEF AppendFails, Advance
    <3> QED
      BY <1>1, <1>3, <2>1, <3>1, NextEvent
  <2>2. CASE handler[h].kind = "activate" /\ Tail(handler[h].todo) = <<>>
    <3>1. Answer(h, "ok")
      BY <2>2 DEF AppendFails, Advance
    <3> QED
      BY <1>3, <2>2, <3>1, AnswerMoves
  <2>3. CASE handler[h].kind = "cancel"
    <3>1. StopReply(h, "not persisted")
      BY <2>3 DEF AppendFails
    <3> QED
      BY <1>3, <2>3, <3>1, StopReplyMoves
  <2>4. CASE handler[h].kind = "complete" /\ handler[h].status \in {"success", "proposal"}
    <3> DEFINE v == [handler[h] EXCEPT !.status = "lost", !.todo = <<"failed">>]
    <3>1. handler' = [handler EXCEPT ![h] = v] /\ UNCHANGED <<engine, told>>
      BY <2>4 DEF AppendFails
    <3>2. handler[h] \in HandlerT /\ AtWork(handler[h])
      BY Types DEF HandlersAtWork
    <3>3. <<"failed">> \in Todos("complete") /\ <<"failed">> \in Seq(Events)
      <4>1. <<"failed">> \in Todos("complete")
        BY DEF Todos
      <4> QED
        BY <4>1, RestOfScript
    <3>4. /\ v \in HandlerT /\ v.pc = "append" /\ v.kind = "complete" /\ v.status = "lost"
          /\ v.replica = handler[h].replica /\ v.todo = <<"failed">>
      BY <1>1, <2>4, <3>2, <3>3 DEF HandlerT
    <3> HIDE DEF v
    <3>5. AtWork(v)
      BY <1>1, <3>2, <3>3, <3>4 DEF AtWork
    <3> QED
      BY <1>3, <2>4, <3>1, <3>4, <3>5, HandlerSteps
  <2>5. CASE /\ handler[h].kind \notin {"activate", "cancel"}
             /\ ~(handler[h].kind = "complete" /\ handler[h].status \in {"success", "proposal"})
    <3>1. Answer(h, IF handler[h].status = "unusable" THEN "again" ELSE "no")
      BY <2>5 DEF AppendFails
    <3>2. PICK answer : Answer(h, answer) /\ answer /= "ok"
      BY <3>1
    <3> QED
      BY <1>3, <3>2, AnswerMoves
  <2> QED
    BY <2>1, <2>2, <2>3, <2>4, <2>5
<1> QED
  BY <1>3, <1>4 DEF Moves

\* The user asks to stop (CancelInvocation).
LEMMA CancelMoves ==
  ASSUME InvocationInv, NEW h \in Handlers, NEW r \in Replicas, Cancel(h, r)
  PROVE  Moves
<1> USE DEF InvocationInv
<1>1. PICK s \in {"ended", "bound", "unbound"} :
        handler' = [handler EXCEPT ![h] = [Idle EXCEPT !.pc = "revoke", !.kind = "cancel",
                      !.replica = r, !.todo = <<"canceled">>, !.status = s]]
  BY DEF Cancel
<1> DEFINE v == [Idle EXCEPT !.pc = "revoke", !.kind = "cancel", !.replica = r,
                             !.todo = <<"canceled">>, !.status = s]
<1>2. /\ UNCHANGED <<state, bound, log, start, cancelDue, probe, engine, told, stream, requests, waits>>
      /\ handler[h].pc = "idle" /\ Spend
      /\ hub' = [hub EXCEPT ![r] = Restored(hub[r], log, state)]
  BY DEF Cancel, rows
<1>3. /\ handler \in [Handlers -> HandlerT] /\ bound \in BOOLEAN
      /\ log \in Seq(Events) /\ state \in States
  BY Types
<1>4. RowsMove /\ StreamMoves /\ RestMoves
  BY <1>2, <1>3, RowsStay, StreamStays, RestStays
<1>5. HubMoves
  BY <1>2, <1>3, HubRestores
<1>6. <<"canceled">> \in Seq(Events)
  <2>1. <<"canceled">> \in Todos("cancel")
    BY DEF Todos
  <2> QED
    BY <2>1, RestOfScript
<1>7. /\ v \in HandlerT /\ v.pc = "revoke" /\ v.kind = "cancel" /\ v.replica = r
      /\ v.todo = <<"canceled">>
  BY <1>6, IdleIs DEF HandlerT
<1> HIDE DEF v
<1>8. AtWork(v)
  BY <1>7 DEF AtWork
<1>9. engine.call /= h
  BY <1>2, InvocationAssumption DEF EngineWaits
<1>10. AgentMoves
  BY <1>1, <1>2, <1>4, <1>7, <1>8, <1>9, HandlerSteps DEF v
<1> QED
  BY <1>4, <1>5, <1>10 DEF Moves

\* The row is ended (CancelMistyInvocationChildren) before the engine is stopped.
LEMMA RevokeMoves ==
  ASSUME InvocationInv, NEW h \in Handlers, Revoke(h)
  PROVE  Moves
<1> USE DEF InvocationInv
<1>1. /\ UNCHANGED <<bound, log, hub, start, cancelDue, stream, requests, waits, faults>>
      /\ handler[h].pc = "revoke" /\ CancelRow
  BY DEF Revoke, counts
<1>2. /\ handler \in [Handlers -> HandlerT] /\ handler[h] \in HandlerT /\ AtWork(handler[h])
      /\ bound \in BOOLEAN /\ probe \in ProbeT
  BY Types DEF HandlersAtWork
<1>3. /\ handler[h].kind = "cancel" /\ handler[h].todo = <<"canceled">>
      /\ handler[h].replica \in Replicas
  BY <1>1, <1>2 DEF AtWork
<1>4. /\ state' = state \/ (state \notin Ended /\ state' \in Ended)
      /\ Present => state' \in Ended
      /\ probe' \in {probe, Touched}
  BY <1>1, Sorts DEF CancelRow
<1>5. RowsMove
  <2>1. CASE state' = state
    BY <1>1, <1>2, <2>1, RowsStay
  <2>2. CASE state \notin Ended /\ state' \in Ended
    BY <1>1, <1>2, <2>2, RowEnds
  <2> QED
    BY <1>4, <2>1, <2>2
<1>6. HubMoves /\ StreamMoves /\ RestMoves
  BY <1>1, <1>4, HubStays, StreamStays, RestStays
<1>7. CASE StopReply(h, "stopped") \/ StopReply(h, "failed")
  BY <1>3, <1>5, <1>6, <1>7, StopReplyMoves DEF Moves
<1>8. CASE /\ Present
           /\ \E pc \in {"stop", "append"} : /\ handler' = [handler EXCEPT ![h].pc = pc]
                                             /\ UNCHANGED <<engine, told>>
  <2>1. PICK pc \in {"stop", "append"} : /\ handler' = [handler EXCEPT ![h].pc = pc]
                                         /\ UNCHANGED <<engine, told>>
    BY <1>8
  <2> DEFINE v == [handler[h] EXCEPT !.pc = pc]
  <2>2. /\ v \in HandlerT /\ v.pc = pc /\ v.kind = "cancel" /\ v.replica = handler[h].replica
        /\ v.todo = <<"canceled">>
    BY <1>2, <1>3 DEF HandlerT
  <2>3. handler' = [handler EXCEPT ![h] = v]
    BY <2>1
  <2> HIDE DEF v
  <2>4. <<"canceled">> \in Todos("cancel")
    BY DEF Todos
  <2>5. AtWork(v)
    BY <1>3, <2>2, <2>4 DEF AtWork
  <2>6. engine.call /= h
    BY <1>1, InvocationAssumption DEF EngineWaits
  <2>7. AgentMoves
    BY <1>4, <1>5, <1>8, <2>1, <2>2, <2>3, <2>5, <2>6, HandlerSteps
  <2> QED
    BY <1>5, <1>6, <2>7 DEF Moves
<1> QED
  BY <1>7, <1>8 DEF Revoke

\* The engine is asked to stop, after the row has ended.
LEMMA StopRuntimeMoves ==
  ASSUME InvocationInv, NEW h \in Handlers, StopRuntime(h)
  PROVE  Moves
<1> USE DEF InvocationInv
<1> DEFINE v == [handler[h] EXCEPT !.pc = "append"]
<1>1. /\ UNCHANGED <<state, bound, log, hub, start, cancelDue, probe, told, stream, requests, waits>>
      /\ handler[h].pc = "stop" /\ handler' = [handler EXCEPT ![h] = v]
      /\ engine' \in {engine, Stopped(engine)} /\ (faults' = faults \/ Spend)
  BY DEF StopRuntime, rows
<1>2. /\ handler \in [Handlers -> HandlerT] /\ handler[h] \in HandlerT /\ AtWork(handler[h])
      /\ bound \in BOOLEAN /\ engine \in EngineT /\ engine.call \in Handlers \cup {"none"}
      /\ told \in {"nothing", "stopped", "not persisted", "failed"}
  BY Types DEF HandlersAtWork, EngineT
<1>3. /\ handler[h].kind = "cancel" /\ handler[h].todo = <<"canceled">>
      /\ handler[h].replica \in Replicas
  BY <1>1, <1>2 DEF AtWork
<1>4. RowsMove /\ HubMoves /\ StreamMoves /\ RestMoves
  BY <1>1, <1>2, RowsStay, HubStays, StreamStays, RestStays
<1>5. state' \in Ended
  BY <1>1 DEF EndsAreReal
<1>6. /\ v \in HandlerT /\ v.pc = "append" /\ v.kind = "cancel" /\ v.replica = handler[h].replica
      /\ v.todo = <<"canceled">>
  BY <1>2, <1>3 DEF HandlerT
<1> HIDE DEF v
<1>7. <<"canceled">> \in Todos("cancel")
  BY DEF Todos
<1>8. AtWork(v)
  BY <1>3, <1>6, <1>7 DEF AtWork
<1>9. engine.call /= h
  BY <1>1, InvocationAssumption DEF EngineWaits
<1>10. CASE engine' = engine
  <2>1. AgentMoves
    BY <1>1, <1>4, <1>6, <1>8, <1>9, <1>10, HandlerSteps
  <2> QED
    BY <1>4, <2>1 DEF Moves
<1>11. CASE engine' = Stopped(engine)
  <2>1. engine' \in EngineT /\ engine'.call = "none" /\ engine'.pc \in {"refused", "ended"}
    BY <1>2, <1>11, StoppedIs
  <2>2. EngineWaits' /\ FinishedIsRecorded'
    BY <1>5, <2>1 DEF EngineWaits, FinishedIsRecorded
  <2>3. AgentMoves
    BY <1>1, <1>2, <1>4, <1>6, <1>8, <2>1, <2>2, OneHandler
  <2> QED
    BY <1>4, <2>3 DEF Moves
<1> QED
  BY <1>1, <1>10, <1>11

-----------------------------------------------------------------------------
(* The client's stream (InvocationEvents) and the restart of a replica.       *)

\* The client leaves the stream with what it has.
LEMMA LeftStream ==
  ASSUME InvocationInv, stream.pc /= "closed",
         stream' \in {Gone, [Gone EXCEPT !.pc = "off"], [NoStream EXCEPT !.got = stream.got]}
  PROVE  StreamMoves
<1>1. stream.got \in Seq(Events)
  BY Types DEF InvocationInv, StreamT
<1>2. "queued" \in States \ Ended
  BY Sorts
<1>3. /\ stream'.pc \in {"gone", "off"} /\ stream'.got = stream.got /\ stream'.seen = "queued"
      /\ stream' \in StreamT
  BY <1>1, <1>2 DEF Gone, NoStream, StreamT
<1> QED
  BY <1>2, <1>3 DEF StreamMoves

\* Connecting, reading the row and its state, disconnecting: nothing is sent.
LEMMA QuietStreamMoves ==
  ASSUME InvocationInv,
         (\E r \in Replicas : Connect(r)) \/ LoadRow \/ StreamState \/ Disconnect
  PROVE  Moves
<1> USE DEF InvocationInv
<1>1. /\ UNCHANGED <<state, bound, log, hub, start, cancelDue, probe, engine, handler, told, requests,
                     waits>>
      /\ faults' = faults \/ Spend
  BY DEF Connect, LoadRow, StreamState, Disconnect, rows, counts
<1>2. /\ bound \in BOOLEAN /\ state \in States /\ stream \in StreamT
      /\ stream.pc \notin {"off", "gone"} => stream.replica \in Replicas
  BY Types DEF CopiesOfLog
<1>3. RowsMove /\ HubMoves /\ RestMoves
  BY <1>1, <1>2, RowsStay, HubStays, RestStays
<1>4. AgentMoves
  BY <1>1, <1>3, AgentStays
<1>5. StreamMoves
  <2>1. ASSUME NEW r \in Replicas, Connect(r)
        PROVE  StreamMoves
    <3>1. /\ stream.pc = "off"
          /\ \E pc \in {"loop", "row"} : stream' = [stream EXCEPT !.pc = pc, !.replica = r]
      BY <2>1 DEF Connect
    <3> QED
      BY <1>2, <3>1 DEF StreamMoves, StreamT
  <2>2. CASE LoadRow
    <3>1. stream.pc = "row" /\ stream' \in {[stream EXCEPT !.pc = "state", !.bound = bound], Gone}
      BY <2>2 DEF LoadRow
    <3>2. CASE stream' = [stream EXCEPT !.pc = "state", !.bound = TRUE]
      BY <1>2, <3>1, <3>2 DEF StreamMoves, StreamT
    <3>3. CASE stream' = [stream EXCEPT !.pc = "state", !.bound = FALSE]
      BY <1>2, <3>1, <3>3 DEF StreamMoves, StreamT
    <3>4. CASE stream' = Gone
      BY <3>1, <3>4, LeftStream
    <3> QED
      BY <1>2, <3>1, <3>2, <3>3, <3>4
  <2>3. CASE StreamState
    <3>1. /\ stream.pc \in {"state", "loop"} /\ state' = state
          /\ \/ \E pc \in {"events", "emit"} : stream' = [stream EXCEPT !.pc = pc, !.seen = state]
             \/ stream' \in {Gone, [Gone EXCEPT !.pc = "off"]}
      BY <1>1, <2>3 DEF StreamState
    <3>2. CASE \E pc \in {"events", "emit"} : stream' = [stream EXCEPT !.pc = pc, !.seen = state]
      BY <1>2, <3>1, <3>2 DEF StreamMoves, StreamT
    <3>3. CASE stream' \in {Gone, [Gone EXCEPT !.pc = "off"]}
      BY <3>1, <3>3, LeftStream
    <3> QED
      BY <3>1, <3>2, <3>3
  <2>4. CASE Disconnect
    <3>1. stream.pc /= "closed" /\ stream' = [NoStream EXCEPT !.got = stream.got]
      BY <2>4 DEF Disconnect
    <3> QED
      BY <3>1, LeftStream
  <2> QED
    BY <2>1, <2>2, <2>3, <2>4
<1> QED
  BY <1>3, <1>4, <1>5 DEF Moves

\* The copy is rebuilt for a stream.
LEMMA LoadEventsMoves ==
  ASSUME InvocationInv, LoadEvents
  PROVE  Moves
<1> USE DEF InvocationInv
<1>1. /\ UNCHANGED <<state, bound, log, start, cancelDue, probe, engine, handler, told, requests, waits,
                     faults>>
      /\ stream.pc = "events"
      /\ hub' = [hub EXCEPT ![stream.replica] = Restored(hub[stream.replica], Stored, stream.seen)]
      /\ \E pc \in {"interrupt", "loop"} :
           stream' = [stream EXCEPT !.pc = pc, !.seen = "queued", !.bound = FALSE]
  BY DEF LoadEvents, rows, counts
<1>2. /\ bound \in BOOLEAN /\ log \in Seq(Events) /\ stream \in StreamT /\ stream.seen \in States
      /\ stream.pc \notin {"off", "gone"} => stream.replica \in Replicas
  BY Types DEF CopiesOfLog, StreamT
<1>3. RowsMove /\ RestMoves
  BY <1>1, <1>2, RowsStay, RestStays
<1>4. AgentMoves
  BY <1>1, <1>3, AgentStays
<1>5. stream.seen \in Ended => state' \in Ended
  BY <1>1 DEF EndsAreReal
<1>6. HubMoves
  <2>1. Stored \in {<<>>, log'}
    BY <1>1 DEF Stored
  <2> QED
    BY <1>1, <1>2, <1>5, <2>1, HubRestores
<1>7. "queued" \in States \ Ended
  BY Sorts
<1>8. StreamMoves
  BY <1>1, <1>2, <1>7 DEF StreamMoves, StreamT
<1> QED
  BY <1>3, <1>4, <1>6, <1>8 DEF Moves

\* A run that seems to have lost its runtime is recorded as interrupted.
LEMMA InterruptMoves ==
  ASSUME InvocationInv, Interrupt
  PROVE  Moves
<1> USE DEF InvocationInv
<1>1. /\ UNCHANGED <<bound, start, engine, handler, told, requests, waits, faults>>
      /\ stream.pc = "interrupt" /\ stream' = [stream EXCEPT !.pc = "loop"]
      /\ \/ UNCHANGED <<state, log, hub, probe, cancelDue>>
         \/ CommitEvent("interrupted") /\ Reload(stream.replica)
  BY DEF Interrupt, counts
<1>2. /\ bound \in BOOLEAN /\ stream \in StreamT /\ start \in StartT /\ probe \in ProbeT
      /\ cancelDue \in BOOLEAN /\ stream.replica \in Replicas
      /\ requests \in 0 .. MaxRequests /\ waits \in 0 .. MaxWaits /\ faults \in 0 .. MaxFaults
  BY <1>1, Types DEF CopiesOfLog
<1>3. StreamMoves
  BY <1>1, <1>2 DEF StreamMoves, StreamT
<1>4. CASE UNCHANGED <<state, log, hub, probe, cancelDue>>
  <2>1. RowsMove
    BY <1>1, <1>2, <1>4, RowsStay
  <2>2. HubMoves /\ AgentMoves /\ RestMoves
    BY <1>1, <1>4, <2>1, HubStays, AgentStays, RestStays
  <2> QED
    BY <1>3, <2>1, <2>2 DEF Moves
<1>5. CASE CommitEvent("interrupted") /\ Reload(stream.replica)
  <2>1. "interrupted" \in Events
    BY Sorts
  <2>2. /\ RowsMove /\ probe' \in ProbeT
        /\ cancelDue' \in BOOLEAN /\ (cancelDue' => cancelDue \/ state' \in Ended)
    BY <1>1, <1>5, <2>1, CommitMoves
  <2>3. AgentMoves /\ RestMoves
    BY <1>1, <1>2, <2>2, AgentStays DEF RestMoves
  <2>4. state' \in States /\ log' \in Seq(Events)
    BY <2>2 DEF RowsMove
  <2>5. hub' = [hub EXCEPT ![stream.replica] = Restored(hub[stream.replica], log', state')]
    BY <1>5 DEF Reload
  <2>6. HubMoves
    BY <1>2, <2>4, <2>5, HubRestores
  <2> QED
    BY <1>3, <2>2, <2>3, <2>6 DEF Moves
<1> QED
  BY <1>1, <1>4, <1>5

\* What lies beyond the client's cursor is sent: then the client has all of the
\* log, and the stream is closed only if the invocation has ended.
LEMMA EmitMoves ==
  ASSUME InvocationInv, Emit
  PROVE  Moves
<1> USE DEF InvocationInv
<1> DEFINE record == Restored(hub[stream.replica], Stored, stream.seen)
<1>1. /\ UNCHANGED <<state, bound, log, start, cancelDue, probe, engine, handler, told, requests, waits,
                     faults>>
      /\ stream.pc = "emit"
      /\ hub' = [hub EXCEPT ![stream.replica] = record]
      /\ life /= "fresh" => stream' = Gone
      /\ life = "fresh" =>
           stream' = [stream EXCEPT !.got = stream.got \o Beyond(record.events, Len(stream.got)),
                                    !.seen = "queued",
                                    !.pc = IF record.state \in Ended THEN "closed" ELSE "loop"]
  BY DEF Emit, rows, counts
<1>2. /\ bound \in BOOLEAN /\ log \in Seq(Events) /\ stream \in StreamT /\ stream.seen \in States
      /\ stream.replica \in Replicas /\ stream.got \in Seq(Events)
      /\ hub \in [Replicas -> RecordT] /\ hub[stream.replica] \in RecordT
      /\ PartOf(stream.got, log) /\ PartOf(hub[stream.replica].events, log)
  BY <1>1, Types DEF CopiesOfLog, StreamT
<1>3. RowsMove /\ RestMoves
  BY <1>1, <1>2, RowsStay, RestStays
<1>4. AgentMoves
  BY <1>1, <1>3, AgentStays
<1>5. /\ stream.seen \in Ended => state \in Ended
      /\ hub[stream.replica].state \in Ended => state \in Ended
  BY <1>2 DEF EndsAreReal
<1>6. HubMoves
  <2>1. Stored \in {<<>>, log'}
    BY <1>1 DEF Stored
  <2> QED
    BY <1>1, <1>2, <1>5, <2>1, HubRestores
<1>7. CASE life /= "fresh"
  <2>1. StreamMoves
    BY <1>1, <1>7, LeftStream
  <2> QED
    BY <1>3, <1>4, <1>6, <2>1 DEF Moves
<1>8. CASE life = "fresh"
  <2>1. Stored = log
    BY <1>8 DEF Stored, Present
  <2>2. /\ record.events = log
        /\ record = hub[stream.replica] \/ record.state = stream.seen
    BY <1>2, <2>1, RestoredIs
  <2>3. record.state \in Ended => state \in Ended
    BY <1>5, <2>2
  <2>4. stream.got \o Beyond(record.events, Len(stream.got)) = log
    BY <1>2, <2>2, RestCompletes
  <2>5. "queued" \in States \ Ended
    BY Sorts
  <2>6. PICK pc \in {"closed", "loop"} :
          /\ stream' = [stream EXCEPT !.got = log, !.seen = "queued", !.pc = pc]
          /\ pc = "closed" => state \in Ended
    BY <1>1, <1>8, <2>3, <2>4
  <2>7. /\ stream' \in StreamT /\ stream'.got = log /\ stream'.seen = "queued" /\ stream'.pc = pc
        /\ stream'.replica = stream.replica
    BY <1>2, <2>5, <2>6 DEF StreamT
  <2>8. StreamMoves
    BY <1>1, <1>2, <2>5, <2>6, <2>7 DEF StreamMoves
  <2> QED
    BY <1>3, <1>4, <1>6, <2>8 DEF Moves
<1> QED
  BY <1>7, <1>8

\* A replica restarts.  The workflow does not go on waiting for a request that
\* is gone.
LEMMA RestartMoves ==
  ASSUME InvocationInv, NEW r \in Replicas, Restart(r)
  PROVE  Moves
<1> USE DEF InvocationInv
<1>1. /\ UNCHANGED <<state, bound, log, start, cancelDue, probe, told, requests, waits>>
      /\ Spend /\ hub' = [hub EXCEPT ![r] = NoRecord]
      /\ handler' = [h \in Handlers |-> IF handler[h].replica = r THEN Idle ELSE handler[h]]
      /\ engine' = [engine EXCEPT !.call =
           IF engine.call \in Handlers /\ handler[engine.call].replica = r THEN "none" ELSE engine.call]
      /\ stream' = IF stream.replica = r /\ stream.pc \notin {"closed", "gone"}
                   THEN [NoStream EXCEPT !.got = stream.got] ELSE stream
  BY DEF Restart, rows
<1>2. /\ bound \in BOOLEAN /\ stream \in StreamT /\ hub \in [Replicas -> RecordT]
      /\ handler \in [Handlers -> HandlerT] /\ engine \in EngineT
      /\ engine.call \in Handlers \cup {"none"}
      /\ told \in {"nothing", "stopped", "not persisted", "failed"}
      /\ stream.pc \notin {"off", "gone"} => stream.replica \in Replicas
  BY Types DEF EngineT, CopiesOfLog
<1>3. RowsMove /\ RestMoves
  BY <1>1, <1>2, RowsStay, RestStays
<1>4. "queued" \in States \ Ended
  BY Sorts
<1>5. HubMoves
  <2>1. NoRecord \in RecordT /\ NoRecord.events = <<>> /\ NoRecord.state = "queued"
    BY <1>4 DEF NoRecord, RecordT
  <2>2. /\ hub' \in [Replicas -> RecordT] /\ hub'[r] = NoRecord
        /\ \A q \in Replicas : q /= r => hub'[q] = hub[q]
    BY <1>1, <1>2, <2>1
  <2> QED
    BY <1>4, <2>1, <2>2 DEF HubMoves
<1>6. StreamMoves
  <2>1. CASE stream' = stream
    BY <2>1, StreamStays
  <2>2. CASE stream.pc /= "closed" /\ stream' = [NoStream EXCEPT !.got = stream.got]
    BY <1>2, <1>4, <2>2 DEF StreamMoves, StreamT, NoStream
  <2> QED
    BY <1>1, <2>1, <2>2
<1>7. /\ handler' \in [Handlers -> HandlerT]
      /\ \A h \in Handlers : handler'[h] = Idle \/ handler'[h] = handler[h]
  BY <1>1, <1>2, IdleIs
<1>8. HandlersAtWork'
  <2> SUFFICES ASSUME NEW h \in Handlers
               PROVE  AtWork(handler'[h])
    BY DEF HandlersAtWork, AtWork
  <2>1. AtWork(handler[h])
    BY DEF HandlersAtWork
  <2> QED
    BY <1>7, <2>1, IdleIs
<1>9. /\ engine' \in EngineT /\ engine'.pc = engine.pc /\ engine'.status = engine.status
      /\ \/ engine'.call = "none"
         \/ /\ engine'.call = engine.call /\ engine.call \in Handlers
            /\ handler[engine.call].replica /= r
  BY <1>1, <1>2 DEF EngineT
<1>10. EngineWaits'
  <2>1. CASE engine'.call = "none"
    BY <1>9, <2>1 DEF EngineWaits
  <2>2. CASE engine'.call = engine.call /\ engine.call \in Handlers
                /\ handler[engine.call].replica /= r
    <3>1. handler'[engine.call] = handler[engine.call]
      BY <1>1, <2>2
    <3> QED
      BY <1>9, <2>2, <3>1 DEF EngineWaits
  <2> QED
    BY <1>9, <2>1, <2>2
<1>11. FinishedIsRecorded'
  BY <1>1, <1>9 DEF FinishedIsRecorded
<1>12. AgentMoves
  BY <1>1, <1>2, <1>7, <1>8, <1>9, <1>10, <1>11, IdleIs DEF AgentMoves
<1> QED
  BY <1>3, <1>5, <1>6, <1>12 DEF Moves

-----------------------------------------------------------------------------
(* The invariant and what follows from it.                                    *)

\* Initially there is nothing but a queued invocation.
LEMMA InvocationInit ==
  ASSUME Init
  PROVE  InvocationInv /\ Promise!Init
<1>1. state = "queued" /\ log = <<>> /\ bound = FALSE /\ cancelDue = FALSE /\ told = "nothing"
  BY DEF Init
<1>2. "queued" \in States \ Ended
  BY Sorts
<1>3. <<>> \in Seq(Events) /\ DOMAIN <<>> = {} /\ PartOf(<<>>, <<>>)
  BY DEF PartOf
<1>4. NoRecord \in RecordT /\ NoRecord.events = <<>> /\ NoRecord.state = "queued"
  BY <1>2 DEF NoRecord, RecordT
<1>5. hub \in [Replicas -> RecordT] /\ \A r \in Replicas : hub[r] = NoRecord
  BY <1>4 DEF Init
<1>6. handler \in [Handlers -> HandlerT] /\ \A h \in Handlers : handler[h] = Idle
  BY IdleIs DEF Init
<1>7. /\ stream \in StreamT /\ stream.pc = "off" /\ stream.seen = "queued" /\ stream.got = <<>>
  BY <1>2, <1>3 DEF Init, NoStream, StreamT
<1>8. engine \in EngineT /\ engine.pc = "none" /\ engine.call = "none"
  BY DEF Init, EngineT
<1>9. start \in StartT /\ probe \in ProbeT
  BY DEF Init, StartT, ProbeT, NoProbe
<1>10. requests \in 0 .. MaxRequests /\ waits \in 0 .. MaxWaits /\ faults \in 0 .. MaxFaults
  BY InvocationAssumption DEF Init
<1>11. PartsOK
  BY <1>1, <1>2, <1>3, <1>5, <1>6, <1>7, <1>8, <1>9, <1>10, Types
<1>12. HandlersAtWork /\ EngineWaits /\ FinishedIsRecorded
  BY <1>6, <1>8, IdleIs DEF HandlersAtWork, EngineWaits, FinishedIsRecorded
<1>13. RepeatsAreRecordedOnce
  BY <1>1, <1>3 DEF RepeatsAreRecordedOnce
<1>14. EndsAreReal
  BY <1>1, <1>2, <1>4, <1>5, <1>6, <1>7, IdleIs DEF EndsAreReal
<1>15. CopiesOfLog
  BY <1>1, <1>3, <1>4, <1>5, <1>7 DEF CopiesOfLog
<1>16. (stream.pc = "closed") = FALSE
  BY <1>7
<1>17. Promise!Init
  BY <1>1, <1>2, <1>7, <1>16 DEF Promise!Init
<1> QED
  BY <1>11, <1>12, <1>13, <1>14, <1>15, <1>17 DEF InvocationInv

\* The end of the retention of the record leaves everything else as it is.
LEMMA RetentionMoves ==
  ASSUME InvocationInv, Expire \/ Purge
  PROVE  Moves
<1>1. /\ UNCHANGED <<state, bound, log, hub, start, cancelDue, probe, engine, handler, told, stream,
                     requests, waits>>
      /\ faults' = faults \/ Spend
  BY DEF Expire, Purge, counts
<1>2. bound \in BOOLEAN
  BY Types DEF InvocationInv
<1>3. RowsMove /\ HubMoves /\ StreamMoves /\ RestMoves
  BY <1>1, <1>2, RowsStay, HubStays, StreamStays, RestStays
<1> QED
  BY <1>1, <1>3, AgentStays DEF Moves

\* The life of the row is one of three.
LEMMA LifeStep ==
  ASSUME life \in {"fresh", "expired", "purged"}, [Next]_vars
  PROVE  life' \in {"fresh", "expired", "purged"}
<1>1. ASSUME NEW h \in Handlers, HandlerStep(h)
      PROVE  life' = life
  <2>1. CASE Activate(h) \/ Event(h) \/ Complete(h)
    BY <2>1 DEF Activate, Event, Complete, rows
  <2>2. CASE AppendEvent(h)
    BY <2>2 DEF AppendEvent, CommitEvent
  <2>3. CASE AppendFails(h) \/ Touch(h) \/ Revoke(h) \/ StopRuntime(h)
    BY <2>3 DEF AppendFails, Touch, Revoke, StopRuntime, rows
  <2> QED
    BY <1>1, <2>1, <2>2, <2>3 DEF HandlerStep
<1>2. ASSUME NEW h \in Handlers, NEW r \in Replicas, Send(h, r) \/ Cancel(h, r)
      PROVE  life' = life
  BY <1>2 DEF Send, Cancel, rows
<1>3. ASSUME NEW r \in Replicas, Connect(r) \/ Restart(r)
      PROVE  life' = life
  BY <1>3 DEF Connect, Restart, rows
<1>4. CASE Timeout \/ GiveUp \/ EngineLost \/ CancelSpace \/ DeliverCancel \/ Park \/ Resume
  BY <1>4 DEF Timeout, GiveUp, EngineLost, CancelSpace, DeliverCancel, Park, Resume, rows
<1>5. CASE StartStep \/ LoseStart
  <2>1. CASE FailStart
    BY <2>1 DEF FailStart, CommitEvent
  <2> QED
    BY <1>5, <2>1 DEF StartStep, LoseStart, ClaimStart, Submit, MarkDispatched, CheckActivation, rows
<1>6. CASE ProbeStep
  BY <1>6 DEF ProbeStep, Reconcile, Observe, RecordStatus, rows
<1>7. CASE ClientStep \/ Disconnect
  <2>1. CASE Interrupt
    BY <2>1 DEF Interrupt, CommitEvent
  <2> QED
    BY <1>3, <1>7, <2>1 DEF ClientStep, LoadRow, StreamState, LoadEvents, Emit, Disconnect, rows
<1>8. CASE EngineStep
  BY <1>2, <1>4, <1>8 DEF EngineStep
<1>9. CASE Expire \/ Purge
  BY <1>9 DEF Expire, Purge
<1>10. CASE UNCHANGED vars
  BY <1>10 DEF vars, rows
<1> QED
  BY <1>1, <1>2, <1>3, <1>4, <1>5, <1>6, <1>7, <1>8, <1>9, <1>10 DEF Next

\* Every step moves the parts as described.
LEMMA EveryStepMoves ==
  ASSUME InvocationInv, Next
  PROVE  Moves
<1>1. ASSUME NEW h \in Handlers, NEW r \in Replicas, Send(h, r) \/ Cancel(h, r)
      PROVE  Moves
  BY <1>1, SendMoves, CancelMoves
<1>2. ASSUME NEW h \in Handlers, HandlerStep(h)
      PROVE  Moves
  BY <1>2, ActivateMoves, EventMoves, CompleteMoves, AppendEventMoves, AppendFailsMoves, RevokeMoves,
     StopRuntimeMoves DEF HandlerStep
<1>3. ASSUME NEW r \in Replicas, Connect(r) \/ Restart(r)
      PROVE  Moves
  BY <1>3, QuietStreamMoves, RestartMoves
<1>4. CASE Timeout \/ GiveUp \/ EngineLost \/ CancelSpace \/ DeliverCancel \/ Park \/ Resume
  BY <1>4, EngineFails, CancelSpaceMoves, DeliverCancelMoves, WaitsMove
<1>5. CASE StartStep \/ LoseStart
  BY <1>5, StartMoves, SubmitMoves, FailStartMoves DEF StartStep
<1>6. CASE ProbeStep
  BY <1>6, ProbeMoves, RecordStatusMoves DEF ProbeStep
<1>7. CASE ClientStep \/ Disconnect
  BY <1>3, <1>7, QuietStreamMoves, LoadEventsMoves, InterruptMoves, EmitMoves DEF ClientStep
<1>8. CASE EngineStep
  BY <1>1, <1>4, <1>8 DEF EngineStep
<1>9. CASE Expire \/ Purge
  BY <1>9, RetentionMoves
<1> QED
  BY <1>1, <1>2, <1>3, <1>4, <1>5, <1>6, <1>7, <1>8, <1>9 DEF Next

\* A stuttering step keeps everything.
LEMMA StutterMoves ==
  ASSUME InvocationInv, UNCHANGED vars
  PROVE  Moves
<1>1. UNCHANGED <<state, bound, log, hub, start, cancelDue, probe, engine, handler, told, stream,
                  requests, waits, faults>>
  BY DEF vars, rows, counts
<1>2. bound \in BOOLEAN
  BY Types DEF InvocationInv
<1>3. RowsMove /\ HubMoves /\ StreamMoves /\ RestMoves
  BY <1>1, <1>2, RowsStay, HubStays, StreamStays, RestStays
<1> QED
  BY <1>1, <1>3, AgentStays DEF Moves

\* The inductive invariant of an invocation.
THEOREM InvocationInvariant == Spec => []InvocationInv
<1>1. Init => InvocationInv
  BY InvocationInit
<1>2. InvocationInv /\ [Next]_vars => InvocationInv'
  BY EveryStepMoves, StutterMoves, MovesKeepInv
<1> QED
  BY <1>1, <1>2, PTL DEF Spec

\* The row, the log, the copies, the requests and the stream keep their types.
THEOREM InvocationTypeCorrect == Spec => []InvTypeOK
<1>1. Init => life \in {"fresh", "expired", "purged"}
  BY DEF Init
<1>2. InvocationInv /\ life \in {"fresh", "expired", "purged"} => InvTypeOK
  BY DEF InvocationInv, PartsOK, InvTypeOK, RecordT, StartT, ProbeT, EngineT, HandlerT, StreamT
<1>3. life \in {"fresh", "expired", "purged"} /\ [Next]_vars => (life \in {"fresh", "expired", "purged"})'
  BY LifeStep
<1>4. Spec => [](life \in {"fresh", "expired", "purged"})
  BY <1>1, <1>3, PTL DEF Spec
<1> QED
  BY <1>2, <1>4, InvocationInvariant, PTL

\* A workflow that has finished has had its result recorded
\* (agentRuntimeCompleteAIInvocation, CancelInvocation).
THEOREM FinishedIsRecordedHolds == Spec => []FinishedIsRecorded
<1>1. InvocationInv => FinishedIsRecorded
  BY DEF InvocationInv
<1> QED
  BY <1>1, InvocationInvariant, PTL

\* A repeated callback is not recorded twice (CommitAIInvocationEvent).
THEOREM RepeatsAreRecordedOnceHolds == Spec => []RepeatsAreRecordedOnce
<1>1. InvocationInv => RepeatsAreRecordedOnce
  BY DEF InvocationInv
<1> QED
  BY <1>1, InvocationInvariant, PTL

\* The row, the log and the client's stream implement InvocationStream: one log
\* that only grows, one outcome, and a stream that hands over the log in order
\* and closes only at its end, across replicas, restarts and reconnections
\* (InvocationEvents, restore).
THEOREM StreamIsAsPromisedHolds == Spec => StreamIsAsPromised
<1>1. Init => Promise!Init
  BY InvocationInit
<1>2. InvocationInv /\ [Next]_vars => [Promise!Next]_(Promise!vars)
  BY EveryStepMoves, StutterMoves, MovesKeepPromise
<1> QED
  BY <1>1, <1>2, InvocationInvariant, PTL DEF Spec, StreamIsAsPromised, Promise!Spec
=============================================================================
