--------------------------- MODULE AgentRunProofs ---------------------------
(***************************************************************************)
(* The safety properties of AgentRun for any runs, agents, workers and     *)
(* bounds.  None of them is inductive alone.  That a workflow is submitted *)
(* once rests on the receipt: no workflow exists before the claim is taken *)
(* and the holder of the claim has submitted none (ReceiptOK).  That jobs  *)
(* agree with runs rests on the binding being empty before dispatch and on *)
(* the completion handler acting on a run that ended (RunInv).  What a     *)
(* worker marks is the workflow the receipt answered with (WorkerInv).     *)
(***************************************************************************)
EXTENDS AgentRun, SequenceTheorems, TLAPS

USE DEF space_runs, agent_run_jobs, receipts, runtimeVars, workerVars,
        Terminal, Live, Active, Open

\* A run, its job, its binding and its completion handler agree.
RunInv ==
  \A r \in Runs :
    /\ run[r] = "absent" => job[r] = "none"
    /\ job[r] \in {"none", "queued", "leased"} => runtime[r] = 0
    /\ job[r] = "dispatched" => runtime[r] # 0
    /\ job[r] = "completed" => run[r] \in {"completed", "completed_with_errors"}
    /\ job[r] = "canceled" => run[r] = "canceled"
    /\ job[r] = "failed" => run[r] = "failed" \/ runtime[r] = 0
    /\ hand[r] = "finished" => run[r] \in Terminal

\* At most one workflow, submitted under the claim; every identity names it.
ReceiptOK(r) ==
  /\ Len(wf[r]) <= 1
  /\ ~token[r] => Len(wf[r]) = 0
  /\ adapter[r] = "submit" => token[r] /\ Len(wf[r]) = 0
  /\ adapter[r] = "record" => Len(wf[r]) = 1
  /\ adapter[r] = "done" => recorded[r] # 0
  /\ runtime[r] \in 0..Len(wf[r]) /\ recorded[r] \in 0..Len(wf[r])
  /\ cancelDue[r] => runtime[r] # 0
  /\ acted[r] \subseteq {runtime[r]} \ {0}

ReceiptInv == \A r \in Runs : ReceiptOK(r)

\* A worker past Start has a run, and an answered Start a submitted workflow.
WorkerInv ==
  \A w \in Workers :
    /\ pc[w] \notin {"idle", "start"} => cur[w] \in Runs
    /\ pc[w] = "started" => reply[w] # 0 /\ reply[w] <= Len(wf[cur[w]])

\* What DispatchedNeverRestarts and OutcomeIsFinal say of a step and run r.
NotRestarted(r) ==
  job[r] = "dispatched" =>
    /\ job'[r] \notin {"queued", "leased"}
    /\ attempt'[r] = attempt[r] /\ runtime'[r] = runtime[r]

OutcomeKept(r) ==
  run[r] \in Terminal => run'[r] = run[r] /\ acted'[r] = acted[r]

\* The dispatch loop's part of TypeOK.
LoopTypeOK ==
  /\ pc \in [Workers -> {"idle", "start", "sent", "submitting", "started",
                         "failed", "finishing"}]
  /\ cur \in [Workers -> Runs \cup {Nobody}]
  /\ reply \in [Workers -> Nat]
  /\ batch \in [Workers -> SUBSET Runs]

\* The tables' part of TypeOK.
RowTypeOK ==
  /\ run \in [Runs -> {"absent", "awaiting"} \cup Live \cup Terminal]
  /\ job \in [Runs -> {"none", "completed", "failed", "canceled"} \cup Open]
  /\ runtime \in [Runs -> Nat]
  /\ attempt \in [Runs -> 0..MaxAttempts]
  /\ lease \in [Runs -> Workers \cup {Nobody, Gone}]
  /\ reconcileDue \in [Runs -> BOOLEAN] /\ cancelDue \in [Runs -> BOOLEAN]
  /\ expired \in [Runs -> BOOLEAN]
  /\ order \in Seq(Runs)

\* The inductive invariant; SingleActivePerAgent is inductive relative to it.
Inv == TypeOK /\ RunInv /\ ReceiptInv /\ WorkerInv

\* What every step has to establish.
Preserved ==
  /\ Inv' /\ SingleActivePerAgent'
  /\ \A q \in Runs : NotRestarted(q) /\ OutcomeKept(q)

\* Taking one element out of a sequence leaves a sequence over the same
\* set.
LEMMA RemovalType ==
  ASSUME NEW T, NEW s \in Seq(T), NEW i \in 1..Len(s)
  PROVE  SubSeq(s, 1, i - 1) \o SubSeq(s, i + 1, Len(s)) \in Seq(T)
OBVIOUS

\* Binding a workflow and ending the lease keeps the rows typed.
LEMMA DispatchType ==
  ASSUME TypeOK, NEW r \in Runs, NEW k \in Nat, Dispatch(r, k)
  PROVE  RowTypeOK'
BY DEF TypeOK, RowTypeOK, Dispatch

\* Every step preserves the invariants, restarts no dispatched job and
\* keeps the outcome of an ended run.  Only a claim makes a job active, and
\* it takes one job of each agent that is free; only the holder of the
\* claim submits a workflow.
LEMMA StepPreserves ==
  ASSUME Inv, SingleActivePerAgent, Next \/ UNCHANGED vars
  PROVE  Preserved
<1> USE RunConstants DEF Inv
<1>0. CASE UNCHANGED vars
  BY <1>0
     DEF vars, Preserved, TypeOK, RunInv, ReceiptInv, ReceiptOK, WorkerInv,
         SingleActivePerAgent, NotRestarted, OutcomeKept
<1>1. ASSUME NEW r \in Runs, Insert(r)
      PROVE  Preserved
  BY <1>1
     DEF Preserved, Inv, TypeOK, RunInv, ReceiptInv, ReceiptOK, WorkerInv,
         SingleActivePerAgent, NotRestarted, OutcomeKept, Insert
<1>2. ASSUME NEW r \in Runs, LeaseExpires(r)
      PROVE  Preserved
  BY <1>2
     DEF Preserved, Inv, TypeOK, RunInv, ReceiptInv, ReceiptOK, WorkerInv,
         SingleActivePerAgent, NotRestarted, OutcomeKept, LeaseExpires
<1>3. ASSUME NEW r \in Runs, BecomesAvailable(r)
      PROVE  Preserved
  BY <1>3
     DEF Preserved, Inv, TypeOK, RunInv, ReceiptInv, ReceiptOK, WorkerInv,
         SingleActivePerAgent, NotRestarted, OutcomeKept, BecomesAvailable
<1>4. ASSUME NEW r \in Runs, LateStart(r)
      PROVE  Preserved
  <2>1. TypeOK'
    <3>1. CASE GrantClaim(r)
      BY <1>4, <3>1 DEF TypeOK, LateStart, GrantClaim, Unclaimed
    <3>2. CASE UNCHANGED <<receipts, adapter>>
      BY <1>4, <3>2 DEF TypeOK, LateStart
    <3> QED
      BY <1>4, <3>1, <3>2 DEF LateStart
  <2>2. RunInv' /\ SingleActivePerAgent'
    BY <1>4 DEF TypeOK, RunInv, SingleActivePerAgent, LateStart, GrantClaim, Unclaimed
  <2>3. ReceiptInv' /\ WorkerInv'
    BY <1>4
       DEF TypeOK, ReceiptInv, ReceiptOK, WorkerInv, LateStart, GrantClaim, Unclaimed
  <2>4. \A q \in Runs : NotRestarted(q) /\ OutcomeKept(q)
    BY <1>4
       DEF TypeOK, RunInv, NotRestarted, OutcomeKept, LateStart, GrantClaim, Unclaimed
  <2> QED
    BY <2>1, <2>2, <2>3, <2>4 DEF Preserved
<1>5. ASSUME NEW r \in Runs, AdapterSubmit(r)
      PROVE  Preserved
  <2>1. TypeOK'
    <3>1. CASE /\ wf' = [wf EXCEPT ![r] = Append(@, "submitted")]
               /\ adapter' = [adapter EXCEPT ![r] = "record"]
      BY <1>5, <3>1 DEF TypeOK, AdapterSubmit
    <3>2. CASE /\ wf' = [wf EXCEPT ![r] = Append(@, "submitted")]
               /\ adapter' = [adapter EXCEPT ![r] = "stopped"]
      BY <1>5, <3>2 DEF TypeOK, AdapterSubmit
    <3>3. CASE UNCHANGED wf /\ adapter' = [adapter EXCEPT ![r] = "stopped"]
      BY <1>5, <3>3 DEF TypeOK, AdapterSubmit
    <3> QED
      BY <1>5, <3>1, <3>2, <3>3 DEF AdapterSubmit
  <2>2. RunInv' /\ SingleActivePerAgent'
    BY <1>5 DEF TypeOK, RunInv, SingleActivePerAgent, AdapterSubmit
  <2>3. ReceiptInv'
    <3>1. CASE /\ wf' = [wf EXCEPT ![r] = Append(@, "submitted")]
               /\ adapter' = [adapter EXCEPT ![r] = "record"]
      BY <1>5, <3>1 DEF TypeOK, ReceiptInv, ReceiptOK, AdapterSubmit
    <3>2. CASE /\ wf' = [wf EXCEPT ![r] = Append(@, "submitted")]
               /\ adapter' = [adapter EXCEPT ![r] = "stopped"]
      BY <1>5, <3>2 DEF TypeOK, ReceiptInv, ReceiptOK, AdapterSubmit
    <3>3. CASE UNCHANGED wf /\ adapter' = [adapter EXCEPT ![r] = "stopped"]
      BY <1>5, <3>3 DEF TypeOK, ReceiptInv, ReceiptOK, AdapterSubmit
    <3> QED
      BY <1>5, <3>1, <3>2, <3>3 DEF AdapterSubmit
  <2>4. WorkerInv'
    BY <1>5 DEF TypeOK, ReceiptInv, ReceiptOK, WorkerInv, AdapterSubmit
  <2>5. \A q \in Runs : NotRestarted(q) /\ OutcomeKept(q)
    BY <1>5 DEF TypeOK, RunInv, NotRestarted, OutcomeKept, AdapterSubmit
  <2> QED
    BY <2>1, <2>2, <2>3, <2>4, <2>5 DEF Preserved
<1>6. ASSUME NEW r \in Runs, AdapterRecord(r)
      PROVE  Preserved
  <2>1. TypeOK'
    <3>1. CASE /\ recorded' = [recorded EXCEPT ![r] = Len(wf[r])]
               /\ adapter' = [adapter EXCEPT ![r] = "done"]
      BY <1>6, <3>1 DEF TypeOK, AdapterRecord
    <3>2. CASE UNCHANGED recorded /\ adapter' = [adapter EXCEPT ![r] = "stopped"]
      BY <1>6, <3>2 DEF TypeOK, AdapterRecord
    <3> QED
      BY <1>6, <3>1, <3>2 DEF AdapterRecord
  <2>2. RunInv' /\ SingleActivePerAgent'
    BY <1>6 DEF TypeOK, RunInv, SingleActivePerAgent, AdapterRecord
  <2>3. ReceiptInv'
    <3>0. Len(wf[r]) = 1
      BY <1>6 DEF ReceiptInv, ReceiptOK, AdapterRecord
    <3>1. CASE /\ recorded' = [recorded EXCEPT ![r] = 1]
               /\ adapter' = [adapter EXCEPT ![r] = "done"]
      <4>1. UNCHANGED <<token, wf, acted, runtime, cancelDue>>
        BY <1>6 DEF AdapterRecord
      <4>2. ReceiptOK(r)'
        <5>1. recorded'[r] = 1 /\ adapter'[r] = "done"
          BY <3>1 DEF TypeOK
        <5>2. ReceiptOK(r)
          BY DEF ReceiptInv
        <5>3. recorded'[r] \in 0..Len(wf'[r])
          BY <3>0, <4>1, <5>1
        <5> QED
          BY <4>1, <5>1, <5>2, <5>3 DEF ReceiptOK
      <4>3. ASSUME NEW q \in Runs, q # r
            PROVE  ReceiptOK(q)'
        BY <3>1, <4>1, <4>3 DEF TypeOK, ReceiptInv, ReceiptOK
      <4> QED
        BY <4>2, <4>3 DEF ReceiptInv
    <3>2. CASE UNCHANGED recorded /\ adapter' = [adapter EXCEPT ![r] = "stopped"]
      BY <1>6, <3>2 DEF TypeOK, ReceiptInv, ReceiptOK, AdapterRecord
    <3> QED
      BY <1>6, <3>0, <3>1, <3>2 DEF AdapterRecord
  <2>4. WorkerInv'
    BY <1>6 DEF TypeOK, ReceiptInv, ReceiptOK, WorkerInv, AdapterRecord
  <2>5. \A q \in Runs : NotRestarted(q) /\ OutcomeKept(q)
    BY <1>6 DEF TypeOK, RunInv, NotRestarted, OutcomeKept, AdapterRecord
  <2> QED
    BY <2>1, <2>2, <2>3, <2>4, <2>5 DEF Preserved
<1>7. ASSUME NEW r \in Runs, NEW k \in 1..Len(wf[r]),
             ActivatePersonalAgentTaskRuntime(r, k)
      PROVE  Preserved
  <2>1. TypeOK'
    <3>0. PICK s \in {"working", "submitted", "exited"} : wf' = [wf EXCEPT ![r][k] = s]
      BY <1>7 DEF ActivatePersonalAgentTaskRuntime
    <3>1. wf' \in [Runs -> Seq({"submitted", "working", "exited"})]
      <4>1. [wf[r] EXCEPT ![k] = s] \in Seq({"submitted", "working", "exited"})
        BY ExceptSeq DEF TypeOK
      <4> QED
        BY <3>0, <4>1 DEF TypeOK
    <3>2. CASE MayActivate(r, k) /\ Dispatch(r, k)
      <4>1. RowTypeOK'
        BY <3>2, DispatchType DEF TypeOK
      <4> QED
        BY <1>7, <3>1, <4>1 DEF TypeOK, RowTypeOK, ActivatePersonalAgentTaskRuntime
    <3>3. CASE UNCHANGED <<space_runs, agent_run_jobs>>
      BY <1>7, <3>1, <3>3 DEF TypeOK, ActivatePersonalAgentTaskRuntime
    <3> QED
      BY <1>7, <3>2, <3>3 DEF ActivatePersonalAgentTaskRuntime
  <2>2. RunInv'
    <3>1. CASE MayActivate(r, k) /\ Dispatch(r, k)
      BY <1>7, <3>1
         DEF TypeOK, RunInv, ActivatePersonalAgentTaskRuntime, MayActivate, Dispatch
    <3>2. CASE UNCHANGED <<space_runs, agent_run_jobs>>
      BY <1>7, <3>2 DEF TypeOK, RunInv, ActivatePersonalAgentTaskRuntime
    <3> QED
      BY <1>7, <3>1, <3>2 DEF ActivatePersonalAgentTaskRuntime
  <2>3. SingleActivePerAgent'
    <3>1. CASE MayActivate(r, k) /\ Dispatch(r, k)
      BY <1>7, <3>1
         DEF TypeOK, SingleActivePerAgent, ActivatePersonalAgentTaskRuntime,
             MayActivate, Dispatch
    <3>2. CASE UNCHANGED <<space_runs, agent_run_jobs>>
      BY <1>7, <3>2 DEF TypeOK, SingleActivePerAgent, ActivatePersonalAgentTaskRuntime
    <3> QED
      BY <1>7, <3>1, <3>2 DEF ActivatePersonalAgentTaskRuntime
  <2>4. ReceiptInv'
    BY <1>7
       DEF TypeOK, ReceiptInv, ReceiptOK, ActivatePersonalAgentTaskRuntime,
           MayActivate, Dispatch
  <2>5. WorkerInv'
    BY <1>7
       DEF TypeOK, ReceiptInv, ReceiptOK, WorkerInv, ActivatePersonalAgentTaskRuntime,
           MayActivate, Dispatch
  <2>6. \A q \in Runs : NotRestarted(q) /\ OutcomeKept(q)
    BY <1>7
       DEF TypeOK, RunInv, NotRestarted, OutcomeKept,
           ActivatePersonalAgentTaskRuntime, MayActivate, Dispatch
  <2> QED
    BY <2>1, <2>2, <2>3, <2>4, <2>5, <2>6 DEF Preserved
<1>8. ASSUME NEW r \in Runs, NEW k \in 1..Len(wf[r]), AdmitToolCall(r, k)
      PROVE  Preserved
  BY <1>8
     DEF Preserved, Inv, TypeOK, RunInv, ReceiptInv, ReceiptOK, WorkerInv,
         SingleActivePerAgent, NotRestarted, OutcomeKept, AdmitToolCall,
         ValidatePersonalAgentTaskRuntime
<1>9. ASSUME NEW r \in Runs, NEW k \in 1..Len(wf[r]), Await(r, k)
      PROVE  Preserved
  BY <1>9
     DEF Preserved, Inv, TypeOK, RunInv, ReceiptInv, ReceiptOK, WorkerInv,
         SingleActivePerAgent, NotRestarted, OutcomeKept, Await,
         ValidatePersonalAgentTaskRuntime
<1>10. ASSUME NEW r \in Runs, NEW k \in 1..Len(wf[r]), CompleteValidated(r, k)
      PROVE  Preserved
  BY <1>10
     DEF Preserved, Inv, TypeOK, RunInv, ReceiptInv, ReceiptOK, WorkerInv,
         SingleActivePerAgent, NotRestarted, OutcomeKept, CompleteValidated,
         ValidatePersonalAgentTaskRuntime
<1>11. ASSUME NEW r \in Runs, NEW k \in 1..Len(wf[r]), WorkflowExits(r, k)
      PROVE  Preserved
  BY <1>11
     DEF Preserved, Inv, TypeOK, RunInv, ReceiptInv, ReceiptOK, WorkerInv,
         SingleActivePerAgent, NotRestarted, OutcomeKept, WorkflowExits
<1>12. ASSUME NEW r \in Runs, Resume(r)
      PROVE  Preserved
  <2>1. TypeOK'
    BY <1>12 DEF TypeOK, Resume
  <2>2. RunInv' /\ SingleActivePerAgent'
    BY <1>12 DEF TypeOK, RunInv, SingleActivePerAgent, Resume
  <2>3. ReceiptInv' /\ WorkerInv'
    BY <1>12 DEF TypeOK, ReceiptInv, ReceiptOK, WorkerInv, Resume
  <2>4. \A q \in Runs : NotRestarted(q) /\ OutcomeKept(q)
    BY <1>12 DEF TypeOK, RunInv, NotRestarted, OutcomeKept, Resume
  <2> QED
    BY <2>1, <2>2, <2>3, <2>4 DEF Preserved
<1>13. ASSUME NEW r \in Runs, NEW state \in Terminal \ {"canceled"},
              FinishSpaceRun(r, state)
      PROVE  Preserved
  <2>1. TypeOK'
    <3>1. CASE /\ run[r] \in Live
               /\ run' = [run EXCEPT ![r] = state]
               /\ hand' = [hand EXCEPT ![r] = "finished"]
      BY <1>13, <3>1 DEF TypeOK, FinishSpaceRun
    <3>2. CASE UNCHANGED run /\ hand' = [hand EXCEPT ![r] = "idle"]
      BY <1>13, <3>2 DEF TypeOK, FinishSpaceRun
    <3> QED
      BY <1>13, <3>1, <3>2 DEF FinishSpaceRun
  <2>2. RunInv' /\ SingleActivePerAgent'
    <3>1. CASE /\ run[r] \in Live
               /\ run' = [run EXCEPT ![r] = state]
               /\ hand' = [hand EXCEPT ![r] = "finished"]
      BY <1>13, <3>1 DEF TypeOK, RunInv, SingleActivePerAgent, FinishSpaceRun
    <3>2. CASE UNCHANGED run /\ hand' = [hand EXCEPT ![r] = "idle"]
      BY <1>13, <3>2 DEF TypeOK, RunInv, SingleActivePerAgent, FinishSpaceRun
    <3> QED
      BY <1>13, <3>1, <3>2 DEF FinishSpaceRun
  <2>3. ReceiptInv' /\ WorkerInv'
    BY <1>13 DEF TypeOK, ReceiptInv, ReceiptOK, WorkerInv, FinishSpaceRun
  <2>4. \A q \in Runs : NotRestarted(q) /\ OutcomeKept(q)
    BY <1>13 DEF TypeOK, RunInv, NotRestarted, OutcomeKept, FinishSpaceRun
  <2> QED
    BY <2>1, <2>2, <2>3, <2>4 DEF Preserved
<1>14. ASSUME NEW r \in Runs, FinishDispatchedPersonalAgentTaskRunJob(r)
      PROVE  Preserved
  BY <1>14
     DEF Preserved, Inv, TypeOK, RunInv, ReceiptInv, ReceiptOK, WorkerInv,
         SingleActivePerAgent, NotRestarted, OutcomeKept,
         FinishDispatchedPersonalAgentTaskRunJob, JobOutcome
<1>15. ASSUME NEW r \in Runs, HandlerCrashes(r)
      PROVE  Preserved
  BY <1>15
     DEF Preserved, Inv, TypeOK, RunInv, ReceiptInv, ReceiptOK, WorkerInv,
         SingleActivePerAgent, NotRestarted, OutcomeKept, HandlerCrashes
<1>16. ASSUME NEW r \in Runs, ReconcileStalePersonalAgentTaskRuns(r)
      PROVE  Preserved
  BY <1>16
     DEF Preserved, Inv, TypeOK, RunInv, ReceiptInv, ReceiptOK, WorkerInv,
         SingleActivePerAgent, NotRestarted, OutcomeKept,
         ReconcileStalePersonalAgentTaskRuns
<1>17. ASSUME NEW r \in Runs, RecordAgentRuntimeStatus(r)
      PROVE  Preserved
  <2>1. TypeOK'
    BY <1>17 DEF TypeOK, RecordAgentRuntimeStatus, Suspect
  <2>2. RunInv' /\ SingleActivePerAgent'
    BY <1>17 DEF TypeOK, RunInv, SingleActivePerAgent, RecordAgentRuntimeStatus, Suspect
  <2>3. ReceiptInv' /\ WorkerInv'
    BY <1>17
       DEF TypeOK, ReceiptInv, ReceiptOK, WorkerInv, RecordAgentRuntimeStatus, Suspect
  <2>4. \A q \in Runs : NotRestarted(q) /\ OutcomeKept(q)
    BY <1>17
       DEF TypeOK, RunInv, NotRestarted, OutcomeKept, RecordAgentRuntimeStatus,
           Suspect
  <2> QED
    BY <2>1, <2>2, <2>3, <2>4 DEF Preserved
<1>18. ASSUME NEW r \in Runs, CancelPersonalAgentTaskRunForOwner(r)
      PROVE  Preserved
  <2>1. TypeOK'
    BY <1>18 DEF TypeOK, CancelPersonalAgentTaskRunForOwner, CancelRows, Cancelable
  <2>2. RunInv' /\ SingleActivePerAgent'
    BY <1>18
       DEF TypeOK, RunInv, SingleActivePerAgent, CancelPersonalAgentTaskRunForOwner,
           CancelRows, Cancelable
  <2>3. ReceiptInv' /\ WorkerInv'
    BY <1>18
       DEF TypeOK, ReceiptInv, ReceiptOK, WorkerInv,
           CancelPersonalAgentTaskRunForOwner, CancelRows, Cancelable
  <2>4. \A q \in Runs : NotRestarted(q) /\ OutcomeKept(q)
    BY <1>18
       DEF TypeOK, RunInv, NotRestarted, OutcomeKept,
           CancelPersonalAgentTaskRunForOwner, CancelRows, Cancelable
  <2> QED
    BY <2>1, <2>2, <2>3, <2>4 DEF Preserved
<1>19. ASSUME NEW r \in Runs, DeliverCancel(r)
      PROVE  Preserved
  BY <1>19
     DEF Preserved, Inv, TypeOK, RunInv, ReceiptInv, ReceiptOK, WorkerInv,
         SingleActivePerAgent, NotRestarted, OutcomeKept, DeliverCancel
<1>20. ASSUME NEW a \in Agents, cancelPersonalAgentRunsTx(a)
      PROVE  Preserved
  BY <1>20
     DEF Preserved, Inv, TypeOK, RunInv, ReceiptInv, ReceiptOK, WorkerInv,
         SingleActivePerAgent, NotRestarted, OutcomeKept, cancelPersonalAgentRunsTx,
         CancelRows, Cancelable
<1>21. ASSUME NEW w \in Workers, NEW busy, NEW S \in SUBSET Runs,
              ClaimPersonalAgentTaskRunJobs(w, busy, S)
      PROVE  Preserved
  <2>1. TypeOK'
    <3>1. job' \in [Runs -> {"none", "completed", "failed", "canceled"} \cup Open]
      BY <1>21 DEF TypeOK, ClaimPersonalAgentTaskRunJobs, Synced, JobOutcome
    <3>2. attempt' \in [Runs -> 0..MaxAttempts]
      BY <1>21 DEF TypeOK, ClaimPersonalAgentTaskRunJobs
    <3>3. lease' \in [Runs -> Workers \cup {Nobody, Gone}]
      BY <1>21 DEF TypeOK, ClaimPersonalAgentTaskRunJobs
    <3>4. expired' \in [Runs -> BOOLEAN]
      BY <1>21 DEF TypeOK, ClaimPersonalAgentTaskRunJobs
    <3> QED
      BY <1>21, <3>1, <3>2, <3>3, <3>4 DEF TypeOK, ClaimPersonalAgentTaskRunJobs
  <2>2. RunInv'
    BY <1>21
       DEF TypeOK, RunInv, WorkerInv, ClaimPersonalAgentTaskRunJobs, Chosen, Eligible,
           Candidate, Synced, JobOutcome
  <2>3. SingleActivePerAgent'
    <3>1. \A q \in Runs : Synced(q) \in Active => job[q] \in Active
      BY DEF TypeOK, Synced, JobOutcome
    <3>2. \A q \in Runs : job'[q] \in Active => q \in S \/ Synced(q) \in Active
      BY <1>21 DEF ClaimPersonalAgentTaskRunJobs
    <3>3. ASSUME NEW p \in Runs, NEW q \in Runs,
               AgentOf[p] = AgentOf[q], p \in S, q \notin S
          PROVE  Synced(q) \notin Active
      BY <1>21, <3>3 DEF ClaimPersonalAgentTaskRunJobs, Chosen, Eligible, AgentFree
    <3> QED
      BY <1>21, <3>1, <3>2, <3>3
         DEF SingleActivePerAgent, ClaimPersonalAgentTaskRunJobs, Chosen
  <2>4. ReceiptInv'
    BY <1>21
       DEF TypeOK, ReceiptInv, ReceiptOK, WorkerInv, ClaimPersonalAgentTaskRunJobs,
           Chosen, Eligible, Candidate, Synced, JobOutcome
  <2>5. WorkerInv'
    BY <1>21
       DEF TypeOK, ReceiptInv, ReceiptOK, WorkerInv, ClaimPersonalAgentTaskRunJobs,
           Chosen, Eligible, Candidate, Synced, JobOutcome
  <2>6. \A q \in Runs : NotRestarted(q) /\ OutcomeKept(q)
    BY <1>21
       DEF TypeOK, RunInv, NotRestarted, OutcomeKept, WorkerInv,
           ClaimPersonalAgentTaskRunJobs, Chosen, Eligible, Candidate, Synced,
           JobOutcome
  <2> QED
    BY <2>1, <2>2, <2>3, <2>4, <2>5, <2>6 DEF Preserved
<1>22. ASSUME NEW w \in Workers, NEW r \in Runs, Start(w, r)
      PROVE  Preserved
  BY <1>22
     DEF Preserved, Inv, TypeOK, RunInv, ReceiptInv, ReceiptOK, WorkerInv,
         SingleActivePerAgent, NotRestarted, OutcomeKept, Start
<1>23. ASSUME NEW w \in Workers, StartClaimed(w)
      PROVE  Preserved
  <2>1. TypeOK'
    BY <1>23 DEF TypeOK, WorkerInv, StartClaimed, GrantClaim, Unclaimed, Goto
  <2>2. RunInv' /\ SingleActivePerAgent'
    BY <1>23
       DEF TypeOK, RunInv, SingleActivePerAgent, WorkerInv, StartClaimed, GrantClaim,
           Unclaimed, Goto
  <2>3. ReceiptInv' /\ WorkerInv'
    BY <1>23
       DEF TypeOK, ReceiptInv, ReceiptOK, WorkerInv, StartClaimed, GrantClaim,
           Unclaimed, Goto
  <2>4. \A q \in Runs : NotRestarted(q) /\ OutcomeKept(q)
    BY <1>23
       DEF TypeOK, RunInv, NotRestarted, OutcomeKept, WorkerInv, StartClaimed,
           GrantClaim, Unclaimed, Goto
  <2> QED
    BY <2>1, <2>2, <2>3, <2>4 DEF Preserved
<1>24. ASSUME NEW w \in Workers, StartKnown(w)
      PROVE  Preserved
  <2>1. TypeOK'
    BY <1>24 DEF TypeOK, WorkerInv, StartKnown, KnownIdentity, Goto
  <2>2. RunInv' /\ SingleActivePerAgent'
    BY <1>24
       DEF TypeOK, RunInv, SingleActivePerAgent, WorkerInv, StartKnown, KnownIdentity,
           Goto
  <2>3. ReceiptInv' /\ WorkerInv'
    BY <1>24
       DEF TypeOK, ReceiptInv, ReceiptOK, WorkerInv, StartKnown, KnownIdentity, Goto
  <2>4. \A q \in Runs : NotRestarted(q) /\ OutcomeKept(q)
    BY <1>24
       DEF TypeOK, RunInv, NotRestarted, OutcomeKept, WorkerInv, StartKnown,
           KnownIdentity, Goto
  <2> QED
    BY <2>1, <2>2, <2>3, <2>4 DEF Preserved
<1>25. ASSUME NEW w \in Workers, StartRefused(w)
      PROVE  Preserved
  BY <1>25
     DEF Preserved, Inv, TypeOK, RunInv, ReceiptInv, ReceiptOK, WorkerInv,
         SingleActivePerAgent, NotRestarted, OutcomeKept, StartRefused, Goto
<1>26. ASSUME NEW w \in Workers, StartAnswered(w)
      PROVE  Preserved
  <2>1. TypeOK'
    <3>1. CASE Goto(w, "started", recorded[cur[w]]) /\ adapter[cur[w]] = "done"
      BY <1>26, <3>1 DEF TypeOK, WorkerInv, StartAnswered, Goto
    <3>2. CASE Goto(w, "failed", 0)
      BY <1>26, <3>2 DEF TypeOK, WorkerInv, StartAnswered, Goto
    <3> QED
      BY <1>26, <3>1, <3>2 DEF StartAnswered
  <2>2. RunInv' /\ SingleActivePerAgent'
    BY <1>26 DEF TypeOK, RunInv, SingleActivePerAgent, WorkerInv, StartAnswered, Goto
  <2>3. ReceiptInv' /\ WorkerInv'
    BY <1>26 DEF TypeOK, ReceiptInv, ReceiptOK, WorkerInv, StartAnswered, Goto
  <2>4. \A q \in Runs : NotRestarted(q) /\ OutcomeKept(q)
    BY <1>26
       DEF TypeOK, RunInv, NotRestarted, OutcomeKept, WorkerInv, StartAnswered, Goto
  <2> QED
    BY <2>1, <2>2, <2>3, <2>4 DEF Preserved
<1>27. ASSUME NEW w \in Workers, StartTimesOut(w)
      PROVE  Preserved
  <2>1. TypeOK'
    BY <1>27 DEF TypeOK, WorkerInv, StartTimesOut, Goto
  <2>2. RunInv' /\ SingleActivePerAgent'
    BY <1>27 DEF TypeOK, RunInv, SingleActivePerAgent, WorkerInv, StartTimesOut, Goto
  <2>3. ReceiptInv' /\ WorkerInv'
    BY <1>27 DEF TypeOK, ReceiptInv, ReceiptOK, WorkerInv, StartTimesOut, Goto
  <2>4. \A q \in Runs : NotRestarted(q) /\ OutcomeKept(q)
    BY <1>27
       DEF TypeOK, RunInv, NotRestarted, OutcomeKept, WorkerInv, StartTimesOut, Goto
  <2> QED
    BY <2>1, <2>2, <2>3, <2>4 DEF Preserved
<1>28. ASSUME NEW w \in Workers, MarkPersonalAgentTaskRunDispatched(w)
      PROVE  Preserved
  <2>1. TypeOK'
    <3>1. CASE /\ Dispatch(cur[w], reply[w])
               /\ NextJob(w, cur[w])
               /\ UNCHANGED crashes
               /\ MayMark(w, cur[w], reply[w])
      BY <1>28, <3>1
         DEF TypeOK, WorkerInv, MarkPersonalAgentTaskRunDispatched, MayMark, Dispatch,
             NextJob
    <3>2. CASE Goto(w, "failed", 0) /\ UNCHANGED <<space_runs, agent_run_jobs>>
      BY <1>28, <3>2 DEF TypeOK, WorkerInv, MarkPersonalAgentTaskRunDispatched, Goto
    <3> QED
      BY <1>28, <3>1, <3>2 DEF MarkPersonalAgentTaskRunDispatched
  <2>2. RunInv'
    <3>1. CASE /\ Dispatch(cur[w], reply[w])
               /\ NextJob(w, cur[w])
               /\ UNCHANGED crashes
               /\ MayMark(w, cur[w], reply[w])
      BY <1>28, <3>1
         DEF TypeOK, RunInv, WorkerInv, MarkPersonalAgentTaskRunDispatched, MayMark,
             Dispatch, NextJob
    <3>2. CASE Goto(w, "failed", 0) /\ UNCHANGED <<space_runs, agent_run_jobs>>
      BY <1>28, <3>2
         DEF TypeOK, RunInv, WorkerInv, MarkPersonalAgentTaskRunDispatched, Goto
    <3> QED
      BY <1>28, <3>1, <3>2 DEF MarkPersonalAgentTaskRunDispatched
  <2>3. SingleActivePerAgent'
    <3>1. CASE /\ Dispatch(cur[w], reply[w])
               /\ NextJob(w, cur[w])
               /\ UNCHANGED crashes
               /\ MayMark(w, cur[w], reply[w])
      BY <1>28, <3>1
         DEF TypeOK, SingleActivePerAgent, WorkerInv,
             MarkPersonalAgentTaskRunDispatched, MayMark, Dispatch, NextJob
    <3>2. CASE Goto(w, "failed", 0) /\ UNCHANGED <<space_runs, agent_run_jobs>>
      BY <1>28, <3>2
         DEF TypeOK, SingleActivePerAgent, WorkerInv,
             MarkPersonalAgentTaskRunDispatched, Goto
    <3> QED
      BY <1>28, <3>1, <3>2 DEF MarkPersonalAgentTaskRunDispatched
  <2>4. ReceiptInv'
    BY <1>28
       DEF TypeOK, ReceiptInv, ReceiptOK, WorkerInv,
           MarkPersonalAgentTaskRunDispatched, MayMark, Dispatch, NextJob, Goto
  <2>5. WorkerInv'
    <3>1. CASE /\ Dispatch(cur[w], reply[w])
               /\ NextJob(w, cur[w])
               /\ UNCHANGED crashes
               /\ MayMark(w, cur[w], reply[w])
      BY <1>28, <3>1
         DEF TypeOK, ReceiptInv, ReceiptOK, WorkerInv,
             MarkPersonalAgentTaskRunDispatched, MayMark, Dispatch, NextJob
    <3>2. CASE Goto(w, "failed", 0) /\ UNCHANGED <<space_runs, agent_run_jobs>>
      BY <1>28, <3>2
         DEF TypeOK, ReceiptInv, ReceiptOK, WorkerInv,
             MarkPersonalAgentTaskRunDispatched, Goto
    <3> QED
      BY <1>28, <3>1, <3>2 DEF MarkPersonalAgentTaskRunDispatched
  <2>6. \A q \in Runs : NotRestarted(q) /\ OutcomeKept(q)
    BY <1>28
       DEF TypeOK, RunInv, NotRestarted, OutcomeKept, WorkerInv,
           MarkPersonalAgentTaskRunDispatched, MayMark, Dispatch, NextJob, Goto
  <2> QED
    BY <2>1, <2>2, <2>3, <2>4, <2>5, <2>6 DEF Preserved
<1>29. ASSUME NEW w \in Workers, FailPersonalAgentTaskRunJob(w)
      PROVE  Preserved
  <2>1. TypeOK'
    <3>0. cur[w] \in Runs
      BY <1>29 DEF WorkerInv, FailPersonalAgentTaskRunJob
    <3>1. \/ NextJob(w, cur[w]) \/ Goto(w, "finishing", 0)
      BY <1>29 DEF FailPersonalAgentTaskRunJob, Requeue, GiveUp, LeaseLost
    <3>2. LoopTypeOK'
      <4>1. CASE NextJob(w, cur[w])
        BY <4>1 DEF TypeOK, NextJob, LoopTypeOK
      <4>2. CASE Goto(w, "finishing", 0)
        BY <4>2 DEF TypeOK, Goto, LoopTypeOK
      <4> QED
        BY <3>1, <4>1, <4>2
    <3>3. CASE Requeue(w, cur[w])
      <4>1. PICK i \in 1..Len(order) :
              order' = SubSeq(order, 1, i - 1) \o SubSeq(order, i + 1, Len(order))
        BY <3>3 DEF Requeue
      <4>2. order' \in Seq(Runs)
        BY <4>1, RemovalType DEF TypeOK
      <4> QED
        BY <1>29, <3>0, <3>2, <3>3, <4>2
           DEF TypeOK, LoopTypeOK, FailPersonalAgentTaskRunJob, Requeue, EndJob
    <3>4. CASE GiveUp(w, cur[w])
      BY <1>29, <3>0, <3>2, <3>4
         DEF TypeOK, LoopTypeOK, FailPersonalAgentTaskRunJob, GiveUp, EndJob
    <3>5. CASE LeaseLost(w, cur[w])
      BY <1>29, <3>2, <3>5
         DEF TypeOK, LoopTypeOK, FailPersonalAgentTaskRunJob, LeaseLost
    <3> QED
      BY <1>29, <3>3, <3>4, <3>5 DEF FailPersonalAgentTaskRunJob
  <2>2. RunInv'
    <3>1. CASE Requeue(w, cur[w])
      BY <1>29, <3>1
         DEF TypeOK, RunInv, WorkerInv, FailPersonalAgentTaskRunJob, Requeue, Holds,
             EndJob, NextJob
    <3>2. CASE GiveUp(w, cur[w])
      BY <1>29, <3>2
         DEF TypeOK, RunInv, WorkerInv, FailPersonalAgentTaskRunJob, GiveUp, Holds,
             EndJob, NextJob, Goto
    <3>3. CASE LeaseLost(w, cur[w])
      BY <1>29, <3>3
         DEF TypeOK, RunInv, WorkerInv, FailPersonalAgentTaskRunJob, LeaseLost,
             NextJob, Goto
    <3> QED
      BY <1>29, <3>1, <3>2, <3>3 DEF FailPersonalAgentTaskRunJob
  <2>3. SingleActivePerAgent'
    <3>1. CASE Requeue(w, cur[w])
      BY <1>29, <3>1
         DEF TypeOK, SingleActivePerAgent, WorkerInv, FailPersonalAgentTaskRunJob,
             Requeue, Holds, EndJob, NextJob
    <3>2. CASE GiveUp(w, cur[w])
      BY <1>29, <3>2
         DEF TypeOK, SingleActivePerAgent, WorkerInv, FailPersonalAgentTaskRunJob,
             GiveUp, Holds, EndJob, NextJob, Goto
    <3>3. CASE LeaseLost(w, cur[w])
      BY <1>29, <3>3
         DEF TypeOK, SingleActivePerAgent, WorkerInv, FailPersonalAgentTaskRunJob,
             LeaseLost, NextJob, Goto
    <3> QED
      BY <1>29, <3>1, <3>2, <3>3 DEF FailPersonalAgentTaskRunJob
  <2>4. ReceiptInv'
    BY <1>29
       DEF TypeOK, ReceiptInv, ReceiptOK, WorkerInv, FailPersonalAgentTaskRunJob,
           Requeue, GiveUp, LeaseLost, Holds, EndJob, NextJob, Goto
  <2>5. WorkerInv'
    <3>1. \/ NextJob(w, cur[w]) /\ UNCHANGED crashes
          \/ Goto(w, "finishing", 0)
      BY <1>29 DEF FailPersonalAgentTaskRunJob, Requeue, GiveUp, LeaseLost
    <3>2. CASE NextJob(w, cur[w])
      BY <1>29, <3>2 DEF TypeOK, WorkerInv, FailPersonalAgentTaskRunJob, NextJob
    <3>3. CASE Goto(w, "finishing", 0)
      BY <1>29, <3>3 DEF TypeOK, WorkerInv, FailPersonalAgentTaskRunJob, Goto
    <3> QED
      BY <3>1, <3>2, <3>3
  <2>6. \A q \in Runs : NotRestarted(q) /\ OutcomeKept(q)
    <3>1. CASE Requeue(w, cur[w])
      BY <1>29, <3>1
         DEF TypeOK, RunInv, NotRestarted, OutcomeKept, WorkerInv,
             FailPersonalAgentTaskRunJob, Requeue, Holds, EndJob, NextJob
    <3>2. CASE GiveUp(w, cur[w])
      BY <1>29, <3>2
         DEF TypeOK, RunInv, NotRestarted, OutcomeKept, WorkerInv,
             FailPersonalAgentTaskRunJob, GiveUp, Holds, EndJob, NextJob, Goto
    <3>3. CASE LeaseLost(w, cur[w])
      BY <1>29, <3>3
         DEF TypeOK, RunInv, NotRestarted, OutcomeKept, WorkerInv,
             FailPersonalAgentTaskRunJob, LeaseLost, NextJob, Goto
    <3> QED
      BY <1>29, <3>1, <3>2, <3>3 DEF FailPersonalAgentTaskRunJob
  <2> QED
    BY <2>1, <2>2, <2>3, <2>4, <2>5, <2>6 DEF Preserved
<1>30. ASSUME NEW w \in Workers, FinishTaskRun(w)
      PROVE  Preserved
  <2>1. TypeOK'
    BY <1>30 DEF TypeOK, WorkerInv, FinishTaskRun, NextJob
  <2>2. RunInv' /\ SingleActivePerAgent'
    BY <1>30 DEF TypeOK, RunInv, SingleActivePerAgent, WorkerInv, FinishTaskRun, NextJob
  <2>3. ReceiptInv' /\ WorkerInv'
    BY <1>30 DEF TypeOK, ReceiptInv, ReceiptOK, WorkerInv, FinishTaskRun, NextJob
  <2>4. \A q \in Runs : NotRestarted(q) /\ OutcomeKept(q)
    BY <1>30
       DEF TypeOK, RunInv, NotRestarted, OutcomeKept, WorkerInv, FinishTaskRun,
           NextJob
  <2> QED
    BY <2>1, <2>2, <2>3, <2>4 DEF Preserved
<1>31. ASSUME NEW w \in Workers, WorkerCrashes(w)
      PROVE  Preserved
  BY <1>31
     DEF Preserved, Inv, TypeOK, RunInv, ReceiptInv, ReceiptOK, WorkerInv,
         SingleActivePerAgent, NotRestarted, OutcomeKept, WorkerCrashes
<1> QED
  BY <1>0, <1>1, <1>2, <1>3, <1>4, <1>5, <1>6, <1>7, <1>8, <1>9, <1>10,
     <1>11, <1>12, <1>13, <1>14, <1>15, <1>16, <1>17, <1>18, <1>19, <1>20,
     <1>21, <1>22, <1>23, <1>24, <1>25, <1>26, <1>27, <1>28, <1>29, <1>30,
     <1>31
     DEF Next, CreateCreatorAgentRun, RetryPersonalAgentTaskRunForOwner, WorkflowStep,
         ClockStep, AdapterStep, HandlerStep, ReconcileStep, Claim, Eligible, WorkerStep

\* The invariants hold before any run is created; the failed task runs of
\* earlier releases and the stranded runs never had a workflow, and no two
\* stranded runs share an agent.
LEMMA InitInv == Init => Inv /\ SingleActivePerAgent
<1> SUFFICES ASSUME Init PROVE Inv /\ SingleActivePerAgent
  OBVIOUS
<1>1. TypeOK
  <2>1. order \in Seq(Runs)
    BY BacklogConstants, SeqMonotonic DEF Init
  <2>2. expired \in [Runs -> BOOLEAN]
    BY Zenon DEF Init, Stranded
  <2> QED
    BY <2>1, <2>2, RunConstants DEF Init, TypeOK
<1>2. RunInv
  BY RunConstants DEF Init, RunInv
<1>3. ReceiptInv
  BY DEF Init, ReceiptInv, ReceiptOK
<1>4. WorkerInv
  BY DEF Init, WorkerInv
<1>5. SingleActivePerAgent
  <2> SUFFICES ASSUME NEW r \in Runs, NEW q \in Runs, AgentOf[r] = AgentOf[q],
                      job[r] \in Active, job[q] \in Active
               PROVE  r = q
    BY DEF SingleActivePerAgent
  <2>1. Stranded(r) /\ Stranded(q)
    BY DEF Init
  <2> QED
    BY <2>1, BacklogConstants DEF Stranded
<1> QED
  BY <1>1, <1>2, <1>3, <1>4, <1>5 DEF Inv

\* The inductive invariant holds in every reachable state, for any number
\* of runs, agents, workers, attempts and crashes.
THEOREM RunInvariant == Spec => [](Inv /\ SingleActivePerAgent)
<1>1. Inv /\ SingleActivePerAgent /\ [Next]_vars => (Inv /\ SingleActivePerAgent)'
  BY StepPreserves DEF Preserved
<1> QED
  BY <1>1, InitInv, PTL DEF Spec

\* Every column and every actor keeps its type; in particular no job ends
\* in a state of its run that jobs do not have.
THEOREM TypeOKHolds == Spec => []TypeOK
BY RunInvariant, PTL DEF Inv

\* ClaimPersonalAgentTaskRunJobs never has two jobs of one agent leased or
\* dispatched at a time, whatever leases expire and workers crash.
THEOREM SingleActivePerAgentHolds == Spec => []SingleActivePerAgent
BY RunInvariant, PTL

\* The start receipt lets at most one workflow be submitted for a run, over
\* every retry, timeout, crash and late request.
THEOREM NoDuplicateSubmissionHolds == Spec => []NoDuplicateSubmission
<1>1. Inv => NoDuplicateSubmission
  BY DEF Inv, ReceiptInv, ReceiptOK, NoDuplicateSubmission
<1> QED
  BY <1>1, RunInvariant, PTL

\* The receipt and the binding of a run name the same workflow, and no
\* other had a tool call of the run admitted.
THEOREM OneIdentityHolds == Spec => []OneIdentity
<1>1. Inv => OneIdentity
  <2> SUFFICES ASSUME Inv, NEW r \in Runs
               PROVE  /\ runtime[r] # 0 /\ recorded[r] # 0 => runtime[r] = recorded[r]
                      /\ acted[r] \subseteq {runtime[r]} \ {0}
    BY DEF OneIdentity
  <2>1. ReceiptOK(r) /\ Len(wf[r]) \in Nat
    BY DEF Inv, TypeOK, ReceiptInv
  <2> QED
    BY <2>1 DEF ReceiptOK
<1> QED
  BY <1>1, RunInvariant, PTL

\* An ended job agrees with its run, and a dispatched job has a workflow,
\* after completion, cancellation, reconciliation and given-up starts in
\* any order.
THEOREM JobAgreesWithRunHolds == Spec => []JobAgreesWithRun
<1>1. Inv => JobAgreesWithRun
  <2> SUFFICES ASSUME Inv, NEW r \in Runs
               PROVE  job[r] = "dispatched" => runtime[r] \in 1..Len(wf[r])
    BY DEF Inv, RunInv, JobAgreesWithRun
  <2>1. ReceiptOK(r) /\ Len(wf[r]) \in Nat
    BY DEF Inv, TypeOK, ReceiptInv
  <2> QED
    BY <2>1 DEF Inv, RunInv, ReceiptOK
<1> QED
  BY <1>1, RunInvariant, PTL

\* A missed heartbeat or a late worker never requeues, re-leases or rebinds
\* a dispatched run.
THEOREM DispatchedNeverRestartsHolds == Spec => DispatchedNeverRestarts
<1>1. Inv /\ SingleActivePerAgent /\ [Next]_vars => [\A r \in Runs : NotRestarted(r)]_vars
  BY StepPreserves DEF Preserved
<1>2. (\A r \in Runs : NotRestarted(r)) <=>
      \A r \in Runs : job[r] = "dispatched" =>
        /\ job'[r] \notin {"queued", "leased"}
        /\ attempt'[r] = attempt[r] /\ runtime'[r] = runtime[r]
  BY DEF NotRestarted
<1> QED
  BY <1>1, <1>2, RunInvariant, PTL DEF Spec, DispatchedNeverRestarts

\* A run keeps the outcome that came first and has no tool call admitted
\* afterwards.
THEOREM OutcomeIsFinalHolds == Spec => OutcomeIsFinal
<1>1. Inv /\ SingleActivePerAgent /\ [Next]_vars => [\A r \in Runs : OutcomeKept(r)]_vars
  BY StepPreserves DEF Preserved
<1>2. (\A r \in Runs : OutcomeKept(r)) <=>
      \A r \in Runs : run[r] \in Terminal =>
        run'[r] = run[r] /\ acted'[r] = acted[r]
  BY DEF OutcomeKept
<1> QED
  BY <1>1, <1>2, RunInvariant, PTL DEF Spec, OutcomeIsFinal
=============================================================================
