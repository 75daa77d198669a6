---------------------------- MODULE MCAgentRun ----------------------------
(***************************************************************************)
(* Small instances of AgentRun: runs r1, r2 of direct instructions, task   *)
(* runs t0 (left failed by an earlier release) and t1 (its retry), one     *)
(* agent, up to two workers; and a run s1 of a second agent whose attempts *)
(* were used up by a process that died.                                    *)
(***************************************************************************)
EXTENDS AgentRun, TLC

CONSTANTS a1, a2, r1, r2, s1, t0, t1, w1, w2

TwoAgents == [r \in Runs |-> IF r = s1 THEN a2 ELSE a1]
NoBacklog == <<>>
OneStranded == <<s1>>

WorkerSymmetry == Permutations(Workers)
QueueSymmetry == WorkerSymmetry \cup Permutations(Runs)

\* Keeps the two-run instance to what happens between claim and dispatch:
\* nothing is explored beyond a completion callback, a wait, a missed
\* heartbeat, a cancellation of a bound run or a start that arrives late.
UntilDispatch ==
  \A r \in Runs :
    /\ hand[r] = "idle" /\ run[r] # "awaiting"
    /\ ~reconcileDue[r] /\ ~cancelDue[r] /\ ~late[r]
===========================================================================
