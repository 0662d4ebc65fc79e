----------------------------- MODULE TaskBoard ------------------------------
(***************************************************************************)
(* What a thread pool promises to those who give it work: tasks are        *)
(* started in the order in which they were added, each once, and at most   *)
(* Cardinality(Runners) of them run at a time.  Tasks are numbered in the  *)
(* order in which they were added.                                         *)
(***************************************************************************)
EXTENDS Naturals

CONSTANT Runners  \* whoever may run a task

VARIABLES
  nAdded,    \* tasks added so far
  nStarted,  \* tasks 1 .. nStarted were started
  job,       \* [Runners -> the task it runs, or 0]
  finished   \* tasks that ran to their end

board == <<nAdded, nStarted, job, finished>>

Init ==
  /\ nAdded = 0
  /\ nStarted = 0
  /\ job = [r \in Runners |-> 0]
  /\ finished = {}

Add ==
  /\ nAdded' = nAdded + 1
  /\ UNCHANGED <<nStarted, job, finished>>

\* An idle runner takes the oldest task.
Start(r) ==
  /\ job[r] = 0
  /\ nStarted < nAdded
  /\ nStarted' = nStarted + 1
  /\ job' = [job EXCEPT ![r] = nStarted + 1]
  /\ UNCHANGED <<nAdded, finished>>

Finish(r) ==
  /\ job[r] # 0
  /\ finished' = finished \union {job[r]}
  /\ job' = [job EXCEPT ![r] = 0]
  /\ UNCHANGED <<nAdded, nStarted>>

Next == Add \/ \E r \in Runners : Start(r) \/ Finish(r)

Spec == Init /\ [][Next]_board
=============================================================================
