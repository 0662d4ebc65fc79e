---------------------------- MODULE ThreadPoolInv ---------------------------
(***************************************************************************)
(* The inductive invariant of CThreadPool behind ThreadPoolProofs.         *)
(***************************************************************************)
EXTENDS ThreadPoolProps

\* A worker between front() and pop() is the owner of m_workQueLock.
LockInv == \A w \in Workers : pc[w] = "pop" <=> queLock = w

\* The queue holds the tasks that were pushed last, in order.
QueueInv ==
  \A i \in 1 .. Len(workQue) : workQue[i] = nAdded - Len(workQue) + i

\* A worker about to pop has copied the front of the queue; one that runs has
\* a task.
TaskInv ==
  \A w \in Workers :
    /\ pc[w] = "pop" => workQue # <<>> /\ task[w] = workQue[1]
    /\ pc[w] = "run" => task[w] # 0

\* Nobody adds a task or stops the pool before the initialisation has returned,
\* and without a semaphore there are no threads.
StartInv ==
  /\ ~Returned => workQue = <<>> /\ semap = 0 /\ queLock = Nobody /\ nStop = 0
  /\ ~HasSemaphore => \A w \in Workers : pc[w] = "none"

PoolInv ==
  /\ TypeOK
  /\ LockInv
  /\ QueueInv
  /\ TaskInv
  /\ StartInv
  /\ TokensMatch
  /\ FetchersHaveTasks
=============================================================================
