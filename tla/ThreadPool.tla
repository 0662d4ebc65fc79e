----------------------------- MODULE ThreadPool -----------------------------
(***************************************************************************)
(* CThreadPool (Server/Server/CThreadPooL.h): a queue of tasks under a     *)
(* critical section, a semaphore that counts them, worker threads, and     *)
(* clos, which stops the workers.                                          *)
(*                                                                         *)
(* Tasks are numbered in the order in which they are pushed.  Taking the   *)
(* front of the queue and popping it are two steps under m_workQueLock, and *)
(* so are pushing a task and releasing the semaphore.                      *)
(***************************************************************************)
EXTENDS Naturals, Sequences, FiniteSets

CONSTANTS
  Workers,     \* thread handles CreateThread may return
  Callers,     \* threads that call AddTask
  Nobody,      \* owner of a free lock
  Size,        \* the argument of InitThreadPool
  MinThreads,  \* the 4 of InitThreadPool
  StopTokens,  \* the 100 of clos
  MayFail,     \* the system calls of the initialisation may fail
  MayClose,    \* the owner may call clos
  MaxTasks     \* bound: tasks ever added

\* Defect: the number asked for, without the minimum.
NoMinimum(size) == size

\* max(size, 4) threads.
NumThreads(size) == IF size > MinThreads THEN size ELSE MinThreads

ASSUME PoolAssumption ==
  /\ IsFiniteSet(Workers)
  /\ Workers \intersect Callers = {}
  /\ Nobody \notin Workers \union Callers
  /\ Size \in Nat
  /\ MinThreads \in Nat
  /\ StopTokens \in Nat
  /\ MayFail \in BOOLEAN
  /\ MayClose \in BOOLEAN
  /\ MaxTasks \in Nat

VARIABLES
  init,      \* how far InitThreadPool is
  semap,     \* count of m_semapWork
  workQue,   \* m_workQue
  queLock,   \* owner of m_workQueLock
  nStop,     \* m_nStop
  released,  \* clos has released its tokens
  pc,        \* [Workers -> place in _ThreadWork]
  task,      \* [Workers -> the local variable task, 0 if there is none]
  nAdded,    \* history: number of tasks pushed
  finished   \* history: tasks that returned

poolVars == <<init, semap, workQue, queLock, nStop, released, pc, task,
              nAdded, finished>>

Places == {"none", "top", "wait", "woken", "fetch", "pop", "run", "exit"}

\* m_hThreadVec
hThreads == {w \in Workers : pc[w] # "none"}

Goto(w, place) == pc' = [pc EXCEPT ![w] = place]

-----------------------------------------------------------------------------
(***************************************************************************)
(* InitThreadPool.                                                         *)
(***************************************************************************)
Phases == {"new", "starting", "up", "fewer", "noSemaphore", "abandoned"}

\* Releasing a semaphore that was not created has no effect.
HasSemaphore == init \in {"starting", "up", "fewer"}

\* The initialisation has returned, with whatever result.
Returned == init \in {"up", "fewer", "noSemaphore", "abandoned"}

CreateSemaphore ==
  /\ init = "new"
  /\ \/ init' = "starting"
     \/ MayFail /\ init' = "noSemaphore"
  /\ UNCHANGED <<semap, workQue, queLock, nStop, released, pc, task, nAdded,
                 finished>>

\* CMySQLPool::InitThreadPool returned before it came to the threads.
NeverStarted ==
  /\ MayFail
  /\ init = "new"
  /\ init' = "abandoned"
  /\ UNCHANGED <<semap, workQue, queLock, nStop, released, pc, task, nAdded,
                 finished>>

StartWorker(w) ==
  /\ init = "starting"
  /\ Cardinality(hThreads) < NumThreads(Size)
  /\ pc[w] = "none"
  /\ Goto(w, "top")
  /\ UNCHANGED <<init, semap, workQue, queLock, nStop, released, task, nAdded,
                 finished>>

\* CreateThread failed: the threads made so far stay.
FailWorker ==
  /\ MayFail
  /\ init = "starting"
  /\ Cardinality(hThreads) < NumThreads(Size)
  /\ init' = "fewer"
  /\ UNCHANGED <<semap, workQue, queLock, nStop, released, pc, task, nAdded,
                 finished>>

EndInit ==
  /\ init = "starting"
  /\ Cardinality(hThreads) = NumThreads(Size)
  /\ init' = "up"
  /\ UNCHANGED <<semap, workQue, queLock, nStop, released, pc, task, nAdded,
                 finished>>

InitStep ==
  \/ CreateSemaphore
  \/ \E w \in Workers : StartWorker(w)
  \/ FailWorker
  \/ EndInit

-----------------------------------------------------------------------------
(***************************************************************************)
(* AddTask.                                                                *)
(***************************************************************************)
Push(c) ==
  /\ Returned
  /\ queLock = Nobody
  /\ nAdded < MaxTasks
  /\ queLock' = c
  /\ nAdded' = nAdded + 1
  /\ workQue' = Append(workQue, nAdded + 1)
  /\ UNCHANGED <<init, semap, nStop, released, pc, task, finished>>

\* Defect: the task is queued but nobody is told.
NoRelease(c) ==
  /\ queLock = c
  /\ queLock' = Nobody
  /\ UNCHANGED <<init, semap, workQue, nStop, released, pc, task, nAdded,
                 finished>>

ReleaseOne(c) ==
  /\ queLock = c
  /\ semap' = IF HasSemaphore THEN semap + 1 ELSE semap
  /\ queLock' = Nobody
  /\ UNCHANGED <<init, workQue, nStop, released, pc, task, nAdded, finished>>

AddTaskStep == \E c \in Callers : Push(c) \/ ReleaseOne(c)

-----------------------------------------------------------------------------
(***************************************************************************)
(* _ThreadWork.                                                            *)
(***************************************************************************)
\* while (pThis->m_nStop == 0)
TestStop(w) ==
  /\ pc[w] = "top"
  /\ Goto(w, IF nStop = 0 THEN "wait" ELSE "exit")
  /\ UNCHANGED <<init, semap, workQue, queLock, nStop, released, task, nAdded,
                 finished>>

\* Defect: the wait may time out without a token.
WaitWithTimeout(w) ==
  /\ pc[w] = "wait"
  /\ semap' = IF semap > 0 THEN semap - 1 ELSE 0
  /\ Goto(w, "woken")
  /\ UNCHANGED <<init, workQue, queLock, nStop, released, task, nAdded,
                 finished>>

\* WaitForSingleObject(m_semapWork, INFINITE)
Wake(w) ==
  /\ pc[w] = "wait"
  /\ semap > 0
  /\ semap' = semap - 1
  /\ Goto(w, "woken")
  /\ UNCHANGED <<init, workQue, queLock, nStop, released, task, nAdded,
                 finished>>

\* Defect: m_nStop is not looked at after the wait.
NoSecondTest(w) ==
  /\ pc[w] = "woken"
  /\ Goto(w, "fetch")
  /\ UNCHANGED <<init, semap, workQue, queLock, nStop, released, task, nAdded,
                 finished>>

\* if (pThis->m_nStop == 1) break
CheckStop(w) ==
  /\ pc[w] = "woken"
  /\ Goto(w, IF nStop = 1 THEN "exit" ELSE "fetch")
  /\ UNCHANGED <<init, semap, workQue, queLock, nStop, released, task, nAdded,
                 finished>>

\* Defect: front() and pop() without the lock.
TakeUnlocked(w) ==
  /\ pc[w] = "fetch"
  /\ workQue # <<>>
  /\ task' = [task EXCEPT ![w] = Head(workQue)]
  /\ Goto(w, "pop")
  /\ UNCHANGED <<init, semap, workQue, queLock, nStop, released, nAdded,
                 finished>>

\* task = m_workQue.front().  On an empty queue this is undefined:
\* FetchersHaveTasks is why the second conjunct never blocks.
TakeFront(w) ==
  /\ pc[w] = "fetch"
  /\ workQue # <<>>
  /\ queLock = Nobody
  /\ queLock' = w
  /\ task' = [task EXCEPT ![w] = Head(workQue)]
  /\ Goto(w, "pop")
  /\ UNCHANGED <<init, semap, workQue, nStop, released, nAdded, finished>>

\* m_workQue.pop(), and Unlock.
Pop(w) ==
  /\ pc[w] = "pop"
  /\ workQue' = Tail(workQue)
  /\ queLock' = Nobody
  /\ Goto(w, "run")
  /\ UNCHANGED <<init, semap, nStop, released, task, nAdded, finished>>

\* task() returns, and the loop starts again.
EndTask(w) ==
  /\ pc[w] = "run"
  /\ finished' = finished \union {task[w]}
  /\ task' = [task EXCEPT ![w] = 0]
  /\ Goto(w, "top")
  /\ UNCHANGED <<init, semap, workQue, queLock, nStop, released, nAdded>>

\* _ThreadWork up to the call of the task.
LoopStep(w) == TestStop(w) \/ Wake(w) \/ CheckStop(w) \/ TakeFront(w)

-----------------------------------------------------------------------------
(***************************************************************************)
(* clos.                                                                   *)
(***************************************************************************)
SetStop ==
  /\ MayClose
  /\ Returned
  /\ hThreads # {}
  /\ nStop = 0
  /\ nStop' = 1
  /\ UNCHANGED <<init, semap, workQue, queLock, released, pc, task, nAdded,
                 finished>>

\* Defect: one token for all the workers.
ReleaseSingle ==
  /\ nStop = 1
  /\ ~released
  /\ released' = TRUE
  /\ semap' = semap + 1
  /\ UNCHANGED <<init, workQue, queLock, nStop, pc, task, nAdded, finished>>

\* ReleaseSemaphore(m_semapWork, 100, 0).  What follows waits for the threads
\* for at most 3 s and closes their handles; it changes nothing here.
ReleaseTokens ==
  /\ nStop = 1
  /\ ~released
  /\ released' = TRUE
  /\ semap' = semap + StopTokens
  /\ UNCHANGED <<init, workQue, queLock, nStop, pc, task, nAdded, finished>>

-----------------------------------------------------------------------------
Init ==
  /\ init = "new"
  /\ semap = 0
  /\ workQue = <<>>
  /\ queLock = Nobody
  /\ nStop = 0
  /\ released = FALSE
  /\ pc = [w \in Workers |-> "none"]
  /\ task = [w \in Workers |-> 0]
  /\ nAdded = 0
  /\ finished = {}

Next ==
  \/ InitStep
  \/ NeverStarted
  \/ AddTaskStep
  \/ \E w \in Workers : LoopStep(w) \/ Pop(w) \/ EndTask(w)
  \/ SetStop
  \/ ReleaseTokens

Spec == Init /\ [][Next]_poolVars
=============================================================================
