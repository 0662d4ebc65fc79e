--------------------------- MODULE ThreadPoolProps --------------------------
(***************************************************************************)
(* What CThreadPool must guarantee.                                        *)
(***************************************************************************)
EXTENDS ThreadPool

\* Type correctness: a worker has a task exactly between front() and the return
\* of the task, and a pool that came up has at least the minimum of threads.
TypeOK ==
  /\ init \in Phases
  /\ semap \in Nat
  /\ workQue \in Seq(1 .. nAdded)
  /\ queLock \in Workers \union Callers \union {Nobody}
  /\ nStop \in {0, 1}
  /\ released \in BOOLEAN
  /\ pc \in [Workers -> Places]
  /\ task \in [Workers -> 0 .. nAdded]
  /\ nAdded \in Nat
  /\ finished \in SUBSET (1 .. nAdded)
  /\ init = "up" => Cardinality(hThreads) >= MinThreads

\* Workers at one of the given places.
Among(places) == {w \in Workers : pc[w] \in places}

\* A token for every task: until clos is called, each queued task has one token
\* in the semaphore, or one worker that has taken it, or its AddTask is about
\* to release it.  One too few and a task waits for ever, one too many and a
\* worker reads the front of an empty queue.
TokensMatch ==
  nStop = 0 /\ HasSemaphore =>
    semap + Cardinality(Among({"woken", "fetch", "pop"}))
          + (IF queLock \in Callers THEN 1 ELSE 0) = Len(workQue)

\* front() and pop() never meet an empty queue, also when clos releases tokens
\* that stand for no task: m_nStop is set before they are released and read
\* again after the wait.
FetchersHaveTasks == Cardinality(Among({"fetch", "pop"})) <= Len(workQue)

\* The pool runs each task once, in the order of AddTask, one per worker.
Board == INSTANCE TaskBoard WITH
           Runners  <- Workers,
           nStarted <- nAdded - Len(workQue),
           job      <- [w \in Workers |-> IF pc[w] = "run" THEN task[w] ELSE 0]

ImplementsBoard == Board!Spec

(***************************************************************************)
(* Liveness.                                                               *)
(***************************************************************************)
\* Threads run, tasks return, a semaphore with tokens lets a waiting thread
\* pass, and the critical section is granted in the end to a thread that asks
\* for it again and again.
Fairness ==
  /\ \A c \in Callers : WF_poolVars(ReleaseOne(c))
  /\ WF_poolVars(\E w \in Workers : Wake(w))
  /\ \A w \in Workers : /\ WF_poolVars(TestStop(w))
                        /\ WF_poolVars(CheckStop(w))
                        /\ SF_poolVars(TakeFront(w))
                        /\ WF_poolVars(Pop(w))
                        /\ WF_poolVars(EndTask(w))
  /\ WF_poolVars(ReleaseTokens)

FairSpec == Spec /\ Fairness

\* Every task added to a pool that has a thread is run, unless clos is called,
\* also when InitThreadPool could start only some of the threads.
EventuallyRun ==
  \A k \in 1 .. MaxTasks :
    (k <= nAdded /\ hThreads # {}) ~> (k \in finished \/ nStop = 1)

\* After clos every thread leaves _ThreadWork, whatever it was doing.
EventuallyStopped == (nStop = 1) ~> (Among({"none", "exit"}) = Workers)
=============================================================================
