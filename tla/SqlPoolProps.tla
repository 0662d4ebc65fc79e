---------------------------- MODULE SqlPoolProps ----------------------------
(***************************************************************************)
(* What CMySQLPool must guarantee.                                         *)
(***************************************************************************)
EXTENDS SqlPool

\* Type correctness: a worker uses a connection exactly from AllocSql to
\* FreeSql, and the critical section of AllocSql has its worker for owner.
SqlTypeOK ==
  /\ dbInit \in {"connecting", "up", "failed"}
  /\ freeList \in Seq(Conns)
  /\ sqlLock \in Workers \union {Nobody}
  /\ step \in [Workers -> Steps]
  /\ conn \in [Workers -> Conns \union {Nobody}]
  /\ onConn \in [Conns -> 0 .. nAdded]
  /\ result \in [Workers -> 0 .. nAdded]
  /\ called \in SUBSET ((1 .. nAdded) \X (0 .. nAdded))
  /\ opened \in SUBSET Conns
  /\ \A w \in Workers :
       /\ conn[w] # Nobody <=> step[w] \in {"advance", "query", "store", "free"}
       /\ step[w] \in {"list", "advance"} <=> sqlLock = w

\* AllocSql waits for a free connection inside m_lock, which FreeSql needs: a
\* worker that found the list empty would wait for ever and stop every other.
\* It never does, since there are as many connections as threads.
AllocNeverSpins == \A w \in Workers : At(w, "list") => freeList # <<>>

\* The rows a callback gets are those of its own statement, or none: no other
\* worker executes anything on the connection between mysql_real_query and
\* mysql_store_result.
ResultIsOwn == \A call \in called : call[2] \in {0, call[1]}

(***************************************************************************)
(* Liveness.                                                               *)
(***************************************************************************)
\* As for ThreadPool; and MySQL answers each statement with rows or an error.
SqlFairness ==
  /\ WF_vars((\E c \in Conns : Connect(c)) \/ EndConnect)
  /\ WF_vars(StartThreads)
  /\ \A c \in Callers : WF_vars(ReleaseOne(c) /\ UNCHANGED sqlVars)
  /\ WF_vars(\E w \in Workers : Wake(w) /\ UNCHANGED sqlVars)
  /\ \A w \in Workers :
       /\ WF_vars((TestStop(w) \/ CheckStop(w)) /\ UNCHANGED sqlVars)
       /\ SF_vars(TakeFront(w) /\ UNCHANGED sqlVars)
       /\ WF_vars(BeginTask(w))
       /\ SF_vars(LockSql(w))
       /\ WF_vars(TakeConn(w) \/ AdvanceList(w))
       /\ WF_vars(RealQuery(w) \/ StoreResult(w))
       /\ SF_vars(FreeSql(w))
       /\ WF_vars(Callback(w))

SqlFairSpec == SqlSpec /\ SqlFairness

\* "The statement is executed and the callback entered, whether the result is
\* success or not" (Server.cpp:69): each ExcuSql is answered in the end.
EventuallyCalled ==
  \A k \in 1 .. MaxTasks : (k <= nAdded) ~> (\E call \in called : call[1] = k)

\* Once InitThreadPool has started a thread, each ExcuSql is answered, whichever
\* statement fails and however many of the threads could be started.
AnsweredOnceUp ==
  \A k \in 1 .. MaxTasks :
    (k <= nAdded /\ hThreads # {}) ~> (\E call \in called : call[1] = k)
=============================================================================
