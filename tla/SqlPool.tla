------------------------------ MODULE SqlPool -------------------------------
(***************************************************************************)
(* CMySQLPool (Server/Server/CMySqlPool.h): a thread pool whose tasks are  *)
(* statements.  Each task takes a connection from a free list, executes    *)
(* its statement on it, gives it back and calls the callback.              *)
(*                                                                         *)
(* The class inherits CThreadPool, so this module extends ThreadPool: the  *)
(* body of a task is what its workers do between Pop and EndTask.  A       *)
(* statement is known by the number of its task.  The program always       *)
(* passes a callback and never calls clos.                                 *)
(***************************************************************************)
EXTENDS ThreadPool

CONSTANT Conns  \* connections mysql_real_connect may return

ASSUME SqlAssumption == IsFiniteSet(Conns) /\ Nobody \notin Conns

VARIABLES
  dbInit,    \* how far the loop of InitThreadPool over connections is
  freeList,  \* m_sqlFreeList, from its head
  sqlLock,   \* owner of m_lock
  step,      \* [Workers -> place in the task body]
  conn,      \* [Workers -> the pNode it uses, or Nobody]
  onConn,    \* [Conns -> the statement executed last on the connection]
  result,    \* [Workers -> the statement whose rows are in pRes, 0 for none]
  called,    \* history: <<statement, rows>> of each call of the callback
  opened     \* history: connections made

sqlVars == <<dbInit, freeList, sqlLock, step, conn, onConn, result, called,
             opened>>
vars == <<poolVars, sqlVars>>

Steps == {"none", "lock", "list", "advance", "query", "store", "free", "call"}

At(w, place) == step[w] = place

Advance(w, place) == step' = [step EXCEPT ![w] = place]

-----------------------------------------------------------------------------
(***************************************************************************)
(* InitThreadPool: one connection per thread, then the threads.            *)
(***************************************************************************)
\* mysql_real_connect and FreeSql of the new node.
Connect(c) ==
  /\ dbInit = "connecting"
  /\ Cardinality(opened) < NumThreads(Size)
  /\ c \notin opened
  /\ opened' = opened \union {c}
  /\ freeList' = <<c>> \o freeList
  /\ UNCHANGED <<poolVars, dbInit, sqlLock, step, conn, onConn, result, called>>

\* mysql_init or mysql_real_connect failed: return before the threads start.
FailConnect ==
  /\ dbInit = "connecting"
  /\ Cardinality(opened) < NumThreads(Size)
  /\ NeverStarted
  /\ dbInit' = "failed"
  /\ UNCHANGED <<freeList, sqlLock, step, conn, onConn, result, called, opened>>

\* Defect: the loop stops one connection short.
OneShort ==
  /\ dbInit = "connecting"
  /\ Cardinality(opened) = NumThreads(Size) - 1
  /\ dbInit' = "up"
  /\ UNCHANGED <<poolVars, freeList, sqlLock, step, conn, onConn, result,
                 called, opened>>

EndConnect ==
  /\ dbInit = "connecting"
  /\ Cardinality(opened) = NumThreads(Size)
  /\ dbInit' = "up"
  /\ UNCHANGED <<poolVars, freeList, sqlLock, step, conn, onConn, result,
                 called, opened>>

\* CThreadPool::InitThreadPool(size), whose result is not looked at.
StartThreads ==
  /\ dbInit = "up"
  /\ InitStep
  /\ UNCHANGED sqlVars

-----------------------------------------------------------------------------
(***************************************************************************)
(* The body of a task: the lambda of ExcuSql.                              *)
(***************************************************************************)
\* The worker has popped the task and calls it.
BeginTask(w) ==
  /\ Pop(w)
  /\ Advance(w, "lock")
  /\ UNCHANGED <<dbInit, freeList, sqlLock, conn, onConn, result, called, opened>>

\* AllocSql enters the critical section ...
LockSql(w) ==
  /\ At(w, "lock")
  /\ sqlLock = Nobody
  /\ sqlLock' = w
  /\ Advance(w, "list")
  /\ UNCHANGED <<poolVars, dbInit, freeList, conn, onConn, result, called,
                 opened>>

\* ... sleeps inside it while the list is empty, then reads the head ...
TakeConn(w) ==
  /\ At(w, "list")
  /\ freeList # <<>>
  /\ conn' = [conn EXCEPT ![w] = Head(freeList)]
  /\ Advance(w, "advance")
  /\ UNCHANGED <<poolVars, dbInit, freeList, sqlLock, onConn, result, called,
                 opened>>

\* ... moves the head on and leaves.
AdvanceList(w) ==
  /\ At(w, "advance")
  /\ freeList' = Tail(freeList)
  /\ sqlLock' = Nobody
  /\ Advance(w, "query")
  /\ UNCHANGED <<poolVars, dbInit, conn, onConn, result, called, opened>>

\* mysql_real_query: an error leaves no rows and is reported as such.
RealQuery(w) ==
  /\ At(w, "query")
  /\ onConn' = [onConn EXCEPT ![conn[w]] = task[w]]
  /\ result' = [result EXCEPT ![w] = 0]
  /\ Advance(w, "store") \/ Advance(w, "free")
  /\ UNCHANGED <<poolVars, dbInit, freeList, sqlLock, conn, called, opened>>

\* mysql_store_result: the rows of whatever was last executed on the
\* connection, or none.
StoreResult(w) ==
  /\ At(w, "store")
  /\ \E rows \in {onConn[conn[w]], 0} : result' = [result EXCEPT ![w] = rows]
  /\ Advance(w, "free")
  /\ UNCHANGED <<poolVars, dbInit, freeList, sqlLock, conn, onConn, called,
                 opened>>

\* Defect: the node is pushed without taking m_lock.
FreeUnlocked(w) ==
  /\ At(w, "free")
  /\ freeList' = <<conn[w]>> \o freeList
  /\ conn' = [conn EXCEPT ![w] = Nobody]
  /\ Advance(w, "call")
  /\ UNCHANGED <<poolVars, dbInit, sqlLock, onConn, result, called, opened>>

\* Defect: the worker keeps its pointer to the node.
KeepPointer(w) ==
  /\ At(w, "free")
  /\ sqlLock = Nobody
  /\ freeList' = <<conn[w]>> \o freeList
  /\ Advance(w, "call")
  /\ UNCHANGED <<poolVars, dbInit, sqlLock, conn, onConn, result, called, opened>>

\* Defect: the connection is not given back.
Leak(w) ==
  /\ At(w, "free")
  /\ conn' = [conn EXCEPT ![w] = Nobody]
  /\ Advance(w, "call")
  /\ UNCHANGED <<poolVars, dbInit, freeList, sqlLock, onConn, result, called,
                 opened>>

\* FreeSql, one critical section.
FreeSql(w) ==
  /\ At(w, "free")
  /\ sqlLock = Nobody
  /\ freeList' = <<conn[w]>> \o freeList
  /\ conn' = [conn EXCEPT ![w] = Nobody]
  /\ Advance(w, "call")
  /\ UNCHANGED <<poolVars, dbInit, sqlLock, onConn, result, called, opened>>

\* fun(pRes, nRet, pErr), whether the statement succeeded or not; the task
\* returns.
Callback(w) ==
  /\ At(w, "call")
  /\ called' = called \union {<<task[w], result[w]>>}
  /\ Advance(w, "none")
  /\ EndTask(w)
  /\ UNCHANGED <<dbInit, freeList, sqlLock, conn, onConn, result, opened>>

TaskStep(w) ==
  \/ LockSql(w)
  \/ TakeConn(w)
  \/ AdvanceList(w)
  \/ RealQuery(w)
  \/ StoreResult(w)
  \/ FreeSql(w)
  \/ Callback(w)

-----------------------------------------------------------------------------
SqlInit ==
  /\ Init
  /\ dbInit = "connecting"
  /\ freeList = <<>>
  /\ sqlLock = Nobody
  /\ step = [w \in Workers |-> "none"]
  /\ conn = [w \in Workers |-> Nobody]
  /\ onConn = [c \in Conns |-> 0]
  /\ result = [w \in Workers |-> 0]
  /\ called = {}
  /\ opened = {}

SqlNext ==
  \/ \E c \in Conns : Connect(c)
  \/ FailConnect
  \/ EndConnect
  \/ StartThreads
  \/ AddTaskStep /\ UNCHANGED sqlVars
  \/ \E w \in Workers : \/ LoopStep(w) /\ UNCHANGED sqlVars
                        \/ BeginTask(w)
                        \/ TaskStep(w)

SqlSpec == SqlInit /\ [][SqlNext]_vars
=============================================================================
