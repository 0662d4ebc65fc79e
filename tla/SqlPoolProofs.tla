--------------------------- MODULE SqlPoolProofs ----------------------------
(***************************************************************************)
(* CMySQLPool for every number of threads, connections and statements.     *)
(***************************************************************************)
EXTENDS SqlPoolInv, ThreadPoolProofs

-----------------------------------------------------------------------------
(***************************************************************************)
(* CMySQLPool is a CThreadPool.                                            *)
(***************************************************************************)
LEMMA PoolPart == SqlNext => [Next]_poolVars
<1> SUFFICES ASSUME SqlNext
             PROVE  [Next]_poolVars
  OBVIOUS
<1>1. CASE (\E c \in Conns : Connect(c)) \/ EndConnect
  BY <1>1 DEF Connect, EndConnect
<1>2. CASE FailConnect
  BY <1>2 DEF FailConnect, Next
<1>3. CASE StartThreads
  BY <1>3 DEF StartThreads, Next
<1>4. CASE AddTaskStep
  BY <1>4 DEF Next
<1>5. CASE \E w \in Workers : LoopStep(w)
  BY <1>5 DEF Next
<1>6. CASE \E w \in Workers : BeginTask(w)
  BY <1>6 DEF BeginTask, Next
<1>7. CASE \E w \in Workers : TaskStep(w)
  BY <1>7 DEF TaskStep, LockSql, TakeConn, AdvanceList, RealQuery, StoreResult,
              FreeSql, Callback, Next
<1> QED
  BY <1>1, <1>2, <1>3, <1>4, <1>5, <1>6, <1>7 DEF SqlNext

\* Every behaviour of CMySQLPool is one of CThreadPool, so that what holds of the
\* tasks of a thread pool holds of statements.
THEOREM SqlImplementsPool == SqlSpec => Spec
<1>1. SqlInit => Init
  BY DEF SqlInit
<1>2. UNCHANGED vars => UNCHANGED poolVars
  BY DEF vars
<1> QED
  BY <1>1, <1>2, PoolPart, PTL DEF SqlSpec, Spec

-----------------------------------------------------------------------------
(***************************************************************************)
(* Parts of the invariant that a step leaves alone.                        *)
(***************************************************************************)
\* A sequence with one element in front.
LEMMA ConsFacts ==
  ASSUME NEW S, NEW s \in Seq(S), NEW e \in S
  PROVE  /\ <<e>> \o s \in Seq(S)
         /\ Len(s) \in Nat
         /\ Len(<<e>> \o s) = Len(s) + 1
         /\ (<<e>> \o s)[1] = e
         /\ \A i \in 1 .. Len(s) : (<<e>> \o s)[i + 1] = s[i]
         /\ <<e>> \o s # <<>>
OBVIOUS

\* The connections are where they were.
LEMMA ConnFrame ==
  ASSUME ConnInv, UNCHANGED <<freeList, conn, opened>>, Using' = Using,
         \A w \in Workers : step'[w] = "advance" => step[w] = "advance"
  PROVE  ConnInv'
BY DEF ConnInv

\* The threads that exist are those that existed.
LEMMA CountFrame ==
  ASSUME CountInv, hThreads' = hThreads, UNCHANGED <<opened, dbInit>>
  PROVE  CountInv'
BY DEF CountInv

\* Workers run their tasks, and no worker that runs one changes it.
LEMMA OwnFrame ==
  ASSUME OwnInv, BodyInv, UNCHANGED <<onConn, conn, result, step>>,
         \A w \in Workers : pc[w] = "run" => task'[w] = task[w]
  PROVE  OwnInv'
BY DEF OwnInv, BodyInv

\* Types of the SQL part when only the number of tasks may have grown.
LEMMA TypeFrame ==
  ASSUME SqlTypeOK, UNCHANGED sqlVars, nAdded \in Nat, nAdded' \in Nat,
         nAdded <= nAdded'
  PROVE  SqlTypeOK' /\ (ResultIsOwn => ResultIsOwn')
<1>1. 0 .. nAdded \subseteq 0 .. nAdded' /\ 1 .. nAdded \subseteq 1 .. nAdded'
  OBVIOUS
<1>2. (1 .. nAdded) \X (0 .. nAdded) \subseteq (1 .. nAdded') \X (0 .. nAdded')
  BY <1>1
<1>3. /\ onConn' \in [Conns -> 0 .. nAdded']
      /\ result' \in [Workers -> 0 .. nAdded']
  BY <1>1 DEF SqlTypeOK, sqlVars
<1>4. called' \in SUBSET ((1 .. nAdded') \X (0 .. nAdded'))
  BY <1>2 DEF SqlTypeOK, sqlVars
<1> QED
  BY <1>3, <1>4 DEF SqlTypeOK, sqlVars, ResultIsOwn

\* A step of the thread pool alone that neither starts nor ends a task.
LEMMA PoolFrame ==
  ASSUME SqlInv, PoolInv, PoolInv', UNCHANGED sqlVars, nAdded <= nAdded',
         \A w \in Workers : /\ pc[w] = "run" <=> pc'[w] = "run"
                            /\ pc[w] = "run" => task'[w] = task[w]
  PROVE  /\ SqlTypeOK' /\ BodyInv' /\ ConnInv' /\ OwnInv' /\ ResultIsOwn'
<1>1. nAdded \in Nat /\ nAdded' \in Nat
  BY DEF PoolInv, TypeOK
<1>2. SqlTypeOK' /\ ResultIsOwn'
  BY <1>1, TypeFrame DEF SqlInv
<1>3. BodyInv'
  BY DEF SqlInv, BodyInv, sqlVars
<1>4. ConnInv'
  BY ConnFrame DEF SqlInv, sqlVars, Using
<1>5. OwnInv'
  BY OwnFrame DEF SqlInv, sqlVars
<1> QED
  BY <1>2, <1>3, <1>4, <1>5

\* Threads that a step neither creates nor takes away.
LEMMA SameThreads ==
  ASSUME pc \in [Workers -> Places], NEW w \in Workers, NEW x \in Places,
         pc' = [pc EXCEPT ![w] = x], pc[w] # "none", x # "none"
  PROVE  hThreads' = hThreads
BY DEF hThreads

-----------------------------------------------------------------------------
(***************************************************************************)
(* The initialisation.                                                     *)
(***************************************************************************)
\* Before the connections are made there are no threads.
LEMMA NoThreads ==
  ASSUME SqlInv, dbInit # "up"
  PROVE  hThreads = {} /\ Using = {} /\ \A w \in Workers : step[w] = "none"
<1>1. hThreads = {}
  BY DEF SqlInv, CountInv
<1>2. \A w \in Workers : pc[w] = "none"
  BY <1>1 DEF hThreads
<1>3. \A w \in Workers : step[w] = "none"
  BY <1>2 DEF SqlInv, BodyInv
<1> QED
  BY <1>1, <1>3 DEF Using

\* Connections and threads are finitely many.
LEMMA Finiteness ==
  ASSUME SqlInv
  PROVE  /\ IsFiniteSet(opened) /\ Cardinality(opened) \in Nat
         /\ IsFiniteSet(hThreads) /\ Cardinality(hThreads) \in Nat
         /\ NumThreads(Size) \in Nat
<1>1. opened \subseteq Conns /\ hThreads \subseteq Workers
  BY DEF SqlInv, SqlTypeOK, hThreads
<1>2. IsFiniteSet(Conns) /\ IsFiniteSet(Workers)
  BY SqlAssumption, PoolAssumption DEF SqlAssumption, PoolAssumption
<1>3. IsFiniteSet(opened) /\ IsFiniteSet(hThreads)
  BY <1>1, <1>2, FS_Subset
<1> QED
  BY <1>3, FS_CardinalityType, PoolAssumption DEF NumThreads, PoolAssumption

LEMMA ConnectStep ==
  ASSUME SqlInv, NEW c \in Conns, Connect(c)
  PROVE  SqlInv'
<1> USE DEF Connect
<1>1. UNCHANGED <<pc, task, nAdded, step, conn, onConn, result, called, dbInit,
                  sqlLock>>
  BY DEF poolVars
<1>2. Using = {} /\ (\A w \in Workers : step[w] = "none")
  BY NoThreads
<1>3. Using' = {} /\ hThreads' = hThreads
  BY <1>1, <1>2 DEF Using, hThreads
<1>4. /\ freeList' \in Seq(Conns)
      /\ Len(freeList) \in Nat
      /\ Len(freeList') = Len(freeList) + 1
      /\ freeList'[1] = c
      /\ \A i \in 1 .. Len(freeList) : freeList'[i + 1] = freeList[i]
  BY ConsFacts DEF SqlInv, SqlTypeOK
<1>5. \A i \in 1 .. Len(freeList') :
        i = 1 \/ (i - 1 \in 1 .. Len(freeList) /\ freeList'[i] = freeList[i - 1])
  <2> SUFFICES ASSUME NEW i \in 1 .. Len(freeList'), i # 1
               PROVE  i - 1 \in 1 .. Len(freeList) /\ freeList'[i] = freeList[i - 1]
    OBVIOUS
  <2>1. i - 1 \in 1 .. Len(freeList) /\ (i - 1) + 1 = i
    BY <1>4
  <2> QED
    BY <1>4, <2>1
<1>6. SqlTypeOK'
  BY <1>1, <1>4 DEF SqlInv, SqlTypeOK
<1>7. BodyInv' /\ OwnInv' /\ ResultIsOwn'
  BY <1>1 DEF SqlInv, BodyInv, OwnInv, ResultIsOwn
<1>8. ConnInv'
  <2>1. ASSUME NEW i \in 1 .. Len(freeList'), NEW j \in 1 .. Len(freeList'),
               freeList'[i] = freeList'[j]
        PROVE  i = j
    <3>1. CASE i = 1 /\ j = 1
      BY <3>1
    <3>2. CASE i # 1 /\ j # 1
      <4>1. i - 1 = j - 1
        BY <1>5, <2>1, <3>2 DEF SqlInv, ConnInv
      <4> QED
        BY <4>1, <1>4
    <3>3. CASE i = 1 <=> j # 1
      BY <1>4, <1>5, <2>1, <3>3 DEF SqlInv, ConnInv
    <3> QED
      BY <3>1, <3>2, <3>3
  <2>2. \A i \in 1 .. Len(freeList') : freeList'[i] \in opened'
    BY <1>4, <1>5 DEF SqlInv, ConnInv
  <2>3. \A d \in opened' : \E i \in 1 .. Len(freeList') : freeList'[i] = d
    <3>1. ASSUME NEW d \in opened
          PROVE  \E i \in 1 .. Len(freeList') : freeList'[i] = d
      <4>1. PICK i \in 1 .. Len(freeList) : freeList[i] = d
        BY <1>2 DEF SqlInv, ConnInv
      <4>2. i + 1 \in 1 .. Len(freeList') /\ freeList'[i + 1] = d
        BY <1>4, <4>1
      <4> QED
        BY <4>2
    <3>2. 1 \in 1 .. Len(freeList')
      BY <1>4
    <3> QED
      BY <1>4, <3>1, <3>2
  <2>4. \A w \in Workers : step'[w] # "advance"
    BY <1>1, <1>2
  <2> QED
    BY <1>3, <2>1, <2>2, <2>3, <2>4 DEF ConnInv
<1>9. CountInv'
  <2>1. Cardinality(opened') = Cardinality(opened) + 1
    BY Finiteness, FS_AddElement
  <2> QED
    BY <1>1, <1>3, <2>1, Finiteness DEF SqlInv, CountInv
<1> QED
  BY <1>6, <1>7, <1>8, <1>9 DEF SqlInv

\* The loop over connections ends, in success or failure.
LEMMA ConnectedStep ==
  ASSUME SqlInv, FailConnect \/ EndConnect
  PROVE  SqlInv'
<1>1. /\ UNCHANGED <<pc, task, nAdded, freeList, sqlLock, step, conn, onConn,
                     result, called, opened>>
      /\ dbInit' \in {"up", "failed"}
      /\ dbInit' = "up" => Cardinality(opened) = NumThreads(Size)
  BY DEF FailConnect, EndConnect, NeverStarted, poolVars
<1>2. hThreads' = hThreads /\ hThreads = {} /\ Using' = Using
  BY <1>1, NoThreads DEF FailConnect, EndConnect, hThreads, Using
<1>3. SqlTypeOK'
  BY <1>1 DEF SqlInv, SqlTypeOK
<1>4. BodyInv' /\ OwnInv' /\ ResultIsOwn'
  BY <1>1 DEF SqlInv, BodyInv, OwnInv, ResultIsOwn
<1>5. ConnInv'
  BY <1>1, <1>2, ConnFrame DEF SqlInv
<1>6. CountInv'
  BY <1>1, <1>2 DEF SqlInv, CountInv
<1> QED
  BY <1>3, <1>4, <1>5, <1>6 DEF SqlInv

LEMMA StartThreadsStep ==
  ASSUME SqlInv, PoolInv, PoolInv', StartThreads
  PROVE  SqlInv'
<1>1. UNCHANGED sqlVars /\ nAdded' = nAdded /\ nAdded \in Nat /\ task' = task
  BY DEF StartThreads, InitStep, CreateSemaphore, StartWorker, FailWorker,
         EndInit, PoolInv, TypeOK
<1>2. pc' = pc \/ \E w \in Workers : StartWorker(w)
  BY DEF StartThreads, InitStep, CreateSemaphore, FailWorker, EndInit
<1>3. \A w \in Workers : pc[w] = "run" <=> pc'[w] = "run"
  BY <1>2 DEF StartWorker, Goto, PoolInv, TypeOK
<1>4. SqlTypeOK' /\ BodyInv' /\ ConnInv' /\ OwnInv' /\ ResultIsOwn'
  BY <1>1, <1>3, PoolFrame
<1>5. CountInv'
  <2>1. CASE pc' = pc
    <3>1. hThreads' = hThreads
      BY <2>1 DEF hThreads
    <3> QED
      BY <1>1, <3>1, CountFrame DEF SqlInv, sqlVars
  <2>2. CASE \E w \in Workers : StartWorker(w)
    <3>1. PICK w \in Workers : StartWorker(w)
      BY <2>2
    <3>2. hThreads' = hThreads \cup {w} /\ w \notin hThreads
      BY <3>1 DEF StartWorker, Goto, hThreads, PoolInv, TypeOK
    <3>3. Cardinality(hThreads') = Cardinality(hThreads) + 1
      BY <3>2, Finiteness, FS_AddElement
    <3>4. Cardinality(hThreads) < NumThreads(Size)
      BY <3>1 DEF StartWorker
    <3>5. dbInit = "up" /\ dbInit' = dbInit /\ opened' = opened
      BY <1>1 DEF StartThreads, sqlVars
    <3> QED
      BY <3>3, <3>4, <3>5, Finiteness DEF SqlInv, CountInv
  <2> QED
    BY <1>2, <2>1, <2>2
<1> QED
  BY <1>4, <1>5 DEF SqlInv

\* AddTask, and a worker between tasks.
LEMMA AddTaskFrame ==
  ASSUME SqlInv, PoolInv, PoolInv', AddTaskStep, UNCHANGED sqlVars
  PROVE  SqlInv'
<1>1. pc' = pc /\ task' = task /\ nAdded <= nAdded'
  BY DEF AddTaskStep, Push, ReleaseOne, PoolInv, TypeOK
<1>2. SqlTypeOK' /\ BodyInv' /\ ConnInv' /\ OwnInv' /\ ResultIsOwn'
  BY <1>1, PoolFrame
<1>3. CountInv'
  BY <1>1, CountFrame DEF SqlInv, sqlVars, hThreads
<1> QED
  BY <1>2, <1>3 DEF SqlInv

LEMMA LoopFrame ==
  ASSUME SqlInv, PoolInv, PoolInv', NEW w \in Workers, LoopStep(w),
         UNCHANGED sqlVars
  PROVE  SqlInv'
<1>1. /\ pc \in [Workers -> Places]
      /\ task \in [Workers -> 0 .. nAdded]
      /\ nAdded' = nAdded /\ nAdded \in Nat
  BY DEF LoopStep, TestStop, Wake, CheckStop, TakeFront, PoolInv, TypeOK
<1>2. PICK x \in Places : /\ pc' = [pc EXCEPT ![w] = x]
                          /\ x \notin {"none", "run"}
                          /\ pc[w] \notin {"none", "run"}
  BY DEF LoopStep, TestStop, Wake, CheckStop, TakeFront, Goto, Places
<1>3. \A v \in Workers : v # w => task'[v] = task[v]
  BY <1>1 DEF LoopStep, TestStop, Wake, CheckStop, TakeFront
<1>4. \A v \in Workers : /\ pc[v] = "run" <=> pc'[v] = "run"
                         /\ pc[v] = "run" => task'[v] = task[v]
  BY <1>1, <1>2, <1>3
<1>5. SqlTypeOK' /\ BodyInv' /\ ConnInv' /\ OwnInv' /\ ResultIsOwn'
  BY <1>1, <1>4, PoolFrame
<1>6. hThreads' = hThreads
  BY <1>1, <1>2, SameThreads
<1>7. CountInv'
  BY <1>6, CountFrame DEF SqlInv, sqlVars
<1> QED
  BY <1>5, <1>7 DEF SqlInv

-----------------------------------------------------------------------------
(***************************************************************************)
(* The body of a task.                                                     *)
(***************************************************************************)
LEMMA BeginTaskStep ==
  ASSUME SqlInv, PoolInv, PoolInv', NEW w \in Workers, BeginTask(w)
  PROVE  SqlInv'
<1> USE DEF BeginTask, Pop, Advance, Goto
<1>1. /\ UNCHANGED <<task, nAdded, dbInit, freeList, sqlLock, conn, onConn,
                     result, called, opened>>
      /\ pc[w] = "pop" /\ pc' = [pc EXCEPT ![w] = "run"]
      /\ step' = [step EXCEPT ![w] = "lock"]
      /\ pc \in [Workers -> Places] /\ step \in [Workers -> Steps]
  BY DEF PoolInv, TypeOK, SqlInv, SqlTypeOK
<1>2. step[w] = "none"
  BY <1>1 DEF SqlInv, BodyInv
<1> HIDE DEF BeginTask
<1>3. SqlTypeOK'
  <2>1. step' \in [Workers -> Steps]
    BY <1>1 DEF Steps
  <2>2. \A v \in Workers :
          /\ conn'[v] # Nobody <=> step'[v] \in {"advance", "query", "store", "free"}
          /\ step'[v] \in {"list", "advance"} <=> sqlLock' = v
    BY <1>1, <1>2 DEF SqlInv, SqlTypeOK
  <2> QED
    BY <1>1, <2>1, <2>2 DEF SqlInv, SqlTypeOK
<1>4. BodyInv'
  BY <1>1 DEF SqlInv, BodyInv
<1>5. Using' = Using
  BY <1>1, <1>2 DEF Using
<1>6. ConnInv'
  BY <1>1, <1>5, ConnFrame DEF SqlInv
<1>7. OwnInv' /\ ResultIsOwn'
  BY <1>1 DEF SqlInv, OwnInv, ResultIsOwn
<1>8. hThreads' = hThreads
  BY <1>1, SameThreads DEF Places
<1>9. CountInv'
  BY <1>1, <1>8, CountFrame DEF SqlInv
<1> QED
  BY <1>3, <1>4, <1>6, <1>7, <1>9 DEF SqlInv

LEMMA CallbackStep ==
  ASSUME SqlInv, PoolInv, PoolInv', NEW w \in Workers, Callback(w)
  PROVE  SqlInv'
<1> USE DEF Callback, EndTask, At, Advance, Goto
<1>1. /\ UNCHANGED <<nAdded, dbInit, freeList, sqlLock, conn, onConn, result,
                     opened>>
      /\ pc[w] = "run" /\ pc' = [pc EXCEPT ![w] = "top"]
      /\ step[w] = "call" /\ step' = [step EXCEPT ![w] = "none"]
      /\ task' = [task EXCEPT ![w] = 0]
      /\ called' = called \union {<<task[w], result[w]>>}
      /\ pc \in [Workers -> Places] /\ step \in [Workers -> Steps]
      /\ task \in [Workers -> 0 .. nAdded] /\ nAdded \in Nat
  BY DEF PoolInv, TypeOK, SqlInv, SqlTypeOK
<1>2. task[w] \in 1 .. nAdded /\ result[w] \in 0 .. nAdded
  BY <1>1 DEF SqlInv, SqlTypeOK, PoolInv, TaskInv
<1> HIDE DEF Callback
<1>3. SqlTypeOK'
  <2>1. step' \in [Workers -> Steps]
    BY <1>1 DEF Steps
  <2>2. \A v \in Workers :
          /\ conn'[v] # Nobody <=> step'[v] \in {"advance", "query", "store", "free"}
          /\ step'[v] \in {"list", "advance"} <=> sqlLock' = v
    BY <1>1 DEF SqlInv, SqlTypeOK
  <2>3. called' \in SUBSET ((1 .. nAdded') \X (0 .. nAdded'))
    BY <1>1, <1>2 DEF SqlInv, SqlTypeOK
  <2> QED
    BY <1>1, <2>1, <2>2, <2>3 DEF SqlInv, SqlTypeOK
<1>4. BodyInv'
  BY <1>1 DEF SqlInv, BodyInv
<1>5. Using' = Using
  BY <1>1 DEF Using
<1>6. ConnInv'
  BY <1>1, <1>5, ConnFrame DEF SqlInv
<1>7. OwnInv'
  BY <1>1 DEF SqlInv, OwnInv
<1>8. ResultIsOwn'
  BY <1>1 DEF SqlInv, OwnInv, ResultIsOwn
<1>9. hThreads' = hThreads
  BY <1>1, SameThreads DEF Places
<1>10. CountInv'
  BY <1>1, <1>9, CountFrame DEF SqlInv
<1> QED
  BY <1>3, <1>4, <1>6, <1>7, <1>8, <1>10 DEF SqlInv

\* What every step of a statement in between leaves alone.
LEMMA BodyFrame ==
  ASSUME SqlInv, PoolInv, NEW w \in Workers, NEW x \in Steps \ {"none"},
         step[w] # "none", step' = [step EXCEPT ![w] = x],
         UNCHANGED <<poolVars, dbInit, opened>>
  PROVE  /\ UNCHANGED <<pc, task, nAdded>>
         /\ step \in [Workers -> Steps] /\ step' \in [Workers -> Steps]
         /\ nAdded \in Nat /\ task[w] \in 1 .. nAdded
         /\ BodyInv' /\ CountInv'
<1>1. UNCHANGED <<pc, task, nAdded>>
  BY DEF poolVars
<1>2. step \in [Workers -> Steps] /\ step' \in [Workers -> Steps]
  BY DEF SqlInv, SqlTypeOK
<1>3. pc[w] = "run"
  BY DEF SqlInv, BodyInv
<1>4. nAdded \in Nat /\ task[w] \in 1 .. nAdded
  BY <1>3 DEF PoolInv, TypeOK, TaskInv
<1>5. BodyInv'
  BY <1>1, <1>2 DEF SqlInv, BodyInv
<1>6. CountInv'
  BY <1>1, CountFrame DEF SqlInv, hThreads
<1> QED
  BY <1>1, <1>2, <1>4, <1>5, <1>6

LEMMA LockSqlStep ==
  ASSUME SqlInv, PoolInv, NEW w \in Workers, LockSql(w)
  PROVE  SqlInv'
<1>1. /\ UNCHANGED <<poolVars, dbInit, freeList, conn, onConn, result, called,
                     opened>>
      /\ step[w] = "lock" /\ step' = [step EXCEPT ![w] = "list"]
      /\ sqlLock = Nobody /\ sqlLock' = w
      /\ "list" \in Steps \ {"none"}
  BY DEF LockSql, At, Advance, Steps
<1>2. /\ UNCHANGED <<pc, task, nAdded>>
      /\ step \in [Workers -> Steps] /\ step' \in [Workers -> Steps]
      /\ BodyInv' /\ CountInv'
  BY <1>1, BodyFrame
<1>3. SqlTypeOK'
  <2>1. \A v \in Workers :
          /\ conn'[v] # Nobody <=> step'[v] \in {"advance", "query", "store", "free"}
          /\ step'[v] \in {"list", "advance"} <=> sqlLock' = v
    BY <1>1, <1>2, PoolAssumption DEF SqlInv, SqlTypeOK, PoolAssumption
  <2> QED
    BY <1>1, <1>2, <2>1 DEF SqlInv, SqlTypeOK
<1>4. Using' = Using
  BY <1>1, <1>2 DEF Using
<1>5. ConnInv'
  BY <1>1, <1>2, <1>4, ConnFrame DEF SqlInv
<1>6. OwnInv' /\ ResultIsOwn'
  BY <1>1, <1>2 DEF SqlInv, OwnInv, ResultIsOwn
<1> QED
  BY <1>2, <1>3, <1>5, <1>6 DEF SqlInv

LEMMA TakeConnStep ==
  ASSUME SqlInv, PoolInv, NEW w \in Workers, TakeConn(w)
  PROVE  SqlInv'
<1>1. /\ UNCHANGED <<poolVars, dbInit, freeList, sqlLock, onConn, result,
                     called, opened>>
      /\ step[w] = "list" /\ step' = [step EXCEPT ![w] = "advance"]
      /\ freeList # <<>> /\ conn' = [conn EXCEPT ![w] = Head(freeList)]
      /\ "advance" \in Steps \ {"none"}
  BY DEF TakeConn, At, Advance, Steps
<1>2. /\ UNCHANGED <<pc, task, nAdded>>
      /\ step \in [Workers -> Steps] /\ step' \in [Workers -> Steps]
      /\ BodyInv' /\ CountInv'
  BY <1>1, BodyFrame
<1>3. /\ Head(freeList) = freeList[1] /\ freeList[1] \in Conns
      /\ freeList[1] # Nobody
      /\ conn \in [Workers -> Conns \union {Nobody}]
  BY <1>1, TailFacts, SqlAssumption DEF SqlInv, SqlTypeOK, SqlAssumption
<1>4. SqlTypeOK'
  <2>1. \A v \in Workers :
          /\ conn'[v] # Nobody <=> step'[v] \in {"advance", "query", "store", "free"}
          /\ step'[v] \in {"list", "advance"} <=> sqlLock' = v
    BY <1>1, <1>2, <1>3 DEF SqlInv, SqlTypeOK
  <2>2. conn' \in [Workers -> Conns \union {Nobody}]
    BY <1>1, <1>3
  <2> QED
    BY <1>1, <1>2, <2>1, <2>2 DEF SqlInv, SqlTypeOK
<1>5. Using' = Using /\ w \notin Using
  BY <1>1, <1>2 DEF Using
<1>6. \A v \in Using : conn'[v] = conn[v]
  BY <1>1, <1>3, <1>5 DEF Using
<1>7. \A v \in Workers :
        step'[v] = "advance" => freeList' # <<>> /\ conn'[v] = freeList'[1]
  BY <1>1, <1>2, <1>3 DEF SqlInv, ConnInv
<1>8. ConnInv'
  BY <1>1, <1>5, <1>6, <1>7 DEF SqlInv, ConnInv
<1>9. OwnInv' /\ ResultIsOwn'
  BY <1>1, <1>2, <1>3 DEF SqlInv, OwnInv, ResultIsOwn
<1> QED
  BY <1>2, <1>4, <1>8, <1>9 DEF SqlInv

LEMMA AdvanceListStep ==
  ASSUME SqlInv, PoolInv, NEW w \in Workers, AdvanceList(w)
  PROVE  SqlInv'
<1>1. /\ UNCHANGED <<poolVars, dbInit, conn, onConn, result, called, opened>>
      /\ step[w] = "advance" /\ step' = [step EXCEPT ![w] = "query"]
      /\ freeList' = Tail(freeList) /\ sqlLock' = Nobody
      /\ "query" \in Steps \ {"none"}
  BY DEF AdvanceList, At, Advance, Steps
<1>2. /\ UNCHANGED <<pc, task, nAdded>>
      /\ step \in [Workers -> Steps] /\ step' \in [Workers -> Steps]
      /\ BodyInv' /\ CountInv'
  BY <1>1, BodyFrame
<1>3. freeList # <<>> /\ conn[w] = freeList[1] /\ sqlLock = w
  BY <1>1 DEF SqlInv, ConnInv, SqlTypeOK
<1>4. /\ freeList' \in Seq(Conns)
      /\ Len(freeList) \in Nat \ {0}
      /\ Len(freeList') = Len(freeList) - 1
      /\ \A i \in 1 .. Len(freeList') : freeList'[i] = freeList[i + 1]
  BY <1>1, <1>3, TailFacts DEF SqlInv, SqlTypeOK
<1>5. \A i \in 1 .. Len(freeList') :
        i + 1 \in 1 .. Len(freeList) /\ i + 1 # 1 /\ freeList'[i] = freeList[i + 1]
  BY <1>4
<1>6. 1 \in 1 .. Len(freeList)
  BY <1>4
<1>7. SqlTypeOK'
  <2>1. \A v \in Workers :
          /\ conn'[v] # Nobody <=> step'[v] \in {"advance", "query", "store", "free"}
          /\ step'[v] \in {"list", "advance"} <=> sqlLock' = v
    BY <1>1, <1>2, <1>3, PoolAssumption DEF SqlInv, SqlTypeOK, PoolAssumption
  <2> QED
    BY <1>1, <1>2, <1>4, <2>1 DEF SqlInv, SqlTypeOK
<1>8. Using' = Using \union {w} /\ w \notin Using
  BY <1>1, <1>2 DEF Using
<1>9. ConnInv'
  <2>1. \A i, j \in 1 .. Len(freeList') : freeList'[i] = freeList'[j] => i = j
    <3> SUFFICES ASSUME NEW i \in 1 .. Len(freeList'),
                        NEW j \in 1 .. Len(freeList'), freeList'[i] = freeList'[j]
                 PROVE  i = j
      OBVIOUS
    <3>1. i + 1 = j + 1
      BY <1>5 DEF SqlInv, ConnInv
    <3> QED
      BY <3>1, <1>4
  <2>2. \A i \in 1 .. Len(freeList') : freeList'[i] \in opened'
    BY <1>1, <1>5 DEF SqlInv, ConnInv
  <2>3. \A v \in Using' : conn'[v] \in opened'
    BY <1>1, <1>3, <1>6, <1>8 DEF SqlInv, ConnInv
  <2>4. \A v \in Using', i \in 1 .. Len(freeList') : freeList'[i] # conn'[v]
    <3> SUFFICES ASSUME NEW v \in Using', NEW i \in 1 .. Len(freeList')
                 PROVE  freeList'[i] # conn[v]
      BY <1>1
    <3>1. CASE v \in Using
      BY <1>5, <3>1 DEF SqlInv, ConnInv
    <3>2. CASE v = w
      BY <1>3, <1>5, <1>6, <3>2 DEF SqlInv, ConnInv
    <3> QED
      BY <1>8, <3>1, <3>2
  <2>5. \A v, u \in Using' : conn'[v] = conn'[u] => v = u
    BY <1>1, <1>3, <1>6, <1>8 DEF SqlInv, ConnInv
  <2>6. \A c \in opened' : \/ \E i \in 1 .. Len(freeList') : freeList'[i] = c
                           \/ \E v \in Using' : conn'[v] = c
    <3> SUFFICES ASSUME NEW c \in opened,
                        ~ \E v \in Using' : conn'[v] = c
                 PROVE  \E i \in 1 .. Len(freeList') : freeList'[i] = c
      BY <1>1
    <3>1. PICK i \in 1 .. Len(freeList) : freeList[i] = c
      BY <1>1, <1>8 DEF SqlInv, ConnInv
    <3>2. i # 1
      BY <1>1, <1>3, <1>8, <3>1
    <3>3. i - 1 \in 1 .. Len(freeList') /\ (i - 1) + 1 = i
      BY <1>4, <3>2
    <3>4. freeList'[i - 1] = c
      BY <1>4, <3>1, <3>3
    <3> QED
      BY <3>3, <3>4
  <2>7. \A v \in Workers : step'[v] # "advance"
    BY <1>1, <1>2, <1>3 DEF SqlInv, SqlTypeOK
  <2> QED
    BY <2>1, <2>2, <2>3, <2>4, <2>5, <2>6, <2>7 DEF ConnInv
<1>10. OwnInv' /\ ResultIsOwn'
  BY <1>1, <1>2 DEF SqlInv, OwnInv, ResultIsOwn
<1> QED
  BY <1>2, <1>7, <1>9, <1>10 DEF SqlInv

\* The statement is executed on a connection that no other worker uses.
LEMMA RealQueryStep ==
  ASSUME SqlInv, PoolInv, NEW w \in Workers, RealQuery(w)
  PROVE  SqlInv'
<1>1. PICK x \in {"store", "free"} :
        /\ UNCHANGED <<poolVars, dbInit, freeList, sqlLock, conn, called, opened>>
        /\ step[w] = "query" /\ step' = [step EXCEPT ![w] = x]
        /\ onConn' = [onConn EXCEPT ![conn[w]] = task[w]]
        /\ result' = [result EXCEPT ![w] = 0]
        /\ x \in Steps \ {"none"}
  BY DEF RealQuery, At, Advance, Steps
<1>2. /\ UNCHANGED <<pc, task, nAdded>>
      /\ step \in [Workers -> Steps] /\ step' \in [Workers -> Steps]
      /\ nAdded \in Nat /\ task[w] \in 1 .. nAdded
      /\ BodyInv' /\ CountInv'
  BY <1>1, BodyFrame
<1>3. /\ onConn \in [Conns -> 0 .. nAdded] /\ result \in [Workers -> 0 .. nAdded]
      /\ conn[w] \in Conns
  BY <1>1 DEF SqlInv, SqlTypeOK
<1>4. SqlTypeOK'
  <2>1. \A v \in Workers :
          /\ conn'[v] # Nobody <=> step'[v] \in {"advance", "query", "store", "free"}
          /\ step'[v] \in {"list", "advance"} <=> sqlLock' = v
    BY <1>1, <1>2 DEF SqlInv, SqlTypeOK
  <2>2. onConn' \in [Conns -> 0 .. nAdded'] /\ result' \in [Workers -> 0 .. nAdded']
    BY <1>1, <1>2, <1>3
  <2> QED
    BY <1>1, <1>2, <2>1, <2>2 DEF SqlInv, SqlTypeOK
<1>5. Using' = Using /\ w \in Using
  BY <1>1, <1>2 DEF Using
<1>6. ConnInv'
  BY <1>1, <1>2, <1>5, ConnFrame DEF SqlInv
<1>7. OwnInv'
  <2> SUFFICES ASSUME NEW v \in Workers
               PROVE  /\ step'[v] = "store" => onConn'[conn'[v]] = task'[v]
                      /\ step'[v] \in {"free", "call"} => result'[v] \in {0, task'[v]}
    BY DEF OwnInv
  <2>1. CASE v = w
    BY <1>1, <1>2, <1>3, <2>1
  <2>2. CASE v # w
    <3>1. step'[v] = step[v] /\ result'[v] = result[v] /\ task'[v] = task[v]
      BY <1>1, <1>2, <1>3, <2>2
    <3>2. ASSUME step[v] = "store"
          PROVE  onConn'[conn'[v]] = onConn[conn[v]]
      <4>1. v \in Using
        BY <3>2 DEF Using
      <4>2. conn[v] # conn[w]
        BY <1>5, <2>2, <4>1 DEF SqlInv, ConnInv
      <4>3. conn[v] \in Conns
        BY <3>2 DEF SqlInv, SqlTypeOK
      <4> QED
        BY <1>1, <1>3, <4>2, <4>3
    <3> QED
      BY <3>1, <3>2 DEF SqlInv, OwnInv
  <2> QED
    BY <2>1, <2>2
<1>8. ResultIsOwn'
  BY <1>1 DEF SqlInv, ResultIsOwn
<1> QED
  BY <1>2, <1>4, <1>6, <1>7, <1>8 DEF SqlInv

LEMMA StoreResultStep ==
  ASSUME SqlInv, PoolInv, NEW w \in Workers, StoreResult(w)
  PROVE  SqlInv'
<1>1. PICK rows \in {onConn[conn[w]], 0} :
        /\ UNCHANGED <<poolVars, dbInit, freeList, sqlLock, conn, onConn, called,
                       opened>>
        /\ step[w] = "store" /\ step' = [step EXCEPT ![w] = "free"]
        /\ result' = [result EXCEPT ![w] = rows]
        /\ "free" \in Steps \ {"none"}
  BY DEF StoreResult, At, Advance, Steps
<1>2. /\ UNCHANGED <<pc, task, nAdded>>
      /\ step \in [Workers -> Steps] /\ step' \in [Workers -> Steps]
      /\ nAdded \in Nat /\ task[w] \in 1 .. nAdded
      /\ BodyInv' /\ CountInv'
  BY <1>1, BodyFrame
<1>3. rows \in {0, task[w]} /\ rows \in 0 .. nAdded
  BY <1>1, <1>2 DEF SqlInv, OwnInv
<1>4. SqlTypeOK'
  <2>1. \A v \in Workers :
          /\ conn'[v] # Nobody <=> step'[v] \in {"advance", "query", "store", "free"}
          /\ step'[v] \in {"list", "advance"} <=> sqlLock' = v
    BY <1>1, <1>2 DEF SqlInv, SqlTypeOK
  <2>2. result' \in [Workers -> 0 .. nAdded']
    BY <1>1, <1>2, <1>3 DEF SqlInv, SqlTypeOK
  <2> QED
    BY <1>1, <1>2, <2>1, <2>2 DEF SqlInv, SqlTypeOK
<1>5. Using' = Using
  BY <1>1, <1>2 DEF Using
<1>6. ConnInv'
  BY <1>1, <1>2, <1>5, ConnFrame DEF SqlInv
<1>7. OwnInv' /\ ResultIsOwn'
  BY <1>1, <1>2, <1>3 DEF SqlInv, SqlTypeOK, OwnInv, ResultIsOwn
<1> QED
  BY <1>2, <1>4, <1>6, <1>7 DEF SqlInv

LEMMA FreeSqlStep ==
  ASSUME SqlInv, PoolInv, NEW w \in Workers, FreeSql(w)
  PROVE  SqlInv'
<1>1. /\ UNCHANGED <<poolVars, dbInit, sqlLock, onConn, result, called, opened>>
      /\ step[w] = "free" /\ step' = [step EXCEPT ![w] = "call"]
      /\ sqlLock = Nobody
      /\ freeList' = <<conn[w]>> \o freeList
      /\ conn' = [conn EXCEPT ![w] = Nobody]
      /\ "call" \in Steps \ {"none"}
  BY DEF FreeSql, At, Advance, Steps
<1>2. /\ UNCHANGED <<pc, task, nAdded>>
      /\ step \in [Workers -> Steps] /\ step' \in [Workers -> Steps]
      /\ BodyInv' /\ CountInv'
  BY <1>1, BodyFrame
<1>3. /\ conn \in [Workers -> Conns \union {Nobody}] /\ conn[w] \in Conns
      /\ w \in Using
  BY <1>1 DEF SqlInv, SqlTypeOK, Using
<1>4. /\ freeList' \in Seq(Conns)
      /\ Len(freeList) \in Nat
      /\ Len(freeList') = Len(freeList) + 1
      /\ freeList'[1] = conn[w]
      /\ \A i \in 1 .. Len(freeList) : freeList'[i + 1] = freeList[i]
  BY <1>1, <1>3, ConsFacts DEF SqlInv, SqlTypeOK
<1>5. \A i \in 1 .. Len(freeList') :
        i = 1 \/ (i - 1 \in 1 .. Len(freeList) /\ freeList'[i] = freeList[i - 1])
  <2> SUFFICES ASSUME NEW i \in 1 .. Len(freeList'), i # 1
               PROVE  i - 1 \in 1 .. Len(freeList) /\ freeList'[i] = freeList[i - 1]
    OBVIOUS
  <2>1. i - 1 \in 1 .. Len(freeList) /\ (i - 1) + 1 = i
    BY <1>4
  <2> QED
    BY <1>4, <2>1
<1>6. SqlTypeOK'
  <2>1. \A v \in Workers :
          /\ conn'[v] # Nobody <=> step'[v] \in {"advance", "query", "store", "free"}
          /\ step'[v] \in {"list", "advance"} <=> sqlLock' = v
    BY <1>1, <1>2, <1>3 DEF SqlInv, SqlTypeOK
  <2>2. conn' \in [Workers -> Conns \union {Nobody}]
    BY <1>1, <1>3
  <2> QED
    BY <1>1, <1>2, <1>4, <2>1, <2>2 DEF SqlInv, SqlTypeOK
<1>7. Using' = Using \ {w}
  BY <1>1, <1>2 DEF Using
<1>8. \A v \in Using' : v \in Using /\ v # w /\ conn'[v] = conn[v]
  BY <1>1, <1>3, <1>7 DEF Using
<1>9. ConnInv'
  <2>1. \A i, j \in 1 .. Len(freeList') : freeList'[i] = freeList'[j] => i = j
    <3> SUFFICES ASSUME NEW i \in 1 .. Len(freeList'),
                        NEW j \in 1 .. Len(freeList'), freeList'[i] = freeList'[j]
                 PROVE  i = j
      OBVIOUS
    <3>1. CASE i = 1 /\ j = 1
      BY <3>1
    <3>2. CASE i # 1 /\ j # 1
      <4>1. i - 1 = j - 1
        BY <1>5, <3>2 DEF SqlInv, ConnInv
      <4> QED
        BY <1>4, <4>1
    <3>3. CASE i = 1 <=> j # 1
      BY <1>3, <1>4, <1>5, <3>3, SMTT(20) DEF SqlInv, ConnInv
    <3> QED
      BY <3>1, <3>2, <3>3
  <2>2. \A i \in 1 .. Len(freeList') : freeList'[i] \in opened'
    BY <1>1, <1>3, <1>4, <1>5 DEF SqlInv, ConnInv
  <2>3. \A v \in Using' : conn'[v] \in opened'
    BY <1>1, <1>8 DEF SqlInv, ConnInv
  <2>4. \A v \in Using', i \in 1 .. Len(freeList') : freeList'[i] # conn'[v]
    BY <1>3, <1>4, <1>5, <1>8 DEF SqlInv, ConnInv
  <2>5. \A v, u \in Using' : conn'[v] = conn'[u] => v = u
    BY <1>8 DEF SqlInv, ConnInv
  <2>6. \A c \in opened' : \/ \E i \in 1 .. Len(freeList') : freeList'[i] = c
                           \/ \E v \in Using' : conn'[v] = c
    <3> SUFFICES ASSUME NEW c \in opened,
                        ~ \E v \in Using' : conn'[v] = c
                 PROVE  \E i \in 1 .. Len(freeList') : freeList'[i] = c
      BY <1>1
    <3>1. CASE c = conn[w]
      <4>1. 1 \in 1 .. Len(freeList')
        BY <1>4
      <4> QED
        BY <1>4, <3>1, <4>1
    <3>2. CASE c # conn[w]
      <4>1. ~ \E v \in Using : conn[v] = c
        BY <1>7, <1>8, <3>2
      <4>2. PICK i \in 1 .. Len(freeList) : freeList[i] = c
        BY <4>1 DEF SqlInv, ConnInv
      <4>3. i + 1 \in 1 .. Len(freeList') /\ freeList'[i + 1] = c
        BY <1>4, <4>2
      <4> QED
        BY <4>3
    <3> QED
      BY <3>1, <3>2
  <2>7. \A v \in Workers : step'[v] # "advance"
    BY <1>1, <1>2, PoolAssumption DEF SqlInv, SqlTypeOK, PoolAssumption
  <2> QED
    BY <2>1, <2>2, <2>3, <2>4, <2>5, <2>6, <2>7 DEF ConnInv
<1>10. OwnInv'
  BY <1>1, <1>2, <1>3 DEF SqlInv, OwnInv
<1>11. ResultIsOwn'
  BY <1>1 DEF SqlInv, ResultIsOwn
<1> QED
  BY <1>2, <1>6, <1>9, <1>10, <1>11 DEF SqlInv

-----------------------------------------------------------------------------
(***************************************************************************)
(* The theorems.                                                           *)
(***************************************************************************)
LEMMA SqlInitInv == SqlInit => SqlInv
<1> SUFFICES ASSUME SqlInit
             PROVE  SqlInv
  OBVIOUS
<1> USE DEF SqlInit, Init
<1>1. SqlTypeOK
  <2>1. \A w \in Workers : conn[w] = Nobody /\ step[w] = "none" /\ sqlLock # w
    BY PoolAssumption DEF PoolAssumption
  <2>2. step \in [Workers -> Steps] /\ freeList \in Seq(Conns)
    BY DEF Steps
  <2>3. onConn \in [Conns -> 0 .. nAdded] /\ result \in [Workers -> 0 .. nAdded]
    OBVIOUS
  <2> QED
    BY <2>1, <2>2, <2>3 DEF SqlTypeOK
<1>2. BodyInv /\ OwnInv /\ ResultIsOwn
  BY DEF BodyInv, OwnInv, ResultIsOwn
<1>3. Using = {} /\ hThreads = {}
  BY DEF Using, hThreads
<1>4. ConnInv
  <2>1. 1 .. Len(freeList) = {}
    OBVIOUS
  <2> QED
    BY <1>3, <2>1 DEF ConnInv
<1>5. CountInv
  BY <1>3, FS_EmptySet, PoolAssumption
     DEF CountInv, NumThreads, PoolAssumption
<1> QED
  BY <1>1, <1>2, <1>4, <1>5 DEF SqlInv

LEMMA SqlStep == SqlInv /\ PoolInv /\ PoolInv' /\ [SqlNext]_vars => SqlInv'
<1> SUFFICES ASSUME SqlInv, PoolInv, PoolInv', [SqlNext]_vars
             PROVE  SqlInv'
  OBVIOUS
<1>1. CASE \E c \in Conns : Connect(c)
  BY <1>1, ConnectStep
<1>2. CASE FailConnect \/ EndConnect
  BY <1>2, ConnectedStep
<1>3. CASE StartThreads
  BY <1>3, StartThreadsStep
<1>4. CASE AddTaskStep /\ UNCHANGED sqlVars
  BY <1>4, AddTaskFrame
<1>5. CASE \E w \in Workers : LoopStep(w) /\ UNCHANGED sqlVars
  BY <1>5, LoopFrame
<1>6. CASE \E w \in Workers : BeginTask(w)
  BY <1>6, BeginTaskStep
<1>7. CASE \E w \in Workers : TaskStep(w)
  BY <1>7, LockSqlStep, TakeConnStep, AdvanceListStep, RealQueryStep,
     StoreResultStep, FreeSqlStep, CallbackStep DEF TaskStep
<1>8. CASE UNCHANGED vars
  <2>1. UNCHANGED <<sqlVars, pc, task, nAdded>>
    BY <1>8 DEF vars, poolVars
  <2>2. SqlTypeOK' /\ BodyInv' /\ ConnInv' /\ OwnInv' /\ ResultIsOwn'
    <3>1. nAdded \in Nat /\ nAdded <= nAdded'
      BY <2>1 DEF PoolInv, TypeOK
    <3> QED
      BY <2>1, <3>1, PoolFrame
  <2>3. CountInv'
    BY <2>1, CountFrame DEF SqlInv, sqlVars, hThreads
  <2> QED
    BY <2>2, <2>3 DEF SqlInv
<1> QED
  BY <1>1, <1>2, <1>3, <1>4, <1>5, <1>6, <1>7, <1>8 DEF SqlNext

\* The invariant of CMySQLPool, on top of that of the thread pool it is.
THEOREM SqlInvariant == SqlSpec => [](PoolInv /\ SqlInv)
<1>1. SqlSpec => []PoolInv
  BY SqlImplementsPool, PoolInvariant, PTL
<1> QED
  BY <1>1, SqlInitInv, SqlStep, PTL DEF SqlSpec

\* Type correctness of CMySQLPool: a worker uses a connection exactly from
\* AllocSql to FreeSql, and m_lock is held exactly inside AllocSql.
THEOREM SqlTypeCorrect == SqlSpec => []SqlTypeOK
<1>1. SqlInv => SqlTypeOK
  BY DEF SqlInv
<1> QED
  BY <1>1, SqlInvariant, PTL

\* The rows a callback gets are those of its own statement, or none: between
\* mysql_real_query and mysql_store_result no other worker has the connection.
THEOREM ResultIsOwnCorrect == SqlSpec => []ResultIsOwn
<1>1. SqlInv => ResultIsOwn
  BY DEF SqlInv
<1> QED
  BY <1>1, SqlInvariant, PTL

\* A worker in AllocSql finds the list empty only if every connection is with
\* another worker; but the other workers are fewer than the connections.
LEMMA ListNotEmpty == SqlInv => AllocNeverSpins
<1> SUFFICES ASSUME SqlInv, NEW w \in Workers, step[w] = "list", freeList = <<>>
             PROVE  FALSE
  BY DEF AllocNeverSpins, At
<1> DEFINE Others == hThreads \ {w}
           f == [v \in Using |-> conn[v]]
<1>1. w \in hThreads /\ dbInit = "up"
  <2>1. pc[w] = "run"
    BY DEF SqlInv, BodyInv
  <2> QED
    BY <2>1 DEF hThreads, SqlInv, CountInv
<1>2. Using \subseteq Others
  <2>1. \A v \in Using : pc[v] = "run" /\ v # w
    BY DEF SqlInv, BodyInv, Using
  <2> QED
    BY <2>1 DEF hThreads, Using
<1>3. /\ IsFiniteSet(Others)
      /\ Cardinality(Others) = Cardinality(hThreads) - 1
  BY <1>1, Finiteness, FS_RemoveElement
<1>4. IsFiniteSet(Using) /\ Cardinality(Using) <= Cardinality(Others)
  BY <1>2, <1>3, FS_Subset
<1>5. 1 .. Len(freeList) = {}
  OBVIOUS
<1>6. f \in Surjection(Using, opened)
  <2>1. f \in [Using -> opened]
    BY DEF SqlInv, ConnInv
  <2>2. \A c \in opened : \E v \in Using : f[v] = c
    BY <1>5 DEF SqlInv, ConnInv
  <2> QED
    BY <2>1, <2>2 DEF Surjection
<1>7. Cardinality(opened) <= Cardinality(Using)
  BY <1>4, <1>6, FS_Surjection
<1>8. /\ Cardinality(opened) = NumThreads(Size)
      /\ Cardinality(hThreads) <= NumThreads(Size)
  BY <1>1 DEF SqlInv, CountInv
<1>9. Cardinality(Using) \in Nat /\ Cardinality(Others) \in Nat
  BY <1>3, <1>4, FS_CardinalityType
<1> QED
  BY <1>3, <1>4, <1>7, <1>8, <1>9, Finiteness

\* No worker sleeps in AllocSql with m_lock held, waiting for a FreeSql that
\* needs m_lock, however many threads and connections there are.
THEOREM AllocNeverSpinsCorrect == SqlSpec => []AllocNeverSpins
<1> QED
  BY ListNotEmpty, SqlInvariant, PTL
=============================================================================
