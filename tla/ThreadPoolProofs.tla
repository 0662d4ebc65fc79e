-------------------------- MODULE ThreadPoolProofs --------------------------
(***************************************************************************)
(* CThreadPool for every number of threads, callers and tasks.             *)
(***************************************************************************)
EXTENDS ThreadPoolInv, FiniteSetTheorems, TLAPS

-----------------------------------------------------------------------------
(***************************************************************************)
(* Counting workers.                                                       *)
(***************************************************************************)
\* Workers that f puts at one of the given places.
Sub(f, S) == {w \in Workers : f[w] \in S}

In(x, S) == IF x \in S THEN 1 ELSE 0

\* Moving worker w from place f[w] to place x.
LEMMA Moved ==
  ASSUME NEW f \in [Workers -> Places], NEW w \in Workers, NEW x \in Places,
         NEW S
  PROVE  /\ Cardinality(Sub(f, S)) \in Nat
         /\ Cardinality(Sub([f EXCEPT ![w] = x], S))
              = Cardinality(Sub(f, S)) + In(x, S) - In(f[w], S)
<1> DEFINE g == [f EXCEPT ![w] = x]
<1>1. IsFiniteSet(Workers)
  BY PoolAssumption DEF PoolAssumption
<1>2. IsFiniteSet(Sub(f, S))
  <2>1. Sub(f, S) \in SUBSET Workers
    BY DEF Sub
  <2> QED
    BY <1>1, <2>1, FS_Subset
<1>3. Cardinality(Sub(f, S)) \in Nat
  BY <1>2, FS_CardinalityType
<1>4. CASE f[w] \notin S /\ x \in S
  <2>1. Sub(g, S) = Sub(f, S) \cup {w} /\ w \notin Sub(f, S)
    BY <1>4 DEF Sub
  <2>2. Cardinality(Sub(g, S)) = Cardinality(Sub(f, S)) + 1
    BY <1>2, <2>1, FS_AddElement
  <2> QED
    BY <1>3, <1>4, <2>2 DEF In
<1>5. CASE f[w] \in S /\ x \notin S
  <2>1. Sub(g, S) = Sub(f, S) \ {w} /\ w \in Sub(f, S)
    BY <1>5 DEF Sub
  <2>2. Cardinality(Sub(g, S)) = Cardinality(Sub(f, S)) - 1
    BY <1>2, <2>1, FS_RemoveElement
  <2> QED
    BY <1>3, <1>5, <2>2 DEF In
<1>6. CASE f[w] \in S <=> x \in S
  <2>1. Sub(g, S) = Sub(f, S)
    BY <1>6 DEF Sub
  <2> QED
    BY <1>3, <1>6, <2>1 DEF In
<1> QED
  BY <1>3, <1>4, <1>5, <1>6

\* The counts of the properties, as counts of Sub.
Claimed == Cardinality(Sub(pc, {"woken", "fetch", "pop"}))
Fetching == Cardinality(Sub(pc, {"fetch", "pop"}))
Started == Cardinality(Sub(pc, Places \ {"none"}))
Pending == IF queLock \in Callers THEN 1 ELSE 0

LEMMA Counts ==
  ASSUME TypeOK
  PROVE  /\ hThreads = Sub(pc, Places \ {"none"})
         /\ Among({"woken", "fetch", "pop"}) = Sub(pc, {"woken", "fetch", "pop"})
         /\ Among({"fetch", "pop"}) = Sub(pc, {"fetch", "pop"})
BY DEF TypeOK, hThreads, Among, Sub, Places

\* Those that fetch are among those that claim a task.
LEMMA FetchersClaim ==
  ASSUME TypeOK
  PROVE  /\ Fetching \in Nat
         /\ Claimed \in Nat
         /\ Started \in Nat
         /\ Fetching <= Claimed
         /\ \A w \in Workers : pc[w] = "woken" => Fetching < Claimed
<1>1. IsFiniteSet(Workers)
  BY PoolAssumption DEF PoolAssumption
<1> DEFINE F == Sub(pc, {"fetch", "pop"})
           C == Sub(pc, {"woken", "fetch", "pop"})
           A == Sub(pc, Places \ {"none"})
<1>2. IsFiniteSet(C) /\ IsFiniteSet(A)
  <2>1. C \in SUBSET Workers /\ A \in SUBSET Workers
    BY DEF Sub
  <2> QED
    BY <1>1, <2>1, FS_Subset
<1>3. F \in SUBSET C
  BY DEF Sub
<1>4. IsFiniteSet(F) /\ Cardinality(F) <= Cardinality(C)
      /\ (Cardinality(C) = Cardinality(F) => C = F)
  BY <1>2, <1>3, FS_Subset
<1>5. Cardinality(F) \in Nat /\ Cardinality(C) \in Nat /\ Cardinality(A) \in Nat
  BY <1>2, <1>4, FS_CardinalityType
<1>6. ASSUME NEW w \in Workers, pc[w] = "woken"
      PROVE  C # F
  BY <1>6 DEF Sub
<1> QED
  BY <1>4, <1>5, <1>6 DEF Fetching, Claimed, Started

-----------------------------------------------------------------------------
(***************************************************************************)
(* Sequences.                                                              *)
(***************************************************************************)
LEMMA SeqWider ==
  ASSUME NEW S, NEW T, S \subseteq T, NEW s \in Seq(S)
  PROVE  s \in Seq(T)
OBVIOUS

LEMMA AppendFacts ==
  ASSUME NEW S, NEW s \in Seq(S), NEW e \in S
  PROVE  /\ Append(s, e) \in Seq(S)
         /\ Len(Append(s, e)) = Len(s) + 1
         /\ Append(s, e)[Len(s) + 1] = e
         /\ \A i \in 1 .. Len(s) : Append(s, e)[i] = s[i]
OBVIOUS

LEMMA TailFacts ==
  ASSUME NEW S, NEW s \in Seq(S), s # <<>>
  PROVE  /\ Tail(s) \in Seq(S)
         /\ Len(s) \in Nat \ {0}
         /\ Len(Tail(s)) = Len(s) - 1
         /\ Head(s) = s[1]
         /\ s[1] \in S
         /\ \A i \in 1 .. Len(Tail(s)) : Tail(s)[i] = s[i + 1]
OBVIOUS

-----------------------------------------------------------------------------
(***************************************************************************)
(* Steps of the invariant.                                                 *)
(***************************************************************************)
\* What a step of one worker does to the counts.
LEMMA WorkerMove ==
  ASSUME TypeOK, NEW w \in Workers, NEW x \in Places,
         pc' = [pc EXCEPT ![w] = x]
  PROVE  /\ pc' \in [Workers -> Places]
         /\ Claimed' = Claimed + In(x, {"woken", "fetch", "pop"})
                               - In(pc[w], {"woken", "fetch", "pop"})
         /\ Fetching' = Fetching + In(x, {"fetch", "pop"})
                                 - In(pc[w], {"fetch", "pop"})
         /\ Started' = Started + In(x, Places \ {"none"})
                               - In(pc[w], Places \ {"none"})
<1>1. pc \in [Workers -> Places]
  BY DEF TypeOK
<1>2. pc' \in [Workers -> Places]
  BY <1>1
<1>3. ASSUME NEW S
      PROVE  /\ Cardinality(Sub(pc, S)) \in Nat
             /\ Cardinality(Sub(pc', S))
                  = Cardinality(Sub(pc, S)) + In(x, S) - In(pc[w], S)
  <2>1. /\ Cardinality(Sub(pc, S)) \in Nat
        /\ Cardinality(Sub([pc EXCEPT ![w] = x], S))
             = Cardinality(Sub(pc, S)) + In(x, S) - In(pc[w], S)
    BY <1>1, Moved, Zenon
  <2> QED
    BY <2>1
<1> QED
  BY <1>2, <1>3 DEF Claimed, Fetching, Started

\* The invariant with the counts written out.
Tokens == nStop = 0 /\ HasSemaphore => semap + Claimed + Pending = Len(workQue)
Fetchers == Fetching <= Len(workQue)
Minimum == init = "up" => Started >= MinThreads

Types ==
  /\ init \in Phases
  /\ semap \in Nat
  /\ workQue \in Seq(1 .. nAdded)
  /\ queLock \in Workers \union Callers \union {Nobody}
  /\ nStop \in {0, 1}
  /\ released \in BOOLEAN
  /\ pc \in [Workers -> Places]
  /\ task \in [Workers -> 0 .. nAdded]
  /\ nAdded \in Nat
  /\ finished \in SUBSET (1 .. nAdded)

Whole ==
  /\ Types /\ Minimum
  /\ LockInv /\ QueueInv /\ TaskInv /\ StartInv
  /\ Tokens /\ Fetchers

LEMMA Restate == PoolInv <=> Whole
<1>1. ASSUME pc \in [Workers -> Places]
      PROVE  /\ hThreads = Sub(pc, Places \ {"none"})
             /\ Among({"woken", "fetch", "pop"}) = Sub(pc, {"woken", "fetch", "pop"})
             /\ Among({"fetch", "pop"}) = Sub(pc, {"fetch", "pop"})
  BY <1>1 DEF hThreads, Among, Sub, Places
<1>2. TypeOK <=> Types /\ Minimum
  BY <1>1 DEF TypeOK, Types, Minimum, Started
<1>3. Types => (TokensMatch <=> Tokens)
  BY <1>1 DEF Types, TokensMatch, Tokens, Claimed, Pending
<1>4. Types => (FetchersHaveTasks <=> Fetchers)
  BY <1>1 DEF Types, FetchersHaveTasks, Fetchers, Fetching
<1> QED
  BY <1>2, <1>3, <1>4 DEF PoolInv, Whole

LEMMA Numbers ==
  Whole => /\ Claimed \in Nat /\ Fetching \in Nat /\ Started \in Nat
           /\ Pending \in {0, 1}
           /\ Fetching <= Claimed
           /\ \A w \in Workers : pc[w] = "woken" => Fetching < Claimed
           /\ Len(workQue) \in Nat
           /\ TypeOK
<1>1. Whole => TypeOK
  BY Restate DEF PoolInv
<1>2. Whole => Len(workQue) \in Nat
  BY DEF Whole, Types
<1> QED
  BY <1>1, <1>2, FetchersClaim DEF Pending

\* Steps that leave the queue, its lock and the threads alone.
LEMMA QuietStep ==
  ASSUME Whole,
         \/ CreateSemaphore \/ NeverStarted \/ FailWorker \/ EndInit
         \/ SetStop \/ ReleaseTokens
  PROVE  Whole'
<1> USE DEF CreateSemaphore, NeverStarted, FailWorker, EndInit, SetStop,
            ReleaseTokens
<1>1. UNCHANGED <<workQue, queLock, pc, task, nAdded, finished>>
  OBVIOUS
<1>2. Types'
  <2>1. init' \in Phases
    BY DEF Whole, Types, Phases
  <2>2. semap' \in Nat
    BY PoolAssumption DEF Whole, Types, PoolAssumption
  <2>3. nStop' \in {0, 1} /\ released' \in BOOLEAN
    BY DEF Whole, Types
  <2> QED
    BY <1>1, <2>1, <2>2, <2>3 DEF Whole, Types
<1>3. Claimed' = Claimed /\ Fetching' = Fetching /\ Started' = Started
      /\ Pending' = Pending
  BY <1>1 DEF Claimed, Fetching, Started, Pending, Sub
<1>4. Started = Cardinality(hThreads)
  BY DEF Whole, Types, Started, hThreads, Sub
<1>5. Minimum'
  BY <1>3, <1>4, PoolAssumption DEF Whole, Minimum, NumThreads, PoolAssumption
<1>6. LockInv' /\ QueueInv' /\ TaskInv'
  BY <1>1 DEF Whole, LockInv, QueueInv, TaskInv
<1>7. StartInv'
  BY <1>1 DEF Whole, Types, StartInv, Returned, HasSemaphore, Phases
<1>8. Tokens'
  <2>1. CASE CreateSemaphore
    <3>1. workQue = <<>> /\ semap = 0 /\ queLock = Nobody
          /\ \A w \in Workers : pc[w] = "none"
      BY <2>1 DEF Whole, StartInv, Returned, HasSemaphore
    <3>2. Sub(pc, {"woken", "fetch", "pop"}) = {}
      BY <3>1 DEF Sub
    <3>3. Claimed = 0
      BY <3>2, FS_EmptySet DEF Claimed
    <3>4. Pending = 0
      BY <3>1, PoolAssumption DEF Pending, PoolAssumption
    <3> QED
      BY <1>1, <1>3, <2>1, <3>1, <3>3, <3>4 DEF Tokens
  <2>2. CASE ~CreateSemaphore
    BY <1>1, <1>3, <2>2 DEF Whole, Types, Tokens, HasSemaphore
  <2> QED
    BY <2>1, <2>2
<1>9. Fetchers'
  BY <1>1, <1>3 DEF Whole, Fetchers
<1> QED
  BY <1>2, <1>5, <1>6, <1>7, <1>8, <1>9 DEF Whole

LEMMA StartWorkerStep ==
  ASSUME Whole, NEW w \in Workers, StartWorker(w)
  PROVE  Whole'
<1> USE DEF StartWorker, Goto
<1>1. "top" \in Places /\ TypeOK
  BY Numbers DEF Places
<1>2. /\ pc' \in [Workers -> Places]
      /\ Claimed' = Claimed
      /\ Fetching' = Fetching
  <2>1. /\ pc' \in [Workers -> Places]
        /\ Claimed' = Claimed + In("top", {"woken", "fetch", "pop"})
                              - In("none", {"woken", "fetch", "pop"})
        /\ Fetching' = Fetching + In("top", {"fetch", "pop"})
                                - In("none", {"fetch", "pop"})
    BY <1>1, WorkerMove
  <2> QED
    BY <2>1, Numbers DEF In
<1>3. Types' /\ Minimum'
  BY <1>2 DEF Whole, Types, Minimum
<1>4. LockInv' /\ QueueInv' /\ TaskInv' /\ StartInv'
  BY DEF Whole, Types, LockInv, QueueInv, TaskInv, StartInv, HasSemaphore, Returned
<1>5. Tokens' /\ Fetchers'
  BY <1>2 DEF Whole, Tokens, Fetchers, HasSemaphore, Pending
<1> QED
  BY <1>3, <1>4, <1>5 DEF Whole

\* AddTask.
LEMMA PushStep ==
  ASSUME Whole, NEW c \in Callers, Push(c)
  PROVE  Whole'
<1> USE DEF Push
<1>1. 1 .. nAdded \subseteq 1 .. nAdded' /\ 0 .. nAdded \subseteq 0 .. nAdded'
      /\ nAdded' \in Nat
  BY DEF Whole, Types
<1>2. workQue \in Seq(1 .. nAdded') /\ nAdded + 1 \in 1 .. nAdded'
  BY <1>1, SeqWider DEF Whole, Types
<1>3. /\ workQue' \in Seq(1 .. nAdded')
      /\ Len(workQue') = Len(workQue) + 1
      /\ workQue'[Len(workQue) + 1] = nAdded + 1
      /\ \A i \in 1 .. Len(workQue) : workQue'[i] = workQue[i]
      /\ Len(workQue) \in Nat
  BY <1>2, AppendFacts
<1>4. Types'
  BY <1>1, <1>3 DEF Whole, Types
<1>5. Claimed' = Claimed /\ Fetching' = Fetching /\ Started' = Started
  BY DEF Claimed, Fetching, Started, Sub
<1>6. Minimum'
  BY <1>5 DEF Whole, Minimum
<1>7. LockInv'
  BY PoolAssumption DEF Whole, LockInv, PoolAssumption
<1>8. QueueInv'
  <2> SUFFICES ASSUME NEW i \in 1 .. Len(workQue')
               PROVE  workQue'[i] = nAdded' - Len(workQue') + i
    BY DEF QueueInv
  <2>1. CASE i \in 1 .. Len(workQue)
    BY <1>1, <1>3, <2>1 DEF Whole, Types, QueueInv
  <2>2. CASE i = Len(workQue) + 1
    BY <1>1, <1>3, <2>2 DEF Whole, Types
  <2> QED
    BY <1>3, <2>1, <2>2
<1>9. TaskInv'
  BY PoolAssumption DEF Whole, LockInv, TaskInv, PoolAssumption
<1>10. StartInv'
  BY DEF Whole, StartInv, Returned, HasSemaphore
<1>11. Tokens'
  <2>1. Pending = 0 /\ Pending' = 1
    BY PoolAssumption DEF Pending, PoolAssumption
  <2> QED
    BY <1>3, <1>5, <2>1, Numbers DEF Whole, Types, Tokens, HasSemaphore
<1>12. Fetchers'
  BY <1>3, <1>5, Numbers DEF Whole, Fetchers
<1> QED
  BY <1>4, <1>6, <1>7, <1>8, <1>9, <1>10, <1>11, <1>12 DEF Whole

LEMMA ReleaseStep ==
  ASSUME Whole, NEW c \in Callers, ReleaseOne(c)
  PROVE  Whole'
<1> USE DEF ReleaseOne
<1>1. Types'
  BY DEF Whole, Types
<1>2. Claimed' = Claimed /\ Fetching' = Fetching /\ Started' = Started
  BY DEF Claimed, Fetching, Started, Sub
<1>3. LockInv'
  BY PoolAssumption DEF Whole, LockInv, PoolAssumption
<1>4. QueueInv' /\ TaskInv' /\ Minimum' /\ Fetchers'
  BY <1>2 DEF Whole, QueueInv, TaskInv, Minimum, Fetchers
<1>5. StartInv'
  BY PoolAssumption DEF Whole, StartInv, Returned, HasSemaphore, PoolAssumption
<1>6. Tokens'
  <2>1. Pending = 1 /\ Pending' = 0
    BY PoolAssumption DEF Pending, PoolAssumption
  <2> QED
    BY <1>2, <2>1, Numbers DEF Whole, Types, Tokens, HasSemaphore
<1> QED
  BY <1>1, <1>3, <1>4, <1>5, <1>6 DEF Whole

\* A step of a worker that moves it from one place to another and touches
\* neither m_workQue nor its lock.
LEMMA WalkStep ==
  ASSUME Whole, NEW w \in Workers, TestStop(w) \/ Wake(w) \/ CheckStop(w)
  PROVE  Whole'
<1> USE DEF TestStop, Wake, CheckStop, Goto
<1>1. PICK x \in Places : /\ pc' = [pc EXCEPT ![w] = x]
                          /\ pc[w] = "top" => x \in {"wait", "exit"}
                          /\ pc[w] = "wait" => x = "woken"
                          /\ pc[w] = "woken" => x \in {"fetch", "exit"}
                          /\ pc[w] = "woken" /\ x = "fetch" => nStop = 0
                          /\ pc[w] = "woken" /\ x = "exit" => nStop # 0
                          /\ pc[w] \in {"top", "wait", "woken"}
  BY DEF Places, Whole, Types
<1>2. UNCHANGED <<init, workQue, queLock, nStop, task, nAdded, finished>>
  OBVIOUS
<1>3. /\ pc' \in [Workers -> Places]
      /\ Claimed' = Claimed + In(x, {"woken", "fetch", "pop"})
                            - In(pc[w], {"woken", "fetch", "pop"})
      /\ Fetching' = Fetching + In(x, {"fetch", "pop"}) - In(pc[w], {"fetch", "pop"})
      /\ Started' = Started + In(x, Places \ {"none"}) - In(pc[w], Places \ {"none"})
  BY <1>1, WorkerMove, Numbers
<1>4. Started' = Started
  BY <1>1, <1>3, Numbers DEF In, Places
<1>5. semap' \in Nat
  BY DEF Whole, Types
<1>6. Types' /\ Minimum'
  BY <1>2, <1>3, <1>4, <1>5 DEF Whole, Types, Minimum
<1>7. LockInv' /\ TaskInv' /\ QueueInv'
  BY <1>1, <1>2 DEF Whole, Types, LockInv, TaskInv, QueueInv
<1>8. HasSemaphore
  BY <1>1 DEF Whole, StartInv
<1>9. StartInv'
  BY <1>1, <1>2, <1>8 DEF Whole, Types, StartInv, Returned, HasSemaphore
<1>10. Pending' = Pending
  BY <1>2 DEF Pending
<1>11. Tokens'
  <2>1. CASE TestStop(w)
    <3>1. Claimed' = Claimed /\ semap' = semap
      BY <1>1, <1>3, <2>1, Numbers DEF In
    <3> QED
      BY <1>2, <1>10, <3>1 DEF Whole, Tokens, HasSemaphore
  <2>2. CASE Wake(w)
    <3>1. Claimed' = Claimed + 1 /\ semap' = semap - 1
      BY <1>1, <1>3, <2>2, Numbers DEF In
    <3> QED
      BY <1>2, <1>10, <3>1, Numbers DEF Whole, Types, Tokens, HasSemaphore
  <2>3. CASE CheckStop(w)
    <3>1. ASSUME nStop = 0
          PROVE  Claimed' = Claimed /\ semap' = semap
      BY <1>1, <1>3, <2>3, <3>1, Numbers DEF In
    <3> QED
      BY <1>2, <1>10, <3>1 DEF Whole, Tokens, HasSemaphore
  <2> QED
    BY <2>1, <2>2, <2>3
<1>12. Fetchers'
  <2>1. CASE pc[w] = "woken" /\ x = "fetch"
    <3>1. Fetching' = Fetching + 1
      BY <1>3, <2>1, Numbers DEF In
    <3>2. Fetching < Claimed
      BY <2>1, Numbers
    <3>3. Claimed <= Len(workQue)
      BY <1>1, <1>8, <2>1, Numbers DEF Whole, Types, Tokens
    <3> QED
      BY <1>2, <3>1, <3>2, <3>3, Numbers DEF Fetchers
  <2>2. CASE ~(pc[w] = "woken" /\ x = "fetch")
    <3>1. Fetching' = Fetching
      BY <1>1, <1>3, <2>2, Numbers DEF In
    <3> QED
      BY <1>2, <3>1 DEF Whole, Fetchers
  <2> QED
    BY <2>1, <2>2
<1> QED
  BY <1>6, <1>7, <1>9, <1>11, <1>12 DEF Whole

LEMMA TakeFrontStep ==
  ASSUME Whole, NEW w \in Workers, TakeFront(w)
  PROVE  Whole'
<1> USE DEF TakeFront, Goto
<1>1. "pop" \in Places /\ w # Nobody /\ w \notin Callers
  BY PoolAssumption DEF Places, PoolAssumption
<1>2. /\ pc' \in [Workers -> Places]
      /\ Claimed' = Claimed + In("pop", {"woken", "fetch", "pop"})
                            - In("fetch", {"woken", "fetch", "pop"})
      /\ Fetching' = Fetching + In("pop", {"fetch", "pop"}) - In("fetch", {"fetch", "pop"})
      /\ Started' = Started + In("pop", Places \ {"none"}) - In("fetch", Places \ {"none"})
  BY <1>1, WorkerMove, Numbers
<1>3. Claimed' = Claimed /\ Fetching' = Fetching /\ Started' = Started
  BY <1>2, Numbers DEF In, Places
<1>4. Head(workQue) = workQue[1] /\ workQue[1] \in 1 .. nAdded
  BY TailFacts DEF Whole, Types
<1>5. Types' /\ Minimum'
  BY <1>2, <1>3, <1>4 DEF Whole, Types, Minimum
<1>6. LockInv'
  BY <1>1, PoolAssumption DEF Whole, Types, LockInv, PoolAssumption
<1>7. TaskInv'
  BY <1>1, <1>4 DEF Whole, Types, LockInv, TaskInv
<1>8. QueueInv' /\ Fetchers'
  BY <1>3 DEF Whole, QueueInv, Fetchers
<1>9. HasSemaphore
  BY DEF Whole, StartInv
<1>10. Returned
  BY DEF Whole, StartInv
<1>11. StartInv'
  BY <1>9, <1>10 DEF Whole, StartInv, Returned, HasSemaphore
<1>12. Tokens'
  <2>1. Pending = 0 /\ Pending' = 0
    BY <1>1, PoolAssumption DEF Pending, PoolAssumption
  <2> QED
    BY <1>3, <2>1 DEF Whole, Tokens, HasSemaphore
<1> QED
  BY <1>5, <1>6, <1>7, <1>8, <1>11, <1>12 DEF Whole

LEMMA PopStep ==
  ASSUME Whole, NEW w \in Workers, Pop(w)
  PROVE  Whole'
<1> USE DEF Pop, Goto
<1>1. "run" \in Places /\ queLock = w /\ w \notin Callers
  BY PoolAssumption DEF Places, PoolAssumption, Whole, LockInv
<1>2. /\ pc' \in [Workers -> Places]
      /\ Claimed' = Claimed + In("run", {"woken", "fetch", "pop"})
                            - In("pop", {"woken", "fetch", "pop"})
      /\ Fetching' = Fetching + In("run", {"fetch", "pop"}) - In("pop", {"fetch", "pop"})
      /\ Started' = Started + In("run", Places \ {"none"}) - In("pop", Places \ {"none"})
  BY <1>1, WorkerMove, Numbers
<1>3. Claimed' = Claimed - 1 /\ Fetching' = Fetching - 1 /\ Started' = Started
  BY <1>2, Numbers DEF In, Places
<1>4. workQue # <<>> /\ task[w] = workQue[1]
  BY DEF Whole, TaskInv
<1>5. /\ workQue' \in Seq(1 .. nAdded)
      /\ Len(workQue) \in Nat \ {0}
      /\ Len(workQue') = Len(workQue) - 1
      /\ workQue[1] \in 1 .. nAdded
      /\ \A i \in 1 .. Len(workQue') : workQue'[i] = workQue[i + 1]
  BY <1>4, TailFacts DEF Whole, Types
<1>6. Types' /\ Minimum'
  BY <1>2, <1>3, <1>5 DEF Whole, Types, Minimum
<1>7. LockInv'
  BY <1>1, PoolAssumption DEF Whole, Types, LockInv, PoolAssumption
<1>8. QueueInv'
  <2> SUFFICES ASSUME NEW i \in 1 .. Len(workQue')
               PROVE  workQue'[i] = nAdded' - Len(workQue') + i
    BY DEF QueueInv
  <2>1. i + 1 \in 1 .. Len(workQue)
    BY <1>5
  <2> QED
    BY <1>5, <2>1 DEF Whole, Types, QueueInv
<1>9. TaskInv'
  BY <1>1, <1>4, <1>5 DEF Whole, Types, LockInv, TaskInv
<1>10. StartInv'
  BY DEF Whole, Types, StartInv, Returned, HasSemaphore
<1>11. Tokens'
  <2>1. Pending = 0 /\ Pending' = 0
    BY <1>1, PoolAssumption DEF Pending, PoolAssumption
  <2>2. semap' = semap /\ nStop' = nStop /\ HasSemaphore' = HasSemaphore
    BY DEF HasSemaphore
  <2>3. semap \in Nat /\ Claimed \in Nat
    BY Numbers DEF Whole, Types
  <2> HIDE DEF Pop
  <2> QED
    BY <1>3, <1>5, <2>1, <2>2, <2>3 DEF Whole, Tokens
<1>12. Fetchers'
  BY <1>3, <1>5, Numbers DEF Whole, Fetchers
<1> QED
  BY <1>6, <1>7, <1>8, <1>9, <1>10, <1>11, <1>12 DEF Whole

LEMMA EndTaskStep ==
  ASSUME Whole, NEW w \in Workers, EndTask(w)
  PROVE  Whole'
<1> USE DEF EndTask, Goto
<1>1. "top" \in Places
  BY DEF Places
<1>2. /\ pc' \in [Workers -> Places]
      /\ Claimed' = Claimed + In("top", {"woken", "fetch", "pop"})
                            - In("run", {"woken", "fetch", "pop"})
      /\ Fetching' = Fetching + In("top", {"fetch", "pop"}) - In("run", {"fetch", "pop"})
      /\ Started' = Started + In("top", Places \ {"none"}) - In("run", Places \ {"none"})
  BY <1>1, WorkerMove, Numbers
<1>3. Claimed' = Claimed /\ Fetching' = Fetching /\ Started' = Started
  BY <1>2, Numbers DEF In, Places
<1>4. task[w] \in 1 .. nAdded
  BY DEF Whole, Types, TaskInv
<1>5. Types' /\ Minimum'
  <2>1. finished' \in SUBSET (1 .. nAdded')
    BY <1>4 DEF Whole, Types
  <2>2. task' \in [Workers -> 0 .. nAdded']
    BY DEF Whole, Types
  <2> QED
    BY <1>2, <1>3, <2>1, <2>2 DEF Whole, Types, Minimum
<1>6. LockInv' /\ QueueInv' /\ TaskInv'
  BY DEF Whole, Types, LockInv, QueueInv, TaskInv
<1>7. StartInv'
  BY DEF Whole, Types, StartInv, Returned, HasSemaphore
<1>8. Tokens' /\ Fetchers'
  BY <1>3 DEF Whole, Tokens, Fetchers, HasSemaphore, Pending
<1> QED
  BY <1>5, <1>6, <1>7, <1>8 DEF Whole

-----------------------------------------------------------------------------
(***************************************************************************)
(* The theorems.                                                           *)
(***************************************************************************)
LEMMA PoolInit == Init => PoolInv
<1> SUFFICES ASSUME Init
             PROVE  Whole
  BY Restate
<1> USE DEF Init
<1>1. Types
  <2>1. workQue \in Seq(1 .. nAdded) /\ semap \in Nat /\ nAdded \in Nat
    OBVIOUS
  <2>2. pc \in [Workers -> Places]
    BY DEF Places
  <2>3. task \in [Workers -> 0 .. nAdded]
    OBVIOUS
  <2> QED
    BY <2>1, <2>2, <2>3 DEF Types, Phases
<1>2. LockInv /\ QueueInv /\ TaskInv /\ StartInv
  BY PoolAssumption DEF LockInv, QueueInv, TaskInv, StartInv, Returned,
                        HasSemaphore, PoolAssumption
<1>3. Sub(pc, {"fetch", "pop"}) = {}
  BY DEF Sub
<1>4. Fetching = 0
  BY <1>3, FS_EmptySet DEF Fetching
<1>5. Tokens /\ Fetchers /\ Minimum
  BY <1>4 DEF Tokens, Fetchers, Minimum, HasSemaphore
<1> QED
  BY <1>1, <1>2, <1>5 DEF Whole

LEMMA PoolStep == PoolInv /\ [Next]_poolVars => PoolInv'
<1>1. ASSUME Whole, Next
      PROVE  Whole'
  <2>1. CASE \/ CreateSemaphore \/ NeverStarted \/ FailWorker \/ EndInit
             \/ SetStop \/ ReleaseTokens
    BY <1>1, <2>1, QuietStep
  <2>2. CASE \E w \in Workers : StartWorker(w)
    BY <1>1, <2>2, StartWorkerStep
  <2>3. CASE \E c \in Callers : Push(c)
    BY <1>1, <2>3, PushStep
  <2>4. CASE \E c \in Callers : ReleaseOne(c)
    BY <1>1, <2>4, ReleaseStep
  <2>5. CASE \E w \in Workers : TestStop(w) \/ Wake(w) \/ CheckStop(w)
    BY <1>1, <2>5, WalkStep
  <2>6. CASE \E w \in Workers : TakeFront(w)
    BY <1>1, <2>6, TakeFrontStep
  <2>7. CASE \E w \in Workers : Pop(w)
    BY <1>1, <2>7, PopStep
  <2>8. CASE \E w \in Workers : EndTask(w)
    BY <1>1, <2>8, EndTaskStep
  <2> QED
    BY <1>1, <2>1, <2>2, <2>3, <2>4, <2>5, <2>6, <2>7, <2>8
       DEF Next, InitStep, AddTaskStep, LoopStep
<1>2. ASSUME PoolInv, UNCHANGED poolVars
      PROVE  PoolInv'
  BY <1>2 DEF poolVars, PoolInv, TypeOK, LockInv, QueueInv, TaskInv, StartInv,
              TokensMatch, FetchersHaveTasks, Among, hThreads, Returned,
              HasSemaphore
<1>3. Whole => PoolInv
  BY Restate
<1>4. Whole' => PoolInv'
  BY <1>3, Restate, PTL
<1> QED
  BY <1>1, <1>2, <1>4, Restate

\* The invariant of CThreadPool.
THEOREM PoolInvariant == Spec => []PoolInv
<1>1. QED
  BY PoolInit, PoolStep, PTL DEF Spec

\* Type correctness of CThreadPool: in particular, a pool that came up has at
\* least the minimum of threads.
THEOREM PoolTypeCorrect == Spec => []TypeOK
<1>1. PoolInv => TypeOK
  BY DEF PoolInv
<1> QED
  BY <1>1, PoolInvariant, PTL

\* m_semapWork counts the queued tasks that no thread has claimed: no task is
\* left without a token and no token is left without a task.
THEOREM TokensCorrect == Spec => []TokensMatch
<1>1. PoolInv => TokensMatch
  BY DEF PoolInv
<1> QED
  BY <1>1, PoolInvariant, PTL

\* No thread calls front() or pop() on an empty m_workQue, also after clos has
\* released tokens that stand for no task.
THEOREM FetchersCorrect == Spec => []FetchersHaveTasks
<1>1. PoolInv => FetchersHaveTasks
  BY DEF PoolInv
<1> QED
  BY <1>1, PoolInvariant, PTL

-----------------------------------------------------------------------------
(***************************************************************************)
(* The refinement of TaskBoard.                                            *)
(***************************************************************************)
Job == [w \in Workers |-> IF pc[w] = "run" THEN task[w] ELSE 0]

\* A step that starts and ends no task and adds none.
LEMMA NoJob ==
  ASSUME UNCHANGED <<workQue, nAdded, finished>>, Job' = Job
  PROVE  UNCHANGED Board!board
BY DEF Board!board, Job

\* Moving a worker between places other than "run" changes no job.
LEMMA SameJob ==
  ASSUME Whole, NEW w \in Workers, NEW x \in Places, pc' = [pc EXCEPT ![w] = x],
         pc[w] # "run", x # "run",
         \A v \in Workers : v # w => task'[v] = task[v]
  PROVE  Job' = Job
BY DEF Whole, Types, Job

LEMMA BoardInit == Init => Board!Init
<1> SUFFICES ASSUME Init
             PROVE  Board!Init
  OBVIOUS
<1>1. nAdded - Len(workQue) = 0
  <2>1. Len(workQue) = 0 /\ nAdded = 0
    BY DEF Init
  <2> QED
    BY <2>1, 0 - 0 = 0
<1>2. Job = [w \in Workers |-> 0]
  BY DEF Init, Job
<1> QED
  BY <1>1, <1>2 DEF Init, Board!Init, Job

LEMMA BoardPush ==
  ASSUME Whole, NEW c \in Callers, Push(c)
  PROVE  Board!Add
<1>1. Len(workQue') = Len(workQue) + 1 /\ Len(workQue) \in Nat /\ nAdded \in Nat
  BY DEF Whole, Types, Push
<1>2. nAdded' - Len(workQue') = nAdded - Len(workQue)
  BY <1>1 DEF Push
<1> QED
  BY <1>2 DEF Board!Add, Push

LEMMA BoardPop ==
  ASSUME Whole, NEW w \in Workers, Pop(w)
  PROVE  Board!Start(w)
<1>1. pc[w] = "pop" /\ task[w] = workQue[1] /\ workQue # <<>>
  BY DEF Whole, TaskInv, Pop
<1>2. /\ Len(workQue) \in Nat \ {0}
      /\ Len(workQue') = Len(workQue) - 1
      /\ workQue[1] = nAdded - Len(workQue) + 1
      /\ nAdded \in Nat
  <2>1. Len(workQue) \in Nat \ {0} /\ Len(workQue') = Len(workQue) - 1
    BY <1>1, TailFacts DEF Whole, Types, Pop
  <2> QED
    BY <2>1 DEF Whole, Types, QueueInv
<1>3. /\ nAdded - Len(workQue) < nAdded
      /\ nAdded' - Len(workQue') = (nAdded - Len(workQue)) + 1
  BY <1>2 DEF Pop
<1>4. Job[w] = 0
  BY <1>1 DEF Job
<1>5. Job' = [Job EXCEPT ![w] = (nAdded - Len(workQue)) + 1]
  BY <1>1, <1>2 DEF Whole, Types, Job, Pop, Goto
<1> QED
  BY <1>3, <1>4, <1>5 DEF Board!Start, Job, Pop

LEMMA BoardEnd ==
  ASSUME Whole, NEW w \in Workers, EndTask(w)
  PROVE  Board!Finish(w)
<1>1. pc[w] = "run" /\ task[w] # 0
  BY DEF Whole, TaskInv, EndTask
<1>2. Job[w] = task[w]
  BY <1>1 DEF Job
<1>3. Job' = [Job EXCEPT ![w] = 0]
  BY <1>1 DEF Whole, Types, Job, EndTask, Goto
<1> QED
  BY <1>1, <1>2, <1>3 DEF Board!Finish, Job, EndTask

LEMMA BoardStep == Whole /\ [Next]_poolVars => [Board!Next]_Board!board
<1>1. ASSUME Whole, Next
      PROVE  [Board!Next]_Board!board
  <2>1. CASE \E c \in Callers : Push(c)
    BY <1>1, <2>1, BoardPush DEF Board!Next
  <2>2. CASE \E w \in Workers : Pop(w)
    BY <1>1, <2>2, BoardPop DEF Board!Next
  <2>3. CASE \E w \in Workers : EndTask(w)
    BY <1>1, <2>3, BoardEnd DEF Board!Next
  <2>4. CASE \/ CreateSemaphore \/ NeverStarted \/ FailWorker \/ EndInit
             \/ SetStop \/ ReleaseTokens
             \/ \E c \in Callers : ReleaseOne(c)
    <3>1. UNCHANGED <<workQue, nAdded, finished, pc, task>>
      BY <2>4 DEF CreateSemaphore, NeverStarted, FailWorker, EndInit, SetStop,
                  ReleaseTokens, ReleaseOne
    <3> QED
      BY <3>1, NoJob DEF Job
  <2>5. CASE \E w \in Workers : \/ StartWorker(w) \/ TestStop(w) \/ Wake(w)
                                \/ CheckStop(w) \/ TakeFront(w)
    <3>1. PICK w \in Workers : \/ StartWorker(w) \/ TestStop(w) \/ Wake(w)
                               \/ CheckStop(w) \/ TakeFront(w)
      BY <2>5
    <3>2. UNCHANGED <<workQue, nAdded, finished>>
      BY <3>1 DEF StartWorker, TestStop, Wake, CheckStop, TakeFront
    <3>3. /\ pc[w] # "run"
          /\ \E x \in Places : pc' = [pc EXCEPT ![w] = x] /\ x # "run"
      BY <3>1 DEF StartWorker, TestStop, Wake, CheckStop, TakeFront, Goto, Places
    <3>4. \A v \in Workers : v # w => task'[v] = task[v]
      BY <1>1, <3>1 DEF Whole, Types, StartWorker, TestStop, Wake, CheckStop,
                        TakeFront
    <3>5. Job' = Job
      BY <1>1, <3>3, <3>4, SameJob
    <3> QED
      BY <3>2, <3>5, NoJob
  <2> QED
    BY <1>1, <2>1, <2>2, <2>3, <2>4, <2>5
       DEF Next, InitStep, AddTaskStep, LoopStep
<1>2. ASSUME UNCHANGED poolVars
      PROVE  UNCHANGED Board!board
  <2>1. UNCHANGED <<workQue, nAdded, finished, pc, task>>
    BY <1>2 DEF poolVars
  <2> QED
    BY <2>1, NoJob DEF Job
<1> QED
  BY <1>1, <1>2

\* CThreadPool runs each task once, in the order of AddTask, whatever the
\* number of threads and callers, whichever of its initialisation fails and
\* whenever clos is called.
THEOREM PoolImplementsBoard == Spec => ImplementsBoard
<1>1. PoolInv => Whole
  BY Restate
<1> QED
  BY <1>1, PoolInvariant, BoardInit, BoardStep, PTL
     DEF Spec, ImplementsBoard, Board!Spec
=============================================================================
