----------------------------- MODULE SqlPoolInv -----------------------------
(***************************************************************************)
(* The inductive invariant of CMySQLPool behind SqlPoolProofs.             *)
(***************************************************************************)
EXTENDS SqlPoolProps, ThreadPoolInv

\* A worker is in the body of a task exactly while it runs one.
BodyInv == \A w \in Workers : step[w] # "none" <=> pc[w] = "run"

\* Workers whose connection has left the free list.
Using == {w \in Workers : step[w] \in {"query", "store", "free"}}

\* Each connection is either once in the free list or used by one worker; a
\* worker in AllocSql that has read the head of the list still finds it there.
ConnInv ==
  /\ \A i, j \in 1 .. Len(freeList) : freeList[i] = freeList[j] => i = j
  /\ \A i \in 1 .. Len(freeList) : freeList[i] \in opened
  /\ \A w \in Using : conn[w] \in opened
  /\ \A w \in Using, i \in 1 .. Len(freeList) : freeList[i] # conn[w]
  /\ \A w, v \in Using : conn[w] = conn[v] => w = v
  /\ \A c \in opened : \/ \E i \in 1 .. Len(freeList) : freeList[i] = c
                       \/ \E w \in Using : conn[w] = c
  /\ \A w \in Workers :
       step[w] = "advance" => freeList # <<>> /\ conn[w] = freeList[1]

\* What was executed last on the connection of a worker is its own statement.
OwnInv ==
  \A w \in Workers :
    /\ step[w] = "store" => onConn[conn[w]] = task[w]
    /\ step[w] \in {"free", "call"} => result[w] \in {0, task[w]}

\* Threads are started when every connection has been made, and there are no
\* more of them than connections.
CountInv ==
  /\ Cardinality(opened) <= NumThreads(Size)
  /\ dbInit = "up" => Cardinality(opened) = NumThreads(Size)
  /\ Cardinality(hThreads) <= NumThreads(Size)
  /\ hThreads # {} => dbInit = "up"

SqlInv ==
  /\ SqlTypeOK
  /\ BodyInv
  /\ ConnInv
  /\ OwnInv
  /\ CountInv
  /\ ResultIsOwn
=============================================================================
