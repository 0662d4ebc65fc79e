# A verification of the school information management system

TLA+ models of the server, the client and the transport of
`学校信息管理系统`, checked with TLC and proved with TLAPS. Paths below are relative to
that directory of `src/`.

## The system

A Windows client (`User/User`, an MFC dialog) sends SQL text to a server
(`Server/Server`), which executes it on MySQL through a pool of threads and
connections and sends the rows back as text. Both sides talk through `CUMT`
(`Common/CUMT.cpp`), a reliable byte stream over UDP with its own handshake, sequence
numbers, checksum, acknowledgement and retransmission.

| Component | State | Operations | Interacts with |
|---|---|---|---|
| **CUMT data path** (`Common/CUMT.cpp`, `ByteStreamBuff.cpp`, `CCrc32.cpp`) | `m_mpSend`, `m_mpRecv`, `m_bufRecv`, `m_nNextSendSeq`, `m_nNextRecvSeq`, `m_bWorking` | `Send`, `Recv`, `Close`; the threads `SendThread`, two `RecvThread`s, `HandleRecvPkgsThread` | the UDP network; on the server all accepted CUMTs use the socket, the threads and `m_mpSend` of the listening one |
| **CUMT handshake** | `m_accp`, `m_Connent`, `m_siDst` | `Connect`, `Accept`, `Init`, the `PT_SYN` and `PT_SYN\|PT_ACK` cases of `RecvThread` | the data path starts from it |
| **CThreadPool** (`CThreadPooL.h`) | `m_workQue`, `m_semapWork`, `m_nStop`, `m_hThreadVec` | `InitThreadPool`, `AddTask`, `_ThreadWork`, `clos` | base class of CMySQLPool |
| **CMySQLPool** (`CMySqlPool.h`) | `m_sqlFreeList` | `InitThreadPool`, `AllocSql`, `FreeSql`, `sql_Execute`, `ExcuSql` | MySQL; the callback of the server |
| **Server request loop** (`Server.cpp`) | the buffer of each `_Thread`, `DUOCUMT::m_conn` | `main`, `_Thread`, the reply callback | CUMT, CMySQLPool |
| **Client dialog** (`UserDlg.cpp`) | edit fields, list control, the global `umt` | `DealMessage`, one handler per button | CUMT, and the tables of the database by SQL text |
| **Locks** (`CLock.*`, `Lock.h`) | a critical section, or one word | `Lock`, `UnLock` | everything above |
| Socket start-up, MFC frame, MySQL headers | — | — | not the program's own logic |

What is hard: the network loses, repeats, reorders and damages datagrams; each CUMT
has four threads and any number of callers; the server shares one send container
among all clients; the pool has a queue, a semaphore and a free list under different
locks; results of initialisation are ignored; replies are framed by convention only.
`PROJECT.json` lists each hazard at its line with the property that is aimed at it.

What makes each component correct:

- data path: the reader gets the bytes of the writer, each once and in order; no
  packet vanishes inside the programs; every packet is read in the end; the containers
  stay bounded;
- handshake: both ends agree that there is a connection, once, and Connect returns;
- thread pool: each task is run once, in order, and in the end; clos stops every thread;
- connection pool: a connection has one user; no wait for a connection blocks the
  pool; every statement is answered;
- request loop and dialog: a statement is executed once and as it was sent; the reply
  shown belongs to it, whole; requests and replies stay in step, and DealMessage returns;
- handlers: a statement touches only what the user named.

## The modules

| Module | Models | Kind |
|---|---|---|
| `BytePipes` | what CUMT promises: one reliable byte pipe per peer | abstract specification |
| `UmtLink` | the data path: a sending CUMT, the network, the receiving end of each connection | component |
| `UmtLinkProps` | its properties, the fairness, the refinement of `BytePipes` | properties |
| `MCUmtLink` | symmetry for the TLC instances | model checking |
| `UmtLinkInv` | the inductive invariants | for the proofs |
| `UmtLinkProofs`, `UmtLinkSafety` | type correctness and the bound of the send container; ordering, delivery and refinement | proofs |
| `UmtHandshake`, `UmtHandshakeProps`, `MCUmtHandshake` | Connect, Accept and the handshake cases of RecvThread, up to the first requests | component, properties, model checking |
| `UmtHandshakeInv`, `UmtHandshakeProofs` | its inductive invariant; types, no ghost connections, kept requests, one reader | proofs |
| `TaskBoard` | what a thread pool promises: each task once, in order | abstract specification |
| `ThreadPool`, `ThreadPoolProps` | CThreadPool | component, properties |
| `ThreadPoolInv`, `ThreadPoolProofs` | its inductive invariant; types, counting, refinement of `TaskBoard` | proofs |
| `SqlPool`, `SqlPoolProps` | CMySQLPool, which extends ThreadPool as the class does | composition, properties |
| `SqlPoolInv`, `SqlPoolProofs` | its inductive invariant; refinement of ThreadPool, ownership of connections | proofs |
| `SchoolService` | what the system promises to its users: ask, serve, show | abstract specification |
| `SchoolDb` | the tables, the statements the dialog writes and what MySQL answers | operators |
| `ReplyText` | the text of a reply, as the callback writes it and DealMessage reads it | operators |
| `RequestReply` | DealMessage, the connection, the loop of `_Thread`, the workers, the callback | component |
| `School` | the button handlers on top of RequestReply: the whole system | composition |
| `SchoolProps` | its properties, the fairness, the refinement of `SchoolService` | properties |
| `SchoolInv` | its three inductive invariants: stages, tables, contents | for the proofs |
| `SchoolProofs` | framing and statements | proofs |
| `ReplyTextProofs` | that `Display` reads back what `DataText` writes, for results of any size | proofs |
| `SchoolServed` | the tables, the answers, the refinement of `SchoolService` | proofs |
| `MCSchool` | a populated database and the lengths of statements for the TLC instances | model checking |

Every module that is mutated in the check of its properties has a few operators
marked `Defect:`. No specification uses them: each is a variant of the definition after
it with a mistake a programmer could make, and replacing the definition by it breaks
the property that `PROJECT.json` names under `mutants`.

### UmtLink and the code

One module stands for both directions. With `IsCli = TRUE` it is a client that sends to
the server. With `IsCli = FALSE` it is the server: the CUMTs returned by `Accept` call
`Send`, and `m_mpSend` is the one of the listening socket (`pServer->m_mpSend`).

- A byte is its position in the stream, so that "in order, each once" can be said; a
  payload is a span of positions; `crc32` is taken as free of collisions.
- `m_mpSend` and `m_mpRecv` are sets of packets in which sequence numbers are keys:
  `Put` is `map::operator[] =`, `RecvAck` is `erase`.
- `due` stands for the clock: the packets of `m_mpSend` whose last time is 0 or more
  than `m_tmElapse` ago. One pass of `SendThread` sends all of them.
- `Send` and `Recv` are two actions each, as they take their lock twice: `BeginSend` reads
  the size, `Send` splits and queues; `BeginRecv` has seen that there is something in
  `m_bufRecv`, `Recv` takes what is there by then. `RecvData` ends at the `sendto` of the ACK; `StoreData` is
  the section under `m_lckForRecvMp`. `HandleRecvPkgsThread` holds `m_lckForBufRecv`
  from `BeginHandle` to `EndHandle` and moves one packet per `HandlePkg`.
- `net` and `acks` are sets of datagrams that may still arrive: a datagram that stays
  may arrive again, one that is removed is lost, and sets have no order.
- `Copies` is what may arrive of a packet: the packet, one with a damaged payload, which the
  checksum of `m_aryData` catches, and with `NumbersDamaged` one with another `m_nSeq`, which
  nothing catches (CUMT.cpp:411, 502). An ACK has no checksum at all, so `RecvAck` reads any
  number then. A damaged `m_nLen` or `m_nCheck` fails the checksum like a damaged payload.
  Damage that turns one `m_nPt` into another is not modelled.
- The initial state is the one after the handshake, when both counters are 1.

An accepted CUMT locks its own `m_lckForSendMp` where it writes the map of the
listening one. The model takes each access to the map as atomic; what the missing
exclusion may do to the nodes of the `std::map` is undefined and not modelled.

### UmtHandshake and the code

A client is one run of the client program: `gui[c]` is what the dialog's thread does
(`waiting` is the `recvfrom` in `Connect`), `sock[c]` the address of `m_sock`, `ports[c]` the
sockets it has open (Connect replaces `m_sock` and does not close the old one), and
`reading[c][t]` the socket a RecvThread waits on, which it reads from `m_sock` only when it
comes round. `Connect` is `SendSyn`, `TakeAnswer` and `SendThird`, between which anything
may happen, with `FailSyn` and `FailConnect` (the `recvfrom` or the second
`sendto`) for failing system calls; `SendThird` ends
with `Init`, and its failure calls `Clear` as the code does. The button may be pressed again
in any state of the connection, and `Quit` may come at any moment.

On the server `RecvSyn`, `RecvThird` and `RecvData` are the cases of RecvThread and `Accept`
is the loop of `main`. A CUMT is the number of its creation and `owner` gives its address;
`m_Connent` maps an address to such a number and keeps the first, as `map::insert` does.
`RecvData` looks the CUMT up and sends the ACK, `StoreData` stores the packet. What
UmtLink models in full is short here: a request is one packet, all packets that ever
entered `m_mpRecv` stay in `stored`, and `Answer` stands for the way back. Where the server's
calls fail at start it is `deaf`.

### ThreadPool, SqlPool and the code

`pc[w]` is the place of a thread in `_ThreadWork`: `top` (the `while`), `wait`, `woken`
(the second test of `m_nStop`), `fetch` (before the lock), `pop` (after `front()`),
`run`, `exit`. `AddTask` is `Push` and `ReleaseOne`, with the lock held between them;
`clos` is `SetStop` and `ReleaseTokens`. Tasks are numbered in the order of `AddTask`.
`CreateSemaphore` and `CreateThread` may fail (`MayFail`), and the results are ignored
as `main` and CMySQLPool ignore them. AddTask is called after the initialisation has
returned, as in `main`.

In SqlPool the place in the task body is `step[w]`: `LockSql`, `TakeConn` and
`AdvanceList` are `AllocSql`, with `m_lock` held from the first to the last, also while
it sleeps for a connection; `RealQuery` and `StoreResult` are `sql_Execute`; then
`FreeSql` and `Callback`. A result set is known by the statement that was last executed on
the connection it is read from. Statements may fail at both calls. The program passes a
callback always and never calls `clos`, so neither case is in the composition.

### School and the code

`ui[c]` is where DealMessage is: `length` in its first Recv, `data` in its second, `idle`
when it has returned. `DealMessage` is its part up to the Send, `RecvLength` the first
Recv, of which the code only looks at the count, `RecvData` the second and everything
after it, down to what the list control shows: `Display` is the parsing loop, `CString`
the cut at the first NUL, `Overlay` the bytes that the first Recv left in `buff`. There is
no other state in the dialog, whose thread is blocked meanwhile, so the next click
comes after the return.

`TakeStatement` is one round of `_Thread`: the memset, the Recv of what has arrived, and
ExcuSql with a copy of the C string in `pBuff`. `StartTask`, `Query`, `SendLength` and
`SendData` are a worker: it takes the task, executes it, and sends the length and the data
in two calls, between which everything else may happen; a failed statement has one
`SendData` of 8 bytes without a length. In `School` each handler of the dialog is an
action with the fields it reads, its guard (when it returns without a statement) and its
statement. With an empty field CheckStuCourse and CheckCourseStu go on with the
empty text, ModifyX and DelX with an empty key, GiveClass after a warning, as in the code.

Three things below are taken from where they are modelled in full. A connection is a
reliable stream of packets: `BytePipes`, which `UmtLink` implements for one client and
which `link_two_clients` refutes for several, so what is shown here of two dialogs holds
up to that defect. The pool is a queue of tasks, each run once and started in order:
`TaskBoard`. A worker has a connection of its own to MySQL: `SqlPool!ResultIsOwn`.

A byte of a statement is known by its statement and its place, so a text that is cut,
joined or has a tail is never equal to a statement; lengths are 0, 1 or 3, with `ClearSize` 2. A
reply is a sequence of symbols, a cell being one of them. `LengthText` fills the four bytes of a
length up with NULs; the code sends whatever the heap holds behind the end of a shorter number.
DealMessage reads the number and does not use it, so only what stays of it in `buff` behind a
shorter text matters. The one text shorter than four bytes is the `/` of a statement without
rows, and behind it stands the NUL that ends the number 1. Each table is a set of rows, the keys and
foreign keys are those of the design document, NULL is the id 0, and MySQL executes a
statement as a whole. A column that is compared with a number (the two handlers that
leave the quotes out) is compared by its value, so `01` and `1` are the same student.

## The runs

| Run | Asks | Instance |
|---|---|---|
| `link_client` | order, delivery, contents of `m_mpRecv`, limit, refinement of `BytePipes` | one server, two callers of Send, two RecvThreads, three full packets of 2 bytes, limit 0 so that it acts at the first packet |
| `link_live` | order; every packet is read, `m_mpSend` empties | the server answering one client with a full packet and a remainder, one RecvThread, under fair loss |
| `link_two_clients` | delivery to two clients: **violated** | two clients, one packet each |
| `link_damaged_number` | order when `m_nSeq` may be damaged: **violated** | one client, two packets of one byte |
| `handshake_again` | no connection nobody asked for, no acknowledged request dropped, one reader per client | one client that presses Connect twice, two RecvThreads, three addresses, two CUMTs, every datagram may be lost or repeated, calls fail |
| `handshake_live` | Connect returns, both ends agree, requests are answered, clients are kept apart | two clients; requests and ACKs may be lost, handshake packets not |
| `handshake_half_open` | both ends agree when the third packet may be lost: **violated** | one client |
| `pool` | tokens and tasks, empty queue, refinement of `TaskBoard`; every task is run, every thread is stopped | three threads, two callers, four tasks, failures, clos |
| `sql` | no wait inside `m_lock`, results of the right statement, every statement is answered once a thread runs | two threads and connections, three statements, failures |
| `school` | each statement is executed once and as it was sent, and its dialog shows the whole answer (refinement of `SchoolService`); requests and replies in step; one row per statement; DealMessage returns | two dialogs with all eighteen handlers, two workers, two clicks, a populated database |
| `school_long_reply` | the answer shown is whole when a reply is several packets: **violated** | one dialog, packets of five symbols |
| `school_long_statement` | each statement is executed as it was sent when it may end where memset does not reach: **violated** | one dialog, two clicks, statements of 1, 2 and 3 bytes over a `ClearSize` of 2 |

Bounds. `MaxPackets` counts the packets ever made for a peer: two suffice for
reordering, a gap, a repeated packet that arrives after its delivery and an ACK that
crosses a retransmission; three add a packet that waits behind a gap in `m_mpRecv`.
`DwordMod` is 2^32 in the code; in the instances it exceeds the packets made, so it never
wraps. `SendLens` is DATALEN (2 in the instances) in `link_client` and 3 in `link_live`, so that
both branches of the packet count are taken. The program calls `Send` of one CUMT from one thread at
a time; the two callers of `link_client` are what the class allows. `NumbersDamaged`
is FALSE but in `link_damaged_number`. `MaxTasks`
exceeds the number of threads in every pool instance, so that a task waits in the
queue and threads come back for a second one. `MaxPresses`, `MaxAsks` and `MaxCumts` bound
the handshake: two presses bring in the second socket and the answers to the wrong press,
and a second CUMT of one client a repeated third packet. `StopTokens` exceeds the number
of threads, as the 100 of the code does; `MinThreads` is 4 in the code.
`MaxClicks` counts the statements of all dialogs: with two, one dialog sends a second
statement over the buffer and the connection of its first, or two dialogs race, which is
where the framing, the order of workers and the tables can go wrong. `DataLen` (1460
in the code), `BuffSize` (4096), `ClearSize` (1000) and `ReplySize` (65536) are scaled so that
in `school` every statement and every reply fits into a packet, and a statement is shorter than
`ClearSize` or, being longer, the longest there is: a short statement is read over the buffer
of a longer one, whose last byte memset leaves. The predicate `SchoolInv!StatementsFit` says so of
the lengths and `RepliesFit` of the replies; `school_long_statement` is an instance without the
first and `school_long_reply` one without the second.
Student numbers include the empty text, a number that exists and one that is equal to
it only as a number; two students have one name.
Deadlock is not checked: every instance stops at its bound, and a closed end stops.

### What the violations show

- `link_two_clients`: accepted CUMTs store packets in `pServer->m_mpSend` under the
  sequence number alone. Two clients count from 1, so the reply to one replaces the
  unacknowledged reply to the other, or is erased by the other's ACK. It is never sent
  again and that client waits for ever.
- `handshake_half_open`: Connect returns TRUE once it has sent the third packet. If that is
  lost, the dialog says "connected", and the server drops the requests without an ACK.
- `school_long_reply`: DealMessage reads the length, does not use it and reads once, so it
  shows the part of the reply that has arrived. The rest is the beginning of the
  answer to the next statement, and every later answer is shifted.
- `link_damaged_number`: the checksum that RecvThread compares goes over `m_aryData` only. A
  repeated packet 1 whose `m_nSeq` arrives as 2 is acknowledged as 2, stored as 2 and read as the
  second packet, and the ACK erases the real one from `m_mpSend`. UDP has a checksum of its
  own, so this takes damage that passes it; the code checks for damage itself, and
  for the payload alone.
- `school_long_statement`: the memset of `_Thread` clears 1000 of the 4096 bytes. A statement
  that ends behind them and follows a longer one is executed with the tail of that one.

Four configurations are kept beside the listed runs, and TLC finds each of them violated
(`tlc -config handshake_pressed_again.cfg MCUmtHandshake`, and so on):

- `handshake_pressed_again.cfg` (`ConnectReturns`): the second Connect shares its new
  socket with the RecvThreads of the first, and one of them takes the answer.
- `handshake_port_reuse.cfg` (`AckedIsKept`): nothing is removed from `m_Connent`. A
  client that gets the address of one that has ended has its first packets acknowledged
  and dropped.
- `sql_connect_fails.cfg` (`EventuallyCalled`, module `SqlPoolProps`): the result of
  `InitThreadPool` is ignored, so statements are queued in a pool that has no thread.
- `school_class_lost.cfg` (`KeepsAClass`, module `MCSchool`): GiveClass warns about the empty
  class name and sends the update, whose subselect has no row: `stu_class` becomes NULL, and
  the dialog reports success. A name that another dialog has changed meanwhile would do the
  same; that takes two dialogs, which this configuration does not have.

More departures show up in variants of these instances. With `PT_SYN` or its answer in
`Lossy`, `ConnectReturns` fails without a second press, as Connect sends once and waits
without a timeout. With `IsCli = FALSE`, `SendMapBounded` fails: `Send` of an accepted CUMT
compares the size of its own, always empty, container with 100 and fills the one of the
listening CUMT. Without `StatementsFit`, `AsSent` fails in a second way, which no listed run
shows: a statement longer than `DataLen` is executed in the parts in which it arrives. The edit
fields have no limit that keeps a statement below 1000 bytes, or below a packet.

### Fairness

`UmtLinkProps!Fairness`: the four threads loop and time passes (weak fairness); the
reader reads again and again (strong fairness of `BeginRecv` and `Recv`, since
`HandleRecvPkgsThread` holds the lock of the buffer now and then but sleeps with it free).
`FairLoss`: a packet that is on the wire again and again is received intact again and again, and
so is an ACK, number by number; this is the usual assumption on a lossy network, and nothing
follows for an end that is closed.
`UmtHandshakeProps!Fairness`: threads and the dialog go on; a handshake packet that is not
lost is received, also when the threads are often busy (strong fairness), and for requests
`RequestsGetThrough` is FairLoss again. Nobody has to press Connect, to ask or to end.
`ThreadPoolProps!Fairness`, `SqlPoolProps!SqlFairness`: threads run, tasks return, a
semaphore with tokens lets a waiting thread through, a critical section asked for again
and again is granted (strong fairness), and MySQL answers each statement with rows or an
error. Nothing is assumed about failures or about callers adding tasks.
`SchoolProps!Fairness`: packets arrive (`EventuallyRead` of the data path), `_Thread` takes
what has arrived, a dialog goes on when there is something to read, and a worker when it
has something to do. The last two are weak fairness of the steps that change `ui` and `at`,
which are those of RecvLength and RecvData, and of StartTask, Query, SendLength and
SendData; said that way, TLC need not execute a statement to know that one is enabled.
`DialogReturns` leaves out the dialog that has sent the empty text, which waits for ever.

## The proofs

Proved with TLAPS, for all values of the constants that satisfy `LinkAssumption`,
`HandshakeAssumption`, `PoolAssumption`, `SqlAssumption`, and for the whole system
`SchoolAssumption`, `BoundAssumption`, `HalvesAssumption` (the length of a reply is more
than one byte; it is 4 in the code) and `DatabaseAssumption` (the server is started on
tables that have the columns and keys of the design):

| Theorem | States | Under |
|---|---|---|
| `TypeCorrect` | `Spec => []TypeOK` | — |
| `InOrderCorrect`, `RecvMapAheadCorrect` | `Spec => []InOrder`, `[]RecvMapAhead` | `NumbersHold` |
| `NothingLostCorrect` | `Spec => []NothingLost` | `NumbersHold`, `OnePeer` |
| `LinkImplementsPipes` | `Spec => ImplementsPipes` | `NumbersHold` |
| `SendMapBoundedCorrect` | `Spec => []SendMapBounded` | `IsCli`, finitely many threads and lengths |
| `HandshakeTypeCorrect` | `Spec => []TypeOK` (of UmtHandshake) | — |
| `NoGhostCorrect` | `Spec => []NoGhostConnection` | finitely many clients |
| `AckedIsKeptCorrect`, `OneReaderCorrect` | `Spec => []AckedIsKept`, `[]OneReader` | `~ReusePorts` |
| `PoolTypeCorrect` | `Spec => []TypeOK` (of ThreadPool) | — |
| `TokensCorrect`, `FetchersCorrect` | `Spec => []TokensMatch`, `[]FetchersHaveTasks` | — |
| `PoolImplementsBoard` | `Spec => ImplementsBoard` | — |
| `SqlImplementsPool` | `SqlSpec => Spec` (of ThreadPool) | — |
| `SqlTypeCorrect`, `AllocNeverSpinsCorrect`, `ResultIsOwnCorrect` | `SqlSpec => []SqlTypeOK`, `[]AllocNeverSpins`, `[]ResultIsOwn` | — |
| `InStepHolds`, `OneWorkerEachHolds`, `AsSentHolds` | `Spec /\ []RepliesFit => []InStep`, `[]OneWorkerEach`, `[]AsSent` (of School) | `NulIsNoByte`, `StatementsFit`, `RepliesFit` |
| `SchoolTypeCorrect`, `OneAtATimeHolds` | `Spec => []TypeOK`, `OneAtATime` (of School) | `NulIsNoByte` |
| `ServedHolds`, `ShownIsTheAnswerHolds` | `Spec /\ []RepliesFit => Served`, `[]ShownIsTheAnswer` | `NulIsNoByte`, `NamesAreCells`, `StatementsFit`, `RepliesFit` |
| `ResultIsShown`, `SuccessIsShown` | what `Display(DataText(head, rows))` is, for every `head` and `rows` | no cell is a separator |

`NumbersHold` says that fewer packets are made than the DWORD can number (`NoWrap`) and that the
network does not damage `m_nSeq` (`~NumbersDamaged`), and `OnePeer` that the sending end has one
peer. All three are necessary: `link_damaged_number` is a counterexample without the second and
`link_two_clients` one without the third, and with three packets and `DwordMod = 3` the
instance of `link_client` loses one, as a number after the wrap is below `m_nNextRecvSeq`.
`OnePeer` is what `IsCli` means on a client.

The argument for the data path. `InOrder` is not inductive: it says nothing of the packets under way.
`UmtLinkInv!LinkInv` adds that the packets of a peer tile its stream without gaps
(`StreamInv`), that every packet in a container or on the wire is one of them, found at
the index its number gives (`PacketInv`, where `NumbersHold` is used), and that what was
delivered is exactly the first `nextRecvSeq - 1` of them (`DeliveredInOrder`,
`ReceiveInv`). A packet taken from `m_mpRecv` then starts at the byte after the last one in
the buffer. For `NothingLost`, `AckInv` adds that an ACK on the wire is for a packet that
has arrived: it is in the hands of a RecvThread, in `m_mpRecv`, or delivered
(`Arrived`), so the erase in `RecvAck` never removes the last copy; `OnePeer` is what makes
an ACK belong to the packet with its number. TLC checked each part on the
`link_client` instance before it was proved.

For `SendMapBounded`, `BoundInv` adds what the threads past the size check may still add: each is
admitted for one peer, and the packets in `m_mpSend` plus `MaxCount` for each of these
threads stay within the bound. BeginSend establishes the sum anew from the size it reads, Send
moves a thread's share into the container, and everything else only removes packets. With
`IsCli = FALSE` the size read is that of another container and there is no bound. TLC
checked `BoundInv` with two threads.

The argument for the handshake. `NoGhostConnection` compares the entries of `m_Connent` with the
clients that have taken an answer in Connect, also those whose `Init` failed afterwards; it says
nothing of the CUMTs, of which a repeated third packet makes more than one. Neither number is bounded by a single step; `UmtHandshakeInv!CountInv` puts `Thirds` between
them, the addresses from which a third packet is under way or has made a CUMT. An address
joins `Thirds` in the step that makes its client connected, and a client is connected
once, because every answer has number 0 and `nextRecvSeq` is 1 afterwards (`ConnectInv`).
`AckedIsKept` needs three more facts. `AckInv`: an ACK on the wire is for a packet that is kept
in the CUMT `m_Connent` names for that address. `ClaimInv`: an address belongs to one client
for ever, which is where `~ReusePorts` is used, since a claim arises only when Connect takes
a fresh port. `ThirdInv`: a client sends the third packet from one of its addresses only.
Then the ACK a client reads is for a packet of its own, and two packets of a client are
kept in one CUMT, which is `OneReader`. Every step either leaves sockets, addresses and third packets
as they are, takes a new address, or sends a third packet; the lemmas are laid out
that way. `~ReusePorts` is necessary: `handshake_port_reuse.cfg` is a
counterexample without it. TLC checked `TypeInv`, `CountInv` and `KeptInv` on the instance of
`handshake_again` before they were proved.

The argument for the thread pool. `FetchersHaveTasks` bounds the workers past the second
test of `m_nStop` by the tasks in the queue; it is inductive only with `TokensMatch`, which
gives a worker that passes that test a task of its own: the tokens, the workers that hold
one and the caller that has pushed but not yet released add up to the tasks. `clos` breaks
that sum with its 100 tokens, but whoever wakes up on one of them leaves at the test.
`ThreadPoolInv!PoolInv` adds that the owner of `m_workQueLock` is the worker between
front() and pop() (`LockInv`), that the queue holds consecutive task numbers (`QueueInv`),
that a worker about to pop holds the front (`TaskInv`) and that nothing happens before the
initialisation has returned (`StartInv`). The counts are cardinalities of sets of
workers; lemma `Moved` says how one worker's move changes such a count. Under the
refinement mapping a task is started by `Pop` and finished by `EndTask`; every other
step but `Push` stutters.

The argument for CMySQLPool. Each of its steps is a step of ThreadPool or leaves the pool
alone, so `PoolInv` holds. `SqlPoolInv!SqlInv` adds that a connection is once in the free
list or used by one worker (`ConnInv`, the crux being `AllocSql`, which reads the head and
moves it on in two steps under `m_lock`), hence that nobody else executes on it
between query and store (`OwnInv`), and that there are as many connections as
`max(size, 4)` before the first thread exists (`CountInv`). For `AllocNeverSpins`: if a worker in
`AllocSql` found the list empty, the workers that use a connection, all of them others,
would be mapped onto the connections, so the threads would outnumber the connections.
TLC checked `PoolInv` and `SqlInv` on small instances before they were proved.

The argument for the whole system. Nothing in a reply says which statement it answers,
so `InStep` rests on there being one thing at a time on the way of each dialog.
`SchoolInv!IInv` says where it may be: `Stage(c)` lists the places of a statement and of
its reply from the click to the return (`Resting`, `Hanging` for the empty text, `Asking`,
`Working`, `Replied`), `QueueInv` that the queue holds one task per dialog and its
text is the statement, `WorkersInv` what a worker holds. `OneWorkerEach` is part of it: a
second worker for one dialog would need a second task, which needs a second click.
`Typed` adds that `pBuff` is NUL beyond the longest statement; with `StatementsFit` the byte
behind a statement is one of those or one that memset cleared, so `CString` of a statement is the
statement itself. `NulIsNoByte` says that the byte 0 is none of the bytes of a statement, which is
what a C string is. `StatementsFit` and `RepliesFit` (a reply is one packet) are false of the program
in general: nothing in it enforces them, `school_long_statement` and `school_long_reply` show what
happens without, and they are hypotheses of the theorems for that reason. So the theorems
say what holds on a database whose answers are short and with texts that are. TLC
checked `IInv`, `StatementsFit` and `RepliesFit` on the `school` instance before the proof.

The argument for the reply text. `DataText` is a fold over the cells and `Pieces` a recursive
function over the symbols, and the prover's induction theorems cannot be applied to
either. The lemmas of `ReplyTextProofs` therefore take the least counterexample instead:
`CountUp` says that a set of naturals which holds 0 and with each number the next holds
them all, and `GrowSequences` carries it over to sequences. From these follow what the
join of a row is, where the separators of a text stand, and that cutting a join at its
separator gives back the parts. `ResultIsShown` puts the three cuts of DealMessage
together: at the `/` behind the columns, at the `}` behind each row, at the `|` behind each
cell. An empty cell is the empty text, so the rows are compared as `Cells` of the answer.

The argument for the tables. `TablesInv` says that nothing but bytes of statements of the
handlers is between a dialog and a worker: on the line, in `m_bufRecv`, in `pBuff`, in the
queue. It needs no order and no framing, so it holds for statements and replies of any
length, also when a statement is split, cut or has a tail. Each of
these statements is `Proper`: an insert gives all columns but the id, an update keeps the
id, and the condition of an update or a delete is the key of its table. Since keys differ
(`DbInv`), at most one row matches, which is `OneAtATime`; and `Execute` yields tables that
are in `DbInv` again (lemma `ExecuteDb`), for each of the kinds of statements.

The argument for what is shown. `SchoolInv!Contents` refines the stages of `IInv` by what the
pieces say: from the step that executes the statement on there is one answer of that
dialog, a reply is `TextOf` of it, and `Sending` and `Sent` list where its length and its text
are (on the line, in `m_bufRecv`, in `buff`) until DealMessage returns. The answer of a
failure has no length in front, and its halves are read in the place of the length and of
the text. In the step that shows it, the second Recv writes over the first byte
of the length in `buff`, and whatever is left of the length behind a shorter text is zeros, so
the C string is the text itself (lemmas `AnswerIsShown`, `FailureIsRead`, `RecvDataShows`), and `ResultIsShown` says what the
list control holds. For `Served`, a click is `Ask`, `Query` is `Serve`, `RecvData` is `Show`, and
every other step leaves what `SchoolService` sees unchanged (`StepSeen`). `NamesAreCells` says
that no text in the tables or the edit fields is one of the separators and that a column has a
name; the first is false of a user who types a separator, and is a hypothesis for that
reason, while every instance satisfies it (`CellsAssumption` of `MCSchool`). TLC checked
`TablesInv` and `Contents` on the `school` instance before the proofs.

Every safety and action property of the passing runs is a theorem above. Only
model-checked is liveness (`EventuallyRead`, `EventuallyAcked`,
`EventuallyRun`, `EventuallyStopped`, `AnsweredOnceUp`, `DialogReturns`, and the three of the
handshake), which the prover cannot do under fairness.

## Not modelled

- What the two locks around `pServer->m_mpSend` do to the `std::map`: `Send` of an accepted
  CUMT and the threads of the listening one use different locks, which is a data race, and
  its outcome is undefined. The models take each access as atomic.
- The handshake, the data path, the pools and the school system are modules of their own,
  joined by what each promises (`BytePipes`, `TaskBoard`), not one state space.
- Names that contain one of the separators of a reply: DealMessage cuts them. A cell is one
  symbol in `ReplyText`, so the model says nothing of them, and `NamesAreCells` is a
  hypothesis of the theorems about what is shown. Nor does it of quotes in
  an edit field, which change the SQL text.
- MySQL itself, transactions over several statements (the program has none), a lost
  connection to MySQL, and character sets.
- MFC painting and start-up code, `InitSockLib`, log output; `SpinLock` and `CSpinLock`, which
  nothing instantiates; `OnBnClickedButtonUnionCheck`, which has no body. After `Close`
  nothing is promised: unacknowledged packets stay in `m_mpSend` and the threads end.
- The vendored headers of MySQL and OpenSSL, about 8 000 of the 11 000 lines of code
  in the repository: they hold no logic of this program.
