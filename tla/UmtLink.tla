------------------------------- MODULE UmtLink -------------------------------
(***************************************************************************)
(* The data path of CUMT (Common/CUMT.cpp) after the handshake: one        *)
(* sending CUMT, its send container m_mpSend and its threads, the UDP      *)
(* network, and the receiving end of each connection.                      *)
(*                                                                         *)
(* The same code runs on both ends.  On the client there is one peer (the  *)
(* server) and Send fills the socket's own m_mpSend (IsCli = TRUE).  On    *)
(* the server every accepted CUMT fills the m_mpSend of the listening      *)
(* socket (IsCli = FALSE): one container, keyed by m_nSeq alone, for all   *)
(* the clients in Peers.                                                   *)
(*                                                                         *)
(* A byte of a stream is represented by its position in that stream, and   *)
(* the map<DWORD, CPackage> containers by the set of the packets in them.  *)
(***************************************************************************)
EXTENDS Naturals, FiniteSets, SequencesExt

CONSTANTS
  Peers,        \* remote ends of the sending socket
  Senders,      \* threads that call Send: the GUI thread, or pool workers
  RecvThreads,  \* RecvThread instances of a receiving end (Init starts two)
  IsCli,        \* m_bIsCli of the sending CUMT
  DataLen,      \* DATALEN, payload bytes of one packet
  SendLens,     \* lengths the application passes to Send
  RecvLens,     \* buffer lengths the application passes to Recv
  SendLimit,    \* the 100 of Send
  DwordMod,     \* 2^32: m_nSeq is a DWORD
  NumbersDamaged, \* the network may damage m_nSeq
  MaxPackets    \* bound: packets ever made for one peer

ASSUME LinkAssumption ==
  /\ IsCli \in BOOLEAN
  /\ DataLen \in Nat \ {0}
  /\ SendLens \subseteq Nat
  /\ RecvLens \subseteq Nat \ {0}
  /\ SendLimit \in Nat
  /\ DwordMod \in Nat \ {0, 1}
  /\ NumbersDamaged \in BOOLEAN
  /\ MaxPackets \in Nat

VARIABLES
  \* the sending end
  nextSendSeq,  \* [Peers -> seq], m_nNextSendSeq
  mpSend,       \* m_mpSend: packets not yet acknowledged
  due,          \* those whose m_tmLastTime is 0 or over m_tmElapse ago
  admitted,     \* <<s, p>>: thread s is past the size check of Send for p
  sndWorking,   \* m_bWorking of the sending end
  \* the network
  net,          \* PT_DATA datagrams that may still arrive
  acks,         \* PT_ACK datagrams that may still arrive
  \* the receiving ends
  held,         \* [Peers -> [RecvThreads -> {} or {pkg}]], ACKed, not stored
  mpRecv,       \* [Peers -> packets], m_mpRecv
  nextRecvSeq,  \* [Peers -> seq], m_nNextRecvSeq
  bufRecv,      \* [Peers -> bytes], m_bufRecv
  handling,     \* [Peers -> BOOLEAN], HandleRecvPkgsThread has m_lckForBufRecv
  reading,      \* [Peers -> BOOLEAN], the reader is past the wait of Recv
  rcvWorking,   \* [Peers -> BOOLEAN], m_bWorking of the receiving end
  \* history
  stream,       \* [Peers -> every packet made, in order]
  sent,         \* [Peers -> number of bytes accepted by Send]
  got           \* [Peers -> bytes returned by Recv]

sndVars == <<nextSendSeq, admitted, stream, sent>>
rcvVars == <<held, mpRecv, nextRecvSeq, bufRecv, handling, reading, got>>
vars == <<sndVars, mpSend, due, net, acks, rcvVars, sndWorking, rcvWorking>>

Seqs == 0 .. DwordMod - 1

\* DWORD arithmetic.
Wrap(n) == n % DwordMod

\* A payload: len bytes from stream position first on.
Span == [first : Nat, len : 1 .. DataLen]
Bytes(data) == [i \in 1 .. data.len |-> data.first + i - 1]
LastByte(data) == data.first + data.len - 1

\* Defect: a checksum that does not depend on the payload.
NoCrc(data) == <<0, 0>>

\* crc32 of a payload, taken as free of collisions.
Crc32(data) == <<data.first, data.len>>

Packet == [peer : Peers, seq : Seqs, data : Span, check : Nat \X Nat]
Ack == [peer : Peers, seq : Seqs]

\* A packet whose payload was damaged: position 0 is in no stream.
Damaged(pkg) == [pkg EXCEPT !.data.first = 0]

\* The numbers that damage may make of m_nSeq, which no checksum covers.
Misread(seq) == IF NumbersDamaged THEN Seqs \ {seq} ELSE {}

\* What may arrive of a packet that was sent.
Copies(pkg) ==
  {pkg, Damaged(pkg)} \union {[pkg EXCEPT !.seq = n] : n \in Misread(pkg.seq)}

-----------------------------------------------------------------------------
(***************************************************************************)
(* The sending end.                                                        *)
(***************************************************************************)

\* Defect: the extra packet also when there is no remainder.
OneTooMany(n) == n \div DataLen + 1

\* dwCnt: full packets, and one more for a remainder.
PacketCount(n) == IF n % DataLen = 0 THEN n \div DataLen
                                     ELSE n \div DataLen + 1

\* Defect: the last packet is as long as the others.
AlwaysFull(n, i) == DataLen

\* dwLen: the last packet takes the rest.
PayloadLen(n, i) ==
  IF i = PacketCount(n) THEN n - (i - 1) * DataLen ELSE DataLen

\* The packets a Send of n bytes to p makes.
Split(p, n) ==
  LET Data(i) == [first |-> sent[p] + (i - 1) * DataLen + 1,
                  len   |-> PayloadLen(n, i)]
  IN  [i \in 1 .. PacketCount(n) |-> [peer  |-> p,
                                      seq   |-> Wrap(nextSendSeq[p] + i - 1),
                                      data  |-> Data(i),
                                      check |-> Crc32(Data(i))]]

\* Defect: the size check looks at a container nobody fills.
NoSizeSeen == 0

\* m_mpSend.size() as Send reads it: an accepted CUMT looks at its own
\* container, which Send never fills.
SizeSeenBySend == IF IsCli THEN Cardinality(mpSend) ELSE 0

\* Send, first critical section: the caller spins until there is room.
BeginSend(s, p) ==
  /\ \A q \in Peers : <<s, q>> \notin admitted
  /\ SizeSeenBySend <= SendLimit
  /\ admitted' = admitted \union {<<s, p>>}
  /\ UNCHANGED <<nextSendSeq, stream, sent, mpSend, due, net, acks, rcvVars,
                 sndWorking, rcvWorking>>

\* map::operator[] = : an entry with the same sequence number is replaced.
Put(map, pkgs) == {q \in map : \A r \in pkgs : q.seq # r.seq} \union pkgs

\* Send, second critical section: split the buffer, queue every packet with
\* time 0.
Send(s, p, n) ==
  LET pkgs == Split(p, n)
  IN  /\ <<s, p>> \in admitted
      /\ Len(stream[p]) + Len(pkgs) <= MaxPackets
      /\ admitted' = admitted \ {<<s, p>>}
      /\ mpSend' = Put(mpSend, Range(pkgs))
      /\ due' = Put(due, Range(pkgs))
      /\ nextSendSeq' = [nextSendSeq EXCEPT ![p] = Wrap(@ + Len(pkgs))]
      /\ stream' = [stream EXCEPT ![p] = @ \o pkgs]
      /\ sent' = [sent EXCEPT ![p] = @ + n]
      /\ UNCHANGED <<net, acks, rcvVars, sndWorking, rcvWorking>>

\* Defect: a packet is dropped from the container once it was sent.
SendOnce ==
  /\ sndWorking
  /\ due # {}
  /\ net' = net \union due
  /\ mpSend' = mpSend \ due
  /\ due' = {}
  /\ UNCHANGED <<sndVars, acks, rcvVars, sndWorking, rcvWorking>>

\* One pass of SendThread over m_mpSend, under its lock.
SendThread ==
  /\ sndWorking
  /\ due # {}
  /\ net' = net \union due
  /\ due' = {}
  /\ UNCHANGED <<sndVars, mpSend, acks, rcvVars, sndWorking, rcvWorking>>

\* m_tmElapse passes since the packet was last sent.
Elapse(pkg) ==
  /\ sndWorking
  /\ pkg \in mpSend \ due
  /\ due' = due \union {pkg}
  /\ UNCHANGED <<sndVars, mpSend, net, acks, rcvVars, sndWorking, rcvWorking>>

\* RecvThread of the sending end, case PT_ACK: erase by sequence number.  The
\* peer the ACK comes from is not looked at, and nothing checks the number.
RecvAck(ack) ==
  /\ sndWorking
  /\ ack \in acks
  /\ \E seq \in {ack.seq} \union Misread(ack.seq) :
       /\ mpSend' = {q \in mpSend : q.seq # seq}
       /\ due' = {q \in due : q.seq # seq}
  /\ acks' = acks \ {ack}
  /\ UNCHANGED <<sndVars, net, rcvVars, sndWorking, rcvWorking>>

-----------------------------------------------------------------------------
(***************************************************************************)
(* The receiving end of p.                                                 *)
(***************************************************************************)

\* Defect: a packet that was delivered before is not ACKed again.
AckNew(p, pkg) ==
  IF pkg.seq < nextRecvSeq[p] THEN {} ELSE {[peer |-> p, seq |-> pkg.seq]}

\* The ACK of an intact packet: every copy gets one.
AckOf(p, pkg) == {[peer |-> p, seq |-> pkg.seq]}

\* RecvThread, case PT_DATA, up to the sendto: an intact packet is ACKed
\* before it is looked up in m_mpRecv.  The datagram stays in net, since the
\* network may deliver it again.
RecvData(p, t, pkg) ==
  /\ rcvWorking[p]
  /\ held[p][t] = {}
  /\ pkg \in net
  /\ pkg.peer = p
  /\ \E arrived \in Copies(pkg) :
       /\ Crc32(arrived.data) = arrived.check
       /\ acks' = acks \union AckOf(p, arrived)
       /\ held' = [held EXCEPT ![p][t] = {arrived}]
  /\ UNCHANGED <<sndVars, mpSend, due, net, mpRecv, nextRecvSeq, bufRecv,
                 handling, reading, got, sndWorking, rcvWorking>>

\* Defect: only the container is looked at.
InMap(p, pkg) == \E q \in mpRecv[p] : q.seq = pkg.seq

\* Defect: off by one, the next packet to deliver counts as delivered.
SeenOrNext(p, pkg) ==
  \/ \E q \in mpRecv[p] : q.seq = pkg.seq
  \/ pkg.seq <= nextRecvSeq[p]

\* The packet is in the container, or its bytes are in the buffer already.
Seen(p, pkg) ==
  \/ \E q \in mpRecv[p] : q.seq = pkg.seq
  \/ pkg.seq < nextRecvSeq[p]

\* RecvThread, case PT_DATA, under m_lckForRecvMp: keep the packet unless it
\* was seen before.
StoreData(p, t) ==
  \E pkg \in held[p][t] :
    /\ held' = [held EXCEPT ![p][t] = {}]
    /\ mpRecv' = IF Seen(p, pkg)
                 THEN mpRecv
                 ELSE [mpRecv EXCEPT ![p] = @ \union {pkg}]
    /\ UNCHANGED <<sndVars, mpSend, due, net, acks, nextRecvSeq, bufRecv,
                   handling, reading, got, sndWorking, rcvWorking>>

\* HandleRecvPkgsThread takes m_lckForBufRecv ...
BeginHandle(p) ==
  /\ rcvWorking[p]
  /\ ~handling[p]
  /\ handling' = [handling EXCEPT ![p] = TRUE]
  /\ UNCHANGED <<sndVars, mpSend, due, net, acks, held, mpRecv, nextRecvSeq,
                 bufRecv, reading, got, sndWorking, rcvWorking>>

\* ... moves the next packet in order into the buffer while there is one ...
HandlePkg(p) ==
  /\ handling[p]
  /\ \E pkg \in mpRecv[p] :
       /\ pkg.seq = nextRecvSeq[p]
       /\ bufRecv' = [bufRecv EXCEPT ![p] = @ \o Bytes(pkg.data)]
       /\ mpRecv' = [mpRecv EXCEPT ![p] = @ \ {pkg}]
  /\ nextRecvSeq' = [nextRecvSeq EXCEPT ![p] = Wrap(@ + 1)]
  /\ UNCHANGED <<sndVars, mpSend, due, net, acks, held, handling, reading, got,
                 sndWorking, rcvWorking>>

\* ... and releases the lock when there is none.
EndHandle(p) ==
  /\ handling[p]
  /\ \A pkg \in mpRecv[p] : pkg.seq # nextRecvSeq[p]
  /\ handling' = [handling EXCEPT ![p] = FALSE]
  /\ UNCHANGED <<sndVars, mpSend, due, net, acks, held, mpRecv, nextRecvSeq,
                 bufRecv, reading, got, sndWorking, rcvWorking>>

\* Defect: the last byte read stays in the buffer.
ReadShort(buf, len) == SubSeq(buf, len, Len(buf))

\* CByteStreamBuff::Read: what is left when the first len bytes are taken.
Read(buf, len) == SubSeq(buf, len + 1, Len(buf))

\* Recv, first critical section: the reader waits until there is something.
BeginRecv(p) ==
  /\ ~handling[p]
  /\ ~reading[p]
  /\ bufRecv[p] # <<>>
  /\ reading' = [reading EXCEPT ![p] = TRUE]
  /\ UNCHANGED <<sndVars, mpSend, due, net, acks, held, mpRecv, nextRecvSeq,
                 bufRecv, handling, got, sndWorking, rcvWorking>>

\* Recv, second critical section, with a buffer of n bytes: take what is there
\* by now, at most n bytes.
Recv(p, n) ==
  LET size == Len(bufRecv[p])
      len  == IF size > n THEN n ELSE size
  IN  /\ ~handling[p]
      /\ reading[p]
      /\ reading' = [reading EXCEPT ![p] = FALSE]
      /\ got' = [got EXCEPT ![p] = @ \o SubSeq(bufRecv[p], 1, len)]
      /\ bufRecv' = [bufRecv EXCEPT ![p] = Read(@, len)]
      /\ UNCHANGED <<sndVars, mpSend, due, net, acks, held, mpRecv,
                     nextRecvSeq, handling, sndWorking, rcvWorking>>

-----------------------------------------------------------------------------
(***************************************************************************)
(* The network, and Close.                                                 *)
(***************************************************************************)

\* A datagram is lost, or will not be delivered once more.
LoseData(pkg) ==
  /\ net' = net \ {pkg}
  /\ UNCHANGED <<sndVars, mpSend, due, acks, rcvVars, sndWorking, rcvWorking>>

LoseAck(ack) ==
  /\ acks' = acks \ {ack}
  /\ UNCHANGED <<sndVars, mpSend, due, net, rcvVars, sndWorking, rcvWorking>>

\* Close: clear m_bWorking and close the socket; nothing is flushed.
CloseSender ==
  /\ sndWorking
  /\ sndWorking' = FALSE
  /\ UNCHANGED <<sndVars, mpSend, due, net, acks, rcvVars, rcvWorking>>

CloseReceiver(p) ==
  /\ rcvWorking[p]
  /\ rcvWorking' = [rcvWorking EXCEPT ![p] = FALSE]
  /\ UNCHANGED <<sndVars, mpSend, due, net, acks, rcvVars, sndWorking>>

-----------------------------------------------------------------------------
\* Both ends have been through the handshake: sequence numbers start at 1.
Init ==
  /\ nextSendSeq = [p \in Peers |-> Wrap(1)]
  /\ mpSend = {}
  /\ due = {}
  /\ admitted = {}
  /\ sndWorking = TRUE
  /\ net = {}
  /\ acks = {}
  /\ held = [p \in Peers |-> [t \in RecvThreads |-> {}]]
  /\ mpRecv = [p \in Peers |-> {}]
  /\ nextRecvSeq = [p \in Peers |-> Wrap(1)]
  /\ bufRecv = [p \in Peers |-> <<>>]
  /\ handling = [p \in Peers |-> FALSE]
  /\ reading = [p \in Peers |-> FALSE]
  /\ rcvWorking = [p \in Peers |-> TRUE]
  /\ stream = [p \in Peers |-> <<>>]
  /\ sent = [p \in Peers |-> 0]
  /\ got = [p \in Peers |-> <<>>]

SendStep ==
  \/ \E s \in Senders, p \in Peers : BeginSend(s, p)
  \/ \E s \in Senders, p \in Peers, n \in SendLens : Send(s, p, n)
  \/ SendThread
  \/ \E pkg \in mpSend : Elapse(pkg)
  \/ \E ack \in acks : RecvAck(ack)

ReceiveStep ==
  \E p \in Peers :
    \/ \E t \in RecvThreads : \/ \E pkg \in net : RecvData(p, t, pkg)
                              \/ StoreData(p, t)
    \/ BeginHandle(p)
    \/ HandlePkg(p)
    \/ EndHandle(p)
    \/ BeginRecv(p)
    \/ \E n \in RecvLens : Recv(p, n)

NetworkStep ==
  \/ \E pkg \in net : LoseData(pkg)
  \/ \E ack \in acks : LoseAck(ack)

CloseStep == CloseSender \/ \E p \in Peers : CloseReceiver(p)

Next == SendStep \/ ReceiveStep \/ NetworkStep \/ CloseStep

Spec == Init /\ [][Next]_vars
=============================================================================
