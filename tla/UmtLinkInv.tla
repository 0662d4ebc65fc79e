------------------------------ MODULE UmtLinkInv ------------------------------
(***************************************************************************)
(* The inductive invariants behind the safety of the CUMT data path, as    *)
(* long as no sequence number wraps around and none is damaged.            *)
(*                                                                         *)
(* LinkInv holds for any peers: every packet anywhere is one that Send     *)
(* made for that peer, and a receiving end has delivered exactly the       *)
(* packets below m_nNextRecvSeq.  AckInv needs a sending socket with one   *)
(* peer, because an ACK empties m_mpSend by sequence number alone.         *)
(***************************************************************************)
EXTENDS UmtLinkProps

\* No connection makes enough packets for m_nSeq to wrap around.
NoWrap == MaxPackets + 1 < DwordMod

\* Sequence numbers stay what Send made them: they do not wrap around, and the
\* network damages nothing but payloads.
NumbersHold == NoWrap /\ ~NumbersDamaged

\* The sending socket is a client's: all its packets are for the server.
OnePeer == \A p, q \in Peers : p = q

\* The position of the last byte in the first k packets of a stream.
End(pkgs, k) == IF k = 0 THEN 0 ELSE LastByte(pkgs[k].data)

\* Sequence numbers count the packets from 1, and the packets of the stream
\* of p follow one another without a gap.
Contiguous(p) ==
  /\ Len(stream[p]) <= MaxPackets
  /\ nextSendSeq[p] = Len(stream[p]) + 1
  /\ \A k \in 1 .. Len(stream[p]) :
       /\ stream[p][k].peer = p
       /\ stream[p][k].seq = k
       /\ stream[p][k].check = Crc32(stream[p][k].data)
       /\ stream[p][k].data.first = End(stream[p], k - 1) + 1
       /\ LastByte(stream[p][k].data) <= sent[p]
       /\ \A j \in 1 .. k - 1 :
            LastByte(stream[p][j].data) < stream[p][k].data.first
  /\ sent[p] = End(stream[p], Len(stream[p]))

StreamInv == \A p \in Peers : Contiguous(p)

\* pkg is the packet Send made for p under its number.
Made(p, pkg) ==
  /\ pkg.seq \in 1 .. Len(stream[p])
  /\ pkg = stream[p][pkg.seq]

\* No container and no datagram holds anything else.
PacketInv ==
  /\ \A pkg \in mpSend \union net : Made(pkg.peer, pkg)
  /\ \A p \in Peers :
       /\ \A t \in RecvThreads : \A pkg \in held[p][t] : Made(p, pkg)
       /\ \A pkg \in mpRecv[p] : Made(p, pkg) /\ pkg.seq >= nextRecvSeq[p]

\* What was delivered to the reader of p are the packets below
\* m_nNextRecvSeq.
DeliveredInOrder(p) ==
  /\ nextRecvSeq[p] \in 1 .. Len(stream[p]) + 1
  /\ Delivered(p) = End(stream[p], nextRecvSeq[p] - 1)
  /\ \A i \in 1 .. Len(got[p]) : got[p][i] = i
  /\ \A i \in 1 .. Len(bufRecv[p]) : bufRecv[p][i] = Len(got[p]) + i

ReceiveInv == \A p \in Peers : DeliveredInOrder(p)

LinkInv == TypeOK /\ StreamInv /\ PacketInv /\ ReceiveInv

\* Packet k is at the receiving end of p.
Arrived(p, k) ==
  \/ \E t \in RecvThreads : stream[p][k] \in held[p][t]
  \/ stream[p][k] \in mpRecv[p]
  \/ k < nextRecvSeq[p]

\* A RecvThread has at most one packet in its hands; only a packet that arrived
\* is ACKed, and until then it stays in m_mpSend.
AckInv ==
  /\ \A p \in Peers, t \in RecvThreads : \A x, y \in held[p][t] : x = y
  /\ \A ack \in acks : /\ ack.seq \in 1 .. Len(stream[ack.peer])
                       /\ Arrived(ack.peer, ack.seq)
  /\ \A p \in Peers : \A k \in 1 .. Len(stream[p]) :
       stream[p][k] \in mpSend \/ Arrived(p, k)

-----------------------------------------------------------------------------
\* The threads past the size check of Send.
Admitted == {a[1] : a \in admitted}

\* The room the size check leaves: each of these threads sends to one peer, and
\* the container has room for what all of them may add.
BoundInv ==
  /\ \A a, b \in admitted : a[1] = b[1] => a = b
  /\ IsFiniteSet(mpSend)
  /\ Cardinality(mpSend) + Cardinality(Admitted) * MaxCount
       <= SendLimit + Cardinality(Senders) * MaxCount
=============================================================================
