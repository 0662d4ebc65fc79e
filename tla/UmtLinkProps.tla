---------------------------- MODULE UmtLinkProps -----------------------------
(***************************************************************************)
(* What the data path of CUMT must guarantee, and the fairness under which *)
(* it makes progress.                                                      *)
(***************************************************************************)
EXTENDS UmtLink

(***************************************************************************)
(* Types.                                                                  *)
(***************************************************************************)
\* Type correctness of the two ends and of the datagrams between them: every
\* packet carries between 1 and DATALEN bytes and a DWORD sequence number.
TypeOK ==
  /\ nextSendSeq \in [Peers -> Seqs]
  /\ mpSend \in SUBSET Packet
  /\ due \in SUBSET mpSend
  /\ admitted \in SUBSET (Senders \X Peers)
  /\ sndWorking \in BOOLEAN
  /\ net \in SUBSET Packet
  /\ acks \in SUBSET Ack
  /\ held \in [Peers -> [RecvThreads -> SUBSET Packet]]
  /\ mpRecv \in [Peers -> SUBSET Packet]
  /\ nextRecvSeq \in [Peers -> Seqs]
  /\ bufRecv \in [Peers -> Seq(Nat)]
  /\ handling \in [Peers -> BOOLEAN]
  /\ reading \in [Peers -> BOOLEAN]
  /\ rcvWorking \in [Peers -> BOOLEAN]
  /\ stream \in [Peers -> Seq(Packet)]
  /\ sent \in [Peers -> Nat]
  /\ got \in [Peers -> Seq(Nat)]

(***************************************************************************)
(* Safety.                                                                 *)
(***************************************************************************)
\* Bytes moved from packets into m_bufRecv so far.
Delivered(p) == Len(got[p]) + Len(bufRecv[p])

\* The bytes the reader of p got, then those waiting in its buffer, are the
\* first bytes handed to Send, each once and in order, whatever the network
\* lost, repeated or reordered, whatever it did to the payloads, which the
\* checksum covers, and whichever RecvThread took what.
InOrder ==
  \A p \in Peers :
    /\ Delivered(p) <= sent[p]
    /\ \A i \in 1 .. Len(got[p]) : got[p][i] = i
    /\ \A i \in 1 .. Len(bufRecv[p]) : bufRecv[p][i] = Len(got[p]) + i

\* Nothing is lost inside the two programs: a packet Send made is still in
\* m_mpSend, or in the hands of a RecvThread that has ACKed it, or in m_mpRecv,
\* or in the buffer.  RecvThread ACKs before it stores, so the ACK may empty
\* m_mpSend before the packet is in any container.
NothingLost ==
  \A p \in Peers : \A k \in DOMAIN stream[p] :
    LET pkg == stream[p][k]
    IN  \/ pkg \in mpSend
        \/ \E t \in RecvThreads : pkg \in held[p][t]
        \/ pkg \in mpRecv[p]
        \/ LastByte(pkg.data) <= Delivered(p)

\* m_mpRecv holds no packet that HandleRecvPkgsThread will never take: one
\* whose bytes are in the buffer already, or two with the same number.
RecvMapAhead ==
  \A p \in Peers : \A q \in mpRecv[p] :
    /\ q.data.first > Delivered(p)
    /\ \A r \in mpRecv[p] : q.seq = r.seq => q = r

\* The largest number of packets one Send makes.
MaxCount == Max({PacketCount(n) : n \in SendLens})

\* The send container stays "at about 100 packets": the limit plus what each
\* thread already past the check may still add.
SendMapBounded ==
  Cardinality(mpSend) <= SendLimit + Cardinality(Senders) * MaxCount

(***************************************************************************)
(* Refinement: CUMT is a set of byte pipes.                                *)
(***************************************************************************)
Pipes == INSTANCE BytePipes WITH
           sent <- [p \in Peers |-> [i \in 1 .. sent[p] |-> i]],
           got  <- got

\* Send and Recv are the only steps an application sees, and they act as on a
\* reliable pipe.
ImplementsPipes == Pipes!Spec

(***************************************************************************)
(* Liveness.                                                               *)
(***************************************************************************)
\* The k-th packet for p is among pkgs.
Kth(p, k, pkgs) == k \in DOMAIN stream[p] /\ stream[p][k] \in pkgs

\* The network may lose any copy of a datagram but not all of them: one that is
\* on the wire again and again is received again and again.
FairLoss ==
  /\ \A p \in Peers, k \in 1 .. MaxPackets :
       []<>(Kth(p, k, net) /\ rcvWorking[p])
         => []<><<\E t \in RecvThreads :
                    Kth(p, k, net) /\ RecvData(p, t, stream[p][k])>>_vars
  /\ \A p \in Peers, k \in 1 .. MaxPackets :
       SF_vars(RecvAck([peer |-> p, seq |-> Wrap(k)]))

\* The threads of CUMT loop for ever, time passes, and the application keeps
\* reading (the loop of _Thread on the server, the Recv of DealMessage on the
\* client).  Between two passes HandleRecvPkgsThread sleeps with its lock
\* free, so Recv gets it.
Fairness ==
  /\ WF_vars(SendThread)
  /\ \A p \in Peers, k \in 1 .. MaxPackets :
       WF_vars(Kth(p, k, mpSend) /\ Elapse(stream[p][k]))
  /\ \A p \in Peers :
       /\ \A t \in RecvThreads : WF_vars(StoreData(p, t))
       /\ WF_vars(BeginHandle(p))
       /\ WF_vars(HandlePkg(p))
       /\ WF_vars(EndHandle(p))
       /\ SF_vars(BeginRecv(p))
       /\ SF_vars(\E n \in RecvLens : Recv(p, n))

FairSpec == Spec /\ Fairness /\ FairLoss

Up(p) == sndWorking /\ rcvWorking[p]

\* Every packet made is read to its last byte at the other end, unless an end
\* is closed: retransmission makes up for every loss.
EventuallyRead ==
  \A p \in Peers : \A k \in 1 .. MaxPackets :
    (k \in DOMAIN stream[p])
      ~> \/ ~Up(p)
         \/ k \in DOMAIN stream[p] /\ Len(got[p]) >= LastByte(stream[p][k].data)

\* m_mpSend empties again and again, unless an end is closed: a packet whose ACK
\* was lost is ACKed once more although the receiver has it.
EventuallyAcked ==
  []<>(mpSend = {} \/ \E p \in Peers : ~Up(p))
=============================================================================
