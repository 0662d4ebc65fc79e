------------------------- MODULE UmtHandshakeProps --------------------------
(***************************************************************************)
(* What the handshake of CUMT must guarantee.                              *)
(***************************************************************************)
EXTENDS UmtHandshake

Datagram ==
  [to : {"server"}, pt : {"SYN", "SYN|ACK", "DATA"}, addr : Addrs, seq : Nat,
   by : Clients]
  \union [to : {"client"}, pt : {"SYN|ACK", "ACK"}, addr : Addrs, seq : Nat]

Cumts == 1 .. Len(owner)

\* Type correctness: no two programs have one port, a program and its threads
\* use sockets that are open, and m_accp holds each CUMT until it is accepted.
TypeOK ==
  /\ gui \in [Clients -> {"idle", "waiting", "answered", "asking", "gone"}]
  /\ sock \in [Clients -> Addrs \union {NoAddr}]
  /\ ports \in [Clients -> SUBSET Addrs]
  /\ working \in [Clients -> BOOLEAN]
  /\ nextSendSeq \in [Clients -> Nat]
  /\ nextRecvSeq \in [Clients -> {0, 1}]
  /\ mpSend \in [Clients -> SUBSET Nat]
  /\ reading \in [Clients -> [RecvThreads -> Addrs \union {NoAddr}]]
  /\ net \subseteq Datagram
  /\ server \in {"new", "up", "deaf"}
  /\ owner \in Seq(Addrs)
  /\ accp \in Seq(Cumts)
  /\ connent \in [Addrs -> 0 .. Len(owner)]
  /\ held \in [RecvThreads -> SUBSET (Cumts \X Clients \X Nat)]
  /\ stored \subseteq Cumts \X Clients \X Nat
  /\ told \in [Clients -> {"nothing", "failed", "connected"}]
  /\ \A c, d \in Clients : c # d => ports[c] \intersect ports[d] = {}
  /\ \A c \in Clients :
       /\ sock[c] \in ports[c] \union {NoAddr}
       /\ \A t \in RecvThreads : reading[c][t] \in ports[c] \union {NoAddr}
       /\ mpSend[c] \subseteq asked[c]

\* m_Connent of the server never names more addresses than there are clients
\* that sent the third packet, though a client whose Init failed after it counts
\* as one: a first packet on its own adds none, nor does a third packet that is
\* repeated, which makes another CUMT but no other entry.
NoGhostConnection ==
  Cardinality({a \in Addrs : connent[a] # 0})
    <= Cardinality({c \in Clients : nextRecvSeq[c] > 0})

\* A request that the ACK of the server has taken out of m_mpSend of the client
\* is with the server, also when it arrived before the connection was accepted.
AckedIsKept ==
  \A c \in Clients : \A n \in asked[c] \ mpSend[c] :
    \/ \E s \in stored : s[2] = c /\ s[3] = n
    \/ \E t \in RecvThreads : \E s \in held[t] : s[2] = c /\ s[3] = n

\* Requests go to one reader: the CUMT that holds packets of a client is the one
\* m_Connent names for its address, and it has them from no other client, though
\* a repeated third packet makes further CUMTs with threads of their own.
OneReader ==
  /\ \A s \in stored : connent[owner[s[1]]] = s[1]
  /\ \A s, r \in stored : s[1] = r[1] <=> s[2] = r[2]

-----------------------------------------------------------------------------
(***************************************************************************)
(* Liveness.                                                               *)
(***************************************************************************)
\* The threads of a process run, and the network is as in UmtLink: what is sent
\* from an address again and again is received again and again (a request waits in
\* the socket while the threads are busy).  Nobody has to press a button.
From(d, a) == d.addr = a

RecvRequest(a) ==
  \E t \in RecvThreads, d \in net : From(d, a) /\ RecvData(t, d)

RequestsGetThrough(a) ==
  []<>(server = "up" /\ \E d \in net : From(d, a) /\ d.pt = "DATA")
    => []<><<RecvRequest(a)>>_vars

Fairness ==
  /\ WF_vars(Start)
  /\ WF_vars(Accept)
  /\ \A t \in RecvThreads : WF_vars(StoreData(t))
  /\ \A a \in Addrs :
       /\ SF_vars(\E d \in net : From(d, a) /\ RecvSyn(d))
       /\ SF_vars(\E d \in net : From(d, a) /\ RecvThird(d))
       /\ RequestsGetThrough(a)
  /\ \A c \in Clients :
       /\ WF_vars(\E d \in net : TakeAnswer(c, d))
       /\ WF_vars(SendThird(c))
       /\ WF_vars(\E n \in mpSend[c] : SendThread(c, n))
       /\ WF_vars(Answer(c))

FairSpec == Spec /\ Fairness

\* Connect comes back and the dialog says whether it is connected
\* (UserDlg.cpp:727).
ConnectReturns == \A c \in Clients : gui[c] = "waiting" ~> gui[c] # "waiting"

\* When Connect has returned TRUE, the server has the connection in the end.
ConnectedIsAccepted ==
  \A c \in Clients : \A a \in Addrs :
    (told[c] = "connected" /\ sock[c] = a) ~> (connent[a] # 0 \/ sock[c] # a)

\* A request made over a connection is answered.
RequestAnswered ==
  \A c \in Clients :
    (gui[c] = "asking" /\ told[c] = "connected") ~> gui[c] # "asking"
=============================================================================
