-------------------------- MODULE UmtHandshakeInv ---------------------------
(***************************************************************************)
(* The inductive invariant of the handshake.  TypeInv holds in general,    *)
(* CountInv with finitely many clients, and KeptInv when no address is     *)
(* given out twice.                                                        *)
(***************************************************************************)
EXTENDS UmtHandshakeProps

\* The packets the server has stored, or is about to store.
Kept == stored \union UNION {held[t] : t \in RecvThreads}

\* Addresses from which a third packet is under way or has arrived.
Thirds ==
  {d.addr : d \in {e \in net : e.to = "server" /\ e.pt = "SYN|ACK"}}
  \union {owner[k] : k \in Cumts}

Connected == {c \in Clients : nextRecvSeq[c] > 0}

\* As a socket or a packet shows, a is an address of c.
Claims(a, c) ==
  \/ a \in ports[c]
  \/ \E d \in net : d.to = "server" /\ d.addr = a /\ d.by = c
  \/ \E s \in Kept : owner[s[1]] = a /\ s[2] = c

-----------------------------------------------------------------------------
\* Connect has its socket until it returns, and is answered at most once in the
\* life of a client, as the number of every answer is 0.
ConnectInv ==
  /\ \A c \in Clients :
       /\ gui[c] \in {"waiting", "answered"} => sock[c] \in ports[c]
       /\ gui[c] = "answered" => nextRecvSeq[c] = 0
  /\ \A d \in net : d.to = "client" /\ d.pt = "SYN|ACK" => d.seq = 0

\* m_Connent has a CUMT under its own address; a thread stores one packet.
CumtInv ==
  /\ \A a \in Addrs : connent[a] # 0 => owner[connent[a]] = a
  /\ \A t \in RecvThreads : \A s, r \in held[t] : s = r

TypeInv ==
  /\ TypeOK
  /\ used \subseteq Addrs
  /\ asked \in [Clients -> SUBSET Nat]
  /\ ConnectInv
  /\ CumtInv

\* Each client has sent at most one third packet.
CountInv ==
  /\ IsFiniteSet(Thirds)
  /\ Cardinality(Thirds) <= Cardinality(Connected)

-----------------------------------------------------------------------------
\* An address belongs to one client for ever.
ClaimInv ==
  /\ Thirds \subseteq used
  /\ \A a \in Addrs : \A c \in Clients :
       Claims(a, c) => /\ a \in used
                       /\ \A e \in Clients : Claims(a, e) => c = e

\* A client has sent the third packet from one of its addresses only.
ThirdInv ==
  \A c \in Clients : \A a \in Thirds :
    Claims(a, c) => /\ nextRecvSeq[c] # 0
                    /\ \A b \in Thirds : Claims(b, c) => a = b

\* The server ACKs what it keeps, in the CUMT m_Connent names.
AckInv ==
  /\ \A d \in net :
       d.pt = "ACK" => \E s \in Kept : owner[s[1]] = d.addr /\ s[3] = d.seq
  /\ \A s \in Kept : connent[owner[s[1]]] = s[1]

KeptInv == ClaimInv /\ ThirdInv /\ AckInv /\ AckedIsKept
=============================================================================
