------------------------- MODULE UmtHandshakeProofs -------------------------
(***************************************************************************)
(* The handshake of CUMT for every number of clients, addresses, threads   *)
(* and CUMTs.                                                              *)
(***************************************************************************)
EXTENDS UmtHandshakeInv, FiniteSetTheorems, TLAPS

-----------------------------------------------------------------------------
(***************************************************************************)
(* Types.  What a client does leaves the server alone, and conversely.     *)
(***************************************************************************)
ClientTypes ==
  /\ gui \in [Clients -> {"idle", "waiting", "answered", "asking", "gone"}]
  /\ sock \in [Clients -> Addrs \union {NoAddr}]
  /\ ports \in [Clients -> SUBSET Addrs]
  /\ working \in [Clients -> BOOLEAN]
  /\ nextSendSeq \in [Clients -> Nat]
  /\ nextRecvSeq \in [Clients -> {0, 1}]
  /\ mpSend \in [Clients -> SUBSET Nat]
  /\ reading \in [Clients -> [RecvThreads -> Addrs \union {NoAddr}]]
  /\ told \in [Clients -> {"nothing", "failed", "connected"}]
  /\ \A c, d \in Clients : c # d => ports[c] \intersect ports[d] = {}
  /\ \A c \in Clients :
       /\ sock[c] \in ports[c] \union {NoAddr}
       /\ \A t \in RecvThreads : reading[c][t] \in ports[c] \union {NoAddr}
       /\ mpSend[c] \subseteq asked[c]
  /\ used \subseteq Addrs
  /\ asked \in [Clients -> SUBSET Nat]
  /\ \A c \in Clients :
       /\ gui[c] \in {"waiting", "answered"} => sock[c] \in ports[c]
       /\ gui[c] = "answered" => nextRecvSeq[c] = 0

NetTypes ==
  /\ net \subseteq Datagram
  /\ \A d \in net : d.to = "client" /\ d.pt = "SYN|ACK" => d.seq = 0

ServerTypes ==
  /\ server \in {"new", "up", "deaf"}
  /\ owner \in Seq(Addrs)
  /\ accp \in Seq(Cumts)
  /\ connent \in [Addrs -> 0 .. Len(owner)]
  /\ held \in [RecvThreads -> SUBSET (Cumts \X Clients \X Nat)]
  /\ stored \subseteq Cumts \X Clients \X Nat
  /\ CumtInv

LEMMA TypeParts == TypeInv <=> ClientTypes /\ NetTypes /\ ServerTypes
BY Zenon DEF TypeInv, TypeOK, ConnectInv, ClientTypes, NetTypes, ServerTypes

LEMMA TypePartsNext == ClientTypes' /\ NetTypes' /\ ServerTypes' => TypeInv'
BY Zenon DEF TypeInv, TypeOK, ConnectInv, ClientTypes, NetTypes, ServerTypes

LEMMA TypeInvInit == Init => TypeInv
<1> SUFFICES ASSUME Init PROVE ClientTypes /\ NetTypes /\ ServerTypes
  BY TypeParts
<1>1. ClientTypes
  BY DEF Init, ClientTypes
<1>2. NetTypes
  BY DEF Init, NetTypes
<1>3. ServerTypes
  BY DEF Init, ServerTypes, CumtInv, Cumts
<1> QED
  BY <1>1, <1>2, <1>3

\* Datagrams are lost, received and sent.
LEMMA LeftTypes ==
  ASSUME NetTypes, NEW d \in net, net' \in Left(d) PROVE NetTypes'
BY DEF NetTypes, Left

LEMMA SentByClient ==
  ASSUME NetTypes, ClientTypes, NEW c \in Clients, NEW a \in Addrs,
         NEW pt \in {"SYN", "SYN|ACK", "DATA"}, NEW n \in Nat,
         net' = net \union {FromClient(pt, a, n, c)}
  PROVE  NetTypes'
<1>1. FromClient(pt, a, n, c) \in Datagram
  BY DEF FromClient, Datagram
<1>2. FromClient(pt, a, n, c).to = "server"
  BY DEF FromClient
<1> QED
  BY <1>1, <1>2 DEF NetTypes

LEMMA SentByServer ==
  ASSUME NetTypes, NEW d \in net, NEW a \in Addrs, NEW n \in Nat,
         NEW pt \in {"SYN|ACK", "ACK"}, pt = "SYN|ACK" => n = 0,
         net' \in {left \union {ToClient(pt, a, n)} : left \in Left(d)}
  PROVE  NetTypes'
<1>1. ToClient(pt, a, n) \in Datagram
  BY DEF ToClient, Datagram
<1>2. /\ ToClient(pt, a, n).pt = pt
      /\ ToClient(pt, a, n).seq = n
  BY DEF ToClient
<1>3. net' \subseteq net \union {ToClient(pt, a, n)}
  BY DEF Left
<1> QED
  BY <1>1, <1>2, <1>3 DEF NetTypes

-----------------------------------------------------------------------------
LEMMA SendSynTypes ==
  ASSUME ClientTypes, NetTypes, ServerTypes, NEW c \in Clients,
         NEW a \in Addrs, SendSyn(c, a)
  PROVE  ClientTypes' /\ NetTypes' /\ ServerTypes'
<1>1. ClientTypes'
  BY SMTT(30) DEF ClientTypes, SendSyn, CanPress, cliVars
<1>2. NetTypes'
  BY SentByClient DEF SendSyn, ClientTypes
<1>3. ServerTypes'
  BY DEF SendSyn, srvVars, ServerTypes, CumtInv, Cumts
<1> QED
  BY <1>1, <1>2, <1>3

LEMMA FailSynTypes ==
  ASSUME ClientTypes, NetTypes, ServerTypes, NEW c \in Clients, FailSyn(c)
  PROVE  ClientTypes' /\ NetTypes' /\ ServerTypes'
<1>1. working' \in [Clients -> BOOLEAN]
  BY Zenon DEF ClientTypes, FailSyn
<1>2. ClientTypes'
  <2>1. /\ gui' = [gui EXCEPT ![c] = "idle"]
        /\ told' = [told EXCEPT ![c] = "failed"]
        /\ sock' = [sock EXCEPT ![c] = NoAddr]
        /\ UNCHANGED <<ports, nextSendSeq, nextRecvSeq, mpSend, reading, used,
                       asked>>
    BY DEF FailSyn, Tell
  <2> QED
    BY <1>1, <2>1 DEF ClientTypes
<1>3. NetTypes'
  BY DEF FailSyn, NetTypes
<1>4. ServerTypes'
  BY DEF FailSyn, srvVars, ServerTypes, CumtInv, Cumts
<1> QED
  BY <1>2, <1>3, <1>4

LEMMA TakeAnswerTypes ==
  ASSUME ClientTypes, NetTypes, ServerTypes, NEW c \in Clients, NEW d \in net,
         TakeAnswer(c, d)
  PROVE  ClientTypes' /\ NetTypes' /\ ServerTypes'
<1>1. ASSUME IsAnswer(c, d) PROVE ClientTypes'
  <2>1. gui' = [gui EXCEPT ![c] = "answered"] /\ nextRecvSeq[c] = 0
    BY <1>1 DEF TakeAnswer, IsAnswer, NetTypes
  <2> QED
    BY <1>1, <2>1 DEF TakeAnswer, ClientTypes
<1>2. ASSUME ~IsAnswer(c, d) PROVE ClientTypes'
  <2>1. Tell(c, "failed") /\ Clear(c)
    BY <1>2 DEF TakeAnswer
  <2> QED
    BY <2>1, SMTT(30) DEF TakeAnswer, Tell, Clear, ClientTypes
<1>3. NetTypes'
  BY LeftTypes DEF TakeAnswer
<1>4. ServerTypes'
  BY DEF TakeAnswer, srvVars, ServerTypes, CumtInv, Cumts
<1> QED
  BY <1>1, <1>2, <1>3, <1>4

LEMMA SendThirdTypes ==
  ASSUME ClientTypes, NetTypes, ServerTypes, NEW c \in Clients, SendThird(c)
  PROVE  ClientTypes' /\ NetTypes' /\ ServerTypes'
<1>1. sock[c] \in ports[c] /\ sock[c] \in Addrs /\ nextRecvSeq[c] = 0
  BY DEF SendThird, ClientTypes
<1>2. ASSUME Tell(c, "connected"), UNCHANGED <<sock, ports>>,
             working' = [working EXCEPT ![c] = TRUE],
             reading' = [reading EXCEPT ![c] = [t \in RecvThreads |-> sock[c]]]
      PROVE  ClientTypes'
  BY <1>1, <1>2, SMTT(30) DEF SendThird, Tell, ClientTypes
<1>3. ASSUME Tell(c, "failed"), Clear(c) PROVE ClientTypes'
  BY <1>1, <1>3, SMTT(30) DEF SendThird, Tell, Clear, ClientTypes
<1>4. ClientTypes'
  BY <1>2, <1>3 DEF SendThird
<1>5. NetTypes'
  BY <1>1, SentByClient DEF SendThird, ClientTypes
<1>6. ServerTypes'
  BY DEF SendThird, srvVars, ServerTypes, CumtInv, Cumts
<1> QED
  BY <1>4, <1>5, <1>6

LEMMA FailConnectTypes ==
  ASSUME ClientTypes, NetTypes, ServerTypes, NEW c \in Clients, FailConnect(c)
  PROVE  ClientTypes' /\ NetTypes' /\ ServerTypes'
<1>1. ClientTypes'
  BY SMTT(30) DEF FailConnect, Tell, Clear, ClientTypes
<1>2. NetTypes'
  BY DEF FailConnect, NetTypes
<1>3. ServerTypes'
  BY DEF FailConnect, srvVars, ServerTypes, CumtInv, Cumts
<1> QED
  BY <1>1, <1>2, <1>3

LEMMA AskTypes ==
  ASSUME ClientTypes, NetTypes, ServerTypes, NEW c \in Clients, Ask(c)
  PROVE  ClientTypes' /\ NetTypes' /\ ServerTypes'
<1>1. ClientTypes'
  BY SMTT(30) DEF Ask, ClientTypes
<1>2. NetTypes'
  BY DEF Ask, NetTypes
<1>3. ServerTypes'
  BY DEF Ask, srvVars, ServerTypes, CumtInv, Cumts
<1> QED
  BY <1>1, <1>2, <1>3

LEMMA SendThreadTypes ==
  ASSUME ClientTypes, NetTypes, ServerTypes, NEW c \in Clients,
         NEW n \in mpSend[c], SendThread(c, n)
  PROVE  ClientTypes' /\ NetTypes' /\ ServerTypes'
<1>1. n \in Nat /\ sock[c] \in Addrs
  BY DEF SendThread, ClientTypes
<1>2. NetTypes'
  BY <1>1, SentByClient DEF SendThread
<1>3. ClientTypes' /\ ServerTypes'
  BY DEF SendThread, cliVars, srvVars, ClientTypes, ServerTypes, CumtInv, Cumts
<1> QED
  BY <1>2, <1>3

LEMMA ClientRecvTypes ==
  ASSUME ClientTypes, NetTypes, ServerTypes, NEW c \in Clients,
         NEW t \in RecvThreads, NEW d \in net, ClientRecv(c, t, d)
  PROVE  ClientTypes' /\ NetTypes' /\ ServerTypes'
<1>1. /\ reading' \in [Clients -> [RecvThreads -> Addrs \union {NoAddr}]]
      /\ \A e \in Clients : \A u \in RecvThreads :
           reading'[e][u] \in ports[e] \union {NoAddr}
  BY SMTT(30) DEF ClientRecv, ClientTypes
<1>2. /\ mpSend' \in [Clients -> SUBSET Nat]
      /\ \A e \in Clients : mpSend'[e] \subseteq asked[e]
  BY SMTT(30) DEF ClientRecv, ClientTypes
<1>3. ClientTypes'
  BY <1>1, <1>2 DEF ClientRecv, ClientTypes
<1>4. NetTypes'
  BY LeftTypes DEF ClientRecv
<1>5. ServerTypes'
  BY DEF ClientRecv, srvVars, ServerTypes, CumtInv, Cumts
<1> QED
  BY <1>3, <1>4, <1>5

LEMMA QuitTypes ==
  ASSUME ClientTypes, NetTypes, ServerTypes, NEW c \in Clients, Quit(c)
  PROVE  ClientTypes' /\ NetTypes' /\ ServerTypes'
<1>1. ClientTypes'
  BY SMTT(30) DEF Quit, ClientTypes
<1>2. NetTypes'
  BY DEF Quit, NetTypes
<1>3. ServerTypes'
  BY DEF Quit, srvVars, ServerTypes, CumtInv, Cumts
<1> QED
  BY <1>1, <1>2, <1>3

LEMMA AnswerTypes ==
  ASSUME ClientTypes, NetTypes, ServerTypes, NEW c \in Clients, Answer(c)
  PROVE  ClientTypes' /\ NetTypes' /\ ServerTypes'
<1>1. ClientTypes'
  BY SMTT(30) DEF Answer, ClientTypes
<1>2. NetTypes'
  BY DEF Answer, NetTypes
<1>3. ServerTypes'
  BY DEF Answer, srvVars, ServerTypes, CumtInv, Cumts
<1> QED
  BY <1>1, <1>2, <1>3

-----------------------------------------------------------------------------
LEMMA ClientsKept ==
  ASSUME ClientTypes, UNCHANGED cliVars PROVE ClientTypes'
BY DEF ClientTypes, cliVars

LEMMA StartTypes ==
  ASSUME ClientTypes, NetTypes, ServerTypes, Start
  PROVE  ClientTypes' /\ NetTypes' /\ ServerTypes'
<1>1. NetTypes' /\ ServerTypes'
  BY DEF Start, NetTypes, ServerTypes, CumtInv, Cumts
<1> QED
  BY <1>1, ClientsKept DEF Start

\* The datagrams of clients.
LEMMA FromClients ==
  ASSUME NetTypes, NEW d \in net, d.to = "server"
  PROVE  d.addr \in Addrs /\ d.seq \in Nat /\ d.by \in Clients
BY DEF NetTypes, Datagram

LEMMA RecvSynTypes ==
  ASSUME ClientTypes, NetTypes, ServerTypes, NEW d \in net, RecvSyn(d)
  PROVE  ClientTypes' /\ NetTypes' /\ ServerTypes'
<1>1. d.addr \in Addrs
  BY FromClients DEF RecvSyn, Receives
<1>2. NetTypes'
  BY <1>1, SentByServer DEF RecvSyn
<1>3. ServerTypes'
  BY DEF RecvSyn, srvVars, ServerTypes, CumtInv, Cumts
<1> QED
  BY <1>2, <1>3, ClientsKept DEF RecvSyn

LEMMA RecvThirdTypes ==
  ASSUME ClientTypes, NetTypes, ServerTypes, NEW d \in net, RecvThird(d)
  PROVE  ClientTypes' /\ NetTypes' /\ ServerTypes'
<1>1. d.addr \in Addrs
  BY FromClients DEF RecvThird, Receives
<1>2. NetTypes'
  BY LeftTypes DEF RecvThird
<1>3. /\ owner' \in Seq(Addrs) /\ Len(owner') = Len(owner) + 1
      /\ \A k \in Cumts : owner'[k] = owner[k]
      /\ Len(owner) \in Nat
  BY <1>1 DEF RecvThird, ServerTypes, Cumts
<1>4. Cumts \subseteq Cumts' /\ Len(owner) + 1 \in Cumts'
  BY <1>3 DEF Cumts
<1>5. accp' \in Seq(Cumts')
  BY <1>4 DEF RecvThird, ServerTypes
<1>6. /\ connent' \in [Addrs -> 0 .. Len(owner')]
      /\ \A a \in Addrs : connent'[a] # 0 => owner'[connent'[a]] = a
  BY <1>3 DEF RecvThird, ServerTypes, CumtInv, Cumts
<1>7. /\ held' \in [RecvThreads -> SUBSET (Cumts' \X Clients \X Nat)]
      /\ stored' \subseteq Cumts' \X Clients \X Nat
  BY <1>4 DEF RecvThird, ServerTypes
<1>8. ServerTypes'
  BY <1>3, <1>5, <1>6, <1>7 DEF RecvThird, ServerTypes, CumtInv
<1> QED
  BY <1>2, <1>8, ClientsKept DEF RecvThird

\* What Insert changes.
LEMMA InsertFacts ==
  ASSUME ServerTypes, NEW a \in Addrs, NEW k \in Cumts, owner[k] = a
  PROVE  /\ Insert(a, k) \in [Addrs -> 0 .. Len(owner)]
         /\ \A b \in Addrs : connent[b] # 0 => Insert(a, k)[b] = connent[b]
         /\ \A b \in Addrs :
              Insert(a, k)[b] # 0 => owner[Insert(a, k)[b]] = b
BY DEF Insert, ServerTypes, CumtInv, Cumts

LEMMA AcceptTypes ==
  ASSUME ClientTypes, NetTypes, ServerTypes, Accept
  PROVE  ClientTypes' /\ NetTypes' /\ ServerTypes'
<1>1. /\ accp' \in Seq(Cumts)
      /\ Head(accp) \in Cumts /\ owner[Head(accp)] \in Addrs
  BY DEF Accept, ServerTypes, Cumts
<1>2. NetTypes'
  BY DEF Accept, NetTypes
<1>3. /\ connent' \in [Addrs -> 0 .. Len(owner)]
      /\ \A b \in Addrs : connent'[b] # 0 => owner[connent'[b]] = b
  BY <1>1, InsertFacts DEF Accept
<1>4. ServerTypes'
  BY <1>1, <1>3 DEF Accept, ServerTypes, CumtInv, Cumts
<1> QED
  BY <1>2, <1>4, ClientsKept DEF Accept

LEMMA RecvDataTypes ==
  ASSUME ClientTypes, NetTypes, ServerTypes, NEW t \in RecvThreads,
         NEW d \in net, RecvData(t, d)
  PROVE  ClientTypes' /\ NetTypes' /\ ServerTypes'
<1>1. d.addr \in Addrs /\ d.seq \in Nat /\ d.by \in Clients
  BY FromClients DEF RecvData, Receives
<1>2. NetTypes'
  BY <1>1, LeftTypes, SentByServer DEF RecvData
<1>3. ASSUME connent[d.addr] = 0 PROVE ServerTypes'
  BY <1>3 DEF RecvData, ServerTypes, CumtInv, Cumts
<1>4. ASSUME connent[d.addr] # 0 PROVE ServerTypes'
  <2>1. connent[d.addr] \in Cumts
    BY <1>1, <1>4 DEF ServerTypes, Cumts
  <2>2. held' = [held EXCEPT ![t] = {<<connent[d.addr], d.by, d.seq>>}]
    BY <1>4 DEF RecvData
  <2>3. held' \in [RecvThreads -> SUBSET (Cumts \X Clients \X Nat)]
    BY <1>1, <2>1, <2>2 DEF ServerTypes
  <2>4. \A u \in RecvThreads : \A s, r \in held'[u] : s = r
    BY <2>2 DEF ServerTypes, CumtInv
  <2> QED
    BY <2>3, <2>4 DEF RecvData, ServerTypes, CumtInv, Cumts
<1> QED
  BY <1>2, <1>3, <1>4, ClientsKept DEF RecvData

LEMMA StoreDataTypes ==
  ASSUME ClientTypes, NetTypes, ServerTypes, NEW t \in RecvThreads, StoreData(t)
  PROVE  ClientTypes' /\ NetTypes' /\ ServerTypes'
<1>1. PICK s \in held[t] : /\ held' = [held EXCEPT ![t] = {}]
                           /\ stored' \subseteq stored \union {s}
  BY DEF StoreData
<1>2. UNCHANGED <<cliVars, net, server, owner, accp, connent>>
  BY DEF StoreData
<1>3. s \in Cumts \X Clients \X Nat
  BY DEF ServerTypes
<1>4. held' \in [RecvThreads -> SUBSET (Cumts \X Clients \X Nat)]
  BY <1>1 DEF ServerTypes
<1>5. \A u \in RecvThreads : \A q, r \in held'[u] : q = r
  BY <1>1 DEF ServerTypes, CumtInv
<1>6. stored' \subseteq Cumts \X Clients \X Nat
  BY <1>1, <1>3 DEF ServerTypes
<1>7. ServerTypes'
  BY <1>2, <1>4, <1>5, <1>6 DEF ServerTypes, CumtInv, Cumts
<1>8. NetTypes'
  BY <1>2 DEF NetTypes
<1> QED
  BY <1>2, <1>7, <1>8, ClientsKept

LEMMA LoseTypes ==
  ASSUME ClientTypes, NetTypes, ServerTypes, NEW d \in net, Lose(d)
  PROVE  ClientTypes' /\ NetTypes' /\ ServerTypes'
<1>1. NetTypes' /\ ServerTypes'
  BY DEF Lose, srvVars, NetTypes, ServerTypes, CumtInv, Cumts
<1> QED
  BY <1>1, ClientsKept DEF Lose

LEMMA TypeInvNext == TypeInv /\ [Next]_vars => TypeInv'
<1> SUFFICES ASSUME ClientTypes, NetTypes, ServerTypes, [Next]_vars
             PROVE  ClientTypes' /\ NetTypes' /\ ServerTypes'
  BY TypeParts, TypePartsNext
<1>1. CASE \E c \in Clients : ClientStep(c)
  BY <1>1, SendSynTypes, FailSynTypes, TakeAnswerTypes, SendThirdTypes,
     FailConnectTypes, AskTypes, SendThreadTypes, ClientRecvTypes, QuitTypes,
     AnswerTypes DEF ClientStep
<1>2. CASE ServerStep
  BY <1>2, StartTypes, RecvSynTypes, RecvThirdTypes, AcceptTypes, RecvDataTypes,
     StoreDataTypes DEF ServerStep
<1>3. CASE \E d \in net : Lose(d)
  BY <1>3, LoseTypes
<1>4. CASE UNCHANGED vars
  BY <1>4, ClientsKept
  DEF vars, srvVars, NetTypes, ServerTypes, CumtInv, Cumts
<1> QED
  BY <1>1, <1>2, <1>3, <1>4 DEF Next

\* Type correctness of the handshake, whatever is lost, repeated or fails.
THEOREM HandshakeTypeCorrect == Spec => []TypeOK
<1>1. Spec => []TypeInv
  BY TypeInvInit, TypeInvNext, PTL DEF Spec
<1>2. TypeInv => TypeOK
  BY DEF TypeInv
<1> QED
  BY <1>1, <1>2, PTL

-----------------------------------------------------------------------------
(***************************************************************************)
(* Addresses.  A step leaves the claims as they are, opens a socket, or    *)
(* sends a third packet.                                                   *)
(***************************************************************************)
NoNewClaim ==
  \A a \in Addrs, c \in Clients : Claims(a, c)' => Claims(a, c)

Quiet ==
  /\ NoNewClaim
  /\ Thirds' \subseteq Thirds
  /\ UNCHANGED <<used, nextRecvSeq>>

NewAddress(c, a) ==
  /\ ReusePorts \/ a \notin used
  /\ used' = used \union {a}
  /\ \A b \in Addrs, e \in Clients :
       Claims(b, e)' => Claims(b, e) \/ (b = a /\ e = c)
  /\ Thirds' \subseteq Thirds
  /\ UNCHANGED nextRecvSeq

NewThird(c) ==
  /\ NoNewClaim
  /\ Claims(sock[c], c) /\ sock[c] \in Addrs
  /\ Thirds' \subseteq Thirds \union {sock[c]}
  /\ nextRecvSeq[c] = 0 /\ nextRecvSeq' = [nextRecvSeq EXCEPT ![c] = 1]
  /\ UNCHANGED used

Step == \/ Quiet
        \/ \E c \in Clients, a \in Addrs : NewAddress(c, a)
        \/ \E c \in Clients : NewThird(c)

\* Sockets are closed and a client sends from its own address.
LEMMA ClientClaims ==
  ASSUME \A c \in Clients : ports'[c] \subseteq ports[c],
         \A d \in net' : d.to = "server" => d \in net \/ d.addr \in ports[d.by],
         UNCHANGED <<owner, held, stored>>
  PROVE  NoNewClaim
<1>1. Kept' = Kept
  BY DEF Kept
<1> QED
  BY <1>1 DEF NoNewClaim, Claims

\* Nobody sends a third packet.
LEMMA NoThird ==
  ASSUME \A d \in net' : d.to = "server" /\ d.pt = "SYN|ACK" => d \in net,
         UNCHANGED owner
  PROVE  Thirds' \subseteq Thirds
BY DEF Thirds, Cumts

LEMMA LeftIsSmaller ==
  ASSUME NEW d \in net, net' \in Left(d) PROVE net' \subseteq net
BY DEF Left

LEMMA ClientNetSteps ==
  ASSUME ClientTypes, NEW c \in Clients,
         \/ FailSyn(c)
         \/ \E d \in net : TakeAnswer(c, d)
         \/ FailConnect(c)
         \/ Ask(c)
         \/ \E n \in mpSend[c] : SendThread(c, n)
         \/ \E t \in RecvThreads, d \in net : ClientRecv(c, t, d)
         \/ Quit(c)
         \/ Answer(c)
  PROVE  Quiet
<1>1. \A e \in Clients : ports'[e] \subseteq ports[e]
  <2>1. ports' = ports \/ \E P \in SUBSET ports[c] : ports' = [ports EXCEPT ![c] = P]
    BY DEF FailSyn, TakeAnswer, FailConnect, Ask, SendThread, ClientRecv, Quit,
           Answer, Clear, cliVars
  <2> QED
    BY <2>1 DEF ClientTypes
<1>2. \A d \in net' \ net : d.pt = "DATA" /\ d.addr \in ports[d.by]
  <2>1. CASE \E n \in mpSend[c] : SendThread(c, n)
    BY <2>1 DEF SendThread, FromClient, ClientTypes
  <2>2. CASE ~\E n \in mpSend[c] : SendThread(c, n)
    <3>1. net' \subseteq net
      BY <2>2, LeftIsSmaller
      DEF FailSyn, TakeAnswer, FailConnect, Ask, ClientRecv, Quit, Answer
    <3> QED
      BY <3>1
  <2> QED
    BY <2>1, <2>2
<1>3. UNCHANGED <<owner, held, stored, used, nextRecvSeq>>
  BY DEF FailSyn, TakeAnswer, FailConnect, Ask, SendThread, ClientRecv, Quit,
         Answer, srvVars, cliVars
<1>4. NoNewClaim
  BY <1>1, <1>2, <1>3, ClientClaims
<1>5. Thirds' \subseteq Thirds
  BY <1>2, <1>3, NoThird
<1> QED
  BY <1>3, <1>4, <1>5 DEF Quiet

LEMMA SendSynStep ==
  ASSUME ClientTypes, NEW c \in Clients, NEW a \in Addrs, SendSyn(c, a)
  PROVE  NewAddress(c, a)
<1>1. /\ ReusePorts \/ a \notin used
      /\ used' = used \union {a}
      /\ ports' = [ports EXCEPT ![c] = @ \union {a}]
      /\ net' = net \union {FromClient("SYN", a, nextSendSeq[c], c)}
      /\ UNCHANGED <<owner, held, stored, nextRecvSeq>>
  BY DEF SendSyn, srvVars
<1>2. Kept' = Kept
  BY <1>1 DEF Kept
<1>3. \A d \in net' \ net : d.pt = "SYN" /\ d.addr = a /\ d.by = c
  BY <1>1 DEF FromClient
<1>4. ASSUME NEW b \in Addrs, NEW e \in Clients, Claims(b, e)'
      PROVE  Claims(b, e) \/ (b = a /\ e = c)
  BY <1>1, <1>2, <1>3, <1>4 DEF Claims, ClientTypes
<1>5. Thirds' \subseteq Thirds
  BY <1>1, <1>3, NoThird
<1> QED
  BY <1>1, <1>4, <1>5 DEF NewAddress

LEMMA SendThirdStep ==
  ASSUME ClientTypes, NEW c \in Clients, SendThird(c) PROVE NewThird(c)
<1>1. sock[c] \in ports[c] /\ sock[c] \in Addrs /\ nextRecvSeq[c] = 0
  BY DEF SendThird, ClientTypes
<1>2. /\ net' = net \union {FromClient("SYN|ACK", sock[c], nextSendSeq[c], c)}
      /\ nextRecvSeq' = [nextRecvSeq EXCEPT ![c] = 1]
      /\ UNCHANGED <<owner, held, stored, used>>
  BY <1>1 DEF SendThird, srvVars, ClientTypes
<1>3. \A d \in net' \ net : d.addr = sock[c] /\ d.by = c
  BY <1>2 DEF FromClient
<1>4. \A e \in Clients : ports'[e] \subseteq ports[e]
  BY SMTT(20) DEF SendThird, Clear, ClientTypes
<1>5. NoNewClaim
  BY <1>1, <1>2, <1>3, <1>4, ClientClaims
<1>6. Thirds' \subseteq Thirds \union {sock[c]}
  BY <1>2, <1>3 DEF Thirds, Cumts
<1> QED
  BY <1>1, <1>2, <1>5, <1>6 DEF NewThird, Claims

LEMMA ServerStepQuiet ==
  ASSUME NetTypes, ServerTypes, ServerStep PROVE Quiet
<1>1. UNCHANGED cliVars
  BY DEF ServerStep, Start, RecvSyn, RecvThird, Accept, RecvData, StoreData
<1>2. UNCHANGED <<ports, used, nextRecvSeq>>
  BY <1>1 DEF cliVars
<1>3. \A d \in net' : d.to = "server" => d \in net
  BY LeftIsSmaller
  DEF ServerStep, Start, RecvSyn, RecvThird, Accept, RecvData, StoreData, Left,
      ToClient
<1>4. \A s \in Kept : s[1] \in Cumts
  BY DEF Kept, ServerTypes
<1>5. CASE \E d \in net : RecvThird(d)
  <2>1. PICK d \in net : RecvThird(d)
    BY <1>5
  <2>2. /\ d.to = "server" /\ d.pt = "SYN|ACK"
        /\ owner' = Append(owner, d.addr) /\ UNCHANGED <<held, stored>>
    BY <2>1 DEF RecvThird, Receives
  <2>3. /\ Cumts' = Cumts \union {Len(owner) + 1}
        /\ \A k \in Cumts : owner'[k] = owner[k]
        /\ owner'[Len(owner) + 1] = d.addr
    BY <2>2 DEF ServerTypes, Cumts
  <2>4. Thirds' \subseteq Thirds
    BY <1>3, <2>2, <2>3 DEF Thirds
  <2>5. Kept' = Kept
    BY <2>2 DEF Kept
  <2>6. NoNewClaim
    BY <1>2, <1>3, <1>4, <2>3, <2>5 DEF NoNewClaim, Claims
  <2> QED
    BY <1>2, <2>4, <2>6 DEF Quiet
<1>6. CASE ~\E d \in net : RecvThird(d)
  <2>1. UNCHANGED owner
    BY <1>6 DEF ServerStep, Start, RecvSyn, Accept, RecvData, StoreData, srvVars
  <2>2. \A s \in Kept' \ Kept : \E d \in net :
          d.to = "server" /\ d.by = s[2] /\ d.addr = owner[s[1]]
    <3>1. CASE \E t \in RecvThreads, d \in net : RecvData(t, d)
      <4>1. PICK t \in RecvThreads, d \in net : RecvData(t, d)
        BY <3>1
      <4>2. d.to = "server" /\ d.addr \in Addrs /\ UNCHANGED stored
        BY <4>1, FromClients DEF RecvData, Receives
      <4>3. CASE connent[d.addr] = 0
        BY <4>1, <4>2, <4>3 DEF RecvData, Kept
      <4>4. CASE connent[d.addr] # 0
        <5>1. held' = [held EXCEPT ![t] = {<<connent[d.addr], d.by, d.seq>>}]
          BY <4>1, <4>4 DEF RecvData
        <5>2. owner[connent[d.addr]] = d.addr
          BY <4>2, <4>4 DEF ServerTypes, CumtInv
        <5> QED
          BY <4>2, <5>1, <5>2 DEF Kept, ServerTypes
      <4> QED
        BY <4>3, <4>4
    <3>2. CASE \E t \in RecvThreads : StoreData(t)
      <4>1. PICK t \in RecvThreads : StoreData(t)
        BY <3>2
      <4> QED
        BY <4>1 DEF StoreData, Kept, ServerTypes
    <3>3. CASE UNCHANGED <<held, stored>>
      BY <3>3 DEF Kept
    <3> QED
      BY <1>6, <3>1, <3>2, <3>3
      DEF ServerStep, Start, RecvSyn, Accept, srvVars
  <2>3. NoNewClaim
    BY <1>2, <1>3, <2>1, <2>2 DEF NoNewClaim, Claims
  <2>4. Thirds' \subseteq Thirds
    BY <1>3, <2>1, NoThird
  <2> QED
    BY <1>2, <2>3, <2>4 DEF Quiet
<1> QED
  BY <1>5, <1>6

LEMMA NextStep == TypeInv /\ [Next]_vars => Step
<1> SUFFICES ASSUME ClientTypes, NetTypes, ServerTypes, [Next]_vars PROVE Step
  BY TypeParts
<1>1. CASE \E c \in Clients : ClientStep(c)
  BY <1>1, ClientNetSteps, SendSynStep, SendThirdStep DEF ClientStep, Step
<1>2. CASE ServerStep
  BY <1>2, ServerStepQuiet DEF Step
<1>3. CASE (\E d \in net : Lose(d)) \/ UNCHANGED vars
  <2>1. net' \subseteq net /\ UNCHANGED <<cliVars, srvVars>>
    BY <1>3 DEF Lose, vars
  <2>2. UNCHANGED <<ports, owner, held, stored, used, nextRecvSeq>>
    BY <2>1 DEF cliVars, srvVars
  <2> QED
    BY <2>1, <2>2, ClientClaims, NoThird DEF Quiet, Step
<1> QED
  BY <1>1, <1>2, <1>3 DEF Next

LEMMA ThirdsTyped == TypeInv => Thirds \subseteq Addrs
<1> SUFFICES ASSUME NetTypes, ServerTypes PROVE Thirds \subseteq Addrs
  BY TypeParts
<1> QED
  BY FromClients DEF Thirds, Cumts, ServerTypes

LEMMA ClaimStep ==
  ASSUME ~ReusePorts, TypeInv, ClaimInv, ThirdInv, Step
  PROVE  ClaimInv' /\ ThirdInv'
<1>1. Thirds \subseteq Addrs /\ Thirds \subseteq used
  BY ThirdsTyped DEF ClaimInv
<1>2. CASE Quiet
  <2>1. ClaimInv'
    BY <1>2 DEF Quiet, NoNewClaim, ClaimInv
  <2>2. ThirdInv'
    BY <1>1, <1>2 DEF Quiet, NoNewClaim, ThirdInv
  <2> QED
    BY <2>1, <2>2
<1>3. CASE \E c \in Clients, a \in Addrs : NewAddress(c, a)
  <2>1. PICK c \in Clients, a \in Addrs : NewAddress(c, a)
    BY <1>3
  <2>2. \A e \in Clients : ~Claims(a, e)
    BY <2>1 DEF NewAddress, ClaimInv
  <2>3. a \notin Thirds
    BY <1>1, <2>1 DEF NewAddress
  <2>4. ClaimInv'
    BY <2>1, <2>2 DEF NewAddress, ClaimInv
  <2>5. ThirdInv'
    BY <1>1, <2>1, <2>3 DEF NewAddress, ThirdInv
  <2> QED
    BY <2>4, <2>5
<1>4. CASE \E c \in Clients : NewThird(c)
  <2>1. PICK c \in Clients : NewThird(c)
    BY <1>4
  <2>2. ClaimInv'
    BY <2>1 DEF NewThird, NoNewClaim, ClaimInv
  <2>3. \A a \in Thirds : ~Claims(a, c)
    BY <2>1 DEF NewThird, ThirdInv
  <2>4. \A e \in Clients \ {c} : ~Claims(sock[c], e)
    BY <2>1 DEF NewThird, ClaimInv
  <2>5. /\ nextRecvSeq'[c] # 0
        /\ \A e \in Clients \ {c} : nextRecvSeq'[e] = nextRecvSeq[e]
    BY <2>1 DEF NewThird, TypeInv, TypeOK
  <2>6. ASSUME NEW e \in Clients, NEW a \in Thirds', Claims(a, e)'
        PROVE  /\ nextRecvSeq'[e] # 0
               /\ \A b \in Thirds' : Claims(b, e)' => a = b
    <3>1. \A b \in Thirds' :
            Claims(b, e)' => Claims(b, e) /\ (b \in Thirds \/ b = sock[c])
      BY <1>1, <2>1 DEF NewThird, NoNewClaim
    <3>2. CASE e = c
      BY <2>3, <2>5, <2>6, <3>1, <3>2
    <3>3. CASE e # c
      BY <2>4, <2>5, <2>6, <3>1, <3>3 DEF ThirdInv
    <3> QED
      BY <3>2, <3>3
  <2>7. ThirdInv'
    BY <2>6 DEF ThirdInv
  <2> QED
    BY <2>2, <2>7
<1> QED
  BY <1>2, <1>3, <1>4 DEF Step

-----------------------------------------------------------------------------
(***************************************************************************)
(* What the server keeps.                                                  *)
(***************************************************************************)
\* Two packets of one CUMT are of one client.
LEMMA OneClient ==
  ASSUME TypeInv, ClaimInv, NEW s \in Kept, NEW r \in Kept,
         owner[s[1]] = owner[r[1]]
  PROVE  s[2] = r[2]
<1>1. /\ owner \in Seq(Addrs)
      /\ s \in Cumts \X Clients \X Nat /\ r \in Cumts \X Clients \X Nat
  BY TypeParts DEF ServerTypes, Kept
<1>2. owner[s[1]] \in Addrs /\ s[2] \in Clients /\ r[2] \in Clients
  BY <1>1 DEF Cumts
<1>3. Claims(owner[s[1]], s[2]) /\ Claims(owner[s[1]], r[2])
  BY DEF Claims
<1> QED
  BY <1>2, <1>3 DEF ClaimInv

\* What a step does to the server.
LEMMA ServerChanges ==
  ASSUME TypeInv, [Next]_vars
  PROVE  \/ UNCHANGED srvVars
         \/ ServerStep
<1>1. CASE \E c \in Clients : ClientStep(c)
  BY <1>1 DEF ClientStep, SendSyn, FailSyn, TakeAnswer, SendThird, FailConnect,
              Ask, SendThread, ClientRecv, Quit, Answer
<1> QED
  BY <1>1 DEF Next, Lose, vars

LEMMA KeptGrows ==
  ASSUME TypeInv, ClaimInv, [Next]_vars
  PROVE  /\ Kept \subseteq Kept'
         /\ \A k \in Cumts : owner'[k] = owner[k]
         /\ \A a \in Addrs : connent[a] # 0 => connent'[a] = connent[a]
<1> USE TypeParts
<1>1. CASE UNCHANGED srvVars
  BY <1>1 DEF srvVars, Kept
<1>2. CASE \E t \in RecvThreads : StoreData(t)
  <2>1. PICK t \in RecvThreads : StoreData(t)
    BY <1>2
  <2>2. PICK s \in held[t] :
          /\ held' = [held EXCEPT ![t] = {}]
          /\ stored' = IF Seen(s[1], s[3]) THEN stored ELSE stored \union {s}
    BY <2>1 DEF StoreData
  <2>3. held[t] = {s}
    BY DEF ServerTypes, CumtInv
  <2>4. s \in stored'
    <3>1. CASE Seen(s[1], s[3])
      <4>1. PICK r \in stored : r[1] = s[1] /\ r[3] = s[3]
        BY <3>1 DEF Seen
      <4>2. r[2] = s[2]
        BY <4>1, OneClient DEF Kept
      <4>3. r = s
        BY <4>1, <4>2 DEF ServerTypes
      <4> QED
        BY <2>2, <3>1, <4>3
    <3> QED
      BY <2>2, <3>1
  <2>5. Kept \subseteq Kept'
    BY <2>2, <2>3, <2>4 DEF Kept, ServerTypes
  <2> QED
    BY <2>1, <2>5 DEF StoreData
<1>3. CASE \E t \in RecvThreads, d \in net : RecvData(t, d)
  BY <1>3 DEF RecvData, Kept, ServerTypes
<1>4. CASE \E d \in net : RecvThird(d)
  BY <1>4 DEF RecvThird, Kept, ServerTypes, Cumts
<1>5. CASE Accept
  <2>1. Head(accp) \in Cumts /\ owner[Head(accp)] \in Addrs
    BY <1>5 DEF Accept, ServerTypes, Cumts
  <2> QED
    BY <1>5, <2>1, InsertFacts DEF Accept, Kept
<1>6. CASE Start \/ \E d \in net : RecvSyn(d)
  BY <1>6 DEF Start, RecvSyn, srvVars, Kept
<1> QED
  BY <1>1, <1>2, <1>3, <1>4, <1>5, <1>6, ServerChanges DEF ServerStep

LEMMA AckStep ==
  ASSUME TypeInv, ClaimInv, AckInv, [Next]_vars PROVE AckInv'
<1> USE TypeParts
<1>1. \A s \in Kept : s[1] \in Cumts /\ s[1] # 0 /\ owner[s[1]] \in Addrs
  BY DEF Kept, ServerTypes, Cumts
<1>2. \A s \in Kept : /\ s \in Kept'
                      /\ owner'[s[1]] = owner[s[1]]
                      /\ connent'[owner[s[1]]] = s[1]
  BY <1>1, KeptGrows DEF AckInv
<1>3. CASE \E t \in RecvThreads, d \in net :
              RecvData(t, d) /\ connent[d.addr] # 0
  <2>1. PICK t \in RecvThreads, d \in net :
           RecvData(t, d) /\ connent[d.addr] # 0
    BY <1>3
  <2> DEFINE new == <<connent[d.addr], d.by, d.seq>>
  <2>2. /\ d.addr \in Addrs
        /\ net' \in {left \union {ToClient("ACK", d.addr, d.seq)} : left \in Left(d)}
        /\ held' = [held EXCEPT ![t] = {new}]
        /\ UNCHANGED <<owner, connent, stored>>
    BY <2>1, FromClients DEF RecvData, Receives
  <2>3. owner[new[1]] = d.addr /\ connent[owner[new[1]]] = new[1]
    BY <2>1, <2>2 DEF ServerTypes, CumtInv
  <2>4. new \in Kept' /\ Kept' \subseteq Kept \union {new}
    BY <2>2 DEF Kept, ServerTypes
  <2>5. \A e \in net' \ net : e.addr = d.addr /\ e.seq = new[3]
    BY <2>2 DEF Left, ToClient
  <2>6. \A e \in net' : e.pt = "ACK" =>
           \E s \in Kept' : owner'[s[1]] = e.addr /\ s[3] = e.seq
    BY <1>2, <2>2, <2>3, <2>4, <2>5 DEF AckInv
  <2>7. \A s \in Kept' : connent'[owner'[s[1]]] = s[1]
    BY <2>2, <2>3, <2>4 DEF AckInv
  <2> QED
    BY <2>6, <2>7 DEF AckInv
<1>4. CASE ~\E t \in RecvThreads, d \in net :
              RecvData(t, d) /\ connent[d.addr] # 0
  <2>1. Kept' \subseteq Kept
    <3>1. CASE UNCHANGED srvVars
      BY <3>1 DEF srvVars, Kept
    <3>2. CASE \E t \in RecvThreads : StoreData(t)
      BY <3>2 DEF StoreData, Kept, ServerTypes
    <3>3. CASE \E t \in RecvThreads, d \in net : RecvData(t, d)
      BY <1>4, <3>3 DEF RecvData, Kept
    <3>4. CASE Start \/ Accept \/ \E d \in net : RecvSyn(d) \/ RecvThird(d)
      BY <3>4 DEF Start, Accept, RecvSyn, RecvThird, srvVars, Kept
    <3> QED
      BY <3>1, <3>2, <3>3, <3>4, ServerChanges DEF ServerStep
  <2>2. \A e \in net' \ net : e.pt # "ACK"
    <3>1. CASE \E c \in Clients : ClientStep(c)
      BY <3>1, LeftIsSmaller
      DEF ClientStep, SendSyn, FailSyn, TakeAnswer, SendThird, FailConnect, Ask,
          SendThread, ClientRecv, Quit, Answer, FromClient
    <3>2. CASE \E d \in net : RecvSyn(d)
      BY <3>2 DEF RecvSyn, ToClient, Left
    <3>3. CASE \E t \in RecvThreads, d \in net : RecvData(t, d)
      BY <1>4, <3>3, LeftIsSmaller DEF RecvData
    <3>4. CASE \/ \E d \in net : RecvThird(d)
               \/ Start \/ Accept \/ \E t \in RecvThreads : StoreData(t)
      BY <3>4, LeftIsSmaller DEF Start, RecvThird, Accept, StoreData
    <3> QED
      BY <3>1, <3>2, <3>3, <3>4 DEF Next, ServerStep, Lose, vars
  <2> QED
    BY <1>2, <2>1, <2>2 DEF AckInv
<1> QED
  BY <1>3, <1>4

\* AckedIsKept speaks of what is stored or about to be.
LEMMA AckedMeaning ==
  AckedIsKept <=> \A c \in Clients : \A n \in asked[c] \ mpSend[c] :
                    \E s \in Kept : s[2] = c /\ s[3] = n
BY DEF AckedIsKept, Kept

LEMMA AckedMeaningNext ==
  AckedIsKept' <=> \A c \in Clients : \A n \in asked'[c] \ mpSend'[c] :
                     \E s \in Kept' : s[2] = c /\ s[3] = n
BY DEF AckedIsKept, Kept

LEMMA AckedStep ==
  ASSUME TypeInv, ClaimInv, AckInv, AckedIsKept, [Next]_vars
  PROVE  AckedIsKept'
<1> USE TypeParts
<1>1. Kept \subseteq Kept'
  BY KeptGrows
<1>2. ASSUME NEW c \in Clients, NEW n \in asked'[c] \ mpSend'[c],
             n \notin asked[c] \ mpSend[c]
      PROVE  \E s \in Kept : s[2] = c /\ s[3] = n
  <2>1. PICK t \in RecvThreads, d \in net :
           ClientRecv(c, t, d) /\ d.pt = "ACK" /\ n = d.seq
    <3>1. CASE \E e \in Clients, t \in RecvThreads, d \in net :
                  ClientRecv(e, t, d)
      <4>1. PICK e \in Clients, t \in RecvThreads, d \in net : ClientRecv(e, t, d)
        BY <3>1
      <4>2. c = e /\ d.pt = "ACK" /\ n = d.seq
        BY <1>2, <4>1 DEF ClientRecv, ClientTypes
      <4> QED
        BY <4>1, <4>2
    <3>2. CASE \E e \in Clients : Ask(e)
      BY <1>2, <3>2 DEF Ask, ClientTypes
    <3>3. CASE UNCHANGED <<asked, mpSend>>
      BY <1>2, <3>3
    <3> QED
      BY <3>1, <3>2, <3>3
      DEF Next, ClientStep, ServerStep, vars, cliVars, SendSyn, FailSyn,
          TakeAnswer, SendThird, FailConnect, SendThread, Quit, Answer, Start,
          RecvSyn, RecvThird, Accept, RecvData, StoreData, Lose
  <2>2. d.addr \in Addrs
    BY <2>1 DEF NetTypes, Datagram
  <2>3. d.addr \in ports[c]
    BY <2>1, <2>2, HandshakeAssumption
    DEF ClientRecv, ClientTypes, HandshakeAssumption
  <2>4. PICK s \in Kept : owner[s[1]] = d.addr /\ s[3] = d.seq
    BY <2>1 DEF AckInv
  <2>5. s[2] \in Clients
    BY DEF Kept, ServerTypes
  <2>6. Claims(d.addr, c) /\ Claims(d.addr, s[2])
    BY <2>3, <2>4 DEF Claims
  <2>7. s[2] = c
    BY <2>2, <2>5, <2>6 DEF ClaimInv
  <2> QED
    BY <2>1, <2>4, <2>7
<1> QED
  BY <1>1, <1>2, AckedMeaning, AckedMeaningNext

LEMMA KeptInvInit == Init => KeptInv
<1> SUFFICES ASSUME Init PROVE KeptInv
  OBVIOUS
<1>1. Kept = {} /\ Thirds = {}
  BY DEF Init, Kept, Thirds, Cumts
<1>2. \A a \in Addrs : \A c \in Clients : ~Claims(a, c)
  BY <1>1 DEF Claims, Init
<1> QED
  BY <1>1, <1>2 DEF KeptInv, ClaimInv, ThirdInv, AckInv, AckedIsKept, Init

LEMMA KeptCorrect == ASSUME ~ReusePorts PROVE Spec => [](TypeInv /\ KeptInv)
<1>1. Init => TypeInv /\ KeptInv
  BY TypeInvInit, KeptInvInit
<1>2. TypeInv /\ KeptInv /\ [Next]_vars => (TypeInv /\ KeptInv)'
  <2> SUFFICES ASSUME TypeInv, KeptInv, [Next]_vars PROVE TypeInv' /\ KeptInv'
    OBVIOUS
  <2>1. TypeInv'
    BY TypeInvNext
  <2>2. ClaimInv' /\ ThirdInv'
    BY NextStep, ClaimStep DEF KeptInv
  <2>3. AckInv' /\ AckedIsKept'
    BY AckStep, AckedStep DEF KeptInv
  <2> QED
    BY <2>1, <2>2, <2>3 DEF KeptInv
<1> QED
  BY <1>1, <1>2, PTL DEF Spec

\* When no address is given out twice, a request that was ACKed is with the server.
THEOREM AckedIsKeptCorrect == ASSUME ~ReusePorts PROVE Spec => []AckedIsKept
<1>1. TypeInv /\ KeptInv => AckedIsKept
  BY DEF KeptInv
<1> QED
  BY <1>1, KeptCorrect, PTL

\* And every client has one CUMT that reads its requests, and no other reads them.
THEOREM OneReaderCorrect == ASSUME ~ReusePorts PROVE Spec => []OneReader
<1>1. ASSUME TypeInv, KeptInv PROVE OneReader
  <2> USE TypeParts
  <2>1. \A s \in stored : s \in Kept /\ connent[owner[s[1]]] = s[1]
    BY <1>1 DEF Kept, KeptInv, AckInv
  <2>2. ASSUME NEW s \in stored, NEW r \in stored, s[1] = r[1]
        PROVE  s[2] = r[2]
    BY <1>1, <2>1, <2>2, OneClient DEF KeptInv
  <2>3. ASSUME NEW s \in stored, NEW r \in stored, s[2] = r[2]
        PROVE  s[1] = r[1]
    <3>1. s[1] \in Cumts /\ r[1] \in Cumts /\ s[2] \in Clients
      BY <1>1 DEF ServerTypes
    <3>2. owner[s[1]] \in Thirds /\ owner[r[1]] \in Thirds
      BY <3>1 DEF Thirds
    <3>3. Claims(owner[s[1]], s[2]) /\ Claims(owner[r[1]], s[2])
      BY <2>1, <2>3 DEF Claims
    <3>4. owner[s[1]] = owner[r[1]]
      BY <1>1, <3>1, <3>2, <3>3 DEF KeptInv, ThirdInv
    <3> QED
      BY <2>1, <3>4
  <2> QED
    BY <2>1, <2>2, <2>3 DEF OneReader
<1> QED
  BY <1>1, KeptCorrect, PTL

-----------------------------------------------------------------------------
(***************************************************************************)
(* Counting connections.                                                   *)
(***************************************************************************)
LEMMA CountInit ==
  ASSUME IsFiniteSet(Clients), Init PROVE CountInv
<1>1. Thirds = {}
  BY DEF Init, Thirds, Cumts
<1>2. Connected = {}
  BY DEF Init, Connected
<1> QED
  BY <1>1, <1>2, FS_EmptySet DEF CountInv

LEMMA CountStep ==
  ASSUME IsFiniteSet(Clients), TypeInv, CountInv, Step PROVE CountInv'
<1>1. IsFiniteSet(Connected)
  BY FS_Subset DEF Connected
<1>2. Cardinality(Thirds) \in Nat /\ Cardinality(Connected) \in Nat
  BY <1>1, FS_CardinalityType DEF CountInv
<1>3. ASSUME Thirds' \subseteq Thirds, UNCHANGED nextRecvSeq PROVE CountInv'
  <2>1. IsFiniteSet(Thirds') /\ Cardinality(Thirds') <= Cardinality(Thirds)
    BY <1>3, FS_Subset DEF CountInv
  <2>2. Cardinality(Thirds') \in Nat
    BY <2>1, FS_CardinalityType
  <2>3. Connected' = Connected
    BY <1>3 DEF Connected
  <2> QED
    BY <1>2, <2>1, <2>2, <2>3 DEF CountInv
<1>4. ASSUME NEW c \in Clients, NewThird(c) PROVE CountInv'
  <2>1. Connected' = Connected \union {c} /\ c \notin Connected
    BY <1>4 DEF NewThird, Connected, TypeInv, TypeOK
  <2>2. Cardinality(Connected') = Cardinality(Connected) + 1
    BY <1>1, <2>1, FS_AddElement
  <2> DEFINE more == Thirds \union {sock[c]}
  <2>3. IsFiniteSet(more) /\ Cardinality(more) <= Cardinality(Thirds) + 1
    BY <1>2, FS_AddElement DEF CountInv
  <2>4. Thirds' \subseteq more
    BY <1>4 DEF NewThird
  <2>5. IsFiniteSet(Thirds') /\ Cardinality(Thirds') <= Cardinality(more)
    BY <2>3, <2>4, FS_Subset
  <2>6. Cardinality(Thirds') \in Nat /\ Cardinality(more) \in Nat
    BY <2>3, <2>5, FS_CardinalityType
  <2> QED
    BY <1>2, <2>2, <2>3, <2>5, <2>6 DEF CountInv
<1> QED
  BY <1>3, <1>4 DEF Step, Quiet, NewAddress

\* m_Connent never names more addresses than clients have sent a third packet,
\* though repeated third packets make further CUMTs.
THEOREM NoGhostCorrect ==
  ASSUME IsFiniteSet(Clients) PROVE Spec => []NoGhostConnection
<1>1. Init => TypeInv /\ CountInv
  BY TypeInvInit, CountInit
<1>2. TypeInv /\ CountInv /\ [Next]_vars => (TypeInv /\ CountInv)'
  BY TypeInvNext, NextStep, CountStep
<1>3. ASSUME TypeInv, CountInv PROVE NoGhostConnection
  <2> DEFINE known == {a \in Addrs : connent[a] # 0}
  <2>1. known \subseteq Thirds
    <3> SUFFICES ASSUME NEW a \in Addrs, connent[a] # 0 PROVE a \in Thirds
      OBVIOUS
    <3>1. connent[a] \in Cumts /\ owner[connent[a]] = a
      BY <1>3, TypeParts DEF ServerTypes, CumtInv, Cumts
    <3> QED
      BY <3>1 DEF Thirds
  <2>2. IsFiniteSet(known) /\ Cardinality(known) <= Cardinality(Thirds)
    BY <1>3, <2>1, FS_Subset DEF CountInv
  <2>3. IsFiniteSet(Connected)
    BY FS_Subset DEF Connected
  <2>4. /\ Cardinality(known) \in Nat /\ Cardinality(Thirds) \in Nat
        /\ Cardinality(Connected) \in Nat
    BY <1>3, <2>2, <2>3, FS_CardinalityType DEF CountInv
  <2>5. Cardinality(known) <= Cardinality(Connected)
    BY <1>3, <2>2, <2>4 DEF CountInv
  <2> QED
    BY <2>5 DEF NoGhostConnection, Connected
<1> QED
  BY <1>1, <1>2, <1>3, PTL DEF Spec
=============================================================================
