---------------------------- MODULE UmtHandshake ----------------------------
(***************************************************************************)
(* How CUMTs come to be connected (Common/CUMT.cpp): Connect on the client, *)
(* the PT_SYN, PT_SYN|PT_ACK and PT_DATA cases of RecvThread and Accept on  *)
(* the server, over a network that loses, delays and repeats datagrams.    *)
(*                                                                         *)
(* A client is one run of the client program with its global umt; the      *)
(* dialog may press Connect again and again, and the program may end at    *)
(* any moment.  An address is the IP address and port of a client's socket, *)
(* which is what the server's uuid is made of.                             *)
(*                                                                         *)
(* Once connected, requests are as in UmtLink, with two abstractions:      *)
(* a request is one packet, and stored keeps every packet that entered     *)
(* m_mpRecv of a CUMT, whether its bytes are in the buffer yet or not.     *)
(***************************************************************************)
EXTENDS Naturals, Sequences, FiniteSets

CONSTANTS
  Clients,      \* runs of the client program
  Addrs,        \* addresses the system may give to sockets
  NoAddr,       \* the address of no socket
  RecvThreads,  \* RecvThread instances of a CUMT
  MayFail,      \* system calls may fail
  ReusePorts,   \* the system may give out an address again
  Lossy,        \* types of datagrams that may be lost
  MayRepeat,    \* the network may deliver a datagram more than once
  MaxPresses,   \* bound: calls of Connect by one client
  MaxAsks,      \* bound: requests of one client
  MaxCumts      \* bound: CUMTs the server makes

PackageType == {"SYN", "SYN|ACK", "ACK", "DATA"}

ASSUME HandshakeAssumption ==
  /\ NoAddr \notin Addrs
  /\ MayFail \in BOOLEAN
  /\ ReusePorts \in BOOLEAN
  /\ MayRepeat \in BOOLEAN
  /\ Lossy \subseteq PackageType
  /\ MaxPresses \in Nat
  /\ MaxAsks \in Nat
  /\ MaxCumts \in Nat

VARIABLES
  \* a client
  gui,          \* [Clients -> what the dialog's thread is doing]
  sock,         \* [Clients -> address of m_sock]
  ports,        \* [Clients -> addresses of its open sockets]
  working,      \* [Clients -> BOOLEAN], m_bWorking
  nextSendSeq,  \* [Clients -> Nat], m_nNextSendSeq
  nextRecvSeq,  \* [Clients -> Nat], m_nNextRecvSeq
  mpSend,       \* [Clients -> sequence numbers in m_mpSend]
  reading,      \* [Clients -> [RecvThreads -> address it waits on]]
  \* the network
  net,          \* datagrams that may still arrive
  \* the server
  server,       \* state of the listening CUMT
  owner,        \* addresses of the CUMTs made in RecvThread, in order
  accp,         \* m_accp: numbers of CUMTs
  connent,      \* m_Connent: [Addrs -> number of a CUMT, or 0]
  held,         \* [RecvThreads -> {} or {what it is about to store}]
  stored,       \* {<<number of a CUMT, client, seq>>}
  \* history
  presses,      \* [Clients -> calls of Connect]
  used,         \* addresses given out so far
  told,         \* [Clients -> result of the last Connect]
  asked         \* [Clients -> sequence numbers of its requests]

cliVars == <<gui, sock, ports, working, nextSendSeq, nextRecvSeq, mpSend,
             reading, presses, used, told, asked>>
srvVars == <<server, owner, accp, connent, held, stored>>
vars == <<cliVars, net, srvVars>>

FromClient(pt, a, n, c) ==
  [to |-> "server", pt |-> pt, addr |-> a, seq |-> n, by |-> c]
ToClient(pt, a, n) == [to |-> "client", pt |-> pt, addr |-> a, seq |-> n]

\* What is left on the wire when d is received.
Left(d) == IF MayRepeat THEN {net, net \ {d}} ELSE {net \ {d}}

-----------------------------------------------------------------------------
(***************************************************************************)
(* Connect, called by the dialog.                                          *)
(***************************************************************************)
\* Connect returns.
Tell(c, result) ==
  /\ gui' = [gui EXCEPT ![c] = "idle"]
  /\ told' = [told EXCEPT ![c] = result]

\* Clear: the socket is closed.  The threads that wait on it end; one that still
\* waits on the socket of an earlier Connect ends when it wakes up.
Clear(c) ==
  /\ ports' = [ports EXCEPT ![c] = @ \ {sock[c]}]
  /\ sock' = [sock EXCEPT ![c] = NoAddr]
  /\ working' = [working EXCEPT ![c] = FALSE]
  /\ reading' = [reading EXCEPT
                   ![c] = [t \in RecvThreads |->
                             IF @[t] = sock[c] THEN NoAddr ELSE @[t]]]

CanPress(c) == gui[c] = "idle" /\ presses[c] < MaxPresses

\* A new socket, and the first packet.  The socket of an earlier Connect is
\* not closed; threads that had no socket to wait on find the new one.
SendSyn(c, a) ==
  /\ CanPress(c)
  /\ \A d \in Clients : a \notin ports[d]
  /\ ReusePorts \/ a \notin used
  /\ presses' = [presses EXCEPT ![c] = @ + 1]
  /\ used' = used \union {a}
  /\ sock' = [sock EXCEPT ![c] = a]
  /\ ports' = [ports EXCEPT ![c] = @ \union {a}]
  /\ net' = net \union {FromClient("SYN", a, nextSendSeq[c], c)}
  /\ gui' = [gui EXCEPT ![c] = "waiting"]
  /\ reading' = [reading EXCEPT
                   ![c] = [t \in RecvThreads |->
                             IF working[c] /\ @[t] = NoAddr THEN a ELSE @[t]]]
  /\ UNCHANGED <<working, nextSendSeq, nextRecvSeq, mpSend, told, asked,
                 srvVars>>

\* socket fails and m_sock is lost, or sendto fails and Clear is called.
FailSyn(c) ==
  /\ MayFail
  /\ CanPress(c)
  /\ presses' = [presses EXCEPT ![c] = @ + 1]
  /\ sock' = [sock EXCEPT ![c] = NoAddr]
  /\ working' \in {working, [working EXCEPT ![c] = FALSE]}
  /\ Tell(c, "failed")
  /\ UNCHANGED <<ports, nextSendSeq, nextRecvSeq, mpSend, reading, used, asked,
                 net, srvVars>>

\* Defect: any PT_SYN|PT_ACK is an answer.
AnyAnswer(c, d) == d.pt = "SYN|ACK"

\* The datagram is the answer Connect waits for.
IsAnswer(c, d) == d.pt = "SYN|ACK" /\ d.seq = nextRecvSeq[c]

\* recvfrom in Connect, which has no timeout.
TakeAnswer(c, d) ==
  /\ gui[c] = "waiting"
  /\ d.to = "client" /\ d.addr = sock[c]
  /\ net' \in Left(d)
  /\ IF IsAnswer(c, d)
     THEN /\ gui' = [gui EXCEPT ![c] = "answered"]
          /\ UNCHANGED <<told, sock, ports, working, reading>>
     ELSE Tell(c, "failed") /\ Clear(c)
  /\ UNCHANGED <<nextSendSeq, nextRecvSeq, mpSend, presses, used, asked,
                 srvVars>>

\* The third packet, Init and its threads.
SendThird(c) ==
  /\ gui[c] = "answered"
  /\ net' = net \union {FromClient("SYN|ACK", sock[c], nextSendSeq[c], c)}
  /\ nextRecvSeq' = [nextRecvSeq EXCEPT ![c] = @ + 1]
  /\ nextSendSeq' = [nextSendSeq EXCEPT ![c] = @ + 1]
  /\ \/ /\ Tell(c, "connected")
        /\ working' = [working EXCEPT ![c] = TRUE]
        /\ reading' = [reading EXCEPT ![c] = [t \in RecvThreads |-> sock[c]]]
        /\ UNCHANGED <<sock, ports>>
     \/ /\ MayFail
        /\ Tell(c, "failed") /\ Clear(c)
  /\ UNCHANGED <<mpSend, presses, used, asked, srvVars>>

\* recvfrom fails, or sendto of the third packet.
FailConnect(c) ==
  /\ MayFail
  /\ gui[c] \in {"waiting", "answered"}
  /\ Tell(c, "failed")
  /\ Clear(c)
  /\ UNCHANGED <<nextSendSeq, nextRecvSeq, mpSend, presses, used, asked, net,
                 srvVars>>

-----------------------------------------------------------------------------
(***************************************************************************)
(* The rest of the client: requests, its threads, its end.                 *)
(***************************************************************************)
\* DealMessage: Send puts the request into m_mpSend, connected or not, and the
\* dialog waits for the answer.
Ask(c) ==
  /\ gui[c] = "idle"
  /\ Cardinality(asked[c]) < MaxAsks
  /\ gui' = [gui EXCEPT ![c] = "asking"]
  /\ mpSend' = [mpSend EXCEPT ![c] = @ \union {nextSendSeq[c]}]
  /\ asked' = [asked EXCEPT ![c] = @ \union {nextSendSeq[c]}]
  /\ nextSendSeq' = [nextSendSeq EXCEPT ![c] = @ + 1]
  /\ UNCHANGED <<sock, ports, working, nextRecvSeq, reading, presses, used, told,
                 net, srvVars>>

\* SendThread sends a packet for the first time or again.
SendThread(c, n) ==
  /\ working[c]
  /\ sock[c] # NoAddr
  /\ n \in mpSend[c]
  /\ net' = net \union {FromClient("DATA", sock[c], n, c)}
  /\ UNCHANGED <<cliVars, srvVars>>

\* RecvThread of the client.  A PT_SYN|PT_ACK makes a CUMT that nobody will
\* accept.  The thread then waits on what m_sock is by then, or ends.
ClientRecv(c, t, d) ==
  /\ d.to = "client" /\ d.addr = reading[c][t]
  /\ net' \in Left(d)
  /\ mpSend' = IF d.pt = "ACK" THEN [mpSend EXCEPT ![c] = @ \ {d.seq}]
                               ELSE mpSend
  /\ reading' = [reading EXCEPT
                   ![c][t] = IF working[c] THEN sock[c] ELSE NoAddr]
  /\ UNCHANGED <<gui, sock, ports, working, nextSendSeq, nextRecvSeq, presses,
                 used, told, asked, srvVars>>

\* The program ends, in DestroyWindow or otherwise.
Quit(c) ==
  /\ gui[c] # "gone"
  /\ gui' = [gui EXCEPT ![c] = "gone"]
  /\ sock' = [sock EXCEPT ![c] = NoAddr]
  /\ ports' = [ports EXCEPT ![c] = {}]
  /\ working' = [working EXCEPT ![c] = FALSE]
  /\ reading' = [reading EXCEPT ![c] = [t \in RecvThreads |-> NoAddr]]
  /\ UNCHANGED <<nextSendSeq, nextRecvSeq, mpSend, presses, used, told, asked,
                 net, srvVars>>

-----------------------------------------------------------------------------
(***************************************************************************)
(* The server.                                                             *)
(***************************************************************************)
\* main: socketbind and Init, whose results are not looked at.  If one fails the
\* server hears nothing, or breaks down on the CUMT that Accept does not set.
Start ==
  /\ server = "new"
  /\ \/ server' = "up"
     \/ MayFail /\ server' = "deaf"
  /\ UNCHANGED <<cliVars, net, owner, accp, connent, held, stored>>

\* A RecvThread that is not storing a packet gets d from recvfrom.
Receives(pt, d) ==
  /\ server = "up"
  /\ d.to = "server" /\ d.pt = pt
  /\ \E t \in RecvThreads : held[t] = {}

\* Defect: the first packet makes the connection.
ConnectOnSyn(d) ==
  /\ Receives("SYN", d)
  /\ Len(owner) < MaxCumts
  /\ net' \in {left \union {ToClient("SYN|ACK", d.addr, 0)} : left \in Left(d)}
  /\ owner' = Append(owner, d.addr)
  /\ accp' = Append(accp, Len(owner) + 1)
  /\ UNCHANGED <<cliVars, server, connent, held, stored>>

\* Defect: the first packet is taken and not answered.
SilentSyn(d) ==
  /\ Receives("SYN", d)
  /\ net' \in Left(d)
  /\ UNCHANGED <<cliVars, srvVars>>

\* RecvThread, case PT_SYN: answer, and keep nothing.
RecvSyn(d) ==
  /\ Receives("SYN", d)
  /\ net' \in {left \union {ToClient("SYN|ACK", d.addr, 0)} : left \in Left(d)}
  /\ UNCHANGED <<cliVars, srvVars>>

\* Case PT_SYN|PT_ACK: a new CUMT for Accept.
RecvThird(d) ==
  /\ Receives("SYN|ACK", d)
  /\ Len(owner) < MaxCumts
  /\ net' \in Left(d)
  /\ owner' = Append(owner, d.addr)
  /\ accp' = Append(accp, Len(owner) + 1)
  /\ UNCHANGED <<cliVars, server, connent, held, stored>>

\* Defect: map::operator[] = instead of insert.
Replace(a, k) == [connent EXCEPT ![a] = k]

\* map::insert: an address that is known keeps its CUMT.
Insert(a, k) == IF connent[a] = 0 THEN [connent EXCEPT ![a] = k] ELSE connent

\* Defect: Accept does not enter the CUMT into m_Connent.
ForgetInsert ==
  /\ server # "new"
  /\ accp # <<>>
  /\ accp' = Tail(accp)
  /\ UNCHANGED <<cliVars, net, server, owner, connent, held, stored>>

\* Accept, whose result gets a _Thread of its own.
Accept ==
  /\ server # "new"
  /\ accp # <<>>
  /\ accp' = Tail(accp)
  /\ connent' = Insert(owner[Head(accp)], Head(accp))
  /\ UNCHANGED <<cliVars, net, server, owner, held, stored>>

\* Defect: the packet is ACKed before its CUMT is looked up.
AckFirst(t, d) ==
  /\ Receives("DATA", d)
  /\ held[t] = {}
  /\ net' \in {left \union {ToClient("ACK", d.addr, d.seq)} : left \in Left(d)}
  /\ held' = IF connent[d.addr] = 0
             THEN held
             ELSE [held EXCEPT ![t] = {<<connent[d.addr], d.by, d.seq>>}]
  /\ UNCHANGED <<cliVars, server, owner, accp, connent, stored>>

\* Defect: the packet goes to the CUMT that was made last.
GiveToLast(t, d) ==
  /\ Receives("DATA", d)
  /\ held[t] = {}
  /\ net' \in {left \union {ToClient("ACK", d.addr, d.seq)} : left \in Left(d)}
  /\ connent[d.addr] # 0
  /\ held' = [held EXCEPT ![t] = {<<Len(owner), d.by, d.seq>>}]
  /\ UNCHANGED <<cliVars, server, owner, accp, connent, stored>>

\* Case PT_DATA: find the CUMT of the address, and if there is one, ACK ...
RecvData(t, d) ==
  /\ Receives("DATA", d)
  /\ held[t] = {}
  /\ IF connent[d.addr] = 0
     THEN /\ net' \in Left(d)
          /\ held' = held
     ELSE /\ net' \in {left \union {ToClient("ACK", d.addr, d.seq)} :
                         left \in Left(d)}
          /\ held' = [held EXCEPT ![t] = {<<connent[d.addr], d.by, d.seq>>}]
  /\ UNCHANGED <<cliVars, server, owner, accp, connent, stored>>

\* A packet with this number is in m_mpRecv of CUMT k, or was.
Seen(k, n) == \E s \in stored : s[1] = k /\ s[3] = n

\* ... and store it, unless its number was seen before.
StoreData(t) ==
  \E s \in held[t] :
    /\ held' = [held EXCEPT ![t] = {}]
    /\ stored' = IF Seen(s[1], s[3]) THEN stored ELSE stored \union {s}
    /\ UNCHANGED <<cliVars, net, server, owner, accp, connent>>

\* The _Thread of an accepted CUMT answers the last request of c, and the data
\* path brings the answer.
Answer(c) ==
  /\ gui[c] = "asking"
  /\ working[c]
  /\ \E k \in 1 .. Len(owner) : /\ owner[k] = sock[c]
                                /\ <<k, c, nextSendSeq[c] - 1>> \in stored
  /\ gui' = [gui EXCEPT ![c] = "idle"]
  /\ UNCHANGED <<sock, ports, working, nextSendSeq, nextRecvSeq, mpSend, reading,
                 presses, used, told, asked, net, srvVars>>

-----------------------------------------------------------------------------
\* A datagram is lost.
Lose(d) ==
  /\ d.pt \in Lossy
  /\ net' = net \ {d}
  /\ UNCHANGED <<cliVars, srvVars>>

Init ==
  /\ gui = [c \in Clients |-> "idle"]
  /\ sock = [c \in Clients |-> NoAddr]
  /\ ports = [c \in Clients |-> {}]
  /\ working = [c \in Clients |-> FALSE]
  /\ nextSendSeq = [c \in Clients |-> 0]
  /\ nextRecvSeq = [c \in Clients |-> 0]
  /\ mpSend = [c \in Clients |-> {}]
  /\ reading = [c \in Clients |-> [t \in RecvThreads |-> NoAddr]]
  /\ net = {}
  /\ server = "new"
  /\ owner = <<>>
  /\ accp = <<>>
  /\ connent = [a \in Addrs |-> 0]
  /\ held = [t \in RecvThreads |-> {}]
  /\ stored = {}
  /\ presses = [c \in Clients |-> 0]
  /\ used = {}
  /\ told = [c \in Clients |-> "nothing"]
  /\ asked = [c \in Clients |-> {}]

ClientStep(c) ==
  \/ \E a \in Addrs : SendSyn(c, a)
  \/ FailSyn(c)
  \/ \E d \in net : TakeAnswer(c, d)
  \/ SendThird(c)
  \/ FailConnect(c)
  \/ Ask(c)
  \/ \E n \in mpSend[c] : SendThread(c, n)
  \/ \E t \in RecvThreads, d \in net : ClientRecv(c, t, d)
  \/ Quit(c)
  \/ Answer(c)

ServerStep ==
  \/ Start
  \/ \E d \in net : RecvSyn(d) \/ RecvThird(d)
  \/ Accept
  \/ \E t \in RecvThreads : (\E d \in net : RecvData(t, d)) \/ StoreData(t)

Next ==
  \/ \E c \in Clients : ClientStep(c)
  \/ ServerStep
  \/ \E d \in net : Lose(d)

Spec == Init /\ [][Next]_vars
=============================================================================
