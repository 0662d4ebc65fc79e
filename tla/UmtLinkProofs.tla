---------------------------- MODULE UmtLinkProofs ----------------------------
(***************************************************************************)
(* Type correctness of the CUMT data path, for any peers, threads, lengths *)
(* and width of the sequence numbers; the facts about the splitting of a   *)
(* buffer that the other proofs rest on; and the bound of the send         *)
(* container of a client, for any finite number of threads that call Send  *)
(* with lengths from a finite set.                                         *)
(***************************************************************************)
EXTENDS UmtLinkInv, FiniteSetTheorems, TLAPS

-----------------------------------------------------------------------------
(***************************************************************************)
(* Arithmetic.                                                             *)
(***************************************************************************)
\* A number below the modulus is its own remainder: no wrap-around of m_nSeq.
LEMMA ModSmall == \A m \in Nat \ {0}, n \in Nat : n < m => n % m = n
  OBVIOUS

\* A remainder is below the modulus: Wrap yields a DWORD.
LEMMA ModRange == \A m \in Nat \ {0}, n \in Nat : n % m \in 0 .. m - 1
  OBVIOUS

\* Quotient and remainder, as Send computes them from the buffer length.
LEMMA DivMod ==
  \A m \in Nat \ {0}, n \in Nat : /\ n \div m \in Nat
                                  /\ n = (n \div m) * m + (n % m)
  OBVIOUS

\* Offsets i * DATALEN grow with i.
LEMMA MulMono == \A d \in Nat, a, b \in Int : a <= b => a * d <= b * d
  OBVIOUS

\* An offset i * DATALEN is a natural number.
LEMMA MulNat == \A a, b \in Nat : a * b \in Nat
  OBVIOUS

-----------------------------------------------------------------------------
(***************************************************************************)
(* Splitting a buffer.                                                     *)
(***************************************************************************)
\* The last packet of Send takes between 1 and DATALEN bytes.
LEMMA LastPacket ==
  ASSUME NEW n \in Nat
  PROVE  /\ PacketCount(n) \in Nat
         /\ PacketCount(n) > 0
              => n - (PacketCount(n) - 1) * DataLen \in 1 .. DataLen
         /\ PacketCount(n) = 0 => n = 0
<1> DEFINE q == n \div DataLen
           r == n % DataLen
<1>1. DataLen \in Nat \ {0}
  BY LinkAssumption
<1>2. q \in Nat /\ r \in 0 .. DataLen - 1 /\ n = q * DataLen + r
  BY <1>1, DivMod, ModRange
<1>3. CASE r = 0
  <2>1. PacketCount(n) = q
    BY <1>3 DEF PacketCount
  <2>2. (q - 1) * DataLen = q * DataLen - DataLen
    BY <1>1, <1>2
  <2>3. q = 0 => n = 0
    BY <1>1, <1>2, <1>3
  <2> HIDE DEF q, r
  <2> QED
    BY <1>1, <1>2, <1>3, <2>1, <2>2, <2>3
<1>4. CASE r # 0
  <2>1. PacketCount(n) = q + 1
    BY <1>4 DEF PacketCount
  <2> HIDE DEF q, r
  <2> QED
    BY <1>1, <1>2, <1>4, <2>1
<1> QED
  BY <1>3, <1>4

\* What Send makes of a buffer: consecutive numbers, consecutive bytes, the
\* last packet ending with the last byte.
LEMMA SplitFacts ==
  ASSUME TypeOK, NEW p \in Peers, NEW n \in Nat
  PROVE  /\ Split(p, n) \in Seq(Packet)
         /\ Len(Split(p, n)) = PacketCount(n)
         /\ \A i \in 1 .. PacketCount(n) :
              LET pkg == Split(p, n)[i]
              IN  /\ pkg.peer = p
                  /\ pkg.seq = Wrap(nextSendSeq[p] + i - 1)
                  /\ pkg.check = Crc32(pkg.data)
                  /\ pkg.data.first = sent[p] + (i - 1) * DataLen + 1
                  /\ LastByte(pkg.data) = IF i = PacketCount(n)
                                          THEN sent[p] + n
                                          ELSE sent[p] + i * DataLen
<1> DEFINE cnt == PacketCount(n)
           Data(i) == [first |-> sent[p] + (i - 1) * DataLen + 1,
                       len   |-> IF i = cnt THEN n - (i - 1) * DataLen
                                            ELSE DataLen]
           Pkg(i) == [peer  |-> p,
                      seq   |-> Wrap(nextSendSeq[p] + i - 1),
                      data  |-> Data(i),
                      check |-> Crc32(Data(i))]
<1>1. /\ DataLen \in Nat \ {0}
      /\ DwordMod \in Nat \ {0}
      /\ sent[p] \in Nat
      /\ nextSendSeq[p] \in Nat
  BY LinkAssumption DEF TypeOK, Seqs
<1>2. cnt \in Nat /\ (cnt > 0 => n - (cnt - 1) * DataLen \in 1 .. DataLen)
  BY LastPacket
<1>3. Split(p, n) = [i \in 1 .. cnt |-> Pkg(i)]
  BY DEF Split, PayloadLen
<1>4. ASSUME NEW i \in 1 .. cnt
      PROVE  /\ (i - 1) * DataLen \in Nat
             /\ i * DataLen = (i - 1) * DataLen + DataLen
             /\ Data(i) \in Span
             /\ LastByte(Data(i)) = IF i = cnt THEN sent[p] + n
                                               ELSE sent[p] + i * DataLen
  <2>1. i - 1 \in Nat /\ i \in Nat
    BY <1>2
  <2>2. (i - 1) * DataLen \in Nat
    BY <1>1, <2>1, MulNat
  <2>3. i * DataLen = (i - 1) * DataLen + DataLen
    BY <1>1, <2>1
  <2>4. Data(i).first \in Nat
    BY <1>1, <2>2
  <2>5. Data(i).len \in 1 .. DataLen
    BY <1>1, <1>2
  <2>6. LastByte(Data(i)) = sent[p] + (i - 1) * DataLen + Data(i).len
    <3>1. Data(i).first = sent[p] + (i - 1) * DataLen + 1
      OBVIOUS
    <3>2. LastByte(Data(i)) = Data(i).first + Data(i).len - 1
      BY DEF LastByte
    <3> HIDE DEF Data
    <3> QED
      BY <1>1, <2>2, <2>5, <3>1, <3>2
  <2>7. Data(i) \in Span
    BY <2>4, <2>5 DEF Span
  <2>8. Data(i).len = IF i = cnt THEN n - (i - 1) * DataLen ELSE DataLen
    OBVIOUS
  <2> HIDE DEF Data
  <2> QED
    BY <1>1, <2>2, <2>3, <2>6, <2>7, <2>8
<1>5. ASSUME NEW i \in 1 .. cnt
      PROVE  Pkg(i) \in Packet
  <2>1. Wrap(nextSendSeq[p] + i - 1) \in Seqs
    <3>1. nextSendSeq[p] + i - 1 \in Nat
      BY <1>1, <1>2
    <3> QED
      BY <1>1, <3>1, ModRange DEF Wrap, Seqs
  <2>2. Data(i) \in Span
    BY <1>4
  <2>3. Crc32(Data(i)) \in Nat \X Nat
    BY <2>2, <1>1 DEF Crc32, Span
  <2> HIDE DEF Data
  <2> QED
    BY <2>1, <2>2, <2>3 DEF Packet
<1>6. Split(p, n) \in Seq(Packet) /\ Len(Split(p, n)) = cnt
  <2> HIDE DEF Pkg, Data, cnt
  <2> QED
    BY <1>2, <1>3, <1>5
<1>7. ASSUME NEW i \in 1 .. cnt
      PROVE  /\ Split(p, n)[i].peer = p
             /\ Split(p, n)[i].seq = Wrap(nextSendSeq[p] + i - 1)
             /\ Split(p, n)[i].check = Crc32(Split(p, n)[i].data)
             /\ Split(p, n)[i].data = Data(i)
  BY <1>3
<1>8. ASSUME NEW i \in 1 .. cnt
      PROVE  Data(i).first = sent[p] + (i - 1) * DataLen + 1
  OBVIOUS
<1> HIDE DEF Data, Pkg
<1> QED
  BY <1>4, <1>6, <1>7, <1>8

-----------------------------------------------------------------------------
(***************************************************************************)
(* The receive buffer.                                                     *)
(***************************************************************************)
\* The bytes of a packet: their number and positions.
LEMMA BytesFacts ==
  ASSUME NEW pkg \in Packet
  PROVE  /\ Bytes(pkg.data) \in Seq(Nat)
         /\ Len(Bytes(pkg.data)) = pkg.data.len
         /\ \A i \in 1 .. pkg.data.len :
              Bytes(pkg.data)[i] = pkg.data.first + i - 1
<1>1. pkg.data.first \in Nat /\ pkg.data.len \in Nat
  BY LinkAssumption DEF Packet, Span
<1> DEFINE first == pkg.data.first
           len   == pkg.data.len
<1>2. Bytes(pkg.data) = [i \in 1 .. len |-> first + i - 1]
  BY DEF Bytes
<1> HIDE DEF first, len
<1>3. first \in Nat /\ len \in Nat
  BY <1>1 DEF first, len
<1>4. \A i \in 1 .. len : first + i - 1 \in Nat
  BY <1>3
<1>5. /\ Bytes(pkg.data) \in Seq(Nat)
      /\ Len(Bytes(pkg.data)) = len
      /\ \A i \in 1 .. len : Bytes(pkg.data)[i] = first + i - 1
  BY <1>2, <1>3, <1>4
<1> QED
  BY <1>5 DEF first, len

\* Recv moves at most the bytes that are there.
LEMMA RecvFacts ==
  ASSUME TypeOK, NEW p \in Peers, NEW n \in RecvLens, Recv(p, n)
  PROVE  \E len \in 0 .. Len(bufRecv[p]) :
           /\ got' = [got EXCEPT ![p] = @ \o SubSeq(bufRecv[p], 1, len)]
           /\ bufRecv' = [bufRecv EXCEPT ![p] = Read(@, len)]
<1> DEFINE size == Len(bufRecv[p])
           len  == IF size > n THEN n ELSE size
<1>1. size \in Nat /\ n \in Nat \ {0}
  BY LinkAssumption DEF TypeOK
<1>2. len \in 0 .. size
  BY <1>1
<1>3. /\ got' = [got EXCEPT ![p] = @ \o SubSeq(bufRecv[p], 1, len)]
      /\ bufRecv' = [bufRecv EXCEPT ![p] = Read(@, len)]
  BY DEF Recv
<1> QED
  BY <1>2, <1>3

-----------------------------------------------------------------------------
(***************************************************************************)
(* Type correctness.                                                       *)
(***************************************************************************)
\* Init starts both ends with sequence number 1 and empty containers.
LEMMA TypeInit == Init => TypeOK
<1> SUFFICES ASSUME Init
             PROVE  TypeOK
  OBVIOUS
<1>1. Wrap(1) \in Seqs
  BY LinkAssumption, ModRange DEF Wrap, Seqs
<1> QED
  BY <1>1 DEF Init, TypeOK

\* No step of either end or of the network leaves the types.
LEMMA TypeStep == TypeOK /\ [Next]_vars => TypeOK'
<1> SUFFICES ASSUME TypeOK, [Next]_vars
             PROVE  TypeOK'
  OBVIOUS
<1> USE DEF sndVars, rcvVars
<1>1. ASSUME NEW s \in Senders, NEW p \in Peers, BeginSend(s, p)
      PROVE  TypeOK'
  BY <1>1 DEF BeginSend, TypeOK
<1>2. ASSUME NEW s \in Senders, NEW p \in Peers, NEW n \in SendLens,
             Send(s, p, n)
      PROVE  TypeOK'
  <2> DEFINE pkgs == Split(p, n)
  <2>1. n \in Nat
    BY LinkAssumption
  <2>2. pkgs \in Seq(Packet)
    BY <2>1, SplitFacts
  <2>3. Range(pkgs) \subseteq Packet
    BY <2>2 DEF Range
  <2>4. mpSend' \in SUBSET Packet /\ due' \in SUBSET mpSend'
    BY <1>2, <2>3 DEF Send, Put, TypeOK
  <2>5. nextSendSeq' \in [Peers -> Seqs]
    <3>1. nextSendSeq[p] + Len(pkgs) \in Nat
      BY <2>2 DEF TypeOK, Seqs
    <3>2. Wrap(nextSendSeq[p] + Len(pkgs)) \in Seqs
      BY <3>1, LinkAssumption, ModRange DEF Wrap, Seqs
    <3> QED
      BY <1>2, <3>2 DEF Send, TypeOK
  <2>6. stream' \in [Peers -> Seq(Packet)]
    <3> HIDE DEF pkgs
    <3>1. stream[p] \o pkgs \in Seq(Packet)
      BY <2>2 DEF TypeOK
    <3>2. stream' = [stream EXCEPT ![p] = stream[p] \o pkgs]
      BY <1>2 DEF Send, pkgs
    <3> QED
      BY <3>1, <3>2 DEF TypeOK
  <2>7. sent' \in [Peers -> Nat]
    BY <1>2, <2>1 DEF Send, TypeOK
  <2>8. admitted' \in SUBSET (Senders \X Peers)
    BY <1>2 DEF Send, TypeOK
  <2>9. UNCHANGED <<net, acks, rcvVars, sndWorking, rcvWorking>>
    BY <1>2 DEF Send
  <2> QED
    BY <2>4, <2>5, <2>6, <2>7, <2>8, <2>9 DEF TypeOK
<1>3. ASSUME SendThread
      PROVE  TypeOK'
  BY <1>3 DEF SendThread, TypeOK
<1>4. ASSUME NEW pkg \in mpSend, Elapse(pkg)
      PROVE  TypeOK'
  BY <1>4 DEF Elapse, TypeOK
<1>5. ASSUME NEW ack \in acks, RecvAck(ack)
      PROVE  TypeOK'
  BY <1>5 DEF RecvAck, TypeOK
<1>6. ASSUME NEW p \in Peers, NEW t \in RecvThreads, NEW pkg \in net,
             RecvData(p, t, pkg)
      PROVE  TypeOK'
  <2>1. PICK arrived \in Copies(pkg) :
          /\ acks' = acks \union AckOf(p, arrived)
          /\ held' = [held EXCEPT ![p][t] = {arrived}]
    BY <1>6 DEF RecvData
  <2>2. Damaged(pkg) \in Packet
    <3>1. pkg \in Packet
      BY DEF TypeOK
    <3>2. [pkg.data EXCEPT !.first = 0] \in Span
      BY <3>1 DEF Packet, Span
    <3>3. Damaged(pkg) = [pkg EXCEPT !.data = [pkg.data EXCEPT !.first = 0]]
      BY DEF Damaged
    <3> QED
      BY <3>1, <3>2, <3>3 DEF Packet
  <2>3. arrived \in Packet
    <3>1. pkg \in Packet
      BY DEF TypeOK
    <3>2. ASSUME NEW n \in Misread(pkg.seq)
          PROVE  [pkg EXCEPT !.seq = n] \in Packet
      <4>1. n \in Seqs
        BY <3>2 DEF Misread
      <4> QED
        BY <3>1, <4>1 DEF Packet
    <3> QED
      BY <2>2, <3>1, <3>2 DEF Copies
  <2>4. AckOf(p, arrived) \subseteq Ack
    BY <2>3 DEF AckOf, Ack, Packet
  <2>5. held' \in [Peers -> [RecvThreads -> SUBSET Packet]]
    BY <2>1, <2>3 DEF TypeOK
  <2> QED
    BY <1>6, <2>1, <2>4, <2>5 DEF RecvData, TypeOK
<1>7. ASSUME NEW p \in Peers, NEW t \in RecvThreads, StoreData(p, t)
      PROVE  TypeOK'
  <2>1. PICK pkg \in held[p][t] :
          /\ held' = [held EXCEPT ![p][t] = {}]
          /\ mpRecv' \in {mpRecv, [mpRecv EXCEPT ![p] = @ \union {pkg}]}
    BY <1>7 DEF StoreData
  <2>2. pkg \in Packet
    <3>1. held[p][t] \in SUBSET Packet
      BY DEF TypeOK
    <3> QED
      BY <3>1
  <2>3. held' \in [Peers -> [RecvThreads -> SUBSET Packet]]
    BY <2>1 DEF TypeOK
  <2>4. mpRecv' \in [Peers -> SUBSET Packet]
    <3>1. mpRecv \in [Peers -> SUBSET Packet]
      BY DEF TypeOK
    <3>2. mpRecv[p] \union {pkg} \in SUBSET Packet
      BY <2>2, <3>1
    <3>3. [mpRecv EXCEPT ![p] = @ \union {pkg}] \in [Peers -> SUBSET Packet]
      BY <3>1, <3>2
    <3> QED
      BY <2>1, <3>1, <3>3
  <2> QED
    BY <1>7, <2>3, <2>4 DEF StoreData, TypeOK
<1>8. ASSUME NEW p \in Peers, BeginHandle(p)
      PROVE  TypeOK'
  BY <1>8 DEF BeginHandle, TypeOK
<1>9. ASSUME NEW p \in Peers, HandlePkg(p)
      PROVE  TypeOK'
  <2>1. PICK pkg \in mpRecv[p] :
          /\ bufRecv' = [bufRecv EXCEPT ![p] = @ \o Bytes(pkg.data)]
          /\ mpRecv' = [mpRecv EXCEPT ![p] = @ \ {pkg}]
    BY <1>9 DEF HandlePkg
  <2>2. pkg \in Packet
    BY DEF TypeOK
  <2>3. Bytes(pkg.data) \in Seq(Nat)
    BY <2>2, BytesFacts
  <2>4. bufRecv' \in [Peers -> Seq(Nat)]
    <3>1. bufRecv[p] \o Bytes(pkg.data) \in Seq(Nat)
      BY <2>3 DEF TypeOK
    <3> QED
      BY <2>1, <3>1 DEF TypeOK
  <2>5. nextRecvSeq' \in [Peers -> Seqs]
    <3>1. nextRecvSeq[p] + 1 \in Nat
      BY DEF TypeOK, Seqs
    <3>2. Wrap(nextRecvSeq[p] + 1) \in Seqs
      BY <3>1, LinkAssumption, ModRange DEF Wrap, Seqs
    <3> QED
      BY <1>9, <3>2 DEF HandlePkg, TypeOK
  <2>6. mpRecv' \in [Peers -> SUBSET Packet]
    BY <2>1 DEF TypeOK
  <2> QED
    BY <1>9, <2>4, <2>5, <2>6 DEF HandlePkg, TypeOK
<1>10. ASSUME NEW p \in Peers, EndHandle(p)
       PROVE  TypeOK'
  BY <1>10 DEF EndHandle, TypeOK
<1>11. ASSUME NEW p \in Peers, NEW n \in RecvLens, Recv(p, n)
       PROVE  TypeOK'
  <2>1. PICK len \in 0 .. Len(bufRecv[p]) :
          /\ got' = [got EXCEPT ![p] = @ \o SubSeq(bufRecv[p], 1, len)]
          /\ bufRecv' = [bufRecv EXCEPT ![p] = Read(@, len)]
    BY <1>11, RecvFacts
  <2>2. /\ SubSeq(bufRecv[p], 1, len) \in Seq(Nat)
        /\ Read(bufRecv[p], len) \in Seq(Nat)
    BY DEF TypeOK, Read
  <2>3. got' \in [Peers -> Seq(Nat)]
    <3>1. got[p] \o SubSeq(bufRecv[p], 1, len) \in Seq(Nat)
      BY <2>2 DEF TypeOK
    <3> QED
      BY <2>1, <3>1 DEF TypeOK
  <2>4. bufRecv' \in [Peers -> Seq(Nat)]
    BY <2>1, <2>2 DEF TypeOK
  <2> QED
    BY <1>11, <2>3, <2>4 DEF Recv, TypeOK
<1>12. ASSUME NEW pkg \in net, LoseData(pkg)
       PROVE  TypeOK'
  BY <1>12 DEF LoseData, TypeOK
<1>13. ASSUME NEW ack \in acks, LoseAck(ack)
       PROVE  TypeOK'
  BY <1>13 DEF LoseAck, TypeOK
<1>14. ASSUME CloseSender
       PROVE  TypeOK'
  BY <1>14 DEF CloseSender, TypeOK
<1>15. ASSUME NEW p \in Peers, CloseReceiver(p)
       PROVE  TypeOK'
  BY <1>15 DEF CloseReceiver, TypeOK
<1>16. ASSUME UNCHANGED vars
       PROVE  TypeOK'
  BY <1>16 DEF vars, TypeOK
<1>17. ASSUME NEW p \in Peers, BeginRecv(p)
       PROVE  TypeOK'
  BY <1>17 DEF BeginRecv, TypeOK
<1> QED
  BY <1>1, <1>2, <1>3, <1>4, <1>5, <1>6, <1>7, <1>8, <1>9, <1>10, <1>11, <1>12,
     <1>13, <1>14, <1>15, <1>16, <1>17
     DEF Next, SendStep, ReceiveStep, NetworkStep, CloseStep

\* Type correctness: whatever the lengths, every packet CUMT makes or accepts
\* carries 1 to DATALEN bytes and a DWORD sequence number.
THEOREM TypeCorrect == Spec => []TypeOK
<1> QED
  BY TypeInit, TypeStep, PTL DEF Spec

-----------------------------------------------------------------------------
(***************************************************************************)
(* The largest number of packets.                                          *)
(***************************************************************************)

\* A finite, nonempty set of numbers has a greatest element: otherwise a smallest
\* set without one would have one, that of the set less an element, or this.
LEMMA MaxExists ==
  ASSUME NEW S \in SUBSET Nat, IsFiniteSet(S), S # {}
  PROVE  \E x \in S : \A y \in S : x >= y
<1> DEFINE HasMax(T) == \E x \in T : \A y \in T : x >= y
           Bad == {T \in SUBSET S : T # {} /\ ~HasMax(T)}
<1> SUFFICES ASSUME ~HasMax(S)
             PROVE  FALSE
  OBVIOUS
<1>1. S \in Bad
  OBVIOUS
<1>2. Bad \subseteq FiniteSubsetsOf(S)
  BY FS_FiniteSubsetsOfFinite
<1>3. PICK T \in Bad : \A U \in Bad : <<U, T>> \notin StrictSubsetOrdering(S)
  <2> HIDE DEF Bad
  <2> QED
    BY <1>1, <1>2, FS_StrictSubsetOrderingWellFounded, WFMin
<1>4. PICK x \in T : TRUE
  OBVIOUS
<1>5. <<T \ {x}, T>> \in StrictSubsetOrdering(S)
  BY <1>4 DEF StrictSubsetOrdering
<1>6. T \ {x} = {} \/ HasMax(T \ {x})
  BY <1>3, <1>5
<1>7. CASE T \ {x} = {}
  <2>1. T = {x} /\ x \in Nat
    BY <1>4, <1>7
  <2> QED
    BY <2>1
<1>8. CASE HasMax(T \ {x})
  <2>1. PICK m \in T \ {x} : \A y \in T \ {x} : m >= y
    BY <1>8
  <2>2. x \in Nat /\ m \in Nat /\ T \subseteq Nat
    BY <1>4
  <2>3. CASE x >= m
    <3>1. \A y \in T : x >= y
      BY <2>1, <2>2, <2>3
    <3> QED
      BY <1>4, <3>1
  <2>4. CASE m >= x
    <3>1. \A y \in T : m >= y
      BY <2>1, <2>2, <2>4
    <3> QED
      BY <2>1, <3>1
  <2> QED
    BY <2>2, <2>3, <2>4
<1> QED
  BY <1>6, <1>7, <1>8

\* No Send makes more than MaxCount packets.
LEMMA MaxCountFacts ==
  ASSUME IsFiniteSet(SendLens), SendLens # {}
  PROVE  /\ MaxCount \in Nat
         /\ \A n \in SendLens : PacketCount(n) <= MaxCount
<1> DEFINE Counts == {PacketCount(n) : n \in SendLens}
<1>1. \A n \in SendLens : PacketCount(n) \in Nat
  BY LastPacket, LinkAssumption
<1>2. Counts \in SUBSET Nat /\ Counts # {}
  BY <1>1
<1>3. IsFiniteSet(Counts)
  <2>1. [n \in SendLens |-> PacketCount(n)] \in Surjection(SendLens, Counts)
    BY DEF Surjection
  <2> QED
    BY <2>1, FS_Surjection
<1>4. \E x \in Counts : \A y \in Counts : x >= y
  <2> HIDE DEF Counts
  <2> QED
    BY <1>2, <1>3, MaxExists
<1>5. MaxCount \in Counts /\ \A y \in Counts : MaxCount >= y
  BY <1>4 DEF MaxCount, Max
<1> QED
  BY <1>1, <1>2, <1>5

-----------------------------------------------------------------------------
(***************************************************************************)
(* The invariant.                                                          *)
(***************************************************************************)

\* One packet less in the container, or one thread less past the check.
LEMMA Less ==
  ASSUME NEW a \in Nat, NEW b \in Nat, NEW m \in Nat, a <= b
  PROVE  /\ a * m \in Nat /\ b * m \in Nat
         /\ a * m <= b * m
         /\ (a - 1) * m = a * m - m
<1>1. a * m <= b * m /\ a * m \in Nat /\ b * m \in Nat
  BY MulMono, MulNat
<1>2. (a - 1) * m = a * m - m
  OBVIOUS
<1> QED
  BY <1>1, <1>2

\* What is in the container after Put is what was there and the new packets.
LEMMA PutBound ==
  ASSUME NEW map, NEW pkgs, IsFiniteSet(map), IsFiniteSet(pkgs)
  PROVE  /\ IsFiniteSet(Put(map, pkgs))
         /\ Cardinality(Put(map, pkgs)) <= Cardinality(map) + Cardinality(pkgs)
<1> DEFINE rest == {q \in map : \A r \in pkgs : q.seq # r.seq}
<1>1. rest \subseteq map /\ Put(map, pkgs) = rest \union pkgs
  BY DEF Put
<1>2. IsFiniteSet(rest) /\ Cardinality(rest) <= Cardinality(map)
  BY <1>1, FS_Subset
<1>3. /\ IsFiniteSet(rest \union pkgs)
      /\ Cardinality(rest \union pkgs)
           = Cardinality(rest) + Cardinality(pkgs) - Cardinality(rest \cap pkgs)
  BY <1>2, FS_Union
<1>4. IsFiniteSet(rest \cap pkgs)
  BY <1>2, FS_Subset
<1>5. /\ Cardinality(rest) \in Nat /\ Cardinality(map) \in Nat
      /\ Cardinality(pkgs) \in Nat /\ Cardinality(rest \cap pkgs) \in Nat
      /\ Cardinality(rest \union pkgs) \in Nat
  BY <1>2, <1>3, <1>4, FS_CardinalityType
<1> QED
  BY <1>1, <1>2, <1>3, <1>5

\* The packets of one Send: a finite set, at most as large as its sequence.
LEMMA SplitBound ==
  ASSUME TypeOK, NEW p \in Peers, NEW n \in SendLens
  PROVE  /\ IsFiniteSet(Range(Split(p, n)))
         /\ Cardinality(Range(Split(p, n))) <= PacketCount(n)
<1> DEFINE pkgs == Split(p, n)
<1>1. n \in Nat /\ PacketCount(n) \in Nat
  BY LastPacket, LinkAssumption
<1>2. pkgs \in Seq(Packet) /\ Len(pkgs) = PacketCount(n)
  BY <1>1, SplitFacts
<1> HIDE DEF pkgs
<1>3. /\ IsFiniteSet(1 .. Len(pkgs))
      /\ Cardinality(1 .. Len(pkgs)) = PacketCount(n)
  BY <1>1, <1>2, FS_Interval
<1>4. pkgs \in Surjection(1 .. Len(pkgs), Range(pkgs))
  BY <1>2 DEF Range, Surjection
<1>5. /\ IsFiniteSet(Range(pkgs))
      /\ Cardinality(Range(pkgs)) <= Cardinality(1 .. Len(pkgs))
  BY <1>3, <1>4, FS_Surjection
<1>6. Range(pkgs) = Range(Split(p, n))
  BY DEF pkgs
<1> QED
  BY <1>3, <1>4, <1>5, <1>6

\* The threads past the check are some of the threads.
LEMMA AdmittedFinite ==
  ASSUME TypeOK, IsFiniteSet(Senders)
  PROVE  /\ IsFiniteSet(Admitted)
         /\ Cardinality(Admitted) \in Nat /\ Cardinality(Senders) \in Nat
         /\ Cardinality(Admitted) <= Cardinality(Senders)
<1>1. Admitted \subseteq Senders
  BY DEF Admitted, TypeOK
<1> QED
  BY <1>1, FS_Subset, FS_CardinalityType

\* A container that only shrinks keeps the bound.
LEMMA Shrinks ==
  ASSUME BoundInv, mpSend' \subseteq mpSend, UNCHANGED admitted,
         TypeOK, IsFiniteSet(Senders),
         IsFiniteSet(SendLens), SendLens # {}
  PROVE  BoundInv'
<1>1. IsFiniteSet(mpSend') /\ Cardinality(mpSend') <= Cardinality(mpSend)
  BY FS_Subset DEF BoundInv
<1>2. Cardinality(mpSend') \in Nat /\ Cardinality(mpSend) \in Nat
  BY <1>1, FS_CardinalityType DEF BoundInv
<1>3. Admitted' = Admitted
  BY DEF Admitted
<1>4. Cardinality(Admitted) * MaxCount \in Nat
      /\ Cardinality(Senders) * MaxCount \in Nat
  BY AdmittedFinite, MaxCountFacts, MulNat
<1>5. Cardinality(mpSend') + Cardinality(Admitted) * MaxCount
        <= SendLimit + Cardinality(Senders) * MaxCount
  BY <1>1, <1>2, <1>4, LinkAssumption DEF BoundInv
<1> QED
  BY <1>1, <1>3, <1>5 DEF BoundInv

LEMMA BoundInit ==
  ASSUME Init, IsFiniteSet(Senders), IsFiniteSet(SendLens), SendLens # {}
  PROVE  BoundInv
<1>1. IsFiniteSet(mpSend) /\ Cardinality(mpSend) = 0
  BY FS_EmptySet DEF Init
<1>2. Admitted = {} /\ Cardinality(Admitted) = 0
  BY FS_EmptySet DEF Init, Admitted
<1>3. MaxCount \in Nat /\ Cardinality(Senders) \in Nat
  BY MaxCountFacts, FS_CardinalityType
<1>4. 0 + 0 * MaxCount <= SendLimit + Cardinality(Senders) * MaxCount
  BY <1>3, MulNat, LinkAssumption
<1> QED
  BY <1>1, <1>2, <1>4 DEF BoundInv, Init

\* BeginSend looks at the container; Send adds to it and leaves the threads past
\* the check; no other step adds to either.
LEMMA BoundStep ==
  ASSUME IsCli, IsFiniteSet(Senders), IsFiniteSet(SendLens), SendLens # {},
         TypeOK, TypeOK', BoundInv, [Next]_vars
  PROVE  BoundInv'
<1> USE DEF sndVars, rcvVars
<1>0. /\ MaxCount \in Nat
      /\ Cardinality(Senders) \in Nat /\ Cardinality(Admitted) \in Nat
      /\ Cardinality(mpSend) \in Nat
      /\ Cardinality(Admitted)' \in Nat
      /\ Cardinality(Admitted)' <= Cardinality(Senders)
  <2>1. Admitted' \subseteq Senders
    BY DEF Admitted, TypeOK
  <2> QED
    BY <2>1, MaxCountFacts, AdmittedFinite, FS_Subset, FS_CardinalityType
    DEF BoundInv
<1>1. ASSUME NEW s \in Senders, NEW p \in Peers, BeginSend(s, p)
      PROVE  BoundInv'
  <2>1. mpSend' = mpSend /\ Cardinality(mpSend) <= SendLimit
    BY <1>1 DEF BeginSend, SizeSeenBySend
  <2>2. \A a, b \in admitted' : a[1] = b[1] => a = b
    <3>1. admitted' = admitted \union {<<s, p>>}
          /\ \A q \in Peers : <<s, q>> \notin admitted
      BY <1>1 DEF BeginSend
    <3>2. \A a \in admitted : a = <<a[1], a[2]>> /\ a[2] \in Peers
      BY DEF TypeOK
    <3>3. \A a \in admitted : a[1] # s
      BY <3>1, <3>2
    <3> QED
      BY <3>1, <3>3 DEF BoundInv
  <2>3. Cardinality(Admitted)' * MaxCount <= Cardinality(Senders) * MaxCount
    BY <1>0, Less
  <2>4. /\ Cardinality(Admitted)' * MaxCount \in Nat
        /\ Cardinality(Senders) * MaxCount \in Nat
    BY <1>0, MulNat
  <2>5. Cardinality(mpSend) + Cardinality(Admitted)' * MaxCount
          <= SendLimit + Cardinality(Senders) * MaxCount
    BY <1>0, <2>1, <2>3, <2>4, LinkAssumption
  <2> QED
    BY <2>1, <2>2, <2>5 DEF BoundInv, MaxCount
<1>2. ASSUME NEW s \in Senders, NEW p \in Peers, NEW n \in SendLens,
             Send(s, p, n)
      PROVE  BoundInv'
  <2> DEFINE pkgs == Range(Split(p, n))
  <2>1. /\ IsFiniteSet(pkgs) /\ Cardinality(pkgs) \in Nat
        /\ Cardinality(pkgs) <= MaxCount
    <3>1. PacketCount(n) \in Nat /\ PacketCount(n) <= MaxCount
      BY MaxCountFacts, LastPacket, LinkAssumption
    <3> QED
      BY <1>0, <3>1, SplitBound, FS_CardinalityType
  <2>2. mpSend' = Put(mpSend, pkgs) /\ admitted' = admitted \ {<<s, p>>}
        /\ <<s, p>> \in admitted
    BY <1>2 DEF Send
  <2>3. /\ IsFiniteSet(mpSend') /\ Cardinality(mpSend') \in Nat
        /\ Cardinality(mpSend') <= Cardinality(mpSend) + MaxCount
    <3> HIDE DEF pkgs
    <3>1. /\ IsFiniteSet(mpSend')
          /\ Cardinality(mpSend') <= Cardinality(mpSend) + Cardinality(pkgs)
      BY <2>1, <2>2, PutBound DEF BoundInv
    <3> QED
      BY <1>0, <2>1, <3>1, FS_CardinalityType
  <2>4. Cardinality(Admitted)' = Cardinality(Admitted) - 1
    <3>1. \A a \in admitted : a[1] = s => a = <<s, p>>
      BY <2>2 DEF BoundInv
    <3>2. Admitted' = Admitted \ {s} /\ s \in Admitted
      BY <2>2, <3>1 DEF Admitted
    <3> QED
      BY <3>2, AdmittedFinite, FS_RemoveElement
  <2>5. Cardinality(Admitted)' * MaxCount
          = Cardinality(Admitted) * MaxCount - MaxCount
    BY <1>0, <2>4, Less
  <2>6. /\ Cardinality(Admitted) * MaxCount \in Nat
        /\ Cardinality(Senders) * MaxCount \in Nat
    BY <1>0, MulNat
  <2>7. Cardinality(mpSend') + Cardinality(Admitted)' * MaxCount
          <= SendLimit + Cardinality(Senders) * MaxCount
    BY <1>0, <2>3, <2>5, <2>6, LinkAssumption DEF BoundInv
  <2>8. \A a, b \in admitted' : a[1] = b[1] => a = b
    BY <2>2 DEF BoundInv
  <2> QED
    BY <2>3, <2>7, <2>8 DEF BoundInv, MaxCount
<1>3. ASSUME SendThread
      PROVE  BoundInv'
  BY <1>3, Shrinks DEF SendThread
<1>4. ASSUME NEW pkg \in mpSend, Elapse(pkg)
      PROVE  BoundInv'
  BY <1>4, Shrinks DEF Elapse
<1>5. ASSUME NEW ack \in acks, RecvAck(ack)
      PROVE  BoundInv'
  BY <1>5, Shrinks DEF RecvAck
<1>6. ASSUME ReceiveStep
      PROVE  BoundInv'
  BY <1>6, Shrinks
  DEF ReceiveStep, RecvData, StoreData, BeginHandle, HandlePkg, EndHandle,
      BeginRecv, Recv
<1>7. ASSUME NetworkStep \/ CloseStep
      PROVE  BoundInv'
  BY <1>7, Shrinks
  DEF NetworkStep, CloseStep, LoseData, LoseAck, CloseSender, CloseReceiver
<1>8. ASSUME UNCHANGED vars
      PROVE  BoundInv'
  BY <1>8, Shrinks DEF vars
<1> QED
  BY <1>1, <1>2, <1>3, <1>4, <1>5, <1>6, <1>7, <1>8 DEF Next, SendStep

\* The invariant implies the bound: what the threads past the check have yet to
\* add is not negative.
LEMMA BoundEnough ==
  ASSUME TypeOK, BoundInv,
         IsFiniteSet(Senders), IsFiniteSet(SendLens), SendLens # {}
  PROVE  SendMapBounded
<1>1. /\ Cardinality(Admitted) * MaxCount \in Nat
      /\ Cardinality(Senders) * MaxCount \in Nat
  BY AdmittedFinite, MaxCountFacts, MulNat
<1>2. Cardinality(mpSend) \in Nat
  BY FS_CardinalityType DEF BoundInv
<1> QED
  BY <1>1, <1>2, LinkAssumption DEF BoundInv, SendMapBounded

-----------------------------------------------------------------------------
\* Send's comment asks for about 100 packets in m_mpSend (CUMT.cpp:184).  On a
\* client the container exceeds the limit by no more than one Send of every
\* thread, although the size is read under one hold of the lock and the packets
\* are queued under another.
THEOREM SendMapBoundedCorrect ==
  ASSUME IsCli, IsFiniteSet(Senders), IsFiniteSet(SendLens), SendLens # {}
  PROVE  Spec => []SendMapBounded
<1>1. Init => TypeOK /\ BoundInv
  BY TypeInit, BoundInit
<1>2. TypeOK /\ BoundInv /\ [Next]_vars => (TypeOK /\ BoundInv)'
  BY TypeStep, BoundStep
<1>3. TypeOK /\ BoundInv => SendMapBounded
  BY BoundEnough
<1> QED
  BY <1>1, <1>2, <1>3, PTL DEF Spec
=============================================================================
