---------------------------- MODULE UmtLinkSafety ----------------------------
(***************************************************************************)
(* Safety of the CUMT data path for any number of packets, threads and     *)
(* lengths, as long as no sequence number wraps around and none is damaged *)
(* on the way: what Recv returns; for the sending socket of a client, that *)
(* no packet is lost between the containers of the two ends; and that the  *)
(* data path implements a pipe of bytes to every peer.                     *)
(***************************************************************************)
EXTENDS UmtLinkProofs, SequenceTheorems

-----------------------------------------------------------------------------
(***************************************************************************)
(* The split of a buffer, without products.                                *)
(***************************************************************************)
\* The packets of one Send follow one another without a gap, from the first
\* byte after those sent before to the last byte of the buffer.
LEMMA SplitOrder ==
  ASSUME TypeOK, NEW p \in Peers, NEW n \in Nat,
         NEW i \in 1 .. PacketCount(n)
  PROVE  LET pkgs == Split(p, n)
         IN  /\ pkgs[i].data.first =
                  IF i = 1 THEN sent[p] + 1 ELSE LastByte(pkgs[i - 1].data) + 1
             /\ sent[p] < pkgs[i].data.first
             /\ LastByte(pkgs[i].data) <= sent[p] + n
             /\ i = PacketCount(n) => LastByte(pkgs[i].data) = sent[p] + n
             /\ \A j \in 1 .. i - 1 :
                  LastByte(pkgs[j].data) < pkgs[i].data.first
<1> DEFINE cnt == PacketCount(n)
           F(j) == Split(p, n)[j].data.first
           L(j) == LastByte(Split(p, n)[j].data)
<1>1. DataLen \in Nat \ {0} /\ sent[p] \in Nat
  BY LinkAssumption DEF TypeOK
<1>2. cnt \in Nat /\ (cnt > 0 => n - (cnt - 1) * DataLen \in 1 .. DataLen)
  BY LastPacket
<1>3. \A j \in 1 .. cnt :
        /\ F(j) = sent[p] + (j - 1) * DataLen + 1
        /\ L(j) = IF j = cnt THEN sent[p] + n ELSE sent[p] + j * DataLen
  <2> SUFFICES ASSUME NEW j \in 1 .. cnt
               PROVE  /\ F(j) = sent[p] + (j - 1) * DataLen + 1
                      /\ L(j) = IF j = cnt THEN sent[p] + n
                                         ELSE sent[p] + j * DataLen
    OBVIOUS
  <2>1. F(j) = sent[p] + (j - 1) * DataLen + 1
    BY SplitFacts, Zenon
  <2>2. L(j) = IF j = cnt THEN sent[p] + n ELSE sent[p] + j * DataLen
    BY SplitFacts, SMT
  <2> QED
    BY <2>1, <2>2
<1> DEFINE m == (cnt - 1) * DataLen
           a == (i - 1) * DataLen
<1>4. m \in Nat /\ a \in Nat /\ i \in Nat /\ cnt >= i
  <2>1. cnt - 1 \in Nat /\ i - 1 \in Nat
    BY <1>2
  <2> QED
    BY <1>1, <1>2, <2>1, MulNat
<1>5. m < n
  <2>1. n - m \in 1 .. DataLen
    BY <1>2, <1>4
  <2> HIDE DEF m
  <2> QED
    BY <2>1, <1>4, <1>1
<1>6. F(i) = sent[p] + a + 1
  BY <1>3
<1>7. i < cnt => i * DataLen <= m
  BY <1>1, <1>2, <1>4, MulMono
<1>8. L(i) <= sent[p] + n
  <2>1. CASE i = cnt
    BY <1>3, <2>1, <1>1
  <2>2. CASE i < cnt
    <3>1. L(i) = sent[p] + i * DataLen /\ i * DataLen \in Nat
      BY <1>3, <2>2, <1>1, <1>4, MulNat
    <3> HIDE DEF L, m
    <3> QED
      BY <3>1, <1>1, <1>4, <1>5, <1>7, <2>2
  <2> QED
    BY <1>2, <1>4, <2>1, <2>2
<1>9. i = cnt => L(i) = sent[p] + n
  BY <1>3
<1>10. ASSUME NEW j \in 1 .. i - 1
       PROVE  L(j) = sent[p] + j * DataLen /\ L(j) < F(i)
  <2>1. L(j) = sent[p] + j * DataLen
    BY <1>2, <1>3, <1>4
  <2>2. j * DataLen <= a
    BY <1>1, <1>4, MulMono
  <2>3. j * DataLen \in Nat
    BY <1>1, <1>4, MulNat
  <2> HIDE DEF L, F, a
  <2> QED
    BY <1>1, <1>4, <1>6, <2>1, <2>2, <2>3
<1>11. F(i) = IF i = 1 THEN sent[p] + 1 ELSE L(i - 1) + 1
  <2>1. CASE i = 1
    BY <1>1, <1>6, <2>1
  <2>2. CASE i # 1
    <3>1. i - 1 \in 1 .. i - 1
      BY <1>4, <2>2
    <3>2. L(i - 1) = sent[p] + a
      BY <3>1, <1>10
    <3> HIDE DEF L, F, a
    <3> QED
      BY <3>2, <1>6, <2>2
  <2> QED
    BY <2>1, <2>2
<1>12. sent[p] < F(i)
  <2> HIDE DEF F, a
  <2> QED
    BY <1>1, <1>4, <1>6
<1> QED
  BY <1>8, <1>9, <1>10, <1>11, <1>12

-----------------------------------------------------------------------------
(***************************************************************************)
(* Streams.                                                                *)
(***************************************************************************)
\* Without wrap-around DWORD arithmetic is that of the numbers.
LEMMA WrapSmall ==
  ASSUME NumbersHold, NEW n \in 0 .. MaxPackets + 1
  PROVE  Wrap(n) = n
<1>1. DwordMod \in Nat \ {0} /\ MaxPackets \in Nat
  BY LinkAssumption
<1>2. n \in Nat /\ n < DwordMod
  BY <1>1 DEF NumbersHold, NoWrap
<1> QED
  BY <1>1, <1>2, ModSmall DEF Wrap

\* The packets of a stream are packets, and their bytes are positions.
LEMMA StreamTypes ==
  ASSUME TypeOK, NEW p \in Peers
  PROVE  /\ stream[p] \in Seq(Packet)
         /\ Len(stream[p]) \in Nat
         /\ sent[p] \in Nat
         /\ \A k \in 1 .. Len(stream[p]) :
              /\ stream[p][k] \in Packet
              /\ stream[p][k].data.first \in Nat
              /\ LastByte(stream[p][k].data) \in Nat
              /\ stream[p][k].data.first <= LastByte(stream[p][k].data)
<1>1. stream[p] \in Seq(Packet) /\ sent[p] \in Nat
  BY DEF TypeOK
<1>2. ASSUME NEW k \in 1 .. Len(stream[p])
      PROVE  /\ stream[p][k] \in Packet
             /\ stream[p][k].data.first \in Nat
             /\ LastByte(stream[p][k].data) \in Nat
             /\ stream[p][k].data.first <= LastByte(stream[p][k].data)
  <2>1. stream[p][k] \in Packet
    BY <1>1
  <2>2. /\ stream[p][k].data.first \in Nat
        /\ stream[p][k].data.len \in 1 .. DataLen
    BY <2>1 DEF Packet, Span
  <2> DEFINE d == stream[p][k].data
  <2>3. LastByte(d) = d.first + d.len - 1
    BY DEF LastByte
  <2>4. DataLen \in Nat
    BY LinkAssumption
  <2> HIDE DEF d
  <2>5. /\ d.first \in Nat /\ d.len \in 1 .. DataLen
    BY <2>2 DEF d
  <2>6. LastByte(d) \in Nat /\ d.first <= LastByte(d)
    BY <2>3, <2>4, <2>5
  <2> QED
    BY <2>1, <2>2, <2>6 DEF d
<1> QED
  BY <1>1, <1>2

\* Send appends to the stream of its peer, under new numbers, and touches no
\* other stream.
LEMMA SendAppends ==
  ASSUME NumbersHold, TypeOK, StreamInv,
         NEW s \in Senders, NEW p \in Peers, NEW n \in SendLens, Send(s, p, n)
  PROVE  LET pkgs == Split(p, n)
             old  == Len(stream[p])
         IN  /\ n \in Nat
             /\ Len(pkgs) = PacketCount(n)
             /\ Len(pkgs) \in Nat
             /\ old + Len(pkgs) <= MaxPackets
             /\ stream' = [stream EXCEPT ![p] = stream'[p]]
             /\ Len(stream'[p]) = old + Len(pkgs)
             /\ \A k \in 1 .. old : stream'[p][k] = stream[p][k]
             /\ \A i \in 1 .. Len(pkgs) :
                  /\ stream'[p][old + i] = pkgs[i]
                  /\ pkgs[i].seq = old + i
                  /\ pkgs[i].peer = p
                  /\ pkgs[i].check = Crc32(pkgs[i].data)
             /\ nextSendSeq' = [nextSendSeq EXCEPT ![p] = old + Len(pkgs) + 1]
             /\ sent' = [sent EXCEPT ![p] = sent[p] + n]
<1> DEFINE pkgs == Split(p, n)
           old == Len(stream[p])
<1>1. n \in Nat
  BY LinkAssumption
<1>2. /\ pkgs \in Seq(Packet)
      /\ Len(pkgs) = PacketCount(n)
      /\ Len(pkgs) \in Nat
  BY <1>1, SplitFacts
<1>3. /\ old \in Nat
      /\ MaxPackets \in Nat
      /\ nextSendSeq[p] = old + 1
      /\ stream[p] \in Seq(Packet)
  BY StreamTypes, LinkAssumption DEF StreamInv, Contiguous
<1>4. old + Len(pkgs) <= MaxPackets
  BY DEF Send
<1>5. stream' = [stream EXCEPT ![p] = stream[p] \o pkgs]
  BY DEF Send
<1>6. stream'[p] = stream[p] \o pkgs /\ stream' = [stream EXCEPT ![p] = stream'[p]]
  BY <1>5 DEF TypeOK
<1>7. ASSUME NEW i \in 1 .. Len(pkgs)
      PROVE  /\ pkgs[i].seq = old + i
             /\ pkgs[i].peer = p
             /\ pkgs[i].check = Crc32(pkgs[i].data)
  <2>1. pkgs[i].seq = Wrap(nextSendSeq[p] + i - 1)
    BY <1>1, <1>2, SplitFacts
  <2>2. nextSendSeq[p] + i - 1 = old + i /\ old + i \in 0 .. MaxPackets + 1
    BY <1>2, <1>3, <1>4
  <2>3. i \in 1 .. PacketCount(n)
    BY <1>2
  <2>4. pkgs[i].peer = p /\ pkgs[i].check = Crc32(pkgs[i].data)
    BY <1>1, <2>3, SplitFacts
  <2> QED
    BY <2>1, <2>2, <2>4, WrapSmall
<1>8. nextSendSeq' = [nextSendSeq EXCEPT ![p] = old + Len(pkgs) + 1]
  <2>1. nextSendSeq' = [nextSendSeq EXCEPT ![p] = Wrap(nextSendSeq[p] + Len(pkgs))]
    BY DEF Send
  <2>2. nextSendSeq[p] + Len(pkgs) = old + Len(pkgs) + 1
    BY <1>2, <1>3
  <2>3. old + Len(pkgs) + 1 \in 0 .. MaxPackets + 1
    BY <1>2, <1>3, <1>4
  <2> QED
    BY <2>1, <2>2, <2>3, WrapSmall
<1>9. sent' = [sent EXCEPT ![p] = sent[p] + n]
  BY DEF Send
<1> HIDE DEF pkgs
<1>10. /\ Len(stream'[p]) = old + Len(pkgs)
       /\ \A k \in 1 .. old : stream'[p][k] = stream[p][k]
       /\ \A i \in 1 .. Len(pkgs) : stream'[p][old + i] = pkgs[i]
  <2>1. /\ Len(stream[p] \o pkgs) = old + Len(pkgs)
        /\ \A k \in 1 .. old + Len(pkgs) :
             (stream[p] \o pkgs)[k] =
                IF k <= old THEN stream[p][k] ELSE pkgs[k - old]
    BY <1>2, <1>3, ConcatProperties
  <2>2. ASSUME NEW i \in 1 .. Len(pkgs)
        PROVE  (stream[p] \o pkgs)[old + i] = pkgs[i]
    <3>1. /\ old + i \in 1 .. old + Len(pkgs)
          /\ ~(old + i <= old)
          /\ (old + i) - old = i
      BY <1>2, <1>3
    <3> HIDE DEF old
    <3> QED
      BY <2>1, <3>1
  <2>3. ASSUME NEW k \in 1 .. old
        PROVE  (stream[p] \o pkgs)[k] = stream[p][k]
    <3>1. k \in 1 .. old + Len(pkgs) /\ k <= old
      BY <1>2, <1>3
    <3> HIDE DEF old
    <3> QED
      BY <2>1, <3>1
  <2> QED
    BY <1>6, <2>1, <2>2, <2>3
<1> QED
  BY <1>1, <1>2, <1>4, <1>6, <1>7, <1>8, <1>9, <1>10 DEF pkgs

\* Send keeps the streams contiguous.
LEMMA SendStream ==
  ASSUME NumbersHold, TypeOK, TypeOK', StreamInv,
         NEW s \in Senders, NEW p \in Peers, NEW n \in SendLens, Send(s, p, n)
  PROVE  StreamInv'
<1> DEFINE pkgs == Split(p, n)
           old == Len(stream[p])
           cnt == Len(pkgs)
           new == stream'[p]
<1>1. /\ n \in Nat
      /\ cnt = PacketCount(n) /\ cnt \in Nat
      /\ old + cnt <= MaxPackets
      /\ stream' = [stream EXCEPT ![p] = new]
      /\ Len(new) = old + cnt
      /\ \A k \in 1 .. old : new[k] = stream[p][k]
      /\ \A i \in 1 .. cnt : /\ new[old + i] = pkgs[i]
                             /\ pkgs[i].seq = old + i
                             /\ pkgs[i].peer = p
                             /\ pkgs[i].check = Crc32(pkgs[i].data)
      /\ nextSendSeq' = [nextSendSeq EXCEPT ![p] = old + cnt + 1]
      /\ sent' = [sent EXCEPT ![p] = sent[p] + n]
  BY SendAppends
<1>2. /\ old \in Nat
      /\ sent[p] \in Nat
      /\ sent'[p] = sent[p] + n
      /\ nextSendSeq'[p] = old + cnt + 1
      /\ sent[p] = End(stream[p], old)
  BY <1>1, StreamTypes DEF TypeOK, StreamInv, Contiguous
<1>3. ASSUME NEW i \in 1 .. cnt
      PROVE  /\ pkgs[i].data.first =
                  IF i = 1 THEN sent[p] + 1 ELSE LastByte(pkgs[i - 1].data) + 1
             /\ sent[p] < pkgs[i].data.first
             /\ LastByte(pkgs[i].data) <= sent[p] + n
             /\ i = cnt => LastByte(pkgs[i].data) = sent[p] + n
             /\ \A j \in 1 .. i - 1 :
                  LastByte(pkgs[j].data) < pkgs[i].data.first
  <2>1. n \in Nat /\ cnt = PacketCount(n) /\ i \in 1 .. PacketCount(n)
    BY <1>1
  <2> HIDE DEF cnt
  <2> QED
    BY <2>1, SplitOrder
<1>4. ASSUME NEW k \in 1 .. Len(new)
      PROVE  \/ k \in 1 .. old
             \/ \E i \in 1 .. cnt : k = old + i /\ new[k] = pkgs[i]
  <2>1. CASE k > old
    <3>1. k - old \in 1 .. cnt /\ k = old + (k - old)
      BY <1>1, <1>2, <2>1
    <3> QED
      BY <1>1, <3>1
  <2> QED
    BY <1>2, <2>1
<1>5. ASSUME NEW k \in 0 .. Len(new)
      PROVE  End(new, k) = IF k = 0 THEN 0 ELSE LastByte(new[k].data)
  BY DEF End, LastByte
<1>4a. ASSUME NEW k \in 0 .. old
      PROVE  End(new, k) = End(stream[p], k)
  <2>1. k # 0 => new[k] = stream[p][k]
    BY <1>1, <1>2
  <2> HIDE DEF new
  <2> QED
    BY <2>1 DEF End
<1>4b. ASSUME NEW i \in 1 .. cnt
      PROVE  pkgs[i] \in Packet
  BY <1>1, SplitFacts
<1> HIDE DEF pkgs, cnt, new
<1>6. ASSUME NEW k \in 1 .. Len(new)
      PROVE  /\ new[k].peer = p
             /\ new[k].seq = k
             /\ new[k].check = Crc32(new[k].data)
             /\ new[k].data.first = End(new, k - 1) + 1
             /\ LastByte(new[k].data) <= sent'[p]
             /\ \A j \in 1 .. k - 1 :
                  LastByte(new[j].data) < new[k].data.first
  <2>1. CASE k \in 1 .. old
    <3>1. /\ new[k] = stream[p][k]
          /\ \A j \in 1 .. k - 1 : j \in 1 .. old /\ new[j] = stream[p][j]
      <4> HIDE DEF old
      <4> QED
        BY <1>1, <1>2, <2>1
    <3>2. End(new, k - 1) = End(stream[p], k - 1)
      BY <1>2, <1>4a, <2>1
    <3>3. LastByte(stream[p][k].data) <= sent'[p]
      <4>1. LastByte(stream[p][k].data) <= sent[p]
        BY <2>1 DEF StreamInv, Contiguous
      <4>2. LastByte(stream[p][k].data) \in Nat
        BY <2>1, StreamTypes
      <4>3. n \in Nat
        BY <1>1
      <4> DEFINE e == LastByte(stream[p][k].data)
      <4> HIDE DEF e
      <4>4. e \in Nat /\ e <= sent[p]
        BY <4>1, <4>2 DEF e
      <4>5. e <= sent'[p]
        BY <1>2, <4>3, <4>4
      <4> QED
        BY <4>5 DEF e
    <3>4. /\ stream[p][k].peer = p
          /\ stream[p][k].seq = k
          /\ stream[p][k].check = Crc32(stream[p][k].data)
          /\ stream[p][k].data.first = End(stream[p], k - 1) + 1
          /\ \A j \in 1 .. k - 1 :
               LastByte(stream[p][j].data) < stream[p][k].data.first
      BY <2>1 DEF StreamInv, Contiguous
    <3> HIDE DEF old
    <3> QED
      BY <3>1, <3>2, <3>3, <3>4
  <2>2. CASE \E i \in 1 .. cnt : k = old + i /\ new[k] = pkgs[i]
    <3>1. PICK i \in 1 .. cnt : k = old + i /\ new[k] = pkgs[i]
      BY <2>2
    <3>2. new[k].data.first = End(new, k - 1) + 1
      <4>1. CASE i = 1
        <5>1. k - 1 = old /\ k - 1 \in 0 .. Len(new)
          BY <1>1, <1>2, <3>1, <4>1
        <5>2. End(new, k - 1) = End(stream[p], old)
          BY <1>2, <1>4a, <5>1
        <5> QED
          BY <1>2, <1>3, <3>1, <4>1, <5>2
      <4>2. CASE i # 1
        <5>1. /\ i - 1 \in 1 .. cnt
              /\ k - 1 = old + (i - 1)
              /\ k - 1 \in 0 .. Len(new)
              /\ k - 1 # 0
          <6>1. old \in Nat /\ cnt \in Nat /\ Len(new) = old + cnt
            BY <1>1, <1>2
          <6> HIDE DEF old
          <6> QED
            BY <3>1, <4>2, <6>1
        <5>2. End(new, k - 1) = LastByte(pkgs[i - 1].data)
          BY <1>1, <1>5, <5>1
        <5> QED
          BY <1>3, <3>1, <4>2, <5>2
      <4> QED
        BY <4>1, <4>2
    <3>3. ASSUME NEW j \in 1 .. k - 1
          PROVE  LastByte(new[j].data) < new[k].data.first
      <4>1. j \in 1 .. Len(new)
        BY <1>1, <1>2, <3>1
      <4>2. CASE j \in 1 .. old
        <5>1. /\ LastByte(stream[p][j].data) \in Nat
              /\ LastByte(stream[p][j].data) <= sent[p]
          BY <4>2, StreamTypes DEF StreamInv, Contiguous
        <5>2. pkgs[i].data.first \in Nat
          BY <1>4b DEF Packet, Span
        <5>3. new[j] = stream[p][j]
          BY <1>1, <4>2
        <5>4. sent[p] < pkgs[i].data.first
          BY <1>3
        <5> HIDE DEF old
        <5> QED
          BY <1>2, <3>1, <5>1, <5>2, <5>3, <5>4
      <4>3. CASE \E h \in 1 .. cnt : j = old + h /\ new[j] = pkgs[h]
        <5>1. PICK h \in 1 .. cnt : j = old + h /\ new[j] = pkgs[h]
          BY <4>3
        <5>2. h \in 1 .. i - 1
          BY <1>1, <1>2, <3>1, <5>1
        <5> QED
          BY <1>3, <3>1, <5>1, <5>2
      <4> QED
        BY <1>4, <4>1, <4>2, <4>3
    <3> QED
      BY <1>1, <1>2, <1>3, <3>1, <3>2, <3>3
  <2> QED
    BY <1>4, <2>1, <2>2
<1>7. sent'[p] = End(new, Len(new))
  <2>1. CASE cnt = 0
    <3>1. n = 0
      BY <1>1, <2>1, LastPacket
    <3>2. Len(new) = old
      BY <1>1, <1>2, <2>1
    <3>3. End(new, old) = End(stream[p], old)
      BY <1>2, <1>4a
    <3> QED
      BY <1>2, <3>1, <3>2, <3>3
  <2>2. CASE cnt # 0
    <3>1. cnt \in 1 .. cnt /\ Len(new) = old + cnt /\ Len(new) # 0
      BY <1>1, <1>2, <2>2
    <3>2. Len(new) \in 0 .. Len(new) /\ new[Len(new)] = pkgs[cnt]
      BY <1>1, <1>2, <3>1
    <3>3. End(new, Len(new)) = LastByte(pkgs[cnt].data)
      BY <1>5, <3>1, <3>2
    <3> QED
      BY <1>2, <1>3, <3>1, <3>3
  <2> QED
    BY <2>1, <2>2
<1>8. ASSUME NEW q \in Peers, q # p
      PROVE  Contiguous(q)'
  <2>1. /\ stream'[q] = stream[q]
        /\ nextSendSeq'[q] = nextSendSeq[q]
        /\ sent'[q] = sent[q]
    BY <1>1, <1>8 DEF TypeOK
  <2> QED
    BY <2>1 DEF StreamInv, Contiguous
<1>9. Len(new) <= MaxPackets /\ nextSendSeq'[p] = Len(new) + 1
  BY <1>1, <1>2
<1>10. Contiguous(p)'
  BY <1>6, <1>7, <1>9 DEF Contiguous, new
<1> QED
  BY <1>8, <1>10 DEF StreamInv

-----------------------------------------------------------------------------
(***************************************************************************)
(* Packets.                                                                *)
(***************************************************************************)
\* A step keeps every packet made so far at its place in its stream.
Grows ==
  \A p \in Peers : \A k \in 1 .. Len(stream[p]) :
    k \in 1 .. Len(stream'[p]) /\ stream'[p][k] = stream[p][k]

\* Send only appends to the streams.
LEMMA SendGrows ==
  ASSUME NumbersHold, TypeOK, StreamInv,
         NEW s \in Senders, NEW p \in Peers, NEW n \in SendLens, Send(s, p, n)
  PROVE  Grows
<1> DEFINE old == Len(stream[p])
           cnt == Len(Split(p, n))
<1>1. /\ cnt \in Nat
      /\ stream' = [stream EXCEPT ![p] = stream'[p]]
      /\ Len(stream'[p]) = old + cnt
      /\ \A k \in 1 .. old : stream'[p][k] = stream[p][k]
  BY SendAppends
<1>2. old \in Nat
  BY StreamTypes
<1>3. ASSUME NEW k \in 1 .. old
      PROVE  k \in 1 .. Len(stream'[p]) /\ stream'[p][k] = stream[p][k]
  <2> HIDE DEF old, cnt
  <2> QED
    BY <1>1, <1>2
<1>4. ASSUME NEW q \in Peers, q # p
      PROVE  stream'[q] = stream[q]
  BY <1>1, <1>4 DEF TypeOK
<1> QED
  BY <1>3, <1>4 DEF Grows

\* Every other step leaves the streams alone.
LEMMA SameGrows == stream' = stream => Grows
  BY DEF Grows

\* A packet Send made stays the one with its number.
LEMMA MadeStable ==
  ASSUME Grows, NEW p \in Peers, NEW pkg, Made(p, pkg)
  PROVE  Made(p, pkg)'
  BY DEF Grows, Made

\* The CRC of a packet of the stream does not match once it is damaged.
LEMMA MadeIntact ==
  ASSUME TypeOK, StreamInv, NEW p \in Peers, NEW pkg, Made(p, pkg),
         NEW arrived \in {pkg, Damaged(pkg)},
         Crc32(arrived.data) = arrived.check
  PROVE  arrived = pkg
<1> DEFINE k == pkg.seq
<1>1. k \in 1 .. Len(stream[p]) /\ pkg = stream[p][k]
  BY DEF Made
<1>2. /\ pkg \in Packet
      /\ pkg.check = Crc32(pkg.data)
      /\ pkg.data.first = End(stream[p], k - 1) + 1
  BY <1>1, StreamTypes DEF StreamInv, Contiguous
<1>3. End(stream[p], k - 1) \in Nat
  <2>1. k - 1 # 0 => k - 1 \in 1 .. Len(stream[p])
    BY <1>1, StreamTypes
  <2> HIDE DEF k
  <2> QED
    BY <2>1, StreamTypes DEF End
<1>4. pkg.data.first # 0
  <2> DEFINE e == End(stream[p], k - 1)
  <2> HIDE DEF e
  <2> QED
    BY <1>2, <1>3 DEF e
<1>5. arrived # Damaged(pkg)
  <2> SUFFICES ASSUME arrived = Damaged(pkg)
               PROVE  FALSE
    OBVIOUS
  <2>1. pkg.data \in Span
    BY <1>2 DEF Packet
  <2>2. Damaged(pkg) = [pkg EXCEPT !.data = [pkg.data EXCEPT !.first = 0]]
    BY DEF Damaged
  <2>3. /\ Damaged(pkg).data = [pkg.data EXCEPT !.first = 0]
        /\ Damaged(pkg).check = pkg.check
    BY <1>2, <2>2 DEF Packet
  <2>4. Damaged(pkg).data.first = 0
    BY <2>1, <2>3 DEF Span
  <2>5. /\ Crc32(Damaged(pkg).data) = <<0, Damaged(pkg).data.len>>
        /\ Crc32(pkg.data) = <<pkg.data.first, pkg.data.len>>
    BY <2>4 DEF Crc32
  <2>6. Crc32(Damaged(pkg).data) = Crc32(pkg.data)
    BY <1>2, <2>3
  <2> QED
    BY <1>4, <2>5, <2>6
<1> QED
  BY <1>5

\* What the containers hold stays what Send made, Send's own step included.
LEMMA SendPackets ==
  ASSUME NumbersHold, LinkInv,
         NEW s \in Senders, NEW p \in Peers, NEW n \in SendLens, Send(s, p, n)
  PROVE  PacketInv'
<1> DEFINE pkgs == Split(p, n)
<1>1. TypeOK /\ StreamInv /\ PacketInv
  BY DEF LinkInv
<1>2. Grows
  BY <1>1, SendGrows
<1>3. ASSUME NEW pkg \in Range(pkgs)
      PROVE  Made(pkg.peer, pkg)'
  <2>1. n \in Nat /\ pkgs \in Seq(Packet)
    BY <1>1, SendAppends, SplitFacts
  <2>2. PICK i \in 1 .. Len(pkgs) : pkg = pkgs[i]
    BY <2>1 DEF Range
  <2>3. /\ stream'[p][Len(stream[p]) + i] = pkgs[i]
        /\ pkgs[i].seq = Len(stream[p]) + i
        /\ pkgs[i].peer = p
        /\ Len(stream'[p]) = Len(stream[p]) + Len(pkgs)
    BY <1>1, <2>2, SendAppends
  <2>4. Len(stream[p]) \in Nat /\ Len(pkgs) \in Nat
    BY <1>1, <2>1, StreamTypes
  <2>5. pkg.seq \in 1 .. Len(stream'[p])
    <3> DEFINE old == Len(stream[p])
               cnt == Len(pkgs)
               all == Len(stream'[p])
    <3>1. old \in Nat /\ cnt \in Nat /\ i \in 1 .. cnt
      BY <2>4
    <3>2. pkg.seq = old + i /\ all = old + cnt
      BY <2>2, <2>3
    <3> HIDE DEF old, cnt, all
    <3>3. pkg.seq \in 1 .. all
      BY <3>1, <3>2
    <3> QED
      BY <3>3 DEF all
  <2> QED
    BY <2>2, <2>3, <2>5 DEF Made
<1>4. /\ mpSend' \subseteq mpSend \union Range(pkgs)
      /\ UNCHANGED <<net, held, mpRecv, nextRecvSeq>>
  BY DEF Send, Put, rcvVars
<1>5. ASSUME NEW pkg \in mpSend' \union net'
      PROVE  Made(pkg.peer, pkg)'
  <2>1. CASE pkg \in mpSend \union net
    <3>1. pkg.peer \in Peers
      BY <1>1, <2>1 DEF TypeOK, Packet
    <3>2. Made(pkg.peer, pkg)
      BY <1>1, <2>1 DEF PacketInv
    <3> QED
      BY <1>2, <3>1, <3>2, MadeStable
  <2>2. CASE pkg \in Range(pkgs)
    BY <1>3, <2>2
  <2> QED
    BY <1>4, <2>1, <2>2
<1>6. ASSUME NEW q \in Peers
      PROVE  /\ \A t \in RecvThreads : \A pkg \in held'[q][t] : Made(q, pkg)'
             /\ \A pkg \in mpRecv'[q] :
                  Made(q, pkg)' /\ pkg.seq >= nextRecvSeq'[q]
  BY <1>1, <1>2, <1>4, MadeStable DEF PacketInv
<1> QED
  BY <1>5, <1>6 DEF PacketInv

\* Only an intact packet of the stream is taken by a RecvThread.
LEMMA RecvDataPackets ==
  ASSUME NumbersHold, LinkInv, NEW p \in Peers, NEW t \in RecvThreads, NEW pkg \in net,
         RecvData(p, t, pkg)
  PROVE  /\ held' = [held EXCEPT ![p][t] = {pkg}]
         /\ acks' = acks \union {[peer |-> p, seq |-> pkg.seq]}
         /\ Made(p, pkg)
         /\ PacketInv'
<1>1. TypeOK /\ StreamInv /\ PacketInv
  BY DEF LinkInv
<1>2. Made(p, pkg)
  BY <1>1 DEF PacketInv, RecvData
<1>3. PICK arrived \in {pkg, Damaged(pkg)} :
        /\ Crc32(arrived.data) = arrived.check
        /\ acks' = acks \union AckOf(p, arrived)
        /\ held' = [held EXCEPT ![p][t] = {arrived}]
  <2>1. Copies(pkg) = {pkg, Damaged(pkg)}
    BY DEF Copies, Misread, NumbersHold
  <2> QED
    BY <2>1 DEF RecvData
<1>4. arrived = pkg
  BY <1>1, <1>2, <1>3, MadeIntact
<1>5. held' = [held EXCEPT ![p][t] = {pkg}]
  BY <1>3, <1>4
<1>6. UNCHANGED <<stream, mpSend, net, mpRecv, nextRecvSeq>>
  BY DEF RecvData, sndVars
<1>7. ASSUME NEW q \in Peers, NEW u \in RecvThreads, NEW x \in held'[q][u]
      PROVE  Made(q, x)
  BY <1>1, <1>2, <1>5 DEF PacketInv, TypeOK
<1>8. PacketInv'
  BY <1>1, <1>6, <1>7 DEF PacketInv, Made
<1> QED
  BY <1>2, <1>3, <1>4, <1>5, <1>8 DEF AckOf

\* A packet is stored only with a number still to be delivered.
LEMMA StoreDataPackets ==
  ASSUME LinkInv, NEW p \in Peers, NEW t \in RecvThreads, StoreData(p, t)
  PROVE  PacketInv'
<1>1. TypeOK /\ StreamInv /\ PacketInv
  BY DEF LinkInv
<1>2. PICK pkg \in held[p][t] :
        /\ held' = [held EXCEPT ![p][t] = {}]
        /\ mpRecv' = IF Seen(p, pkg)
                     THEN mpRecv
                     ELSE [mpRecv EXCEPT ![p] = @ \union {pkg}]
  BY DEF StoreData
<1>3. UNCHANGED <<stream, mpSend, net, nextRecvSeq>>
  BY DEF StoreData, sndVars
<1>4. Made(p, pkg)
  BY <1>1 DEF PacketInv
<1>5. pkg.seq \in Nat /\ nextRecvSeq[p] \in Nat
  <2>1. pkg.seq \in Nat
    BY <1>1, <1>4, StreamTypes DEF Made
  <2> QED
    BY <1>1, <2>1 DEF TypeOK, Seqs
<1>6. ~Seen(p, pkg) => pkg.seq >= nextRecvSeq[p]
  BY <1>5 DEF Seen
<1>7. ASSUME NEW q \in Peers, NEW x \in mpRecv'[q]
      PROVE  Made(q, x) /\ x.seq >= nextRecvSeq[q]
  BY <1>1, <1>2, <1>4, <1>6 DEF PacketInv, TypeOK
<1>8. ASSUME NEW q \in Peers, NEW u \in RecvThreads, NEW x \in held'[q][u]
      PROVE  Made(q, x)
  BY <1>1, <1>2 DEF PacketInv, TypeOK
<1> QED
  BY <1>1, <1>3, <1>7, <1>8 DEF PacketInv, Made

-----------------------------------------------------------------------------
(***************************************************************************)
(* Delivery.                                                               *)
(***************************************************************************)
\* HandleRecvPkgsThread takes exactly the next packet of the stream, and the
\* ones left in m_mpRecv are later ones.
LEMMA HandlePkgFacts ==
  ASSUME NumbersHold, LinkInv, NEW p \in Peers, HandlePkg(p)
  PROVE  LET k   == nextRecvSeq[p]
             pkg == stream[p][k]
         IN  /\ k \in 1 .. Len(stream[p])
             /\ pkg \in mpRecv[p]
             /\ bufRecv' = [bufRecv EXCEPT ![p] = @ \o Bytes(pkg.data)]
             /\ mpRecv' = [mpRecv EXCEPT ![p] = @ \ {pkg}]
             /\ nextRecvSeq' = [nextRecvSeq EXCEPT ![p] = k + 1]
<1>1. TypeOK /\ StreamInv /\ PacketInv
  BY DEF LinkInv
<1>2. PICK pkg \in mpRecv[p] :
        /\ pkg.seq = nextRecvSeq[p]
        /\ bufRecv' = [bufRecv EXCEPT ![p] = @ \o Bytes(pkg.data)]
        /\ mpRecv' = [mpRecv EXCEPT ![p] = @ \ {pkg}]
  BY DEF HandlePkg
<1>3. /\ nextRecvSeq[p] \in 1 .. Len(stream[p])
      /\ pkg = stream[p][nextRecvSeq[p]]
  BY <1>1, <1>2 DEF PacketInv, Made
<1>4. nextRecvSeq' = [nextRecvSeq EXCEPT ![p] = nextRecvSeq[p] + 1]
  <2>1. Len(stream[p]) \in Nat /\ Len(stream[p]) <= MaxPackets
    BY <1>1, StreamTypes DEF StreamInv, Contiguous
  <2>2. nextRecvSeq[p] + 1 \in 0 .. MaxPackets + 1
    BY <1>3, <2>1, LinkAssumption
  <2>3. Wrap(nextRecvSeq[p] + 1) = nextRecvSeq[p] + 1
    BY <2>2, WrapSmall
  <2> QED
    BY <2>3 DEF HandlePkg
<1> QED
  BY <1>2, <1>3, <1>4

\* What stays in m_mpRecv is still to be delivered.
LEMMA HandlePkgPackets ==
  ASSUME NumbersHold, LinkInv, NEW p \in Peers, HandlePkg(p)
  PROVE  PacketInv'
<1> DEFINE k == nextRecvSeq[p]
<1>1. TypeOK /\ StreamInv /\ PacketInv
  BY DEF LinkInv
<1>2. /\ k \in 1 .. Len(stream[p])
      /\ mpRecv' = [mpRecv EXCEPT ![p] = @ \ {stream[p][k]}]
      /\ nextRecvSeq' = [nextRecvSeq EXCEPT ![p] = k + 1]
  BY HandlePkgFacts
<1>3. UNCHANGED <<stream, mpSend, net, held>>
  BY DEF HandlePkg, sndVars
<1>4. ASSUME NEW x \in mpRecv'[p]
      PROVE  Made(p, x) /\ x.seq >= k + 1
  <2>1. x \in mpRecv[p] /\ x # stream[p][k]
    BY <1>1, <1>2 DEF TypeOK
  <2>2. Made(p, x) /\ x.seq >= k
    BY <1>1, <2>1 DEF PacketInv
  <2>3. x.seq # k
    BY <2>1, <2>2 DEF Made
  <2>4. x.seq \in Nat /\ k \in Nat
    BY <1>1, <1>2, <2>2, StreamTypes DEF Made
  <2> HIDE DEF k
  <2> QED
    BY <2>2, <2>3, <2>4
<1>5. ASSUME NEW q \in Peers, NEW x \in mpRecv'[q]
      PROVE  Made(q, x) /\ x.seq >= nextRecvSeq'[q]
  <2>1. CASE q = p
    BY <1>1, <1>2, <1>4, <2>1 DEF TypeOK
  <2>2. CASE q # p
    BY <1>1, <1>2, <2>2 DEF PacketInv, TypeOK
  <2> QED
    BY <2>1, <2>2
<1> QED
  BY <1>1, <1>3, <1>5 DEF PacketInv, Made

\* The bytes of the next packet are the next bytes of the stream.
LEMMA HandlePkgDelivery ==
  ASSUME NumbersHold, LinkInv, NEW p \in Peers, HandlePkg(p)
  PROVE  DeliveredInOrder(p)'
<1> DEFINE k == nextRecvSeq[p]
           pkg == stream[p][k]
           first == pkg.data.first
           len == pkg.data.len
           buf == bufRecv[p]
           g == Len(got[p])
           b == Len(buf)
<1>1. TypeOK /\ StreamInv /\ PacketInv /\ ReceiveInv
  BY DEF LinkInv
<1>2. /\ k \in 1 .. Len(stream[p])
      /\ bufRecv' = [bufRecv EXCEPT ![p] = @ \o Bytes(pkg.data)]
      /\ nextRecvSeq' = [nextRecvSeq EXCEPT ![p] = k + 1]
  BY HandlePkgFacts
<1>3. UNCHANGED <<stream, got>>
  BY DEF HandlePkg, sndVars
<1>4. /\ pkg \in Packet
      /\ first \in Nat
      /\ len \in Nat
      /\ first = End(stream[p], k - 1) + 1
      /\ LastByte(pkg.data) = first + len - 1
  <2>1. pkg \in Packet
    BY <1>1, <1>2, StreamTypes
  <2>2. pkg.data \in Span
    BY <2>1 DEF Packet
  <2>3. first \in Nat /\ len \in Nat
    BY <2>2, LinkAssumption DEF Span
  <2>4. first = End(stream[p], k - 1) + 1
    BY <1>1, <1>2 DEF StreamInv, Contiguous
  <2> QED
    BY <2>1, <2>3, <2>4 DEF LastByte
<1>5. /\ g \in Nat /\ b \in Nat
      /\ g + b = End(stream[p], k - 1)
      /\ \A i \in 1 .. g : got[p][i] = i
      /\ \A i \in 1 .. b : buf[i] = g + i
  BY <1>1 DEF ReceiveInv, DeliveredInOrder, Delivered, TypeOK
<1>6. /\ bufRecv'[p] = buf \o Bytes(pkg.data)
      /\ nextRecvSeq'[p] = k + 1
      /\ stream'[p] = stream[p]
      /\ got'[p] = got[p]
  BY <1>1, <1>2, <1>3 DEF TypeOK
<1>7. /\ Bytes(pkg.data) \in Seq(Nat)
      /\ Len(Bytes(pkg.data)) = len
      /\ \A i \in 1 .. len : Bytes(pkg.data)[i] = first + i - 1
  BY <1>4, BytesFacts
<1>8. /\ Len(bufRecv'[p]) = b + len
      /\ \A i \in 1 .. b + len :
           bufRecv'[p][i] = IF i <= b THEN buf[i] ELSE Bytes(pkg.data)[i - b]
  <2>1. buf \in Seq(Nat)
    BY <1>1 DEF TypeOK
  <2> HIDE DEF buf, len
  <2>2. /\ Len(buf \o Bytes(pkg.data)) = Len(buf) + Len(Bytes(pkg.data))
        /\ \A i \in 1 .. Len(buf) + Len(Bytes(pkg.data)) :
             (buf \o Bytes(pkg.data))[i] =
               IF i <= Len(buf) THEN buf[i] ELSE Bytes(pkg.data)[i - Len(buf)]
    BY <1>7, <2>1, ConcatProperties
  <2> QED
    BY <1>6, <1>7, <2>2
<1> HIDE DEF first, len, g, b, buf
<1>9. b + len \in Nat /\ first = g + b + 1
  BY <1>4, <1>5
<1>10. ASSUME NEW i \in 1 .. Len(bufRecv'[p])
       PROVE  bufRecv'[p][i] = Len(got'[p]) + i
  <2>1. Len(got'[p]) = g /\ i \in 1 .. b + len
    BY <1>6, <1>8 DEF g
  <2>2. CASE i <= b
    BY <1>5, <1>8, <2>1, <2>2
  <2>3. CASE i > b
    <3>1. i - b \in 1 .. len
      BY <1>4, <1>5, <2>1, <2>3
    <3>2. bufRecv'[p][i] = first + (i - b) - 1
      BY <1>5, <1>7, <1>8, <2>1, <2>3, <3>1
    <3> QED
      BY <1>4, <1>5, <1>9, <2>1, <3>2
  <2> QED
    BY <1>5, <2>1, <2>2, <2>3
<1>11. nextRecvSeq'[p] \in 1 .. Len(stream'[p]) + 1
  BY <1>1, <1>2, <1>6, StreamTypes
<1>12. Delivered(p)' = End(stream'[p], nextRecvSeq'[p] - 1)
  <2>1. Delivered(p)' = g + (b + len)
    BY <1>6, <1>8 DEF Delivered, g
  <2>2. nextRecvSeq'[p] - 1 = k /\ k # 0
    BY <1>1, <1>2, <1>6, StreamTypes
  <2>3. End(stream'[p], nextRecvSeq'[p] - 1) = LastByte(pkg.data)
    <3> HIDE DEF k
    <3> QED
      BY <1>6, <2>2 DEF End
  <2> HIDE DEF pkg
  <2> QED
    BY <1>4, <1>5, <1>9, <2>1, <2>3
<1>13. \A i \in 1 .. Len(got'[p]) : got'[p][i] = i
  BY <1>5, <1>6 DEF g
<1> QED
  BY <1>10, <1>11, <1>12, <1>13 DEF DeliveredInOrder

\* Recv moves bytes from the head of the buffer to the reader.
LEMMA RecvDelivery ==
  ASSUME LinkInv, NEW p \in Peers, NEW n \in RecvLens, Recv(p, n)
  PROVE  DeliveredInOrder(p)'
<1> DEFINE buf == bufRecv[p]
           g == Len(got[p])
           b == Len(buf)
<1>1. TypeOK /\ ReceiveInv
  BY DEF LinkInv
<1>2. PICK len \in 0 .. b :
        /\ got' = [got EXCEPT ![p] = @ \o SubSeq(buf, 1, len)]
        /\ bufRecv' = [bufRecv EXCEPT ![p] = Read(@, len)]
  BY <1>1, RecvFacts
<1>3. UNCHANGED <<stream, nextRecvSeq>>
  BY DEF Recv, sndVars
<1>4. /\ g \in Nat /\ b \in Nat /\ buf \in Seq(Nat) /\ got[p] \in Seq(Nat)
      /\ \A i \in 1 .. g : got[p][i] = i
      /\ \A i \in 1 .. b : buf[i] = g + i
      /\ g + b = End(stream[p], nextRecvSeq[p] - 1)
      /\ nextRecvSeq[p] \in 1 .. Len(stream[p]) + 1
  BY <1>1 DEF ReceiveInv, DeliveredInOrder, Delivered, TypeOK
<1>5. /\ got'[p] = got[p] \o SubSeq(buf, 1, len)
      /\ bufRecv'[p] = SubSeq(buf, len + 1, b)
  BY <1>1, <1>2 DEF TypeOK, Read
<1> HIDE DEF buf, g, b
<1>6. /\ SubSeq(buf, 1, len) \in Seq(Nat)
      /\ Len(SubSeq(buf, 1, len)) = len
      /\ \A i \in 1 .. len : SubSeq(buf, 1, len)[i] = buf[i]
  BY <1>4, SMTT(20) DEF b
<1>7. /\ Len(SubSeq(buf, len + 1, b)) = b - len
      /\ \A i \in 1 .. b - len : SubSeq(buf, len + 1, b)[i] = buf[len + i]
  BY <1>4 DEF b
<1>8. /\ Len(got'[p]) = g + len
      /\ \A i \in 1 .. g + len :
           got'[p][i] = IF i <= g THEN got[p][i] ELSE buf[i - g]
  <2> DEFINE h == got[p]
             t == SubSeq(buf, 1, len)
  <2>1. /\ h \in Seq(Nat) /\ t \in Seq(Nat) /\ Len(t) = len /\ Len(h) = g
        /\ \A i \in 1 .. len : t[i] = buf[i]
    BY <1>4, <1>6 DEF g
  <2> HIDE DEF h, t
  <2>2. /\ Len(h \o t) = Len(h) + Len(t)
        /\ \A i \in 1 .. Len(h) + Len(t) :
             (h \o t)[i] = IF i <= Len(h) THEN h[i] ELSE t[i - Len(h)]
    BY <2>1, ConcatProperties
  <2>3. ASSUME NEW i \in 1 .. g + len
        PROVE  (h \o t)[i] = IF i <= g THEN h[i] ELSE buf[i - g]
    <3>1. i > g => i - g \in 1 .. len
      BY <1>4
    <3> QED
      BY <1>4, <2>1, <2>2, <3>1, SMTT(20)
  <2>4. got'[p] = h \o t
    BY <1>5 DEF h, t
  <2> QED
    BY <2>1, <2>2, <2>3, <2>4 DEF h
<1>9. ASSUME NEW i \in 1 .. g + len
      PROVE  got'[p][i] = i
  <2>1. CASE i <= g
    <3>1. i \in 1 .. g
      BY <1>4, <2>1
    <3>2. got'[p][i] = got[p][i]
      BY <1>8, <2>1
    <3> QED
      BY <1>4, <3>1, <3>2
  <2>2. CASE i > g
    <3>1. i - g \in 1 .. b /\ got'[p][i] = buf[i - g]
      BY <1>4, <1>8, <2>2
    <3> QED
      BY <1>4, <3>1
  <2> QED
    BY <1>4, <2>1, <2>2
<1>10. ASSUME NEW i \in 1 .. b - len
       PROVE  bufRecv'[p][i] = g + len + i
  <2>1. len + i \in 1 .. b
    BY <1>4
  <2>2. bufRecv'[p][i] = buf[len + i]
    BY <1>5, <1>7
  <2>3. buf[len + i] = g + (len + i)
    BY <1>4, <2>1
  <2> QED
    BY <1>4, <2>2, <2>3
<1>11. Delivered(p)' = g + b
  <2>1. Len(got'[p]) = g + len /\ Len(bufRecv'[p]) = b - len
    BY <1>5, <1>7, <1>8
  <2>2. Delivered(p)' = Len(got'[p]) + Len(bufRecv'[p])
    BY DEF Delivered
  <2>3. (g + len) + (b - len) = g + b
    BY <1>4
  <2> QED
    BY <2>1, <2>2, <2>3
<1>12. /\ Len(bufRecv'[p]) = b - len
       /\ stream'[p] = stream[p] /\ nextRecvSeq'[p] = nextRecvSeq[p]
  BY <1>3, <1>5, <1>7
<1> QED
  BY <1>4, <1>8, <1>9, <1>10, <1>11, <1>12 DEF DeliveredInOrder

-----------------------------------------------------------------------------
(***************************************************************************)
(* The first invariant.                                                    *)
(***************************************************************************)
\* Both ends start with number 1 and nothing in any container.
LEMMA LinkInit == NumbersHold /\ Init => LinkInv
<1> SUFFICES ASSUME NumbersHold, Init
             PROVE  LinkInv
  OBVIOUS
<1>1. TypeOK
  BY TypeInit
<1>2. Wrap(1) = 1
  BY LinkAssumption, WrapSmall
<1>3. StreamInv
  BY <1>2, LinkAssumption DEF Init, StreamInv, Contiguous, End
<1>4. PacketInv
  BY DEF Init, PacketInv
<1>5. ReceiveInv
  BY <1>2 DEF Init, ReceiveInv, DeliveredInOrder, Delivered, End
<1> QED
  BY <1>1, <1>3, <1>4, <1>5 DEF LinkInv

\* Send moves the ends of the streams only.
LEMMA SendDelivery ==
  ASSUME NumbersHold, LinkInv,
         NEW s \in Senders, NEW p \in Peers, NEW n \in SendLens, Send(s, p, n)
  PROVE  ReceiveInv'
<1>1. TypeOK /\ StreamInv /\ ReceiveInv
  BY DEF LinkInv
<1>2. Grows
  BY <1>1, SendGrows
<1>3. UNCHANGED <<got, bufRecv, nextRecvSeq>>
  BY DEF Send, rcvVars
<1>4. ASSUME NEW q \in Peers
      PROVE  DeliveredInOrder(q)'
  <2> DEFINE k == nextRecvSeq[q]
             old == Len(stream[q])
             new == Len(stream'[q])
  <2>1. k \in 1 .. old + 1 /\ Delivered(q) = End(stream[q], k - 1)
    BY <1>1 DEF ReceiveInv, DeliveredInOrder
  <2>2. old \in Nat /\ new \in Nat
    <3>1. stream'[q] \in Seq(Packet)
      BY <1>1, TypeStep DEF Next, SendStep, TypeOK
    <3> QED
      BY <1>1, <3>1, StreamTypes
  <2>3. k - 1 # 0 => /\ k - 1 \in 1 .. new
                     /\ stream'[q][k - 1] = stream[q][k - 1]
    <3>1. k - 1 # 0 => k - 1 \in 1 .. old
      <4> HIDE DEF k, old
      <4> QED
        BY <2>1, <2>2
    <3> QED
      BY <1>2, <3>1 DEF Grows
  <2>4. k \in 1 .. new + 1
    <3> HIDE DEF k, old, new
    <3> QED
      BY <2>1, <2>2, <2>3
  <2>5. End(stream'[q], k - 1) = End(stream[q], k - 1)
    <3> HIDE DEF k
    <3> QED
      BY <2>3 DEF End
  <2> QED
    BY <1>1, <1>3, <2>1, <2>4, <2>5
       DEF ReceiveInv, DeliveredInOrder, Delivered
<1> QED
  BY <1>4 DEF ReceiveInv

\* A step that leaves the streams and the receiving end alone keeps what it
\* delivered.
LEMMA SameDelivery ==
  ASSUME ReceiveInv, UNCHANGED <<stream, got, bufRecv, nextRecvSeq>>
  PROVE  ReceiveInv'
  BY DEF ReceiveInv, DeliveredInOrder, Delivered

\* A step that does not Send leaves the streams alone.
LEMMA SameStream ==
  ASSUME StreamInv, UNCHANGED <<stream, nextSendSeq, sent>>
  PROVE  StreamInv'
  BY DEF StreamInv, Contiguous

\* LinkInv is inductive while no sequence number wraps around or is damaged.
LEMMA LinkStep == NumbersHold /\ LinkInv /\ [Next]_vars => LinkInv'
<1> SUFFICES ASSUME NumbersHold, LinkInv, [Next]_vars
             PROVE  LinkInv'
  OBVIOUS
<1> USE DEF sndVars, rcvVars
<1>0. TypeOK /\ TypeOK' /\ StreamInv /\ PacketInv /\ ReceiveInv
  BY TypeStep DEF LinkInv
<1>1. ASSUME NEW s \in Senders, NEW p \in Peers, BeginSend(s, p)
      PROVE  LinkInv'
  <2>1. StreamInv' /\ ReceiveInv'
    BY <1>0, <1>1, SameStream, SameDelivery DEF BeginSend
  <2>2. PacketInv'
    BY <1>0, <1>1 DEF BeginSend, PacketInv, Made
  <2> QED
    BY <1>0, <2>1, <2>2 DEF LinkInv
<1>2. ASSUME NEW s \in Senders, NEW p \in Peers, NEW n \in SendLens,
             Send(s, p, n)
      PROVE  LinkInv'
  BY <1>0, <1>2, SendStream, SendPackets, SendDelivery DEF LinkInv
<1>3. ASSUME SendThread
      PROVE  LinkInv'
  <2>1. StreamInv' /\ ReceiveInv'
    BY <1>0, <1>3, SameStream, SameDelivery DEF SendThread
  <2>2. PacketInv'
    <3>1. due \subseteq mpSend
      BY <1>0 DEF TypeOK
    <3> QED
      BY <1>0, <1>3, <3>1 DEF SendThread, PacketInv, Made
  <2> QED
    BY <1>0, <2>1, <2>2 DEF LinkInv
<1>4. ASSUME NEW pkg \in mpSend, Elapse(pkg)
      PROVE  LinkInv'
  <2>1. StreamInv' /\ ReceiveInv'
    BY <1>0, <1>4, SameStream, SameDelivery DEF Elapse
  <2>2. PacketInv'
    BY <1>0, <1>4 DEF Elapse, PacketInv, Made
  <2> QED
    BY <1>0, <2>1, <2>2 DEF LinkInv
<1>5. ASSUME NEW ack \in acks, RecvAck(ack)
      PROVE  LinkInv'
  <2>1. StreamInv' /\ ReceiveInv'
    BY <1>0, <1>5, SameStream, SameDelivery DEF RecvAck
  <2>2. PacketInv'
    BY <1>0, <1>5 DEF RecvAck, PacketInv, Made
  <2> QED
    BY <1>0, <2>1, <2>2 DEF LinkInv
<1>6. ASSUME NEW p \in Peers, NEW t \in RecvThreads, NEW pkg \in net,
             RecvData(p, t, pkg)
      PROVE  LinkInv'
  <2>1. StreamInv' /\ ReceiveInv'
    BY <1>0, <1>6, SameStream, SameDelivery DEF RecvData
  <2>2. PacketInv'
    BY <1>6, RecvDataPackets
  <2> QED
    BY <1>0, <2>1, <2>2 DEF LinkInv
<1>7. ASSUME NEW p \in Peers, NEW t \in RecvThreads, StoreData(p, t)
      PROVE  LinkInv'
  <2>1. StreamInv' /\ ReceiveInv'
    BY <1>0, <1>7, SameStream, SameDelivery DEF StoreData
  <2>2. PacketInv'
    BY <1>7, StoreDataPackets
  <2> QED
    BY <1>0, <2>1, <2>2 DEF LinkInv
<1>8. ASSUME NEW p \in Peers, BeginHandle(p)
      PROVE  LinkInv'
  <2>1. StreamInv' /\ ReceiveInv'
    BY <1>0, <1>8, SameStream, SameDelivery DEF BeginHandle
  <2>2. PacketInv'
    BY <1>0, <1>8 DEF BeginHandle, PacketInv, Made
  <2> QED
    BY <1>0, <2>1, <2>2 DEF LinkInv
<1>9. ASSUME NEW p \in Peers, HandlePkg(p)
      PROVE  LinkInv'
  <2>1. StreamInv'
    BY <1>0, <1>9, SameStream DEF HandlePkg
  <2>2. PacketInv'
    BY <1>9, HandlePkgPackets
  <2>3. ASSUME NEW q \in Peers
        PROVE  DeliveredInOrder(q)'
    <3>1. CASE q = p
      BY <1>9, <3>1, HandlePkgDelivery
    <3>2. CASE q # p
      <4>1. /\ bufRecv'[q] = bufRecv[q] /\ nextRecvSeq'[q] = nextRecvSeq[q]
            /\ stream' = stream /\ got' = got
        BY <1>0, <1>9, <3>2 DEF HandlePkg, TypeOK
      <4> QED
        BY <1>0, <4>1 DEF ReceiveInv, DeliveredInOrder, Delivered
    <3> QED
      BY <3>1, <3>2
  <2> QED
    BY <1>0, <2>1, <2>2, <2>3 DEF LinkInv, ReceiveInv
<1>10. ASSUME NEW p \in Peers, EndHandle(p)
       PROVE  LinkInv'
  <2>1. StreamInv' /\ ReceiveInv'
    BY <1>0, <1>10, SameStream, SameDelivery DEF EndHandle
  <2>2. PacketInv'
    BY <1>0, <1>10 DEF EndHandle, PacketInv, Made
  <2> QED
    BY <1>0, <2>1, <2>2 DEF LinkInv
<1>11. ASSUME NEW p \in Peers, NEW n \in RecvLens, Recv(p, n)
       PROVE  LinkInv'
  <2>1. StreamInv'
    BY <1>0, <1>11, SameStream DEF Recv
  <2>2. PacketInv'
    BY <1>0, <1>11 DEF Recv, PacketInv, Made
  <2>3. ASSUME NEW q \in Peers
        PROVE  DeliveredInOrder(q)'
    <3>1. CASE q = p
      BY <1>11, <3>1, RecvDelivery
    <3>2. CASE q # p
      <4>1. /\ bufRecv'[q] = bufRecv[q] /\ got'[q] = got[q]
            /\ stream' = stream /\ nextRecvSeq' = nextRecvSeq
        BY <1>0, <1>11, <3>2 DEF Recv, TypeOK
      <4> QED
        BY <1>0, <4>1 DEF ReceiveInv, DeliveredInOrder, Delivered
    <3> QED
      BY <3>1, <3>2
  <2> QED
    BY <1>0, <2>1, <2>2, <2>3 DEF LinkInv, ReceiveInv
<1>12. ASSUME NEW pkg \in net, LoseData(pkg)
       PROVE  LinkInv'
  <2>1. StreamInv' /\ ReceiveInv'
    BY <1>0, <1>12, SameStream, SameDelivery DEF LoseData
  <2>2. PacketInv'
    BY <1>0, <1>12 DEF LoseData, PacketInv, Made
  <2> QED
    BY <1>0, <2>1, <2>2 DEF LinkInv
<1>13. ASSUME \/ \E ack \in acks : LoseAck(ack)
              \/ CloseSender
              \/ \E p \in Peers : CloseReceiver(p)
              \/ UNCHANGED vars
       PROVE  LinkInv'
  <2>1. UNCHANGED <<stream, nextSendSeq, sent, got, bufRecv, nextRecvSeq,
                    mpSend, net, held, mpRecv>>
    BY <1>13 DEF LoseAck, CloseSender, CloseReceiver, vars
  <2>2. StreamInv' /\ ReceiveInv'
    BY <1>0, <2>1, SameStream, SameDelivery
  <2>3. PacketInv'
    BY <1>0, <2>1 DEF PacketInv, Made
  <2> QED
    BY <1>0, <2>2, <2>3 DEF LinkInv
<1>14. ASSUME NEW p \in Peers, BeginRecv(p)
       PROVE  LinkInv'
  <2>1. StreamInv' /\ ReceiveInv'
    BY <1>0, <1>14, SameStream, SameDelivery DEF BeginRecv
  <2>2. PacketInv'
    BY <1>0, <1>14 DEF BeginRecv, PacketInv, Made
  <2> QED
    BY <1>0, <2>1, <2>2 DEF LinkInv
<1> QED
  BY <1>1, <1>2, <1>3, <1>4, <1>5, <1>6, <1>7, <1>8, <1>9, <1>10, <1>11, <1>12,
     <1>13, <1>14
     DEF Next, SendStep, ReceiveStep, NetworkStep, CloseStep

\* LinkInv holds in every state reached.
LEMMA LinkInvariant == NumbersHold /\ Spec => []LinkInv
<1>1. NumbersHold /\ Init => LinkInv
  BY LinkInit
<1>2. NumbersHold /\ LinkInv /\ [Next]_vars => LinkInv'
  BY LinkStep
<1>3. CASE NumbersHold
  <2>1. Init => LinkInv
    BY <1>1, <1>3
  <2>2. LinkInv /\ [Next]_vars => LinkInv'
    BY <1>2, <1>3
  <2> QED
    BY <2>1, <2>2, PTL DEF Spec
<1>4. CASE ~NumbersHold
  BY <1>4
<1> QED
  BY <1>3, <1>4

-----------------------------------------------------------------------------
(***************************************************************************)
(* What follows from it.                                                   *)
(***************************************************************************)
\* The bytes below the next packet to deliver end before those of the packets
\* from it on.
LEMMA EndOrder ==
  ASSUME TypeOK, StreamInv, NEW p \in Peers,
         NEW n \in 1 .. Len(stream[p]) + 1
  PROVE  /\ End(stream[p], n - 1) <= sent[p]
         /\ \A k \in 1 .. Len(stream[p]) :
              /\ k >= n => End(stream[p], n - 1) < stream[p][k].data.first
              /\ k < n => LastByte(stream[p][k].data) <= End(stream[p], n - 1)
<1> DEFINE len == Len(stream[p])
           e == End(stream[p], n - 1)
           F(k) == stream[p][k].data.first
           L(k) == LastByte(stream[p][k].data)
<1>1. /\ len \in Nat /\ sent[p] \in Nat
      /\ \A k \in 1 .. len : F(k) \in Nat /\ L(k) \in Nat /\ F(k) <= L(k)
  BY StreamTypes
<1>2. \A k \in 1 .. len :
        /\ L(k) <= sent[p]
        /\ F(k) = End(stream[p], k - 1) + 1
        /\ \A j \in 1 .. k - 1 : L(j) < F(k)
  BY DEF StreamInv, Contiguous
<1>3. e = IF n = 1 THEN 0 ELSE L(n - 1)
  <2>1. n \in Int /\ (n - 1 = 0 <=> n = 1)
    BY <1>1
  <2> QED
    BY <2>1 DEF End
<1> HIDE DEF e, len, L, F
<1>4. n # 1 => n - 1 \in 1 .. len
  BY <1>1 DEF len
<1>5. e \in Nat /\ e <= sent[p]
  BY <1>1, <1>2, <1>3, <1>4
<1>6. ASSUME NEW k \in 1 .. len, k >= n
      PROVE  e < F(k)
  <2>1. CASE n = 1
    <3>1. F(k) # 0
      <4>1. F(k) = End(stream[p], k - 1) + 1
        BY <1>2
      <4>2. End(stream[p], k - 1) \in Nat
        <5>1. k - 1 # 0 => k - 1 \in 1 .. len
          BY <1>1
        <5> QED
          BY <1>1, <5>1 DEF End, L
      <4> QED
        BY <4>1, <4>2
    <3> QED
      BY <1>1, <1>3, <2>1, <3>1
  <2>2. CASE n # 1
    <3>1. n - 1 \in 1 .. k - 1
      BY <1>1, <1>4, <1>6, <2>2
    <3> QED
      BY <1>2, <1>3, <2>2, <3>1
  <2> QED
    BY <2>1, <2>2
<1>7. ASSUME NEW k \in 1 .. len, k < n
      PROVE  L(k) <= e
  <2>1. n \in Nat /\ n # 1
    BY <1>1, <1>7 DEF len
  <2>2. CASE k = n - 1
    BY <1>1, <1>3, <2>1, <2>2
  <2>3. CASE k # n - 1
    <3>1. k \in 1 .. (n - 1) - 1
      BY <1>1, <1>7, <2>1, <2>3
    <3>2. L(k) < F(n - 1) /\ F(n - 1) <= L(n - 1)
      BY <1>1, <1>2, <1>4, <2>1, <3>1
    <3>3. F(n - 1) \in Nat /\ L(n - 1) \in Nat /\ L(k) \in Nat
      BY <1>1, <1>4, <2>1
    <3> QED
      BY <1>3, <2>1, <3>2, <3>3
  <2> QED
    BY <2>2, <2>3
<1> QED
  BY <1>5, <1>6, <1>7 DEF e, len, L, F

\* LinkInv gives the order of the bytes and the cleanliness of m_mpRecv.
LEMMA LinkImplies == LinkInv => InOrder /\ RecvMapAhead
<1> SUFFICES ASSUME LinkInv
             PROVE  InOrder /\ RecvMapAhead
  OBVIOUS
<1>1. TypeOK /\ StreamInv /\ PacketInv /\ ReceiveInv
  BY DEF LinkInv
<1>2. ASSUME NEW p \in Peers
      PROVE  /\ nextRecvSeq[p] \in 1 .. Len(stream[p]) + 1
             /\ Delivered(p) = End(stream[p], nextRecvSeq[p] - 1)
             /\ \A i \in 1 .. Len(got[p]) : got[p][i] = i
             /\ \A i \in 1 .. Len(bufRecv[p]) : bufRecv[p][i] = Len(got[p]) + i
  BY <1>1 DEF ReceiveInv, DeliveredInOrder
<1>3. InOrder
  BY <1>1, <1>2, EndOrder DEF InOrder
<1>4. ASSUME NEW p \in Peers, NEW q \in mpRecv[p]
      PROVE  /\ q.data.first > Delivered(p)
             /\ \A r \in mpRecv[p] : q.seq = r.seq => q = r
  <2>1. Made(p, q) /\ q.seq >= nextRecvSeq[p]
    BY <1>1 DEF PacketInv
  <2>2. q.seq \in 1 .. Len(stream[p]) /\ q = stream[p][q.seq]
    BY <2>1 DEF Made
  <2>3. End(stream[p], nextRecvSeq[p] - 1) < stream[p][q.seq].data.first
    BY <1>1, <1>2, <2>1, <2>2, EndOrder
  <2>4. /\ Delivered(p) \in Nat
        /\ stream[p][q.seq].data.first \in Nat
    BY <1>1, <2>2, StreamTypes DEF Delivered, TypeOK
  <2>5. q.data.first > Delivered(p)
    BY <1>2, <2>2, <2>3, <2>4
  <2>6. \A r \in mpRecv[p] : r = stream[p][r.seq]
    BY <1>1 DEF PacketInv, Made
  <2> QED
    BY <2>2, <2>5, <2>6
<1> QED
  BY <1>3, <1>4 DEF RecvMapAhead

\* Recv returns the bytes handed to Send, each once and in order, to every
\* peer, whatever datagrams the network loses, repeats and reorders, whatever
\* payloads it damages and whatever the RecvThreads do, until a sequence number
\* wraps around or is damaged itself: the checksum does not cover m_nSeq
\* (CUMT.cpp:411, 502).
THEOREM InOrderCorrect == NumbersHold /\ Spec => []InOrder
  BY LinkInvariant, LinkImplies, PTL

\* m_mpRecv never holds a packet whose bytes are in the buffer already.
THEOREM RecvMapAheadCorrect == NumbersHold /\ Spec => []RecvMapAhead
  BY LinkInvariant, LinkImplies, PTL

-----------------------------------------------------------------------------
(***************************************************************************)
(* What arrived stays.                                                     *)
(***************************************************************************)
\* No step changes a packet already made.
LEMMA StepGrows == NumbersHold /\ LinkInv /\ [Next]_vars => Grows
<1> SUFFICES ASSUME NumbersHold, LinkInv, [Next]_vars
             PROVE  Grows
  OBVIOUS
<1>1. TypeOK /\ StreamInv
  BY DEF LinkInv
<1>2. ASSUME NEW s \in Senders, NEW p \in Peers, NEW n \in SendLens,
             Send(s, p, n)
      PROVE  Grows
  BY <1>1, <1>2, SendGrows
<1>3. CASE stream' = stream
  BY <1>3, SameGrows
<1>4. \/ \E s \in Senders, p \in Peers, n \in SendLens : Send(s, p, n)
      \/ stream' = stream
  BY DEF Next, SendStep, ReceiveStep, NetworkStep, CloseStep, BeginSend,
         SendThread, Elapse, RecvAck, RecvData, StoreData, BeginHandle,
         HandlePkg, EndHandle, BeginRecv, Recv, LoseData, LoseAck, CloseSender,
         CloseReceiver, vars, sndVars
<1> QED
  BY <1>2, <1>3, <1>4

\* The steps that touch what a receiving end holds.
LEMMA ReceiverSteps ==
  ASSUME [Next]_vars
  PROVE  \/ \E p \in Peers, t \in RecvThreads, pkg \in net : RecvData(p, t, pkg)
         \/ \E p \in Peers, t \in RecvThreads : StoreData(p, t)
         \/ \E p \in Peers : HandlePkg(p)
         \/ UNCHANGED <<held, mpRecv, nextRecvSeq>>
  BY DEF Next, SendStep, ReceiveStep, NetworkStep, CloseStep, BeginSend, Send,
         SendThread, Elapse, RecvAck, BeginHandle, EndHandle, BeginRecv, Recv,
         LoseData, LoseAck, CloseSender, CloseReceiver, vars, rcvVars

\* A packet at the receiving end goes on from the RecvThread to m_mpRecv and
\* from there to the buffer.
LEMMA ArrivedStable ==
  ASSUME NumbersHold, LinkInv, AckInv, [Next]_vars,
         NEW p \in Peers, NEW k \in 1 .. Len(stream[p]), Arrived(p, k)
  PROVE  Arrived(p, k)'
<1> DEFINE x == stream[p][k]
<1>1. TypeOK /\ StreamInv /\ PacketInv
  BY DEF LinkInv
<1>2. stream'[p][k] = x
  BY StepGrows DEF Grows
<1>3. x.seq = k
  BY <1>1 DEF StreamInv, Contiguous
<1>4. k \in Nat /\ nextRecvSeq[p] \in Nat
  BY <1>1, StreamTypes DEF TypeOK, Seqs
<1> HIDE DEF x
<1>5. \/ \E t \in RecvThreads : x \in held[p][t]
      \/ x \in mpRecv[p]
      \/ k < nextRecvSeq[p]
  BY DEF Arrived, x
<1>6. SUFFICES \/ \E t \in RecvThreads : x \in held'[p][t]
               \/ x \in mpRecv'[p]
               \/ k < nextRecvSeq'[p]
  BY <1>2 DEF Arrived
<1>7. ASSUME NEW q \in Peers, NEW u \in RecvThreads, NEW pkg \in net,
             RecvData(q, u, pkg)
      PROVE  \/ \E t \in RecvThreads : x \in held'[p][t]
             \/ x \in mpRecv'[p]
             \/ k < nextRecvSeq'[p]
  <2>1. /\ held' = [held EXCEPT ![q][u] = {pkg}]
        /\ held[q][u] = {}
        /\ mpRecv' = mpRecv /\ nextRecvSeq' = nextRecvSeq
    <3>1. held' = [held EXCEPT ![q][u] = {pkg}]
      BY <1>7, RecvDataPackets
    <3> QED
      BY <1>7, <3>1 DEF RecvData
  <2>2. ASSUME NEW t \in RecvThreads, x \in held[p][t]
        PROVE  x \in held'[p][t]
    BY <1>1, <2>1, <2>2 DEF TypeOK
  <2> QED
    BY <1>5, <2>1, <2>2
<1>8. ASSUME NEW q \in Peers, NEW u \in RecvThreads, StoreData(q, u)
      PROVE  \/ \E t \in RecvThreads : x \in held'[p][t]
             \/ x \in mpRecv'[p]
             \/ k < nextRecvSeq'[p]
  <2>1. PICK pkg \in held[q][u] :
          /\ held' = [held EXCEPT ![q][u] = {}]
          /\ mpRecv' = IF Seen(q, pkg)
                       THEN mpRecv
                       ELSE [mpRecv EXCEPT ![q] = @ \union {pkg}]
    BY <1>8 DEF StoreData
  <2>2. nextRecvSeq' = nextRecvSeq
    BY <1>8 DEF StoreData
  <2>3. x \in mpRecv[p] => x \in mpRecv'[p]
    BY <1>1, <2>1 DEF TypeOK
  <2>4. ASSUME NEW t \in RecvThreads, x \in held[p][t], ~(p = q /\ t = u)
        PROVE  x \in held'[p][t]
    BY <1>1, <2>1, <2>4 DEF TypeOK
  <2>5. ASSUME p = q, x \in held[p][u]
        PROVE  x \in mpRecv'[p] \/ k < nextRecvSeq'[p]
    <3>1. x = pkg
      BY <2>1, <2>5 DEF AckInv
    <3>2. CASE ~Seen(q, pkg)
      BY <1>1, <2>1, <2>5, <3>1, <3>2 DEF TypeOK
    <3>3. CASE Seen(q, pkg)
      <4>1. \/ \E y \in mpRecv[p] : y.seq = k
            \/ k < nextRecvSeq[p]
        BY <1>3, <2>5, <3>1, <3>3 DEF Seen
      <4>2. \A y \in mpRecv[p] : y.seq = k => y = x
        BY <1>1 DEF PacketInv, Made, x
      <4> QED
        BY <2>2, <2>3, <4>1, <4>2
    <3> QED
      BY <3>2, <3>3
  <2> QED
    BY <1>5, <2>2, <2>3, <2>4, <2>5
<1>9. ASSUME NEW q \in Peers, HandlePkg(q)
      PROVE  \/ \E t \in RecvThreads : x \in held'[p][t]
             \/ x \in mpRecv'[p]
             \/ k < nextRecvSeq'[p]
  <2> DEFINE n == nextRecvSeq[q]
  <2>1. /\ mpRecv' = [mpRecv EXCEPT ![q] = @ \ {stream[q][n]}]
        /\ nextRecvSeq' = [nextRecvSeq EXCEPT ![q] = n + 1]
        /\ held' = held
        /\ n \in 1 .. Len(stream[q])
    BY <1>9, HandlePkgFacts DEF HandlePkg
  <2>2. CASE p # q
    BY <1>1, <1>5, <2>1, <2>2 DEF TypeOK
  <2>3. CASE p = q
    <3>1. nextRecvSeq'[p] = nextRecvSeq[p] + 1
      BY <1>1, <2>1, <2>3 DEF TypeOK
    <3>2. CASE k <= nextRecvSeq[p]
      BY <1>4, <3>1, <3>2
    <3>3. CASE k > nextRecvSeq[p]
      <4>1. stream[q][n].seq = n
        BY <1>1, <2>1 DEF StreamInv, Contiguous
      <4>2. k # n
        BY <1>4, <2>3, <3>3
      <4>3. x # stream[q][n]
        BY <1>3, <4>1, <4>2
      <4>4. x \in mpRecv[p] => x \in mpRecv'[p]
        BY <1>1, <2>1, <2>3, <4>3 DEF TypeOK
      <4> QED
        BY <1>4, <1>5, <2>1, <3>3, <4>4
    <3> QED
      BY <1>4, <3>2, <3>3
  <2> QED
    BY <2>2, <2>3
<1>10. CASE UNCHANGED <<held, mpRecv, nextRecvSeq>>
  BY <1>5, <1>10
<1> QED
  BY <1>7, <1>8, <1>9, <1>10, ReceiverSteps

-----------------------------------------------------------------------------
(***************************************************************************)
(* ACKs and the send container.                                            *)
(***************************************************************************)
\* One packet per RecvThread.
LEMMA HeldStep ==
  ASSUME NumbersHold, LinkInv, AckInv, [Next]_vars,
         NEW p \in Peers, NEW t \in RecvThreads,
         NEW x \in held'[p][t], NEW y \in held'[p][t]
  PROVE  x = y
<1>1. TypeOK
  BY DEF LinkInv
<1>2. ASSUME NEW q \in Peers, NEW u \in RecvThreads, NEW pkg \in net,
             RecvData(q, u, pkg)
      PROVE  x = y
  <2>1. held' = [held EXCEPT ![q][u] = {pkg}]
    BY <1>2, RecvDataPackets
  <2> QED
    BY <1>1, <2>1 DEF AckInv, TypeOK
<1>3. ASSUME NEW q \in Peers, NEW u \in RecvThreads, StoreData(q, u)
      PROVE  x = y
  <2>1. held' = [held EXCEPT ![q][u] = {}]
    BY <1>3 DEF StoreData
  <2> QED
    BY <1>1, <2>1 DEF AckInv, TypeOK
<1>4. CASE held' = held
  BY <1>4 DEF AckInv
<1> QED
  BY <1>2, <1>3, <1>4, ReceiverSteps DEF HandlePkg

\* An ACK on the wire is for a packet that arrived.
LEMMA AcksStep ==
  ASSUME NumbersHold, LinkInv, AckInv, [Next]_vars, NEW ack \in acks'
  PROVE  /\ ack.seq \in 1 .. Len(stream'[ack.peer])
         /\ Arrived(ack.peer, ack.seq)'
<1>1. TypeOK
  BY DEF LinkInv
<1>2. CASE ack \in acks
  <2>1. ack.peer \in Peers
    BY <1>1, <1>2 DEF TypeOK, Ack
  <2>2. ack.seq \in 1 .. Len(stream[ack.peer]) /\ Arrived(ack.peer, ack.seq)
    BY <1>2 DEF AckInv
  <2>3. ack.seq \in 1 .. Len(stream'[ack.peer])
    BY <2>1, <2>2, StepGrows DEF Grows
  <2> QED
    BY <2>1, <2>2, <2>3, ArrivedStable
<1>3. ASSUME NEW q \in Peers, NEW u \in RecvThreads, NEW pkg \in net,
             RecvData(q, u, pkg), ack \notin acks
      PROVE  /\ ack.seq \in 1 .. Len(stream'[ack.peer])
             /\ Arrived(ack.peer, ack.seq)'
  <2>1. /\ held' = [held EXCEPT ![q][u] = {pkg}]
        /\ acks' = acks \union {[peer |-> q, seq |-> pkg.seq]}
        /\ Made(q, pkg)
    BY <1>3, RecvDataPackets
  <2>4. stream' = stream
    BY <1>3 DEF RecvData, sndVars
  <2>2. ack.peer = q /\ ack.seq = pkg.seq
    BY <1>3, <2>1
  <2>3. pkg \in held'[q][u]
    BY <1>1, <2>1 DEF TypeOK
  <2> QED
    BY <2>1, <2>4, <2>2, <2>3 DEF Made, Arrived
<1>4. CASE acks' \subseteq acks
  BY <1>2, <1>4
<1>5. \/ \E q \in Peers, u \in RecvThreads, pkg \in net : RecvData(q, u, pkg)
      \/ acks' \subseteq acks
  BY DEF Next, SendStep, ReceiveStep, NetworkStep, CloseStep, BeginSend, Send,
         SendThread, Elapse, RecvAck, StoreData, BeginHandle, HandlePkg,
         EndHandle, BeginRecv, Recv, LoseData, LoseAck, CloseSender, CloseReceiver, vars
<1> QED
  BY <1>2, <1>3, <1>4, <1>5

\* A packet leaves m_mpSend only once it arrived.
LEMMA SendMapStep ==
  ASSUME NumbersHold, OnePeer, LinkInv, AckInv, [Next]_vars,
         NEW p \in Peers, NEW k \in 1 .. Len(stream'[p])
  PROVE  stream'[p][k] \in mpSend' \/ Arrived(p, k)'
<1>1. TypeOK /\ StreamInv /\ PacketInv
  BY DEF LinkInv
<1>2. ASSUME k \in 1 .. Len(stream[p]), Arrived(p, k)
      PROVE  Arrived(p, k)'
  BY <1>2, ArrivedStable
<1>3. ASSUME k \in 1 .. Len(stream[p])
      PROVE  /\ stream'[p][k] = stream[p][k]
             /\ stream[p][k].seq = k
             /\ stream[p][k] \in mpSend \/ Arrived(p, k)
  BY <1>1, <1>3, StepGrows DEF Grows, AckInv, StreamInv, Contiguous
<1>4. ASSUME NEW s \in Senders, NEW q \in Peers, NEW n \in SendLens,
             Send(s, q, n)
      PROVE  stream'[p][k] \in mpSend' \/ Arrived(p, k)'
  <2> DEFINE pkgs == Split(p, n)
             old == Len(stream[p])
             cnt == Len(pkgs)
  <2>1. q = p
    BY DEF OnePeer
  <2>2. /\ cnt \in Nat
        /\ Len(stream'[p]) = old + cnt
        /\ \A i \in 1 .. cnt : /\ stream'[p][old + i] = pkgs[i]
                               /\ pkgs[i].seq = old + i
    BY <1>1, <1>4, <2>1, SendAppends
  <2>3. /\ mpSend' = Put(mpSend, Range(pkgs))
        /\ DOMAIN pkgs = 1 .. cnt
        /\ old \in Nat
    BY <1>1, <1>4, <2>1, StreamTypes, SplitFacts, LinkAssumption DEF Send
  <2> HIDE DEF pkgs, cnt, old
  <2>4. CASE k \in 1 .. old
    <3>1. ASSUME stream[p][k] \in mpSend
          PROVE  stream[p][k] \in mpSend'
      <4>1. \A r \in Range(pkgs) : r.seq # k
        BY <2>2, <2>3, <2>4 DEF Range
      <4> QED
        BY <1>3, <2>3, <2>4, <3>1, <4>1 DEF Put, old
    <3> QED
      BY <1>2, <1>3, <2>4, <3>1 DEF old
  <2>5. CASE k > old
    <3>1. k - old \in 1 .. cnt /\ k = old + (k - old)
      BY <2>2, <2>3, <2>5
    <3>2. stream'[p][k] = pkgs[k - old]
      BY <2>2, <3>1
    <3>3. pkgs[k - old] \in Range(pkgs)
      BY <2>3, <3>1 DEF Range
    <3> QED
      BY <2>3, <3>2, <3>3 DEF Put
  <2> QED
    BY <2>2, <2>3, <2>4, <2>5
<1>5. ASSUME NEW ack \in acks, RecvAck(ack)
      PROVE  stream'[p][k] \in mpSend' \/ Arrived(p, k)'
  <2>1. stream' = stream /\ mpSend' = {x \in mpSend : x.seq # ack.seq}
    BY <1>5 DEF RecvAck, Misread, NumbersHold, sndVars
  <2>2. ack.peer = p
    BY <1>1 DEF OnePeer, TypeOK, Ack
  <2>3. ack.seq = k => Arrived(p, k)
    BY <2>2 DEF AckInv
  <2> QED
    BY <1>2, <1>3, <2>1, <2>3
<1>6. CASE UNCHANGED <<stream, mpSend>>
  BY <1>2, <1>3, <1>6
<1>7. \/ \E s \in Senders, q \in Peers, n \in SendLens : Send(s, q, n)
      \/ \E ack \in acks : RecvAck(ack)
      \/ UNCHANGED <<stream, mpSend>>
  BY DEF Next, SendStep, ReceiveStep, NetworkStep, CloseStep, BeginSend,
         SendThread, Elapse, RecvData, StoreData, BeginHandle, HandlePkg,
         EndHandle, BeginRecv, Recv, LoseData, LoseAck, CloseSender, CloseReceiver, vars,
         sndVars
<1> QED
  BY <1>4, <1>5, <1>6, <1>7

-----------------------------------------------------------------------------
(***************************************************************************)
(* Nothing is lost.                                                        *)
(***************************************************************************)
\* AckInv holds in every state reached, next to LinkInv.
LEMMA AckInvariant == NumbersHold /\ OnePeer /\ Spec => [](LinkInv /\ AckInv)
<1>1. Init => AckInv
  BY DEF Init, AckInv
<1>2. NumbersHold /\ OnePeer /\ LinkInv /\ AckInv /\ [Next]_vars => AckInv'
  BY HeldStep, AcksStep, SendMapStep DEF AckInv
<1>3. CASE NumbersHold /\ OnePeer
  <2>1. Init => LinkInv /\ AckInv
    BY <1>1, <1>3, LinkInit
  <2>2. (LinkInv /\ AckInv) /\ [Next]_vars => (LinkInv /\ AckInv)'
    BY <1>2, <1>3, LinkStep
  <2> QED
    BY <2>1, <2>2, PTL DEF Spec
<1>4. CASE ~(NumbersHold /\ OnePeer)
  BY <1>4
<1> QED
  BY <1>3, <1>4

\* A packet that arrived is in one of the containers or delivered.
LEMMA AckImplies == LinkInv /\ AckInv => NothingLost
<1> SUFFICES ASSUME LinkInv, AckInv, NEW p \in Peers, NEW k \in DOMAIN stream[p]
             PROVE  \/ stream[p][k] \in mpSend
                    \/ \E t \in RecvThreads : stream[p][k] \in held[p][t]
                    \/ stream[p][k] \in mpRecv[p]
                    \/ LastByte(stream[p][k].data) <= Delivered(p)
  BY DEF NothingLost
<1>1. TypeOK /\ StreamInv /\ ReceiveInv
  BY DEF LinkInv
<1>2. k \in 1 .. Len(stream[p])
  BY <1>1, StreamTypes
<1>3. stream[p][k] \in mpSend \/ Arrived(p, k)
  BY <1>2 DEF AckInv
<1>4. ASSUME k < nextRecvSeq[p]
      PROVE  LastByte(stream[p][k].data) <= Delivered(p)
  <2>1. /\ nextRecvSeq[p] \in 1 .. Len(stream[p]) + 1
        /\ Delivered(p) = End(stream[p], nextRecvSeq[p] - 1)
    BY <1>1 DEF ReceiveInv, DeliveredInOrder
  <2> QED
    BY <1>1, <1>2, <1>4, <2>1, EndOrder
<1> QED
  BY <1>3, <1>4 DEF Arrived

\* A client's packets are never lost between the containers of the two ends,
\* although RecvThread ACKs a packet before it stores it.
THEOREM NothingLostCorrect == NumbersHold /\ OnePeer /\ Spec => []NothingLost
  BY AckInvariant, AckImplies, PTL

-----------------------------------------------------------------------------
(***************************************************************************)
(* CUMT implements BytePipes.                                              *)
(***************************************************************************)
\* A sequence that agrees with another on all its elements is its prefix.
LEMMA PrefixByElements ==
  ASSUME NEW S, NEW s \in Seq(S), NEW t \in Seq(S), Len(s) <= Len(t),
         \A i \in 1 .. Len(s) : s[i] = t[i]
  PROVE  SubSeq(s, 1, Len(s)) = SubSeq(t, 1, Len(s))
<1> DEFINE n == Len(s)
<1>1. n \in Nat /\ n <= Len(t) /\ Len(t) \in Nat
  OBVIOUS
<1>2. /\ SubSeq(s, 1, n) = [i \in 1 .. n |-> s[i]]
      /\ SubSeq(t, 1, n) = [i \in 1 .. n |-> t[i]]
  BY <1>1
<1> QED
  BY <1>2

\* The bytes handed to Send so far, as a sequence of positions.
Handed(n) == [i \in 1 .. n |-> i]

\* Its elements, and the longer one begins with the shorter one.
LEMMA HandedFacts ==
  ASSUME NEW n \in Nat
  PROVE  /\ Handed(n) \in Seq(Nat)
         /\ Len(Handed(n)) = n
         /\ \A i \in 1 .. n : Handed(n)[i] = i
  BY DEF Handed

\* Send appends to the pipe of its peer and Recv takes the next bytes.
LEMMA PipesStep ==
  NumbersHold /\ LinkInv /\ LinkInv' /\ [Next]_vars => [Pipes!Next]_(Pipes!vars)
<1> SUFFICES ASSUME NumbersHold, LinkInv, LinkInv', [Next]_vars
             PROVE  [Pipes!Next]_(Pipes!vars)
  OBVIOUS
<1> DEFINE bar == [p \in Peers |-> [i \in 1 .. sent[p] |-> i]]
<1>1. /\ TypeOK /\ TypeOK' /\ StreamInv
      /\ InOrder /\ InOrder'
  <2>1. InOrder /\ InOrder'
    BY LinkImplies, PTL
  <2> QED
    BY <2>1 DEF LinkInv
<1>2. ASSUME NEW s \in Senders, NEW p \in Peers, NEW n \in SendLens,
             Send(s, p, n)
      PROVE  Pipes!Next
  <2>1. n \in Nat /\ sent[p] \in Nat
    BY <1>1, LinkAssumption DEF TypeOK
  <2>2. sent' = [sent EXCEPT ![p] = sent[p] + n] /\ got' = got
    BY <1>2 DEF Send, rcvVars
  <2>3. sent'[p] = sent[p] + n /\ \A q \in Peers : q # p => sent'[q] = sent[q]
    BY <1>1, <2>2 DEF TypeOK
  <2>4. bar' = [bar EXCEPT ![p] = bar'[p]]
    BY <2>3
  <2>5. bar[p] = Handed(sent[p]) /\ bar'[p] = Handed(sent[p] + n)
    BY <2>3 DEF Handed
  <2>6. Pipes!IsPrefix(bar[p], bar'[p])
    <3> DEFINE a == Handed(sent[p])
               b == Handed(sent[p] + n)
    <3>1. /\ a \in Seq(Nat) /\ b \in Seq(Nat)
          /\ Len(a) = sent[p] /\ Len(b) = sent[p] + n
          /\ \A i \in 1 .. sent[p] : a[i] = i
          /\ \A i \in 1 .. sent[p] + n : b[i] = i
      <4>1. sent[p] + n \in Nat
        BY <2>1
      <4>2. /\ b \in Seq(Nat) /\ Len(b) = sent[p] + n
            /\ \A i \in 1 .. sent[p] + n : b[i] = i
        BY <4>1, HandedFacts
      <4> QED
        BY <2>1, <4>2, HandedFacts
    <3> HIDE DEF a, b
    <3>2. Len(a) <= Len(b) /\ \A i \in 1 .. Len(a) : a[i] = b[i]
      BY <2>1, <3>1
    <3>3. SubSeq(a, 1, Len(a)) = SubSeq(b, 1, Len(a))
      BY <3>1, <3>2, PrefixByElements
    <3>4. Pipes!IsPrefix(a, b)
      BY <3>2, <3>3 DEF Pipes!IsPrefix
    <3> QED
      BY <2>5, <3>4 DEF a, b
  <2> QED
    BY <2>2, <2>4, <2>6 DEF Pipes!Next, Pipes!Send
<1>3. ASSUME NEW p \in Peers, NEW n \in RecvLens, Recv(p, n)
      PROVE  Pipes!Next
  <2>1. PICK len \in 0 .. Len(bufRecv[p]) :
          got' = [got EXCEPT ![p] = @ \o SubSeq(bufRecv[p], 1, len)]
    BY <1>1, <1>3, RecvFacts
  <2> DEFINE g == got[p]
             h == got'[p]
             m == sent[p]
             x == SubSeq(bufRecv[p], 1, len)
  <2>2. sent' = sent
    BY <1>3 DEF Recv, sndVars
  <2>3. got' = [got EXCEPT ![p] = got'[p]] /\ h = g \o x
    BY <1>1, <2>1 DEF TypeOK
  <2>4. /\ g \in Seq(Nat) /\ h \in Seq(Nat) /\ m \in Nat
        /\ Len(g) \in Nat /\ Len(h) \in Nat /\ Len(bufRecv'[p]) \in Nat
    BY <1>1 DEF TypeOK
  <2>5. /\ \A i \in 1 .. Len(g) : g[i] = i
        /\ \A i \in 1 .. Len(h) : h[i] = i
        /\ Len(h) + Len(bufRecv'[p]) <= m
    BY <1>1, <2>2 DEF InOrder, Delivered
  <2>6. Len(g) <= Len(h)
    <3>1. x \in Seq(Nat) /\ Len(x) \in Nat
      BY <1>1 DEF TypeOK
    <3>2. Len(g \o x) = Len(g) + Len(x)
      BY <2>4, <3>1, ConcatProperties
    <3> HIDE DEF g, h, x
    <3> QED
      BY <2>3, <2>4, <3>1, <3>2
  <2>7. bar[p] = Handed(m)
    BY DEF Handed
  <2> HIDE DEF g, h, m, x
  <2>8. /\ Handed(m) \in Seq(Nat) /\ Len(Handed(m)) = m
        /\ \A i \in 1 .. m : Handed(m)[i] = i
    BY <2>4, HandedFacts
  <2>9. Pipes!IsPrefix(g, h)
    <3>1. \A i \in 1 .. Len(g) : g[i] = h[i]
      BY <2>4, <2>5, <2>6
    <3> QED
      BY <2>4, <2>6, <3>1, PrefixByElements DEF Pipes!IsPrefix
  <2>10. Pipes!IsPrefix(h, Handed(m))
    <3>1. Len(h) <= m
      BY <2>4, <2>5
    <3>2. \A i \in 1 .. Len(h) : h[i] = Handed(m)[i]
      BY <2>4, <2>5, <2>8, <3>1
    <3> QED
      BY <2>4, <2>8, <3>1, <3>2, PrefixByElements DEF Pipes!IsPrefix
  <2> QED
    BY <2>2, <2>3, <2>7, <2>9, <2>10 DEF Pipes!Next, Pipes!Recv, g, h
<1>4. CASE UNCHANGED <<sent, got>>
  BY <1>4 DEF Pipes!vars
<1>5. \/ \E s \in Senders, p \in Peers, n \in SendLens : Send(s, p, n)
      \/ \E p \in Peers, n \in RecvLens : Recv(p, n)
      \/ UNCHANGED <<sent, got>>
  BY DEF Next, SendStep, ReceiveStep, NetworkStep, CloseStep, BeginSend,
         SendThread, Elapse, RecvAck, RecvData, StoreData, BeginHandle,
         HandlePkg, EndHandle, BeginRecv, LoseData, LoseAck, CloseSender,
         CloseReceiver,
         vars, sndVars, rcvVars
<1> QED
  BY <1>2, <1>3, <1>4, <1>5

\* Until a sequence number wraps around or is damaged, CUMT is a reliable pipe of bytes to
\* each peer: Send and Recv are the only steps an application sees.
THEOREM LinkImplementsPipes == NumbersHold /\ Spec => ImplementsPipes
<1>1. Init => Pipes!Init
  <2> SUFFICES ASSUME Init
               PROVE  Pipes!Init
    OBVIOUS
  <2>1. \A p \in Peers : [i \in 1 .. sent[p] |-> i] = << >>
    BY DEF Init
  <2> QED
    BY <2>1 DEF Init, Pipes!Init
<1>2. CASE NumbersHold
  <2>1. LinkInv /\ LinkInv' /\ [Next]_vars => [Pipes!Next]_(Pipes!vars)
    BY <1>2, PipesStep
  <2>2. Spec => []LinkInv
    BY <1>2, LinkInvariant
  <2> QED
    BY <1>1, <2>1, <2>2, PTL DEF Spec, ImplementsPipes, Pipes!Spec
<1>3. CASE ~NumbersHold
  BY <1>3
<1> QED
  BY <1>2, <1>3
=============================================================================
