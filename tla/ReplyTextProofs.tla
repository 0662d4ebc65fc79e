-------------------------- MODULE ReplyTextProofs ---------------------------
(***************************************************************************)
(* What DealMessage reads is what the callback wrote: for every result, of *)
(* any number of rows and columns, the list shown has the cells of the     *)
(* result, as long as no cell is a separator.                              *)
(***************************************************************************)
EXTENDS ReplyText, SequenceTheorems, FiniteSetTheorems, TLAPS

-----------------------------------------------------------------------------
(***************************************************************************)
(* Counting up, and functions defined by recursion over 0 .. n.            *)
(***************************************************************************)
LEMMA CountUp ==
  ASSUME NEW G \in SUBSET Nat, 0 \in G, \A n \in G : n + 1 \in G
  PROVE  G = Nat
<1> DEFINE Bad == Nat \ G
<1> SUFFICES ASSUME Bad # {} PROVE FALSE
  OBVIOUS
<1>1. \E m \in Bad : \A k \in Bad : ~(k < m)
  <2>1. PICK m \in Bad : \A k \in Bad : <<k, m>> \notin OpToRel(<, Nat)
    BY NatLessThanWellFounded, WFMin
  <2>2. \A k \in Bad : ~(k < m)
    BY <2>1 DEF OpToRel
  <2> QED
    BY <2>2
<1>2. PICK m \in Bad : \A k \in Bad : ~(k < m)
  BY <1>1
<1>3. m # 0 /\ m - 1 \in Nat /\ m - 1 < m /\ (m - 1) + 1 = m
  OBVIOUS
<1>4. m - 1 \in G
  BY <1>2, <1>3
<1> QED
  BY <1>3, <1>4

\* f begins with a value and goes on with a step for each number.
Computes(f, A, start, m, next) ==
  /\ f \in [0 .. m -> A]
  /\ f[0] = start
  /\ \A i \in 1 .. m : f[i] = next[i][f[i - 1]]

LEMMA Recursion ==
  ASSUME NEW A, NEW start, start \in A, NEW m \in Nat, NEW next,
         \A i \in 1 .. m : \A x \in A : next[i][x] \in A
  PROVE  \E f : Computes(f, A, start, m, next)
<1> DEFINE Defined(k) == \E f : Computes(f, A, start, k, next)
           G == {k \in Nat : k <= m => Defined(k)}
<1>1. 0 \in G
  <2>1. /\ [i \in 0 .. 0 |-> start] \in [0 .. 0 -> A]
        /\ [i \in 0 .. 0 |-> start][0] = start
    OBVIOUS
  <2>2. \A i \in 1 .. 0 : FALSE
    OBVIOUS
  <2>3. Defined(0)
    BY <2>1, <2>2 DEF Computes
  <2> QED
    BY <2>3
<1>2. ASSUME NEW k \in G PROVE k + 1 \in G
  <2> SUFFICES ASSUME k + 1 <= m PROVE Defined(k + 1)
    <3> HIDE DEF Defined
    <3> QED
      OBVIOUS
  <2>1. PICK f : Computes(f, A, start, k, next)
    BY <1>2
  <2>2. f[k] \in A /\ next[k + 1][f[k]] \in A
    BY <2>1 DEF Computes
  <2>3. PICK g : g = [i \in 0 .. k + 1 |-> IF i = k + 1 THEN next[k + 1][f[k]]
                                           ELSE f[i]]
    OBVIOUS
  <2>4. g \in [0 .. k + 1 -> A] /\ g[0] = start
    BY <2>1, <2>2, <2>3 DEF Computes
  <2>5. \A i \in 1 .. k + 1 : g[i] = next[i][g[i - 1]]
    BY <2>1, <2>3 DEF Computes
  <2> QED
    BY <2>4, <2>5 DEF Computes
<1>3. G = Nat
  <2> HIDE DEF Defined
  <2>1. G \in SUBSET Nat
    OBVIOUS
  <2> HIDE DEF G
  <2> QED
    BY <1>1, <1>2, <2>1, CountUp
<1>4. m \in G
  BY <1>3
<1> QED
  BY <1>4

-----------------------------------------------------------------------------
(***************************************************************************)
(* Pieces.                                                                 *)
(***************************************************************************)
\* One or more pieces.
Split(T) == Seq(Seq(T)) \ {<<>>}

LEMMA ScanSplit ==
  ASSUME NEW T, NEW p \in Split(T), NEW x \in T, NEW sep
  PROVE  /\ Scan(p, x, sep) \in Split(T)
         /\ x = sep => Scan(p, x, sep) = Append(p, <<>>)
         /\ x # sep => /\ Len(p) \in 1 .. Len(p)
                       /\ p[Len(p)] \in Seq(T)
                       /\ Scan(p, x, sep)
                            = [p EXCEPT ![Len(p)] = Append(p[Len(p)], x)]
<1>1. p \in Seq(Seq(T)) /\ Len(p) \in 1 .. Len(p) /\ p # <<>>
  BY DEF Split
<1>2. p[Len(p)] \in Seq(T) /\ <<>> \in Seq(T)
  BY <1>1
<1>3. Append(p[Len(p)], x) \in Seq(T)
  BY <1>2
<1>4. CASE x = sep
  <2>1. Scan(p, x, sep) = Append(p, <<>>)
    BY <1>4 DEF Scan
  <2> QED
    BY <1>1, <1>2, <1>4, <2>1, AppendProperties DEF Split
<1>5. CASE x # sep
  <2>1. Scan(p, x, sep) = [p EXCEPT ![Len(p)] = Append(p[Len(p)], x)]
    BY <1>5 DEF Scan
  <2>2. /\ [p EXCEPT ![Len(p)] = Append(p[Len(p)], x)] \in Seq(Seq(T))
        /\ Len([p EXCEPT ![Len(p)] = Append(p[Len(p)], x)]) = Len(p)
    BY <1>1, <1>3, ExceptSeq
  <2>3. Scan(p, x, sep) # <<>>
    BY <1>1, <2>1, <2>2
  <2> QED
    BY <1>1, <1>2, <1>5, <2>1, <2>2, <2>3 DEF Split
<1> QED
  BY <1>4, <1>5

\* f scans t.
IsScan(f, t, sep, T) ==
  /\ f \in [0 .. Len(t) -> Split(T)]
  /\ f[0] = <<<<>>>>
  /\ \A n \in 1 .. Len(t) : f[n] = Scan(f[n - 1], t[n], sep)

LEMMA PiecesScan ==
  ASSUME NEW T, NEW t \in Seq(T), NEW sep
  PROVE  \E f : IsScan(f, t, sep, T) /\ Pieces(t, sep) = f[Len(t)]
<1> DEFINE n == Len(t)
           S == Split(T)
           base == <<<<>>>>
           step == [i \in 1 .. n |-> [p \in S |-> Scan(p, t[i], sep)]]
<1>1. n \in Nat /\ \A i \in 1 .. n : t[i] \in T
  OBVIOUS
<1>2. base \in S
  BY DEF Split
<1>3. \A i \in 1 .. n : \A p \in S : step[i][p] \in S
  BY <1>1, ScanSplit
<1>4. PICK f : Computes(f, S, base, n, step)
  <2> HIDE DEF S, n, step, base
  <2> QED
    BY <1>1, <1>2, <1>3, Recursion
<1>5. /\ f \in [0 .. n -> S] /\ f[0] = base
      /\ \A i \in 1 .. n : f[i] = Scan(f[i - 1], t[i], sep)
  <2>1. /\ f \in [0 .. n -> S] /\ f[0] = base
        /\ \A i \in 1 .. n : f[i] = step[i][f[i - 1]]
    <3> HIDE DEF S, n, step, base
    <3> QED
      BY <1>4 DEF Computes
  <2>2. \A i \in 1 .. n : f[i - 1] \in S
    <3> HIDE DEF S
    <3> QED
      BY <1>1, <2>1
  <2> HIDE DEF S, base, n
  <2> QED
    BY <2>1, <2>2
<1> DEFINE Next(g, i) == IF i = 0 THEN base ELSE Scan(g[i - 1], t[i], sep)
           scan == CHOOSE g : g = [i \in 0 .. n |-> Next(g, i)]
<1>6. f = [i \in 0 .. n |-> Next(f, i)]
  <2> HIDE DEF base, n
  <2>1. \A i \in 0 .. n : f[i] = Next(f, i)
    BY <1>1, <1>5
  <2> HIDE DEF Next
  <2> QED
    BY <1>5, <2>1
<1>7. scan = [i \in 0 .. n |-> Next(scan, i)]
  <2> HIDE DEF n, Next
  <2> QED
    BY <1>6, Zenon
<1>8. /\ scan[0] = base
      /\ \A i \in 1 .. n : scan[i] = Scan(scan[i - 1], t[i], sep)
  <2> HIDE DEF scan, n, base
  <2>1. \A i \in 0 .. n : scan[i] = Next(scan, i)
    <3> HIDE DEF Next
    <3> QED
      BY <1>7, Zenon
  <2>2. 0 \in 0 .. n /\ \A i \in 1 .. n : i \in 0 .. n /\ i # 0
    BY <1>1
  <2> QED
    BY <2>1, <2>2
<1> HIDE DEF scan, S, step
<1>9. \A i \in 0 .. n : scan[i] \in S
  <2> DEFINE G == {i \in Nat : i <= n => scan[i] \in S}
  <2>1. 0 \in G
    BY <1>2, <1>8
  <2>2. ASSUME NEW i \in G PROVE i + 1 \in G
    <3> SUFFICES ASSUME i + 1 <= n PROVE scan[i + 1] \in S
      OBVIOUS
    <3>1. scan[i] \in S /\ t[i + 1] \in T /\ i + 1 \in 1 .. n /\ (i + 1) - 1 = i
      BY <1>1
    <3>2. scan[i + 1] = Scan(scan[i], t[i + 1], sep)
      BY <1>8, <3>1
    <3> QED
      BY <3>1, <3>2, ScanSplit DEF S
  <2>3. G = Nat
    <3>1. G \in SUBSET Nat
      OBVIOUS
    <3> HIDE DEF G
    <3> QED
      BY <2>1, <2>2, <3>1, CountUp
  <2> QED
    BY <1>1, <2>3
<1>10. Pieces(t, sep) = scan[n]
  BY Zenon DEF Pieces, scan
<1>11. IsScan(scan, t, sep, T)
  <2>1. scan \in [0 .. n -> S]
    BY <1>7, <1>9
  <2> QED
    BY <1>8, <2>1 DEF IsScan, S
<1> QED
  BY <1>10, <1>11

\* Two scans of texts that agree up to a place agree up to that place.
LEMMA ScansAgree ==
  ASSUME NEW T, NEW t \in Seq(T), NEW u \in Seq(T), NEW sep,
         NEW f, IsScan(f, t, sep, T), NEW g, IsScan(g, u, sep, T),
         Len(t) <= Len(u), \A i \in 1 .. Len(t) : t[i] = u[i]
  PROVE  f[Len(t)] = g[Len(t)]
<1> DEFINE G == {i \in Nat : i <= Len(t) => f[i] = g[i]}
<1>1. 0 \in G
  BY DEF IsScan
<1>2. ASSUME NEW i \in G PROVE i + 1 \in G
  <2> SUFFICES ASSUME i + 1 <= Len(t) PROVE f[i + 1] = g[i + 1]
    OBVIOUS
  <2>1. /\ i + 1 \in 1 .. Len(t) /\ i + 1 \in 1 .. Len(u) /\ (i + 1) - 1 = i
        /\ f[i] = g[i]
    OBVIOUS
  <2>2. /\ f[i + 1] = Scan(f[i], t[i + 1], sep)
        /\ g[i + 1] = Scan(g[i], u[i + 1], sep)
    BY <2>1 DEF IsScan
  <2> QED
    BY <2>1, <2>2
<1>3. G = Nat
  <2>1. G \in SUBSET Nat
    OBVIOUS
  <2> HIDE DEF G
  <2> QED
    BY <1>1, <1>2, <2>1, CountUp
<1>4. Len(t) \in G
  BY <1>3
<1> QED
  BY <1>4

LEMMA PiecesEmpty == ASSUME NEW sep PROVE Pieces(<<>>, sep) = <<<<>>>>
<1>1. <<>> \in Seq({}) /\ Len(<<>>) = 0
  OBVIOUS
<1> QED
  BY <1>1, PiecesScan, ZenonT(30) DEF IsScan

\* A symbol behind a text.
LEMMA PiecesAppend ==
  ASSUME NEW T, NEW t \in Seq(T), NEW x \in T, NEW sep
  PROVE  /\ Pieces(t, sep) \in Split(T)
         /\ Pieces(Append(t, x), sep) = Scan(Pieces(t, sep), x, sep)
<1> DEFINE u == Append(t, x)
<1>1. /\ u \in Seq(T) /\ Len(u) = Len(t) + 1 /\ u[Len(t) + 1] = x
      /\ \A i \in 1 .. Len(t) : u[i] = t[i]
  BY AppendProperties
<1> HIDE DEF u
<1>2. PICK f : IsScan(f, t, sep, T) /\ Pieces(t, sep) = f[Len(t)]
  BY PiecesScan
<1>3. PICK g : IsScan(g, u, sep, T) /\ Pieces(u, sep) = g[Len(u)]
  BY <1>1, PiecesScan
<1>4. f[Len(t)] = g[Len(t)]
  BY <1>1, <1>2, <1>3, ScansAgree
<1>5. Len(t) \in Nat /\ Len(u) \in 1 .. Len(u) /\ Len(u) - 1 = Len(t)
  BY <1>1
<1>6. g[Len(u)] = Scan(g[Len(t)], x, sep)
  BY <1>1, <1>3, <1>5 DEF IsScan
<1>7. f[Len(t)] \in Split(T)
  BY <1>2, <1>5 DEF IsScan
<1> QED
  BY <1>2, <1>3, <1>4, <1>6, <1>7 DEF u

-----------------------------------------------------------------------------
(***************************************************************************)
(* Induction over sequences, for a set of them.                            *)
(***************************************************************************)
LEMMA GrowSequences ==
  ASSUME NEW T, NEW G \in SUBSET Seq(T), <<>> \in G,
         \A t \in G : \A x \in T : Append(t, x) \in G
  PROVE  G = Seq(T)
<1> DEFINE H == {n \in Nat : \A t \in Seq(T) : Len(t) = n => t \in G}
<1>1. 0 \in H
  <2>1. \A t \in Seq(T) : Len(t) = 0 => t = <<>>
    OBVIOUS
  <2> QED
    BY <2>1
<1>2. ASSUME NEW n \in H PROVE n + 1 \in H
  <2> SUFFICES ASSUME NEW t \in Seq(T), Len(t) = n + 1 PROVE t \in G
    OBVIOUS
  <2>1. t # <<>>
    OBVIOUS
  <2>2. PICK s \in Seq(T), x \in T : t = Append(s, x)
    BY <2>1, SequenceEmptyOrAppend
  <2>3. Len(s) = n
    <3>1. Len(t) = Len(s) + 1 /\ Len(s) \in Nat
      BY <2>2, AppendProperties
    <3> QED
      BY <3>1
  <2>4. s \in G
    BY <2>3
  <2> QED
    BY <2>2, <2>4
<1>3. H = Nat
  <2>1. H \in SUBSET Nat
    OBVIOUS
  <2> HIDE DEF H
  <2> QED
    BY <1>1, <1>2, <2>1, CountUp
<1>4. \A t \in Seq(T) : Len(t) \in H
  BY <1>3
<1>5. \A t \in Seq(T) : t \in G
  BY <1>4
<1> QED
  BY <1>5

-----------------------------------------------------------------------------
(***************************************************************************)
(* Texts behind one another.                                               *)
(***************************************************************************)
\* What is behind the last separator is the last piece.
Continued(p, u) == [p EXCEPT ![Len(p)] = p[Len(p)] \o u]

LEMMA ContinuedSplit ==
  ASSUME NEW T, NEW p \in Split(T), NEW u \in Seq(T)
  PROVE  /\ Continued(p, u) \in Split(T)
         /\ Len(Continued(p, u)) = Len(p)
         /\ Len(p) \in 1 .. Len(p)
         /\ Continued(p, u)[Len(p)] = p[Len(p)] \o u
         /\ p[Len(p)] \in Seq(T)
<1>1. p \in Seq(Seq(T)) /\ Len(p) \in 1 .. Len(p) /\ p # <<>>
  BY DEF Split
<1>2. p[Len(p)] \in Seq(T)
  BY <1>1
<1>3. p[Len(p)] \o u \in Seq(T)
  BY <1>2, ConcatProperties
<1> DEFINE v == p[Len(p)] \o u
<1> HIDE DEF v
<1>4. /\ [p EXCEPT ![Len(p)] = v] \in Seq(Seq(T))
      /\ Len([p EXCEPT ![Len(p)] = v]) = Len(p)
      /\ [p EXCEPT ![Len(p)] = v][Len(p)] = v
  BY <1>1, <1>3, ExceptSeq DEF v
<1>5. Continued(p, u) = [p EXCEPT ![Len(p)] = v]
  BY DEF Continued, v
<1>6. Continued(p, u) # <<>>
  BY <1>1, <1>4, <1>5
<1> QED
  BY <1>1, <1>2, <1>4, <1>5, <1>6 DEF Split, v

LEMMA PiecesText ==
  ASSUME NEW T, NEW t \in Seq(T), NEW sep
  PROVE  Pieces(t, sep) \in Split(T)
<1>1. PICK f : IsScan(f, t, sep, T) /\ Pieces(t, sep) = f[Len(t)]
  BY PiecesScan
<1>2. Len(t) \in 0 .. Len(t)
  OBVIOUS
<1> QED
  BY <1>1, <1>2 DEF IsScan

\* A text without a separator continues the last piece.
LEMMA PiecesContinued ==
  ASSUME NEW T, NEW t \in Seq(T), NEW sep, NEW U \in SUBSET T, sep \notin U,
         NEW u \in Seq(U)
  PROVE  Pieces(t \o u, sep) = Continued(Pieces(t, sep), u)
<1> DEFINE p == Pieces(t, sep)
           G == {v \in Seq(U) : Pieces(t \o v, sep) = Continued(p, v)}
<1>1. p \in Split(T)
  BY PiecesText
<1> HIDE DEF p
<1>2. <<>> \in G
  <2>1. t \o <<>> = t /\ <<>> \in Seq(T)
    BY ConcatEmptySeq
  <2>2. p[Len(p)] \o <<>> = p[Len(p)]
    BY <1>1, ContinuedSplit, <2>1, ConcatEmptySeq
  <2>3. Continued(p, <<>>) = p
    <3>1. p = [i \in DOMAIN p |-> p[i]]
      BY <1>1 DEF Split
    <3> QED
      BY <2>2, <3>1 DEF Continued
  <2> QED
    BY <2>1, <2>3 DEF p
<1>3. ASSUME NEW v \in G, NEW x \in U PROVE Append(v, x) \in G
  <2>1. v \in Seq(U) /\ v \in Seq(T) /\ x \in T /\ x # sep
    BY SeqMonotonic
  <2>2. /\ t \o v \in Seq(T)
        /\ t \o Append(v, x) = Append(t \o v, x)
    <3>1. t \o v \in Seq(T) /\ Append(v, x) = v \o <<x>> /\ <<x>> \in Seq(T)
      BY <2>1, ConcatProperties, AppendIsConcat
    <3>2. Append(t \o v, x) = (t \o v) \o <<x>>
      BY <2>1, <3>1, AppendIsConcat
    <3>3. (t \o v) \o <<x>> = t \o (v \o <<x>>)
      BY <2>1, <3>1, ConcatAssociative
    <3> QED
      BY <3>1, <3>2, <3>3
  <2>3. Pieces(t \o Append(v, x), sep) = Scan(Continued(p, v), x, sep)
    <3>1. PICK w \in Seq(T) : w = t \o v
      BY <2>2
    <3>2. Pieces(Append(w, x), sep) = Scan(Pieces(w, sep), x, sep)
      BY <2>1, PiecesAppend
    <3>3. Pieces(w, sep) = Continued(p, v)
      BY <3>1
    <3> QED
      BY <2>2, <3>1, <3>2, <3>3
  <2> DEFINE q == Continued(p, v)
  <2>4. /\ q \in Split(T) /\ Len(q) = Len(p)
        /\ q[Len(p)] = p[Len(p)] \o v /\ p[Len(p)] \in Seq(T)
        /\ Len(p) \in 1 .. Len(p)
    BY <1>1, <2>1, ContinuedSplit
  <2>5. Scan(q, x, sep) = [q EXCEPT ![Len(p)] = Append(p[Len(p)] \o v, x)]
    <3> HIDE DEF q
    <3>1. Scan(q, x, sep) = [q EXCEPT ![Len(q)] = Append(q[Len(q)], x)]
      BY <2>1, <2>4, ScanSplit, SMTT(20)
    <3> QED
      BY <2>4, <3>1
  <2>6. Append(p[Len(p)] \o v, x) = p[Len(p)] \o Append(v, x)
    <3>1. /\ Append(v, x) = v \o <<x>> /\ <<x>> \in Seq(T)
          /\ p[Len(p)] \o v \in Seq(T)
      BY <2>1, <2>4, ConcatProperties, AppendIsConcat
    <3>2. Append(p[Len(p)] \o v, x) = (p[Len(p)] \o v) \o <<x>>
      BY <2>1, <3>1, AppendIsConcat
    <3> QED
      <4>1. PICK a \in Seq(T), c \in Seq(T) : a = p[Len(p)] /\ c = <<x>>
        BY <2>4, <3>1
      <4>2. (a \o v) \o c = a \o (v \o c)
        BY <2>1, ConcatAssociative
      <4> QED
        BY <3>1, <3>2, <4>1, <4>2
  <2>7. [q EXCEPT ![Len(p)] = p[Len(p)] \o Append(v, x)]
          = Continued(p, Append(v, x))
    BY DEF Continued
  <2>8. Append(v, x) \in Seq(U)
    BY <2>1
  <2> QED
    BY <2>3, <2>5, <2>6, <2>7, <2>8
<1>4. G = Seq(U)
  <2>1. G \in SUBSET Seq(U)
    OBVIOUS
  <2> HIDE DEF G
  <2> QED
    BY <1>2, <1>3, <2>1, GrowSequences
<1> QED
  BY <1>4 DEF p

\* An empty last piece is continued to a piece of its own.
LEMMA ContinuedNew ==
  ASSUME NEW T, NEW p \in Seq(Seq(T)), NEW u \in Seq(T)
  PROVE  Continued(Append(p, <<>>), u) = Append(p, u)
<1> DEFINE a == Append(p, <<>>)
           b == Append(p, u)
<1>1. <<>> \in Seq(T)
  OBVIOUS
<1>2. /\ a \in Seq(Seq(T)) /\ Len(a) = Len(p) + 1 /\ a[Len(p) + 1] = <<>>
      /\ \A i \in 1 .. Len(p) : a[i] = p[i]
  BY <1>1, AppendProperties
<1>3. /\ b \in Seq(Seq(T)) /\ Len(b) = Len(p) + 1 /\ b[Len(p) + 1] = u
      /\ \A i \in 1 .. Len(p) : b[i] = p[i]
  BY AppendProperties
<1> HIDE DEF a, b
<1>4. <<>> \o u = u
  BY ConcatEmptySeq
<1> DEFINE e == [a EXCEPT ![Len(p) + 1] = u]
<1>5. Continued(a, u) = e
  BY <1>2, <1>4 DEF Continued
<1>6. /\ e \in Seq(Seq(T)) /\ Len(e) = Len(p) + 1
      /\ \A i \in 1 .. Len(p) + 1 : e[i] = IF i = Len(p) + 1 THEN u ELSE a[i]
  <2>1. Len(p) \in Nat /\ Len(p) + 1 \in 1 .. Len(a)
    BY <1>2
  <2> QED
    BY <1>2, <2>1, ExceptSeq
<1> HIDE DEF e
<1>7. e = b
  <2>1. \A i \in 1 .. Len(p) + 1 : i = Len(p) + 1 \/ i \in 1 .. Len(p)
    OBVIOUS
  <2>2. \A i \in 1 .. Len(e) : e[i] = b[i]
    BY <1>2, <1>3, <1>6, <2>1
  <2> QED
    BY <1>3, <1>6, <2>2, SeqEqual
<1> QED
  BY <1>5, <1>7 DEF a, b

\* A text without a separator, behind one, is a piece of its own.
LEMMA PiecesNew ==
  ASSUME NEW T, NEW t \in Seq(T), NEW sep \in T, NEW U \in SUBSET T, sep \notin U,
         NEW u \in Seq(U)
  PROVE  Pieces((t \o <<sep>>) \o u, sep) = Append(Pieces(t, sep), u)
<1> DEFINE p == Pieces(t, sep)
<1>1. p \in Split(T) /\ u \in Seq(T)
  BY PiecesText, SeqMonotonic
<1>2. t \o <<sep>> \in Seq(T) /\ t \o <<sep>> = Append(t, sep)
  BY ConcatProperties, AppendIsConcat
<1>3. Pieces(t \o <<sep>>, sep) = Append(p, <<>>)
  <2>1. Pieces(Append(t, sep), sep) = Scan(p, sep, sep)
    BY PiecesAppend
  <2> HIDE DEF p
  <2>2. Scan(p, sep, sep) = Append(p, <<>>)
    BY <1>1, ScanSplit
  <2> QED
    BY <1>2, <2>1, <2>2
<1>4. Pieces((t \o <<sep>>) \o u, sep) = Continued(Append(p, <<>>), u)
  <2>1. PICK w \in Seq(T) : w = t \o <<sep>>
    BY <1>2
  <2>2. Pieces(w \o u, sep) = Continued(Pieces(w, sep), u)
    BY PiecesContinued
  <2> QED
    BY <1>3, <2>1, <2>2
<1> HIDE DEF p
<1>5. Continued(Append(p, <<>>), u) = Append(p, u)
  BY <1>1, ContinuedNew DEF Split
<1> QED
  BY <1>4, <1>5 DEF p

-----------------------------------------------------------------------------
(***************************************************************************)
(* FlattenSeq.                                                             *)
(***************************************************************************)
\* f puts the first texts of ss together.
IsFlat(f, ss, T) ==
  /\ f \in [0 .. Len(ss) -> Seq(T)]
  /\ f[0] = <<>>
  /\ \A n \in 1 .. Len(ss) : f[n] = f[n - 1] \o ss[n]

LEMMA FlattenFlat ==
  ASSUME NEW T, NEW ss \in Seq(Seq(T))
  PROVE  \E f : IsFlat(f, ss, T) /\ FlattenSeq(ss) = f[Len(ss)]
<1> DEFINE n == Len(ss)
           S == Seq(T)
           step == [i \in 1 .. n |-> [p \in S |-> p \o ss[i]]]
<1>1. n \in Nat /\ (\A i \in 1 .. n : ss[i] \in S) /\ <<>> \in S
  OBVIOUS
<1>2. \A i \in 1 .. n : \A p \in S : step[i][p] \in S
  <2>1. \A i \in 1 .. n : \A p \in S : p \o ss[i] \in S
    BY <1>1, ConcatProperties
  <2> QED
    BY <2>1
<1>3. PICK f : Computes(f, S, <<>>, n, step)
  <2> HIDE DEF S, n, step
  <2> QED
    BY <1>1, <1>2, Recursion
<1>4. /\ f \in [0 .. n -> S] /\ f[0] = <<>>
      /\ \A i \in 1 .. n : f[i] = f[i - 1] \o ss[i]
  <2>1. /\ f \in [0 .. n -> S] /\ f[0] = <<>>
        /\ \A i \in 1 .. n : f[i] = step[i][f[i - 1]]
    <3> HIDE DEF S, n, step
    <3> QED
      BY <1>3 DEF Computes
  <2>2. \A i \in 1 .. n : f[i - 1] \in S
    <3>1. \A i \in 1 .. n : i - 1 \in 0 .. n
      BY <1>1
    <3> HIDE DEF S, n
    <3> QED
      BY <2>1, <3>1
  <2> HIDE DEF S, n
  <2> QED
    BY <2>1, <2>2
<1>5. IsFlat(f, ss, T)
  BY <1>4 DEF IsFlat
<1> HIDE DEF step
<1>6. 1 \in 1 .. n => f[1] = ss[1] /\ ss[1] \in Seq(T)
  <2> SUFFICES ASSUME 1 \in 1 .. n PROVE f[1] = ss[1] /\ ss[1] \in Seq(T)
    OBVIOUS
  <2>1. f[1] = f[1 - 1] \o ss[1] /\ ss[1] \in Seq(T)
    BY <1>1, <1>4
  <2>2. 1 - 1 = 0
    OBVIOUS
  <2>3. f[1] = <<>> \o ss[1]
    BY <1>4, <2>1, <2>2
  <2> QED
    BY <2>1, <2>3, ConcatEmptySeq
<1>7. CASE n = 0
  <2>1. ss = <<>>
    BY <1>7
  <2>2. FlattenSeq(ss) = <<>>
    BY <1>7, <2>1 DEF FlattenSeq
  <2> QED
    BY <1>4, <1>5, <1>7, <2>2
<1>8. CASE n # 0
  <2> DEFINE Next(g, i) == IF i = 1 THEN ss[i] ELSE g[i - 1] \o ss[i]
             flatten == CHOOSE g : g = [i \in 1 .. n |-> Next(g, i)]
  <2>1. PICK h : h = [i \in 1 .. n |-> f[i]]
    OBVIOUS
  <2>2. \A i \in 1 .. n : f[i] = Next(h, i)
    <3> SUFFICES ASSUME NEW i \in 1 .. n PROVE f[i] = Next(h, i)
      OBVIOUS
    <3>1. CASE i = 1
      BY <1>6, <3>1
    <3>2. CASE i # 1
      <4>1. i - 1 \in 1 .. n
        BY <1>1, <3>2
      <4>2. h[i - 1] = f[i - 1]
        BY <2>1, <4>1
      <4> QED
        BY <1>4, <3>2, <4>2
    <3> QED
      BY <3>1, <3>2
  <2>3. h = [i \in 1 .. n |-> Next(h, i)]
    <3> HIDE DEF n, Next
    <3> QED
      BY <2>1, <2>2
  <2>4. flatten = [i \in 1 .. n |-> Next(flatten, i)]
    <3> HIDE DEF n, Next
    <3> QED
      BY <2>3, Zenon
  <2>5. \A i \in 1 .. n : flatten[i] = Next(flatten, i)
    <3> HIDE DEF n, Next, flatten
    <3> QED
      BY <2>4, Zenon
  <2> HIDE DEF flatten, n, S, step
  <2>6. n \in {i \in Nat : i \in 1 .. n => flatten[i] = f[i]}
    <3> DEFINE G == {i \in Nat : i \in 1 .. n => flatten[i] = f[i]}
    <3>1. 0 \in G
      OBVIOUS
    <3>2. ASSUME NEW i \in G PROVE i + 1 \in G
      <4> SUFFICES ASSUME i + 1 \in 1 .. n PROVE flatten[i + 1] = f[i + 1]
        OBVIOUS
      <4>1. CASE i = 0
        <5>1. flatten[1] = ss[1] /\ f[1] = ss[1] /\ i + 1 = 1
          BY <1>6, <2>5, <4>1
        <5> QED
          BY <5>1
      <4>2. CASE i # 0
        <5>1. i \in 1 .. n /\ (i + 1) - 1 = i /\ i + 1 # 1
          BY <1>1, <4>2
        <5>2. flatten[i] = f[i]
          BY <5>1
        <5>3. flatten[i + 1] = flatten[i] \o ss[i + 1]
          BY <2>5, <5>1
        <5>4. f[i + 1] = f[i] \o ss[i + 1]
          BY <1>4, <5>1
        <5> QED
          BY <5>2, <5>3, <5>4
      <4> QED
        BY <4>1, <4>2
    <3>3. G = Nat
      <4>1. G \in SUBSET Nat
        OBVIOUS
      <4> HIDE DEF G
      <4> QED
        BY <3>1, <3>2, <4>1, CountUp
    <3> QED
      BY <1>1, <3>3
  <2>7. flatten[n] = f[n]
    BY <1>1, <1>8, <2>6
  <2>8. FlattenSeq(ss) = flatten[n]
    BY <1>8, Zenon DEF FlattenSeq, flatten, n
  <2> QED
    BY <1>5, <2>7, <2>8 DEF n
<1> QED
  BY <1>7, <1>8

\* One text more at the end.
LEMMA FlattenAppend ==
  ASSUME NEW T, NEW ss \in Seq(Seq(T)), NEW t \in Seq(T)
  PROVE  /\ FlattenSeq(ss) \in Seq(T)
         /\ FlattenSeq(Append(ss, t)) = FlattenSeq(ss) \o t
<1> DEFINE vv == Append(ss, t)
           n == Len(ss)
<1>1. /\ vv \in Seq(Seq(T)) /\ Len(vv) = n + 1 /\ vv[n + 1] = t /\ n \in Nat
      /\ \A i \in 1 .. n : vv[i] = ss[i]
  BY AppendProperties
<1> HIDE DEF vv
<1>2. PICK f : IsFlat(f, ss, T) /\ FlattenSeq(ss) = f[n]
  BY FlattenFlat
<1>3. PICK g : IsFlat(g, vv, T) /\ FlattenSeq(vv) = g[n + 1]
  BY <1>1, FlattenFlat
<1> DEFINE G == {i \in Nat : i <= n => f[i] = g[i]}
<1>4. 0 \in G
  BY <1>2, <1>3 DEF IsFlat
<1>5. ASSUME NEW i \in G PROVE i + 1 \in G
  <2> SUFFICES ASSUME i + 1 <= n PROVE f[i + 1] = g[i + 1]
    OBVIOUS
  <2>1. /\ i + 1 \in 1 .. n /\ i + 1 \in 1 .. n + 1 /\ (i + 1) - 1 = i
        /\ f[i] = g[i]
    BY <1>1
  <2>2. /\ f[i + 1] = f[i] \o ss[i + 1]
        /\ g[i + 1] = g[i] \o vv[i + 1]
    BY <1>1, <1>2, <1>3, <2>1 DEF IsFlat
  <2> QED
    BY <1>1, <2>1, <2>2
<1>6. G = Nat
  <2>1. G \in SUBSET Nat
    OBVIOUS
  <2> HIDE DEF G
  <2> QED
    BY <1>4, <1>5, <2>1, CountUp
<1>7. f[n] = g[n]
  BY <1>1, <1>6
<1>8. g[n + 1] = g[n] \o t
  <2>1. n + 1 \in 1 .. n + 1 /\ (n + 1) - 1 = n
    BY <1>1
  <2> QED
    BY <1>1, <1>3, <2>1 DEF IsFlat
<1>9. f[n] \in Seq(T)
  <2>1. n \in 0 .. n
    BY <1>1
  <2> QED
    BY <1>2, <2>1 DEF IsFlat
<1> QED
  BY <1>2, <1>3, <1>7, <1>8, <1>9 DEF vv

LEMMA FlattenEmpty == FlattenSeq(<<>>) = <<>>
<1>1. Len(<<>>) = 0
  OBVIOUS
<1> QED
  BY <1>1 DEF FlattenSeq

-----------------------------------------------------------------------------
(***************************************************************************)
(* A row and its cells.                                                    *)
(***************************************************************************)
\* What is in front of a cell and the cell.
Part(cells, i) ==
  IF i = 1 THEN Cell(cells[i]) ELSE <<"|">> \o Cell(cells[i])

LEMMA CellText ==
  ASSUME NEW N, NEW x \in N PROVE Cell(x) \in Seq(N)
  BY DEF Cell

LEMMA PartText ==
  ASSUME NEW N, NEW cells \in Seq(N), NEW i \in 1 .. Len(cells)
  PROVE  Part(cells, i) \in Seq(N \union {"|"})
<1>1. Cell(cells[i]) \in Seq(N \union {"|"}) /\ <<"|">> \in Seq(N \union {"|"})
  BY CellText, SeqMonotonic
<1>2. <<"|">> \o Cell(cells[i]) \in Seq(N \union {"|"})
  BY <1>1, ConcatProperties
<1> QED
  BY <1>1, <1>2 DEF Part

LEMMA PartsText ==
  ASSUME NEW N, NEW cells \in Seq(N)
  PROVE  /\ [i \in DOMAIN cells |-> Part(cells, i)] \in Seq(Seq(N \union {"|"}))
         /\ Len([i \in DOMAIN cells |-> Part(cells, i)]) = Len(cells)
         /\ Join(cells) = FlattenSeq([i \in DOMAIN cells |-> Part(cells, i)])
<1>1. Len(cells) \in Nat /\ DOMAIN cells = 1 .. Len(cells)
  OBVIOUS
<1>2. \A i \in 1 .. Len(cells) : Part(cells, i) \in Seq(N \union {"|"})
  BY PartText
<1>3. Join(cells) = FlattenSeq([i \in DOMAIN cells |-> Part(cells, i)])
  BY DEF Join, Part
<1> DEFINE V == Seq(N \union {"|"})
<1>4. /\ [i \in 1 .. Len(cells) |-> Part(cells, i)] \in Seq(V)
      /\ Len([i \in 1 .. Len(cells) |-> Part(cells, i)]) = Len(cells)
  <2> HIDE DEF V
  <2> QED
    BY <1>1, <1>2 DEF V
<1> QED
  BY <1>1, <1>3, <1>4

LEMMA JoinEmpty == Join(<<>>) = <<>>
<1>1. <<>> \in Seq({}) /\ Len(<<>>) = 0
  OBVIOUS
<1> DEFINE parts == [i \in DOMAIN <<>> |-> Part(<<>>, i)]
<1>2. parts \in Seq(Seq({} \union {"|"})) /\ Len(parts) = 0
      /\ Join(<<>>) = FlattenSeq(parts)
  BY <1>1, PartsText
<1> HIDE DEF parts
<1>3. parts = <<>>
  BY <1>2
<1> QED
  BY <1>2, <1>3, FlattenEmpty

LEMMA JoinAppend ==
  ASSUME NEW N, NEW cells \in Seq(N), NEW x \in N
  PROVE  /\ Join(cells) \in Seq(N \union {"|"})
         /\ Join(Append(cells, x))
              = Join(cells) \o Part(Append(cells, x), Len(cells) + 1)
<1> DEFINE more == Append(cells, x)
           n == Len(cells)
           V == Seq(N \union {"|"})
           parts == [i \in DOMAIN cells |-> Part(cells, i)]
           moreParts == [i \in DOMAIN more |-> Part(more, i)]
<1>1. /\ more \in Seq(N) /\ Len(more) = n + 1 /\ n \in Nat
      /\ DOMAIN cells = 1 .. n /\ DOMAIN more = 1 .. n + 1
      /\ \A i \in 1 .. n : more[i] = cells[i]
  BY AppendProperties
<1> HIDE DEF more
<1>2. /\ parts \in Seq(V) /\ Len(parts) = n /\ Join(cells) = FlattenSeq(parts)
      /\ moreParts \in Seq(V) /\ Len(moreParts) = n + 1
      /\ Join(more) = FlattenSeq(moreParts)
  BY <1>1, PartsText
<1>3. Part(more, n + 1) \in V
  BY <1>1, PartText
<1>4. \A i \in 1 .. n : moreParts[i] = parts[i]
  BY <1>1 DEF Part
<1>5. moreParts[n + 1] = Part(more, n + 1)
  BY <1>1
<1>6. moreParts = Append(parts, Part(more, n + 1))
  <2> HIDE DEF parts, moreParts, V, n
  <2> DEFINE a == Append(parts, Part(more, n + 1))
  <2>1. /\ a \in Seq(V) /\ Len(a) = n + 1 /\ a[n + 1] = Part(more, n + 1)
        /\ \A i \in 1 .. n : a[i] = parts[i]
    BY <1>2, <1>3, AppendProperties
  <2> HIDE DEF a
  <2>2. \A i \in 1 .. n + 1 : i = n + 1 \/ i \in 1 .. n
    BY <1>1 DEF n
  <2>3. \A i \in 1 .. Len(a) : a[i] = moreParts[i]
    BY <1>4, <1>5, <2>1, <2>2
  <2>4. a = moreParts
    BY <1>2, <2>1, <2>3, SeqEqual
  <2> QED
    BY <2>4 DEF a
<1> HIDE DEF parts, moreParts
<1>7. /\ FlattenSeq(parts) \in V
      /\ FlattenSeq(Append(parts, Part(more, n + 1)))
           = FlattenSeq(parts) \o Part(more, n + 1)
  BY <1>2, <1>3, FlattenAppend
<1> QED
  BY <1>2, <1>6, <1>7 DEF more

LEMMA JoinText ==
  ASSUME NEW N, NEW cells \in Seq(N) PROVE Join(cells) \in Seq(N \union {"|"})
<1>1. CASE cells = <<>>
  <2>1. Join(cells) = <<>>
    BY <1>1, JoinEmpty
  <2> QED
    BY <2>1
<1>2. CASE cells # <<>>
  <2>1. cells[1] \in N
    BY <1>2
  <2> QED
    BY <2>1, JoinAppend
<1> QED
  BY <1>1, <1>2

\* The pieces of a row are its cells.
Cells(row) == [i \in DOMAIN row |-> Cell(row[i])]

LEMMA CellsAppend ==
  ASSUME NEW N, NEW row \in Seq(N), NEW x \in N
  PROVE  Cells(row) \in Seq(Seq(N)) /\ Len(Cells(row)) = Len(row)
         /\ Cells(Append(row, x)) = Append(Cells(row), Cell(x))
<1> DEFINE more == Append(row, x)
           n == Len(row)
<1>1. /\ more \in Seq(N) /\ Len(more) = n + 1 /\ n \in Nat /\ more[n + 1] = x
      /\ DOMAIN row = 1 .. n /\ DOMAIN more = 1 .. n + 1
      /\ \A i \in 1 .. n : more[i] = row[i]
  BY AppendProperties
<1> HIDE DEF more
<1>2. /\ \A i \in 1 .. n : Cell(row[i]) \in Seq(N)
      /\ \A i \in 1 .. n + 1 : Cell(more[i]) \in Seq(N)
  BY <1>1, CellText
<1> DEFINE V == Seq(N)
<1>3. /\ Cells(row) \in Seq(V) /\ Len(Cells(row)) = n
      /\ Cells(more) \in Seq(V) /\ Len(Cells(more)) = n + 1
      /\ \A i \in 1 .. n : Cells(row)[i] = Cell(row[i])
      /\ \A i \in 1 .. n + 1 : Cells(more)[i] = Cell(more[i])
  <2> HIDE DEF V
  <2> QED
    BY <1>1, <1>2 DEF Cells, V
<1> DEFINE a == Append(Cells(row), Cell(x))
<1>4. /\ a \in Seq(V) /\ Len(a) = n + 1 /\ a[n + 1] = Cell(x)
      /\ \A i \in 1 .. n : a[i] = Cells(row)[i]
  BY <1>3, CellText, AppendProperties
<1> HIDE DEF a, V
<1>5. \A i \in 1 .. n + 1 : i = n + 1 \/ i \in 1 .. n
  BY <1>1
<1>6. \A i \in 1 .. Len(a) : a[i] = Cells(more)[i]
  BY <1>1, <1>3, <1>4, <1>5
<1>7. a = Cells(more)
  BY <1>3, <1>4, <1>6, SeqEqual
<1> QED
  BY <1>3, <1>7 DEF a, more, V

LEMMA PiecesJoin ==
  ASSUME NEW N, "|" \notin N, NEW cells \in Seq(N), cells # <<>>
  PROVE  Pieces(Join(cells), "|") = Cells(cells)
<1> DEFINE T == N \union {"|"}
           G == {row \in Seq(N) : row # <<>> => Pieces(Join(row), "|") = Cells(row)}
<1>1. <<>> \in G
  OBVIOUS
<1>2. ASSUME NEW row \in G, NEW x \in N PROVE Append(row, x) \in G
  <2>1. /\ row \in Seq(N) /\ Append(row, x) \in Seq(N)
        /\ Len(row) \in Nat /\ Append(row, x)[Len(row) + 1] = x
    BY AppendProperties
  <2>2. /\ Join(row) \in Seq(T)
        /\ Join(Append(row, x)) = Join(row) \o Part(Append(row, x), Len(row) + 1)
    BY <2>1, JoinAppend
  <2>3. Cells(Append(row, x)) = Append(Cells(row), Cell(x))
    BY <2>1, CellsAppend
  <2>4. Cell(x) \in Seq(N)
    BY CellText
  <2>5. CASE row = <<>>
    <3>1. Part(Append(row, x), Len(row) + 1) = Cell(x)
      BY <2>1, <2>5 DEF Part
    <3>2. Join(row) = <<>>
      BY <2>5, JoinEmpty
    <3>3. Join(Append(row, x)) = <<>> \o Cell(x)
      BY <2>2, <3>1, <3>2
    <3>4. Pieces(<<>> \o Cell(x), "|") = Continued(Pieces(<<>>, "|"), Cell(x))
      <4>1. <<>> \in Seq(T) /\ N \in SUBSET T
        OBVIOUS
      <4>2. PICK a \in Seq(T), c \in Seq(N) : a = <<>> /\ c = Cell(x)
        BY <2>4, <4>1
      <4>3. Pieces(a \o c, "|") = Continued(Pieces(a, "|"), c)
        <5> HIDE DEF T
        <5> QED
          BY <4>1, PiecesContinued
      <4> QED
        BY <4>2, <4>3
    <3>5. Continued(<<<<>>>>, Cell(x)) = <<Cell(x)>>
      <4>1. <<>> \o Cell(x) = Cell(x)
        BY <2>4, ConcatEmptySeq
      <4> QED
        BY <4>1 DEF Continued
    <3>6. Append(Cells(row), Cell(x)) = <<Cell(x)>>
      <4>1. Cells(row) = <<>>
        BY <2>5 DEF Cells
      <4> QED
        BY <4>1
    <3> QED
      BY <2>1, <2>3, <3>3, <3>4, <3>5, <3>6, PiecesEmpty
  <2>6. CASE row # <<>>
    <3>1. Part(Append(row, x), Len(row) + 1) = <<"|">> \o Cell(x)
      BY <2>1, <2>6 DEF Part
    <3>2. (Join(row) \o <<"|">>) \o Cell(x) = Join(row) \o (<<"|">> \o Cell(x))
      <4>1. PICK a \in Seq(T), b \in Seq(T), c \in Seq(T) :
              a = Join(row) /\ b = <<"|">> /\ c = Cell(x)
        <5>1. Cell(x) \in Seq(T) /\ <<"|">> \in Seq(T)
          BY <2>4, SeqMonotonic
        <5> QED
          BY <2>2, <5>1
      <4> QED
        BY <4>1, ConcatAssociative
    <3>3. Pieces((Join(row) \o <<"|">>) \o Cell(x), "|")
            = Append(Pieces(Join(row), "|"), Cell(x))
      <4>1. PICK a \in Seq(T), c \in Seq(N) : a = Join(row) /\ c = Cell(x)
        BY <2>2, <2>4
      <4>2. "|" \in T /\ N \in SUBSET T
        OBVIOUS
      <4>3. Pieces((a \o <<"|">>) \o c, "|") = Append(Pieces(a, "|"), c)
        <5> HIDE DEF T
        <5> QED
          BY <4>2, PiecesNew
      <4> QED
        BY <4>1, <4>3
    <3> QED
      BY <2>1, <2>2, <2>3, <2>6, <3>1, <3>2, <3>3
  <2> QED
    BY <2>5, <2>6
<1>3. G = Seq(N)
  <2>1. G \in SUBSET Seq(N)
    OBVIOUS
  <2> HIDE DEF G
  <2> QED
    BY <1>1, <1>2, <2>1, GrowSequences
<1> QED
  BY <1>3

-----------------------------------------------------------------------------
(***************************************************************************)
(* The rows behind the heading.                                            *)
(***************************************************************************)
LEMMA OneSymbol ==
  ASSUME NEW T, NEW x \in T
  PROVE  <<x>> \in Seq(T) /\ Len(<<x>>) = 1 /\ <<x>>[1] = x
  OBVIOUS

LEMMA FirstOfAll == \A x : Append(<<>>, x) = <<x>>
  OBVIOUS

LEMMA Grown ==
  ASSUME NEW V, NEW a \in Seq(V), NEW b \in Seq(V), NEW x \in V,
         Len(b) = Len(a) + 1, \A i \in 1 .. Len(a) : b[i] = a[i],
         b[Len(a) + 1] = x
  PROVE  b = Append(a, x)
<1> DEFINE c == Append(a, x)
           n == Len(a)
<1>1. /\ c \in Seq(V) /\ Len(c) = n + 1 /\ c[n + 1] = x /\ n \in Nat
      /\ \A i \in 1 .. n : c[i] = a[i]
  BY AppendProperties
<1> HIDE DEF c
<1>2. \A i \in 1 .. n + 1 : i = n + 1 \/ i \in 1 .. n
  BY <1>1
<1>3. \A i \in 1 .. Len(b) : b[i] = c[i]
  BY <1>1, <1>2
<1>4. b = c
  BY <1>1, <1>3, SeqEqual
<1> QED
  BY <1>4 DEF c

\* A row as it is written, and what is in front of its closing brace.
Opening(row) == <<"{">> \o Join(row)
Enclosed(row) == Opening(row) \o <<"}">>
Openings(rows) == [i \in DOMAIN rows |-> Opening(rows[i])]
RowsText(rows) == FlattenSeq([i \in DOMAIN rows |-> Enclosed(rows[i])])

LEMMA DropFirstSymbol ==
  ASSUME NEW V, NEW x \in V, NEW j \in Seq(V) PROVE DropFirst(<<x>> \o j) = j
<1> DEFINE b == <<x>>
           o == b \o j
           d == SubSeq(o, 2, Len(o))
<1>1. b \in Seq(V) /\ Len(b) = 1 /\ Len(j) \in Nat
  OBVIOUS
<1> HIDE DEF b
<1>2. /\ o \in Seq(V) /\ Len(o) = Len(j) + 1
      /\ \A i \in 1 .. Len(j) : o[i + 1] = j[i]
  <2>1. /\ o \in Seq(V) /\ Len(o) = Len(b) + Len(j)
        /\ \A i \in 1 .. Len(b) + Len(j) :
             o[i] = IF i <= Len(b) THEN b[i] ELSE j[i - Len(b)]
    BY <1>1, ConcatProperties
  <2> HIDE DEF o
  <2>2. \A i \in 1 .. Len(j) : i + 1 \in 1 .. 1 + Len(j) /\ (i + 1) - 1 = i
    BY <1>1
  <2> QED
    BY <1>1, <2>1, <2>2
<1> HIDE DEF o
<1>3. d \in Seq(V) /\ Len(d) = Len(j) /\ \A i \in 1 .. Len(j) : d[i] = o[i + 1]
  <2>1. /\ Len(o) \in Int /\ 2 \in Int /\ \A i \in 2 .. Len(o) : o[i] \in V
        /\ Len(o) - 2 + 1 = Len(j) /\ (2 <= Len(o) <=> Len(j) # 0)
    BY <1>1, <1>2
  <2>2. /\ d \in Seq(V)
        /\ Len(d) = IF 2 <= Len(o) THEN Len(o) - 2 + 1 ELSE 0
        /\ \A i \in 1 .. Len(o) - 2 + 1 : d[i] = o[2 + i - 1]
    BY <2>1, SubSeqProperties
  <2> QED
    BY <1>1, <2>1, <2>2
<1> HIDE DEF d
<1>4. d = j
  <2>1. \A i \in 1 .. Len(j) : d[i] = j[i]
    BY <1>2, <1>3
  <2> QED
    BY <1>3, <2>1, SeqEqual
<1> QED
  BY <1>4 DEF d, o, b, DropFirst

LEMMA EnclosedText ==
  ASSUME NEW N, NEW row \in Seq(N)
  PROVE  /\ Opening(row) \in Seq(N \union {"|", "{"})
         /\ Opening(row) \in Seq(N \union {"|", "{", "}"})
         /\ Enclosed(row) \in Seq(N \union {"|", "{", "}"})
         /\ DropFirst(Opening(row)) = Join(row)
<1> DEFINE V == N \union {"|", "{"}
           T == N \union {"|", "{", "}"}
<1>1. <<"{">> \in Seq(V) /\ <<"{">> \in Seq(T) /\ <<"}">> \in Seq(T)
  OBVIOUS
<1>2. Join(row) \in Seq(V) /\ Join(row) \in Seq(T)
  <2>1. PICK j \in Seq(N \union {"|"}) : j = Join(row)
    BY JoinText
  <2>2. N \union {"|"} \subseteq V /\ N \union {"|"} \subseteq T
    OBVIOUS
  <2> HIDE DEF V, T
  <2>3. j \in Seq(V) /\ j \in Seq(T)
    BY <2>2, SeqMonotonic
  <2> QED
    BY <2>1, <2>3
<1>3. Opening(row) \in Seq(V) /\ Opening(row) \in Seq(T)
  BY <1>1, <1>2, ConcatProperties DEF Opening
<1>4. Enclosed(row) \in Seq(T)
  <2> HIDE DEF T
  <2> QED
    BY <1>1, <1>3, ConcatProperties DEF Enclosed
<1>5. DropFirst(Opening(row)) = Join(row)
  <2>1. "{" \in V
    OBVIOUS
  <2> HIDE DEF V
  <2> QED
    BY <1>2, <2>1, DropFirstSymbol DEF Opening
<1> QED
  BY <1>3, <1>4, <1>5

LEMMA RowsAppend ==
  ASSUME NEW N, NEW rows \in Seq(Seq(N)), NEW row \in Seq(N)
  PROVE  /\ RowsText(rows) \in Seq(N \union {"|", "{", "}"})
         /\ RowsText(Append(rows, row)) = RowsText(rows) \o Enclosed(row)
         /\ Openings(rows) \in Seq(Seq(N \union {"|", "{", "}"}))
         /\ Len(Openings(rows)) = Len(rows)
         /\ Openings(Append(rows, row)) = Append(Openings(rows), Opening(row))
<1> DEFINE more == Append(rows, row)
           n == Len(rows)
           V == Seq(N \union {"|", "{", "}"})
           Texts(rs) == [i \in DOMAIN rs |-> Enclosed(rs[i])]
<1>1. /\ more \in Seq(Seq(N)) /\ Len(more) = n + 1 /\ n \in Nat
      /\ more[n + 1] = row
      /\ DOMAIN rows = 1 .. n /\ DOMAIN more = 1 .. n + 1
      /\ \A i \in 1 .. n : more[i] = rows[i]
  BY AppendProperties
<1> HIDE DEF more
<1>2. \A r \in Seq(N) : Enclosed(r) \in V /\ Opening(r) \in V
  BY EnclosedText
<1>3. /\ \A i \in 1 .. n : rows[i] \in Seq(N)
      /\ \A i \in 1 .. n + 1 : more[i] \in Seq(N)
  BY <1>1
<1> HIDE DEF V
<1>4. /\ Texts(rows) \in Seq(V) /\ Len(Texts(rows)) = n
      /\ Texts(more) \in Seq(V) /\ Len(Texts(more)) = n + 1
      /\ \A i \in 1 .. n : Texts(more)[i] = Texts(rows)[i]
      /\ Texts(more)[n + 1] = Enclosed(row)
  BY <1>1, <1>2, <1>3
<1>5. /\ Openings(rows) \in Seq(V) /\ Len(Openings(rows)) = n
      /\ Openings(more) \in Seq(V) /\ Len(Openings(more)) = n + 1
      /\ \A i \in 1 .. n : Openings(more)[i] = Openings(rows)[i]
      /\ Openings(more)[n + 1] = Opening(row)
  BY <1>1, <1>2, <1>3 DEF Openings
<1>6. Enclosed(row) \in V /\ Opening(row) \in V
  BY <1>2
<1>7. /\ RowsText(rows) = FlattenSeq(Texts(rows))
      /\ RowsText(more) = FlattenSeq(Texts(more))
  BY DEF RowsText
<1> HIDE DEF Texts
<1>8. Texts(more) = Append(Texts(rows), Enclosed(row))
  BY <1>4, <1>6, Grown
<1>9. Openings(more) = Append(Openings(rows), Opening(row))
  BY <1>5, <1>6, Grown
<1>10. /\ FlattenSeq(Texts(rows)) \in V
       /\ FlattenSeq(Append(Texts(rows), Enclosed(row)))
            = FlattenSeq(Texts(rows)) \o Enclosed(row)
  BY <1>4, <1>6, FlattenAppend DEF V
<1> QED
  BY <1>5, <1>7, <1>8, <1>9, <1>10 DEF more, V

LEMMA RowsEmpty == RowsText(<<>>) = <<>> /\ Openings(<<>>) = <<>>
<1>1. Len(<<>>) = 0 /\ DOMAIN <<>> = {}
  OBVIOUS
<1>2. [i \in DOMAIN <<>> |-> Enclosed(<<>>[i])] = <<>>
  BY <1>1
<1> QED
  BY <1>1, <1>2, FlattenEmpty DEF RowsText, Openings

\* A text without a separator, and one that a separator ends.
Free(o, sep, T) == sep \in T /\ o \in Seq(T \ {sep})

Ended(t, o, sep) == t \o (o \o <<sep>>)

LEMMA PiecesEnded ==
  ASSUME NEW T, NEW sep, NEW o, Free(o, sep, T), NEW t \in Seq(T)
  PROVE  Pieces(Ended(t, o, sep), sep)
           = Append(Continued(Pieces(t, sep), o), <<>>)
<1> DEFINE V == T \ {sep}
<1>1. sep \in T /\ sep \notin V /\ V \in SUBSET T /\ o \in Seq(V)
  BY DEF Free
<1> HIDE DEF V
<1>2. o \in Seq(T)
  BY <1>1, SeqMonotonic
<1>3. PICK e \in Seq(V) : e = <<>>
  BY EmptySeq
<1>4. PICK b \in Seq(T) : b = <<sep>>
  BY <1>1, OneSymbol
<1>5. Pieces(t \o o, sep) = Continued(Pieces(t, sep), o)
  BY <1>1, PiecesContinued
<1>6. PICK w \in Seq(T) : w = t \o o
  BY <1>2, ConcatProperties
<1>7. Pieces((w \o <<sep>>) \o e, sep) = Append(Pieces(w, sep), e)
  BY <1>1, PiecesNew
<1>8. (w \o b) \o <<>> = w \o b
  <2>1. PICK v \in Seq(T) : v = w \o b
    BY ConcatProperties
  <2>2. v \o <<>> = v
    BY ConcatEmptySeq
  <2> QED
    BY <2>1, <2>2
<1>9. (t \o o) \o b = t \o (o \o b)
  BY <1>2, ConcatAssociative
<1> QED
  BY <1>3, <1>4, <1>5, <1>6, <1>7, <1>8, <1>9 DEF Ended

\* One row more.
LEMMA PiecesMore ==
  ASSUME NEW T, NEW t \in Seq(T), NEW o \in Seq(T), Free(o, "}", T),
         NEW p, p \in Seq(Seq(T)), Pieces(t, "}") = Append(p, <<>>)
  PROVE  Pieces(Ended(t, o, "}"), "}") = Append(Append(p, o), <<>>)
<1>1. Continued(Append(p, <<>>), o) = Append(p, o)
  BY ContinuedNew
<1>2. Pieces(Ended(t, o, "}"), "}") = Append(Continued(Pieces(t, "}"), o), <<>>)
  BY PiecesEnded
<1> QED
  BY <1>1, <1>2

LEMMA PiecesRows ==
  ASSUME NEW N, "}" \notin N
  PROVE  \A rows \in Seq(Seq(N)) :
           /\ RowsText(rows) \in Seq(N \union {"|", "{", "}"})
           /\ Pieces(RowsText(rows), "}") = Append(Openings(rows), <<>>)
<1> DEFINE V == N \union {"|", "{"}
           T == N \union {"|", "{", "}"}
           S == Seq(N)
           G == {rs \in Seq(S) :
                   Pieces(RowsText(rs), "}") = Append(Openings(rs), <<>>)}
<1>1. \A row \in S : /\ Opening(row) \in Seq(T) /\ Free(Opening(row), "}", T)
                     /\ Enclosed(row) = Opening(row) \o <<"}">>
  <2>1. V \subseteq T \ {"}"} /\ "}" \in T
    OBVIOUS
  <2>2. \A row \in S : Opening(row) \in Seq(T) /\ Opening(row) \in Seq(V)
    BY EnclosedText
  <2> HIDE DEF V, T, S
  <2>3. \A row \in S : Opening(row) \in Seq(T \ {"}"})
    BY <2>1, <2>2, SeqMonotonic
  <2> QED
    BY <2>1, <2>2, <2>3 DEF Free, Enclosed
<1>2. \A rs \in Seq(S) : \A row \in S :
        /\ RowsText(rs) \in Seq(T)
        /\ RowsText(Append(rs, row)) = RowsText(rs) \o Enclosed(row)
        /\ Openings(rs) \in Seq(Seq(T))
        /\ Openings(Append(rs, row)) = Append(Openings(rs), Opening(row))
  BY RowsAppend
<1>3. <<>> \in S
  BY EmptySeq
<1> HIDE DEF V, T, S
<1>4. <<>> \in G
  <2>1. Append(<<>>, <<>>) = <<<<>>>> /\ <<>> \in Seq(S)
    BY FirstOfAll, EmptySeq
  <2>2. Pieces(RowsText(<<>>), "}") = Append(Openings(<<>>), <<>>)
    BY <2>1, RowsEmpty, PiecesEmpty
  <2> QED
    BY <2>1, <2>2
<1>5. ASSUME NEW rs \in G, NEW row \in S PROVE Append(rs, row) \in G
  <2>1. rs \in Seq(S) /\ Append(rs, row) \in Seq(S)
    BY AppendProperties
  <2>2. Pieces(RowsText(rs), "}") = Append(Openings(rs), <<>>)
    OBVIOUS
  <2> HIDE DEF G
  <2>3. Pieces(Ended(RowsText(rs), Opening(row), "}"), "}")
          = Append(Append(Openings(rs), Opening(row)), <<>>)
    BY <1>1, <1>2, <2>1, <2>2, PiecesMore
  <2>4. RowsText(Append(rs, row)) = Ended(RowsText(rs), Opening(row), "}")
    BY <1>1, <1>2, <2>1 DEF Ended
  <2>5. Pieces(RowsText(Append(rs, row)), "}")
          = Append(Openings(Append(rs, row)), <<>>)
    BY <1>2, <2>1, <2>3, <2>4
  <2> QED
    BY <2>1, <2>5 DEF G
<1>6. G = Seq(S)
  <2>1. G \in SUBSET Seq(S)
    OBVIOUS
  <2> HIDE DEF G
  <2> QED
    BY <1>4, <1>5, <2>1, GrowSequences
<1>7. \A rows \in Seq(S) :
        /\ RowsText(rows) \in Seq(T)
        /\ Pieces(RowsText(rows), "}") = Append(Openings(rows), <<>>)
  BY <1>2, <1>3, <1>6
<1> QED
  BY <1>7 DEF T, S
-----------------------------------------------------------------------------
(***************************************************************************)
(* The whole reply.                                                        *)
(***************************************************************************)
LEMMA FindFirst ==
  ASSUME NEW T, NEW t \in Seq(T), NEW symbol, NEW k \in 1 .. Len(t),
         t[k] = symbol, \A i \in 1 .. k - 1 : t[i] # symbol
  PROVE  Find(t, symbol) = k
<1> DEFINE P == Positions(t, symbol)
<1>1. k \in P /\ \A j \in P : k <= j /\ j \in Nat
  BY LenProperties DEF Positions
<1>2. Find(t, symbol) = CHOOSE i \in P : \A j \in P : i <= j
  BY <1>1 DEF Find
<1>3. k \in Nat
  BY LenProperties
<1> HIDE DEF P
<1>4. \A i \in P : (\A j \in P : i <= j) => i = k
  BY <1>1, <1>3
<1>5. (CHOOSE i \in P : \A j \in P : i <= j) = k
  BY <1>1, <1>4, Zenon
<1> QED
  BY <1>2, <1>5

LEMMA CutText ==
  ASSUME NEW T, NEW a \in Seq(T), NEW b \in Seq(T)
  PROVE  /\ SubSeq(a \o b, 1, Len(a)) = a
         /\ SubSeq(a \o b, Len(a) + 1, Len(a \o b)) = b
<1> DEFINE t == a \o b
           n == Len(a)
           m == Len(b)
<1>1. n \in Nat /\ m \in Nat
  BY LenProperties
<1>2. /\ t \in Seq(T) /\ Len(t) = n + m
      /\ \A i \in 1 .. n : t[i] = a[i] /\ t[i] \in T
      /\ \A i \in 1 .. m : t[n + i] = b[i] /\ t[n + i] \in T
  <2>1. /\ t \in Seq(T) /\ Len(t) = n + m
        /\ \A i \in 1 .. n + m : t[i] = IF i <= n THEN a[i] ELSE b[i - n]
    BY ConcatProperties
  <2>2. \A i \in 1 .. n + m : t[i] \in T
    BY <2>1, ElementOfSeq
  <2> HIDE DEF t, n, m
  <2>3. \A i \in 1 .. n : t[i] = a[i]
    BY <2>1, <1>1
  <2>4. ASSUME NEW i \in 1 .. m PROVE t[n + i] = b[i]
    <3>1. n + i \in 1 .. n + m /\ ~(n + i <= n) /\ (n + i) - n = i
      BY <1>1
    <3> QED
      BY <2>1, <3>1
  <2>5. \A i \in 1 .. n : i \in 1 .. n + m
    BY <1>1
  <2>6. \A i \in 1 .. m : n + i \in 1 .. n + m
    BY <1>1
  <2> QED
    BY <2>1, <2>2, <2>3, <2>4, <2>5, <2>6
<1> HIDE DEF t
<1>3. SubSeq(t, 1, n) = a
  <2> DEFINE s == SubSeq(t, 1, n)
  <2>1. s \in Seq(T) /\ Len(s) = n /\ \A i \in 1 .. n : s[i] = t[i]
    <3>1. \A i \in 1 .. n : t[i] \in T
      BY <1>2
    <3>2. /\ s \in Seq(T) /\ Len(s) = IF 1 <= n THEN n - 1 + 1 ELSE 0
          /\ \A i \in 1 .. n - 1 + 1 : s[i] = t[1 + i - 1]
      BY <1>1, <3>1, SubSeqProperties
    <3>3. \A i \in 1 .. n : 1 + i - 1 = i /\ i \in 1 .. n - 1 + 1
      BY <1>1
    <3> QED
      BY <1>1, <3>2, <3>3
  <2> HIDE DEF s
  <2> QED
    BY <1>2, <2>1, SeqEqual DEF s
<1>4. SubSeq(t, n + 1, n + m) = b
  <2> DEFINE s == SubSeq(t, n + 1, n + m)
  <2>1. s \in Seq(T) /\ Len(s) = m /\ \A i \in 1 .. m : s[i] = t[n + i]
    <3>1. \A i \in n + 1 .. n + m : t[i] \in T
      BY <1>1, <1>2, ElementOfSeq
    <3>2. /\ s \in Seq(T)
          /\ Len(s) = IF n + 1 <= n + m THEN n + m - (n + 1) + 1 ELSE 0
          /\ \A i \in 1 .. n + m - (n + 1) + 1 : s[i] = t[n + 1 + i - 1]
      BY <1>1, <3>1, SubSeqProperties
    <3>3. \A i \in 1 .. m : /\ n + 1 + i - 1 = n + i
                            /\ i \in 1 .. n + m - (n + 1) + 1
      BY <1>1
    <3> QED
      BY <1>1, <3>2, <3>3
  <2> HIDE DEF s
  <2> QED
    BY <1>2, <2>1, SeqEqual DEF s
<1> QED
  BY <1>2, <1>3, <1>4 DEF t

LEMMA FrontAppend ==
  ASSUME NEW V, NEW s \in Seq(V), NEW x \in V PROVE Front(Append(s, x)) = s
<1>1. Append(s, x) = s \o <<x>>
  BY AppendIsConcat
<1>2. <<x>> \in Seq(V)
  BY OneSymbol
<1>3. Len(Append(s, x)) - 1 = Len(s)
  <2>1. Len(Append(s, x)) = Len(s) + 1 /\ Len(s) \in Nat
    BY AppendProperties, LenProperties
  <2> QED
    BY <2>1
<1>4. PICK u : u = <<x>>
  OBVIOUS
<1>5. SubSeq(s \o u, 1, Len(s)) = s
  BY <1>2, <1>4, CutText
<1> QED
  BY <1>1, <1>3, <1>4, <1>5 DEF Front

\* What a reply is written with.
Symbols(N) == N \union {"|", "/", "{", "}"}

\* Where the head ends and what is on both sides.
LEMMA DataParts ==
  ASSUME NEW N, "/" \notin N, NEW head \in Seq(N), NEW rest \in Seq(Symbols(N))
  PROVE  LET text == Join(head) \o <<"/">> \o rest
             slash == Find(text, "/")
         IN  /\ Len(text) = 1 => Join(head) = <<>>
             /\ SubSeq(text, 1, slash - 1) = Join(head)
             /\ SubSeq(text, slash + 1, Len(text)) = rest
<1> DEFINE T == Symbols(N)
           a == Join(head)
           n == Len(a)
           b == <<"/">>
           x == a \o b
           text == x \o rest
<1>1. a \in Seq(N \union {"|"}) /\ a \in Seq(T) /\ n \in Nat
  <2>1. a \in Seq(N \union {"|"}) /\ N \union {"|"} \subseteq T
    BY JoinText DEF Symbols
  <2> HIDE DEF a, T
  <2> QED
    BY <2>1, SeqMonotonic, LenProperties
<1>2. b \in Seq(T) /\ Len(b) = 1 /\ b[1] = "/"
  BY OneSymbol DEF Symbols
<1>3. \A i \in 1 .. n : a[i] # "/"
  <2>1. \A i \in 1 .. n : a[i] \in N \union {"|"}
    BY <1>1, ElementOfSeq
  <2> QED
    BY <2>1
<1>4. rest \in Seq(T) /\ Len(rest) \in Nat
  BY LenProperties
<1> HIDE DEF T, a, b
<1>5. x \in Seq(T) /\ Len(x) = n + 1
      /\ \A i \in 1 .. n + 1 : x[i] = IF i <= n THEN a[i] ELSE b[i - n]
  BY <1>1, <1>2, ConcatProperties, ZenonT(30)
<1>6. \A i \in 1 .. n : x[i] # "/"
  BY <1>1, <1>3, <1>5
<1>7. x[n + 1] = "/"
  <2>1. n + 1 \in 1 .. n + 1 /\ ~(n + 1 <= n) /\ n + 1 - n = 1
    BY <1>1
  <2> QED
    BY <1>2, <1>5, <2>1
<1>8. SubSeq(x, 1, n) = a
  BY <1>1, <1>2, CutText
<1> HIDE DEF x, n
<1>9. /\ text \in Seq(T) /\ Len(text) = n + 1 + Len(rest)
      /\ \A i \in 1 .. n + 1 : text[i] = x[i]
  <2>1. /\ text \in Seq(T) /\ Len(text) = Len(x) + Len(rest)
        /\ \A i \in 1 .. Len(x) + Len(rest) :
             text[i] = IF i <= Len(x) THEN x[i] ELSE rest[i - Len(x)]
    BY <1>4, <1>5, ConcatProperties
  <2> HIDE DEF text
  <2> QED
    BY <1>1, <1>4, <1>5, <2>1
<1>10. SubSeq(text, n + 2, Len(text)) = rest /\ SubSeq(text, 1, n + 1) = x
  <2>1. SubSeq(text, Len(x) + 1, Len(text)) = rest /\ SubSeq(text, 1, Len(x)) = x
    BY <1>4, <1>5, CutText
  <2>2. Len(x) + 1 = n + 2
    BY <1>1, <1>5
  <2> QED
    BY <1>5, <2>1, <2>2
<1> HIDE DEF text
<1>11. Find(text, "/") = n + 1
  <2>1. n + 1 \in 1 .. Len(text) /\ (n + 1) - 1 = n
    BY <1>1, <1>4, <1>9
  <2>2. n + 1 \in 1 .. n + 1 /\ \A i \in 1 .. n : i \in 1 .. n + 1
    BY <1>1
  <2>3. text[n + 1] = "/" /\ \A i \in 1 .. n : text[i] # "/"
    BY <1>6, <1>7, <1>9, <2>2
  <2> QED
    BY <1>9, <2>1, <2>3, FindFirst
<1>12. SubSeq(text, 1, n) = a
  <2>1. CASE n = 0
    <3>1. a = <<>>
      BY <1>1, <2>1 DEF n
    <3>2. SubSeq(text, 1, 0) = <<>>
      BY SubSeqEmpty
    <3> QED
      BY <2>1, <3>1, <3>2
  <2>2. CASE n # 0
    <3>1. 1 \in 1 .. n + 1 /\ n + 1 \in 1 .. n + 1 /\ n \in 1 .. n
          /\ n + 1 \in 1 .. Len(text) /\ 1 \in 1 .. Len(text)
          /\ n \in 1 .. (n + 1) - 1 + 1 /\ 1 \in 1 .. (n + 1) - 1 + 1
          /\ 1 + 1 - 1 = 1 /\ 1 + n - 1 = n
      BY <1>1, <1>4, <1>9, <2>2
    <3>2. SubSeq(SubSeq(text, 1, n + 1), 1, n) = SubSeq(text, 1 + 1 - 1, 1 + n - 1)
      BY <1>9, <3>1, SubSeqOfSubSeq
    <3> QED
      BY <1>8, <1>10, <3>1, <3>2
  <2> QED
    BY <2>1, <2>2
<1>13. Len(text) = 1 => a = <<>>
  <2>1. Len(text) = 1 => n = 0
    <3>1. PICK k, l : k = Len(rest) /\ l = Len(text)
      OBVIOUS
    <3>2. k \in Nat /\ n \in Nat /\ l = n + 1 + k
      BY <1>1, <1>4, <1>9, <3>1
    <3>3. l = 1 => n = 0
      BY <3>2
    <3> QED
      BY <3>1, <3>3
  <2> QED
    BY <1>1, <2>1 DEF n
<1>14. Find(text, "/") - 1 = n /\ Find(text, "/") + 1 = n + 2
  BY <1>1, <1>11
<1> QED
  BY <1>10, <1>12, <1>13, <1>14 DEF text, x, a, b

\* A first column with a name leaves something in front of the slash.
LEMMA HeadIsWritten ==
  ASSUME NEW N, "|" \notin N, NEW head \in Seq(N), head # <<>>, head[1] # Empty
  PROVE  Join(head) # <<>>
<1>1. 1 \in DOMAIN head
  BY EmptySeq, LenProperties
<1>2. Cells(head)[1] = <<head[1]>>
  BY <1>1 DEF Cells, Cell
<1>3. ASSUME Join(head) = <<>> PROVE FALSE
  <2>1. Cells(head) = <<<<>>>>
    BY <1>3, PiecesJoin, PiecesEmpty
  <2> QED
    BY <1>2, <2>1
<1> QED
  BY <1>3

(***************************************************************************)
(* What the dialog shows of a result.                                      *)
(***************************************************************************)
\* The texts a cell may hold: no separator is one of them.
AreCells(N) == N \intersect {"|", "/", "{", "}"} = {}

\* DealMessage shows the names of the columns and exactly the rows of the
\* result the callback wrote, in its order.
THEOREM ResultIsShown ==
  ASSUME NEW N, AreCells(N), NEW head \in Seq(N), head # <<>>, head[1] # Empty
  PROVE  \A rows \in Seq(Seq(N)) :
           (\A i \in DOMAIN rows : rows[i] # <<>>) =>
             Display(DataText(head, rows))
               = List(Cells(head), [i \in DOMAIN rows |-> Cells(rows[i])])
<1>1. "|" \notin N /\ "/" \notin N /\ "}" \notin N
  BY DEF AreCells
<1>2. Pieces(Join(head), "|") = Cells(head) /\ Join(head) # <<>>
  BY <1>1, PiecesJoin, HeadIsWritten
<1>3. ASSUME NEW row \in Seq(N), row # <<>>
      PROVE  Pieces(DropFirst(Opening(row)), "|") = Cells(row)
  BY <1>1, <1>3, PiecesJoin, EnclosedText
<1> DEFINE S == Seq(N)
           T == Seq(N \union {"|", "{", "}"})
<1>4. \A rows \in Seq(S) :
        /\ Front(Append(Openings(rows), <<>>)) = Openings(rows)
        /\ DOMAIN Openings(rows) = DOMAIN rows
        /\ RowsText(rows) \in Seq(Symbols(N))
        /\ Pieces(RowsText(rows), "}") = Append(Openings(rows), <<>>)
  <2>1. <<>> \in S /\ <<>> \in T
    BY EmptySeq
  <2>2. \A rows \in Seq(S) : Openings(rows) \in Seq(T)
    BY <2>1, RowsAppend
  <2>3. \A rows \in Seq(S) : /\ RowsText(rows) \in T
                              /\ Pieces(RowsText(rows), "}") = Append(Openings(rows), <<>>)
    BY <1>1, PiecesRows
  <2>4. T \subseteq Seq(Symbols(N))
    BY SeqMonotonic DEF Symbols
  <2> HIDE DEF S, T
  <2>5. \A os \in Seq(T) : Front(Append(os, <<>>)) = os
    BY <2>1, FrontAppend
  <2>6. \A rows \in Seq(S) : DOMAIN Openings(rows) = DOMAIN rows
    BY DEF Openings
  <2> QED
    BY <2>2, <2>3, <2>4, <2>5, <2>6
<1>5. ASSUME NEW rows, RowsText(rows) \in Seq(Symbols(N)),
             \A i \in DOMAIN rows :
               Pieces(DropFirst(Opening(rows[i])), "|") = Cells(rows[i]),
             Front(Pieces(RowsText(rows), "}")) = Openings(rows)
      PROVE  Display(DataText(head, rows))
               = List(Cells(head), [i \in DOMAIN rows |-> Cells(rows[i])])
  <2> DEFINE text == DataText(head, rows)
             slash == Find(text, "/")
             body == Front(Pieces(SubSeq(text, slash + 1, Len(text)), "}"))
  <2>1. PICK rest : rest = RowsText(rows)
    OBVIOUS
  <2>2. text = Join(head) \o <<"/">> \o rest
    BY <2>1 DEF DataText, RowsText, Enclosed, Opening
  <2>3. /\ Len(text) = 1 => Join(head) = <<>>
        /\ SubSeq(text, 1, slash - 1) = Join(head)
        /\ SubSeq(text, slash + 1, Len(text)) = rest
    <3>1. rest \in Seq(Symbols(N)) /\ "/" \notin N
      BY <1>1, <1>5, <2>1
    <3>2. text = Join(head) \o <<"/">> \o rest
      BY <2>2
    <3> HIDE DEF text
    <3>3. LET u == Join(head) \o <<"/">> \o rest
              k == Find(u, "/")
          IN  /\ Len(u) = 1 => Join(head) = <<>>
              /\ SubSeq(u, 1, k - 1) = Join(head)
              /\ SubSeq(u, k + 1, Len(u)) = rest
      BY <3>1, DataParts
    <3> QED
      BY <3>2, <3>3
  <2>4. body = Openings(rows)
    BY <1>5, <2>1, <2>3
  <2> HIDE DEF text, slash
  <2>5. [i \in DOMAIN body |-> Pieces(DropFirst(body[i]), "|")]
          = [i \in DOMAIN rows |-> Cells(rows[i])]
    BY <1>5, <2>4 DEF Openings
  <2>6. Display(text) = List(Pieces(Join(head), "|"),
                             [i \in DOMAIN body |-> Pieces(DropFirst(body[i]), "|")])
    BY <1>2, <2>3 DEF Display, slash
  <2> QED
    BY <1>2, <2>5, <2>6 DEF text
<1>6. \A rows \in Seq(S) : \A i \in DOMAIN rows : rows[i] \in S
  <2> HIDE DEF S
  <2> QED
    BY ElementOfSeq, LenProperties
<1>7. \A row \in S : row # <<>> => Pieces(DropFirst(Opening(row)), "|") = Cells(row)
  BY <1>3
<1> HIDE DEF S
<1>8. ASSUME NEW rows \in Seq(S), \A i \in DOMAIN rows : rows[i] # <<>>
      PROVE  Display(DataText(head, rows))
               = List(Cells(head), [i \in DOMAIN rows |-> Cells(rows[i])])
  <2>1. \A i \in DOMAIN rows :
          Pieces(DropFirst(Opening(rows[i])), "|") = Cells(rows[i])
    BY <1>6, <1>7, <1>8
  <2> QED
    BY <1>4, <1>5, <2>1
<1> QED
  BY <1>8 DEF S

\* A statement without a result: the text is one "/", and the box "done" is
\* shown.
THEOREM SuccessIsShown == Display(DataText(<<>>, <<>>)) = Success
<1>1. DataText(<<>>, <<>>) = <<>> \o <<"/">> \o <<>>
  BY JoinEmpty, RowsEmpty DEF DataText, RowsText, Enclosed, Opening
<1>2. <<>> \o <<"/">> \o <<>> = <<"/">>
  <2>1. <<"/">> \in Seq({"/"})
    BY OneSymbol
  <2>2. PICK u : u = <<"/">>
    OBVIOUS
  <2>3. <<>> \o u = u /\ u \o <<>> = u
    BY <2>1, <2>2, ConcatEmptySeq
  <2> QED
    BY <2>2, <2>3
<1>3. Len(<<"/">>) = 1
  OBVIOUS
<1> QED
  BY <1>1, <1>2, <1>3 DEF Display

\* A result is written with its cells and the separators.
LEMMA DataIsText ==
  ASSUME NEW N, AreCells(N), NEW head \in Seq(N)
  PROVE  \A rows \in Seq(Seq(N)) : /\ DataText(head, rows) \in Seq(Symbols(N))
                                   /\ Len(DataText(head, rows)) \in Nat \ {0}
<1> DEFINE T == Symbols(N)
           S == Seq(N)
           V == Seq(T)
<1>1. Join(head) \in V /\ <<"/">> \in V /\ Len(<<"/">>) = 1
  <2>1. Join(head) \in Seq(N \union {"|"}) /\ N \union {"|"} \subseteq T /\ "/" \in T
    BY JoinText DEF Symbols
  <2> HIDE DEF T
  <2> QED
    BY <2>1, SeqMonotonic, OneSymbol
<1>2. \A rows \in Seq(S) : RowsText(rows) \in V
  <2>1. "}" \notin N /\ N \union {"|", "{", "}"} \subseteq T
    BY DEF AreCells, Symbols
  <2>2. \A rows \in Seq(S) : RowsText(rows) \in Seq(N \union {"|", "{", "}"})
    BY <2>1, PiecesRows
  <2>3. Seq(N \union {"|", "{", "}"}) \subseteq V
    BY <2>1, SeqMonotonic
  <2> QED
    BY <2>2, <2>3
<1>3. \A rows : DataText(head, rows) = Join(head) \o <<"/">> \o RowsText(rows)
  BY DEF DataText, RowsText, Enclosed, Opening
<1>4. PICK a, b : a = Join(head) /\ b = <<"/">>
  OBVIOUS
<1>5. \A r \in V : a \o b \o r \in V /\ Len(a \o b \o r) \in Nat \ {0}
  <2> HIDE DEF T
  <2>1. /\ a \o b \in V /\ Len(a) \in Nat
        /\ Len(a \o b) = Len(a) + 1
    BY <1>1, <1>4, ConcatProperties, LenProperties
  <2>2. PICK x : x = a \o b
    OBVIOUS
  <2>3. ASSUME NEW r \in V
        PROVE  x \o r \in V /\ Len(x \o r) = Len(x) + Len(r) /\ Len(r) \in Nat
    BY <2>1, <2>2, ConcatProperties, LenProperties
  <2> QED
    BY <2>1, <2>2, <2>3
<1> HIDE DEF S, V, T
<1>6. \A rows \in Seq(S) : DataText(head, rows) \in V /\ Len(DataText(head, rows)) \in Nat \ {0}
  BY <1>2, <1>3, <1>4, <1>5
<1> QED
  BY <1>6 DEF S, V, T

\* A text without a NUL is read to its end.
LEMMA NoNul ==
  ASSUME NEW t, \A i \in DOMAIN t : t[i] # NUL PROVE CString(t) = t
BY DEF CString, Find, Positions

\* A text without a separator is one piece.
LEMMA PiecesWhole ==
  ASSUME NEW V, NEW sep, sep \notin V, NEW t \in Seq(V)
  PROVE  Pieces(t, sep) = <<t>>
<1>1. PICK e \in Seq(V) : e = <<>>
  BY EmptySeq
<1>2. e \in Seq(V) /\ e \o t = t /\ V \in SUBSET V
  BY <1>1, EmptySeq, ConcatEmptySeq
<1>3. PICK U \in SUBSET V : U = V
  OBVIOUS
<1>4. sep \notin U /\ t \in Seq(U)
  BY <1>3
<1>5. Pieces(e \o t, sep) = Continued(Pieces(e, sep), t)
  BY <1>4, PiecesContinued
<1>6. Continued(<<<<>>>>, t) = <<t>>
  <2>1. <<>> \in Seq(Seq(V)) /\ <<>> \in Seq(V)
    BY EmptySeq
  <2>2. Continued(Append(<<>>, <<>>), t) = Append(<<>>, t)
    BY <2>1, ContinuedNew
  <2> QED
    BY <2>2, FirstOfAll
<1> QED
  BY <1>1, <1>2, <1>5, <1>6, PiecesEmpty

\* A failure has no slash and no row.
LEMMA FailureIsShown ==
  ASSUME NEW t \in Seq({"failed"}), Len(t) > 1
  PROVE  Display(t) = List(<<<<>>>>, <<>>)
<1> DEFINE V == {"failed"}
<1>1. /\ Len(t) \in Nat /\ t # <<>> /\ DOMAIN t = 1 .. Len(t)
      /\ \A i \in DOMAIN t : t[i] # "/"
  BY LenProperties, ElementOfSeq
<1>2. Find(t, "/") = 0
  BY <1>1 DEF Find, Positions
<1>3. SubSeq(t, 1, 0 - 1) = <<>>
  BY SubSeqEmpty
<1>4. SubSeq(t, 0 + 1, Len(t)) = t
  <2>1. SubSeq(t, 1, Len(t)) = t
    <3>1. <<>> \in Seq(V) /\ t \o <<>> = t
      BY EmptySeq, ConcatEmptySeq
    <3>2. PICK e : e = <<>>
      OBVIOUS
    <3> HIDE DEF V
    <3>3. SubSeq(t \o e, 1, Len(t)) = t
      BY <3>1, <3>2, CutText DEF V
    <3> QED
      BY <3>1, <3>2, <3>3
  <2> QED
    BY <2>1
<1>5. Pieces(t, "}") = <<t>>
  BY PiecesWhole
<1>6. Front(<<t>>) = <<>>
  <2>1. <<>> \in Seq({t})
    BY EmptySeq
  <2>2. Front(Append(<<>>, t)) = <<>>
    BY <2>1, FrontAppend, ZenonT(30)
  <2> QED
    BY <2>2, FirstOfAll
<1>7. DOMAIN <<>> = {}
  OBVIOUS
<1>8. [i \in DOMAIN <<>> |-> Pieces(DropFirst(<<>>[i]), "|")] = <<>>
  BY <1>7
<1>9. /\ SubSeq(t, 1, Find(t, "/") - 1) = <<>>
      /\ SubSeq(t, Find(t, "/") + 1, Len(t)) = t
  BY <1>2, <1>3, <1>4
<1>10. Front(Pieces(SubSeq(t, Find(t, "/") + 1, Len(t)), "}")) = <<>>
  BY <1>5, <1>6, <1>9
<1>11. Pieces(SubSeq(t, 1, Find(t, "/") - 1), "|") = <<<<>>>>
  BY <1>9, PiecesEmpty
<1>12. Len(t) # 1
  BY <1>1
<1> QED
  BY <1>12, <1>8, <1>10, <1>11, Zenon DEF Display

\* The rows of a finite set in some order.
LEMMA SetInOrder ==
  ASSUME NEW S, IsFiniteSet(S)
  PROVE  SetToSeq(S) \in Seq(S)
<1> DEFINE n == Cardinality(S)
           F == [1 .. n -> S]
<1>1. n \in Nat /\ \E f : f \in Bijection(1 .. n, S)
  BY FS_CardinalityType DEF ExistsBijection
<1>2. PICK f : f \in Bijection(1 .. n, S)
  BY <1>1
<1>3. f \in F /\ IsInjective(f)
  BY <1>2 DEF Bijection, Injection, IsInjective
<1>4. SetToSeq(S) = CHOOSE g \in F : IsInjective(g)
  BY DEF SetToSeq
<1>5. SetToSeq(S) \in F
  <2> HIDE DEF F
  <2> QED
    BY <1>3, <1>4, Zenon
<1> QED
  BY <1>1, <1>5
=============================================================================
