------------------------------ MODULE BytePipes ------------------------------
(***************************************************************************)
(* What the requirements ask of CUMT ("reliable transmission over UDP:     *)
(* packet ordering, checking, retransmission on timeout"), said without    *)
(* packets: one byte pipe per peer.  The bytes handed to Send are appended *)
(* to the pipe, and what Recv has returned so far is always a prefix of    *)
(* what was handed to Send: no byte is invented, altered, repeated,        *)
(* skipped or reordered, and no pipe leaks into another.                   *)
(***************************************************************************)
EXTENDS SequencesExt

CONSTANT Peers      \* the connections, one pipe each

VARIABLES sent,     \* sent[p]: every byte handed to Send for p, in order
          got       \* got[p]: every byte Recv returned on p, in order

vars == <<sent, got>>

Init == /\ sent = [p \in Peers |-> <<>>]
        /\ got  = [p \in Peers |-> <<>>]

\* The application hands more bytes to the pipe of p.
Send(p) == /\ sent' = [sent EXCEPT ![p] = sent'[p]]
           /\ IsPrefix(sent[p], sent'[p])
           /\ UNCHANGED got

\* The other end reads some of the bytes that are on the way, in order.
Recv(p) == /\ got' = [got EXCEPT ![p] = got'[p]]
           /\ IsPrefix(got[p], got'[p])
           /\ IsPrefix(got'[p], sent[p])
           /\ UNCHANGED sent

Next == \E p \in Peers : Send(p) \/ Recv(p)

Spec == Init /\ [][Next]_vars
=============================================================================
