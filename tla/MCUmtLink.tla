------------------------------ MODULE MCUmtLink ------------------------------
(***************************************************************************)
(* Instances of the CUMT data path for TLC.                                *)
(***************************************************************************)
EXTENDS UmtLinkProps, TLC

\* The RecvThreads of one end are interchangeable, and so are the callers of
\* Send.
ThreadSymmetry == Permutations(RecvThreads) \union Permutations(Senders)
=============================================================================
