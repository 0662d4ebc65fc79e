--------------------------- MODULE MCUmtHandshake ---------------------------
(***************************************************************************)
(* TLC instances of UmtHandshake.                                          *)
(***************************************************************************)
EXTENDS UmtHandshakeInv, TLC

\* Sound for invariants only.
Symmetry == Permutations(Clients) \union Permutations(Addrs)
              \union Permutations(RecvThreads)
=============================================================================
