------------------------------- MODULE MCRLPx -------------------------------
(* The instance of RLPx that TLC checks. *)
EXTENDS RLPx, TLC

\* The handles of sockets are interchangeable.
ConnSymmetry == Permutations(Conns)
=============================================================================
