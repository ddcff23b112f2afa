------------------------------- MODULE MCECIES ------------------------------
(* The instance of ECIES that TLC checks. *)
EXTENDS ECIES

\* A block, more than a block, and more than the header can say.
Lengths == {16, 17, 256^3}

\* The shortest and the longest padding.
Padding == {100, 250}
=============================================================================
