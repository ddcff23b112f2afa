-------------------------------- MODULE MCDPT -------------------------------
(* The instances of DPT that TLC checks. *)
EXTENDS DPT

CONSTANTS a, b, e1, e2, e3, e4

\* a is known without a UDP port too, which is null in one message and 0 in
\* another; a PING carries the same of both.
Owners == e1 :> a @@ e2 :> b @@ e3 :> a @@ e4 :> a
Ports  == e1 :> "some" @@ e2 :> "some" @@ e3 :> "null" @@ e4 :> "zero"
Packed == e1 :> e1 @@ e2 :> e2 @@ e3 :> e3 @@ e4 :> e3

TwoOwners == e1 :> a @@ e2 :> b
TwoPorts  == e1 :> "some" @@ e2 :> "some"
TwoPacked  == e1 :> e1 @@ e2 :> e2
=============================================================================
