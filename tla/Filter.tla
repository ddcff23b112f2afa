------------------------------- MODULE Filter -------------------------------
(***************************************************************************)
(* Array.prototype.filter, as src/src/rlpx/rlpx.ts uses it on its queue.   *)
(* The positions to keep are a set and the recursion is that of a function *)
(* so that Filter_proofs can say what the result is a sequence of.         *)
(***************************************************************************)
EXTENDS Naturals, Sequences

\* The items of q at the positions in keep, in their order.
Kept(q, keep) ==
    LET f[k \in 0..Len(q)] ==
            IF k = 0 THEN <<>>
            ELSE IF k \in keep THEN Append(f[k - 1], q[k]) ELSE f[k - 1]
    IN  f[Len(q)]
=============================================================================
