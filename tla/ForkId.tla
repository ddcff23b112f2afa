-------------------------------- MODULE ForkId ------------------------------
(***************************************************************************)
(* The fork id of ETH/64 (src/src/eth/index.ts, EIP-2124).  A chain is     *)
(* what the Common of a node says of it: forks, the blocks of the forks    *)
(* it knows in their order, of which the first is 0, and at, the number    *)
(* of those that are active.  The hash of a fork stands for the blocks of  *)
(* the forks up to it.                                                     *)
(***************************************************************************)
EXTENDS Bytes, SequencesExt

hardforkBlock(chain) == chain.forks[chain.at]

forkHash(chain) == SubSeq(chain.forks, 1, chain.at)

nextForkBlock(chain) == IF chain.at < Len(chain.forks) THEN chain.forks[chain.at + 1] ELSE 0

\* Mutant: the hash alone.
OwnForkId_HashOnly(chain) == [hash |-> forkHash(chain)]

\* The fork id in the STATUS of a node.
OwnForkId(chain) == [hash |-> forkHash(chain), next |-> FromHex(nextForkBlock(chain))]

\* Mutant: only active forks are known.
KnownAs_Active(chain, hash) == {k \in 1..chain.at : SubSeq(chain.forks, 1, k) = hash}

\* The fork of the chain that has this hash, if there is one.
KnownAs(chain, hash) == {k \in DOMAIN chain.forks : SubSeq(chain.forks, 1, k) = hash}

\* Mutant: a remote at an older fork is not asked for its next one.
ValidForkId_AnyNext(chain, latest, id) ==
    LET next == buffer2int(id.next)
    IN  /\ ~(id.hash = forkHash(chain) /\ next \notin {0, NaN} /\ latest >= next)
        /\ KnownAs(chain, id.hash) # {}

\* _validateForkId, for a node of that chain whose latest block is this.
ValidForkId(chain, latest, id) ==
    LET next == buffer2int(id.next)
    IN  /\ ~(id.hash = forkHash(chain) /\ next \notin {0, NaN} /\ latest >= next)
        /\ KnownAs(chain, id.hash) # {}
        /\ \A k \in KnownAs(chain, id.hash) : k < chain.at => chain.forks[k + 1] = next

\* A digit of the next fork block is lost.
DigitLost(chain) == nextForkBlock(chain) > 0 /\ OddDigits(nextForkBlock(chain))

-----------------------------------------------------------------------------
(* What the fork id is for, in terms of the two chains *)

\* A block at which one of the two has forked and the other, though past it,
\* has not.
Diverged(c, d) ==
    \E n \in (Range(c.forks) \cup Range(d.forks)) \ (Range(c.forks) \cap Range(d.forks)) :
        n <= c.head /\ n <= d.head

\* The forks that are active are those at blocks up to the head.
Current(chain) == \A k \in DOMAIN chain.forks : k <= chain.at <=> chain.forks[k] <= chain.head
=============================================================================
