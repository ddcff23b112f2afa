---------------------------- MODULE Capabilities ----------------------------
(***************************************************************************)
(* How two Peers agree on subprotocols and number their messages           *)
(* (src/src/rlpx/peer.ts).  A capability is a subprotocol in one version,  *)
(* with the number of message codes it reserves; names are natural         *)
(* numbers, in the order of the alphabet: "eth" is before "les".           *)
(***************************************************************************)
EXTENDS Integers, FiniteSets

Capability == [name : Nat, version : Nat, length : Nat]

\* The capabilities of the tests and of the examples.
eth62 == [name |-> 1, version |-> 62, length |-> 8]
eth63 == [name |-> 1, version |-> 63, length |-> 17]
eth64 == [name |-> 1, version |-> 64, length |-> 29]
les2  == [name |-> 2, version |-> 2, length |-> 21]

BASE_PROTOCOL_LENGTH == 16

\* Mutant: versions are not compared.
Matching_NameOnly(own, remote) == {c \in own : \E r \in remote : r.name = c.name}

\* Mutant: the item of HELLO is kept, which has no length.
Matching_Theirs(own, remote) ==
    {[name |-> r.name, version |-> r.version] :
        r \in {r \in remote : \E c \in own : r.name = c.name /\ r.version = c.version}}

Matching(own, remote) ==
    {c \in own : \E r \in remote : r.name = c.name /\ r.version = c.version}

\* The highest version that both have, for each name.
Shared(own, remote) ==
    {c \in Matching(own, remote) :
        \A d \in Matching(own, remote) : d.name = c.name => d.version <= c.version}

\* How many codes the subprotocol of this name reserves, if there is one.
Reserved(protocols, name) ==
    IF \E c \in protocols : c.name = name
    THEN (CHOOSE c \in protocols : c.name = name).length ELSE 0

\* Subprotocols take their codes in the order of their names, after the codes
\* of the base protocol.
Offset(protocols, c) ==
    LET offset[n \in 0..c.name] ==
          IF n = 0 THEN BASE_PROTOCOL_LENGTH
          ELSE offset[n - 1] + Reserved(protocols, n - 1)
    IN  offset[c.name]

\* _getProtocol: the subprotocols (one at most) that a code belongs to.
Routed(protocols, code) ==
    {c \in protocols : /\ code >= Offset(protocols, c)
                       /\ code < Offset(protocols, c) + c.length}

\* The send function given to a subprotocol takes this code.
Sendable(c, code) == code <= c.length
=============================================================================
