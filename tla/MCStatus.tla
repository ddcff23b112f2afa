------------------------------ MODULE MCStatus ------------------------------
(* The instances of Status that TLC checks. *)
EXTENDS Status

Chain(network, genesis, forks, at, head) ==
    [network |-> network, genesis |-> genesis, forks |-> forks, at |-> at, head |-> head]

Setup(protocol, d, l) == [protocol |-> protocol, chain |-> [dialer |-> d, listener |-> l]]

\* Another network, another genesis block, both or neither.
Home  == Chain(1, 1, <<0>>, 1, 0)
Away  == {Chain(n, g, <<0>>, 1, 0) : n \in {1, 2}, g \in {1, 2}}
Simple == {Setup(protocol, Home, c) : protocol \in {eth62, eth63, les2}, c \in Away}

\* Chains without a fork, with one at 20 or at 64, and with a second one at
\* 300, whose number has three hexadecimal digits; heads before, between and
\* after the forks; a node that has the forks of its head, and one that has
\* none of them yet.
Forks  == {<<0>>, <<0, 20>>, <<0, 64>>, <<0, 20, 300>>}
Active(forks, head) == Cardinality({k \in DOMAIN forks : forks[k] <= head})
Chains == {Chain(1, 1, forks, Active(forks, head), head) : forks \in Forks, head \in {10, 30, 310}}
Behind == {Chain(1, 1, <<0, 20>>, 1, 30)}

Usual == Simple \cup {Setup(eth64, c, d) : c \in Chains \cup Behind, d \in Chains}
                \cup {Setup(eth64, Home, c) : c \in Away}
=============================================================================
