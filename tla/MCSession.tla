------------------------------ MODULE MCSession -----------------------------
(* The instances of Session that TLC checks. *)
EXTENDS SessionLink

Caps(d, l) == [dialer |-> d, listener |-> l]

\* Two subprotocols in common, one of them in two versions and not in the
\* newest of the listener; nothing in common.
CapLists == {Caps({eth62, eth63, les2}, {eth62, eth63, eth64, les2}), Caps({eth63}, {les2})}

Setup(caps, filters, rightId) == [caps |-> caps, filters |-> filters, rightId |-> rightId]

\* Peers that accept each other; one filters the other out; the dialer has
\* the id of another node.
Usual == {Setup(caps, {}, TRUE) : caps \in CapLists}
         \cup {Setup(Caps({eth63}, {eth63}), filters, TRUE) :
                 filters \in {{"dialer"}, {"listener"}}}
         \cup {Setup(Caps({eth63}, {eth63}), {}, FALSE)}

\* The listener filters the dialer out.
Filtering == {Setup(Caps({eth63}, {eth63}), {"listener"}, TRUE)}

\* One pair of Peers that accept each other, with two subprotocols.
Talking == {Setup(Caps({eth63, les2}, {eth63, eth64, les2}), {}, TRUE)}

\* How many messages each side sends.
OneEach == [p \in Sides |-> 1]
TwoBack == [dialer |-> 0, listener |-> 2]

\* The codes on both sides of the border between two subprotocols.
AtTheBorder == [c \in {eth62, eth63, eth64, les2} |->
                  IF c = les2 THEN {0} ELSE {c.length - 1}]
=============================================================================
