----------------------------- MODULE MCDelivery -----------------------------
(* Two notifications and two channels, of which c1 has a limit. *)
EXTENDS Delivery, TLC

CONSTANTS n1, n2, c1, c2

MCLimit == [c \in Limited |-> 1]
MCSymmetry == Permutations(Notifs)
=============================================================================
