-------------------------- MODULE MCEventDelivery --------------------------
(* Instances of EventDelivery for TLC: the second request carries again what the first
   did, and connections of one session follow each other. *)
EXTENDS EventDelivery, TLC

CONSTANTS i1, i2, e1, e2, t1, t2, s1

MCAbout == e1 :> t1 @@ e2 :> t2
MCCarries == i1 :> {e1, e2} @@ i2 :> {e1}
MCSize == i1 :> 2 @@ i2 :> 1
MCSessionOf == [c \in Connections |-> s1]

MCSymmetry == Permutations(Connections)
=============================================================================
