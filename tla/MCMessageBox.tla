----------------------------- MODULE MCMessageBox -----------------------------
(***************************************************************************)
(* MessageBox for TLC: who the peers of the receiver are, and the kinds of *)
(* messages that they send and that receive is called with.                *)
(***************************************************************************)
EXTENDS MessageBox

CONSTANTS p1, p2, p3   \* peers
CONSTANTS a, b         \* kinds

OwnerAndLinked == (p1 :> "owner") @@ (p2 :> "linked")
SpawnedAndStranger == (p1 :> "spawned") @@ (p2 :> "stranger")
OwnerAndStranger == (p1 :> "owner") @@ (p2 :> "stranger")
Strangers == [p \in Peers |-> "stranger"]

EitherOrBoth == {{a}, {a, b}}
OneOrOther == {{a}, {b}}
Everything == {Kinds}
===============================================================================
