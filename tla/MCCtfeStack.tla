---------------------------- MODULE MCCtfeStack -----------------------------
(* Two functions that call each other and themselves, f with two reference   *)
(* parameters and g with one.                                                *)
EXTENDS CtfeStack
MCFuncs == {"f", "g"}
MCParams == [fn \in MCFuncs |-> IF fn = "f" THEN <<"a", "b">> ELSE <<"w">>]
MCLocals == [fn \in MCFuncs |-> IF fn = "f" THEN {"x"} ELSE {"y"}]
MCDollars == [fn \in MCFuncs |-> IF fn = "f" THEN {"$"} ELSE {}]
=============================================================================
