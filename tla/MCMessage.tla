------------------------------ MODULE MCMessage ------------------------------
(***************************************************************************)
(* A small instance of Message: two messages of one type and one of        *)
(* another, a message with two wrappers, an int32 field without presence,  *)
(* a required bool and a oneof of a uint64 and an enum; integers of 2 and  *)
(* 3 bits.  The inputs are -1, -0.5, "6e1" and the name of an enum's value. *)
(***************************************************************************)
EXTENDS Message, TLC

CONSTANTS m1, m2, m3, w1, w2, w3

MCMsgOf == (w1 :> m1) @@ (w2 :> m1) @@ (w3 :> m2)
MCMdef == (m1 :> "A") @@ (m2 :> "A") @@ (m3 :> "B")
MCType == ("i" :> "int32") @@ ("u" :> "uint64") @@ ("e" :> "enum") @@ ("r" :> "bool")
MCInputs == {[k |-> "iv", n |-> -1], [k |-> "nv", n |-> -1],
             [k |-> "exp", n |-> 6], [k |-> "str", n |-> 1]}
=============================================================================
