----------------------------- MODULE Containers -----------------------------
(***************************************************************************)
(* What a message holds besides singular fields: repeated fields, a map,   *)
(* and the extensions and unknown fields; and the definitions all of them  *)
(* come from.  The four share no state, so the order of steps in two of    *)
(* them does not matter: a behaviour here is one of any one of them.       *)
(***************************************************************************)
EXTENDS Repeated, MapField, AuxData, Descriptors

VARIABLE kind

vars == <<kind, rvars, mvars, avars, dvars>>

TypeOK == RepeatedTypeOK /\ MapTypeOK /\ AuxTypeOK /\ DescriptorsTypeOK

Init ==
    /\ kind \in {"repeated", "map", "aux", "descriptors"}
    /\ RepeatedInit
    /\ kind # "repeated" => etype = "int32"
    /\ MapInit
    /\ AuxInit
    /\ DescriptorsInit

NextRepeated == kind = "repeated" /\ RepeatedNext /\ UNCHANGED <<kind, mvars, avars, dvars>>
NextMap == kind = "map" /\ MapNext /\ UNCHANGED <<kind, rvars, avars, dvars>>
NextAux == kind = "aux" /\ AuxNext /\ UNCHANGED <<kind, rvars, mvars, dvars>>
NextDescriptors ==
    kind = "descriptors" /\ DescriptorsNext /\ UNCHANGED <<kind, rvars, mvars, avars>>

Next == NextRepeated \/ NextMap \/ NextAux \/ NextDescriptors

Spec == Init /\ [][Next]_vars

-----------------------------------------------------------------------------
(* An iteration over a map that is not written meanwhile, and one over      *)
(* extensions while no unknown fields are discarded, return everything     *)
(* there is and nothing twice; one over descriptors pairs each key with    *)
(* its value.                                                              *)
IterationsAreComplete ==
    IterationIsComplete /\ ExtensionsAreComplete /\ KeysComeWithTheirValues
=============================================================================
