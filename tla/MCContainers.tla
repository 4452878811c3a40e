---------------------------- MODULE MCContainers ----------------------------
(***************************************************************************)
(* A small instance of Containers: two repeated fields, a map of four keys *)
(* of which three collide in a table of two entries and two in one of      *)
(* four, unknown fields of two numbers around two extensions, and the      *)
(* generated pool with a message of two fields beside another pool with a  *)
(* message of the same name, which may lie where the generated pool will.  *)
(***************************************************************************)
EXTENDS Containers

CONSTANTS a, b, c, d, f1, f2, d1, d2, d3, d4

MCSymmetry == Permutations({f1, f2})
MCHash == (a :> 0) @@ (b :> 2) @@ (c :> 4) @@ (d :> 1)
MCElements == {[k |-> "iv", n |-> 0], [k |-> "num", n |-> 3], [k |-> "ref", n |-> 0]}
Message(name, fields) == [kind |-> "message", name |-> name, number |-> 0, fields |-> fields]
Field(name, number) == [kind |-> "field", name |-> name, number |-> number, fields |-> <<>>]
File == [kind |-> "file", name |-> "f.proto", number |-> 0, fields |-> <<>>]
MCGenerated == (d1 :> Message("M", <<d2, d3>>)) @@ (d2 :> Field("x", 2)) @@ (d3 :> Field("y", 1))
MCLayouts == {(d4 :> Message("M", <<>>)), (d1 :> File) @@ (d2 :> Message("N", <<>>))}
MCFnv == ("M" :> 7) @@ ("N" :> 8)
=============================================================================
