-------------------------- MODULE MCMessageStream ----------------------------
(***************************************************************************)
(* A small instance of MessageStream: a continuation bit of 2, so that a   *)
(* body of two bytes has a length of two bytes; an empty message.  Lengths  *)
(* are below 8 and negative from 4 on, and a varint of four bytes says up  *)
(* to 15, so that both the cast and the truncation are met.                *)
(***************************************************************************)
EXTENDS MessageStream, TLC

CONSTANTS e0, e1, e2

MCJson == (e0 :> <<0>>) @@ (e1 :> <<1>>) @@ (e2 :> <<1, 3>>)
MCBody == (e0 :> << >>) @@ (e1 :> <<1>>) @@ (e2 :> <<0, 3>>)
=============================================================================
