------------------------------- MODULE MCGrpc --------------------------------
(***************************************************************************)
(* A small instance of a channel with its streams, and one of a client     *)
(* with its pool.  The two models share no state: a behaviour here is one  *)
(* of either.                                                              *)
(*                                                                         *)
(* Two streams share a channel.  The pool has three subchannels, two of    *)
(* them on one host, and two whose key in the metrics is not the address   *)
(* that was given.                                                         *)
(***************************************************************************)
EXTENDS GrpcStream, GrpcClient

MCIps == << [host |-> "a", form |-> "bare"], [host |-> "b", form |-> "ported"],
            [host |-> "a", form |-> "bracketed"] >>

VARIABLE part

MCVars == <<part, vars, client_vars>>

MCInit == part \in {"channel", "client"} /\ Init /\ ClientInit

OfChannel(A) == part = "channel" /\ A /\ UNCHANGED <<part, client_vars>>
NextChannel == OfChannel(Next)
NextClient == part = "client" /\ ClientNext /\ UNCHANGED <<part, vars>>

(* A client may stop for good; a channel with streams may not. *)
ClientRests == part = "client" /\ UNCHANGED MCVars

(* The fairness of GrpcStream!FairSpec. *)
MCSpec ==
    /\ MCInit
    /\ [][NextChannel \/ NextClient \/ ClientRests]_MCVars
    /\ WF_MCVars(OfChannel(Tick)) /\ WF_MCVars(OfChannel(get_output))
    /\ WF_MCVars(OfChannel(Deliver)) /\ WF_MCVars(OfChannel(FeedReturns))
=============================================================================
