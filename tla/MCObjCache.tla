----------------------------- MODULE MCObjCache ------------------------------
(***************************************************************************)
(* A small instance of obj_cache.c: the cache, and the log of its events.  *)
(* The cache never looks at the log, and an event is recorded under the    *)
(* log's own mutex, so a behaviour here is one of either.                  *)
(*                                                                         *)
(* Of the cache: two threads, and two pointers in two stripes, the         *)
(* generated pool one of them.  A capacity of 0 evicts what is added at    *)
(* once; with 2 the queue holds duplicates and keys whose entries are      *)
(* gone.  Of the log: a ring of four entries and two kinds of events; it   *)
(* wraps, is cleared with its head anywhere and is read in between.        *)
(***************************************************************************)
EXTENDS ObjCache, AuditLog, TLC

CONSTANTS p1, p2

MCStripe == (p1 :> 0) @@ (p2 :> 1)

ThreadSymmetry == Permutations(Threads) \cup Permutations(Handles)

VARIABLE part

MCInit == part \in {"cache", "log"} /\ Init /\ LogInit

NextCache == part = "cache" /\ Next /\ UNCHANGED <<part, log_vars>>
NextLog == part = "log" /\ LogNext /\ UNCHANGED <<part, vars>>

MCSpec == MCInit /\ [][NextCache \/ NextLog]_<<part, vars, log_vars>>
=============================================================================
