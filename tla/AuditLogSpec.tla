---------------------------- MODULE AuditLogSpec -----------------------------
(***************************************************************************)
(* What the audit log of the object cache promises its reader: the last    *)
(* AUDIT_LOG_SIZE events since it was cleared, the oldest first.           *)
(***************************************************************************)
EXTENDS Naturals, Sequences

CONSTANTS AUDIT_LOG_SIZE, Events

VARIABLES
    log,     \* the events kept, the oldest first
    answer   \* what the last reader was given

Init == log = << >> /\ answer = << >>

(* An event is kept; when the log is full it displaces the oldest. *)
Record(e) ==
    /\ log' = IF Len(log) < AUDIT_LOG_SIZE THEN Append(log, e) ELSE Append(Tail(log), e)
    /\ UNCHANGED answer

Reset == log' = << >> /\ UNCHANGED answer

Read == answer' = log /\ UNCHANGED log

Next == (\E e \in Events : Record(e)) \/ Reset \/ Read

Spec == Init /\ [][Next]_<<log, answer>>
=============================================================================
