------------------------------ MODULE AuditLog -------------------------------
(***************************************************************************)
(* The audit log of xs/protobuf/obj_cache.c: a ring of AUDIT_LOG_SIZE      *)
(* entries shared by all interpreters of the process, in which the cache   *)
(* and the allocator of xs/protobuf/arena.c record their events.  Each     *)
(* operation is one critical section of the log's mutex.  An event stands  *)
(* for its type, pointer and time.                                         *)
(***************************************************************************)
EXTENDS Naturals, Sequences

CONSTANTS
    AUDIT_LOG_SIZE,   \* 2048 in the code
    Events,           \* what may be recorded
    Zeroed            \* an entry of static storage that was never written

ASSUME AuditLogAssumption ==
    /\ AUDIT_LOG_SIZE \in Nat \ {0}
    /\ Zeroed \notin Events

VARIABLES
    init,      \* the mutexes are initialised, and events are recorded
    entries,   \* the ring
    head,      \* the slot of the oldest entry
    count,     \* how many entries are in use
    answer     \* what the last get_audit_log returned

log_vars == <<init, entries, head, count, answer>>

Slots == 0 .. AUDIT_LOG_SIZE - 1

(* The head is a slot, the ring is never more than full, and a reader is    *)
(* never handed an entry that was not written (lines 13-27, 267-283).      *)
LogTypeOK ==
    /\ init \in BOOLEAN
    /\ entries \in [Slots -> Events \cup {Zeroed}]
    /\ head \in Slots
    /\ count \in 0 .. AUDIT_LOG_SIZE
    /\ answer \in Seq(Events)

LogInit ==
    /\ init = FALSE
    /\ entries = [i \in Slots |-> Zeroed]
    /\ head = 0
    /\ count = 0
    /\ answer = << >>

-----------------------------------------------------------------------------
(* The slot of the entry that is i entries younger than the oldest. *)
Slot(i) == (head + i) % AUDIT_LOG_SIZE

(* What get_audit_log copies out of the ring. *)
Contents == [i \in 1 .. count |-> entries[Slot(i - 1)]]

(* ensure_mutexes_init, as every entry point of the cache calls it. *)
EnsureMutexesInit == init' = TRUE

(* BOOT of the module, before any other use of the cache. *)
ObjCacheInit ==
    /\ EnsureMutexesInit
    /\ UNCHANGED <<entries, head, count, answer>>

(* A fault: the oldest entry is overwritten, and the head stays on it. *)
Stuck_LogEvent(e) ==
    /\ init
    /\ entries' = [entries EXCEPT ![Slot(count)] = e]
    /\ count' = IF count = AUDIT_LOG_SIZE THEN count ELSE count + 1
    /\ UNCHANGED <<init, head, answer>>

(* An event that comes before the initialisation is dropped. *)
LogEvent(e) ==
    /\ init
    /\ entries' = [entries EXCEPT ![Slot(count)] = e]
    /\ \/ /\ count = AUDIT_LOG_SIZE
          /\ head' = Slot(1)
          /\ UNCHANGED count
       \/ /\ count # AUDIT_LOG_SIZE
          /\ count' = count + 1
          /\ UNCHANGED head
    /\ UNCHANGED <<init, answer>>

ClearLog ==
    /\ EnsureMutexesInit
    /\ head' = 0
    /\ count' = 0
    /\ UNCHANGED <<entries, answer>>

GetAuditLog ==
    /\ EnsureMutexesInit
    /\ answer' = Contents
    /\ UNCHANGED <<entries, head, count>>

LogNext ==
    \/ ObjCacheInit
    \/ \E e \in Events : LogEvent(e)
    \/ ClearLog
    \/ GetAuditLog

LogSpec == LogInit /\ [][LogNext]_log_vars

-----------------------------------------------------------------------------
Abstract == INSTANCE AuditLogSpec WITH log <- Contents

(* The ring is a faithful bounded log: through any number of wraps and      *)
(* clears, what get_audit_log hands out is the last AUDIT_LOG_SIZE events   *)
(* since the last clear, the oldest first (LogEvent, lines 76-90, and       *)
(* GetAuditLog, lines 267-283).                                             *)
ImplementsAuditLog == Abstract!Spec

(* What the proof needs: the slots in use have been written. *)
UsedAreWritten == \A i \in 1 .. count : entries[Slot(i - 1)] \in Events

LogIInv == LogTypeOK /\ UsedAreWritten
=============================================================================
