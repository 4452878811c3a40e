------------------------------ MODULE ObjCache -------------------------------
(***************************************************************************)
(* xs/protobuf/obj_cache.c: the cache that maps a C pointer to the Perl    *)
(* wrapper of the object it points to, and the wrapper life cycle that     *)
(* uses it (xs/protobuf/utils.c).  Each thread runs an interpreter of its  *)
(* own with a cache, an eviction queue and a capacity of its own; the      *)
(* mutexes, one per stripe of pointers and one for the queue, are those of *)
(* the process.                                                            *)
(*                                                                         *)
(* A critical section that takes no second lock but the audit log's is one *)
(* action, enabled when its mutex is free.  The nested ones, eviction and  *)
(* clearing, are not.                                                      *)
(***************************************************************************)
EXTENDS Naturals, Sequences, FiniteSets, Functions

CONSTANTS
    Threads,          \* the threads, each with its interpreter
    Ptrs,             \* C pointers
    Handles,          \* Perl wrappers a thread may have alive at once
    NumStripes,       \* NUM_CACHE_STRIPES (16 in the code)
    get_stripe,       \* the stripe of each pointer
    Capacities,       \* the capacities set_cache_capacity is called with
    generated_pool_ptr, \* the pointer of the generated pool
    Undef,            \* what is left of a weak reference to a freed wrapper
    None

ASSUME ObjCacheAssumption ==
    /\ NumStripes \in Nat \ {0}
    /\ get_stripe \in [Ptrs -> 0 .. NumStripes - 1]
    /\ Capacities \subseteq Nat
    /\ Capacities # {}
    /\ generated_pool_ptr \in Ptrs
    /\ Undef \notin Handles \cup {None}
    /\ None \notin Threads \cup Handles \cup Ptrs

VARIABLES
    cache_mutexes,      \* the holder of each stripe's mutex, or None
    lru_mutex,          \* the holder of the queue's mutex, or None
    obj_cache,          \* per thread: the wrapper cached for each pointer
    obj_lru,            \* per thread: the eviction queue
    max_cache_capacity, \* per thread
    wraps,              \* per thread: the pointer each live wrapper stands for
    pc,                 \* per thread: where it is in an operation
    arg                 \* per thread: the wrapper an Add is about

mutexes == <<cache_mutexes, lru_mutex>>
vars == <<mutexes, obj_cache, obj_lru, max_cache_capacity, wraps, pc, arg>>

Stripes == 0 .. NumStripes - 1
PCs == {"idle", "store", "push", "evict", "clear"}

TypeOK ==
    /\ cache_mutexes \in [Stripes -> Threads \cup {None}]
    /\ lru_mutex \in Threads \cup {None}
    /\ obj_cache \in [Threads -> [Ptrs -> Handles \cup {Undef, None}]]
    /\ obj_lru \in [Threads -> Seq(Ptrs)]
    /\ max_cache_capacity \in [Threads -> Nat]
    /\ wraps \in [Threads -> [Handles -> Ptrs \cup {None}]]
    /\ pc \in [Threads -> PCs]
    /\ arg \in [Threads -> Handles \cup {None}]

Init ==
    /\ cache_mutexes = [s \in Stripes |-> None]
    /\ lru_mutex = None
    /\ obj_cache = [t \in Threads |-> [p \in Ptrs |-> None]]
    /\ obj_lru = [t \in Threads |-> << >>]
    /\ max_cache_capacity \in [Threads -> Capacities]
    /\ wraps = [t \in Threads |-> [h \in Handles |-> None]]
    /\ pc = [t \in Threads |-> "idle"]
    /\ arg = [t \in Threads |-> None]

-----------------------------------------------------------------------------
StripeFree(p) == cache_mutexes[get_stripe[p]] = None
LruFree == lru_mutex = None

(* An entry is a weak reference: it is good while it refers to a wrapper.   *)
Hit(t, p) == obj_cache[t][p] \in Handles

-----------------------------------------------------------------------------
(* PerlUpb_WrapArenaBoundObject, and PerlUpb_DescriptorPool_GetWrapper and   *)
(* _New for pools.                                                         *)

(* PerlUpb_ObjCache_Get finds the wrapper. *)
WrapHit(t, p) ==
    /\ pc[t] = "idle"
    /\ StripeFree(p)
    /\ Hit(t, p)
    /\ UNCHANGED vars

(* It does not, drops a dead entry, and a new wrapper is made. *)
WrapMiss(t, p, h) ==
    /\ pc[t] = "idle"
    /\ StripeFree(p)
    /\ ~Hit(t, p)
    /\ wraps[t][h] = None
    /\ wraps' = [wraps EXCEPT ![t][h] = p]
    /\ obj_cache' = [obj_cache EXCEPT ![t][p] = None]
    /\ pc' = [pc EXCEPT ![t] = "store"]
    /\ arg' = [arg EXCEPT ![t] = h]
    /\ UNCHANGED <<mutexes, obj_lru, max_cache_capacity>>

(* PerlUpb_ObjCache_Add: the entry is stored under the stripe's mutex, ... *)
AddStore(t) ==
    /\ pc[t] = "store"
    /\ StripeFree(wraps[t][arg[t]])
    /\ obj_cache' = [obj_cache EXCEPT ![t][wraps[t][arg[t]]] = arg[t]]
    /\ pc' = [pc EXCEPT ![t] = "push"]
    /\ UNCHANGED <<mutexes, obj_lru, max_cache_capacity, wraps, arg>>

(* ... its key joins the queue under the queue's, ...                      *)
AddPush(t) ==
    /\ pc[t] = "push"
    /\ LruFree
    /\ lru_mutex' = t
    /\ obj_lru' = [obj_lru EXCEPT ![t] = Append(@, wraps[t][arg[t]])]
    /\ pc' = [pc EXCEPT ![t] = "evict"]
    /\ UNCHANGED <<cache_mutexes, obj_cache, max_cache_capacity, wraps, arg>>

(* Faulty variant: the evicted key leaves the queue, the entry stays.      *)
Faulty_AddEvict(t) ==
    /\ pc[t] = "evict"
    /\ Len(obj_lru[t]) > max_cache_capacity[t]
    /\ StripeFree(Head(obj_lru[t]))
    /\ obj_lru' = [obj_lru EXCEPT ![t] = Tail(@)]
    /\ UNCHANGED <<mutexes, obj_cache, max_cache_capacity, wraps, pc, arg>>

(* ... and while the queue is too long its oldest key is evicted, under the *)
(* mutex of that key's stripe, with the queue's mutex still held.          *)
AddEvict(t) ==
    /\ pc[t] = "evict"
    /\ Len(obj_lru[t]) > max_cache_capacity[t]
    /\ StripeFree(Head(obj_lru[t]))
    /\ obj_cache' = [obj_cache EXCEPT ![t][Head(obj_lru[t])] = None]
    /\ obj_lru' = [obj_lru EXCEPT ![t] = Tail(@)]
    /\ UNCHANGED <<mutexes, max_cache_capacity, wraps, pc, arg>>

(* Faulty variant: the wrapper is handed out with the mutex still held.    *)
Faulty_AddReturn(t) ==
    /\ pc[t] = "evict"
    /\ Len(obj_lru[t]) <= max_cache_capacity[t]
    /\ pc' = [pc EXCEPT ![t] = "idle"]
    /\ arg' = [arg EXCEPT ![t] = None]
    /\ UNCHANGED <<mutexes, obj_cache, obj_lru, max_cache_capacity, wraps>>

AddReturn(t) ==
    /\ pc[t] = "evict"
    /\ Len(obj_lru[t]) <= max_cache_capacity[t]
    /\ lru_mutex' = None
    /\ pc' = [pc EXCEPT ![t] = "idle"]
    /\ arg' = [arg EXCEPT ![t] = None]
    /\ UNCHANGED <<cache_mutexes, obj_cache, obj_lru, max_cache_capacity, wraps>>

-----------------------------------------------------------------------------
(* A weak reference to a wrapper that is freed becomes undefined. *)
Weakened(entry, h) == IF entry = h THEN Undef ELSE entry

(* Faulty variant: the wrapper has lost its magic.                         *)
Faulty_FreeWrapper(t, h) ==
    /\ pc[t] = "idle"
    /\ wraps[t][h] # None
    /\ StripeFree(wraps[t][h])
    /\ obj_cache' = [obj_cache EXCEPT ![t][wraps[t][h]] = Weakened(@, h)]
    /\ wraps' = [wraps EXCEPT ![t][h] = None]
    /\ UNCHANGED <<mutexes, obj_lru, max_cache_capacity, pc, arg>>

(* The last reference to a wrapper goes: wrapper_cleanup, or DestroyRaw for *)
(* a pool, deletes the entry of its pointer, whichever wrapper of the      *)
(* pointer that is.  The key stays in the queue.                           *)
FreeWrapper(t, h) ==
    /\ pc[t] = "idle"
    /\ wraps[t][h] \in Ptrs \ {generated_pool_ptr}
    /\ StripeFree(wraps[t][h])
    /\ obj_cache' = [obj_cache EXCEPT ![t][wraps[t][h]] = None]
    /\ wraps' = [wraps EXCEPT ![t][h] = None]
    /\ UNCHANGED <<mutexes, obj_lru, max_cache_capacity, pc, arg>>

(* A wrapper of the generated pool has no magic, and DestroyRaw deletes no  *)
(* entry for it: what is left is an undefined entry, until a Get drops it. *)
FreeGeneratedPool(t, h) ==
    /\ pc[t] = "idle"
    /\ wraps[t][h] = generated_pool_ptr
    /\ obj_cache' = [obj_cache EXCEPT ![t][generated_pool_ptr] = Weakened(@, h)]
    /\ wraps' = [wraps EXCEPT ![t][h] = None]
    /\ UNCHANGED <<mutexes, obj_lru, max_cache_capacity, pc, arg>>

(* delete_cache_ptr: the entry goes, the wrapper stays. *)
Delete(t, p) ==
    /\ pc[t] = "idle"
    /\ StripeFree(p)
    /\ obj_cache' = [obj_cache EXCEPT ![t][p] = None]
    /\ UNCHANGED <<mutexes, obj_lru, max_cache_capacity, wraps, pc, arg>>

SetCapacity(t, capacity) ==
    /\ pc[t] = "idle"
    /\ LruFree
    /\ max_cache_capacity' = [max_cache_capacity EXCEPT ![t] = capacity]
    /\ UNCHANGED <<mutexes, obj_cache, obj_lru, wraps, pc, arg>>

-----------------------------------------------------------------------------
(* PerlUpb_ObjCache_Clear takes the mutex of every stripe in turn, then the *)
(* queue's, clears both and releases them all.                             *)

Held(t) == {s \in Stripes : cache_mutexes[s] = t}

ClearBegin(t) ==
    /\ pc[t] = "idle"
    /\ pc' = [pc EXCEPT ![t] = "clear"]
    /\ UNCHANGED <<mutexes, obj_cache, obj_lru, max_cache_capacity, wraps, arg>>

ClearLock(t) ==
    /\ pc[t] = "clear"
    /\ \E s \in Stripes :
          /\ Held(t) = 0 .. s - 1
          /\ cache_mutexes[s] = None
          /\ cache_mutexes' = [cache_mutexes EXCEPT ![s] = t]
    /\ UNCHANGED <<lru_mutex, obj_cache, obj_lru, max_cache_capacity, wraps, pc, arg>>

ClearWipe(t) ==
    /\ pc[t] = "clear"
    /\ Held(t) = Stripes
    /\ LruFree
    /\ obj_cache' = [obj_cache EXCEPT ![t] = [p \in Ptrs |-> None]]
    /\ obj_lru' = [obj_lru EXCEPT ![t] = << >>]
    /\ cache_mutexes' = [s \in Stripes |-> None]
    /\ pc' = [pc EXCEPT ![t] = "idle"]
    /\ UNCHANGED <<lru_mutex, max_cache_capacity, wraps, arg>>

-----------------------------------------------------------------------------
Step(t) ==
    \/ \E p \in Ptrs : WrapHit(t, p)
    \/ \E p \in Ptrs, h \in Handles : WrapMiss(t, p, h)
    \/ AddStore(t)
    \/ AddPush(t)
    \/ AddEvict(t)
    \/ AddReturn(t)
    \/ \E h \in Handles : FreeWrapper(t, h)
    \/ \E h \in Handles : FreeGeneratedPool(t, h)
    \/ \E p \in Ptrs : Delete(t, p)
    \/ \E capacity \in Capacities : SetCapacity(t, capacity)
    \/ ClearBegin(t)
    \/ ClearLock(t)
    \/ ClearWipe(t)

Next == \E t \in Threads : Step(t)

Spec == Init /\ [][Next]_vars

-----------------------------------------------------------------------------
(* Properties. *)

(* Every entry can be evicted: its key is in the queue, through deletions,  *)
(* duplicate keys and evictions.  So the cache holds no more entries than  *)
(* the queue has keys, and an Add leaves it within the capacity.           *)
CachedKeysAreListed ==
    \A t \in Threads, p \in Ptrs :
        obj_cache[t][p] # None =>
            \/ p \in Range(obj_lru[t])
            \/ pc[t] = "push" /\ p = wraps[t][arg[t]]

(* An entry is a live wrapper of its own pointer, also when an eviction     *)
(* made way for a second wrapper of the pointer: a wrapper that is freed   *)
(* takes the entry with it.  The one exception is the generated pool,      *)
(* whose wrappers have no cleanup (pool.c:31, 91); its entry may be a dead *)
(* one, which keeps its place in the cache until it is asked for or        *)
(* evicted.                                                                *)
EntriesAreAlive ==
    \A t \in Threads, p \in Ptrs :
        \/ obj_cache[t][p] = None
        \/ obj_cache[t][p] \in Handles /\ wraps[t][obj_cache[t][p]] = p
        \/ obj_cache[t][p] = Undef /\ p = generated_pool_ptr

(* What the next stripe's mutex is to a thread that takes them in turn. *)
NextStripeHolder(t) ==
    {cache_mutexes[s] : s \in {s \in Stripes : Held(t) = 0 .. s - 1}}

(* The mutex a thread is waiting for, as the threads that hold it. *)
WaitsFor(t) ==
    CASE pc[t] = "evict" /\ Len(obj_lru[t]) > max_cache_capacity[t] ->
            {cache_mutexes[get_stripe[Head(obj_lru[t])]]} \ {None}
      [] pc[t] = "clear" /\ Held(t) # Stripes ->
            NextStripeHolder(t) \ {None}
      [] pc[t] = "push" \/ (pc[t] = "clear" /\ Held(t) = Stripes) -> {lru_mutex} \ {None}
      [] OTHER -> {}

(* No group of threads waits for mutexes held within the group.  The        *)
(* package is described as "memory-safe, thread-isolated"                  *)
(* (Protobuf/README.md:4).                                                 *)
NoCircularWait ==
    \A group \in (SUBSET Threads) \ {{}} :
        \E t \in group : WaitsFor(t) \cap group = {}

(* A circular wait that does occur is the one of clear_cache and an         *)
(* eviction: every group of threads that wait for each other has one that  *)
(* holds all stripes and wants the queue, and one that holds the queue.    *)
(* Evictions, clears and the wrappers of other threads block nobody for    *)
(* good among themselves.                                                  *)
OnlyClearMeetsEviction ==
    \A group \in (SUBSET Threads) \ {{}} :
        (\A t \in group : WaitsFor(t) \cap group # {}) =>
            \E t, u \in group :
                /\ pc[t] = "clear" /\ Held(t) = Stripes
                /\ pc[u] = "evict" /\ lru_mutex = u

(* A mutex is held only by a thread that is inside an operation. *)
LocksAreReleased ==
    /\ lru_mutex # None => pc[lru_mutex] = "evict"
    /\ \A s \in Stripes : cache_mutexes[s] # None => pc[cache_mutexes[s]] = "clear"

(* The strengthening the proofs rest on: a wrapper that is being added is   *)
(* alive, and the thread that holds a stripe holds the ones before it.     *)
AddsAreAlive ==
    \A t \in Threads :
        pc[t] \in {"store", "push", "evict"} =>
            arg[t] \in Handles /\ wraps[t][arg[t]] \in Ptrs

StripesAreTakenInTurn ==
    \A s \in Stripes : \A r \in 0 .. s - 1 :
        cache_mutexes[s] # None => cache_mutexes[r] = cache_mutexes[s]

IInv == /\ TypeOK
        /\ LocksAreReleased
        /\ AddsAreAlive
        /\ EntriesAreAlive
        /\ CachedKeysAreListed
        /\ StripesAreTakenInTurn
=============================================================================
