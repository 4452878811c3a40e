--------------------------- MODULE LifetimeProofs ---------------------------
(***************************************************************************)
(* Proofs about what keeps the C objects behind Perl's wrappers alive:     *)
(* the object cache (ObjCache), the arenas and the allocator inside them   *)
(* (Arena, BlockAlloc), and the audit log in which both record events      *)
(* (AuditLog, which is shown to implement AuditLogSpec).  They hold for    *)
(* every number of threads, pointers, wrappers, stripes and arenas, every  *)
(* capacity, region, set of block sizes, size of the ring and set of       *)
(* events.                                                                 *)
(***************************************************************************)
EXTENDS ObjCache, Arena, AuditLog, FiniteSetTheorems, TLAPS

-----------------------------------------------------------------------------
(* The object cache. *)

(* Each operation of the cache keeps every variable in its type. *)
LEMMA TypeStep == TypeOK /\ AddsAreAlive /\ [Next]_vars => TypeOK'
<1> SUFFICES ASSUME TypeOK, AddsAreAlive, [Next]_vars PROVE TypeOK'
    OBVIOUS
<1> USE ObjCacheAssumption DEF TypeOK, PCs, mutexes
<1>1. ASSUME NEW t \in Threads, NEW p \in Ptrs, WrapHit(t, p) PROVE TypeOK'
    BY <1>1 DEF WrapHit, vars
<1>2. ASSUME NEW t \in Threads, NEW p \in Ptrs, NEW h \in Handles, WrapMiss(t, p, h)
      PROVE  TypeOK'
    BY <1>2 DEF WrapMiss
<1>3. ASSUME NEW t \in Threads, AddStore(t) PROVE TypeOK'
    BY <1>3 DEF AddStore
<1>4. ASSUME NEW t \in Threads, AddPush(t) PROVE TypeOK'
    BY <1>4 DEF AddPush, AddsAreAlive
<1>5. ASSUME NEW t \in Threads, AddEvict(t) PROVE TypeOK'
    BY <1>5 DEF AddEvict
<1>6. ASSUME NEW t \in Threads, AddReturn(t) PROVE TypeOK'
    BY <1>6 DEF AddReturn
<1>7. ASSUME NEW t \in Threads, NEW h \in Handles, FreeWrapper(t, h) PROVE TypeOK'
    BY <1>7 DEF FreeWrapper
<1>8. ASSUME NEW t \in Threads, NEW capacity \in Capacities, SetCapacity(t, capacity)
      PROVE  TypeOK'
    BY <1>8 DEF SetCapacity
<1>9. ASSUME NEW t \in Threads, ClearBegin(t) PROVE TypeOK'
    BY <1>9 DEF ClearBegin
<1>10. ASSUME NEW t \in Threads, ClearLock(t) PROVE TypeOK'
    BY <1>10 DEF ClearLock
<1>11. ASSUME NEW t \in Threads, ClearWipe(t) PROVE TypeOK'
    BY <1>11 DEF ClearWipe
<1>12. ASSUME NEW t \in Threads, NEW p \in Ptrs, Delete(t, p) PROVE TypeOK'
    BY <1>12 DEF Delete
<1>13. ASSUME NEW t \in Threads, NEW h \in Handles, FreeGeneratedPool(t, h)
      PROVE  TypeOK'
    BY <1>13 DEF FreeGeneratedPool, Weakened
<1>14. CASE UNCHANGED vars
    BY <1>14 DEF vars
<1> QED BY <1>1, <1>2, <1>3, <1>4, <1>5, <1>6, <1>7, <1>8, <1>9, <1>10, <1>11, <1>12,
           <1>13, <1>14 DEF Next, Step

(* A mutex that is held belongs to a thread inside an operation, after a step too. *)
LEMMA LocksStep == TypeOK /\ LocksAreReleased /\ [Next]_vars => LocksAreReleased'
<1> SUFFICES ASSUME TypeOK, LocksAreReleased, [Next]_vars PROVE LocksAreReleased'
    OBVIOUS
<1> USE ObjCacheAssumption DEF TypeOK, PCs, mutexes, LocksAreReleased
<1>1. ASSUME NEW t \in Threads, NEW p \in Ptrs, WrapHit(t, p)
      PROVE  LocksAreReleased'
    BY <1>1 DEF WrapHit, vars
<1>2. ASSUME NEW t \in Threads, NEW p \in Ptrs, NEW h \in Handles, WrapMiss(t, p, h)
      PROVE  LocksAreReleased'
    BY <1>2 DEF WrapMiss
<1>3. ASSUME NEW t \in Threads, AddStore(t) PROVE LocksAreReleased'
    BY <1>3 DEF AddStore
<1>4. ASSUME NEW t \in Threads, AddPush(t) PROVE LocksAreReleased'
    BY <1>4 DEF AddPush, LruFree
<1>5. ASSUME NEW t \in Threads, AddEvict(t) PROVE LocksAreReleased'
    BY <1>5 DEF AddEvict
<1>6. ASSUME NEW t \in Threads, AddReturn(t) PROVE LocksAreReleased'
    BY <1>6 DEF AddReturn
<1>7. ASSUME NEW t \in Threads, NEW h \in Handles, FreeWrapper(t, h)
      PROVE  LocksAreReleased'
    BY <1>7 DEF FreeWrapper
<1>8. ASSUME NEW t \in Threads, NEW capacity \in Capacities, SetCapacity(t, capacity)
      PROVE  LocksAreReleased'
    BY <1>8 DEF SetCapacity
<1>9. ASSUME NEW t \in Threads, ClearBegin(t) PROVE LocksAreReleased'
    BY <1>9 DEF ClearBegin
<1>10. ASSUME NEW t \in Threads, ClearLock(t) PROVE LocksAreReleased'
    BY <1>10 DEF ClearLock
<1>11. ASSUME NEW t \in Threads, ClearWipe(t) PROVE LocksAreReleased'
    BY <1>11 DEF ClearWipe
<1>12. ASSUME NEW t \in Threads, NEW p \in Ptrs, Delete(t, p) PROVE LocksAreReleased'
    BY <1>12 DEF Delete
<1>13. ASSUME NEW t \in Threads, NEW h \in Handles, FreeGeneratedPool(t, h)
      PROVE  LocksAreReleased'
    BY <1>13 DEF FreeGeneratedPool, Weakened
<1>14. CASE UNCHANGED vars
    BY <1>14 DEF vars
<1> QED BY <1>1, <1>2, <1>3, <1>4, <1>5, <1>6, <1>7, <1>8, <1>9, <1>10, <1>11, <1>12,
           <1>13, <1>14 DEF Next, Step

(* The wrapper an Add is about stays alive until the Add returns. *)
LEMMA AddsStep == TypeOK /\ AddsAreAlive /\ [Next]_vars => AddsAreAlive'
<1> SUFFICES ASSUME TypeOK, AddsAreAlive, [Next]_vars PROVE AddsAreAlive'
    OBVIOUS
<1> USE ObjCacheAssumption DEF TypeOK, PCs, mutexes, AddsAreAlive
<1>1. ASSUME NEW t \in Threads, NEW p \in Ptrs, WrapHit(t, p)
      PROVE  AddsAreAlive'
    BY <1>1 DEF WrapHit, vars
<1>2. ASSUME NEW t \in Threads, NEW p \in Ptrs, NEW h \in Handles, WrapMiss(t, p, h)
      PROVE  AddsAreAlive'
    BY <1>2 DEF WrapMiss
<1>3. ASSUME NEW t \in Threads, AddStore(t) PROVE AddsAreAlive'
    BY <1>3 DEF AddStore
<1>4. ASSUME NEW t \in Threads, AddPush(t) PROVE AddsAreAlive'
    BY <1>4 DEF AddPush
<1>5. ASSUME NEW t \in Threads, AddEvict(t) PROVE AddsAreAlive'
    BY <1>5 DEF AddEvict
<1>6. ASSUME NEW t \in Threads, AddReturn(t) PROVE AddsAreAlive'
    BY <1>6 DEF AddReturn
<1>7. ASSUME NEW t \in Threads, NEW h \in Handles, FreeWrapper(t, h)
      PROVE  AddsAreAlive'
    BY <1>7 DEF FreeWrapper
<1>8. ASSUME NEW t \in Threads, NEW capacity \in Capacities, SetCapacity(t, capacity)
      PROVE  AddsAreAlive'
    BY <1>8 DEF SetCapacity
<1>9. ASSUME NEW t \in Threads, ClearBegin(t) PROVE AddsAreAlive'
    BY <1>9 DEF ClearBegin
<1>10. ASSUME NEW t \in Threads, ClearLock(t) PROVE AddsAreAlive'
    BY <1>10 DEF ClearLock
<1>11. ASSUME NEW t \in Threads, ClearWipe(t) PROVE AddsAreAlive'
    BY <1>11 DEF ClearWipe
<1>12. ASSUME NEW t \in Threads, NEW p \in Ptrs, Delete(t, p) PROVE AddsAreAlive'
    BY <1>12 DEF Delete
<1>13. ASSUME NEW t \in Threads, NEW h \in Handles, FreeGeneratedPool(t, h)
      PROVE  AddsAreAlive'
    BY <1>13 DEF FreeGeneratedPool, Weakened
<1>14. CASE UNCHANGED vars
    BY <1>14 DEF vars
<1> QED BY <1>1, <1>2, <1>3, <1>4, <1>5, <1>6, <1>7, <1>8, <1>9, <1>10, <1>11, <1>12,
           <1>13, <1>14 DEF Next, Step

(* No step leaves an entry behind whose wrapper is gone. *)
LEMMA EntriesStep ==
    TypeOK /\ AddsAreAlive /\ EntriesAreAlive /\ [Next]_vars => EntriesAreAlive'
<1> SUFFICES ASSUME TypeOK, AddsAreAlive, EntriesAreAlive, [Next]_vars
             PROVE  EntriesAreAlive'
    OBVIOUS
<1> USE ObjCacheAssumption DEF TypeOK, PCs, mutexes, AddsAreAlive, EntriesAreAlive
<1>1. ASSUME NEW t \in Threads, NEW p \in Ptrs, WrapHit(t, p)
      PROVE  EntriesAreAlive'
    BY <1>1 DEF WrapHit, vars
<1>2. ASSUME NEW t \in Threads, NEW p \in Ptrs, NEW h \in Handles, WrapMiss(t, p, h)
      PROVE  EntriesAreAlive'
    BY <1>2 DEF WrapMiss
<1>3. ASSUME NEW t \in Threads, AddStore(t) PROVE EntriesAreAlive'
    BY <1>3 DEF AddStore
<1>4. ASSUME NEW t \in Threads, AddPush(t) PROVE EntriesAreAlive'
    BY <1>4 DEF AddPush
<1>5. ASSUME NEW t \in Threads, AddEvict(t) PROVE EntriesAreAlive'
    BY <1>5 DEF AddEvict
<1>6. ASSUME NEW t \in Threads, AddReturn(t) PROVE EntriesAreAlive'
    BY <1>6 DEF AddReturn
<1>7. ASSUME NEW t \in Threads, NEW h \in Handles, FreeWrapper(t, h)
      PROVE  EntriesAreAlive'
    BY <1>7 DEF FreeWrapper
<1>8. ASSUME NEW t \in Threads, NEW capacity \in Capacities, SetCapacity(t, capacity)
      PROVE  EntriesAreAlive'
    BY <1>8 DEF SetCapacity
<1>9. ASSUME NEW t \in Threads, ClearBegin(t) PROVE EntriesAreAlive'
    BY <1>9 DEF ClearBegin
<1>10. ASSUME NEW t \in Threads, ClearLock(t) PROVE EntriesAreAlive'
    BY <1>10 DEF ClearLock
<1>11. ASSUME NEW t \in Threads, ClearWipe(t) PROVE EntriesAreAlive'
    BY <1>11 DEF ClearWipe
<1>12. ASSUME NEW t \in Threads, NEW p \in Ptrs, Delete(t, p) PROVE EntriesAreAlive'
    BY <1>12 DEF Delete
<1>13. ASSUME NEW t \in Threads, NEW h \in Handles, FreeGeneratedPool(t, h)
      PROVE  EntriesAreAlive'
    BY <1>13 DEF FreeGeneratedPool, Weakened
<1>14. CASE UNCHANGED vars
    BY <1>14 DEF vars
<1> QED BY <1>1, <1>2, <1>3, <1>4, <1>5, <1>6, <1>7, <1>8, <1>9, <1>10, <1>11, <1>12,
           <1>13, <1>14 DEF Next, Step

(* The stripes stay taken in turn: whoever holds one holds those before it. *)
LEMMA StripesStep == TypeOK /\ StripesAreTakenInTurn /\ [Next]_vars => StripesAreTakenInTurn'
<1> SUFFICES ASSUME TypeOK, StripesAreTakenInTurn, [Next]_vars PROVE StripesAreTakenInTurn'
    OBVIOUS
<1> USE ObjCacheAssumption DEF TypeOK, PCs, mutexes, StripesAreTakenInTurn, Stripes
<1>1. ASSUME NEW t \in Threads, NEW p \in Ptrs, WrapHit(t, p) PROVE StripesAreTakenInTurn'
    BY <1>1 DEF WrapHit, vars
<1>2. ASSUME NEW t \in Threads, NEW p \in Ptrs, NEW h \in Handles, WrapMiss(t, p, h)
      PROVE  StripesAreTakenInTurn'
    BY <1>2 DEF WrapMiss
<1>3. ASSUME NEW t \in Threads, AddStore(t) PROVE StripesAreTakenInTurn'
    BY <1>3 DEF AddStore
<1>4. ASSUME NEW t \in Threads, AddPush(t) PROVE StripesAreTakenInTurn'
    BY <1>4 DEF AddPush
<1>5. ASSUME NEW t \in Threads, AddEvict(t) PROVE StripesAreTakenInTurn'
    BY <1>5 DEF AddEvict
<1>6. ASSUME NEW t \in Threads, AddReturn(t) PROVE StripesAreTakenInTurn'
    BY <1>6 DEF AddReturn
<1>7. ASSUME NEW t \in Threads, NEW h \in Handles, FreeWrapper(t, h)
      PROVE  StripesAreTakenInTurn'
    BY <1>7 DEF FreeWrapper
<1>8. ASSUME NEW t \in Threads, NEW capacity \in Capacities, SetCapacity(t, capacity)
      PROVE  StripesAreTakenInTurn'
    BY <1>8 DEF SetCapacity
<1>9. ASSUME NEW t \in Threads, ClearBegin(t) PROVE StripesAreTakenInTurn'
    BY <1>9 DEF ClearBegin
<1>10. ASSUME NEW t \in Threads, ClearLock(t) PROVE StripesAreTakenInTurn'
    BY <1>10 DEF ClearLock, Held
<1>11. ASSUME NEW t \in Threads, ClearWipe(t) PROVE StripesAreTakenInTurn'
    BY <1>11 DEF ClearWipe
<1>12. ASSUME NEW t \in Threads, NEW p \in Ptrs, Delete(t, p) PROVE StripesAreTakenInTurn'
    BY <1>12 DEF Delete
<1>13. ASSUME NEW t \in Threads, NEW h \in Handles, FreeGeneratedPool(t, h)
      PROVE  StripesAreTakenInTurn'
    BY <1>13 DEF FreeGeneratedPool, Weakened
<1>14. CASE UNCHANGED vars
    BY <1>14 DEF vars
<1> QED BY <1>1, <1>2, <1>3, <1>4, <1>5, <1>6, <1>7, <1>8, <1>9, <1>10, <1>11, <1>12,
           <1>13, <1>14 DEF Next, Step

(* What a queue of keys holds after a key joins it, and after the oldest    *)
(* key leaves it.                                                          *)
LEMMA RangeAppend ==
    ASSUME NEW S, NEW q \in Seq(S), NEW x \in S
    PROVE  \A y \in Range(q) \cup {x} : y \in Range(Append(q, x))
<1>1. ASSUME NEW i \in DOMAIN q PROVE q[i] \in Range(Append(q, x))
    <2>1. i \in DOMAIN Append(q, x) /\ Append(q, x)[i] = q[i]
        BY <1>1
    <2> QED BY <2>1 DEF Range
<1>2. x \in Range(Append(q, x))
    <2>1. Len(q) + 1 \in DOMAIN Append(q, x) /\ Append(q, x)[Len(q) + 1] = x
        OBVIOUS
    <2> QED BY <2>1 DEF Range
<1> QED BY <1>1, <1>2 DEF Range

LEMMA RangeTail ==
    ASSUME NEW S, NEW q \in Seq(S), Len(q) > 0, NEW y \in Range(q), y # Head(q)
    PROVE  y \in Range(Tail(q))
<1>1. PICK i \in DOMAIN q : q[i] = y
    BY DEF Range
<1>2. i \in 1 .. Len(q) /\ i # 1
    BY <1>1
<1>3. i - 1 \in DOMAIN Tail(q) /\ Tail(q)[i - 1] = y
    BY <1>1, <1>2
<1> QED BY <1>3 DEF Range

(* Every entry keeps its key in the queue, or is about to put it there. *)
LEMMA ListedStep ==
    TypeOK /\ AddsAreAlive /\ CachedKeysAreListed /\ [Next]_vars => CachedKeysAreListed'
<1> SUFFICES ASSUME TypeOK, AddsAreAlive, CachedKeysAreListed, [Next]_vars
             PROVE  CachedKeysAreListed'
    OBVIOUS
<1> USE ObjCacheAssumption DEF TypeOK, PCs, mutexes, CachedKeysAreListed
<1>1. ASSUME NEW t \in Threads, NEW p \in Ptrs, WrapHit(t, p)
      PROVE  CachedKeysAreListed'
    BY <1>1 DEF WrapHit, vars
<1>2. ASSUME NEW t \in Threads, NEW p \in Ptrs, NEW h \in Handles, WrapMiss(t, p, h)
      PROVE  CachedKeysAreListed'
    BY <1>2 DEF WrapMiss
<1>3. ASSUME NEW t \in Threads, AddStore(t) PROVE CachedKeysAreListed'
    BY <1>3 DEF AddStore
<1>4. ASSUME NEW t \in Threads, AddPush(t) PROVE CachedKeysAreListed'
    <2>1. SUFFICES ASSUME NEW u \in Threads, NEW p \in Ptrs, obj_cache'[u][p] # None
                  PROVE  \/ p \in Range(obj_lru'[u])
                         \/ pc'[u] = "push" /\ p = wraps'[u][arg'[u]]
        OBVIOUS
    <2>2. CASE u # t
        BY <1>4, <2>1, <2>2 DEF AddPush
    <2>3. CASE u = t
        <3>1. wraps[t][arg[t]] \in Ptrs
            BY <1>4 DEF AddPush, AddsAreAlive
        <3>2. p \in Range(obj_lru[t]) \cup {wraps[t][arg[t]]}
            BY <1>4, <2>1, <2>3 DEF AddPush
        <3>3. obj_lru'[t] = Append(obj_lru[t], wraps[t][arg[t]])
            BY <1>4 DEF AddPush
        <3> QED BY <2>3, <3>1, <3>2, <3>3, RangeAppend
    <2> QED BY <2>2, <2>3
<1>5. ASSUME NEW t \in Threads, AddEvict(t) PROVE CachedKeysAreListed'
    <2>1. SUFFICES ASSUME NEW u \in Threads, NEW p \in Ptrs, obj_cache'[u][p] # None
                  PROVE  \/ p \in Range(obj_lru'[u])
                         \/ pc'[u] = "push" /\ p = wraps'[u][arg'[u]]
        OBVIOUS
    <2>2. CASE u # t
        BY <1>5, <2>1, <2>2 DEF AddEvict
    <2>3. CASE u = t
        <3>1. obj_lru[t] \in Seq(Ptrs) /\ Len(obj_lru[t]) > 0 /\ Head(obj_lru[t]) \in Ptrs
            BY <1>5 DEF AddEvict
        <3>2. p # Head(obj_lru[t])
            BY <1>5, <2>1, <2>3, <3>1 DEF AddEvict
        <3>3. p \in Range(obj_lru[t])
            BY <1>5, <2>1, <2>3, <3>2 DEF AddEvict
        <3>4. obj_lru'[t] = Tail(obj_lru[t])
            BY <1>5 DEF AddEvict
        <3> QED BY <2>3, <3>1, <3>2, <3>3, <3>4, RangeTail
    <2> QED BY <2>2, <2>3
<1>6. ASSUME NEW t \in Threads, AddReturn(t) PROVE CachedKeysAreListed'
    BY <1>6 DEF AddReturn
<1>7. ASSUME NEW t \in Threads, NEW h \in Handles, FreeWrapper(t, h)
      PROVE  CachedKeysAreListed'
    BY <1>7 DEF FreeWrapper
<1>8. ASSUME NEW t \in Threads, NEW capacity \in Capacities, SetCapacity(t, capacity)
      PROVE  CachedKeysAreListed'
    BY <1>8 DEF SetCapacity
<1>9. ASSUME NEW t \in Threads, ClearBegin(t) PROVE CachedKeysAreListed'
    BY <1>9 DEF ClearBegin
<1>10. ASSUME NEW t \in Threads, ClearLock(t) PROVE CachedKeysAreListed'
    BY <1>10 DEF ClearLock
<1>11. ASSUME NEW t \in Threads, ClearWipe(t) PROVE CachedKeysAreListed'
    BY <1>11 DEF ClearWipe
<1>12. ASSUME NEW t \in Threads, NEW p \in Ptrs, Delete(t, p) PROVE CachedKeysAreListed'
    BY <1>12 DEF Delete
<1>13. ASSUME NEW t \in Threads, NEW h \in Handles, FreeGeneratedPool(t, h)
      PROVE  CachedKeysAreListed'
    BY <1>13 DEF FreeGeneratedPool, Weakened
<1>14. CASE UNCHANGED vars
    BY <1>14 DEF vars
<1> QED BY <1>1, <1>2, <1>3, <1>4, <1>5, <1>6, <1>7, <1>8, <1>9, <1>10, <1>11, <1>12,
           <1>13, <1>14 DEF Next, Step

(* The initial state satisfies the inductive invariant. *)
LEMMA InitIInv == Init => IInv
<1> SUFFICES ASSUME Init PROVE IInv
    OBVIOUS
<1> USE ObjCacheAssumption DEF Init
<1>1. TypeOK
    <2>1. max_cache_capacity \in [Threads -> Nat]
        OBVIOUS
    <2>2. obj_lru \in [Threads -> Seq(Ptrs)]
        OBVIOUS
    <2> QED BY <2>1, <2>2 DEF TypeOK, PCs
<1>2. LocksAreReleased
    BY DEF LocksAreReleased
<1>3. AddsAreAlive /\ StripesAreTakenInTurn
    BY DEF AddsAreAlive, StripesAreTakenInTurn
<1>4. EntriesAreAlive /\ CachedKeysAreListed
    BY DEF EntriesAreAlive, CachedKeysAreListed
<1> QED BY <1>1, <1>2, <1>3, <1>4 DEF IInv

(* IInv is an invariant: the conjuncts above are inductive together. *)
THEOREM Invariance == Spec => []IInv
<1>1. IInv /\ [Next]_vars => IInv'
    BY TypeStep, LocksStep, AddsStep, EntriesStep, ListedStep, StripesStep DEF IInv
<1> QED BY InitIInv, <1>1, PTL DEF Spec

(* The variables of the cache keep their types (xs/protobuf/obj_cache.c).   *)
THEOREM TypeCorrect == Spec => []TypeOK
<1>1. IInv => TypeOK
    BY DEF IInv
<1> QED BY Invariance, <1>1, PTL

(* No operation of the cache ends with a mutex in its hands, on any path. *)
THEOREM MutexesAreReleased == Spec => []LocksAreReleased
<1>1. IInv => LocksAreReleased
    BY DEF IInv
<1> QED BY Invariance, <1>1, PTL

(* Every entry of the cache is a live wrapper of its pointer; only the      *)
(* generated pool, whose wrappers have no cleanup, leaves a dead one.      *)
THEOREM EntriesStayAlive == Spec => []EntriesAreAlive
<1>1. IInv => EntriesAreAlive
    BY DEF IInv
<1> QED BY Invariance, <1>1, PTL

(* Every entry of the cache can be evicted: its key is in the queue. *)
THEOREM EntriesStayListed == Spec => []CachedKeysAreListed
<1>1. IInv => CachedKeysAreListed
    BY DEF IInv
<1> QED BY Invariance, <1>1, PTL

(* Whoever waits for a thread that waits for it is caught between the two   *)
(* operations that take their mutexes in opposite orders: clear_cache,     *)
(* with all stripes in its hands, and an eviction, with the queue.  For    *)
(* without a thread that holds all stripes, whoever holds a stripe holds   *)
(* stripe 0, so there is one such thread, and it finds its next one free.  *)
THEOREM DeadlockNeedsClear == Spec => []OnlyClearMeetsEviction
<1>1. ASSUME IInv PROVE OnlyClearMeetsEviction
    <2> SUFFICES ASSUME NEW group \in (SUBSET Threads) \ {{}},
                        \A t \in group : WaitsFor(t) \cap group # {}
                 PROVE  \E t, u \in group :
                            /\ pc[t] = "clear" /\ Held(t) = Stripes
                            /\ pc[u] = "evict" /\ lru_mutex = u
        BY DEF OnlyClearMeetsEviction
    <2> USE ObjCacheAssumption, <1>1 DEF IInv, TypeOK, PCs
    <2>1. ASSUME NEW t \in group, pc[t] = "clear", Held(t) = Stripes
          PROVE  lru_mutex \in group /\ pc[lru_mutex] = "evict"
        <3>1. WaitsFor(t) = {lru_mutex} \ {None}
            BY <2>1 DEF WaitsFor
        <3>2. lru_mutex \in group
            BY <3>1
        <3> QED BY <3>2 DEF LocksAreReleased
    <2>2. ASSUME NEW t \in group, pc[t] = "push"
          PROVE  lru_mutex \in group /\ pc[lru_mutex] = "evict"
        <3>1. WaitsFor(t) = {lru_mutex} \ {None}
            BY <2>2 DEF WaitsFor
        <3>2. lru_mutex \in group
            BY <3>1
        <3> QED BY <3>2 DEF LocksAreReleased
    <2>3. ASSUME NEW t \in group, pc[t] = "evict"
          PROVE  \E u \in group : pc[u] = "clear"
        <3>1. Len(obj_lru[t]) > max_cache_capacity[t]
            BY <2>3 DEF WaitsFor
        <3>2. get_stripe[Head(obj_lru[t])] \in Stripes
            <4>1. obj_lru[t] \in Seq(Ptrs) /\ max_cache_capacity[t] \in Nat
                OBVIOUS
            <4>2. Len(obj_lru[t]) > 0
                BY <3>1, <4>1
            <4>3. Head(obj_lru[t]) \in Ptrs
                BY <4>1, <4>2
            <4> QED BY <4>3 DEF Stripes
        <3>3. cache_mutexes[get_stripe[Head(obj_lru[t])]] \in group
            <4>1. WaitsFor(t) = {cache_mutexes[get_stripe[Head(obj_lru[t])]]} \ {None}
                BY <2>3, <3>1 DEF WaitsFor
            <4>2. PICK u : u \in WaitsFor(t) \cap group
                OBVIOUS
            <4> QED BY <4>1, <4>2, Zenon
        <3> QED BY <3>2, <3>3 DEF LocksAreReleased
    <2>4. ASSUME NEW t \in group, pc[t] = "clear", Held(t) # Stripes
          PROVE  \E s \in Stripes : Held(t) = 0 .. s - 1 /\ cache_mutexes[s] \in group
        <3>1. WaitsFor(t) = NextStripeHolder(t) \ {None}
            BY <2>4 DEF WaitsFor
        <3> QED BY <3>1 DEF NextStripeHolder
    <2>5. \E t \in group : pc[t] = "clear"
        <3>1. PICK t \in group : TRUE
            OBVIOUS
        <3>2. pc[t] \in {"push", "evict", "clear"}
            BY DEF WaitsFor
        <3> QED BY <2>2, <2>3, <3>1, <3>2
    <2>6. CASE \E t \in group : pc[t] = "clear" /\ Held(t) = Stripes
        BY <2>1, <2>6
    <2>7. CASE \A t \in group : pc[t] = "clear" => Held(t) # Stripes
        <3>1. PICK t \in group : pc[t] = "clear"
            BY <2>5
        <3>2. PICK s \in Stripes : Held(t) = 0 .. s - 1 /\ cache_mutexes[s] \in group
            BY <2>4, <2>7, <3>1
        <3> DEFINE w == cache_mutexes[s]
        <3>3. w \in group /\ pc[w] = "clear" /\ 0 \in Held(w)
            <4>1. w \in group /\ w # None
                BY <3>2
            <4>2. pc[w] = "clear"
                BY <4>1 DEF LocksAreReleased
            <4>3. 0 \in Stripes /\ s \in Nat
                BY DEF Stripes
            <4>4. cache_mutexes[0] = w
                <5>1. CASE s = 0
                    BY <5>1
                <5>2. CASE s # 0
                    BY <4>1, <4>3, <5>2 DEF StripesAreTakenInTurn
                <5> QED BY <5>1, <5>2
            <4> QED BY <4>1, <4>2, <4>3, <4>4 DEF Held
        <3>4. PICK r \in Stripes : Held(w) = 0 .. r - 1 /\ cache_mutexes[r] \in group
            BY <2>4, <2>7, <3>3
        <3>5. r # 0 /\ cache_mutexes[0] = w
            <4>1. cache_mutexes[0] = w
                BY <3>3 DEF Held
            <4>2. 0 \in 0 .. r - 1
                BY <3>3, <3>4
            <4> QED BY <4>1, <4>2
        <3>6. cache_mutexes[r] = w
            <4>1. cache_mutexes[r] # None /\ r \in Nat
                BY <3>4 DEF Stripes
            <4>2. 0 \in 0 .. r - 1
                BY <3>5, <4>1
            <4>3. cache_mutexes[0] = cache_mutexes[r]
                BY <4>1, <4>2 DEF StripesAreTakenInTurn
            <4> QED BY <3>5, <4>3
        <3>7. r \in Held(w)
            BY <3>6 DEF Held
        <3> QED BY <3>4, <3>7 DEF Stripes
    <2> QED BY <2>6, <2>7
<1> QED BY Invariance, <1>1, PTL

-----------------------------------------------------------------------------
(***************************************************************************)
(* Arenas.  First the allocator.  BlockIInv is inductive as it stands:     *)
(* the blocks lie apart with their canaries, so neither a canary that is   *)
(* written nor a payload that is filled reaches into the canaries of       *)
(* another block. Then the arenas, with the invariant ArenaIInv.           *)
(***************************************************************************)

(* The bytes PerlUpb_VerifyCanaries looks at. *)
Canaries(i) == Front(blocks[i].at) \cup Back(blocks[i].at, blocks[i].size)

(* What is taken from the region holds the block and both canaries: the     *)
(* rounding to 16 bytes only adds.                                         *)
LEMMA NeedIsEnough ==
    ASSUME NEW size \in Nat
    PROVE  Need(size) \in Nat /\ size + 2 * CanarySize <= Need(size)
BY SMT DEF Need, CanarySize

(* The new block begins behind the offset with room for its front canary,   *)
(* and ends, back canary included, before the new offset.                  *)
LEMMA NewBlock ==
    ASSUME BlockTypeOK, NEW size \in Sizes, Handed(size)
    PROVE  /\ size \in Nat
           /\ New(size) \in Block
           /\ New(size).at = offset + CanarySize
           /\ New(size).size = size
           /\ New(size).live
           /\ offset' \in Nat
           /\ offset' <= RegionSize
           /\ New(size).at + size + CanarySize <= offset'
<1>1. size \in Nat
  BY BlockAllocAssumption
<1>2. Need(size) \in Nat /\ size + 2 * CanarySize <= Need(size)
  BY <1>1, NeedIsEnough
<1>3. offset \in Nat /\ RegionSize \in Nat
  BY BlockAllocAssumption DEF BlockTypeOK
<1>4. New(size) \in Block /\ New(size).at = offset + CanarySize
        /\ New(size).size = size /\ New(size).live
  BY <1>1, <1>3 DEF New, Block, CanarySize
<1>5. offset' = offset + Need(size) /\ offset + Need(size) <= RegionSize
  BY DEF Handed, Fits
<1> QED
  BY <1>1, <1>2, <1>3, <1>4, <1>5 DEF CanarySize

(* The canaries of a block are bytes of the region.                        *)
LEMMA CanariesInside ==
    ASSUME BlockTypeOK, BlocksApart, NEW i \in DOMAIN blocks
    PROVE  /\ blocks[i].at \in Nat
           /\ blocks[i].size \in Nat
           /\ Canaries(i) \subseteq Bytes
           /\ \A a \in Canaries(i) : a < offset
<1>1. blocks[i] \in Block
  BY DEF BlockTypeOK
<1>2. blocks[i].at \in Nat /\ blocks[i].size \in Nat
  BY <1>1 DEF Block
<1>3. /\ offset \in Nat /\ RegionSize \in Nat
      /\ offset <= RegionSize
      /\ blocks[i].at >= CanarySize
      /\ blocks[i].at + blocks[i].size + CanarySize <= offset
  BY BlockAllocAssumption DEF BlockTypeOK, BlocksApart
<1> QED
  BY <1>2, <1>3 DEF Canaries, Front, Back, Bytes, CanarySize

(* No byte of a block or of its canaries is in the canaries of another.    *)
LEMMA CanariesApart ==
    ASSUME BlockTypeOK, BlocksApart,
           NEW i \in DOMAIN blocks, NEW j \in DOMAIN blocks, i # j
    PROVE  /\ Canaries(i) \cap Canaries(j) = {}
           /\ Payload(blocks[i].at, blocks[i].size) \cap Canaries(j) = {}
<1>1. /\ blocks[i].at \in Nat /\ blocks[i].size \in Nat
      /\ blocks[j].at \in Nat /\ blocks[j].size \in Nat
  BY CanariesInside
<1>2. i \in Nat /\ j \in Nat
  BY DEF BlockTypeOK
<1>3. \/ blocks[i].at + blocks[i].size + 2 * CanarySize <= blocks[j].at
      \/ blocks[j].at + blocks[j].size + 2 * CanarySize <= blocks[i].at
  BY <1>2 DEF BlocksApart
<1> QED
  BY <1>1, <1>3 DEF Canaries, Front, Back, Payload, CanarySize

(* Filling a block does not touch its own canaries either.                 *)
LEMMA PayloadApart ==
    ASSUME BlockTypeOK, BlocksApart, NEW i \in DOMAIN blocks
    PROVE  Payload(blocks[i].at, blocks[i].size) \cap Canaries(i) = {}
BY CanariesInside DEF Canaries, Front, Back, Payload, CanarySize

(* Intact is about the canaries and nothing else.                          *)
LEMMA IntactIsCanaries ==
    ASSUME BlockTypeOK, BlocksApart, NEW i \in DOMAIN blocks
    PROVE  Intact(blocks[i].at, blocks[i].size) <=> \A a \in Canaries(i) : mem[a] = "pattern"
BY CanariesInside DEF Intact, Canaries

(* Blocks handed out one behind the other stay apart when one more is added *)
(* at the offset, whether or not another is marked as given up.            *)
LEMMA AddedBehind ==
    ASSUME BlockTypeOK, BlocksApart, NEW size \in Sizes, Handed(size),
           NEW old \in Seq(Block), DOMAIN old = DOMAIN blocks,
           \A i \in DOMAIN blocks : old[i].at = blocks[i].at /\ old[i].size = blocks[i].size,
           blocks' = Append(old, New(size))
    PROVE  /\ blocks' \in Seq(Block)
           /\ DOMAIN blocks' = DOMAIN blocks \cup {Len(blocks) + 1}
           /\ \A i \in DOMAIN blocks : blocks'[i] = old[i] /\ i # Len(blocks) + 1
           /\ blocks'[Len(blocks) + 1] = New(size)
           /\ BlocksApart'
<1>1. /\ size \in Nat /\ New(size) \in Block
      /\ New(size).at = offset + CanarySize /\ New(size).size = size
      /\ offset' \in Nat /\ offset' <= RegionSize
      /\ New(size).at + size + CanarySize <= offset'
  BY NewBlock
<1>2. blocks' \in Seq(Block)
  BY <1>1
<1>3. Len(old) = Len(blocks) /\ Len(blocks) \in Nat /\ DOMAIN blocks = 1 .. Len(blocks)
  BY DEF BlockTypeOK
<1>4. DOMAIN blocks' = DOMAIN blocks \cup {Len(blocks) + 1}
  BY <1>1, <1>3
<1>5. \A i \in DOMAIN blocks : blocks'[i] = old[i] /\ i # Len(blocks) + 1
  BY <1>1, <1>3
<1>6. blocks'[Len(blocks) + 1] = New(size)
  BY <1>1, <1>3
<1>7. \A i \in DOMAIN blocks :
        /\ blocks[i].at \in Nat /\ blocks[i].size \in Nat
        /\ blocks'[i].at = blocks[i].at /\ blocks'[i].size = blocks[i].size
        /\ blocks[i].at >= CanarySize
        /\ blocks[i].at + blocks[i].size + CanarySize <= offset
  BY <1>5, CanariesInside DEF BlocksApart
<1>8. offset \in Nat /\ offset <= offset'
  BY <1>1 DEF BlockTypeOK, CanarySize
<1>9. \A i \in DOMAIN blocks' :
        /\ blocks'[i].at >= CanarySize
        /\ blocks'[i].at + blocks'[i].size + CanarySize <= offset'
  <2> SUFFICES ASSUME NEW i \in DOMAIN blocks'
               PROVE  /\ blocks'[i].at >= CanarySize
                      /\ blocks'[i].at + blocks'[i].size + CanarySize <= offset'
    OBVIOUS
  <2>1. CASE i \in DOMAIN blocks
    <3>1. offset' \in Nat
      BY <1>1
    <3> QED BY <2>1, <1>7, <1>8, <3>1 DEF CanarySize
  <2>2. CASE i = Len(blocks) + 1
    BY <2>2, <1>1, <1>6, <1>8 DEF CanarySize
  <2> QED
    BY <2>1, <2>2, <1>4
<1>10. \A i, j \in DOMAIN blocks' :
         i < j => blocks'[i].at + blocks'[i].size + 2 * CanarySize <= blocks'[j].at
  <2> SUFFICES ASSUME NEW i \in DOMAIN blocks', NEW j \in DOMAIN blocks', i < j
               PROVE  blocks'[i].at + blocks'[i].size + 2 * CanarySize <= blocks'[j].at
    OBVIOUS
  <2>1. i \in DOMAIN blocks
    BY <1>3, <1>4
  <2>2. CASE j \in DOMAIN blocks
    BY <2>1, <2>2, <1>7 DEF BlocksApart
  <2>3. CASE j = Len(blocks) + 1
    BY <2>1, <2>3, <1>1, <1>6, <1>7, <1>8 DEF CanarySize
  <2> QED
    BY <2>2, <2>3, <1>4
<1> QED
  BY <1>1, <1>2, <1>4, <1>5, <1>6, <1>9, <1>10 DEF BlocksApart

-----------------------------------------------------------------------------
(* A new block has intact canaries, leaves those of the others alone, and   *)
(* keeps the damage of the others: its canaries are behind all of theirs.   *)
LEMMA HandedKeeps ==
    ASSUME BlockIInv, NEW size \in Sizes, Handed(size),
           NEW old \in Seq(Block), DOMAIN old = DOMAIN blocks,
           \A i \in DOMAIN blocks : old[i].at = blocks[i].at /\ old[i].size = blocks[i].size,
           \A i \in overrun : old[i].live,
           blocks' = Append(old, New(size)),
           UNCHANGED <<poisoned, overrun>>
    PROVE  BlockIInv'
<1> USE DEF BlockIInv
<1>1. /\ blocks' \in Seq(Block)
      /\ DOMAIN blocks' = DOMAIN blocks \cup {Len(blocks) + 1}
      /\ \A i \in DOMAIN blocks : blocks'[i] = old[i] /\ i # Len(blocks) + 1
      /\ blocks'[Len(blocks) + 1] = New(size)
      /\ BlocksApart'
  BY AddedBehind
<1>2. mem' = WriteCanaries(offset + CanarySize, size)
  BY DEF Handed
<1>3. /\ size \in Nat /\ offset \in Nat /\ offset' \in Nat
      /\ New(size).at = offset + CanarySize /\ New(size).size = size
  BY NewBlock DEF BlockTypeOK
<1>4. BlockTypeOK'
  <2>1. mem' \in [Bytes -> {"pattern", "data"}]
    BY <1>2 DEF WriteCanaries, BlockTypeOK
  <2>2. overrun' \subseteq DOMAIN blocks'
    BY <1>1 DEF BlockTypeOK
  <2> QED
    BY <1>1, <1>3, <2>1, <2>2 DEF BlockTypeOK
<1>5. \A i \in DOMAIN blocks : Canaries(i)' = Canaries(i)
  BY <1>1 DEF Canaries
<1>6. \A i \in DOMAIN blocks : \A a \in Canaries(i) : mem'[a] = mem[a]
  <2> SUFFICES ASSUME NEW i \in DOMAIN blocks, NEW a \in Canaries(i)
               PROVE  mem'[a] = mem[a]
    OBVIOUS
  <2>1. a \in Bytes /\ a \in Int /\ a < offset
    BY CanariesInside, BlockAllocAssumption DEF Bytes
  <2>2. a \notin Front(offset + CanarySize) \cup Back(offset + CanarySize, size)
    BY <2>1, <1>3 DEF Front, Back, CanarySize
  <2> QED
    BY <2>1, <2>2, <1>2 DEF WriteCanaries
<1>7. \A i \in DOMAIN blocks :
         Intact(blocks[i].at, blocks[i].size)' <=> Intact(blocks[i].at, blocks[i].size)
  <2> SUFFICES ASSUME NEW i \in DOMAIN blocks
               PROVE  Intact(blocks[i].at, blocks[i].size)' <=> Intact(blocks[i].at, blocks[i].size)
    OBVIOUS
  <2>1. blocks'[i].at = blocks[i].at /\ blocks'[i].size = blocks[i].size
    BY <1>1
  <2> QED
    BY <2>1, <1>6 DEF Intact, Canaries
<1>8. \A n : n = Len(blocks) + 1 => Intact(blocks[n].at, blocks[n].size)'
  BY <1>1, <1>2, <1>3 DEF Intact, WriteCanaries
<1>9. CanariesStand'
  BY <1>1, <1>7, <1>8 DEF CanariesStand
<1>10. CorruptionIsFound'
  <2>1. NoFalseAlarm'
    BY DEF CorruptionIsFound, NoFalseAlarm
  <2>2. \A i \in overrun : i \in DOMAIN blocks /\ blocks'[i].live
    BY <1>1 DEF BlockTypeOK
  <2>3. OverrunsAreCaught'
    BY <2>2, <1>7 DEF CorruptionIsFound, OverrunsAreCaught
  <2> QED
    BY <2>1, <2>3 DEF CorruptionIsFound
<1> QED
  BY <1>1, <1>4, <1>9, <1>10

LEMMA BlockAllocKeeps ==
    ASSUME BlockIInv, NEW size \in Sizes, BlockAlloc(size)
    PROVE  BlockIInv'
<1>1. blocks \in Seq(Block) /\ \A i \in overrun : blocks[i].live
  BY DEF BlockIInv, BlockTypeOK, CorruptionIsFound, OverrunsAreCaught
<1> QED
  BY <1>1, HandedKeeps DEF BlockAlloc

(* The block that is given up is not damaged: it was verified.             *)
LEMMA GivenUp ==
    ASSUME BlockIInv, NEW i \in DOMAIN blocks, Intact(blocks[i].at, blocks[i].size),
           NEW old, old = [blocks EXCEPT ![i].live = FALSE]
    PROVE  /\ old \in Seq(Block)
           /\ DOMAIN old = DOMAIN blocks
           /\ \A j \in DOMAIN blocks : old[j].at = blocks[j].at /\ old[j].size = blocks[j].size
           /\ i \notin overrun
           /\ \A j \in overrun : old[j].live
<1> USE DEF BlockIInv
<1>1. blocks \in Seq(Block) /\ overrun \subseteq DOMAIN blocks
  BY DEF BlockTypeOK
<1>2. blocks[i] \in Block /\ [blocks[i] EXCEPT !.live = FALSE] \in Block
  <2>1. blocks[i] \in Block
    BY <1>1
  <2> QED
    BY <2>1, Zenon DEF Block
<1>3. i \notin overrun
  BY DEF CorruptionIsFound, OverrunsAreCaught
<1>4. \A j \in DOMAIN blocks : blocks[j] \in Block
  BY <1>1
<1>5. DOMAIN old = DOMAIN blocks
  OBVIOUS
<1>6. \A j \in DOMAIN blocks : old[j] = IF j = i THEN [blocks[i] EXCEPT !.live = FALSE] ELSE blocks[j]
  OBVIOUS
<1>7. old \in Seq(Block)
  BY <1>1, <1>2, <1>4, <1>5, <1>6
<1>8. \A j \in DOMAIN blocks : old[j].at = blocks[j].at /\ old[j].size = blocks[j].size
  BY <1>4, <1>6 DEF Block
<1>9. \A j \in overrun : old[j].live
  BY <1>1, <1>3, <1>6 DEF CorruptionIsFound, OverrunsAreCaught
<1> QED
  BY <1>3, <1>5, <1>7, <1>8, <1>9

LEMMA BlockReallocKeeps ==
    ASSUME BlockIInv, NEW i \in DOMAIN blocks, NEW size \in Sizes, BlockRealloc(i, size)
    PROVE  BlockIInv'
BY GivenUp, HandedKeeps DEF BlockRealloc

LEMMA BlockFreeKeeps ==
    ASSUME BlockIInv, NEW i \in DOMAIN blocks, BlockFree(i)
    PROVE  BlockIInv'
<1>1. /\ blocks' \in Seq(Block)
      /\ DOMAIN blocks' = DOMAIN blocks
      /\ \A j \in DOMAIN blocks : blocks'[j].at = blocks[j].at /\ blocks'[j].size = blocks[j].size
      /\ \A j \in overrun : blocks'[j].live
  BY GivenUp DEF BlockFree
<1>2. UNCHANGED <<offset, poisoned, mem, overrun>>
  BY DEF BlockFree
<1>3. BlockTypeOK'
  BY <1>1, <1>2 DEF BlockIInv, BlockTypeOK
<1>4. BlocksApart'
  BY <1>1, <1>2 DEF BlockIInv, BlocksApart
<1>5. \A j \in DOMAIN blocks :
         Intact(blocks[j].at, blocks[j].size)' <=> Intact(blocks[j].at, blocks[j].size)
  BY <1>1, <1>2 DEF Intact
<1>6. CanariesStand'
  BY <1>1, <1>2, <1>5 DEF BlockIInv, CanariesStand
<1>7. CorruptionIsFound'
  BY <1>1, <1>2, <1>5 DEF BlockIInv, BlockTypeOK, CorruptionIsFound, NoFalseAlarm, OverrunsAreCaught
<1> QED
  BY <1>3, <1>4, <1>6, <1>7 DEF BlockIInv

(* A croak has a cause: the canaries of a block nobody wrote beside stand.  *)
LEMMA BlockCroaksKeeps ==
    ASSUME BlockIInv, NEW i \in DOMAIN blocks, BlockCroaks(i)
    PROVE  BlockIInv'
<1>1. i \in overrun
  BY DEF BlockIInv, CanariesStand, BlockCroaks
<1>2. BlockTypeOK' /\ BlocksApart'
  BY DEF BlockIInv, BlockCroaks, BlockTypeOK, BlocksApart
<1>3. CanariesStand' /\ OverrunsAreCaught'
  BY DEF BlockIInv, BlockCroaks, CanariesStand, CorruptionIsFound, OverrunsAreCaught, Intact
<1>4. NoFalseAlarm'
  BY <1>1 DEF BlockCroaks, NoFalseAlarm
<1> QED
  BY <1>2, <1>3, <1>4 DEF BlockIInv, CorruptionIsFound

(* A write that only turns bytes into data keeps damage damage.            *)
LEMMA DamageStays ==
    ASSUME BlockIInv, UNCHANGED blocks,
           \A a \in Bytes : mem'[a] = mem[a] \/ mem'[a] = "data",
           NEW j \in DOMAIN blocks, ~Intact(blocks[j].at, blocks[j].size)
    PROVE  ~Intact(blocks[j].at, blocks[j].size)'
BY DEF Intact

LEMMA FillKeeps ==
    ASSUME BlockIInv, NEW i \in DOMAIN blocks, Fill(i)
    PROVE  BlockIInv'
<1> USE DEF BlockIInv
<1>1. /\ mem' = [a \in Bytes |->
                  IF a \in Payload(blocks[i].at, blocks[i].size) THEN "data" ELSE mem[a]]
      /\ UNCHANGED <<offset, poisoned, blocks, overrun>>
  BY DEF Fill
<1>2. BlockTypeOK' /\ BlocksApart'
  BY <1>1 DEF BlockTypeOK, BlocksApart
<1>3. \A j \in DOMAIN blocks : Payload(blocks[i].at, blocks[i].size) \cap Canaries(j) = {}
  BY CanariesApart, PayloadApart
<1>4. \A j \in DOMAIN blocks :
         Intact(blocks[j].at, blocks[j].size) => Intact(blocks[j].at, blocks[j].size)'
  BY <1>1, <1>3 DEF Intact, Canaries
<1>5. CanariesStand'
  BY <1>1, <1>4 DEF CanariesStand
<1>6. \A a \in Bytes : mem'[a] = mem[a] \/ mem'[a] = "data"
  BY <1>1
<1>7. CorruptionIsFound'
  BY <1>1, <1>6, DamageStays DEF BlockTypeOK, CorruptionIsFound, NoFalseAlarm, OverrunsAreCaught
<1> QED
  BY <1>2, <1>5, <1>7

LEMMA OverrunKeeps ==
    ASSUME BlockIInv, NEW i \in DOMAIN blocks, Overrun(i)
    PROVE  BlockIInv'
<1> USE DEF BlockIInv
<1>1. PICK a \in {blocks[i].at - 1, blocks[i].at + blocks[i].size} :
         mem' = [mem EXCEPT ![a] = "data"]
  BY DEF Overrun
<1>2. blocks[i].live /\ overrun' = overrun \cup {i} /\ UNCHANGED <<offset, poisoned, blocks>>
  BY DEF Overrun
<1>3. a \in Canaries(i) /\ a \in Bytes
  BY CanariesInside DEF Canaries, Front, Back, CanarySize
<1>4. \A b \in Bytes : mem'[b] = IF b = a THEN "data" ELSE mem[b]
  BY <1>1, <1>3 DEF BlockTypeOK
<1>5. BlockTypeOK' /\ BlocksApart'
  BY <1>1, <1>2, <1>3 DEF BlockTypeOK, BlocksApart
<1>6. \A j \in DOMAIN blocks : j # i => a \notin Canaries(j)
  BY <1>3, CanariesApart
<1>7. \A j \in DOMAIN blocks : j # i /\ Intact(blocks[j].at, blocks[j].size)
         => Intact(blocks[j].at, blocks[j].size)'
  BY <1>2, <1>4, <1>6 DEF Intact, Canaries
<1>8. CanariesStand'
  BY <1>2, <1>7 DEF CanariesStand
<1>9. ~Intact(blocks[i].at, blocks[i].size)'
  <2>1. mem'[a] # "pattern"
    BY <1>3, <1>4
  <2> QED
    BY <2>1, <1>2, <1>3 DEF Intact, Canaries
<1>10. \A j \in overrun : j \in DOMAIN blocks /\ blocks[j].live /\ ~Intact(blocks[j].at, blocks[j].size)'
  BY <1>2, <1>4, DamageStays DEF BlockTypeOK, CorruptionIsFound, OverrunsAreCaught
<1>11. CorruptionIsFound'
  BY <1>2, <1>9, <1>10 DEF CorruptionIsFound, NoFalseAlarm, OverrunsAreCaught
<1> QED
  BY <1>5, <1>8, <1>11

-----------------------------------------------------------------------------
LEMMA BlockIInvInitially == BlockInit => BlockIInv
<1> SUFFICES ASSUME BlockInit PROVE BlockIInv
  OBVIOUS
<1>1. BlockTypeOK /\ DOMAIN blocks = {}
  <2>1. blocks \in Seq(Block) /\ DOMAIN blocks = {}
    BY DEF BlockInit
  <2>2. mem \in [Bytes -> {"pattern", "data"}]
    BY DEF BlockInit
  <2>3. offset \in Nat /\ poisoned \in BOOLEAN /\ overrun \subseteq DOMAIN blocks
    BY DEF BlockInit
  <2> QED
    BY <2>1, <2>2, <2>3 DEF BlockTypeOK
<1> QED
  BY <1>1, BlockAllocAssumption DEF BlockInit, BlockIInv, BlocksApart, CanariesStand,
     CorruptionIsFound, NoFalseAlarm, OverrunsAreCaught

(* BlockIInv is inductive: every call of PerlUpb_BlockAlloc_Func and every  *)
(* write of an owner, inside its block or one byte beside it, keeps it.    *)
THEOREM BlockIInvInductive == BlockIInv /\ [BlockNext]_blockVars => BlockIInv'
<1> SUFFICES ASSUME BlockIInv, [BlockNext]_blockVars PROVE BlockIInv'
  OBVIOUS
<1>1. CASE \E size \in Sizes : BlockAlloc(size)
  BY <1>1, BlockAllocKeeps
<1>2. CASE \E i \in DOMAIN blocks, size \in Sizes : BlockRealloc(i, size)
  BY <1>2, BlockReallocKeeps
<1>3. CASE \E i \in DOMAIN blocks : BlockFree(i)
  BY <1>3, BlockFreeKeeps
<1>4. CASE \E i \in DOMAIN blocks : BlockCroaks(i)
  BY <1>4, BlockCroaksKeeps
<1>5. CASE \E i \in DOMAIN blocks : Fill(i)
  BY <1>5, FillKeeps
<1>6. CASE \E i \in DOMAIN blocks : Overrun(i)
  BY <1>6, OverrunKeeps
<1>7. CASE UNCHANGED blockVars
  BY <1>7 DEF blockVars, BlockIInv, BlockTypeOK, BlocksApart, CanariesStand, Intact,
     CorruptionIsFound, NoFalseAlarm, OverrunsAreCaught
<1> QED
  BY <1>1, <1>2, <1>3, <1>4, <1>5, <1>6, <1>7 DEF BlockNext

(* The blocks PerlUpb_BlockAlloc_Func hands out lie in the region and apart *)
(* from each other and from all canaries, for every size asked for.        *)
THEOREM BlocksStayApart == BlockSpec => []BlocksApart
<1>1. BlockIInv => BlocksApart
  BY DEF BlockIInv
<1> QED
  BY <1>1, BlockIInvInitially, BlockIInvInductive, PTL DEF BlockSpec

(* PerlUpb_VerifyCanaries croaks only when somebody wrote beside a block,   *)
(* and no damaged block is moved or freed as if it were sound.             *)
THEOREM CorruptionIsAlwaysFound == BlockSpec => []CorruptionIsFound
<1>1. BlockIInv => CorruptionIsFound
  BY DEF BlockIInv
<1> QED
  BY <1>1, BlockIInvInitially, BlockIInvInductive, PTL DEF BlockSpec

-----------------------------------------------------------------------------
(* The arenas.  OneOwner and ObjectsKeepArena speak of owners; what keeps   *)
(* them true is what an sv is at each moment of its life.                  *)

(* An sv that nothing refers to is gone. *)
DeadIsBlank == \A s \in Svs : ~Alive(s) => svs[s] = NoSv

(* The magic has the sv's pointer as long as there is one. *)
MagicIsPointer ==
    \A s \in Svs : svs[s].magic = (IF svs[s].managed THEN svs[s].ptr ELSE NULL)

(* No two svs have one struct, and none has one that detach() gave away. *)
PointersDiffer ==
    /\ \A s, t \in Svs : svs[s].ptr = svs[t].ptr /\ svs[s].ptr # NULL => s = t
    /\ \A s \in Svs : svs[s].ptr \notin given

(* A struct that lives is some sv's or was given away, and nothing else is. *)
LiveIsOwned ==
    \A r \in Raws :
        raws[r] = "live" <=> r \in given \/ \E s \in Svs : svs[s].ptr = r

(* What lives or was never made has not been freed, the rest at most once. *)
FreedOnce ==
    \A r \in Raws : /\ frees[r] \in {0, 1}
                    /\ raws[r] \in {"none", "live"} => frees[r] = 0

(* A wrapper is in the arena its sv has, or had when it was detached. *)
WrappersAgree ==
    \A o \in Objs :
        \/ objs[o] = NoObj
        \/ /\ objs[o].sv \in Svs
           /\ objs[o].raw \in Raws
           /\ objs[o].raw = svs[objs[o].sv].ptr \/ objs[o].raw \in detached

(* What is lost, or left mapped, was made for an sv without magic, as the    *)
(* struct of every such sv and the tmpfs arena were.                       *)
LeaksWereBare ==
    /\ custom # NULL => custom \in bare
    /\ \A s \in Svs : svs[s].ptr # NULL /\ ~svs[s].managed => svs[s].ptr \in bare
    /\ \A r \in Raws : raws[r] \in {"leaking", "region_left"} => r \in bare

Ownership == /\ DeadIsBlank /\ MagicIsPointer /\ PointersDiffer
             /\ LiveIsOwned /\ FreedOnce /\ WrappersAgree

ArenaIInv == ArenaTypeOK /\ BlockIInv /\ Ownership /\ LeaksWereBare /\ TransientsAccounted

Sv == [ptr : Raws \cup {NULL}, magic : Raws \cup {NULL},
       managed : BOOLEAN, tmpfs : BOOLEAN, held : BOOLEAN]
Obj == [sv : Svs \cup {NULL}, raw : Raws \cup {NULL}]

(* The part of the type invariant that Ownership is about.                 *)
OwnershipTypeOK ==
    /\ svs \in [Svs -> Sv]
    /\ raws \in [Raws -> RawStates]
    /\ objs \in [Objs -> Obj]
    /\ given \subseteq Raws
    /\ detached \subseteq Raws
    /\ frees \in [Raws -> Nat]

EncodersTypeOK ==
    /\ cached_transient_arena \in Transients \cup {NULL}
    /\ transients \subseteq Transients
    /\ in_use \in Seq(Transients)
    /\ abandoned \subseteq Transients

MadeTypeOK == custom \in Raws \cup {NULL} /\ bare \subseteq Raws

(* The parts make up the type invariant: with FreedOnce the counts         *)
(* are in their range.                                                     *)
LEMMA PartsAreTyped ==
    ASSUME FreedOnce, MadeTypeOK
    PROVE  ArenaTypeOK <=> BlockTypeOK /\ OwnershipTypeOK /\ EncodersTypeOK
<1>1. frees \in [Raws -> Nat] <=> frees \in [Raws -> 0 .. 2]
  BY DEF FreedOnce
<1> QED
  BY <1>1 DEF ArenaTypeOK, OwnershipTypeOK, EncodersTypeOK, MadeTypeOK, Sv, Obj

LEMMA OwnershipUnchanged ==
    ASSUME OwnershipTypeOK, Ownership, UNCHANGED ownership
    PROVE  OwnershipTypeOK' /\ Ownership'
BY DEF ownership, OwnershipTypeOK, Ownership, DeadIsBlank, Alive, Holders, MagicIsPointer,
   PointersDiffer, LiveIsOwned, FreedOnce, WrappersAgree

(* A new arena, whose sv the program or the new message o has.             *)
LEMMA MakeKeeps ==
    ASSUME OwnershipTypeOK, Ownership, NEW s \in Svs, NEW r \in Raws, NEW sv \in Sv,
           Make(s, r, sv), sv.ptr = r, sv.magic = (IF sv.managed THEN r ELSE NULL),
           \/ sv.held /\ UNCHANGED objs
           \/ \E o \in Objs : /\ objs[o] = NoObj
                             /\ objs' = [objs EXCEPT ![o] = [sv |-> s, raw |-> r]]
    PROVE  OwnershipTypeOK' /\ Ownership'
<1> USE ArenaAssumption
<1>1. /\ ~Alive(s) /\ raws[r] = "none"
      /\ svs' = [svs EXCEPT ![s] = sv] /\ raws' = [raws EXCEPT ![r] = "live"]
      /\ UNCHANGED <<given, detached, frees>>
  BY DEF Make
<1>2. \A t \in Svs : svs'[t] = IF t = s THEN sv ELSE svs[t]
  BY <1>1 DEF OwnershipTypeOK
<1>3. \A q \in Raws : raws'[q] = IF q = r THEN "live" ELSE raws[q]
  BY <1>1 DEF OwnershipTypeOK
<1>4. svs[s] = NoSv /\ \A o \in Objs : objs[o].sv # s
  BY <1>1 DEF Ownership, DeadIsBlank, Alive, Holders
<1>5. \A o \in Objs : \/ objs'[o] = objs[o]
                      \/ objs[o] = NoObj /\ objs'[o] = [sv |-> s, raw |-> r]
  <2>1. CASE UNCHANGED objs
    BY <2>1
  <2>2. CASE \E o \in Objs : /\ objs[o] = NoObj
                            /\ objs' = [objs EXCEPT ![o] = [sv |-> s, raw |-> r]]
    BY <2>2 DEF OwnershipTypeOK
  <2> QED
    BY <2>1, <2>2
<1>6. sv.held \/ \E o \in Objs : objs'[o].sv = s
  <2>1. ASSUME NEW o \in Objs, objs' = [objs EXCEPT ![o] = [sv |-> s, raw |-> r]]
        PROVE  objs'[o].sv = s
    BY <2>1 DEF OwnershipTypeOK
  <2> QED
    BY <2>1
<1>7. OwnershipTypeOK'
  <2>1. objs' \in [Objs -> Obj]
    BY DEF OwnershipTypeOK, Obj
  <2> QED
    BY <1>1, <2>1 DEF OwnershipTypeOK, RawStates
<1>8. DeadIsBlank'
  BY <1>2, <1>4, <1>5, <1>6 DEF Ownership, DeadIsBlank, Alive, Holders, NoObj
<1>9. MagicIsPointer'
  BY <1>2 DEF Ownership, MagicIsPointer
<1>10. \A t \in Svs : svs[t].ptr # r
  BY <1>1 DEF Ownership, LiveIsOwned
<1>11. PointersDiffer'
  <2>1. r \notin given
    BY <1>1 DEF Ownership, LiveIsOwned
  <2> QED
    BY <1>1, <1>2, <1>10, <2>1 DEF Ownership, PointersDiffer
<1>12. LiveIsOwned'
  <2>1. \A q \in Raws : q # r =>
          ((\E t \in Svs : svs'[t].ptr = q) <=> (\E t \in Svs : svs[t].ptr = q))
    BY <1>2, <1>4 DEF NoSv
  <2> QED
    BY <1>1, <1>2, <1>3, <2>1 DEF Ownership, LiveIsOwned
<1>13. FreedOnce'
  BY <1>1, <1>3 DEF Ownership, FreedOnce
<1>14. WrappersAgree'
  <2> SUFFICES ASSUME NEW o \in Objs, objs'[o] # NoObj
               PROVE  /\ objs'[o].sv \in Svs
                      /\ objs'[o].raw \in Raws
                      /\ objs'[o].raw = svs'[objs'[o].sv].ptr \/ objs'[o].raw \in detached'
    BY DEF WrappersAgree
  <2>1. CASE objs'[o] = objs[o]
    BY <2>1, <1>1, <1>2, <1>4 DEF Ownership, WrappersAgree
  <2>2. CASE objs'[o] = [sv |-> s, raw |-> r]
    BY <2>2, <1>2
  <2> QED
    BY <2>1, <2>2, <1>5
<1> QED
  BY <1>7, <1>8, <1>9, <1>11, <1>12, <1>13, <1>14 DEF Ownership

(* The first wrapper of an arena's memory that is not the first message: a  *)
(* submessage, a container or a message attached to a region.              *)
LEMMA WrapObjectKeeps ==
    ASSUME OwnershipTypeOK, Ownership, NEW o \in Objs, NEW s \in Svs, WrapObject(o, s)
    PROVE  OwnershipTypeOK' /\ Ownership'
<1> USE ArenaAssumption
<1>1. /\ objs[o] = NoObj /\ Alive(s) /\ svs[s].ptr # NULL
      /\ objs' = [objs EXCEPT ![o] = [sv |-> s, raw |-> svs[s].ptr]]
      /\ UNCHANGED <<svs, raws, given, detached, frees>>
  BY DEF WrapObject, ArenaGet
<1>2. svs[s].ptr \in Raws
  BY <1>1 DEF OwnershipTypeOK, Sv
<1>3. \A q \in Objs : objs'[q] = IF q = o THEN [sv |-> s, raw |-> svs[s].ptr] ELSE objs[q]
  BY <1>1 DEF OwnershipTypeOK
<1>4. OwnershipTypeOK'
  BY <1>1, <1>2 DEF OwnershipTypeOK, Obj
<1>5. DeadIsBlank'
  BY <1>1, <1>3 DEF Ownership, DeadIsBlank, Alive, Holders, NoObj
<1>6. MagicIsPointer' /\ PointersDiffer' /\ LiveIsOwned' /\ FreedOnce'
  BY <1>1 DEF Ownership, MagicIsPointer, PointersDiffer, LiveIsOwned, FreedOnce
<1>7. WrappersAgree'
  BY <1>1, <1>2, <1>3 DEF Ownership, WrappersAgree
<1> QED
  BY <1>4, <1>5, <1>6, <1>7 DEF Ownership

(* The pointer goes from the sv to the caller: still one owner, and the     *)
(* wrappers that knew the struct through the sv know a detached one.       *)
LEMMA DetachKeeps ==
    ASSUME OwnershipTypeOK, Ownership, NEW s \in Svs, Detach(s)
    PROVE  OwnershipTypeOK' /\ Ownership'
<1> USE ArenaAssumption
<1>1. /\ svs[s].held /\ svs[s].ptr # NULL
      /\ given' = given \cup {svs[s].ptr} /\ detached' = detached \cup {svs[s].ptr}
      /\ svs' = [svs EXCEPT ![s].ptr = NULL, ![s].magic = NULL]
      /\ UNCHANGED <<raws, objs, frees>>
  BY DEF Detach
<1>2. svs[s] \in Sv /\ svs[s].ptr \in Raws
  BY <1>1 DEF OwnershipTypeOK, Sv
<1>3. /\ \A t \in Svs : t # s => svs'[t] = svs[t]
      /\ svs'[s] = [svs[s] EXCEPT !.ptr = NULL, !.magic = NULL]
  BY <1>1 DEF OwnershipTypeOK
<1>4. /\ svs'[s] \in Sv
      /\ svs'[s].ptr = NULL /\ svs'[s].magic = NULL
      /\ svs'[s].held = svs[s].held /\ svs'[s].managed = svs[s].managed
  BY <1>2, <1>3 DEF Sv
<1>5. OwnershipTypeOK'
  <2>1. svs' \in [Svs -> Sv]
    BY <1>1, <1>3, <1>4 DEF OwnershipTypeOK
  <2> QED
    BY <1>1, <1>2, <2>1 DEF OwnershipTypeOK
<1>6. DeadIsBlank'
  BY <1>1, <1>3, <1>4 DEF Ownership, DeadIsBlank, Alive, Holders
<1>7. MagicIsPointer'
  BY <1>3, <1>4 DEF Ownership, MagicIsPointer
<1>8. PointersDiffer'
  <2>1. \A t \in Svs : svs'[t].ptr = IF t = s THEN NULL ELSE svs[t].ptr
    BY <1>3, <1>4
  <2>2. NULL \notin given'
    BY <1>1, <1>2 DEF OwnershipTypeOK
  <2>3. ASSUME NEW t \in Svs PROVE svs'[t].ptr \notin given'
    <3>1. svs[t].ptr \notin given /\ (svs[t].ptr = svs[s].ptr => t = s)
      BY <1>1 DEF Ownership, PointersDiffer
    <3>2. given' = given \cup {svs[s].ptr}
      BY <1>1
    <3>3. IF t = s THEN svs'[t].ptr = NULL ELSE svs'[t].ptr = svs[t].ptr
      BY <2>1
    <3> QED
      BY <2>2, <3>1, <3>2, <3>3
  <2>4. \A t, u \in Svs : svs'[t].ptr = svs'[u].ptr /\ svs'[t].ptr # NULL => t = u
    BY <2>1 DEF Ownership, PointersDiffer
  <2> QED
    BY <2>3, <2>4 DEF PointersDiffer
<1>9. LiveIsOwned'
  <2>1. \A t \in Svs : svs'[t].ptr = IF t = s THEN NULL ELSE svs[t].ptr
    BY <1>3, <1>4
  <2> SUFFICES ASSUME NEW q \in Raws
               PROVE  raws[q] = "live" <=> q \in given' \/ \E t \in Svs : svs'[t].ptr = q
    BY <1>1 DEF LiveIsOwned
  <2>2. raws[q] = "live" <=> q \in given \/ \E t \in Svs : svs[t].ptr = q
    BY DEF Ownership, LiveIsOwned
  <2>3. CASE q = svs[s].ptr
    BY <2>2, <2>3, <1>1
  <2>4. CASE q # svs[s].ptr
    BY <2>1, <2>2, <2>4, <1>1
  <2> QED
    BY <2>3, <2>4
<1>10. FreedOnce'
  BY <1>1 DEF Ownership, FreedOnce
<1>11. WrappersAgree'
  <2> SUFFICES ASSUME NEW o \in Objs, objs[o] # NoObj
               PROVE  /\ objs[o].sv \in Svs /\ objs[o].raw \in Raws
                      /\ \/ objs[o].raw = svs'[objs[o].sv].ptr
                         \/ objs[o].raw \in detached'
    BY <1>1 DEF WrappersAgree
  <2>1. /\ objs[o].sv \in Svs /\ objs[o].raw \in Raws
        /\ objs[o].raw = svs[objs[o].sv].ptr \/ objs[o].raw \in detached
    BY DEF Ownership, WrappersAgree
  <2>2. detached' = detached \cup {svs[s].ptr}
    BY <1>1
  <2>3. objs[o].sv = s \/ svs'[objs[o].sv] = svs[objs[o].sv]
    BY <1>3, <2>1
  <2> QED
    BY <2>1, <2>2, <2>3
<1> QED
  BY <1>5, <1>6, <1>7, <1>8, <1>9, <1>10, <1>11 DEF Ownership

LEMMA AttachKeeps ==
    ASSUME OwnershipTypeOK, Ownership, NEW s \in Svs, NEW r \in Raws, Attach(s, r)
    PROVE  OwnershipTypeOK' /\ Ownership'
<1> USE ArenaAssumption
<1>1. /\ ~Alive(s) /\ r \in given /\ given' = given \ {r}
      /\ svs' = [svs EXCEPT ![s] = Wrapped(r, TRUE)]
      /\ UNCHANGED <<raws, objs, detached, frees>>
  BY DEF Attach
<1>2. /\ Wrapped(r, TRUE) \in Sv
      /\ Wrapped(r, TRUE).ptr = r /\ Wrapped(r, TRUE).magic = r
      /\ Wrapped(r, TRUE).managed /\ Wrapped(r, TRUE).held
  BY DEF Wrapped, Sv
<1>3. \A t \in Svs : svs'[t] = IF t = s THEN Wrapped(r, TRUE) ELSE svs[t]
  BY <1>1 DEF OwnershipTypeOK
<1>4. svs[s] = NoSv /\ \A o \in Objs : objs[o].sv # s
  BY <1>1 DEF Ownership, DeadIsBlank, Alive, Holders
<1>5. OwnershipTypeOK'
  BY <1>1, <1>2 DEF OwnershipTypeOK
<1>6. DeadIsBlank'
  BY <1>1, <1>2, <1>3 DEF Ownership, DeadIsBlank, Alive, Holders
<1>7. MagicIsPointer'
  BY <1>2, <1>3 DEF Ownership, MagicIsPointer
<1>8. PointersDiffer'
  <2>1. \A t \in Svs : svs'[t].ptr = IF t = s THEN r ELSE svs[t].ptr
    BY <1>2, <1>3
  <2>2. \A t \in Svs : svs[t].ptr # r
    BY <1>1 DEF Ownership, PointersDiffer
  <2>3. ASSUME NEW t \in Svs PROVE svs'[t].ptr \notin given'
    <3>1. svs[t].ptr \notin given
      BY DEF Ownership, PointersDiffer
    <3>2. given' = given \ {r}
      BY <1>1
    <3>3. svs'[t].ptr = r \/ svs'[t].ptr = svs[t].ptr
      BY <2>1
    <3> QED
      BY <3>1, <3>2, <3>3
  <2>4. \A t, u \in Svs : svs'[t].ptr = svs'[u].ptr /\ svs'[t].ptr # NULL => t = u
    BY <2>1, <2>2 DEF Ownership, PointersDiffer
  <2> QED
    BY <2>3, <2>4 DEF PointersDiffer
<1>9. LiveIsOwned'
  <2>1. \A t \in Svs : svs'[t].ptr = IF t = s THEN r ELSE svs[t].ptr
    BY <1>2, <1>3
  <2>5. svs[s].ptr = NULL
    BY <1>4 DEF NoSv
  <2> SUFFICES ASSUME NEW q \in Raws
               PROVE  raws[q] = "live" <=> q \in given' \/ \E t \in Svs : svs'[t].ptr = q
    BY <1>1 DEF LiveIsOwned
  <2>2. raws[q] = "live" <=> q \in given \/ \E t \in Svs : svs[t].ptr = q
    BY DEF Ownership, LiveIsOwned
  <2>3. CASE q = r
    BY <2>1, <2>2, <2>3, <1>1
  <2>4. CASE q # r
    <3>1. \A t \in Svs : svs'[t].ptr = q <=> svs[t].ptr = q
      BY <2>1, <2>4, <2>5
    <3> QED
      BY <2>2, <2>4, <3>1, <1>1
  <2> QED
    BY <2>3, <2>4
<1>10. FreedOnce'
  BY <1>1 DEF Ownership, FreedOnce
<1>11. WrappersAgree'
  BY <1>1, <1>3, <1>4 DEF Ownership, WrappersAgree
<1> QED
  BY <1>5, <1>6, <1>7, <1>8, <1>9, <1>10, <1>11 DEF Ownership

-----------------------------------------------------------------------------
(* Freeing the tmpfs arena gives its blocks back, or finds damage and       *)
(* poisons the allocator: BlockIInv holds either way.                      *)
LEMMA FreeRawsKeepsBlocks ==
    ASSUME BlockIInv, NEW rs, NEW again, FreeRaws(rs, again)
    PROVE  BlockIInv'
<1> USE DEF BlockIInv
<1>1. CASE UNCHANGED blockVars
  BY <1>1, BlockIInvInductive
<1>2. CASE custom \in rs
  <2>1. /\ poisoned' = (poisoned \/ BlocksFound(custom) = "corrupt")
        /\ blocks' = IF poisoned' THEN blocks
                     ELSE [i \in DOMAIN blocks |-> [blocks[i] EXCEPT !.live = FALSE]]
        /\ UNCHANGED <<offset, mem, overrun>>
    BY <1>2 DEF FreeRaws
  <2>2. CASE poisoned'
    <3>1. blocks' = blocks
      BY <2>1, <2>2
    <3>2. poisoned \/ \E i \in DOMAIN blocks : ~Intact(blocks[i].at, blocks[i].size)
      BY <2>1, <2>2 DEF BlocksFound
    <3>3. NoFalseAlarm'
      BY <2>1, <3>2 DEF CanariesStand, CorruptionIsFound, NoFalseAlarm
    <3>4. BlockTypeOK' /\ BlocksApart'
      BY <2>1, <2>2, <3>1 DEF BlockTypeOK, BlocksApart
    <3>5. CanariesStand' /\ OverrunsAreCaught'
      BY <2>1, <3>1 DEF CanariesStand, CorruptionIsFound, OverrunsAreCaught, Intact
    <3> QED
      BY <3>3, <3>4, <3>5 DEF CorruptionIsFound
  <2>3. CASE ~poisoned'
    <3>1. blocks' = [i \in DOMAIN blocks |-> [blocks[i] EXCEPT !.live = FALSE]]
      BY <2>1, <2>3
    <3>2. ~poisoned /\ BlocksFound(custom) # "corrupt"
      BY <2>1, <2>3
    <3>3. \A i \in DOMAIN blocks : blocks[i].live => Intact(blocks[i].at, blocks[i].size)
      BY <3>2 DEF BlocksFound
    <3>4. overrun = {}
      BY <3>3 DEF CorruptionIsFound, OverrunsAreCaught, BlockTypeOK
    <3>5. \A i \in DOMAIN blocks : blocks[i] \in Block
      BY DEF BlockTypeOK
    <3>6. /\ DOMAIN blocks' = DOMAIN blocks
          /\ \A i \in DOMAIN blocks : /\ blocks'[i] \in Block
                                      /\ blocks'[i].at = blocks[i].at
                                      /\ blocks'[i].size = blocks[i].size
      BY <3>1, <3>5 DEF Block
    <3>7. blocks' \in Seq(Block)
      BY <3>1, <3>6 DEF BlockTypeOK
    <3>8. BlockTypeOK'
      BY <2>1, <2>3, <3>4, <3>7 DEF BlockTypeOK
    <3>9. BlocksApart'
      BY <2>1, <3>6 DEF BlocksApart
    <3>10. CanariesStand'
      BY <2>1, <3>6 DEF CanariesStand, Intact
    <3>11. CorruptionIsFound'
      BY <2>1, <2>3, <3>4 DEF CorruptionIsFound, NoFalseAlarm, OverrunsAreCaught
    <3> QED
      BY <3>8, <3>9, <3>10, <3>11
  <2> QED
    BY <2>2, <2>3
<1> QED
  BY <1>1, <1>2 DEF FreeRaws

(* arena_cleanup runs after PerlUpb_Arena_Destroy and has nothing to free. *)
LEMMA CleanupIsEmpty ==
    ASSUME NEW sv
    PROVE  CleanupFrees(sv) = {}
BY DEF CleanupFrees, MagicAfterDestroy

(* A struct that a free leaves behind is the tmpfs arena's. *)
LEMMA LeftIsCustom ==
    ASSUME NEW r
    PROVE  /\ AfterFree(r) \in {"freed", "leaking", "region_left"}
           /\ AfterFree(r) # "freed" => r = custom
BY DEF AfterFree, BlocksFound

(* DestroyRaw of an address the caller has: the struct has no other owner. *)
LEMMA DestroyRawKeeps ==
    ASSUME OwnershipTypeOK, Ownership, NEW r \in Raws, DestroyRaw(r)
    PROVE  OwnershipTypeOK' /\ Ownership'
<1> USE ArenaAssumption
<1>1. /\ r \in given /\ given' = given \ {r}
      /\ UNCHANGED <<svs, objs, detached>>
  BY DEF DestroyRaw
<1>2. /\ raws' = [q \in Raws |-> IF q \in {r} \cup {} THEN AfterFree(q) ELSE raws[q]]
      /\ frees' = [q \in Raws |-> frees[q] + (IF q \in {r} THEN 1 ELSE 0)
                                          + (IF q \in {} THEN 1 ELSE 0)]
  BY DEF DestroyRaw, FreeRaws
<1>3. AfterFree(r) \in {"freed", "leaking", "region_left"}
  BY LeftIsCustom
<1>4. /\ raws'[r] \in {"freed", "leaking", "region_left"}
      /\ \A q \in Raws : q # r => raws'[q] = raws[q]
  BY <1>2, <1>3
<1>5. \A q \in Raws : frees'[q] = IF q = r THEN frees[q] + 1 ELSE frees[q]
  BY <1>2 DEF OwnershipTypeOK
<1>6. raws[r] = "live" /\ \A s \in Svs : svs[s].ptr # r
  BY <1>1 DEF Ownership, LiveIsOwned, PointersDiffer
<1>7. OwnershipTypeOK'
  <2>1. raws' \in [Raws -> RawStates]
    BY <1>2, <1>4 DEF OwnershipTypeOK, RawStates
  <2>2. frees' \in [Raws -> Nat]
    BY <1>2, <1>5 DEF OwnershipTypeOK
  <2> QED
    BY <1>1, <2>1, <2>2 DEF OwnershipTypeOK
<1>8. DeadIsBlank' /\ MagicIsPointer' /\ WrappersAgree'
  BY <1>1 DEF Ownership, DeadIsBlank, Alive, Holders, MagicIsPointer, WrappersAgree
<1>9. PointersDiffer'
  BY <1>1 DEF Ownership, PointersDiffer
<1>10. LiveIsOwned'
  BY <1>1, <1>4, <1>6 DEF Ownership, LiveIsOwned
<1>11. FreedOnce'
  BY <1>4, <1>5, <1>6 DEF Ownership, FreedOnce
<1> QED
  BY <1>7, <1>8, <1>9, <1>10, <1>11 DEF Ownership

(* A reference to s goes: the program's own or a wrapper's.  svs1 and objs1 *)
(* are the references that remain.                                         *)
Dropped(s, svs1, objs1) ==
    /\ svs1 \in [Svs -> Sv]
    /\ objs1 \in [Objs -> Obj]
    /\ \A t \in Svs : t # s => svs1[t] = svs[t]
    /\ svs1[s].ptr = svs[s].ptr
    /\ svs1[s].magic = svs[s].magic
    /\ svs1[s].managed = svs[s].managed
    /\ \A o \in Objs : objs1[o] = objs[o] \/ (objs1[o] = NoObj /\ objs[o].sv = s)

(* The last reference: the sv goes, and its struct is freed or forgotten.   *)
(* No wrapper is left that has the struct but was not told of a detach.    *)
LEMMA LastReference ==
    ASSUME OwnershipTypeOK, Ownership, BlockIInv, NEW s \in Svs, NEW svs1, NEW objs1,
           Dropped(s, svs1, objs1), Drop(s, svs1, objs1), Unreferenced(s, svs1, objs1),
           UNCHANGED <<given, detached>>
    PROVE  OwnershipTypeOK' /\ Ownership' /\ BlockIInv'
<1> USE ArenaAssumption
<1> DEFINE r == svs[s].ptr
<1>1. /\ objs' = objs1 /\ svs' = [svs1 EXCEPT ![s] = NoSv]
      /\ \A o \in Objs : objs1[o].sv # s
  BY DEF Drop, Unreferenced
<1>2. \A t \in Svs : svs'[t] = IF t = s THEN NoSv ELSE svs[t]
  BY <1>1 DEF Dropped
<1>3. \A t \in Svs : svs'[t].ptr = IF t = s THEN NULL ELSE svs[t].ptr
  BY <1>2 DEF NoSv
<1>4. r \in Raws \cup {NULL}
  BY DEF OwnershipTypeOK, Sv
<1>5. /\ raws' \in [Raws -> RawStates]
      /\ \A q \in Raws : q # r => raws'[q] = raws[q]
      /\ r # NULL => raws'[r] \in {"freed", "leaking", "region_left"}
      /\ frees' \in [Raws -> Nat]
      /\ \A q \in Raws : frees'[q] = frees[q] \/ (q = r /\ frees'[q] = frees[q] + 1)
      /\ BlockIInv'
  <2>1. CASE svs1[s].managed
    <3>1. FreeRaws({r} \ {NULL}, {})
      BY <2>1, CleanupIsEmpty DEF Drop, Dropped, DestroyFrees
    <3>2. BlockIInv'
      BY <3>1, FreeRawsKeepsBlocks
    <3>3. /\ raws' = [q \in Raws |-> IF q \in ({r} \ {NULL}) \cup {} THEN AfterFree(q) ELSE raws[q]]
          /\ frees' = [q \in Raws |-> frees[q] + (IF q \in {r} \ {NULL} THEN 1 ELSE 0)
                                              + (IF q \in {} THEN 1 ELSE 0)]
      BY <3>1 DEF FreeRaws
    <3>4. \A q : AfterFree(q) \in {"freed", "leaking", "region_left"}
      BY LeftIsCustom
    <3>5. /\ raws' \in [Raws -> RawStates]
          /\ \A q \in Raws : q # r => raws'[q] = raws[q]
          /\ r # NULL => raws'[r] \in {"freed", "leaking", "region_left"}
      BY <1>4, <3>3, <3>4 DEF OwnershipTypeOK, RawStates
    <3>6. \A q \in Raws : /\ frees'[q] \in Nat
                          /\ frees'[q] = frees[q] \/ (q = r /\ frees'[q] = frees[q] + 1)
      BY <3>3 DEF OwnershipTypeOK
    <3> QED
      BY <3>2, <3>3, <3>5, <3>6
  <2>2. CASE ~svs1[s].managed
    <3>1. /\ raws' = [q \in Raws |-> IF q \in {r} \ {NULL} THEN "leaking" ELSE raws[q]]
          /\ UNCHANGED <<frees, blockVars>>
      BY <2>2 DEF Drop, Dropped, Forgotten
    <3>2. BlockIInv'
      BY <3>1, BlockIInvInductive
    <3> QED
      BY <1>4, <3>1, <3>2 DEF OwnershipTypeOK, RawStates
  <2> QED
    BY <2>1, <2>2
<1>6. OwnershipTypeOK'
  <2>1. NoSv \in Sv
    BY DEF NoSv, Sv
  <2>2. svs' \in [Svs -> Sv]
    BY <1>1, <2>1 DEF Dropped
  <2> QED
    BY <1>1, <1>5, <2>2 DEF OwnershipTypeOK, Dropped
<1>7. DeadIsBlank'
  <2> SUFFICES ASSUME NEW t \in Svs, t # s, ~Alive(t)' PROVE svs'[t] = NoSv
    BY <1>2 DEF DeadIsBlank
  <2>1. ~Alive(t)
    BY <1>1, <1>2 DEF Alive, Holders, Dropped
  <2> QED
    BY <1>2, <2>1 DEF Ownership, DeadIsBlank
<1>8. MagicIsPointer'
  BY <1>2 DEF Ownership, MagicIsPointer, NoSv
<1>9. PointersDiffer'
  <2>1. NULL \notin given
    BY DEF OwnershipTypeOK
  <2>2. ASSUME NEW t \in Svs PROVE svs'[t].ptr \notin given'
    <3>1. svs[t].ptr \notin given
      BY DEF Ownership, PointersDiffer
    <3> QED
      BY <1>3, <2>1, <3>1
  <2>3. \A t, u \in Svs : svs'[t].ptr = svs'[u].ptr /\ svs'[t].ptr # NULL => t = u
    BY <1>3 DEF Ownership, PointersDiffer
  <2> QED
    BY <2>2, <2>3 DEF PointersDiffer
<1>10. LiveIsOwned'
  <2> SUFFICES ASSUME NEW q \in Raws
               PROVE  raws'[q] = "live" <=> q \in given \/ \E t \in Svs : svs'[t].ptr = q
    BY DEF LiveIsOwned
  <2>1. raws[q] = "live" <=> q \in given \/ \E t \in Svs : svs[t].ptr = q
    BY DEF Ownership, LiveIsOwned
  <2>2. CASE q = r
    <3>1. raws'[q] # "live"
      BY <1>5, <2>2
    <3>2. r \notin given /\ \A t \in Svs : svs[t].ptr = r => t = s
      BY <2>2 DEF Ownership, PointersDiffer
    <3> QED
      BY <1>3, <2>2, <3>1, <3>2
  <2>3. CASE q # r
    <3>1. \A t \in Svs : svs'[t].ptr = q <=> svs[t].ptr = q
      BY <1>3, <2>3
    <3> QED
      BY <1>5, <2>1, <2>3, <3>1
  <2> QED
    BY <2>2, <2>3
<1>11. FreedOnce'
  <2> SUFFICES ASSUME NEW q \in Raws
               PROVE  /\ frees'[q] \in {0, 1}
                      /\ raws'[q] \in {"none", "live"} => frees'[q] = 0
    BY DEF FreedOnce
  <2>1. /\ frees[q] \in {0, 1}
        /\ raws[q] \in {"none", "live"} => frees[q] = 0
    BY DEF Ownership, FreedOnce
  <2>2. CASE q = r
    <3>1. raws[q] = "live"
      BY <2>2 DEF Ownership, LiveIsOwned
    <3>2. raws'[q] \in {"freed", "leaking", "region_left"}
      BY <1>5, <2>2
    <3> QED
      BY <1>5, <2>1, <3>1, <3>2
  <2>3. CASE q # r
    BY <1>5, <2>1, <2>3
  <2> QED
    BY <2>2, <2>3
<1>12. WrappersAgree'
  <2> SUFFICES ASSUME NEW o \in Objs, objs1[o] # NoObj
               PROVE  /\ objs1[o].sv \in Svs
                      /\ objs1[o].raw \in Raws
                      /\ objs1[o].raw = svs'[objs1[o].sv].ptr \/ objs1[o].raw \in detached
    BY <1>1 DEF WrappersAgree
  <2>1. objs1[o] = objs[o] /\ objs[o].sv # s
    BY <1>1 DEF Dropped
  <2> QED
    BY <1>3, <2>1 DEF Ownership, WrappersAgree
<1> QED
  BY <1>5, <1>6, <1>7, <1>8, <1>9, <1>10, <1>11, <1>12 DEF Ownership

(* Another reference remains: nothing but the reference goes.              *)
LEMMA NotLastReference ==
    ASSUME OwnershipTypeOK, Ownership, BlockIInv, NEW s \in Svs, NEW svs1, NEW objs1,
           Dropped(s, svs1, objs1), Drop(s, svs1, objs1), ~Unreferenced(s, svs1, objs1),
           UNCHANGED <<given, detached>>
    PROVE  OwnershipTypeOK' /\ Ownership' /\ BlockIInv'
<1>1. objs' = objs1 /\ svs' = svs1 /\ UNCHANGED <<raws, frees, blockVars>>
  BY DEF Drop
<1>2. \A t \in Svs : /\ svs1[t].ptr = svs[t].ptr
                     /\ svs1[t].magic = svs[t].magic
                     /\ svs1[t].managed = svs[t].managed
  BY DEF Dropped
<1>3. BlockIInv'
  BY <1>1, BlockIInvInductive
<1>4. OwnershipTypeOK'
  BY <1>1 DEF OwnershipTypeOK, Dropped
<1>5. DeadIsBlank'
  <2> SUFFICES ASSUME NEW t \in Svs, ~Alive(t)' PROVE svs1[t] = NoSv
    BY <1>1 DEF DeadIsBlank
  <2>1. t # s
    BY <1>1 DEF Alive, Holders, Unreferenced
  <2>2. ~Alive(t)
    BY <1>1, <2>1 DEF Alive, Holders, Dropped
  <2> QED
    BY <2>1, <2>2 DEF Dropped, Ownership, DeadIsBlank
<1>6. MagicIsPointer' /\ PointersDiffer' /\ LiveIsOwned' /\ FreedOnce'
  BY <1>1, <1>2 DEF Ownership, MagicIsPointer, PointersDiffer, LiveIsOwned, FreedOnce
<1>7. WrappersAgree'
  BY <1>1, <1>2 DEF Ownership, WrappersAgree, Dropped
<1> QED
  BY <1>3, <1>4, <1>5, <1>6, <1>7 DEF Ownership

LEMMA DropsOne ==
    ASSUME OwnershipTypeOK, NEW o \in Objs, DropObject(o)
    PROVE  LET objs1 == [objs EXCEPT ![o] = NoObj]
           IN  /\ objs[o].sv \in Svs
               /\ Drop(objs[o].sv, svs, objs1)
               /\ Dropped(objs[o].sv, svs, objs1)
               /\ UNCHANGED <<given, detached>> /\ UNCHANGED made
<1> DEFINE s == objs[o].sv
           objs1 == [objs EXCEPT ![o] = NoObj]
<1>1. s # NULL /\ Drop(s, svs, objs1) /\ UNCHANGED <<given, detached>> /\ UNCHANGED made
  BY DEF DropObject
<1>2. s \in Svs
  BY <1>1 DEF OwnershipTypeOK, Obj
<1>3. Dropped(s, svs, objs1)
  <2>1. NoObj \in Obj
    BY DEF NoObj, Obj
  <2> QED
    BY <2>1 DEF Dropped, OwnershipTypeOK
<1> QED
  BY <1>1, <1>2, <1>3

LEMMA DropsHeld ==
    ASSUME OwnershipTypeOK, NEW s \in Svs, DropSv(s)
    PROVE  LET svs1 == [svs EXCEPT ![s].held = FALSE]
           IN  /\ Drop(s, svs1, objs)
               /\ Dropped(s, svs1, objs)
               /\ UNCHANGED <<given, detached>> /\ UNCHANGED made
<1> DEFINE svs1 == [svs EXCEPT ![s].held = FALSE]
<1>1. Drop(s, svs1, objs) /\ UNCHANGED <<given, detached>> /\ UNCHANGED made
  BY DEF DropSv
<1>2. Dropped(s, svs1, objs)
  <2>1. svs[s] \in Sv
    BY DEF OwnershipTypeOK
  <2>2. svs1[s] = [svs[s] EXCEPT !.held = FALSE] /\ \A t \in Svs : t # s => svs1[t] = svs[t]
    BY DEF OwnershipTypeOK
  <2>3. [svs[s] EXCEPT !.held = FALSE] \in Sv
    BY <2>1, Zenon DEF Sv
  <2>4. /\ svs1[s].ptr = svs[s].ptr /\ svs1[s].magic = svs[s].magic
        /\ svs1[s].managed = svs[s].managed
    BY <2>1, <2>2 DEF Sv
  <2>5. svs1 \in [Svs -> Sv]
    BY <2>2, <2>3 DEF OwnershipTypeOK
  <2> HIDE DEF svs1
  <2> QED
    BY <2>2, <2>4, <2>5 DEF Dropped, OwnershipTypeOK
<1> QED
  BY <1>1, <1>2

LEMMA DropObjectKeeps ==
    ASSUME OwnershipTypeOK, Ownership, BlockIInv, NEW o \in Objs, DropObject(o)
    PROVE  OwnershipTypeOK' /\ Ownership' /\ BlockIInv'
<1> DEFINE objs1 == [objs EXCEPT ![o] = NoObj]
<1>1. /\ objs[o].sv \in Svs /\ Drop(objs[o].sv, svs, objs1)
      /\ Dropped(objs[o].sv, svs, objs1) /\ UNCHANGED <<given, detached>>
  BY DropsOne
<1> HIDE DEF objs1
<1> QED
  BY <1>1, LastReference, NotLastReference

LEMMA DropSvKeeps ==
    ASSUME OwnershipTypeOK, Ownership, BlockIInv, NEW s \in Svs, DropSv(s)
    PROVE  OwnershipTypeOK' /\ Ownership' /\ BlockIInv'
<1> DEFINE svs1 == [svs EXCEPT ![s].held = FALSE]
<1>1. Drop(s, svs1, objs) /\ Dropped(s, svs1, objs) /\ UNCHANGED <<given, detached>>
  BY DropsHeld
<1> HIDE DEF svs1
<1> QED
  BY <1>1, LastReference, NotLastReference

(* The struct is made and freed before anything has it. *)
LEMMA NewMessageFailsKeeps ==
    ASSUME OwnershipTypeOK, Ownership, NEW s \in Svs, NEW r \in Raws, NewMessageFails(s, r)
    PROVE  OwnershipTypeOK' /\ Ownership'
<1>1. /\ raws[r] = "none"
      /\ raws' = [raws EXCEPT ![r] = "freed"] /\ frees' = [frees EXCEPT ![r] = 1]
      /\ UNCHANGED <<svs, objs, given, detached>>
  BY DEF NewMessageFails
<1>2. \A q \in Raws : /\ raws'[q] = IF q = r THEN "freed" ELSE raws[q]
                      /\ frees'[q] = IF q = r THEN 1 ELSE frees[q]
  BY <1>1 DEF OwnershipTypeOK
<1>3. OwnershipTypeOK'
  BY <1>1 DEF OwnershipTypeOK, RawStates
<1>4. DeadIsBlank' /\ MagicIsPointer' /\ WrappersAgree' /\ PointersDiffer'
  BY <1>1 DEF Ownership, DeadIsBlank, Alive, Holders, MagicIsPointer, WrappersAgree,
     PointersDiffer
<1>5. LiveIsOwned' /\ FreedOnce'
  BY <1>1, <1>2 DEF Ownership, LiveIsOwned, FreedOnce
<1> QED
  BY <1>3, <1>4, <1>5 DEF Ownership

(* The steps of one arena that make it, through MakeKeeps. *)
LEMMA MakersKeep ==
    ASSUME OwnershipTypeOK, Ownership, NEW s \in Svs, NEW r \in Raws,
           \/ ArenaNew(s, r) \/ ArenaCreateRaw(s, r)
           \/ ArenaNewTmpfs(s, r) \/ ArenaAttachTmpfs(s, r)
           \/ \E o \in Objs : NewMessage(o, s, r)
    PROVE  OwnershipTypeOK' /\ Ownership'
<1>1. ASSUME NEW held \in BOOLEAN
      PROVE  /\ Wrapped(r, held) \in Sv
             /\ Wrapped(r, held).ptr = r
             /\ Wrapped(r, held).magic = (IF Wrapped(r, held).managed THEN r ELSE NULL)
             /\ Wrapped(r, held).held = held
  BY DEF Wrapped, Sv
<1>2. ASSUME NEW tmpfs \in BOOLEAN
      PROVE  /\ Bare(r, tmpfs) \in Sv
             /\ Bare(r, tmpfs).ptr = r
             /\ Bare(r, tmpfs).magic = (IF Bare(r, tmpfs).managed THEN r ELSE NULL)
             /\ Bare(r, tmpfs).held
  BY DEF Bare, Sv
<1>3. CASE ArenaNew(s, r)
  BY <1>3, <1>1, MakeKeeps DEF ArenaNew
<1>4. CASE ArenaCreateRaw(s, r)
  BY <1>4, <1>2, MakeKeeps DEF ArenaCreateRaw
<1>5. CASE ArenaNewTmpfs(s, r)
  BY <1>5, <1>2, MakeKeeps DEF ArenaNewTmpfs
<1>6. CASE ArenaAttachTmpfs(s, r)
  BY <1>6, <1>2, MakeKeeps DEF ArenaAttachTmpfs
<1>7. CASE \E o \in Objs : NewMessage(o, s, r)
  <2>1. PICK o \in Objs : NewMessage(o, s, r)
    BY <1>7
  <2>2. /\ objs[o] = NoObj /\ Make(s, r, Wrapped(r, FALSE))
        /\ objs' = [objs EXCEPT ![o] = [sv |-> s, raw |-> r]]
    BY <2>1 DEF NewMessage
  <2> QED
    BY <2>2, <1>1, MakeKeeps
<1> QED
  BY <1>3, <1>4, <1>5, <1>6, <1>7

(* PerlUpb_Arena_AttachTmpfs leaves the allocator no room, and no block is  *)
(* touched.                                                                *)
LEMMA FullRegionKeeps ==
    ASSUME BlockIInv, offset' = RegionSize, UNCHANGED <<poisoned, mem, blocks, overrun>>
    PROVE  BlockIInv'
<1> USE BlockAllocAssumption
<1>1. BlockTypeOK'
  BY DEF BlockIInv, BlockTypeOK
<1>2. BlocksApart'
  <2>1. ASSUME NEW i \in DOMAIN blocks
        PROVE  blocks[i].at + blocks[i].size + CanarySize <= RegionSize
    <3>1. blocks[i] \in Block
      BY DEF BlockIInv, BlockTypeOK
    <3>2. /\ offset <= RegionSize /\ offset \in Nat
          /\ blocks[i].at + blocks[i].size + CanarySize <= offset
      BY DEF BlockIInv, BlocksApart, BlockTypeOK
    <3> QED
      BY <3>1, <3>2 DEF Block, CanarySize
  <2> QED
    BY <2>1 DEF BlockIInv, BlocksApart
<1>3. CanariesStand' /\ CorruptionIsFound'
  BY DEF BlockIInv, CanariesStand, CorruptionIsFound, NoFalseAlarm, OverrunsAreCaught, Intact
<1> QED
  BY <1>1, <1>2, <1>3 DEF BlockIInv

-----------------------------------------------------------------------------
(* What may be lost. *)

LEMMA FreedStaysBare ==
    ASSUME LeaksWereBare, NEW rs, FreeRaws(rs, {})
    PROVE  \A r \in Raws : raws'[r] \in {"leaking", "region_left"} => r \in bare
<1> USE ArenaAssumption
<1>1. raws' = [r \in Raws |-> IF r \in rs \cup {} THEN AfterFree(r) ELSE raws[r]]
  BY DEF FreeRaws
<1> SUFFICES ASSUME NEW r \in Raws, raws'[r] \in {"leaking", "region_left"}
             PROVE  r \in bare
  OBVIOUS
<1>2. CASE r \in rs
  <2>1. raws'[r] = AfterFree(r)
    BY <1>1, <1>2
  <2>2. r = custom
    BY <2>1, LeftIsCustom
  <2> QED
    BY <2>2 DEF LeaksWereBare
<1>3. CASE r \notin rs
  BY <1>1, <1>3 DEF LeaksWereBare
<1> QED
  BY <1>2, <1>3

LEMMA DroppedStaysBare ==
    ASSUME LeaksWereBare, NEW s \in Svs, NEW svs1, NEW objs1,
           Dropped(s, svs1, objs1), Drop(s, svs1, objs1), UNCHANGED made
    PROVE  LeaksWereBare'
<1> USE ArenaAssumption
<1>1. \A t \in Svs : svs1[t].ptr = svs[t].ptr /\ svs1[t].managed = svs[t].managed
  BY DEF Dropped
<1>2. bare' = bare /\ custom' = custom
  BY DEF made
<1>3. \A t \in Svs : svs'[t].ptr # NULL /\ ~svs'[t].managed => svs'[t].ptr \in bare
  <2>1. \A t \in Svs : svs'[t] = svs1[t] \/ svs'[t] = NoSv
    BY DEF Drop, Dropped
  <2> QED
    BY <1>1, <2>1 DEF LeaksWereBare, NoSv
<1>4. \A r \in Raws : raws'[r] \in {"leaking", "region_left"} => r \in bare
  <2>1. CASE ~Unreferenced(s, svs1, objs1)
    BY <2>1 DEF Drop, LeaksWereBare
  <2>2. CASE Unreferenced(s, svs1, objs1) /\ svs1[s].managed
    <3>1. FreeRaws(DestroyFrees(svs1[s]), {})
      BY <2>2, CleanupIsEmpty DEF Drop
    <3> QED
      BY <3>1, FreedStaysBare
  <2>3. CASE Unreferenced(s, svs1, objs1) /\ ~svs1[s].managed
    <3>1. raws' = [r \in Raws |-> IF r \in {svs1[s].ptr} \ {NULL} THEN "leaking" ELSE raws[r]]
      BY <2>3 DEF Drop, Forgotten
    <3>2. svs1[s].ptr # NULL => svs1[s].ptr \in bare
      BY <1>1, <2>3 DEF LeaksWereBare
    <3> QED
      BY <3>1, <3>2 DEF LeaksWereBare
  <2> QED
    BY <2>1, <2>2, <2>3
<1> QED
  BY <1>2, <1>3, <1>4 DEF LeaksWereBare

LEMMA MadeStaysBare ==
    ASSUME OwnershipTypeOK, LeaksWereBare, NEW s \in Svs, NEW r \in Raws, NEW sv,
           Make(s, r, sv), sv.ptr = r, custom' \in {custom, r}, bare' \in {bare, bare \cup {r}},
           sv.managed \/ r \in bare', custom' = custom \/ r \in bare'
    PROVE  LeaksWereBare'
<1>1. /\ svs' = [svs EXCEPT ![s] = sv] /\ raws' = [raws EXCEPT ![r] = "live"]
  BY DEF Make
<1>2. \A t \in Svs : svs'[t] = IF t = s THEN sv ELSE svs[t]
  BY <1>1 DEF OwnershipTypeOK
<1>3. \A q \in Raws : raws'[q] = IF q = r THEN "live" ELSE raws[q]
  BY <1>1 DEF OwnershipTypeOK
<1>4. custom' # NULL => custom' \in bare'
  BY DEF LeaksWereBare
<1>5. \A t \in Svs : svs'[t].ptr # NULL /\ ~svs'[t].managed => svs'[t].ptr \in bare'
  BY <1>2 DEF LeaksWereBare
<1>6. \A q \in Raws : raws'[q] \in {"leaking", "region_left"} => q \in bare'
  BY <1>3 DEF LeaksWereBare
<1> QED
  BY <1>4, <1>5, <1>6 DEF LeaksWereBare

LEMMA BareSteps ==
    ASSUME MadeTypeOK, OwnershipTypeOK, LeaksWereBare, ArenaNext
    PROVE  MadeTypeOK' /\ LeaksWereBare'
<1>1. ASSUME NEW s \in Svs, NEW r \in Raws,
             ArenaNew(s, r) \/ \E o \in Objs : NewMessage(o, s, r)
      PROVE  MadeTypeOK' /\ LeaksWereBare'
  <2>1. PICK held \in BOOLEAN : Make(s, r, Wrapped(r, held)) /\ UNCHANGED made
    BY <1>1 DEF ArenaNew, NewMessage
  <2>2. Wrapped(r, held).ptr = r /\ Wrapped(r, held).managed
    BY DEF Wrapped
  <2>3. custom' = custom /\ bare' = bare
    BY <2>1 DEF made
  <2> QED
    BY <2>1, <2>2, <2>3, MadeStaysBare DEF MadeTypeOK
<1>2. ASSUME NEW s \in Svs, NEW r \in Raws,
             ArenaCreateRaw(s, r) \/ ArenaNewTmpfs(s, r) \/ ArenaAttachTmpfs(s, r)
      PROVE  MadeTypeOK' /\ LeaksWereBare'
  <2>1. PICK tmpfs \in BOOLEAN : Make(s, r, Bare(r, tmpfs))
    BY <1>2 DEF ArenaCreateRaw, ArenaNewTmpfs, ArenaAttachTmpfs
  <2>2. Bare(r, tmpfs).ptr = r
    BY DEF Bare
  <2>3. custom' \in {custom, r} /\ bare' = bare \cup {r}
    BY <1>2 DEF ArenaCreateRaw, ArenaNewTmpfs, ArenaAttachTmpfs
  <2> QED
    BY <2>1, <2>2, <2>3, MadeStaysBare DEF MadeTypeOK
<1>3. ASSUME NEW s \in Svs, NEW r \in Raws, NewMessageFails(s, r)
      PROVE  MadeTypeOK' /\ LeaksWereBare'
  BY <1>3 DEF NewMessageFails, made, MadeTypeOK, LeaksWereBare, OwnershipTypeOK
<1>4. ASSUME NEW s \in Svs, NEW r \in Raws, Attach(s, r)
      PROVE  MadeTypeOK' /\ LeaksWereBare'
  <2>1. /\ svs' = [svs EXCEPT ![s] = Wrapped(r, TRUE)]
        /\ raws' = raws /\ custom' = custom /\ bare' = bare
    BY <1>4 DEF Attach, made
  <2>2. \A t \in Svs : svs'[t] = svs[t] \/ svs'[t].managed
    BY <2>1 DEF OwnershipTypeOK, Wrapped
  <2>3. raws' = raws /\ custom' = custom /\ bare' = bare
    BY <2>1
  <2>4. \A t \in Svs : svs'[t].ptr # NULL /\ ~svs'[t].managed => svs'[t].ptr \in bare'
    BY <2>2, <2>3, Zenon DEF LeaksWereBare
  <2> QED
    BY <2>3, <2>4 DEF MadeTypeOK, LeaksWereBare
<1>5. ASSUME NEW o \in Objs, DropObject(o)
      PROVE  MadeTypeOK' /\ LeaksWereBare'
  <2>1. /\ objs[o].sv \in Svs /\ UNCHANGED made
        /\ Drop(objs[o].sv, svs, [objs EXCEPT ![o] = NoObj])
        /\ Dropped(objs[o].sv, svs, [objs EXCEPT ![o] = NoObj])
    BY <1>5, DropsOne
  <2> QED
    BY <2>1, DroppedStaysBare DEF MadeTypeOK, made
<1>6. ASSUME NEW s \in Svs, DropSv(s)
      PROVE  MadeTypeOK' /\ LeaksWereBare'
  <2>1. /\ UNCHANGED made
        /\ Drop(s, [svs EXCEPT ![s].held = FALSE], objs)
        /\ Dropped(s, [svs EXCEPT ![s].held = FALSE], objs)
    BY <1>6, DropsHeld
  <2> QED
    BY <2>1, DroppedStaysBare DEF MadeTypeOK, made
<1>7. ASSUME NEW s \in Svs, Detach(s)
      PROVE  MadeTypeOK' /\ LeaksWereBare'
  <2>1. /\ svs' = [svs EXCEPT ![s].ptr = NULL, ![s].magic = NULL]
        /\ raws' = raws /\ custom' = custom /\ bare' = bare
    BY <1>7 DEF Detach, made
  <2>2. \A t \in Svs : svs'[t] = svs[t] \/ svs'[t].ptr = NULL
    BY <2>1 DEF OwnershipTypeOK, Sv
  <2>3. raws' = raws /\ custom' = custom /\ bare' = bare
    BY <2>1
  <2>4. \A t \in Svs : svs'[t].ptr # NULL /\ ~svs'[t].managed => svs'[t].ptr \in bare'
    BY <2>2, <2>3, Zenon DEF LeaksWereBare
  <2> QED
    BY <2>3, <2>4 DEF MadeTypeOK, LeaksWereBare
<1>8. ASSUME NEW r \in Raws, DestroyRaw(r)
      PROVE  MadeTypeOK' /\ LeaksWereBare'
  <2>1. FreeRaws({r}, {}) /\ svs' = svs /\ custom' = custom /\ bare' = bare
    BY <1>8 DEF DestroyRaw, made
  <2>2. \A q \in Raws : raws'[q] \in {"leaking", "region_left"} => q \in bare
    BY <2>1, FreedStaysBare
  <2> QED
    BY <2>1, <2>2 DEF MadeTypeOK, LeaksWereBare
<1>9. CASE UNCHANGED <<svs, raws, custom, bare>>
  BY <1>9 DEF MadeTypeOK, LeaksWereBare
<1>10. ASSUME NEW o \in Objs, NEW s \in Svs,
              WrapObject(o, s) \/ AttachMessage(o, s, GetOffset(s, offset))
       PROVE  UNCHANGED <<svs, raws, custom, bare>>
  BY <1>10 DEF WrapObject, AttachMessage, made
<1>11. ASSUME UseTmpfs \/ Acquire \/ Release \/ PreallocateArena
              \/ \E k \in DOMAIN in_use : EncodersDie(k)
       PROVE  UNCHANGED <<svs, raws, custom, bare>>
  BY <1>11 DEF UseTmpfs, Acquire, Release, PreallocateArena, EncodersDie, made, ownership
<1> QED
  BY <1>1, <1>2, <1>3, <1>4, <1>5, <1>6, <1>7, <1>8, <1>9, <1>10, <1>11 DEF ArenaNext

-----------------------------------------------------------------------------
(* The transient arenas. *)

LEMMA EncodersUnchanged ==
    ASSUME EncodersTypeOK, TransientsAccounted, UNCHANGED encoders
    PROVE  EncodersTypeOK' /\ TransientsAccounted'
BY DEF encoders, EncodersTypeOK, TransientsAccounted

(* An arena nobody has goes on top of the stack. *)
LEMMA AcquireKeeps ==
    ASSUME EncodersTypeOK, TransientsAccounted, Acquire
    PROVE  EncodersTypeOK' /\ TransientsAccounted'
<1> USE ArenaAssumption
<1>1. PICK a \in Transients :
        /\ in_use' = Append(in_use, a)
        /\ cached_transient_arena' = NULL
        /\ \A i \in DOMAIN in_use : in_use[i] # a
        /\ transients' = {in_use[i] : i \in DOMAIN in_use} \cup {a} \cup abandoned
        /\ transients' \subseteq Transients
        /\ a \notin abandoned /\ abandoned' = abandoned
  <2>1. CASE cached_transient_arena # NULL
    <3>1. /\ in_use' = Append(in_use, cached_transient_arena)
          /\ cached_transient_arena' = NULL /\ transients' = transients
          /\ abandoned' = abandoned
      BY <2>1 DEF Acquire
    <3>2. cached_transient_arena \in Transients
      BY <2>1 DEF EncodersTypeOK
    <3> QED
      BY <2>1, <3>1, <3>2 DEF TransientsAccounted, EncodersTypeOK
  <2>2. CASE cached_transient_arena = NULL
    <3>1. PICK a \in Transients \ transients :
            /\ transients' = transients \cup {a} /\ in_use' = Append(in_use, a)
            /\ cached_transient_arena' = cached_transient_arena
            /\ abandoned' = abandoned
      BY <2>2 DEF Acquire
    <3> QED
      BY <2>2, <3>1 DEF TransientsAccounted, EncodersTypeOK
  <2> QED
    BY <2>1, <2>2
<1>2. /\ in_use' \in Seq(Transients) /\ DOMAIN in_use' = 1 .. Len(in_use) + 1
      /\ DOMAIN in_use = 1 .. Len(in_use) /\ Len(in_use) \in Nat
      /\ \A i \in DOMAIN in_use : in_use'[i] = in_use[i] /\ in_use[i] \in Transients
      /\ in_use'[Len(in_use) + 1] = a
  BY <1>1 DEF EncodersTypeOK
<1>3. {in_use'[i] : i \in DOMAIN in_use'} = {in_use[i] : i \in DOMAIN in_use} \cup {a}
  BY <1>2
<1>4. \A i, j \in DOMAIN in_use' : in_use'[i] = in_use'[j] => i = j
  <2> SUFFICES ASSUME NEW i \in DOMAIN in_use', NEW j \in DOMAIN in_use',
                      in_use'[i] = in_use'[j]
               PROVE  i = j
    OBVIOUS
  <2>1. CASE i \in DOMAIN in_use /\ j \in DOMAIN in_use
    BY <2>1, <1>2 DEF TransientsAccounted
  <2>2. CASE i \notin DOMAIN in_use
    BY <2>2, <1>1, <1>2
  <2>3. CASE j \notin DOMAIN in_use
    BY <2>3, <1>1, <1>2
  <2> QED
    BY <2>1, <2>2, <2>3
<1>5. \A i \in DOMAIN in_use' : in_use'[i] # NULL
  BY <1>2
<1>6. \A i \in DOMAIN in_use' : in_use'[i] \notin abandoned'
  BY <1>1, <1>2 DEF TransientsAccounted
<1>7. NULL \notin abandoned'
  BY <1>1 DEF EncodersTypeOK
<1> QED
  BY <1>1, <1>2, <1>3, <1>4, <1>5, <1>6, <1>7 DEF EncodersTypeOK, TransientsAccounted

(* The arena on top of the stack is nowhere else, so what is left accounts  *)
(* for the rest.                                                           *)
LEMMA ReleaseKeeps ==
    ASSUME EncodersTypeOK, TransientsAccounted, Release
    PROVE  EncodersTypeOK' /\ TransientsAccounted'
<1> DEFINE n == Len(in_use)
           top == in_use[n]
<1>1. /\ in_use \in Seq(Transients) /\ n \in Nat \ {0} /\ DOMAIN in_use = 1 .. n
  BY DEF Release, EncodersTypeOK
<1>2. /\ transients' = transients \ {top} /\ in_use' = SubSeq(in_use, 1, n - 1)
      /\ UNCHANGED <<cached_transient_arena, abandoned>>
  BY DEF Release
<1>3. /\ in_use' \in Seq(Transients) /\ DOMAIN in_use' = 1 .. n - 1
      /\ \A i \in 1 .. n - 1 : in_use'[i] = in_use[i]
  BY <1>1, <1>2
<1>4. \A i \in 1 .. n - 1 : in_use[i] # top
  BY <1>1 DEF TransientsAccounted
<1>5. top # cached_transient_arena /\ top \notin abandoned
  BY <1>1 DEF TransientsAccounted
<1>6. {in_use'[i] : i \in DOMAIN in_use'} = {in_use[i] : i \in DOMAIN in_use} \ {top}
  BY <1>1, <1>3, <1>4
<1>7. transients' = {in_use'[i] : i \in DOMAIN in_use'}
                       \cup ({cached_transient_arena'} \ {NULL}) \cup abandoned'
  BY <1>2, <1>5, <1>6 DEF TransientsAccounted
<1>8. /\ \A i, j \in DOMAIN in_use' : in_use'[i] = in_use'[j] => i = j
      /\ \A i \in DOMAIN in_use' : in_use'[i] # cached_transient_arena'
      /\ \A i \in DOMAIN in_use' : in_use'[i] \notin abandoned'
      /\ cached_transient_arena' \notin abandoned'
  BY <1>1, <1>2, <1>3 DEF TransientsAccounted
<1> QED
  BY <1>2, <1>3, <1>7, <1>8 DEF EncodersTypeOK, TransientsAccounted

(* A die takes the top of the stack and leaves its arenas allocated. *)
LEMMA EncodersDieKeeps ==
    ASSUME EncodersTypeOK, TransientsAccounted, NEW k \in DOMAIN in_use, EncodersDie(k)
    PROVE  EncodersTypeOK' /\ TransientsAccounted'
<1> DEFINE n == Len(in_use)
<1>1. in_use \in Seq(Transients) /\ n \in Nat /\ DOMAIN in_use = 1 .. n /\ k \in 1 .. n
  BY DEF EncodersTypeOK
<1>2. /\ abandoned' = abandoned \cup {in_use[i] : i \in k .. n}
      /\ in_use' = SubSeq(in_use, 1, k - 1)
      /\ UNCHANGED <<cached_transient_arena, transients>>
  BY DEF EncodersDie
<1>3. /\ in_use' \in Seq(Transients) /\ DOMAIN in_use' = 1 .. k - 1
      /\ \A i \in 1 .. k - 1 : in_use'[i] = in_use[i]
  BY <1>1, <1>2
<1>4. \A i \in 1 .. n : in_use[i] \in Transients
  BY <1>1
<1>5. \A i \in 1 .. n : i \in 1 .. k - 1 \/ i \in k .. n
  BY <1>1
<1>6. /\ 1 .. k - 1 \subseteq 1 .. n /\ k .. n \subseteq 1 .. n
      /\ \A i \in 1 .. k - 1, j \in k .. n : i # j
  BY <1>1
<1> HIDE DEF n
<1>7. {in_use[i] : i \in DOMAIN in_use} =
         {in_use'[i] : i \in DOMAIN in_use'} \cup {in_use[i] : i \in k .. n}
  BY <1>1, <1>3, <1>5, <1>6
<1>8. transients' = {in_use'[i] : i \in DOMAIN in_use'}
                       \cup ({cached_transient_arena'} \ {NULL}) \cup abandoned'
  BY <1>2, <1>7 DEF TransientsAccounted
<1>9. /\ \A i, j \in DOMAIN in_use' : in_use'[i] = in_use'[j] => i = j
      /\ \A i \in DOMAIN in_use' : in_use'[i] # cached_transient_arena'
  BY <1>1, <1>2, <1>3, <1>6 DEF TransientsAccounted
<1>10. ASSUME NEW i \in DOMAIN in_use' PROVE in_use'[i] \notin abandoned'
  <2>1. in_use'[i] = in_use[i] /\ i \in 1 .. n /\ i \in 1 .. k - 1
    BY <1>3, <1>6
  <2>2. in_use[i] \notin abandoned
    BY <1>1, <2>1 DEF TransientsAccounted
  <2>3. \A j \in k .. n : in_use[i] # in_use[j]
    BY <1>1, <1>6, <2>1 DEF TransientsAccounted
  <2> QED
    BY <1>2, <2>1, <2>2, <2>3
<1>11. cached_transient_arena' \notin abandoned'
  BY <1>1, <1>2, <1>6 DEF TransientsAccounted
<1>12. abandoned' \subseteq Transients
  BY <1>2, <1>4, <1>6 DEF EncodersTypeOK
<1> QED
  BY <1>2, <1>3, <1>8, <1>9, <1>10, <1>11, <1>12 DEF EncodersTypeOK, TransientsAccounted

LEMMA PreallocateArenaKeeps ==
    ASSUME EncodersTypeOK, TransientsAccounted, PreallocateArena
    PROVE  EncodersTypeOK' /\ TransientsAccounted'
<1> USE ArenaAssumption
<1>1. PICK a \in Transients \ transients :
        /\ transients' = transients \cup {a} /\ cached_transient_arena' = a
        /\ cached_transient_arena = NULL /\ in_use' = in_use /\ abandoned' = abandoned
  BY DEF PreallocateArena
<1>2. \A i \in DOMAIN in_use : in_use[i] # a
  BY <1>1 DEF TransientsAccounted
<1> QED
  BY <1>1, <1>2 DEF EncodersTypeOK, TransientsAccounted

-----------------------------------------------------------------------------
LEMMA ArenaIInvInitially == ArenaInit => ArenaIInv
<1> SUFFICES ASSUME ArenaInit PROVE ArenaIInv
  OBVIOUS
<1> USE ArenaAssumption
<1>1. BlockIInv
  BY BlockIInvInitially DEF ArenaInit
<1>2. NoSv \in Sv /\ NoObj \in Obj
  BY DEF NoSv, Sv, NoObj, Obj
<1>3. OwnershipTypeOK
  BY <1>2 DEF ArenaInit, OwnershipTypeOK, RawStates
<1>4. EncodersTypeOK /\ TransientsAccounted
  <2>1. in_use \in Seq(Transients) /\ DOMAIN in_use = {}
    BY DEF ArenaInit
  <2> QED
    BY <2>1 DEF ArenaInit, EncodersTypeOK, TransientsAccounted
<1>5. \A s \in Svs : /\ svs[s] = NoSv /\ svs[s].ptr = NULL
                     /\ svs[s].magic = NULL /\ ~svs[s].managed
  BY DEF ArenaInit, NoSv
<1>6. \A o \in Objs : objs[o] = NoObj
  BY DEF ArenaInit
<1>7. \A r \in Raws : raws[r] = "none" /\ frees[r] = 0
  BY DEF ArenaInit
<1>8. given = {}
  BY DEF ArenaInit
<1>9. Ownership
  BY <1>5, <1>6, <1>7, <1>8 DEF Ownership, DeadIsBlank, MagicIsPointer, PointersDiffer,
     LiveIsOwned, FreedOnce, WrappersAgree
<1>10. MadeTypeOK /\ LeaksWereBare
  BY <1>5, <1>7 DEF ArenaInit, MadeTypeOK, LeaksWereBare
<1> QED
  BY <1>1, <1>3, <1>4, <1>9, <1>10, PartsAreTyped DEF ArenaIInv, BlockIInv, Ownership

(* What each action does to the parts of the invariant. *)
LEMMA OwnershipSteps ==
    ASSUME OwnershipTypeOK, Ownership, BlockIInv, ArenaNext
    PROVE  OwnershipTypeOK' /\ Ownership'
<1>1. ASSUME NEW s \in Svs, NEW r \in Raws,
             \/ ArenaNew(s, r) \/ ArenaCreateRaw(s, r)
             \/ ArenaNewTmpfs(s, r) \/ ArenaAttachTmpfs(s, r)
             \/ \E o \in Objs : NewMessage(o, s, r)
      PROVE  OwnershipTypeOK' /\ Ownership'
  BY <1>1, MakersKeep
<1>2. ASSUME NEW s \in Svs, NEW r \in Raws, NewMessageFails(s, r)
      PROVE  OwnershipTypeOK' /\ Ownership'
  BY <1>2, NewMessageFailsKeeps
<1>3. ASSUME NEW s \in Svs, NEW r \in Raws, Attach(s, r)
      PROVE  OwnershipTypeOK' /\ Ownership'
  BY <1>3, AttachKeeps
<1>4. ASSUME NEW o \in Objs, NEW s \in Svs,
             WrapObject(o, s) \/ AttachMessage(o, s, GetOffset(s, offset))
      PROVE  OwnershipTypeOK' /\ Ownership'
  BY <1>4, WrapObjectKeeps DEF AttachMessage
<1>5. ASSUME NEW o \in Objs, DropObject(o)
      PROVE  OwnershipTypeOK' /\ Ownership'
  BY <1>5, DropObjectKeeps
<1>6. ASSUME NEW s \in Svs, DropSv(s)
      PROVE  OwnershipTypeOK' /\ Ownership'
  BY <1>6, DropSvKeeps
<1>7. ASSUME NEW s \in Svs, Detach(s)
      PROVE  OwnershipTypeOK' /\ Ownership'
  BY <1>7, DetachKeeps
<1>8. ASSUME NEW r \in Raws, DestroyRaw(r)
      PROVE  OwnershipTypeOK' /\ Ownership'
  BY <1>8, DestroyRawKeeps
<1>9. CASE UseTmpfs \/ Acquire \/ Release \/ PreallocateArena
           \/ \E k \in DOMAIN in_use : EncodersDie(k)
  BY <1>9, OwnershipUnchanged DEF UseTmpfs, Acquire, Release, PreallocateArena, EncodersDie
<1> QED
  BY <1>1, <1>2, <1>3, <1>4, <1>5, <1>6, <1>7, <1>8, <1>9 DEF ArenaNext

LEMMA BlockSteps ==
    ASSUME OwnershipTypeOK, Ownership, BlockIInv, ArenaNext
    PROVE  BlockIInv'
<1>1. CASE UNCHANGED blockVars
  BY <1>1, BlockIInvInductive
<1>2. CASE \E s \in Svs, r \in Raws : ArenaAttachTmpfs(s, r)
  BY <1>2, FullRegionKeeps DEF ArenaAttachTmpfs
<1>3. CASE \E o \in Objs : DropObject(o)
  BY <1>3, DropObjectKeeps
<1>4. CASE \E s \in Svs : DropSv(s)
  BY <1>4, DropSvKeeps
<1>5. CASE \E r \in Raws : DestroyRaw(r)
  BY <1>5, FreeRawsKeepsBlocks DEF DestroyRaw
<1>6. CASE UseTmpfs
  BY <1>6, BlockIInvInductive DEF UseTmpfs
<1>7. ArenaNext => \/ UNCHANGED blockVars
                   \/ \E s \in Svs, r \in Raws : ArenaAttachTmpfs(s, r)
                   \/ \E o \in Objs : DropObject(o)
                   \/ \E s \in Svs : DropSv(s)
                   \/ \E r \in Raws : DestroyRaw(r)
                   \/ UseTmpfs
  BY DEF ArenaNext, ArenaNew, ArenaCreateRaw, ArenaNewTmpfs, NewMessageFails, Attach, NewMessage,
     WrapObject, AttachMessage, Detach, Acquire, Release, PreallocateArena, EncodersDie
<1> QED
  BY <1>1, <1>2, <1>3, <1>4, <1>5, <1>6, <1>7

LEMMA EncoderSteps ==
    ASSUME EncodersTypeOK, TransientsAccounted, ArenaNext
    PROVE  EncodersTypeOK' /\ TransientsAccounted'
<1>1. CASE UNCHANGED encoders
  BY <1>1, EncodersUnchanged
<1>2. ArenaNext => \/ UNCHANGED encoders \/ Acquire \/ Release \/ PreallocateArena
                   \/ \E k \in DOMAIN in_use : EncodersDie(k)
  BY DEF ArenaNext, ArenaNew, ArenaCreateRaw, ArenaNewTmpfs, ArenaAttachTmpfs, NewMessageFails,
     Attach, NewMessage, WrapObject, AttachMessage, DropObject, DropSv, Detach, DestroyRaw,
     UseTmpfs
<1> QED
  BY <1>1, <1>2, AcquireKeeps, ReleaseKeeps, PreallocateArenaKeeps, EncodersDieKeeps

(* ArenaIInv is inductive: every call of arena.c and arena_tmpfs.c, every   *)
(* reference that goes, and every step of the allocator and the encoders   *)
(* keeps it.                                                               *)
THEOREM ArenaIInvInductive == ArenaIInv /\ [ArenaNext]_arenaVars => ArenaIInv'
<1> SUFFICES ASSUME ArenaIInv, [ArenaNext]_arenaVars PROVE ArenaIInv'
  OBVIOUS
<1>1. /\ FreedOnce /\ MadeTypeOK
      /\ BlockIInv /\ Ownership /\ LeaksWereBare /\ TransientsAccounted
  BY DEF ArenaIInv, Ownership, ArenaTypeOK, MadeTypeOK
<1>2. OwnershipTypeOK /\ EncodersTypeOK
  BY <1>1, PartsAreTyped DEF ArenaIInv
<1>3. /\ MadeTypeOK' /\ LeaksWereBare'
      /\ OwnershipTypeOK' /\ Ownership' /\ BlockIInv'
      /\ EncodersTypeOK' /\ TransientsAccounted'
  <2>1. CASE ArenaNext
    BY <2>1, <1>1, <1>2, BareSteps, OwnershipSteps, BlockSteps, EncoderSteps
  <2>2. CASE UNCHANGED arenaVars
    <3>1. MadeTypeOK' /\ LeaksWereBare'
      BY <2>2, <1>1 DEF arenaVars, ownership, made, MadeTypeOK, LeaksWereBare
    <3> QED
      BY <2>2, <3>1, <1>1, <1>2, OwnershipUnchanged, EncodersUnchanged, BlockIInvInductive
         DEF arenaVars
  <2> QED
    BY <2>1, <2>2
<1>4. ArenaTypeOK' <=> BlockTypeOK' /\ OwnershipTypeOK' /\ EncodersTypeOK'
  <2>1. FreedOnce'
    BY <1>3 DEF Ownership
  <2>2. frees' \in [Raws -> Nat] <=> frees' \in [Raws -> 0 .. 2]
    BY <2>1 DEF FreedOnce
  <2> QED
    BY <1>3, <2>2 DEF ArenaTypeOK, OwnershipTypeOK, EncodersTypeOK, MadeTypeOK, Sv, Obj
<1> QED
  BY <1>3, <1>4 DEF ArenaIInv, BlockIInv

LEMMA ArenaIInvAlways == ArenaSpec => []ArenaIInv
BY ArenaIInvInitially, ArenaIInvInductive, PTL DEF ArenaSpec

(* However svs, wrappers and callers pass arenas about: a live arena has    *)
(* one owner, a dead one none, PerlUpb_Arena_DestroyRaw frees each at most *)
(* once, between DEMOLISH and the magic's destructor as well, and none is  *)
(* lost that wrap_arena_internal first gave magic to.                      *)
THEOREM ArenasHaveOneOwner == ArenaSpec => []OneOwner
<1>1. ArenaIInv => OneOwner
  <2> SUFFICES ASSUME ArenaIInv, NEW r \in Raws
               PROVE  /\ Cardinality(Owners(r)) = (IF raws[r] = "live" THEN 1 ELSE 0)
                      /\ frees[r] <= 1
    BY DEF OneOwner, ArenaIInv, LeaksWereBare
  <2> USE ArenaAssumption
  <2>1. FreedOnce /\ LiveIsOwned /\ PointersDiffer
    BY DEF ArenaIInv, Ownership
  <2>2. frees[r] <= 1
    BY <2>1 DEF FreedOnce
  <2>3. CASE r \in given
    <3>1. raws[r] = "live" /\ Owners(r) = {r}
      BY <2>1, <2>3 DEF LiveIsOwned, PointersDiffer, Owners
    <3>2. Cardinality({r}) = 1
      BY FS_Singleton
    <3> QED
      BY <2>2, <3>1, <3>2
  <2>4. CASE r \notin given /\ \E s \in Svs : svs[s].ptr = r
    <3>1. PICK s \in Svs : svs[s].ptr = r
      BY <2>4
    <3>2. raws[r] = "live" /\ Owners(r) = {s}
      BY <2>1, <2>4, <3>1 DEF LiveIsOwned, PointersDiffer, Owners
    <3>3. Cardinality({s}) = 1
      BY FS_Singleton
    <3> QED
      BY <2>2, <3>2, <3>3
  <2>5. CASE r \notin given /\ \A s \in Svs : svs[s].ptr # r
    <3>1. raws[r] # "live" /\ Owners(r) = {}
      BY <2>1, <2>5 DEF LiveIsOwned, Owners
    <3>2. Cardinality({}) = 0
      BY FS_EmptySet
    <3> QED
      BY <2>2, <3>1, <3>2
  <2> QED
    BY <2>3, <2>4, <2>5
<1> QED
  BY <1>1, ArenaIInvAlways, PTL

(* The reference PerlUpb_WrapArenaBoundObject takes is enough: no wrapper's *)
(* memory is freed under it, unless its arena was detached.                *)
THEOREM WrappersKeepTheirArena == ArenaSpec => []ObjectsKeepArena
<1>1. ArenaIInv => ObjectsKeepArena
  <2> SUFFICES ASSUME ArenaIInv, NEW o \in Objs, objs[o].raw # NULL, objs[o].raw \notin detached
               PROVE  raws[objs[o].raw] = "live"
    BY DEF ObjectsKeepArena
  <2>1. objs[o] # NoObj
    BY DEF NoObj
  <2>2. objs[o].sv \in Svs /\ objs[o].raw \in Raws /\ objs[o].raw = svs[objs[o].sv].ptr
    BY <2>1 DEF ArenaIInv, Ownership, WrappersAgree
  <2> QED
    BY <2>2 DEF ArenaIInv, Ownership, LiveIsOwned
<1> QED
  BY <1>1, ArenaIInvAlways, PTL

(* PerlUpb_Arena_Acquire and _Release, however deep encoders call one       *)
(* another and wherever a die ends them: no arena is shared, none is lost  *)
(* but those of the encoders that were ended, and these stay lost.         *)
THEOREM OnlyDiesLoseTransients == ArenaSpec => []TransientsAccounted
<1>1. ArenaIInv => TransientsAccounted
  BY DEF ArenaIInv
<1> QED
  BY <1>1, ArenaIInvAlways, PTL

(* The allocator's promises hold inside the arena as well, where freeing    *)
(* the struct verifies and gives back every block, and attach_tmpfs takes  *)
(* the whole region.                                                       *)
THEOREM TmpfsArenaIsSound == ArenaSpec => [](BlocksApart /\ CorruptionIsFound)
<1>1. ArenaIInv => BlocksApart /\ CorruptionIsFound
  BY DEF ArenaIInv, BlockIInv
<1> QED
  BY <1>1, ArenaIInvAlways, PTL

-----------------------------------------------------------------------------
(* The audit log implements AuditLogSpec. *)

(* The constants, as the provers need them. *)
LEMMA Size == AUDIT_LOG_SIZE \in Nat /\ AUDIT_LOG_SIZE > 0
  BY AuditLogAssumption

USE Size

(* The remainder of a number below twice the divisor: what the code's       *)
(* indices, the sum of a slot and a count, are made of.                    *)
LEMMA ModOnce ==
    ASSUME NEW n \in Nat, n > 0, NEW x \in Nat, x < n + n
    PROVE  x % n = IF x < n THEN x ELSE x - n
  OBVIOUS

(* The slot i places after slot h, without the remainder. *)
LEMMA RingIndex ==
    ASSUME NEW h \in Slots, NEW i \in 0 .. AUDIT_LOG_SIZE
    PROVE  /\ (h + i) % AUDIT_LOG_SIZE =
                  IF h + i < AUDIT_LOG_SIZE THEN h + i ELSE h + i - AUDIT_LOG_SIZE
           /\ (h + i) % AUDIT_LOG_SIZE \in Slots
  <1>1. h \in Nat /\ h < AUDIT_LOG_SIZE /\ i \in Nat /\ i <= AUDIT_LOG_SIZE
    BY DEF Slots
  <1> DEFINE x == h + i
  <1>2. x \in Nat /\ x < AUDIT_LOG_SIZE + AUDIT_LOG_SIZE
    BY <1>1
  <1> HIDE DEF x
  <1>3. x % AUDIT_LOG_SIZE = IF x < AUDIT_LOG_SIZE THEN x ELSE x - AUDIT_LOG_SIZE
    BY <1>2, ModOnce
  <1>4. x % AUDIT_LOG_SIZE \in Slots
    BY <1>2, <1>3 DEF Slots
  <1> QED
    BY <1>1, <1>3, <1>4 DEF x

(* The slot of the i-th entry without the remainder. *)
LEMMA SlotOnce ==
    ASSUME LogTypeOK, NEW i \in 0 .. AUDIT_LOG_SIZE
    PROVE  /\ Slot(i) = IF head + i < AUDIT_LOG_SIZE THEN head + i ELSE head + i - AUDIT_LOG_SIZE
           /\ Slot(i) \in Slots
  BY RingIndex DEF LogTypeOK, Slot

(* The same for the slot a step leaves behind. *)
LEMMA NextSlotOnce ==
    ASSUME LogTypeOK', NEW i \in 0 .. AUDIT_LOG_SIZE
    PROVE  Slot(i)' = IF head' + i < AUDIT_LOG_SIZE THEN head' + i ELSE head' + i - AUDIT_LOG_SIZE
  <1>1. head' \in Slots
    BY DEF LogTypeOK
  <1> QED
    BY <1>1, RingIndex DEF Slot

(* Less than a round apart, two entries are in different slots. *)
LEMMA SlotsDistinct ==
    ASSUME LogTypeOK, NEW i \in 0 .. AUDIT_LOG_SIZE, NEW j \in 0 .. AUDIT_LOG_SIZE,
           i < j, j - i < AUDIT_LOG_SIZE
    PROVE  Slot(i) # Slot(j)
  <1>1. Slot(i) = IF head + i < AUDIT_LOG_SIZE THEN head + i ELSE head + i - AUDIT_LOG_SIZE
    BY SlotOnce
  <1>2. Slot(j) = IF head + j < AUDIT_LOG_SIZE THEN head + j ELSE head + j - AUDIT_LOG_SIZE
    BY SlotOnce
  <1>3. head \in Int /\ AUDIT_LOG_SIZE \in Int /\ i \in Int /\ j \in Int
    BY DEF LogTypeOK, Slots
  <1> QED
    BY <1>1, <1>2, <1>3

(* The copy of the ring is a sequence of events as long as the count. *)
LEMMA ContentsAreEvents ==
    ASSUME LogIInv
    PROVE  Contents \in Seq(Events) /\ Len(Contents) = count
  <1>1. Contents \in [1 .. count -> Events]
    BY DEF LogIInv, UsedAreWritten, Contents
  <1> QED
    BY <1>1 DEF LogIInv, LogTypeOK, Contents

(* When the ring is full the head moves on, and every entry is one place    *)
(* nearer to it.                                                           *)
LEMMA HeadMovesOn ==
    ASSUME LogIInv, LogTypeOK', NEW e \in Events, LogEvent(e), count = AUDIT_LOG_SIZE,
           NEW i \in 0 .. AUDIT_LOG_SIZE, i - 1 \in 0 .. AUDIT_LOG_SIZE
    PROVE  Slot(i - 1)' = Slot(i)
  <1>1. Slot(1) = IF head + 1 < AUDIT_LOG_SIZE THEN head + 1 ELSE head + 1 - AUDIT_LOG_SIZE
    BY SlotOnce DEF LogIInv
  <1>2. Slot(i) = IF head + i < AUDIT_LOG_SIZE THEN head + i ELSE head + i - AUDIT_LOG_SIZE
    BY SlotOnce DEF LogIInv
  <1>3. Slot(i - 1)' = IF head' + (i - 1) < AUDIT_LOG_SIZE
                       THEN head' + (i - 1) ELSE head' + (i - 1) - AUDIT_LOG_SIZE
    BY NextSlotOnce
  <1> QED
    BY <1>1, <1>2, <1>3 DEF LogEvent, LogIInv, LogTypeOK, Slots

(* LogEvent keeps the ring well formed and its used slots written. *)
LEMMA LogEventKeepsIInv ==
    ASSUME LogIInv, NEW e \in Events, LogEvent(e)
    PROVE  LogIInv'
  <1>1. Slot(count) \in Slots /\ Slot(1) \in Slots
    BY SlotOnce DEF LogIInv, LogTypeOK
  <1>2. LogTypeOK'
    BY <1>1 DEF LogIInv, LogTypeOK, LogEvent, Slots
  <1>3. ASSUME NEW i \in 1 .. count'
        PROVE  entries'[Slot(i - 1)'] \in Events
    <2>1. /\ i \in 0 .. AUDIT_LOG_SIZE
          /\ i - 1 \in 0 .. AUDIT_LOG_SIZE
          /\ count \in 0 .. AUDIT_LOG_SIZE
          /\ 1 \in 0 .. AUDIT_LOG_SIZE
      BY <1>2 DEF LogIInv, LogTypeOK
    <2>2. Slot(i) \in Slots /\ Slot(i - 1) \in Slots
      BY <2>1, SlotOnce DEF LogIInv
    <2>3. CASE count = AUDIT_LOG_SIZE
      <3>1. Slot(i - 1)' = Slot(i)
        BY <1>2, <2>1, <2>3, HeadMovesOn
      <3>2. CASE i = count
        BY <3>1, <3>2, <1>1 DEF LogIInv, LogTypeOK, LogEvent
      <3>3. CASE i # count
        <4>1. i + 1 \in 1 .. count /\ (i + 1) - 1 = i
          BY <2>1, <2>3, <3>3
        <4>2. entries[Slot(i)] \in Events
          BY <4>1 DEF LogIInv, UsedAreWritten
        <4> QED
          BY <4>2, <3>1, <2>2 DEF LogIInv, LogTypeOK, LogEvent
      <3> QED BY <3>2, <3>3
    <2>4. CASE count # AUDIT_LOG_SIZE
      <3>1. Slot(i - 1)' = Slot(i - 1) /\ count' = count + 1
        BY <2>4 DEF LogEvent, Slot
      <3>2. CASE i = count + 1
        <4>1. Slot(i - 1)' = Slot(count)
          BY <3>1, <3>2, <2>1
        <4> QED
          BY <4>1, <1>1 DEF LogIInv, LogTypeOK, LogEvent
      <3>3. CASE i # count + 1
        <4>1. i \in 1 .. count
          BY <3>1, <3>3, <2>1
        <4>2. entries[Slot(i - 1)] \in Events
          BY <4>1 DEF LogIInv, UsedAreWritten
        <4> QED
          BY <4>2, <3>1, <2>2 DEF LogIInv, LogTypeOK, LogEvent
      <3> QED BY <3>2, <3>3
    <2> QED BY <2>3, <2>4
  <1> QED
    BY <1>2, <1>3 DEF LogIInv, UsedAreWritten

(* The ring is well formed and its used slots are written, through every   *)
(* operation (LogEvent, Clear and GetAuditLog of obj_cache.c).             *)
THEOREM LogInvariance == LogSpec => []LogIInv
  <1>1. LogInit => LogIInv
    <2> SUFFICES ASSUME LogInit PROVE LogIInv
      OBVIOUS
    <2>1. LogTypeOK
      <3>1. answer \in Seq(Events)
        BY DEF LogInit
      <3>2. entries \in [Slots -> Events \cup {Zeroed}]
        BY DEF LogInit
      <3>3. head \in Slots /\ count \in 0 .. AUDIT_LOG_SIZE
        BY DEF LogInit, Slots
      <3>4. init \in BOOLEAN
        BY DEF LogInit
      <3> QED
        BY <3>1, <3>2, <3>3, <3>4 DEF LogTypeOK
    <2>2. UsedAreWritten
      BY DEF LogInit, UsedAreWritten
    <2> QED
      BY <2>1, <2>2 DEF LogIInv
  <1>2. LogIInv /\ [LogNext]_log_vars => LogIInv'
    <2> SUFFICES ASSUME LogIInv, [LogNext]_log_vars PROVE LogIInv'
      OBVIOUS
    <2>1. CASE ObjCacheInit
      BY <2>1 DEF ObjCacheInit, EnsureMutexesInit, LogIInv, LogTypeOK, UsedAreWritten, Slot
    <2>2. ASSUME NEW e \in Events, LogEvent(e) PROVE LogIInv'
      BY <2>2, LogEventKeepsIInv
    <2>3. CASE ClearLog
      BY <2>3 DEF ClearLog, EnsureMutexesInit, LogIInv, LogTypeOK, UsedAreWritten, Slots
    <2>4. CASE GetAuditLog
      BY <2>4, ContentsAreEvents DEF GetAuditLog, EnsureMutexesInit, LogIInv, LogTypeOK, UsedAreWritten, Slot
    <2>5. CASE UNCHANGED log_vars
      BY <2>5 DEF log_vars, LogIInv, LogTypeOK, UsedAreWritten, Slot
    <2> QED
      BY <2>1, <2>2, <2>3, <2>4, <2>5 DEF LogNext
  <1> QED
    BY <1>1, <1>2, PTL DEF LogSpec

(* The head stays on the ring, the count within it, and what get_audit_log  *)
(* returns consists of events that were recorded.                          *)
THEOREM LogTypeCorrect == LogSpec => []LogTypeOK
  <1>1. LogIInv => LogTypeOK
    BY DEF LogIInv
  <1> QED
    BY <1>1, LogInvariance, PTL

(* LogEvent appends to the abstract log, or displaces its oldest event. *)
LEMMA LogEventRecords ==
    ASSUME LogIInv, LogIInv', NEW e \in Events, LogEvent(e)
    PROVE  Contents' = IF Len(Contents) < AUDIT_LOG_SIZE
                       THEN Append(Contents, e)
                       ELSE Append(Tail(Contents), e)
  <1> DEFINE After == IF Len(Contents) < AUDIT_LOG_SIZE
                      THEN Append(Contents, e)
                      ELSE Append(Tail(Contents), e)
  <1>1. Contents \in Seq(Events) /\ Len(Contents) = count
    BY ContentsAreEvents
  <1>2. Contents' = [i \in 1 .. count' |-> entries'[Slot(i - 1)']]
    BY DEF Contents, Slot
  <1>3. After \in Seq(Events) /\ Len(After) = count'
    BY <1>1 DEF LogIInv, LogTypeOK, LogEvent
  <1>4. After = [i \in 1 .. count' |-> After[i]]
    BY <1>3
  <1>5. ASSUME NEW i \in 1 .. count'
        PROVE  entries'[Slot(i - 1)'] = After[i]
    <2>1. /\ i \in 0 .. AUDIT_LOG_SIZE
          /\ i - 1 \in 0 .. AUDIT_LOG_SIZE
          /\ count \in 0 .. AUDIT_LOG_SIZE
      BY DEF LogIInv, LogTypeOK
    <2>2. Slot(count) \in Slots /\ Slot(i) \in Slots /\ Slot(i - 1) \in Slots
      BY <2>1, SlotOnce DEF LogIInv
    <2>3. CASE count = AUDIT_LOG_SIZE
      <3>1. Slot(i - 1)' = Slot(i)
        BY <2>1, <2>3, HeadMovesOn DEF LogIInv
      <3>2. count' = count
        BY <2>3 DEF LogEvent
      <3>3. CASE i = count
        <4>1. After[i] = e
          BY <1>1, <2>3, <3>3 DEF LogIInv, LogTypeOK
        <4> QED
          BY <4>1, <3>1, <3>3, <2>2 DEF LogEvent, LogIInv, LogTypeOK
      <3>4. CASE i # count
        <4>1. i \in 1 .. count - 1
          BY <3>2, <3>4 DEF LogIInv, LogTypeOK
        <4>2. After[i] = Contents[i + 1]
          BY <1>1, <2>3, <4>1 DEF LogIInv, LogTypeOK
        <4>3. Contents[i + 1] = entries[Slot(i)]
          BY <4>1 DEF Contents, LogIInv, LogTypeOK
        <4>4. Slot(i) # Slot(count)
          BY <4>1, <2>1, SlotsDistinct DEF LogIInv
        <4> QED
          BY <4>2, <4>3, <4>4, <3>1, <2>2 DEF LogEvent, LogIInv, LogTypeOK
      <3> QED BY <3>3, <3>4
    <2>4. CASE count # AUDIT_LOG_SIZE
      <3>1. Slot(i - 1)' = Slot(i - 1) /\ count' = count + 1
        BY <2>4 DEF LogEvent, Slot
      <3>2. CASE i = count + 1
        <4>1. After[i] = e
          BY <1>1, <2>4, <2>1, <3>2
        <4>2. i - 1 = count
          BY <3>2, <2>1
        <4>3. Slot(i - 1)' = Slot(count)
          BY <4>2, <3>1
        <4> QED
          BY <4>1, <4>3, <2>2 DEF LogEvent, LogIInv, LogTypeOK
      <3>3. CASE i # count + 1
        <4>1. i \in 1 .. count
          BY <3>1, <3>3, <2>1
        <4>2. After[i] = Contents[i]
          BY <1>1, <2>4, <2>1, <4>1
        <4>3. Contents[i] = entries[Slot(i - 1)]
          BY <4>1 DEF Contents
        <4>4. Slot(i - 1) # Slot(count)
          <5>1. i - 1 < count /\ count - (i - 1) < AUDIT_LOG_SIZE
            BY <4>1, <2>1, <2>4
          <5> QED
            BY <5>1, <2>1, SlotsDistinct DEF LogIInv
        <4> QED
          BY <4>2, <4>3, <4>4, <3>1, <2>2 DEF LogEvent, LogIInv, LogTypeOK
      <3> QED BY <3>2, <3>3
    <2> QED BY <2>3, <2>4
  <1>6. Contents' = [i \in 1 .. count' |-> After[i]]
    BY <1>2, <1>5
  <1> QED
    BY <1>4, <1>6

(* The ring implements the bounded log: for any size and any events, what   *)
(* get_audit_log hands out is the last AUDIT_LOG_SIZE events since the last *)
(* clear, the oldest first.                                                *)
THEOREM RingImplementsLog == LogSpec => ImplementsAuditLog
  <1>1. LogInit => Abstract!Init
    BY DEF LogInit, Abstract!Init, Contents
  <1>2. LogIInv /\ LogIInv' /\ [LogNext]_log_vars => [Abstract!Next]_<<Contents, answer>>
    <2> SUFFICES ASSUME LogIInv, LogIInv', [LogNext]_log_vars
                 PROVE  [Abstract!Next]_<<Contents, answer>>
      OBVIOUS
    <2>1. CASE ObjCacheInit
      BY <2>1 DEF ObjCacheInit, Contents, Slot
    <2>2. ASSUME NEW e \in Events, LogEvent(e)
          PROVE  Abstract!Next
      <3>1. Abstract!Record(e)
        BY <2>2, LogEventRecords DEF Abstract!Record, LogEvent
      <3> QED
        BY <3>1 DEF Abstract!Next
    <2>3. CASE ClearLog
      <3>1. Contents' = << >>
        BY <2>3 DEF ClearLog, Contents
      <3> QED
        BY <2>3, <3>1 DEF ClearLog, Abstract!Next, Abstract!Reset
    <2>4. CASE GetAuditLog
      <3>1. Contents' = Contents
        BY <2>4 DEF GetAuditLog, Contents, Slot
      <3> QED
        BY <2>4, <3>1 DEF GetAuditLog, Abstract!Next, Abstract!Read
    <2>5. CASE UNCHANGED log_vars
      BY <2>5 DEF log_vars, Contents, Slot
    <2> QED
      BY <2>1, <2>2, <2>3, <2>4, <2>5 DEF LogNext
  <1> QED
    BY <1>1, <1>2, LogInvariance, PTL DEF LogSpec, ImplementsAuditLog, Abstract!Spec
=============================================================================
