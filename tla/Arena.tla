-------------------------------- MODULE Arena --------------------------------
(***************************************************************************)
(* xs/protobuf/arena.c and arena_tmpfs.c: who owns an arena and when it is *)
(* freed.  A Perl object of class Protobuf::Arena (an "sv" below) holds    *)
(* the address of a C struct (a "raw") twice: under the key _arena_ptr,    *)
(* and in the magic whose destructor frees the struct.  Messages,          *)
(* containers and other wrappers (xs/protobuf/utils.c) hold a reference to *)
(* the sv of the arena their memory is in.                                 *)
(*                                                                         *)
(* One of the arenas may be a tmpfs arena; BlockAlloc is its allocator.    *)
(* The transient arenas of the encoders are apart: they never have an sv.  *)
(***************************************************************************)
EXTENDS BlockAlloc, FiniteSets

CONSTANTS
    Svs,          \* Protobuf::Arena objects
    Raws,         \* PerlUpb_Arena and PerlUpb_Arena_Custom structs
    Objs,         \* objects whose memory is in an arena
    Transients,   \* upb arenas of the encoders
    MaxDepth,     \* bound: encoders at work inside one another
    NULL

ASSUME ArenaAssumption ==
    /\ NULL \notin Svs \cup Raws \cup Objs \cup Transients
    /\ MaxDepth \in Nat

VARIABLES
    svs,          \* the arena objects: [ptr, magic, managed, tmpfs, held]
    raws,         \* the structs: "none", "live", "freed", "leaking" or, with the
                  \* region of a tmpfs arena left mapped, "region_left"
    custom,       \* the struct that is the tmpfs arena's, or NULL
    bare,         \* the structs that were made for an sv without magic (history)
    objs,         \* the wrappers: [sv |-> _arena_sv, raw |-> where _upb_ptr is]
    given,        \* addresses detach() returned and attach() has not taken
    detached,     \* every struct that was detached once (history)
    frees,        \* how often each struct was freed (history)
    cached_transient_arena,
    transients,   \* the transient arenas that are allocated
    in_use,       \* the transient arenas of the encoders at work, as a stack
    abandoned     \* the transient arenas of encoders a die ended (history)

ownership == <<svs, raws, objs, given, detached, frees>>
made == <<custom, bare>>
encoders == <<cached_transient_arena, transients, in_use, abandoned>>
arenaVars == <<blockVars, ownership, made, encoders>>

NoSv == [ptr |-> NULL, magic |-> NULL, managed |-> FALSE, tmpfs |-> FALSE, held |-> FALSE]
RawStates == {"none", "live", "freed", "leaking", "region_left"}
NoObj == [sv |-> NULL, raw |-> NULL]

ArenaTypeOK ==
    /\ BlockTypeOK
    /\ svs \in [Svs -> [ptr : Raws \cup {NULL}, magic : Raws \cup {NULL},
                        managed : BOOLEAN, tmpfs : BOOLEAN, held : BOOLEAN]]
    /\ raws \in [Raws -> RawStates]
    /\ custom \in Raws \cup {NULL}
    /\ bare \subseteq Raws
    /\ objs \in [Objs -> [sv : Svs \cup {NULL}, raw : Raws \cup {NULL}]]
    /\ given \subseteq Raws
    /\ detached \subseteq Raws
    /\ frees \in [Raws -> 0 .. 2]
    /\ cached_transient_arena \in Transients \cup {NULL}
    /\ transients \subseteq Transients
    /\ in_use \in Seq(Transients)
    /\ abandoned \subseteq Transients

ArenaInit ==
    /\ BlockInit
    /\ svs = [s \in Svs |-> NoSv]
    /\ raws = [r \in Raws |-> "none"]
    /\ custom = NULL
    /\ bare = {}
    /\ objs = [o \in Objs |-> NoObj]
    /\ given = {}
    /\ detached = {}
    /\ frees = [r \in Raws |-> 0]
    /\ cached_transient_arena = NULL
    /\ transients = {}
    /\ in_use = << >>
    /\ abandoned = {}

-----------------------------------------------------------------------------
(* References.  An sv lives while the program or a wrapper refers to it.   *)

Holders(s) == {o \in Objs : objs[o].sv = s}
Alive(s) == svs[s].held \/ Holders(s) # {}

(* wrap_arena_internal: an sv with magic. *)
Wrapped(r, held) ==
    [ptr |-> r, magic |-> r, managed |-> TRUE, tmpfs |-> FALSE, held |-> held]

(* An sv made without it: the Moo constructor, new_tmpfs, attach_tmpfs. *)
Bare(r, tmpfs) ==
    [ptr |-> r, magic |-> NULL, managed |-> FALSE, tmpfs |-> tmpfs, held |-> TRUE]

(* PerlUpb_Arena_Destroy, called by DEMOLISH when the last reference goes:  *)
(* without magic it frees nothing.                                         *)
DestroyFrees(sv) == IF sv.managed THEN {sv.ptr} \ {NULL} ELSE {}

(* Faulty variant: Destroy leaves the magic's pointer as it is.            *)
Faulty_MagicAfterDestroy(sv) == sv.magic

(* It clears the magic's pointer, ... *)
MagicAfterDestroy(sv) == NULL

(* ... so that arena_cleanup, which runs next, finds nothing to free. *)
CleanupFrees(sv) == {MagicAfterDestroy(sv)} \ {NULL}

(* PerlUpb_Arena_DestroyRaw.  The tmpfs arena gets here only without its    *)
(* flag, after attach(): its blocks are verified one by one as the upb     *)
(* arena frees them, and a croak leaves the struct behind.  The region,     *)
(* the descriptor and the allocator are left in any case: only             *)
(* PerlUpb_Arena_DestroyRaw_Tmpfs, which is never reached, frees them.     *)
BlocksFound(r) ==
    IF custom # r \/ poisoned THEN "sound"
    ELSE IF \E i \in DOMAIN blocks : blocks[i].live /\ ~Intact(blocks[i].at, blocks[i].size)
         THEN "corrupt" ELSE "sound"

AfterFree(r) ==
    IF BlocksFound(r) = "corrupt" THEN "leaking"
    ELSE IF custom = r THEN "region_left" ELSE "freed"

FreeRaws(rs, again) ==
    /\ raws' = [r \in Raws |-> IF r \in rs \cup again THEN AfterFree(r) ELSE raws[r]]
    /\ frees' = [r \in Raws |-> frees[r] + (IF r \in rs THEN 1 ELSE 0)
                                         + (IF r \in again THEN 1 ELSE 0)]
    /\ IF custom \in rs
       THEN /\ poisoned' = (poisoned \/ BlocksFound(custom) = "corrupt")
            /\ blocks' = IF poisoned' THEN blocks
                         ELSE [i \in DOMAIN blocks |-> [blocks[i] EXCEPT !.live = FALSE]]
            /\ UNCHANGED <<offset, mem, overrun>>
       ELSE UNCHANGED blockVars

(* The struct of an sv without magic is never freed. *)
Forgotten(sv) == IF sv.managed THEN {} ELSE {sv.ptr} \ {NULL}

(* The references to s that remain decide whether it is destroyed. *)
Unreferenced(s, svs1, objs1) ==
    ~svs1[s].held /\ \A o \in Objs : objs1[o].sv # s

Drop(s, svs1, objs1) ==
    /\ objs' = objs1
    /\ IF Unreferenced(s, svs1, objs1)
       THEN /\ svs' = [svs1 EXCEPT ![s] = NoSv]
            /\ IF svs1[s].managed
               THEN FreeRaws(DestroyFrees(svs1[s]), CleanupFrees(svs1[s]))
               ELSE /\ raws' = [r \in Raws |->
                                  IF r \in Forgotten(svs1[s]) THEN "leaking" ELSE raws[r]]
                    /\ UNCHANGED <<frees, blockVars>>
       ELSE /\ svs' = svs1
            /\ UNCHANGED <<raws, frees, blockVars>>

-----------------------------------------------------------------------------
(* Making arenas. *)

Make(s, r, sv) ==
    /\ ~Alive(s)
    /\ raws[r] = "none"
    /\ svs' = [svs EXCEPT ![s] = sv]
    /\ raws' = [raws EXCEPT ![r] = "live"]
    /\ UNCHANGED <<given, detached, frees>>

(* PerlUpb_Arena_New, and PerlUpb_Arena_WrapRaw for a upb arena of C's own. *)
ArenaNew(s, r) ==
    /\ Make(s, r, Wrapped(r, TRUE))
    /\ UNCHANGED <<objs, made, blockVars, encoders>>

(* Protobuf::Arena->new: the Moo constructor around PerlUpb_Arena_CreateRaw *)
ArenaCreateRaw(s, r) ==
    /\ Make(s, r, Bare(r, FALSE))
    /\ bare' = bare \cup {r}
    /\ UNCHANGED <<objs, custom, blockVars, encoders>>

(* PerlUpb_Arena_NewTmpfs, the region empty; PerlUpb_Arena_AttachTmpfs, the *)
(* region full, so that no block is ever handed out.                       *)
ArenaNewTmpfs(s, r) ==
    /\ custom = NULL
    /\ Make(s, r, Bare(r, TRUE))
    /\ custom' = r
    /\ bare' = bare \cup {r}
    /\ UNCHANGED <<objs, blockVars, encoders>>

ArenaAttachTmpfs(s, r) ==
    /\ custom = NULL
    /\ Make(s, r, Bare(r, TRUE))
    /\ custom' = r
    /\ bare' = bare \cup {r}
    /\ offset' = RegionSize
    /\ UNCHANGED <<objs, poisoned, mem, blocks, overrun, encoders>>

(* Faulty variant: the wrapper does not take a reference to the arena.     *)
Faulty_NewMessage(o, s, r) ==
    /\ objs[o] = NoObj
    /\ Make(s, r, Wrapped(r, TRUE))
    /\ objs' = [objs EXCEPT ![o] = [sv |-> NULL, raw |-> r]]
    /\ UNCHANGED <<made, blockVars, encoders>>

(* PerlUpb_Message_NewMessage: an arena whose only reference is the new     *)
(* wrapper's.                                                              *)
NewMessage(o, s, r) ==
    /\ objs[o] = NoObj
    /\ Make(s, r, Wrapped(r, FALSE))
    /\ objs' = [objs EXCEPT ![o] = [sv |-> s, raw |-> r]]
    /\ UNCHANGED <<made, blockVars, encoders>>

(* The same when the message cannot be allocated (chaos, a poisoned         *)
(* allocator, no mini table): the arena is made and freed again.           *)
NewMessageFails(s, r) ==
    /\ ~Alive(s)
    /\ raws[r] = "none"
    /\ raws' = [raws EXCEPT ![r] = "freed"]
    /\ frees' = [frees EXCEPT ![r] = 1]
    /\ UNCHANGED <<svs, objs, given, detached, made, blockVars, encoders>>

(* PerlUpb_Arena_Get: nothing when the arena was detached. *)
ArenaGet(s) == IF Alive(s) THEN svs[s].ptr ELSE NULL

(* PerlUpb_WrapArenaBoundObject with the arena of an object or of the       *)
(* caller: submessages and containers.                                     *)
WrapObject(o, s) ==
    /\ objs[o] = NoObj
    /\ ArenaGet(s) # NULL
    /\ objs' = [objs EXCEPT ![o] = [sv |-> s, raw |-> ArenaGet(s)]]
    /\ UNCHANGED <<svs, raws, given, detached, frees, made, blockVars, encoders>>

(* PerlUpb_Arena_IsTmpfs *)
IsTmpfs(s) == svs[s].tmpfs

(* PerlUpb_Arena_GetOffset: 0 also for what is not in a tmpfs region. *)
GetOffset(s, at) == IF IsTmpfs(s) /\ at < RegionSize THEN at ELSE 0

(* PerlUpb_Arena_AttachMessage: a message at an offset of a tmpfs region,   *)
(* whatever lies there.  The offset is compared with the end of the region *)
(* only.  After detach the struct is gone, and the call with it.           *)
AttachMessage(o, s, off) ==
    /\ IsTmpfs(s)
    /\ off < RegionSize
    /\ WrapObject(o, s)

-----------------------------------------------------------------------------
(* Losing them. *)

DropObject(o) ==
    /\ objs[o].sv # NULL
    /\ Drop(objs[o].sv, svs, [objs EXCEPT ![o] = NoObj])
    /\ UNCHANGED <<given, detached, made, encoders>>

DropSv(s) ==
    /\ svs[s].held
    /\ Drop(s, [svs EXCEPT ![s].held = FALSE], objs)
    /\ UNCHANGED <<given, detached, made, encoders>>

(* PerlUpb_Arena_Detach: the address leaves the sv and goes to the caller. *)
Detach(s) ==
    /\ svs[s].held
    /\ svs[s].ptr # NULL
    /\ given' = given \cup {svs[s].ptr}
    /\ detached' = detached \cup {svs[s].ptr}
    /\ svs' = [svs EXCEPT ![s].ptr = NULL, ![s].magic = NULL]
    /\ UNCHANGED <<raws, objs, frees, made, blockVars, encoders>>

(* PerlUpb_Arena_Attach, of an address the caller was given: always as a    *)
(* managed arena, tmpfs or not.                                            *)
Attach(s, r) ==
    /\ ~Alive(s)
    /\ r \in given
    /\ given' = given \ {r}
    /\ svs' = [svs EXCEPT ![s] = Wrapped(r, TRUE)]
    /\ UNCHANGED <<raws, objs, detached, frees, made, blockVars, encoders>>

(* PerlUpb_Arena_DestroyRaw of an address the caller was given. *)
DestroyRaw(r) ==
    /\ r \in given
    /\ given' = given \ {r}
    /\ FreeRaws({r}, {})
    /\ UNCHANGED <<svs, objs, detached, made, encoders>>

(* The tmpfs arena at work: what upb and the owners of the blocks do.       *)
UseTmpfs ==
    /\ custom # NULL
    /\ raws[custom] = "live"
    /\ BlockNext
    /\ UNCHANGED <<ownership, made, encoders>>

-----------------------------------------------------------------------------
(* Transient arenas (PerlUpb_Arena_Acquire, PerlUpb_Arena_Release): every   *)
(* encoder takes one at its start and gives it back when it returns or     *)
(* croaks.  PerlIO_write may call Perl code (a layer of the handle that is *)
(* written in Perl), and so another encoder, and that code may die.        *)

(* Faulty variant: the cached arena stays in the cache.                    *)
Faulty_Acquire ==
    /\ Len(in_use) < MaxDepth
    /\ IF cached_transient_arena # NULL
       THEN /\ in_use' = Append(in_use, cached_transient_arena)
            /\ UNCHANGED <<cached_transient_arena, transients>>
       ELSE \E a \in Transients \ transients :
               /\ transients' = transients \cup {a}
               /\ in_use' = Append(in_use, a)
               /\ UNCHANGED cached_transient_arena
    /\ UNCHANGED <<abandoned, blockVars, ownership, made>>

(* The cached arena is taken out of the cache; without one, a new one. *)
Acquire ==
    /\ Len(in_use) < MaxDepth
    /\ IF cached_transient_arena # NULL
       THEN /\ in_use' = Append(in_use, cached_transient_arena)
            /\ cached_transient_arena' = NULL
            /\ UNCHANGED transients
       ELSE \E a \in Transients \ transients :
               /\ transients' = transients \cup {a}
               /\ in_use' = Append(in_use, a)
               /\ UNCHANGED cached_transient_arena
    /\ UNCHANGED <<abandoned, blockVars, ownership, made>>

(* Freed, whether the cache is empty or not. *)
Release ==
    /\ in_use # << >>
    /\ transients' = transients \ {in_use[Len(in_use)]}
    /\ in_use' = SubSeq(in_use, 1, Len(in_use) - 1)
    /\ UNCHANGED <<cached_transient_arena, abandoned, blockVars, ownership, made>>

(* A die inside PerlIO_write unwinds to the nearest eval, past the encoder  *)
(* itself and any others it is nested in: none of them releases its arena. *)
EncodersDie(k) ==
    /\ abandoned' = abandoned \cup {in_use[i] : i \in k .. Len(in_use)}
    /\ in_use' = SubSeq(in_use, 1, k - 1)
    /\ UNCHANGED <<cached_transient_arena, transients, blockVars, ownership, made>>

(* PerlUpb_Registry_PreallocateArena fills the cache when it is empty. *)
PreallocateArena ==
    /\ cached_transient_arena = NULL
    /\ \E a \in Transients \ transients :
          /\ transients' = transients \cup {a}
          /\ cached_transient_arena' = a
    /\ UNCHANGED <<in_use, abandoned, blockVars, ownership, made>>

-----------------------------------------------------------------------------
ArenaNext ==
    \/ \E s \in Svs, r \in Raws :
          \/ ArenaNew(s, r)
          \/ ArenaCreateRaw(s, r)
          \/ ArenaNewTmpfs(s, r)
          \/ ArenaAttachTmpfs(s, r)
          \/ NewMessageFails(s, r)
          \/ Attach(s, r)
          \/ \E o \in Objs : NewMessage(o, s, r)
    \/ \E o \in Objs, s \in Svs : WrapObject(o, s) \/ AttachMessage(o, s, GetOffset(s, offset))
    \/ \E o \in Objs : DropObject(o)
    \/ \E s \in Svs : DropSv(s) \/ Detach(s)
    \/ \E r \in Raws : DestroyRaw(r)
    \/ UseTmpfs
    \/ Acquire
    \/ Release
    \/ \E k \in DOMAIN in_use : EncodersDie(k)
    \/ PreallocateArena

ArenaSpec == ArenaInit /\ [][ArenaNext]_arenaVars

-----------------------------------------------------------------------------
(* Properties. *)

(* Who may free a struct: an sv that has its address, or the caller that    *)
(* detach() gave it to.                                                    *)
Owners(r) == {s \in Svs : svs[s].ptr = r} \cup (IF r \in given THEN {r} ELSE {})

(* An arena has one owner while it lives and none when it is freed, however *)
(* often it is detached and attached: it is freed at most once, and one    *)
(* that was made for an sv with magic is never lost, by whatever path it   *)
(* came to its last owner.                                                 *)
OneOwner ==
    \A r \in Raws :
        /\ Cardinality(Owners(r)) = (IF raws[r] = "live" THEN 1 ELSE 0)
        /\ frees[r] <= 1
        /\ raws[r] \in {"leaking", "region_left"} => r \in bare

(* DEMOLISH frees the arena and all memory associated with it when the      *)
(* Perl object is destroyed, as Arena.pm says of every Protobuf::Arena.    *)
(* False of the ones without magic, which Protobuf::Arena->new makes.      *)
ArenasAreFreed ==
    \A r \in Raws : Owners(r) = {} => raws[r] \in {"none", "freed"}

(* The memory of a message or container outlives every wrapper of it: the   *)
(* wrappers keep the arena alive when the program and the first message    *)
(* have let go.  Detaching is the one way to break it.                     *)
ObjectsKeepArena ==
    \A o \in Objs :
        objs[o].raw # NULL => raws[objs[o].raw] = "live" \/ objs[o].raw \in detached

(* An arena in the cache is nobody's and no two encoders share one; of the  *)
(* transient arenas that are allocated only those of encoders a die ended  *)
(* are lost, and none of these comes back as the arena of another encoder. *)
TransientsAccounted ==
    /\ transients = {in_use[i] : i \in DOMAIN in_use}
                       \cup ({cached_transient_arena} \ {NULL}) \cup abandoned
    /\ \A i \in DOMAIN in_use : in_use[i] \notin abandoned
    /\ cached_transient_arena \notin abandoned
    /\ \A i, j \in DOMAIN in_use : in_use[i] = in_use[j] => i = j
    /\ \A i \in DOMAIN in_use : in_use[i] # cached_transient_arena
=============================================================================
