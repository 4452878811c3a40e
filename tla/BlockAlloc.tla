----------------------------- MODULE BlockAlloc ------------------------------
(***************************************************************************)
(* xs/protobuf/arena_tmpfs.c, PerlUpb_BlockAlloc_Func: the linear          *)
(* allocator of a tmpfs arena.  It hands out pieces of one region, front   *)
(* to back, each between two canaries (xs/protobuf/arena.h); a canary that *)
(* is found overwritten poisons the allocator for good.                    *)
(*                                                                         *)
(* The region is modelled byte by byte, but a byte is only "pattern" (what *)
(* a canary is made of) or "data".  The guard page mode of RAM arenas maps *)
(* every block by itself and keeps none of this state; it is left out.     *)
(***************************************************************************)
EXTENDS Integers, Sequences

CONSTANTS
    RegionSize,   \* b->size, the bytes of the mapped file
    Sizes,        \* the sizes the arena asks for
    MaxBlocks     \* bound: blocks handed out

CanarySize == 16  \* PERL_UPB_CANARY_SIZE

ASSUME BlockAllocAssumption ==
    /\ RegionSize \in Nat
    /\ Sizes \subseteq Nat \ {0}
    /\ MaxBlocks \in Nat

VARIABLES
    offset,       \* b->offset, where the next block begins
    poisoned,     \* b->poisoned
    mem,          \* the bytes of b->region
    blocks,       \* the blocks handed out: [at |-> first byte, size, live]
    overrun       \* the blocks whose owner wrote beside them (history)

blockVars == <<offset, poisoned, mem, blocks, overrun>>

Bytes == 0 .. RegionSize - 1
Block == [at : Nat, size : Nat, live : BOOLEAN]

BlockTypeOK ==
    /\ offset \in Nat
    /\ poisoned \in BOOLEAN
    /\ mem \in [Bytes -> {"pattern", "data"}]
    /\ blocks \in Seq(Block)
    /\ overrun \subseteq DOMAIN blocks

BlockInit ==
    /\ offset = 0
    /\ poisoned = FALSE
    /\ mem = [a \in Bytes |-> "data"]
    /\ blocks = << >>
    /\ overrun = {}

-----------------------------------------------------------------------------
Front(at) == (at - CanarySize) .. (at - 1)
Back(at, size) == (at + size) .. (at + size + CanarySize - 1)
Payload(at, size) == at .. (at + size - 1)

(* PerlUpb_WriteCanaries. *)
WriteCanaries(at, size) ==
    [a \in Bytes |-> IF a \in Front(at) \cup Back(at, size) THEN "pattern" ELSE mem[a]]

(* PerlUpb_VerifyCanaries finds nothing. *)
Intact(at, size) ==
    \A a \in (Front(at) \cup Back(at, size)) \cap Bytes : mem[a] = "pattern"

(* What a block takes: its bytes, two canaries, rounded up to 16. *)
Need(size) == ((size + 2 * CanarySize + 15) \div 16) * 16

Fits(size) == offset + Need(size) <= RegionSize

Handed(size) ==
    /\ Len(blocks) < MaxBlocks
    /\ Fits(size)
    /\ mem' = WriteCanaries(offset + CanarySize, size)
    /\ offset' = offset + Need(size)

New(size) == [at |-> offset + CanarySize, size |-> size, live |-> TRUE]

-----------------------------------------------------------------------------
(* The calls of the allocator that change something.  One that returns NULL *)
(* (poisoned, or no room) changes nothing.                                 *)

(* ALLOC *)
BlockAlloc(size) ==
    /\ ~poisoned
    /\ Handed(size)
    /\ blocks' = Append(blocks, New(size))
    /\ UNCHANGED <<poisoned, overrun>>

(* Faulty variant: the block is moved before its canaries are looked at.   *)
Faulty_BlockRealloc(i, size) ==
    /\ ~poisoned
    /\ blocks[i].live
    /\ Handed(size)
    /\ blocks' = Append([blocks EXCEPT ![i].live = FALSE], New(size))
    /\ UNCHANGED <<poisoned, overrun>>

(* REALLOC: verified, then a second block is handed out and filled.  The    *)
(* first stays where it is, unused; without room for the second, in use.   *)
BlockRealloc(i, size) ==
    /\ ~poisoned
    /\ blocks[i].live
    /\ Intact(blocks[i].at, blocks[i].size)
    /\ Handed(size)
    /\ blocks' = Append([blocks EXCEPT ![i].live = FALSE], New(size))
    /\ UNCHANGED <<poisoned, overrun>>

(* FREE: verified; the bytes are not used again. *)
BlockFree(i) ==
    /\ ~poisoned
    /\ blocks[i].live
    /\ Intact(blocks[i].at, blocks[i].size)
    /\ blocks' = [blocks EXCEPT ![i].live = FALSE]
    /\ UNCHANGED <<offset, poisoned, mem, overrun>>

(* Either call finds a canary overwritten: it poisons the allocator and     *)
(* croaks.                                                                 *)
BlockCroaks(i) ==
    /\ ~poisoned
    /\ blocks[i].live
    /\ ~Intact(blocks[i].at, blocks[i].size)
    /\ poisoned' = TRUE
    /\ UNCHANGED <<offset, mem, blocks, overrun>>

(* The owner of a block fills it, ... *)
Fill(i) ==
    /\ blocks[i].live
    /\ mem' = [a \in Bytes |->
                 IF a \in Payload(blocks[i].at, blocks[i].size) THEN "data" ELSE mem[a]]
    /\ UNCHANGED <<offset, poisoned, blocks, overrun>>

(* ... or writes a byte too far, on either side. *)
Overrun(i) ==
    /\ blocks[i].live
    /\ \E a \in {blocks[i].at - 1, blocks[i].at + blocks[i].size} :
          mem' = [mem EXCEPT ![a] = "data"]
    /\ overrun' = overrun \cup {i}
    /\ UNCHANGED <<offset, poisoned, blocks>>

BlockNext ==
    \/ \E size \in Sizes : BlockAlloc(size)
    \/ \E i \in DOMAIN blocks, size \in Sizes : BlockRealloc(i, size)
    \/ \E i \in DOMAIN blocks :
          \/ BlockFree(i)
          \/ BlockCroaks(i)
          \/ Fill(i)
          \/ Overrun(i)

BlockSpec == BlockInit /\ [][BlockNext]_blockVars

-----------------------------------------------------------------------------
(* Properties. *)

(* Blocks lie inside the region with both canaries, one behind the other in *)
(* the order they were handed out, and below the offset.  So none is at     *)
(* offset 0, which PerlUpb_Arena_GetOffset gives for "not in this arena".   *)
BlocksApart ==
    /\ offset <= RegionSize
    /\ \A i \in DOMAIN blocks :
          /\ blocks[i].at >= CanarySize
          /\ blocks[i].at + blocks[i].size + CanarySize <= offset
    /\ \A i, j \in DOMAIN blocks :
          i < j => blocks[i].at + blocks[i].size + 2 * CanarySize <= blocks[j].at

(* A block nobody wrote beside keeps its canaries whatever is allocated,    *)
(* moved, filled or freed around it, ...                                   *)
CanariesStand ==
    \A i \in DOMAIN blocks : i \notin overrun => Intact(blocks[i].at, blocks[i].size)

(* ... so "MEMORY CORRUPTION DETECTED" is never a false alarm, ...          *)
NoFalseAlarm == poisoned => overrun # {}

(* ... and a block somebody did write beside is never moved or given back   *)
(* as if it were sound: it stays in use, its damage there to be found.     *)
OverrunsAreCaught ==
    \A i \in overrun : blocks[i].live /\ ~Intact(blocks[i].at, blocks[i].size)

CorruptionIsFound == NoFalseAlarm /\ OverrunsAreCaught

BlockIInv == BlockTypeOK /\ BlocksApart /\ CanariesStand /\ CorruptionIsFound
=============================================================================
