------------------------------ MODULE MapField ------------------------------
(***************************************************************************)
(* xs/map/*.c over upb's hash table (vendor/upb/hash/common.c): map fields *)
(* and their iterators.  A table is an array of entries in which entries   *)
(* whose keys have one main position are chained, the first of them in     *)
(* that position; a removal moves the second of a chain into the place of  *)
(* the first, and storing a key that is there removes it and enters it     *)
(* anew.  An iterator is an index into the table.                          *)
(*                                                                         *)
(* This is the table of string keys (upb_strtable).  Integer and bool keys *)
(* have a upb_inttable, which keeps key 0 in an array of one beside a      *)
(* table with the same insert, rm and resize; that array is not modelled.  *)
(***************************************************************************)
EXTENDS Integers, Sequences, FiniteSets, Functions, SequencesExt, FiniteSetsExt

CONSTANTS
    Keys, Vals,
    hash,             \* the hash of each key
    InitSize,         \* entries of a new table
    MaxSize           \* bound: entries a table grows to

ASSUME MapAssumption ==
    /\ hash \in [Keys -> Nat]
    /\ InitSize \in Nat \ {0}

VARIABLES
    table,            \* [size, ent]: ent gives the entries in use
    iter,             \* the index the iterator is at, -1: at the beginning
    ended,            \* NextKey has returned undef
    returned,         \* the keys NextKey has returned (history)
    changed,          \* the map was written since the iterator was made (history)
    content           \* what the program has stored (history)

mvars == <<table, iter, ended, returned, changed, content>>

None == -1
EmptyTable(n) == [size |-> n, ent |-> [i \in {} |-> 0]]
Entry(k, v, next) == [key |-> k, val |-> v, next |-> next]
mainpos(T, k) == hash[k] % T.size

MapTypeOK ==
    /\ DOMAIN table.ent \subseteq 0 .. table.size - 1
    /\ \A i \in DOMAIN table.ent : table.ent[i] \in
          [key : Keys, val : Vals, next : {None} \cup DOMAIN table.ent]
    /\ iter \in None .. MaxSize - 1

MapInit ==
    /\ table = EmptyTable(InitSize)
    /\ iter = None
    /\ ended = FALSE
    /\ returned = <<>>
    /\ changed = FALSE
    /\ content = [k \in {} |-> 0]

-----------------------------------------------------------------------------
(* vendor/upb/hash/common.c *)

isfull(T) == Cardinality(DOMAIN T.ent) = T.size - T.size \div 8

(* The first empty entry behind i, or from the start of the table. *)
emptyent(T, i) ==
    LET empty == (0 .. T.size - 1) \ DOMAIN T.ent
        behind == {j \in empty : j > i}
    IN  Min(IF behind # {} THEN behind ELSE empty)

Table(n, ent) == [size |-> n, ent |-> ent]
With(T, i, e) == Table(T.size, [j \in DOMAIN T.ent \cup {i} |-> IF j = i THEN e ELSE T.ent[j]])
Without(T, i) == Table(T.size, Restrict(T.ent, DOMAIN T.ent \ {i}))
Linked(e, next) == Entry(e.key, e.val, next)
Relink(T, from, to) ==
    Table(T.size, [j \in DOMAIN T.ent |->
                      Linked(T.ent[j], IF T.ent[j].next = from THEN to ELSE T.ent[j].next)])

(* insert: behind the head of the key's chain; an entry of another chain    *)
(* that sits in the key's main position moves out of the way.              *)
insert(T, k, v) ==
    LET m == mainpos(T, k)
        new == emptyent(T, m)
        there == T.ent[m]
    IN  IF m \notin DOMAIN T.ent THEN With(T, m, Entry(k, v, None))
        ELSE IF mainpos(T, there.key) = m
             THEN With(With(T, new, Entry(k, v, there.next)), m, Linked(there, new))
             ELSE With(With(Relink(T, m, new), new, there), m, Entry(k, v, None))

(* findentry: the entry of a key, or None. *)
findentry(T, k) ==
    LET walk[i \in None .. T.size - 1] ==
            IF i \notin DOMAIN T.ent THEN None
            ELSE IF T.ent[i].key = k THEN i ELSE walk[T.ent[i].next]
    IN  walk[mainpos(T, k)]

(* Faulty variant: the head of a chain takes the rest of it along.         *)
Faulty_rm(T, k) ==
    LET i == findentry(T, k)
    IN  IF i = None THEN T ELSE Without(Relink(T, i, T.ent[i].next), i)

rm(T, k) ==
    LET i == findentry(T, k)
        next == T.ent[i].next
    IN  IF i = None THEN T
        ELSE IF i # mainpos(T, k) THEN Without(Relink(T, i, next), i)
        ELSE IF next # None THEN Without(With(T, i, T.ent[next]), next)
        ELSE Without(T, i)

(* upb_strtable_resize: the first i places of T entered into a new table    *)
(* of double size.                                                         *)
resized(T) ==
    LET fill[i \in 0 .. T.size] ==
            IF i = 0 THEN EmptyTable(2 * T.size)
            ELSE IF i - 1 \in DOMAIN T.ent
                 THEN insert(fill[i - 1], T.ent[i - 1].key, T.ent[i - 1].val)
                 ELSE fill[i - 1]
    IN  fill[T.size]

(* upb_strtable_insert: a full table is resized first. *)
grown(T) == IF isfull(T) THEN resized(T) ELSE T

(* _upb_Map_Insert of a string key *)
Stored(T, k, v) == insert(grown(rm(T, k)), k, v)

-----------------------------------------------------------------------------
(* xs/map/map.c; a key or value that does not convert croaks before. *)

Wrote == changed' = TRUE /\ UNCHANGED <<iter, ended, returned>>

Map_SetItem(k, v) ==
    /\ Stored(table, k, v).size <= MaxSize
    /\ table' = Stored(table, k, v)
    /\ content' = [j \in DOMAIN content \cup {k} |-> IF j = k THEN v ELSE content[j]]
    /\ Wrote

Map_DeleteItem(k) ==
    /\ table' = rm(table, k)
    /\ content' = Restrict(content, DOMAIN content \ {k})
    /\ Wrote

Map_Clear ==
    /\ table' = EmptyTable(table.size)
    /\ content' = [k \in {} |-> 0]
    /\ Wrote

Map_GetItem(k) == LET i == findentry(table, k) IN IF i = None THEN {} ELSE {table.ent[i].val}
Map_Exists(k) == findentry(table, k) # None
Map_AsHash == {<<table.ent[i].key, table.ent[i].val>> : i \in DOMAIN table.ent}
Map_Size == Cardinality(DOMAIN table.ent)

(* PerlUpb_SvToUpb of a map: a new map, with the entries of a tied one in   *)
(* the order of its table, or with those of a hash in the hash's order.    *)
(* The program goes on with the new map.                                   *)
Entered(order) ==
    LET put[n \in 0 .. Len(order)] ==
            IF n = 0 THEN EmptyTable(InitSize)
            ELSE Stored(put[n - 1], order[n], content[order[n]])
    IN  put[Len(order)]

AssignMap(order) ==
    /\ table' = Entered(order)
    /\ iter' = None
    /\ ended' = FALSE
    /\ returned' = <<>>
    /\ changed' = FALSE
    /\ UNCHANGED content

-----------------------------------------------------------------------------
(* xs/map/iterator.c *)

GetIterator ==
    /\ iter' = None
    /\ ended' = FALSE
    /\ returned' = <<>>
    /\ changed' = FALSE
    /\ UNCHANGED <<table, content>>

(* Faulty variant: the iterator starts at the first entry.                 *)
Faulty_NextKey ==
    LET ahead == {i \in DOMAIN table.ent : i > Max({iter, 0})}
    IN  /\ ~ended
        /\ IF ahead = {} THEN ended' = TRUE /\ UNCHANGED <<iter, returned>>
           ELSE /\ iter' = Min(ahead)
                /\ returned' = Append(returned, table.ent[Min(ahead)].key)
                /\ UNCHANGED ended
        /\ UNCHANGED <<table, content, changed>>

(* The next entry in use behind iter.  After undef the program stops        *)
(* (NEXTKEY drops the iterator).                                           *)
NextKey ==
    LET ahead == {i \in DOMAIN table.ent : i > iter}
    IN  /\ ~ended
        /\ Len(returned) < MaxSize
        /\ IF ahead = {} THEN ended' = TRUE /\ UNCHANGED <<iter, returned>>
           ELSE /\ iter' = Min(ahead)
                /\ returned' = Append(returned, table.ent[Min(ahead)].key)
                /\ UNCHANGED ended
        /\ UNCHANGED <<table, content, changed>>

MapNext ==
    \/ \E k \in Keys :
          \/ \E v \in Vals : Map_SetItem(k, v)
          \/ Map_DeleteItem(k)
    \/ Map_Clear
    \/ \E order \in SetToSeqs(DOMAIN content) : AssignMap(order)
    \/ GetIterator
    \/ NextKey

-----------------------------------------------------------------------------
(* Properties. *)

(* Whatever was stored, stored again and removed, and however often the     *)
(* table was rebuilt, a key is found with the value it was last given, no  *)
(* other is, and as_hash shows the same.                                   *)
MapHoldsWhatWasStored ==
    /\ \A k \in Keys : /\ Map_Exists(k) <=> k \in DOMAIN content
                       /\ Map_GetItem(k) = {content[j] : j \in {k} \cap DOMAIN content}
    /\ Map_AsHash = {<<k, content[k]>> : k \in DOMAIN content}
    /\ Map_Size = Cardinality(DOMAIN content)

(* An iteration that nothing was stored or removed in returns every key and *)
(* none twice.  Storing a value for the key just returned already moves    *)
(* entries, so there it may not.                                           *)
IterationIsComplete ==
    ended /\ ~changed =>
        /\ ToSet(returned) = DOMAIN content
        /\ Len(returned) = Cardinality(DOMAIN content)
=============================================================================
