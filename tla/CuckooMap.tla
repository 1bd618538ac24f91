----------------------------- MODULE CuckooMap ------------------------------
(***************************************************************************)
(* One registry map of sysThrot_store.c (users or programs: the code is    *)
(* the same) and the operations that add and remove an entry: clone the    *)
(* published map, change the clone, publish it, free the old one.          *)
(*                                                                         *)
(* A map is two tables of buckets.  An entry stands for an allocated item  *)
(* and its key; the code moves table[] and keys[] together and sets        *)
(* occupied[] with them, so a bucket holds an item or NoItem.  Items are   *)
(* compared by value, and hash1, hash2 are functions of the item because   *)
(* the key is.  Writers hold write_lock, so one operation at a time is     *)
(* modelled; readers and grace periods are in RcuStore.                    *)
(***************************************************************************)
EXTENDS Integers, FiniteSets

CONSTANTS
    Item,           \* user ids, or program names
    NoItem,         \* an empty bucket
    Bucket,         \* 0 .. TABLE_SIZE - 1
    hash1, hash2,   \* bucket of an item in the first and the second table
    MAX_KICKS

ASSUME MapAssumption ==
    /\ NoItem \notin Item
    /\ hash1 \in [Item -> Bucket]
    /\ hash2 \in [Item -> Bucket]
    /\ MAX_KICKS \in Nat

VARIABLES
    map,        \* the published map: its first and its second table
    new_map,    \* the clone under construction
    heap,       \* how many allocated copies of an item exist
    pc,         \* where the running operation is
    op,         \* the running operation: [kind, item]
    hand,       \* current_item of insert()
    kicks,      \* i of insert()
    registered  \* history: what the successful operations add up to

vars == <<map, new_map, heap, pc, op, hand, kicks, registered>>

Table == [Bucket -> Item \cup {NoItem}]
EmptyMap == [i \in 1..2 |-> [b \in Bucket |-> NoItem]]

\* Items whose copy destroy_map() frees and clone_map() duplicates.
Items(m) == {x \in Item : \E b \in Bucket : m[1][b] = x \/ m[2][b] = x}

contains(m, x) == m[1][hash1[x]] = x \/ m[2][hash2[x]] = x

\* kmalloc() or kfree() of one copy of each item of S.
Alloc(S) == [x \in Item |-> heap[x] + (IF x \in S THEN 1 ELSE 0)]
Kfree(S) == [x \in Item |-> heap[x] - (IF x \in S THEN 1 ELSE 0)]

Init ==
    /\ map = EmptyMap
    /\ new_map = EmptyMap
    /\ heap = [x \in Item |-> 0]
    /\ pc = "idle"
    /\ op = [kind |-> "none", item |-> NoItem]
    /\ hand = NoItem
    /\ kicks = 0
    /\ registered = {}

\* The operation returns; its locals are gone.
Return ==
    /\ pc' = "idle"
    /\ op' = [kind |-> "none", item |-> NoItem]
    /\ new_map' = EmptyMap
    /\ hand' = NoItem
    /\ kicks' = 0

\* add_..._to_store() up to clone_map(): -EEXIST changes nothing.
Add(x) ==
    /\ pc = "idle"
    /\ ~contains(map, x)
    /\ op' = [kind |-> "add", item |-> x]
    /\ pc' = "clone"
    /\ UNCHANGED <<map, new_map, heap, hand, kicks, registered>>

\* remove_..._from_store() up to clone_map(): -EINVAL changes nothing.
Remove(x) ==
    /\ pc = "idle"
    /\ contains(map, x)
    /\ op' = [kind |-> "remove", item |-> x]
    /\ pc' = "clone"
    /\ UNCHANGED <<map, new_map, heap, hand, kicks, registered>>

\* clone_map() copies every item; an allocation failure undoes the copies.
CloneMap ==
    /\ pc = "clone"
    /\ \/ /\ new_map' = map
          /\ heap' = Alloc(Items(map))
          /\ pc' = IF op.kind = "add" THEN "item" ELSE "remove"
          /\ UNCHANGED <<op, hand, kicks>>
       \/ Return /\ UNCHANGED heap
    /\ UNCHANGED <<map, registered>>

\* cloneUser() or cloneProgram() of the new item.
CloneItem ==
    /\ pc = "item"
    /\ \/ /\ heap' = Alloc({op.item})
          /\ hand' = op.item
          /\ pc' = "insert"
          /\ UNCHANGED <<op, new_map, kicks>>
       \/ Return /\ heap' = Kfree(Items(new_map))
    /\ UNCHANGED <<map, registered>>

(***************************************************************************)
(* insert(), one step per round of its loop.  Its test for a duplicate     *)
(* repeats the one of Add on the same entries and never succeeds:          *)
(* InsertIsNew.                                                            *)
(***************************************************************************)
Put(m, i, b, x) == [m EXCEPT ![i][b] = x]
Evicted == new_map[1][hash1[hand]]

PutFirst ==
    /\ pc = "insert"
    /\ kicks < MAX_KICKS
    /\ Evicted = NoItem
    /\ new_map' = Put(new_map, 1, hash1[hand], hand)
    /\ hand' = NoItem
    /\ pc' = "publish"
    /\ UNCHANGED <<map, heap, op, kicks, registered>>

\* Fault: h2 is computed from the item that is already placed.
Faulty_PutSecond ==
    /\ pc = "insert"
    /\ kicks < MAX_KICKS
    /\ Evicted # NoItem
    /\ new_map[2][hash2[Evicted]] = NoItem
    /\ new_map' = Put(Put(new_map, 1, hash1[hand], hand), 2, hash2[hand], Evicted)
    /\ hand' = NoItem
    /\ pc' = "publish"
    /\ UNCHANGED <<map, heap, op, kicks, registered>>

PutSecond ==
    /\ pc = "insert"
    /\ kicks < MAX_KICKS
    /\ Evicted # NoItem
    /\ new_map[2][hash2[Evicted]] = NoItem
    /\ new_map' = Put(Put(new_map, 1, hash1[hand], hand), 2, hash2[Evicted], Evicted)
    /\ hand' = NoItem
    /\ pc' = "publish"
    /\ UNCHANGED <<map, heap, op, kicks, registered>>

\* Fault: current_item is not updated by the second eviction.
Faulty_KickStale ==
    /\ pc = "insert"
    /\ kicks < MAX_KICKS
    /\ Evicted # NoItem
    /\ new_map[2][hash2[Evicted]] # NoItem
    /\ new_map' = Put(Put(new_map, 1, hash1[hand], hand), 2, hash2[Evicted], Evicted)
    /\ hand' = Evicted
    /\ kicks' = kicks + 1
    /\ UNCHANGED <<map, heap, pc, op, registered>>

Kick ==
    /\ pc = "insert"
    /\ kicks < MAX_KICKS
    /\ Evicted # NoItem
    /\ new_map[2][hash2[Evicted]] # NoItem
    /\ new_map' = Put(Put(new_map, 1, hash1[hand], hand), 2, hash2[Evicted], Evicted)
    /\ hand' = new_map[2][hash2[Evicted]]
    /\ kicks' = kicks + 1
    /\ UNCHANGED <<map, heap, pc, op, registered>>

\* Fault: the item that found no place is not freed.
Faulty_Freed == Items(new_map)

\* What -ENOSPC frees: the item in hand by insert(), then the clone.
Freed == Items(new_map) \cup {hand}

NoSpace ==
    /\ pc = "insert"
    /\ kicks >= MAX_KICKS
    /\ heap' = Kfree(Freed)
    /\ Return
    /\ UNCHANGED <<map, registered>>

\* remove(), which looks in the first table first.
RemoveItem ==
    /\ pc = "remove"
    /\ LET x == op.item
       IN  new_map' = IF new_map[1][hash1[x]] = x
                      THEN Put(new_map, 1, hash1[x], NoItem)
                      ELSE Put(new_map, 2, hash2[x], NoItem)
    /\ heap' = Kfree({op.item})
    /\ pc' = "publish"
    /\ UNCHANGED <<map, op, hand, kicks, registered>>

\* rcu_assign_pointer(), and destroy_map() of the old map.
Publish ==
    /\ pc = "publish"
    /\ map' = new_map
    /\ heap' = Kfree(Items(map))
    /\ registered' = IF op.kind = "add" THEN registered \cup {op.item}
                                        ELSE registered \ {op.item}
    /\ Return

Next ==
    \/ \E x \in Item : Add(x) \/ Remove(x)
    \/ CloneMap
    \/ CloneItem
    \/ PutFirst
    \/ PutSecond
    \/ Kick
    \/ NoSpace
    \/ RemoveItem
    \/ Publish

Spec == Init /\ [][Next]_vars

-----------------------------------------------------------------------------
\* Types; the copies of an item are never fewer than none.
TypeOK ==
    /\ map \in [1..2 -> Table]
    /\ new_map \in [1..2 -> Table]
    /\ heap \in [Item -> Nat]
    /\ pc \in {"idle", "clone", "item", "insert", "remove", "publish"}
    /\ op \in [kind : {"none", "add", "remove"}, item : Item \cup {NoItem}]
    /\ hand \in Item \cup {NoItem}
    /\ kicks \in Nat
    /\ registered \in SUBSET Item

\* No item is stored twice, and the item in hand is not stored: clone_map()
\* and destroy_map() then handle one copy per item, and a removed item does
\* not stay behind in the other table.
StoredOnce ==
    /\ \A m \in {map, new_map} : \A x \in Item, b, c \in Bucket :
        /\ m[1][b] = x => m[2][c] # x
        /\ m[1][b] = x /\ m[1][c] = x => b = c
        /\ m[2][b] = x /\ m[2][c] = x => b = c
    /\ pc = "insert" => hand \notin Items(new_map)

\* A lookup in the published map finds exactly what was registered and not
\* deregistered: no chain of evictions loses an item, moves it where
\* contains() does not look, and a failed operation changes nothing.
LookupExact == \A x \in Item : contains(map, x) <=> x \in registered

\* The heap holds one copy of each item of the published map, one of each
\* item of the clone and the one in hand: nothing leaks and nothing is freed
\* twice, also when kicks run out or an allocation fails half way.
HeapExact ==
    \A x \in Item :
        heap[x] = (IF x \in Items(map) THEN 1 ELSE 0)
                  + (IF x \in Items(new_map) THEN 1 ELSE 0)
                  + (IF x = hand THEN 1 ELSE 0)

\* insert() is only reached with an item that is not in the map, and remove()
\* with one that is: neither -EEXIST of insert(), which would leak the item,
\* nor the failure of remove() ever happens.
InsertIsNew ==
    /\ pc = "insert" => ~contains(new_map, hand)
    /\ pc = "remove" => contains(new_map, op.item)

\* The published map, seen through contains(), is a set that changes by one
\* entry at a time.
Abstract == INSTANCE Registry WITH registered <- {x \in Item : contains(map, x)}
ImplementsRegistry == Abstract!Spec
=============================================================================
