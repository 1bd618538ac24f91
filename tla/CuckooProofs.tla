---------------------------- MODULE CuckooProofs ----------------------------
(***************************************************************************)
(* CuckooMap for any items, any number of buckets, any hash functions and  *)
(* any MAX_KICKS: lookups are exact, nothing leaks, nothing is freed twice *)
(* and the published map implements Registry.                              *)
(*                                                                         *)
(* The key is WellPlaced: an item is only ever in the bucket its hash says *)
(* and in one table at most, so that what a map stores is what contains()  *)
(* finds.  A round of insert() places one item and takes another in hand,  *)
(* which keeps stored items and the hand together the same set.            *)
(***************************************************************************)
EXTENDS CuckooMap, TLAPS

hash(i) == IF i = 1 THEN hash1 ELSE hash2

WellPlaced(m) ==
    /\ m \in [1..2 -> Table]
    /\ \A i \in 1..2, b \in Bucket : m[i][b] # NoItem => b = hash(i)[m[i][b]]
    /\ \A x \in Item : m[1][hash1[x]] = x => m[2][hash2[x]] # x

\* Where the operation is, and what the clone has to do with the map.
Step ==
    /\ pc \in {"idle", "clone"} => new_map = EmptyMap
    /\ pc # "insert" => hand = NoItem
    /\ pc = "idle" <=> op.kind = "none"
    /\ pc # "idle" => /\ op.item \in Item
                      /\ op.kind = "add" <=> op.item \notin Items(map)
    /\ pc \in {"item", "insert"} => op.kind = "add"
    /\ pc = "remove" => op.kind = "remove"
    /\ pc \in {"item", "remove"} => Items(new_map) = Items(map)
    /\ pc = "insert" =>
          /\ hand \in Item \ Items(new_map)
          /\ Items(new_map) \cup {hand} = Items(map) \cup {op.item}
    /\ pc = "publish" =>
          Items(new_map) = IF op.kind = "add" THEN Items(map) \cup {op.item}
                                              ELSE Items(map) \ {op.item}

MapInv ==
    /\ TypeOK
    /\ WellPlaced(map) /\ WellPlaced(new_map)
    /\ Step
    /\ HeapExact
    /\ registered = Items(map)

-----------------------------------------------------------------------------
\* contains() finds exactly what a well-placed map stores.
LEMMA LookupFinds ==
    ASSUME NEW m, WellPlaced(m), NEW x \in Item
    PROVE  contains(m, x) <=> x \in Items(m)
BY MapAssumption DEF WellPlaced, contains, Items, Table, hash

\* A new map stores nothing.
LEMMA EmptyStoresNothing == WellPlaced(EmptyMap) /\ Items(EmptyMap) = {}
BY MapAssumption DEF WellPlaced, EmptyMap, Items, Table

\* Half a round of insert(): x goes to its bucket of table i and whatever was
\* there comes out.
LEMMA PlaceOne ==
    ASSUME NEW m, WellPlaced(m), NEW i \in 1..2, NEW x \in Item \ Items(m)
    PROVE  LET n == Put(m, i, hash(i)[x], x)
               out == m[i][hash(i)[x]]
           IN  /\ WellPlaced(n)
               /\ Items(n) = (Items(m) \ {out}) \cup {x}
               /\ n[3 - i] = m[3 - i]
<1>. DEFINE h == hash(i)[x]
            n == Put(m, i, h, x)
            out == m[i][h]
<1>1. h \in Bucket BY MapAssumption DEF hash
<1>2. /\ n \in [1..2 -> Table]
      /\ \A j \in 1..2, b \in Bucket : n[j][b] = IF j = i /\ b = h THEN x ELSE m[j][b]
      /\ n[3 - i] = m[3 - i]
  BY <1>1 DEF WellPlaced, Put, Table
<1>3. \A j \in 1..2, b \in Bucket : m[j][b] # x BY DEF Items
<1>. HIDE DEF n, h
<1>4. \A j \in 1..2, b \in Bucket : n[j][b] # NoItem => b = hash(j)[n[j][b]]
  BY <1>1, <1>2 DEF WellPlaced, h
<1>5. \A y \in Item : n[1][hash1[y]] = y => n[2][hash2[y]] # y
  BY <1>1, <1>2, <1>3, MapAssumption DEF WellPlaced
<1>6. WellPlaced(n) BY <1>2, <1>4, <1>5 DEF WellPlaced
<1>7. \A y \in Item : y \in Items(n) <=> y = x \/ (y \in Items(m) /\ y # out)
  <2>. TAKE y \in Item
  <2>1. y = x => y \in Items(n) BY <1>1, <1>2 DEF Items
  <2>2. ASSUME y # x PROVE y \in Items(n) <=> y \in Items(m) /\ y # out
    <3>1. ASSUME y \in Items(n) PROVE y \in Items(m)
      BY <1>2, <2>2, <3>1 DEF Items
    <3>2. ASSUME y \in Items(m), y # out PROVE y \in Items(n)
      BY <1>2, <3>2 DEF Items
    <3>3. ASSUME y = out PROVE y \notin Items(n)
      <4>1. y \in Items(m) /\ m[i][h] = y /\ h = hash(i)[y]
        BY <1>1, <3>3, MapAssumption DEF Items, WellPlaced
      <4>2. \A j \in 1..2, b \in Bucket : m[j][b] = y => j = i /\ b = h
        BY <1>1, <4>1, MapAssumption DEF WellPlaced, hash
      <4>. QED BY <1>2, <2>2, <4>2 DEF Items
    <3>. QED BY <3>1, <3>2, <3>3
  <2>. QED BY <1>3, <2>1, <2>2
<1>8. Items(n) \subseteq Item /\ Items(m) \subseteq Item BY DEF Items
<1>9. Items(n) = (Items(m) \ {out}) \cup {x} BY <1>7, <1>8
<1>. QED BY <1>2, <1>6, <1>9 DEF n, h

\* remove(): an emptied bucket takes one item away.
LEMMA ClearOne ==
    ASSUME NEW m, WellPlaced(m), NEW i \in 1..2, NEW x \in Item, m[i][hash(i)[x]] = x
    PROVE  LET n == Put(m, i, hash(i)[x], NoItem)
           IN  WellPlaced(n) /\ Items(n) = Items(m) \ {x}
<1>. DEFINE h == hash(i)[x]
            n == Put(m, i, h, NoItem)
<1>1. h \in Bucket BY MapAssumption DEF hash
<1>2. /\ n \in [1..2 -> Table]
      /\ \A j \in 1..2, b \in Bucket : n[j][b] = IF j = i /\ b = h THEN NoItem ELSE m[j][b]
  BY <1>1 DEF WellPlaced, Put, Table
<1>3. m[i][h] = x OBVIOUS
<1>. HIDE DEF n, h
<1>4. \A j \in 1..2, b \in Bucket : n[j][b] # NoItem => b = hash(j)[n[j][b]]
  BY <1>2 DEF WellPlaced
<1>5. \A y \in Item : n[1][hash1[y]] = y => n[2][hash2[y]] # y
  BY <1>2, MapAssumption DEF WellPlaced
<1>6. \A j \in 1..2, b \in Bucket : m[j][b] = x => j = i /\ b = h
  BY <1>1, <1>3, MapAssumption DEF WellPlaced, hash
<1>7. \A y \in Item : y \in Items(n) <=> y \in Items(m) /\ y # x
  BY <1>2, <1>3, <1>6, MapAssumption DEF Items
<1>8. Items(n) = Items(m) \ {x} BY <1>7 DEF Items
<1>. QED BY <1>2, <1>4, <1>5, <1>8 DEF WellPlaced, n, h

-----------------------------------------------------------------------------
\* The empty store.
LEMMA MapInitial == Init => MapInv
<1>. SUFFICES ASSUME Init PROVE MapInv OBVIOUS
<1>1. TypeOK BY DEF Init, TypeOK, EmptyMap, Table
<1>2. HeapExact BY EmptyStoresNothing, MapAssumption DEF Init, HeapExact
<1>. QED BY <1>1, <1>2, EmptyStoresNothing DEF Init, MapInv, Step

\* A round of insert(): the item in hand goes in, and the one that it put
\* out of the first table goes to the second.
LEMMA Round ==
    ASSUME MapInv, pc = "insert", Evicted # NoItem
    PROVE  LET n == Put(Put(new_map, 1, hash1[hand], hand), 2, hash2[Evicted], Evicted)
               out == new_map[2][hash2[Evicted]]
           IN  /\ WellPlaced(n)
               /\ Items(n) = (Items(new_map) \ {out}) \cup {hand}
               /\ out # NoItem => out \in Items(new_map)
<1>. DEFINE m == Put(new_map, 1, hash1[hand], hand)
            e == Evicted
            n == Put(m, 2, hash2[e], e)
            out == new_map[2][hash2[e]]
<1>. USE DEF MapInv
<1>1. WellPlaced(new_map) /\ hand \in Item \ Items(new_map) BY DEF Step
<1>2. hash1[hand] \in Bucket BY <1>1, MapAssumption
<1>3. e \in Item /\ e \in Items(new_map)
  BY <1>1, <1>2 DEF WellPlaced, Table, Evicted, Items
<1>4. hash2[e] \in Bucket BY <1>3, MapAssumption
<1>5. WellPlaced(m) /\ Items(m) = (Items(new_map) \ {e}) \cup {hand} /\ m[2] = new_map[2]
  BY <1>1, PlaceOne DEF hash, Evicted
<1>6. e \in Item \ Items(m) BY <1>1, <1>3, <1>5
<1>. HIDE DEF m, e
<1>7. WellPlaced(n) /\ Items(n) = (Items(m) \ {m[2][hash2[e]]}) \cup {e}
  BY <1>5, <1>6, PlaceOne DEF hash
<1>8. out # NoItem => out \in Items(new_map) BY <1>1, <1>4 DEF WellPlaced, Table, Items
<1>9. out # e /\ out # hand
  <2>1. out # e
    <3>1. new_map[1][hash1[e]] = e BY <1>1, <1>2, <1>3 DEF WellPlaced, e, Evicted, hash
    <3>. QED BY <1>1, <1>3, <3>1 DEF WellPlaced
  <2>2. out # hand BY <1>1, <1>8, MapAssumption
  <2>. QED BY <2>1, <2>2
<1>10. Items(n) = (Items(new_map) \ {out}) \cup {hand} BY <1>3, <1>5, <1>7, <1>9
<1>. QED BY <1>7, <1>8, <1>10 DEF m, e

\* An operation that returns without publishing leaves the map as it was.
LEMMA ReturnKeeps ==
    ASSUME MapInv, Return, UNCHANGED <<map, registered>>,
           \A x \in Item : heap'[x] = IF x \in Items(map) THEN 1 ELSE 0,
           heap' \in [Item -> Nat]
    PROVE  MapInv'
<1>1. TypeOK' BY DEF MapInv, TypeOK, Return, EmptyMap, Table
<1>2. HeapExact' BY EmptyStoresNothing, MapAssumption DEF MapInv, Return, HeapExact, Items
<1>3. Step' BY DEF Return, Step
<1>. QED BY <1>1, <1>2, <1>3, EmptyStoresNothing DEF MapInv, Return, Items

\* insert() has put its item in the clone and may have another one in hand.
LEMMA InsertKeeps ==
    ASSUME MapInv, pc = "insert", WellPlaced(new_map'), kicks' \in Nat,
           UNCHANGED <<map, heap, op, registered>>,
           \/ /\ pc' = "publish" /\ hand' = NoItem
              /\ Items(new_map') = Items(new_map) \cup {hand}
           \/ /\ pc' = "insert" /\ hand' \in Items(new_map)
              /\ Items(new_map') = (Items(new_map) \ {hand'}) \cup {hand}
    PROVE  MapInv'
<1>1. /\ hand \in Item /\ hand \notin Items(new_map) /\ op.item \in Item /\ op.kind = "add"
      /\ op.item \notin Items(map)
      /\ Items(new_map) \cup {hand} = Items(map) \cup {op.item}
  BY Zenon DEF MapInv, Step
<1>2. Items(map)' = Items(map) /\ Items(new_map)' = Items(new_map') BY Zenon DEF Items
<1>3. Items(new_map) \subseteq Item /\ \A x \in Item : x # NoItem BY MapAssumption DEF Items
<1>4. TypeOK'
  <2>1. hand' \in Item \cup {NoItem} BY Zenon, <1>3
  <2>2. pc' \in {"idle", "clone", "item", "insert", "remove", "publish"} BY Zenon
  <2>3. new_map' \in [1..2 -> Table] BY Zenon DEF WellPlaced
  <2>. QED BY Zenon, <2>1, <2>2, <2>3 DEF MapInv, TypeOK
<1>5. Step'
  <2>1. CASE pc' = "publish" /\ hand' = NoItem /\ Items(new_map') = Items(new_map) \cup {hand}
    BY <1>1, <1>2, <2>1 DEF Step
  <2>2. CASE pc' = "insert" /\ hand' \in Items(new_map)
             /\ Items(new_map') = (Items(new_map) \ {hand'}) \cup {hand}
    <3>1. hand' \in Item /\ hand' \notin Items(new_map') BY Zenon, <1>1, <1>3, <2>2
    <3>2. Items(new_map') \cup {hand'} = Items(map) \cup {op.item} BY Zenon, <1>1, <2>2
    <3>. QED BY <1>1, <1>2, <2>2, <3>1, <3>2 DEF Step
  <2>. QED BY Zenon, <2>1, <2>2
<1>6. HeapExact'
  <2>1. \A x \in Item : heap[x] = (IF x \in Items(map) THEN 1 ELSE 0)
                                  + (IF x \in Items(new_map) THEN 1 ELSE 0)
                                  + (IF x = hand THEN 1 ELSE 0)
    BY Zenon DEF MapInv, HeapExact
  <2>2. \A x \in Item : heap'[x] = (IF x \in Items(map) THEN 1 ELSE 0)
                                   + (IF x \in Items(new_map') THEN 1 ELSE 0)
                                   + (IF x = hand' THEN 1 ELSE 0)
    BY <1>1, <1>3, <2>1
  <2>. QED BY Zenon, <1>2, <2>2 DEF HeapExact
<1>7. WellPlaced(map)' /\ WellPlaced(new_map)' BY Zenon DEF MapInv, WellPlaced
<1>8. (registered = Items(map))' BY Zenon, <1>2 DEF MapInv
<1>. QED BY Zenon, <1>4, <1>5, <1>6, <1>7, <1>8 DEF MapInv

\* Every step of an operation.
LEMMA MapStep == MapInv /\ [Next]_vars => MapInv'
<1>. SUFFICES ASSUME MapInv, [Next]_vars PROVE MapInv' OBVIOUS
<1>. USE DEF MapInv
<1>1. CASE UNCHANGED vars BY <1>1 DEF vars, TypeOK, Step, HeapExact, Items
<1>2. ASSUME NEW x \in Item, Add(x) \/ Remove(x) PROVE MapInv'
  <2>1. contains(map, x) <=> x \in Items(map) BY LookupFinds
  <2>2. /\ UNCHANGED <<map, new_map, heap, hand, kicks, registered>> /\ pc = "idle" /\ pc' = "clone"
        /\ op' = [kind |-> IF x \in Items(map) THEN "remove" ELSE "add", item |-> x]
    BY <1>2, <2>1 DEF Add, Remove
  <2>3. Step' BY <2>2 DEF Step, Items
  <2>. QED BY <2>2, <2>3 DEF TypeOK, HeapExact, Items
<1>3. CASE CloneMap
  <2>1. CASE Return
    BY <1>3, <2>1, ReturnKeeps, EmptyStoresNothing, MapAssumption
    DEF CloneMap, HeapExact, Step, TypeOK, Alloc, Return
  <2>2. CASE new_map' = map /\ heap' = Alloc(Items(map)) /\ UNCHANGED <<op, hand, kicks>>
             /\ pc' = (IF op.kind = "add" THEN "item" ELSE "remove")
    <3>1. UNCHANGED <<map, registered>> /\ pc = "clone" BY <1>3 DEF CloneMap
    <3>2. HeapExact' /\ heap' \in [Item -> Nat]
      BY <2>2, <3>1, EmptyStoresNothing DEF HeapExact, Alloc, Step, Items, TypeOK
    <3>3. Step' BY <2>2, <3>1 DEF Step, Items, TypeOK
    <3>. QED BY <2>2, <3>1, <3>2, <3>3 DEF TypeOK, Items
  <2>. QED BY <1>3, <2>1, <2>2 DEF CloneMap
<1>4. CASE CloneItem
  <2>1. CASE Return /\ heap' = Kfree(Items(new_map))
    <3>1. \A x \in Item : heap'[x] = IF x \in Items(map) THEN 1 ELSE 0
      BY <1>4, <2>1, MapAssumption DEF CloneItem, HeapExact, Step, TypeOK, Kfree
    <3>2. heap' \in [Item -> Nat]
      <4>1. heap' = [x \in Item |-> heap'[x]] BY <2>1 DEF Kfree
      <4>. QED BY <3>1, <4>1
    <3>. QED BY <1>4, <2>1, <3>1, <3>2, ReturnKeeps DEF CloneItem
  <2>2. CASE heap' = Alloc({op.item}) /\ hand' = op.item /\ pc' = "insert"
             /\ UNCHANGED <<op, new_map, kicks>>
    <3>1. UNCHANGED <<map, registered>> /\ pc = "item" BY <1>4 DEF CloneItem
    <3>2. hand = NoItem /\ op.item \in Item \ Items(map) /\ Items(new_map) = Items(map)
      BY <3>1 DEF Step
    <3>3. Items(map') = Items(map) /\ Items(new_map') = Items(new_map) BY <2>2, <3>1
    <3>4. heap' \in [Item -> Nat] BY <2>2 DEF Alloc, TypeOK
    <3>5. HeapExact'
      <4>1. \A x \in Item : heap'[x] = heap[x] + (IF x = hand' THEN 1 ELSE 0)
        BY <2>2, <3>2 DEF Alloc, TypeOK
      <4>2. \A x \in Item : x # hand BY <3>2, MapAssumption
      <4>. QED BY <3>3, <4>1, <4>2 DEF HeapExact, Items
    <3>6. Step' BY <2>2, <3>1, <3>2 DEF Step, Items
    <3>7. TypeOK' BY <2>2, <3>1, <3>2, <3>4 DEF TypeOK
    <3>. QED BY <2>2, <3>1, <3>5, <3>6, <3>7 DEF Items
  <2>. QED BY <1>4, <2>1, <2>2 DEF CloneItem
<1>5. CASE PutFirst
  <2>1. hand \in Item \ Items(new_map) /\ pc = "insert" /\ pc' = "publish" /\ hand' = NoItem
        /\ new_map' = Put(new_map, 1, hash1[hand], hand) /\ Evicted = NoItem
        /\ UNCHANGED <<map, heap, op, kicks, registered>>
    BY <1>5 DEF PutFirst, Step
  <2>2. WellPlaced(new_map') /\ Items(new_map') = (Items(new_map) \ {NoItem}) \cup {hand}
    BY <2>1, PlaceOne DEF hash, Evicted
  <2>3. Items(new_map') = Items(new_map) \cup {hand} BY <2>2, MapAssumption DEF Items
  <2>4. kicks' \in Nat BY Zenon, <2>1 DEF TypeOK
  <2>. QED BY Zenon, <2>1, <2>2, <2>3, <2>4, InsertKeeps
<1>6. CASE PutSecond
  <2>1. hand \in Item \ Items(new_map) /\ pc = "insert" /\ pc' = "publish" /\ hand' = NoItem
        /\ new_map' = Put(Put(new_map, 1, hash1[hand], hand), 2, hash2[Evicted], Evicted)
        /\ Evicted # NoItem /\ new_map[2][hash2[Evicted]] = NoItem
        /\ UNCHANGED <<map, heap, op, kicks, registered>>
    BY <1>6 DEF PutSecond, Step
  <2>2. WellPlaced(new_map') /\ Items(new_map') = (Items(new_map) \ {NoItem}) \cup {hand}
    BY <2>1, Round
  <2>3. Items(new_map') = Items(new_map) \cup {hand} BY <2>2, MapAssumption DEF Items
  <2>4. kicks' \in Nat BY Zenon, <2>1 DEF TypeOK
  <2>. QED BY Zenon, <2>1, <2>2, <2>3, <2>4, InsertKeeps
<1>7. CASE Kick
  <2>1. hand \in Item \ Items(new_map) /\ pc = "insert" /\ pc' = "insert"
        /\ hand' = new_map[2][hash2[Evicted]] /\ hand' # NoItem
        /\ new_map' = Put(Put(new_map, 1, hash1[hand], hand), 2, hash2[Evicted], Evicted)
        /\ Evicted # NoItem /\ kicks' = kicks + 1 /\ UNCHANGED <<map, heap, op, registered>>
    BY <1>7 DEF Kick, Step
  <2>2. /\ WellPlaced(new_map') /\ Items(new_map') = (Items(new_map) \ {hand'}) \cup {hand}
        /\ hand' \in Items(new_map) /\ Items(new_map) \subseteq Item
    BY <2>1, Round DEF Items
  <2>3. kicks' \in Nat BY <2>1 DEF TypeOK
  <2>. QED BY Zenon, <2>1, <2>2, <2>3, InsertKeeps
<1>8. CASE NoSpace
  <2>1. hand \in Item \ Items(new_map) /\ heap' = Kfree(Items(new_map) \cup {hand}) /\ Return
        /\ UNCHANGED <<map, registered>>
    BY <1>8 DEF NoSpace, Freed, Step
  <2>2. \A x \in Item : heap'[x] = IF x \in Items(map) THEN 1 ELSE 0
    BY <2>1 DEF HeapExact, TypeOK, Kfree
  <2>3. heap' \in [Item -> Nat]
    <3>1. heap' = [x \in Item |-> heap'[x]] BY <2>1 DEF Kfree
    <3>. QED BY <2>2, <3>1
  <2>. QED BY <2>1, <2>2, <2>3, ReturnKeeps
<1>9. CASE RemoveItem
  <2>. DEFINE x == op.item
  <2>1. x \in Item /\ x \in Items(map) /\ Items(new_map) = Items(map) /\ hand = NoItem
        /\ op.kind # "add" /\ pc = "remove" /\ pc' = "publish" /\ heap' = Kfree({x})
        /\ UNCHANGED <<map, op, hand, kicks, registered>>
    BY <1>9 DEF RemoveItem, Step
  <2>2. WellPlaced(new_map') /\ Items(new_map') = Items(new_map) \ {x}
    <3>1. CASE new_map[1][hash1[x]] = x
      BY <1>9, <2>1, <3>1, ClearOne DEF RemoveItem, hash
    <3>2. CASE new_map[1][hash1[x]] # x
      <4>1. new_map[2][hash2[x]] = x BY <2>1, <3>2, LookupFinds DEF contains
      <4>. QED BY <1>9, <2>1, <3>2, <4>1, ClearOne DEF RemoveItem, hash
    <3>. QED BY <3>1, <3>2
  <2>3. \A y \in Item : heap'[y] = heap[y] - (IF y = x THEN 1 ELSE 0) BY <2>1 DEF Kfree
  <2>. HIDE DEF x
  <2>4. \A y \in Item : heap'[y] = (IF y \in Items(map) THEN 1 ELSE 0)
                                   + (IF y \in Items(new_map') THEN 1 ELSE 0)
    <3>1. \A y \in Item : heap[y] = (IF y \in Items(map) THEN 1 ELSE 0)
                                    + (IF y \in Items(map) THEN 1 ELSE 0)
      BY <2>1, MapAssumption DEF HeapExact
    <3>. QED BY <2>1, <2>2, <2>3, <3>1
  <2>5. HeapExact'
    <3>1. \A y \in Item : y # hand' BY <2>1, MapAssumption
    <3>2. HeapExact' <=>
            \A y \in Item : heap'[y] = (IF y \in Items(map') THEN 1 ELSE 0)
                                      + (IF y \in Items(new_map') THEN 1 ELSE 0)
                                      + (IF y = hand' THEN 1 ELSE 0)
      BY DEF HeapExact, Items
    <3>. QED BY <2>1, <2>4, <3>1, <3>2
  <2>6. heap' \in [Item -> Nat]
    <3>1. heap' = [y \in Item |-> heap'[y]] BY <2>1 DEF Kfree
    <3>. QED BY <2>4, <3>1
  <2>7. Step' BY <2>1, <2>2 DEF Step, Items, x
  <2>8. TypeOK' BY <2>1, <2>2, <2>6, Zenon DEF TypeOK, WellPlaced
  <2>. QED BY <2>1, <2>2, <2>5, <2>7, <2>8 DEF Items
<1>10. CASE Publish
  <2>1. pc = "publish" /\ hand = NoItem /\ map' = new_map /\ heap' = Kfree(Items(map)) /\ Return
    BY <1>10 DEF Publish, Step
  <2>2. registered' = Items(map') BY <1>10, <2>1 DEF Publish, Step, Items
  <2>3. \A x \in Item : heap'[x] = IF x \in Items(map') THEN 1 ELSE 0
    <3>1. \A x \in Item : heap'[x] = heap[x] - (IF x \in Items(map) THEN 1 ELSE 0)
      BY <2>1 DEF Kfree
    <3>. QED BY <2>1, <3>1, MapAssumption DEF HeapExact
  <2>4. heap' \in [Item -> Nat]
    <3>1. heap' = [x \in Item |-> heap'[x]] BY <2>1 DEF Kfree
    <3>. QED BY <2>3, <3>1
  <2>5. new_map' = EmptyMap /\ hand' = NoItem BY <2>1 DEF Return
  <2>6. HeapExact' BY <2>3, <2>5, EmptyStoresNothing, MapAssumption DEF HeapExact, Items
  <2>7. Step' BY <2>1 DEF Return, Step
  <2>8. TypeOK' BY <2>1, <2>2, <2>4 DEF TypeOK, Return, EmptyMap, Table, Items
  <2>. QED BY <2>1, <2>2, <2>5, <2>6, <2>7, <2>8, EmptyStoresNothing DEF Items
<1>. QED BY <1>1, <1>2, <1>3, <1>4, <1>5, <1>6, <1>7, <1>8, <1>9, <1>10 DEF Next

-----------------------------------------------------------------------------
LEMMA MapInvariance == Spec => []MapInv
BY MapInitial, MapStep, PTL DEF Spec

\* What the invariant says of a map, of its lookups and of the heap.
LEMMA MapCorrect == Spec => [](StoredOnce /\ LookupExact /\ HeapExact /\ InsertIsNew)
<1>. SUFFICES MapInv => StoredOnce /\ LookupExact /\ HeapExact /\ InsertIsNew
  BY MapInvariance, PTL
<1>. SUFFICES ASSUME MapInv PROVE StoredOnce /\ LookupExact /\ InsertIsNew BY DEF MapInv
<1>. USE DEF MapInv
<1>1. StoredOnce
  <2>1. ASSUME NEW m, WellPlaced(m)
        PROVE  \A x \in Item, b, c \in Bucket :
                   /\ m[1][b] = x => m[2][c] # x
                   /\ m[1][b] = x /\ m[1][c] = x => b = c
                   /\ m[2][b] = x /\ m[2][c] = x => b = c
    BY <2>1, MapAssumption DEF WellPlaced, hash
  <2>. QED BY <2>1 DEF StoredOnce, Step
<1>2. LookupExact BY LookupFinds DEF LookupExact
<1>3. InsertIsNew BY LookupFinds DEF InsertIsNew, Step
<1>. QED BY <1>1, <1>2, <1>3

\* For any hash functions and any MAX_KICKS, insert() leaves no item in two
\* buckets, whatever it kicked out on the way and whether it succeeded or not.
THEOREM MapStoresOnce == Spec => []StoredOnce
BY MapCorrect, PTL

\* contains() finds an item if and only if it was registered and not removed
\* since: an item that insert() kicked around is never missed.
THEOREM MapLookupExact == Spec => []LookupExact
BY MapCorrect, PTL

\* What is allocated is what the maps and insert() hold: a failed insertion
\* frees the copy it made and no other.
THEOREM MapHeapExact == Spec => []HeapExact
BY MapCorrect, PTL

\* insert() is never asked for an item that is there already, nor remove() for
\* one that is not.
THEOREM MapInsertsNew == Spec => []InsertIsNew
BY MapCorrect, PTL

\* Seen through contains(), every operation of the store adds one entry,
\* removes one entry or changes nothing.
THEOREM MapImplementsRegistry == Spec => ImplementsRegistry
<1>. DEFINE found == {x \in Item : contains(map, x)}
<1>1. MapInv => found = registered BY LookupFinds DEF MapInv, TypeOK
<1>2. Init => Abstract!Init BY <1>1, MapInitial DEF Init, Abstract!Init
<1>3. MapInv /\ MapInv' /\ [Next]_vars => [Abstract!Next]_found
  <2>. SUFFICES ASSUME MapInv, MapInv', [Next]_vars PROVE Abstract!Next \/ found' = found
    OBVIOUS
  <2>1. found = registered BY <1>1
  <2>2. found' = registered'
    <3>1. \A x \in Item : contains(map', x) <=> x \in Items(map') BY LookupFinds DEF MapInv
    <3>. QED BY <3>1 DEF MapInv, Items, contains
  <2>3. CASE Publish
    BY <2>1, <2>2, <2>3 DEF Publish, MapInv, Step, Abstract!Next, Abstract!Add, Abstract!Remove
  <2>4. CASE registered' = registered BY <2>1, <2>2, <2>4
  <2>. QED
    BY <2>3, <2>4 DEF Next, vars, Add, Remove, CloneMap, CloneItem, PutFirst, PutSecond, Kick,
       NoSpace, RemoveItem
<1>. QED BY <1>2, <1>3, MapInvariance, PTL DEF Spec, ImplementsRegistry, Abstract!Spec
=============================================================================
