----------------------------- MODULE RcuProofs ------------------------------
(***************************************************************************)
(* RcuStore for any number of writers, readers, items and addresses: no    *)
(* freed map is read, maps are neither leaked nor destroyed twice, answers *)
(* are justified and updates are atomic.                                   *)
(*                                                                         *)
(* The heart is Reads: a map in a reader's hands is either published or    *)
(* retired by a writer whose grace period waits for that reader.           *)
(***************************************************************************)
EXTENDS RcuStore, TLAPS

\* Writers in the critical section, and what their locals hold.
Locked == {"check", "clone", "modify", "publish", "unlock"}

\* What contains() answered lets the operation go on.
Missing(w) == (request[w].item \in content[old_map[w]]) # request[w].add

\* The map insert() or remove() makes of the old one.
Updated(w) == IF request[w].add THEN content[old_map[w]] \cup {request[w].item}
                                ELSE content[old_map[w]] \ {request[w].item}

Locals(w) ==
    /\ write_lock = w <=> wpc[w] \in Locked
    /\ wpc[w] = "idle" <=> request[w] = NoRequest
    /\ wpc[w] \in {"idle", "lock"} <=> old_map[w] = NoMap
    /\ wpc[w] \in {"modify", "publish"} <=> new_map[w] # NoMap
    /\ wpc[w] \in Locked \ {"unlock"} => old_map[w] = ptr[request[w].kind]
    /\ wpc[w] \in {"clone", "modify", "publish"} => Missing(w)
    /\ wpc[w] = "modify" => content[new_map[w]] = content[old_map[w]]
    /\ wpc[w] = "publish" => content[new_map[w]] = Updated(w)

\* Ownership, and NoLeak address by address.
Heap ==
    /\ ptr["user"] # ptr["program"]
    /\ \A m \in Map :
        m \in allocated <=> \/ \E k \in Kind : ptr[k] = m
                            \/ \E w \in Writer : new_map[w] = m
                            \/ \E w \in Writer : Retired(w) /\ old_map[w] = m
    /\ \A w \in Writer, k \in Kind :
        /\ ptr[k] # new_map[w]
        /\ Retired(w) => ptr[k] # old_map[w]
    /\ \A w, v \in Writer :
        Retired(w) => /\ new_map[v] # old_map[w]
                      /\ v # w /\ Retired(v) => old_map[v] # old_map[w]

\* The writer cannot destroy its old map while r is in its section.
Guards(w, r) ==
    /\ Retired(w)
    /\ old_map[w] = rmap[r]
    /\ wpc[w] = "grace" => r \in grace[w]

Right(r, k, m) == key[r][k] \in content[m]

Reads(r) ==
    /\ rpc[r] = "reading" <=> rmap[r] # NoMap
    /\ rpc[r] \in {"locked", "reading"} => todo[r] # <<>>
    /\ rpc[r] = "reading" =>
        /\ rmap[r] = ptr[Head(todo[r])] \/ \E w \in Writer : Guards(w, r)
        /\ Right(r, Head(todo[r]), rmap[r]) \in seen[r][Head(todo[r])]
    /\ \A k \in Kind :
        /\ rpc[r] # "out" => Right(r, k, ptr[k]) \in seen[r][k]
        /\ rpc[r] = "out" => found[r][k] = {}
        /\ found[r][k] \subseteq seen[r][k]

StoreInv ==
    /\ TypeOK
    /\ \A w \in Writer : Locals(w)
    /\ Heap
    /\ \A r \in Reader : Reads(r)

-----------------------------------------------------------------------------
\* What the readers' lists of maps can be, and their first entry.
LEMMA TodoHead ==
    ASSUME TypeOK, NEW r \in Reader, todo[r] # <<>>
    PROVE  Head(todo[r]) \in Kind
BY DEF TypeOK, CheckIfRegistered, SysThrotRead, Kind

LEMMA TodoTail ==
    /\ Tail(CheckIfRegistered) = <<"user">>
    /\ Tail(SysThrotRead) = <<"program">>
    /\ Tail(<<"user">>) = <<>>
    /\ Tail(<<"program">>) = <<>>
BY DEF CheckIfRegistered, SysThrotRead

\* Published, cloned and retired maps are allocated; so are the ones in use.
LEMMA InUse ==
    ASSUME StoreInv
    PROVE  /\ \A k \in Kind : ptr[k] \in allocated
           /\ \A w \in Writer : /\ new_map[w] # NoMap => new_map[w] \in allocated
                                /\ old_map[w] # NoMap => old_map[w] \in allocated
           /\ \A r \in Reader : rmap[r] # NoMap => rmap[r] \in allocated
<1>1. \A k \in Kind : ptr[k] \in allocated BY DEF StoreInv, TypeOK, Heap
<1>2. \A w \in Writer : new_map[w] # NoMap => new_map[w] \in allocated
  BY DEF StoreInv, TypeOK, Heap
<1>3. \A w \in Writer : Retired(w) => old_map[w] \in allocated
  <2>. SUFFICES ASSUME NEW w \in Writer, Retired(w) PROVE old_map[w] \in allocated OBVIOUS
  <2>1. old_map[w] \in Map BY DEF StoreInv, TypeOK, Locals, Retired
  <2>. QED BY <2>1 DEF StoreInv, Heap
<1>4. \A w \in Writer : old_map[w] # NoMap => old_map[w] \in allocated
  <2>. SUFFICES ASSUME NEW w \in Writer, old_map[w] # NoMap PROVE old_map[w] \in allocated
    OBVIOUS
  <2>1. wpc[w] \in Locked \ {"unlock"} \/ Retired(w)
    BY DEF StoreInv, TypeOK, Locals, Locked, Retired
  <2>2. ASSUME wpc[w] \in Locked \ {"unlock"} PROVE old_map[w] \in allocated
    <3>1. request[w] \in Request /\ old_map[w] = ptr[request[w].kind]
      BY <2>2 DEF StoreInv, TypeOK, Locals, Locked
    <3>. QED BY <1>1, <3>1 DEF Request
  <2>. QED BY <1>3, <2>1, <2>2
<1>5. \A r \in Reader : rmap[r] # NoMap => rmap[r] \in allocated
  <2>. SUFFICES ASSUME NEW r \in Reader, rmap[r] # NoMap PROVE rmap[r] \in allocated OBVIOUS
  <2>1. rpc[r] = "reading" /\ Head(todo[r]) \in Kind BY TodoHead DEF StoreInv, Reads
  <2>2. rmap[r] = ptr[Head(todo[r])] \/ \E w \in Writer : Guards(w, r)
    BY <2>1 DEF StoreInv, Reads
  <2>. QED BY <1>1, <1>3, <2>1, <2>2 DEF Guards
<1>. QED BY <1>1, <1>2, <1>4, <1>5

\* The store at the end of init_sysThrot_store().
LEMMA StoreInitial == Init => StoreInv
<1>. SUFFICES ASSUME NEW u \in Map, NEW p \in Map, u # p,
                     ptr = [k \in Kind |-> IF k = "user" THEN u ELSE p],
                     allocated = {u, p},
                     content = [m \in Map |-> {}],
                     write_lock = NoWriter,
                     wpc = [w \in Writer |-> "idle"],
                     request = [w \in Writer |-> NoRequest],
                     old_map = [w \in Writer |-> NoMap],
                     new_map = [w \in Writer |-> NoMap],
                     grace = [w \in Writer |-> {}],
                     rpc = [r \in Reader |-> "out"],
                     todo = [r \in Reader |-> <<>>],
                     rmap = [r \in Reader |-> NoMap],
                     found = [r \in Reader |-> [k \in Kind |-> {}]],
                     seen = [r \in Reader |-> [k \in Kind |-> {}]]
              PROVE  StoreInv
  BY DEF Init
<1>1. TypeOK BY DEF TypeOK
<1>2. \A w \in Writer : Locals(w) BY StoreAssumption DEF Locals, Locked
<1>3. Heap BY StoreAssumption DEF Heap, Kind, Retired
<1>4. \A r \in Reader : Reads(r) BY DEF Reads
<1>. QED BY <1>1, <1>2, <1>3, <1>4 DEF StoreInv

-----------------------------------------------------------------------------
\* Nothing of v changes, nor what its old map and its clone hold.
Untouched(v) ==
    /\ wpc'[v] = wpc[v]
    /\ request'[v] = request[v]
    /\ old_map'[v] = old_map[v]
    /\ new_map'[v] = new_map[v]
    /\ write_lock' = v <=> write_lock = v

LEMMA UntouchedLocals ==
    ASSUME NEW v \in Writer, Locals(v), Untouched(v),
           wpc[v] \in Locked \ {"unlock"} => ptr'[request[v].kind] = ptr[request[v].kind],
           \A m \in {old_map[v], new_map[v]} : content'[m] = content[m]
    PROVE  Locals(v)'
<1>1. Missing(v)' = Missing(v) BY DEF Missing, Untouched
<1>2. Updated(v)' = Updated(v) BY Zenon DEF Updated, Untouched
<1>. QED BY <1>1, <1>2 DEF Locals, Untouched

\* A step of w that leaves the maps and the pointers alone, and does not
\* retire a map or give one up.
LEMMA QuietStep ==
    ASSUME StoreInv, TypeOK', UNCHANGED <<ptr, content, allocated, readerVars, seen>>,
           NEW w \in Writer, Locals(w)',
           \A v \in Writer \ {w} : Untouched(v) /\ grace'[v] = grace[v],
           new_map'[w] = new_map[w],
           Retired(w)' <=> Retired(w),
           Retired(w) => old_map'[w] = old_map[w],
           \A r \in Reader : Guards(w, r) => Guards(w, r)'
    PROVE  StoreInv'
<1>1. \A v \in Writer : Locals(v)' BY UntouchedLocals DEF StoreInv
<1>2. \A v \in Writer : /\ Retired(v)' <=> Retired(v)
                        /\ Retired(v) => old_map'[v] = old_map[v]
                        /\ new_map'[v] = new_map[v]
  BY DEF Retired, Untouched
<1>3. Heap' BY <1>2 DEF StoreInv, Heap
<1>4. \A v \in Writer, r \in Reader : Guards(v, r) => Guards(v, r)'
  BY <1>2 DEF Guards, Untouched, readerVars
<1>5. \A r \in Reader : Reads(r)'
  <2>. SUFFICES ASSUME NEW r \in Reader PROVE Reads(r)' OBVIOUS
  <2>1. Reads(r) BY DEF StoreInv
  <2>2. \A k \in Kind : Right(r, k, ptr[k])' = Right(r, k, ptr[k]) BY DEF Right
  <2>3. Right(r, Head(todo[r]), rmap[r])' = Right(r, Head(todo[r]), rmap[r])
    BY DEF Right, readerVars
  <2>. QED BY <1>4, <2>1, <2>2, <2>3 DEF Reads, readerVars
<1>. QED BY <1>1, <1>3, <1>5 DEF StoreInv

\* Every variable keeps its type.
LEMMA StoreTypes == StoreInv /\ [Next]_vars => TypeOK'
<1>. SUFFICES ASSUME StoreInv, [Next]_vars PROVE TypeOK' OBVIOUS
<1>. USE DEF storeVars, writerVars, readerVars
<1>0. TypeOK BY DEF StoreInv
<1>1. CASE UNCHANGED vars BY <1>0, <1>1 DEF vars, TypeOK
<1>2. ASSUME NEW w \in Writer, NEW req \in Request, Call(w, req) PROVE TypeOK'
  BY <1>0, <1>2 DEF Call, TypeOK
<1>3. ASSUME NEW w \in Writer, LockStore(w) \/ UnlockStore(w) \/ SynchronizeRcu(w) PROVE TypeOK'
  <2>1. CASE LockStore(w)
    <3>1. request[w] \in Request BY <2>1 DEF StoreInv, TypeOK, Locals, LockStore
    <3>. QED BY <1>0, <2>1, <3>1 DEF LockStore, TypeOK, Request
  <2>2. CASE UnlockStore(w) BY <1>0, <2>2 DEF UnlockStore, TypeOK
  <2>3. CASE SynchronizeRcu(w) BY <1>0, <2>3 DEF SynchronizeRcu, TypeOK, InSection
  <2>. QED BY <1>3, <2>1, <2>2, <2>3
<1>4. ASSUME NEW w \in Writer, Check(w) \/ CloneFails(w) PROVE TypeOK'
  <2>1. CASE Fail(w) BY <1>0, <1>4, <2>1 DEF Check, CloneFails, Fail, TypeOK
  <2>2. CASE Check(w) /\ ~Fail(w) BY <1>0, <2>2 DEF Check, TypeOK
  <2>. QED BY <1>4, <2>1, <2>2 DEF CloneFails
<1>5. ASSUME NEW w \in Writer, Clone(w) PROVE TypeOK'
  <2>0. wpc[w] = "clone" BY <1>5 DEF Clone
  <2>1. old_map[w] \in Map BY SMTT(30), <1>0, <2>0 DEF StoreInv, Locals, TypeOK
  <2>. QED BY <1>0, <1>5, <2>1 DEF Clone, TypeOK
<1>6. ASSUME NEW w \in Writer, Modify(w) PROVE TypeOK'
  <2>1. request[w] \in Request BY <1>0, <1>6 DEF StoreInv, Locals, Modify, TypeOK
  <2>. QED BY Zenon, <1>0, <1>6, <2>1 DEF Modify, TypeOK, Request
<1>7. ASSUME NEW w \in Writer, ModifyFails(w) \/ DestroyOld(w) PROVE TypeOK'
  BY Zenon, <1>0, <1>7 DEF ModifyFails, DestroyOld, Destroy, Fail, TypeOK
<1>8. ASSUME NEW w \in Writer, Publish(w) PROVE TypeOK'
  <2>1. new_map[w] \in Map BY <1>0, <1>8 DEF StoreInv, Locals, Publish, TypeOK
  <2>2. seen' \in [Reader -> [Kind -> SUBSET BOOLEAN]]
    <3>1. \A r \in Reader, k \in Kind :
            seen[r][k] \cup {key[r][k] \in content[ptr'[k]]} \in SUBSET BOOLEAN
      <4>1. \A r \in Reader, k \in Kind : seen[r][k] \in SUBSET BOOLEAN BY <1>0 DEF TypeOK
      <4>2. \A r \in Reader, k \in Kind :
              {key[r][k] \in content[ptr'[k]]} \in SUBSET BOOLEAN OBVIOUS
      <4>. QED BY Zenon, <4>1, <4>2
    <3>. QED BY <1>0, <1>8, <3>1, ZenonT(30) DEF Publish, Witness, TypeOK
  <2>. QED BY Zenon, <1>0, <1>8, <2>1, <2>2 DEF Publish, TypeOK
<1>9. ASSUME NEW r \in Reader, ReadLock(r) PROVE TypeOK' BY <1>0, <1>9 DEF ReadLock, TypeOK
<1>10. ASSUME NEW r \in Reader, Dereference(r) PROVE TypeOK'
  <2>1. Head(todo[r]) \in Kind BY <1>0, <1>10, TodoHead DEF StoreInv, Reads, Dereference
  <2>. QED BY <1>0, <1>10, <2>1 DEF Dereference, TypeOK
<1>11. ASSUME NEW r \in Reader, Find(r) PROVE TypeOK'
  <2>1. Head(todo[r]) \in Kind /\ Tail(todo[r]) \in {<<"user">>, <<>>}
    <3>1. Head(todo[r]) \in Kind BY <1>0, <1>11, TodoHead DEF StoreInv, Reads, Find
    <3>. QED BY Zenon, <1>11, <3>1, TodoTail DEF Find
  <2>2. found' \in [Reader -> [Kind -> SUBSET BOOLEAN]]
    <3>1. {key[r][Head(todo[r])] \in content[rmap[r]]} \in SUBSET BOOLEAN OBVIOUS
    <3>. QED BY <1>0, <1>11, <2>1, <3>1 DEF Find, TypeOK
  <2>. QED BY <1>0, <1>11, <2>1, <2>2 DEF Find, LeaveSection, TypeOK
<1>12. ASSUME NEW r \in Reader, List(r) PROVE TypeOK'
  <2>1. Tail(todo[r]) \in {<<"program">>, <<>>} BY Zenon, <1>12, TodoTail DEF List
  <2>. QED BY <1>0, <1>12, <2>1 DEF List, LeaveSection, TypeOK
<1>13. ASSUME NEW r \in Reader, Return(r) PROVE TypeOK' BY <1>0, <1>13 DEF Return, TypeOK
<1>14. ASSUME NEW r \in Reader, Enter(r, CheckIfRegistered) \/ Enter(r, SysThrotRead)
       PROVE  TypeOK'
  <2>1. seen' \in [Reader -> [Kind -> SUBSET BOOLEAN]]
    <3>1. \A k \in Kind : {key[r][k] \in content[ptr[k]]} \in SUBSET BOOLEAN OBVIOUS
    <3>2. [k \in Kind |-> {key[r][k] \in content[ptr[k]]}] \in [Kind -> SUBSET BOOLEAN]
      BY <3>1, Zenon
    <3>. QED BY <1>0, <1>14, <3>2, Zenon DEF Enter, TypeOK
  <2>2. todo' \in [Reader -> {CheckIfRegistered, SysThrotRead, <<"user">>, <<"program">>, <<>>}]
    BY <1>0, <1>14, Zenon DEF Enter, TypeOK
  <2>3. UNCHANGED <<storeVars, writerVars, rmap, found>> /\ rpc' = [rpc EXCEPT ![r] = "next"]
    BY <1>14 DEF Enter
  <2>. QED BY <1>0, <2>1, <2>2, <2>3 DEF TypeOK
<1>. QED BY <1>1, <1>2, <1>3, <1>4, <1>5, <1>6, <1>7, <1>8, <1>9, <1>10, <1>11, <1>12, <1>13,
            <1>14 DEF Next, WriterStep, ReaderStep

-----------------------------------------------------------------------------
\* The steps of a writer before and after its work on the maps.
LEMMA QuietSteps ==
    ASSUME StoreInv, TypeOK', NEW w \in Writer,
           \/ \E req \in Request : Call(w, req)
           \/ LockStore(w) \/ Check(w) \/ CloneFails(w) \/ UnlockStore(w) \/ SynchronizeRcu(w)
    PROVE  StoreInv'
<1>. USE DEF storeVars, writerVars
<1>1. UNCHANGED <<ptr, content, allocated, readerVars, seen>>
  BY DEF Call, LockStore, Check, CloneFails, UnlockStore, SynchronizeRcu
<1>2. \A v \in Writer : Locals(v) BY DEF StoreInv
<1>3. TypeOK BY DEF StoreInv
<1>4. wpc[w] \in Locked => write_lock = w BY <1>2 DEF Locals
<1>5. ASSUME NEW req \in Request, Call(w, req) PROVE StoreInv'
  <2>1. /\ wpc[w] = "idle" /\ wpc' = [wpc EXCEPT ![w] = "lock"]
        /\ request' = [request EXCEPT ![w] = req]
        /\ UNCHANGED <<write_lock, old_map, new_map, grace>>
    BY <1>5 DEF Call
  <2>2. Locals(w)' BY <1>2, <1>3, <2>1, StoreAssumption DEF Locals, Locked, TypeOK
  <2>3. \A v \in Writer \ {w} : Untouched(v) /\ grace'[v] = grace[v]
    BY <1>3, <2>1 DEF Untouched, TypeOK
  <2>4. ~Retired(w) /\ ~Retired(w)' BY <1>3, <2>1 DEF Retired, TypeOK
  <2>. QED BY Zenon, <1>1, <2>1, <2>2, <2>3, <2>4, QuietStep DEF Guards
<1>6. CASE LockStore(w)
  <2>1. /\ wpc[w] = "lock" /\ wpc' = [wpc EXCEPT ![w] = "check"]
        /\ write_lock = NoWriter /\ write_lock' = w
        /\ old_map' = [old_map EXCEPT ![w] = ptr[request[w].kind]]
        /\ UNCHANGED <<request, new_map, grace>>
    BY <1>6 DEF LockStore
  <2>2. ptr[request[w].kind] \in Map
    <3>1. request[w] \in Request BY <1>2, <1>3, <2>1 DEF Locals, TypeOK
    <3>. QED BY <1>3, <3>1 DEF Request, TypeOK
  <2>3. Locals(w)'
    <3>1. /\ wpc'[w] = "check" /\ old_map'[w] = ptr'[request'[w].kind] /\ old_map'[w] # NoMap
          /\ request'[w] = request[w] /\ new_map'[w] = new_map[w]
      BY <1>1, <1>3, <2>1, <2>2, StoreAssumption DEF TypeOK
    <3>2. request[w] # NoRequest /\ new_map[w] = NoMap BY Zenon, <1>2, <2>1 DEF Locals
    <3>. QED BY Zenon, <2>1, <3>1, <3>2 DEF Locals, Locked
  <2>4. \A v \in Writer \ {w} : Untouched(v) /\ grace'[v] = grace[v]
    BY <1>3, <2>1, StoreAssumption DEF Untouched, TypeOK
  <2>5. ~Retired(w) /\ ~Retired(w)' BY <1>3, <2>1 DEF Retired, TypeOK
  <2>. QED BY <1>1, <2>1, <2>3, <2>4, <2>5, QuietStep DEF Guards
<1>7. ASSUME wpc[w] \in {"check", "clone"}, Fail(w), UNCHANGED grace PROVE StoreInv'
  <2>1. /\ write_lock' = NoWriter /\ wpc' = [wpc EXCEPT ![w] = "idle"]
        /\ request' = [request EXCEPT ![w] = NoRequest]
        /\ old_map' = [old_map EXCEPT ![w] = NoMap] /\ new_map' = [new_map EXCEPT ![w] = NoMap]
    BY <1>7 DEF Fail
  <2>2. Locals(w)'
    <3>1. /\ wpc'[w] = "idle" /\ request'[w] = NoRequest /\ old_map'[w] = NoMap
          /\ new_map'[w] = NoMap /\ write_lock' # w
      BY <1>3, <2>1, StoreAssumption DEF TypeOK
    <3>. QED BY Zenon, <3>1 DEF Locals, Locked
  <2>3. \A v \in Writer \ {w} : Untouched(v) /\ grace'[v] = grace[v]
    BY <1>3, <1>4, <1>7, <2>1, StoreAssumption DEF Untouched, TypeOK, Locked
  <2>4. ~Retired(w) /\ ~Retired(w)' BY <1>3, <1>7, <2>1 DEF Retired, TypeOK
  <2>5. new_map'[w] = new_map[w]
    <3>1. new_map[w] = NoMap BY Zenon, <1>2, <1>7 DEF Locals
    <3>. QED BY <1>3, <2>1, <3>1 DEF TypeOK
  <2>. QED BY <1>1, <2>2, <2>3, <2>4, <2>5, QuietStep DEF Guards
<1>8. CASE Check(w)
  <2>1. CASE Fail(w) BY Zenon, <1>7, <1>8, <2>1 DEF Check
  <2>2. CASE ~Fail(w)
    <3>1. wpc[w] = "check" /\ wpc' = [wpc EXCEPT ![w] = "clone"]
          /\ UNCHANGED <<write_lock, request, old_map, new_map, grace>>
      BY Zenon, <1>8, <2>2 DEF Check
    <3>2. Missing(w) BY <1>8, <2>2 DEF Check, Missing
    <3>3. Missing(w)' BY <1>1, <3>1, <3>2 DEF Missing
    <3>4. Locals(w)' BY Zenon, <1>1, <1>2, <1>3, <3>1, <3>3 DEF Locals, Locked, TypeOK
    <3>5. \A v \in Writer \ {w} : Untouched(v) /\ grace'[v] = grace[v]
      BY <1>3, <3>1 DEF Untouched, TypeOK
    <3>6. ~Retired(w) /\ ~Retired(w)' BY <1>3, <3>1 DEF Retired, TypeOK
    <3>. QED BY Zenon, <1>1, <3>1, <3>4, <3>5, <3>6, QuietStep DEF Guards
  <2>. QED BY <2>1, <2>2
<1>9. CASE CloneFails(w) BY <1>7, <1>9 DEF CloneFails
<1>10. CASE UnlockStore(w)
  <2>1. wpc[w] = "unlock" /\ wpc' = [wpc EXCEPT ![w] = "sync"] /\ write_lock' = NoWriter
        /\ UNCHANGED <<request, old_map, new_map, grace>>
    BY <1>10 DEF UnlockStore
  <2>2. Locals(w)'
    <3>1. wpc'[w] = "sync" /\ write_lock' # w BY <1>3, <2>1, StoreAssumption DEF TypeOK
    <3>. QED BY Zenon, <1>2, <2>1, <3>1 DEF Locals, Locked
  <2>3. \A v \in Writer \ {w} : Untouched(v) /\ grace'[v] = grace[v]
    BY <1>3, <1>4, <2>1, StoreAssumption DEF Untouched, TypeOK, Locked
  <2>4. Retired(w) /\ Retired(w)' BY <1>3, <2>1 DEF Retired, TypeOK
  <2>5. \A r \in Reader : Guards(w, r) => Guards(w, r)'
    BY Zenon, <1>1, <1>3, <2>1, <2>4 DEF Guards, TypeOK, readerVars
  <2>. QED BY <1>1, <2>1, <2>2, <2>3, <2>4, <2>5, QuietStep
<1>11. CASE SynchronizeRcu(w)
  <2>1. wpc[w] = "sync" /\ wpc' = [wpc EXCEPT ![w] = "grace"]
        /\ grace' = [grace EXCEPT ![w] = InSection]
        /\ UNCHANGED <<write_lock, request, old_map, new_map>>
    BY <1>11 DEF SynchronizeRcu
  <2>2. Locals(w)' BY Zenon, <1>2, <1>3, <2>1 DEF Locals, Locked, TypeOK
  <2>3. \A v \in Writer \ {w} : Untouched(v) /\ grace'[v] = grace[v]
    BY <1>3, <2>1 DEF Untouched, TypeOK
  <2>4. Retired(w) /\ Retired(w)' BY <1>3, <2>1 DEF Retired, TypeOK
  <2>5. \A r \in Reader : Guards(w, r) => Guards(w, r)'
    <3>. SUFFICES ASSUME NEW r \in Reader, Guards(w, r) PROVE Guards(w, r)' OBVIOUS
    <3>1. rmap[r] # NoMap BY Zenon, <1>2, <2>1 DEF Guards, Locals
    <3>2. r \in InSection BY Zenon, <3>1 DEF StoreInv, Reads, InSection
    <3>. QED BY <1>1, <1>3, <2>1, <2>4, <3>2 DEF Guards, TypeOK, readerVars
  <2>. QED BY Zenon, <1>1, <2>1, <2>2, <2>3, <2>4, <2>5, QuietStep
<1>. QED BY <1>5, <1>6, <1>8, <1>9, <1>10, <1>11

-----------------------------------------------------------------------------
\* A step that neither publishes nor touches the maps in the hands of r.
LEMMA ReadsKept ==
    ASSUME TypeOK, NEW r \in Reader, Reads(r), UNCHANGED <<ptr, readerVars, seen>>,
           \A k \in Kind : content'[ptr[k]] = content[ptr[k]],
           rmap[r] # NoMap => content'[rmap[r]] = content[rmap[r]],
           \A w \in Writer : Guards(w, r) => Guards(w, r)'
    PROVE  Reads(r)'
<1>1. \A k \in Kind : Right(r, k, ptr[k])' = Right(r, k, ptr[k]) BY Zenon DEF Right
<1>2. rpc[r] = "reading" => Right(r, Head(todo[r]), rmap[r])' = Right(r, Head(todo[r]), rmap[r])
  BY Zenon DEF Right, Reads, readerVars
<1>. QED BY Zenon, <1>1, <1>2 DEF Reads, readerVars

\* Only the writer in the critical section works on a clone.
LEMMA OneClone ==
    ASSUME StoreInv, NEW w \in Writer, write_lock = w
    PROVE  \A v \in Writer \ {w} : new_map[v] = NoMap /\ wpc[v] \notin Locked
BY Zenon DEF StoreInv, Locals, Locked

\* The heap does not depend on the readers.
LEMMA HeapKept ==
    ASSUME Heap, UNCHANGED <<ptr, allocated, new_map, old_map, wpc>>
    PROVE  Heap'
<1>1. \A w \in Writer : Retired(w)' <=> Retired(w) BY Zenon DEF Retired
<1>. QED BY <1>1 DEF Heap

\* clone_map() takes an address nobody uses.
LEMMA CloneStep ==
    ASSUME StoreInv, TypeOK', NEW w \in Writer, Clone(w)
    PROVE  StoreInv'
<1>1. PICK m \in Map \ allocated :
        /\ allocated' = allocated \cup {m}
        /\ content' = [content EXCEPT ![m] = content[old_map[w]]]
        /\ new_map' = [new_map EXCEPT ![w] = m]
  BY Zenon DEF Clone
<1>2. wpc[w] = "clone" /\ wpc' = [wpc EXCEPT ![w] = "modify"]
      /\ UNCHANGED <<ptr, write_lock, request, old_map, grace, readerVars, seen>>
  BY DEF Clone
<1>3. TypeOK /\ Heap /\ (\A v \in Writer : Locals(v)) /\ (\A r \in Reader : Reads(r))
  BY DEF StoreInv
<1>4. \A n \in Map : n # m => content'[n] = content[n] BY <1>1, <1>3 DEF TypeOK
<1>5. content'[m] = content[old_map[w]] BY <1>1, <1>3 DEF TypeOK
<1>6. /\ \A k \in Kind : ptr[k] # m /\ ptr[k] \in Map
      /\ \A v \in Writer : old_map[v] # m /\ new_map[v] # m
      /\ \A r \in Reader : rmap[r] # m
  <2>1. \A k \in Kind : ptr[k] \in Map BY <1>3 DEF TypeOK
  <2>2. m # NoMap BY StoreAssumption
  <2>. QED BY <1>1, <2>1, <2>2, InUse
<1>7. write_lock = w /\ old_map[w] # NoMap BY <1>2, <1>3 DEF Locals, Locked
<1>8. new_map'[w] = m /\ wpc'[w] = "modify" /\ old_map[w] \in Map
  BY <1>1, <1>2, <1>3, <1>7 DEF TypeOK
<1>9. \A v \in Writer \ {w} : new_map'[v] = new_map[v] /\ wpc'[v] = wpc[v]
  BY Zenon, <1>1, <1>2, <1>3 DEF TypeOK
<1>10. \A v \in Writer : Retired(v)' <=> Retired(v) BY <1>2, <1>8, <1>9 DEF Retired
<1>11. \A v \in Writer : Locals(v)'
  <2>1. Locals(w)'
    <3>1. content'[old_map[w]] = content[old_map[w]] BY <1>4, <1>6, <1>8
    <3>2. Missing(w) BY <1>2, <1>3 DEF Locals
    <3>3. Missing(w)' BY <1>2, <3>1, <3>2 DEF Missing
    <3>4. /\ request[w] # NoRequest /\ old_map[w] # NoMap /\ old_map[w] = ptr[request[w].kind]
      BY Zenon, <1>2, <1>3 DEF Locals, Locked
    <3>5. m # NoMap BY StoreAssumption
    <3>. QED BY Zenon, <1>2, <1>5, <1>7, <1>8, <3>1, <3>3, <3>4, <3>5 DEF Locals, Locked
  <2>2. ASSUME NEW v \in Writer \ {w} PROVE Locals(v)'
    <3>1. Untouched(v) BY <1>2, <1>9 DEF Untouched
    <3>2. wpc[v] \notin Locked /\ new_map[v] = NoMap BY <1>7, OneClone
    <3>. QED BY Zenon, <1>2, <1>3, <3>1, <3>2 DEF Locals, Untouched, Locked
  <2>. QED BY <2>1, <2>2
<1>12. Heap'
  <2>1. \A n \in Map : n \in allocated' <=>
            \/ \E k \in Kind : ptr'[k] = n
            \/ \E v \in Writer : new_map'[v] = n
            \/ \E v \in Writer : Retired(v)' /\ old_map'[v] = n
    <3>. SUFFICES ASSUME NEW n \in Map
                  PROVE  n \in allocated' <=>
                            \/ \E k \in Kind : ptr'[k] = n
                            \/ \E v \in Writer : new_map'[v] = n
                            \/ \E v \in Writer : Retired(v)' /\ old_map'[v] = n
      OBVIOUS
    <3>1. new_map[w] = NoMap BY <1>2, <1>3 DEF Locals
    <3>2. CASE n = m BY <1>1, <1>8, <3>2
    <3>3. CASE n # m
      <4>1. (\E v \in Writer : new_map'[v] = n) <=> \E v \in Writer : new_map[v] = n
        BY <1>8, <1>9, <3>1, <3>3, StoreAssumption
      <4>2. n \in allocated' <=> n \in allocated BY <1>1, <3>3
      <4>3. n \in allocated <=> \/ \E k \in Kind : ptr[k] = n
                                \/ \E v \in Writer : new_map[v] = n
                                \/ \E v \in Writer : Retired(v) /\ old_map[v] = n
        BY Zenon, <1>3 DEF Heap
      <4>. QED BY <1>2, <1>10, <4>1, <4>2, <4>3
    <3>. QED BY <3>2, <3>3
  <2>2. ptr'["user"] # ptr'["program"] BY Zenon, <1>2, <1>3 DEF Heap
  <2>3. ASSUME NEW v \in Writer, NEW k \in Kind
        PROVE  /\ ptr'[k] # new_map'[v]
               /\ Retired(v)' => ptr'[k] # old_map'[v]
    <3>1. /\ ptr[k] # new_map[v]
          /\ Retired(v) => ptr[k] # old_map[v]
      BY Zenon, <1>3 DEF Heap
    <3>. QED BY <1>2, <1>6, <1>8, <1>9, <1>10, <3>1
  <2>4. ASSUME NEW v \in Writer, NEW u \in Writer, Retired(v)'
        PROVE  /\ new_map'[u] # old_map'[v]
               /\ u # v /\ Retired(u)' => old_map'[u] # old_map'[v]
    <3>1. Retired(v) BY Zenon, <1>10, <2>4
    <3>2. /\ new_map[u] # old_map[v]
          /\ u # v /\ Retired(u) => old_map[u] # old_map[v]
      BY Zenon, <1>3, <3>1 DEF Heap
    <3>. QED BY <1>2, <1>6, <1>8, <1>9, <1>10, <3>2
  <2>. QED BY Zenon, <2>1, <2>2, <2>3, <2>4 DEF Heap
<1>13. \A r \in Reader : Reads(r)'
  <2>1. \A v \in Writer, r \in Reader : Guards(v, r) => Guards(v, r)'
    BY <1>2, <1>3, <1>10 DEF Guards, readerVars, TypeOK
  <2>2. \A r \in Reader : rmap[r] # NoMap => content'[rmap[r]] = content[rmap[r]]
    BY <1>3, <1>4, <1>6 DEF TypeOK
  <2>. QED BY Zenon, <1>2, <1>3, <1>4, <1>6, <2>1, <2>2, ReadsKept
<1>. QED BY <1>11, <1>12, <1>13 DEF StoreInv

\* insert() or remove() works on the clone only.
LEMMA ModifyStep ==
    ASSUME StoreInv, TypeOK', NEW w \in Writer, Modify(w)
    PROVE  StoreInv'
<1>1. wpc[w] = "modify" /\ wpc' = [wpc EXCEPT ![w] = "publish"]
      /\ UNCHANGED <<ptr, allocated, write_lock, request, old_map, new_map, grace, readerVars, seen>>
  BY DEF Modify
<1>2. TypeOK /\ Heap /\ (\A v \in Writer : Locals(v)) /\ (\A r \in Reader : Reads(r))
  BY DEF StoreInv
<1>3. /\ write_lock = w /\ old_map[w] # NoMap /\ new_map[w] # NoMap /\ request[w] # NoRequest
      /\ old_map[w] = ptr[request[w].kind] /\ Missing(w)
      /\ content[new_map[w]] = content[old_map[w]]
  BY Zenon, <1>1, <1>2 DEF Locals, Locked
<1>4. old_map[w] \in Map /\ new_map[w] \in Map BY <1>2, <1>3 DEF TypeOK
<1>5. content'[new_map[w]] = Updated(w) BY Zenon, <1>2, <1>3, <1>4 DEF Modify, Updated, TypeOK
<1>6. \A n \in Map : n # new_map[w] => content'[n] = content[n] BY Zenon, <1>2 DEF Modify, TypeOK
<1>7. /\ \A k \in Kind : ptr[k] # new_map[w] /\ ptr[k] \in Map
      /\ old_map[w] # new_map[w]
  <2>1. request[w].kind \in Kind BY <1>2, <1>3 DEF TypeOK, Request
  <2>. QED BY <1>2, <1>3, <2>1 DEF Heap, TypeOK
<1>8. \A r \in Reader : rmap[r] # NoMap => rmap[r] \in Map /\ rmap[r] # new_map[w]
  <2>. SUFFICES ASSUME NEW r \in Reader, rmap[r] # NoMap
                PROVE  rmap[r] \in Map /\ rmap[r] # new_map[w] OBVIOUS
  <2>1. rpc[r] = "reading" /\ Head(todo[r]) \in Kind BY Zenon, <1>2, TodoHead DEF Reads
  <2>2. rmap[r] = ptr[Head(todo[r])] \/ \E v \in Writer : Guards(v, r)
    BY Zenon, <1>2, <2>1 DEF Reads
  <2>3. \A v \in Writer : Retired(v) => new_map[w] # old_map[v] BY Zenon, <1>2 DEF Heap
  <2>4. \A v \in Writer : Guards(v, r) => rmap[r] # new_map[w] BY Zenon, <2>3 DEF Guards
  <2>5. rmap[r] \in Map BY <1>2 DEF TypeOK
  <2>. QED BY Zenon, <1>7, <2>1, <2>2, <2>4, <2>5
<1>9. wpc'[w] = "publish" /\ \A v \in Writer \ {w} : wpc'[v] = wpc[v] BY <1>1, <1>2 DEF TypeOK
<1>10. \A v \in Writer : Retired(v)' <=> Retired(v) BY <1>1, <1>9 DEF Retired
<1>11. \A v \in Writer : Locals(v)'
  <2>1. Locals(w)'
    <3>1. content'[old_map[w]] = content[old_map[w]] BY <1>4, <1>6, <1>7
    <3>2. Missing(w)' BY Zenon, <1>1, <1>3, <3>1 DEF Missing
    <3>3. Updated(w)' = Updated(w) BY Zenon, <1>1, <3>1 DEF Updated
    <3>. QED BY Zenon, <1>1, <1>3, <1>5, <1>9, <3>2, <3>3 DEF Locals, Locked
  <2>2. ASSUME NEW v \in Writer \ {w} PROVE Locals(v)'
    <3>1. wpc[v] \notin Locked BY <1>3, OneClone
    <3>. QED BY Zenon, <1>1, <1>2, <1>9, <3>1 DEF Locals, Locked
  <2>. QED BY <2>1, <2>2
<1>12. Heap' BY Zenon, <1>1, <1>2, <1>10 DEF Heap
<1>13. \A r \in Reader : Reads(r)'
  <2>1. \A v \in Writer, r \in Reader : Guards(v, r) => Guards(v, r)'
    BY <1>1, <1>9, <1>10 DEF Guards, readerVars, Retired
  <2>2. \A r \in Reader : rmap[r] # NoMap => content'[rmap[r]] = content[rmap[r]]
    BY <1>6, <1>8
  <2>. QED BY Zenon, <1>1, <1>2, <1>6, <1>7, <2>1, <2>2, ReadsKept
<1>. QED BY <1>11, <1>12, <1>13 DEF StoreInv

\* destroy_map() of the clone or of the retired map d of w, which ends the call.
LEMMA DestroyStep ==
    ASSUME StoreInv, TypeOK', NEW w \in Writer, ModifyFails(w) \/ DestroyOld(w)
    PROVE  StoreInv'
<1>. DEFINE d == IF wpc[w] = "modify" THEN new_map[w] ELSE old_map[w]
<1>1. /\ wpc[w] \in {"modify", "grace"} /\ (wpc[w] = "grace" => grace[w] = {})
      /\ wpc' = [wpc EXCEPT ![w] = "idle"] /\ request' = [request EXCEPT ![w] = NoRequest]
      /\ old_map' = [old_map EXCEPT ![w] = NoMap]
      /\ allocated' = allocated \ {d} /\ content' = [content EXCEPT ![d] = {}]
      /\ UNCHANGED <<ptr, grace, readerVars, seen>>
  BY DEF ModifyFails, DestroyOld, Destroy, Fail
<1>2. TypeOK /\ Heap /\ (\A v \in Writer : Locals(v)) /\ (\A r \in Reader : Reads(r))
  BY DEF StoreInv
<1>3. old_map[w] # NoMap /\ (wpc[w] = "modify" <=> new_map[w] # NoMap)
  BY Zenon, <1>1, <1>2 DEF Locals
<1>4. d \in Map BY Zenon, <1>2, <1>3 DEF TypeOK
<1>5. new_map' = [new_map EXCEPT ![w] = NoMap]
  BY <1>2, <1>3 DEF ModifyFails, DestroyOld, Fail, TypeOK
<1>6. write_lock' # w /\ \A v \in Writer \ {w} : write_lock' = v <=> write_lock = v
  <2>1. CASE ModifyFails(w)
    <3>1. write_lock = w BY Zenon, <1>2, <2>1 DEF ModifyFails, Locals, Locked
    <3>. QED BY Zenon, <2>1, <3>1, StoreAssumption DEF ModifyFails, Fail
  <2>2. CASE DestroyOld(w) BY Zenon, <1>2, <2>2 DEF DestroyOld, Locals, Locked
  <2>. QED BY <2>1, <2>2
<1>7. /\ wpc'[w] = "idle" /\ request'[w] = NoRequest /\ old_map'[w] = NoMap
      /\ new_map'[w] = NoMap
      /\ \A v \in Writer \ {w} : /\ wpc'[v] = wpc[v] /\ request'[v] = request[v]
                                 /\ old_map'[v] = old_map[v] /\ new_map'[v] = new_map[v]
  BY Zenon, <1>1, <1>2, <1>5 DEF TypeOK
<1>8. /\ \A k \in Kind : ptr[k] # d /\ ptr[k] \in Map
      /\ \A v \in Writer \ {w} : /\ new_map[v] # d
                                 /\ Retired(v) => old_map[v] # d
  <2>1. \A k \in Kind : ptr[k] # d /\ ptr[k] \in Map
    <3>. TAKE k \in Kind
    <3>1. ptr[k] \in Map BY Zenon, <1>2 DEF TypeOK
    <3>2. ptr[k] # new_map[w] BY Zenon, <1>2 DEF Heap
    <3>3. wpc[w] # "modify" => ptr[k] # old_map[w] BY Zenon, <1>1, <1>2 DEF Heap, Retired
    <3>. QED BY Zenon, <3>1, <3>2, <3>3
  <2>2. CASE wpc[w] = "modify"
    <3>1. write_lock = w BY Zenon, <1>2, <2>2 DEF Locals, Locked
    <3>. QED BY Zenon, <1>2, <1>3, <2>1, <2>2, <3>1, OneClone DEF Heap
  <2>3. CASE wpc[w] = "grace" BY Zenon, <1>2, <2>1, <2>3 DEF Heap, Retired
  <2>. QED BY Zenon, <1>1, <2>2, <2>3
<1>9. \A v \in Writer \ {w} : old_map[v] # d
  <2>. SUFFICES ASSUME NEW v \in Writer \ {w}, old_map[v] = d PROVE FALSE OBVIOUS
  <2>1. old_map[v] # NoMap BY Zenon, <1>4, StoreAssumption
  <2>2. wpc[v] \in Locked \ {"unlock"}
    <3>1. wpc[v] \in {"idle", "lock", "check", "clone", "modify", "publish", "unlock", "sync",
                      "grace"}
      BY Zenon, <1>2 DEF TypeOK
    <3>2. wpc[v] \notin {"idle", "lock"} BY Zenon, <1>2, <2>1 DEF Locals
    <3>3. wpc[v] \notin {"unlock", "sync", "grace"} BY Zenon, <1>8 DEF Retired
    <3>. QED BY Zenon, <3>1, <3>2, <3>3 DEF Locked
  <2>3. request[v] \in Request /\ old_map[v] = ptr[request[v].kind]
    <3>1. wpc[v] # "idle" BY Zenon, <2>2 DEF Locked
    <3>2. request[v] # NoRequest BY Zenon, <1>2, <3>1 DEF Locals
    <3>3. request[v] \in Request BY Zenon, <1>2, <3>2 DEF TypeOK
    <3>. QED BY Zenon, <1>2, <2>2, <3>3 DEF Locals
  <2>. QED BY Zenon, <1>8, <2>3 DEF Request
<1>10. \A n \in Map : n # d => content'[n] = content[n] BY Zenon, <1>1, <1>2 DEF TypeOK
<1>. HIDE DEF d
<1>11. \A v \in Writer : Locals(v)'
  <2>1. Locals(w)' BY Zenon, <1>6, <1>7 DEF Locals, Locked
  <2>2. ASSUME NEW v \in Writer \ {w} PROVE Locals(v)'
    <3>1. Untouched(v) BY Zenon, <1>6, <1>7 DEF Untouched
    <3>2. old_map[v] # NoMap => content'[old_map[v]] = content[old_map[v]]
      BY <1>2, <1>9, <1>10 DEF TypeOK
    <3>3. new_map[v] # NoMap => content'[new_map[v]] = content[new_map[v]]
      BY <1>2, <1>8, <1>10 DEF TypeOK
    <3>4. CASE wpc[v] \in Locked
      <4>1. old_map[v] # NoMap BY Zenon, <1>2, <3>4 DEF Locals, Locked
      <4>2. Missing(v)' = Missing(v) /\ Updated(v)' = Updated(v)
        BY Zenon, <3>1, <3>2, <4>1 DEF Missing, Updated, Untouched
      <4>. QED BY ZenonT(30), <1>1, <1>2, <3>1, <3>2, <3>3, <4>1, <4>2 DEF Locals, Untouched
    <3>5. CASE wpc[v] \notin Locked BY Zenon, <1>1, <1>2, <3>1, <3>5 DEF Locals, Untouched, Locked
    <3>. QED BY <3>4, <3>5
  <2>. QED BY <2>1, <2>2
<1>12. Heap'
  <2>1. ~Retired(w)' /\ \A v \in Writer \ {w} : Retired(v)' <=> Retired(v) BY <1>7 DEF Retired
  <2>2. ASSUME NEW n \in Map
        PROVE  n \in allocated' <=> \/ \E k \in Kind : ptr'[k] = n
                                    \/ \E v \in Writer : new_map'[v] = n
                                    \/ \E v \in Writer : Retired(v)' /\ old_map'[v] = n
    <3>1. n \in allocated <=> \/ \E k \in Kind : ptr[k] = n
                              \/ \E v \in Writer : new_map[v] = n
                              \/ \E v \in Writer : Retired(v) /\ old_map[v] = n
      BY Zenon, <1>2 DEF Heap
    <3>2. (\E v \in Writer : new_map'[v] = n) <=> n # d /\ \E v \in Writer : new_map[v] = n
      BY Zenon, <1>3, <1>7, <1>8, StoreAssumption DEF d
    <3>3. (\E v \in Writer : Retired(v)' /\ old_map'[v] = n)
            <=> n # d /\ \E v \in Writer : Retired(v) /\ old_map[v] = n
      <4>1. Retired(w) => old_map[w] = d BY Zenon DEF Retired, d
      <4>. QED BY Zenon, <1>7, <1>8, <2>1, <4>1
    <3>4. n \in allocated' <=> n \in allocated /\ n # d BY Zenon, <1>1
    <3>. QED BY Zenon, <1>1, <1>8, <3>1, <3>2, <3>3, <3>4
  <2>3. \A k \in Kind : ptr'[k] = ptr[k] /\ ptr[k] # NoMap BY Zenon, <1>1, <1>8, StoreAssumption
  <2>4. ASSUME NEW v \in Writer, NEW u \in Writer, Retired(v)'
        PROVE  /\ v # w /\ \A k \in Kind : ptr[k] # old_map'[v]
               /\ new_map'[u] # old_map'[v]
               /\ u # v /\ Retired(u)' => old_map'[u] # old_map'[v]
    <3>1. v # w /\ Retired(v) BY Zenon, <2>1, <2>4
    <3>2. old_map[v] # NoMap BY Zenon, <1>2, <3>1 DEF Locals, Retired
    <3>3. /\ \A k \in Kind : ptr[k] # old_map[v]
          /\ new_map[u] # old_map[v]
          /\ u # v /\ Retired(u) => old_map[u] # old_map[v]
      BY Zenon, <1>2, <3>1 DEF Heap
    <3>4. u # w => (Retired(u)' <=> Retired(u)) BY Zenon, <2>1
    <3>. QED BY Zenon, <1>7, <2>1, <3>1, <3>2, <3>3, <3>4
  <2>5. \A v \in Writer, k \in Kind : ptr[k] # new_map'[v]
    <3>1. \A v \in Writer, k \in Kind : ptr[k] # new_map[v] BY Zenon, <1>2 DEF Heap
    <3>. QED BY Zenon, <1>7, <2>3, <3>1
  <2>6. ptr'["user"] # ptr'["program"] BY Zenon, <1>1, <1>2 DEF Heap
  <2>. QED BY Zenon, <2>2, <2>3, <2>4, <2>5, <2>6 DEF Heap
<1>13. \A r \in Reader : Reads(r)'
  <2>. SUFFICES ASSUME NEW r \in Reader PROVE Reads(r)' OBVIOUS
  <2>1. \A v \in Writer : Guards(v, r) => v # w \/ wpc[w] = "modify"
    BY Zenon, <1>1 DEF Guards
  <2>2. \A v \in Writer : Guards(v, r) => v # w BY <2>1 DEF Guards, Retired
  <2>3. \A v \in Writer : Guards(v, r) => Guards(v, r)'
    BY Zenon, <1>1, <1>7, <2>2 DEF Guards, Retired, readerVars
  <2>4. rmap[r] # NoMap => content'[rmap[r]] = content[rmap[r]]
    <3>. SUFFICES ASSUME rmap[r] # NoMap PROVE rmap[r] \in Map /\ rmap[r] # d BY Zenon, <1>10
    <3>1. rpc[r] = "reading" /\ Head(todo[r]) \in Kind BY Zenon, <1>2, TodoHead DEF Reads
    <3>2. rmap[r] = ptr[Head(todo[r])] \/ \E v \in Writer : Guards(v, r)
      BY Zenon, <1>2, <3>1 DEF Reads
    <3>3. \A v \in Writer : Guards(v, r) => rmap[r] # d BY Zenon, <1>8, <2>2 DEF Guards
    <3>4. rmap[r] \in Map BY <1>2 DEF TypeOK
    <3>. QED BY Zenon, <1>8, <3>1, <3>2, <3>3, <3>4
  <2>. QED BY Zenon, <1>1, <1>2, <1>8, <1>10, <2>3, <2>4, ReadsKept
<1>. QED BY <1>11, <1>12, <1>13 DEF StoreInv

\* rcu_assign_pointer() retires the old map of w and publishes the clone.
LEMMA PublishStep ==
    ASSUME StoreInv, TypeOK', NEW w \in Writer, Publish(w)
    PROVE  StoreInv'
<1>. DEFINE kind == request[w].kind
<1>1. /\ wpc[w] = "publish" /\ wpc' = [wpc EXCEPT ![w] = "unlock"]
      /\ ptr' = [ptr EXCEPT ![kind] = new_map[w]] /\ new_map' = [new_map EXCEPT ![w] = NoMap]
      /\ UNCHANGED <<content, allocated, write_lock, request, old_map, grace, readerVars>>
  BY DEF Publish
<1>2. TypeOK /\ Heap /\ (\A v \in Writer : Locals(v)) /\ (\A r \in Reader : Reads(r))
  BY DEF StoreInv
<1>3. /\ write_lock = w /\ old_map[w] # NoMap /\ new_map[w] # NoMap /\ request[w] # NoRequest
      /\ old_map[w] = ptr[kind]
  BY Zenon, <1>1, <1>2 DEF Locals, Locked
<1>4. kind \in Kind /\ new_map[w] \in Map BY <1>2, <1>3 DEF TypeOK, Request
<1>5. ptr'[kind] = new_map[w] /\ \A k \in Kind \ {kind} : ptr'[k] = ptr[k]
  BY <1>1, <1>2, <1>4 DEF TypeOK
<1>6. /\ wpc'[w] = "unlock" /\ new_map'[w] = NoMap
      /\ \A v \in Writer \ {w} : wpc'[v] = wpc[v] /\ new_map'[v] = NoMap /\ new_map[v] = NoMap
  BY Zenon, <1>1, <1>2, <1>3, OneClone DEF TypeOK
<1>7. /\ ~Retired(w) /\ Retired(w)'
      /\ \A v \in Writer \ {w} : Retired(v)' <=> Retired(v)
  BY <1>1, <1>6 DEF Retired
<1>8. \A k \in Kind : ptr[k] \in Map /\ ptr[k] # NoMap BY <1>2, StoreAssumption DEF TypeOK
<1>9. \A v \in Writer : Retired(v) => old_map[v] # NoMap BY Zenon, <1>2 DEF Locals, Retired
<1>. HIDE DEF kind
<1>10. \A v \in Writer : Locals(v)'
  <2>1. Locals(w)' BY Zenon, <1>1, <1>3, <1>6 DEF Locals, Locked
  <2>2. ASSUME NEW v \in Writer \ {w} PROVE Locals(v)'
    <3>1. wpc[v] \notin Locked BY <1>3, OneClone
    <3>. QED BY Zenon, <1>1, <1>2, <1>6, <3>1 DEF Locals, Locked
  <2>. QED BY <2>1, <2>2
<1>11. Heap'
  <2>1. \A n \in Map : n \in allocated' <=> \/ \E k \in Kind : ptr'[k] = n
                                            \/ \E v \in Writer : new_map'[v] = n
                                            \/ \E v \in Writer : Retired(v)' /\ old_map'[v] = n
    <3>. TAKE n \in Map
    <3>1. n \in allocated <=> \/ \E k \in Kind : ptr[k] = n
                              \/ \E v \in Writer : new_map[v] = n
                              \/ \E v \in Writer : Retired(v) /\ old_map[v] = n
      BY <1>2 DEF Heap
    <3>2. (\E v \in Writer : new_map[v] = n) <=> n = new_map[w]
      BY <1>6, StoreAssumption
    <3>3. ~\E v \in Writer : new_map'[v] = n BY <1>6, StoreAssumption
    <3>4. (\E k \in Kind : ptr'[k] = n)
            <=> n = new_map[w] \/ \E k \in Kind \ {kind} : ptr[k] = n
      BY <1>4, <1>5
    <3>5. (\E v \in Writer : Retired(v)' /\ old_map'[v] = n)
            <=> n = ptr[kind] \/ \E v \in Writer : Retired(v) /\ old_map[v] = n
      BY <1>1, <1>3, <1>7
    <3>. QED BY <1>1, <1>4, <3>1, <3>2, <3>3, <3>4, <3>5
  <2>2. ptr'["user"] # ptr'["program"]
    <3>1. \A k \in Kind : ptr[k] # new_map[w] BY <1>2 DEF Heap
    <3>. QED BY <1>2, <1>4, <1>5, <3>1 DEF Heap, Kind
  <2>3. \A v \in Writer, k \in Kind : /\ ptr'[k] # new_map'[v]
                                      /\ Retired(v)' => ptr'[k] # old_map'[v]
    <3>1. \A k \in Kind : ptr'[k] \in Map /\ ptr'[k] # NoMap BY <1>4, <1>5, <1>8, StoreAssumption
    <3>2. \A v \in Writer \ {w}, k \in Kind : Retired(v)' => ptr'[k] # old_map'[v]
      <4>. TAKE v \in Writer \ {w}, k \in Kind
      <4>1. old_map'[v] = old_map[v] /\ (Retired(v)' => Retired(v)) BY Zenon, <1>1, <1>7
      <4>2. Retired(v) => ptr[k] # old_map[v] /\ new_map[w] # old_map[v] BY Zenon, <1>2 DEF Heap
      <4>3. ptr'[k] = new_map[w] \/ ptr'[k] = ptr[k] BY Zenon, <1>5
      <4>. QED BY Zenon, <4>1, <4>2, <4>3
    <3>3. \A k \in Kind : ptr'[k] # old_map'[w]
      <4>1. \A k \in Kind \ {kind} : ptr[k] # ptr[kind]
        <5>1. ptr["user"] # ptr["program"] BY Zenon, <1>2 DEF Heap
        <5>. QED BY <1>4, <5>1 DEF Kind
      <4>2. new_map[w] # ptr[kind] BY Zenon, <1>2, <1>4 DEF Heap
      <4>. QED BY Zenon, <1>1, <1>3, <1>5, <4>1, <4>2
    <3>4. \A v \in Writer : new_map'[v] = NoMap BY Zenon, <1>6
    <3>. QED BY Zenon, <3>1, <3>2, <3>3, <3>4
  <2>4. ASSUME NEW v \in Writer, NEW u \in Writer, Retired(v)'
        PROVE  /\ new_map'[u] # old_map'[v]
               /\ u # v /\ Retired(u)' => old_map'[u] # old_map'[v]
    <3>1. \A x \in Writer : Retired(x) => old_map[x] # ptr[kind] BY Zenon, <1>2, <1>4 DEF Heap
    <3>2. old_map[v] # NoMap BY Zenon, <1>3, <1>7, <1>9, <2>4
    <3>3. new_map'[u] = NoMap BY Zenon, <1>6
    <3>4. old_map' = old_map BY <1>1
    <3>5. ASSUME u # v, Retired(u)' PROVE old_map[u] # old_map[v]
      <4>1. CASE u = w BY Zenon, <1>3, <1>7, <2>4, <3>1, <3>5, <4>1
      <4>2. CASE v = w BY Zenon, <1>3, <1>7, <3>1, <3>5, <4>2
      <4>3. CASE u # w /\ v # w
        <5>1. Retired(u) /\ Retired(v) BY Zenon, <1>7, <2>4, <3>5, <4>3
        <5>. QED BY Zenon, <1>2, <3>5, <5>1 DEF Heap
      <4>. QED BY Zenon, <4>1, <4>2, <4>3
    <3>. QED BY Zenon, <3>2, <3>3, <3>4, <3>5
  <2>. QED BY <2>1, <2>2, <2>3, <2>4 DEF Heap
<1>12. \A r \in Reader : Reads(r)'
  <2>. SUFFICES ASSUME NEW r \in Reader PROVE Reads(r)' OBVIOUS
  <2>1. Reads(r) BY <1>2
  <2>2. \A k \in Kind : seen'[r][k] = IF rpc[r] = "out" THEN seen[r][k]
                                      ELSE seen[r][k] \cup {Right(r, k, ptr'[k])}
    BY Zenon DEF Publish, Witness, Right
  <2>3. \A m : \A k \in Kind : Right(r, k, m)' = Right(r, k, m) BY Zenon, <1>1 DEF Right
  <2>4. \A v \in Writer : Guards(v, r) => Guards(v, r)'
    BY Zenon, <1>1, <1>6, <1>7 DEF Guards, readerVars
  <2>5. rpc[r] = "reading" =>
          /\ rmap[r] = ptr'[Head(todo[r])] \/ \E v \in Writer : Guards(v, r)'
          /\ Right(r, Head(todo[r]), rmap[r]) \in seen'[r][Head(todo[r])]
    <3>. SUFFICES ASSUME rpc[r] = "reading"
                  PROVE  /\ rmap[r] = ptr'[Head(todo[r])] \/ \E v \in Writer : Guards(v, r)'
                         /\ Right(r, Head(todo[r]), rmap[r]) \in seen'[r][Head(todo[r])]
      BY Zenon
    <3>1. Head(todo[r]) \in Kind BY Zenon, <1>2, <2>1, TodoHead DEF Reads
    <3>2. CASE rmap[r] = ptr[kind] BY Zenon, <1>1, <1>3, <1>6, <1>7, <2>1, <2>2, <3>1,
      <3>2 DEF Reads, Guards, readerVars
    <3>3. CASE rmap[r] # ptr[kind] BY Zenon, <1>5, <2>1, <2>2, <2>4, <3>1, <3>3 DEF Reads
    <3>. QED BY Zenon, <3>2, <3>3
  <2>6. \A k \in Kind : rpc[r] # "out" => Right(r, k, ptr'[k]) \in seen'[r][k] BY <2>2
  <2>7. \A k \in Kind : found[r][k] \subseteq seen'[r][k] BY Zenon, <2>1, <2>2 DEF Reads
  <2>8. \A k \in Kind : Right(r, k, ptr[k])' = Right(r, k, ptr'[k]) BY <1>1 DEF Right
  <2>9. Right(r, Head(todo[r]), rmap[r])' = Right(r, Head(todo[r]), rmap[r])
    BY Zenon, <1>1 DEF Right, readerVars
  <2>. QED BY Zenon, <1>1, <2>1, <2>5, <2>6, <2>7, <2>8, <2>9 DEF Reads, readerVars
<1>. QED BY <1>10, <1>11, <1>12 DEF StoreInv

-----------------------------------------------------------------------------
\* A step of reader r leaves the store, the writers and the other readers
\* alone, but for the grace periods it may end.
LEMMA ReaderKeeps ==
    ASSUME StoreInv, TypeOK', NEW r \in Reader,
           UNCHANGED <<storeVars, wpc, request, old_map, new_map>>,
           \A q \in Reader \ {r} : /\ rpc'[q] = rpc[q] /\ todo'[q] = todo[q]
                                   /\ rmap'[q] = rmap[q] /\ found'[q] = found[q]
                                   /\ seen'[q] = seen[q]
                                   /\ \A w \in Writer : q \in grace[w] => q \in grace'[w],
           Reads(r)'
    PROVE  StoreInv'
<1>1. \A w \in Writer : Locals(w)'
  <2>. SUFFICES ASSUME NEW w \in Writer PROVE Locals(w)' OBVIOUS
  <2>1. Untouched(w) BY DEF Untouched, storeVars
  <2>. QED BY Zenon, <2>1, UntouchedLocals DEF StoreInv, storeVars
<1>2. Heap'
  <2>1. UNCHANGED <<ptr, allocated, new_map, old_map, wpc>> BY Zenon DEF storeVars
  <2>2. Heap BY DEF StoreInv
  <2>. QED BY Zenon, <2>1, <2>2, HeapKept
<1>3. ASSUME NEW q \in Reader \ {r} PROVE Reads(q)'
  <2>1. Reads(q) BY Zenon DEF StoreInv
  <2>2. \A w \in Writer : Guards(w, q) => Guards(w, q)' BY Zenon DEF Guards, Retired
  <2>3. \A k \in Kind : Right(q, k, ptr[k])' = Right(q, k, ptr[k]) BY DEF Right, storeVars
  <2>4. Right(q, Head(todo[q]), rmap[q])' = Right(q, Head(todo[q]), rmap[q])
    BY Zenon DEF Right, storeVars
  <2>. QED BY ZenonT(30), <2>1, <2>2, <2>3, <2>4 DEF Reads, storeVars
<1>. QED BY Zenon, <1>1, <1>2, <1>3 DEF StoreInv

\* rcu_read_lock() and rcu_dereference().
LEMMA SectionStep ==
    ASSUME StoreInv, TypeOK', NEW r \in Reader, ReadLock(r) \/ Dereference(r)
    PROVE  StoreInv'
<1>. USE DEF storeVars, writerVars
<1>0. TypeOK /\ Reads(r) BY DEF StoreInv
<1>1. CASE ReadLock(r)
  <2>1. rpc[r] = "next" /\ todo[r] # <<>> /\ rpc' = [rpc EXCEPT ![r] = "locked"]
        /\ UNCHANGED <<storeVars, writerVars, todo, rmap, found, seen>>
    BY Zenon, <1>1 DEF ReadLock
  <2>2. rpc'[r] = "locked" /\ \A q \in Reader \ {r} : rpc'[q] = rpc[q] BY Zenon, <1>0, <2>1 DEF TypeOK
  <2>3. \A k \in Kind : Right(r, k, ptr[k])' = Right(r, k, ptr[k]) BY Zenon, <2>1 DEF Right
  <2>4. Reads(r)' BY Zenon, <1>0, <2>1, <2>2, <2>3 DEF Reads
  <2>. QED BY Zenon, <2>1, <2>2, <2>4, ReaderKeeps
<1>2. CASE Dereference(r)
  <2>1. rpc[r] = "locked" /\ rpc' = [rpc EXCEPT ![r] = "reading"]
        /\ rmap' = [rmap EXCEPT ![r] = ptr[Head(todo[r])]]
        /\ UNCHANGED <<storeVars, writerVars, todo, found, seen>>
    BY <1>2 DEF Dereference
  <2>2. todo[r] # <<>> /\ Head(todo[r]) \in Kind BY Zenon, <1>0, <2>1, TodoHead DEF Reads
  <2>3. /\ rpc'[r] = "reading" /\ rmap'[r] = ptr[Head(todo[r])] /\ rmap'[r] # NoMap
        /\ \A q \in Reader \ {r} : rpc'[q] = rpc[q] /\ rmap'[q] = rmap[q]
    <3>1. /\ rpc \in [Reader -> {"out", "next", "locked", "reading"}]
          /\ rmap \in [Reader -> Map \cup {NoMap}] /\ ptr[Head(todo[r])] \in Map
      BY Zenon, <1>0, <2>2 DEF TypeOK
    <3>2. ptr[Head(todo[r])] # NoMap BY Zenon, <3>1, StoreAssumption
    <3>. QED BY Zenon, <2>1, <3>1, <3>2
  <2>4. \A k \in Kind : Right(r, k, ptr[k])' = Right(r, k, ptr[k]) BY Zenon, <2>1 DEF Right
  <2>5. Right(r, Head(todo[r]), rmap[r])' = Right(r, Head(todo[r]), ptr[Head(todo[r])])
    BY Zenon, <2>1, <2>3 DEF Right
  <2>6. Reads(r)' BY Zenon, <1>0, <2>1, <2>2, <2>3, <2>4, <2>5 DEF Reads
  <2>. QED BY Zenon, <2>1, <2>3, <2>6, ReaderKeeps
<1>. QED BY <1>1, <1>2

\* A lookup or a listing, which ends the section.
LEMMA LookStep ==
    ASSUME StoreInv, TypeOK', NEW r \in Reader, Find(r) \/ List(r)
    PROVE  StoreInv'
<1>. USE DEF storeVars
<1>. DEFINE h == Head(todo[r])
<1>0. TypeOK /\ Reads(r) BY DEF StoreInv
<1>1. /\ rpc[r] = "reading" /\ rpc' = [rpc EXCEPT ![r] = "next"]
      /\ rmap' = [rmap EXCEPT ![r] = NoMap] /\ grace' = [w \in Writer |-> grace[w] \ {r}]
      /\ UNCHANGED <<storeVars, wpc, request, old_map, new_map, seen>>
  <2>1. CASE Find(r) BY Zenon, <2>1 DEF Find, LeaveSection
  <2>2. CASE List(r) BY Zenon, <2>2 DEF List, LeaveSection
  <2>. QED BY Zenon, <2>1, <2>2
<1>2. h \in Kind BY Zenon, <1>0, <1>1, TodoHead DEF Reads
<1>3. found' = [found EXCEPT ![r][h] = {Right(r, h, rmap[r])}] \/ found' = found
  BY Zenon DEF Find, List, Right
<1>4. \E t : todo' = [todo EXCEPT ![r] = t] BY Zenon DEF Find, List
<1>5. Right(r, h, rmap[r]) \in seen[r][h] BY Zenon, <1>0, <1>1 DEF Reads
<1>6. \A k \in Kind : found'[r][k] \in {found[r][k]} \cup {IF k = h THEN {Right(r, h, rmap[r])}
                                                           ELSE found[r][k]}
  BY <1>0, <1>2, <1>3 DEF TypeOK
<1>. HIDE DEF h
<1>7. \A k \in Kind : found'[r][k] \subseteq seen'[r][k] BY Zenon, <1>0, <1>1, <1>5, <1>6 DEF Reads
<1>8. rpc'[r] = "next" /\ rmap'[r] = NoMap BY <1>0, <1>1 DEF TypeOK
<1>9. \A q \in Reader \ {r} : /\ rpc'[q] = rpc[q] /\ rmap'[q] = rmap[q] /\ found'[q] = found[q]
                              /\ todo'[q] = todo[q]
  <2>1. /\ DOMAIN rpc = Reader /\ DOMAIN rmap = Reader /\ DOMAIN found = Reader
        /\ DOMAIN todo = Reader
    BY Zenon, <1>0 DEF TypeOK
  <2>. TAKE q \in Reader \ {r}
  <2>2. rpc'[q] = rpc[q] /\ rmap'[q] = rmap[q] BY Zenon, <1>1, <2>1
  <2>3. found'[q] = found[q] BY Zenon, <1>3, <2>1
  <2>4. todo'[q] = todo[q] BY Zenon, <1>4, <2>1
  <2>. QED BY Zenon, <2>2, <2>3, <2>4
<1>10. \A q \in Reader \ {r}, w \in Writer : q \in grace[w] => q \in grace'[w] BY Zenon, <1>1
<1>11. \A k \in Kind : Right(r, k, ptr[k])' = Right(r, k, ptr[k]) BY Zenon, <1>1 DEF Right
<1>12. Reads(r)' BY Zenon, <1>0, <1>1, <1>7, <1>8, <1>11 DEF Reads
<1>. QED BY Zenon, <1>1, <1>9, <1>10, <1>12, ReaderKeeps

\* A call begins or returns.
LEMMA EdgeStep ==
    ASSUME StoreInv, TypeOK', NEW r \in Reader,
           (\E maps : Enter(r, maps)) \/ Return(r)
    PROVE  StoreInv'
<1>. USE DEF storeVars, writerVars
<1>0. TypeOK /\ Reads(r) BY DEF StoreInv
<1>1. UNCHANGED <<storeVars, writerVars, rmap>> BY Zenon DEF Enter, Return
<1>2. rmap[r] = NoMap /\ rpc[r] \in {"out", "next"} BY Zenon, <1>0 DEF Reads, Enter, Return
<1>3. ASSUME NEW maps, Enter(r, maps) PROVE StoreInv'
  <2>1. rpc[r] = "out" /\ rpc' = [rpc EXCEPT ![r] = "next"] /\ found' = found
        /\ todo' = [todo EXCEPT ![r] = maps]
        /\ seen' = [seen EXCEPT ![r] = [k \in Kind |-> {Right(r, k, ptr[k])}]]
    BY Zenon, <1>3 DEF Enter, Right
  <2>2. /\ rpc'[r] = "next" /\ \A k \in Kind : seen'[r][k] = {Right(r, k, ptr[k])}
        /\ \A q \in Reader \ {r} : rpc'[q] = rpc[q] /\ todo'[q] = todo[q] /\ seen'[q] = seen[q]
    <3>1. DOMAIN rpc = Reader /\ DOMAIN todo = Reader /\ DOMAIN seen = Reader
      BY Zenon, <1>0 DEF TypeOK
    <3>2. rpc'[r] = "next" /\ seen'[r] = [k \in Kind |-> {Right(r, k, ptr[k])}]
      BY Zenon, <2>1, <3>1
    <3>. QED BY Zenon, <2>1, <3>1, <3>2
  <2>3. \A k \in Kind : Right(r, k, ptr[k])' = Right(r, k, ptr[k]) BY Zenon, <1>1 DEF Right
  <2>4. Reads(r)' BY Zenon, <1>0, <1>1, <1>2, <2>1, <2>2, <2>3 DEF Reads
  <2>. QED BY Zenon, <1>1, <2>1, <2>2, <2>4, ReaderKeeps
<1>4. CASE Return(r)
  <2>1. rpc' = [rpc EXCEPT ![r] = "out"] /\ todo' = todo
        /\ found' = [found EXCEPT ![r] = [k \in Kind |-> {}]]
        /\ seen' = [seen EXCEPT ![r] = [k \in Kind |-> {}]]
    BY Zenon, <1>4 DEF Return
  <2>2. /\ rpc'[r] = "out" /\ \A k \in Kind : found'[r][k] = {}
        /\ \A q \in Reader \ {r} : rpc'[q] = rpc[q] /\ found'[q] = found[q] /\ seen'[q] = seen[q]
    <3>1. DOMAIN rpc = Reader /\ DOMAIN found = Reader /\ DOMAIN seen = Reader
      BY Zenon, <1>0 DEF TypeOK
    <3>2. rpc'[r] = "out" /\ found'[r] = [k \in Kind |-> {}] BY Zenon, <2>1, <3>1
    <3>. QED BY Zenon, <2>1, <3>1, <3>2
  <2>3. Reads(r)' BY Zenon, <1>1, <1>2, <2>2 DEF Reads
  <2>. QED BY Zenon, <1>1, <2>1, <2>2, <2>3, ReaderKeeps
<1>. QED BY <1>3, <1>4

-----------------------------------------------------------------------------
LEMMA StoreStep == StoreInv /\ [Next]_vars => StoreInv'
<1>. SUFFICES ASSUME StoreInv, [Next]_vars PROVE StoreInv' OBVIOUS
<1>1. TypeOK' BY StoreTypes
<1>2. CASE UNCHANGED vars
  <2>1. ASSUME NEW w \in Writer PROVE Locals(w)'
    <3>1. UNCHANGED <<wpc, request, old_map, new_map, write_lock, ptr, content>>
      BY Zenon, <1>2 DEF vars, storeVars, writerVars
    <3>2. Locals(w) BY Zenon DEF StoreInv
    <3>3. Untouched(w) BY Zenon, <3>1 DEF Untouched
    <3>. QED BY Zenon, <3>1, <3>2, <3>3, UntouchedLocals
  <2>2. Heap' <=> Heap
    <3>1. UNCHANGED <<ptr, allocated, new_map, old_map, wpc>>
      BY Zenon, <1>2 DEF vars, storeVars, writerVars
    <3>2. Heap BY Zenon DEF StoreInv
    <3>. QED BY Zenon, <3>1, <3>2, HeapKept
  <2>3. \A r \in Reader : Reads(r)' <=> Reads(r)
    <3>1. /\ UNCHANGED <<rpc, todo, rmap, found, seen>>
          /\ UNCHANGED <<ptr, content, wpc, old_map, grace>>
      BY Zenon, <1>2 DEF vars, storeVars, writerVars, readerVars
    <3>2. \A r \in Reader, w \in Writer : Guards(w, r)' <=> Guards(w, r)
      BY Zenon, <3>1 DEF Guards, Retired
    <3>. QED BY Zenon, <3>1, <3>2 DEF Reads, Right
  <2>. QED BY <1>1, <2>1, <2>2, <2>3 DEF StoreInv
<1>3. ASSUME NEW w \in Writer, WriterStep(w) \/ \E req \in Request : Call(w, req)
      PROVE  StoreInv'
  BY <1>1, <1>3, QuietSteps, CloneStep, ModifyStep, DestroyStep, PublishStep DEF WriterStep
<1>4. ASSUME NEW r \in Reader,
             ReaderStep(r) \/ Enter(r, CheckIfRegistered) \/ Enter(r, SysThrotRead)
      PROVE  StoreInv'
  BY <1>1, <1>4, SectionStep, LookStep, EdgeStep DEF ReaderStep
<1>. QED BY <1>2, <1>3, <1>4 DEF Next

LEMMA StoreInvariance == Spec => []StoreInv
BY StoreInitial, StoreStep, PTL DEF Spec

\* What the invariant says of maps and lookups.
LEMMA StoreCorrect == Spec => [](NoUseAfterFree /\ Ownership /\ NoLeak /\ LookupJustified)
<1>. SUFFICES ASSUME StoreInv PROVE NoUseAfterFree /\ Ownership /\ NoLeak /\ LookupJustified
  BY StoreInvariance, PTL
<1>1. NoUseAfterFree
  BY Zenon, InUse DEF StoreInv, Reads, NoUseAfterFree
<1>2. Ownership
  <2>1. ASSUME NEW w \in Writer, new_map[w] # NoMap, NEW r \in Reader PROVE rmap[r] # new_map[w]
    <3>1. rmap[r] # NoMap => rpc[r] = "reading" /\ Head(todo[r]) \in Kind
      BY Zenon, TodoHead DEF StoreInv, Reads
    <3>2. rmap[r] # NoMap => rmap[r] = ptr[Head(todo[r])] \/ \E v \in Writer : Guards(v, r)
      BY Zenon, <3>1 DEF StoreInv, Reads
    <3>. QED BY SMTT(30), <2>1, <3>1, <3>2 DEF StoreInv, Heap, Guards
  <2>. QED BY Zenon, <2>1 DEF StoreInv, Heap, Ownership
<1>3. NoLeak
  <2>. DEFINE held == {ptr[k] : k \in Kind}
                      \cup {new_map[w] : w \in {v \in Writer : new_map[v] # NoMap}}
                      \cup {old_map[w] : w \in {v \in Writer : Retired(v)}}
  <2>1. allocated \subseteq Map /\ held \subseteq Map
    BY DEF StoreInv, TypeOK, Locals, Retired
  <2>2. \A m \in Map : m \in allocated <=> m \in held
    BY ZenonT(30), StoreAssumption DEF StoreInv, Heap
  <2>. QED BY Zenon, <2>1, <2>2 DEF NoLeak
<1>4. LookupJustified BY Zenon DEF StoreInv, Reads, LookupJustified
<1>. QED BY <1>1, <1>2, <1>3, <1>4

\* For any number of ioctls and stub() calls at a time, no map is read after
\* call_rcu() or a failed update has freed it.
THEOREM StoreNoUseAfterFree == Spec => []NoUseAfterFree
BY StoreCorrect, PTL

\* A map is published, private to one writer, or waiting for its grace period,
\* and never two of these: no reader sees a copy being changed, and no map is
\* destroyed twice.
THEOREM StoreOwnership == Spec => []Ownership
BY StoreCorrect, PTL

\* Every allocated map has someone who will free it, on the error paths of
\* the copy-on-write too.
THEOREM StoreNoLeak == Spec => []NoLeak
BY StoreCorrect, PTL

\* The answer stub() gets was right at some moment of its call, however many
\* updates are published meanwhile.
THEOREM StoreLookupJustified == Spec => []LookupJustified
BY StoreCorrect, PTL

\* For any number of concurrent ioctls each published map changes by one
\* registration or one deregistration at a time.
THEOREM StoreUpdatesAtomic == Spec => UpdatesAtomic
<1>1. Init => Users!Init /\ Programs!Init BY DEF Init, Users!Init, Programs!Init, Kind
<1>2. ASSUME StoreInv, StoreInv', [Next]_vars, NEW k \in Kind
      PROVE  \/ content'[ptr'[k]] = content[ptr[k]]
             \/ \E x \in Item : \/ /\ x \notin content[ptr[k]]
                                   /\ content'[ptr'[k]] = content[ptr[k]] \cup {x}
                                \/ /\ x \in content[ptr[k]]
                                   /\ content'[ptr'[k]] = content[ptr[k]] \ {x}
  <2>1. ASSUME NEW w \in Writer, Publish(w), k = request[w].kind
        PROVE  \E x \in Item : \/ /\ x \notin content[ptr[k]]
                                  /\ content'[ptr'[k]] = content[ptr[k]] \cup {x}
                               \/ /\ x \in content[ptr[k]]
                                  /\ content'[ptr'[k]] = content[ptr[k]] \ {x}
    <3>1. /\ wpc[w] = "publish" /\ ptr' = [ptr EXCEPT ![k] = new_map[w]] /\ content' = content
      BY <2>1 DEF Publish
    <3>2. Missing(w) /\ content[new_map[w]] = Updated(w) /\ old_map[w] = ptr[k]
          /\ request[w] # NoRequest
      BY Zenon, <1>2, <2>1, <3>1 DEF StoreInv, Locals, Locked
    <3>3. request[w].item \in Item /\ request[w].add \in BOOLEAN
      <4>1. request[w] \in Request BY Zenon, <1>2, <3>2 DEF StoreInv, TypeOK
      <4>. QED BY <4>1 DEF Request
    <3>4. ptr'[k] = new_map[w] BY Zenon, <1>2, <3>1 DEF StoreInv, TypeOK
    <3>5. CASE request[w].add
      <4>1. request[w].item \notin content[ptr[k]] BY <3>2, <3>3, <3>5, Zenon DEF Missing
      <4>2. content'[ptr'[k]] = content[ptr[k]] \cup {request[w].item}
        BY Zenon, <3>1, <3>2, <3>4, <3>5 DEF Updated
      <4>. QED BY Zenon, <3>3, <4>1, <4>2
    <3>6. CASE ~request[w].add
      <4>1. request[w].item \in content[ptr[k]]
        <5>1. request[w].add = FALSE BY <3>3, <3>6, Zenon
        <5>2. ASSUME request[w].item \notin content[ptr[k]] PROVE FALSE
          <6>1. (request[w].item \in content[ptr[k]]) = FALSE BY <5>2
          <6>2. (request[w].item \in content[ptr[k]]) = request[w].add BY Zenon, <5>1, <6>1
          <6>. QED BY <3>2, <6>2 DEF Missing
        <5>. QED BY <5>2
      <4>2. content'[ptr'[k]] = content[ptr[k]] \ {request[w].item}
        BY Zenon, <3>1, <3>2, <3>4, <3>6 DEF Updated
      <4>. QED BY Zenon, <3>3, <4>1, <4>2
    <3>. QED BY Zenon, <3>5, <3>6
  <2>2. ASSUME NEW w \in Writer, Publish(w), k # request[w].kind
        PROVE  content'[ptr'[k]] = content[ptr[k]]
    BY Zenon, <1>2, <2>2 DEF Publish, StoreInv, TypeOK
  <2>3. ASSUME NEW w \in Writer, Clone(w) PROVE content'[ptr'[k]] = content[ptr[k]]
    <3>1. ptr' = ptr BY Zenon, <2>3 DEF Clone
    <3>2. PICK m \in Map \ allocated : content' = [content EXCEPT ![m] = content[old_map[w]]]
      BY Zenon, <2>3 DEF Clone
    <3>3. ptr[k] \in Map /\ DOMAIN content = Map BY Zenon, <1>2 DEF StoreInv, TypeOK
    <3>4. ptr[k] # m BY Zenon, <1>2, InUse
    <3>. QED BY Zenon, <3>1, <3>2, <3>3, <3>4
  <2>4. ASSUME NEW w \in Writer, Modify(w) PROVE content'[ptr'[k]] = content[ptr[k]]
    <3>1. ptr[k] # new_map[w] BY Zenon, <1>2 DEF StoreInv, Heap
    <3>2. ptr' = ptr BY Zenon, <2>4 DEF Modify
    <3>3. content'[ptr[k]] = content[ptr[k]] BY Zenon, <1>2, <2>4, <3>1 DEF Modify, StoreInv, TypeOK
    <3>. QED BY Zenon, <3>2, <3>3
  <2>5. ASSUME NEW w \in Writer, ModifyFails(w) \/ DestroyOld(w)
        PROVE  content'[ptr'[k]] = content[ptr[k]]
    <3>1. CASE ModifyFails(w)
      <4>1. ptr[k] # new_map[w] BY Zenon, <1>2 DEF StoreInv, Heap
      <4>. QED BY Zenon, <1>2, <3>1, <4>1 DEF ModifyFails, Destroy, StoreInv, TypeOK
    <3>2. CASE DestroyOld(w)
      <4>1. Retired(w) BY <3>2 DEF DestroyOld, Retired
      <4>2. ptr[k] # old_map[w] BY Zenon, <1>2, <4>1 DEF StoreInv, Heap
      <4>. QED BY Zenon, <1>2, <3>2, <4>2 DEF DestroyOld, Destroy, StoreInv, TypeOK
    <3>. QED BY <2>5, <3>1, <3>2
  <2>6. CASE UNCHANGED <<ptr, content>> BY Zenon, <2>6
  <2>. QED
    BY Zenon, <1>2, <2>1, <2>2, <2>3, <2>4, <2>5, <2>6
    DEF Next, WriterStep, ReaderStep, vars, storeVars, Call, LockStore, Check, CloneFails,
        UnlockStore, SynchronizeRcu, ReadLock, Dereference, Find, List, Return, Enter
<1>3. StoreInv /\ StoreInv' /\ [Next]_vars => [Users!Next]_(content[ptr["user"]])
  BY Zenon, <1>2 DEF Users!Next, Users!Add, Users!Remove, Kind
<1>4. StoreInv /\ StoreInv' /\ [Next]_vars => [Programs!Next]_(content[ptr["program"]])
  BY Zenon, <1>2 DEF Programs!Next, Programs!Add, Programs!Remove, Kind
<1>. QED
  BY <1>1, <1>3, <1>4, StoreInvariance, PTL DEF Spec, UpdatesAtomic, Users!Spec, Programs!Spec
=============================================================================
