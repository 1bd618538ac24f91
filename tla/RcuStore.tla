------------------------------ MODULE RcuStore ------------------------------
(***************************************************************************)
(* The store of sysThrot_store.c under concurrency: writers (ioctls) clone *)
(* the user or the program map under write_lock, publish the clone, wait   *)
(* for a grace period and free the old map; readers look names up without  *)
(* a lock inside RCU read-side sections.  A map is an address with the set *)
(* of items it holds; CuckooMap is about how it holds them.                *)
(***************************************************************************)
EXTENDS Naturals, Sequences, FiniteSets

CONSTANTS
    Writer,     \* threads in an ioctl
    Reader,     \* threads in the stub, or reading the device
    Item,       \* user ids and program names
    Map,        \* addresses of CuckooHash objects
    NoMap,      \* NULL
    NoWriter,   \* write_lock is free
    NoRequest,  \* a writer outside its call
    key         \* comm and uid of each reader's task

Kind == {"user", "program"}
Request == [kind : Kind, add : BOOLEAN, item : Item]

ASSUME StoreAssumption ==
    /\ NoMap \notin Map
    /\ NoWriter \notin Writer
    /\ NoRequest \notin Request
    /\ key \in [Reader -> [Kind -> Item]]

VARIABLES
    ptr,        \* syscall_user_map and syscall_program_map
    content,    \* the items of each map
    allocated,  \* the maps that are not freed
    write_lock,
    wpc, request, old_map, new_map, \* writers: position, arguments, locals
    grace,      \* readers a writer's synchronize_rcu() still waits for
    rpc, todo, rmap, found,         \* readers: position, locals, answers
    seen        \* history: the answers that were right during this call

storeVars == <<ptr, content, allocated, write_lock>>
writerVars == <<wpc, request, old_map, new_map, grace>>
readerVars == <<rpc, todo, rmap, found>>
vars == <<storeVars, writerVars, readerVars, seen>>

\* The maps each kind of call looks into, in the order it does.
CheckIfRegistered == <<"program", "user">>
SysThrotRead == <<"user", "program">>

InSection == {r \in Reader : rpc[r] \in {"locked", "reading"}}

Init ==
    \E u, p \in Map :
        /\ u # p
        /\ ptr = [k \in Kind |-> IF k = "user" THEN u ELSE p]
        /\ allocated = {u, p}
        /\ content = [m \in Map |-> {}]
        /\ write_lock = NoWriter
        /\ wpc = [w \in Writer |-> "idle"]
        /\ request = [w \in Writer |-> NoRequest]
        /\ old_map = [w \in Writer |-> NoMap]
        /\ new_map = [w \in Writer |-> NoMap]
        /\ grace = [w \in Writer |-> {}]
        /\ rpc = [r \in Reader |-> "out"]
        /\ todo = [r \in Reader |-> <<>>]
        /\ rmap = [r \in Reader |-> NoMap]
        /\ found = [r \in Reader |-> [k \in Kind |-> {}]]
        /\ seen = [r \in Reader |-> [k \in Kind |-> {}]]

-----------------------------------------------------------------------------
(***************************************************************************)
(* Writers: add_user_to_store() and its three siblings.                    *)
(***************************************************************************)
Call(w, req) ==
    /\ wpc[w] = "idle"
    /\ wpc' = [wpc EXCEPT ![w] = "lock"]
    /\ request' = [request EXCEPT ![w] = req]
    /\ UNCHANGED <<storeVars, old_map, new_map, grace, readerVars, seen>>

\* Fault: the mutex does not exclude anyone.
Faulty_LockStore(w) ==
    /\ wpc[w] = "lock"
    /\ write_lock' = w
    /\ old_map' = [old_map EXCEPT ![w] = ptr[request[w].kind]]
    /\ wpc' = [wpc EXCEPT ![w] = "check"]
    /\ UNCHANGED <<ptr, content, allocated, request, new_map, grace, readerVars, seen>>

\* mutex_lock(), and the old map is read.
LockStore(w) ==
    /\ wpc[w] = "lock"
    /\ write_lock = NoWriter
    /\ write_lock' = w
    /\ old_map' = [old_map EXCEPT ![w] = ptr[request[w].kind]]
    /\ wpc' = [wpc EXCEPT ![w] = "check"]
    /\ UNCHANGED <<ptr, content, allocated, request, new_map, grace, readerVars, seen>>

\* What every error return leaves behind.
Fail(w) ==
    /\ write_lock' = NoWriter
    /\ wpc' = [wpc EXCEPT ![w] = "idle"]
    /\ request' = [request EXCEPT ![w] = NoRequest]
    /\ old_map' = [old_map EXCEPT ![w] = NoMap]
    /\ new_map' = [new_map EXCEPT ![w] = NoMap]

\* contains(): add wants the item absent (-EEXIST), remove present (-EINVAL).
Check(w) ==
    /\ wpc[w] = "check"
    /\ IF (request[w].item \in content[old_map[w]]) = request[w].add
       THEN Fail(w)
       ELSE /\ wpc' = [wpc EXCEPT ![w] = "clone"]
            /\ UNCHANGED <<write_lock, request, old_map, new_map>>
    /\ UNCHANGED <<ptr, content, allocated, grace, readerVars, seen>>

\* clone_map().
Clone(w) ==
    /\ wpc[w] = "clone"
    /\ \E m \in Map \ allocated :
        /\ allocated' = allocated \cup {m}
        /\ content' = [content EXCEPT ![m] = content[old_map[w]]]
        /\ new_map' = [new_map EXCEPT ![w] = m]
    /\ wpc' = [wpc EXCEPT ![w] = "modify"]
    /\ UNCHANGED <<ptr, write_lock, request, old_map, grace, readerVars, seen>>

\* Fault: the error return forgets mutex_unlock().
Faulty_CloneFails(w) ==
    /\ wpc[w] = "clone"
    /\ wpc' = [wpc EXCEPT ![w] = "idle"]
    /\ request' = [request EXCEPT ![w] = NoRequest]
    /\ old_map' = [old_map EXCEPT ![w] = NoMap]
    /\ UNCHANGED <<storeVars, new_map, grace, readerVars, seen>>

\* clone_map() returns NULL: -ENOMEM.
CloneFails(w) ==
    /\ wpc[w] = "clone"
    /\ Fail(w)
    /\ UNCHANGED <<ptr, content, allocated, grace, readerVars, seen>>

\* destroy_map(); what a freed map held is gone.
Destroy(m) ==
    /\ allocated' = allocated \ {m}
    /\ content' = [content EXCEPT ![m] = {}]

\* insert() or remove() on the clone.
Modify(w) ==
    /\ wpc[w] = "modify"
    /\ content' = [content EXCEPT ![new_map[w]] =
                      IF request[w].add THEN @ \cup {request[w].item}
                                        ELSE @ \ {request[w].item}]
    /\ wpc' = [wpc EXCEPT ![w] = "publish"]
    /\ UNCHANGED <<ptr, allocated, write_lock, request, old_map, new_map, grace,
                   readerVars, seen>>

\* Fault: the clone is not destroyed on the error return.
Faulty_ModifyFails(w) ==
    /\ wpc[w] = "modify"
    /\ request[w].add
    /\ Fail(w)
    /\ UNCHANGED <<ptr, content, allocated, grace, readerVars, seen>>

\* The item cannot be cloned (-ENOMEM), or insert() fails (-ENOSPC).
ModifyFails(w) ==
    /\ wpc[w] = "modify"
    /\ request[w].add
    /\ Destroy(new_map[w])
    /\ Fail(w)
    /\ UNCHANGED <<ptr, grace, readerVars, seen>>

\* A call in progress remembers every answer that was right meanwhile.
Witness ==
    seen' = [r \in Reader |->
               IF rpc[r] = "out" THEN seen[r]
               ELSE [k \in Kind |->
                        seen[r][k] \cup {key[r][k] \in content[ptr'[k]]}]]

\* rcu_assign_pointer().
Publish(w) ==
    /\ wpc[w] = "publish"
    /\ ptr' = [ptr EXCEPT ![request[w].kind] = new_map[w]]
    /\ new_map' = [new_map EXCEPT ![w] = NoMap]
    /\ wpc' = [wpc EXCEPT ![w] = "unlock"]
    /\ Witness
    /\ UNCHANGED <<content, allocated, write_lock, request, old_map, grace, readerVars>>

UnlockStore(w) ==
    /\ wpc[w] = "unlock"
    /\ write_lock' = NoWriter
    /\ wpc' = [wpc EXCEPT ![w] = "sync"]
    /\ UNCHANGED <<ptr, content, allocated, request, old_map, new_map, grace,
                   readerVars, seen>>

\* Fault: synchronize_rcu() is left out.
Faulty_SynchronizeRcu(w) ==
    /\ wpc[w] = "sync"
    /\ grace' = [grace EXCEPT ![w] = {}]
    /\ wpc' = [wpc EXCEPT ![w] = "grace"]
    /\ UNCHANGED <<storeVars, request, old_map, new_map, readerVars, seen>>

\* synchronize_rcu() waits for the sections that are open when it is called.
SynchronizeRcu(w) ==
    /\ wpc[w] = "sync"
    /\ grace' = [grace EXCEPT ![w] = InSection]
    /\ wpc' = [wpc EXCEPT ![w] = "grace"]
    /\ UNCHANGED <<storeVars, request, old_map, new_map, readerVars, seen>>

\* It returns, and the old map is destroyed.
DestroyOld(w) ==
    /\ wpc[w] = "grace"
    /\ grace[w] = {}
    /\ Destroy(old_map[w])
    /\ old_map' = [old_map EXCEPT ![w] = NoMap]
    /\ request' = [request EXCEPT ![w] = NoRequest]
    /\ wpc' = [wpc EXCEPT ![w] = "idle"]
    /\ UNCHANGED <<ptr, write_lock, new_map, grace, readerVars, seen>>

-----------------------------------------------------------------------------
(***************************************************************************)
(* Readers: check_if_registered() of the stub looks for the program and,   *)
(* if it is not there, for the user; sysThrot_read() lists both maps.      *)
(***************************************************************************)
Enter(r, maps) ==
    /\ rpc[r] = "out"
    /\ rpc' = [rpc EXCEPT ![r] = "next"]
    /\ todo' = [todo EXCEPT ![r] = maps]
    /\ seen' = [seen EXCEPT ![r] =
                   [k \in Kind |-> {key[r][k] \in content[ptr[k]]}]]
    /\ UNCHANGED <<storeVars, writerVars, rmap, found>>

\* rcu_read_lock().
ReadLock(r) ==
    /\ rpc[r] = "next"
    /\ todo[r] # <<>>
    /\ rpc' = [rpc EXCEPT ![r] = "locked"]
    /\ UNCHANGED <<storeVars, writerVars, todo, rmap, found, seen>>

\* Fault: both lookups read the program map.
Faulty_Dereference(r) ==
    /\ rpc[r] = "locked"
    /\ rmap' = [rmap EXCEPT ![r] = ptr["program"]]
    /\ rpc' = [rpc EXCEPT ![r] = "reading"]
    /\ UNCHANGED <<storeVars, writerVars, todo, found, seen>>

\* rcu_dereference().
Dereference(r) ==
    /\ rpc[r] = "locked"
    /\ rmap' = [rmap EXCEPT ![r] = ptr[Head(todo[r])]]
    /\ rpc' = [rpc EXCEPT ![r] = "reading"]
    /\ UNCHANGED <<storeVars, writerVars, todo, found, seen>>

\* rcu_read_unlock().
LeaveSection(r) ==
    /\ rmap' = [rmap EXCEPT ![r] = NoMap]
    /\ rpc' = [rpc EXCEPT ![r] = "next"]
    /\ grace' = [w \in Writer |-> grace[w] \ {r}]

\* find_program_in_store() and find_user_in_store(): a program that is found
\* ends the check.
Find(r) ==
    /\ rpc[r] = "reading"
    /\ todo[r] \in {CheckIfRegistered, <<"user">>}
    /\ LET k == Head(todo[r])
           hit == key[r][k] \in content[rmap[r]]
       IN  /\ found' = [found EXCEPT ![r][k] = {hit}]
           /\ todo' = [todo EXCEPT ![r] = IF hit THEN <<>> ELSE Tail(@)]
    /\ LeaveSection(r)
    /\ UNCHANGED <<storeVars, wpc, request, old_map, new_map, seen>>

\* get_all_users_from_store() and get_all_programs_from_store(): the items
\* are copied into the caller's array.
List(r) ==
    /\ rpc[r] = "reading"
    /\ todo[r] \in {SysThrotRead, <<"program">>}
    /\ todo' = [todo EXCEPT ![r] = Tail(@)]
    /\ LeaveSection(r)
    /\ UNCHANGED <<storeVars, wpc, request, old_map, new_map, found, seen>>

Return(r) ==
    /\ rpc[r] = "next"
    /\ todo[r] = <<>>
    /\ rpc' = [rpc EXCEPT ![r] = "out"]
    /\ found' = [found EXCEPT ![r] = [k \in Kind |-> {}]]
    /\ seen' = [seen EXCEPT ![r] = [k \in Kind |-> {}]]
    /\ UNCHANGED <<storeVars, writerVars, todo, rmap>>

-----------------------------------------------------------------------------
WriterStep(w) ==
    \/ LockStore(w)
    \/ Check(w)
    \/ Clone(w)
    \/ CloneFails(w)
    \/ Modify(w)
    \/ ModifyFails(w)
    \/ Publish(w)
    \/ UnlockStore(w)
    \/ SynchronizeRcu(w)
    \/ DestroyOld(w)

ReaderStep(r) ==
    \/ ReadLock(r)
    \/ Dereference(r)
    \/ Find(r)
    \/ List(r)
    \/ Return(r)

Next ==
    \/ \E w \in Writer : WriterStep(w) \/ \E req \in Request : Call(w, req)
    \/ \E r \in Reader : \/ ReaderStep(r)
                         \/ Enter(r, CheckIfRegistered)
                         \/ Enter(r, SysThrotRead)

Spec == Init /\ [][Next]_vars

\* Every thread that can run does, and the mutex hands itself over to its
\* waiters; nobody has to call.
Fairness ==
    /\ \A w \in Writer : WF_vars(WriterStep(w)) /\ SF_vars(LockStore(w))
    /\ \A r \in Reader : WF_vars(ReaderStep(r))

-----------------------------------------------------------------------------
\* Types; in particular the published pointers are never NULL.
TypeOK ==
    /\ ptr \in [Kind -> Map]
    /\ content \in [Map -> SUBSET Item]
    /\ allocated \in SUBSET Map
    /\ write_lock \in Writer \cup {NoWriter}
    /\ wpc \in [Writer -> {"idle", "lock", "check", "clone", "modify", "publish",
                           "unlock", "sync", "grace"}]
    /\ request \in [Writer -> Request \cup {NoRequest}]
    /\ old_map \in [Writer -> Map \cup {NoMap}]
    /\ new_map \in [Writer -> Map \cup {NoMap}]
    /\ grace \in [Writer -> SUBSET Reader]
    /\ rpc \in [Reader -> {"out", "next", "locked", "reading"}]
    /\ todo \in [Reader -> {CheckIfRegistered, SysThrotRead, <<"user">>,
                            <<"program">>, <<>>}]
    /\ rmap \in [Reader -> Map \cup {NoMap}]
    /\ found \in [Reader -> [Kind -> SUBSET BOOLEAN]]
    /\ seen \in [Reader -> [Kind -> SUBSET BOOLEAN]]

\* contains() and the listings never touch a freed map: destroy_map() runs
\* after the last section that could have read the old pointer.
NoUseAfterFree ==
    \A r \in Reader : rpc[r] = "reading" => rmap[r] \in allocated

\* The writer's old map is unpublished and not yet destroyed.
Retired(w) == wpc[w] \in {"unlock", "sync", "grace"}

\* A map is reachable from one place only: the two pointers, the clones and
\* the retired maps are different, so none is destroyed twice or while it is
\* published, and no reader meets a map that is still being changed.
Ownership ==
    /\ ptr["user"] # ptr["program"]
    /\ \A w \in Writer :
        /\ new_map[w] # NoMap =>
            /\ \A k \in Kind : ptr[k] # new_map[w]
            /\ \A r \in Reader : rmap[r] # new_map[w]
        /\ Retired(w) =>
            /\ \A k \in Kind : ptr[k] # old_map[w]
            /\ \A v \in Writer \ {w} :
                /\ new_map[v] # old_map[w]
                /\ Retired(v) => old_map[v] # old_map[w]

\* Every allocated map is published, under construction or waiting for its
\* grace period: the error returns of the four operations leak nothing.
NoLeak ==
    allocated = {ptr[k] : k \in Kind}
                \cup {new_map[w] : w \in {v \in Writer : new_map[v] # NoMap}}
                \cup {old_map[w] : w \in {v \in Writer : Retired(v)}}

\* The answer of a lookup was right at some moment of the call.
LookupJustified ==
    \A r \in Reader, k \in Kind : found[r][k] \subseteq seen[r][k]

Users == INSTANCE Registry WITH registered <- content[ptr["user"]]
Programs == INSTANCE Registry WITH registered <- content[ptr["program"]]

\* The published maps are sets that change by one registration or one
\* deregistration at a time: no update made by another writer is lost.
UpdatesAtomic == Users!Spec /\ Programs!Spec

\* Every ioctl on the store returns, whatever the readers and the other
\* writers do: each error return unlocks, and grace periods end.
UpdateReturns == \A w \in Writer : wpc[w] # "idle" ~> wpc[w] = "idle"
=============================================================================
