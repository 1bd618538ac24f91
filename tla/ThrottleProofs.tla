--------------------------- MODULE ThrottleProofs ---------------------------
(***************************************************************************)
(* Proofs of the safety properties of Throttle for every set of threads,   *)
(* every pool of slab objects and every value of max_calls_monitor.        *)
(***************************************************************************)
EXTENDS ThrottleLemmas

\* The groups of variables and the moves of a thread are seen through everywhere.
USE DEF threadVars, devVars, queueVars, controlVars, Goto

(* Ownership of the elements *)

Owned == Placement /\ ElementOwnership

\* Steps that move a thread but no element.
LEMMA OwnershipFrame ==
    ASSUME TypeOK, Owned,
           UNCHANGED <<elem, global_queue, junk_list, live, exited>>,
           InHand' = InHand,
           \A u \in Thread :
             /\ pc'[u] \in {"user", "enter", "check", "token", "alloc", "leave"}
                  => elem[u] = NoElem
             /\ pc'[u] = "lock" => pc[u] = "lock"
             /\ pc'[u] \in HasNode => pc[u] \in HasNode
    PROVE  Owned'
<1>1. Queued' = Queued
  BY DEF Queued
<1>2. Placement'
  BY <1>1 DEF Owned, Placement
<1>3. ElementOwnership'
  BY <1>1 DEF Owned, ElementOwnership
<1> QED
  BY <1>2, <1>3 DEF Owned

\* Steps that move elements from the queue to the junk list and nothing else.
LEMMA OwnershipMove ==
    ASSUME TypeOK, Owned,
           UNCHANGED <<pc, elem, live, exited>>,
           Distinct(global_queue'),
           Queued' \cup junk_list' = Queued \cup junk_list,
           Queued' \cap junk_list' = {}
    PROVE  Owned'
<1>1. InHand' = InHand
  BY DEF InHand
<1>2. Placement'
  BY <1>1 DEF Owned, Placement
<1>3. ElementOwnership'
  BY <1>1 DEF Owned, ElementOwnership, Distinct
<1> QED
  BY <1>2, <1>3 DEF Owned

\* free_junk() frees no element that a thread still uses.
LEMMA OwnershipFree ==
    ASSUME TypeOK, Owned, FreeJunk, UNCHANGED <<pc, elem, global_queue>>
    PROVE  Owned'
<1> USE DEF TypeOK, ThreadTypes, QueueTypes
<1>1. InHand' = InHand /\ Queued' = Queued
  BY DEF InHand, Queued
<1>2. ASSUME NEW t \in Thread, t \in InHand \/ pc[t] \in HasNode
      PROVE  elem[t] \notin Freeable
  BY <1>2 DEF Owned, Placement, Freeable
<1>3. \A e \in Elem : exited'[e] => exited[e]
  BY DEF FreeJunk, Free
<1>4. Queued \subseteq Elem
  BY DEF Queued
<1>5. Placement'
  <2> SUFFICES ASSUME NEW t \in Thread
               PROVE  /\ pc[t] \in {"user", "enter", "check", "token", "alloc",
                                    "leave"} => elem[t] = NoElem
                      /\ pc[t] = "lock" => elem[t] # NoElem /\ ~exited'[elem[t]]
                      /\ t \in InHand => elem[t] \notin Queued \cup junk_list'
                      /\ pc[t] \in HasNode => /\ elem[t] \in Queued \cup junk_list'
                                              /\ ~exited'[elem[t]]
    BY <1>1 DEF Placement
  <2>1. pc[t] = "lock" => elem[t] # NoElem /\ ~exited'[elem[t]]
    BY <1>3 DEF Owned, Placement
  <2>2. pc[t] \in HasNode => /\ elem[t] \in Queued \cup junk_list'
                             /\ ~exited'[elem[t]]
    BY <1>2, <1>3, <1>4 DEF Owned, Placement, FreeJunk
  <2> QED
    BY <2>1, <2>2 DEF Owned, Placement, FreeJunk
<1>6. ElementOwnership'
  <2>1. live' = Queued \cup junk_list' \cup {elem[t] : t \in InHand}
    BY <1>2 DEF Owned, ElementOwnership, FreeJunk, Free, Freeable, InHand
  <2> QED
    BY <1>1, <2>1 DEF Owned, ElementOwnership, FreeJunk
<1> QED
  BY <1>5, <1>6 DEF Owned

\* Every step keeps each live element in exactly one place.
LEMMA OwnershipStep ==
    ASSUME TypeOK, Owned, [Next]_vars
    PROVE  Owned'
<1> USE DEF TypeOK, ThreadTypes, QueueTypes, HasNode, Waiting
<1>q. Queued = Elements(global_queue) /\ Queued' = Elements(global_queue')
  BY DEF Queued, Elements
<1>o. /\ Placement /\ ElementOwnership
      /\ Distinct(global_queue)
      /\ Queued \subseteq Elem
      /\ Queued \cap junk_list = {}
      /\ live = Queued \cup junk_list \cup {elem[u] : u \in InHand}
  BY DEF Owned, ElementOwnership, Distinct, Queued
<1>1. ASSUME NEW t \in Thread, EnterStub(t) PROVE Owned'
  BY <1>1, <1>o, OwnershipFrame DEF EnterStub, InHand, Placement
<1>2. ASSUME NEW t \in Thread, IncThreads(t) PROVE Owned'
  BY <1>2, <1>o, OwnershipFrame DEF IncThreads, InHand, Placement
<1>3. ASSUME NEW t \in Thread, CheckIfRegistered(t) PROVE Owned'
  BY <1>3, <1>o, OwnershipFrame DEF CheckIfRegistered, Decide, InHand, Placement
<1>4. ASSUME NEW t \in Thread, TakeToken(t) PROVE Owned'
  BY <1>4, <1>o, OwnershipFrame DEF TakeToken, Decide, InHand, Placement
<1>5. ASSUME NEW t \in Thread, AllocElem(t) PROVE Owned'
  <2>1. CASE Decide(t, "eagain") /\ UNCHANGED <<elem, live, exited, wake_up_flag>>
    BY <1>5, <1>o, <2>1, OwnershipFrame DEF AllocElem, Decide, InHand, Placement
  <2>2. ASSUME NEW e \in Elem \ live,
               live' = live \cup {e},
               elem' = [elem EXCEPT ![t] = e],
               exited' = [exited EXCEPT ![e] = FALSE],
               pc' = [pc EXCEPT ![t] = "lock"]
        PROVE  Owned'
    <3>1. /\ t \notin InHand /\ InHand' = InHand \cup {t}
          /\ Queued' = Queued /\ junk_list' = junk_list
          /\ global_queue' = global_queue
      BY <1>5, <2>2, ConstantsAssumption DEF AllocElem, InHand, Queued
    <3>2. ASSUME NEW u \in Thread, u # t
          PROVE  /\ elem'[u] = elem[u] /\ pc'[u] = pc[u]
                 /\ elem[u] # NoElem => elem[u] \in live /\ elem[u] # e
      BY <1>5, <1>o, <2>2, <3>2 DEF Placement, InHand, Counted
    <3>3. Placement'
      BY <1>5, <1>o, <2>2, <3>1, <3>2, ConstantsAssumption DEF Placement
    <3>4. live' = Queued' \cup junk_list' \cup {elem'[u] : u \in InHand'}
      BY <1>o, <2>2, <3>1, <3>2 DEF InHand
    <3>5. ElementOwnership'
      BY <1>5, <1>o, <2>2, <3>1, <3>2, <3>4 DEF ElementOwnership
    <3> QED
      BY <3>3, <3>5 DEF Owned
  <2> QED
    BY <1>5, <2>1, <2>2 DEF AllocElem
<1>6. ASSUME NEW t \in Thread, CacheOops(t) PROVE Owned'
  BY <1>6, <1>o, OwnershipFrame DEF CacheOops, InHand, Placement
<1>7. ASSUME NEW t \in Thread, Enqueue(t) PROVE Owned'
  <2>1. /\ t \in InHand /\ elem[t] \in Elem /\ ~exited[elem[t]]
        /\ InHand' = InHand \ {t}
    BY <1>7, <1>o DEF Enqueue, Decide, InHand, Placement
  <2>2. ASSUME NEW u \in Thread, u # t
        PROVE  elem[u] # elem[t] /\ elem'[u] = elem[u] /\ pc'[u] = pc[u]
    BY <1>7, <1>o, <2>1, <2>2, ConstantsAssumption
       DEF Enqueue, Decide, ElementOwnership
  <2>3. CASE MayEnqueue
    <3>1. /\ Queued' = Queued \cup {elem[t]}
          /\ Distinct(global_queue')
      <4>1. elem[t] \notin Elements(global_queue)
        BY <1>q, <1>o, <2>1 DEF Placement
      <4>2. global_queue' = Append(global_queue, elem[t])
        BY <1>7, <2>3 DEF Enqueue
      <4> QED
        BY <1>q, <1>o, <2>1, <4>1, <4>2, AppendElements
    <3>2. Placement'
      BY <1>7, <1>o, <2>1, <2>2, <2>3, <3>1 DEF Enqueue, Placement
    <3>3. live' = Queued' \cup junk_list' \cup {elem'[u] : u \in InHand'}
      <4>1. elem' = elem /\ junk_list' = junk_list /\ live' = live
        BY <1>7, <2>3 DEF Enqueue
      <4>2. live = Queued \cup junk_list \cup {elem[u] : u \in InHand}
        BY <1>o
      <4>3. {elem[u] : u \in InHand} = {elem[u] : u \in InHand'} \cup {elem[t]}
        BY <2>1
      <4> QED
        BY <3>1, <4>1, <4>2, <4>3, Zenon
    <3>4. ElementOwnership'
      BY <1>7, <1>o, <2>1, <2>3, <3>1, <3>3
         DEF Enqueue, ElementOwnership, Distinct, Placement
    <3> QED
      BY <3>2, <3>4 DEF Owned
  <2>4. CASE ~MayEnqueue
    <3>1. Queued' = Queued /\ elem[t] \notin Queued \cup junk_list
      BY <1>7, <1>o, <2>1, <2>4 DEF Enqueue, Queued, Placement
    <3>2. \A e \in Elem : exited'[e] => exited[e]
      BY <1>7, <2>4 DEF Enqueue, Free
    <3>3. Placement'
      <4>1. /\ pc'[t] = "leave" /\ elem'[t] = NoElem
            /\ junk_list' = junk_list
        BY <1>7, <2>4 DEF Enqueue, Decide
      <4>2. \A u \in Thread : u \in InHand' <=> u \in InHand /\ u # t
        BY <2>1
      <4>3. \A u \in Thread : pc[u] = "lock" => elem[u] \in Elem
        BY <1>o DEF Placement
      <4>4. \A u \in Thread : pc[u] \in HasNode => elem[u] \in Elem
        BY <1>o DEF Placement
      <4> QED
        BY <1>o, <2>2, <3>1, <3>2, <4>1, <4>2, <4>3, <4>4 DEF Placement
    <3>4. {elem'[u] : u \in InHand'} = {elem[u] : u \in InHand} \ {elem[t]}
      BY <1>7, <2>1, <2>2 DEF InHand
    <3>5. live' = Queued' \cup junk_list' \cup {elem'[u] : u \in InHand'}
      <4>1. live' = live \ {elem[t]} /\ junk_list' = junk_list
        BY <1>7, <2>4 DEF Enqueue, Free
      <4>2. live = Queued \cup junk_list \cup {elem[u] : u \in InHand}
        BY <1>o
      <4> QED
        BY <3>1, <3>4, <4>1, <4>2, Zenon
    <3>6. ElementOwnership'
      BY <1>7, <1>o, <2>1, <2>2, <2>4, <3>1, <3>5 DEF Enqueue, ElementOwnership
    <3> QED
      BY <3>3, <3>6 DEF Owned
  <2> QED
    BY <2>3, <2>4
<1>8. ASSUME NEW t \in Thread, PrepareToWait(t) PROVE Owned'
  BY <1>8, <1>o, OwnershipFrame DEF PrepareToWait, InHand, Placement
<1>9. ASSUME NEW t \in Thread, EvalCondition(t) PROVE Owned'
  BY <1>9, <1>o, OwnershipFrame DEF EvalCondition, InHand, Placement
<1>10. ASSUME NEW t \in Thread, Schedule(t) PROVE Owned'
  BY <1>10, <1>o, OwnershipFrame DEF Schedule, InHand, Placement
<1>11. ASSUME NEW t \in Thread, TestWorking(t) PROVE Owned'
  <2>1. CASE working
    BY <1>11, <2>1, <1>o, OwnershipFrame DEF TestWorking, InHand, Placement
  <2>2. CASE ~working
    <3>1. /\ InHand' = InHand /\ Queued' = Queued
          /\ \A u \in InHand : elem'[u] = elem[u]
      BY <1>11, <2>2 DEF TestWorking, Decide, InHand, Queued
    <3>2. Placement'
      BY <1>11, <1>o, <2>2, <3>1 DEF TestWorking, Decide, Placement
    <3>3. ElementOwnership'
      BY <1>11, <1>o, <2>2, <3>1 DEF TestWorking, Decide, ElementOwnership
    <3> QED
      BY <3>2, <3>3 DEF Owned
  <2> QED
    BY <2>1, <2>2
<1>12. ASSUME NEW t \in Thread, SetExited(t) PROVE Owned'
  <2>1. /\ elem[t] \in Elem
        /\ InHand' = InHand /\ Queued' = Queued
        /\ \A u \in InHand : elem'[u] = elem[u]
    BY <1>12, <1>o DEF SetExited, InHand, Placement, Queued
  <2>2. ASSUME NEW u \in Thread, u # t
        PROVE  elem'[u] = elem[u] /\ (elem[u] # NoElem => exited'[elem[u]] = exited[elem[u]])
    BY <1>12, <1>o, <2>1, <2>2, Zenon DEF SetExited, ElementOwnership
  <2>3. Placement'
    <3>1. pc'[t] = "leave" /\ elem'[t] = NoElem /\ t \notin InHand
      BY <1>12 DEF SetExited, InHand
    <3>2. ASSUME NEW u \in Thread, u # t
          PROVE  pc'[u] = pc[u] /\ elem'[u] = elem[u]
      BY <1>12, <3>2 DEF SetExited
    <3>3. \A u \in Thread : pc[u] = "lock" => u \in InHand
      BY <1>o DEF Placement, InHand
    <3>4. \A u \in Thread : pc[u] \in HasNode => elem[u] # NoElem
      BY <1>o, ConstantsAssumption DEF Placement
    <3>5. junk_list' = junk_list
      BY <1>12 DEF SetExited
    <3> QED
      BY <1>o, <2>1, <2>2, <3>1, <3>2, <3>3, <3>4, <3>5 DEF Placement
  <2>4. ElementOwnership'
    BY <1>12, <1>o, <2>1, <2>2 DEF SetExited, ElementOwnership
  <2> QED
    BY <2>3, <2>4 DEF Owned
<1>13. ASSUME NEW t \in Thread, LeaveStub(t) PROVE Owned'
  BY <1>13, <1>o, OwnershipFrame DEF LeaveStub, InHand, Placement
<1>14. ASSUME NEW t \in Thread, Signal(t) PROVE Owned'
  BY <1>14, <1>o, OwnershipFrame DEF Signal, InHand, Placement
<1>15. CASE FireTimer
  BY <1>15, <1>o, OwnershipFrame DEF FireTimer, InHand, Placement
<1>16. CASE UnqueueExited
  <2>1. /\ Queued = Queued' \cup {Head(global_queue)}
        /\ Head(global_queue) \notin Queued'
        /\ Distinct(global_queue')
    BY <1>16, <1>q, <1>o, TailElements DEF UnqueueExited, MoveHeadToJunk
  <2> QED
    BY <1>16, <1>o, <2>1, OwnershipMove DEF UnqueueExited, MoveHeadToJunk
<1>17. CASE UnqueueGrant
  <2>1. /\ Queued = Queued' \cup {Head(global_queue)}
        /\ Head(global_queue) \notin Queued'
        /\ Distinct(global_queue')
    BY <1>17, <1>q, <1>o, TailElements DEF UnqueueGrant, MoveHeadToJunk
  <2> QED
    BY <1>17, <1>o, <2>1, OwnershipMove DEF UnqueueGrant, MoveHeadToJunk
<1>18. CASE UnqueueDone
  BY <1>18, <1>o, OwnershipFrame DEF UnqueueDone, InHand, Placement
<1>19. CASE TimerWake
  BY <1>19, <1>o, OwnershipFrame DEF TimerWake, InHand, Placement
<1>20. CASE TimerRefill
  BY <1>20, <1>o, OwnershipFrame DEF TimerRefill, InHand, Placement
<1>21. CASE TimerRearm
  BY <1>21, <1>o, OwnershipFrame DEF TimerRearm, InHand, Placement
<1>22. CASE TimerFreeJunk
  BY <1>22, OwnershipFree DEF TimerFreeJunk
<1>23. CASE TurnOn
  BY <1>23, <1>o, OwnershipFrame DEF TurnOn, InHand, Placement
<1>24. CASE InitQueue
  BY <1>24, <1>o, OwnershipFrame DEF InitQueue, InHand, Placement
<1>25. CASE ArmTimer
  BY <1>25, <1>o, OwnershipFrame DEF ArmTimer, InHand, Placement
<1>26. CASE SetWorking
  BY <1>26, <1>o, OwnershipFrame DEF SetWorking, InHand, Placement
<1>27. CASE TurnOff
  BY <1>27, <1>o, OwnershipFrame DEF TurnOff, InHand, Placement
<1>28. CASE ShutdownTimer
  BY <1>28, <1>o, OwnershipFrame DEF ShutdownTimer, InHand, Placement
<1>29. CASE WakeUpQueue
  <2>1. Queued' = {} /\ Distinct(global_queue')
    BY <1>29 DEF WakeUpQueue, Queued, Distinct
  <2> QED
    BY <1>29, <1>o, <2>1, OwnershipMove DEF WakeUpQueue
<1>30. CASE DrainWait
  BY <1>30, <1>o, OwnershipFrame DEF DrainWait, InHand, Placement
<1>31. CASE DrainDone
  BY <1>31, <1>o, OwnershipFrame DEF DrainDone, InHand, Placement
<1>32. CASE DestroyQueue
  BY <1>32, OwnershipFree DEF DestroyQueue
<1>33. CASE UNCHANGED vars
  BY <1>33, <1>o, OwnershipFrame DEF vars, InHand, Placement
<1> QED
  BY <1>1, <1>2, <1>3, <1>4, <1>5, <1>6, <1>7, <1>8, <1>9, <1>10, <1>11,
     <1>12, <1>13, <1>14, <1>15, <1>16, <1>17, <1>18, <1>19, <1>20, <1>21,
     <1>22, <1>23, <1>24, <1>25, <1>26, <1>27, <1>28, <1>29, <1>30, <1>31,
     <1>32, <1>33, NextCases, Zenon

-----------------------------------------------------------------------------
(* Flags and wake-ups *)

\* Who set the wake-up flag of a thread's element: nobody while it is on the
\* queue, and not wake_up_queue() as long as the monitor is on.
FlagsOK ==
    /\ \A e \in Queued : wake_up_flag[e] = "clear"
    /\ \A t \in Thread :
        /\ pc[t] = "lock" => wake_up_flag[elem[t]] = "clear"
        /\ pc[t] \in HasNode /\ working => wake_up_flag[elem[t]] # "off"
        /\ pc[t] = "awake" /\ ret[t] = "granted" /\ working
             => wake_up_flag[elem[t]] = "granted"
        /\ pc[t] = "mark" /\ ret[t] = "granted"
             => wake_up_flag[elem[t]] = "granted"

\* A thread's element is a slab object that is allocated.
LEMMA ElementsLive ==
    ASSUME TypeOK, Owned
    PROVE  /\ \A t \in Thread : pc[t] \in HasNode \cup {"lock"}
                  => elem[t] \in live /\ elem[t] \in Elem
           /\ \A t, u \in Thread : pc[t] \in HasNode \cup {"lock"} /\ t # u
                  => elem[t] # elem[u]
<1> USE DEF TypeOK, ThreadTypes, QueueTypes, Owned
<1>1. ASSUME NEW t \in Thread, pc[t] \in HasNode
      PROVE  elem[t] \in live
  BY <1>1 DEF Placement, ElementOwnership
<1>2. ASSUME NEW t \in Thread, pc[t] = "lock"
      PROVE  elem[t] \in live
  BY <1>2 DEF Placement, ElementOwnership, InHand
<1> QED
  BY <1>1, <1>2, ConstantsAssumption DEF ElementOwnership

\* free_junk() resets no flag a thread will still read.
LEMMA FlagsFree ==
    ASSUME TypeOK, Owned, FreeJunk
    PROVE  /\ \A e \in Queued : wake_up_flag'[e] = wake_up_flag[e]
           /\ \A t \in Thread : pc[t] \in HasNode \cup {"lock"}
                  => wake_up_flag'[elem[t]] = wake_up_flag[elem[t]]
<1> USE DEF TypeOK, ThreadTypes, QueueTypes, Owned
<1>1. Queued \subseteq Elem \ Freeable
  BY DEF Queued, Freeable, ElementOwnership
<1>2. ASSUME NEW t \in Thread, pc[t] \in HasNode \cup {"lock"}
      PROVE  elem[t] \in Elem \ Freeable
  BY <1>2, ElementsLive DEF Placement, Freeable, InHand
<1> QED
  BY <1>1, <1>2 DEF FreeJunk, Free

\* Every step keeps the flags; turning on again needs that nobody who was
\* woken by wake_up_queue() is left.
LEMMA FlagsStep ==
    ASSUME TypeOK, Owned, DrainedWhenOff, Phases, FlagsOK, [Next]_vars
    PROVE  FlagsOK'
<1> USE DEF TypeOK, ThreadTypes, QueueTypes, FlagsOK, HasNode, Waiting
<1>e. /\ \A t \in Thread : pc[t] \in HasNode \cup {"lock"}
            => elem[t] \in live /\ elem[t] \in Elem
      /\ \A t, u \in Thread : pc[t] \in HasNode \cup {"lock"} /\ t # u
            => elem[t] # elem[u]
      /\ Queued \subseteq Elem
  BY ElementsLive DEF Queued
<1>q. global_queue' = global_queue => Queued' = Queued
  BY DEF Queued
<1>d. /\ Queued = Elements(global_queue) /\ Queued' = Elements(global_queue')
      /\ Distinct(global_queue)
      /\ \A t \in Thread : pc[t] = "lock" => elem[t] \notin Queued
  BY ConstantsAssumption
     DEF Queued, Elements, Distinct, Owned, ElementOwnership, Placement, InHand
<1>1. ASSUME NEW t \in Thread, EnterStub(t) PROVE FlagsOK'
  BY <1>1, <1>q, <1>e DEF EnterStub
<1>2. ASSUME NEW t \in Thread, IncThreads(t) PROVE FlagsOK'
  BY <1>2, <1>q, <1>e DEF IncThreads
<1>3. ASSUME NEW t \in Thread, CheckIfRegistered(t) PROVE FlagsOK'
  BY <1>3, <1>q, <1>e DEF CheckIfRegistered, Decide
<1>4. ASSUME NEW t \in Thread, TakeToken(t) PROVE FlagsOK'
  BY <1>4, <1>q, <1>e DEF TakeToken, Decide
<1>5. ASSUME NEW t \in Thread, AllocElem(t) PROVE FlagsOK'
  BY <1>5, <1>q, <1>e DEF AllocElem, Decide
<1>6. ASSUME NEW t \in Thread, CacheOops(t) PROVE FlagsOK'
  BY <1>6, <1>q, <1>e DEF CacheOops
<1>7. ASSUME NEW t \in Thread, Enqueue(t) PROVE FlagsOK'
  <2>1. CASE MayEnqueue
    <3>1. Queued' = Queued \cup {elem[t]}
      <4>1. elem[t] \in Elem /\ global_queue' = Append(global_queue, elem[t])
        BY <1>7, <1>e, <2>1 DEF Enqueue
      <4> QED
        BY <1>d, <4>1, AppendElements
    <3> QED
      BY <1>7, <1>e, <2>1, <3>1 DEF Enqueue
  <2>2. CASE ~MayEnqueue
    <3>1. ASSUME NEW u \in Thread, u # t, pc[u] \in HasNode \cup {"lock"}
          PROVE  wake_up_flag'[elem[u]] = wake_up_flag[elem[u]]
      BY <1>7, <1>e, <2>2, <3>1 DEF Enqueue, Free
    <3>2. \A e \in Queued : wake_up_flag'[e] = wake_up_flag[e]
      BY <1>7, <1>e, <1>d, <2>2 DEF Enqueue, Free
    <3> QED
      BY <1>7, <1>q, <2>2, <3>1, <3>2 DEF Enqueue, Decide
  <2> QED
    BY <2>1, <2>2, Zenon
<1>8. ASSUME NEW t \in Thread, PrepareToWait(t) PROVE FlagsOK'
  BY <1>8, <1>q, <1>e DEF PrepareToWait
<1>9. ASSUME NEW t \in Thread, EvalCondition(t) PROVE FlagsOK'
  BY <1>9, <1>q, <1>e DEF EvalCondition, WaitCondition
<1>10. ASSUME NEW t \in Thread, Schedule(t) PROVE FlagsOK'
  BY <1>10, <1>q, <1>e DEF Schedule
<1>11. ASSUME NEW t \in Thread, TestWorking(t) PROVE FlagsOK'
  BY <1>11, <1>q, <1>e DEF TestWorking, Decide
<1>12. ASSUME NEW t \in Thread, SetExited(t) PROVE FlagsOK'
  BY <1>12, <1>q, <1>e DEF SetExited
<1>13. ASSUME NEW t \in Thread, LeaveStub(t) PROVE FlagsOK'
  BY <1>13, <1>q, <1>e DEF LeaveStub
<1>14. ASSUME NEW t \in Thread, Signal(t) PROVE FlagsOK'
  BY <1>14, <1>q, <1>e DEF Signal
<1>15. CASE FireTimer
  BY <1>15, <1>q, <1>e DEF FireTimer
<1>16. CASE UnqueueExited
  <2>1. /\ Queued = Queued' \cup {Head(global_queue)}
        /\ Head(global_queue) \notin Queued'
        /\ Head(global_queue) \in Elem
    BY <1>16, <1>d, TailElements DEF UnqueueExited, MoveHeadToJunk
  <2> QED
    BY <1>16, <1>e, <1>d, <2>1 DEF UnqueueExited
<1>17. CASE UnqueueGrant
  <2>1. /\ Queued = Queued' \cup {Head(global_queue)}
        /\ Head(global_queue) \notin Queued'
        /\ Head(global_queue) \in Elem
    BY <1>17, <1>d, TailElements DEF UnqueueGrant, MoveHeadToJunk
  <2> QED
    BY <1>17, <1>e, <1>d, <2>1 DEF UnqueueGrant
<1>18. CASE UnqueueDone
  BY <1>18, <1>q, <1>e DEF UnqueueDone
<1>19. CASE TimerWake
  BY <1>19, <1>q, <1>e DEF TimerWake
<1>20. CASE TimerRefill
  BY <1>20, <1>q, <1>e DEF TimerRefill
<1>21. CASE TimerRearm
  BY <1>21, <1>q, <1>e DEF TimerRearm
<1>22. CASE TimerFreeJunk
  BY <1>22, <1>q, <1>e, FlagsFree DEF TimerFreeJunk
<1>23. CASE TurnOn
  BY <1>23, <1>q, <1>e DEF TurnOn
<1>24. CASE InitQueue
  BY <1>24, <1>q, <1>e DEF InitQueue
<1>25. CASE ArmTimer
  BY <1>25, <1>q, <1>e DEF ArmTimer
<1>26. CASE SetWorking
  BY <1>26, <1>q, <1>e DEF SetWorking, DrainedWhenOff
<1>27. CASE TurnOff
  BY <1>27, <1>q, <1>e DEF TurnOff
<1>28. CASE ShutdownTimer
  BY <1>28, <1>q, <1>e DEF ShutdownTimer
<1>29. CASE WakeUpQueue
  <2>1. Queued' = {} /\ ~working'
    BY <1>29 DEF WakeUpQueue, Queued, Phases
  <2>2. ASSUME NEW t \in Thread,
               pc[t] = "lock" \/ (pc[t] = "mark" /\ ret[t] = "granted")
        PROVE  wake_up_flag'[elem[t]] = wake_up_flag[elem[t]]
    BY <1>29, <1>e, <1>d, <2>2 DEF WakeUpQueue
  <2> QED
    BY <1>29, <2>1, <2>2, Zenon DEF WakeUpQueue
<1>30. CASE DrainWait
  BY <1>30, <1>q, <1>e DEF DrainWait
<1>31. CASE DrainDone
  BY <1>31, <1>q, <1>e DEF DrainDone
<1>32. CASE DestroyQueue
  BY <1>32, <1>q, <1>e, FlagsFree DEF DestroyQueue
<1>33. CASE UNCHANGED vars
  BY <1>33, <1>q DEF vars
<1> QED
  BY <1>1, <1>2, <1>3, <1>4, <1>5, <1>6, <1>7, <1>8, <1>9, <1>10, <1>11,
     <1>12, <1>13, <1>14, <1>15, <1>16, <1>17, <1>18, <1>19, <1>20, <1>21,
     <1>22, <1>23, <1>24, <1>25, <1>26, <1>27, <1>28, <1>29, <1>30, <1>31,
     <1>32, <1>33, NextCases, Zenon

\* Every step keeps the promise of a wake-up to sleepers that may go on.
LEMMA WakeupStep ==
    ASSUME TypeOK, Owned, CounterBalanced, Phases, NoLostWakeup, [Next]_vars
    PROVE  NoLostWakeup'
<1> USE DEF TypeOK, ThreadTypes, QueueTypes, NoLostWakeup, WaitCondition, HasNode, Waiting
<1>e. \A t \in Thread : pc[t] = "sleep" => elem[t] \in live /\ elem[t] \in Elem
  BY ElementsLive
<1>1. ASSUME NEW t \in Thread, EnterStub(t) PROVE NoLostWakeup'
  BY <1>1, <1>e DEF EnterStub
<1>2. ASSUME NEW t \in Thread, IncThreads(t) PROVE NoLostWakeup'
  BY <1>2, <1>e DEF IncThreads
<1>3. ASSUME NEW t \in Thread, CheckIfRegistered(t) PROVE NoLostWakeup'
  BY <1>3, <1>e DEF CheckIfRegistered, Decide
<1>4. ASSUME NEW t \in Thread, TakeToken(t) PROVE NoLostWakeup'
  BY <1>4, <1>e DEF TakeToken, Decide
<1>5. ASSUME NEW t \in Thread, AllocElem(t) PROVE NoLostWakeup'
  BY <1>5, <1>e DEF AllocElem, Decide
<1>6. ASSUME NEW t \in Thread, CacheOops(t) PROVE NoLostWakeup'
  BY <1>6, <1>e DEF CacheOops
<1>7. ASSUME NEW t \in Thread, Enqueue(t) PROVE NoLostWakeup'
  BY <1>7, <1>e DEF Enqueue, Decide, Free
<1>8. ASSUME NEW t \in Thread, PrepareToWait(t) PROVE NoLostWakeup'
  BY <1>8, <1>e DEF PrepareToWait
<1>9. ASSUME NEW t \in Thread, EvalCondition(t) PROVE NoLostWakeup'
  BY <1>9, <1>e DEF EvalCondition
<1>10. ASSUME NEW t \in Thread, Schedule(t) PROVE NoLostWakeup'
  BY <1>10, <1>e DEF Schedule
<1>11. ASSUME NEW t \in Thread, TestWorking(t) PROVE NoLostWakeup'
  BY <1>11, <1>e DEF TestWorking, Decide
<1>12. ASSUME NEW t \in Thread, SetExited(t) PROVE NoLostWakeup'
  BY <1>12, <1>e DEF SetExited
<1>13. ASSUME NEW t \in Thread, LeaveStub(t) PROVE NoLostWakeup'
  BY <1>13, <1>e DEF LeaveStub
<1>14. ASSUME NEW t \in Thread, Signal(t) PROVE NoLostWakeup'
  BY <1>14, <1>e DEF Signal
<1>15. CASE FireTimer
  BY <1>15, <1>e DEF FireTimer
<1>16. CASE UnqueueExited
  BY <1>16, <1>e DEF UnqueueExited
<1>17. CASE UnqueueGrant
  BY <1>17, <1>e DEF UnqueueGrant
<1>18. CASE UnqueueDone
  BY <1>18, <1>e DEF UnqueueDone
<1>19. CASE TimerWake
  BY <1>19, <1>e DEF TimerWake, WakeAll
<1>20. CASE TimerRefill
  BY <1>20, <1>e DEF TimerRefill
<1>21. CASE TimerRearm
  BY <1>21, <1>e DEF TimerRearm
<1>22. CASE TimerFreeJunk
  BY <1>22, <1>e, FlagsFree DEF TimerFreeJunk
<1>23. CASE TurnOn
  BY <1>23, <1>e DEF TurnOn
<1>24. CASE InitQueue
  BY <1>24, <1>e DEF InitQueue
<1>25. CASE ArmTimer
  BY <1>25, <1>e DEF ArmTimer
<1>26. CASE SetWorking
  BY <1>26, <1>e DEF SetWorking
<1>27. CASE TurnOff
  BY <1>27, <1>e DEF TurnOff
<1>28. CASE ShutdownTimer
  BY <1>28, <1>e DEF ShutdownTimer
<1>29. CASE WakeUpQueue
  BY <1>29, <1>e DEF WakeUpQueue
<1>30. CASE DrainWait
  BY <1>30, <1>e DEF DrainWait, WakeAll
<1>31. CASE DrainDone
  <2>1. Cardinality(Inside) = 0
    BY <1>31 DEF DrainDone, Drained, CounterBalanced, Inside, DevTypes
  <2>2. Inside = {}
    <3>1. IsFiniteSet(Inside)
      BY FS_Subset, ConstantsAssumption DEF Inside
    <3> QED
      BY <2>1, <3>1, FS_EmptySet
  <2> QED
    BY <1>31, <2>2 DEF DrainDone, Inside, Counted
<1>32. CASE DestroyQueue
  BY <1>32, <1>e, FlagsFree DEF DestroyQueue
<1>33. CASE UNCHANGED vars
  BY <1>33 DEF vars
<1> QED
  BY <1>1, <1>2, <1>3, <1>4, <1>5, <1>6, <1>7, <1>8, <1>9, <1>10, <1>11,
     <1>12, <1>13, <1>14, <1>15, <1>16, <1>17, <1>18, <1>19, <1>20, <1>21,
     <1>22, <1>23, <1>24, <1>25, <1>26, <1>27, <1>28, <1>29, <1>30, <1>31,
     <1>32, <1>33, NextCases, Zenon

-----------------------------------------------------------------------------
(* The inductive invariant and what it implies *)

IInv ==
    /\ TypeOK
    /\ CounterBalanced
    /\ Phases
    /\ BudgetOK
    /\ QueueCount
    /\ DrainedWhenOff
    /\ Placement
    /\ ElementOwnership
    /\ FlagsOK
    /\ NoLostWakeup

\* The state sysThrot_init() leaves behind satisfies the invariant.
LEMMA IInvInit == Init => IInv
<1> SUFFICES ASSUME Init PROVE IInv
  OBVIOUS
<1> USE DEF Init
<1>1. TypeOK
  <2>1. pc \in [Thread -> {"user", "enter"} \cup Counted]
    OBVIOUS
  <2>2. ret \in [Thread -> Outcome] /\ elem \in [Thread -> Elem \cup {NoElem}]
    BY DEF Outcome
  <2>3. /\ armed \in [Thread -> BOOLEAN] /\ sig \in [Thread -> BOOLEAN]
        /\ working \in BOOLEAN
    BY Zenon
  <2>4. global_queue \in Seq(Elem)
    OBVIOUS
  <2>5. exited \in [Elem -> BOOLEAN]
    OBVIOUS
  <2>6. wake_up_flag \in [Elem -> {"clear", "granted", "off"}]
    OBVIOUS
  <2>7. /\ threads_in_module \in Nat /\ spent \in Nat
        /\ current_epoch_tokens \in Int /\ current_in_queue \in Int
        /\ missing \in Int
    OBVIOUS
  <2>8. /\ junk_list \in SUBSET Elem /\ live \in SUBSET Elem
        /\ queue_cache \in {"null", "live", "destroyed"}
        /\ timer \in {"inactive", "pending"}
        /\ tpc \in {"idle", "unqueue", "wake", "refill", "rearm", "free"}
        /\ apc \in {"idle", "on_init", "on_arm", "on_set", "off_timer",
                    "off_wake", "off_drain", "off_destroy"}
    OBVIOUS
  <2> HIDE DEF Init
  <2> QED
    BY <2>1, <2>2, <2>3, <2>4, <2>5, <2>6, <2>7, <2>8
    DEF TypeOK, ThreadTypes, DevTypes, QueueTypes, ControlTypes
<1>2. CounterBalanced
  <2>1. Inside = {}
    BY DEF Inside, Counted, Waiting
  <2> QED
    BY <2>1, FS_EmptySet, Zenon DEF CounterBalanced, Inside
<1>3. Phases /\ BudgetOK /\ QueueCount
  BY QuotaIsInt DEF Phases, BudgetOK, Quota, QueueCount
<1>4. DrainedWhenOff /\ NoLostWakeup
  BY DEF DrainedWhenOff, NoLostWakeup, HasNode, Waiting
<1>5. InHand = {} /\ Queued = {}
  BY DEF InHand, Queued
<1>6. Placement /\ ElementOwnership
  BY <1>5 DEF Placement, ElementOwnership, HasNode, Waiting
<1>7. FlagsOK
  BY <1>5 DEF FlagsOK, HasNode, Waiting
<1> QED
  BY <1>1, <1>2, <1>3, <1>4, <1>6, <1>7 DEF IInv

\* Every step of a thread, the timer or the administrator preserves it.
LEMMA IInvStep == IInv /\ [Next]_vars => IInv'
<1> SUFFICES ASSUME IInv, [Next]_vars PROVE IInv'
  OBVIOUS
<1> USE DEF IInv
<1>1. TypeOK'
  BY TypeStep
<1>2. Owned /\ Owned'
  BY <1>1, OwnershipStep DEF Owned
<1>3. CounterBalanced' /\ Phases' /\ BudgetOK'
  BY CounterStep, PhasesStep, BudgetStep
<1>4. QueueCount' /\ DrainedWhenOff'
  BY QueueCountStep, DrainedStep
<1>5. FlagsOK' /\ NoLostWakeup'
  BY <1>1, <1>2, FlagsStep, WakeupStep
<1> QED
  BY <1>1, <1>2, <1>3, <1>4, <1>5 DEF Owned

\* The invariant holds in every reachable state of the monitor.
THEOREM Invariance == Spec => []IInv
BY IInvInit, IInvStep, PTL DEF Spec

\* Types of all variables, whatever threads, timer and administrator do.
THEOREM TypeCorrectness == Spec => []TypeOK
<1>1. IInv => TypeOK
  BY DEF IInv
<1> QED
  BY <1>1, Invariance, PTL

\* Between two refills stub() and timer_callback() together admit at most
\* max_syscalls_for_epoch calls, for every value of max_calls_monitor.
THEOREM QuotaTheorem == Spec => []QuotaRespected
<1>1. IInv => QuotaRespected
  BY QuotaIsInt DEF IInv, BudgetOK, QuotaRespected, TypeOK, DevTypes, Quota
<1> QED
  BY <1>1, Invariance, PTL

\* A caller that stub() lets go as granted was granted by unqueue().
THEOREM NoFreeRideTheorem == Spec => []NoFreeRide
<1>1. IInv => NoFreeRide
  BY DEF IInv, FlagsOK, NoFreeRide
<1> QED
  BY <1>1, Invariance, PTL

\* stub() never touches an element free_junk() or add_to_queue() has freed.
THEOREM NoUseAfterFreeTheorem == Spec => []NoUseAfterFree
<1>1. IInv => NoUseAfterFree
  BY ElementsLive DEF IInv, Owned, NoUseAfterFree
<1> QED
  BY <1>1, Invariance, PTL

\* No sleeper of wait_event_interruptible() misses its wake-up.
THEOREM NoLostWakeupTheorem == Spec => []NoLostWakeup
<1>1. IInv => NoLostWakeup
  BY DEF IInv
<1> QED
  BY <1>1, Invariance, PTL

\* After turn_off() has drained the module nobody is blocked and the queue is
\* empty until the monitor is on again.
THEOREM DrainedTheorem == Spec => []DrainedWhenOff
<1>1. IInv => DrainedWhenOff
  BY DEF IInv
<1> QED
  BY <1>1, Invariance, PTL

\* Every element of the slab cache is in one place: add_to_queue(), unqueue()
\* and free_junk() hand it around, and neither lose it nor free it twice.
THEOREM OwnershipTheorem == Spec => []ElementOwnership
<1>1. IInv => ElementOwnership
  BY DEF IInv
<1> QED
  BY <1>1, Invariance, PTL

\* current_in_queue is the length of the queue at every unlock of queue_lock.
THEOREM QueueCountTheorem == Spec => []QueueCount
<1>1. IInv => QueueCount
  BY DEF IInv
<1> QED
  BY <1>1, Invariance, PTL

\* threads_in_module, which turn_off() waits for, counts exactly the threads
\* between their increment and their decrement in stub().
THEOREM BalanceTheorem == Spec => []CounterBalanced
<1>1. IInv => CounterBalanced
  BY DEF IInv
<1> QED
  BY <1>1, Invariance, PTL

\* Provided turn_on() takes less than an epoch, the timer is armed or its
\* callback running whenever throttling is on.
THEOREM TimerTheorem == ASSUME PromptTurnOn PROVE Spec => []TimerRunsWhileOn
<1>1. IInv => TimerRunsWhileOn
  BY DEF IInv, Phases, TypeOK, ControlTypes, TimerRunsWhileOn
<1> QED
  BY <1>1, Invariance, PTL
=============================================================================
