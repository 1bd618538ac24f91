--------------------------- MODULE ThrottleLemmas ---------------------------
(***************************************************************************)
(* Lemmas about Throttle: what each step does to the types, the counter of *)
(* threads, the places of the actors, the budget, the length of the queue  *)
(* and the drain.  ThrottleProofs puts them together.                      *)
(***************************************************************************)
EXTENDS Throttle, TLAPS, FiniteSetTheorems

\* The quota is an int, whatever the parameter was.
LEMMA QuotaIsInt == max_syscalls_for_epoch \in Int
BY ConstantsAssumption DEF max_syscalls_for_epoch

\* The threads threads_in_module accounts for.
Inside == {t \in Thread : pc[t] \in Counted}

\* A thread that starts to be accounted for adds one, one that stops removes
\* one, and a finite set of threads has at least one member if not empty.
LEMMA InsideCount ==
    ASSUME NEW S, S \subseteq Thread, NEW t \in Thread
    PROVE  /\ IsFiniteSet(S) /\ Cardinality(S) \in Nat
           /\ t \notin S => Cardinality(S \cup {t}) = Cardinality(S) + 1
           /\ t \in S => /\ Cardinality(S \ {t}) = Cardinality(S) - 1
                         /\ Cardinality(S) > 0
           /\ Cardinality(S) = 0 <=> S = {}
<1>1. IsFiniteSet(S)
  BY FS_Subset, ConstantsAssumption
<1>2. Cardinality(S) \in Nat
  BY <1>1, FS_CardinalityType
<1>3. t \notin S => Cardinality(S \cup {t}) = Cardinality(S) + 1
  BY <1>1, FS_AddElement
<1>4. t \in S => Cardinality(S \ {t}) = Cardinality(S) - 1
  BY <1>1, FS_RemoveElement
<1>5. Cardinality(S) = 0 <=> S = {}
  BY <1>1, FS_EmptySet
<1> QED
  BY <1>1, <1>2, <1>3, <1>4, <1>5

USE DEF threadVars, devVars, queueVars, controlVars, Goto

\* The actions a step can be, so that each proof splits Next in the same way.
LEMMA NextCases ==
    ASSUME Next
    PROVE  \/ \E t \in Thread :
                 \/ EnterStub(t) \/ IncThreads(t) \/ CheckIfRegistered(t)
                 \/ TakeToken(t) \/ AllocElem(t) \/ CacheOops(t) \/ Enqueue(t)
                 \/ PrepareToWait(t) \/ EvalCondition(t) \/ Schedule(t)
                 \/ TestWorking(t) \/ SetExited(t) \/ LeaveStub(t) \/ Signal(t)
           \/ FireTimer \/ UnqueueExited \/ UnqueueGrant \/ UnqueueDone
           \/ TimerWake \/ TimerRefill \/ TimerRearm \/ TimerFreeJunk
           \/ TurnOn \/ InitQueue \/ ArmTimer \/ SetWorking
           \/ TurnOff \/ ShutdownTimer \/ WakeUpQueue
           \/ DrainWait \/ DrainDone \/ DestroyQueue
BY DEF Next, StubStep, TimerStep, AdminStep

\* What is admitted and what may still be admitted on the current budget
\* stay within the quota, and unqueue() never grants more than the quota.
BudgetOK ==
    /\ spent + (IF current_epoch_tokens > 0 THEN current_epoch_tokens ELSE 0)
         <= Quota
    /\ tpc \in {"unqueue", "wake", "refill"}
         => /\ missing <= max_syscalls_for_epoch
            /\ IF max_syscalls_for_epoch >= 0
                 THEN missing >= 0
                 ELSE missing = max_syscalls_for_epoch

\* Where a thread's element is, by where the thread is: nowhere before the
\* allocation and after the last access, on no list until it is queued, and
\* then on a list with its exited flag clear.
Placement ==
    \A t \in Thread :
        /\ pc[t] \in {"user", "enter", "check", "token", "alloc", "leave"}
             => elem[t] = NoElem
        /\ pc[t] = "lock" => elem[t] # NoElem /\ ~exited[elem[t]]
        /\ t \in InHand => elem[t] \notin Queued \cup junk_list
        /\ pc[t] \in HasNode => /\ elem[t] \in Queued \cup junk_list
                                /\ ~exited[elem[t]]

\* Every step keeps the types.  Three steps need more than the types:
\* LeaveStub a positive counter to decrement, TimerRefill that the number of
\* granted callers is not negative, Enqueue an element to queue.
LEMMA TypeStep ==
    ASSUME TypeOK, CounterBalanced, BudgetOK, Placement, [Next]_vars
    PROVE  TypeOK'
<1> USE DEF Counted, Waiting, Outcome
<1>f. /\ ThreadTypes /\ DevTypes /\ QueueTypes /\ ControlTypes
      /\ UNCHANGED threadVars => ThreadTypes'
      /\ UNCHANGED devVars => DevTypes'
      /\ UNCHANGED queueVars => QueueTypes'
      /\ UNCHANGED controlVars => ControlTypes'
  BY DEF TypeOK, ThreadTypes, DevTypes, QueueTypes, ControlTypes
<1>1. ASSUME NEW t \in Thread, EnterStub(t) PROVE TypeOK'
  BY <1>1, <1>f DEF EnterStub, TypeOK, ThreadTypes
<1>2. ASSUME NEW t \in Thread, IncThreads(t) PROVE TypeOK'
  BY <1>2, <1>f DEF IncThreads, TypeOK, ThreadTypes, DevTypes
<1>3. ASSUME NEW t \in Thread, CheckIfRegistered(t) PROVE TypeOK'
  BY <1>3, <1>f DEF CheckIfRegistered, Decide, TypeOK, ThreadTypes
<1>4. ASSUME NEW t \in Thread, TakeToken(t) PROVE TypeOK'
  <2>1. DecTokens \in Int /\ current_epoch_tokens' = DecTokens
    BY <1>4, <1>f DEF TakeToken, DecTokens, TypeOK, ThreadTypes, DevTypes
  <2>2. pc' \in [Thread -> {"user", "enter"} \cup Counted]
    BY <1>4, <1>f DEF TakeToken, Decide, TypeOK, ThreadTypes, DevTypes
  <2>3. spent' \in Nat /\ ret' \in [Thread -> Outcome]
    BY <1>4, <1>f DEF TakeToken, Decide, TypeOK, ThreadTypes, DevTypes
  <2> QED
    BY <1>4, <1>f, <2>1, <2>2, <2>3 DEF TakeToken, TypeOK, ThreadTypes, DevTypes
<1>5. ASSUME NEW t \in Thread, AllocElem(t) PROVE TypeOK'
  <2>1. CASE Decide(t, "eagain") /\ UNCHANGED <<elem, live, exited, wake_up_flag>>
    BY <1>5, <1>f, <2>1 DEF AllocElem, Decide, TypeOK, ThreadTypes, QueueTypes
  <2>2. ASSUME NEW e \in Elem \ live,
               live' = live \cup {e},
               elem' = [elem EXCEPT ![t] = e],
               exited' = [exited EXCEPT ![e] = FALSE],
               wake_up_flag' = [wake_up_flag EXCEPT ![e] = "clear"],
               pc' = [pc EXCEPT ![t] = "lock"],
               UNCHANGED ret
        PROVE  TypeOK'
    BY <1>5, <1>f, <2>2 DEF AllocElem, TypeOK, ThreadTypes, QueueTypes
  <2> QED
    BY <1>5, <1>f, <2>1, <2>2 DEF AllocElem, TypeOK, ThreadTypes, QueueTypes
<1>6. ASSUME NEW t \in Thread, CacheOops(t) PROVE TypeOK'
  BY <1>6, <1>f DEF CacheOops, TypeOK, ThreadTypes
<1>7. ASSUME NEW t \in Thread, Enqueue(t) PROVE TypeOK'
  <2>1. elem[t] \in Elem
    BY <1>7, <1>f DEF Enqueue, Placement, TypeOK, ThreadTypes, QueueTypes
  <2>2. Append(global_queue, elem[t]) \in Seq(Elem) /\ current_in_queue + 1 \in Int
    BY <1>f, <2>1 DEF QueueTypes
  <2>3. pc' \in [Thread -> {"user", "enter"} \cup Counted]
    BY <1>7, <1>f DEF Enqueue, Decide, TypeOK, ThreadTypes, QueueTypes
  <2>4. ret' \in [Thread -> Outcome] /\ elem' \in [Thread -> Elem \cup {NoElem}]
    BY <1>7, <1>f DEF Enqueue, Decide, TypeOK, ThreadTypes, QueueTypes
  <2>5. live' \in SUBSET Elem
    BY <1>7, <1>f DEF Enqueue, Free, TypeOK, ThreadTypes, QueueTypes
  <2>7. exited' \in [Elem -> BOOLEAN]
    BY <1>7, <1>f, Zenon DEF Enqueue, Free, QueueTypes
  <2>6. wake_up_flag' \in [Elem -> {"clear", "granted", "off"}]
    BY <1>7, <1>f DEF Enqueue, Free, TypeOK, ThreadTypes, QueueTypes
  <2>8. ThreadTypes'
    BY <1>7, <1>f, <2>3, <2>4 DEF Enqueue, ThreadTypes
  <2>9. QueueTypes'
    BY <1>7, <1>f, <2>2, <2>5, <2>6, <2>7 DEF Enqueue, QueueTypes
  <2> QED
    BY <1>7, <1>f, <2>8, <2>9 DEF Enqueue, TypeOK
<1>8. ASSUME NEW t \in Thread, PrepareToWait(t) PROVE TypeOK'
  BY <1>8, <1>f, Zenon DEF PrepareToWait, TypeOK, ThreadTypes
<1>9. ASSUME NEW t \in Thread, EvalCondition(t) PROVE TypeOK'
  <2>1. armed' \in [Thread -> BOOLEAN]
    BY <1>9, <1>f, Zenon DEF EvalCondition, ThreadTypes
  <2>2. pc' \in [Thread -> {"user", "enter"} \cup Counted] /\ ret' \in [Thread -> Outcome]
    BY <1>9, <1>f DEF EvalCondition, ThreadTypes
  <2> QED
    BY <1>9, <1>f, <2>1, <2>2 DEF EvalCondition, TypeOK, ThreadTypes
<1>10. ASSUME NEW t \in Thread, Schedule(t) PROVE TypeOK'
  BY <1>10, <1>f DEF Schedule, TypeOK, ThreadTypes
<1>11. ASSUME NEW t \in Thread, TestWorking(t) PROVE TypeOK'
  BY <1>11, <1>f DEF TestWorking, Decide, TypeOK, ThreadTypes
<1>12. ASSUME NEW t \in Thread, SetExited(t) PROVE TypeOK'
  BY <1>12, <1>f DEF SetExited, TypeOK, ThreadTypes, QueueTypes
<1>13. ASSUME NEW t \in Thread, LeaveStub(t) PROVE TypeOK'
  <2>1. t \in Inside
    BY <1>13, <1>f DEF LeaveStub, Inside, TypeOK, ThreadTypes, DevTypes
  <2>2. threads_in_module > 0
    BY <2>1, InsideCount, Zenon DEF CounterBalanced, Inside
  <2> QED
    BY <1>13, <1>f, <2>2 DEF LeaveStub, TypeOK, ThreadTypes, DevTypes
<1>14. ASSUME NEW t \in Thread, Signal(t) PROVE TypeOK'
  BY <1>14, <1>f DEF Signal, TypeOK, ThreadTypes
<1>15. CASE FireTimer
  BY <1>15, <1>f, QuotaIsInt DEF FireTimer, TypeOK, ControlTypes
<1>16. CASE UnqueueExited
  BY <1>16, <1>f DEF UnqueueExited, MoveHeadToJunk, TypeOK, QueueTypes
<1>17. CASE UnqueueGrant
  BY <1>17, <1>f DEF UnqueueGrant, MoveHeadToJunk, TypeOK, QueueTypes, ControlTypes
<1>18. CASE UnqueueDone
  BY <1>18, <1>f, QuotaIsInt DEF UnqueueDone, Granted, TypeOK, QueueTypes, ControlTypes
<1>19. CASE TimerWake
  BY <1>19, <1>f DEF TimerWake, WakeAll, TypeOK, ThreadTypes, ControlTypes
<1>20. CASE TimerRefill
  <2>1. Granted \in Nat /\ NewBudget \in Int
    BY <1>20, <1>f, QuotaIsInt DEF TimerRefill, NewBudget, Granted, BudgetOK, TypeOK, DevTypes,
      ControlTypes
  <2> QED
    BY <1>20, <1>f, QuotaIsInt, <2>1 DEF TimerRefill, TypeOK, DevTypes, ControlTypes
<1>21. CASE TimerRearm
  BY <1>21, <1>f DEF TimerRearm, TypeOK, ControlTypes
<1>22. CASE TimerFreeJunk
  BY <1>22, <1>f DEF TimerFreeJunk, FreeJunk, Free, Freeable, TypeOK, QueueTypes, ControlTypes
<1>23. CASE TurnOn
  BY <1>23, <1>f DEF TurnOn, TypeOK, ControlTypes
<1>24. CASE InitQueue
  BY <1>24, <1>f DEF InitQueue, TypeOK, QueueTypes, ControlTypes
<1>25. CASE ArmTimer
  BY <1>25, <1>f DEF ArmTimer, TypeOK, ControlTypes
<1>26. CASE SetWorking
  BY <1>26, <1>f DEF SetWorking, TypeOK, DevTypes, ControlTypes
<1>27. CASE TurnOff
  BY <1>27, <1>f, Zenon DEF TurnOff, TypeOK, DevTypes, ControlTypes
<1>28. CASE ShutdownTimer
  BY <1>28, <1>f DEF ShutdownTimer, TypeOK, ControlTypes
<1>29. CASE WakeUpQueue
  BY <1>29, <1>f DEF WakeUpQueue, Queued, TypeOK, QueueTypes, ControlTypes
<1>30. CASE DrainWait
  BY <1>30, <1>f DEF DrainWait, WakeAll, TypeOK, ThreadTypes
<1>31. CASE DrainDone
  BY <1>31, <1>f DEF DrainDone, Drained, TypeOK, ControlTypes
<1>32. CASE DestroyQueue
  BY <1>32, <1>f DEF DestroyQueue, FreeJunk, Free, Freeable, TypeOK, QueueTypes, ControlTypes
<1>33. CASE UNCHANGED vars
  BY <1>33, <1>f DEF vars, TypeOK
<1> QED
  BY <1>1, <1>2, <1>3, <1>4, <1>5, <1>6, <1>7, <1>8, <1>9, <1>10, <1>11, <1>12, <1>13, <1>14,
    <1>15, <1>16, <1>17, <1>18, <1>19, <1>20, <1>21, <1>22, <1>23, <1>24, <1>25, <1>26, <1>27, <1>28, <1>29, <1>30, <1>31, <1>32, <1>33, NextCases, Zenon

-----------------------------------------------------------------------------
(* Elements *)

Elements(q) == {q[i] : i \in DOMAIN q}
Distinct(q) == \A i, j \in DOMAIN q : q[i] = q[j] => i = j

\* list_add_tail() of an element that is not on the list.
LEMMA AppendElements ==
    ASSUME NEW S, NEW q \in Seq(S), NEW e \in S
    PROVE  /\ Elements(Append(q, e)) = Elements(q) \cup {e}
           /\ Distinct(q) /\ e \notin Elements(q) => Distinct(Append(q, e))
<1> DEFINE r == Append(q, e)
<1>1. /\ DOMAIN q = 1..Len(q) /\ Len(q) \in Nat
      /\ DOMAIN r = 1..(Len(q) + 1)
      /\ \A i \in 1..Len(q) : r[i] = q[i]
      /\ r[Len(q) + 1] = e
  OBVIOUS
<1> HIDE DEF r
<1>2. Elements(r) = Elements(q) \cup {e}
  BY <1>1 DEF Elements
<1>3. Distinct(q) /\ e \notin Elements(q) => Distinct(r)
  BY <1>1 DEF Elements, Distinct
<1> QED
  BY <1>2, <1>3 DEF r

\* list_move_tail() of the first element.
LEMMA TailElements ==
    ASSUME NEW S, NEW q \in Seq(S), q # <<>>, Distinct(q)
    PROVE  /\ Head(q) \in S
           /\ Elements(q) = Elements(Tail(q)) \cup {Head(q)}
           /\ Head(q) \notin Elements(Tail(q))
           /\ Distinct(Tail(q))
<1> DEFINE r == Tail(q)
           h == Head(q)
<1>1. /\ DOMAIN q = 1..Len(q) /\ Len(q) \in Nat /\ Len(q) > 0
      /\ DOMAIN r = 1..(Len(q) - 1)
      /\ \A i \in 1..(Len(q) - 1) : r[i] = q[i + 1]
      /\ h = q[1]
      /\ h \in S
  OBVIOUS
<1> HIDE DEF r, h
<1>2. ASSUME NEW i \in DOMAIN q, i # 1
      PROVE  i - 1 \in DOMAIN r /\ q[i] = r[i - 1]
  <2>1. i - 1 \in 1..(Len(q) - 1) /\ (i - 1) + 1 = i
    BY <1>1, <1>2
  <2>2. r[i - 1] = q[(i - 1) + 1]
    BY <1>1, <2>1
  <2>3. i - 1 \in DOMAIN r
    BY <1>1, <2>1
  <2> QED
    BY <2>1, <2>2, <2>3
<1>3. \A i \in DOMAIN r : i + 1 \in DOMAIN q /\ r[i] = q[i + 1] /\ i + 1 # 1
  BY <1>1
<1>4. 1 \in DOMAIN q
  BY <1>1
<1>5. Elements(q) = Elements(r) \cup {h}
  <2>1. ASSUME NEW x \in Elements(q) PROVE x \in Elements(r) \cup {h}
    BY <1>1, <1>2 DEF Elements
  <2>2. ASSUME NEW x \in Elements(r) PROVE x \in Elements(q)
    BY <1>3 DEF Elements
  <2>3. h \in Elements(q)
    BY <1>1, <1>4 DEF Elements
  <2> QED
    BY <2>1, <2>2, <2>3
<1>6. h \notin Elements(r)
  BY <1>1, <1>3, <1>4 DEF Elements, Distinct
<1>7. Distinct(r)
  <2> SUFFICES ASSUME NEW i \in DOMAIN r, NEW j \in DOMAIN r, r[i] = r[j]
               PROVE  i = j
    BY DEF Distinct
  <2>1. i + 1 = j + 1
    BY <1>3 DEF Distinct
  <2> QED
    BY <2>1, <1>1
<1> QED
  BY <1>1, <1>5, <1>6, <1>7 DEF r, h

-----------------------------------------------------------------------------
(* The thread counter *)

\* Every step keeps threads_in_module equal to the number of threads inside.
LEMMA CounterStep ==
    ASSUME TypeOK, CounterBalanced, [Next]_vars
    PROVE  CounterBalanced'
<1> DEFINE Same == Inside' = Inside /\ threads_in_module' = threads_in_module
<1> USE DEF TypeOK, ThreadTypes, DevTypes, Counted, Waiting
<1>a. ASSUME Same PROVE CounterBalanced'
  BY <1>a, Zenon DEF CounterBalanced, Inside
<1>1. ASSUME NEW t \in Thread, EnterStub(t) PROVE CounterBalanced'
  BY <1>1, <1>a DEF EnterStub, Inside
<1>2. ASSUME NEW t \in Thread, IncThreads(t) PROVE CounterBalanced'
  <2>1. t \notin Inside /\ Inside' = Inside \cup {t}
    BY <1>2 DEF IncThreads, Inside
  <2>2. Cardinality(Inside \cup {t}) = Cardinality(Inside) + 1
    BY <2>1, InsideCount DEF Inside
  <2> QED
    BY <1>2, <2>1, <2>2, Zenon DEF IncThreads, CounterBalanced, Inside
<1>3. ASSUME NEW t \in Thread, CheckIfRegistered(t) PROVE CounterBalanced'
  BY <1>3, <1>a DEF CheckIfRegistered, Decide, Inside
<1>4. ASSUME NEW t \in Thread, TakeToken(t) PROVE CounterBalanced'
  BY <1>4, <1>a DEF TakeToken, Decide, Inside
<1>5. ASSUME NEW t \in Thread, AllocElem(t) PROVE CounterBalanced'
  BY <1>5, <1>a DEF AllocElem, Decide, Inside
<1>6. ASSUME NEW t \in Thread, CacheOops(t) PROVE CounterBalanced'
  BY <1>6, <1>a DEF CacheOops, Inside
<1>7. ASSUME NEW t \in Thread, Enqueue(t) PROVE CounterBalanced'
  BY <1>7, <1>a DEF Enqueue, Decide, Inside
<1>8. ASSUME NEW t \in Thread, PrepareToWait(t) PROVE CounterBalanced'
  BY <1>8, <1>a DEF PrepareToWait, Inside
<1>9. ASSUME NEW t \in Thread, EvalCondition(t) PROVE CounterBalanced'
  BY <1>9, <1>a DEF EvalCondition, Inside
<1>10. ASSUME NEW t \in Thread, Schedule(t) PROVE CounterBalanced'
  BY <1>10, <1>a DEF Schedule, Inside
<1>11. ASSUME NEW t \in Thread, TestWorking(t) PROVE CounterBalanced'
  BY <1>11, <1>a DEF TestWorking, Decide, Inside
<1>12. ASSUME NEW t \in Thread, SetExited(t) PROVE CounterBalanced'
  BY <1>12, <1>a DEF SetExited, Inside
<1>13. ASSUME NEW t \in Thread, LeaveStub(t) PROVE CounterBalanced'
  <2>1. t \in Inside /\ Inside' = Inside \ {t}
    BY <1>13 DEF LeaveStub, Inside
  <2>2. Cardinality(Inside \ {t}) = Cardinality(Inside) - 1
    BY <2>1, InsideCount DEF Inside
  <2> QED
    BY <1>13, <2>1, <2>2, Zenon DEF LeaveStub, CounterBalanced, Inside
<1>14. ASSUME NEW t \in Thread, Signal(t) PROVE CounterBalanced'
  BY <1>14, <1>a DEF Signal, Inside
<1>15. CASE FireTimer
  BY <1>15, <1>a DEF FireTimer, Inside
<1>16. CASE UnqueueExited
  BY <1>16, <1>a DEF UnqueueExited, Inside
<1>17. CASE UnqueueGrant
  BY <1>17, <1>a DEF UnqueueGrant, Inside
<1>18. CASE UnqueueDone
  BY <1>18, <1>a DEF UnqueueDone, Inside
<1>19. CASE TimerWake
  BY <1>19, <1>a DEF TimerWake, Inside
<1>20. CASE TimerRefill
  BY <1>20, <1>a DEF TimerRefill, Inside
<1>21. CASE TimerRearm
  BY <1>21, <1>a DEF TimerRearm, Inside
<1>22. CASE TimerFreeJunk
  BY <1>22, <1>a DEF TimerFreeJunk, Inside
<1>23. CASE TurnOn
  BY <1>23, <1>a DEF TurnOn, Inside
<1>24. CASE InitQueue
  BY <1>24, <1>a DEF InitQueue, Inside
<1>25. CASE ArmTimer
  BY <1>25, <1>a DEF ArmTimer, Inside
<1>26. CASE SetWorking
  BY <1>26, <1>a DEF SetWorking, Inside
<1>27. CASE TurnOff
  BY <1>27, <1>a DEF TurnOff, Inside
<1>28. CASE ShutdownTimer
  BY <1>28, <1>a DEF ShutdownTimer, Inside
<1>29. CASE WakeUpQueue
  BY <1>29, <1>a DEF WakeUpQueue, Inside
<1>30. CASE DrainWait
  BY <1>30, <1>a DEF DrainWait, Inside
<1>31. CASE DrainDone
  BY <1>31, <1>a DEF DrainDone, Inside
<1>32. CASE DestroyQueue
  BY <1>32, <1>a DEF DestroyQueue, Inside
<1>33. CASE UNCHANGED vars
  BY <1>33, <1>a DEF vars, Inside
<1> QED
  BY <1>1, <1>2, <1>3, <1>4, <1>5, <1>6, <1>7, <1>8, <1>9, <1>10, <1>11,
     <1>12, <1>13, <1>14, <1>15, <1>16, <1>17, <1>18, <1>19, <1>20, <1>21,
     <1>22, <1>23, <1>24, <1>25, <1>26, <1>27, <1>28, <1>29, <1>30, <1>31,
     <1>32, <1>33, NextCases, Zenon

-----------------------------------------------------------------------------
(* Administrator and timer *)

\* Where the administrator is fixes working and what the timer can be doing:
\* from timer_shutdown_sync() until the next mod_timer() there is no timer
\* and no callback, and the queue stays empty once wake_up_queue() emptied it.
Phases ==
    /\ apc # "idle" => ~working
    /\ ~working /\ apc \notin {"off_timer", "on_set"}
         => tpc = "idle" /\ timer = "inactive"
    /\ apc = "off_drain" => global_queue = <<>>
    /\ PromptTurnOn => /\ apc = "on_set" => tpc = "idle" /\ timer = "pending"
                       /\ working /\ tpc \in {"idle", "free"} => timer = "pending"

\* Every step keeps the administrator and the timer in phase.  The queue
\* can only grow while working is set.
LEMMA PhasesStep ==
    ASSUME TypeOK, Phases, [Next]_vars
    PROVE  Phases'
<1> USE DEF TypeOK, DevTypes, ControlTypes, Phases
<1>1. ASSUME NEW t \in Thread, EnterStub(t) PROVE Phases'
  BY <1>1 DEF EnterStub
<1>2. ASSUME NEW t \in Thread, IncThreads(t) PROVE Phases'
  BY <1>2 DEF IncThreads
<1>3. ASSUME NEW t \in Thread, CheckIfRegistered(t) PROVE Phases'
  BY <1>3 DEF CheckIfRegistered
<1>4. ASSUME NEW t \in Thread, TakeToken(t) PROVE Phases'
  BY <1>4 DEF TakeToken
<1>5. ASSUME NEW t \in Thread, AllocElem(t) PROVE Phases'
  BY <1>5 DEF AllocElem
<1>6. ASSUME NEW t \in Thread, CacheOops(t) PROVE Phases'
  BY <1>6 DEF CacheOops
<1>7. ASSUME NEW t \in Thread, Enqueue(t) PROVE Phases'
  BY <1>7 DEF Enqueue, MayEnqueue
<1>8. ASSUME NEW t \in Thread, PrepareToWait(t) PROVE Phases'
  BY <1>8 DEF PrepareToWait
<1>9. ASSUME NEW t \in Thread, EvalCondition(t) PROVE Phases'
  BY <1>9 DEF EvalCondition
<1>10. ASSUME NEW t \in Thread, Schedule(t) PROVE Phases'
  BY <1>10 DEF Schedule
<1>11. ASSUME NEW t \in Thread, TestWorking(t) PROVE Phases'
  BY <1>11 DEF TestWorking
<1>12. ASSUME NEW t \in Thread, SetExited(t) PROVE Phases'
  BY <1>12 DEF SetExited
<1>13. ASSUME NEW t \in Thread, LeaveStub(t) PROVE Phases'
  BY <1>13 DEF LeaveStub
<1>14. ASSUME NEW t \in Thread, Signal(t) PROVE Phases'
  BY <1>14 DEF Signal
<1>15. CASE FireTimer
  BY <1>15 DEF FireTimer
<1>16. CASE UnqueueExited
  BY <1>16 DEF UnqueueExited, MoveHeadToJunk
<1>17. CASE UnqueueGrant
  BY <1>17 DEF UnqueueGrant, MoveHeadToJunk
<1>18. CASE UnqueueDone
  BY <1>18 DEF UnqueueDone
<1>19. CASE TimerWake
  BY <1>19 DEF TimerWake
<1>20. CASE TimerRefill
  BY <1>20 DEF TimerRefill
<1>21. CASE TimerRearm
  BY <1>21 DEF TimerRearm
<1>22. CASE TimerFreeJunk
  BY <1>22 DEF TimerFreeJunk
<1>23. CASE TurnOn
  BY <1>23 DEF TurnOn
<1>24. CASE InitQueue
  BY <1>24 DEF InitQueue
<1>25. CASE ArmTimer
  BY <1>25 DEF ArmTimer
<1>26. CASE SetWorking
  BY <1>26 DEF SetWorking
<1>27. CASE TurnOff
  BY <1>27 DEF TurnOff
<1>28. CASE ShutdownTimer
  BY <1>28 DEF ShutdownTimer
<1>29. CASE WakeUpQueue
  BY <1>29 DEF WakeUpQueue
<1>30. CASE DrainWait
  BY <1>30 DEF DrainWait
<1>31. CASE DrainDone
  BY <1>31 DEF DrainDone
<1>32. CASE DestroyQueue
  BY <1>32 DEF DestroyQueue
<1>33. CASE UNCHANGED vars
  BY <1>33 DEF vars
<1> QED
  BY <1>1, <1>2, <1>3, <1>4, <1>5, <1>6, <1>7, <1>8, <1>9, <1>10, <1>11,
     <1>12, <1>13, <1>14, <1>15, <1>16, <1>17, <1>18, <1>19, <1>20, <1>21,
     <1>22, <1>23, <1>24, <1>25, <1>26, <1>27, <1>28, <1>29, <1>30, <1>31,
     <1>32, <1>33, NextCases, Zenon

\* The quota is kept by every step: a token taken moves one unit from what
\* may still be admitted to what was admitted, a refill splits the quota
\* between the granted callers and the new tokens.
LEMMA BudgetStep ==
    ASSUME TypeOK, BudgetOK, [Next]_vars
    PROVE  BudgetOK'
<1> USE QuotaIsInt DEF TypeOK, DevTypes, ControlTypes, BudgetOK, Quota
<1>1. ASSUME NEW t \in Thread, EnterStub(t) PROVE BudgetOK'
  BY <1>1 DEF EnterStub
<1>2. ASSUME NEW t \in Thread, IncThreads(t) PROVE BudgetOK'
  BY <1>2 DEF IncThreads
<1>3. ASSUME NEW t \in Thread, CheckIfRegistered(t) PROVE BudgetOK'
  BY <1>3 DEF CheckIfRegistered
<1>4. ASSUME NEW t \in Thread, TakeToken(t) PROVE BudgetOK'
  BY <1>4 DEF TakeToken, DecTokens
<1>5. ASSUME NEW t \in Thread, AllocElem(t) PROVE BudgetOK'
  BY <1>5 DEF AllocElem
<1>6. ASSUME NEW t \in Thread, CacheOops(t) PROVE BudgetOK'
  BY <1>6 DEF CacheOops
<1>7. ASSUME NEW t \in Thread, Enqueue(t) PROVE BudgetOK'
  BY <1>7 DEF Enqueue
<1>8. ASSUME NEW t \in Thread, PrepareToWait(t) PROVE BudgetOK'
  BY <1>8 DEF PrepareToWait
<1>9. ASSUME NEW t \in Thread, EvalCondition(t) PROVE BudgetOK'
  BY <1>9 DEF EvalCondition
<1>10. ASSUME NEW t \in Thread, Schedule(t) PROVE BudgetOK'
  BY <1>10 DEF Schedule
<1>11. ASSUME NEW t \in Thread, TestWorking(t) PROVE BudgetOK'
  BY <1>11 DEF TestWorking
<1>12. ASSUME NEW t \in Thread, SetExited(t) PROVE BudgetOK'
  BY <1>12 DEF SetExited
<1>13. ASSUME NEW t \in Thread, LeaveStub(t) PROVE BudgetOK'
  BY <1>13 DEF LeaveStub
<1>14. ASSUME NEW t \in Thread, Signal(t) PROVE BudgetOK'
  BY <1>14 DEF Signal
<1>15. CASE FireTimer
  BY <1>15 DEF FireTimer
<1>16. CASE UnqueueExited
  BY <1>16 DEF UnqueueExited
<1>17. CASE UnqueueGrant
  BY <1>17 DEF UnqueueGrant
<1>18. CASE UnqueueDone
  BY <1>18 DEF UnqueueDone
<1>19. CASE TimerWake
  BY <1>19 DEF TimerWake
<1>20. CASE TimerRefill
  BY <1>20 DEF TimerRefill, NewBudget, Granted
<1>21. CASE TimerRearm
  BY <1>21 DEF TimerRearm
<1>22. CASE TimerFreeJunk
  BY <1>22 DEF TimerFreeJunk
<1>23. CASE TurnOn
  BY <1>23 DEF TurnOn
<1>24. CASE InitQueue
  BY <1>24 DEF InitQueue
<1>25. CASE ArmTimer
  BY <1>25 DEF ArmTimer
<1>26. CASE SetWorking
  BY <1>26 DEF SetWorking
<1>27. CASE TurnOff
  BY <1>27 DEF TurnOff
<1>28. CASE ShutdownTimer
  BY <1>28 DEF ShutdownTimer
<1>29. CASE WakeUpQueue
  BY <1>29 DEF WakeUpQueue
<1>30. CASE DrainWait
  BY <1>30 DEF DrainWait
<1>31. CASE DrainDone
  BY <1>31 DEF DrainDone
<1>32. CASE DestroyQueue
  BY <1>32 DEF DestroyQueue
<1>33. CASE UNCHANGED vars
  BY <1>33 DEF vars
<1> QED
  BY <1>1, <1>2, <1>3, <1>4, <1>5, <1>6, <1>7, <1>8, <1>9, <1>10, <1>11,
     <1>12, <1>13, <1>14, <1>15, <1>16, <1>17, <1>18, <1>19, <1>20, <1>21,
     <1>22, <1>23, <1>24, <1>25, <1>26, <1>27, <1>28, <1>29, <1>30, <1>31,
     <1>32, <1>33, NextCases, Zenon

\* The length the code keeps stays the length of the list.
LEMMA QueueCountStep ==
    ASSUME TypeOK, Placement, Phases, QueueCount, [Next]_vars
    PROVE  QueueCount'
<1> USE QuotaIsInt DEF TypeOK, QueueTypes, ControlTypes, QueueCount, Granted
<1>1. ASSUME NEW t \in Thread, EnterStub(t) PROVE QueueCount'
  BY <1>1 DEF EnterStub
<1>2. ASSUME NEW t \in Thread, IncThreads(t) PROVE QueueCount'
  BY <1>2 DEF IncThreads
<1>3. ASSUME NEW t \in Thread, CheckIfRegistered(t) PROVE QueueCount'
  BY <1>3 DEF CheckIfRegistered
<1>4. ASSUME NEW t \in Thread, TakeToken(t) PROVE QueueCount'
  BY <1>4 DEF TakeToken
<1>5. ASSUME NEW t \in Thread, AllocElem(t) PROVE QueueCount'
  BY <1>5 DEF AllocElem
<1>6. ASSUME NEW t \in Thread, CacheOops(t) PROVE QueueCount'
  BY <1>6 DEF CacheOops
<1>7. ASSUME NEW t \in Thread, Enqueue(t) PROVE QueueCount'
  <2>1. elem[t] \in Elem /\ tpc # "unqueue"
    BY <1>7 DEF Enqueue, Placement, QueueLocked, ThreadTypes
  <2>2. Len(Append(global_queue, elem[t])) = Len(global_queue) + 1
    BY <2>1
  <2> QED
    BY <1>7, <2>1, <2>2 DEF Enqueue
<1>8. ASSUME NEW t \in Thread, PrepareToWait(t) PROVE QueueCount'
  BY <1>8 DEF PrepareToWait
<1>9. ASSUME NEW t \in Thread, EvalCondition(t) PROVE QueueCount'
  BY <1>9 DEF EvalCondition
<1>10. ASSUME NEW t \in Thread, Schedule(t) PROVE QueueCount'
  BY <1>10 DEF Schedule
<1>11. ASSUME NEW t \in Thread, TestWorking(t) PROVE QueueCount'
  BY <1>11 DEF TestWorking
<1>12. ASSUME NEW t \in Thread, SetExited(t) PROVE QueueCount'
  BY <1>12 DEF SetExited
<1>13. ASSUME NEW t \in Thread, LeaveStub(t) PROVE QueueCount'
  BY <1>13 DEF LeaveStub
<1>14. ASSUME NEW t \in Thread, Signal(t) PROVE QueueCount'
  BY <1>14 DEF Signal
<1>15. CASE FireTimer
  BY <1>15 DEF FireTimer
<1>16. CASE UnqueueExited
  BY <1>16 DEF UnqueueExited, MoveHeadToJunk
<1>17. CASE UnqueueGrant
  BY <1>17 DEF UnqueueGrant, MoveHeadToJunk
<1>18. CASE UnqueueDone
  BY <1>18 DEF UnqueueDone
<1>19. CASE TimerWake
  BY <1>19 DEF TimerWake
<1>20. CASE TimerRefill
  BY <1>20 DEF TimerRefill
<1>21. CASE TimerRearm
  BY <1>21 DEF TimerRearm
<1>22. CASE TimerFreeJunk
  BY <1>22 DEF TimerFreeJunk
<1>23. CASE TurnOn
  BY <1>23 DEF TurnOn
<1>24. CASE InitQueue
  BY <1>24 DEF InitQueue
<1>25. CASE ArmTimer
  BY <1>25 DEF ArmTimer
<1>26. CASE SetWorking
  BY <1>26 DEF SetWorking
<1>27. CASE TurnOff
  BY <1>27 DEF TurnOff
<1>28. CASE ShutdownTimer
  BY <1>28 DEF ShutdownTimer
<1>29. CASE WakeUpQueue
  BY <1>29 DEF WakeUpQueue, Phases
<1>30. CASE DrainWait
  BY <1>30 DEF DrainWait
<1>31. CASE DrainDone
  BY <1>31 DEF DrainDone
<1>32. CASE DestroyQueue
  BY <1>32 DEF DestroyQueue
<1>33. CASE UNCHANGED vars
  BY <1>33 DEF vars
<1> QED
  BY <1>1, <1>2, <1>3, <1>4, <1>5, <1>6, <1>7, <1>8, <1>9, <1>10, <1>11,
     <1>12, <1>13, <1>14, <1>15, <1>16, <1>17, <1>18, <1>19, <1>20, <1>21,
     <1>22, <1>23, <1>24, <1>25, <1>26, <1>27, <1>28, <1>29, <1>30, <1>31,
     <1>32, <1>33, NextCases, Zenon

\* Once drained, nobody is blocked until the monitor is on again: the drain
\* loop ends with no thread inside, and add_to_queue() tests working again.
LEMMA DrainedStep ==
    ASSUME TypeOK, CounterBalanced, Phases, DrainedWhenOff, [Next]_vars
    PROVE  DrainedWhenOff'
<1> USE DEF TypeOK, ThreadTypes, DrainedWhenOff, HasNode, Waiting
<1>1. ASSUME NEW t \in Thread, EnterStub(t) PROVE DrainedWhenOff'
  BY <1>1 DEF EnterStub
<1>2. ASSUME NEW t \in Thread, IncThreads(t) PROVE DrainedWhenOff'
  BY <1>2 DEF IncThreads
<1>3. ASSUME NEW t \in Thread, CheckIfRegistered(t) PROVE DrainedWhenOff'
  BY <1>3 DEF CheckIfRegistered, Decide
<1>4. ASSUME NEW t \in Thread, TakeToken(t) PROVE DrainedWhenOff'
  BY <1>4 DEF TakeToken, Decide
<1>5. ASSUME NEW t \in Thread, AllocElem(t) PROVE DrainedWhenOff'
  BY <1>5 DEF AllocElem, Decide
<1>6. ASSUME NEW t \in Thread, CacheOops(t) PROVE DrainedWhenOff'
  BY <1>6 DEF CacheOops
<1>7. ASSUME NEW t \in Thread, Enqueue(t) PROVE DrainedWhenOff'
  BY <1>7 DEF Enqueue, Decide, MayEnqueue
<1>8. ASSUME NEW t \in Thread, PrepareToWait(t) PROVE DrainedWhenOff'
  BY <1>8 DEF PrepareToWait
<1>9. ASSUME NEW t \in Thread, EvalCondition(t) PROVE DrainedWhenOff'
  BY <1>9 DEF EvalCondition
<1>10. ASSUME NEW t \in Thread, Schedule(t) PROVE DrainedWhenOff'
  BY <1>10 DEF Schedule
<1>11. ASSUME NEW t \in Thread, TestWorking(t) PROVE DrainedWhenOff'
  BY <1>11 DEF TestWorking, Decide
<1>12. ASSUME NEW t \in Thread, SetExited(t) PROVE DrainedWhenOff'
  BY <1>12 DEF SetExited
<1>13. ASSUME NEW t \in Thread, LeaveStub(t) PROVE DrainedWhenOff'
  BY <1>13 DEF LeaveStub
<1>14. ASSUME NEW t \in Thread, Signal(t) PROVE DrainedWhenOff'
  BY <1>14 DEF Signal
<1>15. CASE FireTimer
  BY <1>15 DEF FireTimer
<1>16. CASE UnqueueExited
  BY <1>16 DEF UnqueueExited, MoveHeadToJunk
<1>17. CASE UnqueueGrant
  BY <1>17 DEF UnqueueGrant, MoveHeadToJunk
<1>18. CASE UnqueueDone
  BY <1>18 DEF UnqueueDone
<1>19. CASE TimerWake
  BY <1>19 DEF TimerWake
<1>20. CASE TimerRefill
  BY <1>20 DEF TimerRefill
<1>21. CASE TimerRearm
  BY <1>21 DEF TimerRearm
<1>22. CASE TimerFreeJunk
  BY <1>22 DEF TimerFreeJunk
<1>23. CASE TurnOn
  BY <1>23 DEF TurnOn
<1>24. CASE InitQueue
  BY <1>24 DEF InitQueue
<1>25. CASE ArmTimer
  BY <1>25 DEF ArmTimer
<1>26. CASE SetWorking
  BY <1>26 DEF SetWorking
<1>27. CASE TurnOff
  BY <1>27 DEF TurnOff, Phases
<1>28. CASE ShutdownTimer
  BY <1>28 DEF ShutdownTimer
<1>29. CASE WakeUpQueue
  BY <1>29 DEF WakeUpQueue, Phases
<1>30. CASE DrainWait
  BY <1>30 DEF DrainWait
<1>31. CASE DrainDone
  <2>1. Cardinality(Inside) = 0
    BY <1>31 DEF DrainDone, Drained, CounterBalanced, Inside, DevTypes
  <2>2. Inside = {}
    <3>1. IsFiniteSet(Inside)
      BY FS_Subset, ConstantsAssumption DEF Inside
    <3> QED
      BY <2>1, <3>1, FS_EmptySet
  <2>3. \A t \in Thread : pc[t] \notin HasNode
    BY <2>2 DEF Inside, Counted
  <2> QED
    BY <1>31, <2>3 DEF DrainDone, Phases
<1>32. CASE DestroyQueue
  BY <1>32 DEF DestroyQueue
<1>33. CASE UNCHANGED vars
  BY <1>33 DEF vars
<1> QED
  BY <1>1, <1>2, <1>3, <1>4, <1>5, <1>6, <1>7, <1>8, <1>9, <1>10, <1>11,
     <1>12, <1>13, <1>14, <1>15, <1>16, <1>17, <1>18, <1>19, <1>20, <1>21,
     <1>22, <1>23, <1>24, <1>25, <1>26, <1>27, <1>28, <1>29, <1>30, <1>31,
     <1>32, <1>33, NextCases, Zenon
=============================================================================
