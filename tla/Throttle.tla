------------------------------ MODULE Throttle ------------------------------
(***************************************************************************)
(* The monitor of the module: stub(), which every hooked syscall runs      *)
(* first (sysThrot.c), the queue of blocked callers (sysThrot_queue.c),    *)
(* the epoch timer and the operations that turn throttling on and off.     *)
(*                                                                         *)
(* Three kinds of actors interleave: the threads that issue hooked         *)
(* syscalls, the timer callback (softirq), and one administrator.  A step  *)
(* is one access to shared state; code under queue_lock or junk_lock is    *)
(* one step, except the loop of unqueue(), which reads exited flags that   *)
(* are written without a lock and takes one step per list element.         *)
(*                                                                         *)
(* Left to other modules: who is registered (any answer of                 *)
(* check_if_registered() is possible here) and the statistics, which no    *)
(* step of this module reads.  The epoch counter is written by the         *)
(* callback only and read nowhere, and is left out.                        *)
(***************************************************************************)
EXTENDS Integers, Sequences, FiniteSets

CONSTANTS
    Thread,             \* threads that issue hooked syscalls
    Elem,               \* slab objects the queue cache can hand out
    NoElem,             \* a pointer to no element
    max_calls_monitor,  \* module parameter, an unsigned long
    IntMax,             \* largest int: 2^31 - 1 in the code
    PromptTurnOn,       \* TRUE: sysThrot_turn_on() never takes a whole epoch
    CacheFaults         \* TRUE: kmem_cache_create() may fail, and the use of
                        \* a cache that does not exist may kill the thread

ASSUME ConstantsAssumption ==
    /\ IsFiniteSet(Thread)
    /\ NoElem \notin Elem
    /\ max_calls_monitor \in Nat
    /\ IntMax \in Nat
    /\ PromptTurnOn \in BOOLEAN
    /\ CacheFaults \in BOOLEAN

\* sysThrot_dev.max_syscalls_for_epoch: the parameter stored into an int.
max_syscalls_for_epoch ==
    LET range == 2 * (IntMax + 1)
        low   == max_calls_monitor % range
    IN  IF low > IntMax THEN low - range ELSE low

VARIABLES
    pc,         \* where each thread is in stub()
    ret,        \* what stub() has decided for the call: see Outcome
    elem,       \* the queue element stub() holds a pointer into
    armed,      \* the thread is on wait_q in state TASK_INTERRUPTIBLE
    sig         \* the thread has a signal pending
threadVars == <<pc, ret, elem, armed, sig>>

VARIABLES
    working,                \* sysThrot_dev.working
    threads_in_module,      \* critical.threads_in_module
    current_epoch_tokens,   \* critical.current_epoch_tokens
    spent                   \* history: calls admitted on the current budget
devVars == <<working, threads_in_module, current_epoch_tokens, spent>>

VARIABLES
    global_queue,       \* the FIFO of blocked callers, oldest first
    current_in_queue,   \* its length as the code counts it
    junk_list,          \* elements taken off the queue and not yet freed
    wake_up_flag,       \* "clear" is 0; both others are 1, and say who set it
    exited,             \* the owner no longer uses the element
    live,               \* slab objects allocated and not freed
    queue_cache         \* "null", "live", or "destroyed" (dangling pointer)
queueVars == <<global_queue, current_in_queue, junk_list, wake_up_flag,
               exited, live, queue_cache>>

VARIABLES
    timer,      \* "pending" or "inactive"
    tpc,        \* where timer_callback() is
    missing,    \* local of unqueue(): tokens not yet granted
    apc         \* where the administrator is in turn_on() or turn_off()
controlVars == <<timer, tpc, missing, apc>>

vars == <<threadVars, devVars, queueVars, controlVars>>

(***************************************************************************)
(* What becomes of a call.  stub() returns -EAGAIN for "eagain" and 0      *)
(* otherwise: "pass" was not subject to throttling, "token" took a token   *)
(* of the epoch, "granted" was blocked and then woken by the timer, "off"  *)
(* was blocked and found the monitor turned off when it woke.              *)
(***************************************************************************)
Outcome == {"none", "pass", "token", "granted", "off", "eagain"}

Waiting == {"prepare", "eval", "evalSig", "sleep"}
Counted == {"check", "token", "alloc", "lock", "awake", "mark", "leave",
            "dead"} \cup Waiting

QueueLocked == tpc = "unqueue"

Init ==
    /\ pc = [t \in Thread |-> "user"]
    /\ ret = [t \in Thread |-> "none"]
    /\ elem = [t \in Thread |-> NoElem]
    /\ armed = [t \in Thread |-> FALSE]
    /\ sig = [t \in Thread |-> FALSE]
    /\ working = FALSE
    /\ threads_in_module = 0
    /\ current_epoch_tokens = 0
    /\ spent = 0
    /\ global_queue = <<>>
    /\ current_in_queue = 0
    /\ junk_list = {}
    /\ wake_up_flag = [e \in Elem |-> "clear"]
    /\ exited = [e \in Elem |-> FALSE]
    /\ live = {}
    /\ queue_cache = "null"
    /\ timer = "inactive"
    /\ tpc = "idle"
    /\ missing = 0
    /\ apc = "on_init"      \* sysThrot_init() calls sysThrot_turn_on()

-----------------------------------------------------------------------------
(* stub() *)

Goto(t, l) == pc' = [pc EXCEPT ![t] = l]

\* The decision is taken; only the decrement of threads_in_module is left.
Decide(t, r) ==
    /\ Goto(t, "leave")
    /\ ret' = [ret EXCEPT ![t] = r]

\* The first test of stub().  With the monitor off it returns 0 at once and
\* changes nothing.
EnterStub(t) ==
    /\ pc[t] = "user"
    /\ working
    /\ Goto(t, "enter")
    /\ UNCHANGED <<ret, elem, armed, sig, devVars, queueVars, controlVars>>

\* Fault: the increment is missing.
Faulty_IncThreads(t) ==
    /\ pc[t] = "enter"
    /\ Goto(t, "check")
    /\ UNCHANGED <<ret, elem, armed, sig, devVars, queueVars, controlVars>>

IncThreads(t) ==
    /\ pc[t] = "enter"
    /\ threads_in_module' = threads_in_module + 1
    /\ Goto(t, "check")
    /\ UNCHANGED <<ret, elem, armed, sig, working, current_epoch_tokens, spent,
                   queueVars, controlVars>>

CheckIfRegistered(t) ==
    /\ pc[t] = "check"
    /\ \/ Goto(t, "token") /\ UNCHANGED ret
       \/ Decide(t, "pass")
    /\ UNCHANGED <<elem, armed, sig, devVars, queueVars, controlVars>>

\* atomic_dec_return().  The counter is only decremented or overwritten, and
\* only its sign is tested, so all its negative values are one.
DecTokens ==
    IF current_epoch_tokens >= 0 THEN current_epoch_tokens - 1
                                 ELSE current_epoch_tokens

TakeToken(t) ==
    /\ pc[t] = "token"
    /\ current_epoch_tokens' = DecTokens
    /\ \/ /\ DecTokens >= 0
          /\ spent' = spent + 1
          /\ Decide(t, "token")
       \/ /\ DecTokens < 0
          /\ Goto(t, "alloc")
          /\ UNCHANGED <<spent, ret>>
    /\ UNCHANGED <<elem, armed, sig, working, threads_in_module,
                   queueVars, controlVars>>

\* First half of add_to_queue(): the allocation, which may fail at any time.
AllocElem(t) ==
    /\ pc[t] = "alloc"
    /\ queue_cache # "null"
    /\ \/ /\ Decide(t, "eagain")
          /\ UNCHANGED <<elem, live, exited, wake_up_flag>>
       \/ \E e \in Elem \ live :
             /\ live' = live \cup {e}
             /\ elem' = [elem EXCEPT ![t] = e]
             /\ exited' = [exited EXCEPT ![e] = FALSE]
             /\ wake_up_flag' = [wake_up_flag EXCEPT ![e] = "clear"]
             /\ Goto(t, "lock")
             /\ UNCHANGED ret
    /\ UNCHANGED <<armed, sig, devVars, global_queue, current_in_queue,
                   junk_list, queue_cache, controlVars>>

\* kmem_cache_alloc() or kmem_cache_free() on a cache that does not exist:
\* besides the ordinary outcomes the thread may be killed by an oops, with
\* threads_in_module never decremented.
CacheOops(t) ==
    /\ CacheFaults
    /\ queue_cache # "live"
    /\ pc[t] = "alloc" \/ (pc[t] = "lock" /\ ~QueueLocked /\ ~working)
    /\ Goto(t, "dead")
    /\ UNCHANGED <<ret, elem, armed, sig, devVars, queueVars, controlVars>>

\* kmem_cache_free().  The content of a free object is undefined and is
\* initialised by the next allocation; one fixed value stands for it.
Free(S) ==
    /\ live' = live \ S
    /\ exited' = [e \in Elem |-> exited[e] /\ e \notin S]
    /\ wake_up_flag' = [e \in Elem |->
                          IF e \in S THEN "clear" ELSE wake_up_flag[e]]

\* Fault: add_to_queue() does not test working again under queue_lock.
Faulty_MayEnqueue == TRUE

\* Second half of add_to_queue(), under queue_lock.
MayEnqueue == working

Enqueue(t) ==
    /\ pc[t] = "lock"
    /\ ~QueueLocked
    /\ \/ /\ MayEnqueue
          /\ global_queue' = Append(global_queue, elem[t])
          /\ current_in_queue' = current_in_queue + 1
          /\ Goto(t, "eval")
          /\ UNCHANGED <<ret, elem, live, exited, wake_up_flag>>
       \/ /\ ~MayEnqueue
          /\ Free({elem[t]})
          /\ elem' = [elem EXCEPT ![t] = NoElem]
          /\ Decide(t, "pass")
          /\ UNCHANGED <<global_queue, current_in_queue>>
    /\ UNCHANGED <<armed, sig, devVars, junk_list, queue_cache, controlVars>>

(***************************************************************************)
(* wait_event_interruptible(): evaluate the condition; while it is false,  *)
(* prepare_to_wait_event() (which takes a thread with a signal pending off *)
(* wait_q instead), evaluate again, schedule().                            *)
(***************************************************************************)
WaitCondition(t) == ~working \/ wake_up_flag[elem[t]] # "clear"

PrepareToWait(t) ==
    /\ pc[t] = "prepare"
    /\ Goto(t, IF sig[t] THEN "evalSig" ELSE "eval")
    /\ armed' = [armed EXCEPT ![t] = ~sig[t]]
    /\ UNCHANGED <<ret, elem, sig, devVars, queueVars, controlVars>>

EvalCondition(t) ==
    /\ pc[t] \in {"eval", "evalSig"}
    /\ \/ /\ WaitCondition(t)
          /\ Goto(t, "awake")
          /\ ret' = [ret EXCEPT ![t] = "granted"]
          /\ armed' = [armed EXCEPT ![t] = FALSE]
       \/ /\ ~WaitCondition(t)
          /\ pc[t] = "evalSig"
          /\ Goto(t, "awake")
          /\ ret' = [ret EXCEPT ![t] = "eagain"]
          /\ UNCHANGED armed
       \/ /\ ~WaitCondition(t)
          /\ pc[t] = "eval"
          /\ Goto(t, "sleep")
          /\ UNCHANGED <<ret, armed>>
    /\ UNCHANGED <<elem, sig, devVars, queueVars, controlVars>>

\* schedule() returns once the thread was woken or has a signal pending.
Schedule(t) ==
    /\ pc[t] = "sleep"
    /\ ~armed[t] \/ sig[t]
    /\ Goto(t, "prepare")
    /\ UNCHANGED <<ret, elem, armed, sig, devVars, queueVars, controlVars>>

\* After the wait: with the monitor on the element is given up, otherwise
\* the call runs, even when a signal ended the wait.
TestWorking(t) ==
    /\ pc[t] = "awake"
    /\ \/ working /\ Goto(t, "mark") /\ UNCHANGED <<ret, elem>>
       \/ /\ ~working
          /\ Decide(t, "off")
          /\ elem' = [elem EXCEPT ![t] = NoElem]
    /\ UNCHANGED <<armed, sig, devVars, queueVars, controlVars>>

\* set_exited_flag(): the thread's last access to the element.
SetExited(t) ==
    /\ pc[t] = "mark"
    /\ exited' = [exited EXCEPT ![elem[t]] = TRUE]
    /\ elem' = [elem EXCEPT ![t] = NoElem]
    /\ Goto(t, "leave")
    /\ UNCHANGED <<ret, armed, sig, devVars, global_queue, current_in_queue,
                   junk_list, wake_up_flag, live, queue_cache, controlVars>>

\* Fault: the -EAGAIN return lacks its decrement.
Faulty_LeaveStub(t) ==
    /\ pc[t] = "leave"
    /\ threads_in_module' = IF ret[t] = "eagain" THEN threads_in_module
                                                 ELSE threads_in_module - 1
    /\ Goto(t, "user")
    /\ ret' = [ret EXCEPT ![t] = "none"]
    /\ sig' = [sig EXCEPT ![t] = FALSE]
    /\ UNCHANGED <<elem, armed, working, current_epoch_tokens, spent,
                   queueVars, controlVars>>

\* The statistics call of the path, the decrement, the return to user mode
\* (where a pending signal is delivered).
LeaveStub(t) ==
    /\ pc[t] = "leave"
    /\ threads_in_module' = threads_in_module - 1
    /\ Goto(t, "user")
    /\ ret' = [ret EXCEPT ![t] = "none"]
    /\ sig' = [sig EXCEPT ![t] = FALSE]
    /\ UNCHANGED <<elem, armed, working, current_epoch_tokens, spent,
                   queueVars, controlVars>>

\* The environment sends a signal to a blocked thread.
Signal(t) ==
    /\ pc[t] \in Waiting
    /\ ~sig[t]
    /\ sig' = [sig EXCEPT ![t] = TRUE]
    /\ UNCHANGED <<pc, ret, elem, armed, devVars, queueVars, controlVars>>

-----------------------------------------------------------------------------
(* timer_callback() *)

\* wake_up_interruptible(&wait_q): every thread on wait_q becomes runnable.
WakeAll == armed' = [t \in Thread |-> FALSE]

\* The kernel runs the expired timer; unqueue() takes queue_lock.
FireTimer ==
    /\ timer = "pending"
    /\ tpc = "idle"
    /\ PromptTurnOn => apc # "on_set"
    /\ timer' = "inactive"
    /\ tpc' = "unqueue"
    /\ missing' = max_syscalls_for_epoch
    /\ UNCHANGED <<apc, threadVars, devVars, queueVars>>

MoveHeadToJunk ==
    /\ junk_list' = junk_list \cup {Head(global_queue)}
    /\ global_queue' = Tail(global_queue)

UnqueueExited ==
    /\ tpc = "unqueue"
    /\ global_queue # <<>>
    /\ exited[Head(global_queue)]
    /\ MoveHeadToJunk
    /\ current_in_queue' = current_in_queue - 1
    /\ UNCHANGED <<threadVars, devVars, wake_up_flag, exited, live,
                   queue_cache, controlVars>>

UnqueueGrant ==
    /\ tpc = "unqueue"
    /\ global_queue # <<>>
    /\ ~exited[Head(global_queue)]
    /\ missing > 0
    /\ wake_up_flag' = [wake_up_flag EXCEPT ![Head(global_queue)] = "granted"]
    /\ MoveHeadToJunk
    /\ missing' = missing - 1
    /\ UNCHANGED <<threadVars, devVars, current_in_queue, exited, live,
                   queue_cache, timer, tpc, apc>>

\* Callers granted by this callback: the value unqueue() returns.
Granted == max_syscalls_for_epoch - missing

UnqueueDone ==
    /\ tpc = "unqueue"
    /\ global_queue # <<>> => ~exited[Head(global_queue)] /\ missing <= 0
    /\ current_in_queue' = current_in_queue - Granted
    /\ tpc' = "wake"
    /\ UNCHANGED <<threadVars, devVars, global_queue, junk_list, wake_up_flag,
                   exited, live, queue_cache, timer, missing, apc>>

\* Fault: nobody is woken in an epoch that grants every token to waiters.
Faulty_TimerWake ==
    /\ tpc = "wake"
    /\ IF missing > 0 THEN WakeAll ELSE UNCHANGED armed
    /\ tpc' = "refill"
    /\ UNCHANGED <<pc, ret, elem, sig, devVars, queueVars, timer, missing, apc>>

TimerWake ==
    /\ tpc = "wake"
    /\ WakeAll
    /\ tpc' = "refill"
    /\ UNCHANGED <<pc, ret, elem, sig, devVars, queueVars, timer, missing, apc>>

\* Fault: the refill ignores the tokens given to waiters.
Faulty_NewBudget == max_syscalls_for_epoch

NewBudget == max_syscalls_for_epoch - Granted

TimerRefill ==
    /\ tpc = "refill"
    /\ current_epoch_tokens' = NewBudget
    /\ spent' = Granted
    /\ missing' = 0
    /\ tpc' = "rearm"
    /\ UNCHANGED <<threadVars, working, threads_in_module, queueVars, timer, apc>>

\* Fault: the callback does not re-arm when waiters used up the epoch.
Faulty_TimerRearm ==
    /\ tpc = "rearm"
    /\ timer' = IF working /\ current_epoch_tokens > 0 THEN "pending" ELSE timer
    /\ tpc' = "free"
    /\ UNCHANGED <<threadVars, devVars, queueVars, missing, apc>>

TimerRearm ==
    /\ tpc = "rearm"
    /\ timer' = IF working THEN "pending" ELSE timer
    /\ tpc' = "free"
    /\ UNCHANGED <<threadVars, devVars, queueVars, missing, apc>>

\* Faults: free_junk() frees granted elements without waiting for exited;
\* it never frees those of callers that gave up.
Faulty_FreeableEarly == junk_list
Faulty_FreeableGranted ==
    {e \in junk_list : exited[e] /\ wake_up_flag[e] = "granted"}

\* free_junk(): the elements of junk_list it may free.
Freeable == {e \in junk_list : exited[e]}

\* Fault: free_junk() empties the list and frees only the exited elements.
Faulty_FreeJunk ==
    /\ junk_list' = {}
    /\ Free(Freeable)

FreeJunk ==
    /\ junk_list' = junk_list \ Freeable
    /\ Free(Freeable)

TimerFreeJunk ==
    /\ tpc = "free"
    /\ FreeJunk
    /\ tpc' = "idle"
    /\ UNCHANGED <<threadVars, devVars, global_queue, current_in_queue,
                   queue_cache, timer, missing, apc>>

-----------------------------------------------------------------------------
(* sysThrot_turn_on() *)

TurnOn ==
    /\ apc = "idle"
    /\ ~working
    /\ apc' = "on_init"
    /\ UNCHANGED <<threadVars, devVars, queueVars, timer, tpc, missing>>

\* init_queue(), whose failure turn_on() ignores.
InitQueue ==
    /\ apc = "on_init"
    /\ \/ queue_cache' = "live"
       \/ CacheFaults /\ queue_cache' = "null"
    /\ apc' = "on_arm"
    /\ UNCHANGED <<threadVars, devVars, global_queue, current_in_queue,
                   junk_list, wake_up_flag, exited, live, timer, tpc, missing>>

ArmTimer ==
    /\ apc = "on_arm"
    /\ timer' = "pending"
    /\ apc' = "on_set"
    /\ UNCHANGED <<threadVars, devVars, queueVars, tpc, missing>>

SetWorking ==
    /\ apc = "on_set"
    /\ working' = TRUE
    /\ apc' = "idle"
    /\ UNCHANGED <<threadVars, threads_in_module, current_epoch_tokens, spent,
                   queueVars, timer, tpc, missing>>

-----------------------------------------------------------------------------
(* sysThrot_turn_off() *)

TurnOff ==
    /\ apc = "idle"
    /\ working
    /\ working' = FALSE
    /\ apc' = "off_timer"
    /\ UNCHANGED <<threadVars, threads_in_module, current_epoch_tokens, spent,
                   queueVars, timer, tpc, missing>>

\* timer_shutdown_sync() waits for a running callback and leaves no timer.
ShutdownTimer ==
    /\ apc = "off_timer"
    /\ tpc = "idle"
    /\ timer' = "inactive"
    /\ apc' = "off_wake"
    /\ UNCHANGED <<threadVars, devVars, queueVars, tpc, missing>>

Queued == {global_queue[i] : i \in DOMAIN global_queue}

WakeUpQueue ==
    /\ apc = "off_wake"
    /\ wake_up_flag' = [e \in Elem |->
                          IF e \in Queued THEN "off" ELSE wake_up_flag[e]]
    /\ junk_list' = junk_list \cup Queued
    /\ global_queue' = <<>>
    /\ current_in_queue' = 0
    /\ apc' = "off_drain"
    /\ UNCHANGED <<threadVars, devVars, exited, live, queue_cache,
                   timer, tpc, missing>>

\* Fault: turn_off() does not wait for the threads inside.
Faulty_Drained == TRUE

Drained == threads_in_module <= 0

\* Fault: the drain loop waits without waking anybody.
Faulty_DrainWait ==
    /\ apc = "off_drain"
    /\ ~Drained
    /\ UNCHANGED vars

DrainWait ==
    /\ apc = "off_drain"
    /\ ~Drained
    /\ WakeAll
    /\ UNCHANGED <<pc, ret, elem, sig, devVars, queueVars, controlVars>>

DrainDone ==
    /\ apc = "off_drain"
    /\ Drained
    /\ apc' = "off_destroy"
    /\ UNCHANGED <<threadVars, devVars, queueVars, timer, tpc, missing>>

\* destroy_queue().  Objects still live stay allocated and stay on junk_list.
DestroyQueue ==
    /\ apc = "off_destroy"
    /\ FreeJunk
    /\ queue_cache' = IF queue_cache = "live" THEN "destroyed" ELSE queue_cache
    /\ apc' = "idle"
    /\ UNCHANGED <<threadVars, devVars, global_queue, current_in_queue,
                   timer, tpc, missing>>

-----------------------------------------------------------------------------
\* What a thread inside stub() does by itself.
StubStep(t) ==
    \/ IncThreads(t)
    \/ CheckIfRegistered(t)
    \/ TakeToken(t)
    \/ AllocElem(t)
    \/ CacheOops(t)
    \/ Enqueue(t)
    \/ PrepareToWait(t)
    \/ EvalCondition(t)
    \/ Schedule(t)
    \/ TestWorking(t)
    \/ SetExited(t)
    \/ LeaveStub(t)

TimerStep ==
    \/ FireTimer
    \/ UnqueueExited
    \/ UnqueueGrant
    \/ UnqueueDone
    \/ TimerWake
    \/ TimerRefill
    \/ TimerRearm
    \/ TimerFreeJunk

\* What the administrator does once a turn_on() or turn_off() has begun.
AdminStep ==
    \/ InitQueue
    \/ ArmTimer
    \/ SetWorking
    \/ ShutdownTimer
    \/ WakeUpQueue
    \/ DrainWait
    \/ DrainDone
    \/ DestroyQueue

Next ==
    \/ \E t \in Thread : EnterStub(t) \/ StubStep(t) \/ Signal(t)
    \/ TimerStep
    \/ TurnOn
    \/ TurnOff
    \/ AdminStep

Spec == Init /\ [][Next]_vars

(***************************************************************************)
(* Runnable threads are scheduled, an armed timer expires, a begun ioctl   *)
(* runs on; nobody has to issue a syscall, a signal or an ioctl.  The      *)
(* queued spinlocks of the kernel are first come first served, hence the   *)
(* strong fairness of the step that takes queue_lock.  That the callback   *)
(* runs on assumes that it does not interrupt the holder of queue_lock or  *)
(* stats_lock on its own CPU (see SpinLocks).                              *)
(***************************************************************************)
Fairness ==
    /\ \A t \in Thread : WF_vars(StubStep(t)) /\ SF_vars(Enqueue(t))
    /\ WF_vars(TimerStep)
    /\ WF_vars(AdminStep)

FairSpec == Spec /\ Fairness
-----------------------------------------------------------------------------
(* Safety *)

ThreadTypes ==
    /\ pc \in [Thread -> {"user", "enter"} \cup Counted]
    /\ ret \in [Thread -> Outcome]
    /\ elem \in [Thread -> Elem \cup {NoElem}]
    /\ armed \in [Thread -> BOOLEAN]
    /\ sig \in [Thread -> BOOLEAN]

DevTypes ==
    /\ working \in BOOLEAN
    /\ threads_in_module \in Nat
    /\ current_epoch_tokens \in Int
    /\ spent \in Nat

QueueTypes ==
    /\ global_queue \in Seq(Elem)
    /\ current_in_queue \in Int
    /\ junk_list \in SUBSET Elem
    /\ wake_up_flag \in [Elem -> {"clear", "granted", "off"}]
    /\ exited \in [Elem -> BOOLEAN]
    /\ live \in SUBSET Elem
    /\ queue_cache \in {"null", "live", "destroyed"}

ControlTypes ==
    /\ timer \in {"inactive", "pending"}
    /\ tpc \in {"idle", "unqueue", "wake", "refill", "rearm", "free"}
    /\ missing \in Int
    /\ apc \in {"idle", "on_init", "on_arm", "on_set", "off_timer", "off_wake",
                "off_drain", "off_destroy"}

\* Every variable keeps its type; in particular no path of stub() decrements
\* threads_in_module without having incremented it.
TypeOK == ThreadTypes /\ DevTypes /\ QueueTypes /\ ControlTypes

\* Threads whose element is on one of the two lists.
HasNode == Waiting \cup {"awake", "mark"}

Quota == IF max_syscalls_for_epoch > 0 THEN max_syscalls_for_epoch ELSE 0

\* Between two refills at most max_syscalls_for_epoch calls are admitted:
\* the waiters timer_callback() grants and the callers that find a token,
\* however these interleave, and across turning off and on again.
QuotaRespected == spent <= Quota

\* A blocked caller that stub() treats as released by the epoch timer was
\* granted by unqueue(); one woken by wake_up_queue() never outlives the
\* turn_off() that woke it, not even into the next turn_on().
NoFreeRide ==
    \A t \in Thread : pc[t] = "mark" /\ ret[t] = "granted"
                        => wake_up_flag[elem[t]] = "granted"

\* stub() never reads or writes a queue element that free_junk() or
\* add_to_queue() has given back to the slab cache.
NoUseAfterFree ==
    \A t \in Thread : pc[t] \in HasNode \cup {"lock"} => elem[t] \in live

\* Threads with an element that is on no list yet.
InHand == {t \in Thread : pc[t] \in {"lock", "dead"} /\ elem[t] # NoElem}

\* Every allocated element is on exactly one of the two lists, once, or in
\* the hands of a thread that has not queued it; no two threads share one.
ElementOwnership ==
    /\ \A i, j \in DOMAIN global_queue :
          global_queue[i] = global_queue[j] => i = j
    /\ Queued \cap junk_list = {}
    /\ \A t, u \in Thread : elem[t] = elem[u] /\ elem[t] # NoElem => t = u
    /\ live = Queued \cup junk_list \cup {elem[t] : t \in InHand}

\* No wake-up is lost: a thread asleep in wait_event_interruptible() whose
\* condition has become true still has the wake-up call of timer_callback()
\* or of turn_off() ahead of it.
NoLostWakeup ==
    \A t \in Thread :
        /\ pc[t] = "sleep"
        /\ armed[t]
        /\ WaitCondition(t)
        => \/ tpc \in {"unqueue", "wake"}
           \/ apc \in {"off_timer", "off_wake", "off_drain"}

\* threads_in_module counts the threads between their increment and their
\* decrement, on every path through stub().
CounterBalanced ==
    threads_in_module = Cardinality({t \in Thread : pc[t] \in Counted})

\* From the moment turn_off() has drained the module until the next
\* turn_on() is complete, nobody is blocked and the queue is empty, although
\* threads that passed the first test of stub() earlier still run.
DrainedWhenOff ==
    ~working /\ apc \notin {"off_timer", "off_wake", "off_drain"}
    => /\ global_queue = <<>>
       /\ \A t \in Thread : pc[t] \notin HasNode

\* current_in_queue is the length of global_queue; while unqueue() runs it
\* still counts the waiters granted so far.
QueueCount ==
    current_in_queue = Len(global_queue)
                       + (IF tpc = "unqueue" THEN Granted ELSE 0)

\* While throttling is on the timer is armed or its callback is running.
TimerRunsWhileOn ==
    working /\ apc = "idle" => timer = "pending" \/ tpc # "idle"

(* Liveness *)

\* Every call of a hooked syscall returns: a blocked caller is granted by a
\* later epoch, aborted by a signal or released by turn_off().
EveryCallReturns ==
    \A t \in Thread : pc[t] = "enter" ~> pc[t] = "user"

\* turn_off() terminates: the drain loop ends although threads keep entering.
TurnOffCompletes == apc = "off_timer" ~> apc = "idle"

\* The element of a caller that has left is freed, whether the caller was
\* granted or gave up while its element was still queued, at the head or
\* behind that of a caller that goes on waiting.
ExitedReclaimed ==
    \A e \in Elem : e \in live /\ exited[e] ~> e \notin live

(* Statements of the documentation that the code does not meet *)

\* destroy_queue() is reached with the queue empty and no thread inside the
\* monitor: the comment in destroy_queue().
ThreadsOutsideAtDestroy ==
    apc = "off_destroy"
    => global_queue = <<>> /\ \A t \in Thread : pc[t] = "user"

\* Elements taken off the queue are freed once their owner is gone, so none
\* is left when the cache is destroyed.
NothingLeakedAtOff ==
    apc = "idle" /\ ~working
    => \A e \in junk_list : \E t \in Thread : elem[t] = e
=============================================================================
