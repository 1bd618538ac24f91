----------------------------- MODULE SpinLocks ------------------------------
(***************************************************************************)
(* The spin locks of the queue and of the statistics, by who takes them    *)
(* where: callers and /proc readers in process context, timer_callback()   *)
(* in a softirq.  All take them with spin_lock(), which keeps the CPU from *)
(* switching to another task and does not keep a softirq from running on   *)
(* it.  What the locks protect is modelled in Throttle and StatMonitor.    *)
(*                                                                         *)
(* wake_up_queue() and destroy_queue() take the locks after                *)
(* timer_shutdown_sync(), and so never meet the callback.                  *)
(***************************************************************************)
EXTENDS Sequences

CONSTANTS
    Task,       \* tasks in process context
    Cpu,
    Callback,   \* timer_callback()
    Nobody, NoCpu

VARIABLES
    owner,      \* who holds each lock
    todo,       \* the lock operations left in what a task or Callback runs
    cpu,        \* the CPU of each task
    softirq     \* the CPU on which Callback runs

vars == <<owner, todo, cpu, softirq>>

\* The operations of a routine that holds lock l around the operations ops.
Holding(l, ops) ==
    <<[op |-> "take", lock |-> l]>> \o ops \o <<[op |-> "drop", lock |-> l]>>

add_to_queue == Holding("queue_lock", <<>>)

\* sysThrot_add_blocked(), sysThrot_add_ctx_switch(), sysThrot_add_aborted()
\* and a read() of /proc/SYSTHROT, from my_seq_start() to my_seq_stop().
use_stats == Holding("stats_lock", <<>>)

\* One element is moved to the junk list.
unqueue == Holding("queue_lock", Holding("junk_lock", <<>>))
update_epoch_stats == Holding("stats_lock", <<>>)
free_junk == Holding("junk_lock", <<>>)

timer_callback == unqueue \o update_epoch_stats \o free_junk

Init ==
    /\ owner = [l \in {"queue_lock", "junk_lock", "stats_lock"} |-> Nobody]
    /\ todo = [x \in Task \cup {Callback} |-> <<>>]
    /\ cpu \in [Task -> Cpu]
    /\ softirq = NoCpu

\* A task runs unless the callback, or a task that holds a lock, has its CPU.
Runs(t) ==
    /\ softirq # cpu[t]
    /\ \A l \in DOMAIN owner : owner[l] \in Task \ {t} => cpu[owner[l]] # cpu[t]

Begin(t) ==
    /\ Runs(t)
    /\ todo[t] = <<>>
    /\ \E routine \in {add_to_queue, use_stats} : todo' = [todo EXCEPT ![t] = routine]
    /\ UNCHANGED <<owner, cpu, softirq>>

\* The next lock operation of x, a task or Callback.
LockStep(x) ==
    /\ todo[x] # <<>>
    /\ LET next == Head(todo[x]) IN
       /\ next.op = "take" => owner[next.lock] = Nobody
       /\ owner' = [owner EXCEPT ![next.lock] = IF next.op = "take" THEN x ELSE Nobody]
    /\ todo' = [todo EXCEPT ![x] = Tail(@)]
    /\ softirq' = IF x = Callback /\ Len(todo[x]) = 1 THEN NoCpu ELSE softirq
    /\ UNCHANGED cpu

TaskStep(t) == Runs(t) /\ LockStep(t)

\* The timer expires on CPU c.
Fire(c) ==
    /\ softirq = NoCpu
    /\ softirq' = c
    /\ todo' = [todo EXCEPT ![Callback] = timer_callback]
    /\ UNCHANGED <<owner, cpu>>

Next ==
    \/ \E t \in Task : Begin(t) \/ TaskStep(t)
    \/ \E c \in Cpu : Fire(c)
    \/ LockStep(Callback)

\* Tasks and the callback go on, and a lock that is dropped again and again
\* is got in the end.
FairSpec ==
    /\ Init /\ [][Next]_vars
    /\ \A t \in Task : SF_vars(TaskStep(t))
    /\ SF_vars(LockStep(Callback))

-----------------------------------------------------------------------------
\* timer_callback() comes to its end: blocked callers get their tokens, the
\* statistics are updated and the next epoch begins.
CallbackEnds == softirq # NoCpu ~> softirq = NoCpu
=============================================================================
