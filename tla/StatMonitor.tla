---------------------------- MODULE StatMonitor -----------------------------
(***************************************************************************)
(* The statistics of sysThrot_statmonitor.c: a list with one entry per     *)
(* syscall, counters of the running epoch that update_epoch_stats() folds  *)
(* into totals and a ring of the last epochs, and the seq_file iterator    *)
(* behind /proc/SYSTHROT, which holds stats_lock from start to stop.       *)
(*                                                                         *)
(* The task that had the peak delay and the layout are left out.  That a   *)
(* softirq may spin for ever on stats_lock is SpinLocks'.                  *)
(***************************************************************************)
EXTENDS Integers, Sequences, FiniteSetsExt, SequencesExt

CONSTANTS
    Sid,            \* syscall numbers below SUPPORTED_SYSCALLS
    HISTORY_LEN,
    UINT,           \* 2^32, the modulus of unsigned int
    Delay,          \* how long a call may have been blocked
    MaxEpochs, MaxEvents    \* bounds: epochs, and events recorded in all

ASSUME StatAssumption ==
    /\ HISTORY_LEN \in Nat \ {0}
    /\ UINT \in Nat /\ UINT > 2 * HISTORY_LEN
    /\ Delay \subseteq Nat

VARIABLES
    list,           \* syscall ids of the entries, in list order
    entry,          \* their fields
    epoch_count,
    timer,          \* update_epoch_stats(): "idle", or "spin" on stats_lock
    reader,         \* the iterator: "idle", or "held" between start and stop
    pos, shown,     \* its position and the entries it has printed
    ended,          \* it has printed the end of the list
    events, log     \* history: blocked calls recorded, and per epoch

vars == <<list, entry, epoch_count, timer, reader, pos, shown, ended, events, log>>
readerVars == <<reader, pos, shown, ended>>

Slot == 0..HISTORY_LEN - 1

NewEntry ==
    [current_blocked |-> 0, total_blocked |-> 0, last_epoch_blocked |-> 0,
     current_time |-> 0, peak_delay |-> 0,
     current_ctx |-> 0, sum_ctx |-> 0, peak_ctx |-> 0, total_aborted |-> 0,
     epoch_history |-> [i \in Slot |-> 0], epoch_time_history |-> [i \in Slot |-> 0],
     history_head |-> 0, history_count |-> 0]

Init ==
    /\ list = <<>>
    /\ entry = [s \in Sid |-> NewEntry]
    /\ epoch_count = 0
    /\ timer = "idle"
    /\ reader = "idle"
    /\ pos = 0
    /\ shown = <<>>
    /\ ended = FALSE
    /\ events = [s \in Sid |-> 0]
    /\ log = [s \in Sid |-> <<>>]

LockFree == reader = "idle"

\* How many events have been recorded so far.
Recorded ==
    MapThenSumSet(LAMBDA s : events[s] + entry[s].sum_ctx + entry[s].current_ctx
                                + entry[s].total_aborted, Sid)

-----------------------------------------------------------------------------
(***************************************************************************)
(* Recording an event.  A new entry may fail to be allocated, and then the *)
(* event is not recorded.                                                  *)
(***************************************************************************)
find_or_create(s) == list' = IF Contains(list, s) THEN list ELSE Append(list, s)

\* Fault: only the first delay counts for the peak.
Faulty_peak_delay(e, d) == IF e.peak_delay = 0 THEN d ELSE e.peak_delay

peak_delay(e, d) == Max({e.peak_delay, d})

add_blocked(s, d) ==
    /\ LockFree
    /\ Recorded < MaxEvents
    /\ find_or_create(s)
    /\ entry' = [entry EXCEPT ![s].current_blocked = @ + 1,
                              ![s].current_time = @ + d,
                              ![s].peak_delay = peak_delay(entry[s], d)]
    /\ events' = [events EXCEPT ![s] = @ + 1]
    /\ UNCHANGED <<epoch_count, timer, readerVars, log>>

add_ctx_switch(s) ==
    /\ LockFree
    /\ Recorded < MaxEvents
    /\ find_or_create(s)
    /\ entry' = [entry EXCEPT ![s].current_ctx = @ + 1]
    /\ UNCHANGED <<epoch_count, timer, readerVars, events, log>>

add_aborted(s) ==
    /\ LockFree
    /\ Recorded < MaxEvents
    /\ find_or_create(s)
    /\ entry' = [entry EXCEPT ![s].total_aborted = @ + 1]
    /\ UNCHANGED <<epoch_count, timer, readerVars, events, log>>

-----------------------------------------------------------------------------
\* The timer callback asks for stats_lock.
TimerFires ==
    /\ timer = "idle"
    /\ epoch_count < MaxEpochs
    /\ timer' = "spin"
    /\ UNCHANGED <<list, entry, epoch_count, readerVars, events, log>>

\* Fault: history_count grows past the ring.
Faulty_count(e) == e.history_count + 1

count(e) == IF e.history_count < HISTORY_LEN THEN e.history_count + 1
                                            ELSE e.history_count

\* Fault: the total misses the calls of this epoch.
Faulty_total(e) == e.total_blocked + e.last_epoch_blocked

total(e) == e.total_blocked + e.current_blocked

peak(e) == Max({e.peak_ctx, e.current_ctx})

\* What the end of an epoch does to an entry.
Fold(e) ==
    [e EXCEPT
        !.last_epoch_blocked = e.current_blocked,
        !.total_blocked = total(e),
        !.current_blocked = 0,
        !.current_time = 0,
        !.sum_ctx = e.sum_ctx + e.current_ctx,
        !.peak_ctx = peak(e),
        !.current_ctx = 0,
        !.epoch_history[e.history_head] = e.current_blocked,
        !.epoch_time_history[e.history_head] = e.current_time,
        !.history_head = (e.history_head + 1) % HISTORY_LEN,
        !.history_count = count(e)]

update_epoch_stats ==
    /\ timer = "spin"
    /\ LockFree
    /\ timer' = "idle"
    /\ epoch_count' = epoch_count + 1
    /\ entry' = [s \in Sid |-> IF Contains(list, s) THEN Fold(entry[s]) ELSE entry[s]]
    /\ log' = [s \in Sid |-> IF Contains(list, s)
                             THEN Append(log[s], entry[s].current_blocked)
                             ELSE log[s]]
    /\ UNCHANGED <<list, readerVars, events>>

\* Fault: the index is not kept above zero.
Faulty_history_slot(e, i) ==
    ((e.history_head - e.history_count + i) % UINT) % HISTORY_LEN

\* The slot of the i-th oldest completed epoch, in unsigned arithmetic.
history_slot(e, i) ==
    ((e.history_head - e.history_count + i + HISTORY_LEN) % UINT) % HISTORY_LEN

history_blocked_at(e, i) == e.epoch_history[history_slot(e, i)]
history_time_at(e, i) == e.epoch_time_history[history_slot(e, i)]

\* The columns my_seq_show() computes.  SumTo(f, n) is its loop: it adds up
\* the first n values of f.
SumTo(f, n) ==
    LET sum[i \in 0..n] == IF i = 0 THEN 0 ELSE sum[i - 1] + f[i - 1] IN sum[n]

Window(e) == 0..e.history_count - 1
window_sum(e) == SumTo([i \in Window(e) |-> history_blocked_at(e, i)], e.history_count)
window_time(e) == SumTo([i \in Window(e) |-> history_time_at(e, i)], e.history_count)
avg_delay(e) == IF window_sum(e) = 0 THEN 0 ELSE window_time(e) \div window_sum(e)
avg_ctx(e) == IF epoch_count = 0 THEN 0 ELSE e.sum_ctx \div epoch_count

-----------------------------------------------------------------------------
(***************************************************************************)
(* The iterator.  seq_read() calls start, shows entries and asks for the   *)
(* next until its buffer is full or the list ends, and calls stop; the     *)
(* next read() starts again at the position that was not shown.            *)
(***************************************************************************)
seq_start ==
    /\ reader = "idle"
    /\ reader' = "held"
    /\ UNCHANGED <<list, entry, epoch_count, timer, pos, shown, ended, events, log>>

\* Fault: the position is not advanced past the entry just shown.
Faulty_next_pos == IF shown = <<>> THEN pos ELSE pos + 1

next_pos == pos + 1

seq_show_next ==
    /\ reader = "held"
    /\ pos <= Len(list)
    /\ IF pos = Len(list) THEN ended' = TRUE /\ UNCHANGED shown
                          ELSE shown' = Append(shown, list[pos + 1]) /\ UNCHANGED ended
    /\ pos' = next_pos
    /\ UNCHANGED <<list, entry, epoch_count, timer, reader, events, log>>

seq_stop ==
    /\ reader = "held"
    /\ reader' = "idle"
    /\ UNCHANGED <<list, entry, epoch_count, timer, pos, shown, ended, events, log>>

\* The file is opened again, or rewound.
seq_open ==
    /\ reader = "idle"
    /\ pos > 0
    /\ pos' = 0
    /\ shown' = <<>>
    /\ ended' = FALSE
    /\ UNCHANGED <<list, entry, epoch_count, timer, reader, events, log>>

\* sysThrot_statmonitor_exit(), when neither callers nor the timer are left
\* and remove_proc_entry() has waited for the reader, and the next init.
Reload ==
    /\ timer = "idle"
    /\ reader = "idle"
    /\ list # <<>>
    /\ list' = <<>>
    /\ entry' = [s \in Sid |-> NewEntry]
    /\ epoch_count' = 0
    /\ pos' = 0
    /\ shown' = <<>>
    /\ ended' = FALSE
    /\ events' = [s \in Sid |-> 0]
    /\ log' = [s \in Sid |-> <<>>]
    /\ UNCHANGED <<timer, reader>>

Next ==
    \/ \E s \in Sid : (\E d \in Delay : add_blocked(s, d)) \/ add_ctx_switch(s) \/ add_aborted(s)
    \/ TimerFires
    \/ update_epoch_stats
    \/ seq_start
    \/ seq_show_next
    \/ seq_stop
    \/ seq_open
    \/ Reload

Spec == Init /\ [][Next]_vars

-----------------------------------------------------------------------------
\* Types; the ring indices of an entry stay inside epoch_history[].
TypeOK ==
    /\ list \in Seq(Sid)
    /\ \A s \in Sid :
        /\ entry[s].history_head \in Slot
        /\ entry[s].history_count \in 0..HISTORY_LEN
        /\ entry[s].epoch_history \in [Slot -> Nat]
        /\ entry[s].epoch_time_history \in [Slot -> Nat]
        /\ \A f \in {"current_blocked", "total_blocked", "last_epoch_blocked",
                     "current_time", "peak_delay", "current_ctx", "sum_ctx", "peak_ctx", "total_aborted"} :
              entry[s][f] \in Nat
    /\ epoch_count \in Nat
    /\ timer \in {"idle", "spin"}
    /\ reader \in {"idle", "held"}
    /\ pos \in Nat

\* TOTAL plus the running epoch counts every recorded blocked call once.
TotalExact ==
    \A s \in Sid : entry[s].total_blocked + entry[s].current_blocked = events[s]

\* The ring holds the last epochs, oldest first: the window of my_seq_show()
\* is exact before the ring is full, when it wraps and ever after.
WindowExact ==
    \A s \in Sid :
        LET n == entry[s].history_count
            m == Len(log[s])
        IN  /\ n = Min({m, HISTORY_LEN})
            /\ \A i \in 0..n - 1 :
                  history_blocked_at(entry[s], i) = log[s][m - n + 1 + i]

\* The columns of a row of /proc/SYSTHROT agree: MEAN is at most PEAK,
\* CTX/EPOCH at most CTX PEAK, and the window holds no more than TOTAL.
RowConsistent ==
    \A s \in Sid : /\ avg_delay(entry[s]) <= entry[s].peak_delay
                   /\ avg_ctx(entry[s]) <= entry[s].peak_ctx
                   /\ window_sum(entry[s]) <= entry[s].total_blocked

\* Until it has met the end of the list, a traversal split over several reads
\* shows the entries in order, each once and none left out, although entries
\* are added between the reads.  (Past the end the position is one too far
\* and a later read() may skip an entry.)
TraversalExact == ~ended => shown = SubSeq(list, 1, pos)
=============================================================================
