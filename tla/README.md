# Syscall throttling: TLA+ models, model checking and proofs

This directory models the kernel module of this repository in TLA+, checks the
models with TLC on small instances, and proves every safety property that the passing
runs check with TLAPS for all instances. `PROJECT.json` is the index: it maps every
definition to the lines it models and lists the runs, the seeded faults, the findings,
the hazards and the theorems.

## The system

| Part | Source | State | Operations | Module |
|---|---|---|---|---|
| Stub and token bucket | `sysThrot.c` `stub()` | `working`, `threads_in_module`, `current_epoch_tokens` | enter, take a token, block, leave | `Throttle` |
| Wait queue | `sysThrot_queue.c` | `global_queue`, `junk_list`, slab cache, `wake_up_flag`, `exited` | enqueue, grant, collect, free, wake all, destroy | `Throttle` |
| Epoch timer, turning on and off | `sysThrot.c` | timer, `working` | `timer_callback`, `sysThrot_turn_on`, `sysThrot_turn_off` | `Throttle` |
| Registry maps | `sysThrot_store.c` | two tables of a cuckoo hash | clone, insert with evictions, remove, look up | `CuckooMap`, `Registry` |
| Store | `sysThrot_store.c`, `sysThrot_ioctl.c` | two RCU pointers, `write_lock` | four updates, lookups, listings | `RcuStore`, `Registry` |
| Hooks and trampoline | `sysThrot.c` | patched text, bitmap, `sysThrot_stub_counter` | `installProbe`, `removeProbe`, trampoline, drain | `Hooks` |
| Module life, device, ioctls, user programs | `sysThrot.c`, `sysThrot_ioctl.c`, `user/` | `dev_available`, what init acquires, the calls of each process | `sysThrot_init`, `sysThrot_cleanup`, open, release, read, the eight commands, `systhrot`, setup and teardown of `client` | `Lifecycle` |
| Statistics | `sysThrot_statmonitor.c` | list of entries with rings, `stats_lock` | three recorders, `update_epoch_stats`, `/proc` iterator, exit | `StatMonitor` |
| Spin locks | `sysThrot_queue.c`, `sysThrot_statmonitor.c` | owners, CPUs, the softirq | the lock operations of each routine | `SpinLocks` |
| Logging, load loop of `client` | `sysThrot_log.c`, `user/client.c` | none of the module's | | not modelled |

A hooked syscall enters the trampoline (`Hooks`), which counts the thread and
calls `stub()` (`Throttle`); `stub()` asks the store whether the caller is
registered (`RcuStore` over `CuckooMap`), takes a token or blocks, and reports
to the statistics (`StatMonitor`). The timer callback grants blocked callers,
wakes them, folds the statistics and refills the tokens. Administrators act
through ioctls on a device with one opener (`Lifecycle`): they register users,
programs and syscalls and turn throttling on and off.

What makes this hard: callers, the callback and an administrator touch the
queue and the counters in small unlocked steps; elements are freed by one actor
while another may still read them; maps are replaced under lock-free readers;
and both turning off and unloading must wait for threads they can only count.

## Modules

`Throttle` — one step per access to shared state. Threads go through `stub()`
by `pc`: `enter` (after the test of `working`, before the increment), `check`,
`token`, `alloc`, `lock`, the phases of `wait_event_interruptible()`, `awake`,
`mark`, `leave`. `tpc` is the callback's place, `apc` the administrator's. Code
under `queue_lock` is one step, except the loop of `unqueue()`, which reads
`exited` flags that are written without the lock. `threads_in_module`, the
queue, the junk list and the flags are as in the code; the flag's value 1 is
split by who set it, and `spent` is a history variable counting the calls
admitted on the current budget. Registration is a free choice. Two constants
state assumptions: `PromptTurnOn` (no epoch passes between arming the timer and
setting `working`) and `CacheFaults` (creating the slab cache may fail, and
using a missing cache may kill the thread).

`CuckooMap` — one map and the operation in progress; `insert()` takes one step
per round of its loop, and every allocation may fail. `heap` counts the copies
of each item. `Registry` is the set it implements.

`RcuStore` — maps as sets of items with addresses. Writers go through lock,
check, clone, modify, publish, unlock, grace period and destroy; readers are
`check_if_registered()` (program, then user if it was not found) and
`sysThrot_read()` (both lists). `seen` remembers which answers were right
during a call.

`Hooks` — the five bytes at each wrapper, the bitmap (updated by a read and a
write), the temporary kprobe and symbol lookups that may fail, the trampoline
around its counter, and the hook part of `sysThrot_cleanup()`: one pass over the
bitmap (`visited`) that goes on whatever `removeProbe()` returns. All syscalls of an
instance share a byte of the bitmap.

`Lifecycle` — extends `Hooks`: every step is a step of `Hooks` or leaves its
variables alone. `ipc` goes through `sysThrot_init()`; `res` is what has been
acquired, each step that can fail may fail and releases `Unwind` of its place, and
`misuse` collects what was released or used without being held, and timers set up
while armed. `"cache"` in `res` stands for a `queue_cache` that is not NULL: the failure
of `init_queue()` is always possible and, as in the code, ignored. `caches` counts the
slab caches that were created and not handed to `kmem_cache_destroy()`; that the kernel
keeps one whose elements were leaked is `LeakAtOff` of `Throttle`. Each process is in
a library call (`upc`: open, the ioctl, close), sent by `systhrot` (one command)
or by `client` (`todo`, the calls of setup and teardown that are left). `before`
is a history variable: the configuration when the ioctl began. An update of the
store is one step, and so is the drain of `sysThrot_turn_off()`, whose insides are
`RcuStore` and `Throttle`. Two constants state assumptions: `OpenDuringInit` (the
device is opened before `insmod` has returned) and `StoreFaults` (the store cannot
be allocated).

`StatMonitor` — entries with counts, blocked times and peaks, the rings in
unsigned arithmetic, the fold at the end of an epoch, the `seq_file` iterator,
which holds `stats_lock` from start to stop and may stop after any row, and the
freeing of all entries at unload.

`SpinLocks` — only who takes which lock in which context: tasks on CPUs, and the
callback as a softirq that runs in place of a task of its CPU.

`MCThrottle`, `MCCuckooMap`, `MCRcuStore` and `MCLifecycle` add symmetry sets, hash
functions, commands and restricted environments. The modules named `...Proofs`
and `ThrottleLemmas` hold the proofs. Definitions named `Faulty_...` are seeded faults: the fault replaces the
definition that follows it, and TLC must then find the property violated.

## Runs

| Run | Instance | Checks |
|---|---|---|
| `ThrottleSafety` | 2 threads, 3 elements, quota 1, faulty cache | `TypeOK`, `QuotaRespected`, `NoFreeRide`, `NoUseAfterFree`, `ElementOwnership`, `NoLostWakeup`, `CounterBalanced`, `DrainedWhenOff`, `TimerRunsWhileOn` |
| `ThrottleOn` | 2 threads, 2 elements, never turned off | `EveryCallReturns`, `ExitedReclaimed` |
| `ThrottleOff` | 2 threads, 1 element | `TurnOffCompletes` |
| `CuckooMap` | 5 items, 2+2 buckets, 3 kicks | `StoredOnce`, `LookupExact`, `HeapExact`, `ImplementsRegistry` |
| `Store` | 2 writers, 1 reader, 2 items, 4 maps | `NoUseAfterFree`, `Ownership`, `NoLeak`, `LookupJustified`, `UpdatesAtomic` |
| `StoreLive` | the same with 1 item, users only | `UpdateReturns` |
| `Lifecycle` | 2 clients, one of them also using `systhrot`, 1 thread, 1 syscall, 1 user, no preemption | `LifeTypeOK`, `HooksTracked`, `NoDanglingHook`, `UnloadSafe`, `OneOpener`, `ResourcesFollowWorking`, `NoMisuse`, `NothingLeft`, `ResultExact`, `AllUndone`, `RmmodCompletes`, `CallReturns` |
| `Stat` | 2 syscalls, ring of 3, 4 epochs, 3 events, 2 delays | `TypeOK`, `TotalExact`, `WindowExact`, `RowConsistent`, `TraversalExact` |
| `LateEntry`, `LeakAtOff`, `Restore`, `SoftirqSpin` | smallest that shows it | one statement each that the code does not meet |

Bounds. Two threads and a quota of one give a thread that takes the token, one
that blocks, one that is granted while the other takes the refilled token, and a
third element lets an element outlive its owner in the junk list while both
threads hold new ones; `IntMax` is 7. In `ThrottleOn` two elements queue up, and the
second caller may give up, and call again, while the first goes on waiting; with two
threads an exited element is never behind two live ones. In `CuckooMap` three items share both
buckets, so evictions cycle and kicks run out; two tables of two buckets hold
fewer items than there are. Four maps are enough in `RcuStore`: two are
published, and each writer owns at most one more. A ring of three over four
epochs fills, wraps and overwrites; three is not a divisor of `UINT`, so an index
below zero shows. In `Lifecycle` two clients contend for the device, repeat each
other's commands and tear down each other's setup, with an `off` or an empty program
name of `systhrot` in between, a caller in the trampoline, and any number of
reloads. `MaxEvents` and `MaxEpochs` are bounds of the model only; the proofs hold for
all of them.

Symmetry is used in `ThrottleSafety` and `Store` over interchangeable threads,
writers, elements and addresses, with invariants and a step property only, never
with liveness.

Fairness. A runnable thread runs (weak fairness per thread), an armed timer
expires and its callback runs on, an operation that has begun continues. Nobody
has to call, signal or turn anything off. Locks get strong fairness where a
thread waits for one (`Enqueue`, `LockStore`): the kernel's queued spinlocks are
first come first served and its mutexes hand over to waiters. In `Lifecycle` a
library call that has begun, `insmod`, `rmmod` and the threads in the kernel go on; no
process has to start a call, and no thread has to return before others enter.
`RmmodCompletes` and `CallReturns` need a blocked thread to be woken and
`sysThrot_turn_off()` to end, which is `TurnOffCompletes` of `Throttle`. In
`SpinLocks` everyone who runs goes on and locks are fair.

Two things the code does not guarantee limit what the liveness runs say. The callback
runs on only if it does not interrupt the holder of its lock on its own CPU
(`SoftirqSpin`); the runs of `Throttle` and `Lifecycle` are about executions in which
that does not happen, and no liveness is stated for `StatMonitor`. And no thread is
killed inside `stub()`, which a missing slab cache may do: `ThrottleOn` and
`ThrottleOff` have `CacheFaults = FALSE`, and `RmmodCompletes` and `CallReturns` state
the condition themselves (`CachePresent`), since `Lifecycle` lets `init_queue()` fail.

## What disagrees with the code

Four runs show a document or comment the code does not meet; quotations are in
`PROJECT.json`.

- `LateEntry`: a thread that has tested `working` and not yet raised
  `threads_in_module` is still inside when `destroy_queue()` runs.
- `LeakAtOff`: waiters released by turning off never set `exited`, so their
  elements are not freed before the cache is destroyed.
- `Restore`: `removeProbe()` never sets the second byte and writes
  `0F 00 44 00 00`, not the NOP the wrapper had.
- `SoftirqSpin`: `queue_lock` and `stats_lock` are plain spin locks taken in softirq
  and process context; a callback that interrupts the holder on its own CPU never
  finishes.

The same models show more with other constants, kept out of the runs:
`PromptTurnOn = FALSE` violates `TimerRunsWhileOn` (a callback between arming the
timer and setting `working` does not re-arm); `max_calls_monitor > IntMax`
violates `EveryCallReturns` (the quota may become zero or negative);
`CacheFaults = TRUE` violates `TurnOffCompletes` (the result of `init_queue()` is
ignored, and a caller killed by the missing cache is counted for ever); `Preemptible = TRUE`
violates `UnloadSafe` (a thread preempted in the trampoline is not counted and
not waited for); `Hooks` alone with two members of `Admin` violates `HooksTracked`
(two ioctls through one shared open file are not serialised);
`OpenDuringInit = TRUE` violates `ResourcesFollowWorking`, `NoMisuse`, `NothingLeft`
and `ResultExact` (a TURN_ON between `device_create()` and the end of
`sysThrot_init()` makes a second slab cache and sets up the armed timer again, or is
undone, or makes `insmod` fail and free a module with a running timer); `StoreFaults = TRUE` violates `NoMisuse`
(the result of `init_sysThrot_store()` is ignored and the freed store is used).

Smaller observations. Callers released by turning off leave no statistics.
Registering a program with an empty name reports success and does nothing. After a
failed `sysThrot_init()` the store is not freed (`NothingLeft` says so). A refused
opener lowers `dev_available` for a moment, so two openers can refuse each other
although the device is free. `worker_job()` of `client` compares the result of
libc's `syscall()` with `-EAGAIN`; a failed call returns -1 with `errno`, so its
report counts aborted calls as OK.

## Proofs

Everything below holds for every value of the constants that the named assumptions
(`ConstantsAssumption`, `HooksAssumption`, ...) allow, and for any number of threads,
administrators, writers, readers, items and syscalls.

`ThrottleLemmas` and `ThrottleProofs`: `TypeOK`, `QuotaRespected`, `NoFreeRide`, `NoUseAfterFree`,
`NoLostWakeup`, `DrainedWhenOff`, `ElementOwnership`, `QueueCount`,
`CounterBalanced`, and, assuming `PromptTurnOn`, `TimerRunsWhileOn`. They follow from
one inductive invariant, `IInv`: the properties depend on each other. `TypeOK` needs
`CounterBalanced` (a decrement is never below zero). `QuotaRespected` is not
inductive: `BudgetOK` adds that tokens already admitted plus those left never exceed
the quota, and that `unqueue()` grants at most the quota. `NoUseAfterFree` needs
`Placement` (where a thread's element is and that it is not marked exited) and
`ElementOwnership`, so that `free_junk()` frees nothing a thread still holds.
`NoFreeRide` needs `FlagsOK` (which flags can be "off" while `working`) and
`DrainedWhenOff`, which needs that the administrator cannot pass the drain while a
counted thread is inside. `Phases` ties `working`, the timer and the administrator's
place together. `ThrottleLemmas` has the steps of the parts that need no ownership.

`CuckooProofs`: `StoredOnce`, `LookupExact`, `HeapExact`, `InsertIsNew` and the
refinement `ImplementsRegistry`, for any hash functions, table size and number of
kicks. The invariant `MapInv` says that every stored item is in one of its own two
buckets, none in both, and that the clone, the item in hand and the published map
together account for every copy on the heap. It is what makes an eviction harmless:
clone and item in hand together always hold the old items and the new one.

`RcuProofs`: `NoUseAfterFree`, `Ownership`, `NoLeak`, `LookupJustified` and the
refinement `UpdatesAtomic`. `StoreInv` says who owns each map (published, a clone of
the writer with the mutex, or an old map that waits for its grace period), that a
reader that may still use an old map is among those the grace period waits for, and
that an answer read from a map was right when the map was read.

`HooksProofs`: on a kernel without preemption (`~Preemptible`), and as long as no
two ioctls overlap (`Serialized`), `HooksTracked`, `NoDanglingHook`, `UnloadSafe`.
The invariant ties each actor's place to text and bitmap, the counter to the threads
that are counted, and the phase of cleanup to what can no longer happen: after the
drain every thread in the trampoline is one the grace period waits for. `OnePass` is
why cleanup may ignore what `removeProbe()` returns: of the bits its loop has been at,
only the one it is removing is still set.

`LifecycleProofs`: every behaviour of `Lifecycle` is one of `Hooks`
(`LifecycleImplementsHooks`); the device lets one process in (`OneOpener`), so
`Serialized` holds and with it the three properties of `Hooks`
(`LifecycleTracksHooks`, `LifecycleLeavesNoHook`, `LifecycleUnloadSafe`). These assume
`~Preemptible` and `~OpenDuringInit`. `ResourcesFollowWorking`,
`NoMisuse`, `NothingLeft` and `ResultExact` assume `~StoreFaults`, too; none assumes
that `init_queue()` succeeds, so `ResourcesFollowWorking` does not say that throttling
has a cache while it is on. `LifeInv` adds to
the invariant of `Hooks` what is held at each step of init and cleanup (`ResInv`),
that `dev_available` counts the holders (`DeviceInv`), and what the one ioctl in
progress has done so far (`ConfigInv`): only the process that has the device open
changes the configuration.

`ClientProofs`: `LifeTypeOK` and `AllUndone`, under the same three assumptions.
`AllUndone` is about the end of whole programs, so its invariant `ClientInv` follows a
program through its calls: `StatusInv` says that what a client has left is a rest of its
script and that the call in progress is the first of it; `ForceInv` that a client goes
on only when what its call asks for is the case, whoever brought that about (the errors
it accepts say no less than success); `FreshInv` that no client has got anywhere while
the module is loading; and `UndoneInv` that what is set up although some client has
taken it back was set up by another one, which has still to take it back or has failed.
When all clients have ended well nobody is left to blame, so nothing is set up.
Registering the empty name is left out of `AllUndone` because it does nothing, so that
no configuration is without it.

`StatProofs`: `TypeOK`, `TotalExact`, `WindowExact`, `RowConsistent` and
`TraversalExact`, for any ring length, any delays, any number of epochs, events and
syscalls, and any modulus `UINT` above twice the ring length. The invariant `StatInv`
says of each entry (`Sound`) that in every slot of the ring the blocked time is at most
the calls times the peak delay, the same of the running epoch, that `sum_ctx` is at
most the number of epochs times the peak, and that the window's calls are at most
`total_blocked`; without these `RowConsistent` is not inductive, since a fold moves
numbers from the running epoch into the ring. `SlotOf` shows that the unsigned index of
`history_slot()` never wraps; `SlotsShift` that a fold appends one slot to the window
and, once the ring is full, drops the oldest. The loop of `my_seq_show()` is `SumTo`, a
recursive function. What it computes is proved by induction in the form of a set that
contains 0 and is closed under successor (`SetInduction`, from the least element of a
well-founded relation), because the library's induction theorems take an operator.

In each module the invariant holds initially, one lemma per conjunct or per action
shows that a step keeps it, and `PTL` closes the theorems. `QueueCount`,
`InsertIsNew` and the types of `CuckooMap` and `RcuStore` are proved and not checked
by a run of their own.

Model-checked only: all liveness (`EveryCallReturns`, `TurnOffCompletes`,
`ExitedReclaimed`, `UpdateReturns`, `RmmodCompletes`, `CallReturns`).
Fairness and `ENABLED` are out of the prover's reach.

## Not modelled

- Logging is a `printk()` wrapper, and the table of syscalls is generated at build
  time; both hold no state.
- The load loop of `client` makes syscalls like any thread of `Throttle` and only
  counts results. `read` through `cat` is the command "read" of `Lifecycle`.
- The patch by clearing `CR0.WP` is compiled out by default. Saving of registers,
  memory ordering between CPUs and execution of a wrapper's first bytes while they
  are patched are below the level of the models.
- Ioctls that run at once through one open file that several tasks share.
- In `StatMonitor`, the task that had the peak delay, `AVG/EPOCH` and the layout of
  the rows.
- A token counter decremented 2^31 times within an epoch: all negative counts are
  one in `Throttle`. The listings stop at 64 programs; in `RcuStore` they copy the
  map they read.
- One model of everything: `Throttle`, `RcuStore` and `Lifecycle` together are out of
  TLC's reach. They meet at few points, each of which one of them leaves open: the
  registration test (a free choice in `Throttle`), the sleep in `stub()` (free in
  `Hooks` while throttling is on) and the update of the store (one step in
  `Lifecycle`, what `UpdatesAtomic` shows of `RcuStore`).
