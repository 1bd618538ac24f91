----------------------------- MODULE Lifecycle ------------------------------
(***************************************************************************)
(* The life of the module and the administrators that drive it: the steps  *)
(* of sysThrot_init() and sysThrot_cleanup() with what they acquire and    *)
(* release, the device file and its one opener, the ioctl dispatch, and    *)
(* the user-space programs: systhrot sends one command, client runs the    *)
(* sequences of setup_throttle() and teardown_throttle().                  *)
(*                                                                         *)
(* It is built on Hooks: every step is a step of Hooks or leaves Hooks'    *)
(* variables alone.  An update of the store is one step here; RcuStore and *)
(* CuckooMap model its inside.                                             *)
(***************************************************************************)
EXTENDS Hooks, Sequences

CONSTANTS
    Item,           \* user ids and program names
    EmptyName,      \* the program name of length zero
    Users, Programs, Syscalls, \* client's arguments, as sequences
    Operator,       \* the processes that run systhrot, too
    CliCommand,     \* the commands systhrot is given
    OpenDuringInit, \* is the device opened before insmod has returned?
    StoreFaults     \* may init_sysThrot_store() run out of memory?

Cmd(op, arg) == [op |-> op, arg |-> arg]
NoCmd == Cmd("none", NoSyscall)

\* The calls of setup_throttle() and teardown_throttle(), in order.
Each(op, args) == [i \in 1..Len(args) |-> Cmd(op, args[i])]

Setup == Each("register", Users) \o Each("register", Programs)
         \o Each("hook", Syscalls) \o <<Cmd("on", NoSyscall)>>

Teardown == <<Cmd("off", NoSyscall)>> \o Each("unhook", Syscalls)
            \o Each("deregister", Programs) \o Each("deregister", Users)

Command == CliCommand \cup {(Setup \o Teardown)[i] : i \in 1..Len(Setup \o Teardown)}

ASSUME LifecycleAssumption ==
    /\ OpenDuringInit \in BOOLEAN /\ StoreFaults \in BOOLEAN
    /\ IsFiniteSet(Admin)
    /\ Users \in Seq(Item) /\ Programs \in Seq(Item) /\ Syscalls \in Seq(Syscall)
    /\ CliCommand \subseteq [op : {"hook", "unhook"}, arg : Syscall]
                      \cup [op : {"register", "deregister"}, arg : Item]
                      \cup [op : {"on", "off", "read"}, arg : {NoSyscall}]

VARIABLES
    dev_available,  \* the atomic counter behind sysThrot_open()
    registered,     \* users and programs in the store
    res,            \* what the loaded module has acquired
    caches,         \* slab caches created and not yet destroyed
    misuse,         \* what was used or released without being held, or set
                    \* up while it was in use
    ipc,            \* the next step of sysThrot_init()
    upc, cmd, result, \* processes: position in a call, command, its result
    before,         \* the configuration when the ioctl began
    todo, status    \* clients: the calls left, how the run stands

deviceVars == <<dev_available, registered, res, caches, misuse, ipc>>
procVars == <<upc, cmd, result, before, todo, status>>
lifeVars == <<vars, deviceVars, procVars>>

\* What the commands configure.
Configuration == [items |-> registered, hooks |-> bitmap, on |-> working]
NoConfiguration == [items |-> {}, hooks |-> {}, on |-> FALSE]

\* Positions at which the process has the file open, and at which it is in
\* sysThrot_open(), where the kernel already counts it as a user.
IsOpen == {"opened", "hooking", "on_set", "off_rest", "close"}
Holders == {p \in Admin : upc[p] \in IsOpen \cup {"busy"}}

LifeInit ==
    /\ Init
    /\ dev_available = 1
    /\ registered = {}
    /\ res = {"store", "region", "cdev", "class", "device", "proc", "timer", "cache"}
    /\ caches = 1
    /\ misuse = {}
    /\ ipc = "none"
    /\ upc = [p \in Admin |-> "idle"]
    /\ cmd = [p \in Admin |-> NoCmd]
    /\ result = [p \in Admin |-> "none"]
    /\ before = [p \in Admin |-> NoConfiguration]
    /\ todo = [p \in Admin |-> <<>>]
    /\ status = [p \in Admin |-> "new"]

\* kfree(), cdev_del(), remove_proc_entry() ... of the resources in S.
Release(S) ==
    /\ res' = res \ S
    /\ misuse' = misuse \cup (S \ res)

-----------------------------------------------------------------------------
(***************************************************************************)
(* sysThrot_init(): device_driver_init() and sysThrot_statmonitor_init()   *)
(* acquire in this order, and undo what they acquired when a step fails.   *)
(***************************************************************************)
After == [store |-> "region", region |-> "cdev", cdev |-> "class",
          class |-> "device", device |-> "proc", proc |-> "values"]

\* device_driver_cleanup()
Driver == {"cdev", "device", "class", "region"}

\* Fault: the error path of device_create() forgets the class.
Faulty_Unwind(step) ==
    CASE step = "class" -> {"cdev", "region"}
      [] step = "device" -> {"cdev", "region"}
      [] step = "proc" -> Driver
      [] OTHER -> {}

Unwind(step) ==
    CASE step = "region" -> {}
      [] step = "cdev" -> {"region"}
      [] step = "class" -> {"cdev", "region"}
      [] step = "device" -> {"class", "cdev", "region"}
      [] step = "proc" -> Driver
      [] step = "turn_on" -> {"proc"} \cup Driver

\* insmod.  Whatever a client found out about the last module is stale.
Insmod ==
    /\ Load
    /\ ipc' = "store"
    /\ res' = {}
    /\ status' = [p \in Admin |-> IF todo[p] = <<>> THEN "new" ELSE "void"]
    /\ UNCHANGED <<dev_available, registered, caches, misuse, upc, cmd, result, before, todo>>

\* The result of init_sysThrot_store() is ignored.  When it cannot allocate
\* a map it frees the store and leaves the pointer to it.
InitStore ==
    /\ ipc = "store"
    /\ res' \in {res \cup {"store"}} \cup (IF StoreFaults THEN {res} ELSE {})
    /\ registered' = {}
    /\ ipc' = After[ipc]
    /\ UNCHANGED <<vars, dev_available, caches, misuse, procVars>>

Acquire ==
    /\ ipc \in DOMAIN After \ {"store"}
    /\ res' = res \cup {ipc}
    /\ ipc' = After[ipc]
    /\ UNCHANGED <<vars, dev_available, registered, caches, misuse, procVars>>

\* The steps that can fail; sysThrot_turn_on() does when it is already on.
InitFails ==
    /\ \/ ipc \in DOMAIN After \ {"store"}
       \/ ipc = "turn_on" /\ working
    /\ LoadReturns(FALSE)
    /\ Release(Unwind(ipc))
    /\ ipc' = "failed"
    /\ UNCHANGED <<dev_available, registered, caches, procVars>>

InitValues ==
    /\ ipc = "values"
    /\ ResetValues
    /\ ipc' = "turn_on"
    /\ UNCHANGED <<dev_available, registered, res, caches, misuse, procVars>>

\* init_queue() overwrites queue_cache, and its failure, which leaves NULL
\* there, is ignored.  timer_setup() then makes the timer a fresh one, so
\* mod_timer() never finds it pending.
ArmTimer ==
    /\ \/ caches' = caches + 1 /\ res' = res \cup {"timer", "cache"}
       \/ UNCHANGED caches /\ res' = (res \ {"cache"}) \cup {"timer"}
    /\ misuse' = misuse \cup (res \cap {"timer"})

InitTurnOn ==
    /\ ipc = "turn_on"
    /\ ~working
    /\ ArmTimer
    /\ ipc' = "on_set"
    /\ UNCHANGED <<vars, dev_available, registered, procVars>>

InitOnSet ==
    /\ ipc = "on_set"
    /\ SetWorking(TRUE)
    /\ ipc' = "return"
    /\ UNCHANGED <<dev_available, registered, res, caches, misuse, procVars>>

InitReturns ==
    /\ ipc = "return"
    /\ LoadReturns(TRUE)
    /\ ipc' = "none"
    /\ UNCHANGED <<dev_available, registered, res, caches, misuse, procVars>>

InitStep ==
    /\ module = "coming"
    /\ \/ InitStore
       \/ Acquire
       \/ InitFails
       \/ InitValues
       \/ InitTurnOn
       \/ InitOnSet
       \/ InitReturns

-----------------------------------------------------------------------------
(***************************************************************************)
(* User space: each function of user/lib opens the device, sends one ioctl *)
(* and closes it.                                                          *)
(***************************************************************************)
\* The errors after which setup_throttle() and teardown_throttle() go on.
Accepts(op) ==
    CASE op \in {"register", "hook", "unhook"} -> {"EEXIST"}
      [] op \in {"on", "off"} -> {"EALREADY"}
      [] op = "deregister" -> {"EEXIST", "EALREADY", "EINVAL"}

\* Fault: the client goes on after any error.
Faulty_GoesOn(p, r) == TRUE

GoesOn(p, r) == r \in {"ok"} \cup Accepts(cmd[p].op)

\* The library function returns r; client goes on or exits.
Return(p, r) ==
    /\ upc' = [upc EXCEPT ![p] = "idle"]
    /\ cmd' = [cmd EXCEPT ![p] = NoCmd]
    /\ result' = [result EXCEPT ![p] = "none"]
    /\ before' = [before EXCEPT ![p] = NoConfiguration]
    /\ IF todo[p] = <<>> THEN UNCHANGED <<todo, status>>
       ELSE LET left == IF GoesOn(p, r) THEN Tail(todo[p]) ELSE <<>> IN
            /\ todo' = [todo EXCEPT ![p] = left]
            /\ status' = [status EXCEPT ![p] =
                  IF ~GoesOn(p, r) THEN "void"
                  ELSE IF left = <<>> /\ @ = "running" THEN "done" ELSE @]

StartClient(p) ==
    /\ upc[p] = "idle"
    /\ status[p] = "new"
    /\ todo' = [todo EXCEPT ![p] = Setup \o Teardown]
    /\ status' = [status EXCEPT ![p] = "running"]
    /\ UNCHANGED <<vars, deviceVars, upc, cmd, result, before>>

Start(p, c) ==
    /\ upc[p] = "idle"
    /\ upc' = [upc EXCEPT ![p] = "open"]
    /\ cmd' = [cmd EXCEPT ![p] = c]
    /\ UNCHANGED <<vars, deviceVars, result, before, todo, status>>

StartCli(p) == p \in Operator /\ todo[p] = <<>> /\ \E c \in CliCommand : Start(p, c)
ClientCall(p) == todo[p] # <<>> /\ Start(p, Head(todo[p]))

-----------------------------------------------------------------------------
(***************************************************************************)
(* The device file.  The kernel takes a reference to the module before it  *)
(* calls sysThrot_open() and refuses once unloading has begun.             *)
(***************************************************************************)
CanOpen ==
    /\ "device" \in res
    /\ module = "loaded" \/ (OpenDuringInit /\ module = "coming")

OpenFails(p) ==
    /\ upc[p] = "open"
    /\ ~CanOpen
    /\ Return(p, "ENOENT")
    /\ UNCHANGED <<vars, deviceVars>>

\* Fault: the counter is tested before it is lowered.
Faulty_Free == dev_available >= 0

\* atomic_dec_and_test()
Free == dev_available - 1 = 0

sysThrot_open(p) ==
    /\ upc[p] = "open"
    /\ CanOpen
    /\ dev_available' = dev_available - 1
    /\ upc' = [upc EXCEPT ![p] = IF Free THEN "opened" ELSE "busy"]
    /\ UNCHANGED <<vars, registered, res, caches, misuse, ipc, cmd, result, before, todo, status>>

\* -EBUSY
OpenBusy(p) ==
    /\ upc[p] = "busy"
    /\ dev_available' = dev_available + 1
    /\ Return(p, "EBUSY")
    /\ UNCHANGED <<vars, registered, res, caches, misuse, ipc>>

\* close() of the library: sysThrot_release().
sysThrot_release(p) ==
    /\ upc[p] = "close"
    /\ dev_available' = dev_available + 1
    /\ Return(p, result[p])
    /\ UNCHANGED <<vars, registered, res, caches, misuse, ipc>>

-----------------------------------------------------------------------------
(***************************************************************************)
(* sysThrot_ioctl() and sysThrot_read().  Goes(p, l, r) takes the process  *)
(* to label l with result r.                                               *)
(***************************************************************************)
Goes(p, label, r) ==
    /\ upc' = [upc EXCEPT ![p] = label]
    /\ result' = [result EXCEPT ![p] = r]
    /\ UNCHANGED <<dev_available, ipc, cmd, todo, status>>

Begins(p, ops) ==
    /\ upc[p] = "opened"
    /\ cmd[p].op \in ops
    /\ before' = [before EXCEPT ![p] = Configuration]

\* check_root_user().  Anyone may run systhrot; client is run by root.
NotRoot(p) ==
    /\ Begins(p, {cmd[p].op})
    /\ todo[p] = <<>>
    /\ Goes(p, "close", "EPERM")
    /\ UNCHANGED <<vars, registered, res, caches, misuse>>

\* kmalloc(), copy_from_user() or strncpy_from_user() fails, or the store's
\* copy-on-write runs out of memory or of buckets.
IoctlFails(p) ==
    /\ Begins(p, {"register", "deregister", "hook", "unhook", "read"})
    /\ Goes(p, "close", "error")
    /\ UNCHANGED <<vars, registered, res, caches, misuse>>

UsesStore == misuse' = misuse \cup ({"store"} \ res)

sysThrot_read(p) ==
    /\ Begins(p, {"read"})
    /\ UsesStore
    /\ Goes(p, "close", "ok")
    /\ UNCHANGED <<vars, registered, res, caches>>

\* sysThrot_register_user() and sysThrot_register_program().  An empty name
\* makes strncpy_from_user() return 0, which is returned.
Register(p) ==
    /\ Begins(p, {"register"})
    /\ LET i == cmd[p].arg IN
       IF i = EmptyName
       THEN /\ Goes(p, "close", "ok")
            /\ UNCHANGED <<registered, misuse>>
       ELSE /\ registered' = registered \cup {i}
            /\ UsesStore
            /\ Goes(p, "close", IF i \in registered THEN "EEXIST" ELSE "ok")
    /\ UNCHANGED <<vars, res, caches>>

\* sysThrot_deregister_user() and sysThrot_deregister_program().
Deregister(p) ==
    /\ Begins(p, {"deregister"})
    /\ LET i == cmd[p].arg IN
       IF i = EmptyName
       THEN /\ Goes(p, "close", "ok")
            /\ UNCHANGED <<registered, misuse>>
       ELSE /\ registered' = registered \ {i}
            /\ UsesStore
            /\ Goes(p, "close", IF i \in registered THEN "ok" ELSE "EINVAL")
    /\ UNCHANGED <<vars, res, caches>>

\* installProbe() and removeProbe(): the test that may refuse, and the
\* steps of Hooks up to the return.
HookRefused(p) ==
    /\ Begins(p, {"hook", "unhook"})
    /\ (cmd[p].arg \in bitmap) = (cmd[p].op = "hook")
    /\ Goes(p, "close", "EEXIST")
    /\ UNCHANGED <<vars, registered, res, caches, misuse>>

HookBegins(p) ==
    /\ Begins(p, {"hook", "unhook"})
    /\ IF cmd[p].op = "hook" THEN InstallCheck(p, cmd[p].arg)
                             ELSE RemoveCheck(p, cmd[p].arg)
    /\ Goes(p, "hooking", "none")
    /\ UNCHANGED <<registered, res, caches, misuse>>

HookStep(p) ==
    /\ upc[p] = "hooking"
    /\ ActorStep(p)
    /\ IF apc'[p] # "idle" THEN Goes(p, "hooking", "none")
       ELSE Goes(p, "close", IF apc[p] \in {"set", "clear"} THEN "ok" ELSE "error")
    /\ UNCHANGED <<registered, res, caches, misuse, before>>

\* sysThrot_turn_on() and sysThrot_turn_off() return -EALREADY.
TurnRefused(p) ==
    /\ Begins(p, {"on", "off"})
    /\ working = (cmd[p].op = "on")
    /\ Goes(p, "close", "EALREADY")
    /\ UNCHANGED <<vars, registered, res, caches, misuse>>

TurnOn(p) ==
    /\ Begins(p, {"on"})
    /\ ~working
    /\ ArmTimer
    /\ Goes(p, "on_set", "none")
    /\ UNCHANGED <<vars, registered>>

OnSet(p) ==
    /\ upc[p] = "on_set"
    /\ SetWorking(TRUE)
    /\ Goes(p, "close", "ok")
    /\ UNCHANGED <<registered, res, caches, misuse, before>>

TurnOff(p) ==
    /\ Begins(p, {"off"})
    /\ working
    /\ SetWorking(FALSE)
    /\ Goes(p, "off_rest", "none")
    /\ UNCHANGED <<registered, res, caches, misuse>>

\* Fault: destroy_queue() is not called.
Faulty_DestroyQueue == caches

\* destroy_queue(): kmem_cache_destroy() does nothing when queue_cache is
\* NULL.  A cache counts as destroyed once it was handed over, although the
\* kernel keeps one that still has objects (NothingLeakedAtOff in Throttle).
DestroyQueue == IF "cache" \in res THEN caches - 1 ELSE caches

\* timer_shutdown_sync(), the wait for the callers, destroy_queue().
DropTimer ==
    /\ res' = res \ {"timer", "cache"}
    /\ misuse' = misuse \cup ({"timer"} \ res)
    /\ caches' = DestroyQueue

\* Fault: it waits for the threads in the trampoline, which keep coming.
Faulty_OffRest(p) ==
    /\ upc[p] = "off_rest"
    /\ stub_counter = 0
    /\ DropTimer
    /\ Goes(p, "close", "ok")
    /\ UNCHANGED <<vars, registered, before>>

OffRest(p) ==
    /\ upc[p] = "off_rest"
    /\ DropTimer
    /\ Goes(p, "close", "ok")
    /\ UNCHANGED <<vars, registered, before>>

ProcStep(p) ==
    /\ upc[p] # "idle"
    /\ \/ OpenFails(p)
       \/ sysThrot_open(p)
       \/ OpenBusy(p)
       \/ sysThrot_release(p)
       \/ NotRoot(p)
       \/ IoctlFails(p)
       \/ sysThrot_read(p)
       \/ Register(p)
       \/ Deregister(p)
       \/ HookRefused(p)
       \/ HookBegins(p)
       \/ HookStep(p)
       \/ TurnRefused(p)
       \/ TurnOn(p)
       \/ OnSet(p)
       \/ TurnOff(p)
       \/ OffRest(p)

-----------------------------------------------------------------------------
(***************************************************************************)
(* sysThrot_cleanup(), and all together.                                   *)
(***************************************************************************)
\* Fault: rmmod does not wait for the device to be closed.
Faulty_Unused == TRUE

Unused == Holders = {}

\* rmmod; sysThrot_turn_off() comes first.
Rmmods ==
    /\ Unused
    /\ StartCleanup
    /\ IF working THEN DropTimer ELSE UNCHANGED <<res, misuse, caches>>
    /\ UNCHANGED <<dev_available, registered, ipc, procVars>>

\* destroy_sysThrot_store(), device_driver_cleanup(), sysThrot_statmonitor_exit()
Cleaned ==
    /\ Unload
    /\ Release({"store", "proc"} \cup Driver)
    /\ registered' = {}
    /\ UNCHANGED <<dev_available, caches, ipc, procVars>>

LifeCleanupStep ==
    /\ module \in {"unhook", "drain", "sync"}
    /\ \/ Cleaned
       \/ /\ \/ ActorStep(Rmmod)
             \/ \E s \in Syscall : RemoveCheck(Rmmod, s)
             \/ AllRemoved
             \/ Drained
          /\ UNCHANGED <<deviceVars, procVars>>

CallerStep(t) == tpc[t] # "out" /\ ThreadStep(t) /\ UNCHANGED <<deviceVars, procVars>>

LifeNext ==
    \/ \E p \in Admin : StartClient(p) \/ StartCli(p) \/ ClientCall(p) \/ ProcStep(p)
    \/ \E t \in Thread :
          \/ CallerStep(t)
          \/ /\ Sleep(t) \/ \E s \in Syscall : EnterTrampoline(t, s)
             /\ UNCHANGED <<deviceVars, procVars>>
    \/ Insmod
    \/ InitStep
    \/ Rmmods
    \/ LifeCleanupStep
    \/ DrainWait /\ UNCHANGED <<deviceVars, procVars>>

LifeSpec == LifeInit /\ [][LifeNext]_lifeVars

\* A process that has made a call, the threads in the kernel, insmod and
\* rmmod keep running: no thread is killed, and the timer callback that wakes
\* the blocked ones does not spin for ever.
LifeFairSpec ==
    /\ LifeSpec
    /\ \A p \in Admin : WF_lifeVars(ProcStep(p))
    /\ \A t \in Thread : WF_lifeVars(CallerStep(t))
    /\ WF_lifeVars(InitStep)
    /\ WF_lifeVars(LifeCleanupStep)

-----------------------------------------------------------------------------
\* Types; one slab cache at most.
LifeTypeOK ==
    /\ TypeOK
    /\ dev_available \in 1 - Cardinality(Admin) .. 1
    /\ res \subseteq {"store", "proc", "timer", "cache"} \cup Driver
    /\ caches \in 0..1
    /\ ipc \in DOMAIN After \cup {"values", "turn_on", "on_set", "return", "none", "failed"}
    /\ upc \in [Admin -> IsOpen \cup {"idle", "open", "busy"}]
    /\ cmd \in [Admin -> Command \cup {NoCmd}]
    /\ result \in [Admin -> {"none", "ok", "EPERM", "EEXIST", "EINVAL", "EALREADY", "error"}]
    /\ status \in [Admin -> {"new", "running", "done", "void"}]

\* The device has one opener at a time, so ioctls are serialized, and the
\* counter comes back to one: a refused open costs the device nothing.
OneOpener ==
    /\ Cardinality({p \in Admin : upc[p] \in IsOpen}) <= 1
    /\ dev_available = 1 - Cardinality(Holders)

\* Outside turn_on and turn_off the timer is armed exactly while throttling
\* is on, and the only slab cache is the one queue_cache points to, with none
\* while throttling is off: no sequence of commands, failures of init_queue()
\* and reloads overwrites the pointer to a cache, destroys one twice or
\* forgets one.  (Throttling may be on without a cache: nobody looks at the
\* result of init_queue().)
ResourcesFollowWorking ==
    (/\ \A p \in Admin : upc[p] \notin {"on_set", "off_rest"}
     /\ ipc # "on_set") =>
        /\ ("timer" \in res) = working
        /\ "cache" \in res => working
        /\ caches = IF "cache" \in res THEN 1 ELSE 0

\* Nothing is used or released that is not held, and no armed timer is set
\* up again.  (What callers do with the slab cache is Throttle's.)
NoMisuse == misuse = {}

\* A module that is gone has released what sysThrot_init() and the commands
\* acquired, and has handed its slab cache to kmem_cache_destroy().  When
\* sysThrot_init() failed the store alone is left.
NothingLeft ==
    module = "gone" =>
        /\ res = IF ipc = "failed" /\ "store" \in res THEN {"store"} ELSE {}
        /\ caches = 0
        /\ Holders = {}

\* The configuration a successful command leaves.
Effect(c, before_) ==
    CASE c.op = "register" /\ c.arg # EmptyName -> [before_ EXCEPT !.items = @ \cup {c.arg}]
      [] c.op = "deregister" -> [before_ EXCEPT !.items = @ \ {c.arg}]
      [] c.op = "hook" -> [before_ EXCEPT !.hooks = @ \cup {c.arg}]
      [] c.op = "unhook" -> [before_ EXCEPT !.hooks = @ \ {c.arg}]
      [] c.op \in {"on", "off"} -> [before_ EXCEPT !.on = (c.op = "on")]
      [] OTHER -> before_

\* A command reports exactly what it did: on success its effect and nothing
\* else has happened since the ioctl began, on an error nothing has.
ResultExact ==
    \A p \in Admin : upc[p] = "close" =>
        Configuration = IF result[p] = "ok" THEN Effect(cmd[p], before[p]) ELSE before[p]

\* client --setup --teardown undoes all it did: when every client that ran
\* has ended well, nothing one of them set up is left, however their calls
\* and those of systhrot interleaved.  (Registering the empty name does
\* nothing, and what systhrot is told to set up it may leave.)
AllUndone ==
    (/\ \E p \in Admin : status[p] = "done"
     /\ \A p \in Admin : status[p] \in {"new", "done"}) =>
        \A i \in 1..Len(Setup) :
            Setup[i] \notin CliCommand \cup {Cmd("register", EmptyName)} =>
                Effect(Setup[i], Configuration) # Configuration

\* init_queue() has not failed.  When it has, a caller that is to be queued
\* may be killed inside stub(), and turning off waits for it in vain.
CachePresent == "timer" \in res => "cache" \in res

\* Every call of the library returns, unless init_queue() fails: a device
\* call, however its steps and those of the others interleave, comes to the
\* close() that lets the next opener in.
CallReturns == []CachePresent => \A p \in Admin : upc[p] = "open" ~> upc[p] = "idle"

\* rmmod finishes, unless init_queue() fails: sysThrot_cleanup() removes the
\* hooks, and the loop on sysThrot_stub_counter ends although threads entered
\* the trampoline until the last hook was gone.
RmmodCompletes == []CachePresent => UnloadCompletes
=============================================================================
