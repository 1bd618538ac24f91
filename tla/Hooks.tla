------------------------------- MODULE Hooks --------------------------------
(***************************************************************************)
(* The syscall hooks of sysThrot.c: installProbe() and removeProbe() patch *)
(* the entry of a syscall wrapper and keep a bitmap of the hooked ones,    *)
(* threads go through stub_trampoline, and sysThrot_cleanup() removes the  *)
(* hooks, drains the threads and lets the module's text be freed.          *)
(*                                                                         *)
(* The inside of stub() is Throttle.  Here it is entered, may sleep while  *)
(* throttling is on, and returns.                                          *)
(***************************************************************************)
EXTENDS Integers, FiniteSets

CONSTANTS
    Syscall,    \* supported syscalls, whose bits share a byte of the bitmap
    Thread,     \* threads that make syscalls
    Admin,      \* processes that send (de)register ioctls
    Rmmod,      \* the thread that unloads the module
    NoSyscall,
    Preemptible \* may the kernel preempt a thread that runs kernel code?

Actor == Admin \cup {Rmmod}

ASSUME HooksAssumption ==
    /\ IsFiniteSet(Thread)
    /\ Rmmod \notin Admin
    /\ NoSyscall \notin Syscall
    /\ Preemptible \in BOOLEAN

VARIABLES
    text,           \* the five bytes at the entry of each wrapper
    bitmap,         \* syscall_presence_bitmap
    addresses,      \* the syscalls with a cached address
    poke_resolved,  \* smp_text_poke_single_fn is set
    apc, asys, byte, \* actors: position, syscall, value read from the bitmap
    tpc,            \* where each thread is in the trampoline
    stub_counter,   \* sysThrot_stub_counter
    working,
    module,         \* life of the module
    visited,        \* the syscalls whose hook the loop of cleanup removed
    grace           \* threads synchronize_rcu() waits for

hookVars == <<text, bitmap, addresses, poke_resolved>>
actorVars == <<apc, asys, byte>>
vars == <<hookVars, actorVars, tpc, stub_counter, working, module, visited, grace>>

\* Instructions, by their bytes; the displacement of the call is left out.
Nop == <<15, 31, 68, 0, 0>>
Call == <<232, 0, 0, 0, 0>>

\* call_instruction of removeProbe(): zeroed, then four bytes are set.
Restore == [i \in 1..5 |-> CASE i = 1 -> 15 [] i = 3 -> 68 [] OTHER -> 0]

\* Trampoline positions at which a thread executes text of the module, and
\* those at which the counter includes it.
InModule == {"entered", "stub", "asleep", "leaving", "ret"}
IsCounted == {"stub", "asleep", "leaving"}

Init ==
    /\ text = [s \in Syscall |-> Nop]
    /\ bitmap = {}
    /\ addresses = {}
    /\ poke_resolved = FALSE
    /\ apc = [a \in Actor |-> "idle"]
    /\ asys = [a \in Actor |-> NoSyscall]
    /\ byte = [a \in Actor |-> {}]
    /\ tpc = [t \in Thread |-> "out"]
    /\ stub_counter = 0
    /\ working = TRUE
    /\ module = "loaded"
    /\ visited = {}
    /\ grace = {}

-----------------------------------------------------------------------------
(***************************************************************************)
(* installProbe() and removeProbe().                                       *)
(***************************************************************************)
Goto(a, label) == apc' = [apc EXCEPT ![a] = label]

Done(a) ==
    /\ Goto(a, "idle")
    /\ asys' = [asys EXCEPT ![a] = NoSyscall]
    /\ byte' = [byte EXCEPT ![a] = {}]

\* The test at the top of installProbe(); -EEXIST changes nothing.
InstallCheck(a, s) ==
    /\ module = "loaded"
    /\ apc[a] = "idle"
    /\ s \notin bitmap
    /\ Goto(a, "resolve")
    /\ asys' = [asys EXCEPT ![a] = s]
    /\ UNCHANGED <<hookVars, byte, tpc, stub_counter, working, module, visited, grace>>

\* A temporary kprobe finds the address, unless it is cached.
Resolve(a) ==
    /\ apc[a] = "resolve"
    /\ \/ /\ addresses' = addresses \cup {asys[a]}
          /\ Goto(a, "hook")
          /\ UNCHANGED <<asys, byte>>
       \/ /\ asys[a] \notin addresses
          /\ Done(a)
          /\ UNCHANGED addresses
    /\ UNCHANGED <<text, bitmap, poke_resolved, tpc, stub_counter, working, module, visited, grace>>

\* apply_smp_patch() fails only while its symbols cannot be resolved.
Patch(s, insn) ==
    /\ poke_resolved' = TRUE
    /\ text' = [text EXCEPT ![s] = insn]

Hook(a) ==
    /\ apc[a] = "hook"
    /\ \/ Patch(asys[a], Call) /\ Goto(a, "read_set") /\ UNCHANGED <<asys, byte>>
       \/ ~poke_resolved /\ Done(a) /\ UNCHANGED <<text, poke_resolved>>
    /\ UNCHANGED <<bitmap, addresses, tpc, stub_counter, working, module, visited, grace>>

\* The test at the top of removeProbe().  A hooked syscall has its address
\* cached and the patching symbols resolved, so from here on it cannot fail.
\* The loop of sysThrot_cleanup() calls it once for each set bit.
RemoveCheck(a, s) ==
    /\ module = (IF a = Rmmod THEN "unhook" ELSE "loaded")
    /\ apc[a] = "idle"
    /\ s \in bitmap
    /\ Goto(a, "unhook")
    /\ asys' = [asys EXCEPT ![a] = s]
    /\ IF a = Rmmod THEN s \notin visited /\ visited' = visited \cup {s}
                    ELSE UNCHANGED visited
    /\ UNCHANGED <<hookVars, byte, tpc, stub_counter, working, module, grace>>

\* Fault: the patch fails and removeProbe() returns an error, which the loop
\* of sysThrot_cleanup() ignores.
Faulty_Unhook(a) ==
    /\ apc[a] = "unhook"
    /\ Done(a)
    /\ UNCHANGED <<hookVars, tpc, stub_counter, working, module, visited, grace>>

Unhook(a) ==
    /\ apc[a] = "unhook"
    /\ Patch(asys[a], Restore)
    /\ Goto(a, "read_clear")
    /\ UNCHANGED <<bitmap, addresses, asys, byte, tpc, stub_counter, working, module, visited, grace>>

\* |= and &= on a byte of the bitmap read it and write it back.
ReadByte(a) ==
    /\ apc[a] \in {"read_set", "read_clear"}
    /\ byte' = [byte EXCEPT ![a] = bitmap]
    /\ Goto(a, IF apc[a] = "read_set" THEN "set" ELSE "clear")
    /\ UNCHANGED <<hookVars, asys, tpc, stub_counter, working, module, visited, grace>>

\* Fault: installProbe() does not record the hook.
Faulty_WriteByte(a) ==
    /\ apc[a] \in {"set", "clear"}
    /\ bitmap' = IF apc[a] = "set" THEN byte[a] ELSE byte[a] \ {asys[a]}
    /\ Done(a)
    /\ UNCHANGED <<text, addresses, poke_resolved, tpc, stub_counter, working, module, visited, grace>>

WriteByte(a) ==
    /\ apc[a] \in {"set", "clear"}
    /\ bitmap' = IF apc[a] = "set" THEN byte[a] \cup {asys[a]}
                                   ELSE byte[a] \ {asys[a]}
    /\ Done(a)
    /\ UNCHANGED <<text, addresses, poke_resolved, tpc, stub_counter, working, module, visited, grace>>

ActorStep(a) ==
    \/ Resolve(a)
    \/ Hook(a)
    \/ Unhook(a)
    \/ ReadByte(a)
    \/ WriteByte(a)

-----------------------------------------------------------------------------
(***************************************************************************)
(* A thread in stub_trampoline.                                            *)
(***************************************************************************)
Move(t, label) ==
    /\ tpc' = [tpc EXCEPT ![t] = label]
    /\ UNCHANGED <<hookVars, actorVars, working, module, visited>>

\* The wrapper of s calls the trampoline.
EnterTrampoline(t, s) ==
    /\ tpc[t] = "out"
    /\ text[s] = Call
    /\ Move(t, "entered")
    /\ UNCHANGED <<stub_counter, grace>>

\* lock incl, then the call of stub().
Count(t) ==
    /\ tpc[t] = "entered"
    /\ stub_counter' = stub_counter + 1
    /\ Move(t, "stub")
    /\ UNCHANGED grace

\* stub() blocks the thread; a context switch is a quiescent state.
Sleep(t) ==
    /\ tpc[t] = "stub"
    /\ working
    /\ Move(t, "asleep")
    /\ grace' = grace \ {t}
    /\ UNCHANGED stub_counter

WakeUp(t) ==
    /\ tpc[t] = "asleep"
    /\ Move(t, "stub")
    /\ UNCHANGED <<stub_counter, grace>>

\* stub() returns zero or an error.
StubReturns(t) ==
    /\ tpc[t] = "stub"
    /\ Move(t, "leaving")
    /\ UNCHANGED <<stub_counter, grace>>

\* Fault: the path that returns an error does not lower the counter.
Faulty_Uncount(t) ==
    /\ tpc[t] = "leaving"
    /\ stub_counter' \in {stub_counter, stub_counter - 1}
    /\ Move(t, "ret")
    /\ UNCHANGED grace

\* lock decl, on either path.
Uncount(t) ==
    /\ tpc[t] = "leaving"
    /\ stub_counter' = stub_counter - 1
    /\ Move(t, "ret")
    /\ UNCHANGED grace

\* ret, into the wrapper or past it.
Ret(t) ==
    /\ tpc[t] = "ret"
    /\ Move(t, "out")
    /\ grace' = grace \ {t}
    /\ UNCHANGED stub_counter

ThreadStep(t) ==
    \/ Count(t)
    \/ WakeUp(t)
    \/ StubReturns(t)
    \/ Uncount(t)
    \/ Ret(t)

-----------------------------------------------------------------------------
(***************************************************************************)
(* sysThrot_cleanup().                                                     *)
(***************************************************************************)
\* An open device holds a reference to the module, so no ioctl is running.
\* sysThrot_turn_off() comes first; how it drains is Throttle's.
StartCleanup ==
    /\ module = "loaded"
    /\ \A a \in Admin : apc[a] = "idle"
    /\ working' = FALSE
    /\ module' = "unhook"
    /\ UNCHANGED <<hookVars, actorVars, tpc, stub_counter, visited, grace>>

\* The one pass over the bitmap is done, whatever removeProbe() returned: no
\* bit that is set is still ahead of it.
AllRemoved ==
    /\ module = "unhook"
    /\ apc[Rmmod] = "idle"
    /\ bitmap \subseteq visited
    /\ module' = "drain"
    /\ visited' = {}
    /\ UNCHANGED <<hookVars, actorVars, tpc, stub_counter, working, grace>>

\* On a kernel without preemption, synchronize_rcu() waits until each thread
\* that runs kernel code has switched context or left the kernel.  With
\* preemption it waits for RCU readers, and the trampoline is none.
Running == {t \in Thread : tpc[t] \in InModule \ {"asleep"}}

\* The loop on sysThrot_stub_counter ends and synchronize_rcu() starts.
Drained ==
    /\ module = "drain"
    /\ stub_counter <= 0
    /\ grace' = IF Preemptible THEN {} ELSE Running
    /\ module' = "sync"
    /\ UNCHANGED <<hookVars, actorVars, tpc, stub_counter, working, visited>>

\* The loop goes round while threads are in the stub.
DrainWait ==
    /\ module = "drain"
    /\ stub_counter > 0
    /\ UNCHANGED vars

\* Fault: synchronize_rcu() is left out.
Faulty_GraceOver == TRUE

GraceOver == grace = {}

\* The store, the device and the statistics are destroyed, and the kernel
\* frees the module.
Unload ==
    /\ module = "sync"
    /\ GraceOver
    /\ module' = "gone"
    /\ UNCHANGED <<hookVars, actorVars, tpc, stub_counter, working, visited, grace>>

-----------------------------------------------------------------------------
(***************************************************************************)
(* sysThrot_init(), and working as the other components set it.            *)
(***************************************************************************)
\* The module is loaded again, with fresh data.
Load ==
    /\ module = "gone"
    /\ module' = "coming"
    /\ working' = FALSE
    /\ stub_counter' = 0
    /\ bitmap' = {}
    /\ addresses' = {}
    /\ poke_resolved' = FALSE
    /\ UNCHANGED <<text, actorVars, tpc, visited, grace>>

\* sysThrot_init() returns; after an error the module is freed at once.
LoadReturns(ok) ==
    /\ module = "coming"
    /\ module' = IF ok THEN "loaded" ELSE "gone"
    /\ UNCHANGED <<hookVars, actorVars, tpc, stub_counter, working, visited, grace>>

\* The assignments of sysThrot_init().
ResetValues ==
    /\ module = "coming"
    /\ working' = FALSE
    /\ stub_counter' = 0
    /\ UNCHANGED <<hookVars, actorVars, tpc, module, visited, grace>>

\* sysThrot_turn_on() and sysThrot_turn_off() assign working.
SetWorking(on) ==
    /\ module \in {"coming", "loaded"}
    /\ working' = on
    /\ UNCHANGED <<hookVars, actorVars, tpc, stub_counter, module, visited, grace>>

CleanupStep ==
    \/ ActorStep(Rmmod)
    \/ \E s \in Syscall : RemoveCheck(Rmmod, s)
    \/ AllRemoved
    \/ Drained
    \/ Unload

Next ==
    \/ \E a \in Admin : \/ ActorStep(a)
                        \/ \E s \in Syscall : InstallCheck(a, s) \/ RemoveCheck(a, s)
    \/ \E t \in Thread : \/ ThreadStep(t)
                         \/ Sleep(t)
                         \/ \E s \in Syscall : EnterTrampoline(t, s)
    \/ CleanupStep
    \/ DrainWait
    \/ StartCleanup
    \/ Load
    \/ ResetValues
    \/ \E b \in BOOLEAN : LoadReturns(b) \/ SetWorking(b)

Spec == Init /\ [][Next]_vars

-----------------------------------------------------------------------------
\* Types; stub_counter is never negative.
TypeOK ==
    /\ text \in [Syscall -> {Nop, Call, Restore}]
    /\ bitmap \in SUBSET Syscall
    /\ addresses \in SUBSET Syscall
    /\ poke_resolved \in BOOLEAN
    /\ apc \in [Actor -> {"idle", "resolve", "hook", "unhook", "read_set",
                          "read_clear", "set", "clear"}]
    /\ asys \in [Actor -> Syscall \cup {NoSyscall}]
    /\ byte \in [Actor -> SUBSET Syscall]
    /\ tpc \in [Thread -> InModule \cup {"out"}]
    /\ stub_counter \in Nat
    /\ working \in BOOLEAN
    /\ module \in {"coming", "loaded", "unhook", "drain", "sync", "gone"}
    /\ visited \in SUBSET Syscall
    /\ grace \in SUBSET Thread

\* Between two operations the bitmap names exactly the wrappers that call
\* the trampoline, whatever failed on the way.
HooksTracked ==
    (\A a \in Actor : apc[a] = "idle") =>
        bitmap = {s \in Syscall : text[s] = Call}

\* Once cleanup waits for the threads, no wrapper calls the module: the one
\* pass over the bitmap, which ignores the results of removeProbe(), has
\* removed every hook.
NoDanglingHook ==
    module \in {"drain", "sync", "gone"} => \A s \in Syscall : text[s] # Call

\* The module's text is freed with no thread in the trampoline or the stub:
\* the counter covers the threads that may sleep, and synchronize_rcu() the
\* few instructions before it is raised and after it is lowered.
UnloadSafe == module = "gone" => \A t \in Thread : tpc[t] = "out"

\* Removing the hook of a syscall puts back the bytes it replaced.
TextRestored ==
    (\A a \in Actor : apc[a] = "idle") =>
        \A s \in Syscall \ bitmap : text[s] = Nop

\* rmmod finishes: the hooks come off and the stubs drain.
UnloadCompletes == module = "unhook" ~> module = "gone"
=============================================================================
