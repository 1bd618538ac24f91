----------------------------- MODULE HooksProofs ----------------------------
(***************************************************************************)
(* Hooks for any number of threads and syscalls: if no two ioctls overlap, *)
(* the bitmap tracks the hooks, and a kernel without preemption never      *)
(* frees the module under a thread.  LifecycleProofs shows that the device *)
(* file keeps ioctls apart.                                                *)
(***************************************************************************)
EXTENDS Hooks, FiniteSetTheorems, TLAPS

\* No two processes are in installProbe() or removeProbe() at a time.
Serialized == \A a, b \in Admin : apc[a] # "idle" /\ apc[b] # "idle" => a = b

\* When an actor is at work.
Phases ==
    /\ \A a \in Admin : apc[a] # "idle" => module = "loaded"
    /\ apc[Rmmod] \in {"idle", "unhook", "read_clear", "clear"}
    /\ apc[Rmmod] # "idle" => module = "unhook"

\* What an actor at work knows about its syscall.
Knows(a) ==
    apc[a] # "idle" =>
        /\ asys[a] \in Syscall
        /\ asys[a] \in bitmap <=> apc[a] \in {"unhook", "read_clear", "clear"}
        /\ text[asys[a]] = Call <=> apc[a] \in {"unhook", "read_set", "set"}
        /\ apc[a] \in {"set", "clear"} => byte[a] = bitmap

\* The syscalls whose text and bit an actor has still to bring together.
Open == {asys[a] : a \in {x \in Actor : apc[x] # "idle"}}

Tracked ==
    /\ \A a \in Actor : Knows(a)
    /\ \A s \in Syscall \ Open : s \in bitmap <=> text[s] = Call
    /\ module \in {"drain", "sync", "gone", "coming"} => \A s \in Syscall : text[s] # Call

Counted == {t \in Thread : tpc[t] \in IsCounted}

\* Where threads may be as cleanup goes on.
Drains ==
    /\ stub_counter = Cardinality(Counted)
    /\ module \in {"unhook", "drain", "sync"} => ~working
    /\ module = "sync" => \A t \in Thread : tpc[t] # "out" => t \in grace
    /\ module \in {"gone", "coming"} => \A t \in Thread : tpc[t] = "out"

\* The loop of cleanup leaves no bit behind: of those it has been at, only
\* the one it is removing may be set.
OnePass ==
    /\ module # "unhook" => visited = {}
    /\ \A s \in bitmap \cap visited : apc[Rmmod] # "idle" /\ s = asys[Rmmod]

HooksInv == TypeOK /\ Phases /\ Tracked /\ Drains /\ OnePass

-----------------------------------------------------------------------------
\* The three instructions differ in their first bytes.
LEMMA Distinct == Nop # Call /\ Restore # Call
<1>1. Restore[1] = 15 BY DEF Restore
<1>2. Call[1] = 232 /\ Nop[1] = 15 BY DEF Call, Nop
<1>. QED BY <1>1, <1>2

\* Counted is finite, and how the counter follows it.
LEMMA CountedFinite ==
    /\ IsFiniteSet(Counted)
    /\ Cardinality(Counted) \in Nat
BY HooksAssumption, FS_Subset, FS_CardinalityType DEF Counted

\* The initial state: throttling is on and nothing is hooked.
LEMMA HooksInitial == Init => HooksInv
<1>. SUFFICES ASSUME Init PROVE HooksInv OBVIOUS
<1>1. TypeOK BY Zenon DEF Init, TypeOK, Actor, InModule
<1>2. Phases BY DEF Init, Phases, Actor
<1>3. Tracked BY Distinct DEF Init, Tracked, Knows, Open
<1>4. Counted = {} BY DEF Init, Counted, IsCounted
<1>5. Drains BY <1>4, FS_EmptySet DEF Init, Drains
<1>6. OnePass BY DEF Init, OnePass
<1>. QED BY <1>1, <1>2, <1>3, <1>5, <1>6 DEF HooksInv

\* A step that moves no thread and leaves the module's phase and working
\* alone preserves Drains.
LEMMA DrainsFrame ==
    ASSUME Drains, UNCHANGED <<tpc, stub_counter, working, module, grace>>
    PROVE  Drains'
BY DEF Drains, Counted

\* The same for the rest of the invariant, whose variables threads never
\* touch.
LEMMA TrackedFrame ==
    ASSUME Phases, Tracked, OnePass, UNCHANGED <<hookVars, actorVars, module, visited>>
    PROVE  Phases' /\ Tracked' /\ OnePass'
BY DEF Phases, Tracked, Knows, Open, OnePass, hookVars, actorVars

-----------------------------------------------------------------------------
\* An actor at work is the only one.
LEMMA Alone ==
    ASSUME Phases, Serialized, NEW a \in Actor, NEW b \in Actor,
           apc[a] # "idle", apc[b] # "idle"
    PROVE  a = b
BY DEF Phases, Serialized, Actor

\* The entry tests of installProbe() and removeProbe().
LEMMA ChecksPreserve ==
    ASSUME HooksInv, Serialized', NEW a \in Actor, NEW s \in Syscall,
           \/ a \in Admin /\ InstallCheck(a, s)
           \/ RemoveCheck(a, s)
    PROVE  HooksInv'
<1>. USE DEF HooksInv, Goto
<1>0. /\ apc[a] = "idle"
      /\ apc' = [apc EXCEPT ![a] = apc'[a]] /\ asys' = [asys EXCEPT ![a] = s]
      /\ \/ apc'[a] = "resolve" /\ a \in Admin /\ s \notin bitmap /\ module = "loaded"
         \/ /\ apc'[a] = "unhook" /\ s \in bitmap
            /\ module = IF a = Rmmod THEN "unhook" ELSE "loaded"
      /\ \/ UNCHANGED visited /\ module = "loaded"
         \/ visited' = visited \cup {s} /\ a = Rmmod
      /\ UNCHANGED <<hookVars, byte, tpc, stub_counter, working, module, grace>>
  BY DEF InstallCheck, RemoveCheck, TypeOK
<1>1. TypeOK' BY <1>0 DEF TypeOK, hookVars
<1>2. Phases' BY <1>0, HooksAssumption DEF Phases, TypeOK, Actor
<1>3. \A b \in Actor : b # a => apc[b] = "idle" /\ apc'[b] = "idle"
  BY <1>0, <1>2, Alone, HooksAssumption DEF TypeOK, Phases, Serialized, Actor
<1>4. Open = {} BY <1>0, <1>3 DEF Open
<1>5. \A r \in Syscall : r \in bitmap <=> text[r] = Call BY <1>4 DEF Tracked
<1>6. \A b \in Actor : Knows(b)' BY <1>0, <1>3, <1>5 DEF Knows, hookVars, TypeOK
<1>7. Tracked' BY <1>0, <1>5, <1>6 DEF Tracked, hookVars
<1>8. Drains' BY <1>0, DrainsFrame
<1>9. OnePass' BY <1>0, HooksAssumption DEF OnePass, TypeOK, hookVars
<1>. QED BY <1>1, <1>2, <1>7, <1>8, <1>9

\* The loop of cleanup ends a removal with the bit cleared.
LEMMA PassPreserved ==
    ASSUME HooksInv, NEW a \in Actor, ActorStep(a)
    PROVE  OnePass'
<1>. USE DEF HooksInv
<1>1. apc[a] # "idle" /\ UNCHANGED <<module, visited>>
  BY DEF ActorStep, Resolve, Hook, Unhook, ReadByte, WriteByte
<1>2. CASE module # "unhook" BY <1>1, <1>2 DEF OnePass
<1>3. CASE module = "unhook"
  <2>1. a = Rmmod /\ apc[a] \in {"unhook", "read_clear", "clear"}
    BY <1>1, <1>3 DEF Phases, Actor
  <2>2. CASE Unhook(a) \/ ReadByte(a)
    <3>1. UNCHANGED <<bitmap, asys>> /\ apc'[a] # "idle"
      BY <2>1, <2>2 DEF Unhook, ReadByte, Goto, TypeOK, hookVars
    <3>. QED BY <1>1, <1>3, <2>1, <3>1 DEF OnePass
  <2>3. CASE WriteByte(a)
    <3>1. bitmap' = bitmap \ {asys[a]}
      BY <2>1, <2>3 DEF WriteByte, Tracked, Knows
    <3>. QED BY <1>1, <1>3, <2>1, <3>1 DEF OnePass
  <2>. QED BY <2>1, <2>2, <2>3 DEF ActorStep, Resolve, Hook
<1>. QED BY <1>2, <1>3

\* The rest of installProbe() and removeProbe().
LEMMA ActorStepPreserves ==
    ASSUME HooksInv, Serialized, NEW a \in Actor, ActorStep(a)
    PROVE  HooksInv'
<1>. USE DEF HooksInv, Goto, Done
<1>0. /\ apc[a] # "idle"
      /\ UNCHANGED <<tpc, stub_counter, working, module, visited, grace>>
  BY DEF ActorStep, Resolve, Hook, Unhook, ReadByte, WriteByte
<1>1. Drains' /\ OnePass' BY <1>0, DrainsFrame, PassPreserved
<1>2. \A b \in Actor : b # a => apc[b] = "idle" BY <1>0, Alone
<1>3. asys[a] \in Syscall /\ Knows(a) BY <1>0 DEF Tracked, Knows
<1>4. Open = {asys[a]} BY <1>0, <1>2 DEF Open
<1>5. module \in {"loaded", "unhook"} BY <1>0 DEF Phases, Actor
<1>6. SUFFICES /\ TypeOK'
               /\ \A b \in Actor : b # a => apc'[b] = "idle"
               /\ a = Rmmod => apc'[a] \in {"idle", "unhook", "read_clear", "clear"}
               /\ Knows(a)'
               /\ \A s \in Syscall : s # asys[a] \/ apc'[a] = "idle" =>
                     (s \in bitmap' <=> text'[s] = Call)
               /\ apc'[a] # "idle" => asys'[a] = asys[a]
  <2>1. Phases' BY <1>0, <1>6 DEF Phases, Actor, TypeOK
  <2>2. Tracked' BY <1>0, <1>5, <1>6 DEF Tracked, Open, Knows
  <2>. QED BY <1>1, <1>6, <2>1, <2>2
<1>7. \A s \in Syscall \ {asys[a]} : s \in bitmap <=> text[s] = Call BY <1>4 DEF Tracked
<1>8. a = Rmmod => apc[a] \in {"unhook", "read_clear", "clear"} BY <1>0 DEF Phases
<1>9. CASE Resolve(a)
  BY <1>2, <1>3, <1>7, <1>8, <1>9 DEF Resolve, TypeOK, Knows
<1>10. CASE Hook(a)
  <2>1. CASE Patch(asys[a], Call) /\ Goto(a, "read_set") /\ UNCHANGED <<asys, byte>>
    BY <1>2, <1>3, <1>7, <1>8, <1>10, <2>1 DEF Hook, Patch, TypeOK, Knows
  <2>2. CASE Done(a) /\ UNCHANGED <<text, poke_resolved>>
    BY <1>2, <1>3, <1>7, <1>8, <1>10, <2>2 DEF Hook, TypeOK, Knows
  <2>. QED BY <1>10, <2>1, <2>2 DEF Hook
<1>11. CASE Unhook(a)
  BY <1>2, <1>3, <1>7, <1>8, <1>11, Distinct DEF Unhook, Patch, TypeOK, Knows
<1>12. CASE ReadByte(a)
  BY <1>2, <1>3, <1>7, <1>8, <1>12 DEF ReadByte, TypeOK, Knows, hookVars
<1>13. CASE WriteByte(a)
  BY <1>2, <1>3, <1>7, <1>8, <1>13 DEF WriteByte, TypeOK, Knows
<1>. QED BY <1>9, <1>10, <1>11, <1>12, <1>13 DEF ActorStep

\* A thread's way through the trampoline.
LEMMA ThreadPreserves ==
    ASSUME HooksInv, NEW t \in Thread,
           ThreadStep(t) \/ Sleep(t) \/ \E s \in Syscall : EnterTrampoline(t, s)
    PROVE  HooksInv'
<1>. USE DEF HooksInv, Move
<1>0. UNCHANGED <<hookVars, actorVars, working, module, visited>>
  BY DEF ThreadStep, Count, WakeUp, StubReturns, Uncount, Ret, Sleep, EnterTrampoline
<1>1. Phases' /\ Tracked' /\ OnePass' BY <1>0, TrackedFrame
<1>2. SUFFICES TypeOK' /\ Drains' BY <1>1
<1>3. IsFiniteSet(Counted) /\ Cardinality(Counted) \in Nat /\ stub_counter = Cardinality(Counted)
  BY CountedFinite DEF Drains
<1>4. CASE Count(t)
  <2>1. t \notin Counted /\ Counted' = Counted \cup {t}
    BY <1>4 DEF Count, Counted, IsCounted, TypeOK
  <2>2. Cardinality(Counted') = Cardinality(Counted) + 1 BY Zenon, <1>3, <2>1, FS_AddElement
  <2>. QED BY <1>0, <1>3, <1>4, <2>2 DEF Count, TypeOK, Drains, hookVars, actorVars, InModule
<1>5. CASE Uncount(t)
  <2>1. t \in Counted /\ Counted' = Counted \ {t}
    BY <1>5 DEF Uncount, Counted, IsCounted, TypeOK
  <2>2. Cardinality(Counted') = Cardinality(Counted) - 1 /\ Cardinality(Counted') \in Nat
    BY <1>3, <2>1, FS_RemoveElement, FS_CardinalityType
  <2>. QED BY <1>0, <1>3, <1>5, <2>2 DEF Uncount, TypeOK, Drains, hookVars, actorVars, InModule
<1>6. CASE WakeUp(t) \/ StubReturns(t) \/ Ret(t) \/ Sleep(t)
                     \/ \E s \in Syscall : EnterTrampoline(t, s)
  <2>1. Counted' = Counted
    BY <1>6 DEF WakeUp, StubReturns, Ret, Sleep, EnterTrampoline, Counted, IsCounted, TypeOK
  <2>2. TypeOK'
    BY <1>0, <1>6 DEF WakeUp, StubReturns, Ret, Sleep, EnterTrampoline, TypeOK,
       hookVars, actorVars, InModule
  <2>3. CASE WakeUp(t) \/ StubReturns(t) \/ Ret(t)
    BY <1>0, <2>1, <2>2, <2>3 DEF WakeUp, StubReturns, Ret, Drains, TypeOK
  <2>4. CASE Sleep(t)
    BY <1>0, <2>1, <2>2, <2>4 DEF Sleep, Drains, TypeOK
  <2>5. CASE \E s \in Syscall : EnterTrampoline(t, s)
    BY <1>0, <2>1, <2>2, <2>5 DEF EnterTrampoline, Drains, TypeOK, Tracked
  <2>. QED BY <1>6, <2>2, <2>3, <2>4, <2>5
<1>. QED BY <1>4, <1>5, <1>6 DEF ThreadStep

\* The phases of the module's life, from rmmod to the next insmod.
LEMMA PhasesPreserve ==
    ASSUME HooksInv, ~Preemptible,
           \/ StartCleanup \/ AllRemoved \/ Drained \/ Unload \/ Load \/ ResetValues
           \/ \E b \in BOOLEAN : LoadReturns(b) \/ SetWorking(b)
    PROVE  HooksInv'
<1>. USE DEF HooksInv
<1>1. UNCHANGED <<text, actorVars, tpc>> /\ Counted' = Counted
  BY DEF StartCleanup, AllRemoved, Drained, Unload, Load, ResetValues, LoadReturns,
     SetWorking, hookVars, Counted
<1>2. stub_counter = Cardinality(Counted) /\ IsFiniteSet(Counted) BY CountedFinite DEF Drains
<1>3. CASE StartCleanup
  <2>1. \A a \in Actor : apc[a] = "idle" BY <1>3 DEF StartCleanup, Phases, Actor
  <2>2. OnePass' BY <1>3 DEF StartCleanup, OnePass, hookVars, actorVars
  <2>. QED BY Zenon, <1>1, <1>3, <2>1, <2>2 DEF StartCleanup, TypeOK, Phases, Tracked, Knows,
           Open, Drains, hookVars, actorVars, Actor
<1>4. CASE AllRemoved
  <2>1. \A a \in Actor : apc[a] = "idle" BY <1>4 DEF AllRemoved, Phases, Actor
  <2>2. Open = {} BY <2>1 DEF Open
  <2>3. bitmap = {} BY <1>4 DEF AllRemoved, OnePass
  <2>4. OnePass' BY <1>4, <2>3 DEF AllRemoved, OnePass
  <2>. QED BY <1>1, <1>4, <2>1, <2>2, <2>3, <2>4 DEF AllRemoved, TypeOK, Phases, Tracked, Knows,
           Open, Drains, hookVars, actorVars, Actor
<1>5. CASE Drained
  <2>1. Counted = {}
    BY <1>2, <1>5, FS_EmptySet, CountedFinite DEF Drained
  <2>2. \A t \in Thread : tpc[t] # "out" => t \in grace'
    BY <1>5, <2>1 DEF Drained, Running, Counted, IsCounted, InModule, TypeOK
  <2>3. Phases' /\ Tracked'
    BY <1>1, <1>5 DEF Drained, Phases, Tracked, Knows, Open, hookVars, actorVars, Actor
  <2>4. TypeOK' BY <1>1, <1>5 DEF Drained, TypeOK, Running, hookVars, actorVars
  <2>5. OnePass' BY <1>5 DEF Drained, OnePass
  <2>. QED BY <1>1, <1>5, <2>2, <2>3, <2>4, <2>5 DEF Drained, Drains
<1>6. CASE Unload
  <2>1. Phases' /\ Tracked'
    BY <1>1, <1>6 DEF Unload, Phases, Tracked, Knows, Open, hookVars, actorVars, Actor
  <2>2. TypeOK' BY <1>1, <1>6 DEF Unload, TypeOK, hookVars, actorVars
  <2>3. OnePass' BY <1>6 DEF Unload, OnePass
  <2>. QED BY <1>1, <1>6, <2>1, <2>2, <2>3 DEF Unload, GraceOver, Drains
<1>7. CASE Load \/ ResetValues
  <2>1. \A a \in Actor : apc[a] = "idle"
    BY <1>7 DEF Load, ResetValues, Phases, Actor
  <2>2. Counted = {} BY <1>7 DEF Load, ResetValues, Drains, Counted, IsCounted
  <2>3. Phases' BY <1>1, <2>1 DEF Phases, actorVars, Actor
  <2>4. Open = {} /\ Open' = {} BY <1>1, <2>1 DEF Open, actorVars
  <2>5. Tracked'
    BY <1>1, <1>7, <2>1, <2>4 DEF Load, ResetValues, Tracked, Knows, hookVars, actorVars
  <2>6. TypeOK'
    <3>1. CASE Load BY Zenon, <1>1, <3>1 DEF Load, TypeOK, actorVars
    <3>2. CASE ResetValues BY Zenon, <1>1, <3>2 DEF ResetValues, TypeOK, hookVars, actorVars
    <3>. QED BY <1>7, <3>1, <3>2
  <2>7. OnePass' BY <1>7 DEF Load, ResetValues, OnePass
  <2>. QED BY <1>1, <1>7, <2>2, <2>3, <2>5, <2>6, <2>7, FS_EmptySet DEF Load, ResetValues, Drains
<1>8. ASSUME NEW b \in BOOLEAN, LoadReturns(b) \/ SetWorking(b) PROVE HooksInv'
  <2>1. Phases' /\ Tracked'
    BY <1>1, <1>8 DEF LoadReturns, SetWorking, Phases, Tracked, Knows, Open, hookVars,
       actorVars, Actor
  <2>2. TypeOK' BY <1>1, <1>8 DEF LoadReturns, SetWorking, TypeOK, hookVars, actorVars
  <2>3. Drains' BY <1>1, <1>8 DEF LoadReturns, SetWorking, Drains
  <2>4. OnePass' BY <1>8 DEF LoadReturns, SetWorking, OnePass, hookVars, actorVars
  <2>. QED BY <2>1, <2>2, <2>3, <2>4
<1>. QED BY <1>3, <1>4, <1>5, <1>6, <1>7, <1>8

\* Every step preserves the invariant while ioctls do not overlap.
LEMMA HooksStep ==
    ASSUME HooksInv, Serialized, Serialized', ~Preemptible, [Next]_vars
    PROVE  HooksInv'
<1>1. CASE UNCHANGED vars
  <2>1. UNCHANGED <<hookVars, actorVars, tpc, stub_counter, working, module, visited, grace>>
    BY <1>1 DEF vars
  <2>2. Drains' BY <2>1, DrainsFrame DEF HooksInv
  <2>3. Phases' /\ Tracked' /\ OnePass' BY <2>1, TrackedFrame DEF HooksInv
  <2>4. TypeOK' BY <2>1 DEF HooksInv, TypeOK, hookVars, actorVars
  <2>. QED BY <2>2, <2>3, <2>4 DEF HooksInv
<1>2. CASE \E a \in Actor : ActorStep(a) BY <1>2, ActorStepPreserves
<1>3. CASE \E a \in Actor, s \in Syscall :
              (a \in Admin /\ InstallCheck(a, s)) \/ RemoveCheck(a, s)
  BY <1>3, ChecksPreserve
<1>4. CASE \E t \in Thread : ThreadStep(t) \/ Sleep(t)
                              \/ \E s \in Syscall : EnterTrampoline(t, s)
  BY <1>4, ThreadPreserves
<1>5. CASE \/ StartCleanup \/ AllRemoved \/ Drained \/ Unload \/ Load \/ ResetValues
           \/ \E b \in BOOLEAN : LoadReturns(b) \/ SetWorking(b)
  BY <1>5, PhasesPreserve
<1>6. CASE DrainWait BY <1>1, <1>6 DEF DrainWait
<1>. QED BY <1>1, <1>2, <1>3, <1>4, <1>5, <1>6 DEF Next, CleanupStep, Actor

\* What the invariant is for.
LEMMA HooksInvImplies ==
    HooksInv => TypeOK /\ HooksTracked /\ NoDanglingHook /\ UnloadSafe
<1>. SUFFICES ASSUME HooksInv PROVE HooksTracked /\ NoDanglingHook /\ UnloadSafe
  BY DEF HooksInv
<1>1. HooksTracked
  <2>. SUFFICES ASSUME \A a \in Actor : apc[a] = "idle"
                PROVE  bitmap = {s \in Syscall : text[s] = Call}
    BY DEF HooksTracked
  <2>1. Open = {} BY DEF Open
  <2>. QED BY <2>1 DEF HooksInv, Tracked, TypeOK
<1>. QED BY <1>1 DEF HooksInv, Tracked, Drains, NoDanglingHook, UnloadSafe

\* sysThrot.c: with ioctls kept apart, and on a kernel that does not preempt
\* kernel code, the bitmap names exactly the hooked wrappers, cleanup leaves
\* no wrapper that calls the module, and frees no text a thread is in.
THEOREM HooksSafety ==
    ASSUME ~Preemptible
    PROVE  Spec /\ []Serialized => [](TypeOK /\ HooksTracked /\ NoDanglingHook /\ UnloadSafe)
<1>1. HooksInv /\ Serialized /\ Serialized' /\ [Next]_vars => HooksInv' BY HooksStep
<1>. QED BY HooksInitial, HooksInvImplies, <1>1, PTL DEF Spec
=============================================================================
