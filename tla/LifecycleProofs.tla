--------------------------- MODULE LifecycleProofs --------------------------
(***************************************************************************)
(* Lifecycle for any set of administrators, threads, syscalls and any      *)
(* commands: every step of it is a step of Hooks, the device file keeps    *)
(* ioctls apart, and so what HooksProofs shows holds of the whole.         *)
(*                                                                         *)
(* The argument is one inductive invariant in five parts: the commands are *)
(* well formed, the counter of sysThrot_open() counts the holders of the   *)
(* device and one of them at most has it open, Hooks' own invariant, what  *)
(* is held at each step of init and cleanup, and what the one ioctl in     *)
(* progress has done so far.                                               *)
(***************************************************************************)
EXTENDS Lifecycle, HooksProofs

\* The commands processes hold and clients have still to send.
CommandInv ==
    /\ cmd \in [Admin -> Command \cup {NoCmd}]
    /\ todo \in [Admin -> Seq(Command)]

UserPc == IsOpen \cup {"idle", "open", "busy"}

DeviceInv ==
    /\ upc \in [Admin -> UserPc]
    /\ dev_available = 1 - Cardinality(Holders)
    /\ \A p, q \in Admin : upc[p] \in IsOpen /\ upc[q] \in IsOpen => p = q
    /\ \A p \in Admin : apc[p] # "idle" <=> upc[p] = "hooking"
    /\ module # "loaded" => Holders = {}

\* What sysThrot_init() holds when it comes to a step.
Held(step) ==
    {r \in {"store"} : step # "store"}
    \cup {r \in {"region"} : step \notin {"store", "region"}}
    \cup {r \in {"cdev"} : step \in {"class", "device", "proc"}}
    \cup {r \in {"class"} : step \in {"device", "proc"}}
    \cup {r \in {"device"} : step = "proc"}

Base == {"store", "proc"} \cup Driver
InitSteps == DOMAIN After \cup {"values", "turn_on", "on_set", "return"}

\* sysThrot_turn_on() has armed the timer, or sysThrot_turn_off() has still
\* to stop it.
Switching == ipc = "on_set" \/ \E p \in Admin : upc[p] \in {"on_set", "off_rest"}

\* What is held, by the phase of the module's life.
ResInv ==
    /\ misuse = {}
    /\ ipc \in InitSteps \cup {"none", "failed"}
    /\ ipc \in InitSteps <=> module = "coming"
    /\ ipc = "failed" => module = "gone"
    /\ working => module = "loaded" \/ ipc = "return"
    /\ ipc = "return" => working
    /\ Switching => ~working
    /\ ipc \in DOMAIN After => res = Held(ipc)
    /\ module \notin {"coming", "gone"} \/ ipc \in {"values", "turn_on", "on_set", "return"} =>
          res \ {"timer", "cache"} = Base
    /\ module = "gone" => res = IF ipc = "failed" THEN {"store"} ELSE {}
    /\ "timer" \in res <=> working \/ Switching
    /\ "cache" \in res => "timer" \in res
    /\ caches = IF "cache" \in res THEN 1 ELSE 0

\* A configuration.
Config(items, hooks, on) == [items |-> items, hooks |-> hooks, on |-> on]

\* What the ioctl of p has done so far.
Progress(p) ==
    /\ upc[p] = "hooking" =>
          /\ before[p] = Configuration
          /\ asys[p] = cmd[p].arg
          /\ cmd[p].op = IF apc[p] \in {"unhook", "read_clear", "clear"} THEN "unhook" ELSE "hook"
    /\ upc[p] = "on_set" => cmd[p].op = "on" /\ before[p] = Configuration
    /\ upc[p] = "off_rest" => cmd[p].op = "off" /\ before[p] = Config(registered, bitmap, TRUE)
    /\ upc[p] = "close" =>
          Configuration = IF result[p] = "ok" THEN Effect(cmd[p], before[p]) ELSE before[p]

Results == {"none", "ok", "EPERM", "EEXIST", "EINVAL", "EALREADY", "error"}
Configurations == [items : SUBSET Item, hooks : SUBSET Syscall, on : BOOLEAN]

ConfigInv ==
    /\ registered \subseteq Item \ {EmptyName}
    /\ before \in [Admin -> Configurations]
    /\ result \in [Admin -> Results]
    /\ \A p \in Admin : Progress(p)

-----------------------------------------------------------------------------
\* A command names a syscall if it hooks or unhooks one, an item if it
\* registers or deregisters one, and else nothing.
LEMMA CommandType ==
    /\ Setup \o Teardown \in Seq(Command)
    /\ \A c \in Command : /\ c.op \in {"hook", "unhook"} => c.arg \in Syscall
                          /\ c.op \in {"register", "deregister"} => c.arg \in Item
                          /\ c.op \in {"on", "off", "read"} => c.arg = NoSyscall
                          /\ c = Cmd(c.op, c.arg)
<1>. DEFINE Good == [op : {"hook", "unhook"}, arg : Syscall]
                    \cup [op : {"register", "deregister"}, arg : Item]
                    \cup [op : {"on", "off", "read"}, arg : {NoSyscall}]
            Script == Setup \o Teardown
<1>1. /\ Each("register", Users) \in Seq(Good) /\ Each("deregister", Users) \in Seq(Good)
      /\ Each("register", Programs) \in Seq(Good) /\ Each("deregister", Programs) \in Seq(Good)
  BY LifecycleAssumption DEF Each, Cmd
<1>2. Each("hook", Syscalls) \in Seq(Good) /\ Each("unhook", Syscalls) \in Seq(Good)
  BY LifecycleAssumption DEF Each, Cmd
<1>3. <<Cmd("on", NoSyscall)>> \in Seq(Good) /\ <<Cmd("off", NoSyscall)>> \in Seq(Good)
  BY DEF Cmd
<1>4. Script \in Seq(Good)
  <2>. HIDE DEF Good
  <2>. QED BY <1>1, <1>2, <1>3 DEF Setup, Teardown
<1>5. Script \in Seq({Script[i] : i \in 1..Len(Script)})
  <2>. HIDE DEF Script, Good
  <2>. DEFINE S == {Script[i] : i \in 1..Len(Script)}
  <2>1. Script \in [1..Len(Script) -> S] /\ Len(Script) \in Nat BY <1>4
  <2>. QED BY <2>1
<1>6. Command \subseteq Good BY <1>4, LifecycleAssumption DEF Command
<1>7. Script \in Seq(Command) BY <1>5 DEF Command
<1>8. \A c \in Good : c = Cmd(c.op, c.arg) BY DEF Cmd
<1>. QED BY <1>6, <1>7, <1>8

\* A command that begins, returns or fails keeps the commands well formed.
LEMMA CommandStep ==
    ASSUME CommandInv, [LifeNext]_lifeVars
    PROVE  CommandInv'
<1>. USE DEF CommandInv
<1>1. CASE UNCHANGED <<cmd, todo>> BY <1>1
<1>2. ASSUME NEW p \in Admin, StartClient(p) PROVE CommandInv'
  BY <1>2, CommandType DEF StartClient
<1>3. ASSUME NEW p \in Admin, StartCli(p) PROVE CommandInv'
  BY <1>3 DEF StartCli, Start, Command
<1>4. ASSUME NEW p \in Admin, ClientCall(p) PROVE CommandInv'
  BY <1>4 DEF ClientCall, Start
<1>5. ASSUME NEW p \in Admin, NEW r, Return(p, r) PROVE CommandInv'
  <2>1. cmd' \in [Admin -> Command \cup {NoCmd}] BY <1>5 DEF Return
  <2>2. CASE todo[p] = <<>> BY <1>5, <2>1, <2>2 DEF Return
  <2>3. CASE todo[p] # <<>>
    <3>1. Tail(todo[p]) \in Seq(Command) /\ <<>> \in Seq(Command) BY <2>3
    <3>2. PICK left \in Seq(Command) : todo' = [todo EXCEPT ![p] = left]
      BY Zenon, <1>5, <2>3, <3>1 DEF Return
    <3>. QED BY <2>1, <3>2
  <2>. QED BY <2>2, <2>3
<1>6. ASSUME NEW p \in Admin, ProcStep(p) PROVE CommandInv'
  BY Zenon, <1>1, <1>5, <1>6 DEF ProcStep, OpenFails, sysThrot_open, OpenBusy, sysThrot_release,
    Goes, NotRoot,
     IoctlFails, sysThrot_read, Register, Deregister, HookRefused, HookBegins, HookStep,
     TurnRefused, TurnOn, OnSet, TurnOff, OffRest
<1>7. CASE Insmod \/ InitStep \/ Rmmods \/ LifeCleanupStep
           \/ UNCHANGED <<deviceVars, procVars>> \/ UNCHANGED lifeVars
  BY Zenon, <1>1, <1>7 DEF Insmod, InitStep, InitStore, Acquire, InitFails, InitValues, InitTurnOn,
     InitOnSet, InitReturns, Rmmods, LifeCleanupStep, Cleaned, procVars, lifeVars
<1>. QED BY <1>2, <1>3, <1>4, <1>6, <1>7 DEF LifeNext, CallerStep

-----------------------------------------------------------------------------
\* Every step of Lifecycle is a step of Hooks or leaves its variables alone.
LEMMA StepImplements ==
    ASSUME CommandInv, [LifeNext]_lifeVars
    PROVE  [Next]_vars
<1>1. CASE UNCHANGED vars BY <1>1
<1>2. ASSUME NEW p \in Admin, ProcStep(p) PROVE [Next]_vars
  <2>1. CASE HookBegins(p)
    <3>1. cmd[p].arg \in Syscall
      <4>1. cmd[p].op \in {"hook", "unhook"} BY <2>1 DEF HookBegins, Begins
      <4>2. cmd[p] # NoCmd BY <4>1 DEF NoCmd, Cmd
      <4>. QED BY <4>1, <4>2, CommandType DEF CommandInv
    <3>. QED BY <2>1, <3>1 DEF HookBegins, Next
  <2>2. CASE HookStep(p) BY <2>2 DEF HookStep, Next
  <2>3. CASE OnSet(p) \/ TurnOff(p) BY Zenon, <2>3 DEF OnSet, TurnOff, Next
  <2>. QED BY Zenon, <1>1, <1>2, <2>1, <2>2, <2>3 DEF ProcStep, OpenFails, sysThrot_open, OpenBusy,
          sysThrot_release, NotRoot, IoctlFails, sysThrot_read, Register, Deregister,
          HookRefused, TurnRefused, TurnOn, OffRest
<1>3. CASE Insmod BY <1>3 DEF Insmod, Next
<1>4. CASE InitStep
  BY Zenon, <1>1, <1>4 DEF InitStep, InitStore, Acquire, InitFails, InitValues, InitTurnOn,
    InitOnSet,
     InitReturns, Next
<1>5. CASE Rmmods BY <1>5 DEF Rmmods, Next
<1>6. CASE LifeCleanupStep BY <1>6 DEF LifeCleanupStep, Cleaned, Next, CleanupStep
<1>7. ASSUME NEW t \in Thread,
             ThreadStep(t) \/ Sleep(t) \/ \E s \in Syscall : EnterTrampoline(t, s)
      PROVE  [Next]_vars
  BY <1>7 DEF Next
<1>8. CASE DrainWait BY <1>8 DEF Next
<1>9. ASSUME NEW p \in Admin, StartClient(p) \/ StartCli(p) \/ ClientCall(p) PROVE [Next]_vars
  BY <1>1, <1>9 DEF StartClient, StartCli, ClientCall, Start
<1>10. CASE UNCHANGED lifeVars BY <1>1, <1>10 DEF lifeVars
<1>. QED BY <1>2, <1>3, <1>4, <1>5, <1>6, <1>7, <1>8, <1>9, <1>10 DEF LifeNext, CallerStep

\* The initial commands.
LEMMA CommandInitial == LifeInit => CommandInv
BY DEF LifeInit, CommandInv

\* The module's life as the device, the ioctls and the user-space programs
\* drive it implements Hooks, whatever the commands: no composition of them
\* takes installProbe(), removeProbe(), the trampoline or cleanup through a
\* step Hooks does not have.
THEOREM LifecycleImplementsHooks == LifeSpec => Spec
<1>1. LifeInit => Init BY DEF LifeInit
<1>2. CommandInv /\ [LifeNext]_lifeVars => CommandInv' BY CommandStep
<1>3. CommandInv /\ [LifeNext]_lifeVars => [Next]_vars BY StepImplements
<1>. QED BY <1>1, <1>2, <1>3, CommandInitial, PTL DEF LifeSpec, Spec

-----------------------------------------------------------------------------
\* The holders are finitely many.
LEMMA HoldersFinite == IsFiniteSet(Holders) /\ Cardinality(Holders) \in Nat
BY LifecycleAssumption, FS_Subset, FS_CardinalityType DEF Holders

\* The initial device: free.
LEMMA DeviceInitial == LifeInit => DeviceInv
<1>. SUFFICES ASSUME LifeInit PROVE DeviceInv OBVIOUS
<1>1. Holders = {} BY DEF LifeInit, Holders, IsOpen
<1>2. \A p \in Admin : apc[p] = "idle" BY DEF LifeInit, Init, Actor
<1>. QED BY <1>1, <1>2, FS_EmptySet DEF LifeInit, DeviceInv, UserPc, IsOpen

\* A step that keeps the positions of processes and actors of Admin, and the
\* counter, keeps DeviceInv, if it does not leave "loaded" with holders.
LEMMA DeviceFrame ==
    ASSUME DeviceInv, UNCHANGED <<upc, dev_available>>,
           \A p \in Admin : apc'[p] = apc[p],
           module' # "loaded" => module # "loaded" \/ Holders = {}
    PROVE  DeviceInv'
<1>1. Holders' = Holders BY DEF Holders
<1>. QED BY <1>1 DEF DeviceInv

\* One process moves between positions that are both open, or both closed
\* and not in sysThrot_open().
LEMMA DeviceMove ==
    ASSUME DeviceInv, NEW p \in Admin, NEW label \in UserPc,
           upc' = [upc EXCEPT ![p] = label],
           UNCHANGED <<dev_available, module>>,
           \/ upc[p] \in IsOpen /\ label \in IsOpen
           \/ upc[p] \in {"idle", "open"} /\ label \in {"idle", "open"},
           \A q \in Admin \ {p} : apc'[q] = apc[q],
           apc'[p] # "idle" <=> label = "hooking"
    PROVE  DeviceInv'
<1>1. Holders' = Holders BY DEF Holders, DeviceInv, IsOpen
<1>2. \A q, r \in Admin : upc'[q] \in IsOpen /\ upc'[r] \in IsOpen => q = r
  BY DEF DeviceInv, IsOpen
<1>. QED BY <1>1, <1>2 DEF DeviceInv, UserPc

\* A process in sysThrot_open() or sysThrot_release().
LEMMA OpenClose ==
    ASSUME DeviceInv, ~OpenDuringInit, NEW p \in Admin,
           sysThrot_open(p) \/ OpenBusy(p) \/ sysThrot_release(p)
    PROVE  DeviceInv'
<1>. USE DEF DeviceInv, UserPc
<1>0. /\ UNCHANGED <<apc, module>>
      /\ apc[p] = "idle"
  BY DEF sysThrot_open, OpenBusy, sysThrot_release, vars, actorVars
<1>1. CASE sysThrot_open(p)
  <2>1. module = "loaded" BY <1>1 DEF sysThrot_open, CanOpen
  <2>2. p \notin Holders /\ Holders' = Holders \cup {p}
    BY <1>1 DEF sysThrot_open, Holders, IsOpen
  <2>3. Cardinality(Holders') = Cardinality(Holders) + 1 BY Zenon, <2>2, HoldersFinite,
    FS_AddElement
  <2>4. dev_available' = 1 - Cardinality(Holders') BY <1>1, <2>3, HoldersFinite DEF sysThrot_open
  <2>5. CASE Free
    <3>1. Holders = {} BY <2>5, HoldersFinite, FS_EmptySet DEF Free
    <3>. QED BY <1>0, <1>1, <2>1, <2>4, <2>5, <3>1 DEF sysThrot_open, Holders, IsOpen
  <2>6. CASE ~Free
    BY <1>0, <1>1, <2>1, <2>4, <2>6 DEF sysThrot_open, IsOpen
  <2>. QED BY <2>5, <2>6
<1>2. CASE OpenBusy(p) \/ sysThrot_release(p)
  <2>1. upc' = [upc EXCEPT ![p] = "idle"] /\ dev_available' = dev_available + 1
    BY <1>2 DEF OpenBusy, sysThrot_release, Return
  <2>2. p \in Holders /\ Holders' = Holders \ {p}
    BY Zenon, <1>2, <2>1 DEF OpenBusy, sysThrot_release, Holders, IsOpen
  <2>3. Cardinality(Holders') = Cardinality(Holders) - 1 BY <2>2, HoldersFinite, FS_RemoveElement
  <2>4. dev_available' = 1 - Cardinality(Holders') BY <2>1, <2>3, HoldersFinite
  <2>. QED BY <1>0, <2>1, <2>2, <2>4 DEF IsOpen
<1>. QED BY <1>1, <1>2

\* Every step keeps the device to one opener.
LEMMA DeviceStep ==
    ASSUME DeviceInv, HooksInv, ~OpenDuringInit, [LifeNext]_lifeVars
    PROVE  DeviceInv'
<1>1. ASSUME NEW p \in Admin, NEW l \in IsOpen, NEW r, Goes(p, l, r), l # "hooking",
             upc[p] \in IsOpen \ {"hooking"}, UNCHANGED <<apc, module>>
      PROVE  DeviceInv'
  BY Zenon, <1>1, DeviceMove DEF Goes, UserPc, DeviceInv
<1>2. ASSUME NEW p \in Admin, ProcStep(p) PROVE DeviceInv'
  <2>1. CASE OpenFails(p)
    BY Zenon, <2>1, DeviceMove DEF OpenFails, Return, UserPc, vars, actorVars, deviceVars, DeviceInv
  <2>2. CASE sysThrot_open(p) \/ OpenBusy(p) \/ sysThrot_release(p) BY <2>2, OpenClose
  <2>3. CASE NotRoot(p) \/ IoctlFails(p) \/ sysThrot_read(p) \/ HookRefused(p) \/ TurnRefused(p)
             \/ OnSet(p) \/ TurnOff(p) \/ OffRest(p)
    BY Zenon, <1>1, <2>3 DEF NotRoot, IoctlFails, sysThrot_read, HookRefused, TurnRefused, OnSet,
       TurnOff, OffRest, SetWorking, Begins, IsOpen, vars, actorVars
  <2>4. CASE Register(p) \/ Deregister(p) \/ TurnOn(p)
    BY Zenon, <1>1, <2>4 DEF Register, Deregister, TurnOn, Begins, IsOpen, vars, actorVars
  <2>5. CASE HookBegins(p)
    <3>1. /\ upc[p] = "opened" /\ upc' = [upc EXCEPT ![p] = "hooking"]
          /\ UNCHANGED <<dev_available, module>>
          /\ apc' = [apc EXCEPT ![p] = apc'[p]] /\ apc'[p] # "idle"
      BY Zenon, <2>5 DEF HookBegins, Begins, Goes, InstallCheck, RemoveCheck, Goto, HooksInv,
        TypeOK, Actor
    <3>. QED BY Zenon, <3>1, DeviceMove DEF UserPc, IsOpen, HooksInv, TypeOK, Actor
  <2>6. CASE HookStep(p)
    <3>1. /\ upc[p] = "hooking" /\ UNCHANGED <<dev_available, module>>
          /\ upc' = [upc EXCEPT ![p] = IF apc'[p] # "idle" THEN "hooking" ELSE "close"]
      BY Zenon, <2>6 DEF HookStep, Goes, ActorStep, Resolve, Hook, Unhook, ReadByte, WriteByte
    <3>2. apc' = [apc EXCEPT ![p] = apc'[p]]
      BY Zenon, <2>6 DEF HookStep, ActorStep, Resolve, Hook, Unhook, ReadByte, WriteByte, Goto,
        Done,
         HooksInv, TypeOK, Actor
    <3>. QED BY Zenon, <3>1, <3>2, DeviceMove DEF UserPc, IsOpen, HooksInv, TypeOK, Actor
  <2>. QED BY <1>2, <2>1, <2>2, <2>3, <2>4, <2>5, <2>6 DEF ProcStep
<1>3. ASSUME NEW p \in Admin, StartClient(p) \/ StartCli(p) \/ ClientCall(p) PROVE DeviceInv'
  <2>1. CASE StartClient(p)
    BY <2>1, DeviceFrame DEF StartClient, vars, actorVars, deviceVars
  <2>2. CASE \E c : Start(p, c)
    <3>1. /\ upc[p] = "idle" /\ upc' = [upc EXCEPT ![p] = "open"]
          /\ UNCHANGED <<apc, dev_available, module>>
      BY <2>2 DEF Start, vars, actorVars, deviceVars
    <3>2. apc[p] = "idle" BY <3>1 DEF DeviceInv
    <3>. QED BY Zenon, <3>1, <3>2, DeviceMove DEF UserPc
  <2>. QED BY <1>3, <2>1, <2>2 DEF StartCli, ClientCall
<1>4. CASE Insmod BY <1>4, DeviceFrame DEF Insmod, Load, actorVars
<1>5. CASE InitStep
  BY Zenon, <1>5, DeviceFrame DEF InitStep, InitStore, Acquire, InitFails, InitValues, InitTurnOn,
     InitOnSet, InitReturns, LoadReturns, ResetValues, SetWorking, vars, actorVars, procVars
<1>6. CASE Rmmods BY <1>6, DeviceFrame DEF Rmmods, Unused, StartCleanup, actorVars, procVars
<1>7. CASE LifeCleanupStep
  <2>1. UNCHANGED <<upc, dev_available>> /\ module # "loaded"
    BY <1>7 DEF LifeCleanupStep, Cleaned, deviceVars, procVars
  <2>2. \A p \in Admin : apc'[p] = apc[p]
    BY Zenon, <1>7, HooksAssumption DEF LifeCleanupStep, Cleaned, Unload, AllRemoved, Drained,
      RemoveCheck,
       ActorStep, Resolve, Hook, Unhook, ReadByte, WriteByte, Goto, Done, actorVars,
       HooksInv, TypeOK, Actor
  <2>. QED BY <2>1, <2>2, DeviceFrame
<1>8. ASSUME NEW t \in Thread, UNCHANGED <<deviceVars, procVars>>,
             ThreadStep(t) \/ Sleep(t) \/ \E s \in Syscall : EnterTrampoline(t, s)
      PROVE  DeviceInv'
  BY <1>8, DeviceFrame DEF ThreadStep, Count, WakeUp, StubReturns, Uncount, Ret, Sleep,
     EnterTrampoline, Move, actorVars, deviceVars, procVars
<1>9. CASE UNCHANGED lifeVars
  BY <1>9, DeviceFrame DEF lifeVars, vars, actorVars, deviceVars, procVars
<1>10. CASE DrainWait /\ UNCHANGED <<deviceVars, procVars>>
  BY <1>9, <1>10 DEF DrainWait, lifeVars
<1>. QED BY <1>2, <1>3, <1>4, <1>5, <1>6, <1>7, <1>8, <1>9, <1>10 DEF LifeNext, CallerStep

-----------------------------------------------------------------------------
\* Two processes in ioctls would both have the device open.
LEMMA DeviceSerializes == DeviceInv => Serialized /\ OneOpener
<1>. SUFFICES ASSUME DeviceInv PROVE Serialized /\ OneOpener OBVIOUS
<1>1. Serialized BY DEF DeviceInv, Serialized, IsOpen
<1>. DEFINE O == {p \in Admin : upc[p] \in IsOpen}
<1>2. Cardinality(O) <= 1
  <2>1. CASE O = {} BY <2>1, FS_EmptySet
  <2>2. CASE O # {}
    <3>1. PICK p \in O : O = {p} BY <2>2 DEF DeviceInv
    <3>2. Cardinality(O) = 1
      <4>. HIDE DEF O
      <4>. QED BY Zenon, <3>1, FS_Singleton
    <3>. QED BY <3>2
  <2>. QED BY <2>1, <2>2
<1>. QED BY <1>1, <1>2 DEF OneOpener, DeviceInv

\* All three parts together are inductive.
LEMMA DeviceAndHooks ==
    ASSUME ~Preemptible, ~OpenDuringInit
    PROVE  LifeSpec => [](CommandInv /\ DeviceInv /\ HooksInv)
<1>. DEFINE I == CommandInv /\ DeviceInv /\ HooksInv
<1>1. LifeInit => I BY CommandInitial, DeviceInitial, HooksInitial DEF LifeInit
<1>2. I /\ [LifeNext]_lifeVars => I'
  <2>. SUFFICES ASSUME I, [LifeNext]_lifeVars PROVE I' OBVIOUS
  <2>1. CommandInv' BY CommandStep
  <2>2. DeviceInv' BY DeviceStep
  <2>3. Serialized /\ Serialized'
    <3>1. (DeviceInv => Serialized)' BY DeviceSerializes, PTL
    <3>. QED BY <2>2, <3>1, DeviceSerializes
  <2>4. HooksInv' BY <2>3, StepImplements, HooksStep
  <2>. QED BY <2>1, <2>2, <2>4
<1>. QED BY <1>1, <1>2, PTL DEF LifeSpec

\* sysThrot_open() lets one process at a time have the device, its counter
\* counts every process between open and release, and a refused open gives
\* back what it took: for any number of processes.
THEOREM DeviceHasOneOpener ==
    ASSUME ~Preemptible, ~OpenDuringInit
    PROVE  LifeSpec => []OneOpener
BY DeviceAndHooks, DeviceSerializes, PTL

\* The bitmap names exactly the hooked wrappers between two operations, with
\* no assumption on how ioctls interleave: the device file provides it.
THEOREM LifecycleTracksHooks ==
    ASSUME ~Preemptible, ~OpenDuringInit
    PROVE  LifeSpec => []HooksTracked
BY DeviceAndHooks, HooksInvImplies, PTL

\* sysThrot_cleanup() stops waiting for threads only when no wrapper calls the
\* module any more, whatever ioctls came before it.
THEOREM LifecycleLeavesNoHook ==
    ASSUME ~Preemptible, ~OpenDuringInit
    PROVE  LifeSpec => []NoDanglingHook
BY DeviceAndHooks, HooksInvImplies, PTL

\* The module's text is freed with no thread in it.
THEOREM LifecycleUnloadSafe ==
    ASSUME ~Preemptible, ~OpenDuringInit
    PROVE  LifeSpec => []UnloadSafe
BY DeviceAndHooks, HooksInvImplies, PTL

-----------------------------------------------------------------------------
\* The initial state holds everything, the timer included.
LEMMA ResInitial == LifeInit => ResInv
BY DEF LifeInit, Init, ResInv, InitSteps, After, Base, Driver, Switching

\* A step that changes none of the variables of ResInv but the positions of
\* processes, and takes none of these into or out of a switch.
LEMMA ResFrame ==
    ASSUME ResInv, UNCHANGED <<misuse, ipc, res, caches, working>>,
           module' = module,
           \A p \in Admin : upc'[p] \in {"on_set", "off_rest"} <=> upc[p] \in {"on_set", "off_rest"}
    PROVE  ResInv'
<1>1. Switching' = Switching BY DEF Switching
<1>. QED BY <1>1 DEF ResInv, InitSteps, Base, Driver, Held

\* What an open device tells.
LEMMA WhileOpen ==
    ASSUME ResInv, DeviceInv, NEW p \in Admin, upc[p] \in IsOpen
    PROVE  /\ module = "loaded" /\ ipc = "none" /\ "store" \in res
           /\ \A q \in Admin : upc[q] \in {"on_set", "off_rest"} => q = p
<1>1. module = "loaded" BY DEF DeviceInv, Holders
<1>2. ipc = "none" BY <1>1 DEF ResInv
<1>3. "store" \in res BY <1>1 DEF ResInv, Base
<1>. QED BY <1>1, <1>2, <1>3 DEF DeviceInv, IsOpen

\* init_queue(), whether it fails or not, and mod_timer() find no cache and
\* no armed timer.
LEMMA Armed ==
    ASSUME ResInv, "timer" \notin res, ArmTimer
    PROVE  /\ "timer" \in res' /\ res' \ {"timer", "cache"} = res \ {"timer", "cache"}
           /\ caches' = IF "cache" \in res' THEN 1 ELSE 0
           /\ misuse' = misuse
<1>1. "cache" \notin res /\ caches = 0 BY DEF ResInv
<1>. QED BY <1>1 DEF ArmTimer

\* destroy_queue() leaves no cache.
LEMMA Dropped ==
    ASSUME ResInv, "timer" \in res, DropTimer
    PROVE  /\ "timer" \notin res' /\ "cache" \notin res'
           /\ res' = res \ {"timer", "cache"} /\ res' \ {"timer", "cache"} = res'
           /\ caches' = 0 /\ misuse' = misuse
<1>1. caches' = 0 BY DEF ResInv, DropTimer, DestroyQueue
<1>. QED BY <1>1 DEF DropTimer

\* Every call of a process keeps what is held in step with working.
LEMMA ResProc ==
    ASSUME ResInv, DeviceInv, HooksInv, ~OpenDuringInit, NEW p \in Admin, ProcStep(p)
    PROVE  ResInv'
<1>0. upc \in [Admin -> UserPc] BY DEF DeviceInv
<1>1. ASSUME NEW l \in UserPc, upc' = [upc EXCEPT ![p] = l], l \notin {"on_set", "off_rest"},
             upc[p] \notin {"on_set", "off_rest"},
             UNCHANGED <<misuse, ipc, res, caches, working>>, module' = module
      PROVE  ResInv'
  BY <1>0, <1>1, ResFrame
<1>2. CASE OpenFails(p) \/ sysThrot_open(p) \/ OpenBusy(p) \/ sysThrot_release(p)
  <2>1. UNCHANGED <<misuse, ipc, res, caches, working>> /\ module' = module
    BY <1>2 DEF OpenFails, sysThrot_open, OpenBusy, sysThrot_release, vars, deviceVars
  <2>2. upc[p] \in {"open", "busy", "close"}
    BY Zenon, <1>2 DEF OpenFails, sysThrot_open, OpenBusy, sysThrot_release
  <2>3. PICK l \in {"idle", "opened", "busy"} : upc' = [upc EXCEPT ![p] = l]
    BY Zenon, <1>2 DEF OpenFails, sysThrot_open, OpenBusy, sysThrot_release, Return
  <2>4. l \in UserPc /\ l \notin {"on_set", "off_rest"} BY <2>3 DEF UserPc, IsOpen
  <2>. QED BY Zenon, <1>1, <2>1, <2>2, <2>3, <2>4
<1>3. CASE NotRoot(p) \/ IoctlFails(p) \/ HookRefused(p) \/ TurnRefused(p)
  BY Zenon, <1>1, <1>3 DEF NotRoot, IoctlFails, HookRefused, TurnRefused, Begins, Goes, vars,
    UserPc, IsOpen
<1>4. CASE sysThrot_read(p) \/ Register(p) \/ Deregister(p)
  <2>1. "store" \in res BY Zenon, <1>4, WhileOpen DEF sysThrot_read, Register, Deregister,
    Begins, IsOpen
  <2>2. misuse' = misuse
    BY <1>4, <2>1 DEF sysThrot_read, Register, Deregister, UsesStore
  <2>3. upc[p] = "opened" /\ upc' = [upc EXCEPT ![p] = "close"]
    BY Zenon, <1>4 DEF sysThrot_read, Register, Deregister, Begins, Goes
  <2>4. UNCHANGED <<misuse, ipc, res, caches, working>> /\ module' = module
    BY Zenon, <1>4, <2>2 DEF sysThrot_read, Register, Deregister, Goes, vars
  <2>. QED BY <1>1, <2>3, <2>4 DEF UserPc, IsOpen
<1>5. CASE HookBegins(p)
  <2>1. UNCHANGED <<misuse, ipc, res, caches, working>> /\ module' = module
    BY Zenon, <1>5 DEF HookBegins, InstallCheck, RemoveCheck, Goes
  <2>2. upc[p] = "opened" /\ upc' = [upc EXCEPT ![p] = "hooking"]
    BY Zenon, <1>5 DEF HookBegins, Begins, Goes
  <2>. QED BY <1>1, <2>1, <2>2 DEF UserPc, IsOpen
<1>6. CASE HookStep(p)
  <2>1. UNCHANGED <<working, module>>
    BY Zenon, <1>6 DEF HookStep, ActorStep, Resolve, Hook, Unhook, ReadByte, WriteByte
  <2>. QED BY Zenon, <1>1, <1>6, <2>1 DEF HookStep, Goes, UserPc, IsOpen
<1>7. CASE TurnOn(p)
  <2>1. /\ module = "loaded" /\ ipc = "none" /\ ~Switching
    BY <1>7, WhileOpen DEF TurnOn, Begins, IsOpen, Switching
  <2>2. "timer" \notin res BY <1>7, <2>1 DEF TurnOn, ResInv
  <2>3. upc' = [upc EXCEPT ![p] = "on_set"] BY <1>7 DEF TurnOn, Goes
  <2>4. Switching' BY <1>0, <2>3 DEF Switching
  <2>5. UNCHANGED <<ipc, working>> /\ module' = module /\ ~working
    BY Zenon, <1>7 DEF TurnOn, Goes, vars
  <2>6. /\ "timer" \in res' /\ res' \ {"timer", "cache"} = res \ {"timer", "cache"}
        /\ caches' = IF "cache" \in res' THEN 1 ELSE 0
        /\ misuse' = misuse
    BY Zenon, <1>7, <2>2, Armed DEF TurnOn
  <2>7. ipc \notin DOMAIN After BY Zenon, <2>1 DEF After
  <2>8. InitSteps' = InitSteps /\ Base' = Base BY Zenon DEF InitSteps, Base
  <2>. QED BY Zenon, <2>1, <2>4, <2>5, <2>6, <2>7, <2>8 DEF ResInv
<1>8. CASE OnSet(p)
  <2>1. module = "loaded" /\ ipc = "none" /\ Switching
    BY <1>8, WhileOpen DEF OnSet, IsOpen, Switching
  <2>2. ~Switching'
    BY <1>0, <1>8, <2>1, WhileOpen DEF OnSet, Goes, IsOpen, Switching
  <2>. QED BY Zenon, <1>8, <2>1, <2>2 DEF OnSet, SetWorking, Goes, ResInv, InitSteps, After,
    Base, Driver
<1>9. CASE TurnOff(p)
  <2>1. module = "loaded" /\ ipc = "none" BY Zenon, <1>9, WhileOpen DEF TurnOff, Begins, IsOpen
  <2>2. Switching' BY <1>0, <1>9 DEF TurnOff, Goes, Switching
  <2>. QED BY Zenon, <1>9, <2>1, <2>2 DEF TurnOff, SetWorking, Goes, ResInv, InitSteps, After,
    Base, Driver
<1>10. CASE OffRest(p)
  <2>1. module = "loaded" /\ ipc = "none" /\ Switching
    BY <1>10, WhileOpen DEF OffRest, IsOpen, Switching
  <2>2. ~Switching' /\ UNCHANGED <<module, working, ipc>>
    BY <1>0, <1>10, <2>1, WhileOpen DEF OffRest, Goes, IsOpen, Switching, vars
  <2>3. "timer" \in res BY <2>1 DEF ResInv
  <2>4. /\ "timer" \notin res' /\ "cache" \notin res'
        /\ res' \ {"timer", "cache"} = res \ {"timer", "cache"}
        /\ caches' = 0 /\ misuse' = misuse
    BY Zenon, <1>10, <2>3, Dropped DEF OffRest
  <2>5. ~working' /\ ipc \notin InitSteps /\ ipc # "failed"
    BY <2>1, <2>2 DEF ResInv, InitSteps, After
  <2>. QED BY Zenon, <2>1, <2>2, <2>4, <2>5 DEF ResInv, InitSteps, After
<1>. QED BY <1>2, <1>3, <1>4, <1>5, <1>6, <1>7, <1>8, <1>9, <1>10 DEF ProcStep

\* What an error path of sysThrot_init() undoes is what is held but the store.
LEMMA UnwindExact ==
    /\ \A step \in DOMAIN After \ {"store"} : Unwind(step) = Held(step) \ {"store"}
    /\ Unwind("turn_on") = Base \ {"store"}
<1>1. Unwind("region") = {} BY DEF Unwind
<1>2. Unwind("cdev") = {"region"} BY DEF Unwind
<1>3. Unwind("class") = {"cdev", "region"} BY DEF Unwind
<1>4. Unwind("device") = {"class", "cdev", "region"} BY DEF Unwind
<1>5. Unwind("proc") = Driver BY DEF Unwind
<1>6. Unwind("turn_on") = {"proc"} \cup Driver BY DEF Unwind
<1>7. /\ Held("region") = {"store"} /\ Held("cdev") = {"store", "region"}
      /\ Held("class") = {"store", "region", "cdev"}
      /\ Held("device") = {"store", "region", "cdev", "class"}
      /\ Held("proc") = {"store"} \cup Driver
  BY DEF Held, Driver
<1>8. DOMAIN After \ {"store"} = {"region", "cdev", "class", "device", "proc"} BY Zenon DEF After
<1>9. "store" \notin Driver BY DEF Driver
<1>. QED BY <1>1, <1>2, <1>3, <1>4, <1>5, <1>6, <1>7, <1>8, <1>9 DEF Base

\* The steps of sysThrot_init().
LEMMA ResInit ==
    ASSUME ResInv, DeviceInv, ~StoreFaults, InitStep
    PROVE  ResInv'
<1>0. /\ module = "coming" /\ ipc \in InitSteps /\ Holders = {}
      /\ UNCHANGED upc
  BY Zenon DEF InitStep, InitStore, Acquire, InitFails, InitValues, InitTurnOn, InitOnSet,
    InitReturns,
     ResInv, DeviceInv, procVars
<1>1. \A p \in Admin : upc[p] \notin {"on_set", "off_rest"}
  BY <1>0 DEF Holders, IsOpen
<1>2. (Switching <=> ipc = "on_set") /\ (Switching' <=> ipc' = "on_set")
  BY <1>0, <1>1 DEF Switching
<1>. USE DEF ResInv, InitSteps
<1>3. CASE InitStore
  <2>1. ipc = "store" /\ ipc' = "region" /\ res = {} /\ res' = {"store"} /\ ~working
        /\ UNCHANGED <<module, working, caches, misuse>>
    BY Zenon, <1>2, <1>3 DEF InitStore, After, Held, vars
  <2>. QED BY Zenon, <1>0, <1>2, <2>1 DEF After, Held
<1>4. CASE Acquire
  <2>1. /\ ipc \in {"region", "cdev", "class", "device", "proc"} /\ ipc' = After[ipc]
        /\ res' = Held(ipc) \cup {ipc} /\ ~working /\ "timer" \notin res /\ caches = 0
        /\ UNCHANGED <<module, working, caches, misuse>>
    BY Zenon, <1>2, <1>4 DEF Acquire, After, vars
  <2>2. CASE ipc = "proc"
    <3>1. ipc' = "values" /\ res' = Base
      BY <2>1, <2>2 DEF After, Held, Base, Driver
    <3>2. "timer" \notin Base /\ "cache" \notin Base BY DEF Base, Driver
    <3>. QED BY Zenon, <1>0, <1>2, <2>1, <2>2, <3>1, <3>2 DEF After
  <2>3. CASE ipc # "proc"
    <3>1. ipc' \in {"cdev", "class", "device", "proc"} /\ res' = Held(ipc')
      <4>1. CASE ipc = "region" BY <2>1, <4>1 DEF After, Held
      <4>2. CASE ipc = "cdev" BY <2>1, <4>2 DEF After, Held
      <4>3. CASE ipc = "class" BY <2>1, <4>3 DEF After, Held
      <4>4. CASE ipc = "device" BY <2>1, <4>4 DEF After, Held
      <4>. QED BY Zenon, <2>1, <2>3, <4>1, <4>2, <4>3, <4>4
    <3>2. "timer" \notin res' /\ "cache" \notin res' BY <3>1 DEF Held
    <3>. QED BY Zenon, <1>0, <1>2, <2>1, <3>1, <3>2 DEF After
  <2>. QED BY Zenon, <2>2, <2>3
<1>5. CASE InitFails
  <2>1. ~(ipc = "turn_on" /\ working) BY Zenon, <1>0 DEF After
  <2>2. ipc \in DOMAIN After \ {"store"} BY <1>5, <2>1 DEF InitFails
  <2>3. res = Held(ipc) /\ Unwind(ipc) = Held(ipc) \ {"store"} /\ "store" \in Held(ipc)
    BY Zenon, <2>2, UnwindExact DEF Held
  <2>4. res' = {"store"} /\ misuse' = {} BY <1>5, <2>3 DEF InitFails, Release
  <2>5. module' = "gone" /\ ipc' = "failed" /\ UNCHANGED <<working, caches>>
    BY <1>5 DEF InitFails, LoadReturns
  <2>. QED BY Zenon, <1>0, <1>2, <2>2, <2>4, <2>5 DEF After
<1>6. CASE InitValues
  BY Zenon, <1>0, <1>2, <1>6 DEF InitValues, ResetValues, After, Base, Driver
<1>7. CASE InitTurnOn
  <2>1. ipc = "turn_on" /\ ~working /\ "timer" \notin res BY Zenon, <1>2, <1>7 DEF InitTurnOn
  <2>2. ipc' = "on_set" /\ UNCHANGED working /\ module' = module
    BY Zenon, <1>7 DEF InitTurnOn, vars
  <2>3. /\ "timer" \in res' /\ res' \ {"timer", "cache"} = res \ {"timer", "cache"}
        /\ caches' = IF "cache" \in res' THEN 1 ELSE 0
        /\ misuse' = misuse
    BY Zenon, <1>7, <2>1, Armed DEF InitTurnOn
  <2>4. ipc' \notin DOMAIN After BY Zenon, <2>2 DEF After
  <2>. QED BY Zenon, <1>0, <1>2, <2>1, <2>2, <2>3, <2>4
<1>8. CASE InitOnSet
  BY Zenon, <1>0, <1>2, <1>8 DEF InitOnSet, SetWorking, After, Base, Driver
<1>9. CASE InitReturns
  BY Zenon, <1>0, <1>2, <1>9 DEF InitReturns, LoadReturns, After, Base, Driver
<1>. QED BY Zenon, <1>3, <1>4, <1>5, <1>6, <1>7, <1>8, <1>9 DEF InitStep

\* Every step.
LEMMA ResStep ==
    ASSUME ResInv, DeviceInv, HooksInv, ~OpenDuringInit, ~StoreFaults, [LifeNext]_lifeVars
    PROVE  ResInv'
<1>1. ASSUME NEW p \in Admin, ProcStep(p) PROVE ResInv' BY <1>1, ResProc
<1>2. ASSUME NEW p \in Admin, StartClient(p) \/ StartCli(p) \/ ClientCall(p) PROVE ResInv'
  <2>1. /\ UNCHANGED <<misuse, ipc, res, caches, working, module>>
        /\ UNCHANGED upc \/ (upc[p] = "idle" /\ upc' = [upc EXCEPT ![p] = "open"])
    BY Zenon, <1>2 DEF StartClient, StartCli, ClientCall, Start, vars, deviceVars
  <2>. QED BY <2>1, ResFrame DEF DeviceInv
<1>3. CASE InitStep BY <1>3, ResInit
<1>4. CASE Insmod
  <2>1. \A p \in Admin : upc[p] \notin {"on_set", "off_rest"}
    BY <1>4 DEF Insmod, Load, DeviceInv, Holders, IsOpen
  <2>2. ~Switching /\ ~Switching' BY Zenon, <1>4, <2>1 DEF Insmod, Load, Switching, ResInv,
    InitSteps
  <2>3. Held("store") = {} BY DEF Held
  <2>. QED BY Zenon, <1>4, <2>2, <2>3 DEF Insmod, Load, ResInv, InitSteps, After
<1>5. CASE Rmmods
  <2>1. \A p \in Admin : upc[p] \notin {"on_set", "off_rest"}
    BY <1>5 DEF Rmmods, Unused, Holders, IsOpen
  <2>2. module = "loaded" /\ module' = "unhook" /\ ~working' /\ ipc' = ipc /\ upc' = upc
    BY <1>5 DEF Rmmods, StartCleanup, procVars
  <2>3. ipc = "none" /\ ~Switching /\ ~Switching'
    BY <2>1, <2>2 DEF Switching, ResInv, InitSteps
  <2>4. /\ "timer" \notin res' /\ "cache" \notin res'
        /\ res' \ {"timer", "cache"} = res \ {"timer", "cache"}
        /\ caches' = 0 /\ misuse' = misuse
    <3>1. CASE working
      <4>1. "timer" \in res BY <3>1 DEF ResInv
      <4>. QED BY Zenon, <1>5, <3>1, <4>1, Dropped DEF Rmmods
    <3>2. CASE ~working
      <4>1. "timer" \notin res /\ "cache" \notin res /\ caches = 0 BY <2>3, <3>2 DEF ResInv
      <4>. QED BY Zenon, <1>5, <3>2, <4>1 DEF Rmmods
    <3>. QED BY <3>1, <3>2
  <2>. QED BY Zenon, <2>2, <2>3, <2>4 DEF ResInv, InitSteps, After, Base, Driver
<1>6. CASE LifeCleanupStep
  <2>1. /\ module \in {"unhook", "drain", "sync"} /\ ipc = "none" /\ UNCHANGED <<ipc, upc, working>>
    BY Zenon, <1>6 DEF LifeCleanupStep, Cleaned, Unload, AllRemoved, Drained, RemoveCheck,
      ActorStep, Resolve,
       Hook, Unhook, ReadByte, WriteByte, procVars, deviceVars, ResInv, InitSteps
  <2>2. ~Switching /\ ~Switching' BY <2>1 DEF Switching, DeviceInv, Holders, IsOpen
  <2>3. /\ ~working /\ res = Base /\ caches = 0
        /\ "timer" \notin Base /\ "cache" \notin Base
    BY <2>1, <2>2 DEF ResInv, Base, Driver
  <2>4. CASE Cleaned
    <3>1. res' = {} /\ misuse' = {} /\ caches' = caches /\ module' = "gone"
      BY <2>3, <2>4 DEF Cleaned, Unload, Release, Base, ResInv
    <3>. QED BY Zenon, <2>1, <2>2, <2>3, <3>1 DEF ResInv, InitSteps, After
  <2>5. CASE UNCHANGED deviceVars
    <3>1. module' \in {"unhook", "drain", "sync"} \/ Unload
      BY Zenon, <1>6, <2>1 DEF LifeCleanupStep, Cleaned, AllRemoved, Drained, RemoveCheck,
         ActorStep, Resolve, Hook, Unhook, ReadByte, WriteByte
    <3>2. CASE module' \in {"unhook", "drain", "sync"}
      BY Zenon, <2>1, <2>2, <2>3, <2>5, <3>2 DEF deviceVars, ResInv, InitSteps, After, Base, Driver
    <3>3. CASE Unload
      BY Zenon, <1>6, <2>4, <3>3 DEF LifeCleanupStep, Unload, AllRemoved, Drained, RemoveCheck,
         ActorStep, Resolve, Hook, Unhook, ReadByte, WriteByte
    <3>. QED BY <3>1, <3>2, <3>3
  <2>. QED BY <1>6, <2>4, <2>5 DEF LifeCleanupStep
<1>7. ASSUME NEW t \in Thread, UNCHANGED <<deviceVars, procVars>>,
             ThreadStep(t) \/ Sleep(t) \/ \E s \in Syscall : EnterTrampoline(t, s)
      PROVE  ResInv'
  BY Zenon, <1>7, ResFrame DEF ThreadStep, Count, WakeUp, StubReturns, Uncount, Ret, Sleep,
     EnterTrampoline, Move, deviceVars, procVars
<1>8. CASE UNCHANGED lifeVars BY <1>8, ResFrame DEF lifeVars, vars, deviceVars, procVars
<1>9. CASE DrainWait /\ UNCHANGED <<deviceVars, procVars>> BY <1>8, <1>9 DEF DrainWait, lifeVars
<1>. QED BY <1>1, <1>2, <1>3, <1>4, <1>5, <1>6, <1>7, <1>8, <1>9 DEF LifeNext, CallerStep

-----------------------------------------------------------------------------
\* The effect of a command on the configuration there is.
LEMMA EffectNow ==
    ASSUME NEW c, NEW i, c.arg = i
    PROVE  /\ c.op = "register" /\ i # EmptyName =>
                 Effect(c, Configuration) = Config(registered \cup {i}, bitmap, working)
           /\ c.op = "register" /\ i = EmptyName => Effect(c, Configuration) = Configuration
           /\ c.op = "deregister" =>
                 Effect(c, Configuration) = Config(registered \ {i}, bitmap, working)
           /\ c.op = "hook" => Effect(c, Configuration) = Config(registered, bitmap \cup {i}, working)
           /\ c.op = "unhook" => Effect(c, Configuration) = Config(registered, bitmap \ {i}, working)
           /\ c.op = "on" => Effect(c, Configuration) = Config(registered, bitmap, TRUE)
           /\ c.op = "off" => Effect(c, Configuration) = Config(registered, bitmap, FALSE)
           /\ c.op = "read" => Effect(c, Configuration) = Configuration
BY Zenon DEF Effect, Configuration, Config

\* The configuration before and after a step.
LEMMA IsConfig ==
    /\ Configuration = Config(registered, bitmap, working)
    /\ Configuration' = Config(registered', bitmap', working')
BY DEF Configuration, Config

\* At first no ioctl is in progress.
LEMMA ConfigInitial == LifeInit => ConfigInv
<1>. SUFFICES ASSUME LifeInit PROVE ConfigInv OBVIOUS
<1>1. \A p \in Admin : Progress(p) BY Zenon DEF LifeInit, Progress
<1>2. NoConfiguration \in Configurations BY Zenon DEF NoConfiguration, Configurations
<1>. QED BY <1>1, <1>2 DEF LifeInit, ConfigInv, Results

\* A step that keeps the configuration and what processes know of it.
LEMMA ConfigFrame ==
    ASSUME ConfigInv, UNCHANGED <<registered, bitmap, working, upc, cmd, result, before>>,
           \A p \in Admin : UNCHANGED <<apc[p], asys[p]>>
    PROVE  ConfigInv'
BY Zenon DEF ConfigInv, Progress, Configuration

\* While one process has the device open, the others have no ioctl to tell
\* about.
LEMMA ConfigOthers ==
    ASSUME DeviceInv, NEW p \in Admin, upc[p] \in IsOpen, NEW l, upc' = [upc EXCEPT ![p] = l],
           Progress(p)'
    PROVE  \A q \in Admin : Progress(q)'
<1>. SUFFICES ASSUME NEW q \in Admin, q # p PROVE Progress(q)' OBVIOUS
<1>1. upc[q] \notin IsOpen /\ upc'[q] = upc[q] BY DEF DeviceInv
<1>. QED BY Zenon, <1>1 DEF Progress, IsOpen

\* A process outside its ioctl, before or after the step, tells nothing.
LEMMA ConfigIdle ==
    ASSUME ConfigInv, UNCHANGED <<registered, bitmap, working, apc, asys>>, NEW p \in Admin,
           upc'[p] \notin {"hooking", "on_set", "off_rest", "close"},
           \A q \in Admin \ {p} : UNCHANGED <<upc[q], cmd[q], result[q], before[q]>>,
           before' \in [Admin -> Configurations], result' \in [Admin -> Results]
    PROVE  ConfigInv'
<1>1. Progress(p)' BY Zenon DEF Progress
<1>2. ASSUME NEW q \in Admin \ {p} PROVE Progress(q)'
  <2>1. Progress(q) BY DEF ConfigInv
  <2>. QED BY Zenon, <2>1 DEF Progress, Configuration
<1>. QED BY Zenon, <1>1, <1>2 DEF ConfigInv

\* An ioctl that begins and ends in one step, with its result.
LEMMA ConfigEnds ==
    ASSUME ConfigInv, CommandInv, DeviceInv, NEW p \in Admin, NEW r \in Results,
           upc[p] = "opened", cmd' = cmd,
           Goes(p, "close", r), before' = [before EXCEPT ![p] = Configuration],
           bitmap \subseteq Syscall, working \in BOOLEAN,
           registered' \subseteq Item \ {EmptyName},
           Configuration' = IF r = "ok" THEN Effect(cmd[p], Configuration) ELSE Configuration
    PROVE  ConfigInv'
<1>1. Configuration \in Configurations BY Zenon DEF Configuration, Configurations, ConfigInv
<1>2. /\ before' \in [Admin -> Configurations] /\ result' \in [Admin -> Results]
      /\ upc' = [upc EXCEPT ![p] = "close"] /\ upc'[p] = "close"
      /\ before'[p] = Configuration /\ result'[p] = r
  BY Zenon, <1>1 DEF ConfigInv, Goes, DeviceInv
<1>3. Configuration' = IF result'[p] = "ok" THEN Effect(cmd'[p], before'[p]) ELSE before'[p]
  BY Zenon, <1>2
<1>4. Effect(cmd[p], before[p])' = Effect(cmd'[p], before'[p]) BY Zenon
<1>5. Progress(p)' BY Zenon, <1>2, <1>3, <1>4 DEF Progress
<1>. QED BY Zenon, <1>2, <1>5, ConfigOthers DEF ConfigInv, IsOpen

\* The calls of a process.
LEMMA ConfigProc ==
    ASSUME ConfigInv, CommandInv, ResInv, DeviceInv, HooksInv, ~OpenDuringInit,
           NEW p \in Admin, ProcStep(p)
    PROVE  ConfigInv'
<1>0. /\ upc \in [Admin -> UserPc] /\ bitmap \subseteq Syscall /\ working \in BOOLEAN
      /\ before \in [Admin -> Configurations] /\ result \in [Admin -> Results]
      /\ cmd \in [Admin -> Command \cup {NoCmd}]
      /\ registered \subseteq Item \ {EmptyName}
      /\ Configuration \in Configurations
  BY Zenon DEF DeviceInv, HooksInv, TypeOK, ConfigInv, CommandInv, Configuration, Configurations
<1>1. CASE OpenFails(p) \/ OpenBusy(p) \/ sysThrot_release(p)
  <2>1. /\ UNCHANGED <<registered, bitmap, working, apc, asys>>
        /\ upc' = [upc EXCEPT ![p] = "idle"] /\ cmd' = [cmd EXCEPT ![p] = NoCmd]
        /\ result' = [result EXCEPT ![p] = "none"] /\ before' = [before EXCEPT ![p] = NoConfiguration]
    BY Zenon, <1>1 DEF OpenFails, OpenBusy, sysThrot_release, Return, vars, hookVars, actorVars,
      deviceVars
  <2>2. NoConfiguration \in Configurations BY Zenon DEF NoConfiguration, Configurations
  <2>. QED BY <1>0, <2>1, <2>2, ConfigIdle DEF Results
<1>2. CASE sysThrot_open(p)
  <2>1. /\ UNCHANGED <<registered, bitmap, working, apc, asys, cmd, result, before>>
        /\ upc' = [upc EXCEPT ![p] = IF Free THEN "opened" ELSE "busy"]
    BY <1>2 DEF sysThrot_open, vars, hookVars, actorVars
  <2>. QED BY <1>0, <2>1, ConfigIdle
<1>3. CASE NotRoot(p) \/ IoctlFails(p) \/ HookRefused(p) \/ TurnRefused(p)
  <2>1. UNCHANGED <<registered, bitmap, working>> /\ Configuration' = Configuration
    BY Zenon, <1>3 DEF NotRoot, IoctlFails, HookRefused, TurnRefused, vars, hookVars, Configuration
  <2>2. PICK r \in {"EPERM", "error", "EEXIST", "EALREADY"} : Goes(p, "close", r)
    BY Zenon, <1>3 DEF NotRoot, IoctlFails, HookRefused, TurnRefused
  <2>3. upc[p] = "opened" /\ before' = [before EXCEPT ![p] = Configuration] /\ cmd' = cmd
    BY Zenon, <1>3, <2>2 DEF NotRoot, IoctlFails, HookRefused, TurnRefused, Begins, Goes
  <2>. QED BY Zenon, <1>0, <2>1, <2>2, <2>3, ConfigEnds DEF Results
<1>4. CASE sysThrot_read(p)
  <2>1. /\ UNCHANGED <<registered, bitmap, working>> /\ Configuration' = Configuration
        /\ Goes(p, "close", "ok") /\ cmd[p].op = "read" /\ upc[p] = "opened" /\ cmd' = cmd
        /\ before' = [before EXCEPT ![p] = Configuration]
    BY Zenon, <1>4 DEF sysThrot_read, Begins, Goes, vars, hookVars, Configuration
  <2>2. Effect(cmd[p], Configuration) = Configuration BY Zenon, <2>1, EffectNow, IsConfig
  <2>. QED BY Zenon, <1>0, <2>1, <2>2, ConfigEnds DEF Results
<1>5. CASE Register(p) \/ Deregister(p)
  <2>. DEFINE i == cmd[p].arg
  <2>1. /\ upc[p] = "opened" /\ before' = [before EXCEPT ![p] = Configuration] /\ cmd' = cmd
        /\ UNCHANGED <<bitmap, working>>
        /\ cmd[p].op = IF Register(p) THEN "register" ELSE "deregister"
    BY Zenon, <1>5 DEF Register, Deregister, Begins, Goes, vars, hookVars
  <2>2. i \in Item BY <1>0, <2>1, CommandType DEF NoCmd, Cmd
  <2>3. \E r \in Results :
           /\ Goes(p, "close", r)
           /\ registered' \subseteq Item \ {EmptyName}
           /\ Configuration' = IF r = "ok" THEN Effect(cmd[p], Configuration) ELSE Configuration
    <3>1. CASE i = EmptyName
      <4>1. registered' = registered /\ Goes(p, "close", "ok") BY <1>5, <3>1 DEF Register,
        Deregister
      <4>2. Configuration' = Configuration BY Zenon, <2>1, <4>1, IsConfig
      <4>3. Effect(cmd[p], Configuration) = Configuration
        <5>1. registered \ {i} = registered BY <1>0, <3>1
        <5>. QED BY Zenon, <2>1, <3>1, <5>1, EffectNow, IsConfig
      <4>. QED BY <1>0, <4>1, <4>2, <4>3 DEF Results
    <3>2. CASE i # EmptyName /\ Register(p)
      <4>1. registered' = registered \cup {i} BY <3>2 DEF Register
      <4>2. Goes(p, "close", IF i \in registered THEN "EEXIST" ELSE "ok") BY <3>2 DEF Register
      <4>3. Configuration' = Effect(cmd[p], Configuration)
        BY Zenon, <2>1, <3>2, <4>1, EffectNow, IsConfig
      <4>4. i \in registered => Configuration' = Configuration BY Zenon, <2>1, <4>1, IsConfig
      <4>. QED BY <1>0, <2>2, <3>2, <4>1, <4>2, <4>3, <4>4 DEF Results
    <3>3. CASE i # EmptyName /\ ~Register(p)
      <4>1. registered' = registered \ {i} BY <1>5, <3>3 DEF Deregister
      <4>2. Goes(p, "close", IF i \in registered THEN "ok" ELSE "EINVAL") BY <1>5,
        <3>3 DEF Deregister
      <4>3. Configuration' = Effect(cmd[p], Configuration)
        BY Zenon, <2>1, <3>3, <4>1, EffectNow, IsConfig
      <4>4. i \notin registered => Configuration' = Configuration BY Zenon, <2>1, <4>1, IsConfig
      <4>. QED BY <1>0, <4>1, <4>2, <4>3, <4>4 DEF Results
    <3>. QED BY <3>1, <3>2, <3>3
  <2>. QED BY Zenon, <1>0, <2>1, <2>3, ConfigEnds
<1>6. ASSUME NEW l \in {"hooking", "on_set", "off_rest", "close"}, NEW r \in Results, Goes(p, l, r),
             upc[p] \in IsOpen, Progress(p)', before' \in [Admin -> Configurations],
             UNCHANGED registered
      PROVE  ConfigInv'
  <2>1. upc' = [upc EXCEPT ![p] = l] /\ result' \in [Admin -> Results]
    BY <1>0, <1>6 DEF Goes
  <2>. QED BY Zenon, <1>0, <1>6, <2>1, ConfigOthers DEF ConfigInv
<1>7. CASE HookBegins(p)
  <2>1. /\ upc[p] = "opened" /\ before' = [before EXCEPT ![p] = Configuration]
        /\ Goes(p, "hooking", "none") /\ cmd' = cmd /\ upc' = [upc EXCEPT ![p] = "hooking"]
        /\ UNCHANGED <<registered, bitmap, working>>
    BY Zenon, <1>7 DEF HookBegins, Begins, Goes, InstallCheck, RemoveCheck, hookVars
  <2>2. /\ cmd[p].op \in {"hook", "unhook"} /\ asys'[p] = cmd[p].arg
        /\ apc'[p] = IF cmd[p].op = "hook" THEN "resolve" ELSE "unhook"
    BY Zenon, <1>7 DEF HookBegins, Begins, InstallCheck, RemoveCheck, Goto, HooksInv, TypeOK, Actor
  <2>3. Configuration' = Configuration BY <2>1 DEF Configuration
  <2>4. Progress(p)' BY Zenon, <1>0, <2>1, <2>2, <2>3 DEF Progress
  <2>. QED BY <1>0, <1>6, <2>1, <2>4 DEF IsOpen, Results
<1>8. CASE HookStep(p)
  <2>1. /\ upc[p] = "hooking" /\ cmd' = cmd /\ before' = before /\ UNCHANGED <<registered, working>>
        /\ before[p] = Configuration /\ asys[p] = cmd[p].arg
        /\ cmd[p].op = IF apc[p] \in {"unhook", "read_clear", "clear"} THEN "unhook" ELSE "hook"
    BY Zenon, <1>8 DEF HookStep, Goes, ActorStep, Resolve, Hook, Unhook, ReadByte, WriteByte,
      ConfigInv, Progress
  <2>2. CASE WriteByte(p)
    <3>1. apc'[p] = "idle" /\ apc[p] \in {"set", "clear"}
      BY <2>2 DEF WriteByte, Done, Goto, HooksInv, TypeOK, Actor
    <3>2. Goes(p, "close", "ok") BY Zenon, <1>8, <3>1 DEF HookStep
    <3>3. byte[p] = bitmap BY Zenon, <3>1 DEF HooksInv, Tracked, Knows, Actor
    <3>4. bitmap' = IF apc[p] = "set" THEN bitmap \cup {cmd[p].arg} ELSE bitmap \ {cmd[p].arg}
      BY Zenon, <2>1, <2>2, <3>3 DEF WriteByte
    <3>5. Configuration' = Effect(cmd[p], Configuration)
      BY Zenon, <2>1, <3>1, <3>4, EffectNow, IsConfig
    <3>6. upc'[p] = "close" /\ result'[p] = "ok" BY <1>0, <3>2 DEF Goes
    <3>7. Effect(cmd[p], before[p])' = Effect(cmd[p], Configuration) BY Zenon, <2>1
    <3>8. Progress(p)' BY Zenon, <3>5, <3>6, <3>7 DEF Progress
    <3>. QED BY Zenon, <1>0, <1>6, <2>1, <3>2, <3>8 DEF IsOpen, Results
  <2>3. CASE ~WriteByte(p)
    <3>1. bitmap' = bitmap /\ apc[p] \notin {"set", "clear"}
      BY Zenon, <1>8, <2>3 DEF HookStep, ActorStep, Resolve, Hook, Unhook, ReadByte, WriteByte,
        hookVars
    <3>2. Configuration' = Configuration BY Zenon, <2>1, <3>1 DEF Configuration
    <3>3. CASE apc'[p] # "idle"
      <4>1. Goes(p, "hooking", "none") BY Zenon, <1>8, <3>3 DEF HookStep
      <4>2. /\ asys'[p] = asys[p]
            /\ apc'[p] \in {"unhook", "read_clear", "clear"} <=> apc[p] \in {"unhook", "read_clear", "clear"}
        BY Zenon, <1>8, <2>3, <3>3 DEF HookStep, ActorStep, Resolve, Hook, Unhook, ReadByte,
          Goto, Done,
           HooksInv, TypeOK, Actor
      <4>3. upc'[p] = "hooking" BY <1>0, <4>1 DEF Goes
      <4>4. Progress(p)' BY Zenon, <2>1, <3>2, <4>2, <4>3 DEF Progress
      <4>. QED BY Zenon, <1>0, <1>6, <2>1, <4>1, <4>4 DEF IsOpen, Results
    <3>4. CASE apc'[p] = "idle"
      <4>1. Goes(p, "close", "error") BY Zenon, <1>8, <3>1, <3>4 DEF HookStep
      <4>2. upc'[p] = "close" /\ result'[p] = "error" BY <1>0, <4>1 DEF Goes
      <4>3. Progress(p)' BY Zenon, <2>1, <3>2, <4>2 DEF Progress
      <4>. QED BY Zenon, <1>0, <1>6, <2>1, <4>1, <4>3 DEF IsOpen, Results
    <3>. QED BY <3>3, <3>4
  <2>. QED BY <2>2, <2>3
<1>9. CASE TurnOn(p)
  <2>1. /\ upc[p] = "opened" /\ cmd[p].op = "on" /\ before' = [before EXCEPT ![p] = Configuration]
        /\ UNCHANGED <<registered, bitmap, working>> /\ ~working
    BY Zenon, <1>9 DEF TurnOn, Begins, vars, hookVars
  <2>2. ~Switching BY <2>1, WhileOpen DEF IsOpen, Switching
  <2>3. Goes(p, "on_set", "none") BY Zenon, <1>9, <2>1, <2>2 DEF TurnOn, ResInv
  <2>4. Configuration' = Configuration BY <2>1 DEF Configuration
  <2>5. upc'[p] = "on_set" /\ cmd' = cmd /\ before'[p] = Configuration BY <1>0, <2>1, <2>3 DEF Goes
  <2>6. Progress(p)' BY Zenon, <2>1, <2>4, <2>5 DEF Progress
  <2>. QED BY <1>0, <1>6, <2>1, <2>3, <2>6 DEF IsOpen, Results
<1>10. CASE OnSet(p)
  <2>1. /\ upc[p] = "on_set" /\ cmd[p].op = "on" /\ before' = before /\ before[p] = Configuration
        /\ UNCHANGED <<registered, bitmap>> /\ working' = TRUE /\ Goes(p, "close", "ok")
    BY Zenon, <1>10 DEF OnSet, SetWorking, hookVars, ConfigInv, Progress
  <2>2. Configuration' = Effect(cmd[p], Configuration) BY Zenon, <2>1, EffectNow, IsConfig
  <2>3. upc'[p] = "close" /\ result'[p] = "ok" /\ cmd' = cmd BY <1>0, <2>1 DEF Goes
  <2>4. Effect(cmd[p], before[p])' = Effect(cmd[p], Configuration) BY Zenon, <2>1, <2>3
  <2>5. Progress(p)' BY Zenon, <2>2, <2>3, <2>4 DEF Progress
  <2>. QED BY <1>0, <1>6, <2>1, <2>5 DEF IsOpen, Results
<1>11. CASE TurnOff(p)
  <2>1. /\ upc[p] = "opened" /\ cmd[p].op = "off" /\ before' = [before EXCEPT ![p] = Configuration]
        /\ UNCHANGED <<registered, bitmap>> /\ working = TRUE /\ working' = FALSE
        /\ Goes(p, "off_rest", "none")
    BY <1>0, <1>11 DEF TurnOff, Begins, SetWorking, hookVars
  <2>2. Configuration = Config(registered', bitmap', TRUE) BY Zenon, <2>1, IsConfig
  <2>3. upc'[p] = "off_rest" /\ cmd' = cmd /\ before'[p] = Configuration BY <1>0, <2>1 DEF Goes
  <2>4. Progress(p)' BY Zenon, <2>1, <2>2, <2>3 DEF Progress
  <2>. QED BY <1>0, <1>6, <2>1, <2>4 DEF IsOpen, Results
<1>12. CASE OffRest(p)
  <2>1. /\ upc[p] = "off_rest" /\ cmd[p].op = "off" /\ before' = before
        /\ before[p] = Config(registered, bitmap, TRUE)
        /\ UNCHANGED <<registered, bitmap, working>> /\ Goes(p, "close", "ok")
    BY Zenon, <1>12 DEF OffRest, vars, hookVars, ConfigInv, Progress
  <2>2. working = FALSE BY <1>0, <2>1 DEF ResInv, Switching
  <2>3. Effect(cmd[p], before[p]) = Configuration
    <3>1. Effect(cmd[p], Config(registered, bitmap, TRUE)) = Config(registered, bitmap, FALSE)
      BY Zenon, <2>1 DEF Effect, Config
    <3>2. Configuration = Config(registered, bitmap, FALSE) BY Zenon, <2>2, IsConfig
    <3>. QED BY Zenon, <2>1, <3>1, <3>2
  <2>4. Configuration' = Configuration BY Zenon, <2>1 DEF Configuration
  <2>5. upc'[p] = "close" /\ result'[p] = "ok" /\ cmd' = cmd BY <1>0, <2>1 DEF Goes
  <2>6. Effect(cmd[p], before[p])' = Effect(cmd[p], before[p]) BY Zenon, <2>1, <2>5
  <2>7. Progress(p)' BY Zenon, <2>3, <2>4, <2>5, <2>6 DEF Progress
  <2>. QED BY <1>0, <1>6, <2>1, <2>7 DEF IsOpen, Results
<1>. QED BY Zenon, <1>1, <1>2, <1>3, <1>4, <1>5, <1>7, <1>8, <1>9, <1>10, <1>11, <1>12 DEF ProcStep

\* Every step.
LEMMA ConfigStep ==
    ASSUME ConfigInv, CommandInv, ResInv, DeviceInv, HooksInv, ~OpenDuringInit, [LifeNext]_lifeVars
    PROVE  ConfigInv'
<1>1. ASSUME NEW p \in Admin, ProcStep(p) PROVE ConfigInv' BY <1>1, ConfigProc
<1>2. ASSUME NEW p \in Admin, StartClient(p) PROVE ConfigInv'
  BY Zenon, <1>2, ConfigFrame DEF StartClient, vars, hookVars, actorVars, deviceVars
<1>3. ASSUME NEW p \in Admin, StartCli(p) \/ ClientCall(p) PROVE ConfigInv'
  <2>1. PICK c : Start(p, c) BY Zenon, <1>3 DEF StartCli, ClientCall
  <2>2. /\ UNCHANGED <<registered, bitmap, working, apc, asys, result, before>>
        /\ upc' = [upc EXCEPT ![p] = "open"] /\ cmd' = [cmd EXCEPT ![p] = c]
    BY <2>1 DEF Start, vars, hookVars, actorVars, deviceVars
  <2>. QED BY Zenon, <2>2, ConfigIdle DEF ConfigInv, DeviceInv, CommandInv
<1>4. ASSUME NEW t \in Thread, UNCHANGED <<deviceVars, procVars>>,
             ThreadStep(t) \/ Sleep(t) \/ \E s \in Syscall : EnterTrampoline(t, s)
      PROVE  ConfigInv'
  BY Zenon, <1>4, ConfigFrame DEF ThreadStep, Count, WakeUp, StubReturns, Uncount, Ret, Sleep,
     EnterTrampoline, Move, hookVars, actorVars, deviceVars, procVars
<1>5. CASE UNCHANGED lifeVars
  BY Zenon, <1>5, ConfigFrame DEF lifeVars, vars, hookVars, actorVars, deviceVars, procVars
<1>6. CASE DrainWait /\ UNCHANGED <<deviceVars, procVars>> BY <1>5, <1>6 DEF DrainWait, lifeVars
<1>7. CASE Insmod \/ InitStep \/ Rmmods \/ LifeCleanupStep
  <2>1. Holders = {}
    BY Zenon, <1>7 DEF Insmod, Load, InitStep, Rmmods, Unused, LifeCleanupStep, DeviceInv
  <2>2. UNCHANGED <<upc, result, before>>
    BY Zenon, <1>7 DEF Insmod, InitStep, InitStore, Acquire, InitFails, InitValues, InitTurnOn,
      InitOnSet,
       InitReturns, Rmmods, LifeCleanupStep, Cleaned, procVars
  <2>3. registered' \in {registered, {}}
    BY Zenon, <1>7 DEF Insmod, InitStep, InitStore, Acquire, InitFails, InitValues, InitTurnOn,
      InitOnSet,
       InitReturns, Rmmods, LifeCleanupStep, Cleaned, deviceVars
  <2>4. \A p \in Admin : Progress(p)' BY Zenon, <2>1, <2>2 DEF Holders, IsOpen, Progress
  <2>. QED BY <2>2, <2>3, <2>4 DEF ConfigInv
<1>. QED BY <1>1, <1>2, <1>3, <1>4, <1>5, <1>6, <1>7 DEF LifeNext, CallerStep

-----------------------------------------------------------------------------
LifeInv == CommandInv /\ DeviceInv /\ HooksInv /\ ResInv /\ ConfigInv

\* All five parts together are inductive.
LEMMA LifeInvariant ==
    ASSUME ~Preemptible, ~OpenDuringInit, ~StoreFaults
    PROVE  LifeSpec => []LifeInv
<1>1. LifeInit => ResInv /\ ConfigInv BY ResInitial, ConfigInitial
<1>2. CommandInv /\ DeviceInv /\ HooksInv /\ ResInv /\ ConfigInv /\ [LifeNext]_lifeVars
         => ResInv' /\ ConfigInv'
  BY ResStep, ConfigStep
<1>. QED BY <1>1, <1>2, DeviceAndHooks, PTL DEF LifeSpec, LifeInv

\* What the invariant says of resources.
LEMMA LifeInvResources == LifeInv => ResourcesFollowWorking /\ NoMisuse /\ NothingLeft
<1>. SUFFICES ASSUME LifeInv PROVE ResourcesFollowWorking /\ NoMisuse /\ NothingLeft OBVIOUS
<1>1. ResourcesFollowWorking
  BY DEF LifeInv, ResInv, HooksInv, TypeOK, ResourcesFollowWorking, Switching
<1>2. NoMisuse BY DEF LifeInv, ResInv, NoMisuse
<1>3. NothingLeft
  <2>. SUFFICES ASSUME module = "gone" PROVE NothingLeft BY DEF NothingLeft
  <2>1. Holders = {} BY DEF LifeInv, DeviceInv
  <2>2. res = IF ipc = "failed" THEN {"store"} ELSE {} BY DEF LifeInv, ResInv
  <2>3. caches = 0 BY <2>2 DEF LifeInv, ResInv
  <2>. QED BY <2>1, <2>2, <2>3 DEF NothingLeft
<1>. QED BY <1>1, <1>2, <1>3

\* Through any sequence of loads, commands, failures of init_queue() and
\* unloads the timer is armed exactly while throttling is on, and no slab
\* cache is forgotten, destroyed twice or kept while throttling is off.
THEOREM TimerFollowsWorking ==
    ASSUME ~Preemptible, ~OpenDuringInit, ~StoreFaults
    PROVE  LifeSpec => []ResourcesFollowWorking
BY LifeInvResources, LifeInvariant, PTL

\* Nothing is used or released that is not held, on the error paths of
\* sysThrot_init() too, provided init_sysThrot_store() finds its memory: its
\* result is ignored.
THEOREM ResourcesNotMisused ==
    ASSUME ~Preemptible, ~OpenDuringInit, ~StoreFaults
    PROVE  LifeSpec => []NoMisuse
BY LifeInvResources, LifeInvariant, PTL

\* An unloaded module has released all but the store of a failed load.
THEOREM ResourcesReleased ==
    ASSUME ~Preemptible, ~OpenDuringInit, ~StoreFaults
    PROVE  LifeSpec => []NothingLeft
BY LifeInvResources, LifeInvariant, PTL

\* Every ioctl reports exactly what it did, whoever else calls meanwhile: on
\* success the configuration is the one before it with its effect, on an
\* error the one before it.
THEOREM ResultsExact ==
    ASSUME ~Preemptible, ~OpenDuringInit, ~StoreFaults
    PROVE  LifeSpec => []ResultExact
<1>1. LifeInv => ResultExact BY Zenon DEF LifeInv, ConfigInv, Progress, ResultExact
<1>. QED BY <1>1, LifeInvariant, PTL
=============================================================================
