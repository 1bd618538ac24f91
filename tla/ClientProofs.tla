---------------------------- MODULE ClientProofs ----------------------------
(***************************************************************************)
(* The programs that drive the module, for any number of processes, any    *)
(* users, programs and syscalls in the client's arguments and any commands *)
(* of systhrot: the types of Lifecycle, and that clients which end well    *)
(* undo all they set up.                                                   *)
(*                                                                         *)
(* The invariant adds four parts to LifecycleProofs': how the calls a      *)
(* client has left follow its script, that a client which goes on after a  *)
(* call finds the command in force, that a client makes no progress while  *)
(* the module is being loaded, and that whatever is set up although some   *)
(* client has undone it is still to be undone by another.                  *)
(***************************************************************************)
EXTENDS LifecycleProofs

Script == Setup \o Teardown
Calls(s) == {s[i] : i \in 1..Len(s)}

\* s is what is left of the script.
IsRest(s) ==
    \E k \in 0..Len(Script) :
        /\ Len(s) = Len(Script) - k
        /\ \A i \in 1..Len(s) : s[i] = Script[k + i]

StatusInv ==
    /\ status \in [Admin -> {"new", "running", "done", "void"}]
    /\ \A p \in Admin :
        /\ IsRest(todo[p])
        /\ status[p] = "running" => todo[p] # <<>>
        /\ status[p] \in {"new", "done"} => todo[p] = <<>>
        /\ upc[p] # "idle" => IF todo[p] = <<>> THEN cmd[p] \in CliCommand
                                               ELSE cmd[p] = Head(todo[p])

\* What a command asks for is the case.
InForce(c) ==
    /\ c.op = "register" => c.arg \in registered \cup {EmptyName}
    /\ c.op = "deregister" => c.arg \notin registered
    /\ c.op = "hook" => c.arg \in bitmap
    /\ c.op = "unhook" => c.arg \notin bitmap
    /\ c.op = "on" => working
    /\ c.op = "off" => ~working

\* A client goes on only when its command is in force, whoever brought that
\* about: the errors it accepts say no less than success.
ForceInv ==
    \A p \in Admin : upc[p] = "close" /\ todo[p] # <<>> /\ GoesOn(p, result[p]) => InForce(cmd[p])

\* The device cannot be opened while the module is being loaded.
FreshInv ==
    module = "coming" =>
        \A p \in Admin : status[p] # "done" /\ (status[p] = "running" => todo[p] = Script)

\* The call of teardown_throttle() that takes back a call of setup_throttle().
Undo(c) == Cmd(CASE c.op = "register" -> "deregister"
                 [] c.op = "hook" -> "unhook"
                 [] OTHER -> "off", c.arg)

Ahead(p, c) == status[p] = "running" /\ c \in Calls(todo[p])
Past(p, c) == status[p] = "done" \/ (status[p] = "running" /\ c \notin Calls(todo[p]))

\* The commands only clients send, of those that do something.
OwnSetup == Calls(Setup) \ (CliCommand \cup {Cmd("register", EmptyName)})

\* What is set up although a client has taken it back was set up by another
\* one, which has still to take it back or has failed.
UndoneInv ==
    \A c \in OwnSetup :
        InForce(c) /\ (\E p \in Admin : Past(p, Undo(c))) =>
            \E q \in Admin : status[q] = "void" \/ Ahead(q, Undo(c))

ClientInv == StatusInv /\ ForceInv /\ FreshInv /\ UndoneInv
-----------------------------------------------------------------------------
\* The calls of two sequences in a row are the calls of both.
LEMMA CallsConcat ==
    ASSUME NEW X, NEW s \in Seq(X), NEW t \in Seq(X)
    PROVE  Calls(s \o t) = Calls(s) \cup Calls(t)
<1>1. Len(s \o t) = Len(s) + Len(t) /\ Len(s) \in Nat /\ Len(t) \in Nat OBVIOUS
<1>2. \A i \in 1..Len(s) : (s \o t)[i] = s[i] OBVIOUS
<1>3. \A i \in 1..Len(t) : (s \o t)[Len(s) + i] = t[i] OBVIOUS
<1>4. \A i \in 1..Len(s \o t) : (s \o t)[i] \in Calls(s) \cup Calls(t)
  <2>. TAKE i \in 1..Len(s \o t)
  <2>1. CASE i <= Len(s) BY <1>1, <1>2, <2>1 DEF Calls
  <2>2. CASE i > Len(s)
    <3>1. i - Len(s) \in 1..Len(t) /\ i = Len(s) + (i - Len(s)) BY <1>1, <2>2
    <3>. QED BY <1>3, <3>1 DEF Calls
  <2>. QED BY <1>1, <2>1, <2>2
<1>5. Calls(s) \subseteq Calls(s \o t) BY <1>1, <1>2 DEF Calls
<1>6. Calls(t) \subseteq Calls(s \o t)
  <2>1. \A i \in 1..Len(t) : Len(s) + i \in 1..Len(s \o t) BY <1>1
  <2>. QED BY <1>3, <2>1 DEF Calls
<1>7. Calls(s \o t) \subseteq Calls(s) \cup Calls(t) BY Zenon, <1>4 DEF Calls
<1>. QED BY Zenon, <1>5, <1>6, <1>7

\* The same for four in a row.
LEMMA CallsConcat4 ==
    ASSUME NEW X, NEW a \in Seq(X), NEW b \in Seq(X), NEW c \in Seq(X), NEW d \in Seq(X)
    PROVE  /\ a \o b \o c \o d \in Seq(X)
           /\ Calls(a \o b \o c \o d) = Calls(a) \cup Calls(b) \cup Calls(c) \cup Calls(d)
<1>. DEFINE ab == a \o b
            abc == ab \o c
<1>1. ab \in Seq(X) /\ Calls(ab) = Calls(a) \cup Calls(b) BY CallsConcat
<1>. HIDE DEF ab
<1>2. abc \in Seq(X) /\ Calls(abc) = Calls(ab) \cup Calls(c) BY <1>1, CallsConcat
<1>. HIDE DEF abc
<1>3. abc \o d \in Seq(X) /\ Calls(abc \o d) = Calls(abc) \cup Calls(d) BY <1>2, CallsConcat
<1>. QED BY Zenon, <1>1, <1>2, <1>3 DEF ab, abc

\* What setup_throttle() and teardown_throttle() send, and that the one takes
\* back what the other does.
LEMMA ScriptCalls ==
    /\ Len(Setup) \in Nat /\ Len(Teardown) \in Nat /\ Len(Script) = Len(Setup) + Len(Teardown)
    /\ \A j \in 1..Len(Teardown) : Script[Len(Setup) + j] = Teardown[j]
    /\ Cmd("on", NoSyscall) \in Calls(Setup)
    /\ Calls(Script) = Calls(Setup) \cup Calls(Teardown)
    /\ \A c \in Calls(Setup) :
          /\ c.op \in {"register", "hook", "on"}
          /\ c = Cmd(c.op, c.arg)
          /\ Undo(c) \in Calls(Teardown)
    /\ \A c \in Calls(Teardown) : c.op \in {"deregister", "unhook", "off"}
<1>. DEFINE X == [op : {"register", "hook", "on", "deregister", "unhook", "off"},
                  arg : Item \cup Syscall \cup {NoSyscall}]
            Of(op, args) == {Cmd(op, args[i]) : i \in 1..Len(args)}
<1>1. ASSUME NEW op \in {"register", "hook", "on", "deregister", "unhook", "off"},
             NEW args \in Seq(Item \cup Syscall)
      PROVE  Each(op, args) \in Seq(X) /\ Calls(Each(op, args)) = Of(op, args)
  <2>0. Len(args) \in Nat /\ \A i \in 1..Len(args) : args[i] \in Item \cup Syscall BY <1>1
  <2>1. \A i \in 1..Len(args) : Cmd(op, args[i]) \in X BY Zenon, <1>1, <2>0 DEF Cmd
  <2>. HIDE DEF X
  <2>2. Each(op, args) \in Seq(X) /\ Len(Each(op, args)) = Len(args) BY <2>0, <2>1 DEF Each
  <2>. QED BY Zenon, <2>2 DEF Calls, Each
<1>2. ASSUME NEW op \in {"on", "off"}
      PROVE  <<Cmd(op, NoSyscall)>> \in Seq(X)
             /\ Calls(<<Cmd(op, NoSyscall)>>) = {Cmd(op, NoSyscall)}
  BY <1>2 DEF Calls, Cmd
<1>3. /\ Users \in Seq(Item \cup Syscall) /\ Programs \in Seq(Item \cup Syscall)
      /\ Syscalls \in Seq(Item \cup Syscall)
  BY LifecycleAssumption
<1>. HIDE DEF X
<1>4. /\ Setup \in Seq(X)
      /\ Calls(Setup) = Of("register", Users) \cup Of("register", Programs)
                        \cup Of("hook", Syscalls) \cup {Cmd("on", NoSyscall)}
  <2>. DEFINE A == Each("register", Users)
              B == Each("register", Programs)
              C == Each("hook", Syscalls)
              D == <<Cmd("on", NoSyscall)>>
  <2>1. A \in Seq(X) /\ B \in Seq(X) /\ C \in Seq(X) /\ D \in Seq(X) BY Zenon, <1>1, <1>2, <1>3
  <2>2. /\ Calls(A) = Of("register", Users) /\ Calls(B) = Of("register", Programs)
        /\ Calls(C) = Of("hook", Syscalls) /\ Calls(D) = {Cmd("on", NoSyscall)}
    BY Zenon, <1>1, <1>2, <1>3
  <2>3. Setup = A \o B \o C \o D BY DEF Setup
  <2>. HIDE DEF A, B, C, D, Of
  <2>4. /\ A \o B \o C \o D \in Seq(X)
        /\ Calls(A \o B \o C \o D) = Calls(A) \cup Calls(B) \cup Calls(C) \cup Calls(D)
    BY <2>1, CallsConcat4
  <2>. QED BY Zenon, <2>2, <2>3, <2>4
<1>5. /\ Teardown \in Seq(X)
      /\ Calls(Teardown) = {Cmd("off", NoSyscall)} \cup Of("unhook", Syscalls)
                           \cup Of("deregister", Programs) \cup Of("deregister", Users)
  <2>. DEFINE A == <<Cmd("off", NoSyscall)>>
              B == Each("unhook", Syscalls)
              C == Each("deregister", Programs)
              D == Each("deregister", Users)
  <2>1. A \in Seq(X) /\ B \in Seq(X) /\ C \in Seq(X) /\ D \in Seq(X) BY Zenon, <1>1, <1>2, <1>3
  <2>2. /\ Calls(A) = {Cmd("off", NoSyscall)} /\ Calls(B) = Of("unhook", Syscalls)
        /\ Calls(C) = Of("deregister", Programs) /\ Calls(D) = Of("deregister", Users)
    BY Zenon, <1>1, <1>2, <1>3
  <2>3. Teardown = A \o B \o C \o D BY DEF Teardown
  <2>. HIDE DEF A, B, C, D, Of
  <2>4. /\ A \o B \o C \o D \in Seq(X)
        /\ Calls(A \o B \o C \o D) = Calls(A) \cup Calls(B) \cup Calls(C) \cup Calls(D)
    BY <2>1, CallsConcat4
  <2>. QED BY Zenon, <2>2, <2>3, <2>4
<1>6. Calls(Script) = Calls(Setup) \cup Calls(Teardown) BY <1>4, <1>5, CallsConcat DEF Script
<1>7. ASSUME NEW c \in Calls(Setup)
      PROVE  /\ c.op \in {"register", "hook", "on"} /\ c = Cmd(c.op, c.arg)
             /\ Undo(c) \in Calls(Teardown)
  <2>1. CASE c \in Of("register", Users) \cup Of("register", Programs) BY <1>5, <2>1 DEF Undo, Cmd
  <2>2. CASE c \in Of("hook", Syscalls) BY <1>5, <2>2 DEF Undo, Cmd
  <2>3. CASE c = Cmd("on", NoSyscall) BY <1>5, <2>3 DEF Undo, Cmd
  <2>. QED BY <1>4, <1>7, <2>1, <2>2, <2>3
<1>8. ASSUME NEW c \in Calls(Teardown) PROVE c.op \in {"deregister", "unhook", "off"}
  BY <1>5, <1>8 DEF Cmd
<1>9. /\ Len(Setup) \in Nat /\ Len(Teardown) \in Nat /\ Len(Script) = Len(Setup) + Len(Teardown)
      /\ \A j \in 1..Len(Teardown) : Script[Len(Setup) + j] = Teardown[j]
  BY <1>4, <1>5 DEF Script
<1>10. Cmd("on", NoSyscall) \in Calls(Setup) BY <1>4
<1>. QED BY <1>10, <1>6, <1>7, <1>8, <1>9

-----------------------------------------------------------------------------
\* The whole script and nothing are rests of it.
LEMMA RestEnds == IsRest(Script) /\ IsRest(<<>>) /\ Script \in Seq(Command)
<1>1. Script \in Seq(Command) BY CommandType DEF Script
<1>2. Len(Script) \in Nat BY <1>1
<1>3. IsRest(Script)
  <2>1. 0 \in 0..Len(Script) /\ Len(Script) = Len(Script) - 0 BY <1>2
  <2>2. \A i \in 1..Len(Script) : Script[i] = Script[0 + i] BY <1>2
  <2>. QED BY Zenon, <2>1, <2>2 DEF IsRest
<1>4. IsRest(<<>>)
  <2>1. Len(Script) \in 0..Len(Script) /\ Len(<<>>) = Len(Script) - Len(Script) BY <1>2
  <2>2. \A i \in 1..Len(<<>>) : <<>>[i] = Script[Len(Script) + i] OBVIOUS
  <2>. QED BY Zenon, <2>1, <2>2 DEF IsRest
<1>. QED BY <1>1, <1>3, <1>4

\* A call less.
LEMMA RestTail ==
    ASSUME NEW s \in Seq(Command), IsRest(s), s # <<>>
    PROVE  /\ IsRest(Tail(s)) /\ Tail(s) \in Seq(Command)
           /\ Calls(s) = {Head(s)} \cup Calls(Tail(s))
<1>0. Len(Script) \in Nat BY RestEnds
<1>1. /\ Len(s) \in Nat \ {0} /\ Len(Tail(s)) = Len(s) - 1 /\ Head(s) = s[1]
      /\ \A i \in 1..Len(Tail(s)) : Tail(s)[i] = s[i + 1]
      /\ Tail(s) \in Seq(Command)
  OBVIOUS
<1>2. IsRest(Tail(s))
  <2>1. PICK k \in 0..Len(Script) : /\ Len(s) = Len(Script) - k
                                    /\ \A i \in 1..Len(s) : s[i] = Script[k + i]
    BY DEF IsRest
  <2>2. k + 1 \in 0..Len(Script) /\ Len(Tail(s)) = Len(Script) - (k + 1) BY <1>0, <1>1, <2>1
  <2>3. \A i \in 1..Len(Tail(s)) : Tail(s)[i] = Script[(k + 1) + i]
    <3>. TAKE i \in 1..Len(Tail(s))
    <3>1. i + 1 \in 1..Len(s) /\ k + (i + 1) = (k + 1) + i BY <1>1, <2>1
    <3>. QED BY <1>1, <2>1, <3>1
  <2>. QED BY Zenon, <2>2, <2>3 DEF IsRest
<1>3. Calls(s) = {Head(s)} \cup Calls(Tail(s))
  <2>1. ASSUME NEW i \in 1..Len(s) PROVE s[i] = Head(s) \/ s[i] \in Calls(Tail(s))
    <3>1. CASE i = 1 BY <1>1, <3>1
    <3>2. CASE i # 1
      <4>1. i - 1 \in 1..Len(Tail(s)) /\ (i - 1) + 1 = i BY <1>1, <2>1, <3>2
      <4>. QED BY <1>1, <4>1 DEF Calls
    <3>. QED BY <3>1, <3>2
  <2>2. 1 \in 1..Len(s) /\ \A i \in 1..Len(Tail(s)) : i + 1 \in 1..Len(s) BY <1>1
  <2>3. {Head(s)} \cup Calls(Tail(s)) \subseteq Calls(s) BY <1>1, <2>2 DEF Calls
  <2>. QED BY Zenon, <2>1, <2>3 DEF Calls
<1>. QED BY <1>1, <1>2, <1>3

\* Whoever comes to a call of setup_throttle() has all of teardown_throttle()
\* ahead.
LEMMA RestOfSetup ==
    ASSUME NEW s \in Seq(Command), IsRest(s), s # <<>>, Head(s) \in Calls(Setup)
    PROVE  Calls(Teardown) \subseteq Calls(s)
<1>0. /\ Len(Setup) \in Nat /\ Len(Teardown) \in Nat /\ Len(Script) = Len(Setup) + Len(Teardown)
      /\ \A j \in 1..Len(Teardown) : Script[Len(Setup) + j] = Teardown[j]
  BY ScriptCalls
<1>1. PICK k \in 0..Len(Script) : /\ Len(s) = Len(Script) - k
                                  /\ \A i \in 1..Len(s) : s[i] = Script[k + i]
  BY DEF IsRest
<1>2. Len(s) \in Nat \ {0} /\ Head(s) = s[1] OBVIOUS
<1>3. k < Len(Setup)
  <2>. SUFFICES ASSUME k >= Len(Setup) PROVE FALSE BY <1>0
  <2>. DEFINE j == (k + 1) - Len(Setup)
  <2>1. 1 \in 1..Len(s) /\ j \in 1..Len(Teardown) /\ Len(Setup) + j = k + 1 BY <1>0, <1>1, <1>2
  <2>. HIDE DEF j
  <2>2. Head(s) = Teardown[j]
    <3>1. s[1] = Script[k + 1] BY Zenon, <1>1, <2>1
    <3>2. Script[Len(Setup) + j] = Teardown[j] BY Zenon, <1>0, <2>1
    <3>. QED BY <1>2, <2>1, <3>1, <3>2
  <2>3. Head(s) \in Calls(Teardown) BY Zenon, <2>1, <2>2 DEF Calls
  <2>4. Head(s).op \in {"register", "hook", "on"} BY Zenon, ScriptCalls
  <2>5. Head(s).op \in {"deregister", "unhook", "off"} BY Zenon, <2>3, ScriptCalls
  <2>. QED BY <2>4, <2>5
<1>4. ASSUME NEW j \in 1..Len(Teardown) PROVE Teardown[j] \in Calls(s)
  <2>. DEFINE i == (Len(Setup) + j) - k
  <2>1. i \in 1..Len(s) /\ k + i = Len(Setup) + j BY <1>0, <1>1, <1>2, <1>3
  <2>. HIDE DEF i
  <2>2. s[i] = Script[k + i] BY Zenon, <1>1, <2>1
  <2>3. s[i] = Teardown[j] BY <1>0, <2>1, <2>2
  <2>. QED BY Zenon, <2>1, <2>3 DEF Calls
<1>. QED BY Zenon, <1>4 DEF Calls

-----------------------------------------------------------------------------
\* The steps that concern no client, or move it inside a call.
LEMMA StatusFrame ==
    ASSUME StatusInv, UNCHANGED <<todo, status, cmd>>,
           \A p \in Admin : upc'[p] # "idle" => upc[p] # "idle"
    PROVE  StatusInv'
BY DEF StatusInv

\* Which steps change the script, the status and the command of a process.
LEMMA ProcQuiet ==
    ASSUME DeviceInv, NEW p \in Admin, ProcStep(p)
    PROVE  \/ /\ UNCHANGED <<todo, status, cmd, module>>
              /\ \E l : upc' = [upc EXCEPT ![p] = l]
           \/ /\ UNCHANGED <<registered, bitmap, working, module>>
              /\ \E r : /\ Return(p, r)
                        /\ (upc[p] = "close" /\ r = result[p]) \/ r \in {"ENOENT", "EBUSY"}
<1>1. CASE OpenFails(p) \/ OpenBusy(p) \/ sysThrot_release(p)
  <2>1. UNCHANGED <<registered, bitmap, working, module>>
    BY <1>1 DEF OpenFails, OpenBusy, sysThrot_release, vars, hookVars, deviceVars
  <2>. QED BY Zenon, <1>1, <2>1 DEF OpenFails, OpenBusy, sysThrot_release
<1>2. CASE sysThrot_open(p) BY Zenon, <1>2 DEF sysThrot_open, vars
<1>3. ASSUME NEW l, NEW r, Goes(p, l, r)
      PROVE  UNCHANGED <<todo, status, cmd>> /\ upc' = [upc EXCEPT ![p] = l]
  BY Zenon, <1>3 DEF Goes
<1>4. CASE (\E l, r : Goes(p, l, r)) /\ UNCHANGED module BY Zenon, <1>3, <1>4
<1>5. CASE NotRoot(p) \/ IoctlFails(p) \/ sysThrot_read(p) \/ Register(p) \/ Deregister(p)
           \/ HookRefused(p) \/ TurnRefused(p) \/ TurnOn(p) \/ OffRest(p)
  BY Zenon, <1>4, <1>5 DEF NotRoot, IoctlFails, sysThrot_read, Register, Deregister, HookRefused,
     TurnRefused, TurnOn, OffRest, vars
<1>6. CASE HookBegins(p) \/ HookStep(p) \/ OnSet(p) \/ TurnOff(p)
  BY Zenon, <1>4, <1>6 DEF HookBegins, InstallCheck, RemoveCheck, HookStep, ActorStep, Resolve,
    Hook,
     Unhook, ReadByte, WriteByte, OnSet, TurnOff, SetWorking
<1>. QED BY Zenon, <1>1, <1>2, <1>5, <1>6 DEF ProcStep

\* What a return leaves a client to do.
LEMMA ReturnLeaves ==
    ASSUME CommandInv, StatusInv, NEW p \in Admin, NEW r, Return(p, r), todo[p] # <<>>
    PROVE  \/ /\ GoesOn(p, r)
              /\ todo' = [todo EXCEPT ![p] = Tail(todo[p])]
              /\ status' = [status EXCEPT ![p] =
                    IF Tail(todo[p]) = <<>> /\ status[p] = "running" THEN "done" ELSE status[p]]
           \/ /\ ~GoesOn(p, r)
              /\ todo' = [todo EXCEPT ![p] = <<>>]
              /\ status' = [status EXCEPT ![p] = "void"]
BY Zenon DEF Return, StatusInv

\* Every step keeps clients to their scripts.
LEMMA StatusStep ==
    ASSUME CommandInv, DeviceInv, StatusInv, [LifeNext]_lifeVars
    PROVE  StatusInv'
<1>0. /\ upc \in [Admin -> UserPc] /\ cmd \in [Admin -> Command \cup {NoCmd}]
      /\ todo \in [Admin -> Seq(Command)]
      /\ status \in [Admin -> {"new", "running", "done", "void"}]
  BY DEF CommandInv, DeviceInv, StatusInv
<1>1. ASSUME NEW p \in Admin, StartClient(p) PROVE StatusInv'
  <2>1. /\ upc[p] = "idle" /\ UNCHANGED <<upc, cmd>>
        /\ todo' = [todo EXCEPT ![p] = Script] /\ status' = [status EXCEPT ![p] = "running"]
    BY <1>1 DEF StartClient, Script
  <2>2. Script # <<>>
    <3>1. Len(Setup) # 0 BY ScriptCalls DEF Calls
    <3>. QED BY <3>1, ScriptCalls
  <2>. QED BY <1>0, <2>1, <2>2, RestEnds DEF StatusInv
<1>2. ASSUME NEW p \in Admin, NEW c, Start(p, c),
             IF todo[p] = <<>> THEN c \in CliCommand ELSE c = Head(todo[p])
      PROVE  StatusInv'
  <2>1. /\ UNCHANGED <<todo, status>>
        /\ upc' = [upc EXCEPT ![p] = "open"] /\ cmd' = [cmd EXCEPT ![p] = c]
    BY <1>2 DEF Start
  <2>. QED BY <1>0, <1>2, <2>1 DEF StatusInv
<1>3. ASSUME NEW p \in Admin, ProcStep(p) PROVE StatusInv'
  <2>1. CASE UNCHANGED <<todo, status, cmd>> /\ \E l : upc' = [upc EXCEPT ![p] = l]
    <3>1. upc[p] # "idle" BY <1>3 DEF ProcStep
    <3>. QED BY Zenon, <1>0, <2>1, <3>1, StatusFrame
  <2>2. ASSUME NEW r, Return(p, r) PROVE StatusInv'
    <3>1. upc' = [upc EXCEPT ![p] = "idle"] /\ cmd' = [cmd EXCEPT ![p] = NoCmd] BY <2>2 DEF Return
    <3>2. CASE todo[p] = <<>>
      <4>1. UNCHANGED <<todo, status>> BY <2>2, <3>2 DEF Return
      <4>. QED BY <1>0, <3>1, <4>1 DEF StatusInv
    <3>3. CASE todo[p] # <<>>
      <4>1. IsRest(Tail(todo[p])) /\ IsRest(<<>>) BY <1>0, <3>3, RestTail, RestEnds DEF StatusInv
      <4>2. PICK left, st :
               /\ todo' = [todo EXCEPT ![p] = left] /\ status' = [status EXCEPT ![p] = st]
               /\ IsRest(left) /\ st \in {"new", "running", "done", "void"}
               /\ st = "running" => left # <<>>
               /\ st \in {"new", "done"} => left = <<>>
        <5>1. CASE GoesOn(p, r)
          <6>1. status[p] \in {"running", "void"} BY <3>3, <1>0 DEF StatusInv
          <6>. QED BY Zenon, <2>2, <3>3, <4>1, <5>1, <6>1, ReturnLeaves
        <5>2. CASE ~GoesOn(p, r) BY Zenon, <2>2, <3>3, <4>1, <5>2, ReturnLeaves
        <5>. QED BY Zenon, <5>1, <5>2
      <4>. QED BY <1>0, <3>1, <4>2 DEF StatusInv
    <3>. QED BY <3>2, <3>3
  <2>. QED BY Zenon, <1>3, <2>1, <2>2, ProcQuiet
<1>4. CASE Insmod
  <2>1. UNCHANGED <<todo, upc, cmd>>
        /\ status' = [p \in Admin |-> IF todo[p] = <<>> THEN "new" ELSE "void"]
    BY <1>4 DEF Insmod
  <2>. QED BY <1>0, <2>1 DEF StatusInv
<1>5. CASE UNCHANGED procVars BY <1>5, StatusFrame DEF procVars
<1>6. CASE InitStep \/ Rmmods \/ LifeCleanupStep \/ UNCHANGED lifeVars
  <2>1. UNCHANGED procVars
    BY Zenon, <1>6 DEF InitStep, InitStore, Acquire, InitFails, InitValues, InitTurnOn, InitOnSet,
       InitReturns, Rmmods, LifeCleanupStep, Cleaned, lifeVars
  <2>. QED BY <1>5, <2>1
<1>7. ASSUME NEW p \in Admin, StartCli(p) \/ ClientCall(p) PROVE StatusInv'
  BY Zenon, <1>2, <1>7 DEF StartCli, ClientCall
<1>. QED BY Zenon, <1>1, <1>3, <1>4, <1>5, <1>6, <1>7 DEF LifeNext, CallerStep

-----------------------------------------------------------------------------
\* A client's command, and the results after which it goes on.
LEMMA ClientCommand ==
    ASSUME CommandInv, StatusInv, NEW p \in Admin, upc[p] # "idle", todo[p] # <<>>
    PROVE  /\ cmd[p] = Head(todo[p]) /\ cmd[p] \in Command
           /\ cmd[p].op \in {"register", "hook", "on", "deregister", "unhook", "off"}
           /\ \A r : GoesOn(p, r) => r \in {"ok", "EEXIST", "EALREADY", "EINVAL"}
<1>1. cmd[p] = Head(todo[p]) BY DEF StatusInv
<1>2. todo[p] \in Seq(Command) /\ IsRest(todo[p]) BY DEF CommandInv, StatusInv
<1>3. Head(todo[p]) \in Command BY <1>2
<1>4. Head(todo[p]) \in Calls(Script)
  <2>1. Len(Script) \in Nat BY RestEnds
  <2>2. Len(todo[p]) \in Nat \ {0} /\ Head(todo[p]) = todo[p][1] BY <1>2
  <2>3. PICK k \in 0..Len(Script) : /\ Len(todo[p]) = Len(Script) - k
                                    /\ \A i \in 1..Len(todo[p]) : todo[p][i] = Script[k + i]
    BY <1>2 DEF IsRest
  <2>4. k + 1 \in 1..Len(Script) /\ 1 \in 1..Len(todo[p]) BY <2>1, <2>2, <2>3
  <2>5. Head(todo[p]) = Script[k + 1] BY <2>2, <2>3, <2>4
  <2>. QED BY Zenon, <2>4, <2>5 DEF Calls
<1>5. cmd[p].op \in {"register", "hook", "on", "deregister", "unhook", "off"}
  BY <1>1, <1>4, ScriptCalls
<1>6. Accepts(cmd[p].op) \subseteq {"EEXIST", "EALREADY", "EINVAL"} BY <1>5 DEF Accepts
<1>. QED BY <1>1, <1>3, <1>5, <1>6 DEF GoesOn

\* How a step changes what clients have to do and how they stand.
LEMMA ScriptSteps ==
    ASSUME DeviceInv, [LifeNext]_lifeVars
    PROVE  \/ UNCHANGED <<todo, status>>
           \/ Insmod
           \/ \E p \in Admin : StartClient(p)
           \/ \E p \in Admin : \E r :
                 /\ Return(p, r) /\ upc[p] # "idle" /\ todo[p] # <<>>
                 /\ UNCHANGED <<registered, bitmap, working, module>>
                 /\ (upc[p] = "close" /\ r = result[p]) \/ r \in {"ENOENT", "EBUSY"}
<1>1. ASSUME NEW p \in Admin, StartCli(p) \/ ClientCall(p) PROVE UNCHANGED <<todo, status>>
  BY Zenon, <1>1 DEF StartCli, ClientCall, Start
<1>2. CASE UNCHANGED procVars BY <1>2 DEF procVars
<1>3. CASE InitStep \/ Rmmods \/ LifeCleanupStep \/ UNCHANGED lifeVars
  BY Zenon, <1>2, <1>3 DEF InitStep, InitStore, Acquire, InitFails, InitValues, InitTurnOn,
    InitOnSet,
     InitReturns, Rmmods, LifeCleanupStep, Cleaned, lifeVars
<1>4. ASSUME NEW p \in Admin, NEW r, Return(p, r), todo[p] = <<>> PROVE UNCHANGED <<todo, status>>
  BY Zenon, <1>4 DEF Return
<1>5. ASSUME NEW p \in Admin, ProcStep(p)
      PROVE  \/ UNCHANGED <<todo, status>>
             \/ \E r : /\ Return(p, r) /\ upc[p] # "idle" /\ todo[p] # <<>>
                       /\ UNCHANGED <<registered, bitmap, working, module>>
                       /\ (upc[p] = "close" /\ r = result[p]) \/ r \in {"ENOENT", "EBUSY"}
  <2>1. upc[p] # "idle" BY <1>5 DEF ProcStep
  <2>. QED BY Zenon, <1>4, <1>5, <2>1, ProcQuiet
<1>. QED BY Zenon, <1>1, <1>2, <1>3, <1>5 DEF LifeNext, CallerStep

\* No client makes progress while the module is being loaded.
LEMMA FreshStep ==
    ASSUME CommandInv, DeviceInv, StatusInv, FreshInv, [LifeNext]_lifeVars
    PROVE  FreshInv'
<1>. SUFFICES ASSUME module' = "coming"
              PROVE  \A p \in Admin : status'[p] # "done" /\ (status'[p] = "running" => todo'[p] = Script)
  BY DEF FreshInv
<1>0. todo \in [Admin -> Seq(Command)] /\ status \in [Admin -> {"new", "running", "done", "void"}]
  BY DEF CommandInv, StatusInv
<1>1. CASE Insmod BY <1>1 DEF Insmod
<1>2. CASE module # "coming"
  <2>1. \A p \in Admin : ~ProcStep(p) BY Zenon, <1>2, ProcQuiet
  <2>2. \A p \in Admin : ~StartClient(p) /\ ~StartCli(p) /\ ~ClientCall(p)
    BY Zenon, <1>2 DEF StartClient, StartCli, ClientCall, Start, vars
  <2>3. ~InitStep BY <1>2 DEF InitStep
  <2>4. ~Rmmods BY <1>2 DEF Rmmods, StartCleanup
  <2>5. ~LifeCleanupStep
    BY Zenon, <1>2 DEF LifeCleanupStep, Cleaned, Unload, AllRemoved, Drained, RemoveCheck,
      ActorStep,
       Resolve, Hook, Unhook, ReadByte, WriteByte
  <2>6. \A t \in Thread : /\ ~CallerStep(t) /\ ~Sleep(t)
                          /\ ~\E s \in Syscall : EnterTrampoline(t, s)
    BY Zenon, <1>2 DEF CallerStep, ThreadStep, Count, WakeUp, StubReturns, Uncount, Ret, Sleep,
       EnterTrampoline, Move
  <2>7. ~DrainWait /\ ~UNCHANGED lifeVars BY Zenon, <1>2 DEF DrainWait, lifeVars, vars
  <2>. QED BY Zenon, <1>1, <2>1, <2>2, <2>3, <2>4, <2>5, <2>6, <2>7 DEF LifeNext
<1>3. CASE module = "coming"
  <2>1. \A p \in Admin : upc[p] # "close" BY <1>3 DEF DeviceInv, Holders, IsOpen
  <2>2. \A p \in Admin : status[p] # "done" /\ (status[p] = "running" => todo[p] = Script)
    BY <1>3 DEF FreshInv
  <2>3. ASSUME NEW p \in Admin, StartClient(p)
        PROVE  todo' = [todo EXCEPT ![p] = Script] /\ status' = [status EXCEPT ![p] = "running"]
    BY <2>3 DEF StartClient, Script
  <2>4. ASSUME NEW p \in Admin, NEW r \in {"ENOENT", "EBUSY"}, Return(p, r), todo[p] # <<>>,
               upc[p] # "idle"
        PROVE  status' = [status EXCEPT ![p] = "void"] /\ todo' = [todo EXCEPT ![p] = <<>>]
    <3>1. ~GoesOn(p, r) BY <2>4, ClientCommand
    <3>. QED BY Zenon, <2>4, <3>1, ReturnLeaves
  <2>5. CASE UNCHANGED <<todo, status>> BY <2>2, <2>5
  <2>6. CASE \E p \in Admin : StartClient(p)
    <3>1. PICK p \in Admin : StartClient(p) BY Zenon, <2>6
    <3>. QED BY Zenon, <1>0, <2>2, <2>3, <3>1
  <2>7. CASE \E p \in Admin : \E r \in {"ENOENT", "EBUSY"} :
                Return(p, r) /\ todo[p] # <<>> /\ upc[p] # "idle"
    BY <1>0, <2>2, <2>4, <2>7
  <2>. QED BY Zenon, <1>1, <2>1, <2>5, <2>6, <2>7, ScriptSteps
<1>. QED BY <1>2, <1>3

-----------------------------------------------------------------------------
\* A configuration with the effect of a command has it in force.
LEMMA EffectForces ==
    ASSUME NEW c, NEW b \in Configurations, Configuration = Effect(c, b)
    PROVE  InForce(c)
<1>1. /\ registered = Configuration.items /\ bitmap = Configuration.hooks
      /\ working = Configuration.on
  BY Zenon DEF Configuration
<1>2. b = [items |-> b.items, hooks |-> b.hooks, on |-> b.on] BY DEF Configurations
<1>3. CASE c.op = "register" /\ c.arg # EmptyName
  <2>1. Effect(c, b) = [b EXCEPT !.items = @ \cup {c.arg}] BY Zenon, <1>3 DEF Effect
  <2>2. registered = b.items \cup {c.arg} BY <1>1, <1>2, <2>1
  <2>. QED BY <1>3, <2>2 DEF InForce
<1>4. CASE c.op = "register" /\ c.arg = EmptyName BY <1>4 DEF InForce
<1>5. CASE c.op = "deregister"
  <2>1. Effect(c, b) = [b EXCEPT !.items = @ \ {c.arg}] BY Zenon, <1>5 DEF Effect
  <2>2. registered = b.items \ {c.arg} BY <1>1, <1>2, <2>1
  <2>. QED BY <1>5, <2>2 DEF InForce
<1>6. CASE c.op = "hook"
  <2>1. Effect(c, b) = [b EXCEPT !.hooks = @ \cup {c.arg}] BY Zenon, <1>6 DEF Effect
  <2>2. bitmap = b.hooks \cup {c.arg} BY <1>1, <1>2, <2>1
  <2>. QED BY <1>6, <2>2 DEF InForce
<1>7. CASE c.op = "unhook"
  <2>1. Effect(c, b) = [b EXCEPT !.hooks = @ \ {c.arg}] BY Zenon, <1>7 DEF Effect
  <2>2. bitmap = b.hooks \ {c.arg} BY <1>1, <1>2, <2>1
  <2>. QED BY <1>7, <2>2 DEF InForce
<1>8. CASE c.op \in {"on", "off"}
  <2>1. Effect(c, b) = [b EXCEPT !.on = (c.op = "on")] BY Zenon, <1>8 DEF Effect
  <2>2. working = (c.op = "on") BY Zenon, <1>1, <1>2, <2>1
  <2>. QED BY Zenon, <1>8, <2>2 DEF InForce
<1>9. CASE c.op \notin {"register", "deregister", "hook", "unhook", "on", "off"}
  BY Zenon, <1>9 DEF InForce
<1>. QED BY Zenon, <1>3, <1>4, <1>5, <1>6, <1>7, <1>8, <1>9

\* A command that succeeded is in force until the device is closed.
OkInForce == \A p \in Admin : upc[p] = "close" /\ result[p] = "ok" => InForce(cmd[p])

LEMMA OkForces == ConfigInv => OkInForce
<1>. SUFFICES ASSUME ConfigInv, NEW p \in Admin, upc[p] = "close", result[p] = "ok"
              PROVE  InForce(cmd[p])
  BY DEF OkInForce
<1>1. Configuration = Effect(cmd[p], before[p]) /\ before[p] \in Configurations
  BY Zenon DEF ConfigInv, Progress
<1>. QED BY Zenon, <1>1, EffectForces

\* A process about to close the device has been so, and nothing has happened
\* to it or to the configuration, or comes from its own ioctl.
LEMMA CloseSteps ==
    ASSUME CommandInv, DeviceInv, [LifeNext]_lifeVars, NEW p \in Admin, upc'[p] = "close"
    PROVE  \/ /\ upc[p] = "close"
              /\ UNCHANGED <<cmd[p], result[p], todo[p], registered, bitmap, working>>
           \/ /\ ProcStep(p) /\ upc[p] \in IsOpen \ {"close"} /\ UNCHANGED <<cmd, todo>>
<1>0. /\ upc \in [Admin -> UserPc] /\ cmd \in [Admin -> Command \cup {NoCmd}]
      /\ todo \in [Admin -> Seq(Command)]
  BY DEF DeviceInv, CommandInv
<1>1. ASSUME NEW q \in Admin, ProcStep(q), q # p
      PROVE  /\ upc[p] = "close"
             /\ UNCHANGED <<cmd[p], result[p], todo[p], registered, bitmap, working>>
  <2>1. upc[p] = "close"
    <3>1. PICK l : upc' = [upc EXCEPT ![q] = l] BY Zenon, <1>1, ProcQuiet DEF Return
    <3>. QED BY <1>0, <1>1, <3>1
  <2>2. upc[q] \notin IsOpen BY <1>1, <2>1 DEF DeviceInv, IsOpen
  <2>3. OpenFails(q) \/ sysThrot_open(q) \/ OpenBusy(q)
    BY Zenon, <1>1, <2>2 DEF ProcStep, sysThrot_release, Begins, NotRoot, IoctlFails, sysThrot_read,
       Register, Deregister, HookRefused, HookBegins, HookStep, TurnRefused, TurnOn, OnSet, TurnOff,
       OffRest, IsOpen
  <2>4. CASE sysThrot_open(q) BY <2>1, <2>4 DEF sysThrot_open, vars, hookVars
  <2>5. CASE OpenFails(q) \/ OpenBusy(q)
    <3>1. PICK r : Return(q, r) BY Zenon, <2>5 DEF OpenFails, OpenBusy
    <3>2. UNCHANGED <<registered, bitmap, working>>
      BY <2>5 DEF OpenFails, OpenBusy, vars, hookVars, deviceVars
    <3>3. UNCHANGED <<cmd[p], result[p]>>
      BY <1>0, <1>1, <3>1 DEF Return
    <3>4. todo'[p] = todo[p] BY Zenon, <1>0, <1>1, <3>1 DEF Return
    <3>. QED BY Zenon, <2>1, <3>2, <3>3, <3>4
  <2>. QED BY Zenon, <2>3, <2>4, <2>5
<1>2. CASE ProcStep(p)
  <2>1. \A r : ~Return(p, r) BY <1>0 DEF Return
  <2>2. UNCHANGED <<todo, cmd>> BY Zenon, <1>2, <2>1, ProcQuiet
  <2>3. ~OpenFails(p) /\ ~OpenBusy(p) /\ ~sysThrot_release(p)
    BY Zenon, <2>1 DEF OpenFails, OpenBusy, sysThrot_release
  <2>4. ~sysThrot_open(p) BY <1>0 DEF sysThrot_open
  <2>5. upc[p] \in {"opened", "hooking", "on_set", "off_rest"}
    BY Zenon, <1>2, <2>3, <2>4 DEF ProcStep, Begins, NotRoot, IoctlFails, sysThrot_read,
       Register, Deregister, HookRefused, HookBegins, HookStep, TurnRefused, TurnOn, OnSet, TurnOff,
       OffRest
  <2>. QED BY <1>2, <2>2, <2>5 DEF IsOpen
<1>3. ASSUME NEW q \in Admin, StartClient(q)
      PROVE  /\ upc[p] = "close"
             /\ UNCHANGED <<cmd[p], result[p], todo[p], registered, bitmap, working>>
  BY <1>0, <1>3 DEF StartClient, vars, hookVars, deviceVars
<1>4. ASSUME NEW q \in Admin, NEW c, Start(q, c)
      PROVE  /\ upc[p] = "close"
             /\ UNCHANGED <<cmd[p], result[p], todo[p], registered, bitmap, working>>
  <2>1. q # p BY <1>0, <1>4 DEF Start
  <2>. QED BY <1>0, <1>4, <2>1 DEF Start, vars, hookVars, deviceVars
<1>5. ~Insmod /\ ~InitStep /\ ~Rmmods /\ ~LifeCleanupStep
  <2>. SUFFICES ASSUME Insmod \/ InitStep \/ Rmmods \/ LifeCleanupStep PROVE FALSE OBVIOUS
  <2>1. Holders = {}
    BY Zenon DEF Insmod, Load, InitStep, Rmmods, Unused, LifeCleanupStep, DeviceInv
  <2>2. UNCHANGED upc
    BY Zenon DEF Insmod, InitStep, InitStore, Acquire, InitFails, InitValues, InitTurnOn,
      InitOnSet, InitReturns, Rmmods, LifeCleanupStep, Cleaned, procVars
  <2>. QED BY <2>1, <2>2 DEF Holders, IsOpen
<1>6. ASSUME NEW t \in Thread, UNCHANGED <<deviceVars, procVars>>,
             ThreadStep(t) \/ Sleep(t) \/ \E s \in Syscall : EnterTrampoline(t, s)
      PROVE  /\ upc[p] = "close"
             /\ UNCHANGED <<cmd[p], result[p], todo[p], registered, bitmap, working>>
  BY Zenon, <1>6 DEF ThreadStep, Count, WakeUp, StubReturns, Uncount, Ret, Sleep,
     EnterTrampoline, Move, hookVars, deviceVars, procVars
<1>7. CASE UNCHANGED lifeVars BY Zenon, <1>7 DEF lifeVars, vars, hookVars, deviceVars, procVars
<1>8. CASE DrainWait /\ UNCHANGED <<deviceVars, procVars>> BY <1>7, <1>8 DEF DrainWait, lifeVars
<1>. QED BY Zenon, <1>1, <1>2, <1>3, <1>4, <1>5, <1>6, <1>7, <1>8 DEF LifeNext, CallerStep,
  StartCli,
       ClientCall

\* A client goes on only when its command is in force.
LEMMA ForceStep ==
    ASSUME LifeInv, ConfigInv', StatusInv, ForceInv, [LifeNext]_lifeVars
    PROVE  ForceInv'
<1>. SUFFICES ASSUME NEW p \in Admin, upc'[p] = "close", todo'[p] # <<>>, GoesOn(p, result[p])'
              PROVE  InForce(cmd[p])'
  BY Zenon DEF ForceInv
<1>0. /\ CommandInv /\ DeviceInv /\ result \in [Admin -> Results] BY DEF LifeInv, ConfigInv
<1>1. CASE result'[p] = "ok"
  <2>1. (ConfigInv => OkInForce)' BY OkForces, PTL
  <2>. QED BY Zenon, <1>1, <2>1 DEF OkInForce
<1>2. CASE /\ upc[p] = "close"
           /\ UNCHANGED <<cmd[p], result[p], todo[p], registered, bitmap, working>>
  <2>1. GoesOn(p, result[p]) BY <1>2 DEF GoesOn
  <2>2. InForce(cmd[p]) BY Zenon, <1>2, <2>1 DEF ForceInv
  <2>. QED BY Zenon, <1>2, <2>2 DEF InForce
<1>3. CASE /\ result'[p] # "ok"
           /\ ProcStep(p) /\ upc[p] \in IsOpen \ {"close"} /\ UNCHANGED <<cmd, todo>>
  <2>1. result'[p] \in {"EEXIST", "EALREADY", "EINVAL"}
    <3>1. upc[p] # "idle" /\ todo[p] # <<>> BY <1>3 DEF IsOpen
    <3>2. GoesOn(p, result'[p]) BY Zenon, <1>3 DEF GoesOn
    <3>. QED BY Zenon, <1>0, <1>3, <3>1, <3>2, ClientCommand
  <2>2. ASSUME NEW l, NEW r, Goes(p, l, r) PROVE l = "close" /\ r = result'[p]
    BY <1>0, <2>2 DEF Goes, DeviceInv
  <2>3. \A r \in {"none", "ok", "EPERM", "error"} : \A l : ~Goes(p, l, r) BY <2>1, <2>2
  <2>4. Register(p) \/ Deregister(p) \/ HookRefused(p) \/ TurnRefused(p)
    <3>1. ~OpenFails(p) /\ ~sysThrot_open(p) /\ ~OpenBusy(p) /\ ~sysThrot_release(p)
      BY <1>3 DEF OpenFails, sysThrot_open, OpenBusy, sysThrot_release, IsOpen
    <3>2. /\ ~NotRoot(p) /\ ~IoctlFails(p) /\ ~sysThrot_read(p) /\ ~HookBegins(p) /\ ~HookStep(p)
          /\ ~TurnOn(p) /\ ~OnSet(p) /\ ~TurnOff(p) /\ ~OffRest(p)
      BY Zenon, <2>3 DEF NotRoot, IoctlFails, sysThrot_read, HookBegins, HookStep, TurnOn, OnSet,
         TurnOff, OffRest
    <3>. QED BY Zenon, <1>3, <3>1, <3>2 DEF ProcStep
  <2>5. CASE Register(p)
    <3>1. cmd[p].op = "register" /\ (cmd[p].arg = EmptyName \/ cmd[p].arg \in registered')
      BY Zenon, <2>5 DEF Register, Begins
    <3>. QED BY <1>3, <3>1 DEF InForce
  <2>6. CASE Deregister(p)
    <3>1. cmd[p].op = "deregister" BY Zenon, <2>6 DEF Deregister, Begins
    <3>2. cmd[p].arg \notin registered'
      BY <2>6, <2>3 DEF Deregister
    <3>. QED BY <1>3, <3>1, <3>2 DEF InForce
  <2>7. CASE HookRefused(p)
    <3>1. /\ cmd[p].op \in {"hook", "unhook"} /\ bitmap' = bitmap
          /\ (cmd[p].arg \in bitmap) = (cmd[p].op = "hook")
      BY Zenon, <2>7 DEF HookRefused, Begins, vars, hookVars
    <3>. QED BY <1>3, <3>1 DEF InForce
  <2>8. CASE TurnRefused(p)
    <3>1. cmd[p].op \in {"on", "off"} /\ working' = working /\ working = (cmd[p].op = "on")
      BY Zenon, <2>8 DEF TurnRefused, Begins, vars
    <3>. QED BY Zenon, <1>3, <3>1 DEF InForce
  <2>. QED BY Zenon, <2>4, <2>5, <2>6, <2>7, <2>8
<1>. QED BY Zenon, <1>0, <1>1, <1>2, <1>3, CloseSteps

-----------------------------------------------------------------------------
\* Whatever comes into force beyond what is, outside sysThrot_init(), a
\* process does that is in a call with that command.
LEMMA WhoSets ==
    ASSUME LifeInv, module # "coming", [LifeNext]_lifeVars
    PROVE  \/ registered' \subseteq registered /\ bitmap' \subseteq bitmap /\ (working' => working)
           \/ \E p \in Admin :
                 /\ upc[p] # "idle"
                 /\ \/ /\ cmd[p].op = "register" /\ registered' = registered \cup {cmd[p].arg}
                       /\ UNCHANGED <<bitmap, working>>
                    \/ /\ cmd[p].op = "hook" /\ bitmap' = bitmap \cup {cmd[p].arg}
                       /\ UNCHANGED <<registered, working>>
                    \/ /\ cmd[p].op = "on" /\ UNCHANGED <<registered, bitmap>>
<1>0. CommandInv /\ DeviceInv /\ HooksInv /\ ConfigInv BY DEF LifeInv
<1>1. CASE UNCHANGED <<registered, bitmap, working>> BY Zenon, <1>1
<1>2. ASSUME NEW a \in Actor, ActorStep(a)
      PROVE  \/ bitmap' = bitmap
             \/ apc[a] = "clear" /\ bitmap' = bitmap \ {asys[a]}
             \/ apc[a] = "set" /\ bitmap' = bitmap \cup {asys[a]}
  <2>1. CASE WriteByte(a)
    <3>1. apc[a] \in {"set", "clear"} BY <2>1 DEF WriteByte
    <3>2. byte[a] = bitmap BY Zenon, <1>0, <3>1 DEF HooksInv, Tracked, Knows
    <3>. QED BY Zenon, <2>1, <3>1, <3>2 DEF WriteByte
  <2>2. CASE ~WriteByte(a)
    BY Zenon, <1>2, <2>2 DEF ActorStep, Resolve, Hook, Unhook, ReadByte, hookVars
  <2>. QED BY <2>1, <2>2
<1>3. ASSUME NEW p \in Admin, HookStep(p)
      PROVE  \/ bitmap' \subseteq bitmap
             \/ cmd[p].op = "hook" /\ bitmap' = bitmap \cup {cmd[p].arg}
  <2>1. upc[p] = "hooking" /\ ActorStep(p) BY <1>3 DEF HookStep
  <2>2. /\ asys[p] = cmd[p].arg
        /\ cmd[p].op = IF apc[p] \in {"unhook", "read_clear", "clear"} THEN "unhook" ELSE "hook"
    BY Zenon, <1>0, <2>1 DEF ConfigInv, Progress
  <2>3. p \in Actor BY DEF Actor
  <2>. QED BY <1>2, <2>1, <2>2, <2>3
<1>4. ASSUME NEW p \in Admin, ProcStep(p), ~UNCHANGED <<registered, bitmap, working>>
      PROVE  \/ registered' \subseteq registered /\ bitmap' \subseteq bitmap /\ (working' => working)
             \/ /\ upc[p] # "idle"
                /\ \/ /\ cmd[p].op = "register" /\ registered' = registered \cup {cmd[p].arg}
                      /\ UNCHANGED <<bitmap, working>>
                   \/ /\ cmd[p].op = "hook" /\ bitmap' = bitmap \cup {cmd[p].arg}
                      /\ UNCHANGED <<registered, working>>
                   \/ /\ cmd[p].op = "on" /\ UNCHANGED <<registered, bitmap>>
  <2>0. upc[p] # "idle" BY <1>4 DEF ProcStep
  <2>1. CASE Register(p)
    <3>1. cmd[p].op = "register" /\ UNCHANGED <<bitmap, working>>
      BY <2>1 DEF Register, Begins, vars, hookVars
    <3>2. registered' = registered \/ registered' = registered \cup {cmd[p].arg}
      BY <2>1 DEF Register
    <3>. QED BY Zenon, <1>4, <2>0, <3>1, <3>2
  <2>2. CASE Deregister(p)
    <3>1. UNCHANGED <<bitmap, working>> BY <2>2 DEF Deregister, vars, hookVars
    <3>2. registered' \subseteq registered BY <2>2 DEF Deregister
    <3>. QED BY Zenon, <3>1, <3>2
  <2>3. CASE HookStep(p)
    <3>1. UNCHANGED <<registered, working>>
      BY Zenon, <2>3 DEF HookStep, ActorStep, Resolve, Hook, Unhook, ReadByte, WriteByte
    <3>. QED BY Zenon, <1>3, <2>0, <2>3, <3>1
  <2>4. CASE OnSet(p)
    <3>1. upc[p] = "on_set" /\ UNCHANGED <<registered, bitmap>>
      BY <2>4 DEF OnSet, SetWorking, hookVars
    <3>2. cmd[p].op = "on" BY Zenon, <1>0, <3>1 DEF ConfigInv, Progress
    <3>. QED BY Zenon, <2>0, <3>1, <3>2
  <2>5. CASE TurnOff(p)
    <3>1. ~working' /\ UNCHANGED <<registered, bitmap>> BY <2>5 DEF TurnOff, SetWorking, hookVars
    <3>. QED BY Zenon, <3>1
  <2>6. CASE HookBegins(p)
    BY Zenon, <1>4, <2>6 DEF HookBegins, InstallCheck, RemoveCheck, hookVars
  <2>7. CASE OpenFails(p) \/ sysThrot_open(p) \/ OpenBusy(p) \/ sysThrot_release(p) \/ NotRoot(p)
             \/ IoctlFails(p) \/ sysThrot_read(p) \/ HookRefused(p) \/ TurnRefused(p) \/ TurnOn(p)
             \/ OffRest(p)
    BY Zenon, <1>4, <2>7 DEF OpenFails, sysThrot_open, OpenBusy, sysThrot_release, NotRoot,
      IoctlFails,
       sysThrot_read, HookRefused, TurnRefused, TurnOn, OffRest, vars, hookVars, deviceVars
  <2>. QED BY Zenon, <1>4, <2>1, <2>2, <2>3, <2>4, <2>5, <2>6, <2>7 DEF ProcStep
<1>5. ASSUME NEW p \in Admin, StartClient(p) \/ StartCli(p) \/ ClientCall(p)
      PROVE  UNCHANGED <<registered, bitmap, working>>
  BY Zenon, <1>5 DEF StartClient, StartCli, ClientCall, Start, vars, hookVars, deviceVars
<1>6. CASE Insmod
  BY <1>6 DEF Insmod, Load
<1>7. ~InitStep BY DEF InitStep
<1>8. CASE Rmmods
  BY <1>8 DEF Rmmods, StartCleanup, hookVars
<1>9. CASE LifeCleanupStep
  <2>1. registered' \subseteq registered
    BY Zenon, <1>9 DEF LifeCleanupStep, Cleaned, deviceVars
  <2>2. working' = working
    BY Zenon, <1>9 DEF LifeCleanupStep, Cleaned, Unload, AllRemoved, Drained, RemoveCheck,
      ActorStep,
       Resolve, Hook, Unhook, ReadByte, WriteByte
  <2>3. bitmap' \subseteq bitmap
    <3>1. CASE ActorStep(Rmmod)
      <4>1. apc[Rmmod] # "set" BY <1>0 DEF HooksInv, Phases
      <4>. QED BY <1>2, <3>1, <4>1 DEF Actor
    <3>2. CASE ~ActorStep(Rmmod)
      BY Zenon, <1>9, <3>2 DEF LifeCleanupStep, Cleaned, Unload, AllRemoved, Drained, RemoveCheck,
         hookVars
    <3>. QED BY <3>1, <3>2
  <2>. QED BY Zenon, <2>1, <2>2, <2>3
<1>10. ASSUME NEW t \in Thread, UNCHANGED <<deviceVars, procVars>>,
             ThreadStep(t) \/ Sleep(t) \/ \E s \in Syscall : EnterTrampoline(t, s)
      PROVE  UNCHANGED <<registered, bitmap, working>>
  BY Zenon, <1>10 DEF ThreadStep, Count, WakeUp, StubReturns, Uncount, Ret, Sleep,
     EnterTrampoline, Move, hookVars, deviceVars
<1>11. CASE UNCHANGED lifeVars BY Zenon, <1>1, <1>11 DEF lifeVars, vars, hookVars, deviceVars
<1>12. CASE DrainWait /\ UNCHANGED <<deviceVars, procVars>> BY <1>11, <1>12 DEF DrainWait, lifeVars
<1>. QED BY Zenon, <1>1, <1>4, <1>5, <1>6, <1>7, <1>8, <1>9, <1>10, <1>11, <1>12
         DEF LifeNext, CallerStep

\* What a client sets up comes into force by its own call, or by that of
\* another client.
LEMMA SetBy ==
    ASSUME LifeInv, module # "coming", [LifeNext]_lifeVars, NEW c \in OwnSetup,
           ~InForce(c), InForce(c)'
    PROVE  \E p \in Admin : upc[p] # "idle" /\ cmd[p] = c
<1>1. /\ c.op \in {"register", "hook", "on"} /\ c = Cmd(c.op, c.arg)
      /\ c \notin {Cmd("register", EmptyName)}
  BY ScriptCalls DEF OwnSetup
<1>2. c \in Command
  <2>1. c \in Calls(Script) BY Zenon, ScriptCalls DEF OwnSetup
  <2>. QED BY Zenon, <2>1 DEF Calls, Script, Command
<1>3. c.op = "on" => c.arg = NoSyscall BY <1>2, CommandType
<1>4. c.op = "register" => c.arg # EmptyName BY Zenon, <1>1
<1>5. \/ c.op = "register" /\ c.arg \notin registered /\ c.arg \in registered'
      \/ c.op = "hook" /\ c.arg \notin bitmap /\ c.arg \in bitmap'
      \/ c.op = "on" /\ ~working /\ working'
  BY Zenon, <1>1, <1>4 DEF InForce
<1>6. ~(registered' \subseteq registered /\ bitmap' \subseteq bitmap /\ (working' => working))
  BY Zenon, <1>5
<1>7. PICK p \in Admin :
         /\ upc[p] # "idle"
         /\ \/ /\ cmd[p].op = "register" /\ registered' = registered \cup {cmd[p].arg}
               /\ UNCHANGED <<bitmap, working>>
            \/ /\ cmd[p].op = "hook" /\ bitmap' = bitmap \cup {cmd[p].arg}
               /\ UNCHANGED <<registered, working>>
            \/ /\ cmd[p].op = "on" /\ UNCHANGED <<registered, bitmap>>
  BY Zenon, <1>6, WhoSets
<1>8. cmd[p] \in Command
  <2>1. cmd[p] # NoCmd BY <1>7 DEF NoCmd, Cmd
  <2>. QED BY <2>1 DEF LifeInv, CommandInv
<1>9. cmd[p] = Cmd(cmd[p].op, cmd[p].arg) /\ (cmd[p].op = "on" => cmd[p].arg = NoSyscall)
  BY <1>8, CommandType
<1>10. cmd[p].op = c.op /\ cmd[p].arg = c.arg BY <1>3, <1>5, <1>7, <1>9
<1>. QED BY Zenon, <1>1, <1>7, <1>9, <1>10

\* A command and the one that takes it back are not both in force.
LEMMA UndoExcludes ==
    ASSUME NEW c \in OwnSetup, InForce(c), InForce(Undo(c)) PROVE FALSE
<1>1. /\ c.op \in {"register", "hook", "on"} /\ c = Cmd(c.op, c.arg)
      /\ c \notin {Cmd("register", EmptyName)}
  BY ScriptCalls DEF OwnSetup
<1>2. CASE c.op = "register"
  <2>1. Undo(c).op = "deregister" /\ Undo(c).arg = c.arg BY <1>2 DEF Undo, Cmd
  <2>2. c.arg # EmptyName BY Zenon, <1>1, <1>2
  <2>. QED BY <1>2, <2>1, <2>2 DEF InForce
<1>3. CASE c.op = "hook"
  <2>1. Undo(c).op = "unhook" /\ Undo(c).arg = c.arg BY <1>3 DEF Undo, Cmd
  <2>. QED BY <1>3, <2>1 DEF InForce
<1>4. CASE c.op = "on"
  <2>1. Undo(c).op = "off" BY <1>4 DEF Undo, Cmd
  <2>. QED BY <1>4, <2>1 DEF InForce
<1>. QED BY <1>1, <1>2, <1>3, <1>4

\* What is set up although a client has taken it back is another's.
LEMMA UndoneStep ==
    ASSUME LifeInv, ClientInv, [LifeNext]_lifeVars
    PROVE  UndoneInv'
<1>. SUFFICES ASSUME NEW c \in OwnSetup, InForce(c)', NEW p \in Admin, Past(p, Undo(c))'
              PROVE  \E q \in Admin : status'[q] = "void" \/ Ahead(q, Undo(c))'
  BY Zenon DEF UndoneInv
<1>0. /\ CommandInv /\ DeviceInv /\ StatusInv /\ ForceInv /\ FreshInv /\ UndoneInv
      /\ todo \in [Admin -> Seq(Command)]
      /\ status \in [Admin -> {"new", "running", "done", "void"}]
  BY DEF LifeInv, ClientInv, CommandInv, StatusInv
<1>. DEFINE U == Undo(c)
<1>1. c \in Calls(Setup) /\ c \notin CliCommand /\ U \in Calls(Teardown) /\ U \in Calls(Script)
  BY Zenon, ScriptCalls DEF OwnSetup
<1>. HIDE DEF U
<1>2. CASE UNCHANGED <<todo, status>>
  <2>1. Past(p, U) BY Zenon, <1>2 DEF Past, U
  <2>2. CASE InForce(c)
    <3>1. PICK q \in Admin : status[q] = "void" \/ Ahead(q, U) BY Zenon, <1>0, <2>1,
      <2>2 DEF UndoneInv, U
    <3>. QED BY Zenon, <1>2, <3>1 DEF Ahead, U
  <2>3. CASE ~InForce(c)
    <3>1. module # "coming" BY <1>0, <1>1, <2>1 DEF FreshInv, Past
    <3>2. PICK q \in Admin : upc[q] # "idle" /\ cmd[q] = c BY Zenon, <2>3, <3>1, SetBy
    <3>3. todo[q] # <<>> /\ Head(todo[q]) = c BY Zenon, <1>0, <1>1, <3>2 DEF StatusInv
    <3>4. U \in Calls(todo[q])
      <4>1. todo[q] \in Seq(Command) /\ IsRest(todo[q]) BY <1>0 DEF StatusInv
      <4>. QED BY <1>1, <3>3, <4>1, RestOfSetup
    <3>5. status[q] \in {"running", "void"} BY <1>0, <3>3 DEF StatusInv
    <3>. QED BY Zenon, <1>2, <3>4, <3>5 DEF Ahead, U
  <2>. QED BY <2>2, <2>3
<1>3. CASE Insmod BY <1>0, <1>3 DEF Insmod, Past
<1>4. ASSUME NEW q \in Admin, StartClient(q) PROVE Ahead(q, U)'
  <2>1. todo'[q] = Script /\ status'[q] = "running" BY <1>0, <1>4 DEF StartClient, Script
  <2>. QED BY <1>1, <2>1 DEF Ahead, U
<1>5. ASSUME NEW q \in Admin, NEW r, Return(q, r), upc[q] # "idle", todo[q] # <<>>,
             UNCHANGED <<registered, bitmap, working, module>>,
             (upc[q] = "close" /\ r = result[q]) \/ r \in {"ENOENT", "EBUSY"}
      PROVE  \E x \in Admin : status'[x] = "void" \/ Ahead(x, U)'
  <2>1. CASE ~GoesOn(q, r)
    <3>1. status' = [status EXCEPT ![q] = "void"] BY Zenon, <1>0, <1>5, <2>1, ReturnLeaves
    <3>. QED BY <1>0, <3>1
  <2>2. CASE GoesOn(q, r)
    <3>1. cmd[q] = Head(todo[q]) /\ r \in {"ok", "EEXIST", "EALREADY", "EINVAL"}
      BY Zenon, <1>0, <1>5, <2>2, ClientCommand
    <3>2. upc[q] = "close" /\ r = result[q] BY <1>5, <3>1
    <3>3. InForce(cmd[q]) BY Zenon, <1>0, <1>5, <2>2, <3>2 DEF ForceInv
    <3>4. InForce(c) BY Zenon, <1>5 DEF InForce
    <3>5. U # Head(todo[q]) BY Zenon, <3>1, <3>3, <3>4, UndoExcludes DEF U
    <3>6. U \in Calls(todo[q]) <=> U \in Calls(Tail(todo[q]))
      <4>1. Calls(todo[q]) = {Head(todo[q])} \cup Calls(Tail(todo[q]))
        BY <1>0, <1>5, RestTail DEF StatusInv
      <4>. QED BY Zenon, <3>5, <4>1
    <3>7. /\ todo' = [todo EXCEPT ![q] = Tail(todo[q])]
          /\ status' = [status EXCEPT ![q] =
                IF Tail(todo[q]) = <<>> /\ status[q] = "running" THEN "done" ELSE status[q]]
      BY Zenon, <1>0, <1>5, <2>2, ReturnLeaves
    <3>8. U \notin Calls(<<>>) BY DEF Calls
    <3>9. status[q] \in {"running", "void"} BY <1>0, <1>5 DEF StatusInv
    <3>10. Past(p, U)
      <4>1. CASE p # q BY <1>0, <3>7, <4>1 DEF Past, U
      <4>2. CASE p = q
        <5>1. /\ todo'[q] = Tail(todo[q])
              /\ status'[q] = IF Tail(todo[q]) = <<>> /\ status[q] = "running" THEN "done" ELSE status[q]
          BY <1>0, <3>7
        <5>. QED BY Zenon, <3>6, <3>8, <3>9, <4>2, <5>1 DEF Past, U
      <4>. QED BY <4>1, <4>2
    <3>11. PICK x \in Admin : status[x] = "void" \/ Ahead(x, U)
      BY Zenon, <1>0, <3>4, <3>10 DEF UndoneInv, U
    <3>12. CASE x # q BY <1>0, <3>7, <3>11, <3>12 DEF Ahead, U
    <3>13. CASE x = q
      <4>1. /\ todo'[q] = Tail(todo[q])
            /\ status'[q] = IF Tail(todo[q]) = <<>> /\ status[q] = "running" THEN "done" ELSE status[q]
        BY <1>0, <3>7
      <4>. QED BY Zenon, <3>11, <3>13, <3>6, <3>8, <4>1 DEF Ahead, U
    <3>. QED BY <3>12, <3>13
  <2>. QED BY <2>1, <2>2
<1>6. \E q \in Admin : status'[q] = "void" \/ Ahead(q, U)'
  BY Zenon, <1>0, <1>2, <1>3, <1>4, <1>5, ScriptSteps DEF U
<1>. QED BY Zenon, <1>6 DEF U

-----------------------------------------------------------------------------
\* At first no client has begun.
LEMMA ClientInitial == LifeInit => ClientInv
<1>. SUFFICES ASSUME LifeInit PROVE ClientInv OBVIOUS
<1>1. StatusInv BY RestEnds DEF LifeInit, StatusInv
<1>2. ForceInv /\ FreshInv BY DEF LifeInit, ForceInv, FreshInv
<1>3. \A p \in Admin : \A c : ~Past(p, c) BY DEF LifeInit, Past
<1>. QED BY Zenon, <1>1, <1>2, <1>3 DEF ClientInv, UndoneInv

\* All parts together are inductive.
LEMMA ClientInvariant ==
    ASSUME ~Preemptible, ~OpenDuringInit, ~StoreFaults
    PROVE  LifeSpec => [](LifeInv /\ ClientInv)
<1>1. ASSUME LifeInv, LifeInv', ClientInv, [LifeNext]_lifeVars PROVE ClientInv'
  <2>1. CommandInv /\ DeviceInv /\ ConfigInv' /\ StatusInv /\ FreshInv /\ ForceInv
    BY <1>1 DEF LifeInv, ClientInv
  <2>2. StatusInv' BY <1>1, <2>1, StatusStep
  <2>3. ForceInv' BY <1>1, <2>1, ForceStep
  <2>4. FreshInv' BY <1>1, <2>1, FreshStep
  <2>5. UndoneInv' BY <1>1, UndoneStep
  <2>. QED BY <2>2, <2>3, <2>4, <2>5 DEF ClientInv
<1>2. LifeInv /\ LifeInv' /\ ClientInv /\ [LifeNext]_lifeVars => ClientInv' BY <1>1
<1>. QED BY <1>2, ClientInitial, LifeInvariant, PTL DEF LifeSpec

\* The invariant has the types of every variable, and with them the bounds:
\* dev_available falls no lower than one per administrator, and there is
\* one slab cache at most.
LEMMA InvTypes == LifeInv /\ ClientInv => LifeTypeOK
<1>. SUFFICES ASSUME LifeInv, ClientInv PROVE LifeTypeOK OBVIOUS
<1>1. dev_available \in 1 - Cardinality(Admin) .. 1
  <2>1. Holders \subseteq Admin BY DEF Holders
  <2>2. /\ Cardinality(Holders) \in Nat /\ Cardinality(Admin) \in Nat
        /\ Cardinality(Holders) <= Cardinality(Admin)
    BY Zenon, <2>1, LifecycleAssumption, FS_Subset, FS_CardinalityType
  <2>3. dev_available = 1 - Cardinality(Holders) BY DEF LifeInv, DeviceInv
  <2>. QED BY <2>2, <2>3
<1>2. ResInv BY DEF LifeInv
<1>3. res \subseteq {"store", "proc", "timer", "cache"} \cup Driver
  <2>1. CASE ipc \in DOMAIN After BY <1>2, <2>1 DEF ResInv, Held, Driver
  <2>2. CASE module = "gone" BY <1>2, <2>2 DEF ResInv
  <2>3. CASE ipc \notin DOMAIN After /\ module # "gone"
    <3>1. res \ {"timer", "cache"} = Base BY Zenon, <1>2, <2>3 DEF ResInv, InitSteps
    <3>. QED BY <3>1 DEF Base
  <2>. QED BY <2>1, <2>2, <2>3
<1>4. caches \in 0..1 BY <1>2 DEF ResInv
<1>5. ipc \in DOMAIN After \cup {"values", "turn_on", "on_set", "return", "none", "failed"}
  BY Zenon, <1>2 DEF ResInv, InitSteps
<1>6. TypeOK BY DEF LifeInv, HooksInv
<1>7. upc \in [Admin -> IsOpen \cup {"idle", "open", "busy"}] BY DEF LifeInv, DeviceInv, UserPc
<1>8. cmd \in [Admin -> Command \cup {NoCmd}] BY DEF LifeInv, CommandInv
<1>9. result \in [Admin -> {"none", "ok", "EPERM", "EEXIST", "EINVAL", "EALREADY", "error"}]
  BY DEF LifeInv, ConfigInv, Results
<1>10. status \in [Admin -> {"new", "running", "done", "void"}] BY DEF ClientInv, StatusInv
<1>. QED BY Zenon, <1>1, <1>3, <1>4, <1>5, <1>6, <1>7, <1>8, <1>9, <1>10 DEF LifeTypeOK

\* Clients that have all ended well have left nothing in force.
LEMMA InvUndoes == LifeInv /\ ClientInv => AllUndone
<1>. SUFFICES ASSUME LifeInv, ClientInv, NEW p \in Admin, status[p] = "done",
                     \A q \in Admin : status[q] \in {"new", "done"},
                     NEW i \in 1..Len(Setup),
                     Setup[i] \notin CliCommand \cup {Cmd("register", EmptyName)},
                     Effect(Setup[i], Configuration) = Configuration
              PROVE  FALSE
  BY Zenon DEF AllUndone
<1>. DEFINE c == Setup[i]
<1>1. c \in OwnSetup BY Zenon DEF OwnSetup, Calls
<1>2. Configuration \in Configurations
  BY Zenon DEF LifeInv, HooksInv, TypeOK, ConfigInv, Configuration, Configurations
<1>3. InForce(c) BY Zenon, <1>2, EffectForces
<1>4. Past(p, Undo(c)) BY DEF Past
<1>. HIDE DEF c
<1>5. PICK q \in Admin : status[q] = "void" \/ Ahead(q, Undo(c))
  BY Zenon, <1>1, <1>3, <1>4 DEF ClientInv, UndoneInv
<1>6. status[q] \in {"void", "running"} BY <1>5 DEF Ahead
<1>7. status[q] \in {"new", "done"} OBVIOUS
<1>. QED BY <1>6, <1>7

\* Types, for any number of administrators: the counter of sysThrot_open()
\* falls by at most one per process, what is held stays among the resources
\* init acquires, and sysThrot_turn_on() never makes a second slab cache.
THEOREM LifecycleTypes ==
    ASSUME ~Preemptible, ~OpenDuringInit, ~StoreFaults
    PROVE  LifeSpec => []LifeTypeOK
BY ClientInvariant, InvTypes, PTL

\* However the calls of any number of clients and of systhrot interleave, and
\* whatever errors client goes on after, once every client that ran has ended
\* well nothing that clients alone set up is left in force.
THEOREM ClientsUndoAll ==
    ASSUME ~Preemptible, ~OpenDuringInit, ~StoreFaults
    PROVE  LifeSpec => []AllUndone
BY ClientInvariant, InvUndoes, PTL
=============================================================================
