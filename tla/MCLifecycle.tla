---------------------------- MODULE MCLifecycle -----------------------------
(* Lifecycle for TLC: two clients, or a client and a user of systhrot. *)
EXTENDS Lifecycle

CONSTANTS s1, u1

MCUsers == <<u1>>
MCPrograms == <<>>
MCSyscalls == <<s1>>
MCCli == {Cmd("register", EmptyName), Cmd("off", NoSyscall), Cmd("read", NoSyscall)}
=============================================================================
