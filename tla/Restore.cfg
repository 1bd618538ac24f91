CONSTANTS
    Thread = {t1}
    Syscall = {s1}
    Admin = {a1}
    Rmmod = rmmod
    NoSyscall = NoSyscall
    Preemptible = FALSE
SPECIFICATION Spec
INVARIANTS
    TextRestored
