CONSTANTS
    s1 = s1
    u1 = u1
    Thread = {t1}
    Syscall = {s1}
    Admin = {p1, p2}
    Users <- MCUsers
    Programs <- MCPrograms
    Syscalls <- MCSyscalls
    EmptyName = EmptyName
    Item = {u1, EmptyName}
    Operator = {p1}
    CliCommand <- MCCli
    Rmmod = rmmod
    NoSyscall = NoSyscall
    Preemptible = FALSE
    OpenDuringInit = FALSE
    StoreFaults = FALSE
SPECIFICATION LifeFairSpec
INVARIANTS
    LifeTypeOK
    HooksTracked
    NoDanglingHook
    UnloadSafe
    OneOpener
    ResourcesFollowWorking
    NoMisuse
    NothingLeft
    ResultExact
    AllUndone
PROPERTIES
    RmmodCompletes
    CallReturns
