\* Some hundreds of programs; the machine stops at the end of its program.
SPECIFICATION Spec
CONSTANTS
    Nil = Nil
    Realms <- MCRealms
    Programs <- MCPrograms
    Want <- MCWant
CHECK_DEADLOCK FALSE
INVARIANTS
    StacksNest
    RunsAsGo
PROPERTIES
    Halts
