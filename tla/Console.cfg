SPECIFICATION Spec
CONSTANTS
    CPUs = {c1}
    Procs = {p1, p2}
    Locks = {"cons", "ptable"}
    FREE = FREE
    NONE = NONE
    INPUT_BUF = 3
    WRAP = 6
    Chars = {"a", "newline", "eof", "backspace", "killline", "dump"}
    Lengths = {2}
SYMMETRY SymProcs
INVARIANTS CliMatched SleepJustified
PROPERTIES IsLineInput
