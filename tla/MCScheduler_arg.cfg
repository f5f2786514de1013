SPECIFICATION Spec
CONSTANTS
    N = 3
    Limit = 2
    Args = {0, 2}
    Typed = {1}
INVARIANTS
    ReadsItsArgument
