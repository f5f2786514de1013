SPECIFICATION Spec
CONSTANTS
    N = 3
    Limit = 2
    Args = {2}
    Typed = {1}
INVARIANTS
    TypeOK
    NoEndlessSearch
    CountsSum
    BoundedWait
    CommandOnce
