SPECIFICATION Spec
CONSTANTS
    a1 = a1  a2 = a2  a3 = a3  m1 = m1  m2 = m2
    Arenas = {a1, a2, a3}
    Messages = {m1, m2}
    Sizes = {10, 28}
    arena_chunk_size = 28
    Align = 8
    large_message_size = 20
    arena_pool_size = 1
    MaxTotal = 38
    MaxSwitches = 2
INVARIANTS TypeOK OneOwner BlocksAreSound DisabledHoldsLate ReaperHears
SYMMETRY Symmetry
CHECK_DEADLOCK FALSE
