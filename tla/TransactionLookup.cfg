SPECIFICATION Spec
CONSTANTS
    Shards = {s0, s1, meta}
    SCRs = {x1, x2}
    Tx = tx
    None = none
SYMMETRY Symmetry
INVARIANTS ResultsAreComplete NoShardForgotten AskedWithItsHash PassesAreBounded
