\* Every policy, every vector of up to three upstreams, concurrent calls.
SPECIFICATION Spec
CONSTANTS
    Calls = {c1, c2}
    Configured = 3
    MaySkip = TRUE
    CounterWidth = 64
    Timeout = 1
    MaxTime = 4
INVARIANTS ResolverInv TurnsBalanced ReturnsInTime SamplesNamed
PROPERTIES Implements CallsReturn
