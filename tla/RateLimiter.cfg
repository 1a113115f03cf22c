SPECIFICATION Spec
CONSTANTS
    Rate = 2
    Burst = 3
    Second = 3
    MaxTime = 7
INVARIANTS WithinRate
PROPERTIES RefusedWhenFast
