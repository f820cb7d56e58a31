SPECIFICATION Spec
CONSTANTS
    e1 = e1
    e2 = e2
    None = None
    Events = {e1, e2}
    Workers = {w1, w2}
    AggregateOf <- OwnAggregate
    Slow = {}
    SlowQueries = FALSE
    MaxAttempts = 2
    BatchSize = 2
    MaxAborts = 0
INVARIANT ExclusiveDispatch
