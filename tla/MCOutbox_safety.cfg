SPECIFICATION Spec
CONSTANTS
    e1 = e1
    e2 = e2
    None = None
    Events = {e1, e2}
    Workers = {w1, w2}
    AggregateOf <- OwnAggregate
    Slow = {e1, e2}
    SlowQueries = TRUE
    MaxAttempts = 2
    BatchSize = 2
    MaxAborts = 2
INVARIANTS NoEarlyGiveUp DoneWasDelivered
PROPERTY TerminalRowsOnlyLeftByHandler
SYMMETRY WorkerSymmetry
