\* Two producers with two records each, in all four layer stacks; Close is
\* called once the producers are done, as after a completed reader wait.
CONSTANTS
    p1 = p1
    p2 = p2
    Producers = {p1, p2}
    RecordsPerProducer = 2
    CloseAfterProducers = TRUE
SYMMETRY ProducerSymmetry
SPECIFICATION Spec
INVARIANT CloseDeliversAll
PROPERTY ImplementsAppendLog
