\* Two producers with two records each, in all four layer stacks; Close may
\* run while producers still write, as after the reader wait timed out.
CONSTANTS
    p1 = p1
    p2 = p2
    Producers = {p1, p2}
    RecordsPerProducer = 2
    CloseAfterProducers = FALSE
SYMMETRY ProducerSymmetry
SPECIFICATION Spec
INVARIANT CloseDeliversAll
