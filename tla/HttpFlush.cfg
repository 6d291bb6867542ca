\* Two streams, two requests, up to two entries per stream and map, so that
\* a stream can hold a paired and an unpaired response, and requests can be
\* left over on a stream that has responses too. Protobuf output.
CONSTANTS
    s1 = s1
    s2 = s2
    q1 = q1
    q2 = q2
    Streams = {s1, s2}
    Requests = {q1, q2}
    CSV = FALSE
    MaxPerStream = 2
SYMMETRY FlushSymmetry
SPECIFICATION Spec
INVARIANT FlushComplete
