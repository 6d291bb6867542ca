\* Two workers and two calls: the first misses and starts installing, the
\* second looks the address up while the assignment is in progress.
CONSTANTS
    w1 = w1
    w2 = w2
    Workers = {w1, w2}
    IPs = {"10.0.0.1"}
    Ports = {"80"}
    Lens = {1}
    Hashes = {"h1"}
    SNINames = {""}
    Protos = {"TLS"}
    MaxObs = 2
SYMMETRY WorkerSymmetry
SPECIFICATION Spec
INVARIANT NoMapRace
