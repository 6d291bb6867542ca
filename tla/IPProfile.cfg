\* Two workers observing three packets from one source address: enough for
\* two workers to miss the same address and for a profile to be updated
\* between the two installs.
CONSTANTS
    w1 = w1
    w2 = w2
    Workers = {w1, w2}
    IPs = {"10.0.0.1"}
    Ports = {"80"}
    Lens = {1, 2}
    Hashes = {"h1"}
    SNINames = {"", "a.example"}
    Protos = {"TLS"}
    MaxObs = 3
SYMMETRY WorkerSymmetry
SPECIFICATION Spec
INVARIANT TypeOK
INVARIANT ByteAccounting
