\* The address the transform is for and one other; an empty, a whitelisted
\* and another host; an empty and a set user agent; files of up to two
\* records under either name, with every kind of end and header.
CONSTANTS
    IPs = {"10.0.0.1", "10.0.0.2"}
    IPAddr = "10.0.0.1"
    Hosts = {"", "wl.example", "x.example"}
    Agents = {"", "ua"}
    Whitelist = {"wl.example"}
    MaxRecords = 2
SPECIFICATION Spec
INVARIANT EntitiesMatchFile
PROPERTY CompletesOnReadableFile
