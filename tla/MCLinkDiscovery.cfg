SPECIFICATION FairSpec
CONSTANTS
    s1 = s1
    s2 = s2
    s3 = s3
    k1 = k1
    k2 = k2
    k3 = k3
    Controllers = {k1, k2}
    Switches = {s1, s2, s3}
    None = None
    PortsOf <- MCPortsOf
    Cables <- MCCables
    ProbeSleep = 1
    WaitLimit = 1
    Homes <- MCHomes
    MaxConn <- MCMaxConn
    MaxThreads <- MCMaxConn
    MaxLinks = 1
    Modes = {TRUE, FALSE}
    Late = 0
INVARIANTS
    TablesOK
    LinksAreCables
PROPERTIES
    CablesFound
    LinksShown
