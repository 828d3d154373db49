SPECIFICATION FairSpec
CONSTANTS
    s1 = s1
    s2 = s2
    s3 = s3
    k1 = k1
    k2 = k2
    k3 = k3
    Controllers = {k1, k2, k3}
    Switches = {s1, s2, s3}
    None = None
    PortsOf <- RowPortsOf
    Cables <- RowCables
    Homes <- RowHomes
    MaxConn <- RowMaxConn
    ProbeSleep = 1
    WaitLimit = 2
    MaxThreads <- RowMaxConn
    MaxLinks = 1
    Modes = {TRUE}
    Late = 0
PROPERTY
    LinksShown
