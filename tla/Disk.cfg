SPECIFICATION Spec
CONSTANTS
    None = None  p1 = p1  p2 = p2
    l1 = l1  l2 = l2  l3 = l3
    Loader = {l1, l2, l3}  Process = {p1, p2}  ProcessOf <- LoaderProcess
    Kernel = {k1}  Combined = {m1}  Chunked = {c1}
    Permits = 2  MaxBuildFaults = 1  MaxCacheLoads = 1
    w1 = w1  w2 = w2  w3 = w3
    Writer = {w1, w2, w3}  Reader = {r1}  Pid = {p1, p2}  PidOf <- WriterProcess
    small = small  large = large  Value = {small, large}
    Size <- SizeByName  Maximum = 3  Original = Original  First = small
    Attempts = 2  MaxCalls = 2 MaxLoads = 1  MaxCrashes = 1  MaxFaults = 1
SYMMETRY Symmetric
INVARIANTS CacheIsSound FileIsWhole SavesTellTheTruth
PROPERTIES LoadsHeal PublishedIsImmutable
CHECK_DEADLOCK FALSE
