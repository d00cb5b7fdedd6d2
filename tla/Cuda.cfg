SPECIFICATION Spec
CONSTANTS
    None = None
    Block = {b1, b2}  Fence = {f1}  Thread = {t1, t2}
    Request = {3, 5}  MinClass = 4  MaxShift = 3  MaxGen = 2
    k1 = k1  k2 = k2  m1 = m1
    Caller = {c1, c2}  Kernel = {k1, k2}  Module = {m1}  ModuleOf <- ModuleOfKernel
    MaxFlight = 7  MayPanic = TRUE
    Requests <- AnyRequest  MaxCalls = 2  MaxFaults = 2
    Group = {"first", "second"}  Required <- Apart  MaxSetups = 2  MaxPeerFaults = 2
SYMMETRY Symmetric
INVARIANTS PoolIsSound NoEarlyReuseInPlace FlightsAreSound DenseIsReference AllOrNothing PeersAreOwned
PROPERTY QuarantineIsForever
CHECK_DEADLOCK FALSE
