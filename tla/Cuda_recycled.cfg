SPECIFICATION Spec
CONSTANTS
    None = None
    Block = {b1, b2}  Fence = {f1, f2}  Thread = {t1, t2}
    Request = {3}  MinClass = 4  MaxShift = 3  MaxGen = 2
    k1 = k1  k2 = k2  m1 = m1
    Caller = {}  Kernel = {k1, k2}  Module = {m1}  ModuleOf <- ModuleOfKernel
    MaxFlight = 7  MayPanic = FALSE
    Requests <- Refused  MaxCalls = 0  MaxFaults = 0
    Group = {}  Required <- Apart  MaxSetups = 0  MaxPeerFaults = 0
SYMMETRY Symmetric
INVARIANT NoEarlyReuse
CHECK_DEADLOCK FALSE
