CONSTANTS
    m1 = m1  m2 = m2  None = None
    Sample <- MCSample
    Stop = {2}  Token = {0, 1, 2}
    Model = {m1, m2}  Prompt <- MCPrompt  MaxNew <- MCMaxNew
    MaxContext = 4  BatchSize = 2  MaxEntries = 2  MaxBytes = 7
    MaxRequests = 3  MaxFailures = 1  MaxChanges = 1
SPECIFICATION Spec
INVARIANTS OutputIsIndependent CacheIsTrue CacheIsHeld ScheduleIsSound
CHECK_DEADLOCK FALSE
