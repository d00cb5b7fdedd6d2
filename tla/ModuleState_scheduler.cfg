CONSTANTS
    Trainable = {1, 2}  Buffers = {3}  VisitOrder <- VisitThree  Entries <- EntriesTwo
    Statistics <- StatisticsOne
    Trainer = "trainer"  Others = {"a", "b"}
    LoadSets = {{1, 2}, {2, 3}}
    Starts = {0}  MaxU64 = 3  MaxEpoch = 1  Budgets <- ShortTraining  None = None
SPECIFICATION Spec
INVARIANT FailedStepChangesNothing
CHECK_DEADLOCK FALSE
