CONSTANTS
    Items = 4  Buffer = {1, 2, 3, 4}  Class = {"a", "zero"}  Zero = "zero"  None = None
    Schedules <- AnyThree
SPECIFICATION MCSpec
INVARIANTS RealizationIsSound PeakIsMinimal
CHECK_DEADLOCK FALSE
