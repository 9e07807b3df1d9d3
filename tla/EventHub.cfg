SPECIFICATION LiveSpec
CONSTANTS
    Events = {e1}
    Rounds = {r1, r2}
    MaxUploads = 2
    MaxStarts = 2
    None = None
INVARIANTS TypeOK NothingIsLost DuplicatesNeedFailure
PROPERTIES PersistedOutlivesMemory FilesAreRetried FinishReturns DeliverySpec
CHECK_DEADLOCK FALSE
