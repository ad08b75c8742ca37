CONSTANTS
    Requests = {timer, hand}
    MaxDays = 2
    MaxPosts = 2
    MaxBackups = 2
    MaxFaults = 3
SPECIFICATION BackupSpec
INVARIANTS
    LatestNamesASnapshot
    DevIsNotDeaf
    NoFreshStart

CHECK_DEADLOCK FALSE
