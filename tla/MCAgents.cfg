CONSTANTS
    Rooms = {room1}
    maxReviews = 2
    MaxAsks = 2
    MaxTasks = 2
    MaxPushes = 2
    MaxTools = 1
    MaxFaults = 1
SPECIFICATION FairSpec
INVARIANTS
    NothingReadIsForgotten
    WorktreesAreOwned
    ReviewsAreBounded
PROPERTIES
    RoomsKeepTheirTask
    PingPongEnds

CHECK_DEADLOCK FALSE
