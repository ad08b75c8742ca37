CONSTANTS
    Members = {dev, grug}
    People = {p1}
    Readers = {w1}
    Rooms = {r1}
    None = None
    InboxCap = 1
    MaxMessages = 3
SPECIFICATION FairSpec
INVARIANTS
    NoMissedNews
    MentionsAreAccountedFor
PROPERTIES
    PostsReturn

CHECK_DEADLOCK FALSE
