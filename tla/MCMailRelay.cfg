CONSTANTS
    Laptops = {l1, l2}
    Trusted = {l1}
    Readers = {l1}
    Rooms = {r1}
    None = None
    MaxLines = 2
    MaxPosts = 2
    MaxFaults = 1
SPECIFICATION FairSpec
INVARIANTS
    BoxesHaveNoGaps
    PassedIsDelivered
    RepeatsCostAFault
PROPERTIES
    MailArrives

CHECK_DEADLOCK FALSE
