SPECIFICATION MCSpec
CONSTANTS
    k1 = k1
    k2 = k2
    asIs = asIs
    shifted = shifted
    Keys <- MCKeys
    Quantities = {0, 1}
    Shifts <- MCShifts
    NoShift = asIs
    NoFrame = NoFrame
    Protocols = {TRUE, FALSE}
    ChannelCap = 1
    InboxCap = 1
    MaxChanges = 3
    MaxGaps = 1
    MaxDrops = 1
    MaxShifts = 1
    Prices <- MCPrices
    Frames <- MCFrames
    Flow <- MCFlow
    Offsets <- MCOffsets
    Halves = {TRUE, FALSE}
    DepthLevels = 0
    Eps = 1
    MaxFrames = 2
    MaxFlow = 2
CHECK_DEADLOCK FALSE
INVARIANTS
    ReferenceIsAVenueBook
    PlacedFollowsBook
PROPERTIES
    ReferenceCatchesUp
    MirrorSettles
