CONSTANTS
    DefaultSize = 5
    MaxRequest = 9
    MaxSent = 18
    Layouts <- Pairs
    HeadV3 = 3
    HeadV4 = 4
    MinDetect = 2
    MaxRecord = 6
    MaxLine = 8
SPECIFICATION FramingSpec
INVARIANTS Bounded ItemsWhole NeverWaitsBeyond
PROPERTIES HandsOverStream UsesBuffer TimeoutKeepsPlace
