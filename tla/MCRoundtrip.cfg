SPECIFICATION Spec
CONSTANTS
    Keys = {"k"}
    HashTypes = {"sha", "md", "other"}
    HT_NONE = "none"
    WriterSupported = {"sha", "md"}
    ReaderSupported = {"sha"}
    Counts <- MCCounts
    MaxUnits = 7
    MaxContainers = 2
INVARIANTS
    ReadsWhatWasSent
    CompleteIsReadBack
    InterruptedIsNoticed
    WriterPipes
CHECK_DEADLOCK FALSE
VIEW MCView
