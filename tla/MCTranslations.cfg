SPECIFICATION Spec
CONSTANTS
    Widths <- MCWidths
    Wide = {"i64", "u64", "usize"}
    SafeInteger = 4
    Chars <- MCChars
    Inherited <- MCInherited
    Utf8 <- MCUtf8
    Unpaired = {"lone"}
    ByteWidth <- MCByteWidth
    Types <- MCTypes
    SerdeTypes <- MCSerdeTypes
    Values <- MCValues
    GuestValues <- MCGuestValues
    Calls <- MCCalls
    ModuleBlocks <- MCModuleBlocks
    ClassBlocks <- MCClassBlocks
    Namespaces <- MCNamespaces
    Facades <- MCFacades
    Derives <- MCDerives
    Files <- MCFiles
    MaxFiles = 3
    Origins <- MCOrigins
    Frames <- MCFrames
    MaxFrames = 3
    MaxSize = 15
    Longest = 14
    Worlds <- MCWorlds
    Sizes <- MCSizes
    Indices <- MCIndices
    Slices <- MCSlices
    Numbers <- MCNumbers
    MaxPatched = 1
    MaxAccesses = 3
    Renamed <- MCRenamed
    Words <- MCWords
    Stem <- MCStem
    TypeScript = {"b.ts"}
    MaxNexts = 4
    MaxReferrer = 2
    MaxSpecifier = 4
INVARIANTS
    RoundTrips
    ReadsAgree
    ResolvesAsReference
    ArgumentsInPlace
    ExpansionsSound
    BundlesWhole
    ErrorsArriveWhole
PROPERTIES
    ViewsKeepToBounds
    ItemsInOrder
CHECK_DEADLOCK FALSE
