\* The user saves a source file while a Build is running.
CONSTANTS
    SrcFiles <- MCSrcFiles
    Editable <- MCSources
    ImageRef = ImageRef
    NoImage = NoImage
    Digests = {d1}
    NoDigest = NoDigest
    NoStamp = NoStamp
    BadStamp = BadStamp
    MaxClock = 6
    MaxEdits = 2
    FineClock = TRUE
    EditDuringBuild = TRUE
SPECIFICATION Spec
INVARIANT BuiltIsFresh
