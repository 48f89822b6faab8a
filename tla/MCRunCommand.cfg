\* `func run` invocations between other commands, fine-grained timestamps.
CONSTANTS
    SrcFiles <- MCSrcFiles
    Editable <- MCSrcFiles
    ImageRef = ImageRef
    NoImage = NoImage
    Digests = {d1}
    NoDigest = NoDigest
    NoStamp = NoStamp
    BadStamp = BadStamp
    MaxClock = 6
    MaxEdits = 2
    FineClock = TRUE
    EditDuringBuild = FALSE
SPECIFICATION Spec
INVARIANT RunsFreshImage
