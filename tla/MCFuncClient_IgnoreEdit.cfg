\* The user also edits the project's .gitignore.
CONSTANTS
    SrcFiles <- MCSrcFiles
    Editable <- MCWithIgnore
    ImageRef = ImageRef
    NoImage = NoImage
    Digests = {d1}
    NoDigest = NoDigest
    NoStamp = NoStamp
    BadStamp = BadStamp
    MaxClock = 6
    MaxEdits = 2
    FineClock = TRUE
    EditDuringBuild = FALSE
SPECIFICATION Spec
PROPERTY NoLostEdits
