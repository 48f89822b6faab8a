\* Sequential use on a filesystem with fine-grained timestamps, the user
\* editing sources between commands.
CONSTANTS
    SrcFiles <- MCSrcFiles
    Editable <- MCSources
    ImageRef = ImageRef
    NoImage = NoImage
    Digests = {d1}
    NoDigest = NoDigest
    NoStamp = NoStamp
    BadStamp = BadStamp
    MaxClock = 6
    MaxEdits = 2
    FineClock = TRUE
    EditDuringBuild = FALSE
SPECIFICATION Spec
PROPERTY NoLostEdits
PROPERTY StalenessRefined
