\* func config volumes add / remove and the other commands loading and
\* saving func.yaml of every era an earlier, the current or a later func
\* could have written.
CONSTANTS
    EmptyVersion = EmptyVersion
    BadVersion = BadVersion
    FileVersions <- MCFileVersions
    VolumeSet = {v1, v2}
    MaxVolumes = 2
SPECIFICATION ConfigSpec
INVARIANT TypeOK
INVARIANT MigratedOnLoad
INVARIANT LoadIdempotent
PROPERTY VersionNeverDecreases
PROPERTY VolumeListEdits
