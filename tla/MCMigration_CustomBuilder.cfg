\* Loading every file an earlier, the current or a later func could have written.
CONSTANTS
    EmptyVersion = EmptyVersion
    BadVersion = BadVersion
    FileVersions <- MCFileVersions
    VolumeSet = {v1, v2}
    MaxVolumes = 2
SPECIFICATION Spec
INVARIANT CustomBuilderKept
