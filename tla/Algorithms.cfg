CONSTANTS
    Editable <- MCEditable
    MaxFragment = 2
    MaxCompressed = 8
    MaxFiles = 7
    MaxBytes = 8
    MaxRatio = 2
    MaxManifest = 1
    Lower <- MCLower
    Tar <- MCTar
    MaxLog = 16
    MaxArtifact = 4
SPECIFICATION Spec
INVARIANTS
    WheelMixed
    EditsApplied
    MaskHides
    ProjectsApart
    ProjectPrepared
    ReportFaithful
CHECK_DEADLOCK FALSE
