SPECIFICATION BundleFairSpec
CONSTANTS
    Ids = {"a", "b", "c"}
    FileNames <- MCFileNames
    Directories <- MCDirectories
    Archives <- MCArchives
    Unsafe = {"bad:name"}
    Unwritable = {"long"}
    Modules = {"policy.rego", "second.rego"}
    ManifestSize <- MCManifestSize
    MaxFiles = 7
    MaxModules = 1
    MaxBytes = 11
    MaxFileBytes = 6
    MaxLayers = 3
    Words = {"a", "b", "c", "x", "y", "z", "v", "q"}
    Malformed = Malformed
INVARIANTS
    BundleTypeOK
    AcceptsExactlySound
    CodeNamesCause
    RevisionNamesContent
    BuiltIsReadable
PROPERTIES
    Ends
CHECK_DEADLOCK FALSE
