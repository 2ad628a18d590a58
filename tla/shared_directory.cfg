SPECIFICATION FairSpec
CONSTANTS
    r1 = r1
    r2 = r2
    image = image
    bundleFile = bundleFile
    registry = registry
    Archives = {r1, r2}
    Manifests = {image}
    Junk = Junk
    FileSources = {bundleFile}
    HTTPSources = {}
    OCISources = {registry}
    Pin <- MCPin
    LayerOf <- MCLayerOf
    Sized = {image}
    ServerTags = {t1}
    LongTags = {}
    Service = service
    Commands = {command}
    Faults = {"crash", "write", "sync", "timeout"}
    NoPin = NoPin
    NoLayer = NoLayer
    NoTag = NoTag
    Missing = Missing
    NoRev = NoRev
    NoSource = NoSource
INVARIANTS
    TypeOK
    EveryProcessStarts
    SingleWriterAgrees
    TagProvesContent
PROPERTIES
    PollingHeals
