SPECIFICATION FilesSpec
CONSTANTS
    Proc = {1, 2}
    Sizes = {1, 3}
    MaxWrites = 2
    FileSizes = {0, 1, 4, 5, 8}
    MaxFiles = 3
VIEW FilesView
INVARIANTS
    RefsAreExact
    BlocksAreExact
    
    ImageIsReadable
PROPERTIES
    FilesAreBytes
