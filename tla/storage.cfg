CONSTANTS
    FolderCalls = {folder}
    BatchCalls = {batch}
    Names <- MCNames
    Paths <- MCOne
    Foreign <- MCOne
    Limit = 2
    PageSize = 2
    Src = src
    Dst = dst
    MaxUploads = 4
SPECIFICATION StorageSpec
INVARIANTS StorageTypeOK SuccessDeletesAll NoStraggler OriginalError ContentKept
PROPERTY CallsReturn
