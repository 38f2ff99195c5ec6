SPECIFICATION MetadataLiveSpec
CONSTANTS
    None = None
    MaxUploads = 1
    Kinds = {"direct"}
    Storages = {FALSE}
    MaxFaults = 1
    Requests = {r1, r2}
    MaxEdits = 1
    MaxTries = 1
PROPERTIES
    TagsArrive
CHECK_DEADLOCK FALSE
