\* A check and an install over one cache, three releases, two of one file name.
SPECIFICATION Spec
CONSTANTS
    Checks = {k1}
    Installs = {i1}
    Releases <- ReleasesDef
    Uploads <- UploadsDef
    MaxCalls = 2
    MaxInstances = 2
    MaxTries = 2
    None = None
INVARIANTS PublishedIsCached QuitsForGoodUpdate HelperObeysParent
PROPERTY AppComesBack
CHECK_DEADLOCK FALSE
