\* Object requests of any form, and writes prepared before Object Lock: see MC_ObjectApi.
SPECIFICATION MC_Spec
CONSTANTS
    Apps = {"A", "B"}
    AccessKeys = {"keyA", "keyB"}
    KeyApp <- MC_KeyApp
    Names = {"b", "c"}
    Contested = {"b"}
    ObjectKey = "k"
    PolicyDocs <- MC_PolicyDocs
    IdentityDocs <- MC_IdentityDocs
    CorsDocs <- MC_CorsDocs
    Clients <- MC_Clients
    Issued = {"keyA", "keyB"}
    Founder = "A"
    FirstPolicy = "admin"
    Operations = {"CreateBucket", "DeleteBucket", "PutPolicy", "PutVersioning", "PutObjectLock"}
    BrowserOps = {}
    Requests = {"q"}
    MaxSteps = 4
    Tasks = {"t1", "t2"}
    Forms <- MC_BothForms
    DavForms <- MC_DavForms
    KeyPermissions <- MC_KeyPermissions
    FirstVersions <- MC_BothVersions
    MaxTasks = 3
PROPERTIES ChangesAreGranted
CHECK_DEADLOCK FALSE
