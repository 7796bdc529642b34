SPECIFICATION Spec
CONSTANTS
    Apps = {"A", "B"}
    AccessKeys = {"keyA", "keyB", "spare"}
    KeyApp <- MC_KeyApp
    Names = {"b"}
    ObjectKey = "k"
    PolicyDocs <- MC_PolicyDocs
    IdentityDocs <- MC_IdentityDocs
    CorsDocs <- MC_CorsDocs
    Clients <- MC_Clients
    Issued = {"keyA", "keyB"}
    Founder = "A"
    FirstPolicy = "admin"
    Operations <- MC_Operations
    BrowserOps = {"GetObject", "PutObject"}
    Requests <- MC_Requests
    MaxSteps = 3
    q1 = q1
    q2 = q2
SYMMETRY Interchangeable
PROPERTIES OutsidersOnlyIfPublic TenantFence PreflightIsKept
CHECK_DEADLOCK FALSE
