SPECIFICATION FairSpec
CONSTANTS
    Email = {"root", "a", "b"}
    AdminEmail = {"b"}
    Localhost = "root"
    Claims <- MCClaims
    Starts <- MCStarts
    Handlers = 2
    Edits = 2
    Ages = 1
    Faults = 1
INVARIANTS AccountsTypeOK AdminRemains FirstPasswordKept TotpUsable
PROPERTIES SessionOver ChangeRevokes Purged
