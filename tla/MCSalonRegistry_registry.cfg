\* Three requests from two browsers, two names of services.
SPECIFICATION Spec
CONSTANTS
    Req = {r1, r2, r3}
    Browsers = {b1, b2}
    cut = cut
    dye = dye
    Names = {cut, dye}
    Forms <- FormsDef
    Ratings = {1, 5}
    MaxSalons = 4
    MaxServices = 4
    MaxDeletions = 1
    NoReq = NoReq
    NoName = NoName
SYMMETRY Symmetry
INVARIANTS
    TypeOK
    LinksMatchForm
    AloneRegistersWhole
    SoloUpdatesCount
    RegistryInv
    UpdatesInv
CHECK_DEADLOCK FALSE
