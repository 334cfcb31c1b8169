\* One browser whose tabs overlap and whose responses may be lost; two accounts.
SPECIFICATION Spec
CONSTANTS
    Browsers = {b1}
    Threads = {t1, t2}
    Names = {n1, n2}
    OrderIds = {o1}
    Dates = {0}
    Starts = {1230}
    Times = {1200}
    MaxUsers = 2
    MaxSalons = 1
    MaxWorkers = 1
    MaxServices = 1
    MaxBookings = 1
    ConcurrentTabs = TRUE
    LossyNetwork = TRUE
    NoName = NoName
    NoBooking = NoBooking
    NoOrder = NoOrder
SYMMETRY Symmetry
INVARIANTS
    TypeOK
    ReferentialIntegrity
    RowsNameTheirUser
    BookedForWhoChose
    IInv
