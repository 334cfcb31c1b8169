\* Two browsers, one request at a time each, every response arrives.
SPECIFICATION Spec
CONSTANTS
    Browsers = {b1, b2}
    Threads = {t1, t2}
    Names = {n1}
    OrderIds = {o1, o2, o3}
    Dates = {0}
    Starts = {1230}
    Times = {1200}
    MaxUsers = 1
    MaxSalons = 1
    MaxWorkers = 1
    MaxServices = 1
    MaxBookings = 3
    ConcurrentTabs = FALSE
    LossyNetwork = FALSE
    NoName = NoName
    NoBooking = NoBooking
    NoOrder = NoOrder
SYMMETRY Symmetry
INVARIANTS
    OverbookingBound
    SequentialInv
PROPERTIES
    ImplementsSlotHolds
