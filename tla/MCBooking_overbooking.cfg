\* Two customers, one worker.
SPECIFICATION Spec
CONSTANTS
    Browsers = {b1, b2}
    Threads = {t1, t2}
    Names = {n1}
    OrderIds = {o1, o2}
    Dates = {0}
    Starts = {1230}
    Times = {1200}
    MaxUsers = 1
    MaxSalons = 1
    MaxWorkers = 1
    MaxServices = 1
    MaxBookings = 2
    ConcurrentTabs = FALSE
    LossyNetwork = FALSE
    NoName = NoName
    NoBooking = NoBooking
    NoOrder = NoOrder
SYMMETRY Symmetry
INVARIANTS
    NoOverbooking
