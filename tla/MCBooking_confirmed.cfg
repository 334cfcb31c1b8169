\* One customer, two start times, one payment page.
SPECIFICATION Spec
CONSTANTS
    Browsers = {b1}
    Threads = {t1}
    Names = {n1}
    OrderIds = {o1}
    Dates = {0}
    Starts = {1230, 1260}
    Times = {1200}
    MaxUsers = 1
    MaxSalons = 1
    MaxWorkers = 1
    MaxServices = 1
    MaxBookings = 1
    ConcurrentTabs = FALSE
    LossyNetwork = FALSE
    NoName = NoName
    NoBooking = NoBooking
    NoOrder = NoOrder
SYMMETRY Symmetry
INVARIANTS
    BookedAsConfirmed
