\* One browser, one worker, overlapping bookings of one or two slots, a clock
\* that passes the start of the first slot, and fair threads.
SPECIFICATION FairSpec
CONSTANTS
    Browsers = {b1}
    Threads = {t1}
    Names = {n1}
    OrderIds = {o1, o2}
    Dates = {0}
    Starts = {1230, 1260}
    Times = {1200, 1240}
    MaxUsers = 1
    MaxSalons = 1
    MaxWorkers = 1
    MaxServices = 2
    MaxBookings = 2
    ConcurrentTabs = FALSE
    LossyNetwork = FALSE
    NoName = NoName
    NoBooking = NoBooking
    NoOrder = NoOrder
INVARIANTS
    OverbookingBound
PROPERTIES
    PaymentAnswered
