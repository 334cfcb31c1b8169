\* Dates and services change at any time; answers arrive out of order.
SPECIFICATION Spec
CONSTANTS
    Buttons = {1230, 1260}
    OthersSlots = {1260}
    Dates = {0, 1}
    Today = 0
    NoDate = NoDate
    Times = {1100, 1240}
    MaxServices = 2
    MaxWorkers = 2
    MaxBooked = 1
    MaxFetches = 2
    NoPost = NoPost
INVARIANTS
    TypeOK
    NeverOtherThanShown
    PostsWhatIsShown
    PageAgreesWithServer
    PageInv
