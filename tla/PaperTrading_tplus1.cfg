\* Two orders of one user in flight: a sale of shares bought today.
SPECIFICATION PaperSpec
CONSTANTS
    Requests = {r1, r2}
    Markets = {"CN"}
    InitialCash = 5
    Commission = 1
    Prices = {1}
    Quantities = {1, 2}
    MaxOrders = 4
    MaxErrors = 0
    MaxDays = 1
INVARIANT BoughtTodayNotSold
CHECK_DEADLOCK FALSE
