SPECIFICATION FairSpec
CONSTANTS
    Users = {u1}
    Months = {m1}
    Bonuses = {b1}
    PayrollIds = {p1, p2}
    Requests = {r1, r2}
    BalanceHolders = {u1}
    ExitMonths = {m1}
    MaxCredit = 1
    NoId = NoId
    NoMonth = NoMonth
INVARIANTS PaidWasApproved BonusOncePerMonth
PROPERTY CallsEnd
