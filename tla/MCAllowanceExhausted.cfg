CONSTANTS
    r1 = r1
    r2 = r2
    merchant = merchant
    other = other
    Rules = {r1, r2}
    Initial = r1
    Payments = {p1, p2}
    Recipients = {merchant, other}
    RecipientOf <- EachItsOwn
    Amounts = {2}
    Limit = 3
    Period = 2
    ValidUntil = 3
    Timeout = 10
    MaxLedger = 4
SPECIFICATION Spec
PROPERTIES
    OverBudgetIsReal
CHECK_DEADLOCK FALSE
