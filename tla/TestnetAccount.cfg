\* Two users with credentials of their own, one BUY each.
SPECIFICATION Spec
CONSTANTS
    u1 = u1
    u2 = u2
    b1 = b1
    b2 = b2
    s1 = s1
    a1 = a1
    a2 = a2
    Amounts = {a1}
    None = None
    Env = Env
    Buys = {b1, b2}
    Sells = {}
    UserOf <- TwoUsers
    ClientId <- NoIds
    Creds = {u1, u2}
    SingleOperator = FALSE
    MinQty = 1
    MaxQty = 1
    Step = 1
    Outside = 0
    MaxRestarts = 0
INVARIANT OwnAccount
CHECK_DEADLOCK FALSE
