\* One operator account: two BUYs and a SELL without ids, of two amounts, the
\* monitor, changing prices and a restart.
SPECIFICATION Spec
CONSTANTS
    u1 = u1
    u2 = u2
    b1 = b1
    b2 = b2
    s1 = s1
    a1 = a1
    a2 = a2
    Amounts = {a1, a2}
    None = None
    Env = Env
    Buys = {b1, b2}
    Sells = {s1}
    UserOf <- OneUser
    ClientId <- NoIds
    Creds = {}
    SingleOperator = TRUE
    MinQty = 2
    MaxQty = 2
    Step = 2
    Outside = 0
    MaxRestarts = 1
INVARIANTS TypeOK NoDoubleOrder OneExitPerPosition ClosedMeansSold
SYMMETRY Symmetry
CHECK_DEADLOCK FALSE
