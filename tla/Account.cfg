\* 2FA requests with two setups, the kill switch set and cleared, and two orders under one
\* client_request_id, over a restart.
SPECIFICATION Spec
CONSTANTS
    setup1 = setup1
    setup2 = setup2
    enable = enable
    disable = disable
    set = set
    clear = clear
    o1 = o1
    o2 = o2
    k = k
    None = None
    Settings = {setup1, setup2, enable, disable, set, clear}
    Orders = {o1, o2}
    Kind <- KindOf
    Keys = {k}
    KeyOf <- OneKey
    MaxRestarts = 1
SYMMETRY Symmetry
INVARIANTS TypeOK KillStands OnlyProvedSecrets
PROPERTY KeepsPromise
CHECK_DEADLOCK FALSE
