---------------------------- MODULE AccountProofs ----------------------------
(***************************************************************************)
(* The settings row and the OANDA ledger keep their promises for every set *)
(* of requests and keys.                                                   *)
(***************************************************************************)
EXTENDS Account, TLAPS

\* An order has a row and a place at the broker only after its claim.
OrderInv ==
    \A o \in Orders :
        /\ pc[o] \in {"idle", "arrived", "create", "checked", "gated"} =>
              owner[KeyOf[o]] # o /\ status[o] = "none" /\ broker[o] = "none"
        /\ pc[o] \in {"pending", "submitted"} =>
              owner[KeyOf[o]] = o /\ status[o] # "FILLED" /\ broker[o] = "none"

\* The row is never deleted nor its secret cleared, so what a handler has seen
\* of it is still there; all but the 2FA routes go on only with a row.
SeenInv ==
    \A h \in Handlers :
        /\ seen[h] # None => row # None /\ (seen[h].secret # None => row.secret # None)
        /\ pc[h] = "checked" /\ h \notin TwoFactor => seen[h] # None
        /\ pc[h] = "create" => h \notin TwoFactor

\* As long as an order is barred the switch is on, and the order has seen it.
KillInv ==
    /\ barred # {} => row # None /\ row.kill
    /\ \A o \in barred :
          /\ pc[o] \in {"arrived", "checked", "done"}
          /\ pc[o] = "checked" => seen[o].kill

\* Without overlap there is one 2FA request, and it has seen the row as it is.
SecretInv ==
    ~overlap =>
        /\ \A g, h \in TwoFactor : pc[g] \in Busy /\ pc[h] \in Busy => g = h
        /\ \A h \in TwoFactor : pc[h] = "checked" =>
              IF seen[h] = None THEN row # None => row.secret = None /\ ~row.enabled
              ELSE row # None /\ seen[h].secret = row.secret /\ seen[h].enabled = row.enabled

\* The inductive invariant.
IInv ==
    /\ TypeOK /\ KillStands /\ OnlyProvedSecrets
    /\ OrderInv /\ SeenInv /\ KillInv /\ SecretInv
-----------------------------------------------------------------------------
LEMMA InitIInv == Init => IInv
<1> SUFFICES ASSUME Init PROVE IInv
    OBVIOUS
<1> USE RequestsAssumption, NoneAssumption, BoundsAssumption DEF Init, Handlers
<1>1. TypeOK
    <2>1. pc \in [Handlers -> Steps] /\ seen \in [Handlers -> SecuritySetting \cup {None}]
        BY DEF Steps
    <2>2. owner \in [Keys -> Orders \cup {None}] /\ status \in [Orders -> Statuses]
        BY DEF Statuses
    <2>3. broker \in [Orders -> AtBroker] /\ \A o \in Orders : status[o] # "FILLED"
        BY DEF AtBroker
    <2>4. row = None /\ proved \subseteq Setups /\ barred \subseteq Orders /\ overlap \in BOOLEAN
        OBVIOUS
    <2>5. restarts \in 0..MaxRestarts
        OBVIOUS
    <2> QED
        BY ONLY <2>1, <2>2, <2>3, <2>4, <2>5 DEF TypeOK
<1>2. KillStands /\ OnlyProvedSecrets /\ OrderInv
    BY DEF KillStands, OnlyProvedSecrets, OrderInv
<1>3. SeenInv /\ KillInv /\ SecretInv
    BY DEF SeenInv, KillInv, SecretInv, TwoFactor, Busy, Steps
<1> QED
    BY <1>1, <1>2, <1>3 DEF IInv

LEMMA ArrivePreserves == ASSUME IInv, NEW o \in Orders, Arrive(o) PROVE IInv'
<1> USE RequestsAssumption, NoneAssumption DEF Arrive, IInv, Goto, settings, ledger, Handlers
<1>1. TypeOK'
    BY DEF TypeOK, Steps
<1>2. KillStands' /\ OrderInv'
    BY DEF KillStands, OrderInv, TypeOK
<1>3. OnlyProvedSecrets' /\ SeenInv'
    BY DEF OnlyProvedSecrets, SeenInv, TypeOK
<1>4. KillInv'
    BY DEF KillInv, TypeOK
<1>5. SecretInv'
    BY DEF SecretInv, TypeOK, TwoFactor, Busy, Steps
<1> QED
    BY <1>1, <1>2, <1>3, <1>4, <1>5

LEMMA ReadPreserves == ASSUME IInv, NEW h \in Handlers, Read(h) PROVE IInv'
<1> USE RequestsAssumption, NoneAssumption DEF Read, IInv, Goto, ledger, Handlers
<1>1. TypeOK'
    BY DEF TypeOK, Steps
<1>2. KillStands' /\ OrderInv'
    BY DEF KillStands, OrderInv, TypeOK
<1>3. OnlyProvedSecrets' /\ SeenInv'
    BY DEF OnlyProvedSecrets, SeenInv, TypeOK
<1>4. KillInv'
    BY DEF KillInv, TypeOK
<1>5. SecretInv'
    <2> SUFFICES ASSUME ~overlap' PROVE SecretInv'
        BY DEF SecretInv
    <2>1. ~overlap /\ (h \in TwoFactor => \A g \in TwoFactor : pc[g] \notin Busy)
        BY DEF TypeOK
    <2>2. ASSUME NEW g \in TwoFactor, NEW f \in TwoFactor, pc'[g] \in Busy, pc'[f] \in Busy
          PROVE  g = f
        BY <2>1, <2>2 DEF SecretInv, TypeOK, TwoFactor
    <2>3. ASSUME NEW g \in TwoFactor, pc'[g] = "checked"
          PROVE  IF seen'[g] = None THEN row' # None => row'.secret = None /\ ~row'.enabled
                 ELSE row' # None /\ seen'[g].secret = row'.secret /\ seen'[g].enabled = row'.enabled
        <3>1. CASE g = h
            BY <3>1 DEF TypeOK
        <3>2. CASE g # h
            BY <2>1, <2>3, <3>2 DEF SecretInv, TypeOK, TwoFactor
        <3> QED
            BY <3>1, <3>2
    <2> QED
        BY <2>2, <2>3 DEF SecretInv
<1> QED
    BY <1>1, <1>2, <1>3, <1>4, <1>5

LEMMA EnsurePreserves == ASSUME IInv, NEW h \in Handlers, EnsureSetting(h) PROVE IInv'
<1> USE RequestsAssumption, NoneAssumption DEF EnsureSetting, IInv, Goto, End, ledger, Handlers
<1>0. Fresh \in SecuritySetting
    BY DEF Fresh, SecuritySetting
<1>a. Fresh # None /\ ~Fresh.enabled /\ Fresh.secret = None
    BY <1>0 DEF Fresh
<1>b. \/ row = None /\ row' = Fresh /\ seen' = [seen EXCEPT ![h] = Fresh] /\ Goto(h, "checked")
      \/ row' = row /\ seen' = [seen EXCEPT ![h] = None] /\ Goto(h, "done")
    OBVIOUS
<1>1. TypeOK'
    <2>1. row' \in SecuritySetting \cup {None} /\ (row' # None /\ row'.enabled => row'.secret # None)
        BY <1>0, <1>a, <1>b DEF TypeOK
    <2>2. seen' \in [Handlers -> SecuritySetting \cup {None}] /\ pc' \in [Handlers -> Steps]
        BY <1>0, <1>b DEF TypeOK, Steps
    <2> QED
        BY <2>1, <2>2 DEF TypeOK
<1>2. KillStands' /\ OrderInv'
    BY DEF KillStands, OrderInv, TypeOK
<1>3. OnlyProvedSecrets' /\ SeenInv'
    BY <1>0, <1>a, <1>b DEF OnlyProvedSecrets, SeenInv, TypeOK
<1>4. KillInv'
    BY DEF KillInv, TypeOK
<1>5. SecretInv'
    <2>1. h \notin TwoFactor
        BY DEF SeenInv
    <2> QED
        BY <1>0, <1>a, <1>b, <2>1 DEF SecretInv, TypeOK, TwoFactor, Busy, Steps
<1> QED
    BY <1>1, <1>2, <1>3, <1>4, <1>5

-----------------------------------------------------------------------------
(* /api/security.                                                          *)

\* What is common to the answers of all settings requests.
LEMMA SettingsPreserve ==
    ASSUME IInv, NEW h \in Settings, Answer(h), SettingsOnly, OnlyProvedSecrets',
           overlap' = overlap, barred' \in {barred, {}},
           proved' \subseteq Setups,
           row' \in SecuritySetting \cup {None},
           row' # None /\ row'.enabled => row'.secret # None,
           row # None => row' # None /\ (row.secret # None => row'.secret # None),
           barred' # {} /\ row # None /\ row.kill => row' # None /\ row'.kill,
           \/ h \in TwoFactor
           \/ row # None /\ row'.secret = row.secret /\ row'.enabled = row.enabled
    PROVE  IInv'
<1> USE RequestsAssumption, NoneAssumption DEF Answer, End, Goto, SettingsOnly, ledger, Handlers, IInv
<1>1. TypeOK'
    <2>1. seen' \in [Handlers -> SecuritySetting \cup {None}] /\ pc' \in [Handlers -> Steps]
        BY DEF TypeOK, Steps
    <2> QED
        BY <2>1 DEF TypeOK
<1>2. KillStands' /\ OrderInv'
    BY DEF KillStands, OrderInv, TypeOK
<1>3. SeenInv'
    BY DEF SeenInv, TypeOK
<1>4. KillInv'
    BY DEF KillInv, TypeOK
<1>5. SecretInv'
    <2> SUFFICES ASSUME ~overlap PROVE SecretInv'
        BY DEF SecretInv
    <2>1. ASSUME NEW g \in TwoFactor, pc'[g] \in Busy
          PROVE  g # h /\ pc'[g] = pc[g] /\ seen'[g] = seen[g]
        BY <2>1 DEF TypeOK, Busy, TwoFactor
    <2>2. ASSUME NEW g \in TwoFactor, pc'[g] = "checked"
          PROVE  row # None /\ row'.secret = row.secret /\ row'.enabled = row.enabled
        BY <2>1, <2>2 DEF SecretInv, Busy, Steps
    <2> QED
        BY <2>1, <2>2 DEF SecretInv, Busy, Steps
<1> QED
    BY <1>1, <1>2, <1>3, <1>4, <1>5

LEMMA SetupPreserves == ASSUME IInv, NEW h \in Settings, Setup(h) PROVE IInv'
<1> USE RequestsAssumption, NoneAssumption DEF Setup, Handlers
<1>1. h \in Setups /\ h \in TwoFactor /\ h # None /\ pc[h] = "checked"
    BY DEF Setups, TwoFactor, Answer
<1>2. (seen[h] # None => row # None) /\ row \in SecuritySetting \cup {None}
    BY DEF IInv, SeenInv, TypeOK
<1>3. CASE row = None
    <2>1. row' = [secret |-> h, enabled |-> FALSE, kill |-> FALSE]
        BY <1>2, <1>3 DEF InsertSetting, Fresh
    <2>2. row' \in SecuritySetting /\ row'.secret # None /\ ~row'.enabled
        BY <1>1, <2>1 DEF SecuritySetting
    <2> QED
        BY <1>1, <1>3, <2>2, SettingsPreserve DEF OnlyProvedSecrets, IInv, TypeOK
<1>4. CASE row # None /\ seen[h] = None
    <2>1. row' = row
        BY <1>4 DEF InsertSetting
    <2> QED
        BY <1>1, <1>2, <1>4, <2>1, SettingsPreserve DEF OnlyProvedSecrets, IInv, TypeOK
<1>5. CASE row # None /\ seen[h] # None
    <2>1. row' = [row EXCEPT !.secret = h, !.enabled = @ /\ ~seen[h].enabled]
        BY <1>5
    <2>2. row \in SecuritySetting
        BY <1>2, <1>5
    <2>3. row' = [secret |-> h, enabled |-> row.enabled /\ ~seen[h].enabled, kill |-> row.kill]
        BY <2>1, <2>2 DEF SecuritySetting
    <2>4. row' \in SecuritySetting /\ row'.secret = h /\ row'.kill = row.kill
        BY <1>1, <2>2, <2>3 DEF SecuritySetting
    <2>5. ~overlap => ~row'.enabled
        BY <1>1, <1>5, <2>3 DEF IInv, SecretInv
    <2> QED
        BY <1>1, <1>5, <2>4, <2>5, SettingsPreserve DEF OnlyProvedSecrets, IInv, TypeOK
<1> QED
    BY <1>3, <1>4, <1>5

LEMMA EnablePreserves == ASSUME IInv, NEW h \in Settings, Enable(h) PROVE IInv'
<1> USE RequestsAssumption, NoneAssumption DEF Enable, Handlers
<1>1. h \in TwoFactor /\ pc[h] = "checked"
    BY DEF TwoFactor, Answer
<1>2. row # None /\ row.secret # None /\ row \in SecuritySetting /\ seen[h] \in SecuritySetting
    BY DEF IInv, SeenInv, TypeOK
<1>3. row' = [secret |-> row.secret, enabled |-> row.enabled \/ ~seen[h].enabled, kill |-> row.kill]
    BY <1>2 DEF SecuritySetting
<1>4. row' \in SecuritySetting /\ row'.secret = row.secret /\ row'.kill = row.kill
    BY <1>2, <1>3 DEF SecuritySetting
<1>5. proved' \subseteq Setups
    BY <1>2 DEF IInv, TypeOK, SecuritySetting
<1>6. OnlyProvedSecrets'
    BY <1>1, <1>2, <1>4 DEF IInv, SecretInv, OnlyProvedSecrets
<1> QED
    BY <1>1, <1>2, <1>4, <1>5, <1>6, SettingsPreserve

LEMMA DisablePreserves == ASSUME IInv, NEW h \in Settings, Disable(h) PROVE IInv'
<1> USE RequestsAssumption, NoneAssumption DEF Disable, Handlers
<1>1. h \in TwoFactor /\ row \in SecuritySetting \cup {None} /\ proved \subseteq Setups
    BY DEF TwoFactor, IInv, TypeOK
<1>2. CASE seen[h] # None /\ seen[h].enabled
    <2>1. row # None /\ row' = [row EXCEPT !.enabled = FALSE] /\ row \in SecuritySetting
        BY <1>1, <1>2 DEF IInv, SeenInv
    <2>2. row' = [secret |-> row.secret, enabled |-> FALSE, kill |-> row.kill]
        BY <2>1 DEF SecuritySetting
    <2>3. row' \in SecuritySetting /\ row'.secret = row.secret /\ row'.kill = row.kill /\ ~row'.enabled
        BY <2>1, <2>2 DEF SecuritySetting
    <2> QED
        BY <1>1, <2>1, <2>3, SettingsPreserve DEF OnlyProvedSecrets
<1>3. CASE ~(seen[h] # None /\ seen[h].enabled)
    <2>1. row' = row
        BY <1>3
    <2> QED
        BY <1>1, <2>1, SettingsPreserve DEF OnlyProvedSecrets, IInv, TypeOK
<1> QED
    BY <1>2, <1>3

LEMMA RefuseCodePreserves == ASSUME IInv, NEW h \in Settings, RefuseCode(h) PROVE IInv'
<1>1. h \in TwoFactor
    BY DEF RefuseCode, TwoFactor
<1> QED
    BY <1>1, SettingsPreserve DEF RefuseCode, OnlyProvedSecrets, IInv, TypeOK, settings

LEMMA SetKillSwitchPreserves == ASSUME IInv, NEW h \in Settings, SetKillSwitch(h) PROVE IInv'
<1> USE RequestsAssumption, NoneAssumption DEF SetKillSwitch, Handlers
<1>1. h \notin TwoFactor /\ pc[h] = "checked"
    BY DEF TwoFactor, Answer
<1>2. row # None /\ row \in SecuritySetting
    BY <1>1 DEF IInv, SeenInv, TypeOK
<1>3. row' = [secret |-> row.secret, enabled |-> row.enabled, kill |-> Kind[h] = "set"]
    BY <1>2 DEF SecuritySetting
<1>4. row' \in SecuritySetting /\ row'.secret = row.secret /\ row'.enabled = row.enabled
    BY <1>2, <1>3 DEF SecuritySetting
<1>5. barred' # {} => row'.kill
    BY <1>3
<1> QED
    BY <1>2, <1>4, <1>5, SettingsPreserve DEF OnlyProvedSecrets, IInv, TypeOK

-----------------------------------------------------------------------------
(* POST /fx/order.                                                         *)

\* What is common to the steps of an order past its reading of the row.
LEMMA OrderKeeps ==
    ASSUME IInv, NEW o \in Orders, OrderOnly, TypeOK', OrderInv',
           NEW l \in Steps \ {"arrived", "create", "checked"}, Goto(o, l),
           seen' \in {seen, [seen EXCEPT ![o] = None]},
           o \notin barred \/ (l = "done" /\ status'[o] = status[o] /\ broker'[o] = broker[o]),
           \A p \in Orders \ {o} : status'[p] = status[p] /\ broker'[p] = broker[p]
    PROVE  IInv'
<1> USE RequestsAssumption, NoneAssumption DEF OrderOnly, Goto, settings, Handlers, IInv
<1>1. KillStands' /\ OnlyProvedSecrets'
    BY DEF KillStands, OnlyProvedSecrets, TypeOK
<1>2. SeenInv'
    BY DEF SeenInv, TypeOK
<1>3. KillInv'
    BY DEF KillInv, TypeOK
<1>4. \A h \in TwoFactor : h # o /\ pc'[h] = pc[h] /\ seen'[h] = seen[h]
    BY DEF TypeOK, TwoFactor
<1>5. SecretInv'
    BY <1>4 DEF SecretInv
<1> QED
    BY <1>1, <1>2, <1>3, <1>5

\* Nothing gets past the gate for a barred order.
LEMMA BarredStops ==
    ASSUME IInv, NEW o \in barred
    PROVE  pc[o] \in {"arrived", "checked", "done"} /\ (pc[o] = "checked" => ~MayTrade(o))
BY DEF IInv, KillInv, MayTrade

LEMMA OrderStepPreserves ==
    ASSUME IInv, NEW o \in Orders,
           \/ RequireLive(o) \/ RefuseOrder(o) \/ Claim(o) \/ MarkSubmitted(o)
           \/ PlaceMarketOrder(o) \/ RecordAnswer(o) \/ RecordUnknown(o)
    PROVE  IInv'
<1> USE RequestsAssumption, NoneAssumption DEF Handlers, OrderOnly, SeenOnly, Goto, End, ledger, settings
<1>t. TypeOK /\ OrderInv
    BY DEF IInv
<1>1. CASE RequireLive(o)
    <2>1. TypeOK' /\ OrderInv'
        BY <1>1, <1>t DEF RequireLive, TypeOK, OrderInv, Steps
    <2> QED
        BY <1>1, <2>1, OrderKeeps, BarredStops DEF RequireLive, Steps
<1>2. CASE RefuseOrder(o)
    <2>1. TypeOK' /\ OrderInv'
        BY <1>2, <1>t DEF RefuseOrder, TypeOK, OrderInv, Steps
    <2> QED
        BY <1>2, <2>1, OrderKeeps DEF RefuseOrder, Steps
<1>3. CASE Claim(o)
    <2>1. TypeOK' /\ OrderInv'
        BY <1>3, <1>t DEF Claim, TypeOK, OrderInv, Steps, Statuses
    <2>2. \A p \in Orders \ {o} : status'[p] = status[p] /\ broker'[p] = broker[p]
        BY <1>3, <1>t DEF Claim, TypeOK
    <2> QED
        BY <1>3, <2>1, <2>2, OrderKeeps, BarredStops DEF Claim, Steps
<1>4. CASE MarkSubmitted(o)
    <2>1. TypeOK' /\ OrderInv'
        BY <1>4, <1>t DEF MarkSubmitted, TypeOK, OrderInv, Steps, Statuses
    <2>2. \A p \in Orders \ {o} : status'[p] = status[p] /\ broker'[p] = broker[p]
        BY <1>4, <1>t DEF MarkSubmitted, TypeOK
    <2> QED
        BY <1>4, <2>1, <2>2, OrderKeeps, BarredStops DEF MarkSubmitted, Steps
<1>5. CASE PlaceMarketOrder(o)
    <2>1. TypeOK' /\ OrderInv'
        BY <1>5, <1>t DEF PlaceMarketOrder, TypeOK, OrderInv, Steps, AtBroker
    <2>2. \A p \in Orders \ {o} : status'[p] = status[p] /\ broker'[p] = broker[p]
        BY <1>5, <1>t DEF PlaceMarketOrder, TypeOK
    <2> QED
        BY <1>5, <2>1, <2>2, OrderKeeps, BarredStops DEF PlaceMarketOrder, Steps
<1>6. CASE RecordAnswer(o)
    <2>1. TypeOK' /\ OrderInv'
        BY <1>6, <1>t DEF RecordAnswer, TypeOK, OrderInv, Steps, Statuses
    <2>2. \A p \in Orders \ {o} : status'[p] = status[p] /\ broker'[p] = broker[p]
        BY <1>6, <1>t DEF RecordAnswer, TypeOK
    <2> QED
        BY <1>6, <2>1, <2>2, OrderKeeps, BarredStops DEF RecordAnswer, Steps
<1>7. CASE RecordUnknown(o)
    <2>1. TypeOK' /\ OrderInv'
        BY <1>7, <1>t DEF RecordUnknown, TypeOK, OrderInv, Steps, Statuses
    <2>2. \A p \in Orders \ {o} : status'[p] = status[p] /\ broker'[p] = broker[p]
        BY <1>7, <1>t DEF RecordUnknown, TypeOK
    <2> QED
        BY <1>7, <2>1, <2>2, OrderKeeps, BarredStops DEF RecordUnknown, Steps
<1> QED
    BY <1>1, <1>2, <1>3, <1>4, <1>5, <1>6, <1>7

LEMMA DecidePreserves == ASSUME IInv, NEW o \in Orders, Decide(o) PROVE IInv'
<1> USE RequestsAssumption, NoneAssumption
        DEF Decide, IInv, OrderOnly, SeenOnly, settings, Handlers, TypeOK
<1>1. TypeOK' /\ OrderInv'
    BY DEF OrderInv, AtBroker
<1>2. KillStands'
    BY DEF KillStands
<1>3. (OnlyProvedSecrets /\ SeenInv /\ KillInv /\ SecretInv)'
    BY DEF OnlyProvedSecrets, SeenInv, KillInv, SecretInv
<1> QED
    BY <1>1, <1>2, <1>3

LEMMA RestartPreserves == ASSUME IInv, Restart PROVE IInv'
<1> USE RequestsAssumption, NoneAssumption, BoundsAssumption
        DEF Restart, IInv, settings, ledger, Handlers
<1>1. TypeOK'
    <2>1. pc' \in [Handlers -> Steps] /\ seen' \in [Handlers -> SecuritySetting \cup {None}]
        BY DEF TypeOK, Steps
    <2> QED
        BY <2>1 DEF TypeOK
<1>2. KillStands' /\ OnlyProvedSecrets'
    BY DEF KillStands, OnlyProvedSecrets
<1>3. OrderInv'
    BY DEF OrderInv, Busy, Steps, TypeOK
<1>4. SeenInv'
    BY DEF SeenInv, Busy, Steps, TypeOK
<1>5. KillInv'
    BY DEF KillInv, Busy, Steps, TypeOK
<1>6. SecretInv'
    BY DEF SecretInv, TwoFactor, Busy, Steps, TypeOK
<1> QED
    BY <1>1, <1>2, <1>3, <1>4, <1>5, <1>6

LEMMA Inductive == IInv /\ [Next]_vars => IInv'
<1> SUFFICES ASSUME IInv, [Next]_vars PROVE IInv'
    OBVIOUS
<1>1. ASSUME NEW h \in Handlers, Read(h) \/ EnsureSetting(h) PROVE IInv'
    BY <1>1, ReadPreserves, EnsurePreserves
<1>2. ASSUME NEW h \in Settings, SettingsStep(h) PROVE IInv'
    BY <1>2, SetupPreserves, EnablePreserves, DisablePreserves, RefuseCodePreserves,
       SetKillSwitchPreserves DEF SettingsStep
<1>3. ASSUME NEW o \in Orders, FxOrder(o) PROVE IInv'
    BY <1>3, ArrivePreserves, OrderStepPreserves, DecidePreserves DEF FxOrder
<1>4. CASE UNCHANGED vars
    BY <1>4 DEF vars, settings, ledger, IInv, TypeOK, KillStands, OnlyProvedSecrets,
        OrderInv, SeenInv, KillInv, SecretInv
<1> QED
    BY <1>1, <1>2, <1>3, <1>4, RestartPreserves DEF Next

LEMMA Invariant == Spec => []IInv
BY InitIInv, Inductive, PTL DEF Spec

-----------------------------------------------------------------------------
(* Safety.                                                                 *)

\* Every reachable state is well typed; FILLED is only ever written of an order
\* that the broker has filled.
THEOREM TypeCorrect == Spec => []TypeOK
<1>1. IInv => TypeOK
    BY DEF IInv
<1> QED
    BY <1>1, Invariant, PTL

\* No request about 2FA and no race for the missing row takes the kill switch
\* back: an order that arrives while it is on never leaves.
THEOREM KillSwitchStands == Spec => []KillStands
<1>1. IInv => KillStands
    BY DEF IInv
<1> QED
    BY <1>1, Invariant, PTL

\* One after another, 2FA requests never leave 2FA on for a secret of which no
\* code was seen.
THEOREM SecretsAreProved == Spec => []OnlyProvedSecrets
<1>1. IInv => OnlyProvedSecrets
    BY DEF IInv
<1> QED
    BY <1>1, Invariant, PTL

-----------------------------------------------------------------------------
(* Refinement.                                                             *)

LEMMA InitMaps == Init => Promise!AInit
BY DEF Init, Promise!AInit, Handlers

\* Claim is the claim or the refusal, PlaceMarketOrder the sending.
LEMMA StepMaps == IInv /\ [Next]_vars => [Promise!ANext]_Promise!avars
<1> SUFFICES ASSUME IInv, [Next]_vars PROVE [Promise!ANext]_Promise!avars
    OBVIOUS
<1> DEFINE Sent == {o \in Orders : broker[o] # "none"}
           Told == {o \in Orders : pc[o] = "duplicate"}
<1> USE RequestsAssumption, NoneAssumption
        DEF Handlers, Promise!avars, Promise!ANext, Promise!Claim, Promise!SendOrder, Promise!TellDuplicate
<1>t. TypeOK /\ OrderInv
    BY DEF IInv
<1>1. ASSUME NEW o \in Orders, Claim(o) PROVE [Promise!ANext]_Promise!avars
    <2>1. Sent' = Sent
        BY <1>1 DEF Claim
    <2>2. CASE owner[KeyOf[o]] = None
        <3>1. Told' = Told /\ owner' = [owner EXCEPT ![KeyOf[o]] = o]
            BY <1>1, <1>t, <2>2 DEF Claim, Goto, TypeOK
        <3> QED
            BY <2>1, <2>2, <3>1
    <2>3. CASE owner[KeyOf[o]] # None
        <3>1. Told' = Told \cup {o} /\ owner' = owner
            BY <1>1, <1>t, <2>3 DEF Claim, Goto, TypeOK
        <3>2. owner[KeyOf[o]] \notin {None, o}
            BY <1>1, <1>t, <2>3 DEF Claim, OrderInv
        <3> QED
            BY <2>1, <3>1, <3>2
    <2> QED
        BY <2>2, <2>3
<1>2. ASSUME NEW o \in Orders, PlaceMarketOrder(o) PROVE [Promise!ANext]_Promise!avars
    <2>1. Told' = Told /\ owner' = owner
        BY <1>2, <1>t DEF PlaceMarketOrder, Goto, TypeOK
    <2>2. Sent' = Sent \cup {o}
        BY <1>2, <1>t DEF PlaceMarketOrder, TypeOK
    <2>3. o \notin Sent /\ owner[KeyOf[o]] = o
        BY <1>2, <1>t DEF PlaceMarketOrder, OrderInv
    <2> QED
        BY <2>1, <2>2, <2>3
<1>3. ASSUME owner' = owner,
             \A o \in Orders : (broker'[o] = "none") <=> (broker[o] = "none"),
             \A o \in Orders : (pc'[o] = "duplicate") <=> (pc[o] = "duplicate")
      PROVE  [Promise!ANext]_Promise!avars
    <2>1. Sent' = Sent /\ Told' = Told
        BY <1>3
    <2> QED
        BY <1>3, <2>1
<1>4. ASSUME NEW h \in Handlers, Read(h) \/ EnsureSetting(h) PROVE [Promise!ANext]_Promise!avars
    BY <1>3, <1>4, <1>t DEF Read, EnsureSetting, Goto, End, ledger, TypeOK
<1>5. ASSUME NEW h \in Settings, SettingsStep(h) PROVE [Promise!ANext]_Promise!avars
    BY <1>3, <1>5, <1>t DEF SettingsStep, Setup, Enable, Disable, RefuseCode, SetKillSwitch,
        Answer, End, Goto, SettingsOnly, ledger, TypeOK
<1>6. ASSUME NEW o \in Orders,
             Arrive(o) \/ RequireLive(o) \/ RefuseOrder(o) \/ MarkSubmitted(o) \/ Decide(o)
             \/ RecordAnswer(o) \/ RecordUnknown(o)
      PROVE  [Promise!ANext]_Promise!avars
    BY <1>3, <1>6, <1>t DEF Arrive, RequireLive, RefuseOrder, MarkSubmitted, Decide, RecordAnswer,
        RecordUnknown, End, Goto, SeenOnly, OrderOnly, ledger, TypeOK
<1>7. CASE Restart
    BY <1>3, <1>7, <1>t DEF Restart, Busy, ledger, TypeOK
<1>8. CASE UNCHANGED vars
    BY <1>3, <1>8 DEF vars, ledger
<1> QED
    BY <1>1, <1>2, <1>4, <1>5, <1>6, <1>7, <1>8 DEF Next, FxOrder

\* fx_order implements the abstract ledger: one claim, one OANDA order, all
\* others told of the duplicate.
THEOREM Refinement == Spec => KeepsPromise
<1>1. Spec => Promise!AInit
    BY InitMaps DEF Spec
<1>2. Spec => [][Promise!ANext]_Promise!avars
    BY Invariant, StepMaps, PTL DEF Spec
<1> QED
    BY <1>1, <1>2, PTL DEF KeepsPromise, Promise!ASpec
=============================================================================
