------------------------------ MODULE Account -------------------------------
(***************************************************************************)
(* One user's account: the row of security_settings that the 2FA routes    *)
(* and the kill switch write and the gate of live orders reads, and the    *)
(* OANDA orders behind that gate.                                          *)
(*                                                                         *)
(* Every handler has a database session of its own.  What it has read of   *)
(* the row stays as read (expire_on_commit is off and a second SELECT      *)
(* returns the same object), and a commit writes only the attributes the   *)
(* handler has changed.  The kill switch is written by an UPDATE of that   *)
(* one column.  The row is made by whoever first misses it; user_id is     *)
(* unique, so another's INSERT fails and its request is answered 500.      *)
(*                                                                         *)
(* OANDA does not refuse a second order with the same clientExtensions id, *)
(* and every reconciler asks Binance about an OANDA row, in vain: past its *)
(* handler an OANDA row never changes.                                     *)
(***************************************************************************)
EXTENDS Naturals, FiniteSets

CONSTANTS
    Settings,       \* requests to /api/security
    Orders,         \* requests to POST /fx/order
    Kind,           \* what each settings request asks for
    Keys, KeyOf,    \* client_request_id values, and the one each order carries
    MaxRestarts,    \* bound: process restarts
    None

Kinds == {"setup", "enable", "disable", "set", "clear"}
Handlers == Settings \cup Orders
Setups == {h \in Settings : Kind[h] = "setup"}
TwoFactor == {h \in Settings : Kind[h] \in {"setup", "enable", "disable"}}

\* A setup's secret is named after the request that drew it.
SecuritySetting ==
    [secret : Setups \cup {None}, enabled : BOOLEAN, kill : BOOLEAN]

ASSUME RequestsAssumption ==
    /\ Settings \cap Orders = {}
    /\ Kind \in [Settings -> Kinds] /\ KeyOf \in [Orders -> Keys]
ASSUME NoneAssumption == None \notin Handlers \cup SecuritySetting
ASSUME BoundsAssumption == MaxRestarts \in Nat

VARIABLES
    row,        \* the user's security_settings row, or None
    pc,         \* where each request's handler is
    seen,       \* the row as a handler has read it
    proved,     \* secrets of which /2fa/enable has seen a valid code
    overlap,    \* two 2FA requests have been under way together
    barred,     \* orders that arrived with the kill switch on, not cleared since
    owner,      \* the order whose row carries a key
    status,     \* status of the row an order has inserted
    broker,     \* what became of the order at OANDA
    restarts

settings == <<row, proved, overlap>>
ledger   == <<owner, status, broker>>
vars     == <<settings, ledger, pc, seen, barred, restarts>>

Fresh == [secret |-> None, enabled |-> FALSE, kill |-> FALSE]

Steps == {"idle", "arrived", "create", "checked", "gated", "pending", "submitted",
          "sent", "duplicate", "done"}
Busy == Steps \ {"idle", "duplicate", "done"}
Statuses == {"none", "PENDING", "SUBMITTED", "UNKNOWN", "FILLED"}
AtBroker == {"none", "flight", "filled", "cancelled", "lost"}

\* Every variable keeps its type, 2FA is never on without a secret, and FILLED
\* is only written of an order the broker has filled.
TypeOK ==
    /\ row \in SecuritySetting \cup {None}
    /\ row # None /\ row.enabled => row.secret # None
    /\ pc \in [Handlers -> Steps]
    /\ seen \in [Handlers -> SecuritySetting \cup {None}]
    /\ proved \subseteq Setups /\ overlap \in BOOLEAN /\ barred \subseteq Orders
    /\ owner \in [Keys -> Orders \cup {None}]
    /\ status \in [Orders -> Statuses] /\ broker \in [Orders -> AtBroker]
    /\ \A o \in Orders : status[o] = "FILLED" => broker[o] = "filled"
    /\ restarts \in 0..MaxRestarts

Init ==
    /\ row = None /\ proved = {} /\ overlap = FALSE /\ barred = {}
    /\ pc = [h \in Handlers |-> "idle"] /\ seen = [h \in Handlers |-> None]
    /\ owner = [k \in Keys |-> None]
    /\ status = [o \in Orders |-> "none"] /\ broker = [o \in Orders |-> "none"]
    /\ restarts = 0

Goto(h, l) == pc' = [pc EXCEPT ![h] = l]

\* The request is answered, and its session closed.
End(h) == Goto(h, "done") /\ seen' = [seen EXCEPT ![h] = None]

(***************************************************************************)
(* Reading the row, and making it.                                         *)
(***************************************************************************)
\* The kill switch bars the orders that arrive while it is on.
Arrive(o) ==
    /\ pc[o] = "idle" /\ Goto(o, "arrived")
    /\ barred' = IF row # None /\ row.kill THEN barred \cup {o} ELSE barred
    /\ UNCHANGED <<settings, ledger, seen, restarts>>

\* The SELECT every handler begins with.  is_killed and set_kill_switch make
\* a row that is missing; the 2FA routes do not.
Read(h) ==
    /\ pc[h] = IF h \in Orders THEN "arrived" ELSE "idle"
    /\ seen' = [seen EXCEPT ![h] = row]
    /\ Goto(h, IF row = None /\ h \notin TwoFactor THEN "create" ELSE "checked")
    /\ overlap' = (overlap \/ (h \in TwoFactor /\ \E g \in TwoFactor : pc[g] \in Busy))
    /\ UNCHANGED <<row, proved, ledger, barred, restarts>>

\* ensure_setting.  GET /status does no more than this.
EnsureSetting(h) ==
    /\ pc[h] = "create"
    /\ IF row = None
       THEN row' = Fresh /\ seen' = [seen EXCEPT ![h] = Fresh] /\ Goto(h, "checked")
       ELSE End(h) /\ UNCHANGED row
    /\ UNCHANGED <<proved, overlap, ledger, barred, restarts>>

(***************************************************************************)
(* /api/security.                                                          *)
(***************************************************************************)
Answer(h) == pc[h] = "checked" /\ End(h)
SettingsOnly == UNCHANGED <<ledger, restarts>>

\* The INSERT of a handler that has seen no row; it fails if there is one now.
InsertSetting(h) ==
    row' = IF row = None THEN [Fresh EXCEPT !.secret = h] ELSE row

\* A slip: the new secret is stored and 2FA left as it was.
SetupKeeps(h) ==
    /\ Kind[h] = "setup" /\ Answer(h)
    /\ IF seen[h] = None THEN InsertSetting(h)
       ELSE row' = [row EXCEPT !.secret = h]
    /\ UNCHANGED <<proved, overlap, barred>> /\ SettingsOnly

\* A slip: the whole row is written back as it was read.
SetupWholeRow(h) ==
    /\ Kind[h] = "setup" /\ Answer(h)
    /\ IF seen[h] = None THEN InsertSetting(h)
       ELSE row' = [seen[h] EXCEPT !.secret = h, !.enabled = FALSE]
    /\ UNCHANGED <<proved, overlap, barred>> /\ SettingsOnly

\* A new secret, and 2FA off: written only where the handler has read it on.
Setup(h) ==
    /\ Kind[h] = "setup" /\ Answer(h)
    /\ IF seen[h] = None THEN InsertSetting(h)
       ELSE row' = [row EXCEPT !.secret = h, !.enabled = @ /\ ~seen[h].enabled]
    /\ UNCHANGED <<proved, overlap, barred>> /\ SettingsOnly

\* The code is checked against the secret as it was read.
Enable(h) ==
    /\ Kind[h] = "enable" /\ Answer(h)
    /\ seen[h] # None /\ seen[h].secret # None
    /\ proved' = proved \cup {seen[h].secret}
    /\ row' = [row EXCEPT !.enabled = @ \/ ~seen[h].enabled]
    /\ UNCHANGED <<overlap, barred>> /\ SettingsOnly

Disable(h) ==
    /\ Kind[h] = "disable" /\ Answer(h)
    /\ IF seen[h] # None /\ seen[h].enabled
       THEN row' = [row EXCEPT !.enabled = FALSE] ELSE UNCHANGED row
    /\ UNCHANGED <<proved, overlap, barred>> /\ SettingsOnly

\* No secret, no row or a wrong code: 400 or 401.
RefuseCode(h) ==
    /\ Kind[h] \in {"enable", "disable"} /\ Answer(h)
    /\ Kind[h] = "disable" => seen[h] # None /\ seen[h].enabled
    /\ UNCHANGED <<settings, barred>> /\ SettingsOnly

SetKillSwitch(h) ==
    /\ Kind[h] \in {"set", "clear"} /\ Answer(h)
    /\ row' = [row EXCEPT !.kill = (Kind[h] = "set")]
    /\ barred' = IF Kind[h] = "clear" THEN {} ELSE barred
    /\ UNCHANGED <<proved, overlap>> /\ SettingsOnly

(***************************************************************************)
(* POST /fx/order.                                                         *)
(***************************************************************************)
OrderOnly == UNCHANGED <<settings, barred, restarts>>
SeenOnly == UNCHANGED seen /\ OrderOnly

\* _require_live, but for the code itself.
MayTrade(o) == ~seen[o].kill /\ seen[o].enabled /\ seen[o].secret # None

RequireLive(o) ==
    /\ pc[o] = "checked" /\ MayTrade(o)
    /\ Goto(o, "gated") /\ seen' = [seen EXCEPT ![o] = None]
    /\ UNCHANGED ledger /\ OrderOnly

\* Killed, no second factor, a wrong code; later no USD account or instrument,
\* no quote, the risk engine's refusal.
RefuseOrder(o) ==
    /\ pc[o] \in {"checked", "gated"} /\ End(o)
    /\ UNCHANGED ledger /\ OrderOnly

\* A slip: a second row may carry the key.
ClaimAnyway(o) ==
    /\ pc[o] = "gated" /\ Goto(o, "pending")
    /\ owner' = [owner EXCEPT ![KeyOf[o]] = o] /\ status' = [status EXCEPT ![o] = "PENDING"]
    /\ UNCHANGED broker /\ SeenOnly

\* create_idempotent, one step as TradeSubmission shows.
Claim(o) ==
    /\ pc[o] = "gated"
    /\ \/ /\ owner[KeyOf[o]] = None /\ Goto(o, "pending")
          /\ owner' = [owner EXCEPT ![KeyOf[o]] = o] /\ status' = [status EXCEPT ![o] = "PENDING"]
       \/ /\ owner[KeyOf[o]] # None /\ Goto(o, "duplicate")
          /\ UNCHANGED <<owner, status>>
    /\ UNCHANGED broker /\ SeenOnly

MarkSubmitted(o) ==
    /\ pc[o] = "pending" /\ Goto(o, "submitted")
    /\ status' = [status EXCEPT ![o] = "SUBMITTED"]
    /\ UNCHANGED <<owner, broker>> /\ SeenOnly

PlaceMarketOrder(o) ==
    /\ pc[o] = "submitted" /\ Goto(o, "sent")
    /\ broker' = [broker EXCEPT ![o] = "flight"]
    /\ UNCHANGED <<owner, status>> /\ SeenOnly

\* Fill or kill, or refused; later than the caller waits, if need be.
Decide(o) ==
    /\ broker[o] = "flight"
    /\ \E x \in {"filled", "cancelled", "lost"} : broker' = [broker EXCEPT ![o] = x]
    /\ UNCHANGED <<owner, status, pc>> /\ SeenOnly

\* A slip: an answer with an orderCreateTransaction is a fill.
RecordCreated(o) ==
    /\ pc[o] = "sent" /\ broker[o] \in {"filled", "cancelled"} /\ Goto(o, "done")
    /\ status' = [status EXCEPT ![o] = "FILLED"]
    /\ UNCHANGED <<owner, broker>> /\ SeenOnly

\* An order that was killed keeps its SUBMITTED.
RecordAnswer(o) ==
    /\ pc[o] = "sent" /\ broker[o] \in {"filled", "cancelled"} /\ Goto(o, "done")
    /\ status' = [status EXCEPT ![o] = IF broker[o] = "filled" THEN "FILLED" ELSE "SUBMITTED"]
    /\ UNCHANGED <<owner, broker>> /\ SeenOnly

RecordUnknown(o) ==
    /\ pc[o] = "sent" /\ Goto(o, "done")
    /\ status' = [status EXCEPT ![o] = "UNKNOWN"]
    /\ UNCHANGED <<owner, broker>> /\ SeenOnly

Restart ==
    /\ restarts < MaxRestarts /\ restarts' = restarts + 1
    /\ pc' = [h \in Handlers |-> IF pc[h] \in Busy THEN "done" ELSE pc[h]]
    /\ seen' = [h \in Handlers |-> None]
    /\ UNCHANGED <<settings, ledger, barred>>

SettingsStep(h) ==
    \/ Setup(h) \/ Enable(h) \/ Disable(h) \/ RefuseCode(h) \/ SetKillSwitch(h)

FxOrder(o) ==
    \/ Arrive(o) \/ RequireLive(o) \/ RefuseOrder(o) \/ Claim(o) \/ MarkSubmitted(o)
    \/ PlaceMarketOrder(o) \/ Decide(o) \/ RecordAnswer(o) \/ RecordUnknown(o)

Next ==
    \/ \E h \in Handlers : Read(h) \/ EnsureSetting(h)
    \/ \E h \in Settings : SettingsStep(h)
    \/ \E o \in Orders : FxOrder(o)
    \/ Restart

Spec == Init /\ [][Next]_vars

(***************************************************************************)
(* Properties.                                                             *)
(***************************************************************************)

\* An order that arrives after the kill switch was answered on, and before any
\* request to clear it is carried out, never leaves: no 2FA request under way
\* and no race for the missing row takes the switch back.
KillStands == \A o \in barred : status[o] = "none" /\ broker[o] = "none"

\* As long as 2FA requests come one after another, 2FA is on for no secret but
\* one of which a code was seen.  Together they may leave it on for a secret
\* that nobody has proved to hold: see README.
OnlyProvedSecrets ==
    ~overlap /\ row # None /\ row.enabled => row.secret \in proved

Promise == INSTANCE SubmitOnce WITH
    Requests <- Orders,
    claim <- owner,
    sent  <- {o \in Orders : broker[o] # "none"},
    told  <- {o \in Orders : pc[o] = "duplicate"}

\* One OANDA order leaves for each client_request_id, though OANDA itself would
\* take two: the ledger of fx_order implements SubmitOnce.
KeepsPromise == Promise!ASpec
=============================================================================
