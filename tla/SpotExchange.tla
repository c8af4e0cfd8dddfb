---------------------------- MODULE SpotExchange ----------------------------
(***************************************************************************)
(* The Binance spot account as BinanceClient uses it (external), and the   *)
(* tables the live order route and the position monitor share.  One user,  *)
(* one symbol.  A call takes effect and is answered in one step: it is     *)
(* heard, or its answer is lost and the caller gets an exception.  An      *)
(* order cannot arrive after its caller has given up, because recvWindow   *)
(* (5 s) is shorter than the HTTP timeout (10 s).                          *)
(***************************************************************************)
EXTENDS Naturals, FiniteSets

CONSTANTS
    Buys,           \* BUY requests; a position is named by the BUY it tracks
    Sells,          \* SELL requests of the user
    BuyQty,         \* quantity of a BUY, in the finest unit of the market
    Step,           \* lot step of protective orders, in that unit
    Outside,        \* free quantity the account holds besides the positions
    ExpiresPartly   \* whether a market order may expire after a partial fill

ASSUME QuantityAssumption ==
    /\ BuyQty \in Nat \ {0} /\ Step \in Nat \ {0} /\ Outside \in Nat
    /\ ExpiresPartly \in BOOLEAN

ASSUME RequestAssumption == Buys \cap Sells = {} /\ IsFiniteSet(Buys)

Requests == Buys \cup Sells
Qty == 0..BuyQty

VARIABLES
    free,       \* free base-asset balance
    filled,     \* per request: executed quantity of its market order
    rest,       \* per request: quantity of its order still working
    oco,        \* per BUY: its OCO list
    exits,      \* per BUY: orders placed to sell it off (emergency or monitor)
    exitSold,   \* per BUY: quantity those orders sell
    posStatus,  \* positions: none, OPEN or CLOSED
    posQty,     \* positions: tracked quantity
    posAge,     \* positions in order of creation (ids grow)
    kill        \* the account's kill switch

market == <<free, filled, rest, oco, exits, exitSold>>
table  == <<posStatus, posQty, posAge>>
shared == <<market, table, kill>>

SharedTypeOK ==
    /\ free \in Nat
    /\ filled \in [Requests -> Qty]
    /\ rest \in [Requests -> Qty]
    /\ oco \in [Buys -> {"none", "active", "filled", "cancelled"}]
    /\ exits \in [Buys -> Nat]
    /\ exitSold \in [Buys -> Nat]
    /\ posStatus \in [Buys -> {"none", "OPEN", "CLOSED"}]
    /\ posQty \in [Buys -> Qty]
    /\ posAge \in [Buys -> 0..Cardinality(Buys)]
    /\ kill \in BOOLEAN

SharedInit ==
    /\ free = Outside
    /\ filled = [r \in Requests |-> 0]
    /\ rest = [r \in Requests |-> 0]
    /\ oco = [b \in Buys |-> "none"]
    /\ exits = [b \in Buys |-> 0]
    /\ exitSold = [b \in Buys |-> 0]
    /\ posStatus = [b \in Buys |-> "none"]
    /\ posQty = [b \in Buys |-> 0]
    /\ posAge = [b \in Buys |-> 0]
    /\ kill = FALSE

\* A slip: round up to a whole step.
CeilStep(q) == ((q + Step - 1) \div Step) * Step

\* _floor_step: whole steps only.
FloorStep(q) == (q \div Step) * Step

Open == {b \in Buys : posStatus[b] = "OPEN"}

-----------------------------------------------------------------------------
\* Executions of a market order for q: status, executed quantity, quantity
\* left working.
Executions(q) ==
    {[status |-> "FILLED", done |-> q, rest |-> 0],
     [status |-> "EXPIRED", done |-> 0, rest |-> 0]}
    \cup {[status |-> "PARTIALLY_FILLED", done |-> e, rest |-> q - e] : e \in 1..(q - 1)}
    \cup {[status |-> "EXPIRED", done |-> e, rest |-> 0] :
             e \in IF ExpiresPartly THEN 1..(q - 1) ELSE {}}

BuyMarket(b, x) ==
    /\ free' = free + x.done
    /\ filled' = [filled EXCEPT ![b] = x.done]
    /\ rest' = [rest EXCEPT ![b] = x.rest]
    /\ UNCHANGED <<oco, exits, exitSold>>

\* A SELL needs the whole quantity free, and keeps what still works reserved.
SellMarket(s, q, x) ==
    /\ free >= q
    /\ free' = free - x.done - x.rest
    /\ filled' = [filled EXCEPT ![s] = x.done]
    /\ rest' = [rest EXCEPT ![s] = x.rest]
    /\ UNCHANGED <<oco, exits, exitSold>>

\* The rest of a partly filled order executes after all.
RestFills(r) ==
    /\ rest[r] > 0
    /\ filled' = [filled EXCEPT ![r] = @ + rest[r]]
    /\ rest' = [rest EXCEPT ![r] = 0]
    /\ free' = IF r \in Buys THEN free + rest[r] ELSE free
    /\ UNCHANGED <<oco, exits, exitSold>>

\* cancel_order, when it takes effect.
CancelRest(r) ==
    /\ rest' = [rest EXCEPT ![r] = 0]
    /\ free' = IF r \in Sells THEN free + rest[r] ELSE free
    /\ UNCHANGED <<filled, oco, exits, exitSold>>

\* A market SELL of q that gets rid of BUY b, of which e is sold in the end.
\* FILLED is answered only for an order that sold everything.
SellOff(b, q, e) ==
    /\ free >= q
    /\ free' = free - e
    /\ exits' = [exits EXCEPT ![b] = @ + 1]
    /\ exitSold' = [exitSold EXCEPT ![b] = @ + e]
    /\ UNCHANGED <<filled, rest, oco>>

\* order_list_oco reserves the quantity it protects.
PlaceOco(b, q) ==
    /\ free >= q
    /\ free' = free - q
    /\ oco' = [oco EXCEPT ![b] = "active"]
    /\ UNCHANGED <<filled, rest, exits, exitSold>>

\* cancel_order_list for a list over q, when it takes effect.
CancelOco(b, q) ==
    /\ oco[b] = "active"
    /\ oco' = [oco EXCEPT ![b] = "cancelled"]
    /\ free' = free + q
    /\ UNCHANGED <<filled, rest, exits, exitSold>>

\* The stop or the take-profit leg executes, for everything it reserved.
OcoFills(b) ==
    /\ oco[b] = "active"
    /\ oco' = [oco EXCEPT ![b] = "filled"]
    /\ UNCHANGED <<free, filled, rest, exits, exitSold>>

-----------------------------------------------------------------------------
(* The positions table.                                                    *)

CreatePosition(b, q) ==
    /\ posStatus' = [posStatus EXCEPT ![b] = "OPEN"]
    /\ posQty' = [posQty EXCEPT ![b] = q]
    /\ posAge' = [posAge EXCEPT ![b] =
                     1 + Cardinality({c \in Buys : posStatus[c] # "none"})]

ClosePosition(b) ==
    /\ posStatus' = [posStatus EXCEPT ![b] = "CLOSED"]
    /\ UNCHANGED <<posQty, posAge>>

\* open_position_for_symbol: the oldest OPEN position.
OldestOpen == {b \in Open : \A c \in Open : posAge[b] <= posAge[c]}
=============================================================================
