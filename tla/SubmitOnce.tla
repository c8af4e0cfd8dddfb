----------------------------- MODULE SubmitOnce -----------------------------
(***************************************************************************)
(* What the trade ledger promises its callers, whatever the interleaving:  *)
(* a client_request_id is claimed by one request, only the claimant sends  *)
(* an order to the exchange, it sends one, and any other request with the  *)
(* same id can at most be told that the id is taken.                       *)
(*                                                                         *)
(* TradeSubmission implements this specification.                          *)
(***************************************************************************)
EXTENDS FiniteSets

CONSTANTS
    Requests,   \* order requests (HTTP calls, worker exits, retries of either)
    Keys,       \* client_request_id values of one user
    KeyOf,      \* the client_request_id each request carries
    None        \* "nobody"

VARIABLES
    claim,      \* the request that owns each key
    sent,       \* the requests whose order has left for the exchange
    told        \* the requests answered "duplicate"

avars == <<claim, sent, told>>

AInit ==
    /\ claim = [k \in Keys |-> None]
    /\ sent = {}
    /\ told = {}

Claim(r) ==
    /\ claim[KeyOf[r]] = None
    /\ claim' = [claim EXCEPT ![KeyOf[r]] = r]
    /\ UNCHANGED <<sent, told>>

SendOrder(r) ==
    /\ claim[KeyOf[r]] = r
    /\ r \notin sent
    /\ sent' = sent \cup {r}
    /\ UNCHANGED <<claim, told>>

TellDuplicate(r) ==
    /\ claim[KeyOf[r]] \notin {None, r}
    /\ told' = told \cup {r}
    /\ UNCHANGED <<claim, sent>>

ANext == \E r \in Requests : Claim(r) \/ SendOrder(r) \/ TellDuplicate(r)

ASpec == AInit /\ [][ANext]_avars
=============================================================================
