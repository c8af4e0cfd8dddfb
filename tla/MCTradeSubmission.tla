------------------------- MODULE MCTradeSubmission -------------------------
(* Instances of TradeSubmission: two requests retry one key, a third has   *)
(* another.                                                                *)
EXTENDS TradeSubmission, TLC

CONSTANTS r1, r2, r3, k1, k2, exitKey, exitSentAs

TwoRequests   == {r1, r2}
ThreeRequests == {r1, r2, r3}

RetryKeyOf == r1 :> k1 @@ r2 :> k1
MixedKeyOf == r1 :> k1 @@ r2 :> k1 @@ r3 :> k2

\* binance_order sends the client_request_id itself.
SentAsIs1 == k1 :> k1
SentAsIs2 == k1 :> k1 @@ k2 :> k2

\* The position monitor files protective_exit_position_N and sends ai_exit_N.
ExitKeyOf  == r1 :> exitKey @@ r2 :> exitKey
SentAsExit == exitKey :> exitSentAs
=============================================================================
