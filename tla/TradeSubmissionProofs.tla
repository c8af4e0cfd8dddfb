----------------------- MODULE TradeSubmissionProofs -----------------------
(***************************************************************************)
(* TradeSubmission keeps the promise of SubmitOnce for every set of        *)
(* requests, keys and reconcilers.                                         *)
(***************************************************************************)
EXTENDS TradeSubmission, TLAPS

\* Where a handler stands, against its row and its order.
HandlerInv ==
    \A r \in Requests :
        /\ pc[r] \in {"start", "insert", "refused", "duplicate"} =>
              order[r] = "none" /\ tradeId[KeyOf[r]] # r
        /\ pc[r] \in {"created", "send"} =>
              order[r] = "none" /\ tradeId[KeyOf[r]] = r
        /\ pc[r] = "send" => status[KeyOf[r]] \notin {"absent", "PENDING"}
        /\ pc[r] \in {"await", "record", "failed", "residual"} => order[r] # "none"
        /\ pc[r] = "duplicate" => status[KeyOf[r]] # "absent"
        /\ pc[r] = "record" =>
              /\ reply[r] \in ExchangeStatus
              /\ reply[r] \in Final => order[r] = reply[r]

\* The columns of a row agree.
RowInv ==
    \A k \in Keys :
        /\ status[k] = "absent" <=> tradeId[k] = None
        /\ tradeId[k] # None => KeyOf[tradeId[k]] = k
        /\ orderId[k] \in {None, tradeId[k]}

\* What a reconciler carries between its awaits is still about the same row,
\* and a final status it carries is still true.
ReconInv ==
    \A p \in Reconcilers :
        /\ \A row \in scan[p] :
              /\ tradeId[KeyOf[row.trade]] = row.trade
              /\ row.orderId \in {None, row.trade}
        /\ \A s \in seen[p] :
              /\ tradeId[KeyOf[s.trade]] = s.trade
              /\ s.orderId \in {None, s.trade}
              /\ order[s.trade] # "none"
              /\ s.status \in Final => order[s.trade] = s.status

\* The inductive invariant.
IInv == TypeOK /\ HandlerInv /\ RowInv /\ OrderHasRow /\ HonestFinal /\ ReconInv
-----------------------------------------------------------------------------
LEMMA InitIInv == Init => IInv
BY KeysAssumption, NoneAssumption, BoundsAssumption
   DEF Init, IInv, TypeOK, HandlerInv, RowInv, OrderHasRow, HonestFinal, ReconInv, Final

\* The order a reconciler finds for a row is the row's own: by its
\* exchange_order_id, or because it was sent under the client_request_id.
LEMMA FoundIsOwn ==
    ASSUME IInv, NEW p \in Reconcilers, NEW row \in scan[p], NEW r \in Found(row)
    PROVE  r = row.trade /\ order[r] # "none"
<1>1. row.trade \in Requests /\ r \in Requests
    BY DEF IInv, TypeOK, Row, Found
<1>2. order[r] \in ExchangeStatus /\ order[r] # "none"
    BY StatusAssumption DEF Found, ExchangeStatus, Final
<1>3. CASE row.orderId # None
    BY <1>1, <1>2, <1>3 DEF Found, IInv, ReconInv
<1>4. CASE row.orderId = None
    <2>1. SentAs[KeyOf[r]] = KeyOf[row.trade]
        BY <1>4 DEF Found
    <2>2. KeyOf[r] = KeyOf[row.trade]
        BY <1>1, <2>1, KeysAssumption
    <2>3. tradeId[KeyOf[r]] = r
        BY <1>1, <1>2 DEF IInv, OrderHasRow
    <2>4. tradeId[KeyOf[row.trade]] = row.trade
        BY DEF IInv, ReconInv
    <2> QED
        BY <1>2, <2>2, <2>3, <2>4
<1> QED
    BY <1>3, <1>4

\* UPDATE ... WHERE id = t touches the row of t's key and no other, and keeps
\* the columns in agreement.
LEMMA UpdateStatusRow ==
    ASSUME IInv, NEW t \in Requests, NEW s \in TradeStatus, NEW oid \in {None, t},
           tradeId[KeyOf[t]] = t, UpdateStatus(t, s, oid)
    PROVE  /\ status' = [status EXCEPT ![KeyOf[t]] = s]
           /\ tradeId' = tradeId
           /\ orderId' \in [Keys -> Requests \cup {None}]
           /\ RowInv'
<1>1. KeyOf[t] \in Keys /\ t # None /\ \A k \in Keys : tradeId[k] = t <=> k = KeyOf[t]
    BY KeysAssumption, NoneAssumption DEF IInv, RowInv
<1>2. status' = [status EXCEPT ![KeyOf[t]] = s] /\ tradeId' = tradeId
    BY <1>1 DEF UpdateStatus, IInv, TypeOK
<1>3. \A k \in Keys : orderId'[k] = IF tradeId[k] = t /\ oid # None THEN oid ELSE orderId[k]
    BY Zenon DEF UpdateStatus
<1>4. orderId' \in [Keys -> Requests \cup {None}]
    BY DEF UpdateStatus, IInv, TypeOK
<1>5. s # "absent"
    BY StatusAssumption DEF TradeStatus, ExchangeStatus, Final
<1>6. RowInv'
    <2> SUFFICES ASSUME NEW k \in Keys
                 PROVE  /\ status'[k] = "absent" <=> tradeId'[k] = None
                        /\ tradeId'[k] # None => KeyOf[tradeId'[k]] = k
                        /\ orderId'[k] \in {None, tradeId'[k]}
        BY DEF RowInv
    <2>1. status'[k] = "absent" <=> tradeId'[k] = None
        BY <1>1, <1>2, <1>5 DEF IInv, TypeOK, RowInv
    <2>2. tradeId'[k] # None => KeyOf[tradeId'[k]] = k
        BY <1>2 DEF IInv, RowInv
    <2>3. orderId'[k] \in {None, tradeId'[k]}
        BY <1>2, <1>3 DEF IInv, RowInv
    <2> QED
        BY <2>1, <2>2, <2>3
<1> QED
    BY <1>2, <1>4, <1>6

LEMMA LookupIInv == ASSUME IInv, NEW r \in Requests, Lookup(r) PROVE IInv'
BY KeysAssumption, NoneAssumption, StatusAssumption
   DEF IInv, TypeOK, HandlerInv, RowInv, OrderHasRow, HonestFinal, ReconInv, Lookup,
       Goto, UpdateStatus, rows, handlers, recon, TradeStatus, ExchangeStatus, Final,
       PcActive, PcEnd

LEMMA InsertIInv == ASSUME IInv, NEW r \in Requests, Insert(r) PROVE IInv'
<1>1. CASE status[KeyOf[r]] = "absent"
    <2>1. /\ KeyOf[r] \in Keys /\ r # None /\ tradeId[KeyOf[r]] = None /\ pc[r] = "insert"
          /\ pc' = [pc EXCEPT ![r] = "created"]
          /\ status'  = [status  EXCEPT ![KeyOf[r]] = "PENDING"]
          /\ tradeId' = [tradeId EXCEPT ![KeyOf[r]] = r]
          /\ UNCHANGED <<orderId, reply, order, scan, seen, workerUp, restarts>>
        BY <1>1, KeysAssumption, NoneAssumption DEF Insert, Goto, recon, IInv, RowInv
    <2>2. TypeOK'
        BY <2>1 DEF IInv, TypeOK, TradeStatus, PcActive
    <2>3. HandlerInv'
        <3>1. \A q \in Requests : tradeId'[KeyOf[q]] = tradeId[KeyOf[q]]
                                \/ (KeyOf[q] = KeyOf[r] /\ tradeId'[KeyOf[q]] = r)
            BY <2>1, KeysAssumption DEF IInv, TypeOK
        <3>2. \A q \in Requests : q # r /\ KeyOf[q] = KeyOf[r] => tradeId[KeyOf[q]] # q
            BY <2>1, NoneAssumption
        <3>3. \A q \in Requests : pc'[q] = IF q = r THEN "created" ELSE pc[q]
            BY <2>1 DEF IInv, TypeOK
        <3>4. \A q \in Requests : status'[KeyOf[q]] = IF KeyOf[q] = KeyOf[r] THEN "PENDING"
                                                   ELSE status[KeyOf[q]]
            BY <2>1, KeysAssumption DEF IInv, TypeOK
        <3>5. order' = order /\ reply' = reply /\ order[r] = "none"
            BY <2>1 DEF IInv, HandlerInv
        <3>6. tradeId'[KeyOf[r]] = r
            BY <2>1, KeysAssumption DEF IInv, TypeOK
        <3> QED
            BY <3>1, <3>2, <3>3, <3>4, <3>5, <3>6 DEF IInv, HandlerInv
    <2>4. RowInv'
        BY <2>1, KeysAssumption DEF IInv, TypeOK, RowInv
    <2>5. OrderHasRow' /\ HonestFinal'
        BY <1>1, <2>1, KeysAssumption DEF IInv, TypeOK, OrderHasRow, HonestFinal, Final
    <2>6. ReconInv'
        BY <2>1, KeysAssumption, NoneAssumption DEF IInv, TypeOK, ReconInv, Row, Seen
    <2> QED
        BY <2>2, <2>3, <2>4, <2>5, <2>6 DEF IInv
<1>2. CASE status[KeyOf[r]] # "absent"
    BY <1>2, KeysAssumption
       DEF Insert, IInv, TypeOK, HandlerInv, RowInv, OrderHasRow, HonestFinal, ReconInv,
           Goto, rows, recon, PcEnd
<1> QED
    BY <1>1, <1>2

LEMMA RefuseIInv == ASSUME IInv, NEW r \in Requests, Refuse(r) PROVE IInv'
BY KeysAssumption, NoneAssumption, StatusAssumption
   DEF IInv, TypeOK, HandlerInv, RowInv, OrderHasRow, HonestFinal, ReconInv, Refuse,
       Goto, UpdateStatus, rows, handlers, recon, TradeStatus, ExchangeStatus, Final,
       PcActive, PcEnd

LEMMA MarkSubmittedIInv == ASSUME IInv, NEW r \in Requests, MarkSubmitted(r) PROVE IInv'
<1>1. tradeId[KeyOf[r]] = r /\ KeyOf[r] \in Keys /\ "SUBMITTED" \in TradeStatus
    BY KeysAssumption DEF MarkSubmitted, Goto, IInv, HandlerInv, OrderHasRow, TradeStatus, ExchangeStatus, Final
<1>2. /\ status' = [status EXCEPT ![KeyOf[r]] = "SUBMITTED"]
      /\ tradeId' = tradeId
      /\ orderId' \in [Keys -> Requests \cup {None}]
      /\ RowInv'
    BY <1>1, UpdateStatusRow DEF MarkSubmitted
<1>3. TypeOK'
    BY <1>1, <1>2 DEF MarkSubmitted, Goto, recon, IInv, TypeOK, PcActive, PcEnd
<1>4. HandlerInv'
    BY <1>1, <1>2, StatusAssumption
       DEF MarkSubmitted, Goto, recon, IInv, TypeOK, HandlerInv, OrderHasRow, TradeStatus, ExchangeStatus, Final
<1>5. OrderHasRow' /\ HonestFinal'
    BY <1>1, <1>2, KeysAssumption, StatusAssumption
       DEF MarkSubmitted, Goto, recon, IInv, TypeOK, HandlerInv, RowInv, OrderHasRow, HonestFinal,
           ExchangeStatus, Final
<1>6. ReconInv'
    BY <1>1, <1>2 DEF MarkSubmitted, recon, IInv, ReconInv
<1> QED
    BY <1>2, <1>3, <1>4, <1>5, <1>6 DEF IInv

LEMMA SendIInv == ASSUME IInv, NEW r \in Requests, Send(r) PROVE IInv'
BY KeysAssumption, NoneAssumption, StatusAssumption
   DEF IInv, TypeOK, HandlerInv, RowInv, OrderHasRow, HonestFinal, ReconInv, Send,
       Goto, UpdateStatus, rows, handlers, recon, TradeStatus, ExchangeStatus, Final,
       PcActive, PcEnd

LEMMA AnswerIInv == ASSUME IInv, NEW r \in Requests, Answer(r) PROVE IInv'
BY KeysAssumption, NoneAssumption, StatusAssumption
   DEF IInv, TypeOK, HandlerInv, RowInv, OrderHasRow, HonestFinal, ReconInv, Answer,
       Goto, UpdateStatus, rows, handlers, recon, TradeStatus, ExchangeStatus, Final,
       PcActive, PcEnd

LEMMA SendFailsIInv == ASSUME IInv, NEW r \in Requests, SendFails(r) PROVE IInv'
BY KeysAssumption, NoneAssumption, StatusAssumption
   DEF IInv, TypeOK, HandlerInv, RowInv, OrderHasRow, HonestFinal, ReconInv, SendFails,
       Goto, UpdateStatus, rows, handlers, recon, TradeStatus, ExchangeStatus, Final,
       PcActive, PcEnd

LEMMA RecordUnknownIInv == ASSUME IInv, NEW r \in Requests, RecordUnknown(r) PROVE IInv'
<1>1. tradeId[KeyOf[r]] = r /\ KeyOf[r] \in Keys /\ "UNKNOWN" \in TradeStatus
    BY KeysAssumption DEF RecordUnknown, Goto, IInv, HandlerInv, OrderHasRow, TradeStatus, ExchangeStatus, Final
<1>2. /\ status' = [status EXCEPT ![KeyOf[r]] = "UNKNOWN"]
      /\ tradeId' = tradeId
      /\ orderId' \in [Keys -> Requests \cup {None}]
      /\ RowInv'
    BY <1>1, UpdateStatusRow DEF RecordUnknown
<1>3. TypeOK'
    BY <1>1, <1>2 DEF RecordUnknown, Goto, recon, IInv, TypeOK, PcActive, PcEnd
<1>4. HandlerInv'
    BY <1>1, <1>2, StatusAssumption
       DEF RecordUnknown, Goto, recon, IInv, TypeOK, HandlerInv, OrderHasRow, TradeStatus, ExchangeStatus, Final
<1>5. OrderHasRow' /\ HonestFinal'
    BY <1>1, <1>2, KeysAssumption, StatusAssumption
       DEF RecordUnknown, Goto, recon, IInv, TypeOK, HandlerInv, RowInv, OrderHasRow, HonestFinal,
           ExchangeStatus, Final
<1>6. ReconInv'
    BY <1>1, <1>2 DEF RecordUnknown, recon, IInv, ReconInv
<1> QED
    BY <1>2, <1>3, <1>4, <1>5, <1>6 DEF IInv

LEMMA RecordAnswerIInv == ASSUME IInv, NEW r \in Requests, RecordAnswer(r) PROVE IInv'
<1>1. tradeId[KeyOf[r]] = r /\ KeyOf[r] \in Keys /\ reply[r] \in TradeStatus
    BY KeysAssumption DEF RecordAnswer, Goto, IInv, HandlerInv, OrderHasRow, TradeStatus, ExchangeStatus, Final
<1>2. /\ status' = [status EXCEPT ![KeyOf[r]] = reply[r]]
      /\ tradeId' = tradeId
      /\ orderId' \in [Keys -> Requests \cup {None}]
      /\ RowInv'
    BY <1>1, UpdateStatusRow DEF RecordAnswer
<1>3. TypeOK'
    BY <1>1, <1>2 DEF RecordAnswer, Goto, recon, IInv, TypeOK, PcActive, PcEnd
<1>4. HandlerInv'
    BY <1>1, <1>2, StatusAssumption
       DEF RecordAnswer, Goto, recon, IInv, TypeOK, HandlerInv, OrderHasRow, TradeStatus, ExchangeStatus, Final
<1>5. OrderHasRow' /\ HonestFinal'
    BY <1>1, <1>2, KeysAssumption, StatusAssumption
       DEF RecordAnswer, Goto, recon, IInv, TypeOK, HandlerInv, RowInv, OrderHasRow, HonestFinal,
           ExchangeStatus, Final
<1>6. ReconInv'
    BY <1>1, <1>2 DEF RecordAnswer, recon, IInv, ReconInv
<1> QED
    BY <1>2, <1>3, <1>4, <1>5, <1>6 DEF IInv

LEMMA CancelResidualIInv == ASSUME IInv, NEW r \in Requests, CancelResidual(r) PROVE IInv'
<1>1. /\ \/ order' = order
         \/ order[r] \in Working /\ order' = [order EXCEPT ![r] = "EXPIRED"]
      /\ pc[r] = "residual" /\ pc' = [pc EXCEPT ![r] = "returned"]
      /\ UNCHANGED <<status, tradeId, orderId, reply, scan, seen, workerUp, restarts>>
    <2>1. order' = [order EXCEPT ![r] = IF order[r] \in Working THEN "EXPIRED" ELSE order[r]]
              \/ order' = order
        BY DEF CancelResidual
    <2>2. order[r] \notin Working =>
              [order EXCEPT ![r] = IF order[r] \in Working THEN "EXPIRED" ELSE order[r]] = order
        BY DEF IInv, TypeOK
    <2>3. order[r] \in Working =>
              [order EXCEPT ![r] = IF order[r] \in Working THEN "EXPIRED" ELSE order[r]]
                  = [order EXCEPT ![r] = "EXPIRED"]
        OBVIOUS
    <2>4. /\ pc[r] = "residual" /\ pc' = [pc EXCEPT ![r] = "returned"]
          /\ UNCHANGED <<status, tradeId, orderId, reply, scan, seen, workerUp, restarts>>
        BY DEF CancelResidual, Goto, rows, recon
    <2> QED
        BY <2>1, <2>2, <2>3, <2>4
<1>2. CASE order' = order
    BY <1>1, <1>2 DEF IInv, TypeOK, HandlerInv, RowInv, OrderHasRow, HonestFinal, ReconInv, PcEnd
<1>3. CASE order[r] \in Working /\ order' = [order EXCEPT ![r] = "EXPIRED"]
    <2>1. order[r] \notin Final /\ order[r] # "none"
        BY <1>3, StatusAssumption DEF Final
    <2>2. TypeOK' /\ RowInv'
        BY <1>1, <1>3 DEF IInv, TypeOK, RowInv, PcEnd, ExchangeStatus, Final
    <2>3. HandlerInv' /\ OrderHasRow' /\ HonestFinal' /\ ReconInv'
        BY <1>1, <1>3, <2>1 DEF IInv, TypeOK, HandlerInv, OrderHasRow, HonestFinal, ReconInv
    <2> QED
        BY <2>2, <2>3 DEF IInv
<1> QED
    BY <1>1, <1>2, <1>3

LEMMA HandlerAbortsIInv == ASSUME IInv, NEW r \in Requests, HandlerAborts(r) PROVE IInv'
BY KeysAssumption, NoneAssumption, StatusAssumption
   DEF IInv, TypeOK, HandlerInv, RowInv, OrderHasRow, HonestFinal, ReconInv, HandlerAborts,
       Goto, UpdateStatus, rows, handlers, recon, TradeStatus, ExchangeStatus, Final,
       PcActive, PcEnd

LEMMA AcceptIInv == ASSUME IInv, NEW r \in Requests, Accept(r) PROVE IInv'
BY KeysAssumption, NoneAssumption, StatusAssumption
   DEF IInv, TypeOK, HandlerInv, RowInv, OrderHasRow, HonestFinal, ReconInv, Accept,
       Goto, UpdateStatus, rows, handlers, recon, TradeStatus, ExchangeStatus, Final,
       PcActive, PcEnd

LEMMA LoseIInv == ASSUME IInv, NEW r \in Requests, Lose(r) PROVE IInv'
BY KeysAssumption, NoneAssumption, StatusAssumption
   DEF IInv, TypeOK, HandlerInv, RowInv, OrderHasRow, HonestFinal, ReconInv, Lose,
       Goto, UpdateStatus, rows, handlers, recon, TradeStatus, ExchangeStatus, Final,
       PcActive, PcEnd

LEMMA ExecuteIInv == ASSUME IInv, NEW r \in Requests, Execute(r) PROVE IInv'
BY KeysAssumption, NoneAssumption, StatusAssumption
   DEF IInv, TypeOK, HandlerInv, RowInv, OrderHasRow, HonestFinal, ReconInv, Execute,
       Goto, UpdateStatus, rows, handlers, recon, TradeStatus, ExchangeStatus, Final,
       PcActive, PcEnd

LEMMA WorkerSelectIInv == ASSUME IInv, WorkerSelect PROVE IInv'
<1>1. \A k \in Keys : status[k] \in InDoubt =>
          /\ ReadRow(k) \in Row
          /\ tradeId[KeyOf[tradeId[k]]] = tradeId[k]
          /\ orderId[k] \in {None, tradeId[k]}
    BY DEF IInv, TypeOK, RowInv, ReadRow, Row, InDoubt
<1>2. ReconInv'
    BY <1>1 DEF WorkerSelect, rows, handlers, IInv, TypeOK, ReconInv, ReadRow, Reconcilers
<1>3. TypeOK'
    BY <1>1 DEF WorkerSelect, rows, handlers, IInv, TypeOK, Reconcilers
<1> QED
    BY <1>2, <1>3
       DEF WorkerSelect, rows, handlers, IInv, HandlerInv, RowInv, OrderHasRow, HonestFinal

LEMMA OperatorSelectIInv == ASSUME IInv, NEW o \in Operators, OperatorSelect(o) PROVE IInv'
<1>1. PICK k \in Keys : status[k] # "absent" /\ scan' = [scan EXCEPT ![o] = {ReadRow(k)}]
    BY DEF OperatorSelect
<1>2. /\ ReadRow(k) \in Row
      /\ tradeId[KeyOf[tradeId[k]]] = tradeId[k]
      /\ orderId[k] \in {None, tradeId[k]}
    BY <1>1 DEF IInv, TypeOK, RowInv, ReadRow, Row
<1>3. ReconInv'
    BY <1>1, <1>2 DEF OperatorSelect, rows, handlers, IInv, TypeOK, ReconInv, ReadRow, Reconcilers
<1>4. TypeOK'
    BY <1>1, <1>2 DEF OperatorSelect, rows, handlers, IInv, TypeOK, Reconcilers
<1> QED
    BY <1>3, <1>4
       DEF OperatorSelect, rows, handlers, IInv, HandlerInv, RowInv, OrderHasRow, HonestFinal

LEMMA WorkerDiesIInv == ASSUME IInv, WorkerDies PROVE IInv'
<1>1. TypeOK' /\ ReconInv'
    BY DEF WorkerDies, rows, handlers, IInv, TypeOK, ReconInv, Reconcilers
<1> QED
    BY <1>1 DEF WorkerDies, rows, handlers, IInv, HandlerInv, RowInv, OrderHasRow, HonestFinal

LEMMA QueryOrderIInv ==
    ASSUME IInv, NEW p \in Reconcilers, NEW row \in scan[p], QueryOrder(p, row) PROVE IInv'
<1> DEFINE found(r) == [trade |-> row.trade, orderId |-> row.orderId, status |-> order[r]]
<1>1. PICK r \in Found(row) : seen' = [seen EXCEPT ![p] = {found(r)}]
    BY DEF QueryOrder
<1>2. r = row.trade /\ order[r] # "none" /\ order[r] \in ExchangeStatus
    BY FoundIsOwn DEF Found
<1>3. row \in Row /\ tradeId[KeyOf[row.trade]] = row.trade /\ row.orderId \in {None, row.trade}
    BY DEF IInv, TypeOK, ReconInv
<1>4. found(r) \in Seen
    BY <1>2, <1>3 DEF Row, Seen
<1>5. scan' = [scan EXCEPT ![p] = scan[p] \ {row}]
    BY DEF QueryOrder
<1>6. TypeOK'
    BY <1>1, <1>4, <1>5 DEF QueryOrder, rows, handlers, IInv, TypeOK
<1>7. ReconInv'
    <2>1. \A q \in Reconcilers : \A w \in scan'[q] : w \in scan[q]
        BY <1>5 DEF IInv, TypeOK
    <2>2. \A q \in Reconcilers : \A w \in seen'[q] : w \in seen[q] \/ w = found(r)
        BY <1>1 DEF IInv, TypeOK
    <2>3. found(r).trade = row.trade /\ found(r).orderId = row.orderId /\ found(r).status = order[r]
        OBVIOUS
    <2>4. tradeId' = tradeId /\ order' = order
        BY DEF QueryOrder, rows
    <2> HIDE DEF found
    <2> QED
        BY <1>2, <1>3, <2>1, <2>2, <2>3, <2>4 DEF IInv, ReconInv
<1> QED
    BY <1>6, <1>7
       DEF QueryOrder, rows, handlers, IInv, HandlerInv, RowInv, OrderHasRow, HonestFinal

LEMMA QueryFailsIInv ==
    ASSUME IInv, NEW p \in Reconcilers, NEW row \in scan[p], QueryFails(p, row) PROVE IInv'
BY DEF QueryFails, rows, handlers, IInv, TypeOK, HandlerInv, RowInv, OrderHasRow, HonestFinal,
       ReconInv

LEMMA WriteBackIInv ==
    ASSUME IInv, NEW p \in Reconcilers, WriteBack(p) PROVE IInv'
<1>1. PICK s \in seen[p] :
          /\ UpdateStatus(s.trade, s.status, s.orderId)
          /\ seen' = [seen EXCEPT ![p] = {}]
          /\ UNCHANGED <<handlers, order, scan, workerUp, restarts>>
    BY DEF WriteBack
<1>2. /\ s.trade \in Requests /\ s.status \in ExchangeStatus /\ s.orderId \in {None, s.trade}
      /\ tradeId[KeyOf[s.trade]] = s.trade /\ KeyOf[s.trade] \in Keys
      /\ s.status \in Final => order[s.trade] = s.status
    BY KeysAssumption DEF IInv, TypeOK, Seen, ReconInv
<1>3. /\ status' = [status EXCEPT ![KeyOf[s.trade]] = s.status]
      /\ tradeId' = tradeId
      /\ orderId' \in [Keys -> Requests \cup {None}]
      /\ RowInv'
    BY <1>1, <1>2, UpdateStatusRow DEF TradeStatus
<1>4. s.status \notin {"absent", "PENDING"}
    BY <1>2, StatusAssumption DEF ExchangeStatus, Final
<1>5. TypeOK'
    BY <1>1, <1>2, <1>3 DEF handlers, IInv, TypeOK, TradeStatus
<1>6. HandlerInv'
    BY <1>1, <1>2, <1>3, <1>4 DEF handlers, IInv, TypeOK, HandlerInv
<1>7. OrderHasRow' /\ HonestFinal'
    BY <1>1, <1>2, <1>3, <1>4, KeysAssumption DEF IInv, TypeOK, OrderHasRow, HonestFinal
<1>8. ReconInv'
    BY <1>1, <1>3 DEF IInv, TypeOK, ReconInv
<1> QED
    BY <1>3, <1>5, <1>6, <1>7, <1>8 DEF IInv

LEMMA RestartIInv == ASSUME IInv, Restart PROVE IInv'
<1>1. TypeOK'
    BY BoundsAssumption DEF Restart, rows, IInv, TypeOK, PcActive, PcEnd
<1>2. \A r \in Requests : pc'[r] = pc[r] \/ pc'[r] = "crashed"
    BY DEF Restart
<1>3. HandlerInv'
    BY <1>2 DEF Restart, rows, IInv, HandlerInv
<1>4. ReconInv'
    BY DEF Restart, ReconInv
<1> QED
    BY <1>1, <1>3, <1>4 DEF Restart, rows, IInv, RowInv, OrderHasRow, HonestFinal

LEMMA StutterIInv == ASSUME IInv, UNCHANGED vars PROVE IInv'
BY DEF vars, rows, handlers, recon, IInv, TypeOK, HandlerInv, RowInv, OrderHasRow, HonestFinal,
       ReconInv

LEMMA NextIInv == IInv /\ [Next]_vars => IInv'
<1> SUFFICES ASSUME IInv, [Next]_vars PROVE IInv'
    OBVIOUS
<1>1. CASE \E r \in Requests : HandlerStep(r)
    BY <1>1, LookupIInv, InsertIInv, MarkSubmittedIInv, SendIInv, AnswerIInv, SendFailsIInv,
       RecordUnknownIInv, RecordAnswerIInv, CancelResidualIInv DEF HandlerStep
<1>2. CASE \E r \in Requests : Refuse(r) \/ HandlerAborts(r)
    BY <1>2, RefuseIInv, HandlerAbortsIInv
<1>3. CASE \E r \in Requests : Accept(r) \/ Lose(r) \/ Execute(r)
    BY <1>3, AcceptIInv, LoseIInv, ExecuteIInv
<1>4. CASE WorkerSelect \/ WorkerDies
    BY <1>4, WorkerSelectIInv, WorkerDiesIInv
<1>5. CASE \E o \in Operators : OperatorSelect(o)
    BY <1>5, OperatorSelectIInv
<1>6. CASE \E p \in Reconcilers : ReconcilerStep(p)
    BY <1>6, QueryOrderIInv, QueryFailsIInv, WriteBackIInv DEF ReconcilerStep
<1>7. CASE Restart
    BY <1>7, RestartIInv
<1>8. CASE UNCHANGED vars
    BY <1>8, StutterIInv
<1> QED
    BY <1>1, <1>2, <1>3, <1>4, <1>5, <1>6, <1>7, <1>8 DEF Next

LEMMA Inductive == Spec => []IInv
BY InitIInv, NextIInv, PTL DEF Spec

-----------------------------------------------------------------------------
\* Every variable keeps its type (the rows, handlers, orders and reconcilers of
\* the ledger), for any number of requests, keys and reconcilers.
THEOREM TypeCorrect == Spec => []TypeOK
<1>1. IInv => TypeOK
    BY DEF IInv
<1> QED
    BY <1>1, Inductive, PTL

\* A client_request_id is never the reason for two orders, whatever races,
\* crashes and restarts create_idempotent and its callers meet.
THEOREM NoDoubleOrder == Spec => []AtMostOneOrder
<1>1. IInv => AtMostOneOrder
    BY DEF IInv, OrderHasRow, AtMostOneOrder
<1> QED
    BY <1>1, Inductive, PTL

\* An order that has left the process can always be found again from the table.
THEOREM OrdersAreRecorded == Spec => []OrderHasRow
<1>1. IInv => OrderHasRow
    BY DEF IInv
<1> QED
    BY <1>1, Inductive, PTL

\* A final status in the table is the exchange's, although update_status is
\* unconditional and its three callers overtake each other.
THEOREM FinalIsTrue == Spec => []HonestFinal
<1>1. IInv => HonestFinal
    BY DEF IInv
<1> QED
    BY <1>1, Inductive, PTL

\* Until the exchange is done with an order, its row is one the worker's SELECT
\* asks for, provided no answer says NEW: the SELECT leaves NEW out, so an order
\* that rests in the book would be forgotten.  A market order never answers NEW.
THEOREM DoubtIsReconciled ==
    ASSUME "NEW" \notin Working
    PROVE  Spec => []StillReconciled
<1>1. IInv => StillReconciled
    <2> SUFFICES ASSUME IInv, NEW r \in Requests, order[r] \in {"transit"} \cup Working
                 PROVE  status[KeyOf[r]] \in InDoubt
        BY DEF StillReconciled
    <2>1. Working \subseteq {"PARTIALLY_FILLED"}
        BY StatusAssumption
    <2>2. order[r] \notin Final /\ order[r] # "none"
        BY <2>1 DEF Final
    <2>3. tradeId[KeyOf[r]] = r /\ status[KeyOf[r]] \notin {"absent", "PENDING"}
        BY <2>2 DEF IInv, OrderHasRow
    <2>4. status[KeyOf[r]] \in TradeStatus \cup {"absent"}
        BY KeysAssumption DEF IInv, TypeOK
    <2>5. status[KeyOf[r]] \notin Final
        BY <2>2, <2>3, KeysAssumption DEF IInv, HonestFinal
    <2> QED
        BY <2>1, <2>3, <2>4, <2>5 DEF TradeStatus, ExchangeStatus, InDoubt
<1> QED
    BY <1>1, Inductive, PTL

-----------------------------------------------------------------------------
(* Refinement.                                                             *)

LEMMA InitMaps == Init => Promise!AInit
BY DEF Init, Promise!AInit

\* Insert is the claim, or (with Lookup) the refusal; Send is the sending;
\* every other step leaves the abstract ledger as it is.
LEMMA StepMaps == IInv /\ IInv' /\ [Next]_vars => [Promise!ANext]_Promise!avars
<1> SUFFICES ASSUME IInv, IInv', [Next]_vars
             PROVE  [Promise!ANext]_Promise!avars
    OBVIOUS
<1> DEFINE Sent == {r \in Requests : order[r] # "none"}
           Told == {r \in Requests : pc[r] = "duplicate"}
<1> USE DEF Promise!avars, Promise!ANext, Promise!Claim, Promise!SendOrder, Promise!TellDuplicate
<1>1. ASSUME NEW r \in Requests, Lookup(r) PROVE [Promise!ANext]_Promise!avars
    <2>1. tradeId' = tradeId /\ order' = order
        BY <1>1 DEF Lookup, rows
    <2>2. CASE status[KeyOf[r]] = "absent"
        <3>1. Told' = Told
            BY <1>1, <2>2 DEF Lookup, Goto, IInv, TypeOK
        <3> QED
            BY <2>1, <3>1
    <2>3. CASE status[KeyOf[r]] # "absent"
        <3>1. Told' = Told \cup {r}
            BY <1>1, <2>3 DEF Lookup, Goto, IInv, TypeOK
        <3>2. tradeId[KeyOf[r]] \notin {None, r}
            BY <1>1, <2>3, KeysAssumption DEF Lookup, Goto, IInv, RowInv, HandlerInv
        <3> QED
            BY <2>1, <3>1, <3>2
    <2> QED
        BY <2>2, <2>3
<1>2. ASSUME NEW r \in Requests, Insert(r) PROVE [Promise!ANext]_Promise!avars
    <2>1. order' = order
        BY <1>2 DEF Insert
    <2>2. CASE status[KeyOf[r]] = "absent"
        <3>1. Told' = Told /\ tradeId' = [tradeId EXCEPT ![KeyOf[r]] = r]
            BY <1>2, <2>2 DEF Insert, Goto, IInv, TypeOK
        <3>2. tradeId[KeyOf[r]] = None
            BY <2>2, KeysAssumption DEF IInv, RowInv
        <3> QED
            BY <2>1, <3>1, <3>2
    <2>3. CASE status[KeyOf[r]] # "absent"
        <3>1. Told' = Told \cup {r} /\ tradeId' = tradeId
            BY <1>2, <2>3 DEF Insert, Goto, IInv, TypeOK, rows
        <3>2. tradeId[KeyOf[r]] \notin {None, r}
            BY <1>2, <2>3, KeysAssumption DEF Insert, Goto, IInv, RowInv, HandlerInv
        <3> QED
            BY <2>1, <3>1, <3>2
    <2> QED
        BY <2>2, <2>3
<1>3. ASSUME NEW r \in Requests, Send(r) PROVE [Promise!ANext]_Promise!avars
    <2>1. Told' = Told /\ tradeId' = tradeId
        BY <1>3 DEF Send, Goto, IInv, TypeOK, rows
    <2>2. Sent' = Sent \cup {r}
        BY <1>3 DEF Send, IInv, TypeOK
    <2>3. r \notin Sent /\ tradeId[KeyOf[r]] = r
        BY <1>3 DEF Send, Goto, IInv, HandlerInv
    <2> QED
        BY <2>1, <2>2, <2>3
<1>4. ASSUME tradeId' = tradeId,
             \A r \in Requests : (order'[r] = "none") <=> (order[r] = "none"),
             \A r \in Requests : (pc'[r] = "duplicate") <=> (pc[r] = "duplicate")
      PROVE  UNCHANGED Promise!avars
    BY <1>4
<1>5. ASSUME NEW r \in Requests,
             \/ MarkSubmitted(r) \/ Answer(r) \/ SendFails(r) \/ RecordUnknown(r)
             \/ RecordAnswer(r) \/ Refuse(r) \/ HandlerAborts(r)
      PROVE  UNCHANGED Promise!avars
    <2>1. order' = order /\ tradeId' = tradeId
        BY <1>5 DEF MarkSubmitted, Answer, SendFails, RecordUnknown, RecordAnswer, Refuse,
                    HandlerAborts, UpdateStatus, rows
    <2>2. \A q \in Requests : (pc'[q] = "duplicate") <=> (pc[q] = "duplicate")
        BY <1>5 DEF MarkSubmitted, Answer, SendFails, RecordUnknown, RecordAnswer, Refuse,
                    HandlerAborts, Goto, PcActive, IInv, TypeOK
    <2> QED
        BY <1>4, <2>1, <2>2
<1>6. ASSUME NEW r \in Requests, CancelResidual(r) \/ Accept(r) \/ Lose(r) \/ Execute(r)
      PROVE  UNCHANGED Promise!avars
    <2>1. tradeId' = tradeId
        BY <1>6 DEF CancelResidual, Accept, Lose, Execute, rows
    <2>2. \A q \in Requests : (pc'[q] = "duplicate") <=> (pc[q] = "duplicate")
        BY <1>6 DEF CancelResidual, Accept, Lose, Execute, Goto, handlers, IInv, TypeOK
    <2>3. "none" \notin ExchangeStatus /\ "none" \notin Working
        BY StatusAssumption DEF ExchangeStatus, Final
    <2>4. \A q \in Requests : (order'[q] = "none") <=> (order[q] = "none")
        BY <1>6, <2>3 DEF CancelResidual, Accept, Lose, Execute, IInv, TypeOK
    <2> QED
        BY <1>4, <2>1, <2>2, <2>4
<1>7. ASSUME \/ WorkerSelect \/ WorkerDies
             \/ \E o \in Operators : OperatorSelect(o)
             \/ \E p \in Reconcilers : ReconcilerStep(p)
             \/ UNCHANGED vars
      PROVE  UNCHANGED Promise!avars
    <2>1. order' = order /\ tradeId' = tradeId /\ pc' = pc
        BY <1>7 DEF WorkerSelect, WorkerDies, OperatorSelect, ReconcilerStep, QueryOrder,
                    QueryFails, WriteBack, UpdateStatus, vars, rows, handlers
    <2> QED
        BY <1>4, <2>1
<1>8. ASSUME Restart PROVE UNCHANGED Promise!avars
    <2>1. order' = order /\ tradeId' = tradeId
        BY <1>8 DEF Restart, rows
    <2>2. \A q \in Requests : (pc'[q] = "duplicate") <=> (pc[q] = "duplicate")
        BY <1>8 DEF Restart, PcActive
    <2> QED
        BY <1>4, <2>1, <2>2
<1> QED
    BY <1>1, <1>2, <1>3, <1>5, <1>6, <1>7, <1>8 DEF Next, HandlerStep

\* The handlers, reconcilers, crashes and restarts around the trades table
\* implement the abstract ledger: one claim, one order, all others told.
THEOREM Refinement == Spec => KeepsPromise
<1>1. Spec => Promise!AInit
    BY InitMaps DEF Spec
<1>2. Spec => [][Promise!ANext]_Promise!avars
    BY Inductive, StepMaps, PTL DEF Spec
<1> QED
    BY <1>1, <1>2, PTL DEF KeepsPromise, Promise!ASpec

=============================================================================
