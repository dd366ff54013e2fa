----------------------------- MODULE CallerProofs -----------------------------
(***************************************************************************)
(* What every caller of the engine can rely on, whoever calls and whatever *)
(* the calls are: EngineInv is inductive under the engine's steps and      *)
(* under calls, and neither takes back a call or an answer.                *)
(***************************************************************************)
EXTENDS EngineClient, BooksProofs

-----------------------------------------------------------------------------
(* The invariant                                                           *)

HeadersType == headers \in [Requests -> Header \cup {None}]

\* A call that has been made is not forgotten, and is answered once.
Begun ==
  \A r \in Requests :
    /\ called[r] = None <=> stage[r] = "idle"
    /\ stage[r] # "done" <=> answer[r] = "none"

\* A header is that of a payment whose rows have been written.
RecordedCall(h) ==
  /\ called[h] \in Calls /\ called[h].op # "reverse" /\ WellFormed(called[h]) /\ Authorised(called[h])
  /\ PaymentRows(h, called[h]) \subseteq entries
CallsRecorded == \A h \in Requests : headers[h] # None => RecordedCall(h)

\* A payment is answered with a header that carries its key.
ShowsKey(r) == headers[found[r]] # None /\ headers[found[r]].key = called[r].key
KeysShown ==
  \A r \in Requests :
    (stage[r] = "found" \/ answer[r] = "ok") /\ called[r].op # "reverse" => ShowsKey(r)

\* A call that the engine has taken up is well-formed, and a payment that has
\* been recorded is answered with its header or not at all.
TakenUp ==
  \A r \in Requests :
    /\ stage[r] \in {"called", "missed", "found"} \/ answer[r] = "ok" => WellFormed(called[r])
    /\ headers[r] # None =>
         stage[r] = "found" \/ (stage[r] = "done" /\ answer[r] \in {"ok", "failed"})

\* Rows are written by the calls of requests, and a payment writes its own.
RowBelongs(e) ==
  /\ called[e.by] \in Calls
  /\ called[e.by].op # "reverse" => e \in PaymentRows(e.by, called[e.by])
Written ==
  /\ IsFiniteSet(entries) /\ entries \subseteq Row
  /\ \A e \in entries : RowBelongs(e)

EngineInv ==
  ServiceTypeOK /\ HeadersType /\ Begun /\ TakenUp /\ CallsRecorded /\ Written /\ KeysShown

\* What no step takes back: calls, answers, the header that is shown; and a
\* request that has been answered records no header any more.
CallsKept ==
  \A q \in Requests :
    /\ called[q] # None => called'[q] = called[q]
    /\ answer[q] = "ok" => answer'[q] = "ok" /\ found'[q] = found[q]
    /\ stage[q] = "done" => stage'[q] = "done" /\ answer'[q] = answer[q]
    /\ headers[q] # None => headers'[q] # None /\ headers'[q].key = headers[q].key
    /\ stage[q] = "done" /\ headers'[q] # None =>
         headers[q] # None /\ (headers'[q].status = "SUCCESS" => headers[q].status = "SUCCESS")

\* Before any call.
LEMMA ServiceInit_Inv == ServiceInit => EngineInv
BY FS_EmptySet DEF ServiceInit, Init, EngineInv, ServiceTypeOK, HeadersType, Begun, TakenUp, CallsRecorded,
   Written, KeysShown

\* Balances are numbers.
LEMMA BalanceInt ==
  ASSUME EngineInv, NEW a
  PROVE  Balance(entries, a) \in Int
<1>1. {e \in entries : e.acct = a} \in SUBSET Row BY DEF EngineInv, Written
<1>2. IsFiniteSet({e \in entries : e.acct = a}) BY FS_Subset DEF EngineInv, Written
<1> QED BY <1>1, <1>2, TotalInt DEF Balance

\* A header has the terms of its payment.
LEMMA HeaderTerms ==
  ASSUME EngineInv, NEW h \in Requests, headers[h] # None
  PROVE  /\ called[h] \in Calls /\ called[h].op # "reverse" /\ WellFormed(called[h])
         /\ headers[h].key = called[h].key /\ headers[h].amt = called[h].amt
         /\ headers[h].src = called[h].src /\ headers[h].dst = called[h].dst
<1>1. headers[h] \in {HeaderOf(called[h]), [HeaderOf(called[h]) EXCEPT !.status = "REVERSED"]}
  BY DEF EngineInv, ServiceTypeOK
<1>2. RecordedCall(h) BY DEF EngineInv, CallsRecorded
<1> QED BY <1>1, <1>2 DEF HeaderOf, RecordedCall

-----------------------------------------------------------------------------
(* The steps of the engine                                                 *)

Kept == UNCHANGED called /\ CallsKept

\* A row bears the name of the request that writes it.
LEMMA RowsBy ==
  ASSUME NEW r
  PROVE  /\ \A c \in Calls : c.op # "reverse" => \A e \in PaymentRows(r, c) : e.by = r
         /\ \A h, hd : \A e \in ContraRows(r, h, hd) : e.by = r
<1>1. \A h, s, d, n : \A e \in DoubleEntry(r, h, s, d, n) : e.by = r BY DEF DoubleEntry, NewRow
<1>2. \A h, s, f, t, d, n, m : \A e \in CrossBorderEntries(r, h, s, f, t, d, n, m) : e.by = r
  BY DEF CrossBorderEntries, NewRow
<1>3. \A c \in Calls : c.op # "reverse" => c.op \in {"transfer", "cross", "fund"} BY CallFields
<1>4. \A a, n : NewRow(r, r, "credit", a, n).by = r BY DEF NewRow
<1>5. ASSUME NEW c \in Calls, c.op # "reverse", NEW e \in PaymentRows(r, c) PROVE e.by = r
  BY <1>1, <1>2, <1>3, <1>4, <1>5 DEF PaymentRows
<1>6. ASSUME NEW h, NEW hd, NEW e \in ContraRows(r, h, hd) PROVE e.by = r
  BY <1>1, <1>2, <1>6 DEF ContraRows
<1> QED BY <1>5, <1>6

LEMMA ReversedHeader ==
  ASSUME NEW hd \in Header
  PROVE  /\ [hd EXCEPT !.status = "REVERSED"] \in Header
         /\ [hd EXCEPT !.status = "REVERSED"] # None
         /\ [hd EXCEPT !.status = "REVERSED"].key = hd.key
         /\ [hd EXCEPT !.status = "REVERSED"].status = "REVERSED"
<1>1. [hd EXCEPT !.status = "REVERSED"] \in Header BY DEF Header
<1> QED BY <1>1, BooksAssumption DEF Header

\* A payment records its header and writes its rows.
LEMMA PayStep ==
  ASSUME EngineInv, NEW r \in Requests, stage[r] = "missed", Pay(r, called[r]),
         found' = [found EXCEPT ![r] = r], Enter(r, "found"), UNCHANGED <<called, answer>>
  PROVE  EngineInv' /\ Kept
<1> USE DEF EngineInv, ServiceTypeOK, HeadersType, Begun
<1> DEFINE c == called[r]
<1>1. /\ c \in Calls /\ c.op # "reverse" /\ WellFormed(c) /\ Authorised(c) /\ headers[r] = None
      /\ headers' = [headers EXCEPT ![r] = HeaderOf(c)]
      /\ entries' = entries \cup PaymentRows(r, c)
  BY DEF Pay
<1>2. HeaderOf(c) \in Header /\ HeaderOf(c) # None /\ HeaderOf(c).key = c.key
  BY <1>1, HeaderType
<1> HIDE DEF c
<1>3. /\ HeadersType' /\ headers'[r] = HeaderOf(c)
      /\ \A q \in Requests \ {r} : headers'[q] = headers[q]
  BY <1>1, <1>2
<1>4. /\ stage' = [stage EXCEPT ![r] = "found"] /\ found' = [found EXCEPT ![r] = r]
      /\ UNCHANGED <<called, answer>>
  BY DEF Enter
<1>5. ServiceTypeOK'
  <2>1. ASSUME NEW q \in Requests, stage'[q] = "found" \/ answer'[q] = "ok"
        PROVE  found'[q] # None /\ headers'[found'[q]] # None
    <3>1. CASE q = r BY <1>2, <1>3, <1>4, <3>1, BooksAssumption
    <3>2. CASE q # r BY <1>2, <1>3, <1>4, <2>1, <3>2
    <3> QED BY <3>1, <3>2
  <2>2. ASSUME NEW q \in Requests, headers'[q] # None
        PROVE  headers'[q] \in {HeaderOf(called'[q]), [HeaderOf(called'[q]) EXCEPT !.status = "REVERSED"]}
    <3>1. CASE q = r BY <1>3, <1>4, <3>1 DEF c
    <3>2. CASE q # r BY <1>3, <1>4, <2>2, <3>2
    <3> QED BY <3>1, <3>2
  <2> QED BY <1>4, <2>1, <2>2
<1>6. Begun' BY <1>4
<1>7. CallsRecorded'
  <2> SUFFICES ASSUME NEW h \in Requests, headers'[h] # None PROVE RecordedCall(h)' BY DEF CallsRecorded
  <2>1. CASE h = r BY <1>1, <1>4, <2>1 DEF RecordedCall, c
  <2>2. CASE h # r BY <1>1, <1>3, <1>4, <2>2 DEF CallsRecorded, RecordedCall
  <2> QED BY <2>1, <2>2
<1>8. KeysShown'
  <2> SUFFICES ASSUME NEW q \in Requests, stage'[q] = "found" \/ answer'[q] = "ok", called'[q].op # "reverse"
               PROVE  ShowsKey(q)'
    BY DEF KeysShown
  <2>1. CASE q = r BY <1>2, <1>3, <1>4, <2>1 DEF ShowsKey, c
  <2>2. CASE q # r
    <3>1. ShowsKey(q) /\ found[q] \in Requests BY <1>4, <2>2 DEF KeysShown
    <3>2. found[q] # r BY <1>1, <3>1 DEF ShowsKey
    <3> QED BY <1>3, <1>4, <2>2, <3>1, <3>2 DEF ShowsKey
  <2> QED BY <2>1, <2>2
<1>9. TakenUp' BY <1>1, <1>3, <1>4 DEF TakenUp
<1>10. Written'
  <2>1. IsFiniteSet(PaymentRows(r, c)) /\ PaymentRows(r, c) \subseteq Row BY <1>1, PaymentSum
  <2>2. \A e \in PaymentRows(r, c) : e.by = r BY <1>1, RowsBy
  <2>3. IsFiniteSet(entries') BY <1>1, <2>1, FS_Union DEF Written
  <2>4. ASSUME NEW e \in entries' PROVE RowBelongs(e)'
    <3>1. CASE e \in entries BY <1>4, <3>1 DEF Written, RowBelongs
    <3>2. CASE e \in PaymentRows(r, c) BY <1>1, <1>4, <2>2, <3>2 DEF RowBelongs, c
    <3> QED BY <1>1, <2>4, <3>1, <3>2
  <2> QED BY <1>1, <2>1, <2>3, <2>4 DEF Written
<1>11. Kept BY <1>1, <1>2, <1>3, <1>4 DEF Kept, CallsKept
<1> QED BY <1>3, <1>5, <1>6, <1>7, <1>8, <1>9, <1>10, <1>11

\* A reversal marks one header and writes rows.
LEMMA ReverseStep ==
  ASSUME EngineInv, NEW r \in Requests, stage[r] = "missed", called[r].op = "reverse",
         Reverse(r, called[r].target), found' = [found EXCEPT ![r] = called[r].target],
         Enter(r, "found"), UNCHANGED <<called, answer>>
  PROVE  EngineInv' /\ Kept
<1> USE DEF EngineInv, ServiceTypeOK, HeadersType, Begun
<1> DEFINE t == called[r].target
           hd == [headers[t] EXCEPT !.status = "REVERSED"]
<1>1. t \in Requests BY CallFields
<1>2. /\ headers[t] # None /\ headers[t].status = "SUCCESS" /\ headers' = [headers EXCEPT ![t] = hd]
      /\ entries' = entries \cup ContraRows(r, t, headers[t])
  BY DEF Reverse
<1>3. hd \in Header /\ hd # None /\ hd.key = headers[t].key /\ hd.status = "REVERSED"
  BY <1>1, <1>2, ReversedHeader
<1>4. hd \in {HeaderOf(called[t]), [HeaderOf(called[t]) EXCEPT !.status = "REVERSED"]}
  <2>1. headers[t] \in {HeaderOf(called[t]), [HeaderOf(called[t]) EXCEPT !.status = "REVERSED"]}
    BY <1>1, <1>2
  <2> QED BY <2>1 DEF HeaderOf
<1> HIDE DEF t, hd
<1>5. /\ HeadersType' /\ headers'[t] = hd
      /\ \A q \in Requests \ {t} : headers'[q] = headers[q]
  BY <1>1, <1>2, <1>3
<1>6. /\ stage' = [stage EXCEPT ![r] = "found"] /\ found' = [found EXCEPT ![r] = t]
      /\ UNCHANGED <<called, answer>>
  BY DEF Enter, t
<1>7. ServiceTypeOK'
  <2>1. ASSUME NEW q \in Requests, stage'[q] = "found" \/ answer'[q] = "ok"
        PROVE  found'[q] # None /\ headers'[found'[q]] # None
    <3>1. CASE q = r BY <1>1, <1>3, <1>5, <1>6, <3>1, BooksAssumption
    <3>2. CASE q # r BY <1>3, <1>5, <1>6, <2>1, <3>2
    <3> QED BY <3>1, <3>2
  <2>2. ASSUME NEW q \in Requests, headers'[q] # None
        PROVE  headers'[q] \in {HeaderOf(called'[q]), [HeaderOf(called'[q]) EXCEPT !.status = "REVERSED"]}
    <3>1. CASE q = t BY <1>4, <1>5, <1>6, <3>1
    <3>2. CASE q # t BY <1>5, <1>6, <2>2, <3>2
    <3> QED BY <3>1, <3>2
  <2> QED BY <1>1, <1>6, <2>1, <2>2
<1>8. Begun' BY <1>6
<1>9. CallsRecorded' BY <1>2, <1>5, <1>6 DEF CallsRecorded, RecordedCall
<1>10. KeysShown'
  <2> SUFFICES ASSUME NEW q \in Requests, stage'[q] = "found" \/ answer'[q] = "ok", called'[q].op # "reverse"
               PROVE  ShowsKey(q)'
    BY DEF KeysShown
  <2>1. q # r BY <1>6
  <2>2. ShowsKey(q) /\ found[q] \in Requests BY <1>6, <2>1 DEF KeysShown
  <2> QED BY <1>3, <1>5, <1>6, <2>1, <2>2 DEF ShowsKey
<1>11. TakenUp' BY <1>2, <1>5, <1>6 DEF TakenUp
<1>12. Written'
  <2> DEFINE rows == ContraRows(r, t, headers[t])
  <2>1. IsFiniteSet(rows) /\ rows \subseteq Row
    <3>1. RecordedCall(t) BY <1>1, <1>2 DEF CallsRecorded
    <3>2. headers[t] \in {HeaderOf(called[t]), [HeaderOf(called[t]) EXCEPT !.status = "REVERSED"]}
      BY <1>1, <1>2
    <3>3. headers[t] \in Header /\ HeaderOf(called[t]).src = called[t].src
      BY <1>1, <1>2, <3>1, HeaderFields DEF RecordedCall
    <3>4. /\ headers[t].amt = called[t].amt /\ headers[t].fx = HeaderOf(called[t]).fx
          /\ headers[t].src = called[t].src /\ headers[t].dst = called[t].dst
      BY <3>2 DEF HeaderOf
    <3>5. /\ headers[t].amt \in Nat
          /\ headers[t].fx > 0 => /\ SettlementAccounts(AccountCurrency[headers[t].src]) # {}
                                  /\ SettlementAccounts(AccountCurrency[headers[t].dst]) # {}
      BY <3>1, <3>4, HeaderFields DEF RecordedCall
    <3> QED BY <1>1, <3>3, <3>5, ContraSum
  <2>2. \A e \in rows : e.by = r
    <3> DEFINE old == headers[t]
    <3> HIDE DEF old
    <3>1. \A e \in ContraRows(r, t, old) : e.by = r BY RowsBy
    <3> QED BY <3>1 DEF old
  <2>3. IsFiniteSet(entries') BY <1>2, <2>1, FS_Union DEF Written
  <2>4. called[r].op = "reverse" /\ called[r] \in Calls OBVIOUS
  <2> HIDE DEF rows
  <2>5. ASSUME NEW e \in entries' PROVE RowBelongs(e)'
    <3>1. CASE e \in entries BY <1>6, <3>1 DEF Written, RowBelongs
    <3>2. CASE e \in rows BY <1>6, <2>2, <2>4, <3>2 DEF RowBelongs
    <3> QED BY <1>2, <2>5, <3>1, <3>2 DEF rows
  <2> QED BY <1>2, <2>1, <2>3, <2>5 DEF Written, rows
<1>13. Kept BY <1>2, <1>3, <1>5, <1>6 DEF Kept, CallsKept
<1> QED BY <1>5, <1>7, <1>8, <1>9, <1>10, <1>11, <1>12, <1>13

LEMMA ServeStep ==
  ASSUME EngineInv, NEW r \in Requests, Serve(r)
  PROVE  EngineInv' /\ Kept
<1> USE DEF EngineInv, ServiceTypeOK, HeadersType, Begun, TakenUp, KeysShown, ShowsKey, CallsRecorded, RecordedCall,
     Written, RowBelongs, Kept, CallsKept, Enter, Finish
<1>1. CASE LookUp(r)
  <2>1. CASE Claimants(called[r].key) = {} BY <1>1, <2>1 DEF LookUp
  <2>2. CASE Claimants(called[r].key) # {}
    <3>1. PICK h \in Claimants(called[r].key) : found' = [found EXCEPT ![r] = h]
      BY <1>1, <2>2 DEF LookUp
    <3>2. h \in Requests /\ headers[h] # None /\ headers[h].key = called[r].key
      BY <3>1 DEF Claimants, Holds
    <3>3. /\ stage[r] = "called" /\ stage' = [stage EXCEPT ![r] = "found"]
          /\ UNCHANGED <<headers, entries, called, answer>>
      BY <1>1, <2>2 DEF LookUp
    <3>4. ServiceTypeOK' BY <3>1, <3>2, <3>3, BooksAssumption
    <3>5. KeysShown' BY <3>1, <3>2, <3>3
    <3>6. HeadersType' /\ Begun' /\ TakenUp' /\ CallsRecorded' /\ Written' /\ Kept BY <3>1, <3>3
    <3> QED BY <3>4, <3>5, <3>6
  <2> QED BY <2>1, <2>2
<1>2. CASE TakeEffect(r) BY <1>2, PayStep, ReverseStep DEF TakeEffect
<1>3. CASE LoseRace(r)
  <2>1. PICK h \in Requests : Holds(h, called[r].key) /\ found' = [found EXCEPT ![r] = h]
    BY <1>3 DEF LoseRace
  <2>2. headers[h] # None /\ headers[h].key = called[r].key BY <2>1 DEF Holds
  <2>3. /\ stage[r] = "missed" /\ stage' = [stage EXCEPT ![r] = "done"]
        /\ answer' = [answer EXCEPT ![r] = "ok"] /\ UNCHANGED <<headers, entries, called>>
    BY <1>3 DEF LoseRace
  <2>4. ServiceTypeOK' BY <2>1, <2>2, <2>3, BooksAssumption
  <2>5. KeysShown' BY <2>1, <2>2, <2>3
  <2>6. HeadersType' /\ Begun' /\ TakenUp' /\ CallsRecorded' /\ Written' /\ Kept BY <2>1, <2>3
  <2> QED BY <2>4, <2>5, <2>6
<1>4. CASE Refuse(r)
  <2>1. PICK code \in {"refused", "insufficient", "railError"} :
          /\ stage[r] = "missed" /\ stage' = [stage EXCEPT ![r] = "done"]
          /\ answer' = [answer EXCEPT ![r] = code] /\ UNCHANGED <<headers, entries, called, found>>
    BY <1>4 DEF Refuse
  <2>2. headers[r] = None /\ answer[r] = "none" BY <2>1
  <2>3. ServiceTypeOK' BY <2>1, <2>2
  <2>4. HeadersType' /\ Begun' /\ TakenUp' /\ CallsRecorded' BY <2>1, <2>2
  <2>5. Written' /\ KeysShown' /\ Kept BY <2>1, <2>2
  <2> QED BY <2>3, <2>4, <2>5
<1>5. CASE Answer(r) BY <1>5 DEF Answer
<1>6. CASE Fail(r) BY <1>6 DEF Fail
<1> QED BY <1>1, <1>2, <1>3, <1>4, <1>5, <1>6 DEF Serve

\* A call changes its own request only.
LEMMA CallMade ==
  ASSUME EngineInv, NEW r \in Requests, NEW c \in Calls, Call(r, c)
  PROVE  /\ EngineInv' /\ called[r] = None /\ called'[r] = c /\ c # None
         /\ \A q \in Requests \ {r} : called'[q] = called[q]
         /\ CallsKept
         /\ \A q \in Requests \ {r} : stage'[q] = stage[q] /\ answer'[q] = answer[q]
         /\ WellFormed(c) /\ c.op \in {"transfer", "cross"} => stage'[r] = "called" /\ answer'[r] = "none"
         /\ answer'[r] \in {"none", "refused"} /\ UNCHANGED headers
<1> USE DEF EngineInv, ServiceTypeOK, HeadersType, Begun, TakenUp, KeysShown, ShowsKey, CallsRecorded, RecordedCall,
     Enter, Finish
<1>1. stage[r] = "idle" /\ called[r] = None /\ answer[r] = "none" BY DEF Call
<1>2. c # None BY CallFields
<1>3. headers[r] = None BY <1>1, CallFields
<1>4. /\ called' = [called EXCEPT ![r] = c] /\ UNCHANGED <<headers, entries, found>>
      /\ \/ stage' = [stage EXCEPT ![r] = "called"] /\ UNCHANGED answer /\ WellFormed(c)
         \/ /\ stage' = [stage EXCEPT ![r] = "missed"] /\ UNCHANGED answer /\ WellFormed(c)
            /\ c.op \notin {"transfer", "cross"}
         \/ /\ stage' = [stage EXCEPT ![r] = "done"] /\ answer' = [answer EXCEPT ![r] = "refused"]
            /\ ~WellFormed(c)
  BY DEF Call
<1>5. ServiceTypeOK' BY <1>1, <1>2, <1>3, <1>4
<1>6. HeadersType' /\ CallsRecorded' BY <1>3, <1>4
<1>7. Begun' /\ TakenUp' BY <1>1, <1>2, <1>3, <1>4
<1>8. KeysShown' BY <1>1, <1>4
<1>9. Written'
  <2>1. ASSUME NEW e \in entries PROVE RowBelongs(e)'
    <3>1. e.by \in Requests /\ e.by # r BY <1>1, CallFields DEF Written, RowBelongs, Row
    <3> QED BY <1>4, <3>1 DEF Written, RowBelongs
  <2> QED BY <1>4, <2>1 DEF Written
<1>10. CallsKept BY <1>1, <1>3, <1>4 DEF CallsKept
<1> QED BY <1>1, <1>2, <1>3, <1>4, <1>5, <1>6, <1>7, <1>8, <1>9, <1>10

\* A step of the caller that does not call.
LEMMA EngineUnchanged ==
  ASSUME EngineInv, UNCHANGED engineVars
  PROVE  EngineInv' /\ CallsKept
BY DEF EngineInv, ServiceTypeOK, HeadersType, Begun, TakenUp, KeysShown, ShowsKey, CallsRecorded, RecordedCall,
       Written, RowBelongs, CallsKept, engineVars
=============================================================================
