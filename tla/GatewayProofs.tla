---------------------------- MODULE GatewayProofs ----------------------------
(***************************************************************************)
(* The gateway in front of the service, for any messages, exchanges and    *)
(* other callers, and beside the hub and the pool.  GateInv is the         *)
(* inductive invariant.                                                    *)
(***************************************************************************)
EXTENDS MCFront, CallerProofs, HubProofs

-----------------------------------------------------------------------------
(* The invariant                                                           *)

\* A report of acceptance is made of the message and of the header shown.
AcceptedFor(x) ==
  /\ called[x] # None /\ answer[x] = "ok"
  /\ report[x].amt = pacs008[x].amt /\ report[x].fx = HeaderOf(called[found[x]]).fx
Reported ==
  \A x \in Exchanges :
    /\ gate[x] # "idle" => pacs008[x] \in Messages
    /\ report[x] # None /\ report[x].sts = "ACSC" => AcceptedFor(x)

GateInv == GateTypeOK /\ EngineInv /\ Reported

-----------------------------------------------------------------------------
(* The invariant says what the report says                                 *)

LEMMA PaymentOfMessage ==
  ASSUME NEW m, CallOf(m) \in Calls, WellFormed(CallOf(m)), NEW h \in Requests
  PROVE  /\ HeaderOf(CallOf(m)).fx \in Nat \ {0}
         /\ NewRow(h, h, "credit", CallOf(m).dst, Exchanged(m.amt, HeaderOf(CallOf(m)).fx, RateUnit))
              \in PaymentRows(h, CallOf(m))
<1> DEFINE c == CallOf(m)
<1>1. c.op = "cross" /\ c.amt = m.amt /\ c.rate = DefaultRate BY DEF CallOf
<1>2. m.amt \in Nat BY <1>1, CallFields DEF WellFormed
<1>3. PICK q \in Nat \ {0} : DefaultRate = q * RateGrain
  BY PaymentsAssumption, BooksAssumption, ExactMultiple
<1>4. HeaderOf(c).fx = q BY <1>1, <1>3, ExactRate DEF HeaderOf
<1>5. Exchanged(m.amt, c.rate, RateUnit * RateGrain) = Exchanged(m.amt, q, RateUnit)
  BY <1>1, <1>2, <1>3, ExactRate
<1>6. NewRow(h, h, "credit", c.dst, Exchanged(c.amt, c.rate, RateUnit * RateGrain)) \in PaymentRows(h, c)
  BY <1>1 DEF PaymentRows, CrossBorderEntries
<1> QED BY <1>1, <1>3, <1>4, <1>5, <1>6

LEMMA InvBooked == GateInv => AcceptedIsBooked
<1> SUFFICES ASSUME GateInv, NEW x \in Exchanges, report[x] # None, report[x].sts = "ACSC"
             PROVE  \E h \in Requests :
                      /\ Holds(h, pacs008[x].id)
                      /\ called[h] = CallOf(pacs008[x]) =>
                           [NewRow(h, h, "credit", called[h].dst, 0) EXCEPT
                              !.amt = IF report[x].fx > 0 THEN Exchanged(report[x].amt, report[x].fx, RateUnit)
                                      ELSE report[x].amt] \in entries
  BY DEF AcceptedIsBooked
<1> DEFINE m == pacs008[x]
           h == found[x]
<1>1. x \in Requests BY GatewayAssumption
<1>2. AcceptedFor(x) BY DEF GateInv, Reported
<1>3. called[x] = CallOf(m) BY <1>2 DEF GateInv, GateTypeOK, AcceptedFor
<1>4. h \in Requests /\ headers[h] # None
  BY <1>1, <1>2 DEF GateInv, EngineInv, ServiceTypeOK, AcceptedFor
<1>5. Holds(h, m.id)
  BY <1>1, <1>2, <1>3 DEF GateInv, EngineInv, KeysShown, ShowsKey, AcceptedFor, CallOf, Holds
<1>6. ASSUME called[h] = CallOf(m)
      PROVE  [NewRow(h, h, "credit", called[h].dst, 0) EXCEPT
                !.amt = IF report[x].fx > 0 THEN Exchanged(report[x].amt, report[x].fx, RateUnit)
                        ELSE report[x].amt] \in entries
  <2>1. RecordedCall(h) BY <1>4 DEF GateInv, EngineInv, CallsRecorded
  <2>2. report[x].amt = m.amt /\ report[x].fx = HeaderOf(CallOf(m)).fx
    BY <1>2, <1>6 DEF AcceptedFor
  <2>3. /\ report[x].fx \in Nat \ {0}
        /\ NewRow(h, h, "credit", called[h].dst, Exchanged(report[x].amt, report[x].fx, RateUnit)) \in entries
    BY <1>4, <1>6, <2>1, <2>2, PaymentOfMessage DEF RecordedCall
  <2>4. [NewRow(h, h, "credit", called[h].dst, 0) EXCEPT !.amt = Exchanged(report[x].amt, report[x].fx, RateUnit)]
          = NewRow(h, h, "credit", called[h].dst, Exchanged(report[x].amt, report[x].fx, RateUnit))
    BY DEF NewRow
  <2> QED BY <2>3, <2>4
<1> QED BY <1>4, <1>5, <1>6

-----------------------------------------------------------------------------
(* The steps of the gateway                                                *)

LEMMA AcceptedKept ==
  ASSUME GateInv, CallsKept, NEW x \in Exchanges, AcceptedFor(x),
         pacs008'[x] = pacs008[x], report'[x] = report[x]
  PROVE  AcceptedFor(x)'
<1>1. x \in Requests /\ answer[x] = "ok" BY GatewayAssumption DEF AcceptedFor
<1>2. found[x] \in Requests /\ headers[found[x]] # None
  BY <1>1 DEF GateInv, EngineInv, ServiceTypeOK
<1>3. called[found[x]] # None BY <1>2, CallFields DEF GateInv, EngineInv, CallsRecorded, RecordedCall
<1> QED BY <1>1, <1>2, <1>3 DEF AcceptedFor, CallsKept

LEMMA ReportType ==
  /\ \A sts \in {"RJCT", "error"}, by \in {"engine", "gateway", "network", "parser", "registry"} :
       Status(sts, by) \in Reports /\ Status(sts, by).sts # "ACSC"
  /\ \A m \in Messages, h \in Requests : headers[h].fx \in Nat => Accepted(m, h) \in Reports
BY DEF Status, Accepted, Reports

\* A step of the engine, seen from the gateway.
LEMMA OutsideStep ==
  ASSUME GateInv, EngineInv', CallsKept, UNCHANGED gateVars,
         \A x \in Exchanges : called'[x] = called[x]
  PROVE  GateInv'
<1>1. GateTypeOK' BY DEF GateInv, GateTypeOK, EngineInv, gateVars
<1>2. Reported' BY AcceptedKept DEF GateInv, Reported, gateVars
<1> QED BY <1>1, <1>2 DEF GateInv

\* An exchange is answered with a report that says what has happened.
LEMMA RespondStep ==
  ASSUME GateInv, NEW x \in Exchanges, NEW rep, Respond(x, rep), UNCHANGED engineVars,
         gate[x] \in {"received", "calling"}, rep \in Reports, rep.sts = "ACSC" => AcceptedFor(x)'
  PROVE  GateInv'
<1>1. EngineInv' /\ CallsKept BY EngineUnchanged DEF GateInv
<1>2. /\ gate' = [gate EXCEPT ![x] = "answered"] /\ report' = [report EXCEPT ![x] = rep]
      /\ UNCHANGED <<pacs008, called>>
  BY DEF Respond, engineVars
<1>3. rep # None BY PaymentsAssumption
<1>4. GateTypeOK'
  <2>1. pacs008' \in [Exchanges -> Messages \cup {None}] BY <1>2 DEF GateInv, GateTypeOK
  <2>2. gate' \in [Exchanges -> {"idle", "received", "calling", "answered", "lost"}]
    BY <1>2 DEF GateInv, GateTypeOK
  <2>3. report' \in [Exchanges -> Reports \cup {None}] BY <1>2 DEF GateInv, GateTypeOK
  <2>4. called[x] # None => called[x] = CallOf(pacs008[x]) BY DEF GateInv, GateTypeOK
  <2>5. ASSUME NEW y \in Exchanges
        PROVE  /\ gate'[y] \in {"idle", "received"} => called'[y] = None
               /\ gate'[y] = "calling" => called'[y] # None
               /\ called'[y] # None => called'[y] = CallOf(pacs008'[y])
               /\ report'[y] # None <=> gate'[y] = "answered"
    <3>1. CASE y = x BY <1>2, <1>3, <2>4, <3>1 DEF GateInv, GateTypeOK, CallOf
    <3>2. CASE y # x BY <1>2, <3>2 DEF GateInv, GateTypeOK, CallOf
    <3> QED BY <3>1, <3>2
  <2> QED BY <1>1, <2>1, <2>2, <2>3, <2>5 DEF GateTypeOK, EngineInv, CallOf
<1>5. Reported'
  <2> SUFFICES ASSUME NEW y \in Exchanges
               PROVE  /\ gate'[y] # "idle" => pacs008'[y] \in Messages
                      /\ report'[y] # None /\ report'[y].sts = "ACSC" => AcceptedFor(y)'
    BY DEF Reported
  <2>1. CASE y = x BY <1>2, <2>1 DEF GateInv, Reported, GateTypeOK
  <2>2. CASE y # x BY <1>1, <1>2, <2>2, AcceptedKept DEF GateInv, Reported, GateTypeOK
  <2> QED BY <2>1, <2>2
<1> QED BY <1>1, <1>4, <1>5 DEF GateInv

LEMMA GateStep_Inv ==
  ASSUME GateInv, GateStep
  PROVE  GateInv'
<1>1. ASSUME NEW x \in Exchanges, Receive(x) PROVE GateInv'
  <2>1. PICK m \in Messages : pacs008' = [pacs008 EXCEPT ![x] = m] BY <1>1 DEF Receive
  <2>2. /\ gate[x] = "idle" /\ gate' = [gate EXCEPT ![x] = "received"]
        /\ UNCHANGED <<report, engineVars>>
    BY <1>1 DEF Receive
  <2>3. EngineInv' /\ CallsKept /\ called' = called BY <2>2, EngineUnchanged DEF engineVars, GateInv
  <2>4. GateTypeOK' BY <2>1, <2>2, <2>3 DEF GateInv, GateTypeOK, EngineInv
  <2>5. Reported'
    <3> SUFFICES ASSUME NEW y \in Exchanges
                 PROVE  /\ gate'[y] # "idle" => pacs008'[y] \in Messages
                        /\ report'[y] # None /\ report'[y].sts = "ACSC" => AcceptedFor(y)'
      BY DEF Reported
    <3>1. CASE y = x BY <2>1, <2>2, <3>1 DEF GateInv, GateTypeOK
    <3>2. CASE y # x BY <2>1, <2>2, <2>3, <3>2, AcceptedKept DEF GateInv, Reported, GateTypeOK
    <3> QED BY <3>1, <3>2
  <2> QED BY <2>3, <2>4, <2>5 DEF GateInv
<1>2. ASSUME NEW x \in Exchanges, Handle(x) PROVE GateInv'
  <2> DEFINE m == pacs008[x]
  <2>1. gate[x] = "received" /\ m \in Messages BY <1>2 DEF Handle, GateInv, Reported
  <2>2. CASE m.parses /\ Valid(m) /\ Resolved(m)
    <3>1. CallOf(m) \in Calls BY <2>1, <2>2, PaymentsAssumption DEF Valid
    <3>2. /\ Call(x, CallOf(m)) /\ gate' = [gate EXCEPT ![x] = "calling"]
          /\ UNCHANGED <<pacs008, report>>
      BY <1>2, <2>2 DEF Handle
    <3>3. x \in Requests BY GatewayAssumption
    <3>4. /\ EngineInv' /\ called[x] = None /\ called'[x] = CallOf(m) /\ CallOf(m) # None
          /\ \A q \in Requests \ {x} : called'[q] = called[q]
          /\ CallsKept
      BY <3>1, <3>2, <3>3, CallMade DEF GateInv, CallsKept
    <3>5. GateTypeOK' BY <2>1, <3>2, <3>4, GatewayAssumption DEF GateInv, GateTypeOK, EngineInv
    <3>6. Reported' BY <2>1, <3>2, <3>4, AcceptedKept DEF GateInv, Reported, GateTypeOK
    <3> QED BY <3>4, <3>5, <3>6 DEF GateInv
  <2>3. CASE ~(m.parses /\ Valid(m) /\ Resolved(m))
    <3>1. PICK rep \in {Status("error", "parser"), Status("RJCT", "gateway"), Status("error", "registry")} :
            Respond(x, rep)
      BY <1>2, <2>3 DEF Handle
    <3>2. UNCHANGED engineVars BY <1>2, <2>3 DEF Handle
    <3>3. rep \in Reports /\ rep.sts # "ACSC" BY <3>1, ReportType
    <3> QED BY <2>1, <3>1, <3>2, <3>3, RespondStep
  <2> QED BY <2>2, <2>3
<1>3. ASSUME NEW x \in Exchanges, Return(x) PROVE GateInv'
  <2>1. gate[x] = "calling" /\ UNCHANGED engineVars /\ x \in Requests /\ pacs008[x] \in Messages
    BY <1>3, GatewayAssumption DEF Return, GateInv, Reported
  <2>2. CASE answer[x] = "ok"
    <3> DEFINE h == found[x]
               rep == Accepted(pacs008[x], h)
    <3>1. h \in Requests /\ headers[h] # None BY <2>1, <2>2 DEF GateInv, EngineInv, ServiceTypeOK
    <3>2. headers[h].fx = HeaderOf(called[h]).fx
      <4>1. headers[h] \in {HeaderOf(called[h]), [HeaderOf(called[h]) EXCEPT !.status = "REVERSED"]}
        BY <3>1 DEF GateInv, EngineInv, ServiceTypeOK
      <4> QED BY <4>1 DEF HeaderOf
    <3>3. headers[h].fx \in Nat BY <3>1 DEF GateInv, EngineInv, HeadersType, Header
    <3>4. rep \in Reports /\ rep.amt = pacs008[x].amt /\ rep.fx = headers[h].fx
      BY <2>1, <3>1, <3>3, ReportType DEF Accepted
    <3>5. Respond(x, rep) BY <1>3, <2>2 DEF Return
    <3>6. report'[x] = rep /\ pacs008' = pacs008 BY <3>5 DEF Respond, GateInv, GateTypeOK
    <3>7. UNCHANGED <<called, answer, found>> /\ called[x] # None
      BY <2>1 DEF engineVars, GateInv, GateTypeOK
    <3>8. AcceptedFor(x)' BY <2>2, <3>2, <3>4, <3>6, <3>7 DEF AcceptedFor
    <3> HIDE DEF rep
    <3> QED BY <2>1, <3>4, <3>5, <3>8, RespondStep
  <2>3. CASE answer[x] # "ok"
    <3>1. PICK by \in {"network", "engine"} : Respond(x, Status("RJCT", by))
      BY <1>3, <2>3 DEF Return
    <3>2. Status("RJCT", by) \in Reports /\ Status("RJCT", by).sts # "ACSC" BY ReportType
    <3> QED BY <2>1, <3>1, <3>2, RespondStep
  <2> QED BY <2>2, <2>3
<1>4. ASSUME NEW x \in Exchanges, GiveUp(x) PROVE GateInv'
  BY <1>4, ReportType, RespondStep DEF GiveUp
<1>5. CASE Restart
  <2>1. EngineInv' /\ CallsKept /\ UNCHANGED <<pacs008, report, called>>
    BY <1>5, EngineUnchanged DEF Restart, engineVars, GateInv
  <2>2. gate' = [x \in Exchanges |-> IF gate[x] \in {"received", "calling"} THEN "lost" ELSE gate[x]]
    BY <1>5 DEF Restart
  <2>3. GateTypeOK' BY <2>1, <2>2 DEF GateInv, GateTypeOK, EngineInv
  <2>4. Reported' BY <2>1, <2>2, AcceptedKept DEF GateInv, Reported, GateTypeOK
  <2> QED BY <2>1, <2>3, <2>4 DEF GateInv
<1> QED BY <1>1, <1>2, <1>3, <1>4, <1>5 DEF GateStep

LEMMA GateInit_Inv == GateInit => GateInv
<1> SUFFICES ASSUME GateInit PROVE GateInv OBVIOUS
<1>1. EngineInv BY ServiceInit_Inv DEF GateInit
<1>2. GateTypeOK BY <1>1, GatewayAssumption DEF GateTypeOK, EngineInv, GateInit, ServiceInit
<1>3. Reported BY DEF Reported, GateInit
<1> QED BY <1>1, <1>2, <1>3 DEF GateInv

LEMMA GateNext_Inv ==
  ASSUME GateInv, [GateStep \/ Elsewhere]_<<engineVars, gateVars>>
  PROVE  GateInv'
<1>1. CASE GateStep BY <1>1, GateStep_Inv
<1>2. CASE Elsewhere
  <2>1. ASSUME NEW r \in Requests, Serve(r), UNCHANGED gateVars PROVE GateInv'
    BY <2>1, ServeStep, OutsideStep, GatewayAssumption DEF GateInv, Kept, CallsKept
  <2>2. ASSUME NEW r \in Requests \ Exchanges, NEW c \in Calls, Call(r, c), UNCHANGED gateVars
        PROVE  GateInv'
    BY <2>2, CallMade, OutsideStep, GatewayAssumption DEF GateInv, CallsKept
  <2> QED BY <1>2, <2>1, <2>2 DEF Elsewhere
<1>3. CASE UNCHANGED <<engineVars, gateVars>>
  BY <1>3, EngineUnchanged, OutsideStep DEF engineVars, GateInv, gateVars
<1> QED BY <1>1, <1>2, <1>3

\* The inductive invariant of the gateway.
THEOREM GateInvariance == GatewaySpec => []GateInv
<1>1. GateInv /\ [GateStep \/ Elsewhere]_<<engineVars, gateVars>> => GateInv' BY GateNext_Inv
<1> QED BY <1>1, GateInit_Inv, PTL DEF GatewaySpec

\* An exchange makes the call of its message or none, and is answered once.
THEOREM GateTyped == GatewaySpec => []GateTypeOK
<1>1. GateInv => GateTypeOK BY DEF GateInv
<1> QED BY <1>1, GateInvariance, PTL

\* What a report of acceptance says has been booked: a payment with the
\* message's id, and the amount that the creditor has been credited.
THEOREM AcceptedBooked == GatewaySpec => []AcceptedIsBooked
BY InvBooked, GateInvariance, PTL

-----------------------------------------------------------------------------
(* The gateway does not race with itself                                   *)

\* The engine has not turned the call down, nor will it.
NotRefused(y) ==
  stage[y] \in {"called", "found", "done"} /\ answer[y] \in {"none", "ok", "failed"}

IsAccepted(x) == report[x] # None /\ report[x].sts = "ACSC"

\* One call is on the way at most, and not for a message that is accepted
\* already, unless it will be answered with the payment made before.
NoRace ==
  /\ \A x, y \in Exchanges : gate[x] = "calling" /\ gate[y] = "calling" => x = y
  /\ \A x, y \in Exchanges :
       gate[y] = "calling" /\ IsAccepted(x) /\ pacs008[x] = pacs008[y] => NotRefused(y)

\* The payment of an accepted message is one that a look-up of its id finds.
LEMMA AcceptedClaims ==
  ASSUME GateInv, NEW x \in Exchanges, IsAccepted(x)
  PROVE  /\ Claimants(pacs008[x].id) # {} /\ WellFormed(CallOf(pacs008[x]))
         /\ CallOf(pacs008[x]).op = "cross" /\ CallOf(pacs008[x]).key = pacs008[x].id
         /\ gate[x] = "answered"
<1> DEFINE m == pacs008[x]
           h == found[x]
<1>1. x \in Requests /\ gate[x] = "answered" /\ m \in Messages
  BY GatewayAssumption DEF GateInv, GateTypeOK, Reported, IsAccepted
<1>2. AcceptedFor(x) /\ called[x] = CallOf(m) BY DEF GateInv, GateTypeOK, Reported, IsAccepted, AcceptedFor
<1>3. CallOf(m).op = "cross" /\ CallOf(m).key = m.id BY DEF CallOf
<1>4. h \in Requests /\ headers[h] # None /\ headers[h].key = m.id /\ WellFormed(called[x])
  BY <1>1, <1>2, <1>3 DEF GateInv, EngineInv, ServiceTypeOK, TakenUp, KeysShown, ShowsKey, AcceptedFor
<1>5. RecordedCall(h) /\ headers[h].key = called[h].key
  <2>1. headers[h] \in {HeaderOf(called[h]), [HeaderOf(called[h]) EXCEPT !.status = "REVERSED"]}
    BY <1>4 DEF GateInv, EngineInv, ServiceTypeOK
  <2> QED BY <1>4, <2>1 DEF GateInv, EngineInv, CallsRecorded, HeaderOf
<1>6. called[h].op # "fund" BY <1>1, <1>4, <1>5, GatewayAssumption DEF RecordedCall
<1> QED BY <1>1, <1>2, <1>3, <1>4, <1>6 DEF Claimants, Holds

\* The engine does not turn down a call whose key it will find.
LEMMA ServedNotRefused ==
  ASSUME GateInv, NEW r \in Requests, Serve(r), NEW y \in Requests, NotRefused(y),
         Claimants(called[y].key) # {}
  PROVE  NotRefused(y)'
<1> USE DEF GateInv, EngineInv, ServiceTypeOK, Begun, NotRefused, Enter, Finish
<1>1. CASE LookUp(r) BY <1>1 DEF LookUp
<1>2. CASE TakeEffect(r) BY <1>2 DEF TakeEffect
<1>3. CASE LoseRace(r) BY <1>3 DEF LoseRace
<1>4. CASE Refuse(r) BY <1>4 DEF Refuse
<1>5. CASE Answer(r) BY <1>5 DEF Answer
<1>6. CASE Fail(r) BY <1>6 DEF Fail
<1> QED BY <1>1, <1>2, <1>3, <1>4, <1>5, <1>6 DEF Serve

LEMMA NoRaceStep ==
  ASSUME GateInv, NoRace, [GateStep \/ Elsewhere]_<<engineVars, gateVars>>
  PROVE  NoRace'
<1>0. /\ gate \in [Exchanges -> {"idle", "received", "calling", "answered", "lost"}]
      /\ \A x \in Exchanges : report[x] # None <=> gate[x] = "answered"
  BY DEF GateInv, GateTypeOK
<1>1. ASSUME NEW x \in Exchanges, Receive(x) PROVE NoRace'
  <2>1. /\ gate[x] = "idle" /\ gate' = [gate EXCEPT ![x] = "received"]
        /\ UNCHANGED <<report, stage, answer>>
        /\ \A y \in Exchanges \ {x} : pacs008'[y] = pacs008[y]
    BY <1>1 DEF Receive, engineVars, GateInv, GateTypeOK
  <2> QED BY <1>0, <2>1 DEF NoRace, NotRefused, IsAccepted
<1>2. ASSUME NEW x \in Exchanges, Handle(x) PROVE NoRace'
  <2> DEFINE m == pacs008[x]
  <2>1. /\ gate[x] = "received" /\ m \in Messages
        /\ \A y \in Exchanges : gate[y] # "calling"
    BY <1>2 DEF Handle, LoopFree, GateInv, Reported
  <2>2. CASE m.parses /\ Valid(m) /\ Resolved(m)
    <3>1. CallOf(m) \in Calls /\ x \in Requests
      BY <2>1, <2>2, PaymentsAssumption, GatewayAssumption DEF Valid
    <3>2. /\ Call(x, CallOf(m)) /\ gate' = [gate EXCEPT ![x] = "calling"]
          /\ UNCHANGED <<pacs008, report>>
      BY <1>2, <2>2 DEF Handle
    <3>3. WellFormed(CallOf(m)) /\ CallOf(m).op \in {"transfer", "cross"}
            => stage'[x] = "called" /\ answer'[x] = "none"
      BY <3>1, <3>2, CallMade DEF GateInv
    <3>4. ASSUME NEW y \in Exchanges, IsAccepted(y), pacs008[y] = m PROVE NotRefused(x)'
      BY <3>3, <3>4, AcceptedClaims DEF NotRefused
    <3> QED BY <1>0, <2>1, <3>2, <3>4 DEF NoRace, IsAccepted
  <2>3. CASE ~(m.parses /\ Valid(m) /\ Resolved(m))
    <3>1. gate' = [gate EXCEPT ![x] = "answered"] BY <1>2, <2>3 DEF Handle, Respond
    <3> QED BY <1>0, <2>1, <3>1 DEF NoRace
  <2> QED BY <2>2, <2>3
<1>3. ASSUME NEW x \in Exchanges, Return(x) \/ GiveUp(x) PROVE NoRace'
  <2>1. gate[x] = "calling" /\ gate' = [gate EXCEPT ![x] = "answered"]
    BY <1>3 DEF Return, GiveUp, Respond
  <2> QED BY <1>0, <2>1 DEF NoRace
<1>4. CASE Restart BY <1>0, <1>4 DEF Restart, NoRace
<1>5. ASSUME UNCHANGED gateVars, \A y \in Exchanges : stage'[y] = stage[y] /\ answer'[y] = answer[y]
      PROVE  NoRace'
  BY <1>5 DEF NoRace, NotRefused, IsAccepted, gateVars
<1>6. CASE Elsewhere
  <2>1. ASSUME NEW r \in Requests, Serve(r), UNCHANGED gateVars PROVE NoRace'
    <3>1. ASSUME NEW x \in Exchanges, NEW y \in Exchanges, gate[y] = "calling", IsAccepted(x),
                 pacs008[x] = pacs008[y]
          PROVE  NotRefused(y)'
      <4>1. NotRefused(y) /\ y \in Requests BY <3>1, GatewayAssumption DEF NoRace
      <4>2. called[y] = CallOf(pacs008[x]) BY <3>1 DEF GateInv, GateTypeOK
      <4>3. Claimants(called[y].key) # {} BY <3>1, <4>2, AcceptedClaims
      <4> QED BY <2>1, <4>1, <4>3, ServedNotRefused
    <3> QED BY <2>1, <3>1 DEF NoRace, IsAccepted, gateVars
  <2>2. ASSUME NEW r \in Requests \ Exchanges, NEW c \in Calls, Call(r, c), UNCHANGED gateVars
        PROVE  NoRace'
    BY <1>5, <2>2, CallMade, GatewayAssumption DEF GateInv
  <2> QED BY <1>6, <2>1, <2>2 DEF Elsewhere
<1>7. CASE UNCHANGED <<engineVars, gateVars>> BY <1>5, <1>7 DEF engineVars
<1> QED BY <1>1, <1>2, <1>3, <1>4, <1>6, <1>7 DEF GateStep

\* What the gateway reports in a step agrees with what it has reported.
StaysAccepted ==
  \A x, y \in Exchanges :
    /\ report[x] # None /\ report[x].sts = "ACSC"
    /\ report[y] = None /\ report'[y] # None /\ report'[y].by = "engine"
    /\ pacs008[x] = pacs008[y]
    => report'[y].sts = "ACSC"

LEMMA StaysAcceptedStep ==
  ASSUME GateInv, NoRace, [GateStep \/ Elsewhere]_<<engineVars, gateVars>>
  PROVE  StaysAccepted
<1> SUFFICES ASSUME NEW x \in Exchanges, NEW y \in Exchanges, IsAccepted(x),
                    report[y] = None, report'[y] # None, report'[y].by = "engine",
                    pacs008[x] = pacs008[y]
             PROVE  report'[y].sts = "ACSC"
  BY DEF StaysAccepted, IsAccepted
<1>0. report \in [Exchanges -> Reports \cup {None}] BY DEF GateInv, GateTypeOK
<1>1. CASE Handle(y)
  <2>1. PICK rep \in {Status("error", "parser"), Status("RJCT", "gateway"), Status("error", "registry")} :
          report' = [report EXCEPT ![y] = rep]
    BY <1>1 DEF Handle, Respond
  <2> QED BY <1>0, <2>1 DEF Status
<1>2. CASE Return(y)
  <2>1. NotRefused(y) /\ gate[y] = "calling" /\ stage[y] = "done" BY <1>2 DEF NoRace, Return
  <2>2. CASE answer[y] = "ok" BY <1>0, <1>2, <2>2 DEF Return, Respond, Accepted
  <2>3. CASE answer[y] = "failed" BY <1>0, <1>2, <2>3 DEF Return, Respond, Status
  <2>4. answer[y] # "none"
    BY <2>1, GatewayAssumption DEF GateInv, EngineInv, Begun
  <2> QED BY <2>1, <2>2, <2>3, <2>4 DEF NotRefused
<1>3. CASE GiveUp(y) BY <1>0, <1>3 DEF GiveUp, Respond, Status
<1>4. ASSUME NEW z \in Exchanges \ {y}, Handle(z) \/ Return(z) \/ GiveUp(z) PROVE FALSE
  BY <1>0, <1>4 DEF Handle, Return, GiveUp, Respond
<1>5. ASSUME UNCHANGED report PROVE FALSE BY <1>5
<1>6. ASSUME NEW z \in Exchanges, Receive(z) PROVE FALSE BY <1>5, <1>6 DEF Receive
<1>7. ~Restart /\ ~Elsewhere BY <1>5 DEF Restart, Elsewhere, gateVars
<1>8. ~UNCHANGED <<engineVars, gateVars>> BY <1>5 DEF gateVars
<1> QED BY <1>1, <1>2, <1>3, <1>4, <1>6, <1>7, <1>8 DEF GateStep

\* A message that has been accepted is not turned down by the engine when it is
\* sent again, for any messages, exchanges and other callers: the handler blocks
\* the event loop during its call, so the gateway does not race with itself.
THEOREM NeverTurnedDown == GatewaySpec => AcceptedStaysAccepted
<1>1. GateInit => NoRace BY DEF GateInit, NoRace
<1>2. GateInv /\ NoRace /\ [GateStep \/ Elsewhere]_<<engineVars, gateVars>> => NoRace' BY NoRaceStep
<1>3. GateInv /\ NoRace /\ [GateStep \/ Elsewhere]_<<engineVars, gateVars>>
        => [StaysAccepted]_<<engineVars, gateVars>>
  BY StaysAcceptedStep
<1>4. AcceptedStaysAccepted <=> [][StaysAccepted]_<<engineVars, gateVars>>
  BY DEF AcceptedStaysAccepted, StaysAccepted
<1> QED BY <1>1, <1>2, <1>3, <1>4, GateInvariance, PTL DEF GatewaySpec

\* The gateway is one of the service's callers: whatever messages arrive, no call
\* is made that the engine's interface does not have, and none twice.
THEOREM GatewayUsesService == GatewaySpec => ServiceSpec
<1>1. GateInit => ServiceInit BY DEF GateInit
<1>2. ASSUME GateInv, NEW x \in Exchanges, Handle(x) PROVE [ServiceNext]_serviceVars
  <2> DEFINE m == pacs008[x]
  <2>1. CASE m.parses /\ Valid(m) /\ Resolved(m)
    <3>1. m \in Messages /\ x \in Requests
      BY <1>2, GatewayAssumption DEF Handle, GateInv, Reported
    <3>2. CallOf(m) \in Calls BY <2>1, <3>1, PaymentsAssumption DEF Valid
    <3>3. Call(x, CallOf(m)) BY <1>2, <2>1 DEF Handle
    <3> QED BY <3>1, <3>2, <3>3 DEF ServiceNext
  <2>2. CASE ~(m.parses /\ Valid(m) /\ Resolved(m))
    BY <1>2, <2>2 DEF Handle, engineVars, serviceVars
  <2> QED BY <2>1, <2>2
<1>3. GateInv /\ [GateStep \/ Elsewhere]_<<engineVars, gateVars>> => [ServiceNext]_serviceVars
  <2> SUFFICES ASSUME GateInv, [GateStep \/ Elsewhere]_<<engineVars, gateVars>>
               PROVE  [ServiceNext]_serviceVars
    OBVIOUS
  <2>1. (\E x \in Exchanges : Handle(x)) \/ Elsewhere \/ UNCHANGED engineVars
    BY DEF GateStep, Receive, Return, GiveUp, Restart
  <2>2. CASE Elsewhere BY <2>2 DEF Elsewhere, ServiceNext
  <2> QED BY <1>2, <2>1, <2>2 DEF engineVars, serviceVars
<1> QED BY <1>1, <1>3, GateInvariance, PTL DEF GatewaySpec, ServiceSpec

-----------------------------------------------------------------------------
(* The parts in front of the engine                                        *)

\* A behaviour is one of each part, which stutters while another one goes on.
LEMMA PartsOfFront == FrontSpec => GatewaySpec /\ HubSpec /\ PoolSpec /\ UsersSpec
<1>1. FrontInit => GateInit /\ HubInit /\ PoolInit /\ UsersInit BY DEF FrontInit
<1>2. [FrontNext]_frontVars => /\ [GateStep \/ Elsewhere]_<<engineVars, gateVars>>
                              /\ [HubNext]_hubVars /\ [PoolNext]_poolVars /\ [UsersNext]_usersVars
  BY DEF FrontNext, frontVars, allGateVars
<1> QED BY <1>1, <1>2, PTL DEF FrontSpec, GatewaySpec, HubSpec, PoolSpec, UsersSpec

\* Every part keeps its types, the hub's buffers and the pool their bounds, a
\* payment that holds a lock asks the pool for nothing, and no registration outlives
\* its engine.
THEOREM FrontTyped == FrontSpec => []FrontTypeOK
BY PartsOfFront, GateTyped, HubSafe, PoolBounded, UsersTyped, PTL DEF FrontTypeOK
==============================================================================
