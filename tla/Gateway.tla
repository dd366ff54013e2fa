------------------------------- MODULE Gateway -------------------------------
(***************************************************************************)
(* The ISO 20022 gateway.  An exchange is a POST of a pacs.008 message and *)
(* its answer, a pacs.002 report.  The message's id is the key of the call *)
(* the exchange makes; an exchange makes one call at most, which has the   *)
(* exchange's name.  The handler is a coroutine that blocks the event loop *)
(* during its call, so calls of the gateway never overlap; but a call that *)
(* is given up at its deadline goes on in the engine.                      *)
(***************************************************************************)
EXTENDS EngineClient

CONSTANTS
  Exchanges,
  Messages,     \* [id, debtor, creditor, cur, amt, parses]
  Registry,     \* registry._accounts: <<party, currency>> |-> account
  DefaultRate   \* the engine's, as messages carry none

\* A funding has a key of its own, which is not the id of a message.
ASSUME GatewayAssumption ==
  /\ Exchanges \subseteq Requests
  /\ None \notin Messages
  /\ \A c \in Calls, m \in Messages : c.op = "fund" => c.key # m.id

VARIABLES
  pacs008,   \* exchange |-> its message, or None
  gate,      \* exchange |-> "idle", "received", "calling", "answered" or "lost"
  report     \* exchange |-> its answer, or None

gateVars == <<pacs008, gate, report>>

\* Mutant: the message is not checked.
AnyMessage(m) == TRUE

Valid(m) == m.amt > 0 /\ m.cur \in {"RWF", "KES"}

Resolved(m) == {<<m.debtor, m.cur>>, <<m.creditor, "KES">>} \subseteq DOMAIN Registry

CallOf(m) ==
  [op |-> "cross", key |-> m.id, src |-> Registry[<<m.debtor, m.cur>>],
   dst |-> Registry[<<m.creditor, "KES">>], from |-> m.cur, to |-> "KES",
   amt |-> m.amt, rate |-> DefaultRate]

\* Payments of the gateway are calls of the engine, whose own rate is one that a
\* header can keep, and a report is not None.
Reports ==
  [sts : {"ACSC", "RJCT", "error"}, by : {"engine", "gateway", "network", "parser", "registry"},
   amt : {0} \cup {m.amt : m \in Messages}, fx : Nat]

ASSUME PaymentsAssumption ==
  /\ \A m \in Messages : m.parses /\ m.amt > 0 /\ Resolved(m) => CallOf(m) \in Calls
  /\ DefaultRate \in Nat \ {0} /\ DefaultRate % RateGrain = 0
  /\ None \notin Reports

Status(sts, by) == [sts |-> sts, by |-> by, amt |-> 0, fx |-> 0]

\* Mutant: the amount is reported in the debtor's currency.
AcceptedUnexchanged(m, h) == [sts |-> "ACSC", by |-> "engine", amt |-> m.amt, fx |-> 0]

\* The amount reported is amt / fx, or amt when the transfer has no rate.
Accepted(m, h) == [sts |-> "ACSC", by |-> "engine", amt |-> m.amt, fx |-> headers[h].fx]

Respond(x, rep) ==
  /\ gate' = [gate EXCEPT ![x] = "answered"]
  /\ report' = [report EXCEPT ![x] = rep]
  /\ UNCHANGED pacs008

-----------------------------------------------------------------------------
Receive(x) ==
  /\ gate[x] = "idle"
  /\ gate' = [gate EXCEPT ![x] = "received"]
  /\ \E m \in Messages : pacs008' = [pacs008 EXCEPT ![x] = m]
  /\ UNCHANGED <<report, engineVars>>

\* Mutant: calls are awaited, and messages handled meanwhile.
LoopShared == TRUE

LoopFree == \A x \in Exchanges : gate[x] # "calling"

\* The message is read, checked and resolved, and the engine called.  An
\* unknown party is not turned into a report: the request ends with an error.
Handle(x) ==
  LET m == pacs008[x]
  IN  /\ gate[x] = "received" /\ LoopFree
      /\ IF m.parses /\ Valid(m) /\ Resolved(m)
         THEN /\ Call(x, CallOf(m))
              /\ gate' = [gate EXCEPT ![x] = "calling"]
              /\ UNCHANGED <<pacs008, report>>
         ELSE /\ Respond(x, IF ~m.parses THEN Status("error", "parser")
                            ELSE IF ~Valid(m) THEN Status("RJCT", "gateway")
                            ELSE Status("error", "registry"))
              /\ UNCHANGED engineVars

\* Every error of the engine becomes a rejection.
Return(x) ==
  /\ gate[x] = "calling" /\ stage[x] = "done"
  /\ Respond(x, IF answer[x] = "ok" THEN Accepted(pacs008[x], found[x])
                ELSE Status("RJCT", IF answer[x] = "failed" THEN "network" ELSE "engine"))
  /\ UNCHANGED engineVars

\* Mutant: the call has no timeout.
NoDeadline(x) == FALSE /\ UNCHANGED <<gateVars, engineVars>>

\* The call's timeout; the engine may still carry it out.
GiveUp(x) ==
  /\ gate[x] = "calling" /\ stage[x] # "done"
  /\ Respond(x, Status("RJCT", "network"))
  /\ UNCHANGED engineVars

\* The gateway is restarted; its exchanges get no answer.
Restart ==
  /\ \E x \in Exchanges : gate[x] \in {"received", "calling"}
  /\ gate' = [x \in Exchanges |-> IF gate[x] \in {"received", "calling"} THEN "lost" ELSE gate[x]]
  /\ UNCHANGED <<pacs008, report, engineVars>>

-----------------------------------------------------------------------------
GateInit ==
  /\ ServiceInit
  /\ pacs008 = [x \in Exchanges |-> None]
  /\ gate = [x \in Exchanges |-> "idle"]
  /\ report = [x \in Exchanges |-> None]

GateStep ==
  \/ \E x \in Exchanges : Receive(x) \/ Handle(x) \/ Return(x) \/ GiveUp(x)
  \/ Restart

\* The engine works, and others call it.
Elsewhere ==
  /\ \/ \E r \in Requests : Serve(r)
     \/ \E r \in Requests \ Exchanges, c \in Calls : Call(r, c)
  /\ UNCHANGED gateVars

GatewaySpec ==
  /\ GateInit
  /\ [][GateStep \/ Elsewhere]_<<engineVars, gateVars>>

\* The event loop runs: it handles what it has received, and gives up a call
\* in time.  Nothing is assumed of the engine.
GateFairness ==
  \A x \in Exchanges : /\ WF_<<engineVars, gateVars>>(Handle(x))
                       /\ WF_<<engineVars, gateVars>>(Return(x) \/ GiveUp(x))

GatewayFairSpec == GatewaySpec /\ GateFairness

-----------------------------------------------------------------------------
(* Properties                                                              *)

\* Types; an exchange has made a call, and then that of its message, or none,
\* and no call is made that the engine's interface does not have.
GateTypeOK ==
  /\ ServiceTypeOK
  /\ pacs008 \in [Exchanges -> Messages \cup {None}]
  /\ gate \in [Exchanges -> {"idle", "received", "calling", "answered", "lost"}]
  /\ report \in [Exchanges -> Reports \cup {None}]
  /\ \A x \in Exchanges :
       /\ gate[x] \in {"idle", "received"} => called[x] = None
       /\ gate[x] = "calling" => called[x] # None
       /\ called[x] # None => called[x] = CallOf(pacs008[x])
       /\ report[x] # None <=> gate[x] = "answered"

\* What a report of acceptance says has happened: a payment carries the
\* message's id and, if it is the message's payment and not that of another
\* message with the same id, the amount reported rounds to the one credited.
AcceptedIsBooked ==
  \A x \in Exchanges :
    report[x] # None /\ report[x].sts = "ACSC" =>
      \E h \in Requests :
        /\ Holds(h, pacs008[x].id)
        /\ called[h] = CallOf(pacs008[x]) =>
             [NewRow(h, h, "credit", called[h].dst, 0) EXCEPT
                !.amt = IF report[x].fx > 0 THEN Exchanged(report[x].amt, report[x].fx, RateUnit)
                        ELSE report[x].amt] \in entries

\* A message that has been accepted is never turned down by the engine when it
\* is sent again, although the engine may tell the loser of a race for a key
\* that the funds are insufficient: the gateway does not race with itself.
AcceptedStaysAccepted ==
  [][\A x, y \in Exchanges :
       /\ report[x] # None /\ report[x].sts = "ACSC"
       /\ report[y] = None /\ report'[y] # None /\ report'[y].by = "engine"
       /\ pacs008[x] = pacs008[y]
       => report'[y].sts = "ACSC"]_<<engineVars, gateVars>>

\* Every message is answered although the engine may never answer, unless the
\* gateway is restarted (the timeout of _call in grpc_client.py).
AllAnswered == \A x \in Exchanges : gate[x] \notin {"received", "calling"}
EveryMessageAnswered == []<>AllAnswered

\* "Raised when the Go engine rejects an operation" (EngineError), "rejected by
\* the engine: return a pacs.002 RJCT" (main.py): a message that has been
\* rejected has not been paid.  The deadline passes while the engine pays.
RejectedIsUnpaid ==
  \A x \in Exchanges : report[x] # None /\ report[x].sts = "RJCT" => headers[x] = None
=============================================================================
