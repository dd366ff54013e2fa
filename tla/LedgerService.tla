---------------------------- MODULE LedgerService ----------------------------
(***************************************************************************)
(* The ledger engine as its callers see it: AtomicLedger with the calls    *)
(* and the answers.  A payment looks its key up before it tries to take    *)
(* the money, and the two are not one step: a key may be used in between.  *)
(* A call may fail at any time, and a call that fails after it has taken   *)
(* effect is one whose answer was lost.                                    *)
(***************************************************************************)
EXTENDS AtomicLedger

VARIABLES
  called,   \* request |-> its call, or None
  stage,    \* request |-> "idle", "called", "missed", "found" or "done"
  found,    \* request |-> the header its answer will show, or None
  answer    \* request |-> what its caller is told

serviceVars == <<headers, entries, called, stage, found, answer>>

Holds(h, k) == headers[h] # None /\ headers[h].key = k

\* The headers that a look-up of the key finds: fundings do not claim theirs.
Claimants(k) == {h \in Requests : Holds(h, k) /\ called[h].op # "fund"}

Enter(r, s) == stage' = [stage EXCEPT ![r] = s]

Finish(r, code) == Enter(r, "done") /\ answer' = [answer EXCEPT ![r] = code]

-----------------------------------------------------------------------------
Call(r, c) ==
  /\ stage[r] = "idle"
  /\ called' = [called EXCEPT ![r] = c]
  /\ IF WellFormed(c)
     THEN Enter(r, IF c.op \in {"transfer", "cross"} THEN "called" ELSE "missed") /\ UNCHANGED answer
     ELSE Finish(r, "refused")
  /\ UNCHANGED <<headers, entries, found>>

LookUp(r) ==
  /\ stage[r] = "called"
  /\ IF Claimants(called[r].key) = {}
     THEN Enter(r, "missed") /\ found' = [found EXCEPT ![r] = None]
     ELSE /\ \E h \in Claimants(called[r].key) : found' = [found EXCEPT ![r] = h]
          /\ Enter(r, "found")
  /\ UNCHANGED <<headers, entries, called, answer>>

TakeEffect(r) ==
  /\ stage[r] = "missed"
  /\ \/ Pay(r, called[r]) /\ found' = [found EXCEPT ![r] = r]
     \/ /\ called[r].op = "reverse" /\ Reverse(r, called[r].target)
        /\ found' = [found EXCEPT ![r] = called[r].target]
  /\ Enter(r, "found")
  /\ UNCHANGED <<called, answer>>

\* The key has been used since it was looked up: the winner's header is shown.
LoseRace(r) ==
  /\ stage[r] = "missed" /\ called[r].op # "reverse"
  /\ \E h \in Requests : Holds(h, called[r].key) /\ found' = [found EXCEPT ![r] = h]
  /\ Finish(r, "ok")
  /\ UNCHANGED <<headers, entries, called>>

\* Why the engine turns a call down.
Refusal(r, code) ==
  LET c == called[r]
      o == headers[c.target]
  IN  CASE code = "refused"      -> IF c.op = "reverse" THEN ~(o # None /\ o.status = "SUCCESS")
                                    ELSE ~Authorised(c)
        [] code = "insufficient" -> c.op # "reverse" /\ ~Covered(entries, c)
        [] code = "railError"    -> c.op \in {"transfer", "cross"} /\ Authorised(c) /\ Covered(entries, c)

Refuse(r) ==
  /\ stage[r] = "missed"
  /\ \E code \in {"refused", "insufficient", "railError"} : Refusal(r, code) /\ Finish(r, code)
  /\ UNCHANGED <<headers, entries, called, found>>

Answer(r) ==
  /\ stage[r] = "found"
  /\ Finish(r, "ok")
  /\ UNCHANGED <<headers, entries, called, found>>

Fail(r) ==
  /\ stage[r] \notin {"idle", "done"}
  /\ Finish(r, "failed")
  /\ UNCHANGED <<headers, entries, called, found>>

-----------------------------------------------------------------------------
ServiceInit ==
  /\ Init
  /\ called = [r \in Requests |-> None] /\ found = [r \in Requests |-> None]
  /\ stage = [r \in Requests |-> "idle"]
  /\ answer = [r \in Requests |-> "none"]

\* What the engine does with a call.
Serve(r) ==
  LookUp(r) \/ TakeEffect(r) \/ LoseRace(r) \/ Refuse(r) \/ Answer(r) \/ Fail(r)

ServiceNext == \E r \in Requests : (\E c \in Calls : Call(r, c)) \/ Serve(r)

ServiceSpec == ServiceInit /\ [][ServiceNext]_serviceVars

-----------------------------------------------------------------------------
\* Types; a header that is shown is one that has been recorded, and a header
\* belongs to the payment whose key it carries.
ServiceTypeOK ==
  /\ called \in [Requests -> Calls \cup {None}]
  /\ stage \in [Requests -> {"idle", "called", "missed", "found", "done"}]
  /\ found \in [Requests -> Requests \cup {None}]
  /\ answer \in [Requests -> {"none", "ok", "refused", "insufficient", "railError", "failed"}]
  /\ \A r \in Requests :
       /\ stage[r] = "found" \/ answer[r] = "ok" => found[r] # None /\ headers[found[r]] # None
       /\ headers[r] # None => headers[r] \in {HeaderOf(called[r]),
                                               [HeaderOf(called[r]) EXCEPT !.status = "REVERSED"]}
=============================================================================
