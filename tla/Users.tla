-------------------------------- MODULE Users --------------------------------
(***************************************************************************)
(* Users and their accounts: engines that start and make the settlement    *)
(* accounts, and the registration of traders.  One action is one statement *)
(* of a transaction; a statement that meets a user row on which another    *)
(* transaction works waits for it.  A transaction is named by its job, the *)
(* start of an engine or a call of CreateUser, and so is the id of a user  *)
(* that it inserts.                                                        *)
(***************************************************************************)
CONSTANTS
  Engines,        \* processes that serve one database
  Registrations,  \* calls of CreateUser
  Phones,         \* that they are made with
  Reserved,       \* settlementUserPhone
  Nobody

Jobs == Engines \cup Registrations

\* The currencies of the corridor, for which main.go asks.
Corridor == {"RWF", "KES"}

ASSUME UsersAssumption ==
  Engines \cap Registrations = {} /\ Nobody \notin Jobs \cup Phones \cup {Reserved}

VARIABLES
  users,     \* id |-> the phone of the user, or Nobody: the committed rows
  accounts,  \* the committed rows
  step,      \* job |-> the statement it executes next, or what has become of it
  owner,     \* job |-> the id of the user on whose row it works, or Nobody
  rows,      \* job |-> the accounts it has inserted
  asked,     \* registration |-> [phone, cur], or Nobody
  host       \* registration |-> the engine that serves it, or Nobody

tables == <<users, accounts>>
work == <<owner, rows>>
usersVars == <<tables, step, work, asked, host>>

-----------------------------------------------------------------------------
PhoneOf(j) == IF j \in Engines THEN Reserved ELSE asked[j].phone

\* Who has a phone, and who works on its row.
Registered(ph) == {u \in Jobs : users[u] = ph}
Working(ph) == {j \in Jobs : owner[j] # Nobody /\ PhoneOf(j) = ph}

InTransaction(j) == step[j] \in {"user", "RWF", "KES", "PERSONAL", "BUSINESS", "commit"}

AccountRow == [by : Jobs, user : Jobs, type : {"SETTLEMENT", "PERSONAL", "BUSINESS"}, cur : Corridor]

NewAccount(j, type, cur) == [by |-> j, user |-> owner[j], type |-> type, cur |-> cur]

\* The accounts among which lockSettlementAccount takes the oldest.
SettlementRows(cur) == {a \in accounts : a.type = "SETTLEMENT" /\ a.cur = cur}

\* The transactions of some jobs end, and with them the jobs, as "ends" says; what
\* has not been committed is gone.
EndJobs(ends) ==
  LET S == DOMAIN ends
  IN  /\ step' = [j \in Jobs |-> IF j \in S THEN ends[j] ELSE step[j]]
      /\ owner' = [j \in Jobs |-> IF j \in S THEN Nobody ELSE owner[j]]
      /\ rows' = [j \in Jobs |-> IF j \in S THEN {} ELSE rows[j]]

-----------------------------------------------------------------------------
(* The start of an engine                                                  *)

Start(e) ==
  /\ step[e] = "down" /\ step' = [step EXCEPT ![e] = "user"]
  /\ UNCHANGED <<tables, work, asked, host>>

\* Mutant: the insertion has no ON CONFLICT and the index is not unique.
AlwaysNewUser(e) ==
  /\ step[e] = "user" /\ Working(Reserved) = {}
  /\ owner' = [owner EXCEPT ![e] = e]
  /\ step' = [step EXCEPT ![e] = "RWF"]
  /\ UNCHANGED <<tables, rows, asked, host>>

\* INSERT ... ON CONFLICT DO UPDATE: the user that is there is taken.
EnsureUser(e) ==
  /\ step[e] = "user" /\ Working(Reserved) = {}
  /\ \E u \in IF Registered(Reserved) = {} THEN {e} ELSE Registered(Reserved) :
       owner' = [owner EXCEPT ![e] = u]
  /\ step' = [step EXCEPT ![e] = "RWF"]
  /\ UNCHANGED <<tables, rows, asked, host>>

\* Mutant: without ON CONFLICT DO NOTHING, and the index is not unique.
AlwaysNewAccount(e) ==
  /\ step[e] \in Corridor
  /\ rows' = [rows EXCEPT ![e] = @ \cup {NewAccount(e, "SETTLEMENT", step[e])}]
  /\ step' = [step EXCEPT ![e] = IF @ = "RWF" THEN "KES" ELSE "commit"]
  /\ UNCHANGED <<tables, owner, asked, host>>

\* INSERT ... ON CONFLICT DO NOTHING.  Whoever inserts accounts of a user works on
\* the row of this user, so no transaction waits here.
EnsureAccount(e) ==
  /\ step[e] \in Corridor
  /\ rows' = IF \E a \in SettlementRows(step[e]) : a.user = owner[e] THEN rows
             ELSE [rows EXCEPT ![e] = @ \cup {NewAccount(e, "SETTLEMENT", step[e])}]
  /\ step' = [step EXCEPT ![e] = IF @ = "RWF" THEN "KES" ELSE "commit"]
  /\ UNCHANGED <<tables, owner, asked, host>>

\* The transaction ends; the engine serves.
CommitStart(e) ==
  /\ step[e] = "commit"
  /\ users' = [users EXCEPT ![owner[e]] = Reserved] /\ accounts' = accounts \cup rows[e]
  /\ EndJobs([j \in {e} |-> "up"])
  /\ UNCHANGED <<asked, host>>

Served(e) == {g \in Registrations : host[g] = e /\ InTransaction(g)}

\* Mutant: the transactions of its requests go on.
StopAlone(e) ==
  /\ step[e] # "down" /\ EndJobs([j \in {e} |-> "down"])
  /\ UNCHANGED <<tables, asked, host>>

\* The process ends, for a failed statement or timeout of its start, a signal or a
\* crash, and with it what it serves.
Stop(e) ==
  /\ step[e] # "down"
  /\ EndJobs([j \in {e} \cup Served(e) |-> IF j = e THEN "down" ELSE "failed"])
  /\ UNCHANGED <<tables, asked, host>>

-----------------------------------------------------------------------------
(* Registration                                                            *)

\* Mutant: requests are served before the settlement accounts are there.
ReceiveAnywhere(g, e, ph, cur) ==
  /\ step[g] = "idle" /\ step[e] # "down"
  /\ step' = [step EXCEPT ![g] = "user"]
  /\ asked' = [asked EXCEPT ![g] = [phone |-> ph, cur |-> cur]]
  /\ host' = [host EXCEPT ![g] = e]
  /\ UNCHANGED <<tables, work>>

\* A call that passes the checks of CreateUser.
ReceiveUser(g, e, ph, cur) ==
  /\ step[g] = "idle" /\ step[e] = "up"
  /\ step' = [step EXCEPT ![g] = "user"]
  /\ asked' = [asked EXCEPT ![g] = [phone |-> ph, cur |-> cur]]
  /\ host' = [host EXCEPT ![g] = e]
  /\ UNCHANGED <<tables, work>>

\* A phone that is registered is turned down by the unique index.
InsertUser(g) ==
  /\ step[g] = "user" /\ Working(PhoneOf(g)) = {}
  /\ IF Registered(PhoneOf(g)) = {}
     THEN step' = [step EXCEPT ![g] = "PERSONAL"] /\ owner' = [owner EXCEPT ![g] = g]
     ELSE step' = [step EXCEPT ![g] = "taken"] /\ UNCHANGED owner
  /\ UNCHANGED <<tables, rows, asked, host>>

InsertAccount(g) ==
  /\ step[g] \in {"PERSONAL", "BUSINESS"}
  /\ rows' = [rows EXCEPT ![g] = @ \cup {NewAccount(g, step[g], asked[g].cur)}]
  /\ step' = [step EXCEPT ![g] = IF @ = "PERSONAL" THEN "BUSINESS" ELSE "commit"]
  /\ UNCHANGED <<tables, owner, asked, host>>

\* The answer may be lost.
CommitUser(g) ==
  /\ step[g] = "commit"
  /\ users' = [users EXCEPT ![g] = PhoneOf(g)] /\ accounts' = accounts \cup rows[g]
  /\ \E told \in {"created", "failed"} : EndJobs([j \in {g} |-> told])
  /\ UNCHANGED <<asked, host>>

\* Mutant: the transaction is left open.
FailOpen(g) ==
  /\ InTransaction(g) /\ step' = [step EXCEPT ![g] = "failed"]
  /\ UNCHANGED <<tables, work, asked, host>>

\* A statement fails, or the client has gone.
FailUser(g) ==
  /\ InTransaction(g) /\ EndJobs([j \in {g} |-> "failed"])
  /\ UNCHANGED <<tables, asked, host>>

-----------------------------------------------------------------------------
\* An empty database.
UsersInit ==
  /\ users = [j \in Jobs |-> Nobody] /\ accounts = {}
  /\ step = [j \in Jobs |-> IF j \in Engines THEN "down" ELSE "idle"]
  /\ owner = [j \in Jobs |-> Nobody] /\ rows = [j \in Jobs |-> {}]
  /\ asked = [g \in Registrations |-> Nobody] /\ host = [g \in Registrations |-> Nobody]

StartStep(e) == EnsureUser(e) \/ EnsureAccount(e) \/ CommitStart(e)
RegistrationStep(g) == InsertUser(g) \/ InsertAccount(g) \/ CommitUser(g)

UsersNext ==
  \/ \E e \in Engines : Start(e) \/ StartStep(e) \/ Stop(e)
  \/ \E g \in Registrations :
       \/ \E e \in Engines, ph \in Phones, cur \in Corridor : ReceiveUser(g, e, ph, cur)
       \/ RegistrationStep(g) \/ FailUser(g)

UsersSpec == UsersInit /\ [][UsersNext]_usersVars

\* A statement that can run runs.
UsersFairness ==
  /\ \A e \in Engines : WF_usersVars(StartStep(e))
  /\ \A g \in Registrations : WF_usersVars(RegistrationStep(g))

-----------------------------------------------------------------------------
(* Properties                                                              *)

\* Types; what is worked on is of a transaction, and this of a process that runs.
UsersTypeOK ==
  /\ users \in [Jobs -> Phones \cup {Reserved, Nobody}]
  /\ accounts \subseteq AccountRow
  /\ step \in [Jobs -> {"down", "up", "idle", "user", "RWF", "KES", "PERSONAL", "BUSINESS", "commit",
                        "created", "taken", "failed"}]
  /\ owner \in [Jobs -> Jobs \cup {Nobody}] /\ rows \in [Jobs -> SUBSET AccountRow]
  /\ asked \in [Registrations -> [phone : Phones, cur : Corridor] \cup {Nobody}]
  /\ host \in [Registrations -> Engines \cup {Nobody}]
  /\ \A j \in Jobs : ~InTransaction(j) => owner[j] = Nobody /\ rows[j] = {}
  /\ \A g \in Registrations : InTransaction(g) => host[g] # Nobody /\ step[host[g]] = "up"

\* However many engines start at once, fail and start again: when one of them
\* serves, each currency of the corridor has exactly one settlement account
\* (EnsureSettlementAccounts; lockSettlementAccount relies on it).
SettlementReady ==
  (\E e \in Engines : step[e] = "up") =>
    \A cur \in Corridor : \E a \in accounts : SettlementRows(cur) = {a}

\* A phone is of one user; a trader has exactly a PERSONAL and a BUSINESS account,
\* of one currency; and the reserved phone is the engine's, with no account of a
\* trader (CreateUser, "a failure leaves no orphan rows").
TradersOwnBoth ==
  \A u \in Jobs :
    users[u] # Nobody =>
      LET own == {a \in accounts : a.user = u}
      IN  /\ Registered(users[u]) = {u}
          /\ users[u] = Reserved <=> u \in Engines
          /\ u \in Registrations =>
               \E cur \in Corridor :
                 own = {[by |-> u, user |-> u, type |-> t, cur |-> cur] : t \in {"PERSONAL", "BUSINESS"}}

\* Both: what a payment and a sign-in find in the tables.
RegistrySound == SettlementReady /\ TradersOwnBoth

\* The settlement account of a currency never changes once there is one, whoever
\* starts: payments and their reversals find the same.
SettlementKept ==
  [][\A cur \in Corridor : SettlementRows(cur) # {} => SettlementRows(cur)' = SettlementRows(cur)]_usersVars

\* Nobody keeps a row for ever: however starts and registrations fail and stop,
\* there comes a time again when no transaction works on a user, and whoever waits
\* for one can go on (the deferred Rollback of both transactions).
RowsFree == \A j \in Jobs : owner[j] = Nobody
RowsGetFree == []<>RowsFree
=============================================================================
