------------------------------- MODULE MCFront -------------------------------
(* What stands around the engine, each on its own: the gateway, the hub of *)
(* live events, the pool of connections and the registration of users.  A  *)
(* behaviour has one of them.                                              *)
EXTENDS MCGateway, EventHub, ConnPool, Users

VARIABLE front

allGateVars == <<engineVars, gateVars>>
frontVars == <<front, allGateVars, hubVars, poolVars, usersVars>>

FrontInit ==
  front \in {"gateway", "hub", "pool", "users"} /\ GateInit /\ HubInit /\ PoolInit /\ UsersInit

FrontNext ==
  \/ front = "gateway" /\ (GateStep \/ Elsewhere) /\ UNCHANGED <<front, hubVars, poolVars, usersVars>>
  \/ front = "hub" /\ HubNext /\ UNCHANGED <<front, allGateVars, poolVars, usersVars>>
  \/ front = "pool" /\ PoolNext /\ UNCHANGED <<front, allGateVars, hubVars, usersVars>>
  \/ front = "users" /\ UsersNext /\ UNCHANGED <<front, allGateVars, hubVars, poolVars>>

\* In an initial state none of the fair actions is enabled.
FrontSpec ==
  /\ FrontInit /\ [][FrontNext]_frontVars
  /\ GateFairness /\ HubFairness /\ PoolFairness /\ UsersFairness

\* Every part keeps its types, buffers and the pool their bounds, a payment that
\* asks the pool for a connection holds no lock, and no registration outlives its
\* engine.
FrontTypeOK == GateTypeOK /\ HubTypeOK /\ PoolTypeOK /\ UsersTypeOK

\* Who calls gets an answer: a message is answered whatever the engine does, a
\* request that has changed the ledger is not held up by streams, a call that uses
\* the pool returns unless listings have jammed it, and a start or a registration
\* gives its row back.  The parts that do not move are at rest, so this implies
\* EveryMessageAnswered, PublishNeverWaits, OnlyListingsJam and RowsGetFree.
FrontReturns == []<>(AllAnswered /\ NonePublishing /\ PoolAtRest /\ RowsFree)
=============================================================================
