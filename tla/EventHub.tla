------------------------------- MODULE EventHub -------------------------------
(***************************************************************************)
(* Live events.  A REST handler that has changed the ledger publishes an   *)
(* event to the hub, which offers it to the channel of every subscriber;   *)
(* one goroutine per GET /api/events copies its channel to its client.     *)
(* The gRPC server changes the same ledger and has no hub.  When the       *)
(* process is told to stop, it waits for its open streams, for a while:    *)
(* cmd/main.go never calls Hub.Close, so no channel is ever closed.        *)
(***************************************************************************)
EXTENDS Integers, Sequences

CONSTANTS
  Posts,      \* requests that change the ledger; each names its event
  Streams,    \* connections to GET /api/events
  Capacity,   \* of a subscriber's channel
  WireSize    \* frames that a connection buffers for a client that does not read

ASSUME HubAssumption == Capacity \in Nat \ {0} /\ WireSize \in Nat \ {0}

VARIABLES
  committed,  \* the requests whose change is in the database
  handler,    \* request |-> "idle", "publish" or "done"
  published,  \* the requests whose event went to the hub
  sse,        \* stream |-> "idle", "greeted", "streaming", "leaving" or "ended"
  subs,       \* Hub.subs: the streams whose channels it sends to
  chan,       \* stream |-> the frames in its channel
  wire,       \* stream |-> the frames written to its client, not yet read
  server      \* "up", "draining", "stopped" or "aborted"

requestVars == <<committed, handler, published>>
streamVars  == <<sse, subs, chan, wire>>
hubVars     == <<requestVars, streamVars, server>>

Running == server \in {"up", "draining"}

-----------------------------------------------------------------------------
(* Handlers that change the ledger                                         *)

\* Mutant: the event goes out before the change is committed.
CommitLast(q) ==
  /\ Running /\ handler[q] = "done"
  /\ committed' = committed \cup {q}
  /\ UNCHANGED <<handler, published, streamVars, server>>

\* A transfer, reversal or funding commits; its handler has not published yet.
Commit(q) ==
  /\ Running /\ handler[q] = "idle"
  /\ committed' = committed \cup {q}
  /\ handler' = [handler EXCEPT ![q] = "publish"]
  /\ UNCHANGED <<published, streamVars, server>>

\* The change came by gRPC, or reading it back failed: no event is published.
CommitUnannounced(q) ==
  /\ Running /\ handler[q] = "idle"
  /\ committed' = committed \cup {q}
  /\ handler' = [handler EXCEPT ![q] = "done"]
  /\ UNCHANGED <<published, streamVars, server>>

\* A funding that replays an earlier one changes nothing but is published too.
ReplayFunding(q) ==
  /\ Running /\ handler[q] = "idle"
  /\ handler' = [handler EXCEPT ![q] = "publish"]
  /\ UNCHANGED <<committed, published, streamVars, server>>

HasRoom(s) == Len(chan[s]) < Capacity

\* Mutant: a send waits for room.
ReadyWithRoom(q) == Running /\ handler[q] = "publish" /\ \A s \in subs : HasRoom(s)

Ready(q) == Running /\ handler[q] = "publish"

\* Every subscriber is offered the frame; one whose channel is full misses it.
Offer(q) ==
  [s \in Streams |-> IF s \in subs /\ HasRoom(s) THEN Append(chan[s], q) ELSE chan[s]]

\* Mutant: a frame goes to the connection, or to the channel if it is full.
PublishDirectly(q) ==
  LET open(s) == s \in subs /\ Len(wire[s]) < WireSize
  IN  /\ Ready(q)
      /\ published' = published \cup {q} /\ handler' = [handler EXCEPT ![q] = "done"]
      /\ wire' = [s \in Streams |-> IF open(s) THEN Append(wire[s], q) ELSE wire[s]]
      /\ chan' = [s \in Streams |-> IF open(s) THEN chan[s] ELSE Offer(q)[s]]
      /\ UNCHANGED <<committed, sse, subs, server>>

Publish(q) ==
  /\ Ready(q)
  /\ published' = published \cup {q}
  /\ chan' = Offer(q)
  /\ handler' = [handler EXCEPT ![q] = "done"]
  /\ UNCHANGED <<committed, sse, subs, wire, server>>

-----------------------------------------------------------------------------
(* The handler of a stream                                                 *)

\* It greets its client (": connected") before it subscribes.
Greet(s) ==
  /\ server = "up" /\ sse[s] = "idle"
  /\ sse' = [sse EXCEPT ![s] = "greeted"]
  /\ UNCHANGED <<requestVars, subs, chan, wire, server>>

Subscribe(s) ==
  /\ sse[s] = "greeted"
  /\ sse' = [sse EXCEPT ![s] = "streaming"] /\ subs' = subs \cup {s}
  /\ UNCHANGED <<requestVars, chan, wire, server>>

\* A frame goes from the channel to the connection, unless its buffers are full.
Deliver(s) ==
  /\ sse[s] = "streaming" /\ chan[s] # <<>> /\ Len(wire[s]) < WireSize
  /\ chan' = [chan EXCEPT ![s] = Tail(@)]
  /\ wire' = [wire EXCEPT ![s] = Append(@, Head(chan[s]))]
  /\ UNCHANGED <<requestVars, sse, subs, server>>

\* Mutant: the handler returns without the deferred delete.
LeaveAtOnce(s) ==
  /\ sse[s] \in {"greeted", "streaming"}
  /\ sse' = [sse EXCEPT ![s] = "ended"]
  /\ UNCHANGED <<requestVars, subs, chan, wire, server>>

\* The client is gone, or a write failed: http.Server's WriteTimeout cuts
\* every stream.  The frames in the channel are lost.
Leave(s) ==
  /\ sse[s] \in {"greeted", "streaming"}
  /\ sse' = [sse EXCEPT ![s] = IF @ = "greeted" THEN "ended" ELSE "leaving"]
  /\ UNCHANGED <<requestVars, subs, chan, wire, server>>

\* The deferred delete of the channel.
Unsubscribe(s) ==
  /\ sse[s] = "leaving"
  /\ sse' = [sse EXCEPT ![s] = "ended"] /\ subs' = subs \ {s}
  /\ UNCHANGED <<requestVars, chan, wire, server>>

-----------------------------------------------------------------------------
(* Shutdown                                                                *)

Active(s) == sse[s] \notin {"idle", "ended"}

Signal ==
  /\ server = "up" /\ server' = "draining"
  /\ UNCHANGED <<requestVars, streamVars>>

\* srv.Shutdown returns when no handler is left.
Drained ==
  /\ server = "draining"
  /\ \A q \in Posts : handler[q] # "publish"
  /\ \A s \in Streams : ~Active(s)
  /\ server' = "stopped"
  /\ UNCHANGED <<requestVars, streamVars>>

\* A stream without work: it waits for an event or for its client to read.
Waiting(s) == sse[s] = "streaming" /\ (chan[s] = <<>> \/ Len(wire[s]) = WireSize)

\* Ten seconds are long for the handlers: they pass only when every stream
\* that is left waits.  Shutdown fails, the process ends and the streams with it.
Deadline ==
  /\ server = "draining"
  /\ \A q \in Posts : handler[q] # "publish"
  /\ \E s \in Streams : Active(s)
  /\ \A s \in Streams : Active(s) => Waiting(s)
  /\ server' = "aborted"
  /\ sse' = [s \in Streams |-> "ended"] /\ subs' = {}
  /\ UNCHANGED <<requestVars, chan, wire>>

-----------------------------------------------------------------------------
HubInit ==
  /\ committed = {} /\ published = {}
  /\ handler = [q \in Posts |-> "idle"]
  /\ sse = [s \in Streams |-> "idle"]
  /\ subs = {}
  /\ chan = [s \in Streams |-> <<>>] /\ wire = [s \in Streams |-> <<>>]
  /\ server = "up"

HandlerStep(q) == Commit(q) \/ CommitUnannounced(q) \/ ReplayFunding(q) \/ Publish(q)

\* What a stream's handler does of its own accord.
StreamStep(s) == Subscribe(s) \/ Deliver(s) \/ Unsubscribe(s)

ServerStep == Signal \/ Drained \/ Deadline

\* The hub by itself, with clients that connect, read and vanish as they like.
ClientReads(s) ==
  /\ wire[s] # <<>> /\ wire' = [wire EXCEPT ![s] = Tail(@)]
  /\ UNCHANGED <<requestVars, sse, subs, chan, server>>

HubNext ==
  \/ \E q \in Posts : HandlerStep(q)
  \/ \E s \in Streams : Greet(s) \/ StreamStep(s) \/ Leave(s) \/ ClientReads(s)
  \/ ServerStep

HubSpec == HubInit /\ [][HubNext]_hubVars

\* A handler that can continue does.  Nothing is assumed of streams, whose
\* goroutines may be stuck in a write to a client that does not read.
HubFairness == \A q \in Posts : WF_hubVars(Publish(q))

HubFairSpec == HubSpec /\ HubFairness

-----------------------------------------------------------------------------
(* Properties                                                              *)

HubTypeOK ==
  /\ committed \subseteq Posts /\ published \subseteq Posts
  /\ handler \in [Posts -> {"idle", "publish", "done"}]
  /\ sse \in [Streams -> {"idle", "greeted", "streaming", "leaving", "ended"}]
  /\ subs \subseteq Streams
  /\ chan \in [Streams -> Seq(Posts)] /\ \A s \in Streams : Len(chan[s]) <= Capacity
  /\ wire \in [Streams -> Seq(Posts)] /\ \A s \in Streams : Len(wire[s]) <= WireSize
  /\ server \in {"up", "draining", "stopped", "aborted"}

\* The hub keeps exactly the channels of the streams whose handlers read them or
\* will remove them: none is left behind by a client that vanished, by a failed
\* write or by an aborted shutdown, to be sent to for ever (ServeHTTP of sse.go).
ChannelsLive == subs = {s \in Streams : sse[s] \in {"streaming", "leaving"}}

\* The frames on their way to a client, in the order in which it will read them.
Pipe(s) == wire[s] \o chan[s]
Before(u, p, q) == \E i, j \in DOMAIN u : i < j /\ u[i] = p /\ u[j] = q

\* No two clients are sent two events in opposite orders, and none is sent one
\* event twice, although handlers publish concurrently, slow clients miss frames
\* and streams come and go (the lock around the loop of Hub.Publish).
ClientsAgreeOnOrder ==
  \A s, t \in Streams, p, q \in Posts :
    Before(Pipe(s), p, q) => ~Before(Pipe(t), q, p)

\* Slow or stuck clients never stall a request that has changed the ledger
\* (sse.go: "It never blocks").
NonePublishing == Running => \A q \in Posts : handler[q] # "publish"
PublishNeverWaits == []<>NonePublishing

\* A shutdown that runs out of time has a client to blame that does not read:
\* sse.go says of Close that it "terminates all subscriptions (used by tests /
\* shutdown)", but run of main.go never calls it.
OnlyStalledDelayShutdown ==
  [][server' = "aborted" /\ server # "aborted" =>
       \E s \in Streams : Active(s) /\ Len(wire[s]) = WireSize]_hubVars
=============================================================================
