------------------------------ MODULE LiveView -------------------------------
(***************************************************************************)
(* A page of the dashboard and its event stream.  The page fetches the     *)
(* trader's data when it is shown and again after each event; a fetch is   *)
(* several reads of the engine (useBalances reads each account's balance), *)
(* and the answer of a fetch that a later one has replaced is dropped.     *)
(* What a read returns is the set of requests whose change it shows.       *)
(* The streams are the successive connections of one page.                 *)
(***************************************************************************)
EXTENDS EventHub

CONSTANTS
  Reads,      \* the reads of one fetch, such as the balances of the accounts
  NoStream    \* the page is not connected

ASSUME LiveAssumption == NoStream \notin Streams

VARIABLES
  stream,     \* the connection of the page's EventSource, or NoStream
  connected,  \* isConnected of useLiveStatus
  heard,      \* lastEvent of useLiveStatus is not null
  due,        \* setTick was called and the effect has not run yet
  tick,       \* the number of fetches started; the last one is not cancelled
  fetches,    \* the fetches on the way: [n, done, view]
  shown,      \* read |-> the requests the page shows the effect of
  failed,     \* the last fetch failed: error is not null
  covered     \* history: events published while the stream was subscribed

pageVars == <<stream, connected, heard, due, tick, fetches, shown, failed>>
liveVars == <<hubVars, pageVars, covered>>

-----------------------------------------------------------------------------
(* The connection                                                          *)

\* The EventSource connects when the page is shown and after every break.
Connect(s) ==
  /\ stream = NoStream /\ Greet(s)
  /\ stream' = s
  /\ UNCHANGED <<connected, heard, due, tick, fetches, shown, failed>>

\* onopen and onerror notify the listeners of the last event, if there is one.
Open ==
  /\ stream # NoStream /\ ~connected
  /\ connected' = TRUE
  /\ due' = (due \/ heard)
  /\ UNCHANGED <<hubVars, stream, heard, tick, fetches, shown, failed>>

\* Mutant: an event is only displayed.
ReceiveQuietly ==
  /\ connected /\ wire[stream] # <<>>
  /\ wire' = [wire EXCEPT ![stream] = Tail(@)]
  /\ heard' = TRUE
  /\ UNCHANGED <<requestVars, sse, subs, chan, server>>
  /\ UNCHANGED <<stream, connected, due, tick, fetches, shown, failed>>

Break ==
  /\ stream # NoStream
  /\ stream' = NoStream /\ connected' = FALSE
  /\ due' = (due \/ heard)
  /\ UNCHANGED <<hubVars, heard, tick, fetches, shown, failed>>

Receive ==
  /\ connected /\ wire[stream] # <<>>
  /\ wire' = [wire EXCEPT ![stream] = Tail(@)]
  /\ heard' = TRUE /\ due' = TRUE
  /\ UNCHANGED <<requestVars, sse, subs, chan, server>>
  /\ UNCHANGED <<stream, connected, tick, fetches, shown, failed>>

-----------------------------------------------------------------------------
(* The fetches                                                             *)

NewFetch(n) == [n |-> n, done |-> {}, view |-> [a \in Reads |-> {}]]

\* The effect of a new tick cancels the fetch before it and starts another.
\* Several refreshes before it runs start one fetch.
Effect ==
  /\ due /\ due' = FALSE
  /\ tick' = tick + 1
  /\ fetches' = fetches \cup {NewFetch(tick + 1)}
  /\ failed' = FALSE
  /\ UNCHANGED <<hubVars, stream, connected, heard, shown>>

Read(f, a) ==
  /\ Running /\ a \notin f.done
  /\ fetches' = (fetches \ {f})
       \cup {[f EXCEPT !.done = @ \cup {a}, !.view = [@ EXCEPT ![a] = committed]]}
  /\ UNCHANGED <<hubVars, stream, connected, heard, due, tick, shown, failed>>

\* Mutant: the answer of a cancelled fetch is used.
SettleAnyway(f) ==
  /\ f.done = Reads
  /\ fetches' = fetches \ {f}
  /\ shown' = f.view
  /\ UNCHANGED <<hubVars, stream, connected, heard, due, tick, failed>>

Settle(f) ==
  /\ f.done = Reads
  /\ fetches' = fetches \ {f}
  /\ shown' = IF f.n = tick THEN f.view ELSE shown
  /\ UNCHANGED <<hubVars, stream, connected, heard, due, tick, failed>>

\* A read that fails rejects the whole fetch; what is shown stays.
Reject(f) ==
  /\ fetches' = fetches \ {f}
  /\ failed' = (failed \/ f.n = tick)
  /\ UNCHANGED <<hubVars, stream, connected, heard, due, tick, shown>>

-----------------------------------------------------------------------------
\* The page has just been shown, or its first fetch has ended.
LiveInit ==
  /\ HubInit
  /\ stream = NoStream /\ connected = FALSE /\ heard = FALSE
  /\ due = FALSE /\ tick = 0 /\ fetches \in SUBSET {NewFetch(0)}
  /\ shown = [a \in Reads |-> {}]
  /\ failed = FALSE
  /\ covered = {}

Subscribed(s) == s \in subs /\ sse[s] = "streaming"

Track ==
  covered' = IF stream' = stream /\ stream' # NoStream /\ Subscribed(stream)'
             THEN covered \cup (published' \ published)
             ELSE {}

EngineStep ==
  /\ \/ \E q \in Posts : HandlerStep(q)
     \/ \E s \in Streams : StreamStep(s) \/ Leave(s)
     \/ ServerStep
  /\ UNCHANGED pageVars

FetchStep ==
  \/ Effect
  \/ \E f \in fetches : (\E a \in Reads : Read(f, a)) \/ Settle(f) \/ Reject(f)

PageStep ==
  \/ \E s \in Streams : Connect(s)
  \/ Open \/ Break \/ Receive
  \/ FetchStep

LiveNext == (EngineStep \/ PageStep) /\ Track

LiveSpec == LiveInit /\ [][LiveNext]_liveVars

\* Frames and answers arrive, unless their connection breaks: the stream's
\* goroutine and the browser's event loop run, and the engine answers.
LiveFairness ==
  /\ \A s \in Streams : WF_liveVars(Deliver(s) /\ UNCHANGED pageVars /\ Track)
  /\ WF_liveVars((Open \/ Receive) /\ Track)
  /\ WF_liveVars(Effect /\ Track)
  /\ WF_liveVars((\E f \in fetches : f.n = tick /\ \E a \in Reads : Read(f, a)) /\ Track)
  /\ WF_liveVars((\E f \in fetches : f.n = tick /\ Settle(f)) /\ Track)

LiveFairSpec == LiveSpec /\ LiveFairness

-----------------------------------------------------------------------------
(* Properties                                                              *)

LiveTypeOK ==
  /\ HubTypeOK
  /\ stream \in Streams \cup {NoStream} /\ connected \in BOOLEAN
  /\ connected => stream # NoStream
  /\ heard \in BOOLEAN /\ due \in BOOLEAN /\ failed \in BOOLEAN
  /\ tick \in Nat
  /\ fetches \subseteq [n : 0..tick, done : SUBSET Reads, view : [Reads -> SUBSET Posts]]
  /\ shown \in [Reads -> SUBSET Posts]
  /\ covered \subseteq Posts

\* Something is still to come that will refresh the page, or the page says
\* that its data could not be fetched.
Stale == failed \/ due \/ \E f \in fetches : f.n = tick
Coming == chan[stream] # <<>> \/ wire[stream] # <<>>

\* An event that was published to the page's stream is never forgotten, even
\* one that the hub dropped because the channel was full: when nothing is
\* under way any more the page shows its change.  It takes the order commit,
\* publish, deliver, fetch, and that the last fetch wins.
AnnouncedIsShown ==
  \A q \in covered \cap committed, a \in Reads :
    q \in shown[a] \/ Coming \/ Stale

\* A change that the page has shown never disappears again, although answers
\* of overlapping fetches arrive in any order.
ShownNeverGoesBack ==
  [][\A a \in Reads : shown[a] \subseteq shown'[a]]_liveVars

\* While the connection holds, the page does come to show what was announced, or
\* says that it could not fetch it.
AnnouncedGetsShown ==
  []<>(failed \/ \A q \in covered \cap committed, a \in Reads : q \in shown[a])
=============================================================================
