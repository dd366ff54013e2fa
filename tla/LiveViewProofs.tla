---------------------------- MODULE LiveViewProofs ----------------------------
(***************************************************************************)
(* The page and its stream behind the hub, for any number of requests,     *)
(* connections and reads and any buffer sizes.  LiveInv is the inductive   *)
(* invariant.                                                              *)
(***************************************************************************)
EXTENDS LiveView, HubProofs

-----------------------------------------------------------------------------
(* The page: the invariant                                                 *)

USE LiveAssumption

Current(f) == f.n = tick

\* A request is published by its handler's last step, after its commit.
PublishedDone == \A q \in published : handler[q] = "done"

\* Events count while the page's stream is registered with the hub.
CoveredLive ==
  /\ covered \subseteq published
  /\ covered # {} => stream \in Streams /\ Subscribed(stream)

\* Reads and the page show committed changes; ticks tell fetches apart.
ViewsCommitted ==
  /\ \A f \in fetches, a \in Reads : f.view[a] \subseteq committed
  /\ \A a \in Reads : shown[a] \subseteq committed
OneCurrent == \A f, g \in fetches : f.n = g.n => f = g

\* A read of the fetch that will be shown is no older than what is shown.
ShownOlder ==
  \A f \in fetches : Current(f) => \A a \in f.done : shown[a] \subseteq f.view[a]

\* A covered change is on its way to the page, or in every answer that the
\* current fetch has, or, without a current fetch, on the page.
Announced ==
  \A q \in covered \cap committed :
    \/ Coming \/ due \/ failed
    \/ /\ \A f \in fetches : Current(f) => \A a \in f.done : q \in f.view[a]
       /\ \/ \E f \in fetches : Current(f)
          \/ \A a \in Reads : q \in shown[a]

LiveInv ==
  /\ HubInv /\ LiveTypeOK
  /\ PublishedDone /\ CoveredLive
  /\ ViewsCommitted /\ OneCurrent /\ ShownOlder
  /\ Announced

-----------------------------------------------------------------------------
(* The page is a client of the hub                                         *)

\* A read only adds to its fetch.
LEMMA ReadKeeps ==
  ASSUME NEW f, NEW a, Read(f, a)
  PROVE  UNCHANGED <<hubVars, stream, connected, heard, due, tick, shown, failed>>
BY Zenon DEF Read

\* A step of the page and its stream is a step of the hub.
LEMMA LiveStepIsHubStep ==
  ASSUME LiveTypeOK, [LiveNext]_liveVars
  PROVE  [HubNext]_hubVars
<1>1. CASE EngineStep BY <1>1 DEF EngineStep, HubNext
<1>2. ASSUME NEW s \in Streams, Connect(s) PROVE HubNext BY <1>2 DEF Connect, HubNext
<1>3. CASE Receive
  <2>1. stream \in Streams BY <1>3 DEF Receive, LiveTypeOK
  <2>2. ClientReads(stream) BY <1>3 DEF Receive, ClientReads
  <2> QED BY <2>1, <2>2 DEF HubNext
<1>4. CASE Open \/ Break \/ FetchStep
  BY <1>4, ReadKeeps DEF Open, Break, FetchStep, Effect, Settle, Reject
<1>5. CASE UNCHANGED liveVars BY <1>5 DEF liveVars
<1> QED BY <1>1, <1>2, <1>3, <1>4, <1>5 DEF LiveNext, PageStep
-----------------------------------------------------------------------------
(* Types                                                                   *)

Fetch == [n : Nat, done : SUBSET Reads, view : [Reads -> SUBSET Posts]]

LEMMA FetchType ==
  ASSUME LiveTypeOK, NEW f \in fetches
  PROVE  /\ f.n \in Nat /\ f.n <= tick
         /\ f.done \subseteq Reads
         /\ f.view \in [Reads -> SUBSET Posts]
BY DEF LiveTypeOK

\* What a read makes of its fetch.
WithRead(f, a) == [f EXCEPT !.done = @ \cup {a}, !.view = [@ EXCEPT ![a] = committed]]

LEMMA WithReadFields ==
  ASSUME LiveTypeOK, NEW f \in fetches, NEW a \in Reads
  PROVE  /\ WithRead(f, a) \in [n : 0..tick, done : SUBSET Reads, view : [Reads -> SUBSET Posts]]
         /\ WithRead(f, a).n = f.n
         /\ WithRead(f, a).done = f.done \cup {a}
         /\ \A b \in Reads : WithRead(f, a).view[b] = IF b = a THEN committed ELSE f.view[b]
BY FetchType DEF WithRead, LiveTypeOK, HubTypeOK

LEMMA NewFetchFields ==
  ASSUME NEW n \in Nat
  PROVE  /\ NewFetch(n) \in Fetch
         /\ NewFetch(n).n = n /\ NewFetch(n).done = {}
         /\ \A a \in Reads : NewFetch(n).view[a] = {}
BY DEF NewFetch, Fetch

\* Each step is one of these, seen from the page.
LEMMA PageStepCases ==
  ASSUME LiveNext
  PROVE  \/ EngineStep /\ UNCHANGED pageVars
         \/ \E s \in Streams : Connect(s)
         \/ Open \/ Break \/ Receive \/ Effect
         \/ \E f \in fetches, a \in Reads : Read(f, a)
         \/ \E f \in fetches : Settle(f)
         \/ \E f \in fetches : Reject(f)
BY DEF LiveNext, EngineStep, PageStep, FetchStep

LEMMA TypeStep ==
  ASSUME LiveInv, LiveNext
  PROVE  LiveTypeOK' /\ HubInv'
<1> USE DEF LiveInv
<1>1. HubInv'
  <2>1. [HubNext]_hubVars BY LiveStepIsHubStep
  <2> QED BY <2>1, HubStep_Inv
<1>2. covered' \subseteq Posts
  BY <1>1 DEF LiveNext, Track, LiveTypeOK, HubInv, HubTypeOK
<1> DEFINE PageType == LiveTypeOK'
<1>3. UNCHANGED pageVars => PageType
  BY <1>1, <1>2 DEF pageVars, LiveTypeOK, HubInv
<1>4. ASSUME NEW s \in Streams, Connect(s) PROVE PageType
  BY <1>1, <1>2, <1>4 DEF Connect, LiveTypeOK, HubInv
<1>5. Open => PageType BY <1>1, <1>2 DEF Open, LiveTypeOK, HubInv
<1>6. Break => PageType BY <1>1, <1>2 DEF Break, LiveTypeOK, HubInv
<1>7. Receive => PageType
  <2> SUFFICES ASSUME Receive PROVE PageType OBVIOUS
  <2>1. UNCHANGED <<stream, connected, tick, fetches, shown, failed>>
        /\ heard' = TRUE /\ due' = TRUE
    BY DEF Receive
  <2> QED BY <1>1, <1>2, <2>1 DEF LiveTypeOK, HubInv
<1>8. ASSUME Effect PROVE PageType
  <2>1. tick \in Nat BY DEF LiveTypeOK
  <2>2. NewFetch(tick + 1) \in [n : 0..(tick + 1), done : SUBSET Reads, view : [Reads -> SUBSET Posts]]
    BY <2>1, NewFetchFields DEF NewFetch
  <2>3. fetches' \subseteq [n : 0..tick', done : SUBSET Reads, view : [Reads -> SUBSET Posts]]
    <3>1. \A f \in fetches : f \in [n : 0..(tick + 1), done : SUBSET Reads, view : [Reads -> SUBSET Posts]]
      BY <2>1 DEF LiveTypeOK
    <3> QED BY <1>8, <2>2, <3>1 DEF Effect
  <2>4. tick' \in Nat BY <1>8, <2>1 DEF Effect
  <2> QED BY <1>1, <1>2, <1>8, <2>3, <2>4 DEF Effect, LiveTypeOK, HubInv
<1>9. ASSUME NEW f \in fetches, NEW a \in Reads, Read(f, a) PROVE PageType
  <2>1. fetches' = (fetches \ {f}) \cup {WithRead(f, a)} BY <1>9 DEF Read, WithRead
  <2>2. fetches' \subseteq [n : 0..tick, done : SUBSET Reads, view : [Reads -> SUBSET Posts]]
    BY <2>1, WithReadFields DEF LiveTypeOK
  <2> QED BY <1>1, <1>2, <1>9, <2>2 DEF Read, LiveTypeOK, HubInv
<1>10. ASSUME NEW f \in fetches, Settle(f) PROVE PageType
  BY <1>1, <1>2, <1>10, FetchType DEF Settle, LiveTypeOK, HubInv
<1>11. ASSUME NEW f \in fetches, Reject(f) PROVE PageType
  BY <1>1, <1>2, <1>11, FetchType DEF Reject, LiveTypeOK, HubInv
<1>12. PageType
  <2> HIDE DEF PageType, LiveInv
  <2> QED BY <1>3, <1>4, <1>5, <1>6, <1>7, <1>8, <1>9, <1>10, <1>11, PageStepCases
<1> QED BY <1>1, <1>12
-----------------------------------------------------------------------------
(* The history                                                             *)

\* What a hub step does to the committed and published requests.
LEMMA Requests_Step ==
  ASSUME LiveInv, LiveNext
  PROVE  /\ committed \subseteq committed' /\ published \subseteq published'
         /\ \A q \in published' \ published : \E p \in Posts : q = p /\ Publish(p)
         /\ \A q \in committed' \ committed : q \in Posts /\ handler[q] = "idle"
         /\ PublishedDone'
<1> USE DEF LiveInv, LiveTypeOK, HubTypeOK, PublishedDone
<1>1. ASSUME NEW q \in Posts, HandlerStep(q)
      PROVE  /\ committed \subseteq committed' /\ published \subseteq published'
             /\ \A p \in published' \ published : p = q /\ Publish(q)
             /\ \A p \in committed' \ committed : p = q /\ handler[q] = "idle"
             /\ PublishedDone'
  BY <1>1 DEF HandlerStep, Commit, ReplayFunding, Publish, Ready, CommitUnannounced
<1>2. CASE UNCHANGED requestVars BY <1>2 DEF requestVars
<1>3. (\E q \in Posts : HandlerStep(q)) \/ UNCHANGED requestVars
  <2>1. CASE EngineStep
    BY <2>1 DEF EngineStep, StreamStep, ServerStep, Subscribe, Deliver,
       Unsubscribe, Leave, Signal, Drained, Deadline, requestVars
  <2>2. CASE PageStep
    BY <2>2, ReadKeeps DEF PageStep, Connect, Greet, Open, Break, Receive, FetchStep, Effect,
       Settle, Reject, hubVars, requestVars
  <2> QED BY <2>1, <2>2 DEF LiveNext
<1> QED BY <1>1, <1>2, <1>3

LEMMA CoveredStep ==
  ASSUME LiveInv, LiveNext
  PROVE  CoveredLive'
<1>1. published \subseteq published' BY Requests_Step
<1>2. Track BY DEF LiveNext
<1>3. stream' \in Streams \cup {NoStream} BY TypeStep DEF LiveTypeOK
<1>4. CASE covered' = {} BY <1>4 DEF CoveredLive
<1>5. CASE covered' # {}
  <2>1. /\ stream' = stream /\ stream' # NoStream /\ Subscribed(stream)'
        /\ covered' = covered \cup (published' \ published)
    BY <1>2, <1>5 DEF Track
  <2> QED BY <1>1, <1>3, <2>1 DEF CoveredLive, LiveInv
<1> QED BY <1>4, <1>5

-----------------------------------------------------------------------------
(* The fetches                                                             *)

FetchInv == ViewsCommitted /\ OneCurrent /\ ShownOlder

LEMMA FetchesStep ==
  ASSUME LiveInv, LiveNext
  PROVE  FetchInv'
<1> USE DEF FetchInv, ViewsCommitted, OneCurrent, ShownOlder, Current
<1>1. committed \subseteq committed' BY Requests_Step
<1>2. FetchInv /\ LiveTypeOK BY DEF LiveInv
<1>3. ASSUME UNCHANGED <<tick, fetches, shown>> PROVE FetchInv'
  BY <1>1, <1>2, <1>3
<1>4. ASSUME Effect PROVE FetchInv'
  <2>1. tick \in Nat BY <1>2 DEF LiveTypeOK
  <2>2. fetches' = fetches \cup {NewFetch(tick + 1)} /\ tick' = tick + 1 /\ shown' = shown
    BY <1>4 DEF Effect
  <2>3. \A f \in fetches : f.n # tick + 1 BY <1>2, <2>1, FetchType
  <2>4. /\ NewFetch(tick + 1).n = tick + 1 /\ NewFetch(tick + 1).done = {}
        /\ \A a \in Reads : NewFetch(tick + 1).view[a] = {}
    BY <2>1, NewFetchFields
  <2>5. ViewsCommitted' BY <1>1, <1>2, <2>2, <2>4
  <2>6. OneCurrent' BY <1>2, <2>2, <2>3, <2>4
  <2>7. ShownOlder' BY <1>2, <2>2, <2>3, <2>4
  <2> QED BY <2>5, <2>6, <2>7
<1>5. ASSUME NEW f \in fetches, NEW a \in Reads, Read(f, a) PROVE FetchInv'
  <2>1. fetches' = (fetches \ {f}) \cup {WithRead(f, a)} /\ UNCHANGED <<tick, shown>>
    BY <1>5 DEF Read, WithRead
  <2>2. /\ WithRead(f, a).n = f.n /\ WithRead(f, a).done = f.done \cup {a}
        /\ \A b \in Reads : WithRead(f, a).view[b] = IF b = a THEN committed ELSE f.view[b]
    BY <1>2, WithReadFields
  <2>3. f.done \subseteq Reads BY <1>2, FetchType
  <2>4. ViewsCommitted' BY <1>1, <1>2, <2>1, <2>2
  <2>5. OneCurrent' BY <1>2, <2>1, <2>2
  <2>6. ShownOlder' BY <1>2, <2>1, <2>2, <2>3
  <2> QED BY <2>4, <2>5, <2>6
<1>6. ASSUME NEW f \in fetches, Settle(f) PROVE FetchInv'
  <2>1. /\ fetches' = fetches \ {f} /\ tick' = tick
        /\ shown' = IF f.n = tick THEN f.view ELSE shown
    BY <1>6 DEF Settle
  <2>2. ViewsCommitted' BY <1>1, <1>2, <2>1
  <2>3. OneCurrent' BY <1>2, <2>1
  <2>4. ShownOlder'
    <3>1. CASE f.n = tick
      <4>1. \A g \in fetches' : g.n # tick BY <1>2, <2>1, <3>1
      <4> QED BY <2>1, <4>1
    <3>2. CASE f.n # tick BY <1>2, <2>1, <3>2
    <3> QED BY <3>1, <3>2
  <2> QED BY <2>2, <2>3, <2>4
<1>7. ASSUME NEW f \in fetches, Reject(f) PROVE FetchInv'
  BY <1>1, <1>2, <1>7 DEF Reject
<1>8. \/ UNCHANGED <<tick, fetches, shown>> \/ Effect
      \/ \E f \in fetches, a \in Reads : Read(f, a)
      \/ \E f \in fetches : Settle(f) \/ Reject(f)
  BY PageStepCases DEF pageVars, Connect, Open, Break, Receive
<1> HIDE DEF FetchInv
<1> QED BY <1>3, <1>4, <1>5, <1>6, <1>7, <1>8
-----------------------------------------------------------------------------
(* Announced changes reach the page                                        *)

LEMMA AppendNonempty ==
  ASSUME NEW T, NEW c \in Seq(T), NEW x \in T
  PROVE  Append(c, x) # <<>>
<1>1. Len(Append(c, x)) = Len(c) + 1 /\ Len(c) \in Nat OBVIOUS
<1> QED BY <1>1

\* Publishing leaves a frame in the channel of every subscriber, its own or,
\* when the channel is full, an earlier one.
LEMMA PublishFillsChannels ==
  ASSUME HubTypeOK, NEW q \in Posts, Publish(q), NEW s \in subs
  PROVE  chan'[s] # <<>>
<1>1. s \in Streams /\ chan[s] \in Seq(Posts) BY DEF HubTypeOK
<1>2. chan'[s] = IF HasRoom(s) THEN Append(chan[s], q) ELSE chan[s]
  BY <1>1 DEF Publish, Offer
<1>3. CASE HasRoom(s)
  <2>1. Append(chan[s], q) # <<>> BY <1>1, AppendNonempty
  <2> QED BY <1>2, <1>3, <2>1
<1>4. CASE ~HasRoom(s)
  <2>1. Len(chan[s]) > 0 BY <1>1, <1>4, HubAssumption DEF HasRoom
  <2> QED BY <1>2, <1>4, <2>1
<1> QED BY <1>3, <1>4

\* A frame stays under way while its stream does.
LEMMA ComingStays ==
  ASSUME HubTypeOK, EngineStep, NEW s \in Streams,
         chan[s] # <<>> \/ wire[s] # <<>>
  PROVE  chan'[s] # <<>> \/ wire'[s] # <<>>
<1> USE DEF HubTypeOK, streamVars
<1>1. ASSUME NEW q \in Posts, HandlerStep(q) PROVE chan'[s] # <<>> \/ wire'[s] # <<>>
  <2>1. CASE Publish(q)
    <3>1. wire' = wire /\ chan'[s] = Offer(q)[s] BY <2>1 DEF Publish
    <3>2. Append(chan[s], q) # <<>> BY AppendNonempty
    <3> QED BY <3>1, <3>2 DEF Offer
  <2> QED BY <1>1, <2>1 DEF HandlerStep, Commit, ReplayFunding, CommitUnannounced
<1>2. ASSUME NEW t \in Streams, Deliver(t) PROVE chan'[s] # <<>> \/ wire'[s] # <<>>
  <2>1. /\ chan' = [chan EXCEPT ![t] = Tail(@)]
        /\ wire' = [wire EXCEPT ![t] = Append(@, Head(chan[t]))]
        /\ chan[t] # <<>>
    BY <1>2 DEF Deliver
  <2>2. CASE t = s
    <3>1. wire'[s] = Append(wire[s], Head(chan[s])) BY <2>1, <2>2
    <3>2. Head(chan[s]) \in Posts /\ wire[s] \in Seq(Posts) BY <2>1, <2>2
    <3> QED BY <3>1, <3>2, AppendNonempty
  <2>3. CASE t # s BY <2>1, <2>3
  <2> QED BY <2>2, <2>3
<1>3. CASE UNCHANGED <<chan, wire>> BY <1>3
<1>4. \/ \E q \in Posts : HandlerStep(q)
      \/ \E t \in Streams : Deliver(t)
      \/ UNCHANGED <<chan, wire>>
  BY DEF EngineStep, StreamStep, ServerStep, Subscribe, Unsubscribe, Leave,
     Signal, Drained, Deadline
<1> QED BY <1>1, <1>2, <1>3, <1>4

AnnouncedOf(q) ==
  \/ Coming \/ due \/ failed
  \/ /\ \A f \in fetches : Current(f) => \A a \in f.done : q \in f.view[a]
     /\ \/ \E f \in fetches : Current(f)
        \/ \A a \in Reads : q \in shown[a]

LEMMA AnnouncedStep ==
  ASSUME LiveInv, LiveNext, NEW q \in covered' \cap committed'
  PROVE  AnnouncedOf(q)'
<1> USE DEF AnnouncedOf, Current
<1>1. LiveTypeOK /\ HubTypeOK /\ OneCurrent BY DEF LiveInv, LiveTypeOK
<1>2. /\ stream' = stream /\ stream \in Streams /\ Subscribed(stream)'
      /\ covered' = covered \cup (published' \ published)
  BY <1>1 DEF LiveNext, Track, LiveTypeOK
<1>3. CASE q \in published' \ published
  <2>1. PICK p \in Posts : Publish(p) BY <1>3, Requests_Step
  <2>2. stream \in subs BY <1>2, <2>1 DEF Publish, Subscribed
  <2>3. chan'[stream] # <<>> BY <1>1, <2>1, <2>2, PublishFillsChannels
  <2> QED BY <1>2, <2>3 DEF Coming
<1>4. CASE q \in covered
  <2>1. q \in committed
    <3>1. q \in published /\ handler[q] = "done"
      BY <1>4 DEF LiveInv, CoveredLive, PublishedDone
    <3> QED BY <3>1, Requests_Step
  <2>2. AnnouncedOf(q) BY <1>4, <2>1 DEF LiveInv, Announced
  <2>3. CASE EngineStep /\ UNCHANGED pageVars
    <3>1. Coming => Coming' BY <1>1, <1>2, <2>3, ComingStays DEF Coming
    <3> QED BY <2>2, <2>3, <3>1 DEF pageVars
  <2>4. ASSUME NEW s \in Streams, Connect(s) PROVE FALSE
    BY <1>2, <2>4, LiveAssumption DEF Connect
  <2>5. CASE Open \/ Receive
    BY <1>2, <2>2, <2>5 DEF Open, Receive, Coming, hubVars, streamVars
  <2>6. ASSUME Break PROVE FALSE BY <1>2, <2>6, LiveAssumption DEF Break
  <2>7. CASE Effect
    <3>1. tick \in Nat BY <1>1 DEF LiveTypeOK
    <3>2. fetches' = fetches \cup {NewFetch(tick + 1)} /\ tick' = tick + 1
      BY <2>7 DEF Effect
    <3>3. \A f \in fetches : f.n # tick + 1 BY <1>1, <3>1, FetchType
    <3>4. NewFetch(tick + 1).n = tick + 1 /\ NewFetch(tick + 1).done = {}
      BY <3>1, NewFetchFields
    <3> QED BY <3>2, <3>3, <3>4
  <2>8. ASSUME NEW f \in fetches, NEW a \in Reads, Read(f, a) PROVE AnnouncedOf(q)'
    <3>1. /\ fetches' = (fetches \ {f}) \cup {WithRead(f, a)}
          /\ UNCHANGED <<tick, shown, due, failed, stream, chan, wire>>
      BY <2>8 DEF Read, WithRead, hubVars, streamVars
    <3>2. /\ WithRead(f, a).n = f.n /\ WithRead(f, a).done = f.done \cup {a}
          /\ \A b \in Reads : WithRead(f, a).view[b] = IF b = a THEN committed ELSE f.view[b]
      BY <1>1, WithReadFields
    <3>3. f.done \subseteq Reads BY <1>1, FetchType
    <3>4. CASE Coming \/ due \/ failed BY <3>1, <3>4 DEF Coming
    <3>5. CASE ~(Coming \/ due \/ failed)
      <4>1. \A g \in fetches : g.n = tick => \A b \in g.done : q \in g.view[b]
        BY <2>2, <3>5
      <4>2. f.n = tick => \A b \in WithRead(f, a).done : q \in WithRead(f, a).view[b]
        BY <2>1, <3>2, <3>3, <4>1
      <4>3. \A g \in fetches' : g.n = tick => \A b \in g.done : q \in g.view[b]
        BY <3>1, <3>2, <4>1, <4>2
      <4>4. (\E g \in fetches : g.n = tick) => \E g \in fetches' : g.n = tick
        BY <3>1, <3>2
      <4> QED BY <2>2, <3>1, <3>5, <4>3, <4>4
    <3> QED BY <3>4, <3>5
  <2>9. ASSUME NEW f \in fetches, Settle(f) PROVE AnnouncedOf(q)'
    <3>1. /\ fetches' = fetches \ {f} /\ f.done = Reads
          /\ shown' = IF f.n = tick THEN f.view ELSE shown
          /\ UNCHANGED <<tick, due, failed, stream, chan, wire>>
      BY <2>9 DEF Settle, hubVars, streamVars
    <3>2. CASE Coming \/ due \/ failed BY <3>1, <3>2 DEF Coming
    <3>3. CASE ~(Coming \/ due \/ failed) BY <2>2, <3>1, <3>3
    <3> QED BY <3>2, <3>3
  <2>10. ASSUME NEW f \in fetches, Reject(f) PROVE AnnouncedOf(q)'
    <3>1. /\ fetches' = fetches \ {f} /\ failed' = (failed \/ f.n = tick)
          /\ UNCHANGED <<tick, shown, due, stream, chan, wire>>
      BY <2>10 DEF Reject, hubVars, streamVars
    <3>2. CASE Coming \/ due \/ failed BY <3>1, <3>2 DEF Coming
    <3>3. CASE f.n = tick BY <3>1, <3>3
    <3>4. CASE ~(Coming \/ due \/ failed) /\ f.n # tick BY <2>2, <3>1, <3>4
    <3> QED BY <3>2, <3>3, <3>4
  <2> HIDE DEF AnnouncedOf
  <2> QED BY <2>3, <2>4, <2>5, <2>6, <2>7, <2>8, <2>9, <2>10, PageStepCases
<1> QED BY <1>2, <1>3, <1>4

-----------------------------------------------------------------------------
(* The theorems                                                            *)

LEMMA LiveInit_Inv == LiveInit => LiveInv
<1> SUFFICES ASSUME LiveInit PROVE LiveInv OBVIOUS
<1>1. HubInv BY HubInit_Inv DEF LiveInit
<1>2. /\ NewFetch(0).n = 0 /\ NewFetch(0).done = {}
      /\ \A a \in Reads : NewFetch(0).view[a] = {}
      /\ NewFetch(0) \in [n : 0..0, done : SUBSET Reads, view : [Reads -> SUBSET Posts]]
  BY DEF NewFetch
<1>3. LiveTypeOK BY <1>1, <1>2 DEF LiveInit, LiveTypeOK, HubInv
<1>4. FetchInv
  BY <1>2 DEF LiveInit, FetchInv, ViewsCommitted, OneCurrent, ShownOlder
<1>5. PublishedDone /\ CoveredLive /\ Announced
  BY DEF LiveInit, HubInit, PublishedDone, CoveredLive, Announced
<1> QED BY <1>1, <1>3, <1>4, <1>5 DEF LiveInv, FetchInv

LEMMA LiveStep_Inv ==
  ASSUME LiveInv, [LiveNext]_liveVars
  PROVE  LiveInv'
<1>1. CASE LiveNext
  <2>1. HubInv' /\ LiveTypeOK' BY <1>1, TypeStep
  <2>2. PublishedDone' BY <1>1, Requests_Step
  <2>3. CoveredLive' BY <1>1, CoveredStep
  <2>4. FetchInv' BY <1>1, FetchesStep
  <2>5. Announced' BY <1>1, AnnouncedStep DEF Announced, AnnouncedOf
  <2> QED BY <2>1, <2>2, <2>3, <2>4, <2>5 DEF LiveInv, FetchInv
<1>2. CASE UNCHANGED liveVars
  BY <1>2 DEF liveVars, hubVars, pageVars, requestVars, streamVars, LiveInv, HubInv,
     LiveTypeOK, HubTypeOK, ChannelsLive, PublishedDone, CoveredLive, Subscribed,
     ViewsCommitted, OneCurrent, ShownOlder, Announced, Current, Coming
<1> QED BY <1>1, <1>2

\* LiveInv is an invariant of the page and its stream.
THEOREM LiveInvariance == LiveSpec => []LiveInv
BY LiveInit_Inv, LiveStep_Inv, PTL DEF LiveSpec

\* What was announced to the page is shown, or will be fetched again.
THEOREM AnnouncedShown == LiveSpec => [](LiveTypeOK /\ AnnouncedIsShown)
<1>1. LiveInv => LiveTypeOK /\ AnnouncedIsShown
  BY DEF LiveInv, Announced, AnnouncedIsShown, Stale, Current
<1> QED BY <1>1, LiveInvariance, PTL

\* Overlapping fetches never take back a change that the page has shown.
THEOREM ShownMonotone == LiveSpec => ShownNeverGoesBack
<1>1. LiveInv /\ LiveNext => \A a \in Reads : shown[a] \subseteq shown'[a]
  <2> SUFFICES ASSUME LiveInv, LiveNext
               PROVE  \A a \in Reads : shown[a] \subseteq shown'[a]
    OBVIOUS
  <2>1. ASSUME NEW f \in fetches, Settle(f)
        PROVE  \A a \in Reads : shown[a] \subseteq shown'[a]
    BY <2>1 DEF Settle, LiveInv, ShownOlder, Current
  <2>2. (\E f \in fetches : Settle(f)) \/ shown' = shown
    BY PageStepCases, ReadKeeps DEF pageVars, Connect, Open, Break, Receive, Effect, Reject
  <2> QED BY <2>1, <2>2
<1>2. UNCHANGED liveVars => \A a \in Reads : shown[a] \subseteq shown'[a]
  BY DEF liveVars, pageVars
<1>3. LiveInv /\ [LiveNext]_liveVars => [\A a \in Reads : shown[a] \subseteq shown'[a]]_liveVars
  BY <1>1, <1>2
<1> QED BY <1>3, LiveInvariance, PTL DEF LiveSpec, ShownNeverGoesBack

\* A page with its stream is one of the hub's environments.
THEOREM PageUsesHub == LiveSpec => HubSpec
<1>1. LiveInit => HubInit BY DEF LiveInit
<1>2. LiveInv /\ [LiveNext]_liveVars => [HubNext]_hubVars
  BY LiveStepIsHubStep DEF LiveInv
<1> QED BY <1>1, <1>2, LiveInvariance, PTL DEF LiveSpec, HubSpec
=============================================================================
