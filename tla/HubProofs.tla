------------------------------- MODULE HubProofs -------------------------------
(***************************************************************************)
(* The hub of live events, the pool of connections and the tables of users *)
(* and accounts, each for any number of clients and any sizes.  HubInv,    *)
(* PoolInv and UsersInv are the inductive invariants.                      *)
(***************************************************************************)
EXTENDS EventHub, ConnPool, Users, FiniteSetTheorems, FunctionTheorems, SequenceTheorems, TLAPS

-----------------------------------------------------------------------------
(* The hub for any number of requests and streams and any buffer sizes.    *)

USE HubAssumption

HubInv == HubTypeOK /\ ChannelsLive

\* An element of the range updates a function within its type.
LEMMA UpdateType ==
  ASSUME NEW S, NEW T, NEW f \in [S -> T], NEW x \in S, NEW v \in T
  PROVE  [f EXCEPT ![x] = v] \in [S -> T]
OBVIOUS

\* The buffers stay within their sizes: a frame is added where there is room.
LEMMA OfferType ==
  ASSUME NEW q \in Posts, HubTypeOK
  PROVE  /\ Offer(q) \in [Streams -> Seq(Posts)]
         /\ \A s \in Streams : Len(Offer(q)[s]) <= Capacity
<1>1. ASSUME NEW s \in Streams, HasRoom(s)
      PROVE  /\ Append(chan[s], q) \in Seq(Posts)
             /\ Len(Append(chan[s], q)) <= Capacity
  <2>1. chan[s] \in Seq(Posts) BY DEF HubTypeOK
  <2>2. Len(Append(chan[s], q)) = Len(chan[s]) + 1 /\ Len(chan[s]) \in Nat BY <2>1
  <2>3. Append(chan[s], q) \in Seq(Posts) BY <2>1
  <2> QED BY <1>1, <2>2, <2>3 DEF HasRoom
<1> QED BY <1>1 DEF Offer, HubTypeOK

LEMMA HubInit_Inv == HubInit => HubInv
<1> SUFFICES ASSUME HubInit PROVE HubInv OBVIOUS
<1>1. <<>> \in Seq(Posts) /\ Len(<<>>) <= Capacity /\ Len(<<>>) <= WireSize
  OBVIOUS
<1>2. /\ chan \in [Streams -> Seq(Posts)] /\ \A s \in Streams : Len(chan[s]) <= Capacity
      /\ wire \in [Streams -> Seq(Posts)] /\ \A s \in Streams : Len(wire[s]) <= WireSize
  BY <1>1 DEF HubInit
<1> QED BY <1>2, Zenon DEF HubInit, HubInv, HubTypeOK, ChannelsLive

LEMMA HubStep_Inv ==
  ASSUME HubInv, [HubNext]_hubVars
  PROVE  HubInv'
<1> USE DEF HubInv, HubTypeOK, ChannelsLive, requestVars, streamVars
<1>1. ASSUME NEW q \in Posts, HandlerStep(q) PROVE HubInv'
  <2>1. CASE Commit(q) BY <2>1 DEF Commit
  <2>2. CASE ReplayFunding(q) BY <2>2 DEF ReplayFunding
  <2>3. CASE Publish(q) BY <2>3, OfferType DEF Publish, Ready
  <2>4. CASE CommitUnannounced(q) BY <2>4 DEF CommitUnannounced
  <2> QED BY <1>1, <2>1, <2>2, <2>3, <2>4 DEF HandlerStep
<1>2. ASSUME NEW s \in Streams, Greet(s) PROVE HubInv' BY <1>2 DEF Greet
<1>3. ASSUME NEW s \in Streams, StreamStep(s) PROVE HubInv'
  <2>1. CASE Subscribe(s) BY <2>1 DEF Subscribe
  <2>2. CASE Deliver(s)
    <3>1. chan[s] \in Seq(Posts) /\ wire[s] \in Seq(Posts) /\ chan[s] # <<>>
      BY <2>2 DEF Deliver
    <3>2. /\ Tail(chan[s]) \in Seq(Posts) /\ Len(Tail(chan[s])) <= Capacity
          /\ Head(chan[s]) \in Posts
      BY <3>1
    <3>3. /\ Append(wire[s], Head(chan[s])) \in Seq(Posts)
          /\ Len(Append(wire[s], Head(chan[s]))) <= WireSize
      BY <2>2, <3>1, <3>2 DEF Deliver
    <3>4. chan' = [chan EXCEPT ![s] = Tail(chan[s])]
          /\ wire' = [wire EXCEPT ![s] = Append(wire[s], Head(chan[s]))]
      BY <2>2 DEF Deliver
    <3> QED BY <2>2, <3>2, <3>3, <3>4 DEF Deliver
  <2>3. CASE Unsubscribe(s) BY <2>3 DEF Unsubscribe
  <2> QED BY <1>3, <2>1, <2>2, <2>3 DEF StreamStep
<1>4. ASSUME NEW s \in Streams, Leave(s) PROVE HubInv' BY <1>4 DEF Leave
<1>5. ASSUME NEW s \in Streams, ClientReads(s) PROVE HubInv'
  <2>1. wire[s] \in Seq(Posts) /\ wire[s] # <<>> BY <1>5 DEF ClientReads
  <2>2. Tail(wire[s]) \in Seq(Posts) /\ Len(Tail(wire[s])) <= WireSize BY <2>1
  <2> QED BY <1>5, <2>2 DEF ClientReads
<1>6. CASE ServerStep
  <2>1. CASE Signal BY <2>1 DEF Signal
  <2>2. CASE Drained BY <2>2 DEF Drained
  <2>3. CASE Deadline BY <2>3, Zenon DEF Deadline
  <2> QED BY <1>6, <2>1, <2>2, <2>3 DEF ServerStep
<1>7. CASE UNCHANGED hubVars BY <1>7 DEF hubVars
<1> QED BY <1>1, <1>2, <1>3, <1>4, <1>5, <1>6, <1>7 DEF HubNext

\* The hub's variables keep their types and its buffers their sizes; it sends to
\* the channels of exactly the streams whose handlers read or will remove them.
THEOREM HubSafe == HubSpec => [](HubTypeOK /\ ChannelsLive)
<1>1. HubInv /\ [HubNext]_hubVars => HubInv' BY HubStep_Inv
<1> QED BY HubInit_Inv, <1>1, PTL DEF HubSpec, HubInv

\* A frame is on its way only when its request has published it.
SentIsPublished == \A s \in Streams : \A i \in DOMAIN Pipe(s) : handler[Pipe(s)[i]] = "done"

OrderInv == HubInv /\ ClientsAgreeOnOrder /\ SentIsPublished

\* What a client reads, and what is added behind, changes no other order.
LEMMA TailOrder ==
  ASSUME NEW S, NEW u \in Seq(S), u # <<>>, NEW p, NEW q, Before(Tail(u), p, q)
  PROVE  Before(u, p, q)
<1>1. PICK i, j \in DOMAIN Tail(u) : i < j /\ Tail(u)[i] = p /\ Tail(u)[j] = q BY DEF Before
<1>2. /\ i + 1 \in DOMAIN u /\ j + 1 \in DOMAIN u /\ i + 1 < j + 1
      /\ u[i + 1] = p /\ u[j + 1] = q
  BY <1>1
<1> QED BY <1>2 DEF Before

LEMMA AppendOrder ==
  ASSUME NEW S, NEW u \in Seq(S), NEW r \in S, NEW p, NEW q, Before(Append(u, r), p, q)
  PROVE  Before(u, p, q) \/ (q = r /\ \E i \in DOMAIN u : u[i] = p)
<1>1. PICK i, j \in DOMAIN Append(u, r) : i < j /\ Append(u, r)[i] = p /\ Append(u, r)[j] = q
  BY DEF Before
<1>2. i \in DOMAIN u /\ u[i] = p BY <1>1
<1>3. CASE j \in DOMAIN u BY <1>1, <1>2, <1>3 DEF Before
<1>4. CASE j \notin DOMAIN u BY <1>1, <1>2, <1>4
<1> QED BY <1>3, <1>4

\* A frame that goes from the channel to the connection stays in its place, and
\* so do the others when the first is read or one is added.
LEMMA PipeMoves ==
  ASSUME NEW S, NEW w \in Seq(S), NEW c \in Seq(S)
  PROVE  /\ c # <<>> => Append(w, Head(c)) \o Tail(c) = w \o c
         /\ w # <<>> => Tail(w) \o c = Tail(w \o c) /\ w \o c # <<>>
<1>1. ASSUME c # <<>> PROVE Append(w, Head(c)) \o Tail(c) = w \o c
  <2>1. /\ Head(c) \in S /\ Tail(c) \in Seq(S) /\ Len(Tail(c)) = Len(c) - 1
        /\ Head(c) = c[1] /\ \A i \in 1..Len(Tail(c)) : Tail(c)[i] = c[i + 1]
    BY <1>1
  <2>2. /\ Append(w, Head(c)) \in Seq(S) /\ Len(Append(w, Head(c))) = Len(w) + 1
        /\ \A i \in 1..Len(w) : Append(w, Head(c))[i] = w[i]
        /\ Append(w, Head(c))[Len(w) + 1] = c[1]
    BY <2>1
  <2> DEFINE a == Append(w, Head(c))
             d == Tail(c)
  <2>3. /\ a \in Seq(S) /\ Len(a) = Len(w) + 1 /\ d \in Seq(S) /\ Len(d) = Len(c) - 1
        /\ \A i \in 1..Len(w) : a[i] = w[i]
        /\ a[Len(w) + 1] = c[1] /\ \A i \in 1..Len(d) : d[i] = c[i + 1]
    BY <2>1, <2>2
  <2>4. Len(w) \in Nat /\ Len(c) \in Nat OBVIOUS
  <2> DEFINE ad == a \o d
             wc == w \o c
  <2> HIDE DEF a, d
  <2>5. /\ ad \in Seq(S) /\ Len(ad) = Len(w) + Len(c)
        /\ \A i \in 1..Len(w) + Len(c) : ad[i] = IF i <= Len(w) + 1 THEN a[i] ELSE d[i - (Len(w) + 1)]
    <3>1. /\ ad \in Seq(S) /\ Len(ad) = Len(a) + Len(d)
          /\ \A i \in 1..Len(a) + Len(d) : ad[i] = IF i <= Len(a) THEN a[i] ELSE d[i - Len(a)]
      BY <2>3, ConcatProperties
    <3> HIDE DEF ad
    <3>2. Len(a) + Len(d) = Len(w) + Len(c) BY <2>3, <2>4
    <3> QED BY <2>3, <3>1, <3>2
  <2>6. /\ wc \in Seq(S) /\ Len(wc) = Len(w) + Len(c)
        /\ \A i \in 1..Len(w) + Len(c) : wc[i] = IF i <= Len(w) THEN w[i] ELSE c[i - Len(w)]
    BY ConcatProperties
  <2> HIDE DEF ad, wc
  <2>7. ASSUME NEW i \in 1..Len(w) + Len(c) PROVE ad[i] = wc[i]
    <3>1. i \in Nat /\ i > 0 /\ i <= Len(w) + Len(c) BY <2>4
    <3>2. CASE i <= Len(w)
      <4>1. a[i] = w[i] BY <2>3, <2>4, <3>1, <3>2
      <4>2. ad[i] = a[i] /\ wc[i] = w[i] BY <2>4, <2>5, <2>6, <3>1, <3>2
      <4> QED BY <4>1, <4>2
    <3>3. CASE i = Len(w) + 1 BY <2>3, <2>4, <2>5, <2>6, <3>1, <3>3
    <3>4. CASE i > Len(w) + 1
      <4>1. i - (Len(w) + 1) \in 1..Len(d) /\ (i - (Len(w) + 1)) + 1 = i - Len(w)
        BY <2>3, <2>4, <3>1, <3>4
      <4>2. d[i - (Len(w) + 1)] = c[i - Len(w)] BY <2>3, <4>1
      <4>3. ad[i] = d[i - (Len(w) + 1)] /\ wc[i] = c[i - Len(w)]
        BY <2>4, <2>5, <2>6, <3>1, <3>4
      <4> QED BY <4>2, <4>3
    <3> QED BY <2>4, <3>1, <3>2, <3>3, <3>4
  <2>8. ad = wc BY <2>5, <2>6, <2>7, SeqEqual
  <2> QED BY <2>8 DEF ad, wc, a, d
<1>2. ASSUME w # <<>> PROVE Tail(w) \o c = Tail(w \o c) /\ w \o c # <<>>
  <2>1. /\ Tail(w) \in Seq(S) /\ Len(Tail(w)) = Len(w) - 1 /\ Len(w) \in Nat \ {0}
        /\ \A i \in 1..Len(Tail(w)) : Tail(w)[i] = w[i + 1]
    BY <1>2
  <2> DEFINE u == w \o c
             d == Tail(w)
             dc == d \o c
  <2>2. /\ u \in Seq(S) /\ Len(u) = Len(w) + Len(c) /\ u # <<>>
        /\ \A i \in 1..Len(u) : u[i] = IF i <= Len(w) THEN w[i] ELSE c[i - Len(w)]
    BY <2>1, ConcatProperties
  <2>3. /\ dc \in Seq(S) /\ Len(dc) = Len(w) - 1 + Len(c)
        /\ \A i \in 1..Len(w) - 1 + Len(c) : dc[i] = IF i <= Len(w) - 1 THEN d[i] ELSE c[i - (Len(w) - 1)]
    BY <2>1, ConcatProperties
  <2>4. /\ Len(c) \in Nat /\ Len(w) \in Nat
        /\ \A i \in 1..Len(w) - 1 : d[i] = w[i + 1]
    BY <2>1
  <2> HIDE DEF u, d, dc
  <2>5. /\ Tail(u) \in Seq(S) /\ Len(Tail(u)) = Len(w) - 1 + Len(c)
        /\ \A i \in 1..Len(w) - 1 + Len(c) : Tail(u)[i] = u[i + 1]
    BY <2>2, HeadTailProperties
  <2>6. ASSUME NEW i \in 1..Len(w) - 1 + Len(c) PROVE dc[i] = Tail(u)[i]
    <3>1. i \in Nat /\ i > 0 /\ i <= Len(w) - 1 + Len(c) BY <2>4
    <3>2. i + 1 \in 1..Len(u) /\ i + 1 - Len(w) = i - (Len(w) - 1) BY <2>2, <2>4, <3>1
    <3>3. Tail(u)[i] = u[i + 1] BY <2>5
    <3>4. CASE i <= Len(w) - 1
      <4>1. dc[i] = d[i] /\ d[i] = w[i + 1] BY <2>3, <2>4, <3>1, <3>4
      <4>2. u[i + 1] = w[i + 1] BY <2>2, <2>4, <3>1, <3>2, <3>4
      <4> QED BY <3>3, <4>1, <4>2
    <3>5. CASE i > Len(w) - 1
      <4>1. dc[i] = c[i - (Len(w) - 1)] BY <2>3, <2>4, <3>1, <3>5
      <4>2. u[i + 1] = c[i + 1 - Len(w)] BY <2>2, <2>4, <3>1, <3>2, <3>5
      <4> QED BY <3>2, <3>3, <4>1, <4>2
    <3>6. i <= Len(w) - 1 \/ i > Len(w) - 1 BY <2>4, <3>1
    <3> QED BY <3>4, <3>5, <3>6, Zenon
  <2>7. dc = Tail(u) BY <2>3, <2>5, <2>6, SeqEqual
  <2> QED BY <2>2, <2>7 DEF u, d, dc
<1> QED BY <1>1, <1>2

LEMMA PipeGrows ==
  \A w, c \in Seq(Posts), q \in Posts : w \o Append(c, q) = Append(w \o c, q)
<1> TAKE w, c \in Seq(Posts), q \in Posts
<1>1. w \o c \in Seq(Posts) /\ <<q>> \in Seq(Posts) BY ConcatProperties
<1>2. Append(c, q) = c \o <<q>> BY AppendIsConcat
<1>3. Append(w \o c, q) = (w \o c) \o <<q>> BY <1>1, AppendIsConcat
<1>4. (w \o c) \o <<q>> = w \o (c \o <<q>>) BY <1>1, ConcatAssociative
<1> QED BY <1>2, <1>3, <1>4

\* What a step does to the frames of a stream.
LEMMA PipeStep ==
  ASSUME HubInv, [HubNext]_hubVars, NEW s \in Streams
  PROVE  /\ Pipe(s) \in Seq(Posts)
         /\ \/ Pipe(s)' = Pipe(s)
            \/ Pipe(s) # <<>> /\ Pipe(s)' = Tail(Pipe(s))
            \/ \E q \in Posts : Publish(q) /\ Pipe(s)' = Append(Pipe(s), q)
<1> USE DEF requestVars, streamVars
<1>1. chan[s] \in Seq(Posts) /\ wire[s] \in Seq(Posts) BY DEF HubInv, HubTypeOK
<1>2. Pipe(s) \in Seq(Posts) BY <1>1 DEF Pipe
<1>3. ASSUME NEW t \in Streams, Deliver(t) PROVE Pipe(s)' = Pipe(s)
  <2>1. chan[t] # <<>> /\ s = t =>
          Append(wire[s], Head(chan[s])) \o Tail(chan[s]) = wire[s] \o chan[s]
    BY <1>1, PipeMoves
  <2>2. /\ chan' = [chan EXCEPT ![t] = Tail(chan[t])] /\ chan[t] # <<>>
        /\ wire' = [wire EXCEPT ![t] = Append(wire[t], Head(chan[t]))]
    BY <1>3 DEF Deliver
  <2> QED BY <2>1, <2>2 DEF Pipe, HubInv, HubTypeOK
<1>4. ASSUME NEW t \in Streams, ClientReads(t)
      PROVE  Pipe(s)' = Pipe(s) \/ (Pipe(s) # <<>> /\ Pipe(s)' = Tail(Pipe(s)))
  <2>1. wire[s] # <<>> => /\ Tail(wire[s]) \o chan[s] = Tail(wire[s] \o chan[s])
                          /\ wire[s] \o chan[s] # <<>>
    BY <1>1, PipeMoves
  <2>2. wire[t] # <<>> /\ wire' = [wire EXCEPT ![t] = Tail(wire[t])] /\ chan' = chan
    BY <1>4 DEF ClientReads
  <2> QED BY <2>1, <2>2 DEF Pipe, HubInv, HubTypeOK
<1>5. ASSUME NEW q \in Posts, Publish(q)
      PROVE  Pipe(s)' = Pipe(s) \/ (Publish(q) /\ Pipe(s)' = Append(Pipe(s), q))
  <2> DEFINE w == wire[s]
             c == chan[s]
  <2>1. w \in Seq(Posts) /\ c \in Seq(Posts) BY <1>1
  <2> HIDE DEF w, c
  <2>2. w \o Append(c, q) = Append(w \o c, q) BY <2>1, PipeGrows, Zenon
  <2>3. chan' = Offer(q) /\ wire' = wire BY <1>5 DEF Publish
  <2>4. chan'[s] = chan[s] \/ chan'[s] = Append(chan[s], q) BY <2>3 DEF Offer
  <2> QED BY <1>5, <2>2, <2>3, <2>4 DEF Pipe, w, c
<1>6. CASE UNCHANGED <<chan, wire>> BY <1>2, <1>6 DEF Pipe
<1>7. \/ UNCHANGED <<chan, wire>> \/ \E q \in Posts : Publish(q)
      \/ \E t \in Streams : Deliver(t) \/ ClientReads(t)
  <2>1. CASE UNCHANGED hubVars BY <2>1 DEF hubVars
  <2>2. ASSUME NEW q \in Posts, HandlerStep(q), ~Publish(q) PROVE UNCHANGED <<chan, wire>>
    BY <2>2 DEF HandlerStep, Commit, CommitUnannounced, ReplayFunding
  <2>3. ASSUME NEW t \in Streams, Greet(t) \/ Subscribe(t) \/ Unsubscribe(t) \/ Leave(t)
        PROVE  UNCHANGED <<chan, wire>>
    BY <2>3 DEF Greet, Subscribe, Unsubscribe, Leave
  <2>4. ASSUME ServerStep PROVE UNCHANGED <<chan, wire>>
    BY <2>4 DEF ServerStep, Signal, Drained, Deadline
  <2> QED BY <2>1, <2>2, <2>3, <2>4 DEF HubNext, StreamStep
<1> QED BY <1>2, <1>3, <1>4, <1>5, <1>6, <1>7

\* A step keeps the frames published: only a request that has not published yet
\* adds its event.
LEMMA SentStep ==
  ASSUME OrderInv, [HubNext]_hubVars
  PROVE  SentIsPublished'
<1> SUFFICES ASSUME NEW s \in Streams, NEW i \in DOMAIN Pipe(s)'
             PROVE  handler'[Pipe(s)'[i]] = "done"
  BY DEF SentIsPublished
<1>1. Pipe(s) \in Seq(Posts) BY PipeStep DEF OrderInv
<1>2. \A q \in Posts : handler[q] = "done" => handler'[q] = "done"
  <2> USE DEF requestVars, streamVars, OrderInv, HubInv, HubTypeOK
  <2>1. ASSUME NEW q \in Posts, HandlerStep(q) PROVE \A r \in Posts : handler[r] = "done" => handler'[r] = "done"
    BY <2>1 DEF HandlerStep, Commit, CommitUnannounced, ReplayFunding, Publish, Ready
  <2>2. ASSUME \/ \E t \in Streams : Greet(t) \/ StreamStep(t) \/ Leave(t) \/ ClientReads(t)
               \/ ServerStep \/ UNCHANGED hubVars
        PROVE  handler' = handler
    BY <2>2 DEF Greet, StreamStep, Subscribe, Deliver, Unsubscribe, Leave, ClientReads,
                ServerStep, Signal, Drained, Deadline, hubVars
  <2> QED BY <2>1, <2>2 DEF HubNext
<1>3. ASSUME NEW j \in DOMAIN Pipe(s) PROVE handler'[Pipe(s)[j]] = "done"
  BY <1>1, <1>2 DEF OrderInv, SentIsPublished
<1>4. CASE Pipe(s)' = Pipe(s) BY <1>3, <1>4
<1>5. CASE Pipe(s) # <<>> /\ Pipe(s)' = Tail(Pipe(s))
  <2>1. i + 1 \in DOMAIN Pipe(s) /\ Tail(Pipe(s))[i] = Pipe(s)[i + 1] BY <1>1, <1>5
  <2> QED BY <1>3, <1>5, <2>1
<1>6. ASSUME NEW q \in Posts, Publish(q), Pipe(s)' = Append(Pipe(s), q)
      PROVE  handler'[Pipe(s)'[i]] = "done"
  <2>1. handler'[q] = "done" BY <1>6 DEF Publish, OrderInv, HubInv, HubTypeOK
  <2>2. Append(Pipe(s), q)[i] = q \/ (i \in DOMAIN Pipe(s) /\ Append(Pipe(s), q)[i] = Pipe(s)[i])
    BY <1>1, <1>6
  <2> QED BY <1>3, <1>6, <2>1, <2>2
<1> QED BY <1>4, <1>5, <1>6, PipeStep DEF OrderInv

LEMMA OrderStep ==
  ASSUME OrderInv, [HubNext]_hubVars
  PROVE  ClientsAgreeOnOrder'
<1> SUFFICES ASSUME NEW s \in Streams, NEW t \in Streams, NEW p \in Posts, NEW q \in Posts,
                    Before(Pipe(s)', p, q), Before(Pipe(t)', q, p)
             PROVE  FALSE
  BY DEF ClientsAgreeOnOrder
<1> DEFINE Sent(u, x) == \E i \in DOMAIN Pipe(u) : Pipe(u)[i] = x
\* An order of two frames is an old one, or the second has just been published.
<1>1. ASSUME NEW u \in Streams, NEW x \in Posts, NEW y \in Posts, Before(Pipe(u)', x, y)
      PROVE  Before(Pipe(u), x, y) \/ (Publish(y) /\ Sent(u, x))
  <2>1. /\ Pipe(u) \in Seq(Posts)
        /\ \/ Pipe(u)' = Pipe(u)
           \/ Pipe(u) # <<>> /\ Pipe(u)' = Tail(Pipe(u))
           \/ \E r \in Posts : Publish(r) /\ Pipe(u)' = Append(Pipe(u), r)
    BY PipeStep DEF OrderInv
  <2>2. CASE Pipe(u)' = Pipe(u) BY <1>1, <2>2
  <2>3. CASE Pipe(u) # <<>> /\ Pipe(u)' = Tail(Pipe(u)) BY <1>1, <2>1, <2>3, TailOrder
  <2>4. ASSUME NEW r \in Posts, Publish(r), Pipe(u)' = Append(Pipe(u), r)
        PROVE  Before(Pipe(u), x, y) \/ (Publish(y) /\ Sent(u, x))
    <3>1. Before(Append(Pipe(u), r), x, y) BY <1>1, <2>4
    <3>2. Before(Pipe(u), x, y) \/ (y = r /\ \E i \in DOMAIN Pipe(u) : Pipe(u)[i] = x)
      BY <2>1, <3>1, AppendOrder
    <3> QED BY <2>4, <3>2
  <2> QED BY <2>1, <2>2, <2>3, <2>4
<1>2. ASSUME NEW u \in Streams, NEW x \in Posts, Publish(x) PROVE ~Sent(u, x)
  BY <1>2 DEF Publish, Ready, OrderInv, SentIsPublished
<1>3. ASSUME NEW x \in Posts, NEW y \in Posts, Publish(x), Publish(y) PROVE x = y
  BY <1>3 DEF Publish, Ready, OrderInv, HubInv, HubTypeOK
<1>4. ASSUME NEW u \in Streams, NEW x \in Posts, NEW y \in Posts, Before(Pipe(u), x, y)
      PROVE  Sent(u, x) /\ Sent(u, y)
  BY <1>4 DEF Before
<1> QED BY <1>1, <1>2, <1>3, <1>4 DEF OrderInv, ClientsAgreeOnOrder

\* No two clients are sent two events in opposite orders, and none is sent one
\* event twice: a step only removes a client's first frame or appends the event
\* of a request that has never published, to the frames of every client at once.
THEOREM ClientsAgree == HubSpec => []ClientsAgreeOnOrder
<1>1. HubInit => OrderInv
  BY HubInit_Inv DEF HubInit, OrderInv, ClientsAgreeOnOrder, SentIsPublished, Before, Pipe
<1>2. OrderInv /\ [HubNext]_hubVars => OrderInv'
  BY HubStep_Inv, SentStep, OrderStep DEF OrderInv
<1> QED BY <1>1, <1>2, PTL DEF HubSpec, OrderInv

-----------------------------------------------------------------------------
(* The pool, for any number of calls and connections                       *)

USE PoolAssumption

\* Where a call without connections is, with one and with two.
Without == {"idle", "start", "begin", "fetch", "done"}
WithOne == {"reading", "lookup", "locking", "locked", "fetching", "next", "last"}

\* The places of a call of each kind.
PlacesOf(c) ==
  IF c \in Listings THEN {"idle", "start", "next", "items", "last", "done"}
  ELSE IF c \in Payings THEN {"idle", "start", "lookup", "begin", "locking", "locked", "fetch", "fetching", "done"}
  ELSE {"idle", "start", "reading", "done"}

\* A call keeps as many connections as its place says, and a listing that asks
\* for items has an invoice to ask for.
CallPlace(c) ==
  /\ at[c] \in PlacesOf(c)
  /\ conns[c] = IF at[c] \in Without THEN 0 ELSE IF at[c] = "items" THEN 2 ELSE 1
  /\ at[c] \in {"next", "items"} => unread[c] > 0

\* The lock is held by a payment between its lock and the end of its transaction.
LockPlace == lockedBy # NoCall => lockedBy \in Callers /\ at[lockedBy] = "locked"

PoolInv ==
  /\ at \in [Callers -> Without \cup WithOne \cup {"items"}]
  /\ conns \in [Callers -> 0..2] /\ unread \in [Callers -> 0..Listed]
  /\ \A c \in Callers : CallPlace(c)
  /\ LockPlace
  /\ IsFiniteSet(Slots) /\ Taken <= PoolSize

\* One connection more is one element more.
LEMMA SlotsMore ==
  ASSUME NEW c \in Callers, conns \in [Callers -> 0..2], conns[c] < 2,
         conns' = [conns EXCEPT ![c] = @ + 1], IsFiniteSet(Slots), Taken < PoolSize, Taken \in Int
  PROVE  IsFiniteSet(Slots') /\ Taken' <= PoolSize
<1> DEFINE new == <<c, conns[c] + 1>>
<1>1. Slots' = Slots \cup {new}
  <2>1. ASSUME NEW d \in Callers, NEW i \in 1..2
        PROVE i <= conns'[d] <=> (i <= conns[d] \/ (d = c /\ i = conns[c] + 1))
    BY DEF Slots
  <2>2. conns[c] + 1 \in 1..2 OBVIOUS
  <2> QED BY <2>1, <2>2 DEF Slots
<1>2. new \notin Slots BY DEF Slots
<1>3. Cardinality(Slots) \in Nat BY FS_CardinalityType
<1> HIDE DEF new
<1>4. IsFiniteSet(Slots') /\ Cardinality(Slots') = Cardinality(Slots) + 1 BY <1>1, <1>2, FS_AddElement
<1> QED BY <1>3, <1>4 DEF Taken

\* Fewer connections are a smaller set.
LEMMA SlotsLess ==
  ASSUME conns \in [Callers -> 0..2], conns' \in [Callers -> 0..2],
         \A d \in Callers : conns'[d] <= conns[d], IsFiniteSet(Slots), Taken <= PoolSize
  PROVE  IsFiniteSet(Slots') /\ Taken' <= PoolSize
<1>1. Slots' \subseteq Slots
  <2>1. ASSUME NEW d \in Callers, NEW i \in 1..2, i <= conns'[d] PROVE i <= conns[d]
    <3>1. conns'[d] <= conns[d] /\ conns'[d] \in Int /\ conns[d] \in Int /\ i \in Int OBVIOUS
    <3> QED BY <2>1, <3>1
  <2> QED BY <2>1 DEF Slots
<1>2. IsFiniteSet(Slots') /\ Cardinality(Slots') <= Cardinality(Slots) BY <1>1, FS_Subset
<1>3. Cardinality(Slots) \in Nat /\ Cardinality(Slots') \in Nat BY <1>2, FS_CardinalityType
<1> QED BY <1>2, <1>3 DEF Taken

\* A call takes a connection where its place lets it.
LEMMA AcquireStep ==
  ASSUME PoolInv, NEW c \in Callers, NEW to \in PlacesOf(c) \ Without, Acquire(c, to),
         IF at[c] = "next" THEN to = "items" ELSE at[c] \in Without /\ to \in WithOne,
         to \in {"next", "items"} => unread[c] > 0
  PROVE  PoolInv'
<1>1. /\ at' = [at EXCEPT ![c] = to] /\ conns' = [conns EXCEPT ![c] = conns[c] + 1]
      /\ unread' = unread /\ lockedBy' = lockedBy /\ Taken < PoolSize
  BY DEF Acquire, Goes
<1>2. /\ conns \in [Callers -> 0..2] /\ IsFiniteSet(Slots)
      /\ conns[c] = IF at[c] \in Without THEN 0 ELSE IF at[c] = "items" THEN 2 ELSE 1
  BY DEF PoolInv, CallPlace
<1>3. conns[c] = IF at[c] = "next" THEN 1 ELSE 0 BY <1>2 DEF Without
<1>4. conns[c] + 1 = IF to = "items" THEN 2 ELSE 1 BY <1>3 DEF WithOne
<1>5. conns' \in [Callers -> 0..2] BY <1>1, <1>2, <1>3
<1>6. IsFiniteSet(Slots') /\ Taken' <= PoolSize
  <2>1. Taken \in Int BY <1>2, FS_CardinalityType DEF Taken
  <2>2. conns[c] < 2 BY <1>3
  <2> QED BY <1>1, <1>2, <2>1, <2>2, SlotsMore
<1>7. at' \in [Callers -> Without \cup WithOne \cup {"items"}]
  BY <1>1 DEF PoolInv, PlacesOf, Without, WithOne
<1>8. \A d \in Callers : CallPlace(d)'
  <2>1. ASSUME NEW d \in Callers, d # c PROVE CallPlace(d)' BY <1>1, <2>1 DEF PoolInv, CallPlace, PlacesOf
  <2>2. CallPlace(c)' BY <1>1, <1>4 DEF PoolInv, CallPlace, PlacesOf
  <2> QED BY <2>1, <2>2
<1>9. LockPlace'
  <2>1. at[c] # "locked" BY DEF Without
  <2> QED BY <1>1, <2>1 DEF PoolInv, LockPlace
<1> QED BY <1>1, <1>5, <1>6, <1>7, <1>8, <1>9 DEF PoolInv

\* A call gives one connection back.
LEMMA GiveBackStep ==
  ASSUME PoolInv, NEW c \in Callers, NEW to \in PlacesOf(c), GiveBack(c, to),
         IF at[c] = "items" THEN to \in {"next", "last"} ELSE at[c] \in WithOne /\ to \in Without,
         unread' \in [Callers -> 0..Listed], \A d \in Callers : d # c => unread'[d] = unread[d],
         to = "next" => unread'[c] > 0
  PROVE  PoolInv'
<1>1. /\ at' = [at EXCEPT ![c] = to] /\ conns' = [conns EXCEPT ![c] = conns[c] - 1]
      /\ lockedBy' = IF lockedBy = c THEN NoCall ELSE lockedBy
  BY DEF GiveBack, Goes
<1>2. /\ conns \in [Callers -> 0..2] /\ IsFiniteSet(Slots) /\ Taken <= PoolSize
      /\ conns[c] = IF at[c] \in Without THEN 0 ELSE IF at[c] = "items" THEN 2 ELSE 1
  BY DEF PoolInv, CallPlace
<1>3. conns[c] = IF at[c] = "items" THEN 2 ELSE 1 BY <1>2 DEF Without, WithOne
<1>4. conns[c] - 1 = IF to \in Without THEN 0 ELSE 1 BY <1>3 DEF Without
<1>5. conns' \in [Callers -> 0..2] BY <1>1, <1>2, <1>3
<1>6. IsFiniteSet(Slots') /\ Taken' <= PoolSize
  <2>1. \A d \in Callers : conns'[d] <= conns[d] BY <1>1, <1>2
  <2> QED BY <1>2, <1>5, <2>1, SlotsLess
<1>7. at' \in [Callers -> Without \cup WithOne \cup {"items"}]
  BY <1>1 DEF PoolInv, PlacesOf, Without, WithOne
<1>8. \A d \in Callers : CallPlace(d)'
  <2>1. ASSUME NEW d \in Callers, d # c PROVE CallPlace(d)' BY <1>1, <2>1 DEF PoolInv, CallPlace, PlacesOf
  <2>2. CallPlace(c)'
    <3>1. to # "items" BY DEF Without
    <3> QED BY <1>1, <1>4, <3>1 DEF PoolInv, CallPlace, PlacesOf
  <2> QED BY <2>1, <2>2
<1>9. LockPlace' BY <1>1 DEF PoolInv, LockPlace
<1> QED BY <1>5, <1>6, <1>7, <1>8, <1>9 DEF PoolInv

\* A step without connections of a call that does not hold the lock, or takes it.
LEMMA MovesOn ==
  ASSUME PoolInv, NEW c \in Callers, NEW to \in PlacesOf(c), Goes(c, to), UNCHANGED <<conns, unread>>,
         \/ at[c] \in Without /\ to \in Without /\ lockedBy' = lockedBy
         \/ at[c] = "locking" /\ to = "locked" /\ lockedBy' = c
  PROVE  PoolInv'
<1>1. at' = [at EXCEPT ![c] = to] /\ conns' = conns /\ unread' = unread BY DEF Goes
<1>2. at' \in [Callers -> Without \cup WithOne \cup {"items"}]
  BY <1>1 DEF PoolInv, PlacesOf, Without, WithOne
<1>3. \A d \in Callers : CallPlace(d)'
  <2>1. ASSUME NEW d \in Callers, d # c PROVE CallPlace(d)' BY <1>1, <2>1 DEF PoolInv, CallPlace, PlacesOf
  <2>2. CallPlace(c)' BY <1>1 DEF PoolInv, CallPlace, PlacesOf, Without
  <2> QED BY <2>1, <2>2
<1>4. LockPlace' BY <1>1 DEF PoolInv, LockPlace, Without
<1>5. IsFiniteSet(Slots') /\ Taken' <= PoolSize BY <1>1 DEF PoolInv, Slots, Taken
<1> QED BY <1>1, <1>2, <1>3, <1>4, <1>5 DEF PoolInv

LEMMA PoolInit_Inv == PoolInit => PoolInv
<1> SUFFICES ASSUME PoolInit PROVE PoolInv OBVIOUS
<1>1. /\ at = [c \in Callers |-> "idle"] /\ conns = [c \in Callers |-> 0]
      /\ unread = [c \in Callers |-> Listed] /\ lockedBy = NoCall
  BY DEF PoolInit
<1>2. Slots = {} BY <1>1 DEF Slots
<1>3. IsFiniteSet(Slots) /\ Taken = 0 BY <1>2, FS_EmptySet DEF Taken
<1> QED BY <1>1, <1>3 DEF PoolInv, CallPlace, LockPlace, PlacesOf, Without

LEMMA ReadingStep_Inv ==
  ASSUME PoolInv, NEW c \in Readings, ReadingStep(c)
  PROVE  PoolInv'
<1>1. c \in Callers /\ PlacesOf(c) = {"idle", "start", "reading", "done"} BY DEF Callers, PlacesOf
<1>2. CASE at[c] = "start" /\ Acquire(c, "reading")
  BY <1>1, <1>2, AcquireStep DEF Without, WithOne
<1>3. CASE at[c] = "reading" /\ GiveBack(c, "done") /\ UNCHANGED unread
  BY <1>1, <1>3, GiveBackStep DEF Without, WithOne, PoolInv
<1> QED BY <1>2, <1>3 DEF ReadingStep

LEMMA PayingStep_Inv ==
  ASSUME PoolInv, NEW c \in Payings, PayingStep(c)
  PROVE  PoolInv'
<1>1. /\ c \in Callers
      /\ PlacesOf(c) = {"idle", "start", "lookup", "begin", "locking", "locked", "fetch", "fetching", "done"}
  BY DEF Callers, PlacesOf
<1>2. unread \in [Callers -> 0..Listed] BY DEF PoolInv
<1>3. CASE LookKeyUp(c)
  <2>1. CASE at[c] = "start" /\ Acquire(c, "lookup") BY <1>1, <2>1, AcquireStep DEF Without, WithOne
  <2>2. ASSUME NEW to \in {"begin", "fetch"}, at[c] = "lookup", GiveBack(c, to), UNCHANGED unread PROVE PoolInv'
    BY <1>1, <1>2, <2>2, GiveBackStep DEF Without, WithOne
  <2> QED BY <1>3, <2>1, <2>2 DEF LookKeyUp
<1>4. CASE LockAccount(c)
  <2>1. CASE at[c] = "begin" /\ Acquire(c, "locking") BY <1>1, <2>1, AcquireStep DEF Without, WithOne
  <2>2. CASE at[c] = "locking" /\ lockedBy' = c /\ Goes(c, "locked") /\ UNCHANGED <<conns, unread>>
    BY <1>1, <2>2, MovesOn
  <2> QED BY <1>4, <2>1, <2>2 DEF LockAccount
<1>5. CASE LoseKey(c) BY <1>1, <1>2, <1>5, GiveBackStep DEF LoseKey, Without, WithOne
<1>6. CASE EndTransaction(c)
  <2>1. PICK to \in {"fetch", "done"} : at[c] = "locked" /\ UNCHANGED unread /\ GiveBack(c, to)
    BY <1>6 DEF EndTransaction
  <2> QED BY <1>1, <1>2, <2>1, GiveBackStep DEF Without, WithOne
<1>7. CASE FetchPaid(c)
  <2>1. CASE at[c] = "fetch" /\ Acquire(c, "fetching") BY <1>1, <2>1, AcquireStep DEF Without, WithOne
  <2>2. CASE at[c] = "fetching" /\ GiveBack(c, "done") /\ UNCHANGED unread
    BY <1>1, <1>2, <2>2, GiveBackStep DEF Without, WithOne
  <2> QED BY <1>7, <2>1, <2>2 DEF FetchPaid
<1> QED BY <1>3, <1>4, <1>5, <1>6, <1>7 DEF PayingStep

LEMMA ListingStep_Inv ==
  ASSUME PoolInv, NEW c \in Listings, ListingStep(c)
  PROVE  PoolInv'
<1>1. c \in Callers /\ PlacesOf(c) = {"idle", "start", "next", "items", "last", "done"} BY DEF Callers, PlacesOf
<1>2. unread \in [Callers -> 0..Listed] /\ unread[c] \in Nat BY <1>1 DEF PoolInv
<1>3. at[c] \in {"next", "items"} => unread[c] > 0 BY <1>1 DEF PoolInv, CallPlace
<1>4. CASE at[c] = "start" /\ Acquire(c, NextRow(c))
  <2>1. NextRow(c) \in {"last", "next"} /\ (NextRow(c) = "next" => unread[c] > 0) BY <1>2 DEF NextRow
  <2> QED BY <1>1, <1>4, <2>1, AcquireStep DEF Without, WithOne
<1>5. CASE at[c] = "next" /\ Acquire(c, "items") BY <1>1, <1>3, <1>5, AcquireStep DEF Without
<1>6. CASE /\ at[c] = "items" /\ unread' = [unread EXCEPT ![c] = @ - 1]
           /\ GiveBack(c, IF unread'[c] = 0 THEN "last" ELSE "next")
  <2> DEFINE to == IF unread'[c] = 0 THEN "last" ELSE "next"
  <2>1. unread[c] - 1 \in 0..Listed BY <1>1, <1>2, <1>3, <1>6
  <2>2. /\ unread' \in [Callers -> 0..Listed] /\ unread'[c] \in 0..Listed
        /\ \A d \in Callers : d # c => unread'[d] = unread[d]
    BY <1>1, <1>2, <1>6, <2>1
  <2>3. to \in {"next", "last"} /\ (to = "next" => unread'[c] > 0) BY <2>2
  <2>4. GiveBack(c, to) BY <1>6
  <2> HIDE DEF to
  <2> QED BY <1>1, <1>6, <2>2, <2>3, <2>4, GiveBackStep DEF Without
<1>7. CASE at[c] = "last" /\ GiveBack(c, "done") /\ UNCHANGED unread
  BY <1>1, <1>2, <1>7, GiveBackStep DEF Without, WithOne
<1> QED BY <1>4, <1>5, <1>6, <1>7 DEF ListingStep

LEMMA ClientGone_Inv ==
  ASSUME PoolInv, NEW c \in Callers, ClientGone(c)
  PROVE  PoolInv'
<1>1. /\ at' = [at EXCEPT ![c] = "done"] /\ conns' = [conns EXCEPT ![c] = 0] /\ unread' = unread
      /\ lockedBy' = IF lockedBy = c THEN NoCall ELSE lockedBy
  BY DEF ClientGone, Goes
<1>2. conns \in [Callers -> 0..2] /\ IsFiniteSet(Slots) /\ Taken <= PoolSize BY DEF PoolInv
<1>3. conns' \in [Callers -> 0..2] /\ \A d \in Callers : conns'[d] <= conns[d] BY <1>1, <1>2
<1>4. IsFiniteSet(Slots') /\ Taken' <= PoolSize BY <1>2, <1>3, SlotsLess
<1>5. at' \in [Callers -> Without \cup WithOne \cup {"items"}] BY <1>1 DEF PoolInv, Without
<1>6. \A d \in Callers : CallPlace(d)'
  <2>1. ASSUME NEW d \in Callers, d # c PROVE CallPlace(d)' BY <1>1, <2>1 DEF PoolInv, CallPlace, PlacesOf
  <2>2. CallPlace(c)' BY <1>1 DEF PoolInv, CallPlace, PlacesOf, Without
  <2> QED BY <2>1, <2>2
<1>7. LockPlace' BY <1>1 DEF PoolInv, LockPlace
<1> QED BY <1>1, <1>3, <1>4, <1>5, <1>6, <1>7 DEF PoolInv

LEMMA PoolStep_Inv ==
  ASSUME PoolInv, [PoolNext]_poolVars
  PROVE  PoolInv'
<1>1. ASSUME NEW c \in Callers, Begins(c) PROVE PoolInv'
  <2>1. "start" \in PlacesOf(c) BY DEF PlacesOf
  <2> QED BY <1>1, <2>1, MovesOn DEF Begins, Without
<1>2. ASSUME NEW c \in Callers, CallStep(c) PROVE PoolInv'
  BY <1>2, ListingStep_Inv, PayingStep_Inv, ReadingStep_Inv DEF CallStep
<1>3. ASSUME NEW c \in Callers, ClientGone(c) PROVE PoolInv' BY <1>3, ClientGone_Inv
<1>4. CASE UNCHANGED poolVars
  BY <1>4 DEF poolVars, PoolInv, CallPlace, LockPlace, Slots, Taken
<1> QED BY <1>1, <1>2, <1>3, <1>4 DEF PoolNext

\* The pool's bound holds whatever is called; a call that has ended keeps no
\* connection, and the holder of the lock keeps the one of its transaction and
\* waits for no other.
THEOREM PoolBounded == PoolSpec => []PoolTypeOK
<1>1. PoolInv /\ [PoolNext]_poolVars => PoolInv' BY PoolStep_Inv
<1>2. PoolInv => PoolTypeOK
  <2> SUFFICES ASSUME PoolInv PROVE PoolTypeOK OBVIOUS
  <2>1. \A c \in Callers : at[c] \in {"idle", "done"} => conns[c] = 0
    BY DEF PoolInv, CallPlace, Without
  <2>2. lockedBy # NoCall => conns[lockedBy] = 1 /\ ~Asking(lockedBy)
    BY DEF PoolInv, CallPlace, LockPlace, Without, Asking
  <2> QED BY <2>1, <2>2 DEF PoolInv, PoolTypeOK
<1> QED BY PoolInit_Inv, <1>1, <1>2, PTL DEF PoolSpec

\* The lock is held by a payment that waits for nobody.
LEMMA HolderGoesOn ==
  ASSUME PoolInv, lockedBy # NoCall
  PROVE  \E c \in Callers : GoesOn(c)
BY DEF PoolInv, LockPlace, GoesOn, Asking

\* When every call that is there asks for a connection and there is none, the
\* connections are those of listings that ask for another one.
LEMMA AllAskingJam ==
  ASSUME PoolInv, ~(Taken < PoolSize),
         \A c \in Callers : at[c] \in {"idle", "done"} \/ Asking(c)
  PROVE  Jammed
<1> DEFINE J == {c \in Callers : at[c] = "next"}
<1>1. \A c \in Callers : CallPlace(c) BY DEF PoolInv
<1>2. J \subseteq Listings BY <1>1 DEF CallPlace, PlacesOf
<1>3. \A c \in J : conns[c] = 1 /\ Asking(c) BY <1>1 DEF CallPlace, Asking, Without
<1>4. Slots = J \X {1}
  <2>1. \A c \in Callers : conns[c] = IF c \in J THEN 1 ELSE 0
    BY <1>1 DEF CallPlace, Asking, Without
  <2> QED BY <2>1 DEF Slots
<1>5. Cardinality(J) = PoolSize
  <2> DEFINE caller == [k \in Slots |-> k[1]]
  <2>1. caller \in Bijection(Slots, J)
    <3>1. caller \in [Slots -> J] BY <1>4
    <3>2. \A k, l \in Slots : caller[k] = caller[l] => k = l BY <1>4
    <3>3. \A c \in J : <<c, 1>> \in Slots /\ caller[<<c, 1>>] = c BY <1>4
    <3> QED BY <3>1, <3>2, <3>3, Fun_IsBij
  <2>2. IsFiniteSet(Slots) /\ Taken <= PoolSize BY DEF PoolInv
  <2>3. Cardinality(J) = Cardinality(Slots) BY <2>1, <2>2, FS_Bijection DEF ExistsBijection
  <2>4. Cardinality(Slots) \in Nat BY <2>2, FS_CardinalityType
  <2> QED BY <2>2, <2>3, <2>4 DEF Taken
<1> HIDE DEF J
<1> QED BY <1>2, <1>3, <1>5 DEF Jammed

\* Calls that all wait wait for listings: a lock is held by one that does not
\* wait, and without locks all of them ask the pool.
THEOREM OnlyListingsEverStop == PoolSpec => []OnlyListingsStop
<1>1. PoolInv /\ [PoolNext]_poolVars => PoolInv' BY PoolStep_Inv
<1>2. PoolInv => OnlyListingsStop
  <2> SUFFICES ASSUME PoolInv, \A c \in Callers : ~GoesOn(c),
                      NEW d \in Callers, at[d] \notin {"idle", "done"}
               PROVE  Jammed
    BY DEF OnlyListingsStop, PoolAtRest
  <2>1. lockedBy = NoCall BY HolderGoesOn
  <2>2. \A c \in Callers : at[c] \in {"idle", "done"} \/ (Asking(c) /\ ~(Taken < PoolSize))
    BY <2>1 DEF GoesOn
  <2> QED BY <2>2, AllAskingJam
<1> QED BY PoolInit_Inv, <1>1, <1>2, PTL DEF PoolSpec

\* With more connections than there are listings at a time, some call in the pool
\* always goes on: the size from which ListInvoices is harmless.
SomeGoesOn ==
  (\A c \in Callers : at[c] \in {"idle", "done"}) \/ (\E c \in Callers : GoesOn(c))

THEOREM LargePoolsNeverStop ==
  ASSUME IsFiniteSet(Listings), Cardinality(Listings) < PoolSize
  PROVE  PoolSpec => []SomeGoesOn
<1>1. ~Jammed
  <2> SUFFICES ASSUME NEW J \in SUBSET Listings, Cardinality(J) = PoolSize PROVE FALSE
    BY DEF Jammed
  <2>1. Cardinality(J) <= Cardinality(Listings) BY FS_Subset
  <2>2. Cardinality(J) \in Nat /\ Cardinality(Listings) \in Nat BY FS_Subset, FS_CardinalityType
  <2> QED BY <2>1, <2>2
<1>2. OnlyListingsStop => SomeGoesOn BY <1>1 DEF OnlyListingsStop, PoolAtRest, SomeGoesOn
<1> QED BY <1>2, OnlyListingsEverStop, PTL

-----------------------------------------------------------------------------
(* Users and accounts, for any number of engines and registrations.        *)

\* A row of a job that works for its own user.
OwnRow(j, type, cur) == [by |-> j, user |-> j, type |-> type, cur |-> cur]

\* The tables: a phone is of one user, and what a user owns has been committed
\* with it.
PhonesInv ==
  /\ \A u, v \in Jobs : users[u] # Nobody /\ users[u] = users[v] => u = v
  /\ \A u \in Jobs : users[u] # Nobody => (users[u] = Reserved <=> u \in Engines)
SettlementInv ==
  /\ \A a \in accounts : users[a.user] # Nobody /\ (a.type = "SETTLEMENT" <=> a.user \in Engines)
  /\ \A cur \in Corridor : \A a, b \in SettlementRows(cur) : a = b
  /\ \A u \in Jobs : users[u] = Reserved => \A cur \in Corridor : \E a \in SettlementRows(cur) : a.user = u
WalletsInv ==
  \A g \in Registrations :
    users[g] # Nobody =>
      \E cur \in Corridor :
        {a \in accounts : a.user = g} = {OwnRow(g, "PERSONAL", cur), OwnRow(g, "BUSINESS", cur)}
TablesInv == PhonesInv /\ SettlementInv /\ WalletsInv

\* Who starts works on the user that is there, and adds nothing, or on one of its
\* own, while nobody has the phone.
StartInv(e) ==
  /\ step[e] \in {"down", "user", "RWF", "KES", "commit", "up"}
  /\ step[e] = "user" => owner[e] = Nobody /\ rows[e] = {}
  /\ step[e] = "up" => Registered(Reserved) # {}
  /\ step[e] \in {"RWF", "KES", "commit"} =>
       \/ owner[e] \in Jobs /\ users[owner[e]] = Reserved /\ rows[e] = {}
       \/ /\ owner[e] = e /\ Registered(Reserved) = {}
          /\ step[e] = "RWF" => rows[e] = {}
          /\ step[e] = "KES" => rows[e] = {OwnRow(e, "SETTLEMENT", "RWF")}
          /\ step[e] = "commit" => rows[e] = {OwnRow(e, "SETTLEMENT", "RWF"), OwnRow(e, "SETTLEMENT", "KES")}

\* Who registers works on a user of its own, while nobody has its phone.
RegistrationInv(g) ==
  /\ step[g] \in {"idle", "user", "PERSONAL", "BUSINESS", "commit", "created", "taken", "failed"}
  /\ step[g] = "user" => owner[g] = Nobody /\ rows[g] = {}
  /\ step[g] \in {"idle", "user", "PERSONAL", "BUSINESS", "commit"} => users[g] = Nobody
  /\ InTransaction(g) => asked[g] \in [phone : Phones, cur : Corridor] /\ Registered(Reserved) # {}
  /\ step[g] \in {"PERSONAL", "BUSINESS", "commit"} =>
       /\ owner[g] = g /\ Registered(PhoneOf(g)) = {}
       /\ step[g] = "PERSONAL" => rows[g] = {}
       /\ step[g] = "BUSINESS" => rows[g] = {OwnRow(g, "PERSONAL", asked[g].cur)}
       /\ step[g] = "commit" => rows[g] = {OwnRow(g, "PERSONAL", asked[g].cur), OwnRow(g, "BUSINESS", asked[g].cur)}

\* Nobody works on the user of another's phone.
OneWorker ==
  \A j, k \in Jobs : owner[j] # Nobody /\ owner[k] # Nobody /\ PhoneOf(j) = PhoneOf(k) => j = k

UsersInv ==
  /\ UsersTypeOK /\ TablesInv /\ OneWorker
  /\ \A e \in Engines : StartInv(e)
  /\ \A g \in Registrations : RegistrationInv(g)

LEMMA UsersInit_Inv == UsersInit => UsersInv
BY UsersAssumption DEF UsersInit, UsersInv, UsersTypeOK, TablesInv, PhonesInv, SettlementInv, WalletsInv, OneWorker,
   StartInv, RegistrationInv, InTransaction, SettlementRows, Jobs

LEMMA JobKinds ==
  /\ \A e \in Engines : e \in Jobs /\ e \notin Registrations
  /\ \A g \in Registrations : g \in Jobs /\ g \notin Engines
  /\ \A j \in Jobs : j # Nobody /\ (j \in Engines \/ j \in Registrations)
  /\ Reserved # Nobody /\ Nobody \notin Phones
BY UsersAssumption DEF Jobs

\* A job of which nothing changes, while the tables stay.
LEMMA JobStays ==
  ASSUME NEW j \in Jobs, UNCHANGED tables,
         step'[j] = step[j], owner'[j] = owner[j], rows'[j] = rows[j],
         j \in Registrations => asked'[j] = asked[j]
  PROVE  /\ PhoneOf(j)' = PhoneOf(j)
         /\ j \in Engines /\ StartInv(j) => StartInv(j)'
         /\ j \in Registrations /\ RegistrationInv(j) => RegistrationInv(j)'
<1>1. PhoneOf(j)' = PhoneOf(j) BY JobKinds DEF PhoneOf
<1>2. \A ph : Registered(ph)' = Registered(ph) BY DEF Registered, tables
<1>3. ASSUME j \in Engines, StartInv(j) PROVE StartInv(j)'
  BY <1>2, <1>3 DEF StartInv, OwnRow, tables
<1>4. ASSUME j \in Registrations, RegistrationInv(j) PROVE RegistrationInv(j)'
  BY <1>1, <1>2, <1>4 DEF RegistrationInv, InTransaction, OwnRow, tables
<1> QED BY <1>1, <1>3, <1>4

\* One job executes a statement that does not end its transaction.
LEMMA OneMoves ==
  ASSUME UsersInv, UsersTypeOK', NEW j \in Jobs, UNCHANGED tables,
         \A k \in Jobs \ {j} :
           /\ step'[k] = step[k] /\ owner'[k] = owner[k] /\ rows'[k] = rows[k]
           /\ k \in Registrations => asked'[k] = asked[k],
         j \in Engines => StartInv(j)', j \in Registrations => RegistrationInv(j)',
         owner'[j] # Nobody =>
           \/ owner[j] # Nobody /\ PhoneOf(j)' = PhoneOf(j)
           \/ Working(PhoneOf(j)') = {}
  PROVE  UsersInv'
<1>1. TablesInv'
  BY DEF UsersInv, TablesInv, PhonesInv, SettlementInv, WalletsInv, SettlementRows, OwnRow, tables
<1>2. \A k \in Jobs \ {j} :
        /\ PhoneOf(k)' = PhoneOf(k)
        /\ k \in Engines /\ StartInv(k) => StartInv(k)'
        /\ k \in Registrations /\ RegistrationInv(k) => RegistrationInv(k)'
  BY JobStays
<1>3. (\A e \in Engines : StartInv(e)') /\ \A g \in Registrations : RegistrationInv(g)'
  BY <1>2, JobKinds DEF UsersInv
<1>4. OneWorker'
  <2> SUFFICES ASSUME NEW k \in Jobs, NEW l \in Jobs, owner'[k] # Nobody, owner'[l] # Nobody,
                      PhoneOf(k)' = PhoneOf(l)', k # l
               PROVE  FALSE
    BY DEF OneWorker
  <2>1. CASE k # j /\ l # j BY <1>2, <2>1 DEF UsersInv, OneWorker
  <2>2. CASE k = j BY <1>2, <2>2 DEF UsersInv, OneWorker, Working
  <2>3. CASE l = j BY <1>2, <2>3 DEF UsersInv, OneWorker, Working
  <2> QED BY <2>1, <2>2, <2>3
<1> QED BY <1>1, <1>3, <1>4 DEF UsersInv

LEMMA StartStays ==
  ASSUME UsersInv, NEW e \in Engines, Start(e)
  PROVE  UsersInv'
<1> USE JobKinds DEF UsersInv, work, tables
<1>1. step[e] = "down" /\ step' = [step EXCEPT ![e] = "user"] /\ UNCHANGED <<tables, owner, rows, asked, host>>
  BY DEF Start
<1>2. owner[e] = Nobody /\ rows[e] = {} BY <1>1 DEF UsersTypeOK, InTransaction
<1>3. step'[e] = "user" /\ \A k \in Jobs \ {e} : step'[k] = step[k] BY <1>1 DEF UsersTypeOK
<1>4. UsersTypeOK'
  <2>1. \A h \in Engines : step[h] = "up" => step'[h] = "up" BY <1>1, <1>3
  <2> QED BY <1>1, <1>2, <1>3, <2>1 DEF UsersTypeOK, InTransaction
<1>5. StartInv(e)' BY <1>1, <1>2, <1>3 DEF StartInv
<1> QED BY <1>1, <1>2, <1>3, <1>4, <1>5, OneMoves

LEMMA EnsureUserStays ==
  ASSUME UsersInv, NEW e \in Engines, EnsureUser(e)
  PROVE  UsersInv'
<1> USE JobKinds DEF UsersInv, tables
<1>1. /\ step[e] = "user" /\ Working(Reserved) = {} /\ step' = [step EXCEPT ![e] = "RWF"]
      /\ UNCHANGED <<tables, rows, asked, host>>
  BY DEF EnsureUser
<1>2. PICK u \in IF Registered(Reserved) = {} THEN {e} ELSE Registered(Reserved) : owner' = [owner EXCEPT ![e] = u]
  BY DEF EnsureUser
<1>3. u \in Jobs /\ ((u = e /\ Registered(Reserved) = {}) \/ users[u] = Reserved) BY <1>2 DEF Registered
<1>4. owner[e] = Nobody /\ rows[e] = {} BY <1>1 DEF StartInv
<1>5. step'[e] = "RWF" /\ owner'[e] = u /\ \A k \in Jobs \ {e} : step'[k] = step[k] /\ owner'[k] = owner[k]
  BY <1>1, <1>2 DEF UsersTypeOK
<1>6. UsersTypeOK'
  <2>1. \A h \in Engines : step[h] = "up" => step'[h] = "up" BY <1>1, <1>5
  <2> QED BY <1>1, <1>2, <1>3, <1>4, <1>5, <2>1 DEF UsersTypeOK, InTransaction
<1>7. StartInv(e)' BY <1>1, <1>3, <1>4, <1>5 DEF StartInv, Registered
<1>8. PhoneOf(e)' = Reserved BY DEF PhoneOf
<1> QED BY <1>1, <1>5, <1>6, <1>7, <1>8, OneMoves

LEMMA EnsureAccountStays ==
  ASSUME UsersInv, NEW e \in Engines, EnsureAccount(e)
  PROVE  UsersInv'
<1> USE JobKinds DEF UsersInv, tables
<1> DEFINE cur == step[e]
           n == NewAccount(e, "SETTLEMENT", cur)
<1>1. /\ cur \in Corridor /\ step' = [step EXCEPT ![e] = IF cur = "RWF" THEN "KES" ELSE "commit"]
      /\ UNCHANGED <<tables, owner, asked, host>>
  BY DEF EnsureAccount
<1>2. StartInv(e) /\ step[e] \in {"RWF", "KES"} BY <1>1 DEF Corridor
<1>3. step'[e] = (IF cur = "RWF" THEN "KES" ELSE "commit") /\ \A k \in Jobs \ {e} : step'[k] = step[k]
  BY <1>1 DEF UsersTypeOK
<1>4. /\ rows' \in [Jobs -> SUBSET AccountRow] /\ \A k \in Jobs \ {e} : rows'[k] = rows[k]
      /\ \/ users[owner[e]] = Reserved /\ rows'[e] = {}
         \/ owner[e] = e /\ Registered(Reserved) = {} /\ rows'[e] = rows[e] \cup {OwnRow(e, "SETTLEMENT", cur)}
  <2>1. CASE users[owner[e]] = Reserved /\ rows[e] = {} /\ owner[e] \in Jobs
    <3>1. \E a \in SettlementRows(cur) : a.user = owner[e] BY <1>1, <2>1 DEF TablesInv, SettlementInv
    <3>2. rows' = rows BY <3>1 DEF EnsureAccount
    <3> QED BY <2>1, <3>2 DEF UsersTypeOK
  <2>2. CASE owner[e] = e /\ Registered(Reserved) = {}
    <3>1. ASSUME NEW a \in SettlementRows(cur), a.user = e PROVE FALSE
      <4>1. a \in accounts /\ users[e] # Nobody BY <3>1 DEF SettlementRows, TablesInv, SettlementInv
      <4> QED BY <2>2, <4>1 DEF TablesInv, PhonesInv, Registered
    <3>2. rows' = [rows EXCEPT ![e] = rows[e] \cup {n}] BY <2>2, <3>1 DEF EnsureAccount
    <3>3. n = OwnRow(e, "SETTLEMENT", cur) /\ n \in AccountRow
      BY <1>1, <2>2 DEF NewAccount, OwnRow, AccountRow
    <3> HIDE DEF n
    <3> QED BY <2>2, <3>2, <3>3 DEF UsersTypeOK
  <2> QED BY <1>2, <2>1, <2>2 DEF StartInv
<1>5. UsersTypeOK'
  <2>1. \A h \in Engines : step[h] = "up" => step'[h] = "up" BY <1>2, <1>3
  <2>2. InTransaction(e)' BY <1>3 DEF InTransaction
  <2>3. step' \in [Jobs -> {"down", "up", "idle", "user", "RWF", "KES", "PERSONAL", "BUSINESS", "commit",
                            "created", "taken", "failed"}]
    BY <1>1 DEF UsersTypeOK
  <2> QED BY <1>1, <1>3, <1>4, <2>1, <2>2, <2>3 DEF UsersTypeOK, InTransaction
<1>6. StartInv(e)'
  <2>1. Registered(Reserved)' = Registered(Reserved) BY <1>1 DEF Registered
  <2>2. CASE users[owner[e]] = Reserved /\ rows'[e] = {}
    <3>1. owner[e] \in Jobs BY <1>2 DEF StartInv
    <3> QED BY <1>1, <1>3, <2>2, <3>1 DEF StartInv
  <2>3. CASE owner[e] = e /\ Registered(Reserved) = {} /\ rows'[e] = rows[e] \cup {OwnRow(e, "SETTLEMENT", cur)}
    <3>1. users[e] # Reserved BY <2>3 DEF Registered
    <3>2. CASE cur = "RWF"
      <4>1. rows[e] = {} BY <1>2, <2>3, <3>1, <3>2 DEF StartInv
      <4>2. rows'[e] = {OwnRow(e, "SETTLEMENT", "RWF")} BY <2>3, <3>2, <4>1
      <4> QED BY <1>1, <1>3, <2>1, <2>3, <3>2, <4>2 DEF StartInv, OwnRow
    <3>3. CASE cur = "KES"
      <4>1. rows[e] = {OwnRow(e, "SETTLEMENT", "RWF")} BY <1>2, <2>3, <3>1, <3>3 DEF StartInv
      <4>2. rows'[e] = {OwnRow(e, "SETTLEMENT", "RWF"), OwnRow(e, "SETTLEMENT", "KES")} BY <2>3, <3>3, <4>1
      <4> QED BY <1>1, <1>3, <2>1, <2>3, <3>3, <4>2 DEF StartInv, OwnRow
    <3> QED BY <1>2, <3>2, <3>3
  <2> QED BY <1>4, <2>2, <2>3
<1>7. PhoneOf(e)' = PhoneOf(e) BY DEF PhoneOf
<1> HIDE DEF n
<1> QED BY <1>1, <1>3, <1>4, <1>5, <1>6, <1>7, OneMoves

LEMMA ReceiveUserStays ==
  ASSUME UsersInv, NEW g \in Registrations, NEW e \in Engines, NEW ph \in Phones, NEW cur \in Corridor,
         ReceiveUser(g, e, ph, cur)
  PROVE  UsersInv'
<1> USE JobKinds DEF UsersInv, tables, work
<1>1. /\ step[g] = "idle" /\ step[e] = "up" /\ step' = [step EXCEPT ![g] = "user"]
      /\ asked' = [asked EXCEPT ![g] = [phone |-> ph, cur |-> cur]] /\ host' = [host EXCEPT ![g] = e]
      /\ UNCHANGED <<users, accounts, owner, rows>>
  BY DEF ReceiveUser
<1>2. owner[g] = Nobody /\ rows[g] = {} /\ users[g] = Nobody
  BY <1>1 DEF UsersTypeOK, InTransaction, RegistrationInv
<1>3. /\ step'[g] = "user" /\ asked'[g] = [phone |-> ph, cur |-> cur] /\ host'[g] = e
      /\ \A k \in Jobs \ {g} : step'[k] = step[k]
      /\ \A k \in Registrations \ {g} : asked'[k] = asked[k] /\ host'[k] = host[k]
  BY <1>1 DEF UsersTypeOK
<1>4. UsersTypeOK'
  <2>1. asked' \in [Registrations -> [phone : Phones, cur : Corridor] \cup {Nobody}] BY <1>1 DEF UsersTypeOK
  <2>2. host' \in [Registrations -> Engines \cup {Nobody}] BY <1>1 DEF UsersTypeOK
  <2>3. \A h \in Engines : step'[h] = step[h] BY <1>3
  <2>4. ASSUME NEW k \in Registrations, InTransaction(k)' PROVE host'[k] # Nobody /\ step'[host'[k]] = "up"
    BY <1>1, <1>3, <2>2, <2>3, <2>4 DEF UsersTypeOK, InTransaction
  <2>5. \A j \in Jobs : ~InTransaction(j)' => owner'[j] = Nobody /\ rows'[j] = {}
    BY <1>1, <1>2, <1>3 DEF UsersTypeOK, InTransaction
  <2> QED BY <1>1, <2>1, <2>2, <2>4, <2>5 DEF UsersTypeOK
<1>5. RegistrationInv(g)'
  <2>1. Registered(Reserved)' # {} BY <1>1 DEF StartInv, Registered
  <2> QED BY <1>1, <1>2, <1>3, <2>1 DEF RegistrationInv, InTransaction
<1> QED BY <1>1, <1>2, <1>3, <1>4, <1>5, OneMoves

LEMMA InsertUserStays ==
  ASSUME UsersInv, NEW g \in Registrations, InsertUser(g)
  PROVE  UsersInv'
<1> USE JobKinds DEF UsersInv, tables
<1> DEFINE ph == PhoneOf(g)
<1>1. step[g] = "user" /\ Working(ph) = {} /\ UNCHANGED <<users, accounts, rows, asked, host>> BY DEF InsertUser
<1>2. owner[g] = Nobody /\ rows[g] = {} /\ users[g] = Nobody /\ RegistrationInv(g)
  BY <1>1 DEF RegistrationInv
<1>3. \/ /\ Registered(ph) = {} /\ step' = [step EXCEPT ![g] = "PERSONAL"] /\ owner' = [owner EXCEPT ![g] = g]
      \/ step' = [step EXCEPT ![g] = "taken"] /\ owner' = owner
  BY DEF InsertUser
<1>4. /\ \A k \in Jobs \ {g} : step'[k] = step[k] /\ owner'[k] = owner[k]
      /\ \/ Registered(ph) = {} /\ step'[g] = "PERSONAL" /\ owner'[g] = g
         \/ step'[g] = "taken" /\ owner'[g] = Nobody
      /\ owner' \in [Jobs -> Jobs \cup {Nobody}]
      /\ step' \in [Jobs -> {"down", "up", "idle", "user", "RWF", "KES", "PERSONAL", "BUSINESS", "commit",
                             "created", "taken", "failed"}]
  BY <1>2, <1>3 DEF UsersTypeOK
<1>5. UsersTypeOK'
  <2>1. \A h \in Engines : step'[h] = step[h] BY <1>4
  <2> QED BY <1>1, <1>2, <1>4, <2>1 DEF UsersTypeOK, InTransaction
<1>6. PhoneOf(g)' = ph BY <1>1 DEF PhoneOf
<1>7. RegistrationInv(g)'
  <2>1. \A p : Registered(p)' = Registered(p) BY <1>1 DEF Registered
  <2> QED BY <1>1, <1>2, <1>4, <1>6, <2>1 DEF RegistrationInv, InTransaction
<1> QED BY <1>1, <1>2, <1>4, <1>5, <1>6, <1>7, OneMoves

LEMMA InsertAccountStays ==
  ASSUME UsersInv, NEW g \in Registrations, InsertAccount(g)
  PROVE  UsersInv'
<1> USE JobKinds DEF UsersInv, tables
<1> DEFINE n == NewAccount(g, step[g], asked[g].cur)
<1>1. /\ step[g] \in {"PERSONAL", "BUSINESS"} /\ UNCHANGED <<users, accounts, owner, asked, host>>
      /\ step' = [step EXCEPT ![g] = IF step[g] = "PERSONAL" THEN "BUSINESS" ELSE "commit"]
      /\ rows' = [rows EXCEPT ![g] = rows[g] \cup {n}]
  BY DEF InsertAccount
<1>2. /\ owner[g] = g /\ asked[g] \in [phone : Phones, cur : Corridor] /\ RegistrationInv(g)
      /\ InTransaction(g)
  BY <1>1 DEF RegistrationInv, InTransaction
<1>3. n = OwnRow(g, step[g], asked[g].cur) /\ n \in AccountRow
  <2>1. asked[g].cur \in Corridor BY <1>2
  <2> QED BY <1>1, <1>2, <2>1 DEF NewAccount, OwnRow, AccountRow
<1> HIDE DEF n
<1>4. /\ step'[g] = (IF step[g] = "PERSONAL" THEN "BUSINESS" ELSE "commit")
      /\ rows'[g] = rows[g] \cup {n} /\ rows' \in [Jobs -> SUBSET AccountRow]
      /\ \A k \in Jobs \ {g} : step'[k] = step[k] /\ rows'[k] = rows[k]
      /\ step' \in [Jobs -> {"down", "up", "idle", "user", "RWF", "KES", "PERSONAL", "BUSINESS", "commit",
                             "created", "taken", "failed"}]
  BY <1>1, <1>3 DEF UsersTypeOK
<1>5. UsersTypeOK'
  <2>1. \A h \in Engines : step'[h] = step[h] BY <1>4
  <2>2. InTransaction(g)' BY <1>4 DEF InTransaction
  <2> QED BY <1>1, <1>2, <1>4, <2>1, <2>2 DEF UsersTypeOK, InTransaction
<1>6. PhoneOf(g)' = PhoneOf(g) BY <1>1 DEF PhoneOf
<1>7. RegistrationInv(g)'
  <2>1. \A p : Registered(p)' = Registered(p) BY <1>1 DEF Registered
  <2>2. step[g] = "PERSONAL" => rows'[g] = {OwnRow(g, "PERSONAL", asked[g].cur)}
    BY <1>2, <1>3, <1>4 DEF RegistrationInv
  <2>3. step[g] = "BUSINESS" =>
          rows'[g] = {OwnRow(g, "PERSONAL", asked[g].cur), OwnRow(g, "BUSINESS", asked[g].cur)}
    BY <1>2, <1>3, <1>4 DEF RegistrationInv
  <2> QED BY <1>1, <1>2, <1>4, <1>6, <2>1, <2>2, <2>3 DEF RegistrationInv, InTransaction, OwnRow
<1> QED BY <1>1, <1>2, <1>4, <1>5, <1>6, <1>7, OneMoves

\* Some jobs end, and the tables stay: an engine serves only where the user of the
\* reserved phone is, and takes with it the registrations it has served.
LEMMA EndStays ==
  ASSUME UsersInv, UNCHANGED <<tables, asked, host>>, NEW S \in SUBSET Jobs,
         NEW ends \in [S -> {"down", "up", "failed"}], EndJobs(ends),
         \A e \in Engines : e \in S => ends[e] = "down" \/ (ends[e] = "up" /\ Registered(Reserved) # {}),
         \A g \in Registrations : g \in S => ends[g] = "failed",
         \A g \in Registrations : InTransaction(g) /\ host[g] \in S => g \in S \/ ends[host[g]] = "up"
  PROVE  UsersInv'
<1> USE JobKinds DEF UsersInv, tables
<1>1. /\ \A j \in S : step'[j] = ends[j] /\ owner'[j] = Nobody /\ rows'[j] = {}
      /\ \A j \in Jobs \ S : step'[j] = step[j] /\ owner'[j] = owner[j] /\ rows'[j] = rows[j]
      /\ step' \in [Jobs -> {"down", "up", "idle", "user", "RWF", "KES", "PERSONAL", "BUSINESS", "commit",
                             "created", "taken", "failed"}]
      /\ owner' \in [Jobs -> Jobs \cup {Nobody}] /\ rows' \in [Jobs -> SUBSET AccountRow]
  BY DEF EndJobs, UsersTypeOK
<1>2. UsersTypeOK'
  <2>1. \A j \in S : ~InTransaction(j)' BY <1>1 DEF InTransaction
  <2>2. \A j \in Jobs \ S : InTransaction(j)' <=> InTransaction(j) BY <1>1 DEF InTransaction
  <2>3. ASSUME NEW g \in Registrations, InTransaction(g)' PROVE host[g] # Nobody /\ step'[host[g]] = "up"
    BY <1>1, <2>1, <2>2, <2>3 DEF UsersTypeOK
  <2> QED BY <1>1, <2>1, <2>2, <2>3 DEF UsersTypeOK
<1>3. TablesInv'
  BY DEF TablesInv, PhonesInv, SettlementInv, WalletsInv, SettlementRows, OwnRow
<1>4. \A k \in Jobs \ S :
        /\ PhoneOf(k)' = PhoneOf(k)
        /\ k \in Engines /\ StartInv(k) => StartInv(k)'
        /\ k \in Registrations /\ RegistrationInv(k) => RegistrationInv(k)'
  BY <1>1, JobStays
<1>5. Registered(Reserved)' = Registered(Reserved) BY DEF Registered
<1>6. ASSUME NEW e \in Engines PROVE StartInv(e)'
  <2>1. CASE e \in S BY <1>1, <1>5, <2>1 DEF StartInv
  <2> QED BY <1>4, <2>1
<1>7. ASSUME NEW g \in Registrations PROVE RegistrationInv(g)'
  <2>1. CASE g \in S BY <1>1, <2>1 DEF RegistrationInv, InTransaction
  <2> QED BY <1>4, <2>1
<1>8. OneWorker' BY <1>1, <1>4 DEF OneWorker
<1> QED BY <1>2, <1>3, <1>6, <1>7, <1>8

LEMMA StopStays ==
  ASSUME UsersInv, NEW e \in Engines, Stop(e)
  PROVE  UsersInv'
<1> USE JobKinds
<1> DEFINE S == {e} \cup Served(e)
           ends == [j \in S |-> IF j = e THEN "down" ELSE "failed"]
<1>1. S \in SUBSET Jobs /\ ends \in [S -> {"down", "up", "failed"}] BY DEF Served
<1>2. EndJobs(ends) /\ UNCHANGED <<tables, asked, host>> BY DEF Stop
<1>3. \A h \in Engines : h \in S => ends[h] = "down" \/ (ends[h] = "up" /\ Registered(Reserved) # {})
  BY DEF Served
<1>4. \A g \in Registrations : g \in S => ends[g] = "failed" BY DEF Served
<1>5. \A g \in Registrations : InTransaction(g) /\ host[g] \in S => g \in S \/ ends[host[g]] = "up"
  BY DEF Served, UsersInv, UsersTypeOK
<1> HIDE DEF S, ends
<1> QED BY <1>1, <1>2, <1>3, <1>4, <1>5, EndStays, Zenon

LEMMA FailUserStays ==
  ASSUME UsersInv, NEW g \in Registrations, FailUser(g)
  PROVE  UsersInv'
<1> USE JobKinds
<1> DEFINE ends == [j \in {g} |-> "failed"]
<1>1. {g} \in SUBSET Jobs /\ ends \in [{g} -> {"down", "up", "failed"}] OBVIOUS
<1>2. EndJobs(ends) /\ UNCHANGED <<tables, asked, host>> BY DEF FailUser
<1>3. \A h \in Registrations : h \in {g} => ends[h] = "failed" OBVIOUS
<1>4. \A h \in Registrations : InTransaction(h) /\ host[h] \in {g} => h \in {g} BY DEF UsersInv, UsersTypeOK
<1> HIDE DEF ends
<1> QED BY <1>1, <1>2, <1>3, <1>4, EndStays

\* A job commits a user of its own.
LEMMA CommitsOwn ==
  ASSUME UsersInv, NEW j \in Jobs, owner[j] = j, Registered(PhoneOf(j)) = {},
         PhoneOf(j) \in Phones \cup {Reserved}, PhoneOf(j) = Reserved <=> j \in Engines, users[j] = Nobody,
         users' = [users EXCEPT ![j] = PhoneOf(j)], accounts' = accounts \cup rows[j],
         UNCHANGED <<asked, host>>,
         \/ j \in Engines /\ rows[j] = {OwnRow(j, "SETTLEMENT", "RWF"), OwnRow(j, "SETTLEMENT", "KES")}
         \/ /\ j \in Registrations
            /\ \E cur \in Corridor : rows[j] = {OwnRow(j, "PERSONAL", cur), OwnRow(j, "BUSINESS", cur)},
         NEW told \in {"up", "created", "failed"}, EndJobs([k \in {j} |-> told]),
         told = "up" <=> j \in Engines, ~(step[j] \in {"down", "up"})
  PROVE  UsersInv'
<1> USE JobKinds DEF UsersInv
<1> DEFINE ph == PhoneOf(j)
<1>1. /\ step'[j] = told /\ owner'[j] = Nobody /\ rows'[j] = {}
      /\ \A k \in Jobs \ {j} : step'[k] = step[k] /\ owner'[k] = owner[k] /\ rows'[k] = rows[k]
      /\ step' \in [Jobs -> {"down", "up", "idle", "user", "RWF", "KES", "PERSONAL", "BUSINESS", "commit",
                             "created", "taken", "failed"}]
      /\ owner' \in [Jobs -> Jobs \cup {Nobody}] /\ rows' \in [Jobs -> SUBSET AccountRow]
  BY DEF EndJobs, UsersTypeOK
<1>2. users'[j] = ph /\ \A u \in Jobs \ {j} : users'[u] = users[u] BY DEF UsersTypeOK
<1>3. /\ \A u \in Jobs : users[u] # ph
      /\ \A a \in accounts : a.user # j /\ a.user \in Jobs
      /\ \A a \in rows[j] : a.user = j /\ (a.type = "SETTLEMENT" <=> j \in Engines)
  BY DEF Registered, TablesInv, SettlementInv, OwnRow, UsersTypeOK, AccountRow
<1>4. UsersTypeOK'
  <2>1. ~InTransaction(j)' BY <1>1 DEF InTransaction
  <2>2. \A k \in Jobs \ {j} : InTransaction(k)' <=> InTransaction(k) BY <1>1 DEF InTransaction
  <2>3. ASSUME NEW g \in Registrations, InTransaction(g)' PROVE host[g] # Nobody /\ step'[host[g]] = "up"
    BY <1>1, <2>1, <2>2, <2>3 DEF UsersTypeOK
  <2>4. users' \in [Jobs -> Phones \cup {Reserved, Nobody}] /\ accounts' \subseteq AccountRow BY DEF UsersTypeOK
  <2> QED BY <1>1, <2>1, <2>2, <2>3, <2>4 DEF UsersTypeOK
<1>5. PhonesInv' BY <1>2, <1>3 DEF TablesInv, PhonesInv
<1>6. SettlementInv'
  <2>1. \A a \in accounts' : users'[a.user] # Nobody /\ (a.type = "SETTLEMENT" <=> a.user \in Engines)
    BY <1>2, <1>3 DEF TablesInv, SettlementInv
  <2>2. CASE j \in Registrations
    <3>1. \A cur \in Corridor : SettlementRows(cur)' = SettlementRows(cur) BY <1>3, <2>2 DEF SettlementRows
    <3>2. \A u \in Jobs : users'[u] = Reserved => users[u] = Reserved BY <1>2, <2>2
    <3> QED BY <2>1, <3>1, <3>2 DEF TablesInv, SettlementInv
  <2>3. CASE j \in Engines
    <3>1. \A u \in Jobs : users'[u] = Reserved => u = j BY <1>2, <1>3, <2>3
    <3>2. \A a \in accounts : a.type # "SETTLEMENT" BY <1>3, <2>3 DEF TablesInv, SettlementInv, PhonesInv
    <3>3. rows[j] = {OwnRow(j, "SETTLEMENT", "RWF"), OwnRow(j, "SETTLEMENT", "KES")} BY <2>3
    <3>4. \A cur \in Corridor : SettlementRows(cur)' = {OwnRow(j, "SETTLEMENT", cur)}
      BY <3>2, <3>3 DEF SettlementRows, OwnRow, Corridor
    <3>5. \A cur \in Corridor : OwnRow(j, "SETTLEMENT", cur).user = j BY DEF OwnRow
    <3> QED BY <2>1, <3>1, <3>4, <3>5 DEF SettlementInv
  <2> QED BY <2>2, <2>3
<1>7. WalletsInv'
  <2> SUFFICES ASSUME NEW g \in Registrations, users'[g] # Nobody
               PROVE  \E cur \in Corridor :
                        {a \in accounts' : a.user = g} = {OwnRow(g, "PERSONAL", cur), OwnRow(g, "BUSINESS", cur)}
    BY DEF WalletsInv, OwnRow
  <2>1. CASE g = j
    <3>1. {a \in accounts' : a.user = g} = rows[j] BY <1>3, <2>1
    <3> QED BY <2>1, <3>1
  <2>2. CASE g # j
    <3>1. {a \in accounts' : a.user = g} = {a \in accounts : a.user = g} BY <1>3, <2>2
    <3> QED BY <1>2, <2>2, <3>1 DEF TablesInv, WalletsInv
  <2> QED BY <2>1, <2>2
<1>8. \A k \in Jobs : PhoneOf(k)' = PhoneOf(k) BY DEF PhoneOf
<1>9. /\ \A p : p # ph /\ p # Nobody => Registered(p)' = Registered(p)
      /\ Registered(Reserved) # {} \/ j \in Engines => Registered(Reserved)' # {}
  <2>1. ASSUME NEW p, p # ph, p # Nobody PROVE Registered(p)' = Registered(p)
    BY <1>2, <2>1 DEF Registered
  <2>2. j \in Registrations => ph # Reserved OBVIOUS
  <2>3. j \in Engines => j \in Registered(Reserved)' BY <1>2 DEF Registered
  <2> QED BY <2>1, <2>2, <2>3
<1>10. ASSUME NEW e \in Engines PROVE StartInv(e)'
  <2>1. CASE e = j BY <1>1, <1>9, <2>1 DEF StartInv
  <2>2. CASE e # j
    <3>1. StartInv(e) /\ step'[e] = step[e] /\ owner'[e] = owner[e] /\ rows'[e] = rows[e] BY <1>1, <2>2
    <3>2. ASSUME owner[e] \in Jobs, users[owner[e]] = Reserved PROVE users'[owner[e]] = Reserved
      BY <1>2, <3>2
    <3>3. ASSUME owner[e] = e, Registered(Reserved) = {} PROVE Registered(Reserved)' = {}
      <4>1. PhoneOf(e) = Reserved BY DEF PhoneOf
      <4>2. ph # Reserved BY <2>2, <3>3, <4>1 DEF OneWorker
      <4> QED BY <1>9, <3>3, <4>2
    <3> QED BY <1>9, <3>1, <3>2, <3>3 DEF StartInv, OwnRow
  <2> QED BY <2>1, <2>2
<1>11. ASSUME NEW g \in Registrations PROVE RegistrationInv(g)'
  <2>1. CASE g = j BY <1>1, <2>1 DEF RegistrationInv, InTransaction
  <2>2. CASE g # j
    <3>1. /\ RegistrationInv(g) /\ step'[g] = step[g] /\ owner'[g] = owner[g] /\ rows'[g] = rows[g]
          /\ users'[g] = users[g] /\ PhoneOf(g)' = PhoneOf(g)
      BY <1>1, <1>2, <1>8, <2>2
    <3>2. owner[g] = g => PhoneOf(g) # ph BY <2>2 DEF OneWorker
    <3>3. InTransaction(g) => PhoneOf(g) # Nobody BY <3>1 DEF RegistrationInv, PhoneOf
    <3> QED BY <1>9, <3>1, <3>2, <3>3 DEF RegistrationInv, InTransaction, OwnRow
  <2> QED BY <2>1, <2>2
<1>12. OneWorker' BY <1>1, <1>8 DEF OneWorker
<1> QED BY <1>4, <1>5, <1>6, <1>7, <1>10, <1>11, <1>12 DEF TablesInv

\* A start commits its own user, or finds all there.
LEMMA StartCommits ==
  ASSUME UsersInv, NEW e \in Engines, CommitStart(e)
  PROVE  \/ UNCHANGED tables /\ Registered(Reserved) # {}
         \/ /\ owner[e] = e /\ Registered(Reserved) = {} /\ users[e] = Nobody
            /\ users' = [users EXCEPT ![e] = Reserved] /\ accounts' = accounts \cup rows[e]
            /\ rows[e] = {OwnRow(e, "SETTLEMENT", "RWF"), OwnRow(e, "SETTLEMENT", "KES")}
<1> USE JobKinds DEF UsersInv
<1>1. step[e] = "commit" /\ users' = [users EXCEPT ![owner[e]] = Reserved] /\ accounts' = accounts \cup rows[e]
  BY DEF CommitStart
<1>2. StartInv(e) OBVIOUS
<1>3. CASE owner[e] \in Jobs /\ users[owner[e]] = Reserved /\ rows[e] = {}
  <2>1. users' = users BY <1>1, <1>3 DEF UsersTypeOK
  <2> QED BY <1>1, <1>3, <2>1 DEF tables, Registered
<1>4. CASE owner[e] = e /\ Registered(Reserved) = {} /\ users[e] # Reserved
  <2>1. users[e] = Nobody BY <1>4 DEF TablesInv, PhonesInv
  <2>2. rows[e] = {OwnRow(e, "SETTLEMENT", "RWF"), OwnRow(e, "SETTLEMENT", "KES")} BY <1>1, <1>2, <1>4 DEF StartInv
  <2> QED BY <1>1, <1>4, <2>1, <2>2
<1>5. owner[e] = e /\ Registered(Reserved) = {} => users[e] # Reserved BY DEF Registered
<1> QED BY <1>1, <1>2, <1>3, <1>4, <1>5 DEF StartInv

LEMMA CommitStartStays ==
  ASSUME UsersInv, NEW e \in Engines, CommitStart(e)
  PROVE  UsersInv'
<1> USE JobKinds
<1> DEFINE ends == [j \in {e} |-> "up"]
<1>1. step[e] = "commit" /\ EndJobs(ends) /\ UNCHANGED <<asked, host>> BY DEF CommitStart
<1>2. CASE UNCHANGED tables /\ Registered(Reserved) # {}
  <2>1. {e} \in SUBSET Jobs /\ ends \in [{e} -> {"down", "up", "failed"}] OBVIOUS
  <2>2. \A h \in Engines : h \in {e} => ends[h] = "up" OBVIOUS
  <2>3. \A g \in Registrations : host[g] \in {e} => ends[host[g]] = "up" OBVIOUS
  <2> HIDE DEF ends
  <2> QED BY <1>1, <1>2, <2>1, <2>2, <2>3, EndStays
<1>3. CASE /\ owner[e] = e /\ Registered(Reserved) = {} /\ users[e] = Nobody
           /\ users' = [users EXCEPT ![e] = Reserved] /\ accounts' = accounts \cup rows[e]
           /\ rows[e] = {OwnRow(e, "SETTLEMENT", "RWF"), OwnRow(e, "SETTLEMENT", "KES")}
  <2>1. PhoneOf(e) = Reserved BY DEF PhoneOf
  <2> QED BY <1>1, <1>3, <2>1, CommitsOwn
<1> QED BY <1>2, <1>3, StartCommits

LEMMA CommitUserStays ==
  ASSUME UsersInv, NEW g \in Registrations, CommitUser(g)
  PROVE  UsersInv'
<1> USE JobKinds
<1>1. PICK told \in {"created", "failed"} : EndJobs([j \in {g} |-> told]) BY DEF CommitUser
<1>2. /\ step[g] = "commit" /\ users' = [users EXCEPT ![g] = PhoneOf(g)] /\ accounts' = accounts \cup rows[g]
      /\ UNCHANGED <<asked, host>>
  BY DEF CommitUser
<1>3. RegistrationInv(g) /\ InTransaction(g) BY <1>2 DEF UsersInv, InTransaction
<1>4. /\ owner[g] = g /\ Registered(PhoneOf(g)) = {} /\ Registered(Reserved) # {} /\ users[g] = Nobody
      /\ asked[g] \in [phone : Phones, cur : Corridor]
      /\ rows[g] = {OwnRow(g, "PERSONAL", asked[g].cur), OwnRow(g, "BUSINESS", asked[g].cur)}
  BY <1>2, <1>3 DEF RegistrationInv
<1>5. asked[g].cur \in Corridor /\ PhoneOf(g) \in Phones BY <1>4 DEF PhoneOf
<1>6. /\ PhoneOf(g) \in Phones \cup {Reserved} /\ (PhoneOf(g) = Reserved <=> g \in Engines)
      /\ told \in {"up", "created", "failed"} /\ (told = "up" <=> g \in Engines) /\ ~(step[g] \in {"down", "up"})
  BY <1>2, <1>4, <1>5
<1>7. \/ g \in Engines /\ rows[g] = {OwnRow(g, "SETTLEMENT", "RWF"), OwnRow(g, "SETTLEMENT", "KES")}
      \/ /\ g \in Registrations
         /\ \E cur \in Corridor : rows[g] = {OwnRow(g, "PERSONAL", cur), OwnRow(g, "BUSINESS", cur)}
  BY <1>4, <1>5
<1>8. g \in Jobs OBVIOUS
<1> QED BY <1>1, <1>2, <1>4, <1>6, <1>7, <1>8, CommitsOwn, Zenon

LEMMA UsersStep_Inv ==
  ASSUME UsersInv, UsersNext \/ UNCHANGED usersVars
  PROVE  UsersInv'
<1>1. CASE UNCHANGED usersVars
  BY <1>1 DEF usersVars, tables, work, UsersInv, UsersTypeOK, TablesInv, PhonesInv, SettlementInv, WalletsInv,
     OneWorker, StartInv, RegistrationInv, InTransaction, SettlementRows, PhoneOf, Registered, OwnRow
<1>2. CASE UsersNext
  BY <1>2, StartStays, EnsureUserStays, EnsureAccountStays, CommitStartStays, StopStays, ReceiveUserStays,
     InsertUserStays, InsertAccountStays, CommitUserStays, FailUserStays
  DEF UsersNext, StartStep, RegistrationStep
<1> QED BY <1>1, <1>2

THEOREM UsersInvariance == UsersSpec => []UsersInv
<1>1. UsersInv /\ [UsersNext]_usersVars => UsersInv' BY UsersStep_Inv
<1> QED BY <1>1, UsersInit_Inv, PTL DEF UsersSpec

\* What is worked on is of a transaction, and this of a process that runs.
THEOREM UsersTyped == UsersSpec => []UsersTypeOK
<1>1. UsersInv => UsersTypeOK BY DEF UsersInv
<1> QED BY <1>1, UsersInvariance, PTL

\* However many engines start, fail and start again at once: the settlement
\* accounts are there, one for each currency, when one of them serves.
THEOREM SettlementsReady == UsersSpec => []SettlementReady
<1>1. UsersInv => SettlementReady
  <2> SUFFICES ASSUME UsersInv, NEW e \in Engines, step[e] = "up", NEW cur \in Corridor
               PROVE  \E a \in accounts : SettlementRows(cur) = {a}
    BY DEF SettlementReady
  <2>1. Registered(Reserved) # {} BY DEF UsersInv, StartInv
  <2>2. PICK a \in SettlementRows(cur) : TRUE BY <2>1 DEF UsersInv, TablesInv, SettlementInv, Registered
  <2>3. SettlementRows(cur) = {a} BY <2>2 DEF UsersInv, TablesInv, SettlementInv
  <2> QED BY <2>2, <2>3 DEF SettlementRows
<1> QED BY <1>1, UsersInvariance, PTL

\* However many register with one phone, and whatever fails: a trader has both
\* wallets, and nobody takes the engine's phone.
THEOREM TradersComplete == UsersSpec => []TradersOwnBoth
<1>1. UsersInv => TradersOwnBoth
  <2> SUFFICES ASSUME UsersInv, NEW u \in Jobs, users[u] # Nobody
               PROVE  /\ Registered(users[u]) = {u}
                      /\ users[u] = Reserved <=> u \in Engines
                      /\ u \in Registrations =>
                           \E cur \in Corridor :
                             {a \in accounts : a.user = u} =
                               {[by |-> u, user |-> u, type |-> t, cur |-> cur] : t \in {"PERSONAL", "BUSINESS"}}
    BY DEF TradersOwnBoth
  <2>1. Registered(users[u]) = {u} BY DEF UsersInv, TablesInv, PhonesInv, Registered
  <2>2. users[u] = Reserved <=> u \in Engines BY DEF UsersInv, TablesInv, PhonesInv
  <2>3. ASSUME u \in Registrations
        PROVE  \E cur \in Corridor :
                 {a \in accounts : a.user = u} =
                   {[by |-> u, user |-> u, type |-> t, cur |-> cur] : t \in {"PERSONAL", "BUSINESS"}}
    BY <2>3 DEF UsersInv, TablesInv, WalletsInv, OwnRow
  <2> QED BY <2>1, <2>2, <2>3
<1> QED BY <1>1, UsersInvariance, PTL

\* What payments and sign-ins find in the tables is complete.
THEOREM RegistryIsSound == UsersSpec => []RegistrySound
BY SettlementsReady, TradersComplete, PTL DEF RegistrySound

KeepSettlements == \A cur \in Corridor : SettlementRows(cur) # {} => SettlementRows(cur)' = SettlementRows(cur)

LEMMA SettlementStep ==
  ASSUME UsersInv, [UsersNext]_usersVars
  PROVE  KeepSettlements
<1> USE JobKinds
<1>1. CASE UNCHANGED accounts BY <1>1 DEF KeepSettlements, SettlementRows
<1>2. ASSUME NEW e \in Engines, CommitStart(e), accounts' # accounts PROVE KeepSettlements
  <2>1. Registered(Reserved) = {} BY <1>2, StartCommits DEF tables
  <2>2. \A cur \in Corridor : SettlementRows(cur) = {}
    BY <2>1 DEF UsersInv, UsersTypeOK, AccountRow, TablesInv, PhonesInv, SettlementInv, SettlementRows, Registered
  <2> QED BY <2>2 DEF KeepSettlements
<1>3. ASSUME NEW g \in Registrations, CommitUser(g) PROVE KeepSettlements
  <2>1. step[g] = "commit" /\ accounts' = accounts \cup rows[g] BY <1>3 DEF CommitUser
  <2>2. rows[g] = {OwnRow(g, "PERSONAL", asked[g].cur), OwnRow(g, "BUSINESS", asked[g].cur)}
    BY <2>1 DEF UsersInv, RegistrationInv
  <2>3. \A a \in rows[g] : a.type # "SETTLEMENT" BY <2>2 DEF OwnRow
  <2> QED BY <2>1, <2>3 DEF KeepSettlements, SettlementRows
<1>4. \/ UNCHANGED accounts
      \/ \E e \in Engines : CommitStart(e)
      \/ \E g \in Registrations : CommitUser(g)
  BY DEF UsersNext, StartStep, RegistrationStep, Start, EnsureUser, EnsureAccount, Stop, ReceiveUser, InsertUser,
     InsertAccount, FailUser, usersVars, tables
<1> QED BY <1>1, <1>2, <1>3, <1>4

\* Once there is a settlement account of a currency, whoever starts leaves it alone.
THEOREM SettlementsStay == UsersSpec => SettlementKept
<1>1. UsersInv /\ [UsersNext]_usersVars => [KeepSettlements]_usersVars BY SettlementStep
<1>2. SettlementKept <=> [][KeepSettlements]_usersVars BY DEF SettlementKept, KeepSettlements
<1> QED BY <1>1, <1>2, UsersInvariance, PTL DEF UsersSpec
=============================================================================
