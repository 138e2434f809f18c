------------------------- MODULE EventStream_proofs -------------------------
(***************************************************************************)
(* Theorems about the event spine and the live feed, for any number of     *)
(* writers and clients, any replay bound and any number of faults.         *)
(***************************************************************************)
EXTENDS EventStream, TLAPS

-----------------------------------------------------------------------------
(* The spine.  One transaction at a time holds numbers, and they lie past  *)
(* every number that is committed.                                         *)

OneHolder ==
    \A v, w \in Writers : numbers[v] # {} /\ numbers[w] # {} => v = w

DrawnBehind ==
    /\ \A n \in committed : n <= drawn
    /\ \A w \in Writers : \A n \in numbers[w] : n <= drawn /\ \A m \in committed : m < n

\* That a set of events has a last one is kept by the steps: each is drawn past the others.
HasLast(events) == \E n \in events \cup {0} : \A m \in events : m <= n

LastsExist ==
    /\ HasLast(committed)
    /\ \A w \in Writers : HasLast(numbers[w])

Spine == OneHolder /\ DrawnBehind /\ LastsExist

Typed == TypeOK /\ Spine

\* latest_seq finds the last committed event, and 0 when there is none.
LEMMA LatestSeqIsLast ==
  ASSUME TypeOK, HasLast(committed)
  PROVE  /\ LatestSeq \in committed \cup {0}
         /\ LatestSeq \in 0..MaxSeq
         /\ \A m \in committed : m <= LatestSeq
         /\ After(LatestSeq) = {}
  <1>1. LatestSeq \in committed \cup {0} /\ \A m \in committed : m <= LatestSeq
    BY DEF HasLast, LatestSeq
  <1>2. committed \subseteq 1..MaxSeq /\ MaxSeq \in Nat
    BY StreamAssumption DEF TypeOK, Seqs
  <1>3. LatestSeq \in 0..MaxSeq
    BY <1>1, <1>2
  <1>4. \A m \in committed : ~(m > LatestSeq)
    BY <1>1, <1>2, <1>3
  <1> QED BY <1>1, <1>3, <1>4 DEF After

LEMMA TypedInit == Init => Typed
  <1> SUFFICES ASSUME Init PROVE TypeOK /\ Spine
    BY DEF Typed
  <1>1. TypeOK
    <2>1. drawn \in 0..MaxSeq /\ faults \in 0..MaxFaults /\ committed \subseteq Seqs
      BY StreamAssumption DEF Init
    <2>2. /\ numbers \in [Writers -> SUBSET Seqs] /\ wire \in [Clients -> SUBSET Frames]
          /\ informed \in [Clients -> SUBSET Seqs]
      BY DEF Init
    <2>3. /\ position \in [Clients -> 0..MaxSeq]
          /\ lastId \in [Clients -> 0..MaxSeq \cup {NoCursor}]
      BY StreamAssumption DEF Init
    <2>4. /\ stage \in [Clients -> Stages] /\ flag \in [Clients -> BOOLEAN]
          /\ listener = "DOWN" /\ notice = FALSE
      BY DEF Init, Stages
    <2> QED BY <2>1, <2>2, <2>3, <2>4 DEF TypeOK
  <1>2. Spine
    BY DEF Init, Spine, OneHolder, DrawnBehind, LastsExist, HasLast
  <1> QED BY <1>1, <1>2

LEMMA TypeStep == Typed /\ [Next]_vars => TypeOK'
  <1> SUFFICES ASSUME TypeOK, Spine, [Next]_vars PROVE TypeOK'
    BY DEF Typed
  <1> USE StreamAssumption
      DEF TypeOK, Seqs, Stages, spine, session, stream, client, Fault, StreamMoves, Wake
  <1>0. LatestSeq \in 0..MaxSeq /\ ResyncFrame(LatestSeq) \in Frames
    BY LatestSeqIsLast DEF Spine, LastsExist, ResyncFrame, Frames
  <1>1. ASSUME NEW w \in Writers, AppendEvent(w) PROVE TypeOK'
    BY <1>1 DEF AppendEvent, Draw
  <1>2. ASSUME NEW w \in Writers, Commit(w) PROVE TypeOK'
    BY <1>2 DEF Commit
  <1>3. ASSUME NEW w \in Writers, Rollback(w) PROVE TypeOK'
    BY <1>3 DEF Rollback
  <1>4. ASSUME Listening PROVE TypeOK'
    BY <1>4 DEF Listening, Open, Serve, Notified, LossIsNoticed
  <1>5. ASSUME ConnectionDies PROVE TypeOK'
    <2>1. faults' \in 0..MaxFaults
      BY <1>5 DEF ConnectionDies
    <2>2. UNCHANGED <<drawn, numbers, committed, stage, position, flag, wire, lastId, informed>>
      BY <1>5 DEF ConnectionDies
    <2>3. listener' = "HALF_OPEN" /\ notice' = FALSE
      BY <1>5 DEF ConnectionDies
    <2> QED BY <2>1, <2>2, <2>3
  <1>6. ASSUME ApiRestarts PROVE TypeOK'
    <2>1. faults' \in 0..MaxFaults
      BY <1>6 DEF ApiRestarts
    <2>2. UNCHANGED <<drawn, numbers, committed, position, lastId, informed>>
      BY <1>6 DEF ApiRestarts
    <2>3. /\ listener' = "DOWN" /\ notice' = FALSE
          /\ stage' \in [Clients -> {"OFF"}] /\ flag' \in [Clients -> {FALSE}]
          /\ wire' \in [Clients -> {{}}]
      BY <1>6 DEF ApiRestarts
    <2> QED BY <2>1, <2>2, <2>3
  <1>7. ASSUME NEW c \in Clients, Connect(c) PROVE TypeOK'
    BY <1>7 DEF Connect
  <1>8. ASSUME NEW c \in Clients, TellWhereTheLedgerIs(c) PROVE TypeOK'
    BY <1>0, <1>8 DEF TellWhereTheLedgerIs
  <1>9. ASSUME NEW c \in Clients, Arm(c) PROVE TypeOK'
    BY <1>9 DEF Arm
  <1>10. ASSUME NEW c \in Clients, CatchUp(c) PROVE TypeOK'
    <2>1. {EventFrame(e) : e \in After(position[c])} \subseteq Frames
      <3> SUFFICES ASSUME NEW e \in committed PROVE EventFrame(e) \in Frames
        BY DEF After
      <3>1. e \in 0..MaxSeq
        OBVIOUS
      <3> QED BY <3>1 DEF EventFrame, Frames
    <2> QED BY <1>0, <1>10, <2>1 DEF CatchUp
  <1>11. ASSUME NEW c \in Clients, Resync(c) PROVE TypeOK'
    BY <1>0, <1>11 DEF Resync
  <1>12. ASSUME NEW c \in Clients, FramesSent(c) \/ Woken(c) \/ Keepalive(c) PROVE TypeOK'
    BY <1>12 DEF FramesSent, Woken, Keepalive
  <1>13. ASSUME NEW c \in Clients, Receive(c) PROVE TypeOK'
    <2>1. PICK f \in wire[c] :
            /\ wire' = [wire EXCEPT ![c] = @ \ {f}]
            /\ lastId' = [lastId EXCEPT ![c] = f.id]
            /\ informed' = [informed EXCEPT ![c] =
                              @ \cup {e \in committed : IF f.resync THEN e <= f.id ELSE e = f.id}]
            /\ UNCHANGED <<spine, session, stage, position, flag, faults>>
      BY <1>13 DEF Receive
    <2>2. f.id \in 0..MaxSeq
      BY DEF Frames
    <2>3. informed' \in [Clients -> SUBSET Seqs]
      BY <2>1
    <2> QED BY <2>1, <2>2, <2>3
  <1>14. ASSUME NEW c \in Clients, FeedIsLost(c) PROVE TypeOK'
    BY <1>14 DEF FeedIsLost
  <1>15. CASE UNCHANGED vars
    BY <1>15 DEF vars
  <1> QED
    BY <1>1, <1>2, <1>3, <1>4, <1>5, <1>6, <1>7, <1>8, <1>9, <1>10, <1>11, <1>12, <1>13,
       <1>14, <1>15 DEF Next, Streaming

\* Only writers move the spine; every other step leaves it alone.
LEMMA NonWritersLeaveTheSpine ==
  ASSUME [Next]_vars
  PROVE  \/ UNCHANGED spine
         \/ \E w \in Writers : AppendEvent(w) \/ Commit(w) \/ Rollback(w)
  <1> USE DEF spine, session, stream, client
  <1>1. ASSUME Listening \/ ConnectionDies \/ ApiRestarts PROVE UNCHANGED spine
    BY <1>1 DEF Listening, Open, Serve, Notified, LossIsNoticed, ConnectionDies, ApiRestarts
  <1>2. ASSUME NEW c \in Clients, Connect(c) \/ Receive(c) \/ FeedIsLost(c)
        PROVE UNCHANGED spine
    BY <1>2 DEF Connect, Receive, FeedIsLost
  <1>3. ASSUME NEW c \in Clients, Streaming(c) PROVE UNCHANGED spine
    BY <1>3 DEF Streaming, TellWhereTheLedgerIs, Arm, CatchUp, Resync, FramesSent, Woken,
                Keepalive
  <1> QED BY <1>1, <1>2, <1>3 DEF Next, vars

LEMMA SpineStep == Typed /\ [Next]_vars => Spine'
  <1> SUFFICES ASSUME TypeOK, Spine, [Next]_vars PROVE Spine'
    BY DEF Typed
  <1> USE StreamAssumption DEF Spine
  <1>t. /\ drawn \in Nat
        /\ numbers \in [Writers -> SUBSET Nat]
        /\ committed \subseteq Nat
    BY DEF TypeOK, Seqs
  <1>1. ASSUME NEW w \in Writers, AppendEvent(w) PROVE Spine'
    <2>1. /\ drawn' = drawn + 1
          /\ numbers' = [numbers EXCEPT ![w] = @ \cup {drawn + 1}]
          /\ committed' = committed
          /\ \A v \in Writers \ {w} : numbers[v] = {}
      BY <1>1 DEF AppendEvent, Draw, SpineIsFree
    <2>2. OneHolder'
      BY <1>t, <2>1 DEF OneHolder
    <2>3. DrawnBehind'
      BY <1>t, <2>1 DEF DrawnBehind
    <2>4. HasLast(numbers[w])'
      <3>1. \A m \in numbers'[w] : m <= drawn + 1
        BY <1>t, <2>1 DEF DrawnBehind
      <3> QED BY <1>t, <2>1, <3>1 DEF HasLast
    <2>5. LastsExist'
      BY <1>t, <2>1, <2>4 DEF LastsExist, HasLast
    <2> QED BY <2>2, <2>3, <2>5
  <1>2. ASSUME NEW w \in Writers, Commit(w) PROVE Spine'
    <2>1. /\ drawn' = drawn
          /\ numbers' = [numbers EXCEPT ![w] = {}]
          /\ committed' = committed \cup numbers[w]
          /\ numbers[w] # {}
      BY <1>2 DEF Commit
    <2>2. OneHolder'
      BY <1>t, <2>1 DEF OneHolder
    <2>3. DrawnBehind'
      BY <1>t, <2>1 DEF DrawnBehind, OneHolder
    <2>4. HasLast(committed)'
      <3>1. PICK n \in numbers[w] \cup {0} : \A m \in numbers[w] : m <= n
        BY DEF LastsExist, HasLast
      <3>2. n \in numbers[w]
        BY <1>t, <2>1, <3>1 DEF DrawnBehind
      <3>3. \A m \in committed : m <= n
        BY <1>t, <3>2 DEF DrawnBehind
      <3> QED BY <2>1, <3>1, <3>2, <3>3 DEF HasLast
    <2>5. LastsExist'
      BY <1>t, <2>1, <2>4 DEF LastsExist, HasLast
    <2> QED BY <2>2, <2>3, <2>5
  <1>3. ASSUME NEW w \in Writers, Rollback(w) PROVE Spine'
    <2>1. /\ drawn' = drawn
          /\ numbers' = [numbers EXCEPT ![w] = {}]
          /\ committed' = committed
      BY <1>3 DEF Rollback
    <2> QED BY <1>t, <2>1 DEF OneHolder, DrawnBehind, LastsExist, HasLast
  <1>4. CASE UNCHANGED spine
    BY <1>4 DEF spine, OneHolder, DrawnBehind, LastsExist, HasLast
  <1> QED BY <1>1, <1>2, <1>3, <1>4, NonWritersLeaveTheSpine

LEMMA AlwaysTyped == Spec => []Typed
  <1>1. Typed /\ [Next]_vars => Typed'
    BY TypeStep, SpineStep DEF Typed
  <1> QED BY TypedInit, <1>1, PTL DEF Spec

\* Every variable keeps its type: in particular latest_seq always finds a number of the
\* ledger or 0, whatever committed, rolled back or was lost (events.py, listen.py, stream.py).
THEOREM StreamTyped == Spec => []TypeOK
  <1>1. Typed => TypeOK
    BY DEF Typed
  <1> QED BY AlwaysTyped, <1>1, PTL

-----------------------------------------------------------------------------
(* One feed.  From is where the client's knowledge ends; the wire carries  *)
(* what lies between there and the stream's position, without a gap.       *)

From(c) == IF lastId[c] = NoCursor THEN 0 ELSE lastId[c]

CursorsAreEvents(c) ==
    /\ position[c] \in committed \cup {0}
    /\ From(c) \in committed \cup {0}
    /\ \A f \in wire[c] : f.id \in committed \cup {0}

NotYetStreaming(c) ==
    /\ stage[c] \in {"OFF", "OPENING"} => wire[c] = {}
    /\ stage[c] = "OPENING" => lastId[c] = NoCursor

WireLiesAhead(c) ==
    /\ stage[c] # "OFF" => From(c) <= position[c]
    /\ \A f \in wire[c] : From(c) <= f.id /\ f.id <= position[c]

ReadIsOnTheWire(c) ==
    stage[c] # "OFF" =>
        \A e \in committed :
            From(c) < e /\ e <= position[c] => \E g \in wire[c] : e <= g.id

\* A frame that tells of one event has nothing untold before it but what earlier frames tell.
NoGapBeforeAnEvent(c) ==
    \A f \in wire[c] : ~f.resync =>
        \A e \in committed :
            From(c) < e /\ e < f.id => \E g \in wire[c] : e <= g.id /\ g.id < f.id

ToldUpToCursor(c) == informed[c] = {e \in committed : e <= From(c)}

Feed(c) ==
    /\ CursorsAreEvents(c)
    /\ NotYetStreaming(c)
    /\ WireLiesAhead(c)
    /\ ReadIsOnTheWire(c)
    /\ NoGapBeforeAnEvent(c)
    /\ ToldUpToCursor(c)

Feeds == \A c \in Clients : Feed(c)

LEMMA FeedsInit == Init => Feeds
  BY StreamAssumption
  DEF Init, Feeds, Feed, CursorsAreEvents, NotYetStreaming, WireLiesAhead, ReadIsOnTheWire,
      NoGapBeforeAnEvent, ToldUpToCursor, From

\* What a feed's invariant is about, typed as its proof needs it.
LEMMA FeedTypes ==
  ASSUME TypeOK, NEW c \in Clients
  PROVE  /\ committed \subseteq Nat \ {0}
         /\ position[c] \in Nat
         /\ From(c) \in Nat
         /\ wire[c] \subseteq [id : Nat, resync : BOOLEAN]
         /\ informed[c] \subseteq Nat \ {0}
  <1>1. committed \subseteq Nat \ {0} /\ position[c] \in Nat /\ informed[c] \subseteq Nat \ {0}
    BY StreamAssumption DEF TypeOK, Seqs
  <1>2. From(c) \in Nat
    BY StreamAssumption DEF TypeOK, From
  <1>3. wire[c] \subseteq [id : Nat, resync : BOOLEAN]
    BY StreamAssumption DEF TypeOK, Frames
  <1> QED BY <1>1, <1>2, <1>3

\* A step that leaves a feed alone, or moves its loop on with nothing read and nothing sent.
LEMMA FeedQuiet ==
  ASSUME NEW c \in Clients, Feed(c), committed' = committed,
         position'[c] = position[c], wire'[c] = wire[c],
         lastId'[c] = lastId[c], informed'[c] = informed[c],
         \/ stage'[c] = stage[c]
         \/ stage[c] # "OFF" /\ stage'[c] \notin {"OFF", "OPENING"}
  PROVE  Feed(c)'
  <1>1. From(c)' = From(c)
    BY DEF From
  <1> QED
    BY <1>1
    DEF Feed, CursorsAreEvents, NotYetStreaming, WireLiesAhead, ReadIsOnTheWire,
        NoGapBeforeAnEvent, ToldUpToCursor

LEMMA FeedDropped ==
  ASSUME NEW c \in Clients, Feed(c), committed' = committed,
         position'[c] = position[c], lastId'[c] = lastId[c], informed'[c] = informed[c],
         stage'[c] = "OFF", wire'[c] = {}
  PROVE  Feed(c)'
  <1>1. From(c)' = From(c)
    BY DEF From
  <1> QED
    BY <1>1
    DEF Feed, CursorsAreEvents, NotYetStreaming, WireLiesAhead, ReadIsOnTheWire,
        NoGapBeforeAnEvent, ToldUpToCursor

\* What commits lies behind every cursor, every frame and everything told.
LEMMA FeedAtCommit ==
  ASSUME NEW w \in Writers, NEW c \in Clients, Typed, Feed(c), Commit(w)
  PROVE  Feed(c)'
  <1>1. /\ committed' = committed \cup numbers[w]
        /\ UNCHANGED <<stage, position, wire, lastId, informed>>
    BY DEF Commit, stream, client
  <1>2. From(c)' = From(c)
    BY <1>1 DEF From
  <1>3. /\ numbers[w] \subseteq Nat \ {0}
        /\ \A n \in numbers[w], m \in committed \cup {0} : m < n
    BY StreamAssumption DEF Typed, TypeOK, Spine, DrawnBehind, Seqs
  <1>t. /\ committed \subseteq Nat /\ position[c] \in Nat /\ From(c) \in Nat
        /\ \A f \in wire[c] : f.id \in Nat
    BY FeedTypes DEF Typed
  <1> USE DEF Feed, CursorsAreEvents
  <1>4. CursorsAreEvents(c)' /\ NotYetStreaming(c)' /\ WireLiesAhead(c)'
    BY <1>1, <1>2 DEF NotYetStreaming, WireLiesAhead
  <1>5. ReadIsOnTheWire(c)'
    BY <1>1, <1>2, <1>3, <1>t DEF ReadIsOnTheWire
  <1>6. NoGapBeforeAnEvent(c)'
    BY <1>1, <1>2, <1>3, <1>t DEF NoGapBeforeAnEvent
  <1>7. ToldUpToCursor(c)'
    <2>1. \A n \in numbers[w] : ~(n <= From(c))
      BY <1>3, <1>t
    <2> QED BY <1>1, <1>2, <2>1 DEF ToldUpToCursor
  <1> QED BY <1>4, <1>5, <1>6, <1>7

LEMMA FeedAtConnect ==
  ASSUME NEW c \in Clients, TypeOK, Feed(c), Connect(c)
  PROVE  Feed(c)'
  <1>1. /\ stage[c] = "OFF"
        /\ stage'[c] = IF lastId[c] = NoCursor THEN "OPENING" ELSE "LOOP"
        /\ position'[c] = From(c)
        /\ UNCHANGED <<committed, wire, lastId, informed>>
    BY DEF Connect, StreamMoves, spine, client, TypeOK, From
  <1>2. From(c)' = From(c) /\ wire[c] = {}
    BY <1>1 DEF From, Feed, NotYetStreaming
  <1>t. committed \subseteq Nat /\ From(c) \in Nat
    BY FeedTypes
  <1> QED
    BY <1>1, <1>2, <1>t
    DEF Feed, CursorsAreEvents, NotYetStreaming, WireLiesAhead, ReadIsOnTheWire,
        NoGapBeforeAnEvent, ToldUpToCursor

\* One frame that stands for everything there is.
LEMMA FeedAtResync ==
  ASSUME NEW c \in Clients, Typed, Feed(c), TellWhereTheLedgerIs(c) \/ Resync(c)
  PROVE  Feed(c)'
  <1>1. /\ stage[c] # "OFF" /\ stage'[c] \in {"LOOP", "SENDING"}
        /\ position'[c] = LatestSeq
        /\ wire'[c] = wire[c] \cup {ResyncFrame(LatestSeq)}
        /\ UNCHANGED <<committed, lastId, informed>>
    BY DEF TellWhereTheLedgerIs, Resync, StreamMoves, spine, client, Typed, TypeOK
  <1>2. From(c)' = From(c)
    BY <1>1 DEF From
  <1>3. /\ LatestSeq \in committed \cup {0} /\ LatestSeq \in Nat
        /\ \A m \in committed \cup {0} : m <= LatestSeq
    BY LatestSeqIsLast, StreamAssumption DEF Typed, Spine, LastsExist
  <1>4. ResyncFrame(LatestSeq).id = LatestSeq /\ ResyncFrame(LatestSeq).resync = TRUE
    BY DEF ResyncFrame
  <1>t. /\ committed \subseteq Nat /\ position[c] \in Nat /\ From(c) \in Nat
        /\ \A f \in wire[c] : f.id \in Nat
    BY FeedTypes DEF Typed
  <1> HIDE DEF LatestSeq
  <1> DEFINE last == ResyncFrame(LatestSeq)
  <1>5. last \in wire'[c]
    BY <1>1
  <1>6. CursorsAreEvents(c)' /\ NotYetStreaming(c)'
    BY <1>1, <1>2, <1>3, <1>4 DEF Feed, CursorsAreEvents, NotYetStreaming
  <1>7. WireLiesAhead(c)'
    BY <1>1, <1>2, <1>3, <1>4, <1>t DEF Feed, CursorsAreEvents, WireLiesAhead
  <1>8. ReadIsOnTheWire(c)'
    BY <1>1, <1>3, <1>4, <1>5 DEF ReadIsOnTheWire
  <1>9. NoGapBeforeAnEvent(c)'
    BY <1>1, <1>2, <1>4 DEF Feed, NoGapBeforeAnEvent
  <1>10. ToldUpToCursor(c)'
    BY <1>1, <1>2 DEF Feed, ToldUpToCursor
  <1> QED BY <1>6, <1>7, <1>8, <1>9, <1>10 DEF Feed

\* A frame for each event past the position: the first of them follows what was read before.
LEMMA FeedAtReplay ==
  ASSUME NEW c \in Clients, Typed, Feed(c), stage[c] = "ARMED", stage'[c] = "SENDING",
         position'[c] = IF After(position[c]) = {} THEN position[c] ELSE LatestSeq,
         wire'[c] = wire[c] \cup {EventFrame(e) : e \in After(position[c])},
         UNCHANGED <<committed, lastId, informed>>
  PROVE  Feed(c)'
  <1>2. From(c)' = From(c)
    BY DEF From
  <1>3. /\ LatestSeq \in committed \cup {0} /\ LatestSeq \in Nat
        /\ \A m \in committed \cup {0} : m <= LatestSeq
    BY LatestSeqIsLast, StreamAssumption DEF Typed, Spine, LastsExist
  <1>t. /\ committed \subseteq Nat /\ position[c] \in Nat /\ From(c) \in Nat
        /\ \A f \in wire[c] : f.id \in Nat
    BY FeedTypes DEF Typed
  <1> HIDE DEF LatestSeq
  <1>4. \A f \in wire'[c] :
          \/ f \in wire[c]
          \/ f.id \in committed /\ position[c] < f.id
    BY <1>t DEF EventFrame, After
  <1>5. \A e \in committed : position[c] < e => \E g \in wire'[c] : g.id = e
    <2> TAKE e \in committed
    <2> HAVE position[c] < e
    <2>1. EventFrame(e) \in wire'[c]
      BY <1>t DEF After
    <2> QED BY <2>1 DEF EventFrame
  <1>6. /\ position[c] <= position'[c] /\ position'[c] \in committed \cup {0}
        /\ \A m \in committed : m <= position'[c]
    BY <1>3, <1>t DEF Feed, CursorsAreEvents, After
  <1>w. wire[c] \subseteq wire'[c]
    OBVIOUS
  <1>7. CursorsAreEvents(c)' /\ NotYetStreaming(c)'
    BY <1>2, <1>4, <1>6 DEF Feed, CursorsAreEvents, NotYetStreaming
  <1>8. WireLiesAhead(c)'
    <2>1. position'[c] \in Nat
      <3>1. committed \cup {0} \subseteq Nat
        BY <1>t
      <3> QED BY <1>6, <3>1
    <2>2. From(c) <= position'[c]
      BY <1>6, <1>t, <2>1 DEF Feed, WireLiesAhead
    <2>3. ASSUME NEW f \in wire[c] PROVE From(c) <= f.id /\ f.id <= position'[c]
      BY <1>6, <1>t, <2>1 DEF Feed, WireLiesAhead
    <2>4. ASSUME NEW f \in wire'[c], f.id \in committed, position[c] < f.id
          PROVE  From(c) <= f.id /\ f.id <= position'[c]
      <3>1. From(c) <= position[c] /\ f.id \in Nat /\ f.id <= position'[c]
        BY <1>6, <1>t, <2>4 DEF Feed, WireLiesAhead
      <3> QED BY <1>t, <2>4, <3>1
    <2> QED BY <1>2, <1>4, <2>2, <2>3, <2>4 DEF WireLiesAhead
  <1>9. ReadIsOnTheWire(c)'
    <2> SUFFICES ASSUME NEW e \in committed, From(c) < e
                 PROVE  \E g \in wire'[c] : e <= g.id
      BY <1>2 DEF ReadIsOnTheWire
    <2>1. CASE e <= position[c]
      BY <2>1 DEF Feed, ReadIsOnTheWire
    <2>2. CASE position[c] < e
      BY <1>5, <1>t, <2>2
    <2> QED BY <1>t, <2>1, <2>2
  <1>10. NoGapBeforeAnEvent(c)'
    <2> SUFFICES ASSUME NEW f \in wire'[c], ~f.resync,
                        NEW e \in committed, From(c) < e, e < f.id
                 PROVE  \E g \in wire'[c] : e <= g.id /\ g.id < f.id
      BY <1>2 DEF NoGapBeforeAnEvent
    <2>1. CASE f \in wire[c]
      BY <2>1 DEF Feed, NoGapBeforeAnEvent
    <2>2. CASE f.id \in committed /\ position[c] < f.id /\ position[c] < e
      BY <1>5, <1>t, <2>2
    <2>3. CASE f.id \in committed /\ position[c] < f.id /\ e <= position[c]
      <3>1. PICK g \in wire[c] : e <= g.id
        BY <2>3 DEF Feed, ReadIsOnTheWire
      <3>2. g.id <= position[c]
        BY DEF Feed, WireLiesAhead
      <3>3. g.id < f.id
        <4>1. g.id \in Nat /\ position[c] \in Nat
          BY <1>t
        <4>2. f.id \in Nat /\ position[c] < f.id
          BY <1>t, <2>3
        <4> QED BY <3>2, <4>1, <4>2
      <3> QED BY <1>w, <3>1, <3>3
    <2>4. e <= position[c] \/ position[c] < e
      BY <1>t
    <2> QED BY <1>4, <2>1, <2>2, <2>3, <2>4
  <1>11. ToldUpToCursor(c)'
    BY <1>2 DEF Feed, ToldUpToCursor
  <1> QED BY <1>7, <1>8, <1>9, <1>10, <1>11 DEF Feed

\* The frame that arrives is the first on the wire, so nothing is told past a gap.
LEMMA FeedAtReceive ==
  ASSUME NEW c \in Clients, Typed, Feed(c), NEW f \in wire[c], Arrives(c, f),
         wire'[c] = wire[c] \ {f}, lastId'[c] = f.id,
         informed'[c] =
             informed[c] \cup {e \in committed : IF f.resync THEN e <= f.id ELSE e = f.id},
         UNCHANGED <<committed, stage, position>>
  PROVE  Feed(c)' /\ From(c)' = f.id /\ From(c) <= f.id
  <1>t. /\ committed \subseteq Nat /\ position[c] \in Nat /\ From(c) \in Nat
        /\ \A g \in wire[c] : g.id \in Nat /\ g.resync \in BOOLEAN
    BY FeedTypes DEF Typed
  <1>1. From(c)' = f.id
    BY <1>t, StreamAssumption DEF From
  <1>2. From(c) <= f.id /\ f.id <= position[c] /\ \A g \in wire[c] : f.id <= g.id
    BY DEF Feed, WireLiesAhead, Arrives
  <1>3. CursorsAreEvents(c)' /\ NotYetStreaming(c)'
    BY <1>1 DEF Feed, CursorsAreEvents, NotYetStreaming
  <1>4. WireLiesAhead(c)'
    BY <1>1, <1>2 DEF Feed, WireLiesAhead
  <1>5. ReadIsOnTheWire(c)'
    <2> SUFFICES ASSUME stage[c] # "OFF", NEW e \in committed, f.id < e, e <= position[c]
                 PROVE  \E g \in wire[c] \ {f} : e <= g.id
      BY <1>1 DEF ReadIsOnTheWire
    <2>1. PICK g \in wire[c] : e <= g.id
      BY <1>2, <1>t DEF Feed, ReadIsOnTheWire
    <2> QED BY <1>t, <2>1
  <1>6. NoGapBeforeAnEvent(c)'
    <2> SUFFICES ASSUME NEW h \in wire[c], ~h.resync,
                        NEW e \in committed, f.id < e, e < h.id
                 PROVE  \E g \in wire[c] \ {f} : e <= g.id /\ g.id < h.id
      BY <1>1 DEF NoGapBeforeAnEvent
    <2>1. PICK g \in wire[c] : e <= g.id /\ g.id < h.id
      BY <1>2, <1>t DEF Feed, NoGapBeforeAnEvent
    <2> QED BY <1>t, <2>1
  <1>7. ToldUpToCursor(c)'
    <2>1. CASE f.resync
      <3>1. informed'[c] = informed[c] \cup {e \in committed : e <= f.id}
        BY <2>1
      <3>2. \A e \in committed : e <= From(c) => e <= f.id
        BY <1>2, <1>t
      <3> QED BY <1>1, <3>1, <3>2 DEF Feed, ToldUpToCursor
    <2>2. CASE ~f.resync
      <3>1. \A e \in committed : ~(From(c) < e /\ e < f.id)
        <4> SUFFICES ASSUME NEW e \in committed, From(c) < e, e < f.id PROVE FALSE
          OBVIOUS
        <4>1. PICK g \in wire[c] : e <= g.id /\ g.id < f.id
          BY <2>2 DEF Feed, NoGapBeforeAnEvent
        <4> QED BY <1>2, <1>t, <4>1
      <3>2. f.id \in committed \cup {0}
        BY DEF Feed, CursorsAreEvents
      <3>3. \A e \in committed : e <= f.id <=> e <= From(c) \/ e = f.id
        <4> SUFFICES ASSUME NEW e \in committed
                     PROVE  e <= f.id <=> e <= From(c) \/ e = f.id
          OBVIOUS
        <4>1. e \in Nat /\ f.id \in Nat /\ From(c) \in Nat
          BY <1>t
        <4>2. ~(From(c) < e /\ e < f.id)
          BY <3>1
        <4> QED BY <1>2, <4>1, <4>2
      <3> QED BY <1>1, <2>2, <3>3 DEF Feed, ToldUpToCursor
    <2> QED BY <2>1, <2>2
  <1> QED BY <1>1, <1>2, <1>3, <1>4, <1>5, <1>6, <1>7 DEF Feed

LEMMA FeedsStep == Typed /\ Feeds /\ [Next]_vars => Feeds'
  <1> SUFFICES ASSUME Typed, Feeds, [Next]_vars, NEW c \in Clients PROVE Feed(c)'
    BY DEF Feeds
  <1>f. Feed(c)
    BY DEF Feeds
  <1>t. TypeOK
    BY DEF Typed
  <1> USE DEF spine, session, stream, client
  <1>1. ASSUME committed' = committed,
               UNCHANGED <<stage, position, wire, lastId, informed>> PROVE Feed(c)'
    BY <1>1, <1>f, FeedQuiet
  <1>2. ASSUME NEW w \in Writers, AppendEvent(w) \/ Rollback(w) PROVE Feed(c)'
    BY <1>1, <1>2 DEF AppendEvent, Draw, Rollback
  <1>3. ASSUME NEW w \in Writers, Commit(w) PROVE Feed(c)'
    BY <1>3, <1>f, FeedAtCommit
  <1>4. ASSUME Listening \/ ConnectionDies PROVE Feed(c)'
    BY <1>1, <1>4 DEF Listening, Open, Serve, Notified, LossIsNoticed, ConnectionDies
  <1>5. ASSUME ApiRestarts PROVE Feed(c)'
    BY <1>5, <1>f, FeedDropped DEF ApiRestarts
  \* A step of one client's feed leaves every other's alone.
  <1>6. ASSUME NEW d \in Clients, Connect(d) \/ Streaming(d) \/ Receive(d) \/ FeedIsLost(d),
               d # c
        PROVE  Feed(c)'
    <2>1. /\ committed' = committed
          /\ stage'[c] = stage[c] /\ position'[c] = position[c] /\ wire'[c] = wire[c]
          /\ lastId'[c] = lastId[c] /\ informed'[c] = informed[c]
      <3>1. CASE Connect(d) \/ FeedIsLost(d)
        BY <1>6, <1>t, <3>1 DEF TypeOK, Connect, FeedIsLost, StreamMoves
      <3>2. CASE Receive(d)
        BY <1>6, <1>t, <3>2 DEF TypeOK, Receive
      <3>3. CASE Streaming(d)
        BY <1>6, <1>t, <3>3
        DEF TypeOK, Streaming, StreamMoves, TellWhereTheLedgerIs, Arm, CatchUp, Resync,
            FramesSent, Woken, Keepalive
      <3> QED BY <1>6, <3>1, <3>2, <3>3
    <2> QED BY <1>f, <2>1, FeedQuiet
  <1>7. ASSUME Connect(c) PROVE Feed(c)'
    BY <1>7, <1>f, <1>t, FeedAtConnect
  <1>8. ASSUME TellWhereTheLedgerIs(c) \/ Resync(c) PROVE Feed(c)'
    BY <1>8, <1>f, FeedAtResync
  <1>9. ASSUME Arm(c) \/ FramesSent(c) \/ Woken(c) \/ Keepalive(c) PROVE Feed(c)'
    <2>1. /\ UNCHANGED <<committed, position, wire, lastId, informed>>
          /\ stage[c] # "OFF" /\ stage'[c] \notin {"OFF", "OPENING"}
      BY <1>9, <1>t DEF TypeOK, Arm, FramesSent, Woken, Keepalive, StreamMoves
    <2> QED BY <1>f, <2>1, FeedQuiet
  <1>10. ASSUME CatchUp(c) PROVE Feed(c)'
    <2>1. stage[c] = "ARMED" /\ UNCHANGED <<committed, lastId, informed>>
      BY <1>10 DEF CatchUp, StreamMoves
    <2>2. CASE UNCHANGED <<position, wire>> /\ stage'[c] = "BEHIND"
      BY <1>f, <2>1, <2>2, FeedQuiet
    <2>3. CASE /\ stage'[c] = "SENDING"
               /\ position'[c] = IF After(position[c]) = {} THEN position[c] ELSE LatestSeq
               /\ wire'[c] = wire[c] \cup {EventFrame(e) : e \in After(position[c])}
      BY <1>f, <2>1, <2>3, FeedAtReplay
    <2> QED BY <1>10, <1>t, <2>2, <2>3 DEF CatchUp, StreamMoves, TypeOK
  <1>11. ASSUME Receive(c) PROVE Feed(c)'
    <2>1. PICK f \in wire[c] :
            /\ Arrives(c, f)
            /\ wire' = [wire EXCEPT ![c] = @ \ {f}]
            /\ lastId' = [lastId EXCEPT ![c] = f.id]
            /\ informed' = [informed EXCEPT ![c] =
                              @ \cup {e \in committed : IF f.resync THEN e <= f.id ELSE e = f.id}]
            /\ UNCHANGED <<committed, stage, position>>
      BY <1>11 DEF Receive
    <2> QED BY <1>f, <1>t, <2>1, FeedAtReceive DEF TypeOK
  <1>12. ASSUME FeedIsLost(c) PROVE Feed(c)'
    BY <1>12, <1>f, <1>t, FeedDropped DEF FeedIsLost, TypeOK
  <1>13. CASE UNCHANGED vars
    BY <1>1, <1>13 DEF vars
  <1>14. CASE \E d \in Clients : Connect(d) \/ Streaming(d) \/ Receive(d) \/ FeedIsLost(d)
    BY <1>6, <1>7, <1>8, <1>9, <1>10, <1>11, <1>12, <1>14 DEF Streaming
  <1> QED BY <1>2, <1>3, <1>4, <1>5, <1>13, <1>14 DEF Next

LEMMA AlwaysFed == Spec => [](Typed /\ Feeds)
  BY AlwaysTyped, FeedsInit, FeedsStep, PTL DEF Spec

-----------------------------------------------------------------------------
(* The refinement.                                                         *)

Committing == \E w \in Writers : Commit(w)
Receiving  == \E c \in Clients : Receive(c)

\* Nothing but a commit adds to the log, and nothing but a frame tells.
LEMMA OthersNeitherCommitNorTell ==
  ASSUME [Next]_vars
  PROVE  Committing \/ Receiving \/ UNCHANGED <<committed, informed>>
  <1> USE DEF spine, session, stream, client
  <1>1. ASSUME NEW w \in Writers, AppendEvent(w) \/ Rollback(w)
        PROVE  UNCHANGED <<committed, informed>>
    BY <1>1 DEF AppendEvent, Draw, Rollback
  <1>2. ASSUME Listening \/ ConnectionDies \/ ApiRestarts
        PROVE  UNCHANGED <<committed, informed>>
    BY <1>2 DEF Listening, Open, Serve, Notified, LossIsNoticed, ConnectionDies, ApiRestarts
  <1>3. ASSUME NEW c \in Clients, Connect(c) \/ FeedIsLost(c)
        PROVE  UNCHANGED <<committed, informed>>
    BY <1>3 DEF Connect, FeedIsLost
  <1>4. ASSUME NEW c \in Clients, Streaming(c) PROVE UNCHANGED <<committed, informed>>
    BY <1>4 DEF Streaming, TellWhereTheLedgerIs, Arm, CatchUp, Resync, FramesSent, Woken,
                Keepalive
  <1> QED BY <1>1, <1>2, <1>3, <1>4 DEF Next, vars, Committing, Receiving

LEMMA CommitAdds ==
  ASSUME Typed, NEW w \in Writers, Commit(w)
  PROVE  Log!Add
  <1>1. committed' = committed \cup numbers[w] /\ informed' = informed
    BY DEF Commit, client
  <1>2. /\ committed \subseteq Nat /\ numbers[w] \subseteq Nat
        /\ \A n \in numbers[w], m \in committed : m < n
    BY StreamAssumption DEF Typed, TypeOK, Seqs, Spine, DrawnBehind
  <1> QED BY <1>1, <1>2 DEF Log!Add

LEMMA ReceiptTells ==
  ASSUME Typed, Feeds, NEW c \in Clients, Receive(c)
  PROVE  Log!Tell(c) \/ UNCHANGED <<committed, informed>>
  <1> USE DEF Typed, TypeOK
  <1>1. PICK f \in wire[c] :
          /\ Arrives(c, f)
          /\ wire' = [wire EXCEPT ![c] = @ \ {f}]
          /\ lastId' = [lastId EXCEPT ![c] = f.id]
          /\ informed' = [informed EXCEPT ![c] =
                            @ \cup {e \in committed : IF f.resync THEN e <= f.id ELSE e = f.id}]
          /\ UNCHANGED <<committed, stage, position>>
    BY DEF Receive, spine
  <1>2. Feed(c)' /\ From(c)' = f.id /\ From(c) <= f.id
    BY <1>1, FeedAtReceive DEF Feeds
  <1>3. Feed(c)
    BY DEF Feeds
  <1>t. committed \subseteq Nat \ {0} /\ From(c) \in Nat /\ f.id \in Nat
    BY FeedTypes
  <1>4. informed'[c] = {e \in committed : e <= f.id}
    BY <1>1, <1>2 DEF Feed, ToldUpToCursor
  <1>5. informed' = [informed EXCEPT ![c] = {e \in committed : e <= f.id}]
    BY <1>1, <1>4
  <1>6. informed[c] \subseteq 0..f.id
    <2>1. informed[c] = {e \in committed : e <= From(c)}
      BY <1>3 DEF Feed, ToldUpToCursor
    <2>2. \A e \in committed : e <= From(c) => e \in 0..f.id
      BY <1>2, <1>t
    <2> QED BY <2>1, <2>2
  <1>7. CASE f.id \in committed
    BY <1>1, <1>5, <1>6, <1>7 DEF Log!Tell
  <1>8. CASE f.id = 0
    <2>1. \A e \in committed : ~(e <= From(c)) /\ ~(e <= f.id)
      BY <1>2, <1>t, <1>8
    <2>2. informed[c] = {} /\ informed'[c] = {}
      BY <1>3, <1>4, <2>1 DEF Feed, ToldUpToCursor
    <2> QED BY <1>1, <1>5, <2>2
  <1>9. f.id \in committed \cup {0}
    BY <1>3 DEF Feed, CursorsAreEvents
  <1> QED BY <1>7, <1>8, <1>9

\* Every step of the spine, the listener, a stream or a browser is a step of the followed log,
\* or none of its business: commits add behind what is there, and a client that is told of an
\* event has been told of all before it (events.py: commit order makes the cursor safe).
THEOREM FeedImplementsTheLog == Spec => FeedFollowsTheLog
  <1>1. Init => Log!Init
    BY DEF Init, Log!Init
  <1>2. Typed /\ Feeds /\ [Next]_vars => [Log!Next]_<<committed, informed>>
    BY OthersNeitherCommitNorTell, CommitAdds, ReceiptTells DEF Committing, Receiving, Log!Next
  <1> QED BY AlwaysFed, <1>1, <1>2, PTL DEF Spec, FeedFollowsTheLog, Log!Spec

-----------------------------------------------------------------------------
(* The sleeper.                                                            *)

\* From the read on, an unsignalled stream under a listener with nothing on its way is level.
LevelOnceRead ==
    \A c \in Clients :
        stage[c] \in {"SENDING", "WAITING"} /\ ~flag[c] /\ listener = "SERVING" /\ ~notice =>
            After(position[c]) = {}

LEMMA LevelStep == Typed /\ LevelOnceRead /\ [Next]_vars => LevelOnceRead'
  <1> SUFFICES ASSUME TypeOK, Spine, LevelOnceRead, [Next]_vars,
                      NEW c \in Clients, stage'[c] \in {"SENDING", "WAITING"}, ~flag'[c],
                      listener' = "SERVING", ~notice'
               PROVE  After(position[c])' = {}
    BY DEF LevelOnceRead, Typed
  <1> USE DEF spine, session, stream, client, TypeOK
  <1>1. ASSUME committed' = committed, UNCHANGED session,
               position'[c] = position[c], flag'[c] = flag[c],
               stage[c] \in {"SENDING", "WAITING"}
        PROVE  After(position[c])' = {}
    BY <1>1 DEF LevelOnceRead, After
  <1>2. ASSUME NEW w \in Writers, AppendEvent(w) \/ Commit(w) \/ Rollback(w)
        PROVE  After(position[c])' = {}
    <2>1. CASE AppendEvent(w) \/ Rollback(w)
      BY <1>1, <2>1 DEF AppendEvent, Draw, Rollback
    <2>2. ~Commit(w)
      BY DEF Commit
    <2> QED BY <1>2, <2>1, <2>2
  \* A stream that is on is signalled when the listener begins to serve and at each notice.
  <1>3. ~Serve /\ ~Notified
    BY DEF Serve, Notified, Wake
  <1>4. ~Open /\ ~LossIsNoticed /\ ~ConnectionDies /\ ~ApiRestarts
    BY DEF Open, LossIsNoticed, ConnectionDies, ApiRestarts
  <1>5. ASSUME NEW d \in Clients, Connect(d) \/ Streaming(d) \/ Receive(d) \/ FeedIsLost(d),
               d # c
        PROVE  After(position[c])' = {}
    <2>1. CASE Connect(d) \/ FeedIsLost(d)
      BY <1>1, <1>5, <2>1 DEF Connect, FeedIsLost, StreamMoves
    <2>2. CASE Receive(d)
      BY <1>1, <2>2 DEF Receive
    <2>3. CASE Streaming(d)
      BY <1>1, <1>5, <2>3
      DEF Streaming, StreamMoves, TellWhereTheLedgerIs, Arm, CatchUp, Resync, FramesSent,
          Woken, Keepalive
    <2> QED BY <1>5, <2>1, <2>2, <2>3
  <1>6. ASSUME CatchUp(c) PROVE After(position[c])' = {}
    <2>1. /\ committed' = committed
          /\ position'[c] = IF After(position[c]) = {} THEN position[c] ELSE LatestSeq
      BY <1>6 DEF CatchUp, StreamMoves
    <2>2. After(LatestSeq) = {}
      BY LatestSeqIsLast DEF Spine, LastsExist
    <2> HIDE DEF LatestSeq
    <2> QED BY <2>1, <2>2 DEF After
  <1>7. ASSUME Resync(c) PROVE After(position[c])' = {}
    <2>1. committed' = committed /\ position'[c] = LatestSeq
      BY <1>7 DEF Resync
    <2>2. After(LatestSeq) = {}
      BY LatestSeqIsLast DEF Spine, LastsExist
    <2> HIDE DEF LatestSeq
    <2> QED BY <2>1, <2>2 DEF After
  <1>8. ASSUME FramesSent(c) PROVE After(position[c])' = {}
    BY <1>1, <1>8 DEF FramesSent, StreamMoves
  <1>9. ASSUME Receive(c) PROVE After(position[c])' = {}
    BY <1>1, <1>9 DEF Receive
  <1>10. /\ ~Connect(c) /\ ~TellWhereTheLedgerIs(c) /\ ~Arm(c)
         /\ ~Woken(c) /\ ~Keepalive(c) /\ ~FeedIsLost(c)
    BY DEF Connect, TellWhereTheLedgerIs, Arm, Woken, Keepalive, FeedIsLost, StreamMoves
  <1>11. CASE UNCHANGED vars
    BY <1>1, <1>11 DEF vars
  <1>12. CASE \E d \in Clients : Connect(d) \/ Streaming(d) \/ Receive(d) \/ FeedIsLost(d)
    BY <1>5, <1>6, <1>7, <1>8, <1>9, <1>10, <1>12 DEF Streaming
  <1> QED BY <1>2, <1>3, <1>4, <1>11, <1>12 DEF Next, Listening

\* No wake-up is lost: a stream that sleeps unsignalled while the listener serves and nothing
\* is on its way has read all there is (stream.py clears the flag before it reads; listen.py
\* wakes everybody when it has reconnected).
THEOREM NoWakeUpIsLost == Spec => []SleeperHasReadEverything
  <1>1. Init => LevelOnceRead
    BY DEF Init, LevelOnceRead
  <1>2. LevelOnceRead => SleeperHasReadEverything
    BY DEF LevelOnceRead, SleeperHasReadEverything
  <1> QED BY AlwaysTyped, LevelStep, <1>1, <1>2, PTL DEF Spec
=============================================================================
