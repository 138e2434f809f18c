-------------------------- MODULE OrderSync_proofs --------------------------
(***************************************************************************)
(* Theorems about an order that somebody else owns, its mirror and the     *)
(* amendments sent back, for any number of orders, workers, items,         *)
(* amendments, changes, attempts and faults.                               *)
(***************************************************************************)
EXTENDS OrderSync, SequenceTheorems, TLAPS

-----------------------------------------------------------------------------
(* Type correctness, by who moves what: the book, the sender, the workers, *)
(* the tracks.  It is inductive only with where things point: whoever is   *)
(* somewhere with an event is so with a recorded one, a fetched view is a  *)
(* view, and a call is of an amendment that was planned.                   *)

Recorded == 1 .. Len(events)

Entries == [order : Orders, version : 2 .. MaxChanges + 1, item : Items,
            command : Amendments \cup {Nothing}]

BookTyped ==
    /\ book \in [Orders -> Views]
    /\ commands \in [Amendments -> 0 .. MaxChanges + 1]
    /\ events \in Seq(Entries)
    /\ Len(events) <= MaxChanges
    /\ \A o \in Orders : book[o].version <= Len(events) + 1

SenderTyped ==
    /\ delivery \in [Seqs -> {"NONE", "PENDING", "IN_FLIGHT", "DELIVERED"}]
    /\ later \subseteq Seqs
    /\ sending \in [event : 0..MaxChanges, heard : {"NOTHING", "ACCEPTED", "FAILURE"}]
    /\ posts \subseteq Recorded
    /\ \A n \in Seqs : delivery[n] # "NONE" => n \in Recorded
    /\ IF sending.event = 0 THEN sending.heard = "NOTHING" ELSE sending.event \in Recorded

Busy == {"TAKEN", "GAP", "FETCHED", "REJECTING"}
Places == [stage : Stages, event : 0..MaxChanges, fetched : Views \cup {Nothing}]

WorkersTyped ==
    /\ worker \in [Workers -> Places]
    /\ \A w \in Workers :
         /\ worker[w].stage \in Busy => worker[w].event \in Recorded
         /\ worker[w].stage = "FETCHED" => worker[w].fetched \in Views

MirrorTyped ==
    /\ inbox \in Seq(Seqs)
    /\ record \in [Seqs -> {"NONE", "RECEIVED", "PROCESSED", "IGNORED", "FAILED"}]
    /\ mirror \in [Orders -> Views]
    /\ verdicts \in [Seqs -> SUBSET {"APPLIED", "STALE", "REJECTED"}]
    /\ \A n \in Seqs : record[n] # "NONE" => n \in Recorded
    /\ WorkersTyped

Plans == [order : Orders, from : Items, to : Items, version : 1 .. MaxChanges + 1]
Effects == [state : {"ABSENT", "PENDING", "IN_FLIGHT", "DELIVERED", "REFUSED", "FAILED"},
            attempts : 0..MaxAttempts, version : 0 .. MaxChanges + 1]
Tracks == [state : {"PLANNED", "APPLYING", "RECOVERED", "ESCALATED"}, waits : 0..MaxAttempts]

PlannedFirst(k) ==
    IF track[k].state = "PLANNED"
      THEN /\ effect[k].state = "ABSENT"
           /\ commands[k] = 0
           /\ \A a \in 1..MaxAttempts : <<k, a>> \notin calls
      ELSE plan[k] \in Plans

SagaTyped ==
    /\ calls \subseteq Amendments \X (1..MaxAttempts)
    /\ plan \in [Amendments -> Plans \cup {Nothing}]
    /\ effect \in [Amendments -> Effects]
    /\ track \in [Amendments -> Tracks]
    /\ \A k \in Amendments :
         /\ effect[k].state = "ABSENT" => effect[k].attempts = 0
         /\ effect[k].state = "PENDING" => effect[k].attempts < MaxAttempts
         /\ PlannedFirst(k)

Typed == BookTyped /\ SenderTyped /\ MirrorTyped /\ SagaTyped /\ faults \in 0..MaxFaults

LEMMA RecordedAreSeqs ==
  ASSUME BookTyped
  PROVE  /\ Recorded = DOMAIN events /\ Recorded \subseteq Seqs
         /\ Len(events) \in Nat
         /\ \A n \in Recorded : events[n] \in Entries
  BY OrderSyncAssumption DEF BookTyped, Recorded, Seqs

LEMMA TypedIsTypeOK == Typed => TypeOK
  <1> SUFFICES ASSUME Typed PROVE TypeOK
    OBVIOUS
  <1> USE DEF Typed
  <1>1. posts \subseteq Seqs
    BY RecordedAreSeqs DEF SenderTyped
  <1> QED
    BY <1>1
    DEF BookTyped, SenderTyped, MirrorTyped, WorkersTyped, SagaTyped, TypeOK, Entries, Places, Plans, Effects,
        Tracks

LEMMA TypedInit == Init => Typed
  <1> SUFFICES ASSUME Init PROVE Typed
    OBVIOUS
  <1> USE OrderSyncAssumption DEF Init
  <1>1. [version |-> 1, item |-> Opening] \in Views
    BY DEF Views
  <1>2. BookTyped
    BY <1>1 DEF BookTyped
  <1>3. SenderTyped
    BY DEF SenderTyped, NotSending, Recorded
  <1>4. MirrorTyped
    <2>1. Idle \in Places
      BY DEF Idle, Places, Stages
    <2> QED BY <1>1, <2>1 DEF MirrorTyped, WorkersTyped, Idle, Busy
  <1>5. SagaTyped
    BY DEF SagaTyped, PlannedFirst, Effects, Tracks
  <1> QED BY <1>2, <1>3, <1>4, <1>5 DEF Typed

\* Who moves what.
SomeoneChanges ==
    \/ \E o \in Orders, i \in Items : OperatorChange(o, i)
    \/ \E k \in Amendments, a \in 1..MaxAttempts : Amend(k, a)
SomeoneMirrors == \E w \in Workers : Mirroring(w)
SomeoneRecovers == \E k \in Amendments : Recovering(k)

LEMMA OthersLeaveItAlone ==
  ASSUME [Next]_vars
  PROVE  /\ SomeoneChanges \/ UNCHANGED ledger
         /\ SomeoneChanges \/ Sending \/ UNCHANGED <<delivery, later, sending, posts>>
         /\ Sending \/ SomeoneMirrors \/ UNCHANGED mirrors
         /\ SomeoneRecovers \/ UNCHANGED <<commands, calls, saga>>
  <1> USE DEF ledger, system, network, mirrors, saga
  <1>1. CASE \E o \in Orders, i \in Items : OperatorChange(o, i)
    BY <1>1 DEF OperatorChange, SomeoneChanges
  <1>2. ASSUME Sending PROVE UNCHANGED <<ledger, calls, saga>>
    BY <1>2
    DEF Sending, ClaimDelivery, PostFails, RecordDelivered, RecordDeliveryFailure,
        SenderForgets, SystemRestarts, DeliveryFallsDue, Ingest
  <1>3. ASSUME NEW w \in Workers, Mirroring(w) PROVE UNCHANGED <<system, network, saga>>
    BY <1>3
    DEF Mirroring, TakeRecord, ApplyRecord, FetchOrder, FetchFails, ApplySnapshot, Reject,
        WorkerDies, WorkerRestarts
  <1>4. ASSUME NEW k \in Amendments, Recovering(k), \A a \in 1..MaxAttempts : ~Amend(k, a)
        PROVE  UNCHANGED <<system, posts, mirrors>>
    BY <1>4
    DEF Recovering, ApplyRecovery, SendAmendment, AmendmentUnanswered, AmendmentUnreadable,
        Finalize, Abandon
  <1>5. ASSUME NEW k \in Amendments, NEW a \in 1..MaxAttempts, Amend(k, a)
        PROVE  UNCHANGED mirrors
    BY <1>5 DEF Amend
  <1>6. CASE UNCHANGED vars
    BY <1>6 DEF vars
  <1> QED
    BY <1>1, <1>2, <1>3, <1>4, <1>5, <1>6 DEF Next, SomeoneChanges, SomeoneMirrors, SomeoneRecovers

\* A change appends one event, of the order's next version, and no earlier one moves.
LEMMA ChangeAppends ==
  ASSUME BookTyped, NEW o \in Orders, NEW i \in Items, NEW k \in Amendments \cup {Nothing},
         Change(o, i, k)
  PROVE  LET new == Len(events) + 1
             e   == [order |-> o, version |-> book[o].version + 1, item |-> i, command |-> k]
         IN  /\ Len(events)' = new /\ new \in Seqs /\ new \notin Recorded
             /\ Recorded' = Recorded \cup {new}
             /\ \A n \in Recorded : events'[n] = events[n]
             /\ events'[new] = e /\ e \in Entries
             /\ book' = [book EXCEPT ![o] = [version |-> book[o].version + 1, item |-> i]]
             /\ book[o].version + 1 \in 2 .. MaxChanges + 1
             /\ delivery' = [delivery EXCEPT ![new] = "PENDING"]
             /\ events' \in Seq(Entries)
  <1> DEFINE new == Len(events) + 1
             e   == [order |-> o, version |-> book[o].version + 1, item |-> i, command |-> k]
  <1>1. /\ book' = [book EXCEPT ![o] = [version |-> book[o].version + 1, item |-> i]]
        /\ events' = Append(events, e)
        /\ delivery' = [delivery EXCEPT ![new] = "PENDING"]
        /\ Len(events) < MaxChanges
    BY DEF Change, Current, BookTyped
  <1>2. /\ Len(events) \in Nat /\ book[o].version \in Nat \ {0}
        /\ book[o].version <= Len(events) + 1 /\ MaxChanges \in Nat
    BY OrderSyncAssumption DEF BookTyped, Views
  <1>3. book[o].version + 1 \in 2 .. MaxChanges + 1
    BY <1>1, <1>2
  <1>4. e \in Entries
    BY <1>3 DEF Entries
  <1>5. events \in Seq(Entries)
    BY DEF BookTyped
  <1>6. /\ events' \in Seq(Entries) /\ Len(events') = new
        /\ \A n \in 1..Len(events) : events'[n] = events[n]
        /\ events'[new] = e
    BY <1>1, <1>4, <1>5
  <1>7. 1..new = (1..Len(events)) \cup {new} /\ new \notin 1..Len(events)
    BY <1>2
  <1>8. new \in Seqs
    BY <1>1, <1>2 DEF Seqs
  <1> QED BY <1>1, <1>3, <1>4, <1>6, <1>7, <1>8 DEF Recorded

\* Whoever changes an order does it by Change.
LEMMA ChangesAreChanges ==
  ASSUME Typed, SomeoneChanges
  PROVE  /\ \/ UNCHANGED <<ledger, delivery>>
            \/ \E o \in Orders, i \in Items, k \in Amendments \cup {Nothing} : Change(o, i, k)
         /\ commands' \in [Amendments -> 0 .. MaxChanges + 1]
         /\ UNCHANGED <<later, sending, posts, mirrors, plan, track, faults>>
  <1> USE DEF ledger, network, saga
  <1>1. ASSUME NEW o \in Orders, NEW i \in Items, OperatorChange(o, i)
        PROVE  /\ Change(o, i, Nothing)
               /\ UNCHANGED <<commands, later, sending, posts, mirrors, plan, track, faults>>
    BY <1>1 DEF OperatorChange
  <1>2. ASSUME NEW k \in Amendments, NEW a \in 1..MaxAttempts, Amend(k, a)
        PROVE  /\ \/ UNCHANGED <<ledger, delivery>>
                  \/ /\ Change(plan[k].order, plan[k].to, k)
                     /\ plan[k].order \in Orders /\ plan[k].to \in Items
               /\ commands' \in [Amendments -> 0 .. MaxChanges + 1]
               /\ UNCHANGED <<later, sending, posts, mirrors, plan, track, faults>>
    <2>1. plan[k] \in Plans
      BY <1>2 DEF Typed, SagaTyped, PlannedFirst, Amend
    <2>2. plan[k].order \in Orders /\ plan[k].to \in Items
      BY <2>1 DEF Plans
    <2>3. CASE UNCHANGED <<ledger, delivery>>
      BY <1>2, <2>3 DEF Amend, Typed, BookTyped
    <2>4. CASE /\ Change(plan[k].order, plan[k].to, k) /\ Acceptable(plan[k])
               /\ commands' = [commands EXCEPT ![k] = plan[k].version + 1]
      <3>1. plan[k].version + 1 \in 0 .. MaxChanges + 1
        <4>1. book[plan[k].order].version + 1 \in 2 .. MaxChanges + 1
          BY <2>2, <2>4, ChangeAppends DEF Typed
        <4> QED BY <2>4, <4>1, OrderSyncAssumption DEF Acceptable, Current
      <3> QED BY <1>2, <2>2, <2>4, <3>1 DEF Amend, Typed, BookTyped
    <2> QED BY <1>2, <2>3, <2>4 DEF Amend
  <1> QED BY <1>1, <1>2, OrderSyncAssumption DEF SomeoneChanges, Typed, BookTyped

LEMMA BookTypedStep ==
  ASSUME Typed, [Next]_vars
  PROVE  BookTyped' /\ Recorded \subseteq Recorded'
  <1>1. CASE UNCHANGED ledger
    BY <1>1 DEF ledger, Typed, BookTyped, Recorded
  <1>2. ASSUME NEW o \in Orders, NEW i \in Items, NEW k \in Amendments \cup {Nothing},
               Change(o, i, k), commands' \in [Amendments -> 0 .. MaxChanges + 1]
        PROVE  BookTyped' /\ Recorded \subseteq Recorded'
    <2> DEFINE row == [version |-> book[o].version + 1, item |-> i]
    <2>1. /\ Len(events)' = Len(events) + 1 /\ Len(events) + 1 \in Seqs
          /\ book' = [book EXCEPT ![o] = row]
          /\ book[o].version + 1 \in 2 .. MaxChanges + 1
          /\ events' \in Seq(Entries)
          /\ Recorded \subseteq Recorded'
      BY <1>2, ChangeAppends DEF Typed
    <2>2. row \in Views
      BY <2>1, OrderSyncAssumption DEF Views
    <2>3. Len(events)' <= MaxChanges
      BY <2>1, OrderSyncAssumption DEF Seqs
    <2>4. ASSUME NEW x \in Orders PROVE book'[x].version <= Len(events)' + 1
      <3>1. book[x].version \in Nat /\ book[x].version <= Len(events) + 1 /\ Len(events) \in Nat
        BY OrderSyncAssumption DEF Typed, BookTyped, Views
      <3>2. book[o].version \in Nat /\ book[o].version <= Len(events) + 1
        BY OrderSyncAssumption DEF Typed, BookTyped, Views
      <3>3. book'[x].version = book[x].version \/ book'[x].version = book[o].version + 1
        BY <2>1 DEF Typed, BookTyped
      <3> QED BY <2>1, <3>1, <3>2, <3>3
    <2>5. book' \in [Orders -> Views]
      BY <2>1, <2>2 DEF Typed, BookTyped
    <2> QED BY <1>2, <2>1, <2>3, <2>4, <2>5 DEF BookTyped
  <1> QED BY <1>1, <1>2, OthersLeaveItAlone, ChangesAreChanges DEF ledger

LEMMA SenderTypedStep ==
  ASSUME Typed, [Next]_vars
  PROVE  SenderTyped'
  <1>b. BookTyped' /\ Recorded \subseteq Recorded' /\ Recorded \subseteq Seqs
    BY BookTypedStep, RecordedAreSeqs DEF Typed
  <1>s. SenderTyped
    BY DEF Typed
  <1>1. CASE UNCHANGED <<delivery, later, sending, posts>>
    BY <1>1, <1>b, <1>s DEF SenderTyped
  <1>2. CASE SomeoneChanges
    <2>1. UNCHANGED <<later, sending, posts>>
      BY <1>2, ChangesAreChanges
    <2>2. CASE UNCHANGED <<ledger, delivery>>
      BY <2>1, <2>2, <1>1
    <2>3. ASSUME NEW o \in Orders, NEW i \in Items, NEW k \in Amendments \cup {Nothing},
                 Change(o, i, k)
          PROVE  SenderTyped'
      <3>1. /\ delivery' = [delivery EXCEPT ![Len(events) + 1] = "PENDING"]
            /\ Len(events) + 1 \in Recorded'
        BY <2>3, ChangeAppends DEF Typed
      <3> HIDE DEF Recorded
      <3> QED BY <1>b, <1>s, <2>1, <3>1 DEF SenderTyped
    <2> QED BY <1>2, <2>2, <2>3, ChangesAreChanges
  <1>3. CASE Sending
    <2> USE <1>3 DEF SenderTyped
    <2>l. UNCHANGED ledger
      BY DEF Sending, ClaimDelivery, PostFails, RecordDelivered, RecordDeliveryFailure, system,
             SenderForgets, SystemRestarts, DeliveryFallsDue, Ingest
    <2>r. Recorded' = Recorded
      BY <2>l DEF Recorded, ledger
    <2>n. NotSending \in [event : 0..MaxChanges, heard : {"NOTHING", "ACCEPTED", "FAILURE"}]
      BY OrderSyncAssumption DEF NotSending
    <2> HIDE DEF Recorded
    <2>1. ASSUME ClaimDelivery PROVE SenderTyped'
      <3>1. PICK n \in Seqs :
              /\ Due(n)
              /\ delivery' = [delivery EXCEPT ![n] = "IN_FLIGHT"]
              /\ later' = later \cup {n}
              /\ sending' = [event |-> n, heard |-> "NOTHING"]
              /\ posts' = posts \cup {n}
        BY <2>1 DEF ClaimDelivery
      <3>2. n \in Recorded /\ n \in 0..MaxChanges
        BY <1>s, <3>1, OrderSyncAssumption DEF Due, Seqs
      <3> QED BY <1>s, <2>r, <3>1, <3>2
    <2>2. ASSUME PostFails PROVE SenderTyped'
      BY <1>s, <2>2, <2>r DEF PostFails
    <2>3. ASSUME RecordDelivered \/ RecordDeliveryFailure PROVE SenderTyped'
      <3>1. sending.event \in Recorded
        BY <1>s, <2>3 DEF RecordDelivered, RecordDeliveryFailure
      <3>2. sending' = NotSending /\ posts' = posts
        BY <2>3 DEF RecordDelivered, RecordDeliveryFailure, network
      <3>3. /\ delivery' \in [Seqs -> {"NONE", "PENDING", "IN_FLIGHT", "DELIVERED"}]
            /\ \A n \in Seqs : delivery'[n] # "NONE" => n \in Recorded
        BY <1>s, <2>3, <3>1 DEF RecordDelivered, RecordDeliveryFailure
      <3>4. later' \subseteq Seqs
        BY <1>b, <1>s, <2>3, <3>1 DEF RecordDelivered, RecordDeliveryFailure
      <3> QED BY <1>s, <2>r, <2>n, <3>2, <3>3, <3>4 DEF NotSending
    <2>4. ASSUME NEW n \in Seqs, DeliveryFallsDue(n) PROVE SenderTyped'
      BY <1>s, <2>4, <2>r DEF DeliveryFallsDue, network
    <2>5. ASSUME SenderForgets \/ SystemRestarts PROVE SenderTyped'
      <3>1. sending' = NotSending /\ posts' = posts
        BY <2>5 DEF SenderForgets, SystemRestarts, network
      <3>2. /\ delivery' \in [Seqs -> {"NONE", "PENDING", "IN_FLIGHT", "DELIVERED"}]
            /\ \A n \in Seqs : delivery'[n] # "NONE" => delivery[n] # "NONE"
            /\ later' \subseteq later
        BY <1>s, <2>5 DEF SenderForgets, SystemRestarts
      <3> QED BY <1>s, <2>r, <2>n, <3>1, <3>2 DEF NotSending
    <2>6. ASSUME NEW n \in Seqs, Ingest(n) PROVE SenderTyped'
      BY <1>s, <2>6, <2>r DEF Ingest
    <2> QED BY <2>1, <2>2, <2>3, <2>4, <2>5, <2>6 DEF Sending
  <1> QED BY <1>1, <1>2, <1>3, OthersLeaveItAlone

\* Where a worker goes, and that it may be there.
LEMMA WorkerMoves ==
  ASSUME Typed, NEW w \in Workers, NEW place \in Places,
         place.stage \in Busy => place.event \in Recorded,
         place.stage = "FETCHED" => place.fetched \in Views,
         worker' = [worker EXCEPT ![w] = place], UNCHANGED ledger
  PROVE  WorkersTyped' /\ Recorded' = Recorded
  <1>1. Recorded' = Recorded
    BY DEF Recorded, ledger
  <1> HIDE DEF Recorded
  <1> QED BY <1>1 DEF Typed, MirrorTyped, WorkersTyped

LEMMA IdlePlaces ==
  /\ Idle \in Places /\ Idle.stage \notin Busy
  /\ [Idle EXCEPT !.stage = "STOPPED"] \in Places
  /\ [Idle EXCEPT !.stage = "STOPPED"].stage \notin Busy
  BY OrderSyncAssumption DEF Idle, Places, Stages, Busy

LEMMA MirrorTypedStep ==
  ASSUME Typed, [Next]_vars
  PROVE  MirrorTyped'
  <1>b. BookTyped' /\ Recorded \subseteq Recorded' /\ Recorded \subseteq Seqs
    BY BookTypedStep, RecordedAreSeqs DEF Typed
  <1>m. MirrorTyped
    BY DEF Typed
  <1>1. CASE UNCHANGED mirrors
    BY <1>1, <1>b, <1>m DEF MirrorTyped, WorkersTyped, mirrors
  <1>2. CASE Sending
    <2>1. ASSUME NEW n \in Seqs, Ingest(n) PROVE MirrorTyped'
      <3>1. n \in Recorded
        BY <2>1 DEF Ingest, Typed, SenderTyped
      <3>2. inbox' \in Seq(Seqs)
        BY <1>m, <2>1 DEF Ingest, MirrorTyped
      <3>3. /\ record' \in [Seqs -> {"NONE", "RECEIVED", "PROCESSED", "IGNORED", "FAILED"}]
            /\ \A x \in Seqs : record'[x] # "NONE" => x \in Recorded
        BY <1>m, <2>1, <3>1 DEF Ingest, MirrorTyped
      <3> QED BY <1>b, <1>m, <2>1, <3>2, <3>3 DEF Ingest, MirrorTyped, WorkersTyped
    <2>2. CASE UNCHANGED mirrors
      BY <1>1, <2>2
    <2> QED
      BY <1>2, <2>1, <2>2
      DEF Sending, ClaimDelivery, PostFails, RecordDelivered, RecordDeliveryFailure,
          SenderForgets, SystemRestarts, DeliveryFallsDue
  <1>3. ASSUME NEW w \in Workers, Mirroring(w) PROVE MirrorTyped'
    <2> DEFINE at == worker[w]
    <2>a. at \in Places
      BY <1>m DEF MirrorTyped, WorkersTyped
    <2>l. UNCHANGED ledger
      BY <1>3
      DEF system, Mirroring, TakeRecord, ApplyRecord, FetchOrder, FetchFails, ApplySnapshot,
          Reject, WorkerDies, WorkerRestarts
    <2>r. Recorded' = Recorded
      BY <2>l DEF Recorded, ledger
    <2>i. UNCHANGED inbox
      BY <1>3
      DEF Mirroring, TakeRecord, ApplyRecord, FetchOrder, FetchFails, ApplySnapshot,
          Reject, WorkerDies, WorkerRestarts
    <2> HIDE DEF Recorded
    <2>g. ASSUME NEW stage \in {"GAP", "REJECTING"}, Goes(w, stage), at.event \in Recorded
          PROVE  WorkersTyped'
      <3> DEFINE place == [at EXCEPT !.stage = stage]
      <3>1. place \in Places /\ place.event \in Recorded /\ place.stage # "FETCHED"
        BY <2>a, <2>g DEF Places, Stages
      <3>2. worker' = [worker EXCEPT ![w] = place]
        BY <2>g DEF Goes
      <3> HIDE DEF place
      <3> QED BY <2>l, <3>1, <3>2, WorkerMoves
    <2>f. ASSUME \/ Finishes(w)
                 \/ worker' = [worker EXCEPT ![w] = [Idle EXCEPT !.stage = "STOPPED"]]
          PROVE  WorkersTyped'
      <3>1. ASSUME NEW place \in Places, place.stage \notin Busy,
                   worker' = [worker EXCEPT ![w] = place]
            PROVE  WorkersTyped'
        BY <2>l, <3>1, WorkerMoves DEF Busy
      <3> QED BY <2>f, <3>1, IdlePlaces DEF Finishes
    <2>s. ASSUME NEW n \in Recorded, NEW state \in {"PROCESSED", "IGNORED", "FAILED"},
                 Settle(n, state)
          PROVE  /\ record' \in [Seqs -> {"NONE", "RECEIVED", "PROCESSED", "IGNORED", "FAILED"}]
                 /\ \A x \in Seqs : record'[x] # "NONE" => x \in Recorded'
      BY <1>b, <1>m, <2>r, <2>s DEF Settle, MirrorTyped
    <2>v. ASSUME NEW n \in Recorded, NEW verdict \in {"APPLIED", "STALE", "REJECTED"},
                 Audit(n, verdict)
          PROVE  verdicts' \in [Seqs -> SUBSET {"APPLIED", "STALE", "REJECTED"}]
      BY <1>m, <2>v DEF Audit, MirrorTyped
    <2>h. ASSUME NEW n \in Recorded, NEW view \in Views, Show(n, view)
          PROVE  mirror' \in [Orders -> Views]
      BY <1>m, <2>h DEF Show, MirrorTyped
    <2>1. CASE TakeRecord(w)
      <3> DEFINE place(n) == [stage |-> "TAKEN", event |-> n, fetched |-> Nothing]
      <3>1. PICK n \in Seqs : Unsettled(n) /\ worker' = [worker EXCEPT ![w] = place(n)]
        <4>1. \A p \in DOMAIN inbox : inbox[p] \in Seqs
          BY <1>m DEF MirrorTyped
        <4> QED BY <2>1, <4>1 DEF TakeRecord
      <3>2. n \in Recorded
        BY <1>m, <3>1 DEF Unsettled, MirrorTyped
      <3>3. place(n) \in Places /\ place(n).event \in Recorded /\ place(n).stage # "FETCHED"
        BY <3>2, OrderSyncAssumption DEF Places, Stages, Seqs
      <3> HIDE DEF place
      <3>4. WorkersTyped'
        BY <2>l, <3>1, <3>3, WorkerMoves
      <3> QED BY <1>m, <2>1, <2>r, <3>4 DEF TakeRecord, MirrorTyped
    <2>2. CASE ApplyRecord(w)
      <3>1. at.event \in Recorded
        BY <1>m, <2>2 DEF ApplyRecord, MirrorTyped, WorkersTyped, Busy
      <3> DEFINE n == at.event
      <3>2. events[n] \in Entries
        BY <3>1, RecordedAreSeqs DEF Typed
      <3>3. [version |-> events[n].version, item |-> events[n].item] \in Views
        BY <3>2, OrderSyncAssumption DEF Entries, Views
      <3>4. CASE (Goes(w, "GAP") \/ Goes(w, "REJECTING") \/ Finishes(w))
                   /\ UNCHANGED <<record, mirror, verdicts>>
        BY <1>m, <2>f, <2>g, <2>i, <2>r, <3>1, <3>4 DEF MirrorTyped
      <3>5. CASE /\ Settle(n, "PROCESSED") /\ Audit(n, "APPLIED") /\ Finishes(w)
                 /\ Show(n, [version |-> events[n].version, item |-> events[n].item])
        BY <1>m, <2>f, <2>h, <2>i, <2>s, <2>v, <3>1, <3>3, <3>5 DEF MirrorTyped
      <3>6. CASE /\ Settle(n, "IGNORED") /\ Audit(n, "STALE") /\ Finishes(w)
                 /\ UNCHANGED mirror
        BY <1>m, <2>f, <2>i, <2>s, <2>v, <3>1, <3>6 DEF MirrorTyped
      <3> QED BY <2>2, <3>4, <3>5, <3>6 DEF ApplyRecord
    <2>3. CASE FetchOrder(w)
      <3> DEFINE view  == Current(events[at.event].order)
                 place == [at EXCEPT !.stage = "FETCHED", !.fetched = view]
      <3>1. at.event \in Recorded
        BY <1>m, <2>3 DEF FetchOrder, MirrorTyped, WorkersTyped, Busy
      <3>2. view \in Views
        <4>1. events[at.event].order \in Orders
          BY <3>1, RecordedAreSeqs DEF Typed, Entries
        <4> QED BY <4>1 DEF Current, Typed, BookTyped
      <3> HIDE DEF view
      <3>3. /\ place \in Places /\ place.event \in Recorded /\ place.fetched \in Views
        BY <2>a, <3>1, <3>2 DEF Places, Stages
      <3>4. worker' = [worker EXCEPT ![w] = place]
        BY <1>m, <2>3 DEF FetchOrder, MirrorTyped, view
      <3> HIDE DEF place
      <3>5. WorkersTyped'
        BY <2>l, <3>3, <3>4, WorkerMoves
      <3> QED BY <1>m, <2>3, <2>r, <3>5 DEF FetchOrder, MirrorTyped
    <2>4. CASE FetchFails(w) \/ WorkerDies(w) \/ WorkerRestarts(w)
      <3>1. UNCHANGED <<inbox, record, mirror, verdicts>>
        BY <2>4 DEF FetchFails, WorkerDies, WorkerRestarts
      <3> QED BY <1>m, <2>4, <2>f, <2>r, <3>1 DEF FetchFails, WorkerDies, WorkerRestarts, MirrorTyped
    <2>5. CASE ApplySnapshot(w)
      <3> DEFINE n == at.event
      <3>1. at.event \in Recorded /\ at.fetched \in Views
        BY <1>m, <2>5 DEF ApplySnapshot, MirrorTyped, WorkersTyped, Busy
      <3>2. CASE (Goes(w, "REJECTING") \/ Finishes(w)) /\ UNCHANGED <<record, mirror, verdicts>>
        BY <1>m, <2>f, <2>g, <2>i, <2>r, <3>1, <3>2 DEF MirrorTyped
      <3>3. CASE /\ Settle(n, "PROCESSED") /\ Audit(n, "APPLIED") /\ Finishes(w)
                 /\ Show(n, at.fetched)
        BY <1>m, <2>f, <2>h, <2>i, <2>s, <2>v, <3>1, <3>3 DEF MirrorTyped
      <3>4. CASE Settle(n, "PROCESSED") /\ Finishes(w) /\ UNCHANGED <<mirror, verdicts>>
        BY <1>m, <2>f, <2>i, <2>s, <3>1, <3>4 DEF MirrorTyped
      <3> QED BY <2>5, <3>2, <3>3, <3>4 DEF ApplySnapshot
    <2>6. CASE Reject(w)
      <3>1. at.event \in Recorded
        BY <1>m, <2>6 DEF Reject, MirrorTyped, WorkersTyped, Busy
      <3> QED BY <1>m, <2>6, <2>f, <2>i, <2>s, <2>v, <3>1 DEF Reject, MirrorTyped
    <2> QED BY <1>3, <2>1, <2>2, <2>3, <2>4, <2>5, <2>6 DEF Mirroring
  <1> QED BY <1>1, <1>2, <1>3, OthersLeaveItAlone DEF SomeoneMirrors

LEMMA SagaTypedStep ==
  ASSUME Typed, [Next]_vars
  PROVE  SagaTyped'
  <1>s. SagaTyped
    BY DEF Typed
  <1> USE DEF PlannedFirst
  <1>1. CASE UNCHANGED <<commands, calls, saga>>
    BY <1>1, <1>s DEF SagaTyped, saga
  <1>2. ASSUME NEW k \in Amendments, Recovering(k) PROVE SagaTyped'
    <2> USE DEF network, saga, system, ledger
    <2>1. ASSUME NEW o \in Orders, ApplyRecovery(k, o) PROVE SagaTyped'
      <3>1. PICK to \in Mapped :
              plan' = [plan EXCEPT ![k] = [order |-> o, from |-> mirror[o].item, to |-> to,
                                           version |-> mirror[o].version]]
        BY <2>1 DEF ApplyRecovery
      <3> DEFINE p == [order |-> o, from |-> mirror[o].item, to |-> to,
                       version |-> mirror[o].version]
      <3>2. p \in Plans
        BY OrderSyncAssumption DEF Typed, MirrorTyped, Views, Plans
      <3> HIDE DEF p
      <3>3. plan' = [plan EXCEPT ![k] = p]
        BY <3>1 DEF p
      <3>4. /\ track' = [track EXCEPT ![k].state = "APPLYING"]
            /\ effect' = [effect EXCEPT ![k].state = "PENDING"]
            /\ UNCHANGED <<calls, commands>>
            /\ track[k].state = "PLANNED"
        BY <2>1 DEF ApplyRecovery
      <3>5. plan' \in [Amendments -> Plans \cup {Nothing}]
        BY <1>s, <3>2, <3>3 DEF SagaTyped
      <3>6. track' \in [Amendments -> Tracks]
        BY <1>s, <3>4 DEF SagaTyped, Tracks
      <3>7. effect' \in [Amendments -> Effects]
        BY <1>s, <3>4 DEF SagaTyped, Effects
      <3>8. ASSUME NEW j \in Amendments
            PROVE  /\ effect'[j].state = "ABSENT" => effect'[j].attempts = 0
                   /\ effect'[j].state = "PENDING" => effect'[j].attempts < MaxAttempts
                   /\ PlannedFirst(j)'
        <4>1. CASE j = k
          <5>1. effect[k].attempts = 0 /\ effect'[k].attempts = effect[k].attempts
            BY <1>s, <3>4 DEF SagaTyped, Effects
          <5>2. effect'[k].state = "PENDING" /\ track'[k].state = "APPLYING" /\ plan'[k] = p
            BY <1>s, <3>3, <3>4 DEF SagaTyped, Effects, Tracks
          <5> QED BY <3>2, <4>1, <5>1, <5>2, OrderSyncAssumption
        <4>2. CASE j # k
          BY <1>s, <3>3, <3>4, <4>2 DEF SagaTyped
        <4> QED BY <4>1, <4>2
      <3> QED BY <1>s, <3>4, <3>5, <3>6, <3>7, <3>8 DEF SagaTyped
    \* Past the plan, only the effect and its calls move.
    <2>2. ASSUME NEW row \in Effects, effect' = [effect EXCEPT ![k] = row],
                 row.state # "ABSENT", row.state = "PENDING" => row.attempts < MaxAttempts,
                 calls' \subseteq Amendments \X (1..MaxAttempts),
                 \A j \in Amendments \ {k}, a \in 1..MaxAttempts :
                    <<j, a>> \in calls' => <<j, a>> \in calls,
                 \A j \in Amendments \ {k} : commands'[j] = commands[j],
                 track[k].state # "PLANNED", UNCHANGED <<plan, track>>
          PROVE  SagaTyped'
      <3>1. effect' \in [Amendments -> Effects]
        BY <1>s, <2>2 DEF SagaTyped
      <3>2. ASSUME NEW j \in Amendments
            PROVE  /\ effect'[j].state = "ABSENT" => effect'[j].attempts = 0
                   /\ effect'[j].state = "PENDING" => effect'[j].attempts < MaxAttempts
                   /\ PlannedFirst(j)'
        <4>1. CASE j = k
          BY <1>s, <2>2, <4>1 DEF SagaTyped
        <4>2. CASE j # k
          BY <1>s, <2>2, <4>2 DEF SagaTyped
        <4> QED BY <4>1, <4>2
      <3> QED BY <1>s, <2>2, <3>1, <3>2 DEF SagaTyped
    <2>e. effect[k] \in Effects /\ effect \in [Amendments -> Effects]
      BY <1>s DEF SagaTyped
    <2>3. ASSUME SendAmendment(k) PROVE SagaTyped'
      <3> DEFINE row == [effect[k] EXCEPT !.state = "IN_FLIGHT", !.attempts = @ + 1]
      <3>1. effect[k].state = "PENDING" /\ track[k].state # "PLANNED"
        BY <1>s, <2>3 DEF SendAmendment, SagaTyped
      <3>2. effect[k].attempts + 1 \in 1..MaxAttempts
        BY <1>s, <3>1, OrderSyncAssumption DEF SagaTyped, Effects
      <3>3. row \in Effects /\ row.state = "IN_FLIGHT"
        <4>1. ASSUME NEW e \in Effects, NEW n \in 0..MaxAttempts
              PROVE  [e EXCEPT !.state = "IN_FLIGHT", !.attempts = n] \in Effects
          BY DEF Effects
        <4>2. effect[k].attempts + 1 \in 0..MaxAttempts
          BY <3>2
        <4>3. row \in Effects
          BY <2>e, <4>1, <4>2
        <4> QED BY <2>e, <4>3 DEF Effects
      <3>4. effect' = [effect EXCEPT ![k] = row]
        BY <2>3, <2>e DEF SendAmendment
      <3>5. calls' = calls \cup {<<k, effect[k].attempts + 1>>} /\ UNCHANGED <<commands, plan, track>>
        BY <2>3 DEF SendAmendment
      <3> HIDE DEF row
      <3> QED BY <1>s, <2>2, <3>1, <3>2, <3>3, <3>4, <3>5 DEF SagaTyped
    <2>4. ASSUME NEW a \in 1..MaxAttempts, Amend(k, a) PROVE SagaTyped'
      <3>1. /\ track[k].state # "PLANNED" /\ calls' = calls \ {<<k, a>>}
            /\ UNCHANGED <<plan, track>>
        BY <1>s, <2>4 DEF Amend, SagaTyped
      <3>2. \A j \in Amendments \ {k} : commands'[j] = commands[j]
        BY <2>4 DEF Amend, Typed, BookTyped
      <3>3. PICK v \in 0 .. MaxChanges + 1 : Answered(k, a, v)
        <4>1. CASE Answered(k, a, 0)
          BY <4>1, OrderSyncAssumption
        <4>2. CASE Answered(k, a, commands[k])
          BY <4>2 DEF Typed, BookTyped
        <4>3. CASE /\ Change(plan[k].order, plan[k].to, k) /\ Acceptable(plan[k])
                   /\ Answered(k, a, plan[k].version + 1)
          <5>1. plan[k].order \in Orders /\ plan[k].to \in Items
            BY <1>s, <3>1 DEF SagaTyped, Plans
          <5>2. book[plan[k].order].version + 1 \in 2 .. MaxChanges + 1
            BY <4>3, <5>1, ChangeAppends DEF Typed
          <5> QED BY <4>3, <5>2, OrderSyncAssumption DEF Acceptable, Current
        <4> QED BY <2>4, <4>1, <4>2, <4>3 DEF Amend
      <3>4. CASE UNCHANGED effect
        <4>1. effect[k].state # "ABSENT" \/ effect[k].state = "ABSENT"
          OBVIOUS
        <4>2. calls' \subseteq calls
          BY <3>1
        <4> QED BY <1>s, <3>1, <3>2, <3>4, <4>2 DEF SagaTyped
      <3>5. CASE effect[k].state = "IN_FLIGHT" /\ Answer(k, a, v)
        <4> DEFINE row == [effect[k] EXCEPT
                             !.state = IF v = 0 THEN "REFUSED" ELSE "DELIVERED", !.version = v]
        <4>1. row \in Effects /\ row.state \in {"REFUSED", "DELIVERED"}
          BY <2>e, <3>3 DEF Effects
        <4>2. effect' = [effect EXCEPT ![k] = row]
          BY <2>e, <3>5 DEF Answer
        <4> HIDE DEF row
        <4> QED BY <1>s, <2>2, <3>1, <3>2, <4>1, <4>2 DEF SagaTyped
      <3> QED BY <3>3, <3>4, <3>5 DEF Answered
    <2>5. ASSUME AmendmentUnanswered(k) PROVE SagaTyped'
      <3> DEFINE row == [effect[k] EXCEPT !.state = IF TriesLeft(k) THEN "PENDING" ELSE "FAILED"]
      <3>1. /\ effect[k].state = "IN_FLIGHT" /\ effect' = [effect EXCEPT ![k] = row]
            /\ UNCHANGED <<commands, calls, plan, track>>
        BY <2>5, <2>e DEF AmendmentUnanswered
      <3>2. track[k].state # "PLANNED"
        BY <1>s, <3>1 DEF SagaTyped
      <3>3. /\ row \in Effects /\ row.state \in {"PENDING", "FAILED"}
            /\ row.state = "PENDING" => row.attempts < MaxAttempts
        BY <2>e DEF Effects, TriesLeft
      <3> HIDE DEF row
      <3> QED BY <1>s, <2>2, <3>1, <3>2, <3>3 DEF SagaTyped
    <2>6. ASSUME AmendmentUnreadable(k) PROVE SagaTyped'
      <3> DEFINE row == [effect[k] EXCEPT !.state = "FAILED"]
      <3>1. /\ effect[k].state = "IN_FLIGHT" /\ effect' = [effect EXCEPT ![k] = row]
            /\ UNCHANGED <<commands, calls, plan, track>>
        BY <2>6, <2>e DEF AmendmentUnreadable
      <3>2. track[k].state # "PLANNED"
        BY <1>s, <3>1 DEF SagaTyped
      <3>3. row \in Effects /\ row.state = "FAILED"
        BY <2>e DEF Effects
      <3> HIDE DEF row
      <3> QED BY <1>s, <2>2, <3>1, <3>2, <3>3 DEF SagaTyped
    <2>7. ASSUME Finalize(k) \/ Abandon(k) PROVE SagaTyped'
      <3>1. /\ track[k].state = "APPLYING"
            /\ UNCHANGED <<commands, calls, plan, effect>>
        BY <2>7 DEF Finalize, Abandon
      <3>2. \/ \E state \in {"RECOVERED", "ESCALATED"} :
                 track' = [track EXCEPT ![k].state = state]
            \/ /\ track[k].waits + 1 < MaxAttempts
               /\ track' = [track EXCEPT ![k].waits = @ + 1]
        BY <2>7 DEF Finalize, Abandon
      <3>3. track \in [Amendments -> Tracks]
        BY <1>s DEF SagaTyped
      <3>4. track' \in [Amendments -> Tracks] /\ track'[k].state # "PLANNED"
        BY <3>1, <3>2, <3>3, OrderSyncAssumption DEF Tracks
      <3>5. \A j \in Amendments \ {k} : track'[j] = track[j]
        BY <3>2, <3>3
      <3>6. plan[k] \in Plans
        BY <1>s, <3>1 DEF SagaTyped
      <3> QED BY <1>s, <3>1, <3>4, <3>5, <3>6 DEF SagaTyped
    <2> QED BY <1>2, <2>1, <2>3, <2>4, <2>5, <2>6, <2>7 DEF Recovering
  <1> QED BY <1>1, <1>2, OthersLeaveItAlone DEF SomeoneRecovers

LEMMA FaultsStep ==
  ASSUME Typed, [Next]_vars
  PROVE  faults' \in 0..MaxFaults
  <1>1. CASE UNCHANGED faults
    BY <1>1 DEF Typed
  <1>2. CASE Fault
    BY <1>2, OrderSyncAssumption DEF Fault, Typed
  <1>3. SomeoneChanges => UNCHANGED faults
    BY DEF SomeoneChanges, OperatorChange, Amend
  <1>4. Sending => Fault \/ UNCHANGED faults
    BY DEF Sending, ClaimDelivery, PostFails, RecordDelivered, RecordDeliveryFailure,
           SenderForgets, SystemRestarts, DeliveryFallsDue, Ingest
  <1>5. SomeoneMirrors => Fault \/ UNCHANGED faults
    BY DEF SomeoneMirrors, Mirroring, TakeRecord, ApplyRecord, FetchOrder, FetchFails,
           ApplySnapshot, Reject, WorkerDies, WorkerRestarts
  <1>6. SomeoneRecovers => SomeoneChanges \/ UNCHANGED faults
    BY DEF SomeoneRecovers, SomeoneChanges, Recovering, ApplyRecovery, SendAmendment,
           AmendmentUnanswered, AmendmentUnreadable, Finalize, Abandon
  <1> QED
    BY <1>1, <1>2, <1>3, <1>4, <1>5, <1>6
    DEF Next, vars, SomeoneChanges, SomeoneMirrors, SomeoneRecovers

LEMMA AlwaysTyped == Spec => []Typed
  <1>1. Typed /\ [Next]_vars => Typed'
    BY BookTypedStep, SenderTypedStep, MirrorTypedStep, SagaTypedStep, FaultsStep DEF Typed
  <1> QED BY TypedInit, <1>1, PTL DEF Spec

\* Every variable keeps its type, and with it nobody holds an event that was not recorded,
\* applies a view it did not fetch or sends an amendment nobody planned (store.py,
\* webhooks.py, order_mirror.py, recovery.py).
THEOREM OrderSyncTyped == Spec => []TypeOK
  BY AlwaysTyped, TypedIsTypeOK, PTL

-----------------------------------------------------------------------------
(* The book and the events say the same of an order: every version after   *)
(* the first has its one event, which says what the order carried then.    *)

EveryVersionHasItsEvent ==
    \A o \in Orders : \A v \in 2 .. book[o].version :
        \E n \in Recorded : events[n].order = o /\ events[n].version = v

OneEventPerVersion ==
    \A m, n \in Recorded :
        events[m].order = events[n].order /\ events[m].version = events[n].version => m = n

NoEventIsAhead == \A n \in Recorded : events[n].version <= book[events[n].order].version

BookIsCarried == \A o \in Orders : book[o].item = History(o)[book[o].version]

Booked ==
    /\ EveryVersionHasItsEvent
    /\ OneEventPerVersion
    /\ NoEventIsAhead
    /\ BookIsCarried

EventsAreCarried ==
    \A o \in Orders : \A n \in Recorded :
        events[n].order = o => History(o)[events[n].version] = events[n].item

\* The event of a version is the one that is found for it.
LEMMA EventsAreFound == BookTyped /\ OneEventPerVersion /\ NoEventIsAhead => EventsAreCarried
  <1> SUFFICES ASSUME BookTyped, OneEventPerVersion, NoEventIsAhead,
                      NEW o \in Orders, NEW n \in Recorded, events[n].order = o
               PROVE  History(o)[events[n].version] = events[n].item
    BY DEF EventsAreCarried
  <1>1. Recorded = DOMAIN events /\ events[n] \in Entries
    BY RecordedAreSeqs
  <1>2. events[n].version # 1 /\ events[n].version \in 1 .. book[o].version
    <2>1. events[n].version \in 2 .. MaxChanges + 1 /\ events[n].version <= book[o].version
      BY <1>1 DEF Entries, NoEventIsAhead
    <2>2. book[o].version \in Nat
      BY OrderSyncAssumption DEF BookTyped, Views
    <2> QED BY <2>1, <2>2, OrderSyncAssumption
  <1> DEFINE m == CHOOSE m \in DOMAIN events :
                    events[m].order = o /\ events[m].version = events[n].version
  <1>3. m \in Recorded /\ events[m].order = o /\ events[m].version = events[n].version
    BY <1>1
  <1>4. m = n
    BY <1>3 DEF OneEventPerVersion
  <1>5. History(o)[events[n].version] = Carried(o, events[n].version)
    BY <1>2 DEF History
  <1> QED BY <1>2, <1>4, <1>5 DEF Carried

LEMMA BookedInit == Init => Booked
  <1> SUFFICES ASSUME Init PROVE Booked
    OBVIOUS
  <1>1. Recorded = {} /\ \A o \in Orders : book[o] = [version |-> 1, item |-> Opening]
    BY DEF Init, Recorded
  <1>2. \A o \in Orders : 2 .. book[o].version = {}
    <2> TAKE o \in Orders
    <2>1. book[o].version = 1
      BY <1>1
    <2> QED BY <2>1
  <1> QED
    BY <1>1, <1>2
    DEF Booked, EveryVersionHasItsEvent, OneEventPerVersion, NoEventIsAhead, BookIsCarried,
        History, Carried

\* A change adds a version and leaves what every earlier version carried.
LEMMA ChangeKeepsTheBook ==
  ASSUME Typed, Typed', Booked, NEW o \in Orders, NEW i \in Items,
         NEW k \in Amendments \cup {Nothing}, Change(o, i, k)
  PROVE  /\ Booked'
         /\ \A x \in Orders : \A v \in 1 .. book[x].version : History(x)'[v] = History(x)[v]
         /\ History(o)'[book[o].version + 1] = i
  <1> DEFINE new == Len(events) + 1
             at  == book[o].version
  <1>t. BookTyped /\ BookTyped'
    BY DEF Typed
  <1>1. /\ new \notin Recorded /\ Recorded' = Recorded \cup {new}
        /\ \A n \in Recorded : events'[n] = events[n]
        /\ events'[new] = [order |-> o, version |-> at + 1, item |-> i, command |-> k]
        /\ book' = [book EXCEPT ![o] = [version |-> at + 1, item |-> i]]
    BY <1>t, ChangeAppends
  <1>2. \A x \in Orders : book[x].version \in Nat \ {0}
    BY <1>t, OrderSyncAssumption DEF BookTyped, Views
  <1>3. \A n \in Recorded : /\ events[n].order \in Orders
                            /\ events[n].version \in Nat \ {0, 1}
                            /\ events[n].version <= book[events[n].order].version
    BY <1>t, RecordedAreSeqs, OrderSyncAssumption DEF Entries, Booked, NoEventIsAhead
  <1>4. /\ book'[o].version = at + 1 /\ book'[o].item = i
        /\ \A x \in Orders \ {o} : book'[x] = book[x]
    BY <1>t, <1>1 DEF BookTyped
  <1> HIDE DEF new, Recorded
  <1>5. \A n \in Recorded : events[n].order = o => events[n].version # at + 1
    BY <1>2, <1>3
  <1>6. OneEventPerVersion'
    BY <1>1, <1>5 DEF Booked, OneEventPerVersion
  <1>7. NoEventIsAhead'
    BY <1>1, <1>2, <1>3, <1>4 DEF NoEventIsAhead
  <1>8. EveryVersionHasItsEvent'
    <2> SUFFICES ASSUME NEW x \in Orders, NEW v \in 2 .. book'[x].version
                 PROVE  \E n \in Recorded' : events'[n].order = x /\ events'[n].version = v
      BY DEF EveryVersionHasItsEvent
    <2>1. CASE x = o /\ v = at + 1
      BY <1>1, <2>1
    <2>2. CASE v \in 2 .. book[x].version
      BY <1>1, <2>2 DEF Booked, EveryVersionHasItsEvent
    <2> QED BY <1>2, <1>4, <2>1, <2>2
  <1>9. EventsAreCarried
    BY <1>t, EventsAreFound DEF Booked
  <1>10. EventsAreCarried'
    BY <1>t, <1>6, <1>7, EventsAreFound, PTL
  <1>11. \A x \in Orders : \A v \in 1 .. book[x].version : History(x)'[v] = History(x)[v]
    <2> SUFFICES ASSUME NEW x \in Orders, NEW v \in 1 .. book[x].version
                 PROVE  History(x)'[v] = History(x)[v]
      OBVIOUS
    <2>1. CASE v = 1
      <3>1. 1 \in 1 .. book'[x].version
        BY <1>2, <1>4
      <3> QED BY <2>1, <3>1 DEF History, Carried
    <2>2. CASE v # 1
      <3>1. PICK n \in Recorded : events[n].order = x /\ events[n].version = v
        BY <1>2, <2>2 DEF Booked, EveryVersionHasItsEvent
      <3>2. History(x)[v] = events[n].item
        BY <1>9, <3>1 DEF EventsAreCarried
      <3>3. n \in Recorded' /\ events'[n] = events[n]
        BY <1>1
      <3>4. History(x)'[v] = events'[n].item
        BY <1>10, <3>1, <3>3 DEF EventsAreCarried
      <3> QED BY <3>2, <3>3, <3>4
    <2> QED BY <2>1, <2>2
  <1>12. History(o)'[at + 1] = i
    BY <1>1, <1>10 DEF EventsAreCarried
  <1>13. BookIsCarried'
    BY <1>2, <1>4, <1>11, <1>12 DEF Booked, BookIsCarried
  <1> QED BY <1>6, <1>7, <1>8, <1>11, <1>12, <1>13 DEF Booked

LEMMA LedgerMovesByChange ==
  ASSUME Typed, [Next]_vars
  PROVE  \/ UNCHANGED ledger
         \/ /\ \E o \in Orders, i \in Items, k \in Amendments \cup {Nothing} : Change(o, i, k)
            /\ UNCHANGED mirrors
  BY OthersLeaveItAlone, ChangesAreChanges DEF ledger

LEMMA BookedStep ==
  ASSUME Typed, Typed', Booked, [Next]_vars
  PROVE  /\ Booked'
         /\ \A x \in Orders : /\ book[x].version <= book'[x].version
                              /\ \A v \in 1 .. book[x].version : History(x)'[v] = History(x)[v]
         /\ \A n \in Recorded : n \in Recorded' /\ events'[n] = events[n]
  <1>t. \A x \in Orders : book[x].version \in Nat
    BY OrderSyncAssumption DEF Typed, BookTyped, Views
  <1>1. CASE UNCHANGED ledger
    BY <1>1, <1>t
    DEF ledger, Booked, EveryVersionHasItsEvent, OneEventPerVersion, NoEventIsAhead, BookIsCarried,
        History, Carried, Recorded
  <1>2. ASSUME NEW o \in Orders, NEW i \in Items, NEW k \in Amendments \cup {Nothing},
               Change(o, i, k)
        PROVE  /\ \A x \in Orders : book[x].version <= book'[x].version
               /\ \A n \in Recorded : n \in Recorded' /\ events'[n] = events[n]
    <2>1. /\ book' = [book EXCEPT ![o] = [version |-> book[o].version + 1, item |-> i]]
          /\ \A n \in Recorded : n \in Recorded' /\ events'[n] = events[n]
      BY <1>2, ChangeAppends DEF Typed
    <2>2. book \in [Orders -> Views]
      BY DEF Typed, BookTyped
    <2> QED BY <1>t, <2>1, <2>2
  <1> QED BY <1>1, <1>2, LedgerMovesByChange, ChangeKeepsTheBook

LEMMA AlwaysBooked == Spec => [](Typed /\ Booked)
  <1>1. Typed /\ Typed' /\ Booked /\ [Next]_vars => Booked'
    BY BookedStep
  <1> QED BY AlwaysTyped, BookedInit, <1>1, PTL DEF Spec

-----------------------------------------------------------------------------
(* The mirror.  What it shows, and what a worker has fetched, is a version *)
(* the order has had, whole; and a fetch is no older than the event that   *)
(* asked for it.                                                           *)

WasSo(o, view) ==
    view.version \in 1 .. book[o].version /\ view.item = History(o)[view.version]

MirrorWasSo == \A o \in Orders : WasSo(o, mirror[o])

FetchedWasSo ==
    \A w \in Workers, o \in Orders :
        worker[w].stage = "FETCHED" /\ events[worker[w].event].order = o =>
            /\ WasSo(o, worker[w].fetched)
            /\ events[worker[w].event].version <= worker[w].fetched.version

Mirrored == MirrorWasSo /\ FetchedWasSo

\* One order's mirror moves, to a later version the order has had and that can be shown.
MirrorMoves(o, view) ==
    /\ mirror' = [mirror EXCEPT ![o] = view]
    /\ mirror[o].version < view.version
    /\ WasSo(o, view)
    /\ view.item \in Mapped
    /\ UNCHANGED ledger

LEMMA MirroredInit == Init => Mirrored
  <1> SUFFICES ASSUME Init PROVE Mirrored
    OBVIOUS
  <1>1. \A o \in Orders : book[o] = [version |-> 1, item |-> Opening]
    BY DEF Init
  <1>2. \A o \in Orders : History(o)[1] = Opening
    <2> TAKE o \in Orders
    <2>1. book[o].version = 1
      BY <1>1
    <2>2. 1 \in 1 .. book[o].version
      BY <2>1
    <2> QED BY <2>2 DEF History, Carried
  <1> QED BY <1>1, <1>2 DEF Init, Idle, Mirrored, MirrorWasSo, FetchedWasSo, WasSo

\* What was so stays so.
LEMMA WasSoStays ==
  ASSUME Typed, Typed', Booked, [Next]_vars, NEW o \in Orders, NEW view, WasSo(o, view)
  PROVE  WasSo(o, view)'
  <1>1. /\ book[o].version \in Nat /\ book'[o].version \in Nat
        /\ book[o].version <= book'[o].version
        /\ \A v \in 1 .. book[o].version : History(o)'[v] = History(o)[v]
    BY BookedStep, OrderSyncAssumption DEF Typed, BookTyped, Views
  <1> QED BY <1>1 DEF WasSo

LEMMA MirroringLeavesTheLedger ==
  ASSUME NEW w \in Workers, Mirroring(w)
  PROVE  UNCHANGED ledger
  BY DEF system, Mirroring, TakeRecord, ApplyRecord, FetchOrder, FetchFails, ApplySnapshot,
         Reject, WorkerDies, WorkerRestarts

\* The two transactions that write a mirror: an event that follows it, a view ahead of it.
LEMMA MirrorSteps ==
  ASSUME Typed, Booked, Mirrored, [Next]_vars
  PROVE  \/ UNCHANGED mirror
         \/ \E o \in Orders, view \in Views : MirrorMoves(o, view)
  <1>e. BookTyped /\ MirrorTyped /\ EventsAreCarried
    BY EventsAreFound DEF Typed, Booked
  <1>v. \A o \in Orders : /\ book[o].version \in Nat /\ mirror[o].version \in Nat
    BY <1>e, OrderSyncAssumption DEF BookTyped, MirrorTyped, Views
  <1>1. ASSUME NEW w \in Workers, ApplyRecord(w), ~UNCHANGED mirror
        PROVE  \E o \in Orders, view \in Views : MirrorMoves(o, view)
    <2> DEFINE n    == worker[w].event
               e    == events[n]
               view == [version |-> e.version, item |-> e.item]
    <2>1. /\ n \in Recorded /\ e \in Entries
          /\ Decide(e, mirror[e.order].version) = "APPLY"
          /\ e.item \in Mapped /\ mirror' = [mirror EXCEPT ![e.order] = view]
      <3>1. n \in Recorded
        BY <1>1, <1>e DEF ApplyRecord, MirrorTyped, WorkersTyped, Busy
      <3>2. e \in Entries
        BY <1>e, <3>1, RecordedAreSeqs
      <3> QED BY <1>1, <3>1, <3>2 DEF ApplyRecord, Show
    <2>2. e.order \in Orders /\ view \in Views /\ e.version \in Nat \ {0}
      BY <2>1, OrderSyncAssumption DEF Entries, Views
    <2>3. mirror[e.order].version < e.version
      BY <1>v, <2>1, <2>2 DEF Decide
    <2>4. WasSo(e.order, view)
      BY <1>e, <1>v, <2>1, <2>2 DEF WasSo, Booked, NoEventIsAhead, EventsAreCarried
    <2>5. UNCHANGED ledger
      BY <1>1, MirroringLeavesTheLedger DEF Mirroring
    <2>6. MirrorMoves(e.order, view)
      BY <2>1, <2>3, <2>4, <2>5 DEF MirrorMoves
    <2> QED BY <2>2, <2>6
  <1>2. ASSUME NEW w \in Workers, ApplySnapshot(w), ~UNCHANGED mirror
        PROVE  \E o \in Orders, view \in Views : MirrorMoves(o, view)
    <2> DEFINE n    == worker[w].event
               o    == events[n].order
               view == worker[w].fetched
    <2>1. n \in Recorded /\ view \in Views
      BY <1>2, <1>e DEF ApplySnapshot, MirrorTyped, WorkersTyped, Busy
    <2>2. o \in Orders
      BY <1>e, <2>1, RecordedAreSeqs DEF Entries
    <2>3. /\ view.version # mirror[o].version /\ ~Behind(view, mirror[o].version)
          /\ view.item \in Mapped /\ mirror' = [mirror EXCEPT ![o] = view]
      BY <1>2 DEF ApplySnapshot, Show
    <2>4. view.version \in Nat
      BY <2>1, OrderSyncAssumption DEF Views
    <2>5. mirror[o].version < view.version
      BY <1>v, <2>2, <2>3, <2>4 DEF Behind
    <2>6. WasSo(o, view)
      BY <1>2, <2>2 DEF ApplySnapshot, Mirrored, FetchedWasSo
    <2>7. UNCHANGED ledger
      BY <1>2, MirroringLeavesTheLedger DEF Mirroring
    <2>8. MirrorMoves(o, view)
      BY <2>3, <2>5, <2>6, <2>7 DEF MirrorMoves
    <2> QED BY <2>1, <2>2, <2>8
  <1>3. CASE UNCHANGED mirrors
    BY <1>3 DEF mirrors
  <1>4. CASE Sending
    BY <1>4
    DEF Sending, ClaimDelivery, PostFails, RecordDelivered, RecordDeliveryFailure,
        SenderForgets, SystemRestarts, DeliveryFallsDue, Ingest, mirrors
  <1>5. ASSUME NEW w \in Workers, Mirroring(w), ~ApplyRecord(w), ~ApplySnapshot(w)
        PROVE  UNCHANGED mirror
    BY <1>5 DEF Mirroring, TakeRecord, FetchOrder, FetchFails, Reject, WorkerDies, WorkerRestarts
  <1> QED BY <1>1, <1>2, <1>3, <1>4, <1>5, OthersLeaveItAlone DEF SomeoneMirrors

LEMMA MirroredStep ==
  ASSUME Typed, Typed', Booked, Mirrored, [Next]_vars
  PROVE  Mirrored'
  <1>1. MirrorWasSo'
    <2> SUFFICES ASSUME NEW o \in Orders PROVE WasSo(o, mirror[o])'
      BY DEF MirrorWasSo
    <2>1. PICK view : view = mirror[o]
      OBVIOUS
    <2>2. CASE mirror'[o] = mirror[o]
      <3>1. WasSo(o, view)
        BY <2>1 DEF Mirrored, MirrorWasSo
      <3>2. WasSo(o, view)'
        BY <3>1, WasSoStays
      <3> QED BY <2>1, <2>2, <3>2 DEF WasSo
    <2>3. ASSUME NEW new \in Views, MirrorMoves(o, new) PROVE WasSo(o, mirror[o])'
      <3>1. WasSo(o, new)'
        BY <2>3, WasSoStays DEF MirrorMoves
      <3>2. mirror'[o] = new
        BY <2>3 DEF MirrorMoves, Typed, MirrorTyped
      <3> QED BY <3>1, <3>2 DEF WasSo
    <2>4. ASSUME NEW x \in Orders, x # o, NEW new \in Views, MirrorMoves(x, new)
          PROVE  mirror'[o] = mirror[o]
      BY <2>4 DEF MirrorMoves
    <2> QED BY <2>2, <2>3, <2>4, MirrorSteps
  <1>2. FetchedWasSo'
    <2> SUFFICES ASSUME NEW w \in Workers, NEW o \in Orders,
                        worker'[w].stage = "FETCHED", events'[worker'[w].event].order = o
                 PROVE  /\ WasSo(o, worker[w].fetched)'
                        /\ events'[worker'[w].event].version <= worker'[w].fetched.version
      BY DEF FetchedWasSo
    <2>t. BookTyped /\ MirrorTyped
      BY DEF Typed
    <2>1. CASE worker'[w] = worker[w]
      <3>1. worker[w].event \in Recorded
        BY <2>1, <2>t DEF MirrorTyped, WorkersTyped, Busy
      <3>2. events'[worker[w].event] = events[worker[w].event]
        BY <3>1, BookedStep
      <3>3. PICK view : view = worker[w].fetched
        OBVIOUS
      <3>4. WasSo(o, view) /\ events[worker[w].event].version <= view.version
        BY <2>1, <3>2, <3>3 DEF Mirrored, FetchedWasSo
      <3>5. WasSo(o, view)'
        BY <3>4, WasSoStays
      <3> QED BY <2>1, <3>2, <3>3, <3>4, <3>5 DEF WasSo
    <2>2. CASE FetchOrder(w)
      <3>1. /\ worker[w].event \in Recorded /\ worker'[w].event = worker[w].event
            /\ worker'[w].fetched = book[events[worker[w].event].order]
        BY <2>2, <2>t DEF FetchOrder, MirrorTyped, WorkersTyped, Busy, Current
      <3>2. events'[worker[w].event] = events[worker[w].event]
        BY <3>1, BookedStep
      <3>3. book[o].version \in Nat \ {0}
        BY <2>t, OrderSyncAssumption DEF BookTyped, Views
      <3>4. PICK view : view = book[o]
        OBVIOUS
      <3>5. WasSo(o, view)
        BY <3>3, <3>4 DEF WasSo, Booked, BookIsCarried
      <3>6. WasSo(o, view)'
        BY <3>5, WasSoStays
      <3>7. events[worker[w].event].version <= book[o].version
        BY <3>1, <3>2 DEF Booked, NoEventIsAhead
      <3> QED BY <3>1, <3>2, <3>4, <3>6, <3>7 DEF WasSo
    <2>3. ASSUME NEW x \in Workers, Mirroring(x), ~FetchOrder(w)
          PROVE  worker'[w] = worker[w] \/ worker'[w].stage # "FETCHED"
      <3>1. \/ \E stage \in {"GAP", "REJECTING"} : Goes(x, stage)
            \/ Finishes(x) \/ FetchOrder(x)
            \/ worker' = [worker EXCEPT ![x] = [Idle EXCEPT !.stage = "STOPPED"]]
            \/ \E n : worker' = [worker EXCEPT
                                  ![x] = [stage |-> "TAKEN", event |-> n, fetched |-> Nothing]]
        BY <2>3
        DEF Mirroring, TakeRecord, ApplyRecord, FetchFails, ApplySnapshot, Reject,
            WorkerDies, WorkerRestarts
      <3>2. worker \in [Workers -> Places]
        BY <2>t DEF MirrorTyped, WorkersTyped
      <3>3. CASE \E stage \in {"GAP", "REJECTING"} : Goes(x, stage)
        BY <3>2, <3>3 DEF Goes, Places
      <3>4. CASE FetchOrder(x)
        BY <2>3, <3>2, <3>4 DEF FetchOrder
      <3>5. CASE \/ Finishes(x)
                 \/ worker' = [worker EXCEPT ![x] = [Idle EXCEPT !.stage = "STOPPED"]]
                 \/ \E n : worker' = [worker EXCEPT
                                  ![x] = [stage |-> "TAKEN", event |-> n, fetched |-> Nothing]]
        BY <3>2, <3>5 DEF Finishes, Idle
      <3> QED BY <3>1, <3>3, <3>4, <3>5
    <2>4. CASE UNCHANGED mirrors \/ Sending
      <3>1. UNCHANGED worker
        BY <2>4
        DEF Sending, ClaimDelivery, PostFails, RecordDelivered, RecordDeliveryFailure,
            SenderForgets, SystemRestarts, DeliveryFallsDue, Ingest, mirrors
      <3> QED BY <2>1, <3>1
    <2> QED BY <2>1, <2>2, <2>3, <2>4, OthersLeaveItAlone DEF SomeoneMirrors
  <1> QED BY <1>1, <1>2 DEF Mirrored

LEMMA AlwaysMirrored == Spec => [](Typed /\ Booked /\ Mirrored)
  <1>1. Typed /\ Typed' /\ Booked /\ Mirrored /\ [Next]_vars => Mirrored'
    BY MirroredStep
  <1> QED BY AlwaysBooked, MirroredInit, <1>1, PTL DEF Spec

-----------------------------------------------------------------------------
(* What is settled is shown.  A mirror only moves on, so what matters is   *)
(* the step that settles: the event is no newer than the mirror, or the    *)
(* mirror moves to it or past it in the same step.                         *)

LEMMA MirrorMovesOn ==
  ASSUME Typed, Booked, Mirrored, [Next]_vars, NEW o \in Orders
  PROVE  /\ mirror[o].version \in Nat /\ mirror'[o].version \in Nat
         /\ mirror[o].version <= mirror'[o].version
  <1>1. mirror \in [Orders -> Views] /\ \A view \in Views : view.version \in Nat
    BY OrderSyncAssumption DEF Typed, MirrorTyped, Views
  <1>2. CASE UNCHANGED mirror
    BY <1>1, <1>2
  <1>3. ASSUME NEW x \in Orders, NEW view \in Views, MirrorMoves(x, view)
        PROVE  mirror'[o].version \in Nat /\ mirror[o].version <= mirror'[o].version
    BY <1>1, <1>3 DEF MirrorMoves
  <1> QED BY <1>1, <1>2, <1>3, MirrorSteps

\* Who settles a record as applied or as old, and where the mirror is then.
LEMMA SettlingShows ==
  ASSUME Typed, Booked, Mirrored, [Next]_vars,
         NEW n \in Recorded, record'[n] # record[n], record'[n] \in {"PROCESSED", "IGNORED"}
  PROVE  mirror'[events[n].order].version >= events[n].version
  <1> DEFINE o == events[n].order
  <1>t. BookTyped /\ MirrorTyped /\ n \in Seqs
    BY RecordedAreSeqs DEF Typed
  <1>1. events[n] \in Entries /\ o \in Orders /\ events[n].version \in Nat
    BY <1>t, RecordedAreSeqs, OrderSyncAssumption DEF Entries
  <1>2. mirror[o].version \in Nat /\ mirror[o] \in Views
    BY <1>1, <1>t, MirrorMovesOn DEF MirrorTyped
  <1>3. ASSUME NEW w \in Workers, ApplyRecord(w)
        PROVE  mirror'[o].version >= events[n].version
    <2>1. /\ n = worker[w].event
          /\ \/ /\ Decide(events[n], mirror[o].version) = "APPLY"
                /\ Show(n, [version |-> events[n].version, item |-> events[n].item])
             \/ /\ Decide(events[n], mirror[o].version) = "STALE"
                /\ UNCHANGED mirror
      BY <1>3, <1>t DEF ApplyRecord, Settle, MirrorTyped
    <2>2. CASE UNCHANGED mirror /\ Decide(events[n], mirror[o].version) = "STALE"
      BY <1>1, <1>2, <2>2 DEF Decide
    <2>3. CASE Show(n, [version |-> events[n].version, item |-> events[n].item])
      BY <1>1, <1>t, <2>3 DEF Show, MirrorTyped
    <2> QED BY <2>1, <2>2, <2>3
  <1>4. ASSUME NEW w \in Workers, ApplySnapshot(w)
        PROVE  mirror'[o].version >= events[n].version
    <2> DEFINE view == worker[w].fetched
    <2>1. /\ n = worker[w].event
          /\ Show(n, view) \/ (view.version = mirror[o].version /\ UNCHANGED mirror)
      BY <1>4, <1>t DEF ApplySnapshot, Settle, MirrorTyped
    <2>2. events[n].version <= view.version /\ view.version \in Nat
      <3>1. view \in Views
        BY <1>4, <1>t DEF ApplySnapshot, MirrorTyped, WorkersTyped
      <3>2. events[n].version <= view.version
        BY <1>1, <1>4, <2>1 DEF ApplySnapshot, Mirrored, FetchedWasSo
      <3> QED BY <3>1, <3>2, OrderSyncAssumption DEF Views
    <2> QED BY <1>1, <1>2, <1>t, <2>1, <2>2 DEF Show, MirrorTyped
  <1>5. ASSUME NEW w \in Workers, Mirroring(w), ~ApplyRecord(w), ~ApplySnapshot(w)
        PROVE  FALSE
    BY <1>5, <1>t
    DEF Mirroring, TakeRecord, FetchOrder, FetchFails, Reject, Settle, WorkerDies,
        WorkerRestarts, MirrorTyped
  <1>6. ~UNCHANGED mirrors
    BY DEF mirrors
  <1>7. ~Sending
    <2>1. SUFFICES ASSUME Sending PROVE FALSE
      OBVIOUS
    <2>2. UNCHANGED record \/ \E m \in Seqs : record' = [record EXCEPT ![m] = "RECEIVED"]
      BY <2>1
      DEF Sending, ClaimDelivery, PostFails, RecordDelivered, RecordDeliveryFailure,
          SenderForgets, SystemRestarts, DeliveryFallsDue, Ingest, mirrors
    <2> QED BY <1>t, <2>2 DEF MirrorTyped
  <1> QED BY <1>3, <1>4, <1>5, <1>6, <1>7, OthersLeaveItAlone DEF SomeoneMirrors

\* A record settled as applied or as old is one the mirror shows or has passed, whoever
\* settled it (order_mirror._apply_record, _repair_gap).
THEOREM SettledStaysShown == Spec => []SettledIsShown
  <1> DEFINE Settled(n) == record[n] \in {"PROCESSED", "IGNORED"}
             Shown(n)   == mirror[events[n].order].version >= events[n].version
  <1>1. Init => SettledIsShown
    BY DEF Init, SettledIsShown
  <1>2. ASSUME Typed, Typed', Booked, Mirrored, SettledIsShown, [Next]_vars
        PROVE  SettledIsShown'
    <2>r. Recorded' = DOMAIN events' /\ Recorded' \subseteq Seqs
      BY <1>2, OrderSyncAssumption DEF Typed, BookTyped, Recorded, Seqs
    <2> SUFFICES ASSUME NEW n \in Recorded', Settled(n)'
                 PROVE  Shown(n)'
      BY <2>r DEF SettledIsShown
    <2>1. n \in Recorded /\ events'[n] = events[n]
      <3>1. CASE UNCHANGED ledger
        BY <3>1 DEF ledger, Recorded
      <3>2. CASE UNCHANGED mirrors
        <4>1. n \in Seqs
          BY <2>r
        <4>2. n \in Recorded
          BY <1>2, <3>2, <4>1 DEF mirrors, Typed, MirrorTyped
        <4> QED BY <1>2, <4>2, BookedStep
      <3> QED BY <1>2, <3>1, <3>2, LedgerMovesByChange
    <2>2. events[n] \in Entries
      BY <1>2, <2>1, RecordedAreSeqs DEF Typed
    <2>3. CASE Settled(n)
      <3>1. Shown(n)
        BY <1>2, <2>1, <2>3, RecordedAreSeqs DEF SettledIsShown, Typed
      <3>2. events[n].order \in Orders /\ events[n].version \in Nat
        BY <2>2 DEF Entries
      <3> QED BY <1>2, <2>1, <3>1, <3>2, MirrorMovesOn
    <2>4. CASE ~Settled(n)
      BY <1>2, <2>1, <2>4, SettlingShows
    <2> QED BY <2>3, <2>4
  <1> QED BY AlwaysMirrored, <1>1, <1>2, PTL DEF Spec

-----------------------------------------------------------------------------
(* The refinement: an order's history is a sequence that grows by one item *)
(* at each change, and a mirror's move is to a position of it.             *)

\* An order's history is the sequence of the items it has carried.
HistoriesAreSequences ==
    \A o \in Orders : History(o) \in Seq(Items) /\ Len(History(o)) = book[o].version

LEMMA HistoryIsASequence == Typed /\ Booked => HistoriesAreSequences
  <1> SUFFICES ASSUME Typed, Booked, NEW o \in Orders
               PROVE  History(o) \in Seq(Items) /\ Len(History(o)) = book[o].version
    BY DEF HistoriesAreSequences
  <1>t. BookTyped
    BY DEF Typed
  <1>1. book[o].version \in Nat
    BY <1>t, OrderSyncAssumption DEF BookTyped, Views
  <1>2. \A v \in 1 .. book[o].version : Carried(o, v) \in Items
    <2> TAKE v \in 1 .. book[o].version
    <2>1. CASE v = 1
      BY <2>1, OrderSyncAssumption DEF Carried
    <2>2. CASE v # 1
      <3>1. PICK n \in Recorded : events[n].order = o /\ events[n].version = v
        BY <1>1, <2>2 DEF Booked, EveryVersionHasItsEvent
      <3>2. History(o)[v] = events[n].item
        BY <1>t, <3>1, EventsAreFound DEF Booked, EventsAreCarried
      <3>3. History(o)[v] = Carried(o, v)
        BY DEF History
      <3>4. events[n] \in Entries
        BY <1>t, RecordedAreSeqs
      <3> QED BY <3>2, <3>3, <3>4 DEF Entries
    <2> QED BY <2>1, <2>2
  <1>3. History(o) \in [1 .. book[o].version -> Items]
    BY <1>2 DEF History
  <1> HIDE DEF History
  <1> QED BY <1>1, <1>3

LEMMA HistoryGrows ==
  ASSUME Typed, Typed', Booked, NEW o \in Orders, NEW i \in Items,
         NEW k \in Amendments \cup {Nothing}, Change(o, i, k)
  PROVE  \A x \in Orders :
             History(x)' = IF x = o THEN Append(History(x), i) ELSE History(x)
  <1> SUFFICES ASSUME NEW x \in Orders
               PROVE  History(x)' = IF x = o THEN Append(History(x), i) ELSE History(x)
    OBVIOUS
  <1>1. /\ Booked'
        /\ \A v \in 1 .. book[x].version : History(x)'[v] = History(x)[v]
        /\ History(o)'[book[o].version + 1] = i
    BY ChangeKeepsTheBook
  <1>2. /\ History(x) \in Seq(Items)
        /\ Len(History(x)) = book[x].version
    BY HistoryIsASequence DEF HistoriesAreSequences
  <1>3. /\ History(x)' \in Seq(Items)
        /\ Len(History(x)') = book'[x].version
    <2>1. HistoriesAreSequences'
      BY <1>1, HistoryIsASequence, PTL
    <2> QED BY <2>1 DEF HistoriesAreSequences
  <1>4. book[x].version \in Nat
    BY OrderSyncAssumption DEF Typed, BookTyped, Views
  <1>5. book'[x].version = IF x = o THEN book[x].version + 1 ELSE book[x].version
    <2>1. book' = [book EXCEPT ![o] = [version |-> book[o].version + 1, item |-> i]]
      BY ChangeAppends DEF Typed
    <2> QED BY <2>1 DEF Typed, BookTyped
  <1> HIDE DEF History
  <1>6. CASE x # o
    BY <1>1, <1>2, <1>3, <1>5, <1>6, SeqEqual
  <1>7. CASE x = o
    <2> DEFINE more == Append(History(x), i)
    <2>1. /\ more \in Seq(Items) /\ Len(more) = book[x].version + 1
          /\ \A v \in 1 .. book[x].version : more[v] = History(x)[v]
          /\ more[book[x].version + 1] = i
      BY <1>2, <1>4
    <2>2. \A v \in 1 .. Len(more) : more[v] = History(x)'[v]
      <3> SUFFICES ASSUME NEW v \in 1 .. book[x].version + 1 PROVE more[v] = History(x)'[v]
        BY <2>1
      <3> HIDE DEF more
      <3> QED BY <1>1, <1>4, <1>7, <2>1
    <2> HIDE DEF more
    <2>3. more = History(x)'
      BY <1>3, <1>5, <1>7, <2>1, <2>2, SeqEqual
    <2> QED BY <1>7, <2>3 DEF more
  <1> QED BY <1>6, <1>7

\* The mirror of an order shows a version the order really had, whole, and moves only to a
\* later such version, however its events are lost, repeated and overtaken and however many
\* workers apply them (order_mirror.decide, _apply_record, _repair_gap): the register of
\* FollowedOrder, but for its promise to catch up.
THEOREM MirrorNeverMisleads == Spec => Register!Safety
  <1> DEFINE written == [o \in Orders |-> History(o)]
  <1>1. Init => Register!Init
    <2> SUFFICES ASSUME Init PROVE Register!Init
      OBVIOUS
    <2>1. Typed /\ Booked
      BY TypedInit, BookedInit
    <2>2. ASSUME NEW o \in Orders PROVE History(o) = <<Opening>>
      <3>1. book[o].version = 1
        BY DEF Init
      <3>2. History(o)[1] = Opening
        BY <3>1 DEF History, Carried
      <3>3. History(o) \in Seq(Items) /\ Len(History(o)) = 1
        BY <2>1, <3>1, HistoryIsASequence DEF HistoriesAreSequences
      <3> HIDE DEF History
      <3>4. <<Opening>> \in Seq(Items) /\ Len(<<Opening>>) = 1 /\ <<Opening>>[1] = Opening
        BY OrderSyncAssumption
      <3>5. \A j \in 1 .. 1 : History(o)[j] = <<Opening>>[j]
        BY <3>2
      <3> QED BY <3>3, <3>4, <3>5, SeqEqual
    <2> QED BY <2>2 DEF Init, Register!Init
  <1>2. ASSUME Typed, Typed', Booked, Mirrored, [Next]_vars
        PROVE  [Register!Next]_<<written, mirror>>
    <2>1. CASE UNCHANGED ledger
      <3>1. UNCHANGED written
        BY <2>1 DEF ledger, History, Carried
      <3>2. ASSUME NEW o \in Orders, NEW view \in Views, MirrorMoves(o, view)
            PROVE  Register!Follow(o)
        <4>1. /\ Len(written[o]) = book[o].version /\ book[o].version \in Nat
              /\ mirror[o].version \in Nat /\ view.version \in Nat
          BY <1>2, HistoryIsASequence, OrderSyncAssumption
          DEF Typed, BookTyped, MirrorTyped, Views, HistoriesAreSequences
        <4>2. view.version \in mirror[o].version + 1 .. Len(written[o])
          BY <3>2, <4>1 DEF MirrorMoves, WasSo
        <4>3. view.item = written[o][view.version] /\ view.item \in Mapped
          BY <3>2 DEF MirrorMoves, WasSo
        <4>4. view = [version |-> view.version, item |-> view.item]
          BY DEF Views
        <4>5. mirror' = [mirror EXCEPT ![o] = [version |-> view.version,
                                               item |-> written[o][view.version]]]
          BY <3>2, <4>3, <4>4 DEF MirrorMoves
        <4> QED BY <3>1, <4>2, <4>3, <4>5 DEF Register!Follow, Register!MoveTo
      <3> QED BY <1>2, <3>1, <3>2, MirrorSteps DEF Register!Next
    <2>2. ASSUME NEW o \in Orders, NEW i \in Items, NEW k \in Amendments \cup {Nothing},
                 Change(o, i, k), UNCHANGED mirrors
          PROVE  Register!Write(o)
      <3>1. \A x \in Orders :
                History(x)' = IF x = o THEN Append(History(x), i) ELSE History(x)
        BY <1>2, <2>2, HistoryGrows
      <3>2. written' = [written EXCEPT ![o] = Append(@, i)]
        BY <3>1
      <3> QED BY <2>2, <3>2 DEF Register!Write, mirrors
    <2> QED BY <1>2, <2>1, <2>2, LedgerMovesByChange DEF Register!Next
  <1> QED BY AlwaysMirrored, <1>1, <1>2, PTL DEF Spec, Register!Safety

-----------------------------------------------------------------------------
(* The amendments.  A plan is of a version the order has had; a command    *)
(* that was applied is the next version of its plan's order; and a command *)
(* that was refused is one its order has overtaken, so that no copy of it  *)
(* still on the wire can be accepted any more.                             *)

SetOut(k) == track[k].state # "PLANNED"

Planned(k) == [version |-> plan[k].version, item |-> plan[k].from]

PlanWasSo == \A k \in Amendments : SetOut(k) => WasSo(plan[k].order, Planned(k))

CommandsAreRecorded ==
    \A n \in Recorded : events[n].command # Nothing =>
        LET k == events[n].command
        IN  /\ SetOut(k)
            /\ commands[k] = events[n].version
            /\ events[n].order = plan[k].order
            /\ events[n].version = plan[k].version + 1

RefusedIsOvertaken ==
    \A k \in Amendments : effect[k].state = "REFUSED" =>
        /\ commands[k] = 0
        /\ plan[k].version < book[plan[k].order].version

Amended == PlanWasSo /\ CommandsAreRecorded /\ RefusedIsOvertaken

\* A track that has set out keeps its plan, and one sets out with the order as mirrored.
LEMMA PlansAreMade ==
  ASSUME Typed, [Next]_vars, NEW k \in Amendments
  PROVE  /\ SetOut(k) => SetOut(k)' /\ plan'[k] = plan[k]
         /\ ~SetOut(k) /\ SetOut(k)' => \E o \in Orders : ApplyRecovery(k, o)
  <1> USE DEF SetOut
  <1>t. track \in [Amendments -> Tracks] /\ plan \in [Amendments -> Plans \cup {Nothing}]
    BY DEF Typed, SagaTyped
  <1>1. CASE UNCHANGED saga
    BY <1>1 DEF saga
  <1>2. ASSUME NEW j \in Amendments, NEW o \in Orders, ApplyRecovery(j, o)
        PROVE  /\ SetOut(k) => SetOut(k)' /\ plan'[k] = plan[k]
               /\ ~SetOut(k) /\ SetOut(k)' => j = k
    <2>1. /\ track' = [track EXCEPT ![j].state = "APPLYING"] /\ track[j].state = "PLANNED"
          /\ \E p : plan' = [plan EXCEPT ![j] = p]
      BY <1>2 DEF ApplyRecovery
    <2> QED BY <1>t, <2>1
  <1>3. ASSUME NEW j \in Amendments, Recovering(j), ~\E o \in Orders : ApplyRecovery(j, o)
        PROVE  UNCHANGED plan /\ (SetOut(k)' <=> SetOut(k))
    <2>1. /\ UNCHANGED plan
          /\ \/ UNCHANGED track
             \/ /\ track[j].state = "APPLYING"
                /\ \/ \E state \in {"RECOVERED", "ESCALATED"} :
                        track' = [track EXCEPT ![j].state = state]
                   \/ \E waits : track' = [track EXCEPT ![j].waits = waits]
      BY <1>3
      DEF Recovering, SendAmendment, Amend, AmendmentUnanswered, AmendmentUnreadable, Finalize,
          Abandon
    <2> QED BY <1>t, <2>1 DEF Tracks
  <1> QED BY <1>1, <1>2, <1>3, OthersLeaveItAlone DEF SomeoneRecovers

\* Who writes the ledger.
LEMMA LedgerIsWritten ==
  ASSUME [Next]_vars
  PROVE  \/ UNCHANGED ledger
         \/ /\ \E o \in Orders, i \in Items : Change(o, i, Nothing)
            /\ UNCHANGED <<commands, saga>>
         \/ \E k \in Amendments, a \in 1..MaxAttempts :
              /\ Amend(k, a)
              /\ Unseen(k)
              /\ Acceptable(plan[k])
              /\ Change(plan[k].order, plan[k].to, k)
              /\ commands' = [commands EXCEPT ![k] = plan[k].version + 1]
  BY OthersLeaveItAlone DEF SomeoneChanges, OperatorChange, Amend, saga

\* What an amendment that is applied finds.
LEMMA AmendedHasSetOut ==
  ASSUME Typed, NEW k \in Amendments, NEW a \in 1..MaxAttempts, Amend(k, a)
  PROVE  SetOut(k) /\ plan[k] \in Plans
  BY DEF Amend, SetOut, Typed, SagaTyped, PlannedFirst

LEMMA PlanWasSoStep ==
  ASSUME Typed, Typed', Booked, Mirrored, PlanWasSo, [Next]_vars
  PROVE  PlanWasSo'
  <1> SUFFICES ASSUME NEW k \in Amendments, SetOut(k)'
               PROVE  WasSo(plan[k].order, Planned(k))'
    BY DEF PlanWasSo
  <1>1. CASE SetOut(k)
    <2>1. WasSo(plan[k].order, Planned(k)) /\ plan[k] \in Plans
      BY <1>1 DEF PlanWasSo, SetOut, Typed, SagaTyped, PlannedFirst
    <2>2. PICK o \in Orders, view \in {Planned(k)} : o = plan[k].order
      BY <2>1 DEF Plans
    <2>3. WasSo(o, view)'
      BY <2>1, <2>2, WasSoStays
    <2>4. plan'[k] = plan[k]
      BY <1>1, PlansAreMade
    <2> QED BY <2>2, <2>3, <2>4 DEF WasSo, Planned, History, Carried
  <1>2. CASE ~SetOut(k)
    <2>1. PICK o \in Orders : ApplyRecovery(k, o)
      BY <1>2, PlansAreMade
    <2>2. /\ plan'[k].order = o /\ plan'[k].version = mirror[o].version
          /\ plan'[k].from = mirror[o].item
      BY <2>1 DEF ApplyRecovery, Typed, SagaTyped
    <2>3. WasSo(o, mirror[o])
      BY DEF Mirrored, MirrorWasSo
    <2>4. UNCHANGED ledger
      BY <2>1 DEF ApplyRecovery, system
    <2> QED BY <2>2, <2>3, <2>4 DEF WasSo, Planned, ledger, History, Carried
  <1> QED BY <1>1, <1>2

LEMMA CommandsStep ==
  ASSUME Typed, Typed', Booked, Amended, [Next]_vars
  PROVE  CommandsAreRecorded'
  <1>t. BookTyped /\ SagaTyped
    BY DEF Typed
  <1> SUFFICES ASSUME NEW n \in Recorded', NEW k \in Amendments, events'[n].command = k
               PROVE  /\ SetOut(k)'
                      /\ commands'[k] = events'[n].version
                      /\ events'[n].order = plan'[k].order
                      /\ events'[n].version = plan'[k].version + 1
    <2>1. ASSUME NEW n \in Recorded' PROVE events'[n].command \in Amendments \cup {Nothing}
      <3>1. events' \in Seq(Entries)
        BY DEF Typed, BookTyped
      <3>2. events'[n] \in Entries
        BY <3>1 DEF Recorded
      <3> QED BY <3>2 DEF Entries
    <2> QED BY <2>1 DEF CommandsAreRecorded
  <1>1. CASE n \in Recorded
    <2>1. events'[n] = events[n]
      BY <1>1, BookedStep
    <2>2. /\ SetOut(k) /\ commands[k] = events[n].version
          /\ events[n].order = plan[k].order
          /\ events[n].version = plan[k].version + 1
      BY <1>1, <2>1, OrderSyncAssumption DEF Amended, CommandsAreRecorded
    <2>3. SetOut(k)' /\ plan'[k] = plan[k]
      BY <2>2, PlansAreMade
    <2>4. commands[k] # 0
      BY <1>1, <1>t, <2>2, RecordedAreSeqs DEF Entries
    <2>5. commands'[k] = commands[k]
      BY <1>t, <2>4, LedgerIsWritten DEF ledger, Unseen, BookTyped
    <2> QED BY <2>1, <2>2, <2>3, <2>5
  <1>2. CASE n \notin Recorded
    <2>1. ASSUME NEW o \in Orders, NEW i \in Items, NEW c \in Amendments \cup {Nothing},
                 Change(o, i, c)
          PROVE  c = k /\ events'[n].order = o /\ events'[n].version = book[o].version + 1
      <3>1. /\ Recorded' = Recorded \cup {Len(events) + 1}
            /\ events'[Len(events) + 1] = [order |-> o, version |-> book[o].version + 1,
                                          item |-> i, command |-> c]
        BY <1>t, <2>1, ChangeAppends
      <3>2. n = Len(events) + 1
        BY <1>2, <3>1
      <3> QED BY <3>1, <3>2
    <2>2. PICK a \in 1..MaxAttempts :
              /\ Amend(k, a)
              /\ Acceptable(plan[k])
              /\ Change(plan[k].order, plan[k].to, k)
              /\ commands' = [commands EXCEPT ![k] = plan[k].version + 1]
      <3>1. ~UNCHANGED ledger
        BY <1>2 DEF ledger, Recorded
      <3>2. ~\E o \in Orders, i \in Items : Change(o, i, Nothing)
        BY <2>1, OrderSyncAssumption
      <3>3. PICK j \in Amendments, a \in 1..MaxAttempts :
              /\ Amend(j, a)
              /\ Acceptable(plan[j])
              /\ Change(plan[j].order, plan[j].to, j)
              /\ commands' = [commands EXCEPT ![j] = plan[j].version + 1]
        BY <3>1, <3>2, LedgerIsWritten
      <3>4. plan[j].order \in Orders /\ plan[j].to \in Items
        BY <3>3, AmendedHasSetOut DEF Plans
      <3>5. j = k
        BY <2>1, <3>3, <3>4
      <3> QED BY <3>3, <3>5
    <2>3. SetOut(k) /\ plan[k].order \in Orders /\ plan[k].to \in Items
      BY <2>2, AmendedHasSetOut DEF Plans
    <2>4. events'[n].order = plan[k].order /\ events'[n].version = plan[k].version + 1
      BY <2>1, <2>2, <2>3 DEF Acceptable, Current
    <2>5. SetOut(k)' /\ plan'[k] = plan[k]
      BY <2>3, PlansAreMade
    <2>6. commands'[k] = plan[k].version + 1
      BY <1>t, <2>2 DEF BookTyped
    <2> QED BY <2>4, <2>5, <2>6
  <1> QED BY <1>1, <1>2

\* Who is told of a refusal, and how the order stands then.
LEMMA RefusalsAreAnswers ==
  ASSUME Typed, [Next]_vars, NEW k \in Amendments,
         effect'[k].state = "REFUSED", effect[k].state # "REFUSED"
  PROVE  \E a \in 1..MaxAttempts :
             Amend(k, a) /\ Unseen(k) /\ ~Acceptable(plan[k]) /\ UNCHANGED ledger
  <1>t. effect \in [Amendments -> Effects]
    BY DEF Typed, SagaTyped
  <1>1. ~UNCHANGED saga
    BY DEF saga
  <1>2. PICK j \in Amendments : Recovering(j)
    BY <1>1, OthersLeaveItAlone DEF SomeoneRecovers, saga
  <1>3. ASSUME ~\E a \in 1..MaxAttempts : Amend(j, a)
        PROVE  FALSE
    <2>1. \/ UNCHANGED effect
          \/ \E state \in {"PENDING", "FAILED"} :
                effect' = [effect EXCEPT ![j].state = state]
          \/ effect' = [effect EXCEPT ![j].state = "IN_FLIGHT", ![j].attempts = @ + 1]
      BY <1>2, <1>3
      DEF Recovering, ApplyRecovery, SendAmendment, AmendmentUnanswered, AmendmentUnreadable,
          Finalize, Abandon
    <2>2. CASE effect' = [effect EXCEPT ![j].state = "IN_FLIGHT", ![j].attempts = @ + 1]
      BY <1>t, <2>2 DEF Effects
    <2> QED BY <1>t, <2>1, <2>2 DEF Effects
  <1>4. PICK a \in 1..MaxAttempts : Amend(j, a)
    BY <1>3
  <1>5. ASSUME NEW version, Answered(j, a, version)
        PROVE  j = k /\ version = 0
    BY <1>5, <1>t DEF Answered, Answer, Effects
  <1>6. plan[j] \in Plans
    BY <1>4, AmendedHasSetOut
  <1>7. plan[j].version + 1 # 0
    BY <1>6, OrderSyncAssumption DEF Plans
  <1> QED BY <1>4, <1>5, <1>7 DEF Amend, Unseen

LEMMA RefusedStep ==
  ASSUME Typed, Typed', Booked, Amended, [Next]_vars
  PROVE  RefusedIsOvertaken'
  <1>t. BookTyped /\ SagaTyped
    BY DEF Typed
  <1> SUFFICES ASSUME NEW k \in Amendments, effect'[k].state = "REFUSED"
               PROVE  commands'[k] = 0 /\ plan'[k].version < book'[plan'[k].order].version
    BY DEF RefusedIsOvertaken
  <1>1. SetOut(k) /\ plan'[k] = plan[k]
    <2>1. effect[k].state = "REFUSED" => SetOut(k)
      BY <1>t DEF SagaTyped, PlannedFirst, SetOut
    <2>2. effect[k].state # "REFUSED" => SetOut(k)
      BY RefusalsAreAnswers, AmendedHasSetOut
    <2> QED BY <2>1, <2>2, PlansAreMade
  <1>2. plan[k] \in Plans /\ plan[k].order \in Orders /\ plan[k].version \in Nat
    BY <1>1, <1>t, OrderSyncAssumption DEF SagaTyped, PlannedFirst, SetOut, Plans
  <1>3. /\ book[plan[k].order].version \in Nat /\ book'[plan[k].order].version \in Nat
        /\ book[plan[k].order].version <= book'[plan[k].order].version
    BY <1>2, BookedStep, OrderSyncAssumption DEF Typed, BookTyped, Views
  <1>4. CASE effect[k].state = "REFUSED"
    <2>1. commands[k] = 0 /\ plan[k].version < book[plan[k].order].version
      BY <1>4 DEF Amended, RefusedIsOvertaken
    <2>2. ~Acceptable(plan[k])
      BY <1>2, <1>3, <2>1 DEF Acceptable, Current
    <2>3. commands'[k] = commands[k]
      BY <1>t, <2>2, LedgerIsWritten DEF ledger, BookTyped
    <2> QED BY <1>1, <1>2, <1>3, <2>1, <2>3
  <1>5. CASE effect[k].state # "REFUSED"
    <2>1. Unseen(k) /\ ~Acceptable(plan[k]) /\ UNCHANGED ledger
      BY <1>5, RefusalsAreAnswers
    <2>2. WasSo(plan[k].order, Planned(k))
      BY <1>1 DEF Amended, PlanWasSo
    <2>3. /\ plan[k].version <= book[plan[k].order].version
          /\ plan[k].from = History(plan[k].order)[plan[k].version]
      BY <1>2, <1>3, <2>2 DEF WasSo, Planned
    <2>4. plan[k].version # book[plan[k].order].version
      BY <1>2, <2>1, <2>3 DEF Acceptable, Current, Booked, BookIsCarried
    <2> QED BY <1>1, <1>2, <1>3, <2>1, <2>3, <2>4 DEF Unseen, ledger
  <1> QED BY <1>4, <1>5

LEMMA AlwaysAmended == Spec => [](Typed /\ Booked /\ Amended)
  <1>1. Init => Amended
    BY DEF Init, Amended, PlanWasSo, CommandsAreRecorded, RefusedIsOvertaken, SetOut, Recorded
  <1>2. Typed /\ Typed' /\ Booked /\ Mirrored /\ Amended /\ [Next]_vars => Amended'
    BY PlanWasSoStep, CommandsStep, RefusedStep DEF Amended
  <1> QED BY AlwaysMirrored, <1>1, <1>2, PTL DEF Spec

\* An amendment lands on the very version PromisePatch had seen when it decided on it, and
\* only once (store._apply, store._replay, order_system.build_request).
THEOREM AmendmentsLandAsSeen == Spec => []AmendedAsSeen
  <1>1. Typed /\ Booked /\ Amended => AmendedAsSeen
    <2> SUFFICES ASSUME Typed, Booked, Amended, NEW n \in Recorded, NEW m \in Recorded,
                        NEW k \in Amendments, events[n].command = k
                 PROVE  /\ events[n].version = plan[k].version + 1
                        /\ History(plan[k].order)[plan[k].version] = plan[k].from
                        /\ m # n => events[m].command # k
      BY RecordedAreSeqs DEF AmendedAsSeen, Typed, Entries
    <2>1. /\ SetOut(k) /\ events[n].order = plan[k].order
          /\ events[n].version = plan[k].version + 1
      BY OrderSyncAssumption DEF Amended, CommandsAreRecorded
    <2>2. History(plan[k].order)[plan[k].version] = plan[k].from
      BY <2>1 DEF Amended, PlanWasSo, WasSo, Planned
    <2>3. events[m].command = k => m = n
      BY <2>1, OrderSyncAssumption DEF Amended, CommandsAreRecorded, Booked, OneEventPerVersion
    <2> QED BY <2>1, <2>2, <2>3
  <1> QED BY AlwaysAmended, <1>1, PTL

\* What the order system is recorded as having refused it has not done and will not do,
\* whatever earlier attempt of it is still on the wire (store.amend).
THEOREM RefusalsAreFinal == Spec => []RefusedIsNeverMade
  <1>1. Amended => RefusedIsNeverMade
    BY DEF Amended, RefusedIsOvertaken, RefusedIsNeverMade
  <1> QED BY AlwaysAmended, <1>1, PTL

=============================================================================
