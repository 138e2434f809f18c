----------------------------- MODULE EventStream -----------------------------
(***************************************************************************)
(* The event spine and the live feed over it: db/events.py and the trigger *)
(* of migration 0005 (numbers drawn under a lock held to the commit),      *)
(* db/listen.py (one LISTEN whose notifications may be lost with its       *)
(* connection), api/stream.py (a flag, a cursor and a loop per subscriber) *)
(* and the frontend's api/stream.ts (a client that reconnects from the id  *)
(* of its last frame).  Whether a client learns of an event must depend on *)
(* the table alone; the wake-ups only say when to look.                    *)
(***************************************************************************)
EXTENDS Naturals, FiniteSets

CONSTANTS Writers,   \* transactions that append events
          Clients,   \* browsers that keep a feed open
          MaxReplay, \* MAX_REPLAY_EVENTS
          MaxSeq,    \* bound: sequence numbers drawn
          MaxFaults, \* bound: rollbacks, lost connections and restarts
          NoCursor   \* a client that has received no frame

ASSUME StreamAssumption ==
    /\ MaxReplay \in Nat \ {0}
    /\ MaxSeq \in Nat
    /\ MaxFaults \in Nat
    /\ NoCursor \notin Nat

VARIABLES drawn,     \* the last value of domain_events_seq_seq
          numbers,   \* the numbers a transaction in progress has drawn
          committed, \* the seq of every row of domain_events
          listener,  \* where the process's LISTEN session stands
          notice,    \* a notification is on its way to that session
          stage,     \* where in event_stream a client's stream is
          position,  \* event_stream's position
          flag,      \* Subscription._signal
          wire,      \* frames read for the client that have not reached it
          lastId,    \* stream.ts lastEventId
          informed,  \* the events a frame has told the client of
          faults     \* what has gone wrong so far

spine   == <<drawn, numbers, committed>>
session == <<listener, notice>>
stream  == <<stage, position, flag, wire>>
client  == <<lastId, informed>>
vars    == <<spine, session, stream, client, faults>>

Seqs == 1..MaxSeq

\* OPENING: latest_seq is being read for a client without a cursor; LOOP: about to arm;
\* ARMED: armed, about to read; BEHIND: past the replay bound, about to read latest_seq;
\* SENDING: yielding the frames; WAITING: in Subscription.wait.
Stages == {"OFF", "OPENING", "LOOP", "ARMED", "BEHIND", "SENDING", "WAITING"}
Frames == [id : 0..MaxSeq, resync : BOOLEAN]

TypeOK ==
    /\ drawn \in 0..MaxSeq
    /\ numbers \in [Writers -> SUBSET Seqs]
    /\ committed \subseteq Seqs
    /\ listener \in {"DOWN", "LISTENING", "SERVING", "HALF_OPEN"}
    /\ notice \in BOOLEAN
    /\ stage \in [Clients -> Stages]
    /\ position \in [Clients -> 0..MaxSeq]
    /\ flag \in [Clients -> BOOLEAN]
    /\ wire \in [Clients -> SUBSET Frames]
    /\ lastId \in [Clients -> 0..MaxSeq \cup {NoCursor}]
    /\ informed \in [Clients -> SUBSET Seqs]
    /\ faults \in 0..MaxFaults

Init ==
    /\ drawn = 0
    /\ numbers = [w \in Writers |-> {}]
    /\ committed = {}
    /\ listener = "DOWN"
    /\ notice = FALSE
    /\ stage = [c \in Clients |-> "OFF"]
    /\ position = [c \in Clients |-> 0]
    /\ flag = [c \in Clients |-> FALSE]
    /\ wire = [c \in Clients |-> {}]
    /\ lastId = [c \in Clients |-> NoCursor]
    /\ informed = [c \in Clients |-> {}]
    /\ faults = 0

Fault == faults < MaxFaults /\ faults' = faults + 1

-----------------------------------------------------------------------------
(* The spine: append_event and the triggers of migrations 0004 and 0005.   *)

\* pg_advisory_xact_lock: who has drawn a number holds it until the transaction ends.
SpineIsFree(w) == \A v \in Writers \ {w} : numbers[v] = {}

Draw(w) ==
    /\ drawn < MaxSeq
    /\ drawn' = drawn + 1
    /\ numbers' = [numbers EXCEPT ![w] = @ \cup {drawn + 1}]

\* [mutant] the column's default draws the number, and nothing takes the lock.
AppendAsItComes(w) ==
    /\ Draw(w)
    /\ UNCHANGED <<committed, session, stream, client, faults>>

AppendEvent(w) ==
    /\ SpineIsFree(w)
    /\ Draw(w)
    /\ UNCHANGED <<committed, session, stream, client, faults>>

\* NOTIFY is delivered at the commit, to whoever is listening then.
Commit(w) ==
    /\ numbers[w] # {}
    /\ committed' = committed \cup numbers[w]
    /\ numbers' = [numbers EXCEPT ![w] = {}]
    /\ notice' = (notice \/ listener \in {"LISTENING", "SERVING"})
    /\ UNCHANGED <<drawn, listener, stream, client, faults>>

\* The numbers are spent all the same.
Rollback(w) ==
    /\ numbers[w] # {}
    /\ Fault
    /\ numbers' = [numbers EXCEPT ![w] = {}]
    /\ UNCHANGED <<drawn, committed, session, stream, client>>

-----------------------------------------------------------------------------
(* DomainEventListener.                                                    *)

\* EventBroadcaster.publish: every open stream's flag, and nothing else.
Wake == flag' = [c \in Clients |-> flag[c] \/ stage[c] # "OFF"]

Open ==
    /\ listener = "DOWN"
    /\ listener' = "LISTENING"
    /\ UNCHANGED <<spine, notice, stream, client, faults>>

\* Nothing said what was missed while nobody listened, so everybody looks.
Serve ==
    /\ listener = "LISTENING"
    /\ listener' = "SERVING"
    /\ Wake
    /\ UNCHANGED <<spine, notice, stage, position, wire, client, faults>>

Notified ==
    /\ listener = "SERVING"
    /\ notice
    /\ notice' = FALSE
    /\ Wake
    /\ UNCHANGED <<spine, listener, stage, position, wire, client, faults>>

\* The connection is lost, and at first nobody here can tell.
ConnectionDies ==
    /\ listener \in {"LISTENING", "SERVING"}
    /\ Fault
    /\ listener' = "HALF_OPEN"
    /\ notice' = FALSE
    /\ UNCHANGED <<spine, stream, client>>

\* The driver says so, or the next heartbeat finds out.
LossIsNoticed ==
    /\ listener = "HALF_OPEN"
    /\ listener' = "DOWN"
    /\ UNCHANGED <<spine, notice, stream, client, faults>>

-----------------------------------------------------------------------------
(* event_stream, for one client.                                           *)

\* [mutant] the spine is empty, so there is no number to give.
LatestSeqOrNone ==
    IF committed = {} THEN NoCursor ELSE CHOOSE n \in committed : \A m \in committed : m <= n

\* 0 when there is none: it is a cursor.
LatestSeq == CHOOSE n \in committed \cup {0} : \A m \in committed : m <= n

After(n) == {e \in committed : e > n}

EventFrame(e)  == [id |-> e, resync |-> FALSE]
ResyncFrame(n) == [id |-> n, resync |-> TRUE]

StreamMoves(c, from, to) ==
    /\ stage[c] = from
    /\ stage' = [stage EXCEPT ![c] = to]

\* The request arrives, with the cursor of the last frame if there was one; subscribed first.
Connect(c) ==
    /\ StreamMoves(c, "OFF", IF lastId[c] = NoCursor THEN "OPENING" ELSE "LOOP")
    /\ position' = [position EXCEPT ![c] = IF lastId[c] = NoCursor THEN 0 ELSE lastId[c]]
    /\ UNCHANGED <<spine, session, flag, wire, client, faults>>

\* No cursor: the client is told where the ledger is, and to load the rest.
TellWhereTheLedgerIs(c) ==
    /\ StreamMoves(c, "OPENING", "LOOP")
    /\ position' = [position EXCEPT ![c] = LatestSeq]
    /\ wire' = [wire EXCEPT ![c] = @ \cup {ResyncFrame(LatestSeq)}]
    /\ UNCHANGED <<spine, session, flag, client, faults>>

Arm(c) ==
    /\ StreamMoves(c, "LOOP", "ARMED")
    /\ flag' = [flag EXCEPT ![c] = FALSE]
    /\ UNCHANGED <<spine, session, position, wire, client, faults>>

\* _catch_up: one query of at most MaxReplay + 1 rows.
CatchUp(c) ==
    LET records == After(position[c])
    IN  /\ IF Cardinality(records) > MaxReplay
           THEN /\ StreamMoves(c, "ARMED", "BEHIND")
                /\ UNCHANGED <<position, wire>>
           ELSE /\ StreamMoves(c, "ARMED", "SENDING")
                /\ position' = [position EXCEPT ![c] = IF records = {} THEN @ ELSE LatestSeq]
                /\ wire' = [wire EXCEPT ![c] = @ \cup {EventFrame(e) : e \in records}]
        /\ UNCHANGED <<spine, session, flag, client, faults>>

\* Too much to replay: another query, and one frame in place of all those events.
Resync(c) ==
    /\ StreamMoves(c, "BEHIND", "SENDING")
    /\ position' = [position EXCEPT ![c] = LatestSeq]
    /\ wire' = [wire EXCEPT ![c] = @ \cup {ResyncFrame(LatestSeq)}]
    /\ UNCHANGED <<spine, session, flag, client, faults>>

\* [mutant] the flag is cleared before the wait instead of before the read.
FramesSentThenArm(c) ==
    /\ StreamMoves(c, "SENDING", "WAITING")
    /\ flag' = [flag EXCEPT ![c] = FALSE]
    /\ UNCHANGED <<spine, session, position, wire, client, faults>>

FramesSent(c) ==
    /\ StreamMoves(c, "SENDING", "WAITING")
    /\ UNCHANGED <<spine, session, position, flag, wire, client, faults>>

Woken(c) ==
    /\ flag[c]
    /\ StreamMoves(c, "WAITING", "LOOP")
    /\ UNCHANGED <<spine, session, position, flag, wire, client, faults>>

\* [mutant] the comment frame is all that a quiet interval brings.
KeepaliveOnly(c) ==
    /\ StreamMoves(c, "WAITING", "WAITING")
    /\ UNCHANGED <<spine, session, position, flag, wire, client, faults>>

\* The interval passes in silence, and the stream looks anyway.
Keepalive(c) ==
    /\ ~flag[c]
    /\ StreamMoves(c, "WAITING", "LOOP")
    /\ UNCHANGED <<spine, session, position, flag, wire, client, faults>>

-----------------------------------------------------------------------------
(* runEventStream and useEventStream, in the browser.                      *)

\* Frames arrive as they were sent, and they were read in ascending seq.
Arrives(c, f) == f \in wire[c] /\ \A g \in wire[c] : f.id <= g.id

\* A frame says when to read the views again: of its own event, or of everything so far.
Receive(c) ==
    \E f \in wire[c] :
        /\ Arrives(c, f)
        /\ wire' = [wire EXCEPT ![c] = @ \ {f}]
        /\ lastId' = [lastId EXCEPT ![c] = f.id]
        /\ informed' = [informed EXCEPT ![c] =
                          @ \cup {e \in committed : IF f.resync THEN e <= f.id ELSE e = f.id}]
        /\ UNCHANGED <<spine, session, stage, position, flag, faults>>

\* The feed is lost with whatever was still to come over it; the client keeps its cursor.
FeedIsLost(c) ==
    /\ stage[c] # "OFF"
    /\ Fault
    /\ stage' = [stage EXCEPT ![c] = "OFF"]
    /\ flag' = [flag EXCEPT ![c] = FALSE]
    /\ wire' = [wire EXCEPT ![c] = {}]
    /\ UNCHANGED <<spine, session, position, client>>

\* The API process restarts: its listener and every stream are gone.
ApiRestarts ==
    /\ Fault
    /\ listener' = "DOWN"
    /\ notice' = FALSE
    /\ stage' = [c \in Clients |-> "OFF"]
    /\ flag' = [c \in Clients |-> FALSE]
    /\ wire' = [c \in Clients |-> {}]
    /\ UNCHANGED <<spine, position, client>>

-----------------------------------------------------------------------------
Streaming(c) ==
    \/ TellWhereTheLedgerIs(c)
    \/ Arm(c)
    \/ CatchUp(c)
    \/ Resync(c)
    \/ FramesSent(c)
    \/ Woken(c)
    \/ Keepalive(c)

Listening == Open \/ Serve \/ Notified \/ LossIsNoticed

Next ==
    \/ \E w \in Writers : AppendEvent(w) \/ Commit(w) \/ Rollback(w)
    \/ Listening
    \/ ConnectionDies
    \/ ApiRestarts
    \/ \E c \in Clients : Connect(c) \/ Streaming(c) \/ Receive(c) \/ FeedIsLost(c)

Spec == Init /\ [][Next]_vars

\* Transactions end, the loop of a stream goes on and its waits time out, frames arrive, and
\* a client that lost its feed opens another.  Of the listener nothing is asked.
Fairness ==
    /\ \A w \in Writers : WF_vars(Commit(w))
    /\ \A c \in Clients : WF_vars(Connect(c)) /\ WF_vars(Streaming(c)) /\ WF_vars(Receive(c))

FairSpec == Spec /\ Fairness

-----------------------------------------------------------------------------
\* "Clear the flag before reading, so a wake-up during the read is not missed" (stream.py),
\* and a reconnect wakes everybody: with the listener up and no notification on its way, a
\* stream that sleeps unsignalled has read everything there is.
SleeperHasReadEverything ==
    \A c \in Clients :
        stage[c] = "WAITING" /\ ~flag[c] /\ listener = "SERVING" /\ ~notice =>
            After(position[c]) = {}

\* Commit order is what makes the cursor safe (events.py): a client never steps over an
\* event, whatever overtakes, rolls back, is dropped, replayed or past the bound.
Log == INSTANCE FollowedLog WITH Followers <- Clients, log <- committed, told <- informed

FeedFollowsTheLog == Log!Spec

\* "Even a feed whose notifications are entirely lost still catches up on its own"
\* (stream.py): whatever commits reaches every client that keeps coming back, itself or in
\* a resync, though the listener never comes up at all.
EveryEventIsHeard ==
    \A c \in Clients, e \in Seqs : e \in committed ~> e \in informed[c]
=============================================================================
