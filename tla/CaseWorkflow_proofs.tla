------------------------ MODULE CaseWorkflow_proofs ------------------------
(***************************************************************************)
(* Theorems about one case from its presented plan to its resolution or    *)
(* its withdrawal, for any finite set of promises, any first plan, any     *)
(* words and any number of asks, replies, re-plans and withdrawals.        *)
(***************************************************************************)
EXTENDS CaseWorkflow, FiniteSetTheorems, TLAPS

-----------------------------------------------------------------------------
(* The inductive invariant, by what it ties together.                      *)

\* What a row of the ledger is about.
About(s) ==
    /\ s.kind \in RecoveryWork \cup PerAsk \cup PerReply => s.track \in Tracks
    /\ s.kind \in PerAsk \cup PerReply => s.ask \in Asks
    /\ s.kind \notin PerReply => s.word = NoWord

LedgerTyped ==
    /\ open \subseteq StepKeys /\ IsFiniteSet(open)
    /\ done \subseteq StepKeys /\ IsFiniteSet(done)
    /\ failed \subseteq done
    /\ \A s \in open \cup done : About(s)

CaseTyped ==
    /\ case \in CaseStates
    /\ attention \in BOOLEAN
    /\ plans \in Nat
    /\ planTimer \in BOOLEAN

PromisesTyped ==
    /\ track \in [Tracks -> TrackStates]
    /\ verdict \in [Tracks -> Verdicts]
    /\ carried \in [Tracks -> {0} \cup Asks]
    /\ request \in [Tracks -> [Asks -> RequestStates]]
    /\ decision \in [Tracks -> [Asks -> {"NONE", "APPROVE", "DECLINE"}]]
    /\ proceeded \subseteq Tracks \X Asks

EffectsTyped ==
    /\ message \in [Tracks -> [Asks -> {"NONE", "QUEUED", "SENT", "DELIVERED",
                                        "FAILED", "UNCERTAIN"}]]
    /\ amendment \in [Tracks -> {"NONE", "QUEUED", "DELIVERED", "FAILED"}]
    /\ armed \subseteq Tracks \X Asks
    /\ overdue \subseteq Tracks \X Asks

Typed == CaseTyped /\ LedgerTyped /\ PromisesTyped /\ EffectsTyped

\* A promise is asked about one ask after the other; the open one it carries is undecided.
Asked(t) == {n \in Asks : request[t][n] # "NONE"}

AskedInTurn == \A t \in Tracks : Asked(t) = 1 .. NextAsk(t) - 1

Answerable ==
    \A t \in Tracks, n \in Asks :
        /\ request[t][n] \in OpenApproval =>
             carried[t] = n /\ track[t] \in {"PENDING", "WAITING_FOR_CUSTOMER"}
                            /\ verdict[t] = "APPROVAL"
        /\ request[t][n] \in OpenApproval \cup {"NONE"} => decision[t][n] = "NONE"
        /\ decision[t][n] = "APPROVE" =>
             WordStep("RECEIVE_CUSTOMER_REPLY", t, n, "YES") \in done

CarriedWasAsked == \A t \in Tracks : carried[t] # 0 => request[t][carried[t]] # "NONE"

Consented == AskedInTurn /\ Answerable /\ CarriedWasAsked /\ AmendedWithConsent

\* A promise that is still to be recovered, and the case it is in.
PendingIsPlanned ==
    \A t \in Tracks : track[t] = "PENDING" =>
        /\ case \in {"PLANNED", "EXECUTING", "REVALIDATING"}
        /\ case # "EXECUTING" => carried[t] = 0
        /\ carried[t] = 0 /\ verdict[t] = "APPROVAL" => NextAsk(t) \in Asks

AskingIsNext ==
    \A s \in open : s.kind = "REQUEST_APPROVAL" =>
        \/ Withdrawals > 0
        \/ /\ case = "EXECUTING"
           /\ track[s.track] = "PENDING"
           /\ carried[s.track] = 0
           /\ verdict[s.track] = "APPROVAL"
           /\ s.ask = NextAsk(s.track)

WaitingIsAsking == case = "WAITING" => HasOpenApproval(request)

Placed == PendingIsPlanned /\ AskingIsNext /\ WaitingIsAsking

\* A deadline is of an ask that was made, and an open ask that is waited for has its own.
DeadlinesAreOfAsks ==
    /\ \A t \in Tracks, n \in Asks : <<t, n>> \in armed => request[t][n] # "NONE"
    /\ \A s \in open \cup done : s.kind = "EXPIRE_APPROVAL" => request[s.track][s.ask] # "NONE"
    /\ \A s \in done : s.kind = "EXPIRE_APPROVAL" => request[s.track][s.ask] \notin OpenApproval

WaitsHaveDeadlines ==
    \A t \in Tracks, n \in Asks :
        request[t][n] \in OpenApproval /\ track[t] = "WAITING_FOR_CUSTOMER" =>
            <<t, n>> \in armed \/ AskStep("EXPIRE_APPROVAL", t, n) \in open

Timed == DeadlinesAreOfAsks /\ WaitsHaveDeadlines

\* An amendment is of a promise that is being changed, and its report comes after it.
Amending ==
    /\ \A t \in Tracks :
         /\ amendment[t] # "NONE" => track[t] \in {"APPLYING"} \cup Terminal
         /\ amendment[t] = "QUEUED" =>
              \/ track[t] = "APPLYING"
              \/ Withdrawals > 0 /\ (track[t] = "ESCALATED" \/ case = "CANCELLED")
    /\ \A s \in open : s.kind \in {"FINALIZE_RECOVERY", "ABANDON_RECOVERY"} =>
         amendment[s.track] \in {"DELIVERED", "FAILED"}

IInv ==
    /\ Typed
    /\ Consented
    /\ Placed
    /\ Timed
    /\ Amending
    /\ ResolvedIsFinished
    /\ WithdrawnStaysStopped
    /\ OwnerIsTold

-----------------------------------------------------------------------------
(* What one step does to one promise.                                      *)

NotOpen(t) == \A n \in Asks : request[t][n] \notin OpenApproval

Keeps(t) == verdict'[t] = verdict[t] /\ carried'[t] = carried[t] /\ decision'[t] = decision[t]

KeepsAsks(t) == Keeps(t) /\ request'[t] = request[t]

Untouched(t) == KeepsAsks(t) /\ track'[t] = track[t]

\* Its REQUEST_APPROVAL settles, with or without the question.
IsTakenUp(t) ==
    /\ case = "EXECUTING"
    /\ track[t] = "PENDING"
    /\ carried[t] = 0
    /\ verdict[t] = "APPROVAL"
    /\ \E s \in open : s.kind = "REQUEST_APPROVAL" /\ s.track = t /\ s \notin open'

IsAsked(t) ==
    /\ IsTakenUp(t)
    /\ NextAsk(t) \in Asks
    /\ request'[t] = [request[t] EXCEPT ![NextAsk(t)] = "SENT"]
    /\ carried'[t] = NextAsk(t)
    /\ UNCHANGED <<track, verdict, decision>>

IsNotAsked(t) == IsTakenUp(t) /\ NotOpen(t) /\ KeepsAsks(t) /\ track'[t] = "ESCALATED"

IsReached(t, n) ==
    /\ case = "EXECUTING"
    /\ track[t] = "PENDING"
    /\ carried[t] = n
    /\ request[t][n] \in OpenApproval
    /\ KeepsAsks(t)
    /\ track'[t] = "WAITING_FOR_CUSTOMER"
    /\ <<t, n>> \in armed'

IsConfirming(t, n) ==
    /\ request[t][n] \in OpenApproval
    /\ Keeps(t)
    /\ track'[t] = track[t]
    /\ request'[t] = [request[t] EXCEPT ![n] = "CONFIRMATION_PENDING"]

Answers(t, n) ==
    /\ request[t][n] \in OpenApproval
    /\ verdict'[t] = verdict[t] /\ carried'[t] = carried[t]
    /\ request'[t] = [request[t] EXCEPT ![n] = "ANSWERED"]
    /\ \/ /\ decision'[t] = [decision[t] EXCEPT ![n] = "APPROVE"]
          /\ track'[t] = track[t]
          /\ WordStep("RECEIVE_CUSTOMER_REPLY", t, n, "YES") \in done'
       \/ /\ decision'[t] = [decision[t] EXCEPT ![n] = "DECLINE"]
          /\ track'[t] = "ESCALATED"

Closes(t, n) ==
    /\ track[t] \notin Terminal
    /\ carried[t] = n
    /\ Keeps(t)
    /\ request'[t] = [request[t] EXCEPT ![n] = "EXPIRED"]
    /\ track'[t] = "ESCALATED"

HandsOver(t) ==
    /\ track[t] \notin Terminal
    /\ NotOpen(t)
    /\ case = "EXECUTING" /\ track[t] = "PENDING" /\ carried[t] = 0 => verdict[t] # "APPROVAL"
    /\ KeepsAsks(t)
    /\ track'[t] = "ESCALATED"

GoesStale(t) ==
    /\ track[t] = "WAITING_FOR_CUSTOMER"
    /\ NotOpen(t)
    /\ KeepsAsks(t)
    /\ track'[t] = "STALE"

IsReplanned(t) ==
    /\ case = "REVALIDATING"
    /\ track[t] = "STALE"
    /\ carried[t] # 0
    /\ track'[t] \in {"PENDING", "UNAFFECTED"}
    /\ verdict'[t] = "APPROVAL" /\ track'[t] = "PENDING" => NextAsk(t) \in Asks
    /\ request'[t] = [request[t] EXCEPT ![carried[t]] = "SUPERSEDED"]
    /\ carried'[t] = 0
    /\ decision'[t] = decision[t]

IsApplied(t) ==
    /\ Authorised(t)
    /\ NotOpen(t)
    /\ KeepsAsks(t)
    /\ track'[t] = "APPLYING"

IsRecovered(t) == track[t] = "APPLYING" /\ KeepsAsks(t) /\ track'[t] = "RECOVERED"

IsStoodDown(t) ==
    /\ Withdrawals' > 0
    /\ track[t] \notin Terminal
    /\ track'[t] \in {"ESCALATED", "WITHDRAWN"}
    /\ verdict'[t] = verdict[t] /\ decision'[t] = decision[t]
    /\ carried'[t] \in {0, carried[t]}
    /\ \A n \in Asks : request'[t][n] = IF Undecided(t, n) THEN "SUPERSEDED" ELSE request[t][n]

Moves(t) ==
    \/ Untouched(t)
    \/ IsAsked(t)
    \/ IsNotAsked(t)
    \/ HandsOver(t)
    \/ GoesStale(t)
    \/ IsReplanned(t)
    \/ IsApplied(t)
    \/ IsRecovered(t)
    \/ IsStoodDown(t)
    \/ \E n \in Asks : IsReached(t, n) \/ IsConfirming(t, n) \/ Answers(t, n) \/ Closes(t, n)

\* What a handler leaves of the promises: types, and one move each.
Recorded == PromisesTyped' /\ \A t \in Tracks : Moves(t)

LEMMA UntouchedMoves ==
  ASSUME PromisesTyped, UNCHANGED <<track, verdict, carried, request, decision>>,
         proceeded' \subseteq Tracks \X Asks
  PROVE  Recorded
  BY DEF Recorded, Moves, Untouched, KeepsAsks, Keeps, PromisesTyped

\* A handler that writes one promise.
LEMMA OneMoves ==
  ASSUME PromisesTyped, NEW t \in Tracks, PromisesTyped', Moves(t),
         \A u \in Tracks \ {t} : Untouched(u)
  PROVE  Recorded
  BY DEF Recorded, Moves

LEMMA SkipMoves ==
  ASSUME Typed, NEW s, Skip(s) \/ GiveUp(s)
  PROVE  Recorded
  BY UntouchedMoves DEF Skip, GiveUp, consent, Typed, PromisesTyped

\* Who has an open request has nothing else to lose.
LEMMA OpenIsAlone ==
  ASSUME Consented, NEW t \in Tracks, NEW n \in Asks, request[t][n] \in OpenApproval
  PROVE  /\ carried[t] = n /\ track[t] \notin Terminal /\ decision[t][n] = "NONE"
         /\ \A m \in Asks \ {n} : request[t][m] \notin OpenApproval
  BY DEF Consented, Answerable, Terminal

LEMMA RequestMoves ==
  ASSUME IInv, NEW s \in open, RequestApproval(s)
  PROVE  Recorded
  <1> DEFINE t == s.track
             n == s.ask
  <1>t. PromisesTyped /\ t \in Tracks /\ n \in Asks
    BY DEF IInv, Typed, LedgerTyped, About, PerAsk, RequestApproval
  <1>1. CASE Skip(s)
    BY <1>1, SkipMoves DEF IInv
  <1>2. CASE ~Skip(s)
    <2>1. /\ case = "EXECUTING" /\ track[t] = "PENDING" /\ carried[t] = 0
          /\ verdict[t] = "APPROVAL"
      BY <1>2 DEF RequestApproval
    <2>2. n = NextAsk(t)
      BY <2>1 DEF IInv, Placed, AskingIsNext, WithdrawnStaysStopped, TerminalCases, RequestApproval
    <2>3. NotOpen(t)
      BY <1>t, <2>1 DEF IInv, NotOpen, Consented, Answerable, Asks
    <2>4. s \notin open'
      BY <1>2 DEF RequestApproval, Escalate, AskWhereTheCaseStands, MoveCase, Settle
    <2>5. IsTakenUp(t)
      BY <2>1, <2>4 DEF IsTakenUp, RequestApproval
    <2>6. CASE track' = [track EXCEPT ![t] = "ESCALATED"] /\ UNCHANGED <<verdict, consent>>
      <3>1. PromisesTyped'
        BY <1>t, <2>6 DEF PromisesTyped, consent, TrackStates, Terminal
      <3>2. IsNotAsked(t) /\ \A u \in Tracks \ {t} : Untouched(u)
        BY <1>t, <2>3, <2>5, <2>6
        DEF IsNotAsked, Untouched, KeepsAsks, Keeps, consent, PromisesTyped
      <3> QED BY <1>t, <3>1, <3>2, OneMoves DEF Moves
    <2>7. CASE /\ request' = [request EXCEPT ![t][n] = "SENT"]
               /\ carried' = [carried EXCEPT ![t] = n]
               /\ UNCHANGED <<track, verdict, decision, proceeded>>
      <3>1. PromisesTyped'
        BY <1>t, <2>7 DEF PromisesTyped, RequestStates, OpenApproval
      <3>2. IsAsked(t) /\ \A u \in Tracks \ {t} : Untouched(u)
        BY <1>t, <2>2, <2>5, <2>7
        DEF IsAsked, Untouched, KeepsAsks, Keeps, PromisesTyped
      <3> QED BY <1>t, <3>1, <3>2, OneMoves DEF Moves
    <2> QED BY <1>2, <2>6, <2>7 DEF RequestApproval, Escalate, SetTrack
  <1> QED BY <1>1, <1>2

\* Handing a promise over, and closing its request, are always the same two writes.
LEMMA HandOverMoves ==
  ASSUME PromisesTyped, NEW t \in Tracks, track[t] \notin Terminal, NotOpen(t),
         case = "EXECUTING" /\ track[t] = "PENDING" /\ carried[t] = 0 =>
             verdict[t] # "APPROVAL",
         track' = [track EXCEPT ![t] = "ESCALATED"], UNCHANGED <<verdict, consent>>
  PROVE  Recorded
  <1>1. PromisesTyped'
    BY DEF PromisesTyped, consent, TrackStates, Terminal
  <1>2. HandsOver(t) /\ \A u \in Tracks \ {t} : Untouched(u)
    BY DEF HandsOver, Untouched, KeepsAsks, Keeps, consent, PromisesTyped
  <1> QED BY <1>1, <1>2, OneMoves DEF Moves

LEMMA ClosingMoves ==
  ASSUME PromisesTyped, NEW t \in Tracks, NEW n \in Asks,
         track[t] \notin Terminal, carried[t] = n,
         track' = [track EXCEPT ![t] = "ESCALATED"],
         request' = [request EXCEPT ![t][n] = "EXPIRED"],
         UNCHANGED <<verdict, carried, decision, proceeded>>
  PROVE  Recorded
  <1>1. PromisesTyped'
    BY DEF PromisesTyped, TrackStates, RequestStates, Terminal
  <1>2. Closes(t, n) /\ \A u \in Tracks \ {t} : Untouched(u)
    BY DEF Closes, Untouched, KeepsAsks, Keeps, PromisesTyped
  <1> QED BY <1>1, <1>2, OneMoves DEF Moves

LEMMA CloseRequestMoves ==
  ASSUME IInv, NEW s \in open, s.kind \in PerAsk, CloseRequest(s, s.track, s.ask),
         track[s.track] \notin Terminal, carried[s.track] = s.ask
  PROVE  Recorded
  <1> DEFINE t == s.track
             n == s.ask
  <1>t. PromisesTyped /\ t \in Tracks /\ n \in Asks
    BY DEF IInv, Typed, LedgerTyped, About
  <1>1. /\ track' = [track EXCEPT ![t] = "ESCALATED"]
        /\ UNCHANGED <<verdict, carried, decision, proceeded>>
    BY DEF CloseRequest, Escalate, SetTrack
  <1>2. CASE decision[t][n] = "NONE"
    BY <1>1, <1>2, <1>t, ClosingMoves DEF CloseRequest
  <1>3. CASE decision[t][n] # "NONE"
    <2>1. NotOpen(t)
      BY <1>3, <1>t, OpenIsAlone DEF NotOpen, IInv
    <2>2. UNCHANGED request /\ carried[t] # 0
      BY <1>3, <1>t DEF CloseRequest, Asks
    <2> QED BY <1>1, <1>t, <2>1, <2>2, HandOverMoves DEF consent
  <1> QED BY <1>2, <1>3

LEMMA MarkSentMoves ==
  ASSUME IInv, NEW s \in open, MarkApprovalSent(s)
  PROVE  Recorded
  <1> DEFINE t == s.track
             n == s.ask
  <1>t. PromisesTyped /\ t \in Tracks /\ n \in Asks /\ s.kind \in PerAsk
    BY DEF IInv, Typed, LedgerTyped, About, PerAsk, MarkApprovalSent
  <1>1. CASE Skip(s)
    BY <1>1, SkipMoves DEF IInv
  <1>2. CASE ~Skip(s)
    <2>1. /\ case = "EXECUTING" /\ track[t] = "PENDING" /\ carried[t] = n
          /\ request[t][n] \in OpenApproval
      BY <1>2 DEF MarkApprovalSent
    <2>2. CASE CloseRequest(s, t, n)
      BY <1>t, <2>1, <2>2, CloseRequestMoves DEF Terminal
    <2>3. CASE /\ track' = [track EXCEPT ![t] = "WAITING_FOR_CUSTOMER"]
               /\ armed' = armed \cup {<<t, n>>}
               /\ UNCHANGED <<verdict, consent>>
      <3>1. PromisesTyped'
        BY <1>t, <2>3 DEF PromisesTyped, consent, TrackStates
      <3>2. IsReached(t, n) /\ \A u \in Tracks \ {t} : Untouched(u)
        BY <1>t, <2>1, <2>3 DEF IsReached, Untouched, KeepsAsks, Keeps, consent, PromisesTyped
      <3> QED BY <1>t, <3>1, <3>2, OneMoves DEF Moves
    <2> QED BY <1>2, <2>2, <2>3 DEF MarkApprovalSent, SetTrack
  <1> QED BY <1>1, <1>2

LEMMA AbandonApprovalMoves ==
  ASSUME IInv, NEW s \in open, AbandonApproval(s)
  PROVE  Recorded
  <1>1. CASE Skip(s)
    BY <1>1, SkipMoves DEF IInv
  <1>2. CASE ~Skip(s)
    BY <1>2, CloseRequestMoves DEF AbandonApproval, PerAsk, Terminal
  <1> QED BY <1>1, <1>2

LEMMA ExpireMoves ==
  ASSUME IInv, NEW s \in open, ExpireApproval(s)
  PROVE  Recorded
  <1>t. s.track \in Tracks /\ s.ask \in Asks /\ s.kind \in PerAsk
    BY DEF IInv, Typed, LedgerTyped, About, PerAsk, ExpireApproval
  <1>1. CASE Skip(s)
    BY <1>1, SkipMoves DEF IInv
  <1>2. CASE ~Skip(s)
    <2>1. request[s.track][s.ask] \in OpenApproval /\ CloseRequest(s, s.track, s.ask)
      BY <1>2 DEF ExpireApproval
    <2> QED BY <1>t, <2>1, OpenIsAlone, CloseRequestMoves DEF IInv
  <1> QED BY <1>1, <1>2

LEMMA ReplyMoves ==
  ASSUME IInv, NEW s \in open, ReceiveReply(s)
  PROVE  Recorded
  <1> DEFINE t == s.track
             n == s.ask
  <1>t. /\ PromisesTyped /\ t \in Tracks /\ n \in Asks /\ s \in StepKeys
        /\ s.kind = "RECEIVE_CUSTOMER_REPLY"
    BY DEF IInv, Typed, LedgerTyped, About, PerReply, ReceiveReply
  <1>0. CASE Skip(s)
    BY <1>0, SkipMoves DEF IInv
  <1>1. CASE \E stranger, new : RecordReply(s, stranger, new)
    BY <1>t, <1>1, UntouchedMoves DEF RecordReply, consent, PromisesTyped
  <1>2. CASE request[t][n] \in OpenApproval /\ EscalateUnconfirmed(s, t, n)
    BY <1>t, <1>2, OpenIsAlone, ClosingMoves DEF IInv, EscalateUnconfirmed, Escalate, SetTrack
  <1>3. CASE request[t][n] \in OpenApproval /\ Reading(s.word) # "NONE" /\ RecordDecision(s, t, n)
    <2>1. /\ decision' = [decision EXCEPT ![t][n] = Reading(s.word)]
          /\ request' = [request EXCEPT ![t][n] = "ANSWERED"]
          /\ IF Reading(s.word) = "APPROVE" THEN UNCHANGED track
                                            ELSE track' = [track EXCEPT ![t] = "ESCALATED"]
          /\ UNCHANGED <<carried, proceeded, verdict>>
      BY <1>3 DEF RecordDecision, SetTrack
    <2>2. Reading(s.word) \in {"APPROVE", "DECLINE"}
      BY <1>3 DEF Reading
    <2>3. PromisesTyped'
      BY <1>t, <2>1, <2>2 DEF PromisesTyped, TrackStates, RequestStates, Terminal
    <2>4. \A u \in Tracks \ {t} : Untouched(u)
      BY <1>t, <2>1 DEF Untouched, KeepsAsks, Keeps, PromisesTyped
    <2>5. Answers(t, n)
      <3>1. /\ verdict'[t] = verdict[t] /\ carried'[t] = carried[t]
            /\ request'[t] = [request[t] EXCEPT ![n] = "ANSWERED"]
            /\ decision'[t] = [decision[t] EXCEPT ![n] = Reading(s.word)]
            /\ track'[t] = IF Reading(s.word) = "APPROVE" THEN track[t] ELSE "ESCALATED"
        BY <1>t, <2>1 DEF PromisesTyped
      <3>2. Reading(s.word) = "APPROVE" => WordStep("RECEIVE_CUSTOMER_REPLY", t, n, "YES") \in done'
        <4>1. s \in done'
          BY <1>3 DEF RecordDecision, AskWhereTheCaseStands, MoveCase, Settle
        <4>2. Reading(s.word) = "APPROVE" => s = WordStep("RECEIVE_CUSTOMER_REPLY", t, n, "YES")
          BY <1>t DEF Reading, WordStep, StepKeys
        <4> QED BY <4>1, <4>2
      <3> QED BY <1>3, <2>2, <3>1, <3>2 DEF Answers
    <2> QED BY <1>t, <2>3, <2>4, <2>5, OneMoves DEF Moves
  <1> QED BY <1>0, <1>1, <1>2, <1>3 DEF ReceiveReply

LEMMA InterpretMoves ==
  ASSUME IInv, NEW s \in open, InterpretReply(s)
  PROVE  Recorded
  <1> DEFINE t == s.track
             n == s.ask
  <1>t. PromisesTyped /\ t \in Tracks /\ n \in Asks
    BY DEF IInv, Typed, LedgerTyped, About, PerReply, InterpretReply
  <1>1. CASE Skip(s)
    BY <1>1, SkipMoves DEF IInv
  <1>2. CASE ~Skip(s)
    <2>1. /\ request[t][n] = "SENT"
          /\ request' = [request EXCEPT ![t][n] = "CONFIRMATION_PENDING"]
          /\ UNCHANGED <<track, carried, decision, proceeded, verdict>>
      BY <1>2 DEF InterpretReply
    <2>2. PromisesTyped'
      BY <1>t, <2>1 DEF PromisesTyped, RequestStates, OpenApproval
    <2>3. IsConfirming(t, n) /\ \A u \in Tracks \ {t} : Untouched(u)
      BY <1>t, <2>1
      DEF IsConfirming, Untouched, KeepsAsks, Keeps, PromisesTyped, OpenApproval
    <2> QED BY <1>t, <2>2, <2>3, OneMoves DEF Moves
  <1> QED BY <1>1, <1>2

LEMMA RevalidateMoves ==
  ASSUME IInv, NEW s \in open, Revalidate(s)
  PROVE  Recorded
  <1> DEFINE t == s.track
             n == s.ask
  <1>t. PromisesTyped /\ t \in Tracks /\ n \in Asks
    BY DEF IInv, Typed, LedgerTyped, About, PerAsk, Round, Revalidate
  <1>1. CASE Skip(s) \/ GiveUp(s)
    BY <1>1, SkipMoves DEF IInv
  <1>2. CASE NoAuthorityToConsume(s)
    BY <1>2, <1>t, UntouchedMoves DEF NoAuthorityToConsume, consent, PromisesTyped
  <1>3. CASE Proceed(s)
    BY <1>3, <1>t, UntouchedMoves DEF Proceed, PromisesTyped
  <1>4. CASE ~Skip(s) /\ (GoStale(s) \/ RevalidationExpired(s)) /\ ~NoAuthorityToConsume(s)
    <2>1. /\ carried[t] = n /\ decision[t][n] = "APPROVE"
          /\ track[t] = "WAITING_FOR_CUSTOMER" /\ case = "REVALIDATING"
      BY <1>4 DEF Revalidate
    <2>2. NotOpen(t)
      BY <1>t, <2>1, OpenIsAlone DEF NotOpen, IInv
    <2>3. CASE RevalidationExpired(s)
      BY <1>t, <2>1, <2>2, <2>3, HandOverMoves DEF RevalidationExpired, SetTrack, Terminal
    <2>4. CASE GoStale(s)
      <3>1. track' = [track EXCEPT ![t] = "STALE"] /\ UNCHANGED <<verdict, consent>>
        BY <2>4 DEF GoStale, SetTrack
      <3>2. PromisesTyped'
        BY <1>t, <3>1 DEF PromisesTyped, consent, TrackStates
      <3>3. GoesStale(t) /\ \A u \in Tracks \ {t} : Untouched(u)
        BY <1>t, <2>1, <2>2, <3>1
        DEF GoesStale, Untouched, KeepsAsks, Keeps, consent, PromisesTyped
      <3> QED BY <1>t, <3>2, <3>3, OneMoves DEF Moves
    <2> QED BY <1>4, <2>3, <2>4
  <1> QED BY <1>1, <1>2, <1>3, <1>4 DEF Revalidate

LEMMA ReplanMoves ==
  ASSUME IInv, NEW s \in open, Replan(s)
  PROVE  Recorded
  <1> DEFINE t == s.track
             n == s.ask
  <1>t. PromisesTyped /\ t \in Tracks /\ n \in Asks
    BY DEF IInv, Typed, LedgerTyped, About, PerAsk, Round, Replan
  <1>1. CASE Skip(s)
    BY <1>1, SkipMoves DEF IInv
  <1>2. CASE ~Skip(s)
    <2>1. case = "REVALIDATING" /\ track[t] = "STALE" /\ carried[t] = n
      BY <1>2 DEF Replan
    <2>2. PICK affected \in BOOLEAN, v \in Replanned(t) :
             /\ track' = [track EXCEPT ![t] = IF affected THEN "PENDING" ELSE "UNAFFECTED"]
             /\ verdict' = [verdict EXCEPT ![t] = IF affected THEN v ELSE @]
             /\ request' = [request EXCEPT ![t][n] = "SUPERSEDED"]
             /\ carried' = [carried EXCEPT ![t] = 0]
             /\ UNCHANGED <<decision, proceeded>>
      BY <1>2 DEF Replan
    <2>3. PromisesTyped'
      BY <1>t, <2>2 DEF PromisesTyped, TrackStates, RequestStates, Runnable, Terminal, Replanned
    <2>4. \A u \in Tracks \ {t} : Untouched(u)
      BY <1>t, <2>2 DEF Untouched, KeepsAsks, Keeps, PromisesTyped
    <2>5. IsReplanned(t)
      <3>1. /\ track'[t] = IF affected THEN "PENDING" ELSE "UNAFFECTED"
            /\ affected => verdict'[t] = v
            /\ v = "APPROVAL" => NextAsk(t) \in Asks
            /\ request'[t] = [request[t] EXCEPT ![n] = "SUPERSEDED"]
            /\ carried'[t] = 0 /\ decision' = decision
        BY <1>t, <2>2 DEF PromisesTyped, Replanned
      <3> QED BY <1>t, <2>1, <3>1 DEF IsReplanned, Asks
    <2> QED BY <1>t, <2>3, <2>4, <2>5, OneMoves DEF Moves
  <1> QED BY <1>1, <1>2

LEMMA ApplyMoves ==
  ASSUME IInv, NEW s \in open, ApplyRecovery(s)
  PROVE  Recorded
  <1> DEFINE t == s.track
  <1>t. PromisesTyped /\ t \in Tracks
    BY DEF IInv, Typed, LedgerTyped, About, RecoveryWork, ApplyRecovery
  <1>1. CASE Skip(s)
    BY <1>1, SkipMoves DEF IInv
  <1>2. CASE ~Skip(s)
    <2>1. Authorised(t)
      BY <1>2 DEF ApplyRecovery
    <2>2. NotOpen(t)
      <3> SUFFICES ASSUME NEW n \in Asks, request[t][n] \in OpenApproval PROVE FALSE
        BY DEF NotOpen
      <3>1. carried[t] = n /\ decision[t][n] = "NONE" /\ verdict[t] = "APPROVAL"
        BY <1>t DEF IInv, Consented, Answerable
      <3> QED BY <2>1, <3>1 DEF Authorised
    <2>3. /\ track[t] \notin Terminal
          /\ track[t] = "PENDING" => verdict[t] # "APPROVAL"
      BY <2>1 DEF Authorised, Terminal
    <2>4. CASE /\ track' = [track EXCEPT ![t] = "ESCALATED"]
               /\ UNCHANGED <<verdict, consent>>
      BY <1>t, <2>2, <2>3, <2>4, HandOverMoves
    <2>5. CASE track' = [track EXCEPT ![t] = "APPLYING"] /\ UNCHANGED <<verdict, consent>>
      <3>1. PromisesTyped'
        BY <1>t, <2>5 DEF PromisesTyped, consent, TrackStates, Runnable
      <3>2. IsApplied(t) /\ \A u \in Tracks \ {t} : Untouched(u)
        BY <1>t, <2>1, <2>2, <2>5
        DEF IsApplied, Untouched, KeepsAsks, Keeps, consent, PromisesTyped
      <3> QED BY <1>t, <3>1, <3>2, OneMoves DEF Moves
    <2> QED BY <1>2, <2>4, <2>5 DEF ApplyRecovery, Escalate, SetTrack
  <1> QED BY <1>1, <1>2

LEMMA SettlingMoves ==
  ASSUME IInv, NEW s \in open, FinalizeRecovery(s) \/ AbandonRecovery(s)
  PROVE  Recorded
  <1> DEFINE t == s.track
  <1>t. PromisesTyped /\ t \in Tracks
    BY DEF IInv, Typed, LedgerTyped, About, RecoveryWork, FinalizeRecovery, AbandonRecovery
  <1>1. CASE Skip(s)
    BY <1>1, SkipMoves DEF IInv
  <1>2. CASE ~Skip(s)
    <2>1. track[t] = "APPLYING"
      BY <1>2 DEF FinalizeRecovery, AbandonRecovery
    <2>2. NotOpen(t)
      BY <1>t, <2>1 DEF NotOpen, IInv, Consented, Answerable
    <2>3. CASE /\ track' = [track EXCEPT ![t] = "ESCALATED"]
               /\ UNCHANGED <<verdict, consent>>
      BY <1>t, <2>1, <2>2, <2>3, HandOverMoves DEF Terminal
    <2>4. CASE track' = [track EXCEPT ![t] = "RECOVERED"] /\ UNCHANGED <<verdict, consent>>
      <3>1. PromisesTyped'
        BY <1>t, <2>4 DEF PromisesTyped, consent, TrackStates, Terminal
      <3>2. IsRecovered(t) /\ \A u \in Tracks \ {t} : Untouched(u)
        BY <1>t, <2>1, <2>4 DEF IsRecovered, Untouched, KeepsAsks, Keeps, consent, PromisesTyped
      <3> QED BY <1>t, <3>1, <3>2, OneMoves DEF Moves
    <2> QED
      BY <1>2, <2>3, <2>4 DEF FinalizeRecovery, AbandonRecovery, Escalate, SetTrack
  <1> QED BY <1>1, <1>2

-----------------------------------------------------------------------------
(* The ledger: what a step is followed by.                                 *)

LEMMA ImageIsFinite ==
  ASSUME NEW S, IsFiniteSet(S), NEW f, DOMAIN f = S
  PROVE  IsFiniteSet({f[x] : x \in S})
  <1> DEFINE g == [x \in S |-> f[x]]
  <1>1. g \in Surjection(S, {f[x] : x \in S})
    BY DEF Surjection
  <1> QED BY <1>1, FS_Surjection

\* Steps that may be written into the ledger.
Rows == {new \in SUBSET StepKeys : IsFiniteSet(new) /\ \A s \in new : About(s)}

LEMMA EnqueueTyped ==
  ASSUME LedgerTyped, NEW new \in Rows, Enqueue(new)
  PROVE  LedgerTyped'
  <1>1. open' = open \cup (new \ done) /\ UNCHANGED <<done, failed>>
    BY DEF Enqueue
  <1>2. IsFiniteSet(new \ done)
    BY FS_Subset DEF Rows
  <1>3. IsFiniteSet(open')
    BY <1>1, <1>2, FS_Union DEF LedgerTyped
  <1> QED BY <1>1, <1>3 DEF LedgerTyped, Rows, About

\* A step settles, and is followed by others.
Settled(s, new) == open' = (open \ {s}) \cup (new \ (done \cup {s})) /\ done' = done \cup {s}

LEMMA SettledTyped ==
  ASSUME LedgerTyped, NEW s \in open, NEW new \in Rows, Settled(s, new),
         failed' \subseteq failed \cup {s}
  PROVE  LedgerTyped'
  <1>1. IsFiniteSet(open \ {s}) /\ IsFiniteSet(new \ (done \cup {s}))
    BY FS_Subset DEF Rows, LedgerTyped
  <1>2. IsFiniteSet(open') /\ IsFiniteSet(done')
    BY <1>1, FS_Union, FS_AddElement DEF LedgerTyped, Settled
  <1> QED BY <1>2 DEF LedgerTyped, Settled, Rows, About

LEMMA RowsAdd ==
  ASSUME NEW a \in Rows, NEW b \in Rows
  PROVE  a \cup b \in Rows
  BY FS_Union DEF Rows

LEMMA ReconcileIsARow ==
  ASSUME LedgerTyped
  PROVE  ReconcileStep \in StepKeys /\ {ReconcileStep} \in Rows /\ ReconcileStep.kind = "RECONCILE_CASE"
  <1>1. IsFiniteSet({s \in done : s.kind = "RECONCILE_CASE"})
    BY FS_Subset DEF LedgerTyped
  <1>2. Cardinality({s \in done : s.kind = "RECONCILE_CASE"}) \in Nat
    BY <1>1, FS_CardinalityType
  <1>3. ReconcileStep \in StepKeys
    BY <1>2 DEF ReconcileStep, CaseStep, AskStep, StepKeys, CaseLevel
  <1>4. About(ReconcileStep)
    BY DEF About, ReconcileStep, CaseStep, AskStep, RecoveryWork, PerAsk, PerReply, Round
  <1> QED BY <1>3, <1>4, FS_Singleton DEF Rows, ReconcileStep, CaseStep, AskStep

LEMMA RevalidationsAreRows ==
  ASSUME PromisesTyped'
  PROVE  WorkForCase \in Rows /\ \A s \in WorkForCase : s.kind = "REVALIDATE_RECOVERY"
  <1> DEFINE U == {u \in Tracks : carried'[u] # 0 /\ request'[u][carried'[u]] \notin OpenApproval}
             f == [t \in U |-> AskStep("REVALIDATE_RECOVERY", t, carried'[t])]
  <1>1. WorkForCase = {f[t] : t \in U}
    BY DEF WorkForCase
  <1>2. IsFiniteSet(U)
    BY WorkflowAssumption, FS_Subset
  <1>3. IsFiniteSet({f[t] : t \in U})
    BY <1>2, ImageIsFinite
  <1>4. ASSUME NEW t \in U
        PROVE  /\ f[t] \in StepKeys /\ About(f[t])
               /\ f[t].kind = "REVALIDATE_RECOVERY"
    <2>1. carried'[t] \in Asks /\ carried'[t] \in Nat
      BY WorkflowAssumption DEF PromisesTyped, Asks
    <2> QED BY <2>1 DEF AskStep, StepKeys, PerAsk, Round, About, RecoveryWork, PerReply
  <1> HIDE DEF f
  <1> QED BY <1>1, <1>3, <1>4 DEF Rows

LEMMA SuccessorsAreRows ==
  ASSUME LedgerTyped, PromisesTyped', NEW to
  PROVE  /\ CaseSuccessors(to) \in Rows
         /\ \A s \in CaseSuccessors(to) : s.kind \in {"RECONCILE_CASE", "REVALIDATE_RECOVERY"}
         /\ to \notin {"RECONCILING", "REVALIDATING"} => CaseSuccessors(to) = {}
  <1>1. {} \in Rows
    BY FS_EmptySet DEF Rows
  <1> QED BY <1>1, ReconcileIsARow, RevalidationsAreRows DEF CaseSuccessors

\* What a step is followed by whatever becomes of the case.
Brings(s) ==
    {{}} \cup {{r} : r \in
        IF s.kind = "REVALIDATE_RECOVERY" /\ case = "REVALIDATING"
          THEN {TrackStep("APPLY_RECOVERY", s.track), AskStep("REPLAN_TRACK", s.track, s.ask)}
        ELSE IF s.kind = "RECEIVE_CUSTOMER_REPLY" /\ request[s.track][s.ask] \in OpenApproval
          THEN {WordStep("INTERPRET_CUSTOMER_REPLY", s.track, s.ask, s.word)}
        ELSE {}}

Following == {"RECONCILE_CASE", "REVALIDATE_RECOVERY", "APPLY_RECOVERY", "REPLAN_TRACK",
              "INTERPRET_CUSTOMER_REPLY"}

\* How a handler leaves the case: alone, where the rules say it stands, out of its round,
\* or out of a plan nobody confirmed.
Stands(s, to) ==
    \/ /\ to = Stay
       /\ UNCHANGED request \/ case = "EXECUTING"
    \/ \E except \in {{}, {s}} : to = SettledCaseState(track', request', except)
    \/ /\ case = "REVALIDATING"
       /\ \/ to \in {Stay, "PLANNED"}
          \/ to = "RECONCILING" /\ \A t \in Tracks : track'[t] # "PENDING"
    \/ case = "PLANNED" /\ to = "RECONCILING" /\ \A t \in Tracks : track'[t] # "PENDING"

Executed(s, to, new) ==
    /\ s.kind # "WITHDRAW_EXCEPTION"
    /\ case' = IF to = Stay THEN case ELSE to
    /\ IF to = "PLANNED" THEN plans' = plans + 1 /\ planTimer' = TRUE ELSE UNCHANGED plan
    /\ Settled(s, new \cup CaseSuccessors(to))
    /\ failed' \subseteq failed \cup {s}
    /\ Stands(s, to)
    /\ to = "RESOLVED" => new = {}

\* Steps that do not move the case and are followed by nothing or by what they ask for.
LEMMA SettlingExecutes ==
  ASSUME NEW s, s.kind # "WITHDRAW_EXCEPTION", NEW new \in Brings(s), Settle(s, new),
         UNCHANGED <<case, plan>>, UNCHANGED request \/ case = "EXECUTING"
  PROVE  Executed(s, Stay, new)
  <1>1. CaseSuccessors(Stay) = {} /\ Stay \notin {"PLANNED", "RESOLVED"}
    BY WorkflowAssumption DEF CaseSuccessors, CaseStates
  <1> QED BY <1>1 DEF Settle, Settled, Executed, Stands

LEMMA SkippingExecutes ==
  ASSUME NEW s, s.kind # "WITHDRAW_EXCEPTION", Skip(s) \/ GiveUp(s)
  PROVE  Executed(s, Stay, {})
  <1>1. CaseSuccessors(Stay) = {} /\ Stay \notin {"PLANNED", "RESOLVED"}
    BY WorkflowAssumption DEF CaseSuccessors, CaseStates
  <1> QED BY <1>1 DEF Skip, GiveUp, Settle, Settled, Executed, Stands, consent

LEMMA MovingExecutes ==
  ASSUME NEW s, s.kind # "WITHDRAW_EXCEPTION", NEW to, NEW new \in Brings(s), MoveCase(s, to, new),
         Stands(s, to), to = "RESOLVED" => new = {}
  PROVE  Executed(s, to, new)
  BY DEF MoveCase, Settle, Settled, Executed

LEMMA AskingExecutes ==
  ASSUME NEW s, s.kind # "WITHDRAW_EXCEPTION", NEW except \in {{}, {s}},
         AskWhereTheCaseStands(s, except)
  PROVE  \E to : Executed(s, to, {})
  <1> DEFINE to == SettledCaseState(track', request', except)
  <1>1. MoveCase(s, to, {}) /\ Stands(s, to)
    BY DEF AskWhereTheCaseStands, Stands
  <1> HIDE DEF to
  <1> QED BY <1>1, MovingExecutes DEF Brings

\* A check of the round that leaves no promise pending that was not.
LEMMA RoundExecutes ==
  ASSUME NEW s, s.kind # "WITHDRAW_EXCEPTION", case = "REVALIDATING", NEW leavesAPlan \in BOOLEAN,
         NEW new \in Brings(s), MoveCase(s, RoundExit(s, leavesAPlan), new),
         ~leavesAPlan => \A t \in Tracks : track'[t] = "PENDING" => track[t] = "PENDING"
  PROVE  \E to : Executed(s, to, new)
  <1> DEFINE to == RoundExit(s, leavesAPlan)
  <1>1. Stands(s, to) /\ to # "RESOLVED"
    BY WorkflowAssumption DEF RoundExit, Stands, Pending, CaseStates
  <1>2. MoveCase(s, to, new)
    OBVIOUS
  <1> HIDE DEF to
  <1> QED BY <1>1, <1>2, MovingExecutes

\* Every execution is one of these.
LEMMA ExecutionsAreSettled ==
  ASSUME Typed, NEW s \in open, Execute(s)
  PROVE  \E to, new : new \in Brings(s) /\ Executed(s, to, new)
  <1> SUFFICES ASSUME \A to, new : new \in Brings(s) => ~Executed(s, to, new) PROVE FALSE
    OBVIOUS
  <1>n. /\ s.kind = "WITHDRAW_EXCEPTION" => FALSE
        /\ {} \in Brings(s)
    BY DEF Execute, EscalatePlan, RequestApproval, MarkApprovalSent, AbandonApproval,
           ExpireApproval, ReceiveReply, InterpretReply, Revalidate, Replan, ApplyRecovery,
           FinalizeRecovery, AbandonRecovery, ReconcileCase, Brings
  <1>s. ~Skip(s) /\ ~GiveUp(s)
    BY <1>n, SkippingExecutes
  <1>a. \A except \in {{}, {s}} : ~AskWhereTheCaseStands(s, except)
    BY <1>n, AskingExecutes
  <1>e. ~Escalate(s, {}) /\ ~Escalate(s, {s})
    BY <1>a DEF Escalate
  <1>p. PromisesTyped
    BY DEF Typed
  <1>1. ~EscalatePlan(s)
    <2> SUFFICES ASSUME EscalatePlan(s) PROVE FALSE
      OBVIOUS
    <2>1. /\ case = "PLANNED" /\ MoveCase(s, "RECONCILING", {})
          /\ track' = [t \in Tracks |-> IF t \in Pending THEN "ESCALATED" ELSE track[t]]
      BY <1>s DEF EscalatePlan
    <2>2. Stands(s, "RECONCILING")
      BY <2>1 DEF Stands, Pending
    <2> QED BY <1>n, <2>1, <2>2, MovingExecutes
  <1>2. ~RequestApproval(s)
    BY <1>s, <1>e, <1>n, SettlingExecutes DEF RequestApproval
  <1>3. ~MarkApprovalSent(s) /\ ~AbandonApproval(s) /\ ~ExpireApproval(s) /\ ~InterpretReply(s)
    BY <1>s, <1>e, <1>a DEF MarkApprovalSent, AbandonApproval, ExpireApproval, InterpretReply, CloseRequest
  <1>4. ~ReceiveReply(s)
    <2>1. ASSUME NEW stranger \in BOOLEAN, NEW new \in Brings(s), RecordReply(s, stranger, new)
          PROVE  FALSE
      BY <1>n, <2>1, SettlingExecutes DEF RecordReply, consent
    <2>2. s.kind = "RECEIVE_CUSTOMER_REPLY" /\ request[s.track][s.ask] \in OpenApproval =>
            {WordStep("INTERPRET_CUSTOMER_REPLY", s.track, s.ask, s.word)} \in Brings(s)
      BY DEF Brings
    <2> QED
      BY <1>s, <1>n, <1>a, <1>e, <2>1, <2>2 DEF ReceiveReply, RecordDecision, EscalateUnconfirmed
  <1>5. ~Revalidate(s)
    <2> SUFFICES ASSUME Revalidate(s) PROVE FALSE
      OBVIOUS
    <2>1. case = "REVALIDATING" /\ s.kind = "REVALIDATE_RECOVERY"
      BY <1>s DEF Revalidate
    <2>2. ~NoAuthorityToConsume(s)
      BY <1>n, <2>1, RoundExecutes DEF NoAuthorityToConsume
    <2>3. ~RevalidationExpired(s)
      BY <1>n, <1>p, <2>1, RoundExecutes DEF RevalidationExpired, SetTrack, PromisesTyped
    <2>4. ~Proceed(s)
      <3>1. {TrackStep("APPLY_RECOVERY", s.track)} \in Brings(s)
        BY <2>1 DEF Brings
      <3> QED BY <1>n, <2>1, <3>1, RoundExecutes DEF Proceed
    <2>5. ~GoStale(s)
      <3>1. {AskStep("REPLAN_TRACK", s.track, s.ask)} \in Brings(s)
        BY <2>1 DEF Brings
      <3> QED BY <1>n, <3>1, SettlingExecutes DEF GoStale, consent
    <2> QED BY <1>s, <2>2, <2>3, <2>4, <2>5 DEF Revalidate
  <1>6. ~Replan(s)
    <2> SUFFICES ASSUME Replan(s) PROVE FALSE
      OBVIOUS
    <2>1. case = "REVALIDATING"
      BY <1>s DEF Replan
    <2>2. PICK affected \in BOOLEAN :
            /\ track' = [track EXCEPT ![s.track] = IF affected THEN "PENDING" ELSE "UNAFFECTED"]
            /\ MoveCase(s, RoundExit(s, affected), {})
      BY <1>s DEF Replan
    <2>3. ~affected => \A t \in Tracks : track'[t] = "PENDING" => track[t] = "PENDING"
      BY <1>p, <2>2 DEF PromisesTyped
    <2> QED BY <1>n, <2>1, <2>2, <2>3, RoundExecutes
  <1>7. ~ApplyRecovery(s)
    BY <1>s, <1>e, <1>n, SettlingExecutes DEF ApplyRecovery, consent
  <1>8. ~FinalizeRecovery(s) /\ ~AbandonRecovery(s) /\ ~ReconcileCase(s)
    BY <1>s, <1>e, <1>a DEF FinalizeRecovery, AbandonRecovery, ReconcileCase
  <1> QED BY <1>1, <1>2, <1>3, <1>4, <1>5, <1>6, <1>7, <1>8 DEF Execute

-----------------------------------------------------------------------------
(* A withdrawal, and the other steps that touch several promises.          *)

\* The case has been withdrawn from.
Withdrawn == \E s \in done : s.kind = "WITHDRAW_EXCEPTION"

WithdrawalsAreCounted == Withdrawals \in Nat /\ (Withdrawals > 0 <=> Withdrawn)

LEMMA WithdrawalsCount == LedgerTyped => WithdrawalsAreCounted
  <1> SUFFICES ASSUME LedgerTyped
               PROVE  Withdrawals \in Nat /\ (Withdrawals > 0 <=> Withdrawn)
    BY DEF WithdrawalsAreCounted
  <1> DEFINE W == {s \in done : s.kind = "WITHDRAW_EXCEPTION"}
  <1>1. IsFiniteSet(W)
    BY FS_Subset DEF LedgerTyped
  <1>2. Cardinality(W) \in Nat /\ (Cardinality(W) = 0 <=> W = {})
    BY <1>1, FS_CardinalityType, FS_EmptySet
  <1>3. W = {} <=> ~Withdrawn
    BY DEF Withdrawn
  <1> QED BY <1>2, <1>3 DEF Withdrawals

LEMMA WithdrawTyped ==
  ASSUME LedgerTyped, NEW consequential \in BOOLEAN, NEW claimed \in ClaimedSteps,
         Withdraw(consequential, claimed)
  PROVE  /\ LedgerTyped' /\ Withdrawn' /\ Withdrawals' > 0
         /\ done \subseteq done'
         /\ \A s \in open' : s \in claimed \/ s.kind = "RECONCILE_CASE"
         /\ ~consequential => open' \subseteq open
  <1> DEFINE step == CaseStep("WITHDRAW_EXCEPTION", Withdrawals)
             C == {s \in done \cup (open \ claimed) : s.kind = "RECONCILE_CASE"}
             closing == CaseStep("RECONCILE_CASE", Cardinality(C))
  <1>1. /\ done' = done \cup (open \ claimed) \cup {step}
        /\ open' = claimed \cup (IF consequential THEN {closing} ELSE {})
        /\ failed' = failed
    BY DEF Withdraw
  <1>2. claimed \subseteq open
    BY DEF ClaimedSteps
  <1>3. Withdrawals \in Nat /\ Cardinality(C) \in Nat
    <2>1. IsFiniteSet(open \ claimed)
      BY FS_Subset DEF LedgerTyped
    <2>2. IsFiniteSet(done \cup (open \ claimed))
      BY <2>1, FS_Union DEF LedgerTyped
    <2>3. IsFiniteSet(C)
      BY <2>2, FS_Subset
    <2> QED BY <2>3, FS_CardinalityType, WithdrawalsCount DEF WithdrawalsAreCounted
  <1> HIDE DEF C
  <1>4. /\ step \in StepKeys /\ About(step) /\ step.kind = "WITHDRAW_EXCEPTION"
        /\ closing \in StepKeys /\ About(closing) /\ closing.kind = "RECONCILE_CASE"
    BY <1>3
    DEF CaseStep, AskStep, StepKeys, CaseLevel, About, RecoveryWork, PerAsk, PerReply, Round
  <1> HIDE DEF step, closing
  <1>5. IsFiniteSet(done')
    <2>1. IsFiniteSet(open \ claimed)
      BY FS_Subset DEF LedgerTyped
    <2>2. IsFiniteSet(done \cup (open \ claimed))
      BY <2>1, FS_Union DEF LedgerTyped
    <2> QED BY <1>1, <2>2, FS_AddElement
  <1>6. IsFiniteSet(open')
    <2>1. IsFiniteSet(claimed)
      BY <1>2, FS_Subset DEF LedgerTyped
    <2> QED BY <1>1, <2>1, FS_AddElement
  <1>7. LedgerTyped'
    BY <1>1, <1>2, <1>4, <1>5, <1>6 DEF LedgerTyped, About
  <1>8. Withdrawn'
    BY <1>1, <1>4 DEF Withdrawn
  <1>9. Withdrawals' > 0
    <2>1. WithdrawalsAreCounted'
      BY <1>7, WithdrawalsCount, PTL
    <2> QED BY <1>8, <2>1 DEF WithdrawalsAreCounted
  <1> QED BY <1>1, <1>2, <1>4, <1>7, <1>8, <1>9

LEMMA WithdrawMoves ==
  ASSUME IInv, NEW consequential \in BOOLEAN, NEW claimed \in ClaimedSteps,
         Withdraw(consequential, claimed)
  PROVE  Recorded /\ \A t \in Tracks : track'[t] \in Terminal /\ NotOpen(t)'
  <1>t. PromisesTyped /\ LedgerTyped
    BY DEF IInv, Typed
  <1>1. /\ track' = [t \in Tracks |->
                       IF track[t] \in Terminal THEN track[t]
                       ELSE IF consequential THEN "ESCALATED" ELSE "WITHDRAWN"]
        /\ request' = [t \in Tracks |-> [n \in Asks |->
                         IF Undecided(t, n) THEN "SUPERSEDED" ELSE request[t][n]]]
        /\ carried' = [t \in Tracks |->
                         IF carried[t] # 0 /\ Undecided(t, carried[t]) THEN 0 ELSE carried[t]]
        /\ UNCHANGED <<verdict, decision, proceeded>>
    BY DEF Withdraw
  <1>2. PromisesTyped'
    <2>1. track' \in [Tracks -> TrackStates]
      BY <1>1, <1>t DEF PromisesTyped, TrackStates, Terminal
    <2>2. request' \in [Tracks -> [Asks -> RequestStates]]
      BY <1>1, <1>t DEF PromisesTyped, RequestStates
    <2>3. carried' \in [Tracks -> {0} \cup Asks]
      BY <1>1, <1>t DEF PromisesTyped
    <2> QED BY <1>1, <1>t, <2>1, <2>2, <2>3 DEF PromisesTyped
  <1>3. ASSUME NEW t \in Tracks, track[t] \in Terminal
        PROVE  Untouched(t)
    <2>1. \A n \in Asks : ~Undecided(t, n)
      BY <1>3 DEF IInv, Consented, Answerable, Undecided, Terminal
    <2>2. request'[t] = request[t]
      BY <1>1, <1>t, <2>1 DEF PromisesTyped
    <2>3. carried'[t] = carried[t]
      BY <1>1, <1>t, <2>1 DEF PromisesTyped
    <2> QED BY <1>1, <1>3, <2>2, <2>3 DEF Untouched, KeepsAsks, Keeps
  <1>4. ASSUME NEW t \in Tracks, track[t] \notin Terminal
        PROVE  IsStoodDown(t)
    BY <1>1, <1>4, <1>t, WithdrawTyped DEF IsStoodDown
  <1>5. ASSUME NEW t \in Tracks PROVE track'[t] \in Terminal /\ NotOpen(t)'
    BY <1>1 DEF NotOpen, Terminal, Undecided, OpenApproval
  <1> QED BY <1>2, <1>3, <1>4, <1>5 DEF Recorded, Moves

LEMMA ConfirmMoves ==
  ASSUME IInv, Confirm
  PROVE  Recorded
  <1>t. PromisesTyped
    BY DEF IInv, Typed
  <1> DEFINE blocked == {t \in Pending : verdict[t] \notin {"AUTO", "APPROVAL"}}
  <1>1. /\ case = "PLANNED"
        /\ track' = [t \in Tracks |-> IF t \in blocked THEN "ESCALATED" ELSE track[t]]
        /\ UNCHANGED <<verdict, consent>>
    BY DEF Confirm
  <1>2. PromisesTyped'
    BY <1>1, <1>t DEF PromisesTyped, consent, TrackStates, Terminal
  <1>3. ASSUME NEW t \in blocked PROVE HandsOver(t)
    <2>1. t \in Tracks /\ track[t] = "PENDING" /\ verdict[t] # "APPROVAL"
      BY DEF Pending
    <2>2. NotOpen(t)
      BY <2>1 DEF NotOpen, IInv, Consented, Answerable
    <2> QED BY <1>1, <2>1, <2>2 DEF HandsOver, KeepsAsks, Keeps, consent, Terminal
  <1>4. ASSUME NEW t \in Tracks \ blocked PROVE Untouched(t)
    BY <1>1, <1>4 DEF Untouched, KeepsAsks, Keeps, consent
  <1> QED BY <1>2, <1>3, <1>4 DEF Recorded, Moves

LEMMA EscalatePlanMoves ==
  ASSUME IInv, NEW s \in open, EscalatePlan(s)
  PROVE  Recorded
  <1>t. PromisesTyped
    BY DEF IInv, Typed
  <1>1. CASE Skip(s)
    BY <1>1, SkipMoves DEF IInv
  <1>2. CASE ~Skip(s)
    <2>1. /\ case = "PLANNED"
          /\ track' = [t \in Tracks |-> IF t \in Pending THEN "ESCALATED" ELSE track[t]]
          /\ UNCHANGED <<verdict, consent>>
      BY <1>2 DEF EscalatePlan
    <2>2. PromisesTyped'
      BY <2>1, <1>t DEF PromisesTyped, consent, TrackStates, Terminal
    <2>3. ASSUME NEW t \in Pending PROVE HandsOver(t)
      <3>1. t \in Tracks /\ track[t] = "PENDING"
        BY DEF Pending
      <3>2. carried[t] = 0
        BY <2>1, <3>1 DEF IInv, Placed, PendingIsPlanned
      <3>3. NotOpen(t)
        BY <3>1, <3>2 DEF NotOpen, IInv, Consented, Answerable, Asks
      <3> QED BY <2>1, <3>1, <3>3 DEF HandsOver, KeepsAsks, Keeps, consent, Terminal
    <2>4. ASSUME NEW t \in Tracks \ Pending PROVE Untouched(t)
      BY <2>1, <2>4 DEF Untouched, KeepsAsks, Keeps, consent
    <2> QED BY <2>2, <2>3, <2>4 DEF Recorded, Moves
  <1> QED BY <1>1, <1>2

\* What moves around the case: the outbox, the clock, the customers.
Around ==
    \/ FirePlanDeadline
    \/ \E t \in Tracks : SettleAmendment(t)
    \/ \E t \in Tracks, n \in Asks :
         \/ SendMessage(t, n)
         \/ RecordSent(t, n)
         \/ FailMessage(t, n)
         \/ DeadlinePasses(t, n)
         \/ FireApprovalDeadline(t, n)
         \/ \E w \in Words : CustomerReplies(t, n, w)

LEMMA AroundLeavesThePromises == Around => UNCHANGED promises
  BY DEF Around, FirePlanDeadline, SettleAmendment, SendMessage, RecordSent, FailMessage,
         DeadlinePasses, FireApprovalDeadline, CustomerReplies, workflow

LEMMA NextIs ==
  ASSUME [Next]_vars
  PROVE  \/ UNCHANGED vars
         \/ Confirm
         \/ \E consequential \in BOOLEAN, claimed \in ClaimedSteps :
              Withdraw(consequential, claimed)
         \/ \E s \in open : Execute(s)
         \/ Around
  BY DEF Next, Around

\* Every step moves every promise in one of these ways, and keeps its types.
LEMMA PromisesMove ==
  ASSUME IInv, [Next]_vars
  PROVE  Recorded
  <1>1. CASE UNCHANGED vars \/ Around
    <2>1. UNCHANGED promises
      BY <1>1, AroundLeavesThePromises DEF vars, promises
    <2> QED BY <2>1, UntouchedMoves DEF promises, consent, IInv, Typed, PromisesTyped
  <1>2. ASSUME NEW s \in open, Execute(s) PROVE Recorded
    <2>1. CASE ReconcileCase(s)
      <3>1. UNCHANGED <<track, verdict, consent>>
        BY <2>1 DEF ReconcileCase, Skip
      <3> QED BY <3>1, UntouchedMoves DEF consent, IInv, Typed, PromisesTyped
    <2> QED
      BY <1>2, <2>1, EscalatePlanMoves, RequestMoves, MarkSentMoves, AbandonApprovalMoves,
         ExpireMoves, ReplyMoves, InterpretMoves, RevalidateMoves, ReplanMoves, ApplyMoves,
         SettlingMoves
      DEF Execute
  <1> QED BY <1>1, <1>2, NextIs, ConfirmMoves, WithdrawMoves

-----------------------------------------------------------------------------
(* What comes into the ledger, what leaves it, and on whose account.       *)

\* What a late message, customer or deadline brings, into whatever case there is.
Incidental == {"RECEIVE_CUSTOMER_REPLY", "EXPIRE_APPROVAL", "MARK_APPROVAL_SENT",
               "ABANDON_APPROVAL", "ESCALATE_PLAN"}

Reported(s) ==
    /\ s.kind \in {"FINALIZE_RECOVERY", "ABANDON_RECOVERY"}
    /\ amendment[s.track] = "QUEUED"
    /\ amendment'[s.track] \in {"DELIVERED", "FAILED"}

Arrives(s) ==
    \/ s.kind \in Incidental /\ (s.kind = "EXPIRE_APPROVAL" => <<s.track, s.ask>> \in armed)
    \/ Reported(s)

IsToAsk(s) ==
    /\ s.kind = "REQUEST_APPROVAL"
    /\ case = "PLANNED" /\ case' = "EXECUTING"
    /\ track[s.track] = "PENDING" /\ verdict[s.track] = "APPROVAL"
    /\ Untouched(s.track)
    /\ s.ask = NextAsk(s.track)

Comes(s) ==
    \/ Arrives(s)
    \/ IsToAsk(s)
    \/ s.kind \in Following

LEMMA AroundEnqueues ==
  ASSUME Typed, Around
  PROVE  \E new \in Rows : Enqueue(new) /\ \A s \in new : Arrives(s)
  <1> SUFFICES ASSUME \A new \in Rows : Enqueue(new) => \E s \in new : ~Arrives(s) PROVE FALSE
    OBVIOUS
  <1>t. amendment \in [Tracks -> {"NONE", "QUEUED", "DELIVERED", "FAILED"}] /\ plans \in Nat
    BY DEF Typed, EffectsTyped, CaseTyped
  <1>1. ASSUME NEW s \in StepKeys, About(s), Enqueue({s}) PROVE ~Arrives(s)
    <2>1. {s} \in Rows
      BY <1>1, FS_Singleton DEF Rows
    <2> QED BY <1>1, <2>1
  <1>2. ~UNCHANGED ledger
    <2>1. {} \in Rows /\ \A s \in {} : Arrives(s)
      BY FS_EmptySet DEF Rows
    <2>2. UNCHANGED ledger => Enqueue({})
      BY DEF Enqueue, ledger
    <2> QED BY <2>1, <2>2
  <1>3. ~FirePlanDeadline
    <2>1. CaseStep("ESCALATE_PLAN", plans) \in StepKeys /\ About(CaseStep("ESCALATE_PLAN", plans))
      BY <1>t DEF CaseStep, AskStep, StepKeys, CaseLevel, About, RecoveryWork, PerAsk, PerReply, Round
    <2>2. Arrives(CaseStep("ESCALATE_PLAN", plans))
      BY DEF CaseStep, AskStep, Arrives, Incidental
    <2> QED BY <1>1, <2>1, <2>2 DEF FirePlanDeadline
  <1>4. ASSUME NEW t \in Tracks PROVE ~SettleAmendment(t)
    <2> SUFFICES ASSUME SettleAmendment(t) PROVE FALSE
      OBVIOUS
    <2>1. PICK k \in {"FINALIZE_RECOVERY", "ABANDON_RECOVERY"} :
            /\ amendment[t] = "QUEUED" /\ amendment'[t] \in {"DELIVERED", "FAILED"}
            /\ Enqueue({TrackStep(k, t)})
      BY <1>t DEF SettleAmendment
    <2>2. /\ TrackStep(k, t) \in StepKeys /\ About(TrackStep(k, t))
          /\ TrackStep(k, t).kind = k /\ TrackStep(k, t).track = t
      BY DEF TrackStep, AskStep, StepKeys, RecoveryWork, About, PerAsk, PerReply, Round
    <2>3. Arrives(TrackStep(k, t))
      BY <2>1, <2>2 DEF Arrives, Reported
    <2> QED BY <1>1, <2>1, <2>2, <2>3
  <1>5. ASSUME NEW t \in Tracks, NEW n \in Asks,
               NEW k \in {"MARK_APPROVAL_SENT", "ABANDON_APPROVAL", "EXPIRE_APPROVAL"},
               k = "EXPIRE_APPROVAL" => <<t, n>> \in armed
        PROVE  ~Enqueue({AskStep(k, t, n)})
    <2>1. /\ AskStep(k, t, n) \in StepKeys /\ About(AskStep(k, t, n))
          /\ Arrives(AskStep(k, t, n))
      BY <1>5
      DEF AskStep, StepKeys, Asks, PerAsk, About, RecoveryWork, PerReply, Round, Arrives, Incidental
    <2> QED BY <1>1, <2>1
  <1>6. ASSUME NEW t \in Tracks, NEW n \in Asks, NEW w \in Words
        PROVE  ~CustomerReplies(t, n, w)
    <2> DEFINE r == WordStep("RECEIVE_CUSTOMER_REPLY", t, n, w)
    <2>1. r \in StepKeys /\ About(r) /\ Arrives(r)
      BY DEF WordStep, StepKeys, Asks, PerAsk, About, RecoveryWork, PerReply, Round, Arrives, Incidental
    <2> QED BY <1>1, <2>1 DEF CustomerReplies
  <1>7. ASSUME NEW t \in Tracks, NEW n \in Asks
        PROVE  ~RecordSent(t, n) /\ ~FailMessage(t, n) /\ ~FireApprovalDeadline(t, n)
    BY <1>5 DEF RecordSent, FailMessage, FireApprovalDeadline
  <1>8. ASSUME NEW t \in Tracks, NEW n \in Asks
        PROVE  ~SendMessage(t, n) /\ ~DeadlinePasses(t, n)
    BY <1>2 DEF SendMessage, DeadlinePasses
  <1> QED BY <1>3, <1>4, <1>6, <1>7, <1>8 DEF Around

LEMMA ConfirmEnqueues ==
  ASSUME IInv, Confirm
  PROVE  \E new \in Rows : Enqueue(new) /\ \A s \in new : IsToAsk(s) \/ s.kind \in Following
  <1> DEFINE auto     == {t \in Pending : verdict[t] = "AUTO"}
             approval == {t \in Pending : verdict[t] = "APPROVAL"}
             f == [t \in auto |-> TrackStep("APPLY_RECOVERY", t)]
             g == [t \in approval |-> AskStep("REQUEST_APPROVAL", t, NextAsk(t))]
             apply == {f[t] : t \in auto}
             ask   == {g[t] : t \in approval}
             rest  == IF auto \cup approval = {} THEN {ReconcileStep} ELSE {}
  <1>t. Typed
    BY DEF IInv
  <1>1. IsFiniteSet(auto) /\ IsFiniteSet(approval)
    BY WorkflowAssumption, FS_Subset DEF Pending
  <1>2. IsFiniteSet(apply) /\ IsFiniteSet(ask)
    <2>1. DOMAIN f = auto /\ DOMAIN g = approval
      OBVIOUS
    <2> HIDE DEF f, g, auto, approval
    <2> QED BY <1>1, <2>1, ImageIsFinite
  <1>3. ASSUME NEW t \in auto
        PROVE  f[t] \in StepKeys /\ About(f[t]) /\ f[t].kind \in Following
    BY DEF Pending, TrackStep, AskStep, StepKeys, RecoveryWork, About, PerAsk, PerReply, Round, Following
  <1>4. ASSUME NEW t \in approval
        PROVE  g[t] \in StepKeys /\ About(g[t]) /\ IsToAsk(g[t])
    <2>1. /\ t \in Tracks /\ track[t] = "PENDING" /\ verdict[t] = "APPROVAL"
          /\ case = "PLANNED" /\ case' = "EXECUTING"
      BY DEF Confirm, Pending
    <2>2. NextAsk(t) \in Asks /\ NextAsk(t) \in Nat
      <3>1. carried[t] = 0
        BY <2>1 DEF IInv, Placed, PendingIsPlanned
      <3>2. NextAsk(t) \in Asks
        BY <2>1, <3>1 DEF IInv, Placed, PendingIsPlanned
      <3> QED BY <3>2 DEF Asks
    <2>3. Untouched(t)
      BY <2>1, <1>t
      DEF Confirm, Pending, Untouched, KeepsAsks, Keeps, consent, Typed, PromisesTyped
    <2> HIDE DEF NextAsk
    <2>4. g[t] = AskStep("REQUEST_APPROVAL", t, NextAsk(t))
      OBVIOUS
    <2> HIDE DEF g
    <2> QED
      BY <2>1, <2>2, <2>3, <2>4
      DEF AskStep, StepKeys, PerAsk, About, RecoveryWork, PerReply, Round, IsToAsk
  <1>5. rest \in Rows /\ \A s \in rest : s.kind \in Following
    <2>1. {} \in Rows
      BY FS_EmptySet DEF Rows
    <2> QED BY <1>t, <2>1, ReconcileIsARow DEF Typed, Following
  <1>6. Enqueue(apply \cup ask \cup rest)
    <2>1. /\ apply = {TrackStep("APPLY_RECOVERY", t) : t \in auto}
          /\ ask = {AskStep("REQUEST_APPROVAL", t, NextAsk(t)) : t \in approval}
      OBVIOUS
    <2> HIDE DEF f, g, apply, ask, NextAsk
    <2> QED BY <2>1 DEF Confirm
  <1> HIDE DEF f, g, rest
  <1>7. apply \in Rows /\ ask \in Rows
    BY <1>2, <1>3, <1>4 DEF Rows
  <1>8. apply \cup ask \cup rest \in Rows
    BY <1>5, <1>7, RowsAdd
  <1>9. \A s \in apply \cup ask \cup rest : IsToAsk(s) \/ s.kind \in Following
    BY <1>3, <1>4, <1>5
  <1> HIDE DEF apply, ask
  <1> QED BY <1>6, <1>8, <1>9

LEMMA BringsAreRows ==
  ASSUME LedgerTyped, NEW s \in open, NEW new \in Brings(s)
  PROVE  new \in Rows /\ \A r \in new : r.kind \in Following
  <1>1. CASE new = {}
    BY <1>1, FS_EmptySet DEF Rows
  <1>2. CASE s.kind \in {"REVALIDATE_RECOVERY", "RECEIVE_CUSTOMER_REPLY"}
    <2>1. /\ s \in StepKeys /\ s.track \in Tracks /\ s.ask \in Asks /\ s.ask \in Nat
      BY <1>2 DEF LedgerTyped, About, PerAsk, PerReply, Round, Asks
    <2>2. s.word \in Words \cup {NoWord}
      BY <2>1 DEF StepKeys
    <2> DEFINE a == TrackStep("APPLY_RECOVERY", s.track)
               b == AskStep("REPLAN_TRACK", s.track, s.ask)
               c == WordStep("INTERPRET_CUSTOMER_REPLY", s.track, s.ask, s.word)
    <2>3. /\ a \in StepKeys /\ About(a) /\ a.kind \in Following
          /\ b \in StepKeys /\ About(b) /\ b.kind \in Following
          /\ c \in StepKeys /\ About(c) /\ c.kind \in Following
      BY <2>1, <2>2
      DEF TrackStep, AskStep, WordStep, StepKeys, About, RecoveryWork, PerAsk, PerReply, Round,
          Following
    <2>4. new \in {{}, {a}, {b}, {c}}
      BY DEF Brings
    <2> HIDE DEF a, b, c
    <2>5. {a} \in Rows /\ {b} \in Rows /\ {c} \in Rows
      BY <2>3, FS_Singleton DEF Rows
    <2> QED BY <1>1, <2>3, <2>4, <2>5
  <1>3. new = {} \/ s.kind \in {"REVALIDATE_RECOVERY", "RECEIVE_CUSTOMER_REPLY"}
    BY DEF Brings
  <1> QED BY <1>1, <1>2, <1>3

AllClosed == \A t \in Tracks : track[t] \in Terminal /\ NotOpen(t)

\* Whatever comes is accounted for, and what goes was executed or stood down.
LEMMA LedgerMoves ==
  ASSUME IInv, [Next]_vars
  PROVE  /\ LedgerTyped' /\ done \subseteq done'
         /\ \A s \in open' \ open : Comes(s)
         /\ \A s \in open \ open' : Execute(s) \/ AllClosed'
         /\ \A s \in done' \ done :
              \/ s.kind = "WITHDRAW_EXCEPTION" /\ AllClosed'
              \/ s \in open /\ (Execute(s) \/ AllClosed')
  <1>t. Typed /\ LedgerTyped
    BY DEF IInv, Typed
  <1>1. CASE UNCHANGED vars
    BY <1>1, <1>t DEF vars, ledger, LedgerTyped
  <1>2. CASE Around
    <2>1. PICK new \in Rows : Enqueue(new) /\ \A s \in new : Arrives(s)
      BY <1>2, <1>t, AroundEnqueues
    <2>2. LedgerTyped'
      BY <1>t, <2>1, EnqueueTyped
    <2> QED BY <2>1, <2>2 DEF Enqueue, Comes
  <1>3. CASE Confirm
    <2>1. PICK new \in Rows : Enqueue(new) /\ \A s \in new : IsToAsk(s) \/ s.kind \in Following
      BY <1>3, ConfirmEnqueues
    <2>2. LedgerTyped'
      BY <1>t, <2>1, EnqueueTyped
    <2> QED BY <2>1, <2>2 DEF Enqueue, Comes
  <1>4. ASSUME NEW consequential \in BOOLEAN, NEW claimed \in ClaimedSteps,
               Withdraw(consequential, claimed)
        PROVE  /\ LedgerTyped' /\ done \subseteq done' /\ AllClosed'
               /\ \A s \in open' \ open : Comes(s)
               /\ \A s \in done' \ done : s.kind = "WITHDRAW_EXCEPTION" \/ s \in open
    <2>1. /\ LedgerTyped' /\ done \subseteq done'
          /\ \A s \in open' : s \in claimed \/ s.kind = "RECONCILE_CASE"
      BY <1>4, <1>t, WithdrawTyped
    <2>2. claimed \subseteq open
      BY DEF ClaimedSteps
    <2>3. AllClosed'
      BY <1>4, WithdrawMoves DEF AllClosed
    <2>4. \A s \in done' \ done : s.kind = "WITHDRAW_EXCEPTION" \/ s \in open
      BY <1>4 DEF Withdraw, CaseStep, AskStep
    <2> QED BY <2>1, <2>2, <2>3, <2>4 DEF Comes, Following
  <1>5. ASSUME NEW s \in open, Execute(s)
        PROVE  /\ LedgerTyped' /\ done' = done \cup {s}
               /\ \A r \in open' \ open : Comes(r)
               /\ open \ open' \subseteq {s}
    <2>1. PICK to, new : new \in Brings(s) /\ Executed(s, to, new)
      BY <1>5, <1>t, ExecutionsAreSettled
    <2>2. new \in Rows /\ \A r \in new : r.kind \in Following
      BY <1>t, <2>1, BringsAreRows
    <2>3. /\ CaseSuccessors(to) \in Rows
          /\ \A r \in CaseSuccessors(to) : r.kind \in {"RECONCILE_CASE", "REVALIDATE_RECOVERY"}
      BY <1>t, PromisesMove, SuccessorsAreRows DEF Recorded
    <2>4. Settled(s, new \cup CaseSuccessors(to)) /\ failed' \subseteq failed \cup {s}
      BY <2>1 DEF Executed
    <2>5. LedgerTyped'
      BY <1>t, <2>2, <2>3, <2>4, RowsAdd, SettledTyped
    <2> HIDE DEF CaseSuccessors
    <2>6. \A r \in open' \ open : r.kind \in Following
      BY <2>2, <2>3, <2>4 DEF Settled, Following
    <2> QED BY <2>4, <2>5, <2>6 DEF Settled, Comes
  <1> QED BY <1>1, <1>2, <1>3, <1>4, <1>5, NextIs

-----------------------------------------------------------------------------
(* Where a case goes, and what is so of its promises when it gets there.   *)

\* Where a handler may leave the case it found.
MayLeave(s, to) ==
    /\ to = Stay \/ to \in CaseStates
    /\ to \notin {"EXECUTING", "CANCELLED"}
    /\ case \in TerminalCases => to = Stay
    /\ case = "PLANNED" /\ to # Stay =>
         to = "RECONCILING" /\ \A t \in Tracks : track'[t] # "PENDING"
    /\ case = "EXECUTING" /\ to # Stay =>
         /\ to \in {"WAITING", "REVALIDATING", "RECONCILING"}
         /\ \A t \in Tracks : track'[t] \notin Runnable
    /\ case = "WAITING" => to = "REVALIDATING" \/ (to = Stay /\ HasOpenApproval(request'))
    /\ case = "REVALIDATING" /\ to # Stay =>
         \/ to \in {"PLANNED", "REVALIDATING"}
         \/ to = "RECONCILING" /\ \A t \in Tracks : track'[t] # "PENDING"
    /\ case = "RECONCILING" /\ to # Stay =>
         \/ /\ to \in {"WAITING", "REVALIDATING"}
            /\ \E t \in Tracks : track'[t] = "WAITING_FOR_CUSTOMER"
         \/ /\ to = "RESOLVED"
            /\ \E except \in {{}, {s}} : Resolvable(track', except)
    /\ to = "WAITING" => HasOpenApproval(request')

LEMMA WhereItStands ==
  ASSUME CaseTyped, WaitingIsAsking, NEW s, NEW to, Stands(s, to)
  PROVE  MayLeave(s, to)
  <1> USE WorkflowAssumption DEF CaseStates
  <1>1. ASSUME to = Stay, UNCHANGED request \/ case = "EXECUTING"
        PROVE  case = "WAITING" => HasOpenApproval(request')
    BY <1>1 DEF WaitingIsAsking, HasOpenApproval
  <1>2. ASSUME NEW except \in {{}, {s}}, to = SettledCaseState(track', request', except)
        PROVE  \/ to = Stay /\ (case = "WAITING" => HasOpenApproval(request'))
               \/ /\ case = "EXECUTING" /\ to \in {"WAITING", "REVALIDATING", "RECONCILING"}
                  /\ \A t \in Tracks : track'[t] \notin Runnable
                  /\ to = "WAITING" => HasOpenApproval(request')
               \/ case \in {"WAITING", "REVALIDATING"} /\ to = "REVALIDATING"
               \/ /\ case = "RECONCILING" /\ to \in {"WAITING", "REVALIDATING"}
                  /\ \E t \in Tracks : track'[t] = "WAITING_FOR_CUSTOMER"
                  /\ to = "WAITING" => HasOpenApproval(request')
               \/ case = "RECONCILING" /\ to = "RESOLVED" /\ Resolvable(track', except)
    <2>1. CASE case = "EXECUTING"
      BY <1>2, <2>1 DEF SettledCaseState, SettledExecuting
    <2>2. CASE case = "WAITING"
      BY <1>2, <2>2 DEF SettledCaseState, SettledWaiting
    <2>3. CASE case = "REVALIDATING"
      BY <1>2, <2>3 DEF SettledCaseState, SettledRevalidating
    <2>4. CASE case = "RECONCILING"
      BY <1>2, <2>4 DEF SettledCaseState, SettledReconciling, HasUncheckedApproval, HasWaitingTrack
    <2>5. CASE case \notin {"EXECUTING", "WAITING", "REVALIDATING", "RECONCILING"}
      BY <1>2, <2>5 DEF SettledCaseState
    <2> QED BY <2>1, <2>2, <2>3, <2>4, <2>5
  <1> HIDE DEF SettledCaseState, HasOpenApproval, Resolvable
  <1> QED BY <1>1, <1>2 DEF Stands, TerminalCases, MayLeave

CaseGoes ==
    \/ case' = case /\ (case = "WAITING" => HasOpenApproval(request)')
    \/ Confirm
    \/ case = "PLANNED" /\ case' = "RECONCILING" /\ \A t \in Tracks : track'[t] # "PENDING"
    \/ /\ case = "EXECUTING" /\ case' \in {"WAITING", "REVALIDATING", "RECONCILING"}
       /\ \A t \in Tracks : track'[t] \notin Runnable
       /\ case' = "WAITING" => HasOpenApproval(request)'
    \/ case = "WAITING" /\ case' = "REVALIDATING"
    \/ case = "REVALIDATING" /\ case' = "PLANNED"
    \/ case = "REVALIDATING" /\ case' = "RECONCILING" /\ \A t \in Tracks : track'[t] # "PENDING"
    \/ /\ case = "RECONCILING" /\ case' \in {"WAITING", "REVALIDATING"}
       /\ \E t \in Tracks : track'[t] = "WAITING_FOR_CUSTOMER"
       /\ case' = "WAITING" => HasOpenApproval(request)'
    \/ /\ case = "RECONCILING" /\ case' = "RESOLVED"
       /\ \A t \in Tracks : track'[t] \in Terminal
       /\ open' = {}
    \/ /\ case \notin TerminalCases /\ case' \in {"RECONCILING", "CANCELLED"}
       /\ Withdrawals' > 0 /\ AllClosed' /\ planTimer' = FALSE

LEMMA CaseMoves ==
  ASSUME IInv, [Next]_vars
  PROVE  CaseTyped' /\ CaseGoes
  <1>t. CaseTyped /\ LedgerTyped /\ WaitingIsAsking
    BY DEF IInv, Typed, Placed
  <1>1. CASE UNCHANGED vars \/ Around
    <2>1. UNCHANGED promises
      BY <1>1, AroundLeavesThePromises DEF vars, promises
    <2>2. CaseTyped'
      <3>1. CASE UNCHANGED vars
        BY <1>t, <2>1, <3>1 DEF vars, plan, promises, CaseTyped
      <3>2. CASE FirePlanDeadline
        BY <1>t, <2>1, <3>2 DEF workflow, plan, promises, CaseTyped, FirePlanDeadline
      <3>3. ASSUME NEW t \in Tracks, SettleAmendment(t) PROVE CaseTyped'
        BY <1>t, <2>1, <3>3 DEF workflow, plan, promises, CaseTyped, SettleAmendment
      <3>4. ASSUME NEW t \in Tracks, NEW n \in Asks,
                   SendMessage(t, n) \/ RecordSent(t, n) \/ FailMessage(t, n)
            PROVE  CaseTyped'
        BY <1>t, <2>1, <3>4
        DEF workflow, plan, promises, CaseTyped, SendMessage, RecordSent, FailMessage
      <3>5. ASSUME NEW t \in Tracks, NEW n \in Asks,
                   \/ DeadlinePasses(t, n) \/ FireApprovalDeadline(t, n)
                   \/ \E w \in Words : CustomerReplies(t, n, w)
            PROVE  CaseTyped'
        BY <1>t, <2>1, <3>5
        DEF promises, CaseTyped, DeadlinePasses, FireApprovalDeadline, CustomerReplies, workflow, plan
      <3> QED BY <1>1, <3>1, <3>2, <3>3, <3>4, <3>5 DEF Around
    <2> QED BY <1>t, <2>1, <2>2 DEF promises, consent, CaseGoes, WaitingIsAsking, HasOpenApproval
  <1>2. CASE Confirm
    BY <1>2, <1>t DEF CaseTyped, CaseGoes, Confirm, CaseStates
  <1>3. ASSUME NEW consequential \in BOOLEAN, NEW claimed \in ClaimedSteps,
               Withdraw(consequential, claimed)
        PROVE  CaseTyped' /\ CaseGoes
    <2>1. AllClosed' /\ Withdrawals' > 0
      BY <1>3, <1>t, WithdrawMoves, WithdrawTyped DEF AllClosed
    <2>2. CaseTyped'
      BY <1>3, <1>t DEF CaseTyped, CaseStates, Withdraw
    <2> QED BY <1>3, <2>1, <2>2 DEF CaseGoes, Withdraw
  <1>4. ASSUME NEW s \in open, Execute(s) PROVE CaseTyped' /\ CaseGoes
    <2>1. PICK to, new : new \in Brings(s) /\ Executed(s, to, new)
      BY <1>4, ExecutionsAreSettled DEF IInv
    <2>2. /\ Stands(s, to) /\ case' = IF to = Stay THEN case ELSE to
          /\ IF to = "PLANNED" THEN plans' = plans + 1 /\ planTimer' = TRUE ELSE UNCHANGED plan
      BY <2>1 DEF Executed
    <2>3. attention' \in BOOLEAN
      BY <1>4, <1>t
      DEF CaseTyped, Execute, EscalatePlan, RequestApproval, MarkApprovalSent, AbandonApproval,
          ExpireApproval, ReceiveReply, InterpretReply, Revalidate, Replan, ApplyRecovery,
          FinalizeRecovery, AbandonRecovery, ReconcileCase, Skip, GiveUp, Escalate, CloseRequest,
          RecordReply, RecordDecision, EscalateUnconfirmed, GoStale, RevalidationExpired, Proceed,
          NoAuthorityToConsume
    <2>4. CaseTyped'
      <3>1. case' \in CaseStates
        BY <1>t, <2>2, WhereItStands DEF CaseTyped, MayLeave
      <3>2. CASE to = "PLANNED"
        BY <1>t, <2>2, <2>3, <3>1, <3>2 DEF CaseTyped
      <3>3. CASE to # "PLANNED"
        <4>1. plans' = plans /\ planTimer' = planTimer
          BY <2>2, <3>3 DEF plan
        <4> QED BY <1>t, <2>3, <3>1, <4>1 DEF CaseTyped
      <3> QED BY <3>2, <3>3
    <2>5. ASSUME to = "RESOLVED", case = "RECONCILING",
                 NEW except \in {{}, {s}}, Resolvable(track', except)
          PROVE  (\A t \in Tracks : track'[t] \in Terminal) /\ open' = {}
      <3>1. open \ except = {} /\ \A t \in Tracks : track'[t] \in Terminal
        BY <2>5 DEF Resolvable
      <3>2. Settled(s, {})
        BY <2>1, <2>5 DEF Executed, CaseSuccessors
      <3> QED BY <3>1, <3>2 DEF Settled
    <2>6. HasOpenApproval(request)' <=> HasOpenApproval(request')
      BY DEF HasOpenApproval
    <2> HIDE DEF Resolvable, HasOpenApproval
    <2> HIDE DEF CaseStates
    <2>7. MayLeave(s, to)
      BY <1>t, <2>2, WhereItStands
    <2>8. CaseGoes
      <3>1. Stay # "REVALIDATING"
        BY WorkflowAssumption DEF CaseStates
      <3>2. CASE to = Stay
        BY <2>2, <2>6, <2>7, <3>1, <3>2 DEF CaseGoes, MayLeave
      <3>3. CASE to # Stay /\ case = "PLANNED"
        BY <2>2, <2>7, <3>3 DEF CaseGoes, MayLeave
      <3>4. CASE to # Stay /\ case = "EXECUTING"
        BY <2>2, <2>6, <2>7, <3>4 DEF CaseGoes, MayLeave
      <3>5. CASE to # Stay /\ case = "WAITING"
        BY <2>2, <2>7, <3>5 DEF CaseGoes, MayLeave
      <3>6. CASE to # Stay /\ case = "REVALIDATING"
        BY <2>2, <2>7, <3>6 DEF CaseGoes, MayLeave
      <3>7. CASE to # Stay /\ case = "RECONCILING"
        BY <2>2, <2>5, <2>6, <2>7, <3>7 DEF CaseGoes, MayLeave
      <3>8. case \in TerminalCases => to = Stay
        BY <2>7 DEF MayLeave
      <3> QED
        BY <1>t, <3>2, <3>3, <3>4, <3>5, <3>6, <3>7, <3>8 DEF CaseTyped, CaseStates, TerminalCases
    <2> QED BY <2>4, <2>8
  <1> QED BY <1>1, <1>2, <1>3, <1>4, NextIs

LEMMA EffectsTypedStep ==
  ASSUME Typed, [Next]_vars
  PROVE  EffectsTyped'
  <1>t. EffectsTyped /\ LedgerTyped
    BY DEF Typed
  <1>1. CASE UNCHANGED <<outbox, clock>>
    BY <1>1, <1>t DEF EffectsTyped, outbox, clock
  <1>2. CASE Around
    <2>1. ASSUME NEW t \in Tracks, SettleAmendment(t) PROVE EffectsTyped'
      BY <1>t, <2>1 DEF SettleAmendment, EffectsTyped, clock
    <2>2. ASSUME NEW t \in Tracks, NEW n \in Asks,
                 SendMessage(t, n) \/ RecordSent(t, n) \/ FailMessage(t, n)
          PROVE  EffectsTyped'
      <3>1. /\ \E state \in {"SENT", "DELIVERED", "FAILED", "UNCERTAIN"} :
                 message' = [message EXCEPT ![t][n] = state]
            /\ UNCHANGED <<amendment, clock>>
        BY <2>2 DEF SendMessage, RecordSent, FailMessage, MessageIs
      <3> QED BY <1>t, <3>1 DEF EffectsTyped, clock
    <2>3. ASSUME NEW t \in Tracks, NEW n \in Asks,
                 DeadlinePasses(t, n) \/ FireApprovalDeadline(t, n)
          PROVE  EffectsTyped'
      BY <1>t, <2>3 DEF DeadlinePasses, FireApprovalDeadline, EffectsTyped, outbox
    <2>4. ASSUME NEW t \in Tracks, NEW n \in Asks, NEW w \in Words, CustomerReplies(t, n, w)
          PROVE  UNCHANGED <<outbox, clock>>
      BY <2>4 DEF CustomerReplies
    <2>5. FirePlanDeadline => UNCHANGED <<outbox, clock>>
      BY DEF FirePlanDeadline
    <2> QED BY <1>1, <1>2, <2>1, <2>2, <2>3, <2>4, <2>5 DEF Around
  <1>3. Confirm \/ UNCHANGED vars => UNCHANGED <<outbox, clock>>
    BY DEF Confirm, vars
  <1>4. ASSUME NEW consequential \in BOOLEAN, NEW claimed \in ClaimedSteps,
               Withdraw(consequential, claimed)
        PROVE  UNCHANGED <<outbox, clock>>
    BY <1>4 DEF Withdraw
  <1>5. ASSUME NEW s \in open, Execute(s), ~UNCHANGED <<outbox, clock>>
        PROVE  EffectsTyped'
    <2>1. /\ s.kind \in PerAsk \cup RecoveryWork
          /\ \/ /\ message' = [message EXCEPT ![s.track][s.ask] = "QUEUED"] /\ s.kind \in PerAsk
                /\ UNCHANGED <<amendment, clock>>
             \/ /\ armed' = armed \cup {<<s.track, s.ask>>} /\ s.kind \in PerAsk
                /\ UNCHANGED <<outbox, overdue>>
             \/ /\ amendment' = [amendment EXCEPT ![s.track] = "QUEUED"]
                /\ UNCHANGED <<message, clock>>
      BY <1>5
      DEF outbox, Execute, EscalatePlan, RequestApproval, MarkApprovalSent, AbandonApproval,
          ExpireApproval, ReceiveReply, InterpretReply, Revalidate, Replan, ApplyRecovery,
          FinalizeRecovery, AbandonRecovery, ReconcileCase, Skip, GiveUp, CloseRequest,
          RecordReply, RecordDecision, EscalateUnconfirmed, GoStale, RevalidationExpired, Proceed,
          NoAuthorityToConsume, PerAsk, RecoveryWork
    <2>2. s.track \in Tracks /\ (s.kind \in PerAsk => s.ask \in Asks)
      BY <1>t, <2>1 DEF LedgerTyped, About
    <2> QED BY <1>t, <2>1, <2>2 DEF EffectsTyped, outbox, clock
  <1> QED BY <1>1, <1>2, <1>3, <1>4, <1>5, NextIs

LEMMA TypedStep ==
  ASSUME IInv, [Next]_vars
  PROVE  Typed'
  BY PromisesMove, LedgerMoves, CaseMoves, EffectsTypedStep DEF Typed, Recorded, IInv

-----------------------------------------------------------------------------
(* Consent: asks are numbered in turn, and what was said stays said.       *)

\* No promise has been asked anything new.
SameAsks(t) == \A n \in Asks : request'[t][n] # "NONE" <=> request[t][n] # "NONE"

LEMMA SameAsksCount ==
  ASSUME NEW t \in Tracks, SameAsks(t)
  PROVE  Asked(t)' = Asked(t) /\ NextAsk(t)' = NextAsk(t)
  <1>1. {n \in Asks : request'[t][n] # "NONE"} = {n \in Asks : request[t][n] # "NONE"}
    BY DEF SameAsks
  <1> QED BY <1>1 DEF Asked, NextAsk

LEMMA NextAskCounts ==
  ASSUME IInv, NEW t \in Tracks
  PROVE  /\ NextAsk(t) \in Nat \ {0}
         /\ \A n \in Asks : request[t][n] # "NONE" <=> n < NextAsk(t)
  <1>1. Asked(t) \subseteq Asks /\ IsFiniteSet(Asks)
    BY WorkflowAssumption, FS_Interval DEF Asked, Asks
  <1>2. Cardinality(Asked(t)) \in Nat
    BY <1>1, FS_Subset, FS_CardinalityType
  <1>3. NextAsk(t) = Cardinality(Asked(t)) + 1
    BY DEF NextAsk, Asked
  <1>4. Asked(t) = 1 .. NextAsk(t) - 1
    BY DEF IInv, Consented, AskedInTurn
  <1>5. \A n \in Asks : n \in Nat /\ n > 0 /\ (n \in Asked(t) <=> request[t][n] # "NONE")
    BY WorkflowAssumption DEF Asked, Asks
  <1>6. NextAsk(t) \in Nat \ {0}
    BY <1>2, <1>3
  <1> HIDE DEF NextAsk
  <1> QED BY <1>4, <1>5, <1>6

LEMMA AsksMove ==
  ASSUME IInv, Recorded, NEW t \in Tracks
  PROVE  SameAsks(t) \/ IsAsked(t)
  <1>t. PromisesTyped
    BY DEF IInv, Typed
  <1>1. CASE Untouched(t) \/ IsNotAsked(t) \/ HandsOver(t) \/ GoesStale(t) \/ IsApplied(t)
             \/ IsRecovered(t) \/ (\E n \in Asks : IsReached(t, n))
    BY <1>1
    DEF Untouched, IsNotAsked, HandsOver, GoesStale, IsApplied, IsRecovered, IsReached, KeepsAsks,
        SameAsks
  <1>2. CASE IsStoodDown(t)
    BY <1>2 DEF IsStoodDown, Undecided, OpenApproval, SameAsks
  <1>3. ASSUME NEW n \in Asks, IsConfirming(t, n) \/ Answers(t, n) PROVE SameAsks(t)
    <2>1. DOMAIN request[t] = Asks
      BY <1>t DEF PromisesTyped
    <2>2. CASE IsConfirming(t, n)
      BY <2>1, <2>2 DEF IsConfirming, SameAsks, OpenApproval
    <2>3. CASE Answers(t, n)
      BY <2>1, <2>3 DEF Answers, SameAsks, OpenApproval
    <2> QED BY <1>3, <2>2, <2>3
  <1>4. ASSUME NEW n \in Asks, Closes(t, n) PROVE SameAsks(t)
    <2>1. request[t][n] # "NONE" /\ request'[t] = [request[t] EXCEPT ![n] = "EXPIRED"]
      BY <1>4 DEF Closes, IInv, Consented, CarriedWasAsked, Asks
    <2> QED BY <1>t, <2>1 DEF SameAsks, PromisesTyped
  <1>5. CASE IsReplanned(t)
    <2>1. carried[t] \in Asks /\ request[t][carried[t]] # "NONE"
      BY <1>5, <1>t DEF IsReplanned, IInv, Consented, CarriedWasAsked, PromisesTyped
    <2>2. request'[t] = [request[t] EXCEPT ![carried[t]] = "SUPERSEDED"]
      BY <1>5 DEF IsReplanned
    <2> QED BY <1>t, <2>1, <2>2 DEF SameAsks, PromisesTyped
  <1> QED BY <1>1, <1>2, <1>3, <1>4, <1>5 DEF Recorded, Moves

LEMMA AskedInTurnStep ==
  ASSUME IInv, Recorded
  PROVE  AskedInTurn'
  <1> SUFFICES ASSUME NEW t \in Tracks PROVE Asked(t)' = 1 .. NextAsk(t)' - 1
    BY DEF AskedInTurn
  <1>1. CASE SameAsks(t)
    BY <1>1, SameAsksCount DEF IInv, Consented, AskedInTurn
  <1>2. CASE IsAsked(t)
    <2> DEFINE m == NextAsk(t)
    <2>1. m \in Nat \ {0} /\ m \in Asks
      BY <1>2, NextAskCounts DEF IsAsked
    <2>2. \A n \in Asks : request'[t][n] # "NONE" <=> n \in 1 .. m
      <3>1. \A n \in Asks : request[t][n] # "NONE" <=> n < m
        BY NextAskCounts
      <3>2. \A n \in Asks : request'[t][n] = IF n = m THEN "SENT" ELSE request[t][n]
        BY <1>2 DEF IsAsked, IInv, Typed, PromisesTyped
      <3> HIDE DEF m
      <3> QED BY <2>1, <3>1, <3>2 DEF Asks
    <2>3. Asked(t)' = 1 .. m
      <3> HIDE DEF m
      <3>1. 1 .. m \subseteq Asks
        BY <2>1, WorkflowAssumption DEF Asks
      <3> QED BY <2>2, <3>1 DEF Asked
    <2>4. Cardinality(1 .. m) = m
      <3> HIDE DEF m
      <3> QED BY <2>1, FS_Interval
    <2>5. NextAsk(t)' = Cardinality(Asked(t)') + 1
      BY DEF NextAsk, Asked
    <2> HIDE DEF m
    <2> QED BY <2>1, <2>3, <2>4, <2>5
  <1> QED BY <1>1, <1>2, AsksMove

LEMMA CarriedWasAskedStep ==
  ASSUME IInv, Recorded
  PROVE  CarriedWasAsked'
  <1> SUFFICES ASSUME NEW t \in Tracks, carried'[t] # 0 PROVE request'[t][carried'[t]] # "NONE"
    BY DEF CarriedWasAsked
  <1>t. PromisesTyped /\ PromisesTyped'
    BY DEF IInv, Typed, Recorded
  <1>1. CASE IsAsked(t)
    BY <1>1, <1>t DEF IsAsked, PromisesTyped
  <1>2. CASE carried'[t] = carried[t] /\ SameAsks(t)
    BY <1>2, <1>t DEF IInv, Consented, CarriedWasAsked, SameAsks, PromisesTyped
  <1>3. CASE ~IsAsked(t)
    <2>1. carried'[t] = carried[t]
      BY <1>3
      DEF Recorded, Moves, Untouched, IsNotAsked, HandsOver, GoesStale, IsReplanned, IsApplied,
          IsRecovered, IsStoodDown, IsReached, IsConfirming, Answers, Closes, KeepsAsks, Keeps
    <2> QED BY <1>2, <1>3, <2>1, AsksMove
  <1> QED BY <1>1, <1>3

\* An open request after the step was one before it, or is the one just asked.
LEMMA AnswerableStep ==
  ASSUME IInv, Recorded, done \subseteq done'
  PROVE  Answerable'
  <1> SUFFICES ASSUME NEW t \in Tracks
               PROVE  \A n \in Asks :
                        /\ request'[t][n] \in OpenApproval =>
                             carried'[t] = n /\ track'[t] \in {"PENDING", "WAITING_FOR_CUSTOMER"}
                                            /\ verdict'[t] = "APPROVAL"
                        /\ request'[t][n] \in OpenApproval \cup {"NONE"} => decision'[t][n] = "NONE"
                        /\ decision'[t][n] = "APPROVE" =>
                             WordStep("RECEIVE_CUSTOMER_REPLY", t, n, "YES") \in done'
    BY DEF Answerable
  <1>t. /\ request[t] \in [Asks -> RequestStates]
        /\ decision[t] \in [Asks -> {"NONE", "APPROVE", "DECLINE"}]
    BY DEF IInv, Typed, PromisesTyped
  <1>a. \A n \in Asks :
          /\ request[t][n] \in OpenApproval =>
               carried[t] = n /\ track[t] \in {"PENDING", "WAITING_FOR_CUSTOMER"}
                              /\ verdict[t] = "APPROVAL"
          /\ request[t][n] \in OpenApproval \cup {"NONE"} => decision[t][n] = "NONE"
          /\ decision[t][n] = "APPROVE" => WordStep("RECEIVE_CUSTOMER_REPLY", t, n, "YES") \in done'
    BY DEF IInv, Consented, Answerable
  <1> HIDE DEF WordStep
  <1>1. CASE Untouched(t)
    BY <1>1, <1>a DEF Untouched, KeepsAsks, Keeps
  <1>2. CASE IsAsked(t)
    <2> DEFINE m == NextAsk(t)
    <2>1. m \in Asks /\ request[t][m] = "NONE"
      <3>1. NextAsk(t) \in Asks /\ NextAsk(t) \in Nat
        BY <1>2, NextAskCounts DEF IsAsked
      <3>2. ~(request[t][NextAsk(t)] # "NONE")
        <4> HIDE DEF NextAsk
        <4> QED BY <3>1, NextAskCounts
      <3> QED BY <3>1, <3>2
    <2>2. /\ carried[t] = 0 /\ carried'[t] = m /\ track'[t] = "PENDING" /\ verdict'[t] = "APPROVAL"
          /\ decision' = decision /\ request'[t] = [request[t] EXCEPT ![m] = "SENT"]
      BY <1>2 DEF IsAsked, IsTakenUp
    <2> HIDE DEF m
    <2> QED BY <1>a, <1>t, <2>1, <2>2 DEF OpenApproval, Asks
  <1>3. CASE /\ KeepsAsks(t) /\ NotOpen(t)
    BY <1>3, <1>a DEF KeepsAsks, Keeps, NotOpen
  <1>4. CASE IsReplanned(t)
    <2>1. \A n \in Asks : request[t][n] \notin OpenApproval
      BY <1>4, <1>a DEF IsReplanned
    <2>2. \A n \in Asks : /\ request'[t][n] \in {request[t][n], "SUPERSEDED"}
                           /\ decision'[t][n] = decision[t][n]
      BY <1>4, <1>t DEF IsReplanned
    <2> QED BY <1>a, <2>1, <2>2 DEF OpenApproval
  <1>5. CASE IsRecovered(t)
    BY <1>5, <1>a DEF IsRecovered, KeepsAsks, Keeps
  <1>6. CASE IsStoodDown(t)
    BY <1>6, <1>a DEF IsStoodDown, Undecided, OpenApproval
  <1>7. CASE \E n \in Asks : IsReached(t, n)
    BY <1>7, <1>a DEF IsReached, KeepsAsks, Keeps
  <1>8. CASE \E n \in Asks : IsConfirming(t, n)
    <2>1. PICK n \in Asks : IsConfirming(t, n)
      BY <1>8
    <2>2. \A m \in Asks : request'[t][m] = IF m = n THEN "CONFIRMATION_PENDING" ELSE request[t][m]
      BY <1>t, <2>1 DEF IsConfirming
    <2> QED BY <1>a, <2>1, <2>2 DEF IsConfirming, Keeps, OpenApproval
  <1>9. CASE \E n \in Asks : Answers(t, n)
    <2>1. PICK n \in Asks : Answers(t, n)
      BY <1>9
    <2>2. \A m \in Asks : request'[t][m] = IF m = n THEN "ANSWERED" ELSE request[t][m]
      BY <1>t, <2>1 DEF Answers
    <2>3. \A m \in Asks : m # n => request[t][m] \notin OpenApproval
      BY <1>a, <2>1 DEF Answers
    <2>4. PICK d \in {"APPROVE", "DECLINE"} :
            /\ decision'[t] = [decision[t] EXCEPT ![n] = d]
            /\ d = "APPROVE" => WordStep("RECEIVE_CUSTOMER_REPLY", t, n, "YES") \in done'
      BY <2>1 DEF Answers
    <2>5. \A m \in Asks : decision'[t][m] = IF m = n THEN d ELSE decision[t][m]
      BY <1>t, <2>4
    <2> QED BY <1>a, <2>2, <2>3, <2>4, <2>5 DEF OpenApproval
  <1>10. CASE \E n \in Asks : Closes(t, n)
    <2>1. PICK n \in Asks : Closes(t, n)
      BY <1>10
    <2>2. \A m \in Asks : request'[t][m] = IF m = n THEN "EXPIRED" ELSE request[t][m]
      BY <1>t, <2>1 DEF Closes
    <2>3. \A m \in Asks : m # n => request[t][m] \notin OpenApproval
      BY <1>a, <2>1 DEF Closes
    <2> QED BY <1>a, <2>1, <2>2, <2>3 DEF Closes, Keeps, OpenApproval
  <1> QED
    BY <1>1, <1>2, <1>3, <1>4, <1>5, <1>6, <1>7, <1>8, <1>9, <1>10
    DEF Recorded, Moves, IsNotAsked, HandsOver, GoesStale, IsApplied

-----------------------------------------------------------------------------
(* What a step leaves of the checks, the deadlines, the effects and what   *)
(* the owner has been told.                                                *)

\* Nothing that was checked or told is taken back, and only a plan arms a plan's deadline.
Remembers ==
    /\ proceeded \subseteq proceeded'
    /\ attention => attention'
    /\ planTimer' => planTimer \/ case' = "PLANNED"

LEMMA StepsRemember ==
  ASSUME Typed, [Next]_vars
  PROVE  Remembers
  <1>t. attention \in BOOLEAN /\ planTimer \in BOOLEAN
    BY DEF Typed, CaseTyped
  <1>1. CASE UNCHANGED vars \/ Around
    <2>1. proceeded' = proceeded
      BY <1>1, AroundLeavesThePromises DEF vars, promises, consent
    <2>2. attention' = attention \/ attention' = TRUE
      BY <1>1
      DEF vars, Around, FirePlanDeadline, SettleAmendment, SendMessage, RecordSent, FailMessage,
          DeadlinePasses, FireApprovalDeadline, CustomerReplies, workflow
    <2>3. planTimer' = planTimer \/ planTimer' = FALSE
      BY <1>1
      DEF vars, plan, Around, FirePlanDeadline, SettleAmendment, SendMessage, RecordSent,
          FailMessage, DeadlinePasses, FireApprovalDeadline, CustomerReplies
    <2> QED BY <1>t, <2>1, <2>2, <2>3 DEF Remembers
  <1>2. CASE Confirm
    <2>1. ASSUME attention PROVE attention'
      BY <1>2, <2>1, Zenon DEF Confirm
    <2>2. proceeded' = proceeded /\ planTimer' = FALSE
      BY <1>2 DEF Confirm, consent
    <2> QED BY <1>t, <2>1, <2>2 DEF Remembers
  <1>3. ASSUME NEW consequential \in BOOLEAN, NEW claimed \in ClaimedSteps,
               Withdraw(consequential, claimed)
        PROVE  Remembers
    BY <1>3, <1>t DEF Remembers, Withdraw
  <1>4. ASSUME NEW s \in open, Execute(s) PROVE Remembers
    <2>1. PICK to, new : Executed(s, to, new)
      BY <1>4, ExecutionsAreSettled
    <2>2. planTimer' => planTimer \/ case' = "PLANNED"
      BY <2>1, WorkflowAssumption DEF Executed, plan, CaseStates
    <2>3. (proceeded \subseteq proceeded') /\ (attention => attention')
      BY <1>4, <1>t
      DEF consent, Execute, EscalatePlan, RequestApproval, MarkApprovalSent, AbandonApproval,
          ExpireApproval, ReceiveReply, InterpretReply, Revalidate, Replan, ApplyRecovery,
          FinalizeRecovery, AbandonRecovery, ReconcileCase, Skip, GiveUp, Escalate, CloseRequest,
          RecordReply, RecordDecision, EscalateUnconfirmed, GoStale, RevalidationExpired, Proceed,
          NoAuthorityToConsume
    <2> QED BY <2>2, <2>3 DEF Remembers
  <1> QED BY <1>1, <1>2, <1>3, <1>4, NextIs

LEMMA AmendedStep ==
  ASSUME IInv, Recorded, Remembers, done \subseteq done'
  PROVE  AmendedWithConsent'
  <1> SUFFICES ASSUME NEW t \in Tracks, track'[t] \in {"APPLYING", "RECOVERED"}
               PROVE  \/ verdict'[t] = "AUTO"
                      \/ /\ <<t, carried'[t]>> \in proceeded'
                         /\ WordStep("RECEIVE_CUSTOMER_REPLY", t, carried'[t], "YES") \in done'
    BY DEF AmendedWithConsent
  <1>t. PromisesTyped
    BY DEF IInv, Typed
  <1> HIDE DEF WordStep
  <1>1. CASE Untouched(t) \/ IsRecovered(t)
    BY <1>1
    DEF Untouched, IsRecovered, KeepsAsks, Keeps, IInv, Consented, AmendedWithConsent, Remembers
  <1>2. CASE IsApplied(t)
    BY <1>2, <1>t
    DEF IsApplied, Authorised, KeepsAsks, Keeps, IInv, Consented, Answerable, Remembers,
        PromisesTyped
  <1>3. ~(IsAsked(t) \/ IsNotAsked(t) \/ HandsOver(t) \/ GoesStale(t) \/ IsReplanned(t)
          \/ IsStoodDown(t))
    BY DEF IsAsked, IsNotAsked, HandsOver, GoesStale, IsReplanned, IsStoodDown, IsTakenUp
  <1>4. ASSUME NEW n \in Asks
        PROVE  ~(IsReached(t, n) \/ IsConfirming(t, n) \/ Answers(t, n) \/ Closes(t, n))
    BY DEF IsReached, IsConfirming, Answers, Closes, IInv, Consented, Answerable
  <1> QED BY <1>1, <1>2, <1>3, <1>4 DEF Recorded, Moves

LEMMA ConsentedStep ==
  ASSUME IInv, [Next]_vars
  PROVE  Consented'
  <1>1. Recorded /\ Remembers /\ done \subseteq done'
    BY PromisesMove, StepsRemember, LedgerMoves DEF IInv
  <1> QED
    BY <1>1, AskedInTurnStep, AnswerableStep, CarriedWasAskedStep, AmendedStep DEF Consented

-----------------------------------------------------------------------------
(* Where the promises still to be recovered are, and who is waited for.    *)

\* A promise that is pending afterwards holds its case in the plan, its execution or a round.
LEMMA PendingHoldsTheCase ==
  ASSUME CaseGoes, NEW t \in Tracks, track'[t] = "PENDING",
         case \in {"PLANNED", "EXECUTING", "REVALIDATING"}
  PROVE  /\ case' \in {"PLANNED", "EXECUTING", "REVALIDATING"}
         /\ case = "EXECUTING" => case' = "EXECUTING"
  BY DEF CaseGoes, Confirm, AllClosed, Runnable, Terminal

LEMMA PendingIsPlannedStep ==
  ASSUME IInv, Recorded, CaseGoes
  PROVE  PendingIsPlanned'
  <1> SUFFICES ASSUME NEW t \in Tracks, track'[t] = "PENDING"
               PROVE  /\ case' \in {"PLANNED", "EXECUTING", "REVALIDATING"}
                      /\ case' # "EXECUTING" => carried'[t] = 0
                      /\ carried'[t] = 0 /\ verdict'[t] = "APPROVAL" => NextAsk(t)' \in Asks
    BY DEF PendingIsPlanned, Asks
  <1>i. track[t] = "PENDING" =>
          /\ case \in {"PLANNED", "EXECUTING", "REVALIDATING"}
          /\ case # "EXECUTING" => carried[t] = 0
          /\ carried[t] = 0 /\ verdict[t] = "APPROVAL" => NextAsk(t) \in Asks
    BY DEF IInv, Placed, PendingIsPlanned
  <1> HIDE DEF NextAsk
  <1>1. CASE Untouched(t)
    <2>1. NextAsk(t)' = NextAsk(t)
      BY <1>1, SameAsksCount DEF Untouched, KeepsAsks, SameAsks
    <2> QED BY <1>1, <1>i, <2>1, PendingHoldsTheCase DEF Untouched, KeepsAsks, Keeps
  <1>2. CASE IsAsked(t)
    BY <1>2, <1>i, PendingHoldsTheCase DEF IsAsked, IsTakenUp, Asks
  <1>3. CASE IsReplanned(t)
    <2>1. NextAsk(t)' = NextAsk(t)
      BY <1>3, AsksMove, SameAsksCount DEF IsReplanned, IsAsked, IsTakenUp
    <2> QED BY <1>3, <2>1, PendingHoldsTheCase DEF IsReplanned
  <1>4. ASSUME NEW n \in Asks, IsConfirming(t, n) \/ Answers(t, n)
        PROVE  /\ case' = "EXECUTING" /\ carried'[t] # 0
    <2>1. /\ track[t] = "PENDING" /\ carried[t] = n /\ carried'[t] = n
      BY <1>4 DEF IsConfirming, Answers, Keeps, IInv, Consented, Answerable
    <2> QED BY <1>i, <2>1, PendingHoldsTheCase DEF Asks
  <1>5. ~(IsNotAsked(t) \/ HandsOver(t) \/ GoesStale(t) \/ IsApplied(t) \/ IsRecovered(t)
          \/ IsStoodDown(t) \/ \E n \in Asks : IsReached(t, n) \/ Closes(t, n))
    BY DEF IsNotAsked, HandsOver, GoesStale, IsApplied, IsRecovered, IsStoodDown, IsReached, Closes
  <1> QED BY <1>1, <1>2, <1>3, <1>4, <1>5 DEF Recorded, Moves

LEMMA WithdrawalsStay ==
  ASSUME IInv, [Next]_vars
  PROVE  /\ WithdrawalsAreCounted /\ WithdrawalsAreCounted'
         /\ Withdrawals > 0 => Withdrawals' > 0
  <1>1. LedgerTyped /\ LedgerTyped' /\ done \subseteq done'
    BY LedgerMoves DEF IInv, Typed
  <1>2. WithdrawalsAreCounted
    BY <1>1, WithdrawalsCount
  <1>3. WithdrawalsAreCounted'
    BY <1>1, WithdrawalsCount, PTL
  <1>4. Withdrawn => Withdrawn'
    BY <1>1 DEF Withdrawn
  <1> QED BY <1>2, <1>3, <1>4 DEF WithdrawalsAreCounted

LEMMA AWithdrawalCloses ==
  ASSUME IInv, [Next]_vars, Withdrawals' > 0, ~(Withdrawals > 0)
  PROVE  AllClosed' /\ case' \in {"RECONCILING", "CANCELLED"} /\ planTimer' = FALSE
  <1>t. Typed /\ LedgerTyped
    BY DEF IInv, Typed
  <1>1. ~Withdrawn /\ Withdrawn'
    BY WithdrawalsStay DEF WithdrawalsAreCounted
  <1>2. done' # done
    BY <1>1 DEF Withdrawn
  <1>3. ~UNCHANGED vars /\ ~Confirm
    BY <1>2 DEF vars, ledger, Confirm, Enqueue
  <1>4. ~Around
    BY <1>2, <1>t, AroundEnqueues DEF Enqueue
  <1>5. ASSUME NEW s \in open, Execute(s) PROVE FALSE
    <2>1. PICK to, new : Executed(s, to, new)
      BY <1>5, <1>t, ExecutionsAreSettled
    <2>2. done' = done \cup {s} /\ s.kind # "WITHDRAW_EXCEPTION"
      BY <2>1 DEF Executed, Settled
    <2> QED BY <1>1, <2>2 DEF Withdrawn
  <1>6. PICK consequential \in BOOLEAN, claimed \in ClaimedSteps : Withdraw(consequential, claimed)
    BY <1>3, <1>4, <1>5, NextIs
  <1> QED BY <1>6, WithdrawMoves DEF AllClosed, Withdraw

LEMMA AskingIsNextStep ==
  ASSUME IInv, [Next]_vars
  PROVE  AskingIsNext'
  <1>c. Recorded /\ CaseGoes /\ LedgerTyped /\ LedgerTyped'
    BY PromisesMove, CaseMoves, LedgerMoves DEF IInv, Typed
  <1> SUFFICES ASSUME NEW s \in open', s.kind = "REQUEST_APPROVAL", ~(Withdrawals' > 0)
               PROVE  /\ case' = "EXECUTING"
                      /\ track'[s.track] = "PENDING"
                      /\ carried'[s.track] = 0
                      /\ verdict'[s.track] = "APPROVAL"
                      /\ s.ask = NextAsk(s.track)'
    BY DEF AskingIsNext
  <1> DEFINE t == s.track
  <1>t. t \in Tracks
    BY <1>c DEF LedgerTyped, About, PerAsk
  <1>w. ~(Withdrawals > 0)
    BY WithdrawalsStay
  <1> HIDE DEF NextAsk
  <1>1. CASE s \notin open
    <2>1. Comes(s)
      BY <1>1, LedgerMoves
    <2>2. IsToAsk(s)
      BY <2>1 DEF Comes, Arrives, Incidental, Reported, Following
    <2>3. carried[t] = 0
      BY <1>t, <2>2 DEF IsToAsk, IInv, Placed, PendingIsPlanned
    <2>4. NextAsk(t)' = NextAsk(t)
      BY <1>t, <2>2, SameAsksCount DEF IsToAsk, Untouched, KeepsAsks, SameAsks
    <2> QED BY <2>2, <2>3, <2>4 DEF IsToAsk, Untouched, KeepsAsks, Keeps
  <1>2. CASE s \in open
    <2>1. /\ case = "EXECUTING" /\ track[t] = "PENDING" /\ carried[t] = 0
          /\ verdict[t] = "APPROVAL" /\ s.ask = NextAsk(t)
      BY <1>2, <1>w DEF IInv, Placed, AskingIsNext
    <2>2. ~IsTakenUp(t)
      <3> SUFFICES ASSUME NEW r \in open, r.kind = "REQUEST_APPROVAL", r.track = t, r \notin open'
                   PROVE  FALSE
        BY DEF IsTakenUp
      <3>1. r.ask = s.ask
        BY <1>w, <2>1 DEF IInv, Placed, AskingIsNext
      <3>2. r \in StepKeys /\ s \in StepKeys /\ r.word = NoWord /\ s.word = NoWord
        BY <1>c, <1>2 DEF LedgerTyped, About, PerReply
      <3>3. r = s
        BY <3>1, <3>2 DEF StepKeys
      <3> QED BY <3>3
    <2>3. ~IsAsked(t) /\ ~IsNotAsked(t)
      BY <2>2 DEF IsAsked, IsNotAsked
    <2>4. ~(HandsOver(t) \/ GoesStale(t) \/ IsReplanned(t) \/ IsApplied(t) \/ IsRecovered(t)
            \/ IsStoodDown(t))
      BY <2>1 DEF HandsOver, GoesStale, IsReplanned, IsApplied, Authorised, IsRecovered, IsStoodDown
    <2>5. ASSUME NEW n \in Asks
          PROVE  ~(IsReached(t, n) \/ IsConfirming(t, n) \/ Answers(t, n) \/ Closes(t, n))
      BY <1>t, <2>1
      DEF IsReached, IsConfirming, Answers, Closes, IInv, Consented, Answerable, Asks
    <2>6. Untouched(t)
      BY <1>c, <1>t, <2>3, <2>4, <2>5 DEF Recorded, Moves
    <2>7. NextAsk(t)' = NextAsk(t)
      BY <1>t, <2>6, SameAsksCount DEF Untouched, KeepsAsks, SameAsks
    <2> QED
      BY <1>c, <1>t, <2>1, <2>6, <2>7, PendingHoldsTheCase DEF Untouched, KeepsAsks, Keeps
  <1> QED BY <1>1, <1>2

LEMMA PlacedStep ==
  ASSUME IInv, [Next]_vars
  PROVE  Placed'
  <1>1. Recorded /\ CaseGoes
    BY PromisesMove, CaseMoves
  <1>2. WaitingIsAsking'
    BY <1>1 DEF WaitingIsAsking, CaseGoes, Confirm
  <1> QED BY <1>1, <1>2, PendingIsPlannedStep, AskingIsNextStep DEF Placed

-----------------------------------------------------------------------------
(* Deadlines: whose they are, and who waits under one.                     *)

\* An open request was open, or has just been made.
LEMMA OpenWasOpen ==
  ASSUME IInv, Recorded, NEW t \in Tracks, NEW n \in Asks, request'[t][n] \in OpenApproval
  PROVE  \/ request[t][n] \in OpenApproval
         \/ IsAsked(t) /\ request[t][n] = "NONE"
  <1>t. request[t] \in [Asks -> RequestStates]
    BY DEF IInv, Typed, PromisesTyped
  <1>1. CASE IsAsked(t)
    <2>1. NextAsk(t) \in Asks /\ ~(NextAsk(t) < NextAsk(t))
      BY <1>1, NextAskCounts DEF IsAsked
    <2>2. request'[t][n] = IF n = NextAsk(t) THEN "SENT" ELSE request[t][n]
      BY <1>1, <1>t DEF IsAsked
    <2> HIDE DEF NextAsk
    <2>3. request[t][NextAsk(t)] = "NONE"
      BY <2>1, NextAskCounts
    <2> QED BY <1>1, <2>2, <2>3
  <1>2. ASSUME NEW m \in Asks,
               IsReached(t, m) \/ IsConfirming(t, m) \/ Answers(t, m) \/ Closes(t, m)
        PROVE  request[t][n] \in OpenApproval
    BY <1>2, <1>t DEF IsReached, IsConfirming, Answers, Closes, KeepsAsks, OpenApproval
  <1>3. CASE IsReplanned(t)
    BY <1>3, <1>t DEF IsReplanned, OpenApproval
  <1>4. CASE IsStoodDown(t)
    BY <1>4 DEF IsStoodDown, Undecided, OpenApproval
  <1> QED
    BY <1>1, <1>2, <1>3, <1>4
    DEF Recorded, Moves, Untouched, IsNotAsked, HandsOver, GoesStale, IsApplied, IsRecovered,
        KeepsAsks

LEMMA AskedStaysAsked ==
  ASSUME IInv, Recorded, NEW t \in Tracks, NEW n \in Asks, request[t][n] # "NONE"
  PROVE  request'[t][n] # "NONE"
  <1>1. CASE IsAsked(t)
    <2>1. request[t] \in [Asks -> RequestStates]
      BY DEF IInv, Typed, PromisesTyped
    <2>2. request'[t][n] = IF n = NextAsk(t) THEN "SENT" ELSE request[t][n]
      BY <1>1, <2>1 DEF IsAsked
    <2> QED BY <2>2
  <1> QED BY <1>1, AsksMove DEF SameAsks

\* A deadline is armed for a promise that is reached, and fires into the ledger.
LEMMA DeadlinesMove ==
  ASSUME IInv, [Next]_vars, NEW t \in Tracks, NEW n \in Asks
  PROVE  /\ <<t, n>> \in armed' => <<t, n>> \in armed \/ request[t][n] \in OpenApproval
         /\ <<t, n>> \in armed \ armed' => AskStep("EXPIRE_APPROVAL", t, n) \in open' \cup done
  <1>1. CASE armed' = armed
    BY <1>1
  <1>2. ASSUME NEW u \in Tracks, NEW m \in Asks, FireApprovalDeadline(u, m)
        PROVE  /\ armed' = armed \ {<<u, m>>}
               /\ AskStep("EXPIRE_APPROVAL", u, m) \in open' \cup done
    BY <1>2 DEF FireApprovalDeadline, Enqueue
  <1>3. CASE Around
    <2>1. CASE \A u \in Tracks, m \in Asks : ~FireApprovalDeadline(u, m)
      BY <1>1, <1>3, <2>1
      DEF Around, FirePlanDeadline, SettleAmendment, SendMessage, RecordSent, FailMessage,
          DeadlinePasses, CustomerReplies, clock
    <2>2. ASSUME NEW u \in Tracks, NEW m \in Asks, FireApprovalDeadline(u, m)
          PROVE  /\ <<t, n>> \in armed' => <<t, n>> \in armed
                 /\ <<t, n>> \in armed \ armed' =>
                      AskStep("EXPIRE_APPROVAL", t, n) \in open' \cup done
      <3>1. /\ armed' = armed \ {<<u, m>>}
            /\ AskStep("EXPIRE_APPROVAL", u, m) \in open' \cup done
        BY <1>2, <2>2
      <3>2. <<t, n>> \in armed \ armed' => t = u /\ n = m
        BY <3>1
      <3> QED BY <3>1, <3>2
    <2> QED BY <2>1, <2>2
  <1>4. CASE Confirm \/ UNCHANGED vars
    BY <1>1, <1>4 DEF Confirm, clock, vars
  <1>5. ASSUME NEW consequential \in BOOLEAN, NEW claimed \in ClaimedSteps,
               Withdraw(consequential, claimed)
        PROVE  armed' = armed
    BY <1>5 DEF Withdraw, clock
  <1>6. ASSUME NEW s \in open, Execute(s), armed' # armed
        PROVE  armed' = armed \cup {<<s.track, s.ask>>} /\ request[s.track][s.ask] \in OpenApproval
    BY <1>6
    DEF clock, Execute, EscalatePlan, RequestApproval, MarkApprovalSent, AbandonApproval,
        ExpireApproval, ReceiveReply, InterpretReply, Revalidate, Replan, ApplyRecovery,
        FinalizeRecovery, AbandonRecovery, ReconcileCase, Skip, GiveUp, CloseRequest,
        RecordReply, RecordDecision, EscalateUnconfirmed, GoStale, RevalidationExpired, Proceed,
        NoAuthorityToConsume
  <1>7. ASSUME NEW s \in open, Execute(s), armed' # armed
        PROVE  <<t, n>> \in armed' => <<t, n>> \in armed \/ request[t][n] \in OpenApproval
    BY <1>6, <1>7
  <1> QED BY <1>1, <1>3, <1>4, <1>5, <1>6, <1>7, NextIs

\* A deadline that is acted on finds the request closed, or closes it.
LEMMA ExpiringCloses ==
  ASSUME IInv, NEW s \in open, Execute(s), s.kind = "EXPIRE_APPROVAL"
  PROVE  request'[s.track][s.ask] \notin OpenApproval
  <1>t. PromisesTyped /\ s.track \in Tracks /\ s.ask \in Asks
    BY DEF IInv, Typed, LedgerTyped, About, PerAsk
  <1>1. ExpireApproval(s)
    BY DEF Execute, EscalatePlan, RequestApproval, MarkApprovalSent, AbandonApproval,
           ReceiveReply, InterpretReply, Revalidate, Replan, ApplyRecovery, FinalizeRecovery,
           AbandonRecovery, ReconcileCase
  <1>2. CASE request[s.track][s.ask] \notin OpenApproval
    BY <1>1, <1>2 DEF ExpireApproval, Skip, consent
  <1>3. CASE request[s.track][s.ask] \in OpenApproval
    <2>1. decision[s.track][s.ask] = "NONE"
      BY <1>3, <1>t, OpenIsAlone DEF IInv
    <2>2. request' = [request EXCEPT ![s.track][s.ask] = "EXPIRED"]
      BY <1>1, <1>3, <2>1 DEF ExpireApproval, CloseRequest
    <2> QED BY <1>t, <2>2 DEF PromisesTyped, OpenApproval
  <1> QED BY <1>2, <1>3

\* A deadline's step that has settled left its request closed.
LEMMA ExpiredIsClosed ==
  ASSUME IInv, [Next]_vars, NEW s \in done', s.kind = "EXPIRE_APPROVAL"
  PROVE  request'[s.track][s.ask] \notin OpenApproval
  <1>c. Recorded /\ LedgerTyped'
    BY PromisesMove, LedgerMoves
  <1>t. s.track \in Tracks /\ s.ask \in Asks
    BY <1>c DEF LedgerTyped, About, PerAsk
  <1>1. CASE s \in done
    BY <1>1, <1>c, <1>t, OpenWasOpen DEF IInv, Timed, DeadlinesAreOfAsks
  <1>2. CASE AllClosed'
    BY <1>2, <1>t DEF AllClosed, NotOpen
  <1>3. CASE s \notin done /\ ~AllClosed'
    BY <1>3, LedgerMoves, ExpiringCloses
  <1> QED BY <1>1, <1>2, <1>3

LEMMA TimedStep ==
  ASSUME IInv, [Next]_vars
  PROVE  Timed'
  <1>c. Recorded /\ LedgerTyped'
    BY PromisesMove, LedgerMoves
  <1>1. ASSUME NEW t \in Tracks, NEW n \in Asks, <<t, n>> \in armed' \/ <<t, n>> \in armed
        PROVE  request'[t][n] # "NONE"
    <2>1. request[t][n] # "NONE"
      BY <1>1, DeadlinesMove DEF IInv, Timed, DeadlinesAreOfAsks, OpenApproval
    <2> QED BY <1>c, <2>1, AskedStaysAsked
  <1>2. ASSUME NEW s \in open' \cup done', s.kind = "EXPIRE_APPROVAL"
        PROVE  request'[s.track][s.ask] # "NONE"
    <2>1. s.track \in Tracks /\ s.ask \in Asks
      BY <1>c, <1>2 DEF LedgerTyped, About, PerAsk
    <2>2. CASE s \in open \cup done
      BY <1>2, <1>c, <2>1, <2>2, AskedStaysAsked DEF IInv, Timed, DeadlinesAreOfAsks
    <2>3. CASE s \notin open \cup done
      <3>1. s \in open' \ open
        BY <1>2, <2>3, LedgerMoves
      <3>2. <<s.track, s.ask>> \in armed
        BY <1>2, <3>1, LedgerMoves DEF Comes, Arrives, Reported, IsToAsk, Following
      <3> QED BY <1>1, <2>1, <3>2
    <2> QED BY <2>2, <2>3
  <1>3. DeadlinesAreOfAsks'
    BY <1>1, <1>2, ExpiredIsClosed DEF DeadlinesAreOfAsks
  <1>4. ASSUME NEW t \in Tracks, NEW n \in Asks,
               request'[t][n] \in OpenApproval, track'[t] = "WAITING_FOR_CUSTOMER"
        PROVE  <<t, n>> \in armed' \/ AskStep("EXPIRE_APPROVAL", t, n) \in open'
    <2> DEFINE e == AskStep("EXPIRE_APPROVAL", t, n)
    <2>e. e.kind = "EXPIRE_APPROVAL" /\ e.track = t /\ e.ask = n
      BY DEF AskStep
    <2> HIDE DEF e
    <2>1. e \notin done'
      BY <1>4, <2>e, ExpiredIsClosed
    <2>2. CASE IsReached(t, n)
      BY <2>2 DEF IsReached
    <2>3. CASE ~IsReached(t, n)
      <3>1. request[t][n] \in OpenApproval /\ track[t] = "WAITING_FOR_CUSTOMER"
        <4>1. ~IsAsked(t)
          BY <1>4 DEF IsAsked, IsTakenUp
        <4>2. request[t][n] \in OpenApproval
          BY <1>c, <1>4, <4>1, OpenWasOpen
        <4>3. \A m \in Asks : ~IsReached(t, m)
          BY <2>3, <4>2 DEF IsReached, IInv, Consented, Answerable
        <4>4. track[t] = "WAITING_FOR_CUSTOMER"
          BY <1>c, <1>4, <4>1, <4>3
          DEF Recorded, Moves, Untouched, IsNotAsked, HandsOver, GoesStale, IsReplanned, IsApplied,
              IsRecovered, IsStoodDown, IsConfirming, Answers, Closes
        <4> QED BY <4>2, <4>4
      <3>2. <<t, n>> \in armed \/ e \in open
        BY <3>1 DEF IInv, Timed, WaitsHaveDeadlines, e
      <3>3. <<t, n>> \in armed => <<t, n>> \in armed' \/ e \in open' \cup done
        BY DeadlinesMove DEF e
      <3>4. e \in open \ open' => FALSE
        <4>1. ~AllClosed'
          BY <1>4 DEF AllClosed, NotOpen
        <4> QED BY <1>4, <2>e, <4>1, LedgerMoves, ExpiringCloses
      <3>5. done \subseteq done'
        BY LedgerMoves
      <3> QED BY <2>1, <3>2, <3>3, <3>4, <3>5 DEF e
    <2> QED BY <2>2, <2>3
  <1>5. WaitsHaveDeadlines'
    BY <1>4 DEF WaitsHaveDeadlines, AskStep
  <1> QED BY <1>3, <1>5 DEF Timed

-----------------------------------------------------------------------------
(* Amendments, what the owner is told of, and how a case ends.             *)

\* An amendment is queued with its promise's change, and settled once.
AmendmentMoves(t) ==
    \/ amendment'[t] = amendment[t]
    \/ amendment[t] = "QUEUED" /\ amendment'[t] = "DELIVERED"
    \/ amendment[t] = "QUEUED" /\ amendment'[t] = "FAILED" /\ attention'
    \/ amendment'[t] = "QUEUED" /\ Authorised(t) /\ track'[t] = "APPLYING"

MessageMoves(t, n) ==
    message'[t][n] \in {"FAILED", "UNCERTAIN"} => message'[t][n] = message[t][n] \/ attention'

LEMMA EffectsMove ==
  ASSUME Typed, [Next]_vars, NEW t \in Tracks
  PROVE  AmendmentMoves(t) /\ \A n \in Asks : MessageMoves(t, n)
  <1>t. EffectsTyped /\ LedgerTyped /\ PromisesTyped
    BY DEF Typed
  <1>1. CASE UNCHANGED outbox
    BY <1>1 DEF outbox, AmendmentMoves, MessageMoves
  <1>2. ASSUME NEW u \in Tracks, SettleAmendment(u)
        PROVE  AmendmentMoves(t) /\ \A n \in Asks : MessageMoves(t, n)
    BY <1>2, <1>t DEF SettleAmendment, EffectsTyped, AmendmentMoves, MessageMoves
  <1>3. ASSUME NEW u \in Tracks, NEW m \in Asks,
               SendMessage(u, m) \/ RecordSent(u, m) \/ FailMessage(u, m)
        PROVE  AmendmentMoves(t) /\ \A n \in Asks : MessageMoves(t, n)
    <2>1. amendment' = amendment
      BY <1>3 DEF SendMessage, RecordSent, FailMessage
    <2>2. PICK state \in {"SENT", "DELIVERED", "FAILED", "UNCERTAIN"} :
            /\ message' = [message EXCEPT ![u][m] = state]
            /\ state \in {"FAILED", "UNCERTAIN"} => attention' = TRUE
      BY <1>3 DEF SendMessage, RecordSent, FailMessage, MessageIs
    <2>3. ASSUME NEW n \in Asks PROVE MessageMoves(t, n)
      <3>1. message'[t][n] = IF t = u /\ n = m THEN state ELSE message[t][n]
        BY <1>t, <2>2 DEF EffectsTyped
      <3> QED BY <2>2, <3>1 DEF MessageMoves
    <2> QED BY <2>1, <2>3 DEF AmendmentMoves
  <1>4. CASE Around /\ ~UNCHANGED outbox
    BY <1>2, <1>3, <1>4
    DEF Around, FirePlanDeadline, DeadlinePasses, FireApprovalDeadline, CustomerReplies
  <1>5. ASSUME NEW consequential \in BOOLEAN, NEW claimed \in ClaimedSteps,
               Withdraw(consequential, claimed)
        PROVE  UNCHANGED outbox
    BY <1>5 DEF Withdraw
  <1>6. ASSUME NEW s \in open, Execute(s), ~UNCHANGED outbox
        PROVE  AmendmentMoves(t) /\ \A n \in Asks : MessageMoves(t, n)
    <2>1. \/ /\ s.kind = "REQUEST_APPROVAL"
             /\ message' = [message EXCEPT ![s.track][s.ask] = "QUEUED"]
             /\ UNCHANGED amendment
          \/ /\ s.kind = "APPLY_RECOVERY" /\ Authorised(s.track)
             /\ amendment' = [amendment EXCEPT ![s.track] = "QUEUED"]
             /\ track' = [track EXCEPT ![s.track] = "APPLYING"]
             /\ UNCHANGED message
      BY <1>6
      DEF outbox, SetTrack, Execute, EscalatePlan, RequestApproval, MarkApprovalSent,
          AbandonApproval, ExpireApproval, ReceiveReply, InterpretReply, Revalidate, Replan,
          ApplyRecovery, FinalizeRecovery, AbandonRecovery, ReconcileCase, Skip, GiveUp,
          CloseRequest, RecordReply, RecordDecision, EscalateUnconfirmed, GoStale,
          RevalidationExpired, Proceed, NoAuthorityToConsume
    <2>2. s.track \in Tracks /\ (s.kind = "REQUEST_APPROVAL" => s.ask \in Asks)
      BY <1>t, <2>1 DEF LedgerTyped, About, PerAsk, RecoveryWork
    <2>3. CASE UNCHANGED amendment
      <3>1. \A n \in Asks : message'[t][n] \in {message[t][n], "QUEUED"}
        BY <1>t, <2>1, <2>2, <2>3 DEF EffectsTyped
      <3> QED BY <2>3, <3>1 DEF AmendmentMoves, MessageMoves
    <2>4. CASE s.kind = "APPLY_RECOVERY"
      <3>1. amendment'[t] = IF t = s.track THEN "QUEUED" ELSE amendment[t]
        BY <1>t, <2>1, <2>2, <2>4 DEF EffectsTyped
      <3>2. track'[s.track] = "APPLYING"
        BY <1>t, <2>1, <2>2, <2>4 DEF PromisesTyped
      <3> QED BY <2>1, <2>2, <2>4, <3>1, <3>2 DEF AmendmentMoves, MessageMoves
    <2> QED BY <2>1, <2>3, <2>4
  <1>7. Confirm \/ UNCHANGED vars => UNCHANGED outbox
    BY DEF Confirm, vars
  <1> QED BY <1>1, <1>4, <1>5, <1>6, <1>7, NextIs

\* A settled promise stays where it is.
LEMMA SettledStaysPut ==
  ASSUME IInv, Recorded, NEW t \in Tracks, track[t] \in Terminal
  PROVE  track'[t] = track[t]
  <1>1. track[t] \notin {"PENDING", "APPLYING", "STALE", "WAITING_FOR_CUSTOMER"}
    BY DEF Terminal
  <1>2. ASSUME NEW n \in Asks
        PROVE  ~(IsReached(t, n) \/ IsConfirming(t, n) \/ Answers(t, n) \/ Closes(t, n))
    BY <1>1 DEF IsReached, IsConfirming, Answers, Closes, IInv, Consented, Answerable
  <1>3. ~(IsNotAsked(t) \/ HandsOver(t) \/ GoesStale(t) \/ IsReplanned(t) \/ IsApplied(t)
          \/ IsRecovered(t) \/ IsStoodDown(t))
    BY <1>1
    DEF IsNotAsked, IsTakenUp, HandsOver, GoesStale, IsReplanned, IsApplied, Authorised,
        IsRecovered, IsStoodDown
  <1> QED BY <1>2, <1>3 DEF Recorded, Moves, Untouched, IsAsked

\* A change is finished by a report of its amendment, or stood down with its case.
LEMMA ApplyingEnds ==
  ASSUME IInv, [Next]_vars, NEW t \in Tracks, track[t] = "APPLYING", track'[t] # "APPLYING"
  PROVE  \/ amendment[t] \in {"DELIVERED", "FAILED"}
         \/ Withdrawals' > 0 /\ (track'[t] = "ESCALATED" \/ case' = "CANCELLED")
  <1>t. PromisesTyped
    BY DEF IInv, Typed
  <1>1. ~UNCHANGED vars /\ ~Around
    BY AroundLeavesThePromises DEF vars, promises
  <1>2. ~Confirm
    BY DEF Confirm, Pending
  <1>3. ASSUME NEW consequential \in BOOLEAN, NEW claimed \in ClaimedSteps,
               Withdraw(consequential, claimed)
        PROVE  Withdrawals' > 0 /\ (track'[t] = "ESCALATED" \/ case' = "CANCELLED")
    <2>1. Withdrawals' > 0
      BY <1>3, WithdrawTyped DEF IInv, Typed
    <2> QED BY <1>3, <2>1 DEF Withdraw, Terminal
  <1>4. ASSUME NEW s \in open, Execute(s) PROVE amendment[t] \in {"DELIVERED", "FAILED"}
    <2>1. CASE FinalizeRecovery(s) \/ AbandonRecovery(s)
      <3>1. s.kind \in {"FINALIZE_RECOVERY", "ABANDON_RECOVERY"}
        BY <2>1 DEF FinalizeRecovery, AbandonRecovery
      <3>2. s.track = t
        BY <1>t, <2>1
        DEF FinalizeRecovery, AbandonRecovery, Skip, Escalate, SetTrack, PromisesTyped
      <3> QED BY <3>1, <3>2 DEF IInv, Amending
    <2>2. ~EscalatePlan(s)
      BY DEF EscalatePlan, Pending, Skip
    <2>3. ~(RequestApproval(s) \/ MarkApprovalSent(s) \/ AbandonApproval(s) \/ Revalidate(s)
            \/ Replan(s) \/ ApplyRecovery(s) \/ ReconcileCase(s) \/ InterpretReply(s))
      BY <1>t
      DEF RequestApproval, MarkApprovalSent, AbandonApproval, Revalidate, Replan, ApplyRecovery,
          ReconcileCase, InterpretReply, Skip, GiveUp, Escalate, SetTrack, CloseRequest, GoStale,
          RevalidationExpired, Proceed, NoAuthorityToConsume, Authorised, PromisesTyped
    <2>4. \A n \in Asks : request[t][n] \notin OpenApproval
      BY DEF IInv, Consented, Answerable
    <2>5. ~(ExpireApproval(s) \/ ReceiveReply(s))
      <3>1. s.kind \in {"EXPIRE_APPROVAL", "RECEIVE_CUSTOMER_REPLY"} => s.ask \in Asks
        BY DEF IInv, Typed, LedgerTyped, About, PerAsk, PerReply
      <3> QED
        BY <1>t, <2>4, <3>1
        DEF ExpireApproval, ReceiveReply, Skip, RecordReply, RecordDecision, EscalateUnconfirmed,
            Escalate, SetTrack, CloseRequest, PromisesTyped
    <2> QED BY <1>4, <2>1, <2>2, <2>3, <2>5 DEF Execute
  <1> QED BY <1>1, <1>2, <1>3, <1>4, NextIs

LEMMA AmendingStep ==
  ASSUME IInv, [Next]_vars
  PROVE  Amending'
  <1>c. Recorded /\ CaseGoes /\ LedgerTyped'
    BY PromisesMove, CaseMoves, LedgerMoves
  <1>1. ASSUME NEW t \in Tracks
        PROVE  /\ amendment'[t] # "NONE" => track'[t] \in {"APPLYING"} \cup Terminal
               /\ amendment'[t] = "QUEUED" =>
                    \/ track'[t] = "APPLYING"
                    \/ Withdrawals' > 0 /\ (track'[t] = "ESCALATED" \/ case' = "CANCELLED")
    <2>e. AmendmentMoves(t)
      BY EffectsMove DEF IInv
    <2>1. CASE Authorised(t) /\ track'[t] = "APPLYING"
      BY <2>1
    <2>2. CASE track[t] = "APPLYING"
      <3>1. track'[t] \in {"APPLYING"} \cup Terminal
        BY <1>c, <2>2
        DEF Recorded, Moves, Untouched, IsAsked, IsNotAsked, IsTakenUp, HandsOver, GoesStale,
            IsReplanned, IsApplied, IsRecovered, IsStoodDown, IsReached, IsConfirming, Answers,
            Closes, Terminal
      <3>2. amendment'[t] = "QUEUED" => amendment[t] = "QUEUED" \/ track'[t] = "APPLYING"
        BY <2>e DEF AmendmentMoves
      <3> QED BY <2>2, <3>1, <3>2, ApplyingEnds
    <2>3. CASE track[t] \in Terminal
      <3>1. track'[t] = track[t]
        BY <1>c, <2>3, SettledStaysPut
      <3>2. amendment'[t] = "QUEUED" => amendment[t] = "QUEUED"
        BY <2>3, <2>e DEF AmendmentMoves, Authorised, Terminal
      <3>3. amendment[t] = "QUEUED" => Withdrawals > 0 /\ (track[t] = "ESCALATED" \/ case = "CANCELLED")
        BY <2>3 DEF IInv, Amending, Terminal
      <3>4. case = "CANCELLED" => case' = "CANCELLED"
        BY <1>c DEF CaseGoes, Confirm, TerminalCases
      <3> QED BY <2>3, <3>1, <3>2, <3>3, <3>4, WithdrawalsStay
    <2>4. CASE track[t] \notin {"APPLYING"} \cup Terminal /\ ~(Authorised(t) /\ track'[t] = "APPLYING")
      <3>1. amendment[t] = "NONE"
        BY <2>4 DEF IInv, Amending
      <3> QED BY <2>4, <2>e, <3>1 DEF AmendmentMoves
    <2> QED BY <2>1, <2>2, <2>3, <2>4
  <1>2. ASSUME NEW s \in open', s.kind \in {"FINALIZE_RECOVERY", "ABANDON_RECOVERY"}
        PROVE  amendment'[s.track] \in {"DELIVERED", "FAILED"}
    <2>1. s.track \in Tracks
      BY <1>c, <1>2 DEF LedgerTyped, About, RecoveryWork
    <2>2. CASE s \in open
      <3>1. amendment[s.track] \in {"DELIVERED", "FAILED"}
        BY <1>2, <2>2 DEF IInv, Amending
      <3>2. track[s.track] \in {"APPLYING"} \cup Terminal
        BY <2>1, <3>1 DEF IInv, Amending
      <3>3. ~Authorised(s.track)
        BY <3>2 DEF Authorised, Terminal
      <3> QED BY <2>1, <3>1, <3>3, EffectsMove DEF AmendmentMoves, IInv
    <2>3. CASE s \notin open
      BY <1>2, <2>3, LedgerMoves DEF Comes, Arrives, Incidental, Reported, IsToAsk, Following
    <2> QED BY <2>2, <2>3
  <1> QED BY <1>1, <1>2 DEF Amending

\* Nothing but the late and the incidental finds its way into a resolved case.
LEMMA ResolvedBringsNothing ==
  ASSUME IInv, [Next]_vars, case = "RESOLVED"
  PROVE  \A s \in open' \ open : Arrives(s)
  <1>t. Typed /\ LedgerTyped /\ CaseTyped /\ WaitingIsAsking
    BY DEF IInv, Typed, Placed
  <1>1. CASE UNCHANGED vars
    BY <1>1 DEF vars, ledger
  <1>2. CASE Around
    BY <1>2, <1>t, AroundEnqueues DEF Enqueue
  <1>3. ~Confirm /\ \A consequential \in BOOLEAN, claimed \in ClaimedSteps :
                       ~Withdraw(consequential, claimed)
    BY DEF Confirm, Withdraw, TerminalCases
  <1>4. ASSUME NEW s \in open, Execute(s) PROVE open' \subseteq open
    <2>1. PICK to, new : new \in Brings(s) /\ Executed(s, to, new)
      BY <1>4, <1>t, ExecutionsAreSettled
    <2>2. Stands(s, to) /\ Settled(s, new \cup CaseSuccessors(to))
      BY <2>1 DEF Executed
    <2>3. to = Stay
      BY <1>t, <2>2, WhereItStands DEF MayLeave, TerminalCases
    <2>4. CaseSuccessors(to) = {}
      BY <2>3, WorkflowAssumption DEF CaseSuccessors, CaseStates
    <2>5. new = {}
      <3>1. s.kind = "RECEIVE_CUSTOMER_REPLY" => s.track \in Tracks /\ s.ask \in Asks
        BY <1>t DEF LedgerTyped, About, PerReply
      <3>2. \A t \in Tracks, n \in Asks : request[t][n] \notin OpenApproval
        BY DEF IInv, Consented, Answerable, ResolvedIsFinished, Terminal
      <3> QED BY <2>1, <3>1, <3>2 DEF Brings
    <2> QED BY <2>2, <2>4, <2>5 DEF Settled
  <1> QED BY <1>1, <1>2, <1>3, <1>4, NextIs

LEMMA ResolvedIsFinishedStep ==
  ASSUME IInv, [Next]_vars
  PROVE  ResolvedIsFinished'
  <1>c. Recorded /\ CaseGoes /\ Amending'
    BY PromisesMove, CaseMoves, AmendingStep
  <1> SUFFICES ASSUME case' = "RESOLVED" PROVE ResolvedIsFinished'
    BY DEF ResolvedIsFinished
  <1>1. CASE case = "RESOLVED"
    <2>1. ASSUME NEW t \in Tracks PROVE track'[t] \in Terminal
      BY <1>1, <1>c, SettledStaysPut DEF IInv, ResolvedIsFinished
    <2>2. ASSUME NEW s \in open'
          PROVE  \/ s.kind \in Incidental
                 \/ Withdrawals' > 0 /\ s.kind \in {"FINALIZE_RECOVERY", "ABANDON_RECOVERY"}
      <3>1. CASE s \in open
        BY <1>1, <3>1, WithdrawalsStay DEF IInv, ResolvedIsFinished, Incidental
      <3>2. CASE s \notin open
        <4>1. Arrives(s)
          BY <1>1, <3>2, ResolvedBringsNothing
        <4>2. CASE Reported(s)
          <5>1. s.track \in Tracks
            BY <4>2, LedgerMoves DEF Reported, LedgerTyped, About, RecoveryWork
          <5> QED
            BY <1>1, <4>2, <5>1, WithdrawalsStay DEF Reported, IInv, ResolvedIsFinished
        <4> QED BY <4>1, <4>2 DEF Arrives
      <3> QED BY <3>1, <3>2
    <2>3. ASSUME NEW t \in Tracks, amendment'[t] = "QUEUED"
          PROVE  Withdrawals' > 0 /\ track'[t] = "ESCALATED"
      BY <1>c, <2>1, <2>3 DEF Amending, Terminal
    <2> QED BY <2>1, <2>2, <2>3 DEF ResolvedIsFinished, Incidental
  <1>2. CASE case # "RESOLVED"
    <2>1. open' = {} /\ \A t \in Tracks : track'[t] \in Terminal
      BY <1>2, <1>c DEF CaseGoes, Confirm
    <2>2. ASSUME NEW t \in Tracks, amendment'[t] = "QUEUED"
          PROVE  Withdrawals' > 0 /\ track'[t] = "ESCALATED"
      BY <1>c, <2>1, <2>2 DEF Amending, Terminal
    <2> QED BY <2>1, <2>2 DEF ResolvedIsFinished
  <1> QED BY <1>1, <1>2

LEMMA WithdrawnStaysStoppedStep ==
  ASSUME IInv, [Next]_vars
  PROVE  WithdrawnStaysStopped'
  <1>c. Recorded /\ CaseGoes /\ Remembers
    BY PromisesMove, CaseMoves, StepsRemember DEF IInv
  <1> SUFFICES ASSUME Withdrawals' > 0
               PROVE  /\ case' \in TerminalCases \cup {"RECONCILING"}
                      /\ ~planTimer'
                      /\ AllClosed'
    BY DEF WithdrawnStaysStopped, AllClosed, NotOpen
  <1>1. CASE ~(Withdrawals > 0)
    BY <1>1, AWithdrawalCloses DEF TerminalCases
  <1>2. CASE Withdrawals > 0
    <2>1. /\ case \in TerminalCases \cup {"RECONCILING"} /\ ~planTimer
          /\ \A t \in Tracks : track[t] \in Terminal /\ \A n \in Asks : request[t][n] \notin OpenApproval
      BY <1>2 DEF IInv, WithdrawnStaysStopped
    <2>2. ASSUME NEW t \in Tracks PROVE track'[t] \in Terminal /\ NotOpen(t)'
      <3>1. track'[t] \in Terminal
        BY <1>c, <2>1, SettledStaysPut
      <3>2. ~IsAsked(t)
        BY <2>1 DEF IsAsked, IsTakenUp, Terminal
      <3>3. \A n \in Asks : request'[t][n] \notin OpenApproval
        BY <1>c, <2>1, <3>2, OpenWasOpen
      <3> QED BY <3>1, <3>3 DEF NotOpen
    <2>3. case' \in TerminalCases \cup {"RECONCILING"}
      BY <1>c, <2>1, <2>2 DEF CaseGoes, Confirm, TerminalCases, Terminal
    <2>4. ~planTimer'
      BY <1>c, <2>1, <2>3 DEF Remembers, TerminalCases
    <2> QED BY <2>2, <2>3, <2>4 DEF AllClosed
  <1> QED BY <1>1, <1>2

\* Whoever hands a promise to the owner says so.
LEMMA EscalatedIsTold ==
  ASSUME IInv, [Next]_vars, NEW t \in Tracks, track'[t] = "ESCALATED", track[t] # "ESCALATED"
  PROVE  attention'
  <1>1. ~UNCHANGED vars /\ ~Around
    BY AroundLeavesThePromises DEF vars, promises
  <1>2. CASE Confirm
    <2>1. PICK escalate : /\ t \in escalate
                          /\ attention' = (attention \/ escalate # {})
      BY <1>2 DEF Confirm
    <2> QED BY <2>1
  <1>3. ASSUME NEW consequential \in BOOLEAN, NEW claimed \in ClaimedSteps,
               Withdraw(consequential, claimed)
        PROVE  attention'
    <2>1. consequential = TRUE
      BY <1>3 DEF Withdraw, Terminal
    <2> QED BY <1>3, <2>1 DEF Withdraw
  <1>4. ASSUME NEW s \in open, Execute(s) PROVE attention'
    <2>p. PromisesTyped
      BY DEF IInv, Typed
    <2>1. CASE UNCHANGED track
      BY <2>1
    <2>2. attention' = TRUE \/ UNCHANGED track
            \/ \E to \in TrackStates \ {"ESCALATED"} : track' = [track EXCEPT ![s.track] = to]
      BY <1>4
      DEF consent, SetTrack, TrackStates, Runnable, Terminal, Execute, EscalatePlan,
          RequestApproval, MarkApprovalSent, AbandonApproval, ExpireApproval, ReceiveReply,
          InterpretReply, Revalidate, Replan, ApplyRecovery, FinalizeRecovery, AbandonRecovery,
          ReconcileCase, Skip, GiveUp, Escalate, CloseRequest, RecordReply, RecordDecision,
          EscalateUnconfirmed, GoStale, RevalidationExpired, Proceed, NoAuthorityToConsume
    <2>3. ~\E to \in TrackStates \ {"ESCALATED"} : track' = [track EXCEPT ![s.track] = to]
      BY <2>p DEF PromisesTyped
    <2> QED BY <2>1, <2>2, <2>3
  <1> QED BY <1>1, <1>2, <1>3, <1>4, NextIs

LEMMA OwnerIsToldStep ==
  ASSUME IInv, [Next]_vars
  PROVE  OwnerIsTold'
  <1>1. ASSUME NEW t \in Tracks, track'[t] = "ESCALATED" PROVE attention \/ attention'
    BY <1>1, EscalatedIsTold DEF IInv, OwnerIsTold
  <1>2. ASSUME NEW t \in Tracks, amendment'[t] = "FAILED" PROVE attention \/ attention'
    BY <1>2, EffectsMove DEF AmendmentMoves, IInv, OwnerIsTold
  <1>3. ASSUME NEW t \in Tracks, NEW n \in Asks, message'[t][n] \in {"FAILED", "UNCERTAIN"}
        PROVE  attention \/ attention'
    BY <1>3, EffectsMove DEF MessageMoves, IInv, OwnerIsTold
  <1>4. attention => attention'
    BY StepsRemember DEF IInv, Remembers
  <1> QED BY <1>1, <1>2, <1>3, <1>4 DEF OwnerIsTold

-----------------------------------------------------------------------------
(* The theorems.                                                           *)

LEMMA InvariantInit == Init => IInv
  <1> SUFFICES ASSUME Init PROVE IInv
    OBVIOUS
  <1> USE DEF Init
  <1>1. IsFiniteSet({}) /\ Cardinality({}) = 0
    BY FS_EmptySet
  <1>2. Typed
    <2>1. CaseTyped
      BY DEF CaseTyped, CaseStates
    <2>2. LedgerTyped
      BY <1>1 DEF LedgerTyped
    <2>3. PromisesTyped
      BY WorkflowAssumption DEF PromisesTyped, TrackStates, Runnable, RequestStates
    <2>4. EffectsTyped
      BY DEF EffectsTyped
    <2> QED BY <2>1, <2>2, <2>3, <2>4 DEF Typed
  <1>3. ASSUME NEW t \in Tracks PROVE Asked(t) = {} /\ NextAsk(t) = 1
    <2>1. Asked(t) = {}
      BY DEF Asked
    <2>2. NextAsk(t) = Cardinality(Asked(t)) + 1
      BY DEF NextAsk, Asked
    <2> QED BY <1>1, <2>1, <2>2
  <1>4. Withdrawals = 0
    <2>1. {s \in done : s.kind = "WITHDRAW_EXCEPTION"} = {}
      OBVIOUS
    <2> QED BY <1>1, <2>1 DEF Withdrawals
  <1>5. Consented
    <2>1. AskedInTurn
      <3> HIDE DEF Init, NextAsk
      <3>1. 1 .. (1 - 1) = {}
        OBVIOUS
      <3> QED BY <1>3, <3>1 DEF AskedInTurn
    <2>2. Answerable /\ CarriedWasAsked
      BY DEF Answerable, OpenApproval, CarriedWasAsked
    <2> QED BY <2>1, <2>2 DEF Consented, AmendedWithConsent
  <1>6. Placed
    <2>1. ASSUME NEW t \in Tracks PROVE NextAsk(t) \in Asks
      <3> HIDE DEF Init, NextAsk
      <3> QED BY <1>3, WorkflowAssumption DEF Asks
    <2> HIDE DEF NextAsk
    <2> QED BY <2>1 DEF Placed, PendingIsPlanned, AskingIsNext, WaitingIsAsking
  <1>7. Timed /\ Amending
    BY DEF Timed, DeadlinesAreOfAsks, WaitsHaveDeadlines, OpenApproval, Amending
  <1>8. ResolvedIsFinished /\ OwnerIsTold
    BY DEF ResolvedIsFinished, OwnerIsTold
  <1>9. WithdrawnStaysStopped
    BY <1>4 DEF WithdrawnStaysStopped
  <1> QED BY <1>2, <1>5, <1>6, <1>7, <1>8, <1>9 DEF IInv

LEMMA Invariant == Spec => []IInv
  <1>1. IInv /\ [Next]_vars => IInv'
    BY TypedStep, ConsentedStep, PlacedStep, TimedStep, AmendingStep, ResolvedIsFinishedStep,
       WithdrawnStaysStoppedStep, OwnerIsToldStep
    DEF IInv
  <1> QED BY <1>1, InvariantInit, PTL DEF Spec

\* Cases, promises, requests, the ledger and the effects stay within the code's words.
THEOREM CaseWorkflowTyped == Spec => []TypeOK
  <1>1. IInv => TypeOK
    BY DEF IInv, Typed, CaseTyped, LedgerTyped, PromisesTyped, EffectsTyped, TypeOK
  <1> QED BY <1>1, Invariant, PTL

\* However late a reply, however many asks, re-plans, sweeps and withdrawals come between,
\* no order is amended without the rules alone or the carried request's own checked yes.
THEOREM NoAmendmentWithoutConsent == Spec => []AmendedWithConsent
  <1>1. IInv => AmendedWithConsent
    BY DEF IInv, Consented
  <1> QED BY <1>1, Invariant, PTL

\* An answer, an expiry or a dead letter only ever reaches the promise that awaits it.
THEOREM AnswersFindTheirPromise == Spec => []OpenRequestIsCarried
  <1>1. IInv => OpenRequestIsCarried
    BY DEF IInv, Consented, Answerable, OpenRequestIsCarried
  <1> QED BY <1>1, Invariant, PTL

\* A case never waits on nobody, nor without a deadline that ends the wait.
THEOREM NobodyWaitsInVain == Spec => []WaitingOnSomebody
  <1>1. IInv => WaitingOnSomebody
    <2> SUFFICES ASSUME IInv, case = "WAITING"
                 PROVE  \E t \in Tracks, n \in Asks :
                          /\ request[t][n] \in OpenApproval
                          /\ <<t, n>> \in armed \/ AskStep("EXPIRE_APPROVAL", t, n) \in open
      BY DEF WaitingOnSomebody
    <2>1. PICK t \in Tracks, n \in Asks : request[t][n] \in OpenApproval
      BY DEF IInv, Placed, WaitingIsAsking, HasOpenApproval
    <2>2. track[t] \in {"PENDING", "WAITING_FOR_CUSTOMER"}
      BY <2>1 DEF IInv, Consented, Answerable
    <2>3. track[t] # "PENDING"
      BY DEF IInv, Placed, PendingIsPlanned
    <2> QED BY <2>1, <2>2, <2>3 DEF IInv, Timed, WaitsHaveDeadlines
  <1> QED BY <1>1, Invariant, PTL

\* A case is resolved with every promise settled and nothing of its own left to do.
THEOREM ResolutionIsFinal == Spec => []ResolvedIsFinished
  <1>1. IInv => ResolvedIsFinished
    BY DEF IInv
  <1> QED BY <1>1, Invariant, PTL

\* No way of giving a promise to the owner leaves the owner unaware.
THEOREM OwnerAlwaysKnows == Spec => []OwnerIsTold
  <1>1. IInv => OwnerIsTold
    BY DEF IInv
  <1> QED BY <1>1, Invariant, PTL

\* After a withdrawal of a planned case nothing plans, asks or waits again, whatever was under way.
THEOREM WithdrawalIsFinal == Spec => []WithdrawnStaysStopped
  <1>1. IInv => WithdrawnStaysStopped
    BY DEF IInv
  <1> QED BY <1>1, Invariant, PTL

\* No step moves a settled promise or a finished case again.
THEOREM NothingSettledMoves == Spec => SettledStays
  <1>1. IInv /\ [Next]_vars =>
          [/\ \A t \in Tracks : track[t] \in Terminal => track'[t] = track[t]
           /\ case \in TerminalCases => case' = case]_vars
    <2> SUFFICES ASSUME IInv, [Next]_vars
                 PROVE  /\ \A t \in Tracks : track[t] \in Terminal => track'[t] = track[t]
                        /\ case \in TerminalCases => case' = case
      OBVIOUS
    <2>1. \A t \in Tracks : track[t] \in Terminal => track'[t] = track[t]
      BY PromisesMove, SettledStaysPut
    <2>2. case \in TerminalCases => case' = case
      BY CaseMoves DEF CaseGoes, Confirm, TerminalCases
    <2> QED BY <2>1, <2>2
  <1> QED BY <1>1, Invariant, PTL DEF Spec, SettledStays

=============================================================================
