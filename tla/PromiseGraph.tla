---------------------------- MODULE PromiseGraph ----------------------------
(***************************************************************************)
(* The engine of packages/promise-graph, as operators over a snapshot g:   *)
(* who is served out of what is there and what still comes (availability), *)
(* whom an exception leaves short (propagation), what may be done about it *)
(* (options, classification), what a plan watches (fingerprint) and check  *)
(* five of a revalidation.  An order is a promise of one line, and the     *)
(* recipe of a line needs one ingredient: all that is allocated.  Nothing  *)
(* is overdue and no task is done: the clock and the kitchen stay out.     *)
(*                                                                         *)
(*   g.hand[r]   the sum of the ledger, or Unknown                         *)
(*   g.posted[r] how many entries the ledger has for r                     *)
(*   g.line[l]   received_state of a commitment line                       *)
(*   g.pin[o]    the recipe version the line is pinned to, by the          *)
(*               ingredient it needs                                       *)
(*   g.quantity[o], g.version[o]  as the mirror has them                   *)
(***************************************************************************)
EXTENDS Integers, FiniteSets, FiniteSetsExt

CONSTANTS Orders,      \* by external id, which orders them: numbers
          Ingredients,
          Start,       \* the slot each order's production starts in, or Unknown
          Constraints, \* what each customer recorded; none at all is unknown
          Substitute,  \* the policy's substitute for an ingredient, or None
          Visible,     \* the ingredients whose substitution shows
          Lines,       \* lines of supplier commitments
          Commitment,  \* the commitment of each
          Due,         \* the slot it is due in
          Brings,      \* its ingredient
          Quantity,    \* how much, or Unknown
          Unknown,     \* NULL, and no start
          None         \* no substitute, no option, no plan

Kinds == {"NO_SUBSTITUTION", "PREAPPROVED_ALTERNATIVE", "ASK_BEFORE_VISIBLE_CHANGE",
          "EXCLUDE_RESOURCE"}

ASSUME GraphAssumption ==
    /\ Orders \subseteq Nat \ {0} /\ IsFiniteSet(Orders)
    /\ Start \in [Orders -> Nat \cup {Unknown}]
    /\ Constraints \in [Orders -> SUBSET Kinds]
    /\ Substitute \in [Ingredients -> Ingredients \cup {None}]
    /\ \A r \in Ingredients : Substitute[r] # r
    /\ Due \in [Lines -> Nat] /\ IsFiniteSet(Lines)
    /\ Brings \in [Lines -> Ingredients]
    /\ Quantity \in [Lines -> Nat \cup {Unknown}]
    /\ Unknown \notin Int /\ None \notin Ingredients

-----------------------------------------------------------------------------
(* Availability.                                                           *)

\* A claim on an ingredient.  The kinds order what one order claims twice, as the ids do
\* the code builds for them.
Rank == [candidate |-> 1, committed |-> 2, reserved |-> 3, recovered |-> 4, revalidate |-> 5]
Claim(o, need, kind) == [order |-> o, need |-> need, kind |-> kind]

\* What a line's pinned version needs: reservations are that and nothing else.
Reservation(g, o)  == Claim(o, g.quantity[o], "reserved")
Reservations(g, r) == {Reservation(g, o) : o \in {p \in Orders : g.pin[p] = r}}

OpenLines(g, r) == {l \in Lines : Brings[l] = r /\ g.line[l] = "EXPECTED"}

\* What f gives the elements of S, in all.
Total(f, S) == MapThenSumSet(LAMBDA x : f[x], S)

\* Neither the ledger, nor a claim, nor a delivery leaves a quantity or a time out.
Known(g, r, claims) ==
    /\ g.hand[r] # Unknown
    /\ \A c \in claims : Start[c.order] # Unknown
    /\ \A l \in OpenLines(g, r) : Quantity[l] # Unknown

\* _claim_sort_key
Before(c, d) ==
    \/ Start[c.order] < Start[d.order]
    \/ /\ Start[c.order] = Start[d.order]
       /\ c.order < d.order \/ (c.order = d.order /\ Rank[c.kind] < Rank[d.kind])

\* [mutant] a delivery counts whenever it comes.
SupplyWhenever(g, r, at) ==
    g.hand[r] + Total(Quantity, OpenLines(g, r))

\* What is there when a task starts: a delivery due later serves no earlier task.
Supply(g, r, at) ==
    g.hand[r] + Total(Quantity, {l \in OpenLines(g, r) : Due[l] <= at})

\* Each claim takes what the earlier ones left, and keeps a part if that is all.
Allocate(g, r, claims) ==
    LET take[c \in claims] ==
            LET left == Supply(g, r, Start[c.order])
                        - Total(take, {d \in claims : Before(d, c)})
            IN  IF left > 0 THEN Min({c.need, left}) ELSE 0
    IN  take

Served(g, r, claims, c) == Known(g, r, claims) /\ Allocate(g, r, claims)[c] = c.need

-----------------------------------------------------------------------------
(* Propagation: entry is the set of ingredients the exception names.       *)

Reached(g, entry) == {o \in Orders : g.pin[o] \in entry}

\* An unknown on the way leaves everyone it reaches unserved.
Affected(g, entry) ==
    {o \in Reached(g, entry) :
        ~Served(g, g.pin[o], Reservations(g, g.pin[o]), Reservation(g, o))}

\* priority_order: who starts first, and nobody knows when first of all.
Outranks(p, o) ==
    IF Start[p] = Start[o] THEN p < o
    ELSE Start[p] = Unknown \/ (Start[o] # Unknown /\ Start[p] < Start[o])

-----------------------------------------------------------------------------
(* Options and classification.                                             *)

\* The rule says the reason_detail too: one that has several is written as the detail.
Verdict(class, rule, option) == [class |-> class, rule |-> rule, option |-> option]

\* classify over _order_level_gate and _candidate_for: the first rule that applies, of a
\* promise whose outranking siblings have committed these claims on its substitute.
Classify(g, entry, o, committed) ==
    LET r          == g.pin[o]
        s          == Substitute[r]
        candidate  == Claim(o, g.quantity[o], "candidate")
        claims     == Reservations(g, s) \cup committed \cup {candidate}
        terms      == Constraints[o]
        blocked(rule) == Verdict("BLOCKED", rule, None)
        recovered(rule) == Verdict("AUTO_RECOVERABLE", rule, s)
        asked(rule)     == Verdict("APPROVAL_REQUIRED", rule, s)
    IN  IF r \notin entry THEN Verdict("UNAFFECTED", "R_UNREACH", None)
        ELSE IF o \notin Affected(g, entry) THEN Verdict("UNAFFECTED", "R_COVERED", None)
        ELSE IF ~Known(g, r, Reservations(g, r)) THEN blocked("R_UNKNOWN")
        ELSE IF {"PREAPPROVED_ALTERNATIVE", "EXCLUDE_RESOURCE"} \subseteq terms
             THEN blocked("R_CONFLICT")
        ELSE IF terms = {} THEN blocked("NO_CONSTRAINT_SNAPSHOT")
        ELSE IF "NO_SUBSTITUTION" \in terms THEN blocked("R_NOSUB")
        ELSE IF s = None THEN blocked("NO_PREAUTHORED_VARIANT")
        ELSE IF "EXCLUDE_RESOURCE" \in terms THEN blocked("R_EXCLUDED")
        ELSE IF ~Known(g, s, claims) THEN blocked("R_UNKNOWN")
        ELSE IF ~Served(g, s, claims, candidate) THEN blocked("R_SUBSTOCK")
        ELSE IF "PREAPPROVED_ALTERNATIVE" \in terms THEN recovered("R_PREAPPROVED")
        ELSE IF r \notin Visible THEN recovered("R_INVISIBLE_NOASK")
        ELSE IF "ASK_BEFORE_VISIBLE_CHANGE" \in terms THEN asked("R_VISIBLE_ASK")
        ELSE asked("R_NOT_PREAPPROVED")

\* [mutant] every promise is looked at as if it were the only one.
NothingCommitted(g, o, siblings, verdict) == {}

\* claims_for_option, of the siblings that chose this promise's substitute.
Committed(g, o, siblings, verdict) ==
    {Claim(p, g.quantity[p], "committed") :
        p \in {q \in siblings : /\ verdict[q].option # None
                                /\ verdict[q].option = Substitute[g.pin[o]]}}

\* analyze: in priority order, so that what one takes is not offered to the next.
Analysis(g, entry) ==
    LET affected == Affected(g, entry)
        verdict[o \in Orders] ==
            IF o \notin affected THEN Classify(g, entry, o, {})
            ELSE LET above == {p \in affected : Outranks(p, o)}
                 IN  Classify(g, entry, o,
                              Committed(g, o, above, [p \in above |-> verdict[p]]))
    IN  verdict

-----------------------------------------------------------------------------
(* Fingerprint and revalidation.                                           *)

\* scope_for: the ingredients a track's outcome is taken to depend on.
Scope(entry, v) == entry \cup ({v.option} \ {None})

\* fingerprint_input: the order's own rows, and of every scoped ingredient the position of
\* its ledger and the state of its lines; of other orders' reservations, nothing.
Fingerprint(g, o, scope) ==
    [version  |-> g.version[o],
     pin      |-> g.pin[o],
     quantity |-> g.quantity[o],
     supply   |-> [r \in scope |-> [at    |-> g.posted[r],
                                    lines |-> {<<l, g.line[l]>> :
                                                 l \in {k \in Lines : Brings[k] = r}}]]]

\* _substitute_check
StillAvailable(g, o, s, recovered) ==
    LET mine   == Claim(o, g.quantity[o], "revalidate")
        claims == Reservations(g, s) \cup recovered \cup {mine}
    IN  Served(g, s, claims, mine)
=============================================================================
