---------------------------- MODULE MCAssignment ----------------------------
(***************************************************************************)
(* A small instance of Assignment.  Neither of its services calls the other *)
(* one, so a behaviour exercises one part: dispatch under evidence that     *)
(* arrives in competing versions, dispatch raced by two threads, selection  *)
(* raced by two threads, or the ranking of three workers.  The variables of *)
(* the other parts stay as they are.                                        *)
(***************************************************************************)
EXTENDS Assignment, TLC

CONSTANTS
    c0, c1, c2,            \* threads
    x1, x2,                \* candidates; their streams are t1 and t2
    t1, t2, item, other,   \* streams and work items
    s1, s2,                \* scopes
    plan, bare,            \* one identifier; bare does not hold the work item
    chosen, late, alien,   \* selections; late rests on verdicts superseded or foreign
    ready, spoiled,        \* one identifier; spoiled is superseded
    fresh, foreign,        \* others: one lasts longer, one is of another scope
    lease, halted,         \* one identifier; halted is revoked
    loose, narrow,         \* unbounded; for other work
    b1, b2,                \* boundaries
    k1, k2, empty

MCStreamOf ==
    [s \in Streams |-> [scope |-> s1, planId |-> "P", item |-> item,
                        candidate |-> IF s = t1 THEN x1 ELSE x2]]

MCArtifactId ==
    [a \in Artifacts |->
        CASE a \in {plan, bare} -> "P"
          [] a = chosen -> "S1" [] a = late -> "S2" [] a = alien -> "S3"
          [] a \in {ready, spoiled} -> "R1" [] a = fresh -> "R2"
          [] a = foreign -> "R3"
          [] a \in {lease, halted} -> "L1" [] a = loose -> "L2" [] a = narrow -> "L3"]

MCPlanOf ==
    [p \in Plans |-> [scope |-> s1, items |-> IF p = plan THEN {item, other} ELSE {other}]]

MCSelectionOf ==
    [s \in Selections |->
        [scope |-> IF s = alien THEN s2 ELSE s1, plan |-> plan,
         boundary |-> IF s = late THEN b2 ELSE b1,
         readiness |-> IF s = late THEN (x1 :> <<spoiled>>) @@ (x2 :> <<foreign>>)
                       ELSE (x1 :> <<ready, fresh>>) @@ (x2 :> <<fresh>>)]]

MCReadinessOf ==
    [w \in Readiness |->
        [scope |-> IF w = foreign THEN s2 ELSE s1, expires |-> IF w = ready THEN 1 ELSE 2,
         superseded |-> w = spoiled]]

MCLeaseOf ==
    [l \in Leases |->
        [scope |-> s1, planId |-> "P", items |-> IF l = narrow THEN {other} ELSE {item},
         bounded |-> l # loose, effective |-> 1, expires |-> 2, revoked |-> l = halted]]

Offer(s, k, sel, l, at, v) ==
    [stream |-> s, key |-> k, plan |-> plan, selection |-> sel, lease |-> l,
     policy |-> "registered", boundary |-> SelectionOf[sel].boundary,
     at |-> at, expected |-> v]

\* Two keys, reused for other instants and at every version of the stream.
DispatchRaceRequests ==
    {Offer(t1, k, chosen, lease, at, v) : k \in {k1, k2}, at \in 1 .. 2, v \in 0 .. 2}

\* Every reason to deny, every way not to resolve, on two streams.
EvidenceRequests ==
    {Offer(s, k1, chosen, l, at, 0) : s \in {t1, t2}, l \in Leases, at \in 0 .. 3}
    \cup {Offer(t1, k1, s, lease, 1, 0) : s \in {late, alien}}
    \cup {Offer(t2, k1, late, lease, 1, 0)}
    \cup {[Offer(t1, k1, chosen, lease, 1, 0) EXCEPT !.boundary = b2],
          [Offer(t1, k1, chosen, lease, 1, 0) EXCEPT !.policy = "unregistered"],
          [Offer(t1, k1, chosen, lease, 1, 0) EXCEPT !.policy = "altered"],
          [Offer(t1, k1, chosen, lease, 1, 0) EXCEPT !.plan = bare]}

\* The artifacts and requests of the race for one stream.
RaceArtifacts == {plan, chosen, ready, fresh, lease}

MCRequests == EvidenceRequests \cup DispatchRaceRequests

-----------------------------------------------------------------------------

CONSTANTS w1, w2, gpu, fit, load, e1, e2, e3

MCWeights == (fit :> 8) @@ (load :> 1)

\* A worker that is eligible for anything at boundary 1.
Good(n) ==
    [worker |-> n, reference |-> CASE n = 1 -> e1 [] n = 2 -> e2 [] n = 3 -> e3,
     stream |-> w1, intact |-> TRUE, supported |-> TRUE, evaluated |-> 0, expires |-> 1,
     ready |-> TRUE, capabilities |-> {gpu}, policy |-> "pass", consistent |-> TRUE,
     scores |-> (fit :> 2)]

VARIABLES rank_streams, rank_byId, rank_idempotency, rank_call

\* What the instances take for the requests they do not make.
Policy == INSTANCE SelectionPolicy WITH
    Streams <- {w1, w2}, Capabilities <- {gpu}, Weights <- MCWeights, Unit <- 2, One <- 8,
    References <- {e1, e2, e3}

\* One request under two capability requirements, and one at another boundary,
\* when the evidence has expired.
MCSelRequests ==
    {Policy!SelectionRequest(w1, plan, required, <<Good(1), Good(2)>>, 1) :
        required \in {{}, {gpu}}}
    \cup {Policy!SelectionRequest(w1, plan, {}, <<Good(1), Good(2)>>, 2)}

\* Every way to exclude a worker.
Excluded(n) ==
    {[Good(n) EXCEPT !.stream = w2], [Good(n) EXCEPT !.intact = FALSE],
     [Good(n) EXCEPT !.supported = FALSE], [Good(n) EXCEPT !.expires = 0],
     [Good(n) EXCEPT !.ready = FALSE], [Good(n) EXCEPT !.capabilities = {}],
     [Good(n) EXCEPT !.policy = "unknown"], [Good(n) EXCEPT !.policy = "fail"],
     [Good(n) EXCEPT !.consistent = FALSE]}

\* Three workers whose scores meet, differ by less than rounding keeps, are
\* unknown or too large, with older and newer evidence; and workers excluded.
ScoreChoices == {(fit :> n) : n \in {3, 5}} \cup {(load :> n) : n \in {5, 6}}

RankRequests ==
    {Policy!SelectionRequest(w1, plan, {}, <<[Good(3) EXCEPT !.scores = s],
                                             [Good(1) EXCEPT !.scores = t, !.evaluated = a],
                                             [Good(2) EXCEPT !.scores = u]>>, 1) :
        s \in ScoreChoices \cup {(fit :> 9), (fit :> 3) @@ (load :> 7)}, t \in ScoreChoices,
        u \in ScoreChoices, a \in 0 .. 1}
    \cup {Policy!SelectionRequest(w1, plan, {gpu}, <<e, f>>, 1) :
        e \in Excluded(2) \cup {Good(2)}, f \in Excluded(1) \cup {Good(1)}}
    \cup {Policy!SelectionRequest(w1, plan, {gpu}, s, 1) :
        s \in {<<>>, <<Good(1), [Good(1) EXCEPT !.ready = FALSE]>>}}

Ranking == INSTANCE WorkerSelection WITH
    Streams <- {w1, w2}, Capabilities <- {gpu}, Weights <- MCWeights, Unit <- 2, One <- 8,
    References <- {e1, e2, e3}, Callers <- {c0}, Requests <- RankRequests,
    Keys <- {k1, empty}, EmptyKey <- empty, Versions <- {0},
    streams <- rank_streams, byId <- rank_byId, idempotency <- rank_idempotency,
    call <- rank_call

ASSUME RankingAssumption == Ranking!ServiceAssumption

-----------------------------------------------------------------------------

VARIABLE part      \* what this behaviour exercises

rank_vars == <<rank_streams, rank_byId, rank_idempotency, rank_call>>

InitParts ==
    /\ part \in {"evidence", "race", "selection", "ranking"}
    /\ Init /\ Sel!Init /\ Ranking!Init

\* The steps of DispatchDecision's Next that retain something of kept, and those of
\* one thread that makes no other requests than these.
Retaining(kept) ==
    \E kind \in {Plans, Selections, Readiness, Leases} :
       \E a \in kind \cap kept : Retain(kind, a)

Calling(c, requests) ==
    \/ \E r \in requests : Evaluate(c, r)
    \/ \E d \in byId : Reconstruct(c, d)
    \/ CallStep(c)

\* Evidence of every kind, and one call at a time.
EvidenceStep ==
    \/ Retaining(Artifacts)
    \/ \E c \in Callers :
          /\ \A d \in Callers \ {c} : call[d] = Idle
          /\ Calling(c, EvidenceRequests)

\* Two threads over one stream and sound evidence.
RaceStep ==
    \/ Retaining(RaceArtifacts)
    \/ \E c \in Callers : Calling(c, DispatchRaceRequests)

NextPart ==
    /\ \/ part = "evidence" /\ EvidenceStep /\ UNCHANGED <<sel_vars, rank_vars>>
       \/ part = "race" /\ RaceStep /\ UNCHANGED <<sel_vars, rank_vars>>
       \/ part = "selection" /\ Sel!Next /\ UNCHANGED <<vars, rank_vars>>
       \/ part = "ranking" /\ Ranking!Next /\ UNCHANGED <<vars, sel_vars>>
    /\ UNCHANGED part

SpecParts == InitParts /\ [][NextPart]_<<part, vars, sel_vars, rank_vars>>

\* Candidates are ranked by rounded total, then evaluation time, then worker
\* (WorkerSelectionEvaluator.evaluate).
RankingAsDocumented == Ranking!RankingAsDocumented

\* Threads are interchangeable.
CallerSymmetry == Permutations({c1, c2})
=============================================================================
