--------------------------- MODULE ExecutionLease ---------------------------
(***************************************************************************)
(* ExecutionLeaseService over InMemoryExecutionLeaseRepository, called by   *)
(* concurrent threads.  evaluate takes the repository lock four separate    *)
(* times (idempotency_record, history, idempotent, append) and reads the    *)
(* evidence sources in between: each is one action here, working on what    *)
(* the ones before it returned.  applicable and reconstruct read a snapshot *)
(* of the history.                                                          *)
(***************************************************************************)
EXTENDS LeasePolicy, FiniteSets

CONSTANTS
    Callers,       \* threads calling the service
    Requests,      \* the requests they may submit
    Times          \* the instants they may ask about

ASSUME RequestsAssumption == Requests \subseteq Request /\ Times \subseteq Nat

VARIABLES
    retained,      \* artifacts held by the two evidence sources
    streams,       \* _RepositoryState.streams
    byId,          \* _RepositoryState.by_id
    idempotency,   \* _RepositoryState.idempotency
    current,       \* _RepositoryState.current
    call           \* where each thread is in the service

vars == <<retained, streams, byId, idempotency, current, call>>

Outcome == {"Created", "ExistingEquivalent", "Reconstructed", "Applicable",
            "NotApplicable", "EvidenceUnavailable", "Invalid",
            "IdempotencyConflict", "VersionConflict", "IllegalTransition",
            "ReplayFailed", "ReconstructionFailed", "PersistenceFailure"}

\* A question to applicable: the lineage, the boundary and the instant.
Question == [lineage : Lineages, through : Nat, at : Nat]

ASSUME OutcomeAssumption == None \notin Outcome /\ None \notin Question

Frame(pc, request, event, outcome) ==
    [pc |-> pc, request |-> request, event |-> event, outcome |-> outcome,
     asked |-> None]

Idle == Frame("idle", None, None, None)

CallState == [pc : {"idle", "resolve", "load", "recheck", "append", "rebuild", "done"},
              request : Request \cup {None}, event : LeaseEvent \cup {None},
              outcome : Outcome \cup {None}, asked : Question \cup {None}]

Init ==
    /\ retained = {}
    /\ streams = [l \in Lineages |-> <<>>]
    /\ byId = {}
    /\ idempotency = [i \in Identities |-> None]
    /\ current = [l \in Lineages |-> None]
    /\ call = [c \in Callers |-> Idle]

Answer(c, outcome, event) ==
    call' = [call EXCEPT ![c] = Frame("done", call[c].request, event, outcome)]

Proceed(c, pc, event) ==
    call' = [call EXCEPT ![c] = Frame(pc, call[c].request, event, None)]

ReadOnly == UNCHANGED <<retained, streams, byId, idempotency, current>>

-----------------------------------------------------------------------------
(* Evidence sources                                                         *)

\* retain: immutable; an id already held keeps its value.
Retain(a) ==
    /\ retained' = retained \cup {a}
    /\ UNCHANGED <<streams, byId, idempotency, current, call>>

-----------------------------------------------------------------------------
(* evaluate                                                                 *)

\* Mutant: whatever was submitted under the identity is the answer.
Submit_AnyRequest(c, r) ==
    LET prior == idempotency[Identity(r)]
    IN  /\ call[c].pc = "idle"
        /\ call' = [call EXCEPT ![c] = Frame("resolve", r, prior, None)]
        /\ ReadOnly

\* repository.idempotency_record: a different request under the identity is a
\* conflict, the same one keeps the record it found.
Submit(c, r) ==
    LET prior == idempotency[Identity(r)]
    IN  /\ call[c].pc = "idle"
        /\ call' = [call EXCEPT ![c] =
                      IF prior # None /\ prior.request # r
                      THEN Frame("done", r, None, "IdempotencyConflict")
                      ELSE Frame("resolve", r, prior, None)]
        /\ ReadOnly

\* _resolve; then a record found by the lookup is the answer.
Resolve(c) ==
    LET resolution == Resolution(call[c].request, retained, byId)
    IN  /\ call[c].pc = "resolve"
        /\ \/ resolution # "Resolved" /\ Answer(c, resolution, None)
           \/ /\ resolution = "Resolved" /\ call[c].event # None
              /\ Answer(c, "ExistingEquivalent", call[c].event)
           \/ /\ resolution = "Resolved" /\ call[c].event = None
              /\ Proceed(c, "load", None)
        /\ ReadOnly

\* repository.history, then the replay and the decision on that snapshot.
LoadHistory(c) ==
    LET r == call[c].request
        history == streams[r.lineage]
        state == Replay(history)
    IN  /\ call[c].pc = "load"
        /\ CASE r.expected # Len(history) -> Answer(c, "VersionConflict", None)
             [] /\ r.expected = Len(history)
                /\ ~Replays(history, retained, byId) ->
                   Answer(c, "ReplayFailed", None)
             [] /\ r.expected = Len(history)
                /\ Replays(history, retained, byId) ->
                   IF Illegal(r, state) THEN Answer(c, "IllegalTransition", None)
                   ELSE IF Unwarranted(r, state) THEN Answer(c, "Invalid", None)
                   ELSE Proceed(c, "recheck", BuildEvent(r, state, r.expected))
        /\ ReadOnly

\* What a record already committed under the identity means to the event e.
Collide(c, prior, e) ==
    /\ prior # None
    /\ IF SameInput(prior, e) THEN Answer(c, "ExistingEquivalent", prior)
                              ELSE Answer(c, "IdempotencyConflict", None)

\* repository.idempotent, now that the generation is decided.
Recheck(c) ==
    LET e == call[c].event
        prior == idempotency[Identity(e.request)]
    IN  /\ call[c].pc = "recheck"
        /\ \/ Collide(c, prior, e)
           \/ prior = None /\ Proceed(c, "append", e)
        /\ ReadOnly

\* The guard of repository.append: nothing committed under this identity, the
\* lineage is still at the expected version, and the event id is new.
Appendable(e) ==
    /\ idempotency[Identity(e.request)] = None
    /\ e.request.expected = Len(streams[e.request.lineage])
    /\ e.version = e.request.expected + 1
    /\ e \notin byId

\* Mutant: the current pointer follows grants only.
Commit_PointerLags(e) ==
    LET l == e.request.lineage
    IN  /\ streams' = [streams EXCEPT ![l] = Append(@, e)]
        /\ byId' = byId \cup {e}
        /\ idempotency' = [idempotency EXCEPT ![Identity(e.request)] = e]
        /\ current' = [current EXCEPT ![l] = IF e.type = "RENEWED" THEN @ ELSE e]

\* _commit_state: the four indexes change together.
Commit(e) ==
    LET l == e.request.lineage
    IN  /\ streams' = [streams EXCEPT ![l] = Append(@, e)]
        /\ byId' = byId \cup {e}
        /\ idempotency' = [idempotency EXCEPT ![Identity(e.request)] = e]
        /\ current' = [current EXCEPT ![l] = e]

\* repository.append, published.
AppendEvent(c) ==
    LET e == call[c].event
    IN  /\ call[c].pc = "append"
        /\ Appendable(e)
        /\ Commit(e)
        /\ Answer(c, "Created", e)
        /\ UNCHANGED retained

\* _commit_state raises: the replacement is dropped, nothing is published.
CommitFails(c) ==
    /\ call[c].pc = "append"
    /\ Appendable(call[c].event)
    /\ Answer(c, "PersistenceFailure", None)
    /\ ReadOnly

\* append finds another thread's commit: an equivalent one is the answer, a
\* different one under the same identity or version is a conflict.
AppendLoses(c) ==
    LET e == call[c].event
        prior == idempotency[Identity(e.request)]
    IN  /\ call[c].pc = "append"
        /\ \/ Collide(c, prior, e)
           \/ /\ prior = None
              /\ e.request.expected # Len(streams[e.request.lineage])
              /\ Answer(c, "VersionConflict", None)
        /\ ReadOnly

-----------------------------------------------------------------------------
(* reconstruct and applicable                                               *)

\* repository.record(event_id), for an id some thread was given.
Reconstruct(c, e) ==
    /\ call[c].pc = "idle"
    /\ e \in byId
    /\ call' = [call EXCEPT ![c] = Frame("rebuild", None, e, None)]
    /\ ReadOnly

\* repository.history, and the replay of all of it.
Rebuild(c) ==
    LET e == call[c].event
        history == streams[e.request.lineage]
    IN  /\ call[c].pc = "rebuild"
        /\ Answer(c, IF ~Replays(history, retained, byId) THEN "ReplayFailed"
                     ELSE IF \E i \in DOMAIN history : history[i] = e
                     THEN "Reconstructed" ELSE "ReconstructionFailed", e)
        /\ ReadOnly

\* Mutant: the boundary is ignored, the current authority answers.
Verdict_Latest(history, n, t) ==
    IF n > Len(history) THEN "ReconstructionFailed"
    ELSE IF ~Replays(history, retained, byId) THEN "ReplayFailed"
    ELSE IF Applicable(Replay(history), t) THEN "Applicable" ELSE "NotApplicable"

\* applicable, on the first n events of a history.
Verdict(history, n, t) ==
    LET prefix == SubSeq(history, 1, n)
    IN  IF n > Len(history) THEN "ReconstructionFailed"
        ELSE IF ~Replays(prefix, retained, byId) THEN "ReplayFailed"
        ELSE IF Applicable(Replay(prefix), t) THEN "Applicable" ELSE "NotApplicable"

\* applicable reads the history once; no through_version means all of it.
Ask(c, l, n, t) ==
    /\ call[c].pc = "idle"
    /\ call' = [call EXCEPT ![c] =
                  [Frame("done", None, None, Verdict(streams[l], n, t))
                     EXCEPT !.asked = [lineage |-> l, through |-> n, at |-> t]]]
    /\ ReadOnly

AskNow(c, l, t) == Ask(c, l, Len(streams[l]), t)

AskThrough(c, l, n, t) == n >= 1 /\ Ask(c, l, n, t)

\* The call returns or raises to its caller, which may call again.
Return(c) ==
    /\ call[c].pc = "done"
    /\ call' = [call EXCEPT ![c] = Idle]
    /\ ReadOnly

-----------------------------------------------------------------------------

CallStep(c) ==
    \/ Resolve(c)
    \/ LoadHistory(c)
    \/ Recheck(c)
    \/ AppendEvent(c)
    \/ CommitFails(c)
    \/ AppendLoses(c)
    \/ Rebuild(c)
    \/ Return(c)

Next ==
    \/ \E a \in Authorizations \cup Revocations : Retain(a)
    \/ \E c \in Callers : \E r \in Requests : Submit(c, r)
    \/ \E c \in Callers : \E e \in byId : Reconstruct(c, e)
    \/ \E c \in Callers : \E l \in Lineages : \E t \in Times :
          \/ AskNow(c, l, t)
          \/ \E n \in 1 .. Len(streams[l]) + 1 : AskThrough(c, l, n, t)
    \/ \E c \in Callers : CallStep(c)

Spec == Init /\ [][Next]_vars

-----------------------------------------------------------------------------
(* Properties                                                               *)

\* The types of the state.
TypeOK ==
    /\ retained \subseteq Authorizations \cup Revocations
    /\ streams \in [Lineages -> Seq(LeaseEvent)]
    /\ byId \subseteq LeaseEvent
    /\ idempotency \in [Identities -> LeaseEvent \cup {None}]
    /\ current \in [Lineages -> LeaseEvent \cup {None}]
    /\ call \in [Callers -> CallState]

\* Atomic publication: the four indexes of the repository always describe the
\* same committed events, whoever commits or fails to, and in a stream each
\* event sits at its own lineage version.
IndexesAgree ==
    /\ byId = UNION {{streams[l][i] : i \in DOMAIN streams[l]} : l \in Lineages}
    /\ \A l \in Lineages : \A i \in DOMAIN streams[l] :
          /\ Ref(streams[l][i]) = <<l, i>>
          /\ streams[l][i].request.expected = i - 1
    /\ \A e \in byId : idempotency[Identity(e.request)] = e
    /\ \A i \in Identities : idempotency[i] # None =>
          idempotency[i] \in byId /\ Identity(idempotency[i].request) = i
    /\ \A l \in Lineages :
          current[l] = IF streams[l] = <<>> THEN None ELSE streams[l][Len(streams[l])]

\* What a caller is told stays true: an event answered to it is committed and
\* answers its own request, and no two callers both created it.
AnswersAreCommitted ==
    /\ \A c \in Callers :
          call[c].outcome \in {"Created", "ExistingEquivalent"} =>
             call[c].event \in byId /\ call[c].event.request = call[c].request
    /\ \A c, d \in Callers :
          c # d /\ call[c].outcome = "Created" /\ call[d].outcome = "Created" =>
             call[c].event # call[d].event

\* Every history the service can commit replays: no interleaving of stale
\* writers leaves a lineage that _replay, reconstruct or applicable refuses.
HistoriesReplay ==
    /\ \A l \in Lineages : Replays(streams[l], retained, byId)
    /\ \A c \in Callers :
          /\ call[c].outcome # "ReplayFailed"
          /\ call[c].asked = None => call[c].outcome # "ReconstructionFailed"

\* Least authority: along a generation permissions only narrow, no event gives
\* more than the authorization behind it, consecutive events never rest on one
\* authorization, and neither the authority's start nor the moment it was
\* examined runs backwards.
AuthorityIsBounded ==
    \A l \in Lineages : LET h == streams[l] IN
       /\ \A j \in DOMAIN h :
             LET r == h[j].request
                 a == AuthorizationOf[r.authorization]
             IN  /\ r.permissions # {} /\ r.permissions \subseteq a.ceiling
                 /\ a.effective <= r.effective /\ r.expires <= a.expires
                 /\ a.effective <= r.at /\ r.at < a.expires
       /\ \A i, j \in DOMAIN h : i < j =>
             /\ h[i].generation = h[j].generation =>
                   h[j].request.permissions \subseteq h[i].request.permissions
             /\ h[i].request.effective <= h[j].request.effective
             /\ h[i].request.at <= h[j].request.at
             /\ j = i + 1 => h[i].request.authorization # h[j].request.authorization

\* One lineage, one chain: the first event grants, every later one names the
\* event before it, and the generation counts the supersessions so far, each
\* of which names the lease it replaced.
GenerationsChain ==
    \A l \in Lineages : LET h == streams[l] IN
       \A j \in DOMAIN h :
          /\ (h[j].type = "GRANTED") <=> (j = 1)
          /\ h[j].request.prior = IF j = 1 THEN None ELSE <<l, j - 1>>
          /\ h[j].generation =
                1 + Cardinality({i \in 1 .. j : h[i].type = "SUPERSEDED"})
          /\ h[j].superseded =
                IF h[j].type = "SUPERSEDED" THEN h[j - 1].generation ELSE 0

\* The repository holds one chain of events per lineage and all its indexes
\* describe that chain (InMemoryExecutionLeaseRepository.append).
OneLineage == TypeOK /\ IndexesAgree /\ GenerationsChain

\* Revocation fails closed: whatever directive is retained, and whatever it
\* targets, no revocation is committed and no caller is told of one.
RevocationFailsClosed ==
    /\ \A e \in byId : e.type # "REVOKED" /\ e.request.revocation = None
    /\ \A c \in Callers : call[c].request # None =>
          (call[c].request.operation = "REVOKE" =>
             call[c].outcome \notin {"Created", "ExistingEquivalent"})

\* A boundary, once answered for, stays answered: whatever is committed since,
\* a caller told that authority applied can point at the event that carries it,
\* with its instant inside the event's half-open period.
BoundariesStayDecided ==
    \A c \in Callers : call[c].outcome \in {"Applicable", "NotApplicable"} =>
       LET q == call[c].asked
           h == streams[q.lineage]
       IN  /\ q.through \in 0 .. Len(h)
           /\ (call[c].outcome = "Applicable") <=>
                 /\ q.through # 0
                 /\ q.at \in h[q.through].request.effective
                              .. (h[q.through].request.expires - 1)

\* As documented and tested, equivalent retries converge: a call whose request
\* is already committed when it meets its answer is given that event, and is
\* not turned away as a stale writer.
EquivalentRetriesConverge ==
    [][ \A c \in Callers :
          call[c].pc \in {"resolve", "load", "recheck", "append"} =>
             LET prior == idempotency[Identity(call[c].request)]
             IN  prior # None /\ prior.request = call[c].request =>
                    call'[c].outcome # "VersionConflict" ]_vars

-----------------------------------------------------------------------------
(* The authority the histories implement                                    *)

\* The authority a history stands for, read off its last event.
AuthorityOf(h) ==
    IF h = <<>>
    THEN [generation |-> 0, evidence |-> None, permissions |-> {},
          from |-> 0, until |-> 0, clock |-> 0]
    ELSE LET r == h[Len(h)].request
         IN  [generation  |-> 1 + Cardinality({i \in DOMAIN h : h[i].type = "SUPERSEDED"}),
              evidence    |-> r.authorization,
              permissions |-> r.permissions,
              from        |-> r.effective,
              until       |-> r.expires,
              clock       |-> r.at]

Authority == INSTANCE LeaseAuthority WITH
                authority <- [l \in Lineages |-> AuthorityOf(streams[l])]

\* The lineages behave as the abstract authority: every commit is one of its
\* steps, decided from its current state and not from a stale one.
ImplementsAuthority == Authority!Spec
=============================================================================
