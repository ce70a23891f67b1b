------------------------------ MODULE WorkClaim ------------------------------
(***************************************************************************)
(* WorkClaimService over InMemoryWorkClaimRepository, called by concurrent  *)
(* threads.  evaluate takes the repository lock three separate times        *)
(* (idempotent, history, append): each is one action here, and what it      *)
(* computes between them works on the snapshot it took.  The repository     *)
(* publishes a commit by replacing one immutable state object.              *)
(***************************************************************************)
EXTENDS ClaimPolicy, FiniteSets

CONSTANTS
    Callers,       \* threads calling the service
    Requests       \* the requests they may submit

ASSUME RequestsAssumption == Requests \subseteq Request

VARIABLES
    retained,      \* artifacts held by the two evidence sources
    streams,       \* _RepositoryState.streams
    byId,          \* _RepositoryState.by_id
    idempotency,   \* _RepositoryState.idempotency
    current,       \* _RepositoryState.current
    call           \* where each thread is in evaluate or reconstruct

repository == <<streams, byId, idempotency, current>>
vars == <<retained, streams, byId, idempotency, current, call>>

Outcome == {"Created", "ExistingEquivalent", "Reconstructed",
            "EvidenceUnavailable", "Invalid", "IdempotencyConflict",
            "VersionConflict", "IllegalTransition", "ReplayFailed",
            "ReconstructionFailed", "PersistenceFailure"}

ASSUME OutcomeAssumption == None \notin Outcome

Frame(pc, request, event, outcome) ==
    [pc |-> pc, request |-> request, event |-> event, outcome |-> outcome]

Idle == Frame("idle", None, None, None)

CallState == [pc : {"idle", "lookup", "load", "append", "rebuild", "done"},
              request : Request \cup {None}, event : ClaimEvent \cup {None},
              outcome : Outcome \cup {None}]

Init ==
    /\ retained = {}
    /\ streams = [l \in Lineages |-> <<>>]
    /\ byId = {}
    /\ idempotency = [i \in Identities |-> None]
    /\ current = [l \in Lineages |-> None]
    /\ call = [c \in Callers |-> Idle]

-----------------------------------------------------------------------------
(* Evidence sources                                                         *)

\* retain: validated and immutable.  An unapproved decision is refused, and
\* an id already held keeps its value.
Retain(a) ==
    /\ a \in Dispatches => DispatchOf[a].approved
    /\ retained' = retained \cup {a}
    /\ UNCHANGED <<streams, byId, idempotency, current, call>>

-----------------------------------------------------------------------------
(* evaluate                                                                 *)

Answer(c, outcome, event) ==
    call' = [call EXCEPT ![c] = Frame("done", call[c].request, event, outcome)]

\* _resolve: scoped lookups, then the applicability checks.
Submit(c, r) ==
    /\ call[c].pc = "idle"
    /\ call' = [call EXCEPT ![c] =
                  IF ~Found(r, retained) THEN Frame("done", r, None, "EvidenceUnavailable")
                  ELSE IF ~Applicable(r) THEN Frame("done", r, None, "Invalid")
                  ELSE Frame("lookup", r, None, None)]
    /\ UNCHANGED <<retained, streams, byId, idempotency, current>>

\* Mutant: any earlier submission under the identity is the answer.
IdempotentLookup_AnyInput(c) ==
    LET r == call[c].request
        prior == idempotency[Identity(r)]
    IN  /\ call[c].pc = "lookup"
        /\ \/ /\ prior = None
              /\ call' = [call EXCEPT ![c] = Frame("load", r, None, None)]
           \/ /\ prior # None
              /\ Answer(c, "ExistingEquivalent", prior)
        /\ UNCHANGED <<retained, streams, byId, idempotency, current>>

\* repository.idempotent
IdempotentLookup(c) ==
    LET r == call[c].request
        prior == idempotency[Identity(r)]
    IN  /\ call[c].pc = "lookup"
        /\ \/ /\ prior = None
              /\ call' = [call EXCEPT ![c] = Frame("load", r, None, None)]
           \/ /\ prior # None
              /\ Input(prior.request) = Input(r)
              /\ Answer(c, "ExistingEquivalent", prior)
           \/ /\ prior # None
              /\ Input(prior.request) # Input(r)
              /\ Answer(c, "IdempotencyConflict", None)
        /\ UNCHANGED <<retained, streams, byId, idempotency, current>>

\* repository.history, then the replay and the decision on that snapshot.
LoadHistory(c) ==
    LET r == call[c].request
        history == streams[r.lineage]
        state == Replay(history)
    IN  /\ call[c].pc = "load"
        /\ \/ /\ r.expected # Len(history)
              /\ Answer(c, "VersionConflict", None)
           \/ /\ r.expected = Len(history)
              /\ ~(state.ok /\ EvidenceHolds(history, retained))
              /\ Answer(c, "ReplayFailed", None)
           \/ /\ r.expected = Len(history)
              /\ state.ok /\ EvidenceHolds(history, retained)
              /\ ~Legal(r, state)
              /\ Answer(c, "IllegalTransition", None)
           \/ /\ r.expected = Len(history)
              /\ state.ok /\ EvidenceHolds(history, retained)
              /\ Legal(r, state)
              /\ call' = [call EXCEPT ![c] =
                            Frame("append", r, BuildEvent(r, state, r.expected), None)]
        /\ UNCHANGED <<retained, streams, byId, idempotency, current>>

\* Mutant: the append does not compare versions again under the lock.
Appendable_NoVersionCheck(e) ==
    /\ idempotency[Identity(e.request)] = None
    /\ e.version = e.request.expected + 1
    /\ e \notin byId

\* The guard of repository.append: nothing committed under this identity, the
\* lineage is still at the expected version, and the event id is new.
Appendable(e) ==
    /\ idempotency[Identity(e.request)] = None
    /\ e.request.expected = Len(streams[e.request.lineage])
    /\ e.version = e.request.expected + 1
    /\ e \notin byId

\* _commit_state: the four indexes change together.
Commit(e) ==
    LET r == e.request
    IN  /\ streams' = [streams EXCEPT ![r.lineage] = Append(@, e)]
        /\ byId' = byId \cup {e}
        /\ idempotency' = [idempotency EXCEPT ![Identity(r)] = e]
        /\ current' = [current EXCEPT ![r.lineage] = e]

\* Mutant: the last writer wins, over the history it had read.
AppendEvent_LastWriteWins(c) ==
    LET e == call[c].event
        l == e.request.lineage
    IN  /\ call[c].pc = "append"
        /\ streams' = [streams EXCEPT ![l] = Append(SubSeq(@, 1, e.version - 1), e)]
        /\ byId' = byId \cup {e}
        /\ idempotency' = [idempotency EXCEPT ![Identity(e.request)] = e]
        /\ current' = [current EXCEPT ![l] = e]
        /\ Answer(c, "Created", e)
        /\ UNCHANGED retained

AppendEvent(c) ==
    LET e == call[c].event
    IN  /\ call[c].pc = "append"
        /\ Appendable(e)
        /\ Commit(e)
        /\ Answer(c, "Created", e)
        /\ UNCHANGED retained

\* Mutant: the publication fails with the streams already replaced.
CommitFails_HalfPublished(c) ==
    LET e == call[c].event
    IN  /\ call[c].pc = "append"
        /\ Appendable(e)
        /\ streams' = [streams EXCEPT ![e.request.lineage] = Append(@, e)]
        /\ Answer(c, "PersistenceFailure", None)
        /\ UNCHANGED <<retained, byId, idempotency, current>>

\* _commit_state raises: the replacement is dropped, nothing is published.
CommitFails(c) ==
    /\ call[c].pc = "append"
    /\ Appendable(call[c].event)
    /\ Answer(c, "PersistenceFailure", None)
    /\ UNCHANGED <<retained, streams, byId, idempotency, current>>

\* Mutant: a stale writer tries the same append again instead of failing.
AppendLoses_RetriesInPlace(c) ==
    LET e == call[c].event
        prior == idempotency[Identity(e.request)]
    IN  /\ call[c].pc = "append"
        /\ \/ /\ prior # None
              /\ Input(prior.request) = Input(e.request)
              /\ Answer(c, "ExistingEquivalent", prior)
           \/ /\ prior # None
              /\ Input(prior.request) # Input(e.request)
              /\ Answer(c, "IdempotencyConflict", None)
           \/ /\ prior = None
              /\ e.request.expected # Len(streams[e.request.lineage])
              /\ UNCHANGED call
        /\ UNCHANGED <<retained, streams, byId, idempotency, current>>

\* append finds another thread's commit: an equivalent one is the answer, a
\* different one under the same identity or version is a conflict.
AppendLoses(c) ==
    LET e == call[c].event
        prior == idempotency[Identity(e.request)]
    IN  /\ call[c].pc = "append"
        /\ \/ /\ prior # None
              /\ Input(prior.request) = Input(e.request)
              /\ Answer(c, "ExistingEquivalent", prior)
           \/ /\ prior # None
              /\ Input(prior.request) # Input(e.request)
              /\ Answer(c, "IdempotencyConflict", None)
           \/ /\ prior = None
              /\ e.request.expected # Len(streams[e.request.lineage])
              /\ Answer(c, "VersionConflict", None)
        /\ UNCHANGED <<retained, streams, byId, idempotency, current>>

-----------------------------------------------------------------------------
(* reconstruct                                                              *)

\* repository.record(event_id), for an id some thread was given.
Reconstruct(c, e) ==
    /\ call[c].pc = "idle"
    /\ e \in byId
    /\ call' = [call EXCEPT ![c] = Frame("rebuild", None, e, None)]
    /\ UNCHANGED <<retained, streams, byId, idempotency, current>>

\* repository.history, and the replay of all of it.
Rebuild(c) ==
    LET e == call[c].event
        history == streams[e.request.lineage]
    IN  /\ call[c].pc = "rebuild"
        /\ \/ /\ ~(Replay(history).ok /\ EvidenceHolds(history, retained))
              /\ Answer(c, "ReplayFailed", e)
           \/ /\ Replay(history).ok /\ EvidenceHolds(history, retained)
              /\ \E i \in DOMAIN history : history[i] = e
              /\ Answer(c, "Reconstructed", e)
           \/ /\ Replay(history).ok /\ EvidenceHolds(history, retained)
              /\ \A i \in DOMAIN history : history[i] # e
              /\ Answer(c, "ReconstructionFailed", e)
        /\ UNCHANGED <<retained, streams, byId, idempotency, current>>

\* The call returns or raises to its caller, which may call again.
Return(c) ==
    /\ call[c].pc = "done"
    /\ call' = [call EXCEPT ![c] = Idle]
    /\ UNCHANGED <<retained, streams, byId, idempotency, current>>

-----------------------------------------------------------------------------

CallStep(c) ==
    \/ IdempotentLookup(c)
    \/ LoadHistory(c)
    \/ AppendEvent(c)
    \/ CommitFails(c)
    \/ AppendLoses(c)
    \/ Rebuild(c)
    \/ Return(c)

Next ==
    \/ \E a \in Dispatches \cup Evidence : Retain(a)
    \/ \E c \in Callers : \E r \in Requests : Submit(c, r)
    \/ \E c \in Callers : \E e \in byId : Reconstruct(c, e)
    \/ \E c \in Callers : CallStep(c)

\* A thread inside the service keeps running; nobody has to call it.
Fairness == \A c \in Callers : WF_vars(CallStep(c))

Spec == Init /\ [][Next]_vars

FairSpec == Spec /\ Fairness

-----------------------------------------------------------------------------
(* Properties                                                               *)

\* The types of the state, the lineage a stream belongs to included.
TypeOK ==
    /\ retained \subseteq Dispatches \cup Evidence
    /\ streams \in [Lineages -> Seq(ClaimEvent)]
    /\ byId \subseteq ClaimEvent
    /\ idempotency \in [Identities -> ClaimEvent \cup {None}]
    /\ current \in [Lineages -> ClaimEvent \cup {None}]
    /\ call \in [Callers -> CallState]

\* Atomic publication: the four indexes of the repository always describe the
\* same committed events, whoever commits or fails to, and in a stream each
\* event sits at its own lineage version.
IndexesAgree ==
    /\ byId = UNION {{streams[l][i] : i \in DOMAIN streams[l]} : l \in Lineages}
    /\ \A l \in Lineages : \A i \in DOMAIN streams[l] :
          /\ streams[l][i].request.lineage = l
          /\ streams[l][i].version = i
          /\ streams[l][i].request.expected = i - 1
    /\ \A e \in byId : idempotency[Identity(e.request)] = e
    /\ \A i \in Identities : idempotency[i] # None =>
          idempotency[i] \in byId /\ Identity(idempotency[i].request) = i
    /\ \A l \in Lineages :
          current[l] = IF streams[l] = <<>> THEN None ELSE streams[l][Len(streams[l])]

\* What a caller is told stays true: an event answered to it is committed, it
\* answers the caller's own identity and canonical input, and no two callers
\* are both told that they created it.
AnswersAreCommitted ==
    /\ \A c \in Callers :
          call[c].outcome \in {"Created", "ExistingEquivalent"} =>
             /\ call[c].event \in byId
             /\ Identity(call[c].event.request) = Identity(call[c].request)
             /\ Input(call[c].event.request) = Input(call[c].request)
    /\ \A c, d \in Callers :
          c # d /\ call[c].outcome = "Created" /\ call[d].outcome = "Created" =>
             call[c].event # call[d].event

\* Every history the service can commit replays: no interleaving of stale
\* writers leaves a lineage that _replay or reconstruct would refuse.
HistoriesReplay ==
    /\ \A l \in Lineages :
          Replay(streams[l]).ok /\ EvidenceHolds(streams[l], retained)
    /\ \A c \in Callers :
          call[c].outcome \notin {"ReplayFailed", "ReconstructionFailed"}

Accepted(h) == {i \in DOMAIN h : h[i].type = "CLAIM_ACCEPTED"}

\* h[k] ended the claim h[i], by right: its holder released it, or its time
\* had run out.
Ends(h, k, i) ==
    /\ h[k].causal = h[i].version
    /\ \/ /\ h[k].type = "CLAIM_RELEASED"
          /\ Claimant(h[k].request) = Claimant(h[i].request)
       \/ /\ h[k].type = "CLAIM_EXPIRED"
          /\ h[k].request.at >= ExpiresAt(h[i])

\* Exclusive bounded acceptance: between two accepted claims of a work item
\* the first one ended, before the second in semantic time too.
ClaimsExclude ==
    \A l \in Lineages : LET h == streams[l] IN
       \A i, j \in Accepted(h) : i < j =>
          \E k \in (i + 1) .. (j - 1) :
             Ends(h, k, i) /\ h[k].request.at <= h[j].request.at

\* The fence is the ordinal of the acceptance in the whole lineage: no other
\* event has one, none is skipped or reused, whatever the generations.
FencesCountAcceptances ==
    \A l \in Lineages : LET h == streams[l] IN
       \A j \in DOMAIN h :
          h[j].fence = IF j \in Accepted(h)
                       THEN Cardinality({i \in Accepted(h) : i <= j}) ELSE 0

\* Generations are consecutive, and each later one is caused by the expiry or
\* the release that ended the one before it.
GenerationsChain ==
    \A l \in Lineages : LET h == streams[l] IN
       \A j \in DOMAIN h :
          /\ h[j].generation =
                Cardinality({i \in 1 .. j : h[i].type = "GENERATION_CREATED"})
          /\ h[j].type = "GENERATION_CREATED" /\ j > 1 =>
                /\ h[j].causal = j - 1
                /\ h[j - 1].type \in {"CLAIM_EXPIRED", "CLAIM_RELEASED"}

\* ADR 0012's canonical idempotency scope: two submissions share it only if
\* dispatch, claimant evidence and semantic time agree as well as the key.
DocumentedScope(r) == [r EXCEPT !.expected = None]

\* As documented, reusing a key is a conflict only inside that scope; another
\* claimant's, decision's or instant's use of the key is a claim of its own.
ConflictsStayInScope ==
    \A c \in Callers : call[c].outcome = "IdempotencyConflict" =>
       \E e \in byId : DocumentedScope(e.request) = DocumentedScope(call[c].request)

\* As documented, equivalent retries converge: a call whose own identity and
\* input are committed when it meets its answer is given that event, and is
\* not turned away as a stale writer of another input.
\* Not so of this code: README, Divergences.
EquivalentRetriesConverge ==
    [][ \A c \in Callers :
          call[c].pc \in {"lookup", "load", "append"} =>
             LET prior == idempotency[Identity(call[c].request)]
             IN  prior # None /\ Input(prior.request) = Input(call[c].request) =>
                    call'[c].outcome # "VersionConflict" ]_vars

\* History is append-only: a step adds at most one event to one lineage and
\* replaces nothing another caller may already have been given.
AppendOnly ==
    [][ /\ \A l \in Lineages :
              streams'[l] = streams[l]
              \/ \E e \in byId' : streams'[l] = Append(streams[l], e)
        /\ Cardinality(byId' \ byId) <= 1
        /\ retained \subseteq retained'
        /\ \A i \in Identities :
              idempotency[i] # None => idempotency'[i] = idempotency[i] ]_vars

\* Every call that enters the service comes back to its caller.
CallsReturn == \A c \in Callers : call[c].pc # "idle" ~> call[c].pc = "idle"

-----------------------------------------------------------------------------
(* The register the histories implement                                     *)

\* The version of the last event of one of these types, 0 if there is none.
LastOf(h, types) ==
    LET found == {i \in DOMAIN h : h[i].type \in types}
    IN  IF found = {} THEN 0 ELSE CHOOSE i \in found : \A j \in found : j <= i

\* The register a history stands for, read off its events without a replay.
RegisterOf(h) ==
    LET opened == LastOf(h, {"GENERATION_CREATED"})
        ended  == LastOf(h, {"CLAIM_EXPIRED", "CLAIM_RELEASED"})
        claim  == LastOf(h, {"CLAIM_ACCEPTED"})
        held   == claim > opened /\ claim > ended
    IN  [generation |-> Cardinality({i \in DOMAIN h : h[i].type = "GENERATION_CREATED"}),
         open       |-> opened > ended,
         holder     |-> IF held THEN Claimant(h[claim].request) ELSE None,
         releaser   |-> IF ended > opened /\ h[ended].type = "CLAIM_RELEASED"
                        THEN Claimant(h[ended].request) ELSE None,
         fence      |-> Cardinality(Accepted(h)),
         until      |-> IF held THEN ExpiresAt(h[claim]) ELSE 0,
         clock      |-> IF h = <<>> THEN 0 ELSE h[Len(h)].request.at]

Claims == INSTANCE ClaimRegister WITH
             Times <- {r.at : r \in Requests},
             register <- [l \in Lineages |-> RegisterOf(streams[l])]

\* The lineages behave as the abstract register: every commit is one of its
\* steps, decided from its current state and not from a stale one.
ImplementsRegister == Claims!Spec
=============================================================================
