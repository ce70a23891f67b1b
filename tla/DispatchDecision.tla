-------------------------- MODULE DispatchDecision --------------------------
(***************************************************************************)
(* DispatchDecisionService over InMemoryDispatchDecisionRepository, called  *)
(* by concurrent threads.  evaluate reads its evidence and decides before   *)
(* it takes the repository lock, once, in append; reconstruct takes that    *)
(* lock twice and reads the evidence again.  Lookups only grow more         *)
(* successful as evidence is retained, so those of one _resolve are one     *)
(* action.                                                                  *)
(***************************************************************************)
EXTENDS DispatchPolicy, FiniteSets

CONSTANTS
    Callers,       \* threads calling the service
    Requests       \* the requests they may submit

\* A request names its plan once, for its stream and for its evidence.
ASSUME RequestsAssumption ==
    /\ Requests \subseteq Request
    /\ \A r \in Requests : StreamOf[r.stream].planId = ArtifactId[r.plan]

VARIABLES
    retained,      \* artifacts held by the four evidence sources
    streams,       \* _RepositoryState.streams
    byId,          \* _RepositoryState.by_id
    idempotency,   \* _RepositoryState.idempotency
    call           \* where each thread is in the service

vars == <<retained, streams, byId, idempotency, call>>

Outcome == {"Created", "ExistingEquivalent", "Reconstructed", "EvidenceMissing",
            "DigestMismatch", "Invalid", "VersionUnsupported",
            "IdempotencyConflict", "VersionConflict", "ReconstructionFailed",
            "ReplayDiverged", "PersistenceFailure"}

ASSUME OutcomeAssumption == None \notin Outcome

Frame(pc, request, decision, outcome) ==
    [pc |-> pc, request |-> request, decision |-> decision, outcome |-> outcome]

Idle == Frame("idle", None, None, None)

CallState == [pc : {"idle", "append", "rebuild", "done"},
              request : Request \cup {None}, decision : Decision \cup {None},
              outcome : Outcome \cup {None}]

Init ==
    /\ retained = {}
    /\ streams = [s \in Streams |-> <<>>]
    /\ byId = {}
    /\ idempotency = [i \in Identities |-> None]
    /\ call = [c \in Callers |-> Idle]

Answer(c, outcome, decision) ==
    call' = [call EXCEPT ![c] = Frame("done", call[c].request, decision, outcome)]

ReadOnly == UNCHANGED <<retained, streams, byId, idempotency>>

-----------------------------------------------------------------------------
(* Evidence sources                                                         *)

\* Mutant: a later value takes the identifier over.
Retain_Replaces(kind, a) ==
    /\ retained' = (retained \ Held(kind, a, retained)) \cup {a}
    /\ UNCHANGED <<streams, byId, idempotency, call>>

\* InMemoryEvidenceSource.retain: an identifier keeps the value it was first
\* given; another value under it is refused.
Retain(kind, a) ==
    /\ Held(kind, a, retained) = {}
    /\ retained' = retained \cup {a}
    /\ UNCHANGED <<streams, byId, idempotency, call>>

-----------------------------------------------------------------------------
(* evaluate                                                                 *)

\* _resolve, the policy and build_dispatch_decision: an error, or a decision
\* for the version after the expected one, still to be appended.
Evaluate(c, r) ==
    LET resolution == Resolution(r, retained)
    IN  /\ call[c].pc = "idle"
        /\ call' = [call EXCEPT ![c] =
                      IF resolution = "Resolved"
                      THEN Frame("append", r, BuildDecision(r), None)
                      ELSE Frame("done", r, None, resolution)]
        /\ ReadOnly

Prior(d) == idempotency[Identity(d.request)]

\* Mutant: the version is not compared again under the lock.
Appendable_NoVersionCheck(d) ==
    /\ Prior(d) = None
    /\ d.version = d.request.expected + 1
    /\ d \notin byId

\* The guard of a publication: nothing under this identity, and the stream is
\* still at the expected version.
Appendable(d) ==
    /\ Prior(d) = None
    /\ d.request.expected = Len(streams[d.request.stream])
    /\ d.version = d.request.expected + 1
    /\ d \notin byId

\* _commit_state: the three indexes change together.
Commit(d) ==
    LET s == d.request.stream
    IN  /\ streams' = [streams EXCEPT ![s] = Append(@, d)]
        /\ byId' = byId \cup {d}
        /\ idempotency' = [idempotency EXCEPT ![Identity(d.request)] = d]

\* repository.append, published.
AppendDecision(c) ==
    LET d == call[c].decision
    IN  /\ call[c].pc = "append"
        /\ Appendable(d)
        /\ Commit(d)
        /\ Answer(c, "Created", d)
        /\ UNCHANGED retained

\* _commit_state raises: the replacement is dropped and the exception passed on.
CommitFails(c) ==
    /\ call[c].pc = "append"
    /\ Appendable(call[c].decision)
    /\ Answer(c, "PersistenceFailure", None)
    /\ ReadOnly

\* What was decided under the identity before is the answer if the canonical
\* input is the same, and a conflict otherwise.
Collide(c, prior) ==
    /\ prior # None
    /\ IF SameInput(prior.request, call[c].request)
       THEN Answer(c, "ExistingEquivalent", prior)
       ELSE Answer(c, "IdempotencyConflict", None)

\* Mutant: the version is compared before the identity is looked up.
AppendLoses_VersionFirst(c) ==
    LET d == call[c].decision
        prior == Prior(d)
    IN  /\ call[c].pc = "append"
        /\ \/ /\ d.request.expected # Len(streams[d.request.stream])
              /\ Answer(c, "VersionConflict", None)
           \/ /\ d.request.expected = Len(streams[d.request.stream])
              /\ Collide(c, prior)
        /\ ReadOnly

\* append meets an earlier commit; if it is under another identity, the version
\* it took is a conflict.
AppendLoses(c) ==
    LET d == call[c].decision
        prior == Prior(d)
    IN  /\ call[c].pc = "append"
        /\ \/ Collide(c, prior)
           \/ /\ prior = None
              /\ d.request.expected # Len(streams[d.request.stream])
              /\ Answer(c, "VersionConflict", None)
        /\ ReadOnly

-----------------------------------------------------------------------------
(* reconstruct                                                              *)

\* repository.record(decision_id), for an id some caller was given.
Reconstruct(c, d) ==
    /\ call[c].pc = "idle"
    /\ d \in byId
    /\ call' = [call EXCEPT ![c] = Frame("rebuild", None, d, None)]
    /\ ReadOnly

Contiguous(history) ==
    /\ history # <<>>
    /\ \A i \in DOMAIN history : history[i].version = i

\* repository.history, then _resolve and the decision, once more.
Rebuild(c) ==
    LET d == call[c].decision
        resolution == Resolution(d.request, retained)
    IN  /\ call[c].pc = "rebuild"
        /\ Answer(c, IF ~Contiguous(streams[d.request.stream]) THEN "ReconstructionFailed"
                     ELSE IF resolution # "Resolved" THEN resolution
                     ELSE IF BuildDecision(d.request) # d THEN "ReplayDiverged"
                     ELSE "Reconstructed", d)
        /\ ReadOnly

\* The call returns or raises to its caller, which may call again.
Return(c) ==
    /\ call[c].pc = "done"
    /\ call' = [call EXCEPT ![c] = Idle]
    /\ ReadOnly

-----------------------------------------------------------------------------

CallStep(c) ==
    \/ AppendDecision(c)
    \/ CommitFails(c)
    \/ AppendLoses(c)
    \/ Rebuild(c)
    \/ Return(c)

Next ==
    \/ \E a \in Plans : Retain(Plans, a)
    \/ \E a \in Selections : Retain(Selections, a)
    \/ \E a \in Readiness : Retain(Readiness, a)
    \/ \E a \in Leases : Retain(Leases, a)
    \/ \E c \in Callers : \E r \in Requests : Evaluate(c, r)
    \/ \E c \in Callers : \E d \in byId : Reconstruct(c, d)
    \/ \E c \in Callers : CallStep(c)

Spec == Init /\ [][Next]_vars

-----------------------------------------------------------------------------
(* Properties                                                               *)

\* The types of the state.
TypeOK ==
    /\ retained \subseteq Artifacts
    /\ streams \in [Streams -> Seq(Decision)]
    /\ byId \subseteq Decision
    /\ idempotency \in [Identities -> Decision \cup {None}]
    /\ call \in [Callers -> CallState]

\* Atomic publication: the indexes of the repository always describe the same
\* committed decisions, whoever commits or fails to, each at its own version of
\* its own stream and under its own identity.
IndexesAgree ==
    /\ byId = UNION {{streams[s][i] : i \in DOMAIN streams[s]} : s \in Streams}
    /\ \A s \in Streams : \A i \in DOMAIN streams[s] :
          /\ streams[s][i].request.stream = s
          /\ streams[s][i].version = i
    /\ \A d \in byId : idempotency[Identity(d.request)] = d
    /\ \A i \in Identities : idempotency[i] # None =>
          idempotency[i] \in byId /\ Identity(idempotency[i].request) = i

\* What a caller is told stays true: the decision answered to it is committed
\* and was made on its own canonical input, and no two callers both created it.
AnswersAreCommitted ==
    /\ \A c \in Callers :
          call[c].outcome \in {"Created", "ExistingEquivalent"} =>
             /\ call[c].decision \in byId
             /\ SameInput(call[c].decision.request, call[c].request)
    /\ \A c, d \in Callers :
          c # d /\ call[c].outcome = "Created" /\ call[d].outcome = "Created" =>
             call[c].decision # call[d].decision

\* Every committed decision reconstructs, whatever is retained or decided after
\* it: its evidence still resolves and still leads to it.
DecisionsReconstruct ==
    \A c \in Callers :
       call[c].outcome \notin {"ReconstructionFailed", "ReplayDiverged"}
       /\ (call[c].decision # None /\ call[c].request = None /\ call[c].pc = "done" =>
             call[c].outcome = "Reconstructed")

\* Dispatch approves nothing by itself: behind every approval stand the very
\* artifacts it names, still retained, in the scope of its stream, agreeing on
\* plan, work item, candidate and boundary, with a bounded, unrevoked lease whose
\* period contains the instant and no readiness verdict over or superseded.
ApprovalsWarranted ==
    \A d \in byId : LET r == d.request
                        s == StreamOf[r.stream]
                        l == LeaseOf[r.lease]
                        offered == SelectionOf[r.selection].readiness IN
       /\ {r.plan, r.selection, r.lease} \cup ReadinessSet(r) \subseteq retained
       /\ {PlanOf[r.plan].scope, SelectionOf[r.selection].scope, l.scope}
          \cup {ReadinessOf[w].scope : w \in ReadinessSet(r)} = {s.scope}
       /\ s.candidate \in DOMAIN offered
       /\ s.item \in PlanOf[r.plan].items \cap l.items
       /\ SelectionOf[r.selection].plan = r.plan
       /\ s.planId = ArtifactId[r.plan] /\ l.planId = s.planId
       /\ r.boundary = SelectionOf[r.selection].boundary
       /\ d.outcome = "APPROVED" =>
             /\ l.bounded /\ ~l.revoked
             /\ r.at \in l.effective .. l.expires
             /\ \A w \in ReadinessSet(r) :
                   ~ReadinessOf[w].superseded /\ r.at <= ReadinessOf[w].expires

\* One identity, one verdict: under one submitted key of a stream no two
\* answers ever given, in flight at the same time or not, differ.
IdentityDecidesOnce ==
    \A c, d \in Callers :
       {call[c].outcome, call[d].outcome} \subseteq {"Created", "ExistingEquivalent"}
       /\ Identity(call[c].request) = Identity(call[d].request) =>
          call[c].decision = call[d].decision

\* History is append-only: a step adds at most one decision to one stream, and a
\* retained artifact or an identity once used never changes.
AppendOnly ==
    [][ /\ \A s \in Streams :
              streams'[s] = streams[s]
              \/ \E d \in byId' : streams'[s] = Append(streams[s], d)
        /\ Cardinality(byId' \ byId) <= 1
        /\ retained \subseteq retained'
        /\ \A i \in Identities :
              idempotency[i] # None => idempotency'[i] = idempotency[i] ]_vars

\* As documented and tested, equivalent retries converge: a call whose canonical
\* input is already decided under its identity when it reaches append is given
\* that decision, however far the stream has moved on and whatever version it
\* expected.
EquivalentRetriesConverge ==
    [][ \A c \in Callers :
          call[c].pc = "append" /\ Prior(call[c].decision) # None
          /\ SameInput(Prior(call[c].decision).request, call[c].request)
          /\ call'[c] # call[c] =>
             call'[c].outcome = "ExistingEquivalent"
             /\ call'[c].decision = Prior(call[c].decision) ]_vars

\* Every decision can be rebuilt from the evidence retained for it, whatever was
\* retained since (reconstruct); and however threads race over keys and versions,
\* the indexes of the repository agree, one identity decides once and every answer
\* is a committed decision on its caller's own request (append).
DecisionsStand ==
    /\ TypeOK
    /\ IndexesAgree
    /\ AnswersAreCommitted
    /\ IdentityDecidesOnce
    /\ DecisionsReconstruct

\* ADR 0013 gives a lease's applicability a half-open period: no dispatch is
\* approved at the instant its lease expires.
\* Not so of this code: README, Divergences.
LeaseEndsBeforeItsExpiry ==
    \A d \in byId : d.outcome = "APPROVED" => d.request.at < LeaseOf[d.request.lease].expires
=============================================================================
