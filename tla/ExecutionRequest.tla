-------------------------- MODULE ExecutionRequest --------------------------
(***************************************************************************)
(* ExecutionRequestService over InMemoryExecutionRequestRepository, called  *)
(* by concurrent threads.  A draft is canonicalised and given its identity  *)
(* before the repository lock is taken, once, in repository.admit.          *)
(***************************************************************************)
EXTENDS FiniteSets

CONSTANTS
    None,              \* absent optional value
    Callers,           \* threads calling the service
    Drafts,            \* drafts as submitted
    CanonicalOf,       \* draft -> its canonical content, identity left out
    ScopeOf,           \* draft -> organization and workload context
    OrganizationOf,    \* scope -> organization
    Keys,              \* submitted idempotency keys
    EmptyKey           \* the one that is refused

Contents == {CanonicalOf[d] : d \in Drafts}
Scopes == {ScopeOf[d] : d \in Drafts}
Organizations == {OrganizationOf[s] : s \in Scopes}

\* The canonical document holds the scope.
DraftAssumption ==
    \A d, e \in Drafts : CanonicalOf[d] = CanonicalOf[e] => ScopeOf[d] = ScopeOf[e]

Identities == Scopes \X (Keys \ {EmptyKey})

\* idempotency_identity: a digest of the scope and the submitted key.
IdempotencyIdentity(d, k) == <<ScopeOf[d], k>>

\* ExecutionRequest.  Its digest and request_id are digests of the content with
\* the idempotency identity, so equal ids are equal requests.
Request == [identity : Identities, content : Contents]

\* build_execution_request
BuildRequest(d, k) ==
    [identity |-> IdempotencyIdentity(d, k), content |-> CanonicalOf[d]]

OrganizationOfRequest(r) == OrganizationOf[r.identity[1]]

VARIABLES
    byId,             \* _RepositoryState.by_id
    byIdempotency,    \* _RepositoryState.by_idempotency
    call              \* where each thread is in the service

vars == <<byId, byIdempotency, call>>

Outcome == {"Created", "ExistingEquivalent", "Reconstructed", "Invalid",
            "IdempotencyConflict", "NotFound", "PersistenceFailure"}

\* asked is the request a call was built for or names, request its answer.
Frame(pc, asked, request, outcome) ==
    [pc |-> pc, asked |-> asked, request |-> request, outcome |-> outcome]

Idle == Frame("idle", None, None, None)

\* An optional value that is absent is no request and no outcome.
NoneAssumption == None \notin Request /\ None \notin Outcome

CallState == [pc : {"idle", "admit", "done"}, asked : Request \cup {None},
              request : Request \cup {None}, outcome : Outcome \cup {None}]

Init ==
    /\ byId = {}
    /\ byIdempotency = [i \in Identities |-> None]
    /\ call = [c \in Callers |-> Idle]

Answer(c, outcome, request) ==
    call' = [call EXCEPT ![c] = Frame("done", call[c].asked, request, outcome)]

ReadOnly == UNCHANGED <<byId, byIdempotency>>

-----------------------------------------------------------------------------
(* admit                                                                    *)

\* idempotency_identity and build_execution_request; an empty key is refused.
Submit(c, d, k) ==
    /\ call[c].pc = "idle"
    /\ call' = [call EXCEPT ![c] =
                  IF k = EmptyKey THEN Frame("done", None, None, "Invalid")
                  ELSE Frame("admit", BuildRequest(d, k), None, None)]
    /\ ReadOnly

Prior(c) == byIdempotency[call[c].asked.identity]

\* repository.admit, published: the identity is unused.  The content identity
\* is then unused too, since the content holds the idempotency identity.
AdmitNew(c) ==
    LET r == call[c].asked
    IN  /\ call[c].pc = "admit"
        /\ Prior(c) = None
        /\ r \notin byId
        /\ byId' = byId \cup {r}
        /\ byIdempotency' = [byIdempotency EXCEPT ![r.identity] = r]
        /\ Answer(c, "Created", r)

\* Mutant: the first of two indexes is already published when the second fails.
CommitFails_HalfPublished(c) ==
    /\ call[c].pc = "admit"
    /\ Prior(c) = None
    /\ call[c].asked \notin byId
    /\ byId' = byId \cup {call[c].asked}
    /\ Answer(c, "PersistenceFailure", None)
    /\ UNCHANGED byIdempotency

\* _commit_state raises: the prepared state is dropped.
CommitFails(c) ==
    /\ call[c].pc = "admit"
    /\ Prior(c) = None
    /\ call[c].asked \notin byId
    /\ Answer(c, "PersistenceFailure", None)
    /\ ReadOnly

\* repository.admit meets the identity: the same content is answered with the
\* request admitted before, any other is a conflict.
AdmitAgain(c) ==
    /\ call[c].pc = "admit"
    /\ Prior(c) # None
    /\ IF Prior(c) = call[c].asked
       THEN Answer(c, "ExistingEquivalent", Prior(c))
       ELSE Answer(c, "IdempotencyConflict", None)
    /\ ReadOnly

-----------------------------------------------------------------------------
(* reconstruct                                                              *)

\* reconstruct(request_id, organization_id): what other organizations admitted
\* is not found; a retained record is rebuilt from its canonical content.
Reconstruct(c, r, organization) ==
    /\ call[c].pc = "idle"
    /\ call' = [call EXCEPT ![c] =
                  IF r \in byId /\ OrganizationOfRequest(r) = organization
                  THEN Frame("done", r, r, "Reconstructed")
                  ELSE Frame("done", r, None, "NotFound")]
    /\ ReadOnly

\* The call returns or raises to its caller, which may call again.
Return(c) ==
    /\ call[c].pc = "done"
    /\ call' = [call EXCEPT ![c] = Idle]
    /\ ReadOnly

-----------------------------------------------------------------------------

CallStep(c) == AdmitNew(c) \/ CommitFails(c) \/ AdmitAgain(c) \/ Return(c)

Next ==
    \/ \E c \in Callers, d \in Drafts, k \in Keys : Submit(c, d, k)
    \/ \E c \in Callers, r \in Request, o \in Organizations : Reconstruct(c, r, o)
    \/ \E c \in Callers : CallStep(c)

Spec == Init /\ [][Next]_vars

-----------------------------------------------------------------------------
(* Properties                                                               *)

\* The types of the state.
TypeOK ==
    /\ byId \subseteq Request
    /\ byIdempotency \in [Identities -> Request \cup {None}]
    /\ call \in [Callers -> CallState]

\* Atomic publication: the two indexes hold the same requests, one for each
\* identity used, whoever admits or fails to.  (So the branch of admit that
\* meets a known content identity under an unknown key is never taken.)
IndexesAgree ==
    /\ \A r \in byId : byIdempotency[r.identity] = r
    /\ \A i \in Identities : byIdempotency[i] # None =>
          byIdempotency[i] \in byId /\ byIdempotency[i].identity = i

\* What a caller is told stays true: its answer is admitted and is what it
\* asked for, and no two callers both created it.
AnswersAreAdmitted ==
    /\ \A c \in Callers : call[c].request # None =>
          call[c].request \in byId /\ call[c].request = call[c].asked
    /\ \A c, d \in Callers :
          c # d /\ call[c].outcome = "Created" /\ call[d].outcome = "Created" =>
             call[c].request # call[d].request

\* The indexes of the request repository agree and an answer stays true, whoever
\* admits or fails to (InMemoryExecutionRequestRepository.admit).
AdmissionsStand == TypeOK /\ IndexesAgree /\ AnswersAreAdmitted

\* An admission is for good: a request once admitted under an identity stays,
\* and nothing else is ever admitted under that identity.
AdmissionIsForGood ==
    [][ /\ byId \subseteq byId'
        /\ \A r, q \in byId' : r.identity = q.identity => r = q ]_vars

\* ADR 0009: repeating a key with identical canonical content returns the
\* request accepted before; a draft written another way is still that content.
EquivalentRetriesConverge ==
    [][ \A c \in Callers :
          call[c].pc = "admit" /\ call[c].asked \in byId /\ call'[c] # call[c] =>
             call'[c].outcome = "ExistingEquivalent"
             /\ call'[c].request = call[c].asked ]_vars
=============================================================================
