--------------------------- MODULE AssignmentProofs ---------------------------
(***************************************************************************)
(* Theorems about Assignment for every number of threads, streams, requests *)
(* and artifacts.  The dispatch service reads its evidence before its lock  *)
(* is taken, and again in reconstruct; what makes that sound is that        *)
(* resolving is monotone: an identifier keeps its first value, so a request *)
(* that resolved once resolves ever after, to the same artifacts.  The      *)
(* history of selections relies on evaluation being a function of request   *)
(* and version, and on nothing else of it.                                  *)
(***************************************************************************)
EXTENDS Assignment, FoldLemmas, FiniteSetTheorems, SequenceTheorems

\* All the conditions _resolve checks, the order of its checks apart.
Resolves(r, artifacts) ==
    LET scope == StreamOf[r.stream].scope
    IN  /\ Found(Plans, PlanOf, r.plan, scope, artifacts)
        /\ Found(Selections, SelectionOf, r.selection, scope, artifacts)
        /\ Found(Leases, LeaseOf, r.lease, scope, artifacts)
        /\ {r.plan, r.selection, r.lease} \subseteq artifacts
        /\ Coherent(r)
        /\ \A i \in DOMAIN ReadinessRefs(r) :
              ReadinessRefs(r)[i] \in artifacts
              /\ ReadinessOf[ReadinessRefs(r)[i]].scope = scope
        /\ Covers(r)
        /\ r.policy = "registered"

\* An identifier is held by one artifact of a kind.
OnePerIdentifier ==
    \A kind \in {Plans, Selections, Readiness, Leases} :
       \A a, b \in retained \cap kind : ArtifactId[a] = ArtifactId[b] => a = b

\* d is what the service makes of its own request, on evidence in artifacts.
Warranted(d, artifacts) ==
    /\ d.request \in Requests
    /\ Resolves(d.request, artifacts)
    /\ d = BuildDecision(d.request)

\* What one thread holds, against what is committed and retained.
Holds(frame, ids, artifacts) ==
    /\ frame \in CallState
    /\ frame.pc = "append" =>
          /\ frame.decision.request = frame.request
          /\ Warranted(frame.decision, artifacts)
    /\ frame.pc = "rebuild" => frame.decision \in ids
    /\ frame.outcome \in {"Created", "ExistingEquivalent"} =>
          /\ frame.decision \in ids
          /\ SameInput(frame.decision.request, frame.request)
          /\ Identity(frame.decision.request) = Identity(frame.request)
    /\ frame.outcome \notin {"ReconstructionFailed", "ReplayDiverged"}
    /\ frame.decision # None /\ frame.request = None /\ frame.pc = "done" =>
          frame.outcome = "Reconstructed"

\* No two threads both created a decision.
OneCreator ==
    \A c, d \in Callers :
       c # d /\ call[c].outcome = "Created" /\ call[d].outcome = "Created" =>
          call[c].decision # call[d].decision

DispatchInv ==
    /\ TypeOK
    /\ IndexesAgree
    /\ OnePerIdentifier
    /\ \A d \in byId : Warranted(d, retained)
    /\ \A c \in Callers : Holds(call[c], byId, retained)
    /\ OneCreator

-----------------------------------------------------------------------------
(* Resolution                                                               *)

\* A request names artifacts of the four kinds, and an identity and a stream of
\* the repository's.
LEMMA RequestFields ==
    ASSUME NEW r \in Request
    PROVE  /\ r.stream \in Streams /\ r.plan \in Plans /\ r.selection \in Selections
           /\ r.lease \in Leases /\ r.policy \in Policies
           /\ r.at \in Nat /\ r.expected \in Nat
           /\ Identity(r) \in Identities
BY DEF Request, Identity, Identities

\* _resolve returns or raises one of five things (service.py, _resolve).
LEMMA ResolutionRange ==
    ASSUME NEW r \in Request, NEW artifacts
    PROVE  Resolution(r, artifacts) \in {"EvidenceMissing", "DigestMismatch", "Invalid",
                                         "VersionUnsupported", "Resolved"}
<1>1. r.policy \in Policies BY RequestFields
<1>2. ReadinessFailure(r, artifacts) \in {None, "DigestMismatch", "EvidenceMissing"}
    BY DEF ReadinessFailure
<1> QED BY <1>1, <1>2 DEF Resolution, Policies

\* _resolve returns exactly when every one of its conditions holds.
LEMMA ResolvedIff ==
    ASSUME NEW r \in Request, NEW artifacts
    PROVE  Resolution(r, artifacts) = "Resolved" <=> Resolves(r, artifacts)
<1> DEFINE refs == ReadinessRefs(r)
           scope == StreamOf[r.stream].scope
           lacking == {i \in DOMAIN refs :
                          refs[i] \notin artifacts \/ ReadinessOf[refs[i]].scope # scope}
           failure == ReadinessFailure(r, artifacts)
<1>1. failure = None <=> lacking = {}
    BY OutcomeAssumption DEF ReadinessFailure, Outcome
<1>2. failure \in {None, "DigestMismatch", "EvidenceMissing"}
    BY DEF ReadinessFailure
<1>3. lacking = {} <=> \A i \in DOMAIN refs :
                           refs[i] \in artifacts /\ ReadinessOf[refs[i]].scope = scope
    OBVIOUS
<1>4. r.policy \in Policies BY RequestFields
<1> HIDE DEF failure, lacking
<1>5. ASSUME Resolves(r, artifacts) PROVE Resolution(r, artifacts) = "Resolved"
    BY <1>1, <1>3, <1>5 DEF Resolves, Resolution, failure
<1>6. ASSUME Resolution(r, artifacts) = "Resolved" PROVE Resolves(r, artifacts)
    BY <1>1, <1>2, <1>3, <1>4, <1>6 DEF Resolves, Resolution, Policies, failure
<1> QED BY <1>5, <1>6

\* Lookups only grow more successful as evidence is retained.
LEMMA ResolvesMonotone ==
    ASSUME NEW r, NEW artifacts, NEW more, artifacts \subseteq more, Resolves(r, artifacts)
    PROVE  Resolves(r, more)
BY DEF Resolves, Found, Held

\* build_dispatch_decision returns a decision for every request.
LEMMA BuildDecisionType ==
    ASSUME NEW r \in Request
    PROVE  /\ BuildDecision(r) \in Decision
           /\ BuildDecision(r).request = r
           /\ BuildDecision(r).version = r.expected + 1
<1>1. Reasons(r) \subseteq ReasonCodes BY DEF Reasons, ReasonCodes
<1>2. r.expected + 1 \in Nat \ {0} BY RequestFields
<1> QED BY <1>1, <1>2 DEF BuildDecision, Decision, ReasonCodes

\* An approval is the absence of every reason against the offer
\* (RegisteredDispatchPolicy.evaluate).
LEMMA ApprovalMeans ==
    ASSUME NEW r \in Request, StreamOf[r.stream].candidate \in
                                 DOMAIN SelectionOf[r.selection].readiness,
           BuildDecision(r).outcome = "APPROVED"
    PROVE  LET l == LeaseOf[r.lease]
           IN  /\ l.bounded /\ ~l.revoked
               /\ r.at \in l.effective .. l.expires
               /\ \A w \in ReadinessSet(r) :
                     ~ReadinessOf[w].superseded /\ r.at <= ReadinessOf[w].expires
<1> DEFINE l == LeaseOf[r.lease]
<1>1. Reasons(r) = {} BY DEF BuildDecision
<1>2. /\ "LEASE_INAPPLICABLE" \notin Reasons(r) /\ "LEASE_EXPIRED" \notin Reasons(r)
      /\ "LEASE_REVOKED" \notin Reasons(r) /\ "READINESS_EXPIRED" \notin Reasons(r)
      /\ "READINESS_SUPERSEDED" \notin Reasons(r)
    BY <1>1
<1>3. l.bounded /\ ~(r.at < l.effective) /\ ~(r.at > l.expires) /\ ~l.revoked
    BY <1>2 DEF Reasons
<1>4. \A w \in ReadinessSet(r) : ~(r.at > ReadinessOf[w].expires) /\ ~ReadinessOf[w].superseded
    BY <1>2 DEF Reasons
<1>5. l.effective \in Nat /\ l.expires \in Nat /\ r.at \in Nat
    BY RequestFields, CatalogueAssumption
<1>6. ReadinessSet(r) \subseteq Readiness
  <2>1. ReadinessRefs(r) \in Seq(Readiness)
      BY RequestFields, CatalogueAssumption DEF ReadinessRefs
  <2> QED BY <2>1 DEF ReadinessSet
<1>7. \A w \in ReadinessSet(r) : ReadinessOf[w].expires \in Nat
    BY <1>6, CatalogueAssumption
<1> QED BY <1>3, <1>4, <1>5, <1>7

-----------------------------------------------------------------------------
(* Steps that touch one thread only                                         *)

\* A step that changes one thread's frame, and creates nothing.
LEMMA FrameStep ==
    ASSUME DispatchInv, NEW c \in Callers, NEW frame,
           Holds(frame, byId, retained), frame.outcome # "Created",
           call' = [call EXCEPT ![c] = frame], ReadOnly
    PROVE  DispatchInv'
<1>1. \A d \in Callers : call'[d] = IF d = c THEN frame ELSE call[d]
    BY DEF DispatchInv, TypeOK
<1>2. call' \in [Callers -> CallState] BY DEF DispatchInv, TypeOK, Holds
<1>3. TypeOK' BY <1>2 DEF DispatchInv, TypeOK, ReadOnly
<1>4. IndexesAgree' /\ OnePerIdentifier'
    BY DEF DispatchInv, ReadOnly, IndexesAgree, OnePerIdentifier
<1>5. \A d \in byId' : Warranted(d, retained') BY DEF DispatchInv, ReadOnly
<1>6. \A d \in Callers : Holds(call'[d], byId', retained')
    BY <1>1, Zenon DEF DispatchInv, ReadOnly
<1>7. OneCreator' BY <1>1 DEF DispatchInv, OneCreator
<1> QED BY <1>3, <1>4, <1>5, <1>6, <1>7 DEF DispatchInv

\* The error outcomes of evaluate.
Errors == {"EvidenceMissing", "DigestMismatch", "Invalid", "VersionUnsupported",
           "IdempotencyConflict", "VersionConflict", "PersistenceFailure"}

\* An error answered to the caller leaves the invariant as it was.
LEMMA ErrorStep ==
    ASSUME DispatchInv, NEW c \in Callers, NEW outcome \in Errors,
           NEW request \in Request \cup {None},
           call' = [call EXCEPT ![c] = Frame("done", request, None, outcome)], ReadOnly
    PROVE  DispatchInv'
<1> DEFINE frame == Frame("done", request, None, outcome)
<1>1. frame \in CallState BY DEF Frame, CallState, Outcome, Errors
<1>2. Holds(frame, byId, retained) BY <1>1 DEF Holds, Frame, Errors
<1>3. frame.outcome # "Created" BY DEF Frame, Errors
<1> QED BY <1>2, <1>3, FrameStep

\* evaluate: what it is about to append rests on evidence it has resolved.
LEMMA EvaluateStep ==
    ASSUME DispatchInv, NEW c \in Callers, NEW r \in Requests, Evaluate(c, r)
    PROVE  DispatchInv'
<1>1. r \in Request BY RequestsAssumption
<1>2. CASE Resolution(r, retained) = "Resolved"
  <2> DEFINE frame == Frame("append", r, BuildDecision(r), None)
  <2>1. Resolves(r, retained) BY <1>1, <1>2, ResolvedIff
  <2>2. BuildDecision(r) \in Decision /\ BuildDecision(r).request = r
      BY <1>1, BuildDecisionType
  <2>3. frame \in CallState BY <1>1, <2>2 DEF Frame, CallState
  <2>4. Warranted(BuildDecision(r), retained) BY <2>1, <2>2 DEF Warranted
  <2>5. Holds(frame, byId, retained)
      BY <2>2, <2>3, <2>4, OutcomeAssumption DEF Holds, Frame, Outcome
  <2>6. frame.outcome # "Created" BY OutcomeAssumption DEF Frame, Outcome
  <2> QED BY <1>2, <2>5, <2>6, FrameStep DEF Evaluate
<1>3. CASE Resolution(r, retained) # "Resolved"
  <2>1. Resolution(r, retained) \in Errors BY <1>1, <1>3, ResolutionRange DEF Errors
  <2> QED BY <1>1, <1>3, <2>1, ErrorStep DEF Evaluate
<1> QED BY <1>2, <1>3

\* What is found under an identity is committed, and is that identity's.
LEMMA PriorCommitted ==
    ASSUME DispatchInv, NEW i \in Identities, idempotency[i] # None
    PROVE  /\ idempotency[i] \in byId
           /\ Identity(idempotency[i].request) = i
BY DEF DispatchInv, IndexesAgree

\* What a thread about to append holds.
LEMMA AppendHolds ==
    ASSUME DispatchInv, NEW c \in Callers, call[c].pc = "append"
    PROVE  LET d == call[c].decision
           IN  /\ d \in Decision /\ d.request = call[c].request
               /\ d.request \in Requests /\ d.request \in Request
               /\ Warranted(d, retained)
               /\ d.version = d.request.expected + 1
<1>1. Holds(call[c], byId, retained) BY DEF DispatchInv
<1>2. Warranted(call[c].decision, retained) /\ call[c].decision.request = call[c].request
    BY <1>1 DEF Holds
<1> QED BY <1>2, BuildDecisionType, RequestsAssumption DEF Warranted

\* append refuses or answers with the earlier commit: nothing is committed.
LEMMA AppendLosesStep ==
    ASSUME DispatchInv, NEW c \in Callers, AppendLoses(c)
    PROVE  DispatchInv'
<1> DEFINE d == call[c].decision
           prior == Prior(d)
<1>1. /\ d.request \in Request /\ d.request = call[c].request
    BY AppendHolds DEF AppendLoses
<1>2. Identity(d.request) \in Identities BY <1>1, RequestFields
<1>3. CASE prior # None /\ SameInput(prior.request, call[c].request)
  <2> DEFINE frame == Frame("done", call[c].request, prior, "ExistingEquivalent")
  <2>1. prior \in byId /\ Identity(prior.request) = Identity(d.request)
      BY <1>2, <1>3, PriorCommitted DEF Prior
  <2>2. prior \in Decision BY <2>1 DEF DispatchInv, TypeOK
  <2>3. frame \in CallState BY <1>1, <2>2 DEF Frame, CallState, Outcome
  <2>4. Holds(frame, byId, retained)
      BY <1>1, <1>3, <2>1, <2>3, NoneAssumption DEF Holds, Frame
  <2>5. frame.outcome # "Created" BY DEF Frame
  <2>6. call' = [call EXCEPT ![c] = frame] /\ ReadOnly
      BY <1>3 DEF AppendLoses, Collide, Answer
  <2> QED BY <2>4, <2>5, <2>6, FrameStep
<1>4. CASE ~(prior # None /\ SameInput(prior.request, call[c].request))
  <2>1. \/ Answer(c, "IdempotencyConflict", None)
        \/ Answer(c, "VersionConflict", None)
      BY <1>4 DEF AppendLoses, Collide
  <2>2. ReadOnly BY DEF AppendLoses
  <2> QED BY <1>1, <2>1, <2>2, ErrorStep DEF Answer, Errors
<1> QED BY <1>3, <1>4

\* Membership in byId, read off the streams.
LEMMA Committed ==
    ASSUME IndexesAgree
    PROVE  \A d : d \in byId <=> \E s \in Streams : \E i \in DOMAIN streams[s] :
                                     d = streams[s][i]
<1> DEFINE of(s) == {streams[s][i] : i \in DOMAIN streams[s]}
<1>1. byId = UNION {of(s) : s \in Streams} BY DEF IndexesAgree
<1>2. \A s, d : d \in of(s) <=> \E i \in DOMAIN streams[s] : d = streams[s][i] OBVIOUS
<1> HIDE DEF of
<1>3. \A d : d \in byId <=> \E s \in Streams : d \in of(s) BY <1>1
<1> QED BY <1>2, <1>3

\* The versions of a stream run from one, and a committed decision is on its own
\* stream: reconstruct finds a contiguous history around it.
LEMMA CommittedContiguous ==
    ASSUME DispatchInv, NEW d \in byId
    PROVE  Contiguous(streams[d.request.stream])
<1>1. PICK s \in Streams : \E i \in DOMAIN streams[s] : d = streams[s][i]
    BY Committed DEF DispatchInv
<1>2. d.request.stream = s BY <1>1 DEF DispatchInv, IndexesAgree
<1>3. streams[s] # <<>> BY <1>1
<1>4. \A j \in DOMAIN streams[s] : streams[s][j].version = j
    BY <1>1 DEF DispatchInv, IndexesAgree
<1> QED BY <1>2, <1>3, <1>4 DEF Contiguous

\* reconstruct: the evidence of a committed decision resolves again, to it.
LEMMA RebuildStep ==
    ASSUME DispatchInv, NEW c \in Callers, Rebuild(c)
    PROVE  DispatchInv'
<1> DEFINE d == call[c].decision
           frame == Frame("done", call[c].request, d, "Reconstructed")
<1>1. Holds(call[c], byId, retained) /\ call[c] \in CallState
    BY DEF DispatchInv, TypeOK
<1>2. d \in byId BY <1>1 DEF Holds, Rebuild
<1>3. Warranted(d, retained) BY <1>2 DEF DispatchInv
<1>4. Resolution(d.request, retained) = "Resolved" /\ BuildDecision(d.request) = d
    BY <1>3, ResolvedIff, RequestsAssumption DEF Warranted
<1>5. Contiguous(streams[d.request.stream]) BY <1>2, CommittedContiguous
<1>6. call' = [call EXCEPT ![c] = frame] /\ ReadOnly
    BY <1>4, <1>5 DEF Rebuild, Answer
<1>7. frame \in CallState
    BY <1>1, <1>2 DEF Frame, CallState, Outcome, DispatchInv, TypeOK
<1>8. Holds(frame, byId, retained) BY <1>7 DEF Holds, Frame
<1>9. frame.outcome # "Created" BY DEF Frame
<1> QED BY <1>6, <1>8, <1>9, FrameStep

\* The remaining steps of one thread.
LEMMA CallerStep ==
    ASSUME DispatchInv, NEW c \in Callers,
           \/ CommitFails(c)
           \/ Return(c)
           \/ \E d \in byId : Reconstruct(c, d)
    PROVE  DispatchInv'
<1>1. CASE CommitFails(c)
  <2>1. call[c].request \in Request BY <1>1, AppendHolds DEF CommitFails
  <2> QED BY <1>1, <2>1, ErrorStep DEF CommitFails, Answer, Errors
<1>2. CASE Return(c)
  <2>1. Idle \in CallState BY DEF Idle, Frame, CallState
  <2>2. Holds(Idle, byId, retained)
      BY <2>1, OutcomeAssumption DEF Holds, Idle, Frame, Outcome
  <2>3. Idle.outcome # "Created" BY OutcomeAssumption DEF Idle, Frame, Outcome
  <2> QED BY <1>2, <2>2, <2>3, FrameStep DEF Return
<1>3. ASSUME NEW d \in byId, Reconstruct(c, d) PROVE DispatchInv'
  <2> DEFINE frame == Frame("rebuild", None, d, None)
  <2>1. frame \in CallState BY DEF Frame, CallState, DispatchInv, TypeOK
  <2>2. Holds(frame, byId, retained)
      BY <2>1, OutcomeAssumption DEF Holds, Frame, Outcome
  <2>3. frame.outcome # "Created" BY OutcomeAssumption DEF Frame, Outcome
  <2> QED BY <1>3, <2>2, <2>3, FrameStep DEF Reconstruct
<1> QED BY <1>1, <1>2, <1>3

-----------------------------------------------------------------------------
(* Retaining evidence                                                       *)

\* InMemoryEvidenceSource.retain gives an identifier its first value and never
\* another: what resolved goes on resolving, to the artifact it names.
LEMMA RetainStep ==
    ASSUME DispatchInv, NEW kind \in {Plans, Selections, Readiness, Leases},
           NEW a \in kind, Retain(kind, a)
    PROVE  DispatchInv'
<1>1. /\ retained' = retained \cup {a}
      /\ Held(kind, a, retained) = {}
      /\ UNCHANGED <<streams, byId, idempotency, call>>
    BY DEF Retain
<1>2. TypeOK' BY <1>1 DEF DispatchInv, TypeOK, Artifacts
<1>3. IndexesAgree' /\ OneCreator' BY <1>1 DEF DispatchInv, IndexesAgree, OneCreator
<1>4. ASSUME NEW k \in {Plans, Selections, Readiness, Leases},
             NEW x \in retained' \cap k, NEW y \in retained' \cap k,
             ArtifactId[x] = ArtifactId[y]
      PROVE  x = y
  <2>1. \A u, v \in retained \cap k : ArtifactId[u] = ArtifactId[v] => u = v
      BY DEF DispatchInv, OnePerIdentifier
  <2>2. k # kind => a \notin k BY CatalogueAssumption
  <2>3. CASE k = kind
    <3>1. \A b \in retained \cap k : ArtifactId[b] # ArtifactId[a]
        BY <1>1, <2>3 DEF Held
    <3> QED BY <1>1, <1>4, <2>1, <3>1
  <2>4. CASE k # kind BY <1>1, <1>4, <2>1, <2>2, <2>4
  <2> QED BY <2>3, <2>4
<1>5. OnePerIdentifier' BY <1>4 DEF OnePerIdentifier
<1>6. \A d : Warranted(d, retained) => Warranted(d, retained')
    BY <1>1, ResolvesMonotone DEF Warranted
<1>7. \A d \in byId' : Warranted(d, retained') BY <1>1, <1>6 DEF DispatchInv
<1>8. \A c \in Callers : Holds(call'[c], byId', retained')
    BY <1>1, <1>6 DEF DispatchInv, Holds
<1> QED BY <1>2, <1>3, <1>5, <1>7, <1>8 DEF DispatchInv

-----------------------------------------------------------------------------
(* Commits                                                                  *)

\* What _commit_state leaves in the three indexes.
LEMMA CommitEffect ==
    ASSUME DispatchInv, NEW c \in Callers, AppendDecision(c)
    PROVE  LET d == call[c].decision
               s == d.request.stream
           IN  /\ d \in Decision /\ s \in Streams
               /\ d \notin byId /\ Prior(d) = None
               /\ Warranted(d, retained)
               /\ d.request = call[c].request /\ d.request \in Request
               /\ d.version = Len(streams[s]) + 1
               /\ \A t \in Streams : streams'[t] = IF t = s THEN Append(streams[s], d)
                                                   ELSE streams[t]
               /\ byId' = byId \cup {d}
               /\ \A i \in Identities : idempotency'[i] = IF i = Identity(d.request) THEN d
                                                         ELSE idempotency[i]
               /\ call' = [call EXCEPT ![c] = Frame("done", call[c].request, d, "Created")]
               /\ retained' = retained
<1>1. call[c].pc = "append" BY DEF AppendDecision
<1>2. streams \in [Streams -> Seq(Decision)] /\ idempotency \in [Identities -> Decision \cup {None}]
    BY DEF DispatchInv, TypeOK
<1> QED BY <1>1, <1>2, AppendHolds, RequestFields
        DEF AppendDecision, Appendable, Commit, Answer

\* The commit keeps the types.
LEMMA TypeCommit ==
    ASSUME DispatchInv, NEW c \in Callers, AppendDecision(c)
    PROVE  TypeOK'
<1> DEFINE d == call[c].decision
           s == d.request.stream
<1>1. TypeOK BY DEF DispatchInv
<1>2. /\ d \in Decision /\ s \in Streams /\ byId' = byId \cup {d} /\ retained' = retained
      /\ d.request = call[c].request /\ d.request \in Request
      /\ call' = [call EXCEPT ![c] = Frame("done", call[c].request, d, "Created")]
    BY CommitEffect
<1>3. streams' = [streams EXCEPT ![s] = Append(streams[s], d)]
      /\ idempotency' = [idempotency EXCEPT ![Identity(d.request)] = d]
    BY DEF AppendDecision, Commit
<1>4. Frame("done", call[c].request, d, "Created") \in CallState
    BY <1>2 DEF Frame, CallState, Outcome
<1>5. Append(streams[s], d) \in Seq(Decision) BY <1>1, <1>2 DEF TypeOK
<1>6. streams' \in [Streams -> Seq(Decision)] BY <1>1, <1>3, <1>5 DEF TypeOK
<1>7. idempotency' \in [Identities -> Decision \cup {None}] BY <1>1, <1>2, <1>3 DEF TypeOK
<1>8. call' \in [Callers -> CallState] BY <1>1, <1>2, <1>4 DEF TypeOK
<1> QED BY <1>1, <1>2, <1>6, <1>7, <1>8 DEF TypeOK

\* Where the commit lands in the streams.
LEMMA StreamsAfter ==
    ASSUME DispatchInv, NEW c \in Callers, AppendDecision(c), NEW t \in Streams
    PROVE  LET d == call[c].decision
               s == d.request.stream
           IN  IF t = s
               THEN /\ DOMAIN streams'[t] = DOMAIN streams[t] \cup {Len(streams[t]) + 1}
                    /\ \A i \in DOMAIN streams[t] : streams'[t][i] = streams[t][i]
                    /\ streams'[t][Len(streams[t]) + 1] = d
               ELSE streams'[t] = streams[t]
<1> DEFINE d == call[c].decision
           s == d.request.stream
<1>1. streams'[t] = IF t = s THEN Append(streams[s], d) ELSE streams[t]
    BY CommitEffect
<1>2. streams[t] \in Seq(Decision) BY DEF DispatchInv, TypeOK
<1>3. CASE t = s
  <2> DEFINE h == streams[t]
  <2>1. DOMAIN h = 1 .. Len(h) /\ Len(h) \in Nat BY <1>2
  <2>2. Append(h, d) \in Seq(Decision \cup {d}) /\ Len(Append(h, d)) = Len(h) + 1
      BY <1>2
  <2>3. DOMAIN Append(h, d) = 1 .. (Len(h) + 1) BY <2>2
  <2>4. \A i \in 1 .. Len(h) : Append(h, d)[i] = h[i] BY <1>2
  <2>5. Append(h, d)[Len(h) + 1] = d BY <1>2
  <2>6. 1 .. (Len(h) + 1) = (1 .. Len(h)) \cup {Len(h) + 1} BY <2>1
  <2> HIDE DEF h
  <2> QED BY <1>1, <1>3, <2>1, <2>3, <2>4, <2>5, <2>6 DEF h
<1>4. CASE t # s BY <1>1, <1>4
<1> QED BY <1>3, <1>4

\* The commit changes the three indexes together (repository.py, append).
LEMMA IndexesCommit ==
    ASSUME DispatchInv, NEW c \in Callers, AppendDecision(c)
    PROVE  IndexesAgree'
<1> DEFINE d == call[c].decision
           s == d.request.stream
           n == Len(streams[s]) + 1
<1>1. /\ d \in Decision /\ s \in Streams /\ d \notin byId
      /\ Prior(d) = None /\ d.request \in Request /\ d.version = n
      /\ byId' = byId \cup {d}
      /\ \A i \in Identities : idempotency'[i] = IF i = Identity(d.request) THEN d
                                                ELSE idempotency[i]
    BY CommitEffect
<1>2. IndexesAgree /\ TypeOK BY DEF DispatchInv
<1>3. \A t \in Streams : t # s => streams'[t] = streams[t] BY StreamsAfter
<1>4. /\ DOMAIN streams'[s] = DOMAIN streams[s] \cup {n}
      /\ \A i \in DOMAIN streams[s] : streams'[s][i] = streams[s][i]
      /\ streams'[s][n] = d
    BY <1>1, StreamsAfter
<1>5. Identity(d.request) \in Identities BY <1>1, RequestFields
<1> HIDE DEF d, s, n
<1>6. byId' = UNION {{streams'[t][i] : i \in DOMAIN streams'[t]} : t \in Streams}
  <2> DEFINE held(t) == {streams[t][i] : i \in DOMAIN streams[t]}
             after(t) == {streams'[t][i] : i \in DOMAIN streams'[t]}
  <2>1. byId = UNION {held(t) : t \in Streams} BY <1>2 DEF IndexesAgree
  <2>2. \A t \in Streams : t # s => after(t) = held(t) BY <1>3
  <2>3. after(s) = held(s) \cup {d} BY <1>4
  <2> HIDE DEF held, after
  <2>4. UNION {after(t) : t \in Streams} = (UNION {held(t) : t \in Streams}) \cup {d}
      BY <1>1, <2>2, <2>3
  <2> QED BY <1>1, <2>1, <2>4 DEF after
<1>7. \A t \in Streams : \A i \in DOMAIN streams'[t] :
         streams'[t][i].request.stream = t /\ streams'[t][i].version = i
  <2>1. \A t \in Streams : \A i \in DOMAIN streams[t] :
           streams[t][i].request.stream = t /\ streams[t][i].version = i
      BY <1>2 DEF IndexesAgree
  <2>2. d.request.stream = s /\ d.version = n BY <1>1 DEF s
  <2> QED BY <1>3, <1>4, <2>1, <2>2
<1>8. \A e \in byId' : idempotency'[Identity(e.request)] = e
  <2>1. \A e \in byId : idempotency[Identity(e.request)] = e BY <1>2 DEF IndexesAgree
  <2>2. \A e \in byId : e \in Decision /\ e.request \in Request
      BY <1>2 DEF TypeOK, Decision
  <2>3. \A e \in byId : Identity(e.request) \in Identities /\ e # None
      BY <2>2, RequestFields, NoneAssumption
  <2>4. \A e \in byId : Identity(e.request) # Identity(d.request)
      BY <1>1, <2>1, <2>3 DEF Prior
  <2> QED BY <1>1, <1>5, <2>1, <2>3, <2>4
<1>9. \A i \in Identities : idempotency'[i] # None =>
         idempotency'[i] \in byId' /\ Identity(idempotency'[i].request) = i
  <2>1. \A i \in Identities : idempotency[i] # None =>
           idempotency[i] \in byId /\ Identity(idempotency[i].request) = i
      BY <1>2 DEF IndexesAgree
  <2> QED BY <1>1, <2>1
<1> QED BY <1>6, <1>7, <1>8, <1>9 DEF IndexesAgree

\* append, published: the thread that commits is told of its own decision.
LEMMA CommitStep ==
    ASSUME DispatchInv, NEW c \in Callers, AppendDecision(c)
    PROVE  DispatchInv'
<1> DEFINE d == call[c].decision
           frame == Frame("done", call[c].request, d, "Created")
<1>1. /\ d \in Decision /\ d \notin byId /\ Warranted(d, retained)
      /\ d.request = call[c].request /\ d.request \in Request
      /\ byId' = byId \cup {d} /\ retained' = retained
      /\ call' = [call EXCEPT ![c] = frame]
    BY CommitEffect
<1>2. TypeOK' /\ IndexesAgree' BY TypeCommit, IndexesCommit
<1>3. OnePerIdentifier' BY <1>1 DEF DispatchInv, OnePerIdentifier
<1>4. \A e \in byId' : Warranted(e, retained') BY <1>1 DEF DispatchInv
<1>5. \A t \in Callers : call'[t] = IF t = c THEN frame ELSE call[t]
    BY <1>1 DEF DispatchInv, TypeOK
<1>6. frame \in CallState BY <1>1 DEF Frame, CallState, Outcome
<1>7. SameInput(d.request, call[c].request) BY <1>1 DEF SameInput
<1>8. Holds(frame, byId', retained')
    BY <1>1, <1>6, <1>7, NoneAssumption DEF Holds, Frame
<1>9. \A t \in Callers : Holds(call[t], byId', retained')
    BY <1>1 DEF DispatchInv, Holds
<1>10. \A t \in Callers : Holds(call'[t], byId', retained')
    BY <1>5, <1>8, <1>9
<1>11. OneCreator'
  <2>1. \A t \in Callers : call[t].outcome = "Created" => call[t].decision \in byId
      BY DEF DispatchInv, Holds
  <2>2. frame.decision = d BY DEF Frame
  <2> QED BY <1>1, <1>5, <2>1, <2>2 DEF DispatchInv, OneCreator
<1> QED BY <1>2, <1>3, <1>4, <1>10, <1>11 DEF DispatchInv

-----------------------------------------------------------------------------
(* The invariant                                                            *)

\* An empty repository and idle threads.
LEMMA DispatchInit == Init => DispatchInv
<1> SUFFICES ASSUME Init PROVE DispatchInv OBVIOUS
<1>1. Idle \in CallState BY DEF Idle, Frame, CallState
<1>2. TypeOK BY <1>1 DEF Init, TypeOK
<1>3. IndexesAgree
  <2>1. \A s \in Streams : {streams[s][i] : i \in DOMAIN streams[s]} = {} BY DEF Init
  <2>2. byId = UNION {{streams[s][i] : i \in DOMAIN streams[s]} : s \in Streams}
      BY <2>1, Zenon DEF Init
  <2> QED BY <2>2 DEF Init, IndexesAgree
<1>4. OnePerIdentifier BY DEF Init, OnePerIdentifier
<1>5. \A c \in Callers : Holds(call[c], byId, retained)
    BY <1>1, OutcomeAssumption DEF Init, Holds, Idle, Frame, Outcome
<1>6. OneCreator BY OutcomeAssumption DEF Init, OneCreator, Idle, Frame, Outcome
<1> QED BY <1>2, <1>3, <1>4, <1>5, <1>6 DEF DispatchInv, Init

\* Every step of the service keeps the invariant.
LEMMA DispatchNext == DispatchInv /\ [Next]_vars => DispatchInv'
<1> SUFFICES ASSUME DispatchInv, [Next]_vars PROVE DispatchInv' OBVIOUS
<1>1. ASSUME NEW c \in Callers, CallStep(c) PROVE DispatchInv'
    BY <1>1, CommitStep, AppendLosesStep, RebuildStep, CallerStep DEF CallStep
<1>2. ASSUME NEW c \in Callers, NEW d \in byId, Reconstruct(c, d) PROVE DispatchInv'
    BY <1>2, CallerStep
<1>3. CASE UNCHANGED vars
    BY <1>3 DEF vars, DispatchInv, TypeOK, IndexesAgree, OnePerIdentifier, OneCreator
<1> QED BY <1>1, <1>2, <1>3, EvaluateStep, RetainStep DEF Next

\* The inductive invariant holds of every reachable state: what is committed was
\* decided on evidence that resolves, and what a thread is told is committed.
THEOREM DispatchInvariant == Spec => []DispatchInv
BY DispatchInit, DispatchNext, PTL DEF Spec

\* Every run of the service keeps its decisions: the three indexes of
\* InMemoryDispatchDecisionRepository agree, an identity is decided once, an answer
\* is a committed decision on its caller's own input, and reconstruct finds every
\* decision again.
THEOREM DecisionsAlwaysStand == Spec => []DecisionsStand
<1>1. DispatchInv => AnswersAreCommitted
    BY DEF DispatchInv, Holds, OneCreator, AnswersAreCommitted
<1>2. DispatchInv => IdentityDecidesOnce
  <2> SUFFICES ASSUME DispatchInv, NEW c \in Callers, NEW d \in Callers,
                      {call[c].outcome, call[d].outcome} \subseteq
                          {"Created", "ExistingEquivalent"},
                      Identity(call[c].request) = Identity(call[d].request)
               PROVE  call[c].decision = call[d].decision
      BY DEF IdentityDecidesOnce
  <2>1. \A t \in {c, d} : /\ call[t].decision \in byId
                          /\ Identity(call[t].decision.request) = Identity(call[t].request)
      BY DEF DispatchInv, Holds
  <2>2. \A e \in byId : idempotency[Identity(e.request)] = e
      BY DEF DispatchInv, IndexesAgree
  <2> QED BY <2>1, <2>2
<1>3. DispatchInv => DecisionsReconstruct
    BY DEF DispatchInv, Holds, DecisionsReconstruct
<1>4. DispatchInv => DecisionsStand
    BY <1>1, <1>2, <1>3 DEF DispatchInv, DecisionsStand
<1> QED BY <1>4, DispatchInvariant, PTL

\* What get_scoped found under an artifact's identifier is the artifact, once an
\* identifier is held by one artifact of its kind.
LEMMA FoundIsHeld ==
    ASSUME DispatchInv, NEW kind \in {Plans, Selections, Readiness, Leases},
           NEW Of, NEW a \in kind \cap retained, NEW scope, Found(kind, Of, a, scope, retained)
    PROVE  Of[a].scope = scope
<1>1. PICK b \in Held(kind, a, retained) : Of[b].scope = scope BY DEF Found
<1>2. b \in retained \cap kind /\ ArtifactId[b] = ArtifactId[a] BY <1>1 DEF Held
<1>3. b = a BY <1>2 DEF DispatchInv, OnePerIdentifier
<1> QED BY <1>1, <1>3

\* Dispatch approves nothing by itself (service.py, _resolve; policy.py, evaluate):
\* behind every committed decision stand the retained artifacts it names, in its
\* stream's scope and agreeing with each other, and an approval has no reason
\* against it.
THEOREM ApprovalsAreWarranted == Spec => []ApprovalsWarranted
<1>1. DispatchInv => ApprovalsWarranted
  <2> SUFFICES ASSUME DispatchInv, NEW d \in byId
               PROVE  LET r == d.request
                          s == StreamOf[r.stream]
                          l == LeaseOf[r.lease]
                          offered == SelectionOf[r.selection].readiness
                      IN  /\ {r.plan, r.selection, r.lease} \cup ReadinessSet(r) \subseteq retained
                          /\ {PlanOf[r.plan].scope, SelectionOf[r.selection].scope, l.scope}
                             \cup {ReadinessOf[w].scope : w \in ReadinessSet(r)} = {s.scope}
                          /\ s.candidate \in DOMAIN offered
                          /\ s.item \in PlanOf[r.plan].items \cap l.items
                          /\ SelectionOf[r.selection].plan = r.plan
                          /\ s.planId = ArtifactId[r.plan] /\ l.planId = s.planId
                          /\ r.boundary = SelectionOf[r.selection].boundary
                          /\ d.outcome = "APPROVED" =>
                                /\ l.bounded /\ ~l.revoked
                                /\ r.at \in l.effective .. l.expires
                                /\ \A w \in ReadinessSet(r) :
                                      ~ReadinessOf[w].superseded
                                      /\ r.at <= ReadinessOf[w].expires
      BY DEF ApprovalsWarranted
  <2> DEFINE r == d.request
             s == StreamOf[r.stream]
             l == LeaseOf[r.lease]
  <2>1. r \in Requests /\ Resolves(r, retained) /\ d = BuildDecision(r)
      BY DEF DispatchInv, Warranted
  <2>2. r \in Request /\ s.planId = ArtifactId[r.plan] BY <2>1, RequestsAssumption
  <2>3. /\ r.plan \in Plans \cap retained /\ r.selection \in Selections \cap retained
        /\ r.lease \in Leases \cap retained
      BY <2>1, <2>2, RequestFields DEF Resolves
  <2>4. /\ PlanOf[r.plan].scope = s.scope /\ SelectionOf[r.selection].scope = s.scope
        /\ l.scope = s.scope
    <3>1. /\ Found(Plans, PlanOf, r.plan, s.scope, retained)
          /\ Found(Selections, SelectionOf, r.selection, s.scope, retained)
          /\ Found(Leases, LeaseOf, r.lease, s.scope, retained)
        BY <2>1 DEF Resolves
    <3> QED BY <2>3, <3>1, FoundIsHeld
  <2>5. \A w \in ReadinessSet(r) : w \in retained /\ ReadinessOf[w].scope = s.scope
      BY <2>1 DEF Resolves, ReadinessSet
  <2>6. /\ s.item \in PlanOf[r.plan].items
        /\ SelectionOf[r.selection].plan = r.plan
        /\ s.candidate \in DOMAIN SelectionOf[r.selection].readiness
        /\ SelectionOf[r.selection].boundary = r.boundary
        /\ l.planId = ArtifactId[r.plan] /\ s.item \in l.items
      BY <2>1 DEF Resolves, Coherent, Covers
  <2>7. d.outcome = "APPROVED" =>
           /\ l.bounded /\ ~l.revoked
           /\ r.at \in l.effective .. l.expires
           /\ \A w \in ReadinessSet(r) :
                 ~ReadinessOf[w].superseded /\ r.at <= ReadinessOf[w].expires
    <3> SUFFICES ASSUME d.outcome = "APPROVED"
                 PROVE  /\ l.bounded /\ ~l.revoked
                        /\ r.at \in l.effective .. l.expires
                        /\ \A w \in ReadinessSet(r) :
                              ~ReadinessOf[w].superseded /\ r.at <= ReadinessOf[w].expires
        OBVIOUS
    <3>1. BuildDecision(r).outcome = "APPROVED" BY <2>1
    <3> QED BY <2>2, <2>6, <3>1, ApprovalMeans
  <2>8. {PlanOf[r.plan].scope, SelectionOf[r.selection].scope, l.scope}
        \cup {ReadinessOf[w].scope : w \in ReadinessSet(r)} = {s.scope}
      BY <2>4, <2>5
  <2> QED BY <2>2, <2>3, <2>5, <2>6, <2>7, <2>8
<1> QED BY <1>1, DispatchInvariant, PTL

-----------------------------------------------------------------------------
(* What a step may never do                                                 *)

\* The repository is append-only: a step adds at most one decision, to one stream,
\* and rewrites no artifact, decision or identity (repository.py, append).
THEOREM DecisionsAppendOnly == Spec => AppendOnly
<1>1. ASSUME DispatchInv, [Next]_vars
      PROVE  /\ \A s \in Streams :
                    streams'[s] = streams[s]
                    \/ \E d \in byId' : streams'[s] = Append(streams[s], d)
             /\ Cardinality(byId' \ byId) <= 1
             /\ retained \subseteq retained'
             /\ \A i \in Identities :
                   idempotency[i] # None => idempotency'[i] = idempotency[i]
  <2>1. CASE UNCHANGED <<streams, byId, idempotency>> /\ retained \subseteq retained'
    <3>1. Cardinality(byId' \ byId) = 0 BY <2>1, FS_EmptySet
    <3> QED BY <2>1, <3>1
  <2>2. ASSUME NEW c \in Callers, AppendDecision(c)
        PROVE  /\ \A s \in Streams :
                      streams'[s] = streams[s]
                      \/ \E d \in byId' : streams'[s] = Append(streams[s], d)
               /\ Cardinality(byId' \ byId) <= 1
               /\ retained \subseteq retained'
               /\ \A i \in Identities :
                     idempotency[i] # None => idempotency'[i] = idempotency[i]
    <3> DEFINE d == call[c].decision
    <3>1. /\ d \notin byId /\ byId' = byId \cup {d} /\ retained' = retained
          /\ \A t \in Streams : streams'[t] = IF t = d.request.stream
                                             THEN Append(streams[d.request.stream], d)
                                             ELSE streams[t]
          /\ \A i \in Identities : idempotency'[i] = IF i = Identity(d.request) THEN d
                                                    ELSE idempotency[i]
          /\ idempotency[Identity(d.request)] = None
        BY <1>1, <2>2, CommitEffect DEF Prior
    <3> HIDE DEF d
    <3>2. byId' \ byId = {d} BY <3>1
    <3>3. Cardinality(byId' \ byId) = 1 BY <3>2, FS_Singleton
    <3>4. Cardinality(byId' \ byId) <= 1 BY <3>3
    <3>5. \A t \in Streams : streams'[t] = streams[t] \/ streams'[t] = Append(streams[t], d)
        BY <3>1
    <3>6. \A t \in Streams : streams'[t] = streams[t]
                            \/ \E e \in byId' : streams'[t] = Append(streams[t], e)
        BY <3>1, <3>5
    <3> QED BY <3>1, <3>4, <3>6
  <2>3. \/ UNCHANGED <<streams, byId, idempotency>> /\ retained \subseteq retained'
        \/ \E c \in Callers : AppendDecision(c)
      BY <1>1 DEF Next, vars, CallStep, Retain, Evaluate, Reconstruct, CommitFails,
                 AppendLoses, Rebuild, Return, ReadOnly
  <2> QED BY <2>1, <2>2, <2>3
<1> QED BY <1>1, DispatchInvariant, PTL DEF Spec, AppendOnly

\* Equivalent retries converge, whatever version they expect: append looks the
\* identity up before it compares the version (repository.py, append).
THEOREM RetriesGetTheDecision == Spec => EquivalentRetriesConverge
<1>1. ASSUME DispatchInv, [Next]_vars, NEW c \in Callers,
             call[c].pc = "append", Prior(call[c].decision) # None,
             SameInput(Prior(call[c].decision).request, call[c].request),
             call'[c] # call[c]
      PROVE  /\ call'[c].outcome = "ExistingEquivalent"
             /\ call'[c].decision = Prior(call[c].decision)
  <2>1. call \in [Callers -> CallState] BY <1>1 DEF DispatchInv, TypeOK
  <2>2. \A t \in Callers : \A frame : call' = [call EXCEPT ![t] = frame] => t = c
      BY <1>1, <2>1
  <2>3. \E t \in Callers : CallStep(t) \/ (\E r \in Requests : Evaluate(t, r))
                         \/ (\E d \in byId : Reconstruct(t, d))
      BY <1>1 DEF Next, vars, Retain
  <2>4. \A t \in Callers : CallStep(t) => t = c
      BY <2>2 DEF CallStep, AppendDecision, CommitFails, AppendLoses, Rebuild, Return,
                 Collide, Answer
  <2>5. \A t \in Callers :
           (\E r \in Requests : Evaluate(t, r)) \/ (\E d \in byId : Reconstruct(t, d)) => t = c
      BY <2>2 DEF Evaluate, Reconstruct
  <2>6. AppendLoses(c)
      BY <1>1, <2>3, <2>4, <2>5 DEF CallStep, AppendDecision, CommitFails, Appendable,
                                   Rebuild, Return, Evaluate, Reconstruct
  <2>7. Answer(c, "ExistingEquivalent", Prior(call[c].decision))
      BY <1>1, <2>6 DEF AppendLoses, Collide
  <2> QED BY <2>1, <2>7 DEF Answer, Frame
<1>2. DispatchInv /\ [Next]_vars =>
         [ \A c \in Callers :
             call[c].pc = "append" /\ Prior(call[c].decision) # None
             /\ SameInput(Prior(call[c].decision).request, call[c].request)
             /\ call'[c] # call[c] =>
                call'[c].outcome = "ExistingEquivalent"
                /\ call'[c].decision = Prior(call[c].decision) ]_vars
    BY <1>1
<1> QED BY <1>2, DispatchInvariant, PTL DEF Spec, EquivalentRetriesConverge

-----------------------------------------------------------------------------
(* Worker selections                                                        *)

SelFrames == [pc : {"idle", "append", "history", "done"}, request : SelRequests \cup {None},
              key : SelKeys \cup {None}, selection : Sel!SelectionRecords \cup {None},
              history : Seq(Sel!SelectionRecords), outcome : Sel!Outcome \cup {None}]

\* The types of the state.
SelTyped ==
    /\ sel_streams \in [SelStreams -> Seq(Sel!SelectionRecords)]
    /\ sel_byId \subseteq Sel!SelectionRecords
    /\ sel_idempotency \in [Sel!OperationKeys -> Sel!SelectionRecords \cup {None}]
    /\ sel_call \in [SelCallers -> SelFrames]

\* What one thread holds, against what is committed.
SelHolds(frame, ids) ==
    /\ frame \in SelFrames
    /\ frame.pc = "append" =>
          /\ frame.request \in SelRequests /\ frame.key \in SelKeys
          /\ frame.selection \in Sel!SelectionRecords
          /\ frame.selection.request = frame.request
    /\ frame.pc = "history" =>
          frame.selection \in ids /\ frame.request = frame.selection.request
    /\ frame.outcome \in {"Accepted", "Replayed"} =>
          frame.selection \in ids /\ frame.selection.request = frame.request
    /\ frame.outcome = "History" =>
          frame.history[frame.selection.version] = frame.selection
    /\ frame.outcome # "ReplayDiverged"

SelectionInv ==
    /\ SelTyped
    /\ Sel!IndexesAgree
    /\ \A c \in SelCallers : SelHolds(sel_call[c], sel_byId)

-----------------------------------------------------------------------------
(* Selections                                                               *)

\* A selection carries its request and version, and is what evaluating them
\* gives (WorkerSelectionEvaluator.evaluate).
LEMMA SelectionFields ==
    ASSUME NEW x \in Sel!SelectionRecords
    PROVE  /\ x = Sel!Evaluate(x.request, x.version)
           /\ x.request \in SelRequests /\ x.request.stream \in SelStreams
           /\ x.version \in Nat /\ x.version # 0 /\ x # None
<1>1. PICK r \in SelRequests, v \in Versions : x = Sel!Evaluate(r, v + 1)
    BY DEF Sel!SelectionRecords
<1>2. x.request = r /\ x.version = v + 1 BY <1>1 DEF Sel!Evaluate
<1>3. v \in Nat BY SelectionAssumption DEF Sel!ServiceAssumption
<1> QED BY SelectionAssumption, <1>1, <1>2, <1>3 DEF Sel!ServiceAssumption

\* append's copy of the selection with the version it is given is the selection,
\* when that is the version it was evaluated for.
LEMMA SameVersion ==
    ASSUME NEW x \in Sel!SelectionRecords
    PROVE  [x EXCEPT !.version = x.version] = x
<1>1. PICK r \in SelRequests, v \in Versions : x = Sel!Evaluate(r, v + 1)
    BY DEF Sel!SelectionRecords
<1> QED BY <1>1 DEF Sel!Evaluate

\* Membership in byId, read off the streams.
LEMMA SelCommitted ==
    ASSUME Sel!IndexesAgree
    PROVE  \A x :
              x \in sel_byId <=> \E s \in SelStreams : \E n \in DOMAIN sel_streams[s] :
                                     x = sel_streams[s][n]
<1> DEFINE of(s) == {sel_streams[s][n] : n \in DOMAIN sel_streams[s]}
<1>1. sel_byId = UNION {of(s) : s \in SelStreams} BY DEF Sel!IndexesAgree, Sel!Appended
<1>2. \A s, x :
         x \in of(s) <=> \E n \in DOMAIN sel_streams[s] : x = sel_streams[s][n] OBVIOUS
<1> HIDE DEF of
<1>3. \A x : x \in sel_byId <=> \E s \in SelStreams : x \in of(s) BY <1>1
<1> QED BY <1>2, <1>3

\* A committed selection stands in its stream at its version.
LEMMA SelPlace ==
    ASSUME Sel!IndexesAgree, NEW x \in sel_byId
    PROVE  /\ x.version \in DOMAIN sel_streams[x.request.stream]
           /\ sel_streams[x.request.stream][x.version] = x
<1>1. PICK s \in SelStreams : \E n \in DOMAIN sel_streams[s] : x = sel_streams[s][n]
    BY SelCommitted
<1>2. PICK n \in DOMAIN sel_streams[s] : x = sel_streams[s][n] BY <1>1
<1>3. x.version = n /\ x.request.stream = s BY <1>1, <1>2 DEF Sel!IndexesAgree
<1> QED BY <1>2, <1>3

-----------------------------------------------------------------------------
(* Steps that touch one thread only                                         *)

\* A step that changes one thread's frame and nothing it commits.
LEMMA SelFrameStep ==
    ASSUME SelectionInv, NEW c \in SelCallers, NEW frame, SelHolds(frame, sel_byId),
           sel_call' = [sel_call EXCEPT ![c] = frame], Sel!ReadOnly
    PROVE  SelectionInv'
<1>1. \A d \in SelCallers : sel_call'[d] = IF d = c THEN frame ELSE sel_call[d]
    BY DEF SelectionInv, SelTyped
<1>2. sel_call' \in [SelCallers -> SelFrames] BY DEF SelectionInv, SelTyped, SelHolds
<1>3. SelTyped' BY <1>2 DEF SelectionInv, SelTyped, Sel!ReadOnly
<1>4. Sel!IndexesAgree'
    BY DEF SelectionInv, Sel!ReadOnly, Sel!IndexesAgree, Sel!Appended
<1>5. \A d \in SelCallers : SelHolds(sel_call'[d], sel_byId')
    BY <1>1, Zenon DEF SelectionInv, Sel!ReadOnly
<1> QED BY <1>3, <1>4, <1>5 DEF SelectionInv

\* What Answer leaves in the frame of a thread.
LEMMA AnswerFrame ==
    ASSUME NEW frame \in SelFrames, NEW outcome, NEW x
    PROVE  [frame EXCEPT !.pc = "done", !.outcome = outcome, !.selection = x]
           = Sel!Frame("done", frame.request, frame.key, x, frame.history, outcome)
<1> DEFINE changed == [frame EXCEPT !.pc = "done", !.outcome = outcome, !.selection = x]
           answer == Sel!Frame("done", frame.request, frame.key, x, frame.history, outcome)
           Fields == {"pc", "request", "key", "selection", "history", "outcome"}
<1>1. frame = [i \in Fields |-> frame[i]] BY DEF SelFrames
<1>2. DOMAIN changed = Fields /\ changed = [i \in Fields |-> changed[i]] BY <1>1
<1>3. answer = [i \in Fields |-> answer[i]] BY DEF Sel!Frame
<1>4. /\ changed["pc"] = answer["pc"] /\ changed["request"] = answer["request"]
      /\ changed["key"] = answer["key"] /\ changed["selection"] = answer["selection"]
      /\ changed["history"] = answer["history"]
      /\ changed["outcome"] = answer["outcome"]
    BY <1>1 DEF Sel!Frame
<1> HIDE DEF changed, answer
<1>5. \A i \in Fields : changed[i] = answer[i] BY <1>4
<1> HIDE DEF Fields
<1>6. changed = answer BY <1>2, <1>3, <1>5
<1> QED BY <1>6 DEF changed, answer

\* What reading the history leaves there.
LEMMA ReadFrame ==
    ASSUME NEW frame \in SelFrames, NEW h
    PROVE  [frame EXCEPT !.pc = "done", !.outcome = "History", !.history = h]
           = Sel!Frame("done", frame.request, frame.key, frame.selection, h, "History")
<1> DEFINE changed == [frame EXCEPT !.pc = "done", !.outcome = "History", !.history = h]
           answer == Sel!Frame("done", frame.request, frame.key, frame.selection, h, "History")
           Fields == {"pc", "request", "key", "selection", "history", "outcome"}
<1>1. frame = [i \in Fields |-> frame[i]] BY DEF SelFrames
<1>2. DOMAIN changed = Fields /\ changed = [i \in Fields |-> changed[i]] BY <1>1
<1>3. answer = [i \in Fields |-> answer[i]] BY DEF Sel!Frame
<1>4. /\ changed["pc"] = answer["pc"] /\ changed["request"] = answer["request"]
      /\ changed["key"] = answer["key"] /\ changed["selection"] = answer["selection"]
      /\ changed["history"] = answer["history"]
      /\ changed["outcome"] = answer["outcome"]
    BY <1>1 DEF Sel!Frame
<1> HIDE DEF changed, answer
<1>5. \A i \in Fields : changed[i] = answer[i] BY <1>4
<1> HIDE DEF Fields
<1>6. changed = answer BY <1>2, <1>3, <1>5
<1> QED BY <1>6 DEF changed, answer

\* A selection committed for the caller's own request may be answered.
LEMMA GivenHolds ==
    ASSUME SelectionInv, NEW c \in SelCallers, sel_call[c].pc = "append",
           NEW ids, NEW x \in ids, x \in Sel!SelectionRecords,
           x.request = sel_call[c].request
    PROVE  SelHolds(Sel!Frame("done", sel_call[c].request, sel_call[c].key, x,
                              sel_call[c].history, "Accepted"), ids)
<1>1. sel_call[c] \in SelFrames BY DEF SelectionInv, SelTyped
<1>2. Sel!Frame("done", sel_call[c].request, sel_call[c].key, x,
                sel_call[c].history, "Accepted") \in SelFrames
    BY <1>1 DEF Sel!Frame, SelFrames, Sel!Outcome
<1> QED BY <1>2 DEF SelHolds, Sel!Frame

\* A refusal may be answered at any time.
LEMMA RefusalHolds ==
    ASSUME SelectionInv, NEW c \in SelCallers, NEW ids,
           NEW outcome \in {"Invalid", "IdempotencyConflict", "VersionConflict"}
    PROVE  SelHolds(Sel!Frame("done", sel_call[c].request, sel_call[c].key, None,
                              sel_call[c].history, outcome), ids)
<1>1. sel_call[c] \in SelFrames BY DEF SelectionInv, SelTyped
<1>2. Sel!Frame("done", sel_call[c].request, sel_call[c].key, None,
                sel_call[c].history, outcome) \in SelFrames
    BY <1>1 DEF Sel!Frame, SelFrames, Sel!Outcome
<1> QED BY <1>2 DEF SelHolds, Sel!Frame

\* evaluate up to its append.
LEMMA SelSubmitStep ==
    ASSUME SelectionInv, NEW c \in SelCallers, NEW r \in SelRequests,
           NEW k \in SelKeys, NEW v \in Versions, Sel!Submit(c, r, k, v)
    PROVE  SelectionInv'
<1> DEFINE refused == Sel!Frame("done", r, k, None, <<>>, "Invalid")
           evaluated == Sel!Frame("append", r, k, Sel!Evaluate(r, v + 1), <<>>, None)
<1>1. Sel!Evaluate(r, v + 1) \in Sel!SelectionRecords BY DEF Sel!SelectionRecords
<1>2. Sel!Evaluate(r, v + 1).request = r BY DEF Sel!Evaluate
<1>3. <<>> \in Seq(Sel!SelectionRecords) OBVIOUS
<1>4. refused \in SelFrames /\ evaluated \in SelFrames
    BY <1>1, <1>3 DEF Sel!Frame, SelFrames, Sel!Outcome
<1>5. SelHolds(refused, sel_byId) BY <1>4 DEF SelHolds, Sel!Frame
<1>6. SelHolds(evaluated, sel_byId)
    BY SelectionAssumption, <1>1, <1>2, <1>4
       DEF SelHolds, Sel!Frame, Sel!ServiceAssumption, Sel!Outcome
<1>7. \/ sel_call' = [sel_call EXCEPT ![c] = refused]
      \/ sel_call' = [sel_call EXCEPT ![c] = evaluated]
    BY DEF Sel!Submit
<1>8. Sel!ReadOnly BY DEF Sel!Submit
<1> QED BY <1>5, <1>6, <1>7, <1>8, SelFrameStep

\* append meets its key, or a version that has moved on: nothing is committed.
LEMMA SelAppendLosesStep ==
    ASSUME SelectionInv, NEW c \in SelCallers, Sel!AppendLoses(c)
    PROVE  SelectionInv'
<1>1. sel_call[c] \in SelFrames /\ SelHolds(sel_call[c], sel_byId)
    BY DEF SelectionInv, SelTyped
<1>2. sel_call[c].pc = "append" /\ Sel!ReadOnly BY DEF Sel!AppendLoses
<1>3. sel_call[c].request \in SelRequests /\ sel_call[c].key \in SelKeys
    BY <1>1, <1>2 DEF SelHolds
<1>4. Sel!OperationKey(c) \in Sel!OperationKeys
    BY SelectionAssumption, <1>3
       DEF Sel!OperationKey, Sel!OperationKeys, Sel!ServiceAssumption
<1>5. CASE Sel!Prior(c) # None /\ Sel!Prior(c).request = sel_call[c].request
  <2>1. Sel!Prior(c) \in sel_byId
      BY <1>4, <1>5 DEF SelectionInv, Sel!IndexesAgree, Sel!Prior
  <2>2. Sel!Prior(c) \in Sel!SelectionRecords BY <2>1 DEF SelectionInv, SelTyped
  <2>3. Sel!Answer(c, "Accepted", Sel!Prior(c)) BY <1>5 DEF Sel!AppendLoses
  <2>4. sel_call' = [sel_call EXCEPT ![c] =
                   Sel!Frame("done", sel_call[c].request, sel_call[c].key, Sel!Prior(c),
                         sel_call[c].history, "Accepted")]
      BY <1>1, <2>3, AnswerFrame DEF Sel!Answer
  <2>5. SelHolds(Sel!Frame("done", sel_call[c].request, sel_call[c].key, Sel!Prior(c),
                           sel_call[c].history, "Accepted"), sel_byId)
      BY <1>2, <1>5, <2>1, <2>2, GivenHolds
  <2> QED BY <1>2, <2>4, <2>5, SelFrameStep
<1>6. CASE ~(Sel!Prior(c) # None /\ Sel!Prior(c).request = sel_call[c].request)
  <2>1. PICK outcome \in {"IdempotencyConflict", "VersionConflict"} :
           Sel!Answer(c, outcome, None)
      BY <1>6 DEF Sel!AppendLoses
  <2>2. sel_call' = [sel_call EXCEPT ![c] =
                   Sel!Frame("done", sel_call[c].request, sel_call[c].key, None,
                         sel_call[c].history, outcome)]
      BY <1>1, <2>1, AnswerFrame DEF Sel!Answer
  <2> QED BY <1>2, <2>2, RefusalHolds, SelFrameStep
<1> QED BY <1>5, <1>6

\* replay: the committed selection is what its own request evaluates to.
LEMMA SelReplayStep ==
    ASSUME SelectionInv, NEW c \in SelCallers, NEW x \in sel_byId, Sel!Replay(c, x)
    PROVE  SelectionInv'
<1> DEFINE frame == Sel!Frame("done", x.request, None, x, <<>>, "Replayed")
<1>1. x \in Sel!SelectionRecords BY DEF SelectionInv, SelTyped
<1>2. Sel!Evaluate(x.request, x.version) = x /\ x.request \in SelRequests
    BY <1>1, SelectionFields
<1>3. <<>> \in Seq(Sel!SelectionRecords) OBVIOUS
<1>4. frame \in SelFrames BY <1>1, <1>2, <1>3 DEF Sel!Frame, SelFrames, Sel!Outcome
<1>5. SelHolds(frame, sel_byId) BY <1>4 DEF SelHolds, Sel!Frame
<1>6. sel_call' = [sel_call EXCEPT ![c] = frame] /\ Sel!ReadOnly BY <1>2 DEF Sel!Replay
<1> QED BY <1>5, <1>6, SelFrameStep

\* history: the two acquisitions of the lock.
LEMMA SelHistoryStep ==
    ASSUME SelectionInv, NEW c \in SelCallers,
           (\E x \in sel_byId : Sel!AskHistory(c, x)) \/ Sel!ReadHistory(c)
    PROVE  SelectionInv'
<1>1. ASSUME NEW x \in sel_byId, Sel!AskHistory(c, x) PROVE SelectionInv'
  <2> DEFINE frame == Sel!Frame("history", x.request, None, x, <<>>, None)
  <2>1. x \in Sel!SelectionRecords /\ x.request \in SelRequests
      BY SelectionFields DEF SelectionInv, SelTyped
  <2>2. <<>> \in Seq(Sel!SelectionRecords) OBVIOUS
  <2>3. frame \in SelFrames BY <2>1, <2>2 DEF Sel!Frame, SelFrames
  <2>4. SelHolds(frame, sel_byId)
      BY SelectionAssumption, <2>3
         DEF SelHolds, Sel!Frame, Sel!ServiceAssumption, Sel!Outcome
  <2>5. sel_call' = [sel_call EXCEPT ![c] = frame] /\ Sel!ReadOnly
      BY <1>1 DEF Sel!AskHistory
  <2> QED BY <2>4, <2>5, SelFrameStep
<1>2. CASE Sel!ReadHistory(c)
  <2> DEFINE x == sel_call[c].selection
             h == sel_streams[sel_call[c].request.stream]
             frame == Sel!Frame("done", sel_call[c].request, sel_call[c].key, x, h, "History")
  <2>1. /\ sel_call[c] \in SelFrames
        /\ SelHolds(sel_call[c], sel_byId)
        /\ sel_call[c].pc = "history"
      BY <1>2 DEF SelectionInv, SelTyped, Sel!ReadHistory
  <2>2. x \in sel_byId /\ sel_call[c].request = x.request BY <2>1 DEF SelHolds
  <2>3. x \in Sel!SelectionRecords /\ x.request.stream \in SelStreams
      BY <2>2, SelectionFields DEF SelectionInv, SelTyped
  <2>4. h \in Seq(Sel!SelectionRecords) BY <2>2, <2>3 DEF SelectionInv, SelTyped
  <2>5. h[x.version] = x BY <2>2, SelPlace DEF SelectionInv
  <2>6. frame \in SelFrames BY <2>1, <2>4 DEF Sel!Frame, SelFrames, Sel!Outcome
  <2>7. SelHolds(frame, sel_byId) BY <2>5, <2>6 DEF SelHolds, Sel!Frame
  <2>8. sel_call' = [sel_call EXCEPT ![c] =
                       [sel_call[c] EXCEPT !.pc = "done", !.outcome = "History",
                                        !.history = h]]
      BY <1>2 DEF Sel!ReadHistory, SelectionInv, SelTyped
  <2>9. [sel_call[c] EXCEPT !.pc = "done", !.outcome = "History", !.history = h] = frame
      BY <2>1, ReadFrame
  <2>10. Sel!ReadOnly BY <1>2 DEF Sel!ReadHistory
  <2> QED BY <2>7, <2>8, <2>9, <2>10, SelFrameStep
<1> QED BY <1>1, <1>2

\* The call returns.
LEMMA SelReturnStep ==
    ASSUME SelectionInv, NEW c \in SelCallers, Sel!Return(c)
    PROVE  SelectionInv'
<1>1. <<>> \in Seq(Sel!SelectionRecords) OBVIOUS
<1>2. Sel!Idle \in SelFrames BY <1>1 DEF Sel!Idle, Sel!Frame, SelFrames
<1>3. SelHolds(Sel!Idle, sel_byId)
    BY SelectionAssumption, <1>2
       DEF SelHolds, Sel!Idle, Sel!Frame, Sel!ServiceAssumption, Sel!Outcome
<1> QED BY <1>3, SelFrameStep DEF Sel!Return

-----------------------------------------------------------------------------
(* Commits                                                                  *)

\* A thread about to append holds a request and key of its stream, and the
\* selection evaluated for the version it expects.
LEMMA SelAppendHolds ==
    ASSUME SelectionInv, NEW c \in SelCallers, sel_call[c].pc = "append"
    PROVE  /\ sel_call[c] \in SelFrames
           /\ sel_call[c].request \in SelRequests
           /\ sel_call[c].request.stream \in SelStreams
           /\ Sel!OperationKey(c) \in Sel!OperationKeys
           /\ Sel!OperationKey(c)[1] = sel_call[c].request.stream
           /\ sel_call[c].selection \in Sel!SelectionRecords
           /\ sel_call[c].selection.request = sel_call[c].request
<1>1. sel_call[c] \in SelFrames /\ SelHolds(sel_call[c], sel_byId)
    BY DEF SelectionInv, SelTyped
<1>2. sel_call[c].request \in SelRequests /\ sel_call[c].key \in SelKeys
    BY <1>1 DEF SelHolds
<1>3. sel_call[c].request.stream \in SelStreams
    BY SelectionAssumption, <1>2 DEF Sel!ServiceAssumption
<1>4. Sel!OperationKey(c) = <<sel_call[c].request.stream, sel_call[c].key>>
    BY DEF Sel!OperationKey
<1>5. /\ Sel!OperationKey(c) \in Sel!OperationKeys
      /\ Sel!OperationKey(c)[1] = sel_call[c].request.stream
    BY <1>2, <1>3, <1>4 DEF Sel!OperationKeys
<1> QED BY <1>1, <1>2, <1>3, <1>5 DEF SelHolds

\* The selection append commits is the one its caller evaluated.
LEMMA AcceptEffect ==
    ASSUME SelectionInv, NEW c \in SelCallers, Sel!Accept(c)
    PROVE  LET x == sel_call[c].selection
               s == sel_call[c].request.stream
           IN  /\ x \in Sel!SelectionRecords
               /\ s \in SelStreams
               /\ x.request = sel_call[c].request
               /\ x.version = Len(sel_streams[s]) + 1
               /\ Sel!Prior(c) = None /\ Sel!Known(c) = {}
               /\ sel_streams' = [sel_streams EXCEPT ![s] = Append(sel_streams[s], x)]
               /\ sel_byId' = sel_byId \cup {x}
               /\ sel_idempotency' = [sel_idempotency EXCEPT ![Sel!OperationKey(c)] = x]
               /\ Sel!Answer(c, "Accepted", x)
<1> DEFINE x == sel_call[c].selection
           s == sel_call[c].request.stream
<1>1. x \in Sel!SelectionRecords /\ s \in SelStreams /\ x.request = sel_call[c].request
    BY SelAppendHolds DEF Sel!Accept
<1>2. x.version - 1 = Len(sel_streams[s]) BY DEF Sel!Accept, Sel!Expected, Sel!Current
<1>3. x.version = Len(sel_streams[s]) + 1
  <2>1. x.version \in Nat BY <1>1, SelectionFields
  <2>2. Len(sel_streams[s]) \in Nat BY <1>1 DEF SelectionInv, SelTyped
  <2> QED BY <1>2, <2>1, <2>2
<1>4. [x EXCEPT !.version = Sel!Current(c) + 1] = x
    BY <1>1, <1>3, SameVersion DEF Sel!Current
<1> QED BY <1>1, <1>3, <1>4 DEF Sel!Accept

\* Where the commit lands in the streams.
LEMMA SelStreamsAfter ==
    ASSUME SelectionInv, NEW c \in SelCallers, Sel!Accept(c), NEW t \in SelStreams
    PROVE  LET x == sel_call[c].selection
               s == sel_call[c].request.stream
           IN  IF t = s
               THEN /\ DOMAIN sel_streams'[t] =
                           DOMAIN sel_streams[t] \cup {Len(sel_streams[t]) + 1}
                    /\ \A i \in DOMAIN sel_streams[t] : sel_streams'[t][i] = sel_streams[t][i]
                    /\ sel_streams'[t][Len(sel_streams[t]) + 1] = x
                    /\ sel_streams'[t] = Append(sel_streams[t], x)
               ELSE sel_streams'[t] = sel_streams[t]
<1> DEFINE x == sel_call[c].selection
           s == sel_call[c].request.stream
<1>1. sel_streams' = [sel_streams EXCEPT ![s] = Append(sel_streams[s], x)]
    BY AcceptEffect
<1>2. sel_streams[t] \in Seq(Sel!SelectionRecords) BY DEF SelectionInv, SelTyped
<1>3. sel_streams'[t] = IF t = s THEN Append(sel_streams[t], x) ELSE sel_streams[t]
    BY <1>1 DEF SelectionInv, SelTyped
<1>4. CASE t = s
  <2> DEFINE h == sel_streams[t]
  <2>1. DOMAIN h = 1 .. Len(h) /\ Len(h) \in Nat BY <1>2
  <2>2. /\ Append(h, x) \in Seq(Sel!SelectionRecords \cup {x})
        /\ Len(Append(h, x)) = Len(h) + 1
      BY <1>2
  <2>3. DOMAIN Append(h, x) = 1 .. (Len(h) + 1) BY <2>2
  <2>4. \A i \in 1 .. Len(h) : Append(h, x)[i] = h[i] BY <1>2
  <2>5. Append(h, x)[Len(h) + 1] = x BY <1>2
  <2>6. 1 .. (Len(h) + 1) = (1 .. Len(h)) \cup {Len(h) + 1} BY <2>1
  <2> HIDE DEF h
  <2> QED BY <1>3, <1>4, <2>1, <2>3, <2>4, <2>5, <2>6 DEF h
<1>5. CASE t # s BY <1>3, <1>5
<1> QED BY <1>4, <1>5

\* The commit keeps the types.
LEMMA TypedAccept ==
    ASSUME SelectionInv, NEW c \in SelCallers, Sel!Accept(c)
    PROVE  SelTyped'
<1> DEFINE x == sel_call[c].selection
           s == sel_call[c].request.stream
<1>1. SelTyped BY DEF SelectionInv
<1>2. /\ x \in Sel!SelectionRecords /\ s \in SelStreams
      /\ sel_streams' = [sel_streams EXCEPT ![s] = Append(sel_streams[s], x)]
      /\ sel_byId' = sel_byId \cup {x}
      /\ sel_idempotency' = [sel_idempotency EXCEPT ![Sel!OperationKey(c)] = x]
      /\ Sel!Answer(c, "Accepted", x)
    BY AcceptEffect
<1>3. sel_call[c] \in SelFrames BY <1>1 DEF SelTyped
<1>4. Sel!Frame("done", sel_call[c].request, sel_call[c].key, x,
                sel_call[c].history, "Accepted") \in SelFrames
    BY <1>2, <1>3 DEF Sel!Frame, SelFrames, Sel!Outcome
<1>5. sel_call' \in [SelCallers -> SelFrames]
    BY <1>1, <1>2, <1>3, <1>4, AnswerFrame DEF Sel!Answer, SelTyped
<1>6. Append(sel_streams[s], x) \in Seq(Sel!SelectionRecords) BY <1>1, <1>2 DEF SelTyped
<1>7. sel_streams' \in [SelStreams -> Seq(Sel!SelectionRecords)]
    BY <1>1, <1>2, <1>6 DEF SelTyped
<1>8. sel_idempotency' \in [Sel!OperationKeys -> Sel!SelectionRecords \cup {None}]
    BY <1>1, <1>2 DEF SelTyped
<1> QED BY <1>1, <1>2, <1>5, <1>7, <1>8 DEF SelTyped

\* append changes the three tables one by one, and they agree when it is done.
LEMMA IndexesAccept ==
    ASSUME SelectionInv, NEW c \in SelCallers, Sel!Accept(c)
    PROVE  Sel!IndexesAgree'
<1> DEFINE x == sel_call[c].selection
           s == sel_call[c].request.stream
           n == Len(sel_streams[s]) + 1
<1>1. /\ x \in Sel!SelectionRecords
      /\ s \in SelStreams
      /\ x.request = sel_call[c].request
      /\ x.version = n /\ Sel!Known(c) = {}
      /\ sel_byId' = sel_byId \cup {x}
      /\ sel_idempotency' = [sel_idempotency EXCEPT ![Sel!OperationKey(c)] = x]
    BY AcceptEffect
<1>2. Sel!IndexesAgree /\ SelTyped BY DEF SelectionInv
<1>3. \A t \in SelStreams : t # s => sel_streams'[t] = sel_streams[t] BY SelStreamsAfter
<1>4. /\ DOMAIN sel_streams'[s] = DOMAIN sel_streams[s] \cup {n}
      /\ \A i \in DOMAIN sel_streams[s] : sel_streams'[s][i] = sel_streams[s][i]
      /\ sel_streams'[s][n] = x
    BY <1>1, SelStreamsAfter
<1>5. x.request.stream = s BY <1>1
<1>6. \A y \in sel_byId : Sel!SelectionId(y.request) # Sel!SelectionId(x.request)
    BY <1>1 DEF Sel!Known
<1>7. Sel!OperationKey(c) \in Sel!OperationKeys /\ Sel!OperationKey(c)[1] = s
    BY SelAppendHolds DEF Sel!Accept
<1> HIDE DEF x, s, n
<1>8. sel_byId' = Sel!Appended'
  <2> DEFINE held(t) == {sel_streams[t][i] : i \in DOMAIN sel_streams[t]}
             after(t) == {sel_streams'[t][i] : i \in DOMAIN sel_streams'[t]}
  <2>1. sel_byId = UNION {held(t) : t \in SelStreams}
      BY <1>2 DEF Sel!IndexesAgree, Sel!Appended
  <2>2. \A t \in SelStreams : t # s => after(t) = held(t) BY <1>3
  <2>3. after(s) = held(s) \cup {x} BY <1>4
  <2> HIDE DEF held, after
  <2>4. UNION {after(t) : t \in SelStreams} = (UNION {held(t) : t \in SelStreams}) \cup {x}
      BY <1>1, <2>2, <2>3
  <2>5. sel_byId' = UNION {after(t) : t \in SelStreams} BY <1>1, <2>1, <2>4
  <2> QED BY <2>5 DEF after, Sel!Appended
<1>9. \A t \in SelStreams : \A i \in DOMAIN sel_streams'[t] :
         sel_streams'[t][i].version = i /\ sel_streams'[t][i].request.stream = t
  <2>1. \A t \in SelStreams : \A i \in DOMAIN sel_streams[t] :
           sel_streams[t][i].version = i /\ sel_streams[t][i].request.stream = t
      BY <1>2 DEF Sel!IndexesAgree
  <2> QED BY <1>1, <1>3, <1>4, <1>5, <2>1
<1>10. \A y, z \in sel_byId' :
          Sel!SelectionId(y.request) = Sel!SelectionId(z.request) => y = z
  <2>1. \A y, z \in sel_byId :
           Sel!SelectionId(y.request) = Sel!SelectionId(z.request) => y = z
      BY <1>2 DEF Sel!IndexesAgree
  <2> QED BY <1>1, <1>6, <2>1
<1>11. \A o \in Sel!OperationKeys : sel_idempotency'[o] # None =>
          sel_idempotency'[o] \in sel_byId' /\ sel_idempotency'[o].request.stream = o[1]
  <2>1. \A o \in Sel!OperationKeys : sel_idempotency[o] # None =>
           sel_idempotency[o] \in sel_byId /\ sel_idempotency[o].request.stream = o[1]
      BY <1>2 DEF Sel!IndexesAgree
  <2>2. \A o \in Sel!OperationKeys :
           sel_idempotency'[o] = IF o = Sel!OperationKey(c) THEN x
                                                 ELSE sel_idempotency[o]
      BY <1>1, <1>2 DEF SelTyped
  <2> QED BY <1>1, <1>5, <1>7, <2>1, <2>2
<1> QED BY <1>8, <1>9, <1>10, <1>11 DEF Sel!IndexesAgree

\* Threads keep what they hold while more is committed, and the one that commits
\* is told of its own selection.
LEMMA SelAcceptStep ==
    ASSUME SelectionInv, NEW c \in SelCallers, Sel!Accept(c)
    PROVE  SelectionInv'
<1> DEFINE x == sel_call[c].selection
           frame == Sel!Frame("done", sel_call[c].request, sel_call[c].key, x,
                              sel_call[c].history, "Accepted")
<1>1. /\ x \in Sel!SelectionRecords /\ x.request = sel_call[c].request
      /\ sel_byId' = sel_byId \cup {x} /\ Sel!Answer(c, "Accepted", x)
    BY AcceptEffect
<1>2. sel_call[c] \in SelFrames /\ sel_call[c].pc = "append"
    BY DEF SelectionInv, SelTyped, Sel!Accept
<1>3. SelHolds(frame, sel_byId') BY <1>1, <1>2, GivenHolds
<1>4. sel_call' = [sel_call EXCEPT ![c] = frame]
    BY <1>1, <1>2, AnswerFrame DEF Sel!Answer
<1>5. \A d \in SelCallers : sel_call'[d] = IF d = c THEN frame ELSE sel_call[d]
    BY <1>4 DEF SelectionInv, SelTyped
<1>6. \A d \in SelCallers : SelHolds(sel_call[d], sel_byId')
    BY <1>1 DEF SelectionInv, SelHolds
<1>7. \A d \in SelCallers : SelHolds(sel_call'[d], sel_byId') BY <1>3, <1>5, <1>6
<1> QED BY <1>7, TypedAccept, IndexesAccept DEF SelectionInv

\* A key that joins a retained selection leads to one of its own stream, which was
\* made for the very request.
LEMMA SelAcceptKnownStep ==
    ASSUME SelectionInv, NEW c \in SelCallers, Sel!AcceptKnown(c)
    PROVE  SelectionInv'
<1>1. /\ sel_call[c].pc = "append" /\ UNCHANGED <<sel_streams, sel_byId>>
      /\ \E x \in Sel!Known(c) :
            IF x.request = sel_call[c].request
            THEN /\ sel_idempotency' = [sel_idempotency EXCEPT ![Sel!OperationKey(c)] = x]
                 /\ Sel!Answer(c, "Accepted", x)
            ELSE /\ Sel!Answer(c, "IdempotencyConflict", None)
                 /\ UNCHANGED sel_idempotency
    BY DEF Sel!AcceptKnown
<1>2. sel_call[c] \in SelFrames /\ Sel!OperationKey(c) \in Sel!OperationKeys
      /\ Sel!OperationKey(c)[1] = sel_call[c].request.stream
    BY <1>1, SelAppendHolds
<1>3. ASSUME Sel!Answer(c, "IdempotencyConflict", None), UNCHANGED sel_idempotency
      PROVE  SelectionInv'
  <2> DEFINE frame == Sel!Frame("done", sel_call[c].request, sel_call[c].key, None,
                                sel_call[c].history, "IdempotencyConflict")
  <2>1. sel_call' = [sel_call EXCEPT ![c] = frame]
      BY <1>2, <1>3, AnswerFrame DEF Sel!Answer
  <2>2. SelHolds(frame, sel_byId) BY RefusalHolds
  <2>3. Sel!ReadOnly BY <1>1, <1>3 DEF Sel!ReadOnly
  <2> QED BY <2>1, <2>2, <2>3, SelFrameStep
<1>4. ASSUME NEW x \in sel_byId, x.request = sel_call[c].request,
             sel_idempotency' = [sel_idempotency EXCEPT ![Sel!OperationKey(c)] = x],
             Sel!Answer(c, "Accepted", x)
      PROVE  SelectionInv'
  <2> DEFINE frame == Sel!Frame("done", sel_call[c].request, sel_call[c].key, x,
                                sel_call[c].history, "Accepted")
  <2>1. x \in Sel!SelectionRecords BY DEF SelectionInv, SelTyped
  <2>2. sel_call' = [sel_call EXCEPT ![c] = frame]
      BY <1>2, <1>4, AnswerFrame DEF Sel!Answer
  <2>3. SelHolds(frame, sel_byId) BY <1>1, <1>4, <2>1, GivenHolds
  <2>4. \A d \in SelCallers : SelHolds(sel_call'[d], sel_byId')
      BY <1>1, <2>2, <2>3 DEF SelectionInv, SelTyped
  <2>5. \A o \in Sel!OperationKeys :
           sel_idempotency'[o] = IF o = Sel!OperationKey(c) THEN x
                                                 ELSE sel_idempotency[o]
      BY <1>4 DEF SelectionInv, SelTyped
  <2>6. Sel!IndexesAgree'
    <3>1. \A o \in Sel!OperationKeys : sel_idempotency[o] # None =>
             sel_idempotency[o] \in sel_byId /\ sel_idempotency[o].request.stream = o[1]
        BY DEF SelectionInv, Sel!IndexesAgree
    <3>2. \A o \in Sel!OperationKeys : sel_idempotency'[o] # None =>
             sel_idempotency'[o] \in sel_byId /\ sel_idempotency'[o].request.stream = o[1]
        BY <1>2, <1>4, <2>5, <3>1
    <3> QED BY <1>1, <3>2 DEF SelectionInv, Sel!IndexesAgree, Sel!Appended
  <2>7. frame \in SelFrames BY <2>3 DEF SelHolds
  <2>8. SelTyped' BY <1>1, <1>4, <2>1, <2>2, <2>7 DEF SelectionInv, SelTyped
  <2> QED BY <2>4, <2>6, <2>8 DEF SelectionInv
<1> QED BY <1>1, <1>3, <1>4 DEF Sel!Known

-----------------------------------------------------------------------------
(* The invariant                                                            *)

\* An empty history and idle threads.
LEMMA SelectionInit == Sel!Init => SelectionInv
<1> SUFFICES ASSUME Sel!Init PROVE SelectionInv OBVIOUS
<1>1. <<>> \in Seq(Sel!SelectionRecords) OBVIOUS
<1>2. Sel!Idle \in SelFrames BY <1>1 DEF Sel!Idle, Sel!Frame, SelFrames
<1>3. SelTyped BY <1>1, <1>2 DEF Sel!Init, SelTyped
<1>4. Sel!IndexesAgree
  <2>1. \A s \in SelStreams : {sel_streams[s][n] : n \in DOMAIN sel_streams[s]} = {}
      BY DEF Sel!Init
  <2>2. sel_byId = Sel!Appended BY <2>1, Zenon DEF Sel!Init, Sel!Appended
  <2> QED BY <2>2 DEF Sel!Init, Sel!IndexesAgree
<1>5. \A c \in SelCallers : SelHolds(sel_call[c], sel_byId)
    BY SelectionAssumption, <1>2
       DEF Sel!Init, SelHolds, Sel!Idle, Sel!Frame, Sel!ServiceAssumption, Sel!Outcome
<1> QED BY <1>3, <1>4, <1>5 DEF SelectionInv

\* Every step of the service keeps the invariant.
LEMMA SelectionNext == SelectionInv /\ [Sel!Next]_(Sel!vars) => SelectionInv'
<1> SUFFICES ASSUME SelectionInv, [Sel!Next]_(Sel!vars) PROVE SelectionInv' OBVIOUS
<1>1. ASSUME NEW c \in SelCallers, Sel!CallStep(c) PROVE SelectionInv'
    BY <1>1, SelAcceptStep, SelAcceptKnownStep, SelAppendLosesStep, SelHistoryStep,
       SelReturnStep
       DEF Sel!CallStep
<1>2. ASSUME NEW c \in SelCallers, NEW x \in sel_byId,
             Sel!Replay(c, x) \/ Sel!AskHistory(c, x)
      PROVE SelectionInv'
    BY <1>2, SelReplayStep, SelHistoryStep
<1>3. CASE UNCHANGED Sel!vars
  <2>1. /\ sel_streams' = sel_streams
        /\ sel_byId' = sel_byId
        /\ sel_idempotency' = sel_idempotency
        /\ sel_call' = sel_call
      BY <1>3 DEF Sel!vars
  <2>2. SelTyped' BY <2>1 DEF SelectionInv, SelTyped
  <2>3. Sel!IndexesAgree' BY <2>1 DEF SelectionInv, Sel!IndexesAgree, Sel!Appended
  <2>4. \A c \in SelCallers : SelHolds(sel_call'[c], sel_byId')
      BY <2>1, Zenon DEF SelectionInv
  <2> QED BY <2>2, <2>3, <2>4 DEF SelectionInv
<1> QED BY <1>1, <1>2, <1>3, SelSubmitStep DEF Sel!Next

\* The inductive invariant holds of every reachable state: each table entry is a
\* selection evaluated for its place, and what a thread is given is committed.
THEOREM SelectionInvariant == Sel!Spec => []SelectionInv
<1>1. Sel!Init => SelectionInv BY SelectionInit
<1>2. SelectionInv /\ [Sel!Next]_(Sel!vars) => SelectionInv' BY SelectionNext
<1> QED BY <1>1, <1>2, PTL DEF Sel!Spec

\* The history of worker selections stands however threads race for it: the three
\* tables agree, answers are committed and made for the very request, a history
\* holds the selection it was asked for, and every selection replays
\* (InMemoryWorkerSelectionHistory, WorkerSelectionService).
THEOREM SelectionsAlwaysStand == Sel!Spec => []SelectionsStand
<1>1. SelectionInv => SelectionsStand
    BY DEF SelectionInv, SelHolds, SelectionsStand, Sel!SelectionsStand,
           Sel!AnswersAreCommitted, Sel!HistoryHoldsSelection, Sel!SelectionsReplay
<1> QED BY <1>1, SelectionInvariant, PTL

-----------------------------------------------------------------------------
(* What a step may never do                                                 *)

\* The history of selections is append-only, and a key once used leads to the same
\* selection for good (history.py, append).
THEOREM SelectionsAppendOnly == Sel!Spec => Sel!AppendOnly
<1> DEFINE Grows ==
             /\ \A s \in SelStreams :
                   /\ Len(sel_streams'[s]) \in Len(sel_streams[s]) .. Len(sel_streams[s]) + 1
                   /\ SubSeq(sel_streams'[s], 1, Len(sel_streams[s])) = sel_streams[s]
             /\ sel_byId \subseteq sel_byId'
             /\ \A o \in Sel!OperationKeys :
                   sel_idempotency[o] # None => sel_idempotency'[o] = sel_idempotency[o]
<1>1. ASSUME SelectionInv, UNCHANGED sel_streams
      PROVE  \A s \in SelStreams :
                /\ Len(sel_streams'[s]) \in Len(sel_streams[s]) .. Len(sel_streams[s]) + 1
                /\ SubSeq(sel_streams'[s], 1, Len(sel_streams[s])) = sel_streams[s]
  <2>1. \A s \in SelStreams : sel_streams[s] \in Seq(Sel!SelectionRecords)
      BY <1>1 DEF SelectionInv, SelTyped
  <2>2. \A s \in SelStreams :
           SubSeq(sel_streams[s], 1, Len(sel_streams[s])) = sel_streams[s]
      BY <2>1, SubSeqFull
  <2>3. \A s \in SelStreams : Len(sel_streams[s]) \in Nat BY <2>1
  <2> QED BY <1>1, <2>2, <2>3
<1>2. ASSUME SelectionInv, NEW c \in SelCallers, Sel!Accept(c) PROVE Grows
  <2> DEFINE x == sel_call[c].selection
  <2>1. /\ x \in Sel!SelectionRecords
        /\ Sel!Prior(c) = None
        /\ sel_byId' = sel_byId \cup {x}
        /\ sel_idempotency' = [sel_idempotency EXCEPT ![Sel!OperationKey(c)] = x]
      BY <1>2, AcceptEffect
  <2>2. \A s \in SelStreams :
           sel_streams'[s] = Append(sel_streams[s], x) \/ sel_streams'[s] = sel_streams[s]
      BY <1>2, SelStreamsAfter
  <2> HIDE DEF x
  <2>3. ASSUME NEW s \in SelStreams
        PROVE  /\ Len(sel_streams'[s]) \in Len(sel_streams[s]) .. Len(sel_streams[s]) + 1
               /\ SubSeq(sel_streams'[s], 1, Len(sel_streams[s])) = sel_streams[s]
    <3>1. sel_streams[s] \in Seq(Sel!SelectionRecords)
        BY <1>2 DEF SelectionInv, SelTyped
    <3>2. CASE sel_streams'[s] = Append(sel_streams[s], x)
      <4>1. /\ Len(Append(sel_streams[s], x)) = Len(sel_streams[s]) + 1
            /\ Len(sel_streams[s]) \in Nat
          BY <3>1
      <4>2. SubSeq(Append(sel_streams[s], x), 1, Len(sel_streams[s])) = sel_streams[s]
          BY <2>1, <3>1, PrefixKept
      <4> QED BY <3>2, <4>1, <4>2
    <3>3. CASE sel_streams'[s] = sel_streams[s]
      <4>1. SubSeq(sel_streams[s], 1, Len(sel_streams[s])) = sel_streams[s]
          BY <3>1, SubSeqFull
      <4>2. Len(sel_streams[s]) \in Nat BY <3>1
      <4> QED BY <3>3, <4>1, <4>2
    <3> QED BY <2>2, <3>2, <3>3
  <2>4. \A o \in Sel!OperationKeys :
           sel_idempotency[o] # None => sel_idempotency'[o] = sel_idempotency[o]
      BY <1>2, <2>1 DEF Sel!Prior, SelectionInv, SelTyped
  <2> QED BY <2>1, <2>3, <2>4
<1>3. ASSUME SelectionInv, NEW c \in SelCallers, Sel!AcceptKnown(c) PROVE Grows
  <2>1. UNCHANGED <<sel_streams, sel_byId>> /\ Sel!Prior(c) = None
      BY <1>3 DEF Sel!AcceptKnown
  <2>2. \/ UNCHANGED sel_idempotency
        \/ \E x \in sel_byId :
              sel_idempotency' = [sel_idempotency EXCEPT ![Sel!OperationKey(c)] = x]
      BY <1>3 DEF Sel!AcceptKnown, Sel!Known
  <2>3. \A o \in Sel!OperationKeys :
           sel_idempotency[o] # None => sel_idempotency'[o] = sel_idempotency[o]
      BY <1>3, <2>1, <2>2 DEF Sel!Prior, SelectionInv, SelTyped
  <2> QED BY <1>1, <1>3, <2>1, <2>3
<1>4. ASSUME SelectionInv, UNCHANGED <<sel_streams, sel_byId, sel_idempotency>> PROVE Grows
    BY <1>1, <1>4
<1>5. ASSUME [Sel!Next]_(Sel!vars)
      PROVE  \/ UNCHANGED <<sel_streams, sel_byId, sel_idempotency>>
             \/ \E c \in SelCallers : Sel!Accept(c) \/ Sel!AcceptKnown(c)
    BY <1>5
       DEF Sel!Next, Sel!vars, Sel!CallStep, Sel!Submit, Sel!Replay, Sel!AskHistory,
           Sel!AppendLoses, Sel!ReadHistory,
               Sel!Return, Sel!ReadOnly
<1>6. SelectionInv /\ [Sel!Next]_(Sel!vars) => [Grows]_(Sel!vars)
    BY <1>2, <1>3, <1>4, <1>5
<1> QED BY <1>6, SelectionInvariant, PTL DEF Sel!Spec, Sel!AppendOnly

\* An identical retry gets the selection its key was given, whatever version it
\* expects: append looks the key up before it compares the version.
THEOREM RetriesGetTheSelection == Sel!Spec => Sel!EquivalentRetriesConverge
<1>1. ASSUME SelectionInv, [Sel!Next]_(Sel!vars), NEW c \in SelCallers,
             sel_call[c].pc = "append",
             Sel!Prior(c) # None, Sel!Prior(c).request = sel_call[c].request,
             sel_call'[c] # sel_call[c]
      PROVE  sel_call'[c].outcome = "Accepted" /\ sel_call'[c].selection = Sel!Prior(c)
  <2>1. sel_call \in [SelCallers -> SelFrames] BY <1>1 DEF SelectionInv, SelTyped
  <2>2. \A t \in SelCallers :
           \A frame : sel_call' = [sel_call EXCEPT ![t] = frame] => t = c
      BY <1>1, <2>1
  <2>3. PICK t \in SelCallers :
           \/ Sel!CallStep(t)
           \/ \E r \in SelRequests, k \in SelKeys, v \in Versions : Sel!Submit(t, r, k, v)
           \/ \E x \in sel_byId : Sel!Replay(t, x) \/ Sel!AskHistory(t, x)
      BY <1>1 DEF Sel!Next, Sel!vars
  <2>4. sel_call' = [sel_call EXCEPT ![t] = sel_call'[t]]
      BY <2>1, <2>3
         DEF Sel!CallStep, Sel!Accept, Sel!AcceptKnown, Sel!AppendLoses,
             Sel!ReadHistory, Sel!Return,
                        Sel!Answer, Sel!Submit, Sel!Replay, Sel!AskHistory
  <2>5. t = c BY <2>2, <2>4
  <2>6. Sel!AppendLoses(c)
      BY <1>1, <2>3, <2>5
         DEF Sel!CallStep, Sel!Accept, Sel!AcceptKnown, Sel!ReadHistory, Sel!Return,
                              Sel!Submit, Sel!Replay, Sel!AskHistory
  <2>7. Sel!Answer(c, "Accepted", Sel!Prior(c)) BY <1>1, <2>6 DEF Sel!AppendLoses
  <2>8. sel_call'[c] = Sel!Frame("done", sel_call[c].request, sel_call[c].key,
                                 Sel!Prior(c), sel_call[c].history, "Accepted")
      BY <2>1, <2>7, AnswerFrame DEF Sel!Answer
  <2> QED BY <2>8 DEF Sel!Frame
<1>2. SelectionInv /\ [Sel!Next]_(Sel!vars) =>
         [ \A c \in SelCallers :
             sel_call[c].pc = "append"
             /\ Sel!Prior(c) # None /\ Sel!Prior(c).request = sel_call[c].request
             /\ sel_call'[c] # sel_call[c] =>
                sel_call'[c].outcome = "Accepted"
                /\ sel_call'[c].selection = Sel!Prior(c) ]_(Sel!vars)
    BY <1>1
<1> QED BY <1>2, SelectionInvariant, PTL DEF Sel!Spec, Sel!EquivalentRetriesConverge

\* Neither repository rewrites what it holds, and an equivalent retry gets the
\* decision or selection of the call it repeats (DispatchDecisionService.evaluate,
\* WorkerSelectionService.evaluate).
THEOREM AssignmentsConverge == Spec /\ Sel!Spec => RetriesConverge
BY DecisionsAppendOnly, RetriesGetTheDecision, SelectionsAppendOnly, RetriesGetTheSelection
   DEF RetriesConverge
=============================================================================
