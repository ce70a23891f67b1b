----------------------------- MODULE ClaimPolicy -----------------------------
(***************************************************************************)
(* The pure half of Work Claim: what a request is, which evidence makes it  *)
(* applicable, what the registered policy decides about it from the state   *)
(* a lineage's history replays to, and the replay itself.                   *)
(*                                                                         *)
(* A stream entry (WorkClaimRecord) and its event are one record here: the  *)
(* event content is the request's content plus what the policy decided.     *)
(* Event ids are digests of lineage, version and content, so equality of    *)
(* ids is equality of these records, and a causal event id is the lineage   *)
(* version of the event it names (0 for none).                              *)
(***************************************************************************)
EXTENDS Naturals, Sequences

CONSTANTS
    Lineages,      \* (organization, workload, plan, work item) keys
    Scopes,        \* (organization, workload) pairs
    ScopeOf,       \* the scope of each lineage
    Keys,          \* idempotency keys submitted by callers
    Dispatches,    \* ids of Dispatch Decisions
    DispatchOf,    \* what each decision retains: approved, lineage, candidate
    Evidence,      \* ids of claimant evidence
    EvidenceOf,    \* what it retains: scope, claimant, candidate, from, until
    Candidates,
    Claimants,
    TTL,           \* claim_ttl_seconds of the registered policy
    None           \* Python's None

Operation == {"CREATE_GENERATION", "CLAIM", "EXPIRE", "RELEASE"}

EventType == {"GENERATION_CREATED", "CLAIM_ACCEPTED", "CLAIM_REJECTED",
              "CLAIM_EXPIRED", "CLAIM_RELEASED"}

\* "intact" stands for the digests, the policy and the boundary a request
\* names being the retained ones; times are seconds.
Request == [operation : Operation, lineage : Lineages, key : Keys,
            dispatch : Dispatches, evidence : Evidence, at : Nat,
            expected : Nat, intact : BOOLEAN]

ClaimEvent == [request : Request, type : EventType, version : Nat,
               generation : Nat, fence : Nat, causal : Nat]

ASSUME CatalogueAssumption ==
    /\ ScopeOf \in [Lineages -> Scopes]
    /\ DispatchOf \in [Dispatches -> [approved : BOOLEAN, lineage : Lineages,
                                      candidate : Candidates]]
    /\ EvidenceOf \in [Evidence -> [scope : Scopes, claimant : Claimants,
                                    candidate : Candidates, from : Nat, until : Nat]]
    /\ TTL \in Nat \ {0}

ASSUME NoneAssumption ==
    None \notin ClaimEvent /\ None \notin Request /\ None \notin Claimants

-----------------------------------------------------------------------------
(* Identities                                                               *)

\* The scoped idempotency identity: the operation, the lineage, the key.
Identities == Operation \X Lineages \X Keys
Identity(r) == <<r.operation, r.lineage, r.key>>

\* The canonical input: the whole request, except the key it was sent under.
Input(r) == [r EXCEPT !.key = None]

-----------------------------------------------------------------------------
(* Evidence                                                                 *)

Claimant(r)  == EvidenceOf[r.evidence].claimant
Candidate(r) == DispatchOf[r.dispatch].candidate

ClaimantMatchesCandidate(r) == EvidenceOf[r.evidence].candidate = Candidate(r)

\* Both references are retained in the request's own scope.
Found(r, retained) ==
    /\ r.dispatch \in retained
    /\ r.evidence \in retained
    /\ ScopeOf[DispatchOf[r.dispatch].lineage] = ScopeOf[r.lineage]
    /\ EvidenceOf[r.evidence].scope = ScopeOf[r.lineage]

Applicable(r) ==
    /\ r.intact
    /\ DispatchOf[r.dispatch].approved
    /\ DispatchOf[r.dispatch].lineage = r.lineage
    /\ EvidenceOf[r.evidence].from <= r.at
    /\ r.at <= EvidenceOf[r.evidence].until

Resolves(r, retained) == Found(r, retained) /\ Applicable(r)

-----------------------------------------------------------------------------
(* The policy                                                               *)

\* WorkClaimDerivedState; "ok" turns FALSE where the replay raises.
EmptyState == [ok |-> TRUE, version |-> 0, generation |-> 0, opened |-> None,
               accepted |-> None, ended |-> None, fence |-> 0, last |-> None]

DerivedState == [ok : BOOLEAN, version : Nat, generation : Nat,
                 opened : ClaimEvent \cup {None}, accepted : ClaimEvent \cup {None},
                 ended : ClaimEvent \cup {None}, fence : Nat,
                 last : ClaimEvent \cup {None}]

ExpiresAt(accepted) == accepted.request.at + TTL

InOrder(r, st) == st.last # None => r.at >= st.last.request.at

GenerationOpen(st) == st.opened # None /\ st.ended = None

MayCreate(st) == st.version = 0 \/ (st.opened # None /\ st.ended # None)

MayEnd(r, st) ==
    /\ GenerationOpen(st)
    /\ st.accepted # None
    /\ r.dispatch = st.accepted.request.dispatch

\* Mutant: the retained semantic time is not compared with the claim's expiry.
MayExpire_AnyTime(r, st) == MayEnd(r, st)

MayExpire(r, st) == MayEnd(r, st) /\ r.at >= ExpiresAt(st.accepted)

MayRelease(r, st) ==
    /\ MayEnd(r, st)
    /\ Claimant(r) = Claimant(st.accepted.request)
    /\ ClaimantMatchesCandidate(r)
    /\ EvidenceOf[r.evidence].candidate = Candidate(st.accepted.request)

\* The requests on which decide raises no IllegalTransition.
Legal(r, st) ==
    /\ InOrder(r, st)
    /\ r.operation = "CREATE_GENERATION" => MayCreate(st)
    /\ r.operation = "CLAIM" => GenerationOpen(st)
    /\ r.operation = "EXPIRE" => MayExpire(r, st)
    /\ r.operation = "RELEASE" => MayRelease(r, st)

Decision(type, generation, fence, causal) ==
    [type |-> type, generation |-> generation, fence |-> fence, causal |-> causal]

\* Mutant: a claim is not refused while another one is active.
Decide_NoActiveCheck(r, st) ==
    CASE r.operation = "CREATE_GENERATION" ->
            Decision("GENERATION_CREATED", st.generation + 1, 0,
                     IF st.version = 0 THEN 0 ELSE st.ended.version)
      [] r.operation = "CLAIM" ->
            Decision("CLAIM_ACCEPTED", st.generation, st.fence + 1, st.opened.version)
      [] r.operation = "EXPIRE" ->
            Decision("CLAIM_EXPIRED", st.generation, 0, st.accepted.version)
      [] r.operation = "RELEASE" ->
            Decision("CLAIM_RELEASED", st.generation, 0, st.accepted.version)

\* Mutant: a later generation names the accepted claim as its cause, not the
\* event that ended it.
Decide_CausedByClaim(r, st) ==
    CASE r.operation = "CREATE_GENERATION" ->
            Decision("GENERATION_CREATED", st.generation + 1, 0,
                     IF st.version = 0 THEN 0 ELSE st.accepted.version)
      [] r.operation = "CLAIM" ->
            IF st.accepted = None
            THEN Decision("CLAIM_ACCEPTED", st.generation, st.fence + 1, st.opened.version)
            ELSE Decision("CLAIM_REJECTED", st.generation, 0, st.accepted.version)
      [] r.operation = "EXPIRE" ->
            Decision("CLAIM_EXPIRED", st.generation, 0, st.accepted.version)
      [] r.operation = "RELEASE" ->
            Decision("CLAIM_RELEASED", st.generation, 0, st.accepted.version)

\* RegisteredWorkClaimPolicy.decide, for a request that is Legal.
Decide(r, st) ==
    CASE r.operation = "CREATE_GENERATION" /\ st.version = 0 ->
            Decision("GENERATION_CREATED", 1, 0, 0)
      [] r.operation = "CREATE_GENERATION" /\ st.version # 0 ->
            Decision("GENERATION_CREATED", st.generation + 1, 0, st.ended.version)
      [] r.operation = "CLAIM" /\ st.accepted # None ->
            Decision("CLAIM_REJECTED", st.generation, 0, st.accepted.version)
      [] r.operation = "CLAIM" /\ st.accepted = None /\ ~ClaimantMatchesCandidate(r) ->
            Decision("CLAIM_REJECTED", st.generation, 0, st.opened.version)
      [] r.operation = "CLAIM" /\ st.accepted = None /\ ClaimantMatchesCandidate(r) ->
            Decision("CLAIM_ACCEPTED", st.generation, st.fence + 1, st.opened.version)
      [] r.operation = "EXPIRE" ->
            Decision("CLAIM_EXPIRED", st.generation, 0, st.accepted.version)
      [] r.operation = "RELEASE" ->
            Decision("CLAIM_RELEASED", st.generation, 0, st.accepted.version)

\* build_work_claim_event: the decision on r, as the event after version v.
BuildEvent(r, st, v) ==
    LET d == Decide(r, st)
    IN  [request |-> r, type |-> d.type, version |-> v + 1,
         generation |-> d.generation, fence |-> d.fence, causal |-> d.causal]

-----------------------------------------------------------------------------
(* The replay                                                               *)

WellFormedGeneration(st, e) ==
    /\ e.generation = st.generation + 1
    /\ st.generation = 0 \/ st.ended # None

WellFormedLifecycle(st, e) ==
    /\ st.opened # None
    /\ e.generation = st.generation
    /\ st.ended = None
    /\ e.type = "CLAIM_ACCEPTED" => st.accepted = None /\ e.fence = st.fence + 1
    /\ e.type # "CLAIM_ACCEPTED" => e.fence = 0
    /\ e.type \in {"CLAIM_EXPIRED", "CLAIM_RELEASED"} =>
          st.accepted # None /\ e.causal = st.accepted.version

\* The checks of _advance_state.
WellFormed(st, e) ==
    /\ e.version = st.version + 1
    /\ IF e.type = "GENERATION_CREATED" THEN WellFormedGeneration(st, e)
                                        ELSE WellFormedLifecycle(st, e)

\* Mutant: the fence starts again with each generation.
AdvanceState_FencePerGeneration(st, e) ==
    LET next == [st EXCEPT !.version = e.version, !.last = e]
    IN  CASE e.type = "GENERATION_CREATED" ->
                [next EXCEPT !.generation = e.generation, !.opened = e,
                             !.accepted = None, !.ended = None, !.fence = 0]
          [] e.type = "CLAIM_ACCEPTED" ->
                [next EXCEPT !.accepted = e, !.fence = e.fence]
          [] e.type = "CLAIM_REJECTED" -> next
          [] e.type \in {"CLAIM_EXPIRED", "CLAIM_RELEASED"} ->
                [next EXCEPT !.ended = e]

\* The state _advance_state returns for a well-formed event.
AdvanceState(st, e) ==
    LET next == [st EXCEPT !.version = e.version, !.last = e]
    IN  CASE e.type = "GENERATION_CREATED" ->
                [next EXCEPT !.generation = e.generation, !.opened = e,
                             !.accepted = None, !.ended = None]
          [] e.type = "CLAIM_ACCEPTED" ->
                [next EXCEPT !.accepted = e, !.fence = e.fence]
          [] e.type = "CLAIM_REJECTED" -> next
          [] e.type \in {"CLAIM_EXPIRED", "CLAIM_RELEASED"} ->
                [next EXCEPT !.ended = e]

\* One round of _replay: re-decide the retained request, compare, advance.
Reproduces(st, e) ==
    /\ e.request.expected = st.version
    /\ Legal(e.request, st)
    /\ e = BuildEvent(e.request, st, st.version)
    /\ WellFormed(st, e)

ReplayStep(st, e) ==
    IF st.ok /\ Reproduces(st, e) THEN AdvanceState(st, e)
                                  ELSE [st EXCEPT !.ok = FALSE]

\* The state after each prefix of a history, and after the whole of it.
ReplayPrefixes(h) ==
    LET state[n \in 0 .. Len(h)] ==
            IF n = 0 THEN EmptyState ELSE ReplayStep(state[n - 1], h[n])
    IN  state

Replay(h) == ReplayPrefixes(h)[Len(h)]

\* The replay resolves the evidence of every retained request again.
EvidenceHolds(h, retained) == \A i \in DOMAIN h : Resolves(h[i].request, retained)
=============================================================================
