----------------------------- MODULE LeasePolicy -----------------------------
(***************************************************************************)
(* The pure half of Execution Lease: what a request is, which retained      *)
(* authorization or revocation makes it applicable, what the service        *)
(* decides about it from the state a lineage's history replays to, the      *)
(* replay, and when the resulting authority applies.                        *)
(*                                                                         *)
(* An entry (ExecutionLeaseRecord) and its event are one record here: the   *)
(* event content is the request's content plus what the service decided.    *)
(* An event id is a digest of lineage, version and content, and a lineage   *)
(* commits one event per version, so an event is referred to by lineage and *)
(* version; a lease id is a digest of lineage and generation.               *)
(***************************************************************************)
EXTENDS Naturals, Sequences

CONSTANTS
    Lineages,          \* (organization, workload, plan, work item, family) keys
    Scopes,            \* (organization, workload) pairs
    ScopeOf,           \* the scope of each lineage
    Keys,              \* idempotency keys submitted by callers
    Permissions,       \* LeasePermission
    Authorizations,    \* ids of Authorization Checkpoint evidence
    AuthorizationOf,   \* approved, scope, lineage, ceiling, effective, expires
    Revocations,       \* ids of opaque revocation evidence
    RevocationOf,      \* scope, lineage, target event, target lease, effective
    None               \* Python's None

Operation == {"GRANT", "RENEW", "REVOKE", "SUPERSEDE"}

EventType == {"GRANTED", "RENEWED", "REVOKED", "SUPERSEDED"}

\* References to an event, by version, and to a lease, by generation.
EventRef == Lineages \X Nat
LeaseRef == Lineages \X Nat

\* The fields of a request.  "intact" stands for the digest it names, and for a
\* grant the policy and history boundary too, being the retained ones; times
\* are seconds.
RequestFields ==
    [operation : Operation, lineage : Lineages, key : Keys,
     authorization : Authorizations \cup {None}, revocation : Revocations \cup {None},
     prior : EventRef \cup {None}, permissions : SUBSET Permissions,
     effective : Nat, expires : Nat \cup {None}, at : Nat, expected : Nat,
     intact : BOOLEAN]

\* A revocation carries a directive and no grant input; every other operation
\* carries an authorization, permissions and a bounded period.
Complete(r) ==
    IF r.operation = "REVOKE"
    THEN /\ r.authorization = None /\ r.permissions = {} /\ r.expires = None
         /\ r.prior # None /\ r.revocation # None
    ELSE /\ r.authorization # None /\ r.permissions # {} /\ r.expires # None
         /\ r.revocation = None
         /\ r.expires > r.effective
         /\ (r.prior = None) <=> (r.operation = "GRANT")

Request == {r \in RequestFields : Complete(r)}

LeaseEvent == [request : Request, type : EventType, version : Nat,
               generation : Nat, superseded : Nat]

ASSUME CatalogueAssumption ==
    /\ ScopeOf \in [Lineages -> Scopes]
    /\ AuthorizationOf \in
          [Authorizations -> [approved : BOOLEAN, scope : Scopes, lineage : Lineages,
                              ceiling : (SUBSET Permissions) \ {{}},
                              effective : Nat, expires : Nat]]
    /\ \A a \in Authorizations : AuthorizationOf[a].effective < AuthorizationOf[a].expires
    /\ RevocationOf \in
          [Revocations -> [scope : Scopes, lineage : Lineages, event : EventRef,
                           lease : LeaseRef, effective : Nat]]

ASSUME NoneAssumption ==
    /\ None \notin Authorizations \cup Revocations \cup EventRef \cup Nat
    /\ None \notin LeaseEvent /\ None \notin RequestFields

Ref(e) == <<e.request.lineage, e.version>>

LeaseId(e) == <<e.request.lineage, e.generation>>

-----------------------------------------------------------------------------
(* Identities                                                               *)

\* The scoped idempotency identity: the operation, the lineage, the key.  The
\* canonical input behind it is the whole request and the generation decided.
Identities == Operation \X Lineages \X Keys
Identity(r) == <<r.operation, r.lineage, r.key>>

SameInput(e, f) == e.request = f.request /\ e.generation = f.generation

-----------------------------------------------------------------------------
(* Evidence                                                                 *)

\* require_evidence, for whichever of the two references the request has.
Found(r, retained) ==
    /\ r.authorization # None =>
          /\ r.authorization \in retained
          /\ AuthorizationOf[r.authorization].scope = ScopeOf[r.lineage]
    /\ r.revocation # None =>
          /\ r.revocation \in retained
          /\ RevocationOf[r.revocation].scope = ScopeOf[r.lineage]

\* The authorization covers the permissions, the moment and the period.
Authorizes(r) ==
    LET a == AuthorizationOf[r.authorization]
    IN  /\ a.approved
        /\ a.lineage = r.lineage
        /\ r.permissions \subseteq a.ceiling
        /\ a.effective <= r.at /\ r.at < a.expires
        /\ a.effective <= r.effective /\ r.expires <= a.expires

\* The directive targets the very event and lease the request names.
Directs(r, committed) ==
    LET v == RevocationOf[r.revocation]
    IN  /\ v.lineage = r.lineage
        /\ v.effective = r.effective
        /\ v.event = r.prior
        /\ \E e \in committed : Ref(e) = r.prior /\ LeaseId(e) = v.lease

\* Mutant: a directive that targets the retained lease is authority to revoke.
Resolution_RevocationAccepted(r, retained, committed) ==
    CASE ~Found(r, retained) -> "EvidenceUnavailable"
      [] Found(r, retained) ->
            IF /\ r.intact
               /\ r.authorization # None => Authorizes(r)
               /\ r.revocation # None => Directs(r, committed)
            THEN "Resolved" ELSE "Invalid"

\* _resolve.  Integrity and target do not establish the authority to revoke:
\* a sound directive is refused as well.
Resolution(r, retained, committed) ==
    CASE ~Found(r, retained) -> "EvidenceUnavailable"
      [] Found(r, retained) /\ r.revocation # None ->
            IF r.intact /\ Directs(r, committed) THEN "IllegalTransition" ELSE "Invalid"
      [] Found(r, retained) /\ r.revocation = None ->
            IF r.intact /\ Authorizes(r) THEN "Resolved" ELSE "Invalid"

-----------------------------------------------------------------------------
(* The decision                                                             *)

\* LeaseDerivedState; "ok" turns FALSE where the replay raises.
EmptyState == [ok |-> TRUE, version |-> 0, generation |-> 0,
               authority |-> None, terminal |-> None, last |-> None]

DerivedState == [ok : BOOLEAN, version : Nat, generation : Nat,
                 authority : LeaseEvent \cup {None}, terminal : LeaseEvent \cup {None},
                 last : LeaseEvent \cup {None}]

InOrder(r, st) == st.last # None => r.at >= st.last.request.at

\* Mutant: a continuation may name any committed event of the lineage.
Continues_AnyPrior(r, st) ==
    /\ st.authority # None
    /\ r.prior[1] = r.lineage
    /\ st.terminal = None

\* A lifecycle operation names the latest event of a live lineage.
Continues(r, st) ==
    /\ st.authority # None
    /\ r.prior = Ref(st.last)
    /\ st.terminal = None

\* Where _decision raises IllegalTransition.
Illegal(r, st) ==
    \/ ~InOrder(r, st)
    \/ r.operation = "GRANT" /\ st.version # 0
    \/ r.operation # "GRANT" /\ ~Continues(r, st)

\* Mutant: a renewal is compared with its authorization only.
WithinAuthority_MayBroaden(r, authority) ==
    /\ r.operation # "REVOKE" => r.authorization # authority.authorization
    /\ r.effective >= authority.effective

\* What a continuation owes the current authority: fresh evidence, no earlier
\* start, and for a renewal no new permission.
WithinAuthority(r, authority) ==
    /\ r.operation # "REVOKE" => r.authorization # authority.authorization
    /\ r.operation = "RENEW" => r.permissions \subseteq authority.permissions
    /\ r.effective >= authority.effective

\* Where _decision, finding the transition legal, raises ExecutionLeaseInvalid.
Unwarranted(r, st) ==
    r.operation # "GRANT" /\ ~WithinAuthority(r, st.authority.request)

\* _decision and build_execution_lease_event: the event after version v.
BuildEvent(r, st, v) ==
    [request |-> r, version |-> v + 1,
     type |-> CASE r.operation = "GRANT" -> "GRANTED"
                [] r.operation = "RENEW" -> "RENEWED"
                [] r.operation = "REVOKE" -> "REVOKED"
                [] r.operation = "SUPERSEDE" -> "SUPERSEDED",
     generation |-> CASE r.operation = "GRANT" -> 1
                      [] r.operation = "SUPERSEDE" -> st.generation + 1
                      [] r.operation \in {"RENEW", "REVOKE"} -> st.generation,
     superseded |-> IF r.operation = "SUPERSEDE" THEN st.authority.generation ELSE 0]

-----------------------------------------------------------------------------
(* The replay                                                               *)

\* The checks of _advance_state.
WellFormed(st, e) ==
    /\ e.version = st.version + 1
    /\ IF e.type = "GRANTED"
       THEN st.version = 0 /\ e.generation = 1 /\ e.request.prior = None
       ELSE /\ st.authority # None
            /\ e.request.prior = Ref(st.last)
            /\ st.terminal = None
            /\ IF e.type = "SUPERSEDED"
               THEN e.generation = st.generation + 1
                    /\ e.superseded = st.authority.generation
               ELSE e.generation = st.generation
                    /\ LeaseId(e) = LeaseId(st.authority)

\* Mutant: a supersession leaves the authority it supersedes in force.
AdvanceState_OldAuthorityStays(st, e) ==
    IF e.type \in {"REVOKED", "SUPERSEDED"}
    THEN [st EXCEPT !.version = e.version, !.generation = e.generation,
                    !.terminal = IF e.type = "REVOKED" THEN e ELSE None, !.last = e]
    ELSE [ok |-> TRUE, version |-> e.version, generation |-> e.generation,
          authority |-> e, terminal |-> None, last |-> e]

\* The state _advance_state returns for a well-formed event.
AdvanceState(st, e) ==
    IF e.type = "REVOKED"
    THEN [st EXCEPT !.version = e.version, !.terminal = e, !.last = e]
    ELSE [ok |-> TRUE, version |-> e.version, generation |-> e.generation,
          authority |-> e, terminal |-> None, last |-> e]

\* One round of _replay: re-decide the retained request, compare, advance.
Reproduces(st, e) ==
    /\ e.request.expected = st.version
    /\ ~Illegal(e.request, st)
    /\ ~Unwarranted(e.request, st)
    /\ e = BuildEvent(e.request, st, st.version)
    /\ WellFormed(st, e)

ReplayStep(st, e) ==
    IF st.ok /\ Reproduces(st, e) THEN AdvanceState(st, e)
                                  ELSE [st EXCEPT !.ok = FALSE]

\* The state after each prefix of a history, and after the whole of it.
ReplayPrefixes(h) ==
    LET state[n \in 0 .. Len(h)] ==
            IF n = 0 THEN EmptyState ELSE ReplayStep(state[n - 1], h[n])
    IN  state

Replay(h) == ReplayPrefixes(h)[Len(h)]

\* The replay resolves the evidence of every retained request again.
EvidenceHolds(h, retained, committed) ==
    \A i \in DOMAIN h : Resolution(h[i].request, retained, committed) = "Resolved"

Replays(h, retained, committed) ==
    Replay(h).ok /\ EvidenceHolds(h, retained, committed)

-----------------------------------------------------------------------------
(* Applicability                                                            *)

\* applicable_at, for an event that carries authority: a half-open period.
ApplicableAt(e, t) == e.request.effective <= t /\ t < e.request.expires

\* applicable, on the state its boundary replays to.
Applicable(st, t) ==
    /\ st.terminal = None
    /\ st.authority # None
    /\ ApplicableAt(st.authority, t)
=============================================================================
