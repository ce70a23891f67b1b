--------------------------- MODULE DispatchPolicy ---------------------------
(***************************************************************************)
(* The pure half of app/runtime/dispatch_decision: a request, the evidence  *)
(* it refers to, the registered policy, and the decision they determine.    *)
(* Evidence is immutable and content-addressed: an artifact carries its     *)
(* content, ArtifactId is the identifier it is retained under, and a        *)
(* reference (identifier and digest) to it is the artifact itself.          *)
(***************************************************************************)
EXTENDS Integers, Sequences

CONSTANTS
    None,          \* absent optional value
    Streams,       \* (organization, workload, plan, work item, candidate)
    StreamOf,      \* stream -> [scope, planId, item, candidate]
    Keys,          \* submitted idempotency keys
    Boundaries,    \* selection evaluation boundaries
    ArtifactId,    \* artifact -> identifier
    Plans, PlanOf,             \* plan -> [scope, items]
    Selections, SelectionOf,   \* selection -> [scope, plan, readiness, boundary],
                               \* readiness: candidate -> references in order
    Readiness, ReadinessOf,    \* readiness -> [scope, expires, superseded]
    Leases, LeaseOf            \* lease -> [scope, planId, items, bounded, effective,
                               \*           expires, revoked]

Artifacts == Plans \cup Selections \cup Readiness \cup Leases

Ids == {ArtifactId[a] : a \in Artifacts}
Scopes == {StreamOf[s].scope : s \in Streams}
Items == {StreamOf[s].item : s \in Streams}
Candidates == {StreamOf[s].candidate : s \in Streams}

\* A lease and a readiness verdict may be over as soon as they begin, and no
\* sooner; a plan and a lease cover at least one work item; each kind of artifact
\* has a source, and a type, of its own.
ASSUME CatalogueAssumption ==
    /\ Plans \cap (Selections \cup Readiness \cup Leases) = {}
    /\ Selections \cap (Readiness \cup Leases) = {}
    /\ Readiness \cap Leases = {}
    /\ StreamOf \in [Streams -> [scope : Scopes, planId : Ids,
                                 item : Items, candidate : Candidates]]
    /\ \A p \in Plans : PlanOf[p].items # {}
    /\ \A s \in Selections :
          /\ DOMAIN SelectionOf[s].readiness # {}
          /\ \A x \in DOMAIN SelectionOf[s].readiness :
                SelectionOf[s].readiness[x] \in Seq(Readiness) \ {<<>>}
    /\ \A w \in Readiness : ReadinessOf[w].expires \in Nat
    /\ \A l \in Leases :
          /\ LeaseOf[l].effective \in Nat /\ LeaseOf[l].expires \in Nat
          /\ LeaseOf[l].effective <= LeaseOf[l].expires
          /\ LeaseOf[l].items # {}

\* The policy a request names: the registered one, a version nobody
\* registered, or the registered one under another digest.
Policies == {"registered", "unregistered", "altered"}

\* DispatchRequest, with the key and the version evaluate is called with.
Request == [stream : Streams, key : Keys, plan : Plans, selection : Selections,
            lease : Leases, policy : Policies, boundary : Boundaries,
            at : Nat, expected : Nat]

ReasonCodes == {"LEASE_INAPPLICABLE", "LEASE_EXPIRED", "LEASE_REVOKED",
                "READINESS_EXPIRED", "READINESS_SUPERSEDED", "OFFER_APPROVED"}

\* DispatchDecision and the record it is kept in.  Its id is a digest of this
\* content, version and identity included, so equal ids are equal decisions.
Decision == [request : Request, outcome : {"APPROVED", "DENIED"},
             reasons : SUBSET ReasonCodes, version : Nat \ {0}]

ASSUME NoneAssumption == None \notin Decision /\ None \notin Request

-----------------------------------------------------------------------------
(* Identity                                                                 *)

Identities == Streams \X Keys

\* dispatch_idempotency_identity within its stream.
Identity(r) == <<r.stream, r.key>>

\* Equality of canonical input content: all of the request but the key and the
\* version it expects.
SameInput(r, q) ==
    [r EXCEPT !.key = None, !.expected = 0] = [q EXCEPT !.key = None, !.expected = 0]

-----------------------------------------------------------------------------
(* Evidence                                                                 *)

\* The artifacts of a kind held under the identifier of reference a.
Held(kind, a, retained) ==
    {b \in retained \cap kind : ArtifactId[b] = ArtifactId[a]}

\* get_scoped finds something under the identifier, in the caller's scope.
Found(kind, Of, a, scope, retained) ==
    \E b \in Held(kind, a, retained) : Of[b].scope = scope

\* The readiness references the selection holds for the candidate.
ReadinessRefs(r) == SelectionOf[r.selection].readiness[StreamOf[r.stream].candidate]

ReadinessSet(r) == {ReadinessRefs(r)[i] : i \in DOMAIN ReadinessRefs(r)}

\* The plan holds the work item, the selection was made for that plan and for
\* this boundary, and the candidate is one of those it selected.
Coherent(r) ==
    LET s == StreamOf[r.stream]
    IN  /\ s.item \in PlanOf[r.plan].items
        /\ SelectionOf[r.selection].plan = r.plan
        /\ s.candidate \in DOMAIN SelectionOf[r.selection].readiness
        /\ SelectionOf[r.selection].boundary = r.boundary

\* The lease is one for this plan and this work item.
Covers(r) ==
    /\ LeaseOf[r.lease].planId = ArtifactId[r.plan]
    /\ StreamOf[r.stream].item \in LeaseOf[r.lease].items

\* What the first readiness reference that is not retained as it is, in the
\* request's scope, leads to.
ReadinessFailure(r, retained) ==
    LET refs == ReadinessRefs(r)
        scope == StreamOf[r.stream].scope
        lacking == {i \in DOMAIN refs :
                       refs[i] \notin retained \/ ReadinessOf[refs[i]].scope # scope}
        first == CHOOSE i \in lacking : \A j \in lacking : i <= j
    IN  IF lacking = {} THEN None
        ELSE IF Found(Readiness, ReadinessOf, refs[first], scope, retained)
        THEN "DigestMismatch" ELSE "EvidenceMissing"

\* _resolve, in the order of its checks.
Resolution(r, retained) ==
    LET scope == StreamOf[r.stream].scope
    IN  CASE ~( /\ Found(Plans, PlanOf, r.plan, scope, retained)
                /\ Found(Selections, SelectionOf, r.selection, scope, retained)
                /\ Found(Leases, LeaseOf, r.lease, scope, retained) ) -> "EvidenceMissing"
          [] OTHER ->
             IF ~({r.plan, r.selection, r.lease} \subseteq retained) THEN "DigestMismatch"
             ELSE IF ~Coherent(r) THEN "Invalid"
             ELSE IF ReadinessFailure(r, retained) # None
                  THEN ReadinessFailure(r, retained)
             ELSE IF ~Covers(r) THEN "Invalid"
             ELSE CASE r.policy = "unregistered" -> "VersionUnsupported"
                    [] r.policy = "altered" -> "DigestMismatch"
                    [] r.policy = "registered" -> "Resolved"

-----------------------------------------------------------------------------
(* The policy                                                               *)

\* Mutant: one readiness verdict of the candidate is enough.
Reasons_SomeReadiness(r) ==
    LET l == LeaseOf[r.lease]
        refs == ReadinessSet(r)
    IN  {x \in {"LEASE_INAPPLICABLE"} : ~l.bounded \/ r.at < l.effective}
        \cup {x \in {"LEASE_EXPIRED"} : r.at > l.expires}
        \cup {x \in {"LEASE_REVOKED"} : l.revoked}
        \cup {x \in {"READINESS_EXPIRED"} : \A w \in refs : r.at > ReadinessOf[w].expires}
        \cup {x \in {"READINESS_SUPERSEDED"} : \A w \in refs : ReadinessOf[w].superseded}

\* RegisteredDispatchPolicy.evaluate: the reasons against the offer.
Reasons(r) ==
    LET l == LeaseOf[r.lease]
        refs == ReadinessSet(r)
    IN  {x \in {"LEASE_INAPPLICABLE"} : ~l.bounded \/ r.at < l.effective}
        \cup {x \in {"LEASE_EXPIRED"} : r.at > l.expires}
        \cup {x \in {"LEASE_REVOKED"} : l.revoked}
        \cup {x \in {"READINESS_EXPIRED"} : \E w \in refs : r.at > ReadinessOf[w].expires}
        \cup {x \in {"READINESS_SUPERSEDED"} : \E w \in refs : ReadinessOf[w].superseded}

\* build_dispatch_decision, for the version after the expected one.
BuildDecision(r) ==
    [request |-> r,
     outcome |-> IF Reasons(r) = {} THEN "APPROVED" ELSE "DENIED",
     reasons |-> IF Reasons(r) = {} THEN {"OFFER_APPROVED"} ELSE Reasons(r),
     version |-> r.expected + 1]
=============================================================================
