--------------------------- MODULE LeaseAuthority ---------------------------
(***************************************************************************)
(* What Execution Lease promises about one work item: bounded authority     *)
(* that is granted once, is renewed or superseded under another             *)
(* authorization, never reaches beyond the authorization behind it, and is  *)
(* widened by nothing but a new generation.                                 *)
(***************************************************************************)
EXTENDS Naturals

CONSTANTS Lineages, Authorizations, AuthorizationOf, None

VARIABLE authority

Nothing == [generation |-> 0, evidence |-> None, permissions |-> {},
            from |-> 0, until |-> 0, clock |-> 0]

Init == authority = [l \in Lineages |-> Nothing]

\* What an authorization lets a lineage hold when it is examined at t.
Backed(l, entry) ==
    LET a == AuthorizationOf[entry.evidence]
    IN  /\ entry.evidence \in Authorizations
        /\ a.approved /\ a.lineage = l
        /\ entry.permissions # {} /\ entry.permissions \subseteq a.ceiling
        /\ a.effective <= entry.from /\ entry.from < entry.until
        /\ entry.until <= a.expires
        /\ a.effective <= entry.clock /\ entry.clock < a.expires

Grant(l, entry) ==
    /\ authority[l] = Nothing
    /\ entry.generation = 1

\* Time, the start of the authority included, never runs backwards.
Follows(held, entry) ==
    /\ held # Nothing
    /\ entry.evidence # held.evidence
    /\ entry.from >= held.from
    /\ entry.clock >= held.clock

Renew(l, entry) ==
    /\ Follows(authority[l], entry)
    /\ entry.generation = authority[l].generation
    /\ entry.permissions \subseteq authority[l].permissions

Supersede(l, entry) ==
    /\ Follows(authority[l], entry)
    /\ entry.generation = authority[l].generation + 1

\* The entry a step leaves for one lineage is one of the three.
Next ==
    \E l \in Lineages : LET entry == authority'[l] IN
       /\ Backed(l, entry)
       /\ Grant(l, entry) \/ Renew(l, entry) \/ Supersede(l, entry)
       /\ authority' = [authority EXCEPT ![l] = entry]

Spec == Init /\ [][Next]_authority
=============================================================================
