----------------------------- MODULE MCPlanning -----------------------------
(***************************************************************************)
(* Small instances of what turns a draft into a plan: the canonical form of *)
(* its values, its admission, the plan derived from it and the rule that    *)
(* derives it.  A behaviour exercises one part: two planners race, plans    *)
(* are derived from evidence of every kind, three callers race to admit, a  *)
(* rule constructs results, or values are canonicalised.  The first three   *)
(* take steps of ExecutionPlan's Next; the variables of the others stay as  *)
(* they are.                                                                *)
(***************************************************************************)
EXTENDS Planning, TLC

LOCAL INSTANCE SequencesExt

CONSTANTS
    a1, a2, a3, p1, p2,       \* threads
    d1, d2, d3, d4,           \* drafts
    s1, s2, o1, o2,           \* scopes and organizations
    k1, k2, empty,            \* keys
    v1, refused, stray, mixed,   \* evidence; v1 is good for A1
    y1, y2, g1                \* policies and configuration

-----------------------------------------------------------------------------
(* Planning and admission.  Drafts d1 and d2 are one content written two    *)
(* ways; d4 is of another tenant.                                           *)

MCCanonicalOf == (d1 :> "A") @@ (d2 :> "A") @@ (d3 :> "B") @@ (d4 :> "C")
MCScopeOf == (d1 :> s1) @@ (d2 :> s1) @@ (d3 :> s1) @@ (d4 :> s2)
MCOrganizationOf == (s1 :> o1) @@ (s2 :> o2)

\* A1 is the request planned for, B1 competes for its key.
A1 == [identity |-> <<s1, k1>>, content |-> "A"]
B1 == [identity |-> <<s1, k1>>, content |-> "B"]

MCValidationOf ==
    [v \in Validations |->
        [request |-> IF v = stray THEN B1 ELSE A1,
         digest |-> IF v \in {stray, mixed} THEN B1 ELSE A1,
         scope |-> s1, outcome |-> IF v = refused THEN "Invalid" ELSE "Valid"]]

Derive(r, v, y, k, n) ==
    [request |-> r, scope |-> r.identity[1], validation |-> v, policy |-> y,
     configuration |-> g1, expected |-> n, key |-> k]

\* Two policies under one key, and one of them under another, at every version of
\* the stream.
RaceInputs ==
    {Derive(A1, v1, y, k1, n) : y \in {y1, y2}, n \in 0 .. 2}
    \cup {Derive(A1, v1, y1, k2, n) : n \in 0 .. 2}

\* Either request with any evidence, A1 as a request of another scope, no key.
\* Request A1 may fail to be admitted, so it need not exist.
EvidenceInputs ==
    {Derive(A1, v, y1, k1, 0) : v \in Validations}
    \cup {Derive(B1, v, y1, k1, 0) : v \in {v1, stray}}
    \cup {[Derive(A1, v1, y1, k1, 0) EXCEPT !.scope = s2], Derive(A1, v1, y1, empty, 0)}

MCInputs == RaceInputs \cup EvidenceInputs

-----------------------------------------------------------------------------
(* Rules: up to three steps in any numbering, with up to three dependencies *)
(* in any order, enough for a cycle through all of them.                    *)

CONSTANTS n1, n2, n3      \* steps

Steps == {n1, n2, n3}

Numberings(n) == IF n < 3 THEN [1 .. n -> 0 .. 2] ELSE {<<0, 1, 2>>, <<0, 1, 1>>, <<2, 1, 0>>}

StepLists ==
    UNION {{[i \in 1 .. n |-> [sequence |-> f[i], id |-> g[i]]] :
              f \in Numberings(n), g \in [1 .. n -> Steps]} : n \in 0 .. 3}

Distinct(steps) == \A i, j \in DOMAIN steps : steps[i].id = steps[j].id => i = j

\* Work and its dependencies.
Graphs ==
    LET edges == {d \in Steps \X Steps : d[1] # d[2]}
    IN  {[steps |-> s, dependencies |-> d, capabilities |-> <<>>, evidence |-> <<"e">>] :
            s \in {x \in StepLists : Len(x) < 3}, d \in SeqOf(edges, 2)}
        \cup {[steps |-> s, dependencies |-> d, capabilities |-> <<>>, evidence |-> <<"e">>] :
            s \in {x \in StepLists : Len(x) = 3 /\ Distinct(x)}, d \in SeqOf(edges, 3)}

\* What else may be repeated or missing.
Others ==
    {[steps |-> <<[sequence |-> 0, id |-> i]>>, dependencies |-> <<>>,
      capabilities |-> c, evidence |-> e] :
        i \in Steps, c \in SeqOf({y1, y2}, 2), e \in SeqOf({"e", "f"}, 2)}

RuleResults == Graphs \cup Others

-----------------------------------------------------------------------------
(* Values: three strings, two of which normalise to one, and values two     *)
(* levels deep.                                                             *)

VARIABLES value, content

\* e-acute decomposed ("e'"), composed ("E"), and a letter that sorts between them.
MCTexts == {"e'", "E", "z"}
MCNFC == ("e'" :> "E") @@ ("E" :> "E") @@ ("z" :> "z")
MCRank == ("z" :> 2) @@ ("e'" :> 1) @@ ("E" :> 3)
MCBefore(s, t) == MCRank[s] < MCRank[t]

TextOf(t) == [kind |-> "text", text |-> t]
ListOf(items) == [kind |-> "list", items |-> items]
MapOf(entries) == [kind |-> "map", entries |-> entries]

Leaves ==
    {TextOf(t) : t \in MCTexts} \cup {[kind |-> "scalar", scalar |-> x] : x \in {"null", "1"}}
    \cup {[kind |-> "float"]}

\* Every list and map of at most two of S.
Flat ==
    Leaves \cup {ListOf(s) : s \in SeqOf(Leaves, 2)}
    \cup {MapOf(e) : e \in {f \in SeqOf(MCTexts \X Leaves, 2) : Len(f) = 2 => f[1][1] # f[2][1]}}

\* Nested in a map, each in turn beside a fixed neighbour, either way round.
Nested ==
    {MapOf(<<<<t, v>>>>) : t \in MCTexts, v \in Flat}
    \cup {MapOf(<<<<"z", v>>, <<"E", TextOf("e'")>>>>) : v \in Flat}
    \cup {MapOf(<<<<"E", TextOf("E")>>, <<"z", v>>>>) : v \in Flat}
    \cup {ListOf(<<v, TextOf("z")>>) : v \in Flat}

MCValues == Flat \cup Nested

Values == INSTANCE CanonicalValue WITH
    Texts <- MCTexts, NFC <- MCNFC, Before <- MCBefore, Scalars <- {"null", "1"},
    Values <- MCValues

-----------------------------------------------------------------------------

VARIABLE part      \* what this behaviour exercises

rule_vars == <<rule_result, rule_verdict>>
value_vars == <<value, content>>

InitParts ==
    /\ part \in {"race", "evidence", "requests", "rules", "values"}
    /\ Init /\ Rules!Init /\ Values!Init

\* The steps of the request service that submit no other drafts and keys.
Admitting(c, drafts, keys) ==
    /\ \/ \E d \in drafts, k \in keys : Admission!Submit(c, d, k)
       \/ \E d \in drafts, k \in keys \ {empty}, o \in {o1, o2} :
             Admission!Reconstruct(c, Admission!BuildRequest(d, k), o)
       \/ Admission!CallStep(c)
    /\ UNCHANGED <<evidence, repository, planner>>

\* One call at a time.
AdmittingAlone(drafts, keys) ==
    \E c \in Callers :
       /\ \A d \in Callers \ {c} : call[d].pc = "idle"
       /\ Admitting(c, drafts, keys)

\* The steps of the plan service that retain and derive from no others.
Planning(verdicts, inputs) ==
    \/ \E v \in verdicts : Retain(v)
    \/ \E p \in Planners :
          \/ \E i \in inputs : LookUpRequest(p, i)
          \/ \E x \in plans : Reconstruct(p, x)
          \/ PlannerStep(p)

RaceStep == AdmittingAlone({d1}, Keys) \/ Planning({v1}, RaceInputs)

EvidenceStep ==
    AdmittingAlone({d1, d3, d4}, {k1, empty}) \/ Planning(Validations, EvidenceInputs)

RequestStep == \E c \in Callers : Admitting(c, Drafts, {k1, empty})

NextPart ==
    /\ \/ part = "race" /\ RaceStep /\ UNCHANGED <<rule_vars, value_vars>>
       \/ part = "evidence" /\ EvidenceStep /\ UNCHANGED <<rule_vars, value_vars>>
       \/ part = "requests" /\ RequestStep /\ UNCHANGED <<rule_vars, value_vars>>
       \/ part = "rules" /\ Rules!Next /\ UNCHANGED <<vars, value_vars>>
       \/ part = "values" /\ Values!Next /\ UNCHANGED <<vars, rule_vars>>
    /\ UNCHANGED part

SpecParts == InitParts /\ [][NextPart]_<<part, vars, rule_vars, value_vars>>

-----------------------------------------------------------------------------

\* Two values have one canonical form exactly when they mean the same; a value is
\* refused only if it means nothing; the form is a fixed point (canonical_json).
SameContentSameMeaning ==
    /\ Values!SameContentSameMeaning
    /\ Values!RefusedOnlyIfMeaningless
    /\ Values!ContentIsCanonical

\* Threads that play the same role are interchangeable.
ThreadSymmetry == Permutations(Planners) \cup Permutations(Callers)
=============================================================================
