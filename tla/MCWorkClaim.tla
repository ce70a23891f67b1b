----------------------------- MODULE MCWorkClaim -----------------------------
(***************************************************************************)
(* Small instances of WorkClaim: one or two work items, an approved          *)
(* decision for each of two candidates, and three claimants.                *)
(***************************************************************************)
EXTENDS WorkClaim, TLC

CONSTANTS
    c1, c2,               \* threads
    l1, l2,               \* lineages
    s1,                   \* their scope
    x, y,                 \* candidates
    dx, dy, dz,           \* decisions: x for l1, y for l2, and a denied one
    alice, bob, carol,    \* claimants
    ea, eb, ec            \* their evidence

MCScopeOf == [l \in Lineages |-> s1]

MCDispatchOf ==
    [d \in Dispatches |->
        [approved |-> d # dz, lineage |-> IF d = dy THEN l2 ELSE l1,
         candidate |-> IF d = dy THEN y ELSE x]]

\* alice and bob both act for x; carol acts for y, from time 1 only.
MCEvidenceOf ==
    [e \in Evidence |->
        [scope |-> s1,
         claimant |-> CASE e = ea -> alice [] e = eb -> bob [] e = ec -> carol,
         candidate |-> IF e = ec THEN y ELSE x,
         from |-> IF e = ec THEN 1 ELSE 0,
         until |-> 2]]

Submission(op, l, k, d, e, at, expected) ==
    [operation |-> op, lineage |-> l, key |-> k, dispatch |-> d, evidence |-> e,
     at |-> at, expected |-> expected, intact |-> TRUE]

\* Two claimants race through the life of one work item and never reuse a key.
\* alice claims at 0 and her claim may expire at 1; bob's, made at 1, may not.
RaceKeys == {ea, eb} \X (0 .. 4)

Race(op, e, times, versions) ==
    {Submission(op, l1, <<e, v>>, dx, e, t, v) : t \in times, v \in versions}

RaceRequests ==
    Race("CREATE_GENERATION", ea, {0}, {0}) \cup Race("CREATE_GENERATION", ea, {1}, {2, 3})
    \cup Race("CLAIM", ea, {0}, 1 .. 4) \cup Race("CLAIM", eb, {1}, 1 .. 4)
    \cup Race("EXPIRE", eb, {1}, {2, 3})
    \cup Race("RELEASE", ea, {1}, {2, 3}) \cup Race("RELEASE", eb, {1}, {2, 3})

\* Callers reuse keys: k1 under several claimants, operations and versions, on
\* two work items, next to requests that do not resolve.
CONSTANTS k1, k2

RetryRequests ==
    {Submission("CREATE_GENERATION", l1, k, dx, ea, 0, 0) : k \in {k1, k2}}
    \cup {Submission("CLAIM", l1, k, dx, e, 1, v) :
             k \in {k1, k2}, e \in {ea, ec}, v \in {1, 2}}
    \cup {Submission("RELEASE", l1, k1, dx, ea, 1, v) : v \in {2, 3}}
    \cup {Submission("CREATE_GENERATION", l2, k1, dy, ec, 1, 0),
          Submission("CLAIM", l2, k1, dy, ec, 1, 1),
          Submission("CLAIM", l2, k1, dx, ea, 1, 1),
          Submission("CLAIM", l1, k2, dz, ea, 1, 1),
          Submission("CLAIM", l1, k2, dx, ec, 0, 1),
          [Submission("CLAIM", l1, k2, dx, ea, 1, 1) EXCEPT !.intact = FALSE]}

\* Two claimants and two keys on one work item: a key reused for the same claim
\* at another version or for another operation, and requests that do not resolve
\* while their evidence is not retained.
CallRequests ==
    {Submission("CREATE_GENERATION", l1, k1, dx, ea, 0, 0),
     Submission("RELEASE", l1, k1, dx, ea, 1, 2),
     Submission("CLAIM", l1, k2, dx, eb, 1, 1)}
    \cup {Submission("CLAIM", l1, k1, dx, ea, 1, v) : v \in {1, 2}}

\* Threads are interchangeable.
CallerSymmetry == Permutations(Callers)
=============================================================================
