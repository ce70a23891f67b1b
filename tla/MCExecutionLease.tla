-------------------------- MODULE MCExecutionLease --------------------------
(***************************************************************************)
(* Small instances of ExecutionLease: one work item, three authorizations   *)
(* of different reach, a denied one, and a directive that targets its       *)
(* first lease.                                                             *)
(***************************************************************************)
EXTENDS ExecutionLease, TLC

CONSTANTS
    c1, c2,               \* threads
    l1, l2,               \* lineages
    s1,                   \* their scope
    offer, initiate,      \* permissions
    wide, narrow, late,   \* approved authorizations
    denied,               \* an authorization that was refused
    halt,                 \* a revocation directive
    k1, k2

MCScopeOf == [l \in Lineages |-> s1]

Checkpoint(approved, ceiling, effective, expires) ==
    [approved |-> approved, scope |-> s1, lineage |-> l1, ceiling |-> ceiling,
     effective |-> effective, expires |-> expires]

\* narrow is for the first permission only; late starts at 1 and ends last.
MCAuthorizationOf ==
    [a \in Authorizations |->
        CASE a = wide -> Checkpoint(TRUE, Permissions, 0, 3)
          [] a = narrow -> Checkpoint(TRUE, {offer}, 0, 2)
          [] a = late -> Checkpoint(TRUE, Permissions, 1, 4)
          [] a = denied -> Checkpoint(FALSE, Permissions, 0, 4)]

MCRevocationOf ==
    [v \in Revocations |->
        [scope |-> s1, lineage |-> l1, event |-> <<l1, 1>>, lease |-> <<l1, 1>>,
         effective |-> 1]]

Submission(op, k, a, perms, prior, from, until, at, expected) ==
    [operation |-> op, lineage |-> l1, key |-> k, authorization |-> a,
     revocation |-> None, prior |-> prior, permissions |-> perms,
     effective |-> from, expires |-> until, at |-> at, expected |-> expected,
     intact |-> TRUE]

\* halt, sent by someone who believes the lineage is at this version.
Halt(k, prior, expected) ==
    [operation |-> "REVOKE", lineage |-> l1, key |-> k, authorization |-> None,
     revocation |-> halt, prior |-> <<l1, prior>>, permissions |-> {},
     effective |-> 1, expires |-> None, at |-> 1, expected |-> expected,
     intact |-> TRUE]

\* One key per request, so that only versions, evidence and time decide.
RaceKeys == ({wide, narrow, late} \X (0 .. 4)) \cup {halt}

Race(op, a, perms, from, until, at, v) ==
    Submission(op, <<a, v>>, a, perms, IF v = 0 THEN None ELSE <<l1, v>>,
               from, until, at, v)

\* Two grants compete; renewals and supersessions follow, some of them wider
\* than the lease, earlier than its start, on evidence already used, or naming
\* an event that is no longer the latest.
RaceRequests ==
    {Race("GRANT", narrow, {offer}, 0, 2, 0, 0),
     Race("GRANT", wide, Permissions, 0, 3, 1, 0), Halt(halt, 1, 1),
     Submission("RENEW", <<late, 4>>, late, {offer}, <<l1, 1>>, 1, 3, 1, 2)}
    \cup {Race("RENEW", a, Permissions, 1, 3, 1, v) : a \in {wide, late}, v \in 1 .. 2}
    \cup {Race("RENEW", narrow, {offer}, 0, 2, 1, v) : v \in {1, 3}}
    \cup {Race("SUPERSEDE", late, Permissions, 1, 3, 2, v) : v \in 1 .. 2}
    \cup {Race("SUPERSEDE", wide, Permissions, 1, 3, 2, v) : v \in 2 .. 3}

\* Callers reuse keys across requests that differ, among some that do not
\* resolve or that exceed their authorization: a grant, a renewal that starts
\* later, a supersession that starts later still, and a revocation, for the
\* questions asked about their boundaries.
CallRequests ==
    {Submission("GRANT", k1, wide, p, None, 0, 2, 0, 0) : p \in {{offer}, Permissions}}
    \cup {Submission("RENEW", k, late, {offer}, <<l1, v>>, 1, 3, 1, v) :
             k \in {k1, k2}, v \in {1, 2}}
    \cup {Submission("RENEW", k2, wide, {offer}, <<l1, 1>>, 1, 3, 1, 1),
          Submission("SUPERSEDE", k1, wide, Permissions, <<l1, 2>>, 2, 3, 2, 2),
          Submission("GRANT", k2, denied, {offer}, None, 0, 3, 0, 0),
          Submission("GRANT", k2, narrow, Permissions, None, 0, 2, 0, 0),
          [Submission("GRANT", k2, wide, {offer}, None, 0, 3, 0, 0) EXCEPT !.intact = FALSE],
          Halt(k1, 1, 1), Halt(k2, 2, 2)}

\* Two grants and their renewals, one halted meanwhile.
ConvergeRequests ==
    {Submission("GRANT", k, wide, {offer}, None, 0, 3, 0, 0) : k \in {k1, k2}}
    \cup {Submission("RENEW", k1, late, {offer}, <<l1, 1>>, 1, 3, 1, 1), Halt(k1, 1, 1)}

\* Threads are interchangeable.
CallerSymmetry == Permutations(Callers)
=============================================================================
