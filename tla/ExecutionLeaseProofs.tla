------------------------- MODULE ExecutionLeaseProofs -------------------------
(***************************************************************************)
(* Theorems about ExecutionLease for every number of threads, lineages,     *)
(* requests and artifacts, and histories of any length.  One inductive      *)
(* invariant carries them: every committed event was decided from the       *)
(* events before it, and what a thread holds between two acquisitions of    *)
(* the lock is still what the policy decides, unless its lineage moved on.  *)
(***************************************************************************)
EXTENDS ExecutionLease, FoldLemmas, SequenceTheorems

-----------------------------------------------------------------------------
(* What the policy decides, its replay accepts: a history whose events were *)
(* each decided from the state before it replays, prefix by prefix, to the  *)
(* state its last event describes.                                          *)

\* The state _replay has after n events of a history in which nothing is
\* revoked: the last event carries the authority.
StateAt(h, n) ==
    IF n = 0 THEN EmptyState
    ELSE [ok |-> TRUE, version |-> n, generation |-> h[n].generation,
          authority |-> h[n], terminal |-> None, last |-> h[n]]

\* e is what _decision makes of its request in the state st.
DecidedFrom(e, st) ==
    /\ e.request.operation # "REVOKE"
    /\ e.request.expected = st.version
    /\ ~Illegal(e.request, st)
    /\ ~Unwarranted(e.request, st)
    /\ e = BuildEvent(e.request, st, st.version)

\* Every event of the lineage was decided from the events before it.
DecidedHistory(h, l) ==
    \A j \in DOMAIN h :
       /\ h[j].request.lineage = l
       /\ DecidedFrom(h[j], StateAt(h, j - 1))

\* The three operations that are left once a revocation is refused.
LEMMA Operations ==
    ASSUME NEW r \in Request, r.operation # "REVOKE"
    PROVE  /\ r.operation \in {"GRANT", "RENEW", "SUPERSEDE"}
           /\ r.authorization \in Authorizations /\ r.revocation = None
           /\ r.permissions # {} /\ r.permissions \subseteq Permissions
           /\ r.effective \in Nat /\ r.expires \in Nat /\ r.effective < r.expires
           /\ (r.prior = None) <=> (r.operation = "GRANT")
           /\ r.expected \in Nat /\ r.at \in Nat /\ r.lineage \in Lineages
<1>1. r \in RequestFields /\ Complete(r) BY DEF Request
<1> QED BY <1>1 DEF RequestFields, Complete, Operation

\* The fields of what _decision builds, by operation.
LEMMA BuildEventFields ==
    ASSUME NEW r \in Request, r.operation # "REVOKE", NEW st, NEW v
    PROVE  LET e == BuildEvent(r, st, v)
           IN  /\ e.request = r /\ e.version = v + 1
               /\ r.operation = "GRANT" =>
                     e.type = "GRANTED" /\ e.generation = 1 /\ e.superseded = 0
               /\ r.operation = "RENEW" =>
                     e.type = "RENEWED" /\ e.generation = st.generation /\ e.superseded = 0
               /\ r.operation = "SUPERSEDE" =>
                     /\ e.type = "SUPERSEDED" /\ e.generation = st.generation + 1
                     /\ e.superseded = st.authority.generation
<1>1. CASE r.operation = "GRANT" BY <1>1 DEF BuildEvent
<1>2. CASE r.operation = "RENEW" BY <1>2 DEF BuildEvent
<1>3. CASE r.operation = "SUPERSEDE" BY <1>3 DEF BuildEvent
<1> QED BY <1>1, <1>2, <1>3, Operations

\* build_execution_lease_event returns an event for every accepted request.
LEMMA BuildEventType ==
    ASSUME NEW r \in Request, r.operation # "REVOKE", NEW v \in Nat,
           NEW st, st.generation \in Nat, st.authority \in LeaseEvent \cup {None},
           ~Illegal(r, st)
    PROVE  BuildEvent(r, st, v) \in LeaseEvent
<1>1. r.operation # "GRANT" => st.authority.generation \in Nat
    BY DEF Illegal, Continues, LeaseEvent
<1>2. CASE r.operation = "GRANT" BY <1>2 DEF BuildEvent, LeaseEvent, EventType
<1>3. CASE r.operation = "RENEW" BY <1>3 DEF BuildEvent, LeaseEvent, EventType
<1>4. CASE r.operation = "SUPERSEDE" BY <1>1, <1>4 DEF BuildEvent, LeaseEvent, EventType
<1> QED BY <1>2, <1>3, <1>4, Operations

-----------------------------------------------------------------------------
(* The replay                                                               *)

\* One round of _replay on the next event of a decided history: it re-decides
\* the same event, every check of _advance_state passes, and the state moves on.
LEMMA DecidedRound ==
    ASSUME NEW l, NEW h \in Seq(LeaseEvent), DecidedHistory(h, l), NEW j \in 1 .. Len(h)
    PROVE  ReplayStep(StateAt(h, j - 1), h[j]) = StateAt(h, j)
<1> DEFINE e == h[j]
           r == e.request
           st == StateAt(h, j - 1)
<1>1. /\ j \in Nat /\ j # 0 /\ j - 1 \in Nat /\ j \in DOMAIN h /\ e \in LeaseEvent
      /\ r \in Request /\ DecidedFrom(e, st) /\ r.lineage = l
      /\ j - 1 # 0 => j - 1 \in DOMAIN h
  <2>1. /\ j \in Nat /\ j # 0 /\ j - 1 \in Nat /\ j \in DOMAIN h /\ e \in LeaseEvent
        /\ j - 1 # 0 => j - 1 \in DOMAIN h
      OBVIOUS
  <2>2. r \in Request BY <2>1 DEF LeaseEvent
  <2>3. DecidedFrom(e, st) /\ r.lineage = l BY <2>1 DEF DecidedHistory
  <2> QED BY <2>1, <2>2, <2>3
<1>2. /\ j - 1 = 0 => st = EmptyState
      /\ j - 1 # 0 => st = [ok |-> TRUE, version |-> j - 1, generation |-> h[j - 1].generation,
                            authority |-> h[j - 1], terminal |-> None, last |-> h[j - 1]]
    BY <1>1 DEF StateAt
<1>3. st.ok /\ st.version = j - 1 /\ st.terminal = None
    BY <1>1, <1>2 DEF EmptyState
<1>4. j - 1 # 0 => /\ st.last = st.authority /\ st.generation = st.authority.generation
                   /\ st.authority.request.lineage = l
    BY <1>1, <1>2 DEF DecidedHistory
<1>5. j - 1 = 0 => st.authority = None
    BY <1>2 DEF EmptyState
<1>6. StateAt(h, j) = [ok |-> TRUE, version |-> e.version, generation |-> e.generation,
                       authority |-> e, terminal |-> None, last |-> e]
  <2>1. e.version = j BY <1>1, <1>3, BuildEventFields DEF DecidedFrom
  <2> QED BY <1>1, <2>1 DEF StateAt
<1> HIDE DEF e, r, st
<1>7. r.operation # "REVOKE" /\ e = BuildEvent(r, st, st.version) /\ ~Illegal(r, st)
    BY <1>1 DEF DecidedFrom, r
<1>8. WellFormed(st, e)
  <2>1. e.request = r /\ e.version = st.version + 1
      BY <1>1, <1>7, BuildEventFields DEF r
  <2>2. CASE r.operation = "GRANT"
    <3>1. e.type = "GRANTED" /\ e.generation = 1 BY <1>1, <1>7, <2>2, BuildEventFields
    <3>2. r.prior = None BY <1>1, <2>2, Operations
    <3>3. st.version = 0 BY <1>7, <2>2 DEF Illegal
    <3> QED BY <2>1, <3>1, <3>2, <3>3 DEF WellFormed
  <2>3. CASE r.operation # "GRANT"
    <3>1. /\ st.authority # None /\ r.prior = Ref(st.last) /\ st.terminal = None
        BY <1>7, <2>3 DEF Illegal, Continues
    <3>2. st.generation = st.authority.generation /\ st.authority.request.lineage = l
        BY <1>4, <1>5, <3>1
    <3>3. CASE r.operation = "RENEW"
      <4>1. e.type = "RENEWED" /\ e.generation = st.generation
          BY <1>1, <1>7, <3>3, BuildEventFields
      <4>2. LeaseId(e) = LeaseId(st.authority) BY <1>1, <2>1, <3>2, <4>1 DEF LeaseId
      <4> QED BY <2>1, <3>1, <4>1, <4>2 DEF WellFormed
    <3>4. CASE r.operation = "SUPERSEDE"
      <4>1. /\ e.type = "SUPERSEDED" /\ e.generation = st.generation + 1
            /\ e.superseded = st.authority.generation
          BY <1>1, <1>7, <3>4, BuildEventFields
      <4> QED BY <2>1, <3>1, <4>1 DEF WellFormed
    <3> QED BY <1>1, <1>7, <2>3, <3>3, <3>4, Operations
  <2> QED BY <2>2, <2>3
<1>9. Reproduces(st, e) BY <1>1, <1>8 DEF DecidedFrom, Reproduces
<1>10. e.type # "REVOKED" BY <1>1, <1>7, BuildEventFields, Operations
<1> QED BY <1>3, <1>6, <1>9, <1>10 DEF ReplayStep, AdvanceState, e, st

\* _replay of a decided history, prefix by prefix: the recursion has the states
\* the events describe as a solution, and no other one.
LEMMA DecidedPrefixes ==
    ASSUME NEW l, NEW h \in Seq(LeaseEvent), DecidedHistory(h, l)
    PROVE  \A n \in 0 .. Len(h) : ReplayPrefixes(h)[n] = StateAt(h, n)
<1> DEFINE N == Len(h)
           Round(f) == [n \in 0 .. N |->
                          IF n = 0 THEN EmptyState ELSE ReplayStep(f[n - 1], h[n])]
           g == [n \in 0 .. N |-> StateAt(h, n)]
           p == ReplayPrefixes(h)
<1>1. N \in Nat OBVIOUS
<1>2. /\ g[0] = EmptyState
      /\ \A n \in 1 .. N : g[n] = ReplayStep(g[n - 1], h[n])
  <2>1. \A n \in 1 .. N : ReplayStep(StateAt(h, n - 1), h[n]) = StateAt(h, n)
      BY DecidedRound
  <2>2. StateAt(h, 0) = EmptyState BY DEF StateAt
  <2> HIDE DEF N
  <2> QED BY <1>1, <2>1, <2>2
<1>3. g = Round(g)
  <2>1. g = [n \in 0 .. N |-> g[n]] OBVIOUS
  <2> HIDE DEF g, N
  <2>2. \A n \in 0 .. N : g[n] = IF n = 0 THEN EmptyState ELSE ReplayStep(g[n - 1], h[n])
      BY <1>1, <1>2
  <2> QED BY <2>1, <2>2
<1>4. p = CHOOSE f : f = Round(f) BY DEF ReplayPrefixes
<1>5. p = Round(p) BY <1>3, <1>4, Zenon
<1> HIDE DEF N, g, p
<1>6. /\ p[0] = EmptyState
      /\ \A n \in 1 .. N : p[n] = ReplayStep(p[n - 1], h[n])
    BY <1>1, <1>5
<1>7. \A n \in 0 .. N : p[n] = g[n]
  <2>1. \A n \in 1 .. N : p[n - 1] = g[n - 1] => p[n] = g[n] BY <1>2, <1>6
  <2>2. p[0] = g[0] BY <1>2, <1>6
  <2> QED BY ONLY <1>1, <2>1, <2>2, FoldUnique, ZenonT(60)
<1> QED BY <1>7 DEF g, p, N

\* Deterministic replay: the replay of a decided history raises nothing and
\* ends in the state its last event describes.
THEOREM DecidedReplay ==
    ASSUME NEW l, NEW h \in Seq(LeaseEvent), DecidedHistory(h, l)
    PROVE  Replay(h) = StateAt(h, Len(h))
<1>1. Len(h) \in 0 .. Len(h) OBVIOUS
<1> QED BY <1>1, DecidedPrefixes DEF Replay

\* applicable replays a prefix of the history: it has the state the history
\* itself went through there.
LEMMA PrefixReplay ==
    ASSUME NEW l, NEW h \in Seq(LeaseEvent), DecidedHistory(h, l), NEW n \in 0 .. Len(h)
    PROVE  /\ Replay(SubSeq(h, 1, n)) = StateAt(h, n)
           /\ DOMAIN SubSeq(h, 1, n) \subseteq DOMAIN h
           /\ \A j \in DOMAIN SubSeq(h, 1, n) : SubSeq(h, 1, n)[j] = h[j]
<1> DEFINE k == SubSeq(h, 1, n)
<1>1. /\ k \in Seq(LeaseEvent) /\ Len(k) = n /\ DOMAIN k = 1 .. n
      /\ \A j \in 1 .. n : k[j] = h[j]
      /\ DOMAIN h = 1 .. Len(h) /\ n \in Nat /\ Len(h) \in Nat
    OBVIOUS
<1> HIDE DEF k
<1>2. \A j \in 0 .. n : StateAt(k, j) = StateAt(h, j)
  <2> SUFFICES ASSUME NEW j \in 0 .. n PROVE StateAt(k, j) = StateAt(h, j) OBVIOUS
  <2>1. j = 0 \/ k[j] = h[j] BY <1>1
  <2> QED BY <2>1 DEF StateAt
<1>3. DecidedHistory(k, l)
  <2> SUFFICES ASSUME NEW j \in DOMAIN k
               PROVE  k[j].request.lineage = l /\ DecidedFrom(k[j], StateAt(k, j - 1))
      BY DEF DecidedHistory
  <2>1. j \in DOMAIN h /\ k[j] = h[j] /\ j - 1 \in 0 .. n BY <1>1
  <2>2. StateAt(k, j - 1) = StateAt(h, j - 1) BY <1>2, <2>1
  <2> QED BY <2>1, <2>2 DEF DecidedHistory
<1>4. Replay(k) = StateAt(k, n) BY <1>1, <1>3, DecidedReplay
<1>5. n \in 0 .. n BY <1>1
<1> QED BY <1>1, <1>2, <1>4, <1>5 DEF k

\* The state after a decided history, field by field.
LEMMA StateAtFields ==
    ASSUME NEW h \in Seq(LeaseEvent), NEW n \in 0 .. Len(h)
    PROVE  /\ StateAt(h, n).ok /\ StateAt(h, n).version = n
           /\ StateAt(h, n).terminal = None
           /\ StateAt(h, n).generation \in Nat
           /\ StateAt(h, n).authority \in LeaseEvent \cup {None}
           /\ StateAt(h, n).last = StateAt(h, n).authority
           /\ StateAt(h, n).authority = IF n = 0 THEN None ELSE h[n]
<1>1. CASE n = 0 BY <1>1 DEF StateAt, EmptyState
<1>2. CASE n # 0
  <2>1. h[n] \in LeaseEvent BY <1>2
  <2>2. h[n].generation \in Nat BY <2>1 DEF LeaseEvent
  <2> QED BY <1>2, <2>1, <2>2 DEF StateAt
<1> QED BY <1>1, <1>2

\* One more decided event keeps the history decided.
LEMMA DecidedExtends ==
    ASSUME NEW l, NEW h \in Seq(LeaseEvent), DecidedHistory(h, l), NEW e \in LeaseEvent,
           e.request.lineage = l, DecidedFrom(e, StateAt(h, Len(h)))
    PROVE  DecidedHistory(Append(h, e), l)
<1> DEFINE k == Append(h, e)
           n == Len(h)
<1>1. /\ n \in Nat /\ DOMAIN h = 1 .. n /\ DOMAIN k = 1 .. (n + 1) /\ k[n + 1] = e
      /\ \A j \in 1 .. n : k[j] = h[j]
    OBVIOUS
<1> HIDE DEF k
<1>2. \A j \in 0 .. n : StateAt(k, j) = StateAt(h, j)
  <2> SUFFICES ASSUME NEW j \in 0 .. n PROVE StateAt(k, j) = StateAt(h, j) OBVIOUS
  <2>1. j = 0 \/ k[j] = h[j] BY <1>1
  <2> QED BY <2>1 DEF StateAt
<1> SUFFICES ASSUME NEW j \in DOMAIN k
             PROVE  k[j].request.lineage = l /\ DecidedFrom(k[j], StateAt(k, j - 1))
    BY DEF DecidedHistory, k
<1> HIDE DEF n
<1>3. CASE j = n + 1
  <2>1. j - 1 = n /\ n \in 0 .. n BY <1>1, <1>3
  <2> QED BY <1>1, <1>2, <1>3, <2>1 DEF n
<1>4. CASE j # n + 1
  <2>1. j \in DOMAIN h /\ k[j] = h[j] /\ j - 1 \in 0 .. n BY <1>1, <1>4
  <2>2. StateAt(k, j - 1) = StateAt(h, j - 1) BY <1>2, <2>1
  <2> QED BY <2>1, <2>2 DEF DecidedHistory
<1> QED BY <1>3, <1>4

-----------------------------------------------------------------------------
(* The evidence                                                             *)

\* _resolve lets a request through: it is no revocation, and its authorization
\* is retained and covers it.
Warranted(r, evidence) ==
    r.revocation = None /\ Found(r, evidence) /\ r.intact /\ Authorizes(r)

\* Nothing but a warranted grant, renewal or supersession resolves, whatever
\* has been committed.
LEMMA ResolvedIsWarranted ==
    ASSUME NEW r, NEW evidence, NEW committed
    PROVE  Resolution(r, evidence, committed) = "Resolved" <=> Warranted(r, evidence)
BY DEF Resolution, Warranted

\* Evidence is immutable: what it warrants it warrants for ever.
LEMMA WarrantedMonotone ==
    ASSUME NEW r, NEW some, NEW more, some \subseteq more, Warranted(r, some)
    PROVE  Warranted(r, more)
BY DEF Warranted, Found

-----------------------------------------------------------------------------
(* The chain of events                                                      *)

\* What the decision leaves between an event of a decided history and the one
\* before it.
LEMMA DecidedStep ==
    ASSUME NEW l, NEW h \in Seq(LeaseEvent), DecidedHistory(h, l), NEW j \in DOMAIN h
    PROVE  LET r == h[j].request
               before == h[j - 1]
           IN  /\ r \in Request /\ r.operation # "REVOKE" /\ r.expected = j - 1
               /\ Ref(h[j]) = <<l, j>> /\ h[j].type # "REVOKED"
               /\ j = 1 => /\ h[j].type = "GRANTED" /\ h[j].generation = 1
                           /\ h[j].superseded = 0 /\ r.prior = None
               /\ j # 1 =>
                     /\ j - 1 \in DOMAIN h
                     /\ r.prior = <<l, j - 1>>
                     /\ r.authorization # before.request.authorization
                     /\ before.request.effective <= r.effective
                     /\ before.request.at <= r.at
                     /\ \/ /\ h[j].type = "RENEWED" /\ h[j].superseded = 0
                           /\ h[j].generation = before.generation
                           /\ r.permissions \subseteq before.request.permissions
                        \/ /\ h[j].type = "SUPERSEDED"
                           /\ h[j].generation = before.generation + 1
                           /\ h[j].superseded = before.generation
<1> DEFINE e == h[j]
           r == e.request
           before == h[j - 1]
           st == StateAt(h, j - 1)
<1>1. j \in Nat /\ j # 0 /\ (j # 1 => j - 1 \in DOMAIN h /\ j - 1 # 0) OBVIOUS
<1>2. e \in LeaseEvent /\ (j # 1 => before \in LeaseEvent /\ before # None)
  <2>1. e \in LeaseEvent /\ (j # 1 => before \in LeaseEvent) BY <1>1
  <2> QED BY <2>1, NoneAssumption
<1>3. r \in Request /\ (j # 1 => before.request \in Request)
    BY <1>2 DEF LeaseEvent
<1>4. r.lineage = l /\ DecidedFrom(e, st) /\ (j # 1 => Ref(before) = <<l, j - 1>>)
  <2>1. r.lineage = l /\ DecidedFrom(e, st) BY DEF DecidedHistory
  <2>2. ASSUME j # 1 PROVE Ref(before) = <<l, j - 1>>
    <3>1. DecidedFrom(before, StateAt(h, j - 2)) /\ before.request.lineage = l
      <4>1. (j - 1) - 1 = j - 2 BY <1>1
      <4> QED BY <1>1, <2>2, <4>1 DEF DecidedHistory
    <3>2. StateAt(h, j - 2).version = j - 2
        BY <1>1, <2>2 DEF StateAt, EmptyState
    <3>3. before.version = (j - 2) + 1
        BY <1>3, <2>2, <3>1, <3>2, BuildEventFields DEF DecidedFrom
    <3> QED BY <1>1, <3>1, <3>3 DEF Ref
  <2> QED BY <2>1, <2>2
<1>5. /\ j = 1 => st.version = 0 /\ st.authority = None
      /\ j # 1 => /\ st.version = j - 1 /\ st.last = before /\ st.authority = before
                  /\ st.generation = before.generation
    BY <1>1 DEF StateAt, EmptyState
<1> HIDE DEF e, r, before, st
<1>6. /\ r.operation # "REVOKE" /\ r.expected = st.version
      /\ ~Illegal(r, st) /\ ~Unwarranted(r, st) /\ e = BuildEvent(r, st, st.version)
    BY <1>4 DEF DecidedFrom, r
<1>7. /\ e.version = st.version + 1
      /\ r.operation = "GRANT" => e.type = "GRANTED" /\ e.generation = 1 /\ e.superseded = 0
      /\ r.operation = "RENEW" =>
            e.type = "RENEWED" /\ e.generation = st.generation /\ e.superseded = 0
      /\ r.operation = "SUPERSEDE" =>
            /\ e.type = "SUPERSEDED" /\ e.generation = st.generation + 1
            /\ e.superseded = st.authority.generation
    BY <1>3, <1>6, BuildEventFields
<1>8. r.operation \in {"GRANT", "RENEW", "SUPERSEDE"} /\ ((r.prior = None) <=> (r.operation = "GRANT"))
    BY <1>3, <1>6, Operations
<1>9. Ref(e) = <<l, j>> /\ r.expected = j - 1
  <2>1. st.version = j - 1 BY <1>1, <1>5
  <2>2. e.version = j BY <1>1, <1>7, <2>1
  <2> QED BY <1>4, <1>6, <2>1, <2>2 DEF Ref, r
<1>10. CASE j = 1
  <2>1. r.operation = "GRANT" BY <1>5, <1>6, <1>8, <1>10 DEF Illegal, Continues
  <2> QED BY <1>3, <1>6, <1>7, <1>8, <1>9, <1>10, <2>1 DEF e, r
<1>11. CASE j # 1
  <2>1. r.operation # "GRANT" BY <1>1, <1>5, <1>6, <1>11 DEF Illegal
  <2>2. r.prior = Ref(before) /\ InOrder(r, st)
      BY <1>5, <1>6, <1>11, <2>1 DEF Illegal, Continues
  <2>3. before.request.at <= r.at
      BY <1>2, <1>3, <1>5, <1>11, <2>2, Operations DEF InOrder, Request, RequestFields
  <2>4. WithinAuthority(r, before.request) BY <1>5, <1>6, <1>11, <2>1 DEF Unwarranted
  <2>5. /\ r.authorization # before.request.authorization
        /\ r.operation = "RENEW" => r.permissions \subseteq before.request.permissions
        /\ before.request.effective <= r.effective
    <3>1. r.effective \in Nat /\ before.request.effective \in Nat
        BY <1>3, <1>11 DEF Request, RequestFields
    <3> QED BY <1>6, <2>4, <3>1 DEF WithinAuthority
  <2>6. r.prior = <<l, j - 1>> BY <1>4, <1>11, <2>2
  <2>7. e.type # "REVOKED" BY <1>7, <1>8
  <2>8. \/ /\ e.type = "RENEWED" /\ e.superseded = 0 /\ e.generation = before.generation
           /\ r.permissions \subseteq before.request.permissions
        \/ /\ e.type = "SUPERSEDED" /\ e.generation = before.generation + 1
           /\ e.superseded = before.generation
      BY <1>5, <1>7, <1>8, <1>11, <2>1, <2>5
  <2> QED BY <1>1, <1>3, <1>6, <1>9, <1>11, <2>3, <2>5, <2>6, <2>7, <2>8 DEF e, r, before
<1> QED BY <1>10, <1>11

\* The positions, up to the n-th, of a history's supersessions.
Supersessions(h, n) == {i \in 1 .. n : h[i].type = "SUPERSEDED"}

\* One more event adds itself to the supersessions, or nothing.
LEMMA SupersessionsStep ==
    ASSUME NEW h, NEW n \in Nat
    PROVE  /\ Cardinality(Supersessions(h, n)) \in Nat
           /\ h[n + 1].type = "SUPERSEDED" =>
                 Cardinality(Supersessions(h, n + 1)) = Cardinality(Supersessions(h, n)) + 1
           /\ h[n + 1].type # "SUPERSEDED" =>
                 Supersessions(h, n + 1) = Supersessions(h, n)
<1>1. Supersessions(h, n) \in SUBSET (1 .. n) BY DEF Supersessions
<1>2. /\ Cardinality(Supersessions(h, n)) \in Nat
      /\ Cardinality(Supersessions(h, n) \cup {n + 1}) = Cardinality(Supersessions(h, n)) + 1
    BY <1>1, CountOne
<1>3. 1 .. (n + 1) = (1 .. n) \cup {n + 1} OBVIOUS
<1>4. h[n + 1].type = "SUPERSEDED" => Supersessions(h, n + 1) = Supersessions(h, n) \cup {n + 1}
    BY <1>3 DEF Supersessions
<1>5. h[n + 1].type # "SUPERSEDED" => Supersessions(h, n + 1) = Supersessions(h, n)
    BY <1>3 DEF Supersessions
<1> QED BY <1>2, <1>4, <1>5

\* The generation of an event counts the supersessions so far.
LEMMA GenerationCounts ==
    ASSUME NEW l, NEW h \in Seq(LeaseEvent), DecidedHistory(h, l)
    PROVE  \A j \in 1 .. Len(h) : h[j].generation = 1 + Cardinality(Supersessions(h, j))
<1> DEFINE N == Len(h)
           Good == {0} \cup {j \in 1 .. N : h[j].generation = 1 + Cardinality(Supersessions(h, j))}
<1>1. N \in Nat /\ DOMAIN h = 1 .. N OBVIOUS
<1>2. ASSUME NEW n \in 1 .. N, n - 1 \in Good PROVE n \in Good
  <2>1. n \in Nat /\ n - 1 \in Nat /\ (n - 1) + 1 = n /\ n \in DOMAIN h BY <1>1
  <2>2. CASE n = 1
    <3>1. h[1].type = "GRANTED" /\ h[1].generation = 1 BY <2>1, <2>2, DecidedStep
    <3>2. Supersessions(h, 1) = {}
      <4>1. 1 .. 1 = {1} OBVIOUS
      <4> QED BY <3>1, <4>1 DEF Supersessions
    <3>3. Cardinality(Supersessions(h, 1)) = 0 BY <3>2, FS_EmptySet
    <3>4. h[n].generation = 1 + Cardinality(Supersessions(h, n)) BY <2>2, <3>1, <3>3
    <3> QED BY <3>4
  <2>3. CASE n # 1
    <3>1. h[n - 1].generation = 1 + Cardinality(Supersessions(h, n - 1)) BY <1>2, <2>1, <2>3
    <3>2. \/ h[n].type = "RENEWED" /\ h[n].generation = h[n - 1].generation
          \/ h[n].type = "SUPERSEDED" /\ h[n].generation = h[n - 1].generation + 1
      BY <2>1, <2>3, DecidedStep
    <3>3. /\ Cardinality(Supersessions(h, n - 1)) \in Nat
          /\ h[n].type = "SUPERSEDED" =>
                 Cardinality(Supersessions(h, n)) = Cardinality(Supersessions(h, n - 1)) + 1
          /\ h[n].type # "SUPERSEDED" => Supersessions(h, n) = Supersessions(h, n - 1)
      <4> DEFINE m == n - 1
      <4>1. m \in Nat /\ m + 1 = n BY <2>1
      <4> HIDE DEF m
      <4>2. /\ Cardinality(Supersessions(h, m)) \in Nat
            /\ h[n].type = "SUPERSEDED" =>
                  Cardinality(Supersessions(h, n)) = Cardinality(Supersessions(h, m)) + 1
            /\ h[n].type # "SUPERSEDED" => Supersessions(h, n) = Supersessions(h, m)
          BY <4>1, SupersessionsStep
      <4> QED BY <4>2 DEF m
    <3> QED BY <3>1, <3>2, <3>3
  <2> QED BY <2>2, <2>3
<1>3. 0 .. N \subseteq Good
  <2>1. 0 \in Good OBVIOUS
  <2> HIDE DEF Good, N
  <2> QED BY <1>1, <1>2, <2>1, UpTo
<1> QED BY <1>1, <1>3

\* Time, the authority's start and the generation never run backwards, and
\* within a generation permissions only narrow.
LEMMA AuthorityNarrows ==
    ASSUME NEW l, NEW h \in Seq(LeaseEvent), DecidedHistory(h, l),
           NEW i \in DOMAIN h, NEW j \in DOMAIN h, i < j
    PROVE  /\ h[i].generation = h[j].generation =>
                 h[j].request.permissions \subseteq h[i].request.permissions
           /\ h[i].request.effective <= h[j].request.effective
           /\ h[i].request.at <= h[j].request.at
<1> DEFINE N == Len(h)
           Narrower(n) ==
              /\ h[i].generation <= h[n].generation
              /\ h[i].generation = h[n].generation =>
                    h[n].request.permissions \subseteq h[i].request.permissions
              /\ h[i].request.effective <= h[n].request.effective
              /\ h[i].request.at <= h[n].request.at
           Good == {n \in 0 .. N : i <= n => Narrower(n)}
<1>1. N \in Nat /\ DOMAIN h = 1 .. N /\ i \in 1 .. N OBVIOUS
<1>2. \A n \in 1 .. N : /\ h[n].generation \in Nat
                        /\ h[n].request.effective \in Nat /\ h[n].request.at \in Nat
  <2>1. \A n \in 1 .. N : h[n] \in LeaseEvent OBVIOUS
  <2> QED BY <2>1 DEF LeaseEvent, Request, RequestFields
<1>3. ASSUME NEW n \in 1 .. N, n - 1 \in Good PROVE n \in Good
  <2>1. CASE n < i BY <1>1, <2>1
  <2>2. CASE n = i BY <1>1, <1>2, <2>2
  <2>3. CASE i < n
    <3>1. n \in DOMAIN h /\ n # 1 /\ n - 1 \in 1 .. N /\ i <= n - 1 BY <1>1, <2>3
    <3>2. Narrower(n - 1) BY <1>3, <3>1
    <3>3. /\ h[n - 1].request.effective <= h[n].request.effective
          /\ h[n - 1].request.at <= h[n].request.at
          /\ \/ /\ h[n].generation = h[n - 1].generation
                /\ h[n].request.permissions \subseteq h[n - 1].request.permissions
             \/ h[n].generation = h[n - 1].generation + 1
        BY <3>1, DecidedStep
    <3>4. /\ h[i].request.effective <= h[n].request.effective
          /\ h[i].request.at <= h[n].request.at
      <4>1. /\ h[i].request.effective <= h[n - 1].request.effective
            /\ h[i].request.at <= h[n - 1].request.at
          BY <3>2
      <4>2. \A k \in {i, n - 1, n} : h[k].request.effective \in Nat /\ h[k].request.at \in Nat
          BY <1>1, <1>2, <3>1
      <4> HIDE DEF Narrower, Good, N
      <4> QED BY <3>3, <4>1, <4>2, SMTT(30)
    <3>5. /\ h[i].generation \in Nat /\ h[n - 1].generation \in Nat /\ h[n].generation \in Nat
          /\ h[i].generation <= h[n - 1].generation
        BY <1>1, <1>2, <3>1, <3>2
    <3>6. h[i].generation <= h[n].generation BY <3>3, <3>5
    <3>7. ASSUME h[i].generation = h[n].generation
          PROVE  h[n].request.permissions \subseteq h[i].request.permissions
      <4>1. /\ h[n].generation = h[n - 1].generation
            /\ h[n].request.permissions \subseteq h[n - 1].request.permissions
          BY <3>3, <3>5, <3>7
      <4> QED BY <3>2, <3>7, <4>1
    <3> QED BY <3>4, <3>6, <3>7
  <2> QED BY <1>1, <2>1, <2>2, <2>3
<1>4. 0 .. N \subseteq Good
  <2>1. 0 \in Good BY <1>1
  <2> HIDE DEF Good, N
  <2> QED BY <1>1, <1>3, <2>1, UpTo
<1>5. j \in Good /\ i <= j BY <1>1, <1>4
<1> QED BY <1>5

-----------------------------------------------------------------------------
(* The inductive invariant                                                  *)

\* Every lineage's events were decided in turn, on evidence that is retained.
Histories ==
    \A l \in Lineages :
       /\ DecidedHistory(streams[l], l)
       /\ \A j \in DOMAIN streams[l] : Warranted(streams[l][j].request, retained)

\* The outcome of applicable still follows from the event at its boundary.
Stands(q, outcome, h) ==
    /\ q.through \in 0 .. Len(h)
    /\ (outcome = "Applicable") <=>
          /\ q.through # 0
          /\ ApplicableAt(h[q.through], q.at)

\* The event a thread was told of: committed, and its own request's.
Told(frame, ids) ==
    /\ frame.request \in Request /\ frame.request.operation # "REVOKE"
    /\ frame.event \in ids /\ frame.event.request = frame.request

\* The event a thread is about to append, decided from its lineage's history h.
Pending(frame, h) ==
    /\ frame.event \in LeaseEvent /\ frame.event.request = frame.request
    /\ frame.event.version = frame.request.expected + 1
    /\ frame.request.expected <= Len(h)
    /\ frame.request.expected = Len(h) => DecidedFrom(frame.event, StateAt(h, Len(h)))

\* What one thread holds, against what is committed and retained.
Held(frame, ids, histories, artifacts) ==
    /\ frame \in CallState
    /\ frame.pc \in {"resolve", "load", "recheck", "append"} => frame.request \in Request
    /\ frame.pc \in {"load", "recheck", "append"} => Warranted(frame.request, artifacts)
    /\ frame.pc = "resolve" /\ frame.event # None =>
          frame.event \in ids /\ frame.event.request = frame.request
    /\ frame.pc \in {"recheck", "append"} =>
          Pending(frame, histories[frame.request.lineage])
    /\ frame.pc = "rebuild" => frame.event \in ids
    /\ frame.outcome \in {"Created", "ExistingEquivalent"} => Told(frame, ids)
    /\ frame.outcome \in {"Applicable", "NotApplicable"} =>
          /\ frame.asked \in Question
          /\ Stands(frame.asked, frame.outcome, histories[frame.asked.lineage])
    /\ frame.outcome # "ReplayFailed"
    /\ frame.asked = None => frame.outcome # "ReconstructionFailed"

\* No two threads both created an event.
OneCreator ==
    \A c, d \in Callers :
       c # d /\ call[c].outcome = "Created" /\ call[d].outcome = "Created" =>
          call[c].event # call[d].event

LeaseInv ==
    /\ TypeOK
    /\ IndexesAgree
    /\ Histories
    /\ \A c \in Callers : Held(call[c], byId, streams, retained)
    /\ OneCreator

-----------------------------------------------------------------------------
(* Steps that touch one thread only                                         *)

\* An idempotency identity is one the repository indexes by.
LEMMA IdentityType ==
    ASSUME NEW r \in Request
    PROVE  Identity(r) \in Identities /\ r.lineage \in Lineages
BY DEF Identity, Identities, Request, RequestFields

\* A step that changes one thread's frame, and creates nothing.
LEMMA FrameStep ==
    ASSUME LeaseInv, NEW c \in Callers, NEW frame,
           Held(frame, byId, streams, retained), frame.outcome # "Created",
           call' = [call EXCEPT ![c] = frame], ReadOnly
    PROVE  LeaseInv'
<1>1. \A d \in Callers : call'[d] = IF d = c THEN frame ELSE call[d]
    BY DEF LeaseInv, TypeOK
<1>2. call' \in [Callers -> CallState] BY DEF LeaseInv, TypeOK, Held
<1>3. TypeOK' BY <1>2 DEF LeaseInv, TypeOK, ReadOnly
<1>4. IndexesAgree' /\ Histories' BY DEF LeaseInv, ReadOnly, IndexesAgree, Histories
<1>5. \A d \in Callers : Held(call'[d], byId', streams', retained')
    BY <1>1, Zenon DEF LeaseInv, ReadOnly
<1>6. OneCreator' BY <1>1 DEF LeaseInv, OneCreator
<1> QED BY <1>3, <1>4, <1>5, <1>6 DEF LeaseInv

\* What a service call may answer without having committed anything.
Refusals == {"EvidenceUnavailable", "Invalid", "IdempotencyConflict", "VersionConflict",
             "IllegalTransition", "PersistenceFailure", "Reconstructed"}

\* A refusal, or a reconstruction, leaves the invariant as it was.
LEMMA RefusalStep ==
    ASSUME LeaseInv, NEW c \in Callers, NEW outcome \in Refusals,
           NEW event \in LeaseEvent \cup {None}, Answer(c, outcome, event), ReadOnly
    PROVE  LeaseInv'
<1> DEFINE frame == Frame("done", call[c].request, event, outcome)
<1>1. call[c] \in CallState BY DEF LeaseInv, TypeOK
<1>2. frame \in CallState BY <1>1 DEF Frame, CallState, Outcome, Refusals
<1>3. Held(frame, byId, streams, retained)
    BY <1>2, OutcomeAssumption DEF Held, Frame, Refusals
<1>4. frame.outcome # "Created" BY DEF Frame, Refusals
<1> QED BY <1>3, <1>4, FrameStep DEF Answer

\* So does an event found under the caller's own identity and input.
LEMMA ExistingStep ==
    ASSUME LeaseInv, NEW c \in Callers, NEW e \in byId,
           call[c].request \in Request, call[c].request.operation # "REVOKE",
           e.request = call[c].request,
           Answer(c, "ExistingEquivalent", e), ReadOnly
    PROVE  LeaseInv'
<1> DEFINE frame == Frame("done", call[c].request, e, "ExistingEquivalent")
<1>1. e \in LeaseEvent BY DEF LeaseInv, TypeOK
<1>2. frame \in CallState BY <1>1 DEF Frame, CallState, Outcome
<1>3. Held(frame, byId, streams, retained)
    BY <1>2, OutcomeAssumption DEF Held, Told, Frame
<1>4. frame.outcome # "Created" BY DEF Frame
<1> QED BY <1>3, <1>4, FrameStep DEF Answer

\* idempotency_record: what is found under an identity is committed.
LEMMA PriorCommitted ==
    ASSUME LeaseInv, NEW r \in Request, idempotency[Identity(r)] # None
    PROVE  idempotency[Identity(r)] \in byId
BY IdentityType DEF LeaseInv, IndexesAgree

\* Collide: the prior commit answers the caller or is a conflict.
LEMMA CollideStep ==
    ASSUME LeaseInv, NEW c \in Callers, call[c].pc \in {"recheck", "append"},
           Collide(c, idempotency[Identity(call[c].event.request)], call[c].event), ReadOnly
    PROVE  LeaseInv'
<1> DEFINE e == call[c].event
           r == call[c].request
           prior == idempotency[Identity(e.request)]
<1>1. r \in Request /\ r.operation # "REVOKE" /\ e.request = r
  <2>1. Held(call[c], byId, streams, retained) BY DEF LeaseInv
  <2>2. r \in Request /\ Warranted(r, retained) /\ e.request = r BY <2>1 DEF Held, Pending
  <2>3. r.revocation = None BY <2>2 DEF Warranted
  <2>4. Complete(r) BY <2>2 DEF Request
  <2> QED BY <2>2, <2>3, <2>4 DEF Complete
<1>2. prior # None BY DEF Collide
<1>3. prior \in byId BY <1>1, <1>2, PriorCommitted
<1>4. CASE SameInput(prior, e) /\ Answer(c, "ExistingEquivalent", prior)
  <2>1. prior.request = r BY <1>1, <1>4 DEF SameInput
  <2> QED BY <1>1, <1>3, <1>4, <2>1, ExistingStep
<1>5. CASE Answer(c, "IdempotencyConflict", None)
    BY <1>5, RefusalStep DEF Refusals
<1> QED BY <1>4, <1>5 DEF Collide

-----------------------------------------------------------------------------
(* The steps of a call, up to the commit                                    *)

\* Submit keeps the record of the caller's own request, or refuses.
LEMMA SubmitStep ==
    ASSUME LeaseInv, NEW c \in Callers, NEW r \in Requests, Submit(c, r)
    PROVE  LeaseInv'
<1> DEFINE prior == idempotency[Identity(r)]
<1>1. r \in Request /\ ReadOnly BY RequestsAssumption DEF Submit
<1>2. prior # None => prior \in byId /\ prior \in LeaseEvent
    BY <1>1, PriorCommitted DEF LeaseInv, TypeOK
<1>3. CASE prior # None /\ prior.request # r
  <2> DEFINE frame == Frame("done", r, None, "IdempotencyConflict")
  <2>1. frame \in CallState BY <1>1 DEF Frame, CallState, Outcome
  <2>2. Held(frame, byId, streams, retained)
      BY <2>1, OutcomeAssumption DEF Held, Frame
  <2>3. frame.outcome # "Created" /\ call' = [call EXCEPT ![c] = frame]
      BY <1>3 DEF Frame, Submit
  <2> QED BY <1>1, <2>2, <2>3, FrameStep
<1>4. CASE ~(prior # None /\ prior.request # r)
  <2> DEFINE frame == Frame("resolve", r, prior, None)
  <2> HIDE DEF prior
  <2>1. frame \in CallState BY <1>1, <1>2 DEF Frame, CallState
  <2>2. Held(frame, byId, streams, retained)
      BY <1>1, <1>2, <1>4, <2>1, OutcomeAssumption DEF Held, Frame, Outcome
  <2>3. frame.outcome # "Created" /\ call' = [call EXCEPT ![c] = frame]
      BY <1>4, OutcomeAssumption DEF Frame, Submit, Outcome, prior
  <2> QED BY <1>1, <2>2, <2>3, FrameStep
<1> QED BY <1>3, <1>4

\* Resolve lets warranted requests through and refuses the others.
LEMMA ResolveStep ==
    ASSUME LeaseInv, NEW c \in Callers, Resolve(c)
    PROVE  LeaseInv'
<1> DEFINE r == call[c].request
           resolution == Resolution(r, retained, byId)
<1>1. ReadOnly /\ call[c].pc = "resolve" /\ Held(call[c], byId, streams, retained)
    BY DEF Resolve, LeaseInv
<1>2. r \in Request BY <1>1 DEF Held
<1>3. resolution \in {"EvidenceUnavailable", "Invalid", "IllegalTransition", "Resolved"}
    BY DEF Resolution
<1>4. CASE resolution # "Resolved" /\ Answer(c, resolution, None)
  <2>1. resolution \in Refusals BY <1>3, <1>4 DEF Refusals
  <2> HIDE DEF resolution
  <2> QED BY <1>1, <1>4, <2>1, RefusalStep
<1>5. CASE resolution = "Resolved"
  <2>1. Warranted(r, retained) BY <1>5, ResolvedIsWarranted
  <2>2. r.operation # "REVOKE" BY <1>2, <2>1 DEF Warranted, Request, Complete
  <2>3. CASE call[c].event # None /\ Answer(c, "ExistingEquivalent", call[c].event)
    <3>1. call[c].event \in byId /\ call[c].event.request = r BY <1>1, <2>3 DEF Held
    <3> QED BY <1>1, <1>2, <2>2, <2>3, <3>1, ExistingStep
  <2>4. CASE call[c].event = None /\ Proceed(c, "load", None)
    <3> DEFINE frame == Frame("load", r, None, None)
    <3>1. frame \in CallState BY <1>2 DEF Frame, CallState
    <3>2. Held(frame, byId, streams, retained)
        BY <1>2, <2>1, <3>1, OutcomeAssumption DEF Held, Frame, Outcome
    <3>3. frame.outcome # "Created" /\ call' = [call EXCEPT ![c] = frame]
        BY <2>4, OutcomeAssumption DEF Frame, Proceed, Outcome
    <3> QED BY <1>1, <3>2, <3>3, FrameStep
  <2> QED BY <1>5, <2>3, <2>4 DEF Resolve
<1> QED BY <1>4, <1>5 DEF Resolve

\* Every history replays, to the state its last event describes.
LEMMA LineageReplays ==
    ASSUME LeaseInv, NEW l \in Lineages
    PROVE  /\ streams[l] \in Seq(LeaseEvent) /\ DecidedHistory(streams[l], l)
           /\ Replay(streams[l]) = StateAt(streams[l], Len(streams[l]))
           /\ Replays(streams[l], retained, byId)
<1>1. streams[l] \in Seq(LeaseEvent) /\ DecidedHistory(streams[l], l)
    BY DEF LeaseInv, TypeOK, Histories
<1>2. Replay(streams[l]) = StateAt(streams[l], Len(streams[l])) BY <1>1, DecidedReplay
<1>3. Replay(streams[l]).ok
  <2>1. Len(streams[l]) \in 0 .. Len(streams[l]) BY <1>1
  <2> QED BY <1>1, <1>2, <2>1, StateAtFields
<1>4. EvidenceHolds(streams[l], retained, byId)
    BY ResolvedIsWarranted DEF EvidenceHolds, LeaseInv, Histories
<1> QED BY <1>1, <1>2, <1>3, <1>4 DEF Replays

\* LoadHistory never refuses the history itself, and decides its event from it.
LEMMA LoadHistoryStep ==
    ASSUME LeaseInv, NEW c \in Callers, LoadHistory(c)
    PROVE  LeaseInv'
<1> DEFINE r == call[c].request
           h == streams[r.lineage]
           st == Replay(h)
           e == BuildEvent(r, st, r.expected)
<1>1. ReadOnly /\ call[c].pc = "load" /\ Held(call[c], byId, streams, retained)
    BY DEF LoadHistory, LeaseInv
<1>2. r \in Request /\ Warranted(r, retained) /\ r.lineage \in Lineages
    BY <1>1, IdentityType DEF Held
<1>3. r.operation # "REVOKE" /\ r.expected \in Nat
  <2>1. r.operation # "REVOKE" BY <1>2 DEF Warranted, Request, Complete
  <2> QED BY <1>2, <2>1, Operations
<1>4. Replays(h, retained, byId) BY <1>2, LineageReplays
<1>5. Answer(c, "VersionConflict", None) => LeaseInv' BY <1>1, RefusalStep DEF Refusals
<1>6. Answer(c, "IllegalTransition", None) => LeaseInv' BY <1>1, RefusalStep DEF Refusals
<1>7. Answer(c, "Invalid", None) => LeaseInv' BY <1>1, RefusalStep DEF Refusals
<1>8. ASSUME r.expected = Len(h), ~Illegal(r, st), ~Unwarranted(r, st), Proceed(c, "recheck", e)
      PROVE  LeaseInv'
  <2> DEFINE frame == Frame("recheck", r, e, None)
  <2>1. h \in Seq(LeaseEvent) /\ st = StateAt(h, Len(h)) BY <1>2, LineageReplays
  <2>2. Len(h) \in 0 .. Len(h) /\ Len(h) <= Len(h) BY <2>1
  <2>3. st.version = Len(h) /\ st.generation \in Nat /\ st.authority \in LeaseEvent \cup {None}
      BY <2>1, <2>2, StateAtFields
  <2> HIDE DEF st
  <2>4. e \in LeaseEvent BY <1>2, <1>3, <1>8, <2>3, BuildEventType
  <2>5. e.request = r /\ e.version = r.expected + 1 BY <1>2, <1>3, BuildEventFields
  <2>6. DecidedFrom(e, st) BY <1>3, <1>8, <2>3, <2>5 DEF DecidedFrom
  <2> HIDE DEF e
  <2>7. frame \in CallState BY <1>2, <2>4 DEF Frame, CallState
  <2>8. Pending(frame, h)
      BY <1>8, <2>1, <2>2, <2>4, <2>5, <2>6 DEF Pending, Frame
  <2>9. Held(frame, byId, streams, retained)
      BY <1>2, <2>7, <2>8, OutcomeAssumption DEF Held, Frame, Outcome
  <2>10. frame.outcome # "Created" /\ call' = [call EXCEPT ![c] = frame]
      BY <1>8, OutcomeAssumption DEF Frame, Proceed, Outcome
  <2> QED BY <1>1, <2>9, <2>10, FrameStep
<1> QED BY <1>4, <1>5, <1>6, <1>7, <1>8 DEF LoadHistory

\* Recheck meets a commit under the identity, or goes on with its event.
LEMMA RecheckStep ==
    ASSUME LeaseInv, NEW c \in Callers, Recheck(c)
    PROVE  LeaseInv'
<1> DEFINE e == call[c].event
           r == call[c].request
<1>1. ReadOnly /\ call[c].pc = "recheck" /\ Held(call[c], byId, streams, retained)
    BY DEF Recheck, LeaseInv
<1>2. CASE Collide(c, idempotency[Identity(e.request)], e) BY <1>1, <1>2, CollideStep
<1>3. CASE Proceed(c, "append", e)
  <2> DEFINE frame == Frame("append", r, e, None)
  <2>1. /\ r \in Request /\ Warranted(r, retained)
        /\ Pending(call[c], streams[r.lineage])
      BY <1>1 DEF Held
  <2>2. frame \in CallState BY <2>1 DEF Frame, CallState, Pending
  <2>3. Pending(frame, streams[r.lineage]) BY <2>1 DEF Pending, Frame
  <2>4. Held(frame, byId, streams, retained)
      BY <2>1, <2>2, <2>3, OutcomeAssumption DEF Held, Frame, Outcome
  <2>5. frame.outcome # "Created" /\ call' = [call EXCEPT ![c] = frame]
      BY <1>3, OutcomeAssumption DEF Frame, Proceed, Outcome
  <2> QED BY <1>1, <2>4, <2>5, FrameStep
<1> QED BY <1>2, <1>3 DEF Recheck

\* So does an append that lost, or whose version has passed.
LEMMA AppendLosesStep ==
    ASSUME LeaseInv, NEW c \in Callers, AppendLoses(c)
    PROVE  LeaseInv'
<1>1. ReadOnly /\ call[c].pc = "append" BY DEF AppendLoses
<1>2. CASE Collide(c, idempotency[Identity(call[c].event.request)], call[c].event)
    BY <1>1, <1>2, CollideStep
<1>3. CASE Answer(c, "VersionConflict", None) BY <1>1, <1>3, RefusalStep DEF Refusals
<1> QED BY <1>2, <1>3 DEF AppendLoses

\* reconstruct finds every committed event in a history that replays.
LEMMA RebuildStep ==
    ASSUME LeaseInv, NEW c \in Callers, Rebuild(c)
    PROVE  LeaseInv'
<1> DEFINE e == call[c].event
           h == streams[e.request.lineage]
<1>1. ReadOnly /\ call[c].pc = "rebuild" /\ e \in byId /\ e \in LeaseEvent
    BY DEF Rebuild, LeaseInv, Held, TypeOK
<1>2. PICK l \in Lineages : \E i \in DOMAIN streams[l] : streams[l][i] = e
  <2>1. byId = UNION {{streams[m][i] : i \in DOMAIN streams[m]} : m \in Lineages}
      BY DEF LeaseInv, IndexesAgree
  <2> QED BY <1>1, <2>1
<1>3. e.request.lineage = l
  <2>1. \A i \in DOMAIN streams[l] : Ref(streams[l][i]) = <<l, i>>
      BY DEF LeaseInv, IndexesAgree
  <2> QED BY <1>2, <2>1 DEF Ref
<1>4. Replays(h, retained, byId) BY <1>2, <1>3, LineageReplays
<1>5. \E i \in DOMAIN h : h[i] = e BY <1>2, <1>3
<1>6. Answer(c, "Reconstructed", e) BY <1>4, <1>5 DEF Rebuild
<1> QED BY <1>1, <1>6, RefusalStep DEF Refusals

\* applicable's verdict on a boundary it has: the event there decides it.
LEMMA VerdictOfBoundary ==
    ASSUME LeaseInv, NEW l \in Lineages, NEW n \in Nat, NEW t \in Nat
    PROVE  LET h == streams[l]
           IN  \/ n > Len(h) /\ Verdict(h, n, t) = "ReconstructionFailed"
               \/ /\ n \in 0 .. Len(h)
                  /\ Verdict(h, n, t) \in {"Applicable", "NotApplicable"}
                  /\ (Verdict(h, n, t) = "Applicable") <=> (n # 0 /\ ApplicableAt(h[n], t))
<1> DEFINE h == streams[l]
           k == SubSeq(h, 1, n)
<1>1. h \in Seq(LeaseEvent) /\ DecidedHistory(h, l) /\ Len(h) \in Nat
    BY LineageReplays DEF LeaseInv, TypeOK
<1>2. CASE n > Len(h) BY <1>2 DEF Verdict
<1>3. CASE ~(n > Len(h))
  <2>1. n \in 0 .. Len(h) BY <1>1, <1>3
  <2>2. /\ Replay(k) = StateAt(h, n)
        /\ DOMAIN k \subseteq DOMAIN h /\ \A j \in DOMAIN k : k[j] = h[j]
      BY <1>1, <2>1, PrefixReplay
  <2>3. /\ Replay(k).ok /\ Replay(k).terminal = None
        /\ Replay(k).authority = IF n = 0 THEN None ELSE h[n]
      BY <1>1, <2>1, <2>2, StateAtFields
  <2>4. \A j \in DOMAIN h : Warranted(h[j].request, retained)
      BY DEF LeaseInv, Histories
  <2> HIDE DEF h, k
  <2>5. EvidenceHolds(k, retained, byId)
      BY <2>2, <2>4, ResolvedIsWarranted DEF EvidenceHolds
  <2>6. Replays(k, retained, byId) BY <2>3, <2>5 DEF Replays
  <2>7. n # 0 => h[n] # None
    <3>1. n # 0 => h[n] \in LeaseEvent BY <1>1, <2>1
    <3> QED BY <3>1, NoneAssumption
  <2>8. Applicable(Replay(k), t) <=> (n # 0 /\ ApplicableAt(h[n], t))
      BY <2>3, <2>7 DEF Applicable
  <2>9. Verdict(h, n, t) = IF Applicable(Replay(k), t) THEN "Applicable" ELSE "NotApplicable"
      BY <1>3, <2>6 DEF Verdict, k
  <2> QED BY <2>1, <2>8, <2>9 DEF h
<1> QED BY <1>2, <1>3

\* Ask answers from one snapshot, and records what it was asked.
LEMMA AskStep ==
    ASSUME LeaseInv, NEW c \in Callers, NEW l \in Lineages, NEW n \in Nat,
           NEW t \in Times, Ask(c, l, n, t)
    PROVE  LeaseInv'
<1> DEFINE h == streams[l]
           q == [lineage |-> l, through |-> n, at |-> t]
           v == Verdict(h, n, t)
           frame == [Frame("done", None, None, v) EXCEPT !.asked = q]
<1>1. t \in Nat /\ ReadOnly /\ call' = [call EXCEPT ![c] = frame]
    BY RequestsAssumption DEF Ask
<1>2. q \in Question BY <1>1 DEF Question
<1>3. \/ v = "ReconstructionFailed"
      \/ /\ n \in 0 .. Len(h) /\ v \in {"Applicable", "NotApplicable"}
         /\ (v = "Applicable") <=> (n # 0 /\ ApplicableAt(h[n], t))
    BY <1>1, VerdictOfBoundary
<1> HIDE DEF v
<1>4. /\ frame.pc = "done" /\ frame.request = None /\ frame.event = None
      /\ frame.outcome = v /\ frame.asked = q
      /\ frame = [pc |-> "done", request |-> None, event |-> None, outcome |-> v, asked |-> q]
    BY DEF Frame
<1>5. v \in Outcome BY <1>3 DEF Outcome
<1>6. frame \in CallState BY <1>2, <1>4, <1>5 DEF CallState
<1>7. v \in {"Applicable", "NotApplicable"} => Stands(q, v, h)
    BY <1>3 DEF Stands
<1>8. q # None /\ q.lineage = l BY <1>2, OutcomeAssumption
<1> HIDE DEF frame, q, h
<1>9. Held(frame, byId, streams, retained)
    BY <1>2, <1>3, <1>4, <1>6, <1>7, <1>8 DEF Held, h
<1>10. frame.outcome # "Created" BY <1>3, <1>4
<1> QED BY <1>1, <1>9, <1>10, FrameStep

-----------------------------------------------------------------------------
(* The commit, and what it means to the other threads                       *)

\* What is committed and retained may grow under a thread that is between two
\* acquisitions of the lock: what it holds stays good, its own event included,
\* which the append will refuse once its lineage has moved on.
LEMMA HeldStable ==
    ASSUME NEW frame, NEW ids, NEW more, ids \subseteq more,
           NEW some, NEW all, some \subseteq all,
           NEW before \in [Lineages -> Seq(LeaseEvent)], NEW after,
           \A l \in Lineages : \/ after[l] = before[l]
                              \/ \E e \in LeaseEvent : after[l] = Append(before[l], e),
           Held(frame, ids, before, some)
    PROVE  Held(frame, more, after, all)
<1>1. /\ frame \in CallState
      /\ frame.pc = "resolve" /\ frame.event # None =>
            frame.event \in more /\ frame.event.request = frame.request
      /\ frame.pc = "rebuild" => frame.event \in more
      /\ frame.pc \in {"resolve", "load", "recheck", "append"} => frame.request \in Request
      /\ frame.outcome # "ReplayFailed"
      /\ frame.asked = None => frame.outcome # "ReconstructionFailed"
    BY DEF Held
<1>2. frame.pc \in {"load", "recheck", "append"} => Warranted(frame.request, all)
    BY WarrantedMonotone DEF Held
<1>3. frame.outcome \in {"Created", "ExistingEquivalent"} => Told(frame, more)
    BY DEF Held, Told
<1>4. ASSUME frame.pc \in {"recheck", "append"}
      PROVE  Pending(frame, after[frame.request.lineage])
  <2> DEFINE h == before[frame.request.lineage]
             k == after[frame.request.lineage]
  <2>1. Pending(frame, h) /\ frame.request \in Request BY <1>4 DEF Held
  <2>2. frame.request.lineage \in Lineages /\ frame.request.expected \in Nat
      BY <2>1 DEF Request, RequestFields
  <2>3. h \in Seq(LeaseEvent) BY <2>2
  <2>4. CASE k = h BY <2>1, <2>4
  <2>5. CASE \E e \in LeaseEvent : k = Append(h, e)
    <3>1. Len(k) = Len(h) + 1 /\ Len(h) \in Nat BY <2>3, <2>5
    <3> HIDE DEF h, k
    <3>2. frame.request.expected <= Len(k) /\ frame.request.expected # Len(k)
        BY <2>1, <2>2, <3>1 DEF Pending
    <3> QED BY <2>1, <3>2 DEF Pending, k
  <2> QED BY <2>2, <2>4, <2>5
<1>5. ASSUME frame.outcome \in {"Applicable", "NotApplicable"}
      PROVE  /\ frame.asked \in Question
             /\ Stands(frame.asked, frame.outcome, after[frame.asked.lineage])
  <2> DEFINE q == frame.asked
             h == before[q.lineage]
             k == after[q.lineage]
  <2>1. q \in Question /\ Stands(q, frame.outcome, h) BY <1>5 DEF Held
  <2>2. q.lineage \in Lineages /\ q.through \in Nat BY <2>1 DEF Question
  <2>3. h \in Seq(LeaseEvent) BY <2>2
  <2>4. CASE k = h BY <2>1, <2>4
  <2>5. CASE \E e \in LeaseEvent : k = Append(h, e)
    <3>1. Len(k) = Len(h) + 1 /\ Len(h) \in Nat /\ \A i \in 1 .. Len(h) : k[i] = h[i]
        BY <2>3, <2>5
    <3> HIDE DEF q, h, k
    <3>2. q.through \in 0 .. Len(h) BY <2>1 DEF Stands
    <3>3. q.through \in 0 .. Len(k) BY <3>1, <3>2
    <3>4. q.through # 0 => k[q.through] = h[q.through] BY <3>1, <3>2
    <3>5. Stands(q, frame.outcome, k) BY <2>1, <3>3, <3>4 DEF Stands
    <3> QED BY <2>1, <3>5 DEF q, k
  <2> QED BY <2>1, <2>2, <2>4, <2>5
<1> QED BY <1>1, <1>2, <1>3, <1>4, <1>5 DEF Held

\* Retaining more evidence withdraws nothing a history or a thread rests on.
LEMMA RetainStep ==
    ASSUME LeaseInv, NEW a \in Authorizations \cup Revocations, Retain(a)
    PROVE  LeaseInv'
<1>1. /\ retained' = retained \cup {a} /\ retained \subseteq retained'
      /\ UNCHANGED <<streams, byId, idempotency, current, call>>
    BY DEF Retain
<1>2. TypeOK' BY <1>1 DEF LeaseInv, TypeOK
<1>3. IndexesAgree' /\ OneCreator' BY <1>1 DEF LeaseInv, IndexesAgree, OneCreator
<1>4. Histories' BY <1>1, WarrantedMonotone DEF LeaseInv, Histories
<1>5. \A c \in Callers : Held(call'[c], byId', streams', retained')
  <2>1. streams \in [Lineages -> Seq(LeaseEvent)] BY DEF LeaseInv, TypeOK
  <2>2. \A c \in Callers : Held(call[c], byId, streams, retained')
      BY <1>1, <2>1, HeldStable DEF LeaseInv
  <2> QED BY <1>1, <2>2
<1> QED BY <1>2, <1>3, <1>4, <1>5 DEF LeaseInv

\* What a successful append does, in one place: the event sits at its version
\* at the end of its lineage, under an identity and an id that were free, and
\* was decided from the history it extends.
LEMMA CommitEffect ==
    ASSUME LeaseInv, NEW c \in Callers, AppendEvent(c)
    PROVE  LET e == call[c].event
               l == e.request.lineage
               i == Identity(e.request)
               h == streams[l]
           IN  /\ e \in LeaseEvent /\ e.request \in Request /\ e.request = call[c].request
               /\ l \in Lineages /\ i \in Identities
               /\ e.request.expected = Len(h) /\ e.version = Len(h) + 1
               /\ idempotency[i] = None /\ e \notin byId
               /\ Warranted(e.request, retained) /\ DecidedFrom(e, StateAt(h, Len(h)))
               /\ streams' = [streams EXCEPT ![l] = Append(@, e)]
               /\ byId' = byId \cup {e}
               /\ idempotency' = [idempotency EXCEPT ![i] = e]
               /\ current' = [current EXCEPT ![l] = e]
               /\ retained' = retained
               /\ call' = [call EXCEPT ![c] = Frame("done", e.request, e, "Created")]
<1> DEFINE e == call[c].event
<1>1. Held(call[c], byId, streams, retained) /\ call[c].pc = "append"
    BY DEF LeaseInv, AppendEvent
<1>2. /\ Pending(call[c], streams[call[c].request.lineage])
      /\ call[c].request \in Request /\ Warranted(call[c].request, retained)
    BY <1>1 DEF Held
<1>3. e \in LeaseEvent /\ e.request = call[c].request BY <1>2 DEF Pending
<1>4. e.request.lineage \in Lineages /\ Identity(e.request) \in Identities
    BY <1>2, <1>3, IdentityType
<1>5. /\ e.request.expected = Len(streams[e.request.lineage])
      /\ e.version = e.request.expected + 1
      /\ idempotency[Identity(e.request)] = None /\ e \notin byId
    BY DEF AppendEvent, Appendable
<1>6. DecidedFrom(e, StateAt(streams[e.request.lineage], Len(streams[e.request.lineage])))
    BY <1>2, <1>3, <1>5 DEF Pending
<1> QED BY <1>2, <1>3, <1>4, <1>5, <1>6 DEF AppendEvent, Commit, Answer

\* The streams after an append, entry by entry.
LEMMA StreamsAfter ==
    ASSUME TypeOK, NEW l \in Lineages, NEW e \in LeaseEvent,
           streams' = [streams EXCEPT ![l] = Append(@, e)]
    PROVE  /\ streams' \in [Lineages -> Seq(LeaseEvent)]
           /\ streams'[l] = Append(streams[l], e)
           /\ Len(streams[l]) \in Nat
           /\ Len(streams'[l]) = Len(streams[l]) + 1
           /\ DOMAIN streams'[l] = 1 .. (Len(streams[l]) + 1)
           /\ DOMAIN streams[l] = 1 .. Len(streams[l])
           /\ streams'[l][Len(streams[l]) + 1] = e
           /\ \A i \in 1 .. Len(streams[l]) : streams'[l][i] = streams[l][i]
           /\ \A m \in Lineages : m # l => streams'[m] = streams[m]
<1>1. streams[l] \in Seq(LeaseEvent) BY DEF TypeOK
<1>2. streams'[l] = Append(streams[l], e) BY DEF TypeOK
<1>3. \A m \in Lineages : m # l => streams'[m] = streams[m] BY DEF TypeOK
<1>4. streams' \in [Lineages -> Seq(LeaseEvent)] BY DEF TypeOK
<1> QED BY <1>1, <1>2, <1>3, <1>4

\* The commit itself, as the lemmas below cite it.
Committing(e, l) ==
    /\ e \in LeaseEvent /\ e.request \in Request
    /\ l \in Lineages /\ e.request.lineage = l /\ Identity(e.request) \in Identities
    /\ e.request.expected = Len(streams[l]) /\ e.version = Len(streams[l]) + 1
    /\ idempotency[Identity(e.request)] = None /\ e \notin byId
    /\ streams' = [streams EXCEPT ![l] = Append(@, e)]
    /\ byId' = byId \cup {e}
    /\ idempotency' = [idempotency EXCEPT ![Identity(e.request)] = e]
    /\ current' = [current EXCEPT ![l] = e]

\* by_id holds what the streams hold, before and after.
LEMMA IdsCommit ==
    ASSUME TypeOK, IndexesAgree, NEW e, NEW l, Committing(e, l)
    PROVE  byId' = UNION {{streams'[m][i] : i \in DOMAIN streams'[m]} : m \in Lineages}
<1> DEFINE n == Len(streams[l])
<1>1. /\ e \in LeaseEvent /\ l \in Lineages /\ byId' = byId \cup {e}
      /\ streams' = [streams EXCEPT ![l] = Append(@, e)]
    BY DEF Committing
<1>2. /\ DOMAIN streams'[l] = 1 .. (n + 1) /\ DOMAIN streams[l] = 1 .. n /\ n \in Nat
      /\ streams'[l][n + 1] = e
      /\ \A i \in 1 .. n : streams'[l][i] = streams[l][i]
      /\ \A m \in Lineages : m # l => streams'[m] = streams[m]
    BY <1>1, StreamsAfter
<1>3. byId = UNION {{streams[m][i] : i \in DOMAIN streams[m]} : m \in Lineages}
    BY DEF IndexesAgree
<1> HIDE DEF n
<1>4. ASSUME NEW v \in byId'
      PROVE  \E m \in Lineages : \E i \in DOMAIN streams'[m] : v = streams'[m][i]
  <2>1. CASE v = e BY <2>1, <1>1, <1>2
  <2>2. CASE v \in byId
    <3>1. PICK m \in Lineages : \E i \in DOMAIN streams[m] : v = streams[m][i] BY <2>2, <1>3
    <3>2. PICK i \in DOMAIN streams[m] : v = streams[m][i] BY <3>1
    <3>3. i \in DOMAIN streams'[m] /\ v = streams'[m][i]
      <4>1. CASE m = l BY <4>1, <3>2, <1>2
      <4>2. CASE m # l BY <4>2, <3>2, <1>2
      <4> QED BY <4>1, <4>2
    <3> QED BY <3>3
  <2> QED BY <2>1, <2>2, <1>1
<1>5. ASSUME NEW m \in Lineages, NEW i \in DOMAIN streams'[m]
      PROVE  streams'[m][i] \in byId'
  <2>1. CASE m = l /\ i = n + 1 BY <2>1, <1>1, <1>2
  <2>2. CASE m = l /\ i # n + 1
    <3>1. i \in DOMAIN streams[l] /\ streams'[m][i] = streams[l][i] BY <2>2, <1>2
    <3> QED BY <3>1, <1>1, <1>3
  <2>3. CASE m # l
    <3>1. i \in DOMAIN streams[m] /\ streams'[m][i] = streams[m][i] BY <2>3, <1>2
    <3> QED BY <3>1, <1>1, <1>3
  <2> QED BY <2>1, <2>2, <2>3
<1> QED BY <1>4, <1>5

\* _commit_state, under the guard of append, keeps the indexes in agreement.
LEMMA IndexesCommit ==
    ASSUME TypeOK, IndexesAgree, NEW e, NEW l, Committing(e, l)
    PROVE  IndexesAgree'
<1> DEFINE n == Len(streams[l])
<1>1. Committing(e, l) OBVIOUS
<1> USE DEF Committing
<1>2. /\ Len(streams'[l]) = n + 1
      /\ DOMAIN streams'[l] = 1 .. (n + 1) /\ DOMAIN streams[l] = 1 .. n /\ n \in Nat
      /\ streams'[l][n + 1] = e
      /\ \A i \in 1 .. n : streams'[l][i] = streams[l][i]
      /\ \A m \in Lineages : m # l => streams'[m] = streams[m]
    BY <1>1, StreamsAfter
<1>3. e # None BY <1>1, NoneAssumption
<1>4. e.request.lineage = l /\ e.version = n + 1 /\ e.request.expected = n BY <1>1
<1> HIDE DEF n, Committing
<1>5. \A m \in Lineages : \A i \in DOMAIN streams'[m] :
         Ref(streams'[m][i]) = <<m, i>> /\ streams'[m][i].request.expected = i - 1
  <2> SUFFICES ASSUME NEW m \in Lineages, NEW i \in DOMAIN streams'[m]
               PROVE  /\ Ref(streams'[m][i]) = <<m, i>>
                      /\ streams'[m][i].request.expected = i - 1
      OBVIOUS
  <2>1. CASE m = l /\ i = n + 1 BY <2>1, <1>2, <1>4 DEF Ref
  <2>2. CASE m = l /\ i # n + 1
    <3>1. i \in DOMAIN streams[l] /\ streams'[m][i] = streams[l][i] BY <2>2, <1>2
    <3> QED BY <3>1, <2>2 DEF IndexesAgree
  <2>3. CASE m # l
    <3>1. i \in DOMAIN streams[m] /\ streams'[m][i] = streams[m][i] BY <2>3, <1>2
    <3> QED BY <3>1 DEF IndexesAgree
  <2> QED BY <2>1, <2>2, <2>3
<1>6. \A v \in byId' : idempotency'[Identity(v.request)] = v
  <2> SUFFICES ASSUME NEW v \in byId' PROVE idempotency'[Identity(v.request)] = v OBVIOUS
  <2>1. CASE v = e BY <2>1, <1>1 DEF TypeOK, Committing
  <2>2. CASE v \in byId
    <3>1. v # None BY <2>2, NoneAssumption DEF TypeOK
    <3>2. idempotency[Identity(v.request)] = v BY <2>2 DEF IndexesAgree
    <3>3. Identity(v.request) # Identity(e.request) BY <3>1, <3>2, <1>1 DEF Committing
    <3>4. v.request \in Request BY <2>2 DEF TypeOK, LeaseEvent
    <3>5. Identity(v.request) \in Identities BY <3>4, IdentityType
    <3> QED BY <3>2, <3>3, <3>5, <1>1 DEF TypeOK, Committing
  <2> QED BY <2>1, <2>2, <1>1 DEF Committing
<1>7. \A i \in Identities : idempotency'[i] # None =>
         idempotency'[i] \in byId' /\ Identity(idempotency'[i].request) = i
  <2> SUFFICES ASSUME NEW i \in Identities, idempotency'[i] # None
               PROVE  idempotency'[i] \in byId' /\ Identity(idempotency'[i].request) = i
      OBVIOUS
  <2>1. CASE i = Identity(e.request) BY <2>1, <1>1 DEF TypeOK, Committing
  <2>2. CASE i # Identity(e.request)
    <3>1. idempotency'[i] = idempotency[i] BY <2>2, <1>1 DEF TypeOK, Committing
    <3> QED BY <3>1, <1>1 DEF IndexesAgree, Committing
  <2> QED BY <2>1, <2>2
<1>8. \A m \in Lineages :
         current'[m] = IF streams'[m] = <<>> THEN None ELSE streams'[m][Len(streams'[m])]
  <2> SUFFICES ASSUME NEW m \in Lineages
               PROVE  current'[m] = IF streams'[m] = <<>> THEN None
                                    ELSE streams'[m][Len(streams'[m])]
      OBVIOUS
  <2>1. CASE m = l
    <3>1. current'[m] = e BY <2>1, <1>1 DEF TypeOK, Committing
    <3>2. streams'[m] # <<>> BY <2>1, <1>2
    <3> QED BY <2>1, <3>1, <3>2, <1>2
  <2>2. CASE m # l
    <3>1. current'[m] = current[m] /\ streams'[m] = streams[m]
        BY <2>2, <1>1, <1>2 DEF TypeOK, Committing
    <3> QED BY <3>1 DEF IndexesAgree
  <2> QED BY <2>1, <2>2
<1>9. byId' = UNION {{streams'[m][i] : i \in DOMAIN streams'[m]} : m \in Lineages}
    BY <1>1, IdsCommit
<1> QED BY <1>5, <1>6, <1>7, <1>8, <1>9 DEF IndexesAgree

\* The lineage gains one decided and warranted event.
LEMMA HistoriesCommit ==
    ASSUME TypeOK, Histories, NEW e, NEW l, Committing(e, l), retained' = retained,
           Warranted(e.request, retained), DecidedFrom(e, StateAt(streams[l], Len(streams[l])))
    PROVE  Histories'
<1> DEFINE h == streams[l]
<1>1. /\ e \in LeaseEvent /\ l \in Lineages /\ e.request.lineage = l
      /\ streams' = [streams EXCEPT ![l] = Append(@, e)]
    BY DEF Committing
<1>2. /\ streams'[l] = Append(h, e) /\ Len(h) \in Nat
      /\ DOMAIN streams'[l] = 1 .. (Len(h) + 1) /\ DOMAIN h = 1 .. Len(h)
      /\ streams'[l][Len(h) + 1] = e
      /\ \A i \in 1 .. Len(h) : streams'[l][i] = h[i]
      /\ \A m \in Lineages : m # l => streams'[m] = streams[m]
    BY <1>1, StreamsAfter
<1>3. h \in Seq(LeaseEvent) /\ DecidedHistory(h, l) BY <1>1 DEF TypeOK, Histories
<1>4. DecidedHistory(streams'[l], l) BY <1>1, <1>2, <1>3, DecidedExtends
<1>5. \A j \in DOMAIN streams'[l] : Warranted(streams'[l][j].request, retained)
  <2> HIDE DEF h
  <2> SUFFICES ASSUME NEW j \in 1 .. (Len(h) + 1)
               PROVE  Warranted(streams'[l][j].request, retained)
      BY <1>2
  <2>1. CASE j = Len(h) + 1 BY <1>2, <2>1
  <2>2. CASE j # Len(h) + 1
    <3>1. j \in DOMAIN h /\ streams'[l][j] = h[j] BY <1>2, <2>2
    <3> QED BY <1>1, <3>1 DEF Histories, h
  <2> QED BY <2>1, <2>2
<1> SUFFICES ASSUME NEW m \in Lineages
             PROVE  /\ DecidedHistory(streams'[m], m)
                    /\ \A j \in DOMAIN streams'[m] : Warranted(streams'[m][j].request, retained)
    BY DEF Histories
<1>6. CASE m = l BY <1>4, <1>5, <1>6
<1>7. CASE m # l BY <1>2, <1>7 DEF Histories
<1> QED BY <1>6, <1>7

\* The published append keeps every part of the invariant.
LEMMA CommitStep ==
    ASSUME LeaseInv, NEW c \in Callers, AppendEvent(c)
    PROVE  LeaseInv'
<1> DEFINE e == call[c].event
           l == e.request.lineage
           frame == Frame("done", e.request, e, "Created")
<1>1. /\ Committing(e, l) /\ Warranted(e.request, retained)
      /\ DecidedFrom(e, StateAt(streams[l], Len(streams[l])))
      /\ retained' = retained /\ call' = [call EXCEPT ![c] = frame]
    BY CommitEffect DEF Committing
<1> HIDE DEF e
<1>2. /\ e \in LeaseEvent /\ e.request \in Request /\ l \in Lineages /\ e \notin byId
      /\ Identity(e.request) \in Identities
      /\ streams' = [streams EXCEPT ![l] = Append(@, e)]
      /\ byId' = byId \cup {e} /\ byId \subseteq byId'
      /\ idempotency' = [idempotency EXCEPT ![Identity(e.request)] = e]
      /\ current' = [current EXCEPT ![l] = e]
    BY <1>1 DEF Committing
<1>3. /\ streams \in [Lineages -> Seq(LeaseEvent)]
      /\ streams' \in [Lineages -> Seq(LeaseEvent)]
      /\ streams'[l] = Append(streams[l], e)
      /\ \A m \in Lineages : m # l => streams'[m] = streams[m]
  <2>1. TypeOK BY DEF LeaseInv
  <2> QED BY <1>2, <2>1, StreamsAfter DEF TypeOK
<1>4. frame \in CallState BY <1>2 DEF Frame, CallState, Outcome
<1>5. IndexesAgree' BY <1>1, IndexesCommit DEF LeaseInv
<1>6. Histories' BY <1>1, HistoriesCommit DEF LeaseInv
<1>7. TypeOK' BY <1>1, <1>2, <1>3, <1>4 DEF LeaseInv, TypeOK
<1>8. \A d \in Callers : call'[d] = IF d = c THEN frame ELSE call[d]
    BY <1>1 DEF LeaseInv, TypeOK
<1>9. ASSUME NEW d \in Callers PROVE Held(call'[d], byId', streams', retained')
  <2>1. CASE d = c
    <3>1. e.request.operation # "REVOKE" BY <1>1 DEF DecidedFrom
    <3>2. Held(frame, byId', streams', retained')
        BY <1>2, <1>4, <3>1, OutcomeAssumption DEF Held, Told, Frame
    <3> QED BY <1>8, <2>1, <3>2
  <2>2. CASE d # c
    <3>1. \A m \in Lineages : \/ streams'[m] = streams[m]
                              \/ \E v \in LeaseEvent : streams'[m] = Append(streams[m], v)
        BY <1>2, <1>3
    <3>2. Held(call[d], byId, streams, retained) BY DEF LeaseInv
    <3>3. Held(call[d], byId', streams', retained)
      <4>1. retained \subseteq retained /\ byId \subseteq byId' BY <1>2
      <4>2. streams \in [Lineages -> Seq(LeaseEvent)] BY <1>3
      <4> QED BY ONLY <4>1, <4>2, <3>1, <3>2, HeldStable
    <3> QED BY <1>1, <1>8, <2>2, <3>3
  <2> QED BY <2>1, <2>2
<1>10. OneCreator'
  <2>1. \A d \in Callers : call[d].outcome = "Created" => call[d].event # e
      BY <1>2 DEF LeaseInv, Held, Told
  <2>2. frame.event = e BY DEF Frame
  <2> QED BY <1>8, <2>1, <2>2 DEF LeaseInv, OneCreator
<1> QED BY <1>5, <1>6, <1>7, <1>9, <1>10 DEF LeaseInv

-----------------------------------------------------------------------------
(* The invariant                                                            *)

\* The empty repository, with no call in flight.
LEMMA LeaseInit == Init => LeaseInv
<1> SUFFICES ASSUME Init PROVE LeaseInv OBVIOUS
<1>1. Idle \in CallState BY DEF Idle, Frame, CallState
<1>2. TypeOK BY <1>1 DEF Init, TypeOK
<1>3. \A l \in Lineages : streams[l] = <<>> BY DEF Init
<1>4. DOMAIN <<>> = {} /\ Len(<<>>) = 0 OBVIOUS
<1>5. IndexesAgree BY <1>3, <1>4 DEF Init, IndexesAgree
<1>6. Histories BY <1>3, <1>4 DEF Histories, DecidedHistory
<1>7. \A c \in Callers : Held(call[c], byId, streams, retained)
    BY <1>1, OutcomeAssumption DEF Init, Held, Idle, Frame, Outcome
<1>8. OneCreator BY OutcomeAssumption DEF Init, OneCreator, Idle, Frame, Outcome
<1> QED BY <1>2, <1>5, <1>6, <1>7, <1>8 DEF LeaseInv

\* Every step of the service keeps the invariant.
LEMMA LeaseNext == LeaseInv /\ [Next]_vars => LeaseInv'
<1> SUFFICES ASSUME LeaseInv, [Next]_vars PROVE LeaseInv' OBVIOUS
<1>1. ASSUME NEW c \in Callers, NEW e \in byId, Reconstruct(c, e) PROVE LeaseInv'
  <2> DEFINE frame == Frame("rebuild", None, e, None)
  <2>1. e \in LeaseEvent BY DEF LeaseInv, TypeOK
  <2>2. Held(frame, byId, streams, retained)
      BY <2>1, OutcomeAssumption DEF Held, Frame, CallState, Outcome
  <2>3. frame.outcome # "Created" BY OutcomeAssumption DEF Frame, Outcome
  <2> QED BY <1>1, <2>2, <2>3, FrameStep DEF Reconstruct
<1>2. ASSUME NEW c \in Callers, CommitFails(c) PROVE LeaseInv'
    BY <1>2, RefusalStep DEF CommitFails, Refusals
<1>3. ASSUME NEW c \in Callers, Return(c) PROVE LeaseInv'
  <2>1. Held(Idle, byId, streams, retained)
      BY OutcomeAssumption DEF Held, Idle, Frame, CallState, Outcome
  <2>2. Idle.outcome # "Created" BY OutcomeAssumption DEF Idle, Frame, Outcome
  <2> QED BY <1>3, <2>1, <2>2, FrameStep DEF Return
<1>4. ASSUME NEW c \in Callers, NEW l \in Lineages, NEW t \in Times,
             \/ AskNow(c, l, t)
             \/ \E n \in 1 .. Len(streams[l]) + 1 : AskThrough(c, l, n, t)
      PROVE  LeaseInv'
  <2>1. Len(streams[l]) \in Nat BY DEF LeaseInv, TypeOK
  <2> QED BY <1>4, <2>1, AskStep DEF AskNow, AskThrough
<1>5. CASE UNCHANGED vars
    BY <1>5 DEF vars, LeaseInv, TypeOK, IndexesAgree, Histories, OneCreator
<1> QED BY <1>1, <1>2, <1>3, <1>4, <1>5, RetainStep, SubmitStep, ResolveStep, LoadHistoryStep,
           RecheckStep, CommitStep, AppendLosesStep, RebuildStep DEF Next, CallStep

\* What holds of every reachable state of the service.
THEOREM LeaseInvariant == Spec => []LeaseInv
BY LeaseInit, LeaseNext, PTL DEF Spec

-----------------------------------------------------------------------------
(* What follows from it                                                     *)

\* Each lineage is one chain: what a decided history says of its generations.
LEMMA HistoriesChain == LeaseInv => GenerationsChain
<1> SUFFICES ASSUME LeaseInv, NEW l \in Lineages, NEW j \in DOMAIN streams[l]
             PROVE  LET h == streams[l]
                    IN  /\ (h[j].type = "GRANTED") <=> (j = 1)
                        /\ h[j].request.prior = IF j = 1 THEN None ELSE <<l, j - 1>>
                        /\ h[j].generation =
                              1 + Cardinality({i \in 1 .. j : h[i].type = "SUPERSEDED"})
                        /\ h[j].superseded =
                              IF h[j].type = "SUPERSEDED" THEN h[j - 1].generation ELSE 0
    BY DEF GenerationsChain
<1> DEFINE h == streams[l]
<1>1. h \in Seq(LeaseEvent) /\ DecidedHistory(h, l) BY LineageReplays
<1>2. j \in 1 .. Len(h) BY <1>1
<1>3. h[j].generation = 1 + Cardinality({i \in 1 .. j : h[i].type = "SUPERSEDED"})
    BY <1>1, <1>2, GenerationCounts DEF Supersessions
<1> HIDE DEF h
<1>4. j \in DOMAIN h BY DEF h
<1>5. CASE j = 1
  <2>1. h[j].type = "GRANTED" /\ h[j].superseded = 0 /\ h[j].request.prior = None
      BY <1>1, <1>4, <1>5, DecidedStep
  <2> QED BY <1>3, <1>5, <2>1 DEF h
<1>6. CASE j # 1
  <2>1. /\ h[j].request.prior = <<l, j - 1>>
        /\ \/ h[j].type = "RENEWED" /\ h[j].superseded = 0
           \/ h[j].type = "SUPERSEDED" /\ h[j].superseded = h[j - 1].generation
      BY <1>1, <1>4, <1>6, DecidedStep
  <2> QED BY <1>3, <1>6, <2>1 DEF h
<1> QED BY <1>5, <1>6

\* Atomic publication of one chain: the four indexes of the repository describe
\* the same events after any interleaving of commits, lost races and failed
\* publications, and the events of a lineage grant once, then name each the one
\* before it, each supersession opening the next generation.
THEOREM LineageStaysOne == Spec => []OneLineage
<1>1. LeaseInv => OneLineage BY HistoriesChain DEF LeaseInv, OneLineage
<1> QED BY <1>1, LeaseInvariant, PTL

\* Deterministic replay: no interleaving of stale writers leaves a lineage that
\* evaluate, reconstruct or applicable refuses to replay.
THEOREM HistoriesAlwaysReplay == Spec => []HistoriesReplay
<1>1. LeaseInv => HistoriesReplay
    BY LineageReplays DEF HistoriesReplay, LeaseInv, Held
<1> QED BY <1>1, LeaseInvariant, PTL

\* Least authority: no event gives more than the retained authorization behind
\* it, permissions only narrow within a generation, evidence is never reused by
\* the next event, and time does not run backwards.
THEOREM AuthorityStaysBounded == Spec => []AuthorityIsBounded
<1>1. LeaseInv => AuthorityIsBounded
  <2> SUFFICES ASSUME LeaseInv, NEW l \in Lineages
               PROVE  LET h == streams[l] IN
                      /\ \A j \in DOMAIN h :
                            LET r == h[j].request
                                a == AuthorizationOf[r.authorization]
                            IN  /\ r.permissions # {} /\ r.permissions \subseteq a.ceiling
                                /\ a.effective <= r.effective /\ r.expires <= a.expires
                                /\ a.effective <= r.at /\ r.at < a.expires
                      /\ \A i, j \in DOMAIN h : i < j =>
                            /\ h[i].generation = h[j].generation =>
                                  h[j].request.permissions \subseteq h[i].request.permissions
                            /\ h[i].request.effective <= h[j].request.effective
                            /\ h[i].request.at <= h[j].request.at
                            /\ j = i + 1 =>
                                  h[i].request.authorization # h[j].request.authorization
      BY DEF AuthorityIsBounded
  <2> DEFINE h == streams[l]
  <2>1. h \in Seq(LeaseEvent) /\ DecidedHistory(h, l) BY LineageReplays
  <2>2. \A j \in DOMAIN h : Warranted(h[j].request, retained) BY DEF LeaseInv, Histories
  <2> HIDE DEF h
  <2>3. ASSUME NEW j \in DOMAIN h
        PROVE  LET r == h[j].request
                   a == AuthorizationOf[r.authorization]
               IN  /\ r.permissions # {} /\ r.permissions \subseteq a.ceiling
                   /\ a.effective <= r.effective /\ r.expires <= a.expires
                   /\ a.effective <= r.at /\ r.at < a.expires
    <3>1. h[j].request \in Request /\ h[j].request.operation # "REVOKE"
        BY <2>1, DecidedStep
    <3>2. h[j].request.permissions # {} BY <3>1, Operations
    <3>3. Authorizes(h[j].request) BY <2>2 DEF Warranted
    <3> QED BY <3>2, <3>3 DEF Authorizes
  <2>4. ASSUME NEW i \in DOMAIN h, NEW j \in DOMAIN h, i < j
        PROVE  /\ h[i].generation = h[j].generation =>
                     h[j].request.permissions \subseteq h[i].request.permissions
               /\ h[i].request.effective <= h[j].request.effective
               /\ h[i].request.at <= h[j].request.at
               /\ j = i + 1 => h[i].request.authorization # h[j].request.authorization
    <3>1. ASSUME j = i + 1 PROVE h[i].request.authorization # h[j].request.authorization
      <4>1. i \in Nat /\ i # 0 BY <2>1
      <4>2. j # 1 /\ j - 1 = i BY <3>1, <4>1
      <4>3. h[j].request.authorization # h[j - 1].request.authorization
          BY <2>1, <4>2, DecidedStep
      <4> QED BY <4>2, <4>3
    <3>2. /\ h[i].generation = h[j].generation =>
                h[j].request.permissions \subseteq h[i].request.permissions
          /\ h[i].request.effective <= h[j].request.effective
          /\ h[i].request.at <= h[j].request.at
        BY <2>1, <2>4, AuthorityNarrows
    <3> QED BY <3>1, <3>2
  <2> QED BY <2>3, <2>4 DEF h
<1> QED BY <1>1, LeaseInvariant, PTL

\* Revocation fails closed: whatever directive is retained and whatever event
\* and lease it targets, no revocation is committed or reported.
THEOREM NothingIsRevoked == Spec => []RevocationFailsClosed
<1>1. LeaseInv => RevocationFailsClosed
  <2> SUFFICES ASSUME LeaseInv PROVE RevocationFailsClosed OBVIOUS
  <2>1. ASSUME NEW e \in byId PROVE e.type # "REVOKED" /\ e.request.revocation = None
    <3>1. byId = UNION {{streams[l][i] : i \in DOMAIN streams[l]} : l \in Lineages}
        BY DEF LeaseInv, IndexesAgree
    <3>2. PICK l \in Lineages : \E i \in DOMAIN streams[l] : streams[l][i] = e BY <3>1
    <3>3. PICK i \in DOMAIN streams[l] : streams[l][i] = e BY <3>2
    <3>4. streams[l] \in Seq(LeaseEvent) /\ DecidedHistory(streams[l], l) BY LineageReplays
    <3>5. e.type # "REVOKED" BY <3>3, <3>4, DecidedStep
    <3>6. Warranted(e.request, retained) BY <3>3 DEF LeaseInv, Histories
    <3> QED BY <3>5, <3>6 DEF Warranted
  <2>2. \A c \in Callers : call[c].outcome \in {"Created", "ExistingEquivalent"} =>
           call[c].request.operation # "REVOKE"
      BY DEF LeaseInv, Held, Told
  <2> QED BY <2>1, <2>2 DEF RevocationFailsClosed
<1> QED BY <1>1, LeaseInvariant, PTL

\* What evaluate tells a caller is committed and answers its own request, and
\* only one caller is told that it created an event.
THEOREM AnswersStayTrue == Spec => []AnswersAreCommitted
<1>1. LeaseInv => AnswersAreCommitted
    BY DEF LeaseInv, Held, Told, OneCreator, AnswersAreCommitted
<1> QED BY <1>1, LeaseInvariant, PTL

\* What applicable says of a boundary never changes: the event there is still
\* there, and its half-open period decides.
THEOREM BoundariesKeepTheirAnswer == Spec => []BoundariesStayDecided
<1>1. LeaseInv => BoundariesStayDecided
  <2> SUFFICES ASSUME LeaseInv, NEW c \in Callers,
                      call[c].outcome \in {"Applicable", "NotApplicable"}
               PROVE  LET q == call[c].asked
                          h == streams[q.lineage]
                      IN  /\ q.through \in 0 .. Len(h)
                          /\ (call[c].outcome = "Applicable") <=>
                                /\ q.through # 0
                                /\ q.at \in h[q.through].request.effective
                                            .. (h[q.through].request.expires - 1)
      BY DEF BoundariesStayDecided
  <2> DEFINE q == call[c].asked
             h == streams[q.lineage]
  <2>1. q \in Question /\ Stands(q, call[c].outcome, h)
      BY DEF LeaseInv, Held
  <2>2. q.lineage \in Lineages /\ q.at \in Nat BY <2>1 DEF Question
  <2>3. h \in Seq(LeaseEvent) /\ DecidedHistory(h, q.lineage) BY <2>2, LineageReplays
  <2> HIDE DEF q, h
  <2>4. ASSUME q.through # 0, q.through \in 0 .. Len(h)
        PROVE  ApplicableAt(h[q.through], q.at) <=>
                  q.at \in h[q.through].request.effective .. (h[q.through].request.expires - 1)
    <3>1. q.through \in DOMAIN h BY <2>3, <2>4
    <3>2. h[q.through].request \in Request /\ h[q.through].request.operation # "REVOKE"
        BY <2>3, <3>1, DecidedStep
    <3>3. h[q.through].request.effective \in Nat /\ h[q.through].request.expires \in Nat
        BY <3>2, Operations
    <3> QED BY <2>2, <3>3 DEF ApplicableAt
  <2> QED BY <2>1, <2>4 DEF Stands, q, h
<1> QED BY <1>1, LeaseInvariant, PTL

-----------------------------------------------------------------------------
(* The authority the histories implement                                    *)

\* The authority of a history with events is its last event's, and is not the
\* authority of no history.
LEMMA AuthorityOfLast ==
    ASSUME NEW l, NEW h \in Seq(LeaseEvent), DecidedHistory(h, l), h # <<>>
    PROVE  LET r == h[Len(h)].request
           IN  /\ AuthorityOf(h) =
                     [generation |-> h[Len(h)].generation, evidence |-> r.authorization,
                      permissions |-> r.permissions, from |-> r.effective,
                      until |-> r.expires, clock |-> r.at]
               /\ AuthorityOf(h).generation # 0
<1>1. Len(h) \in 1 .. Len(h) /\ DOMAIN h = 1 .. Len(h) /\ Len(h) - 1 \in Nat OBVIOUS
<1>2. h[Len(h)].generation = 1 + Cardinality({i \in DOMAIN h : h[i].type = "SUPERSEDED"})
    BY <1>1, GenerationCounts DEF Supersessions
<1>3. Cardinality({i \in DOMAIN h : h[i].type = "SUPERSEDED"}) \in Nat
  <2> DEFINE S == {i \in DOMAIN h : h[i].type = "SUPERSEDED"}
             n == Len(h)
  <2>1. n \in Nat /\ S \in SUBSET (1 .. n) BY <1>1
  <2> HIDE DEF S, n
  <2>2. Cardinality(S) \in Nat BY <2>1, CountOne
  <2> QED BY <2>2 DEF S
<1> QED BY <1>2, <1>3 DEF AuthorityOf

\* The one step of the abstract authority a commit is, for its own lineage: a
\* grant of the first event, a renewal, or a supersession.
LEMMA CommitIsAuthorized ==
    ASSUME LeaseInv, LeaseInv', NEW c \in Callers, AppendEvent(c)
    PROVE  Authority!Next
<1> DEFINE e == call[c].event
           l == e.request.lineage
           r == e.request
           h == streams[l]
           n == Len(h)
           k == streams'[l]
           entry == AuthorityOf(k)
<1>1. /\ e \in LeaseEvent /\ l \in Lineages /\ r \in Request
      /\ Warranted(r, retained) /\ streams' = [streams EXCEPT ![l] = Append(@, e)]
    BY CommitEffect
<1>2. /\ k = Append(h, e) /\ n \in Nat /\ Len(k) = n + 1 /\ DOMAIN k = 1 .. (n + 1)
      /\ k[n + 1] = e /\ \A i \in 1 .. n : k[i] = h[i]
      /\ \A m \in Lineages : m # l => streams'[m] = streams[m]
    BY <1>1, StreamsAfter DEF LeaseInv
<1>3. /\ h \in Seq(LeaseEvent) /\ DecidedHistory(h, l)
      /\ k \in Seq(LeaseEvent) /\ DecidedHistory(k, l)
    BY <1>1 DEF LeaseInv, TypeOK, Histories
<1> HIDE DEF e, h, k, n
<1>4. k # <<>> /\ n + 1 \in DOMAIN k
  <2>1. n + 1 # 0 /\ n + 1 \in 1 .. (n + 1) BY <1>2
  <2> QED BY <1>2, <2>1
<1>5. entry = [generation |-> e.generation, evidence |-> r.authorization,
               permissions |-> r.permissions, from |-> r.effective,
               until |-> r.expires, clock |-> r.at]
    BY <1>2, <1>3, <1>4, AuthorityOfLast
<1>6. [m \in Lineages |-> AuthorityOf(streams'[m])] =
         [[m \in Lineages |-> AuthorityOf(streams[m])] EXCEPT ![l] = entry]
  <2>1. \A m \in Lineages :
           AuthorityOf(streams'[m]) = IF m = l THEN entry ELSE AuthorityOf(streams[m])
      BY <1>2 DEF k
  <2> HIDE DEF entry, l
  <2> QED BY <1>1, <2>1
<1> HIDE DEF l, r, entry
<1>7. r.operation # "REVOKE"
  <2>1. k[n + 1].request.operation # "REVOKE" BY <1>3, <1>4, DecidedStep
  <2> QED BY <1>2, <2>1 DEF r
<1>8. Authority!Backed(l, entry)
  <2>1. r.authorization \in Authorizations /\ r.permissions # {} /\ r.effective < r.expires
      BY <1>1, <1>7, Operations
  <2>2. Authorizes(r) /\ r.lineage = l BY <1>1 DEF Warranted, r, l
  <2> QED BY <1>5, <2>1, <2>2 DEF Authority!Backed, Authorizes
<1>9. CASE n = 0
  <2>1. h = <<>> BY <1>3, <1>9 DEF n
  <2>2. AuthorityOf(h) = Authority!Nothing BY <2>1 DEF AuthorityOf, Authority!Nothing
  <2>3. e.generation = 1
    <3>1. n + 1 = 1 BY <1>9
    <3>2. k[n + 1].generation = 1 BY <1>3, <1>4, <3>1, DecidedStep
    <3> QED BY <1>2, <3>2
  <2>4. Authority!Grant(l, entry)
      BY <1>1, <1>5, <2>2, <2>3 DEF Authority!Grant, h
  <2> QED BY <1>1, <1>6, <1>8, <2>4 DEF Authority!Next, entry, k
<1>10. CASE n # 0
  <2>1. h # <<>> /\ n + 1 # 1 /\ (n + 1) - 1 = n /\ k[n] = h[n] BY <1>2, <1>10
  <2>2. /\ AuthorityOf(h) =
              [generation |-> h[n].generation, evidence |-> h[n].request.authorization,
               permissions |-> h[n].request.permissions, from |-> h[n].request.effective,
               until |-> h[n].request.expires, clock |-> h[n].request.at]
        /\ AuthorityOf(h).generation # 0
      BY <1>3, <2>1, AuthorityOfLast DEF n
  <2>3. /\ r.authorization # h[n].request.authorization
        /\ h[n].request.effective <= r.effective /\ h[n].request.at <= r.at
        /\ \/ e.generation = h[n].generation
              /\ r.permissions \subseteq h[n].request.permissions
           \/ e.generation = h[n].generation + 1
    <3>1. LET before == k[(n + 1) - 1]
          IN  /\ k[n + 1].request.authorization # before.request.authorization
              /\ before.request.effective <= k[n + 1].request.effective
              /\ before.request.at <= k[n + 1].request.at
              /\ \/ /\ k[n + 1].generation = before.generation
                    /\ k[n + 1].request.permissions \subseteq before.request.permissions
                 \/ k[n + 1].generation = before.generation + 1
        BY <1>3, <1>4, <2>1, DecidedStep
    <3> QED BY <1>2, <2>1, <3>1 DEF r
  <2>4. Authority!Follows(AuthorityOf(h), entry)
    <3>1. /\ r.effective \in Nat /\ r.at \in Nat
          /\ h[n].request.effective \in Nat /\ h[n].request.at \in Nat
      <4>1. h[n] \in LeaseEvent BY <1>3, <1>10, <1>2 DEF n
      <4> QED BY <1>1, <4>1 DEF LeaseEvent, Request, RequestFields
    <3>2. AuthorityOf(h) # Authority!Nothing BY <2>2 DEF Authority!Nothing
    <3> QED BY <1>5, <2>2, <2>3, <3>1, <3>2 DEF Authority!Follows
  <2>5. Authority!Renew(l, entry) \/ Authority!Supersede(l, entry)
      BY <1>1, <1>5, <2>2, <2>3, <2>4 DEF Authority!Renew, Authority!Supersede, h
  <2> QED BY <1>1, <1>6, <1>8, <2>5 DEF Authority!Next, entry, k
<1> QED BY <1>9, <1>10

\* Only a successful append changes a history.
LEMMA HistoriesStep ==
    ASSUME [Next]_vars
    PROVE  UNCHANGED streams \/ \E c \in Callers : AppendEvent(c)
BY DEF Next, CallStep, vars, Retain, Submit, Resolve, LoadHistory, Recheck, CommitFails,
       AppendLoses, Reconstruct, Rebuild, AskNow, AskThrough, Ask, Return, ReadOnly

\* The service implements the authority it promises: each commit, decided from
\* a snapshot that other threads may have outrun, is one step of the abstract
\* authority from its current state, and no other step changes it.
THEOREM LeaseImplementsAuthority == Spec => ImplementsAuthority
<1>1. Init => Authority!Init
    BY DEF Init, Authority!Init, Authority!Nothing, AuthorityOf
<1>2. LeaseInv /\ LeaseInv' /\ [Next]_vars
         => [Authority!Next]_([l \in Lineages |-> AuthorityOf(streams[l])])
  <2> SUFFICES ASSUME LeaseInv, LeaseInv', [Next]_vars
               PROVE  \/ Authority!Next
                      \/ UNCHANGED [l \in Lineages |-> AuthorityOf(streams[l])]
      OBVIOUS
  <2>1. CASE UNCHANGED streams BY <2>1
  <2> QED BY <2>1, HistoriesStep, CommitIsAuthorized
<1> QED BY <1>1, <1>2, LeaseInvariant, PTL DEF Spec, ImplementsAuthority, Authority!Spec
=============================================================================
