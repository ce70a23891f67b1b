---------------------------- MODULE WorkClaimProofs ----------------------------
(***************************************************************************)
(* Theorems about WorkClaim, for every number of threads, lineages, keys    *)
(* and requests, and histories of any length.                               *)
(***************************************************************************)
EXTENDS WorkClaim, FoldLemmas, SequenceTheorems

-----------------------------------------------------------------------------
(* What the policy and its replay return: the types, and the two equations  *)
(* of the replay that every argument about a history rests on.              *)

\* build_work_claim_event returns an event for every request decide accepts.
LEMMA BuildEventType ==
    ASSUME NEW r \in Request, NEW st \in DerivedState, NEW v \in Nat, Legal(r, st)
    PROVE  BuildEvent(r, st, v) \in ClaimEvent
<1>1. r.operation \in Operation BY DEF Request
<1>2. CASE r.operation = "CREATE_GENERATION" /\ st.version = 0
    BY <1>2 DEF BuildEvent, Decide, Decision, ClaimEvent, EventType
<1>3. CASE r.operation = "CREATE_GENERATION" /\ st.version # 0
  <2>1. st.ended \in ClaimEvent BY <1>3 DEF Legal, MayCreate, DerivedState
  <2>2. st.ended.version \in Nat BY <2>1 DEF ClaimEvent
  <2> QED BY <1>3, <2>2 DEF BuildEvent, Decide, Decision, ClaimEvent, EventType, DerivedState
<1>4. CASE r.operation = "CLAIM"
  <2>1. st.opened \in ClaimEvent
      BY <1>4 DEF Legal, GenerationOpen, DerivedState
  <2>2. st.opened.version \in Nat BY <2>1 DEF ClaimEvent
  <2>3. st.accepted # None => st.accepted.version \in Nat BY DEF DerivedState, ClaimEvent
  <2>4. st.generation \in Nat /\ st.fence + 1 \in Nat BY DEF DerivedState
  <2>5. CASE st.accepted # None
      BY <1>4, <2>3, <2>4, <2>5 DEF BuildEvent, Decide, Decision, ClaimEvent, EventType
  <2>6. CASE st.accepted = None /\ ~ClaimantMatchesCandidate(r)
      BY <1>4, <2>2, <2>4, <2>6 DEF BuildEvent, Decide, Decision, ClaimEvent, EventType
  <2>7. CASE st.accepted = None /\ ClaimantMatchesCandidate(r)
      BY <1>4, <2>2, <2>4, <2>7 DEF BuildEvent, Decide, Decision, ClaimEvent, EventType
  <2> QED BY <2>5, <2>6, <2>7
<1>5. CASE r.operation \in {"EXPIRE", "RELEASE"}
  <2>1. st.accepted \in ClaimEvent
      BY <1>5 DEF Legal, MayExpire, MayRelease, MayEnd, DerivedState
  <2>2. st.accepted.version \in Nat BY <2>1 DEF ClaimEvent
  <2> QED BY <1>5, <2>2 DEF BuildEvent, Decide, Decision, ClaimEvent, EventType, DerivedState
<1> QED BY <1>1, <1>2, <1>3, <1>4, <1>5 DEF Operation

\* The event is the one after the version decided from, and keeps its request.
LEMMA BuildEventFields ==
    ASSUME NEW r, NEW st, NEW v
    PROVE  /\ BuildEvent(r, st, v).request = r
           /\ BuildEvent(r, st, v).version = v + 1
BY DEF BuildEvent

\* _advance_state returns a derived state.
LEMMA AdvanceStateType ==
    ASSUME NEW st \in DerivedState, NEW e \in ClaimEvent
    PROVE  AdvanceState(st, e) \in DerivedState
<1>1. e.type \in EventType /\ e.version \in Nat /\ e.generation \in Nat /\ e.fence \in Nat
    BY DEF ClaimEvent
<1>2. CASE e.type = "GENERATION_CREATED"
    BY <1>1, <1>2 DEF AdvanceState, DerivedState
<1>3. CASE e.type = "CLAIM_ACCEPTED"
    BY <1>1, <1>3 DEF AdvanceState, DerivedState
<1>4. CASE e.type = "CLAIM_REJECTED"
    BY <1>1, <1>4 DEF AdvanceState, DerivedState
<1>5. CASE e.type \in {"CLAIM_EXPIRED", "CLAIM_RELEASED"}
    BY <1>1, <1>5 DEF AdvanceState, DerivedState
<1> QED BY <1>1, <1>2, <1>3, <1>4, <1>5 DEF EventType

\* One round of _replay keeps the derived state well typed, raised or not.
LEMMA ReplayStepType ==
    ASSUME NEW st \in DerivedState, NEW e \in ClaimEvent
    PROVE  ReplayStep(st, e) \in DerivedState
<1>1. AdvanceState(st, e) \in DerivedState BY AdvanceStateType
<1>2. [st EXCEPT !.ok = FALSE] \in DerivedState BY DEF DerivedState
<1> QED BY <1>1, <1>2, Zenon DEF ReplayStep

\* The replay starts from a well typed state.
LEMMA EmptyStateType == EmptyState \in DerivedState
BY DEF EmptyState, DerivedState

\* The replay of every history is defined, prefix by prefix, and typed.
LEMMA ReplayPrefixesDef ==
    ASSUME NEW h \in Seq(ClaimEvent)
    PROVE  /\ ReplayPrefixes(h) \in [0 .. Len(h) -> DerivedState]
           /\ ReplayPrefixes(h)[0] = EmptyState
           /\ \A i \in 1 .. Len(h) :
                 ReplayPrefixes(h)[i] = ReplayStep(ReplayPrefixes(h)[i - 1], h[i])
<1> DEFINE N == Len(h)
           G == [p \in DerivedState \X (1 .. N) |-> ReplayStep(p[1], h[p[2]])]
           Round(f) == [n \in 0 .. N |->
                          IF n = 0 THEN EmptyState ELSE ReplayStep(f[n - 1], h[n])]
<1>1. N \in Nat /\ \A i \in 1 .. N : h[i] \in ClaimEvent OBVIOUS
<1>2. G \in [DerivedState \X (1 .. N) -> DerivedState]
    BY <1>1, ReplayStepType
<1>3. \A s \in DerivedState, i \in 1 .. N : G[<<s, i>>] = ReplayStep(s, h[i])
    OBVIOUS
<1>4. PICK f \in [0 .. N -> DerivedState] :
          f[0] = EmptyState /\ \A i \in 1 .. N : f[i] = G[<<f[i - 1], i>>]
  <2> HIDE DEF N, G
  <2>1. N \in Nat BY <1>1
  <2>2. Folds(DerivedState, EmptyState, G, N) # {}
      BY <2>1, <1>2, EmptyStateType, FoldExists
  <2> QED BY <2>2 DEF Folds
<1>5. f = Round(f)
  <2> HIDE DEF G
  <2>1. \A i \in 1 .. N : f[i - 1] \in DerivedState BY <1>1
  <2>2. \A i \in 1 .. N : f[i] = ReplayStep(f[i - 1], h[i]) BY <1>3, <1>4, <2>1
  <2> HIDE DEF N
  <2>3. \A n \in 0 .. N : f[n] = IF n = 0 THEN EmptyState ELSE ReplayStep(f[n - 1], h[n])
      BY <1>1, <1>4, <2>2
  <2> QED BY <2>3
<1>6. ReplayPrefixes(h) = CHOOSE g : g = Round(g)
    BY DEF ReplayPrefixes
<1>7. ReplayPrefixes(h) = Round(ReplayPrefixes(h))
    BY <1>5, <1>6, Zenon
<1>8. /\ ReplayPrefixes(h)[0] = EmptyState
      /\ \A i \in 1 .. N :
            ReplayPrefixes(h)[i] = ReplayStep(ReplayPrefixes(h)[i - 1], h[i])
  <2> HIDE DEF N
  <2> QED BY <1>1, <1>7
<1>9. ReplayPrefixes(h) = f
  <2> HIDE DEF N
  <2>1. \A i \in 1 .. N : f[i] = ReplayStep(f[i - 1], h[i]) BY <1>1, <1>5
  <2>2. \A i \in 1 .. N : ReplayPrefixes(h)[i - 1] = f[i - 1] => ReplayPrefixes(h)[i] = f[i]
      BY <1>8, <2>1
  <2>3. N \in Nat /\ ReplayPrefixes(h)[0] = f[0] BY <1>1, <1>4, <1>8
  <2>4. \A i \in 0 .. N : ReplayPrefixes(h)[i] = f[i]
    <3> DEFINE g == ReplayPrefixes(h)
    <3>1. \A i \in 1 .. N : g[i - 1] = f[i - 1] => g[i] = f[i] BY <2>2
    <3>2. N \in Nat /\ g[0] = f[0] BY <2>3
    <3> HIDE DEF g
    <3>3. \A i \in 0 .. N : g[i] = f[i] BY ONLY <3>1, <3>2, FoldUnique, ZenonT(60)
    <3> QED BY <3>3 DEF g
  <2> QED BY <1>7, <1>4, <2>4
<1> QED BY <1>8, <1>9

\* _replay of an empty history, and of a history with one more event.
THEOREM ReplayEmpty == Replay(<<>>) = EmptyState
<1>1. <<>> \in Seq(ClaimEvent) /\ Len(<<>>) = 0 OBVIOUS
<1> QED BY <1>1, ReplayPrefixesDef DEF Replay

\* _replay of any history ends in a derived state.
LEMMA ReplayType ==
    ASSUME NEW h \in Seq(ClaimEvent)
    PROVE  Replay(h) \in DerivedState
<1>1. Len(h) \in 0 .. Len(h) OBVIOUS
<1> QED BY <1>1, ReplayPrefixesDef DEF Replay

\* Replaying a history and one more event is replaying the history, then one
\* round of _replay on that event: what lets a commit be argued about alone.
THEOREM ReplayAppend ==
    ASSUME NEW h \in Seq(ClaimEvent), NEW e \in ClaimEvent
    PROVE  Replay(Append(h, e)) = ReplayStep(Replay(h), e)
<1> DEFINE k == Append(h, e)
           N == Len(h)
<1>1. /\ k \in Seq(ClaimEvent)
      /\ N \in Nat
      /\ Len(k) = N + 1
      /\ k[N + 1] = e
      /\ \A i \in 1 .. N : k[i] = h[i]
    OBVIOUS
<1> HIDE DEF k
<1>2. /\ ReplayPrefixes(k)[0] = EmptyState
      /\ \A i \in 1 .. (N + 1) :
            ReplayPrefixes(k)[i] = ReplayStep(ReplayPrefixes(k)[i - 1], k[i])
    BY <1>1, ReplayPrefixesDef
<1>3. /\ ReplayPrefixes(h)[0] = EmptyState
      /\ \A i \in 1 .. N :
            ReplayPrefixes(h)[i] = ReplayStep(ReplayPrefixes(h)[i - 1], h[i])
    BY ReplayPrefixesDef
<1> HIDE DEF N
<1>4. \A i \in 1 .. N : ReplayPrefixes(k)[i] = ReplayStep(ReplayPrefixes(k)[i - 1], h[i])
    BY <1>1, <1>2
<1>5. \A i \in 0 .. N : ReplayPrefixes(k)[i] = ReplayPrefixes(h)[i]
  <2>1. \A i \in 1 .. N : ReplayPrefixes(k)[i - 1] = ReplayPrefixes(h)[i - 1]
                             => ReplayPrefixes(k)[i] = ReplayPrefixes(h)[i]
      BY <1>3, <1>4
  <2>2. N \in Nat /\ ReplayPrefixes(k)[0] = ReplayPrefixes(h)[0] BY <1>1, <1>2, <1>3
  <2> DEFINE f == ReplayPrefixes(k)
             g == ReplayPrefixes(h)
  <2>3. \A i \in 1 .. N : f[i - 1] = g[i - 1] => f[i] = g[i] BY <2>1
  <2>4. N \in Nat /\ f[0] = g[0] BY <2>2
  <2> HIDE DEF f, g
  <2>5. \A i \in 0 .. N : f[i] = g[i] BY ONLY <2>3, <2>4, FoldUnique, ZenonT(60)
  <2> QED BY <2>5 DEF f, g
<1>6. ReplayPrefixes(k)[N + 1] = ReplayStep(ReplayPrefixes(h)[N], e)
    BY <1>1, <1>2, <1>5
<1> QED BY <1>1, <1>6 DEF Replay, N, k

-----------------------------------------------------------------------------
(* What the service decides, the replay accepts                             *)

\* A state a replay may extend: it raised nothing, and only a lineage without
\* events is without generations.
Sound(st) == st.ok /\ (st.version = 0 => st.generation = 0)

\* What _advance_state makes of each field of the derived state.
LEMMA AdvanceStateFields ==
    ASSUME NEW st \in DerivedState, NEW e \in ClaimEvent
    PROVE  /\ AdvanceState(st, e).ok = st.ok
           /\ AdvanceState(st, e).version = e.version
<1>1. e.type \in EventType BY DEF ClaimEvent
<1>2. CASE e.type = "GENERATION_CREATED" BY <1>2 DEF AdvanceState, DerivedState
<1>3. CASE e.type = "CLAIM_ACCEPTED" BY <1>3 DEF AdvanceState, DerivedState
<1>4. CASE e.type = "CLAIM_REJECTED" BY <1>4 DEF AdvanceState, DerivedState
<1>5. CASE e.type \in {"CLAIM_EXPIRED", "CLAIM_RELEASED"}
    BY <1>5 DEF AdvanceState, DerivedState
<1> QED BY <1>1, <1>2, <1>3, <1>4, <1>5 DEF EventType

\* A legal request's event passes every check of _advance_state.
LEMMA DecisionWellFormed ==
    ASSUME NEW r \in Request, NEW st \in DerivedState, Sound(st), Legal(r, st)
    PROVE  WellFormed(st, BuildEvent(r, st, st.version))
<1> DEFINE e == BuildEvent(r, st, st.version)
           d == Decide(r, st)
<1>1. /\ e.version = st.version + 1 /\ e.type = d.type /\ e.generation = d.generation
      /\ e.fence = d.fence /\ e.causal = d.causal
    BY DEF BuildEvent
<1> SUFFICES WellFormed(st, e) OBVIOUS
<1> HIDE DEF e
<1>2. CASE r.operation = "CREATE_GENERATION"
  <2>1. CASE st.version = 0
    <3>1. d = Decision("GENERATION_CREATED", 1, 0, 0) BY <1>2, <2>1 DEF Decide
    <3> QED BY <1>1, <2>1, <3>1 DEF Decision, WellFormed, WellFormedGeneration, Sound
  <2>2. CASE st.version # 0
    <3>1. d = Decision("GENERATION_CREATED", st.generation + 1, 0, st.ended.version)
        BY <1>2, <2>2 DEF Decide
    <3>2. st.ended # None BY <1>2, <2>2 DEF Legal, MayCreate
    <3> QED BY <1>1, <3>1, <3>2 DEF Decision, WellFormed, WellFormedGeneration
  <2> QED BY <2>1, <2>2
<1>3. CASE r.operation = "CLAIM"
  <2>1. st.opened # None /\ st.ended = None BY <1>3 DEF Legal, GenerationOpen
  <2>2. CASE st.accepted # None
    <3>1. d = Decision("CLAIM_REJECTED", st.generation, 0, st.accepted.version)
        BY <1>3, <2>2 DEF Decide
    <3> QED BY <1>1, <2>1, <3>1 DEF Decision, WellFormed, WellFormedLifecycle
  <2>3. CASE st.accepted = None /\ ~ClaimantMatchesCandidate(r)
    <3>1. d = Decision("CLAIM_REJECTED", st.generation, 0, st.opened.version)
        BY <1>3, <2>3 DEF Decide
    <3> QED BY <1>1, <2>1, <3>1 DEF Decision, WellFormed, WellFormedLifecycle
  <2>4. CASE st.accepted = None /\ ClaimantMatchesCandidate(r)
    <3>1. d = Decision("CLAIM_ACCEPTED", st.generation, st.fence + 1, st.opened.version)
        BY <1>3, <2>4 DEF Decide
    <3> QED BY <1>1, <2>1, <2>4, <3>1 DEF Decision, WellFormed, WellFormedLifecycle
  <2> QED BY <2>2, <2>3, <2>4
<1>4. CASE r.operation \in {"EXPIRE", "RELEASE"}
  <2>1. st.opened # None /\ st.ended = None /\ st.accepted # None
      BY <1>4 DEF Legal, MayExpire, MayRelease, MayEnd, GenerationOpen
  <2>2. \/ d = Decision("CLAIM_EXPIRED", st.generation, 0, st.accepted.version)
        \/ d = Decision("CLAIM_RELEASED", st.generation, 0, st.accepted.version)
      BY <1>4 DEF Decide
  <2> QED BY <1>1, <2>1, <2>2 DEF Decision, WellFormed, WellFormedLifecycle
<1>5. r.operation \in Operation BY DEF Request
<1> QED BY <1>2, <1>3, <1>4, <1>5 DEF Operation

\* Appending the event decided from a sound replay gives a sound replay.
LEMMA ReplayExtends ==
    ASSUME NEW h \in Seq(ClaimEvent), NEW r \in Request,
           Sound(Replay(h)), Replay(h).version = Len(h),
           r.expected = Len(h), Legal(r, Replay(h))
    PROVE  LET e == BuildEvent(r, Replay(h), Len(h))
           IN  /\ Replay(Append(h, e)) = AdvanceState(Replay(h), e)
               /\ Sound(Replay(Append(h, e)))
               /\ Replay(Append(h, e)).version = Len(h) + 1
<1> DEFINE st == Replay(h)
           e == BuildEvent(r, st, Len(h))
<1>1. st \in DerivedState BY ReplayType
<1>2. Len(h) \in Nat OBVIOUS
<1> HIDE DEF st
<1>3. Sound(st) /\ st.version = Len(h) /\ Legal(r, st) BY DEF st
<1>4. e \in ClaimEvent BY <1>1, <1>2, <1>3, BuildEventType
<1>5. e.request = r /\ e.version = Len(h) + 1 BY BuildEventFields
<1>6. e = BuildEvent(e.request, st, st.version) BY <1>3, <1>5
<1>7. WellFormed(st, e) BY <1>1, <1>3, DecisionWellFormed
<1> HIDE DEF e
<1>8. ReplayStep(st, e) = AdvanceState(st, e)
    BY <1>3, <1>5, <1>6, <1>7 DEF ReplayStep, Reproduces, Sound
<1>9. Replay(Append(h, e)) = AdvanceState(st, e)
    BY <1>4, <1>8, ReplayAppend DEF st
<1>10. /\ AdvanceState(st, e).ok = st.ok
       /\ AdvanceState(st, e).version = Len(h) + 1
    BY <1>1, <1>4, <1>5, AdvanceStateFields
<1> QED BY <1>2, <1>3, <1>9, <1>10 DEF Sound, st, e

-----------------------------------------------------------------------------
(* The service                                                              *)

\* What evaluate and reconstruct hold between two acquisitions of the lock:
\* the request, the event decided for it, or an id that was committed.
InFlight(frame, ids) ==
    /\ frame \in CallState
    /\ frame.pc \in {"lookup", "load", "append"} => frame.request \in Request
    /\ frame.pc = "append" =>
          /\ frame.event \in ClaimEvent
          /\ frame.event.request = frame.request
          /\ frame.event.version = frame.request.expected + 1
    /\ frame.pc = "rebuild" => frame.event \in ids

TypeInv == TypeOK /\ \A c \in Callers : InFlight(call[c], byId)

\* An idempotency identity is one the repository indexes by.
LEMMA IdentityType ==
    ASSUME NEW r \in Request
    PROVE  Identity(r) \in Identities /\ r.lineage \in Lineages
BY DEF Identity, Identities, Request

\* A frame that is done carries no obligation but its type.
LEMMA AnswerInFlight ==
    ASSUME NEW c \in Callers, InFlight(call[c], byId), NEW outcome \in Outcome,
           NEW event \in ClaimEvent \cup {None}, NEW ids
    PROVE  InFlight(Frame("done", call[c].request, event, outcome), ids)
BY DEF InFlight, Frame, CallState

\* A step that changes one thread's frame and nothing else.
LEMMA FrameStep ==
    ASSUME TypeInv, NEW c \in Callers, NEW frame, InFlight(frame, byId),
           call' = [call EXCEPT ![c] = frame],
           UNCHANGED <<retained, streams, byId, idempotency, current>>
    PROVE  TypeInv'
<1>1. call' \in [Callers -> CallState] BY DEF TypeInv, TypeOK, InFlight
<1>2. TypeOK' BY <1>1 DEF TypeInv, TypeOK
<1>3. ASSUME NEW d \in Callers PROVE InFlight(call'[d], byId')
  <2>1. call'[d] = IF d = c THEN frame ELSE call[d] BY DEF TypeInv, TypeOK
  <2> QED BY <2>1 DEF TypeInv
<1> QED BY <1>2, <1>3 DEF TypeInv

\* Answering a caller leaves every call frame well typed.
LEMMA AnswerStep ==
    ASSUME TypeInv, NEW c \in Callers, NEW outcome \in Outcome,
           NEW event \in ClaimEvent \cup {None}, Answer(c, outcome, event),
           UNCHANGED <<retained, streams, byId, idempotency, current>>
    PROVE  TypeInv'
<1>1. InFlight(Frame("done", call[c].request, event, outcome), byId)
    BY AnswerInFlight DEF TypeInv
<1> QED BY <1>1, FrameStep DEF Answer

\* The empty repository is well typed.
LEMMA TypeInit == Init => TypeInv
<1> SUFFICES ASSUME Init PROVE TypeInv OBVIOUS
<1>1. Idle \in CallState BY DEF Idle, Frame, CallState
<1>2. \A c \in Callers : InFlight(call[c], byId)
    BY <1>1 DEF Init, InFlight, Idle, Frame
<1>3. TypeOK BY <1>1 DEF Init, TypeOK
<1> QED BY <1>2, <1>3 DEF TypeInv

\* _resolve leaves the state well typed, whichever way it ends.
LEMMA TypeSubmit ==
    ASSUME TypeInv, NEW c \in Callers, NEW r \in Requests, Submit(c, r)
    PROVE  TypeInv'
<1>1. r \in Request BY RequestsAssumption
<1>2. InFlight(Frame("done", r, None, "EvidenceUnavailable"), byId)
    BY <1>1 DEF InFlight, Frame, CallState, Outcome
<1>3. InFlight(Frame("done", r, None, "Invalid"), byId)
    BY <1>1 DEF InFlight, Frame, CallState, Outcome
<1>4. InFlight(Frame("lookup", r, None, None), byId)
    BY <1>1 DEF InFlight, Frame, CallState, Outcome
<1>5. UNCHANGED <<retained, streams, byId, idempotency, current>> BY DEF Submit
<1>6. PICK frame : InFlight(frame, byId) /\ call' = [call EXCEPT ![c] = frame]
    BY <1>2, <1>3, <1>4, Zenon DEF Submit
<1> QED BY <1>5, <1>6, FrameStep

\* So does the idempotent lookup.
LEMMA TypeIdempotentLookup ==
    ASSUME TypeInv, NEW c \in Callers, IdempotentLookup(c)
    PROVE  TypeInv'
<1> DEFINE r == call[c].request
           prior == idempotency[Identity(r)]
<1>1. r \in Request BY DEF IdempotentLookup, TypeInv, InFlight
<1>2. prior \in ClaimEvent \cup {None} BY <1>1, IdentityType DEF TypeInv, TypeOK
<1>3. UNCHANGED <<retained, streams, byId, idempotency, current>> BY DEF IdempotentLookup
<1>4. CASE call' = [call EXCEPT ![c] = Frame("load", r, None, None)]
  <2>1. InFlight(Frame("load", r, None, None), byId)
      BY <1>1 DEF InFlight, Frame, CallState, Outcome
  <2> QED BY <1>3, <1>4, <2>1, FrameStep
<1>5. CASE Answer(c, "ExistingEquivalent", prior)
    BY <1>2, <1>3, <1>5, AnswerStep DEF Outcome
<1>6. CASE Answer(c, "IdempotencyConflict", None)
    BY <1>3, <1>6, AnswerStep DEF Outcome
<1> QED BY <1>4, <1>5, <1>6 DEF IdempotentLookup

\* So does the history load: the event it builds is a ClaimEvent.
LEMMA TypeLoadHistory ==
    ASSUME TypeInv, NEW c \in Callers, LoadHistory(c)
    PROVE  TypeInv'
<1> DEFINE r == call[c].request
           state == Replay(streams[r.lineage])
<1>1. r \in Request BY DEF LoadHistory, TypeInv, InFlight
<1>2. state \in DerivedState BY <1>1, IdentityType, ReplayType DEF TypeInv, TypeOK
<1>3. UNCHANGED <<retained, streams, byId, idempotency, current>> BY DEF LoadHistory
<1>4. ASSUME Legal(r, state),
             call' = [call EXCEPT ![c] =
                        Frame("append", r, BuildEvent(r, state, r.expected), None)]
      PROVE  TypeInv'
  <2>1. r.expected \in Nat BY <1>1 DEF Request
  <2>2. BuildEvent(r, state, r.expected) \in ClaimEvent
      BY <1>1, <1>2, <1>4, <2>1, BuildEventType
  <2>3. /\ BuildEvent(r, state, r.expected).request = r
        /\ BuildEvent(r, state, r.expected).version = r.expected + 1
      BY BuildEventFields
  <2>4. InFlight(Frame("append", r, BuildEvent(r, state, r.expected), None), byId)
    <3> HIDE DEF state
    <3> QED BY <1>1, <2>2, <2>3 DEF InFlight, Frame, CallState
  <2> QED BY <1>3, <1>4, <2>4, FrameStep
<1>5. \A outcome \in Outcome : Answer(c, outcome, None) => TypeInv'
    BY <1>3, AnswerStep
<1> QED BY <1>4, <1>5 DEF LoadHistory, Outcome

\* So does a published append.
LEMMA TypeAppendEvent ==
    ASSUME TypeInv, NEW c \in Callers, AppendEvent(c)
    PROVE  TypeInv'
<1> DEFINE e == call[c].event
<1>1. e \in ClaimEvent /\ e.request \in Request
    BY DEF AppendEvent, TypeInv, InFlight, ClaimEvent
<1>2. Identity(e.request) \in Identities /\ e.request.lineage \in Lineages
    BY <1>1, IdentityType
<1>3. streams' \in [Lineages -> Seq(ClaimEvent)]
    BY <1>1, <1>2 DEF AppendEvent, Commit, TypeInv, TypeOK
<1>4. /\ byId' \subseteq ClaimEvent
      /\ idempotency' \in [Identities -> ClaimEvent \cup {None}]
      /\ current' \in [Lineages -> ClaimEvent \cup {None}]
      /\ retained' = retained
    BY <1>1, <1>2 DEF AppendEvent, Commit, TypeInv, TypeOK
<1>5. InFlight(Frame("done", call[c].request, e, "Created"), byId')
    BY <1>1, AnswerInFlight DEF TypeInv, Outcome
<1>6. call' = [call EXCEPT ![c] = Frame("done", call[c].request, e, "Created")]
    BY DEF AppendEvent, Answer
<1>7. byId \subseteq byId' BY DEF AppendEvent, Commit
<1>8. ASSUME NEW d \in Callers PROVE InFlight(call'[d], byId')
  <2>1. CASE d = c BY <2>1, <1>5, <1>6 DEF TypeInv, TypeOK
  <2>2. CASE d # c
    <3>1. call'[d] = call[d] BY <2>2, <1>6 DEF TypeInv, TypeOK
    <3>2. InFlight(call[d], byId) BY DEF TypeInv
    <3> QED BY <3>1, <3>2, <1>7 DEF InFlight
  <2> QED BY <2>1, <2>2
<1>9. call' \in [Callers -> CallState]
    BY <1>5, <1>6 DEF TypeInv, TypeOK, InFlight
<1> QED BY <1>3, <1>4, <1>8, <1>9 DEF TypeInv, TypeOK

\* So does an append that meets another commit.
LEMMA TypeAppendLoses ==
    ASSUME TypeInv, NEW c \in Callers, AppendLoses(c)
    PROVE  TypeInv'
<1> DEFINE prior == idempotency[Identity(call[c].event.request)]
<1>1. call[c].event.request \in Request
    BY DEF AppendLoses, TypeInv, InFlight, ClaimEvent
<1>2. prior \in ClaimEvent \cup {None} BY <1>1, IdentityType DEF TypeInv, TypeOK
<1>3. UNCHANGED <<retained, streams, byId, idempotency, current>> BY DEF AppendLoses
<1>4. CASE Answer(c, "ExistingEquivalent", prior)
    BY <1>2, <1>3, <1>4, AnswerStep DEF Outcome
<1>5. CASE Answer(c, "IdempotencyConflict", None)
    BY <1>3, <1>5, AnswerStep DEF Outcome
<1>6. CASE Answer(c, "VersionConflict", None)
    BY <1>3, <1>6, AnswerStep DEF Outcome
<1> QED BY <1>4, <1>5, <1>6 DEF AppendLoses

\* So does the replay of reconstruct.
LEMMA TypeRebuild ==
    ASSUME TypeInv, NEW c \in Callers, Rebuild(c)
    PROVE  TypeInv'
<1>1. call[c].event \in ClaimEvent \cup {None}
    BY DEF TypeInv, InFlight, CallState
<1>2. UNCHANGED <<retained, streams, byId, idempotency, current>> BY DEF Rebuild
<1>3. \A outcome \in Outcome : Answer(c, outcome, call[c].event) => TypeInv'
    BY <1>1, <1>2, AnswerStep
<1> QED BY <1>3 DEF Rebuild, Outcome

\* Every step of the service preserves the types.
LEMMA TypeNext == TypeInv /\ [Next]_vars => TypeInv'
<1> SUFFICES ASSUME TypeInv, [Next]_vars PROVE TypeInv' OBVIOUS
<1>1. ASSUME NEW a \in Dispatches \cup Evidence, Retain(a) PROVE TypeInv'
    BY <1>1 DEF Retain, TypeInv, TypeOK
<1>2. ASSUME NEW c \in Callers, NEW r \in Requests, Submit(c, r) PROVE TypeInv'
    BY <1>2, TypeSubmit
<1>3. ASSUME NEW c \in Callers, NEW e \in byId, Reconstruct(c, e) PROVE TypeInv'
  <2>1. InFlight(Frame("rebuild", None, e, None), byId)
      BY DEF InFlight, Frame, CallState, TypeInv, TypeOK
  <2> QED BY <1>3, <2>1, FrameStep DEF Reconstruct
<1>4. ASSUME NEW c \in Callers, CommitFails(c) PROVE TypeInv'
    BY <1>4, AnswerStep DEF CommitFails, Outcome
<1>5. ASSUME NEW c \in Callers, Return(c) PROVE TypeInv'
  <2>1. InFlight(Idle, byId) BY DEF InFlight, Idle, Frame, CallState
  <2> QED BY <1>5, <2>1, FrameStep DEF Return
<1>6. CASE UNCHANGED vars
    BY <1>6 DEF vars, TypeInv, TypeOK
<1> QED BY <1>1, <1>2, <1>3, <1>4, <1>5, <1>6, TypeIdempotentLookup, TypeLoadHistory,
           TypeAppendEvent, TypeAppendLoses, TypeRebuild DEF Next, CallStep

\* The repository and the calls keep their types: in particular the service
\* never builds a record from a state without the generation or the claim it
\* names as a cause, whatever history the snapshot held.
THEOREM TypeCorrect == Spec => []TypeOK
<1>1. TypeInv => TypeOK BY DEF TypeInv
<1> QED BY <1>1, TypeInit, TypeNext, PTL DEF Spec

-----------------------------------------------------------------------------
(* Atomic publication                                                       *)

\* Only a successful append changes the repository.
LEMMA RepositoryStep ==
    ASSUME [Next]_vars
    PROVE  \/ UNCHANGED <<streams, byId, idempotency, current>>
           \/ \E c \in Callers : AppendEvent(c)
BY DEF Next, CallStep, vars, Retain, Submit, IdempotentLookup, LoadHistory,
       CommitFails, AppendLoses, Reconstruct, Rebuild, Return

\* What a successful append does, in one place: the event sits at its version
\* at the end of its lineage, under an identity and an id that were free.
LEMMA CommitEffect ==
    ASSUME TypeInv, NEW c \in Callers, AppendEvent(c)
    PROVE  LET e == call[c].event
               l == e.request.lineage
               i == Identity(e.request)
           IN  /\ e \in ClaimEvent /\ e.request \in Request
               /\ l \in Lineages /\ i \in Identities
               /\ e = call[c].event /\ e.request = call[c].request
               /\ e.request.expected = Len(streams[l])
               /\ e.version = Len(streams[l]) + 1
               /\ idempotency[i] = None /\ e \notin byId
               /\ streams' = [streams EXCEPT ![l] = Append(@, e)]
               /\ byId' = byId \cup {e}
               /\ idempotency' = [idempotency EXCEPT ![i] = e]
               /\ current' = [current EXCEPT ![l] = e]
               /\ retained' = retained
               /\ call' = [call EXCEPT ![c] = Frame("done", e.request, e, "Created")]
<1> DEFINE e == call[c].event
<1>1. e \in ClaimEvent /\ e.request \in Request /\ e.request = call[c].request
    BY DEF AppendEvent, TypeInv, InFlight, ClaimEvent
<1>2. e.request.lineage \in Lineages /\ Identity(e.request) \in Identities
    BY <1>1, IdentityType
<1> QED BY <1>1, <1>2 DEF AppendEvent, Appendable, Commit, Answer

\* The streams after an append, entry by entry.
LEMMA StreamsAfter ==
    ASSUME TypeInv, NEW l \in Lineages, NEW e \in ClaimEvent,
           streams' = [streams EXCEPT ![l] = Append(@, e)]
    PROVE  /\ streams'[l] \in Seq(ClaimEvent)
           /\ Len(streams'[l]) = Len(streams[l]) + 1
           /\ DOMAIN streams'[l] = 1 .. (Len(streams[l]) + 1)
           /\ DOMAIN streams[l] = 1 .. Len(streams[l])
           /\ streams'[l][Len(streams[l]) + 1] = e
           /\ \A i \in 1 .. Len(streams[l]) : streams'[l][i] = streams[l][i]
           /\ \A m \in Lineages : m # l => streams'[m] = streams[m]
<1>1. streams[l] \in Seq(ClaimEvent) BY DEF TypeInv, TypeOK
<1>2. streams'[l] = Append(streams[l], e) BY DEF TypeInv, TypeOK
<1>3. \A m \in Lineages : m # l => streams'[m] = streams[m] BY DEF TypeInv, TypeOK
<1> QED BY <1>1, <1>2, <1>3

\* The indexes of the empty repository agree.
LEMMA IndexesInit == Init => IndexesAgree
BY DEF Init, IndexesAgree

\* _commit_state, under the guard of append, keeps the indexes in agreement.
LEMMA IndexesCommit ==
    ASSUME TypeInv, IndexesAgree, NEW c \in Callers, AppendEvent(c)
    PROVE  IndexesAgree'
<1> DEFINE e == call[c].event
           l == e.request.lineage
           n == Len(streams[l])
<1>1. /\ e \in ClaimEvent /\ e.request \in Request /\ l \in Lineages
      /\ Identity(e.request) \in Identities
      /\ e.request.expected = n /\ e.version = n + 1
      /\ idempotency[Identity(e.request)] = None /\ e \notin byId
      /\ streams' = [streams EXCEPT ![l] = Append(@, e)]
      /\ byId' = byId \cup {e}
      /\ idempotency' = [idempotency EXCEPT ![Identity(e.request)] = e]
      /\ current' = [current EXCEPT ![l] = e]
    BY CommitEffect
<1>2. /\ Len(streams'[l]) = n + 1
      /\ DOMAIN streams'[l] = 1 .. (n + 1)
      /\ DOMAIN streams[l] = 1 .. n
      /\ streams'[l][n + 1] = e
      /\ \A i \in 1 .. n : streams'[l][i] = streams[l][i]
      /\ \A m \in Lineages : m # l => streams'[m] = streams[m]
    BY <1>1, StreamsAfter
<1>3. n \in Nat BY <1>1 DEF TypeInv, TypeOK
<1>4. e # None BY <1>1, NoneAssumption
<1>5. \A m \in Lineages : m # l => DOMAIN streams'[m] = DOMAIN streams[m]
    BY <1>2
<1> HIDE DEF e, l, n
<1>6. byId' = UNION {{streams'[m][i] : i \in DOMAIN streams'[m]} : m \in Lineages}
  <2>1. ASSUME NEW v \in byId'
        PROVE  \E m \in Lineages : \E i \in DOMAIN streams'[m] : v = streams'[m][i]
    <3>1. CASE v = e
        BY <3>1, <1>1, <1>2, <1>3
    <3>2. CASE v \in byId
      <4>1. PICK m \in Lineages : \E i \in DOMAIN streams[m] : v = streams[m][i]
          BY <3>2 DEF IndexesAgree
      <4>2. PICK i \in DOMAIN streams[m] : v = streams[m][i] BY <4>1
      <4>3. i \in DOMAIN streams'[m] /\ v = streams'[m][i]
        <5>1. CASE m = l BY <5>1, <4>2, <1>2, <1>3
        <5>2. CASE m # l BY <5>2, <4>2, <1>2
        <5> QED BY <5>1, <5>2
      <4> QED BY <4>3
    <3> QED BY <3>1, <3>2, <1>1
  <2>2. ASSUME NEW m \in Lineages, NEW i \in DOMAIN streams'[m]
        PROVE  streams'[m][i] \in byId'
    <3>1. CASE m = l /\ i = n + 1
        BY <3>1, <1>1, <1>2
    <3>2. CASE m = l /\ i # n + 1
      <4>1. i \in DOMAIN streams[l] /\ streams'[m][i] = streams[l][i]
          BY <3>2, <1>2, <1>3
      <4> QED BY <4>1, <1>1 DEF IndexesAgree
    <3>3. CASE m # l
      <4>1. i \in DOMAIN streams[m] /\ streams'[m][i] = streams[m][i]
          BY <3>3, <1>2
      <4> QED BY <4>1, <1>1 DEF IndexesAgree
    <3> QED BY <3>1, <3>2, <3>3
  <2> QED BY <2>1, <2>2
<1>7. \A m \in Lineages : \A i \in DOMAIN streams'[m] :
         /\ streams'[m][i].request.lineage = m
         /\ streams'[m][i].version = i
         /\ streams'[m][i].request.expected = i - 1
  <2> SUFFICES ASSUME NEW m \in Lineages, NEW i \in DOMAIN streams'[m]
               PROVE  /\ streams'[m][i].request.lineage = m
                      /\ streams'[m][i].version = i
                      /\ streams'[m][i].request.expected = i - 1
      OBVIOUS
  <2>1. CASE m = l /\ i = n + 1
      BY <2>1, <1>1, <1>2, <1>3 DEF l
  <2>2. CASE m = l /\ i # n + 1
    <3>1. i \in DOMAIN streams[l] /\ streams'[m][i] = streams[l][i]
        BY <2>2, <1>2, <1>3
    <3> QED BY <3>1, <2>2 DEF IndexesAgree
  <2>3. CASE m # l
    <3>1. i \in DOMAIN streams[m] /\ streams'[m][i] = streams[m][i]
        BY <2>3, <1>2
    <3> QED BY <3>1 DEF IndexesAgree
  <2> QED BY <2>1, <2>2, <2>3
<1>8. \A v \in byId' : idempotency'[Identity(v.request)] = v
  <2> SUFFICES ASSUME NEW v \in byId' PROVE idempotency'[Identity(v.request)] = v OBVIOUS
  <2>1. CASE v = e
      BY <2>1, <1>1 DEF TypeInv, TypeOK
  <2>2. CASE v \in byId
    <3>1. v # None BY <2>2, NoneAssumption DEF TypeInv, TypeOK
    <3>2. idempotency[Identity(v.request)] = v BY <2>2 DEF IndexesAgree
    <3>3. Identity(v.request) # Identity(e.request) BY <3>1, <3>2, <1>1
    <3>4. v.request \in Request BY <2>2 DEF TypeInv, TypeOK, ClaimEvent
    <3>5. Identity(v.request) \in Identities BY <3>4, IdentityType
    <3> QED BY <3>2, <3>3, <3>5, <1>1 DEF TypeInv, TypeOK
  <2> QED BY <2>1, <2>2, <1>1
<1>9. \A i \in Identities : idempotency'[i] # None =>
         idempotency'[i] \in byId' /\ Identity(idempotency'[i].request) = i
    BY <1>1 DEF IndexesAgree, TypeInv, TypeOK
<1>10. \A m \in Lineages :
          current'[m] = IF streams'[m] = <<>> THEN None
                                              ELSE streams'[m][Len(streams'[m])]
  <2> SUFFICES ASSUME NEW m \in Lineages
               PROVE  current'[m] = IF streams'[m] = <<>> THEN None
                                    ELSE streams'[m][Len(streams'[m])]
      OBVIOUS
  <2>1. CASE m = l
    <3>1. current'[m] = e BY <2>1, <1>1 DEF TypeInv, TypeOK
    <3>2. streams'[m] # <<>> BY <2>1, <1>2, <1>3
    <3> QED BY <2>1, <3>1, <3>2, <1>2
  <2>2. CASE m # l
    <3>1. current'[m] = current[m] /\ streams'[m] = streams[m]
        BY <2>2, <1>1, <1>2 DEF TypeInv, TypeOK
    <3> QED BY <3>1 DEF IndexesAgree
  <2> QED BY <2>1, <2>2
<1> QED BY <1>6, <1>7, <1>8, <1>9, <1>10 DEF IndexesAgree

\* So does every step of the service.
LEMMA IndexesNext == TypeInv /\ IndexesAgree /\ [Next]_vars => IndexesAgree'
<1> SUFFICES ASSUME TypeInv, IndexesAgree, [Next]_vars PROVE IndexesAgree' OBVIOUS
<1>1. CASE UNCHANGED <<streams, byId, idempotency, current>>
    BY <1>1 DEF IndexesAgree
<1> QED BY <1>1, RepositoryStep, IndexesCommit

\* _commit_state publishes the four indexes together or not at all: after any
\* interleaving of commits, failed publications and lost races they describe
\* the same events.
THEOREM AtomicPublication == Spec => []IndexesAgree
BY TypeInit, TypeNext, IndexesInit, IndexesNext, PTL DEF Spec

-----------------------------------------------------------------------------
(* Every committed history replays                                          *)

\* What a thread holds between the lock acquisitions is still what the policy
\* decides, unless the lineage has moved on and the append will refuse it.
Decided(frame, s, artifacts) ==
    /\ frame.pc \in {"lookup", "load", "append"} => Resolves(frame.request, artifacts)
    /\ frame.pc = "append" =>
          LET r == frame.request
              h == s[r.lineage]
          IN  /\ r.expected <= Len(h)
              /\ r.expected = Len(h) =>
                    /\ Legal(r, Replay(h))
                    /\ frame.event = BuildEvent(r, Replay(h), Len(h))
    /\ frame.outcome \notin {"ReplayFailed", "ReconstructionFailed"}

Replays(h, artifacts) ==
    /\ Sound(Replay(h))
    /\ Replay(h).version = Len(h)
    /\ EvidenceHolds(h, artifacts)

ReplayInv ==
    /\ \A l \in Lineages : Replays(streams[l], retained)
    /\ \A c \in Callers : Decided(call[c], streams, retained)

\* Evidence is immutable: what resolved once resolves for ever.
LEMMA ResolvesMonotone ==
    ASSUME NEW r, NEW some, NEW more, some \subseteq more, Resolves(r, some)
    PROVE  Resolves(r, more)
BY DEF Resolves, Found

\* Nothing is in flight and every history is empty at the start.
LEMMA ReplayInit == Init => ReplayInv
<1> SUFFICES ASSUME Init PROVE ReplayInv OBVIOUS
<1>1. \A l \in Lineages : Replays(streams[l], retained)
  <2>1. Sound(EmptyState) /\ EmptyState.version = 0 BY DEF Sound, EmptyState
  <2>2. Len(<<>>) = 0 /\ DOMAIN <<>> = {} OBVIOUS
  <2>3. Replays(<<>>, retained)
      BY <2>1, <2>2, ReplayEmpty DEF Replays, EvidenceHolds
  <2> QED BY <2>3 DEF Init
<1>2. \A c \in Callers : Decided(call[c], streams, retained)
    BY OutcomeAssumption DEF Init, Decided, Idle, Frame, Outcome
<1> QED BY <1>1, <1>2 DEF ReplayInv

\* A step that changes one thread's frame and nothing else.
LEMMA DecidedFrame ==
    ASSUME TypeInv, ReplayInv, NEW c \in Callers, NEW frame,
           Decided(frame, streams, retained),
           call' = [call EXCEPT ![c] = frame],
           UNCHANGED <<retained, streams>>
    PROVE  ReplayInv'
<1>1. \A d \in Callers : call'[d] = IF d = c THEN frame ELSE call[d]
    BY DEF TypeInv, TypeOK
<1>2. \A d \in Callers : Decided(call'[d], streams', retained')
    BY <1>1, Zenon DEF ReplayInv
<1>3. \A l \in Lineages : Replays(streams'[l], retained')
    BY Zenon DEF ReplayInv
<1> QED BY <1>2, <1>3, Zenon DEF ReplayInv

\* Answering a caller changes no event that is about to be appended.
LEMMA DecidedAnswer ==
    ASSUME TypeInv, ReplayInv, NEW c \in Callers, NEW event,
           NEW outcome \in Outcome \ {"ReplayFailed", "ReconstructionFailed"},
           Answer(c, outcome, event), UNCHANGED <<retained, streams>>
    PROVE  ReplayInv'
<1>1. Decided(Frame("done", call[c].request, event, outcome), streams, retained)
    BY DEF Decided, Frame
<1> QED BY <1>1, DecidedFrame DEF Answer

\* The lookup starts no event and answers no replay failure.
LEMMA ReplayIdempotentLookup ==
    ASSUME TypeInv, ReplayInv, NEW c \in Callers, IdempotentLookup(c)
    PROVE  ReplayInv'
<1> DEFINE r == call[c].request
<1>1. UNCHANGED <<retained, streams>> /\ call[c].pc = "lookup" BY DEF IdempotentLookup
<1>2. CASE call' = [call EXCEPT ![c] = Frame("load", r, None, None)]
  <2>1. Resolves(r, retained) BY <1>1 DEF ReplayInv, Decided
  <2>2. Decided(Frame("load", r, None, None), streams, retained)
      BY <2>1, OutcomeAssumption DEF Decided, Frame, Outcome
  <2> QED BY <1>1, <1>2, <2>2, DecidedFrame
<1>3. CASE \E event : Answer(c, "ExistingEquivalent", event)
    BY <1>1, <1>3, DecidedAnswer DEF Outcome
<1>4. CASE \E event : Answer(c, "IdempotencyConflict", event)
    BY <1>1, <1>4, DecidedAnswer DEF Outcome
<1> QED BY <1>2, <1>3, <1>4 DEF IdempotentLookup

\* The event a call builds was decided from the history it loaded.
LEMMA ReplayLoadHistory ==
    ASSUME TypeInv, ReplayInv, NEW c \in Callers, LoadHistory(c)
    PROVE  ReplayInv'
<1> DEFINE r == call[c].request
           h == streams[r.lineage]
           e == BuildEvent(r, Replay(h), r.expected)
<1>1. UNCHANGED <<retained, streams>> /\ call[c].pc = "load" BY DEF LoadHistory
<1>2. r \in Request /\ r.lineage \in Lineages /\ r.expected \in Nat
    BY <1>1, IdentityType DEF TypeInv, InFlight, Request
<1>3. Replay(h).ok /\ EvidenceHolds(h, retained)
    BY <1>2 DEF ReplayInv, Replays, Sound
<1>4. ASSUME r.expected = Len(h), Legal(r, Replay(h)),
             call' = [call EXCEPT ![c] = Frame("append", r, e, None)]
      PROVE  ReplayInv'
  <2>1. Resolves(r, retained) BY <1>1 DEF ReplayInv, Decided
  <2>2. Decided(Frame("append", r, e, None), streams, retained)
      BY <1>2, <1>4, <2>1, OutcomeAssumption DEF Decided, Frame, Outcome
  <2> QED BY <1>1, <1>4, <2>2, DecidedFrame
<1>5. Answer(c, "VersionConflict", None) => ReplayInv'
    BY <1>1, DecidedAnswer DEF Outcome
<1>6. Answer(c, "IllegalTransition", None) => ReplayInv'
    BY <1>1, DecidedAnswer DEF Outcome
<1> QED BY <1>3, <1>4, <1>5, <1>6 DEF LoadHistory

\* The commit of an event decided from the history it extends, seen by every
\* lineage and by every other thread.
LEMMA ReplayAppendEvent ==
    ASSUME TypeInv, ReplayInv, NEW c \in Callers, AppendEvent(c)
    PROVE  ReplayInv'
<1> DEFINE e == call[c].event
           r == e.request
           l == r.lineage
           h == streams[l]
<1>1. /\ e \in ClaimEvent /\ r \in Request /\ l \in Lineages /\ r = call[c].request
      /\ r.expected = Len(h)
      /\ streams' = [streams EXCEPT ![l] = Append(@, e)]
      /\ retained' = retained
      /\ call' = [call EXCEPT ![c] = Frame("done", r, e, "Created")]
    BY CommitEffect
<1>2. /\ call[c].pc = "append" /\ Decided(call[c], streams, retained)
    BY DEF AppendEvent, ReplayInv
<1>3. Resolves(r, retained) /\ Legal(r, Replay(h)) /\ e = BuildEvent(r, Replay(h), Len(h))
  <2>1. Len(h) <= Len(h) BY <1>1 DEF TypeInv, TypeOK
  <2> QED BY <1>1, <1>2, <2>1 DEF Decided
<1>4. h \in Seq(ClaimEvent) /\ Replays(h, retained)
    BY <1>1 DEF TypeInv, TypeOK, ReplayInv
<1>5. /\ Sound(Replay(Append(h, e)))
      /\ Replay(Append(h, e)).version = Len(h) + 1
    BY <1>1, <1>3, <1>4, ReplayExtends DEF Replays
<1>6. streams'[l] = Append(h, e) /\ \A m \in Lineages : m # l => streams'[m] = streams[m]
    BY <1>1 DEF TypeInv, TypeOK
<1>7. /\ Len(streams'[l]) = Len(h) + 1
      /\ DOMAIN streams'[l] = 1 .. (Len(h) + 1) /\ DOMAIN h = 1 .. Len(h)
      /\ streams'[l][Len(h) + 1] = e
      /\ \A i \in 1 .. Len(h) : streams'[l][i] = h[i]
      /\ Len(h) \in Nat
  <2>1. Len(h) \in Nat BY <1>4
  <2>2. e \in ClaimEvent /\ l \in Lineages /\ streams' = [streams EXCEPT ![l] = Append(@, e)]
      BY <1>1
  <2> HIDE DEF e, l
  <2> QED BY <2>1, <2>2, StreamsAfter
<1> HIDE DEF e, r, l, h
<1>8. EvidenceHolds(streams'[l], retained)
  <2> SUFFICES ASSUME NEW i \in DOMAIN streams'[l]
               PROVE  Resolves(streams'[l][i].request, retained)
      BY DEF EvidenceHolds
  <2>1. CASE i = Len(h) + 1 BY <2>1, <1>3, <1>7 DEF r
  <2>2. CASE i # Len(h) + 1
    <3>1. i \in DOMAIN h /\ streams'[l][i] = h[i] BY <2>2, <1>7
    <3> QED BY <3>1, <1>4 DEF Replays, EvidenceHolds
  <2> QED BY <2>1, <2>2
<1>9. ASSUME NEW m \in Lineages PROVE Replays(streams'[m], retained')
  <2>1. CASE m = l
    <3>1. Replay(streams'[l]).version = Len(streams'[l]) BY <1>5, <1>6, <1>7
    <3>2. Sound(Replay(streams'[l])) BY <1>5, <1>6
    <3> QED BY <2>1, <3>1, <3>2, <1>1, <1>8 DEF Replays
  <2>2. CASE m # l BY <2>2, <1>1, <1>6 DEF ReplayInv
  <2> QED BY <2>1, <2>2
<1>10. ASSUME NEW d \in Callers PROVE Decided(call'[d], streams', retained')
  <2>1. CASE d = c
    <3>1. call'[d] = Frame("done", r, e, "Created") BY <2>1, <1>1 DEF TypeInv, TypeOK
    <3> QED BY <3>1 DEF Decided, Frame
  <2>2. CASE d # c
    <3>1. call'[d] = call[d] BY <2>2, <1>1 DEF TypeInv, TypeOK
    <3>2. Decided(call[d], streams, retained) BY DEF ReplayInv
    <3>3. CASE call[d].pc = "append" /\ call[d].request.lineage = l
      <4>1. call[d].request.expected <= Len(h) BY <3>2, <3>3 DEF Decided, h
      <4>2. call[d].request \in Request BY <3>3 DEF TypeInv, InFlight
      <4>3. call[d].request.expected \in Nat BY <4>2 DEF Request
      <4>4. /\ call[d].request.expected <= Len(streams'[l])
            /\ call[d].request.expected # Len(streams'[l])
          BY <4>1, <4>3, <1>7
      <4> QED BY <3>1, <3>2, <3>3, <4>4, <1>1 DEF Decided
    <3>4. CASE call[d].pc = "append" /\ call[d].request.lineage # l
      <4>1. call[d].request \in Request BY <3>4 DEF TypeInv, InFlight
      <4>2. streams'[call[d].request.lineage] = streams[call[d].request.lineage]
          BY <3>4, <4>1, <1>6, IdentityType
      <4> QED BY <3>1, <3>2, <4>2, <1>1 DEF Decided
    <3>5. CASE call[d].pc # "append" BY <3>1, <3>2, <3>5, <1>1 DEF Decided
    <3> QED BY <3>3, <3>4, <3>5
  <2> QED BY <2>1, <2>2
<1> QED BY <1>9, <1>10 DEF ReplayInv

\* A losing append changes no history.
LEMMA ReplayAppendLoses ==
    ASSUME TypeInv, ReplayInv, NEW c \in Callers, AppendLoses(c)
    PROVE  ReplayInv'
<1>1. UNCHANGED <<retained, streams>> BY DEF AppendLoses
<1>2. \E event : \/ Answer(c, "ExistingEquivalent", event)
                 \/ Answer(c, "IdempotencyConflict", event)
                 \/ Answer(c, "VersionConflict", event)
    BY DEF AppendLoses
<1> QED BY <1>1, <1>2, DecidedAnswer DEF Outcome

\* reconstruct never refuses a committed event: its history replays and, the
\* indexes agreeing, holds it.
LEMMA ReplayRebuild ==
    ASSUME TypeInv, IndexesAgree, ReplayInv, NEW c \in Callers, Rebuild(c)
    PROVE  ReplayInv'
<1> DEFINE e == call[c].event
           h == streams[e.request.lineage]
<1>1. UNCHANGED <<retained, streams>> /\ call[c].pc = "rebuild" BY DEF Rebuild
<1>2. e \in byId BY <1>1 DEF TypeInv, InFlight
<1>3. PICK l \in Lineages : \E i \in DOMAIN streams[l] : streams[l][i] = e
    BY <1>2 DEF IndexesAgree
<1>4. e.request.lineage = l BY <1>3 DEF IndexesAgree
<1>5. Replay(h).ok /\ EvidenceHolds(h, retained)
    BY <1>4 DEF ReplayInv, Replays, Sound
<1>6. \E i \in DOMAIN h : h[i] = e BY <1>3, <1>4
<1>7. Answer(c, "Reconstructed", e) BY <1>5, <1>6 DEF Rebuild
<1> QED BY <1>1, <1>7, DecidedAnswer DEF Outcome

\* Retaining more evidence withdraws none a history rests on.
LEMMA ReplayRetain ==
    ASSUME ReplayInv, NEW a, Retain(a)
    PROVE  ReplayInv'
<1>1. retained \subseteq retained' /\ UNCHANGED <<streams, call>> BY DEF Retain
<1>2. \A l \in Lineages : Replays(streams'[l], retained')
    BY <1>1, ResolvesMonotone DEF ReplayInv, Replays, EvidenceHolds
<1>3. \A c \in Callers : Decided(call'[c], streams', retained')
    BY <1>1, ResolvesMonotone DEF ReplayInv, Decided
<1> QED BY <1>2, <1>3 DEF ReplayInv

\* A submission starts no event and answers no replay failure.
LEMMA ReplaySubmit ==
    ASSUME TypeInv, ReplayInv, NEW c \in Callers, NEW r \in Requests, Submit(c, r)
    PROVE  ReplayInv'
<1>1. UNCHANGED <<retained, streams>> BY DEF Submit
<1>2. CASE ~Found(r, retained)
  <2>1. Decided(Frame("done", r, None, "EvidenceUnavailable"), streams, retained)
      BY DEF Decided, Frame
  <2> QED BY <1>1, <1>2, <2>1, DecidedFrame DEF Submit
<1>3. CASE Found(r, retained) /\ ~Applicable(r)
  <2>1. Decided(Frame("done", r, None, "Invalid"), streams, retained)
      BY DEF Decided, Frame
  <2> QED BY <1>1, <1>3, <2>1, DecidedFrame DEF Submit
<1>4. CASE Found(r, retained) /\ Applicable(r)
  <2>1. Decided(Frame("lookup", r, None, None), streams, retained)
      BY <1>4, OutcomeAssumption DEF Decided, Frame, Resolves, Outcome
  <2> QED BY <1>1, <1>4, <2>1, DecidedFrame DEF Submit
<1> QED BY <1>2, <1>3, <1>4

\* Every step of the service keeps histories replayable and events in flight
\* decided.
LEMMA ReplayNext == TypeInv /\ IndexesAgree /\ ReplayInv /\ [Next]_vars => ReplayInv'
<1> SUFFICES ASSUME TypeInv, IndexesAgree, ReplayInv, [Next]_vars PROVE ReplayInv' OBVIOUS
<1>1. ASSUME NEW c \in Callers, NEW e \in byId, Reconstruct(c, e) PROVE ReplayInv'
  <2>1. Decided(Frame("rebuild", None, e, None), streams, retained)
      BY OutcomeAssumption DEF Decided, Frame, Outcome
  <2> QED BY <1>1, <2>1, DecidedFrame DEF Reconstruct
<1>2. ASSUME NEW c \in Callers, CommitFails(c) PROVE ReplayInv'
    BY <1>2, DecidedAnswer DEF CommitFails, Outcome
<1>3. ASSUME NEW c \in Callers, Return(c) PROVE ReplayInv'
  <2>1. Decided(Idle, streams, retained)
      BY OutcomeAssumption DEF Decided, Idle, Frame, Outcome
  <2> QED BY <1>3, <2>1, DecidedFrame DEF Return
<1>4. CASE UNCHANGED vars
    BY <1>4 DEF vars, ReplayInv
<1> QED BY <1>1, <1>2, <1>3, <1>4, ReplayRetain, ReplaySubmit, ReplayIdempotentLookup,
           ReplayLoadHistory, ReplayAppendEvent, ReplayAppendLoses, ReplayRebuild
        DEF Next, CallStep

\* The inductive invariant gives the property the runs check.
LEMMA ReplayInvProperty == ReplayInv => HistoriesReplay
BY DEF ReplayInv, Replays, Sound, Decided, HistoriesReplay

\* Deterministic replay: whatever stale snapshots the threads decided from,
\* what the append let through replays, and reconstruct never refuses it.
THEOREM DeterministicReplay == Spec => []HistoriesReplay
BY TypeInit, TypeNext, IndexesInit, IndexesNext, ReplayInit, ReplayNext,
   ReplayInvProperty, PTL DEF Spec

-----------------------------------------------------------------------------
(* The safety of Work Claim: exclusive bounded acceptance, true answers,    *)
(* append-only history, fences and generations.  The invariants read what a *)
(* history says of its claims against the state it replays to.              *)

\* The entries carry their version and their times only grow.
Ordered(h) ==
    /\ \A i \in DOMAIN h : h[i].version = i
    /\ \A i, j \in DOMAIN h : i <= j => h[i].request.at <= h[j].request.at

\* The derived state's last event is the history's.
Follows(h, st) ==
    /\ h = <<>> => st.last = None
    /\ h # <<>> => st.last = h[Len(h)]

\* An accepted claim is the one the derived state holds, or it was ended.
Settled(h, st) ==
    /\ st.accepted # None => \E i \in Accepted(h) : h[i] = st.accepted
    /\ \A i \in Accepted(h) :
          \/ h[i] = st.accepted /\ st.ended = None
          \/ \E k \in DOMAIN h : i < k /\ Ends(h, k, i)

Excludes(h) ==
    \A i, j \in Accepted(h) : i < j =>
       \E k \in (i + 1) .. (j - 1) :
          Ends(h, k, i) /\ h[k].request.at <= h[j].request.at

Story(h, st) == Ordered(h) /\ Follows(h, st) /\ Settled(h, st) /\ Excludes(h)

\* A history one event longer, entry by entry.
LEMMA Longer ==
    ASSUME NEW h \in Seq(ClaimEvent), NEW e \in ClaimEvent
    PROVE  /\ Len(h) \in Nat
           /\ DOMAIN h = 1 .. Len(h)
           /\ DOMAIN Append(h, e) = 1 .. (Len(h) + 1)
           /\ Len(Append(h, e)) = Len(h) + 1
           /\ Append(h, e)[Len(h) + 1] = e
           /\ \A i \in 1 .. Len(h) : Append(h, e)[i] = h[i] /\ h[i] \in ClaimEvent
           /\ Append(h, e) # <<>>
OBVIOUS

\* InOrder: appending a request no older than the last event keeps the order.
LEMMA OrderedExtends ==
    ASSUME NEW h \in Seq(ClaimEvent), NEW st \in DerivedState, NEW e \in ClaimEvent,
           Ordered(h), Follows(h, st), InOrder(e.request, st), e.version = Len(h) + 1
    PROVE  Ordered(Append(h, e))
<1> DEFINE k == Append(h, e)
           n == Len(h)
<1>1. /\ n \in Nat /\ DOMAIN h = 1 .. n /\ DOMAIN k = 1 .. (n + 1) /\ k[n + 1] = e
      /\ \A i \in 1 .. n : k[i] = h[i] /\ h[i] \in ClaimEvent
    BY Longer
<1>2. n # 0 => st.last = h[n] /\ st.last # None
    BY <1>1, NoneAssumption DEF Follows
<1> HIDE DEF k, n
<1>3. \A i \in DOMAIN k : k[i].version = i
    BY <1>1 DEF Ordered, n
<1>4. n # 0 => h[n].request.at <= e.request.at
    BY <1>2 DEF InOrder
<1>5. \A i \in 1 .. n : h[i].request.at \in Nat /\ e.request.at \in Nat
    BY <1>1 DEF ClaimEvent, Request
<1>6. \A i \in 1 .. n : h[i].request.at <= e.request.at
  <2> SUFFICES ASSUME NEW i \in 1 .. n PROVE h[i].request.at <= e.request.at OBVIOUS
  <2>1. n \in 1 .. n /\ i <= n /\ n # 0 BY <1>1
  <2>2. h[i].request.at <= h[n].request.at BY <1>1, <2>1 DEF Ordered
  <2> QED BY <1>4, <1>5, <2>1, <2>2
<1>7. ASSUME NEW i \in DOMAIN k, NEW j \in DOMAIN k, i <= j
      PROVE  k[i].request.at <= k[j].request.at
  <2>1. CASE j # n + 1
    <3>1. i \in 1 .. n /\ j \in 1 .. n BY <1>1, <1>7, <2>1
    <3> QED BY <3>1, <1>1, <1>7 DEF Ordered
  <2>2. CASE j = n + 1 /\ i # n + 1
    <3>1. i \in 1 .. n BY <1>1, <2>2
    <3> QED BY <3>1, <2>2, <1>1, <1>6
  <2>3. CASE j = n + 1 /\ i = n + 1
    <3>1. e.request.at \in Nat BY DEF ClaimEvent, Request
    <3> QED BY <3>1, <2>3, <1>1
  <2> QED BY <2>1, <2>2, <2>3
<1> QED BY <1>3, <1>7 DEF Ordered, k

\* What one event does to the claims of a history: nothing it had settled
\* comes undone.
LEMMA EndsExtends ==
    ASSUME NEW h \in Seq(ClaimEvent), NEW e \in ClaimEvent,
           NEW i \in DOMAIN h, NEW k \in DOMAIN h
    PROVE  Ends(Append(h, e), k, i) <=> Ends(h, k, i)
<1>1. Append(h, e)[i] = h[i] /\ Append(h, e)[k] = h[k] BY Longer
<1> QED BY <1>1 DEF Ends

\* The acceptances of a history one event longer.
LEMMA AcceptedExtends ==
    ASSUME NEW h \in Seq(ClaimEvent), NEW e \in ClaimEvent
    PROVE  Accepted(Append(h, e)) =
              Accepted(h) \cup (IF e.type = "CLAIM_ACCEPTED" THEN {Len(h) + 1} ELSE {})
<1> DEFINE k == Append(h, e)
           n == Len(h)
<1>1. /\ n \in Nat /\ DOMAIN h = 1 .. n /\ DOMAIN k = 1 .. (n + 1) /\ k[n + 1] = e
      /\ \A i \in 1 .. n : k[i] = h[i]
    BY Longer
<1> HIDE DEF k, n
<1>2. Accepted(k) = Accepted(h) \cup (IF e.type = "CLAIM_ACCEPTED" THEN {n + 1} ELSE {})
    BY <1>1 DEF Accepted
<1> QED BY <1>2 DEF k, n

\* What the decision and the advance leave of the claim the state holds.
LEMMA DecisionOnClaim ==
    ASSUME NEW r \in Request, NEW st \in DerivedState, NEW v \in Nat,
           Sound(st), Legal(r, st)
    PROVE  LET e == BuildEvent(r, st, v)
               s == AdvanceState(st, e)
           IN  /\ s.last = e
               /\ \/ /\ e.type = "GENERATION_CREATED"
                     /\ s.accepted = None
                     /\ st.version = 0 \/ st.ended # None
                  \/ /\ e.type = "CLAIM_ACCEPTED"
                     /\ st.accepted = None /\ st.ended = None
                     /\ s.accepted = e /\ s.ended = None
                  \/ /\ e.type = "CLAIM_REJECTED"
                     /\ s.accepted = st.accepted /\ s.ended = st.ended
                  \/ /\ e.type \in {"CLAIM_EXPIRED", "CLAIM_RELEASED"}
                     /\ st.accepted # None /\ e.causal = st.accepted.version
                     /\ s.accepted = st.accepted
                     /\ e.type = "CLAIM_EXPIRED" => r.at >= ExpiresAt(st.accepted)
                     /\ e.type = "CLAIM_RELEASED" =>
                           Claimant(r) = Claimant(st.accepted.request)
<1> DEFINE e == BuildEvent(r, st, v)
           d == Decide(r, st)
           s == AdvanceState(st, e)
<1>1. e.type = d.type /\ e.causal = d.causal /\ e.request = r BY DEF BuildEvent
<1>2. r.operation \in Operation BY DEF Request
<1> HIDE DEF e
<1>3. CASE r.operation = "CREATE_GENERATION"
  <2>1. d.type = "GENERATION_CREATED" BY <1>3 DEF Decide, Decision
  <2>2. st.version = 0 \/ st.ended # None BY <1>3 DEF Legal, MayCreate
  <2>3. s.last = e /\ s.accepted = None
      BY <1>1, <2>1 DEF AdvanceState, DerivedState
  <2> QED BY <1>1, <2>1, <2>2, <2>3 DEF e
<1>4. CASE r.operation = "CLAIM" /\ st.accepted = None /\ ClaimantMatchesCandidate(r)
  <2>1. d.type = "CLAIM_ACCEPTED" BY <1>4 DEF Decide, Decision
  <2>2. st.ended = None BY <1>4 DEF Legal, GenerationOpen
  <2>3. s.last = e /\ s.accepted = e /\ s.ended = None
      BY <1>1, <2>1, <2>2 DEF AdvanceState, DerivedState
  <2> QED BY <1>1, <1>4, <2>1, <2>2, <2>3 DEF e
<1>5. CASE r.operation = "CLAIM" /\ ~(st.accepted = None /\ ClaimantMatchesCandidate(r))
  <2>1. d.type = "CLAIM_REJECTED" BY <1>5 DEF Decide, Decision
  <2>2. s.last = e /\ s.accepted = st.accepted /\ s.ended = st.ended
      BY <1>1, <2>1 DEF AdvanceState, DerivedState
  <2> QED BY <1>1, <2>1, <2>2 DEF e
<1>6. CASE r.operation = "EXPIRE"
  <2>1. d.type = "CLAIM_EXPIRED" /\ d.causal = st.accepted.version
      BY <1>6 DEF Decide, Decision
  <2>2. st.accepted # None /\ r.at >= ExpiresAt(st.accepted)
      BY <1>6 DEF Legal, MayExpire, MayEnd
  <2>3. s.last = e /\ s.accepted = st.accepted
      BY <1>1, <2>1 DEF AdvanceState, DerivedState
  <2> QED BY <1>1, <2>1, <2>2, <2>3 DEF e
<1>7. CASE r.operation = "RELEASE"
  <2>1. d.type = "CLAIM_RELEASED" /\ d.causal = st.accepted.version
      BY <1>7 DEF Decide, Decision
  <2>2. st.accepted # None /\ Claimant(r) = Claimant(st.accepted.request)
      BY <1>7 DEF Legal, MayRelease, MayEnd
  <2>3. s.last = e /\ s.accepted = st.accepted
      BY <1>1, <2>1 DEF AdvanceState, DerivedState
  <2> QED BY <1>1, <2>1, <2>2, <2>3 DEF e
<1> QED BY <1>2, <1>3, <1>4, <1>5, <1>6, <1>7 DEF Operation

\* After the event of a legal request, a claim not held any more was ended.
LEMMA SettledExtends ==
    ASSUME NEW h \in Seq(ClaimEvent), NEW r \in Request, NEW st \in DerivedState,
           Sound(st), st.version = Len(h), Legal(r, st), Ordered(h), Settled(h, st)
    PROVE  LET e == BuildEvent(r, st, Len(h))
           IN  Settled(Append(h, e), AdvanceState(st, e))
<1> DEFINE n == Len(h)
           e == BuildEvent(r, st, n)
           k == Append(h, e)
           s == AdvanceState(st, e)
<1>1. n \in Nat OBVIOUS
<1>2. e \in ClaimEvent /\ e.request = r
    BY <1>1, BuildEventType, BuildEventFields
<1>3. /\ DOMAIN h = 1 .. n /\ DOMAIN k = 1 .. (n + 1) /\ k[n + 1] = e
      /\ \A i \in 1 .. n : k[i] = h[i] /\ h[i] \in ClaimEvent
    BY <1>2, Longer
<1>4. Accepted(k) = Accepted(h) \cup (IF e.type = "CLAIM_ACCEPTED" THEN {n + 1} ELSE {})
    BY <1>2, AcceptedExtends
<1>5. \A i, j \in DOMAIN h : Ends(k, j, i) <=> Ends(h, j, i)
    BY <1>2, EndsExtends
<1>6. Accepted(h) \subseteq DOMAIN h BY DEF Accepted
<1>7. \/ /\ e.type = "GENERATION_CREATED"
         /\ s.accepted = None
         /\ st.version = 0 \/ st.ended # None
      \/ /\ e.type = "CLAIM_ACCEPTED"
         /\ st.accepted = None /\ st.ended = None
         /\ s.accepted = e /\ s.ended = None
      \/ /\ e.type = "CLAIM_REJECTED"
         /\ s.accepted = st.accepted /\ s.ended = st.ended
      \/ /\ e.type \in {"CLAIM_EXPIRED", "CLAIM_RELEASED"}
         /\ st.accepted # None /\ e.causal = st.accepted.version
         /\ s.accepted = st.accepted
         /\ e.type = "CLAIM_EXPIRED" => r.at >= ExpiresAt(st.accepted)
         /\ e.type = "CLAIM_RELEASED" => Claimant(r) = Claimant(st.accepted.request)
    BY <1>1, DecisionOnClaim, Zenon
<1> SUFFICES Settled(k, s) OBVIOUS
<1> HIDE DEF n, e, k, s
<1>8. \A i \in Accepted(h) : (\E j \in DOMAIN h : i < j /\ Ends(h, j, i))
                                 => \E j \in DOMAIN k : i < j /\ Ends(k, j, i)
    BY <1>1, <1>3, <1>5, <1>6
<1>9. CASE e.type = "GENERATION_CREATED"
  <2>1. Accepted(k) = Accepted(h) /\ s.accepted = None BY <1>4, <1>7, <1>9
  <2>2. ASSUME NEW i \in Accepted(h) PROVE st.ended # None
    <3>1. st.version # 0 BY <1>1, <1>3, <1>6 DEF n
    <3> QED BY <3>1, <1>7, <1>9
  <2> QED BY <2>1, <2>2, <1>8 DEF Settled
<1>10. CASE e.type = "CLAIM_ACCEPTED"
  <2>1. Accepted(k) = Accepted(h) \cup {n + 1} /\ k[n + 1] = s.accepted /\ s.ended = None
      BY <1>3, <1>4, <1>7, <1>10
  <2>2. ASSUME NEW i \in Accepted(h) PROVE h[i] # st.accepted
    <3>1. st.accepted = None BY <1>7, <1>10
    <3>2. h[i] \in ClaimEvent BY <1>3, <1>6
    <3> QED BY <3>1, <3>2, NoneAssumption
  <2> QED BY <2>1, <2>2, <1>8 DEF Settled
<1>11. CASE e.type = "CLAIM_REJECTED"
  <2>1. Accepted(k) = Accepted(h) /\ s.accepted = st.accepted /\ s.ended = st.ended
      BY <1>4, <1>7, <1>11
  <2>2. \A i \in Accepted(h) : k[i] = h[i] BY <1>3, <1>6
  <2> QED BY <2>1, <2>2, <1>8 DEF Settled
<1>12. CASE e.type \in {"CLAIM_EXPIRED", "CLAIM_RELEASED"}
  <2>1. Accepted(k) = Accepted(h) /\ s.accepted = st.accepted BY <1>4, <1>7, <1>12
  <2>2. \A i \in Accepted(h) : k[i] = h[i] BY <1>3, <1>6
  <2>3. ASSUME NEW i \in Accepted(h), h[i] = st.accepted
        PROVE  i < n + 1 /\ n + 1 \in DOMAIN k /\ Ends(k, n + 1, i)
    <3>1. i < n + 1 /\ n + 1 \in DOMAIN k /\ k[i] = st.accepted /\ k[n + 1] = e
        BY <2>3, <2>2, <1>1, <1>3, <1>6
    <3> QED BY <3>1, <1>2, <1>7, <1>12 DEF Ends
  <2> QED BY <2>1, <2>2, <2>3, <1>8 DEF Settled
<1> QED BY <1>7, <1>9, <1>10, <1>11, <1>12

\* A claim is accepted only where every earlier one was ended.
LEMMA ExcludesExtends ==
    ASSUME NEW h \in Seq(ClaimEvent), NEW r \in Request, NEW st \in DerivedState,
           Sound(st), st.version = Len(h), Legal(r, st), Settled(h, st), Excludes(h),
           Ordered(Append(h, BuildEvent(r, st, Len(h))))
    PROVE  Excludes(Append(h, BuildEvent(r, st, Len(h))))
<1> DEFINE n == Len(h)
           e == BuildEvent(r, st, n)
           k == Append(h, e)
<1>1. n \in Nat OBVIOUS
<1>2. e \in ClaimEvent BY <1>1, BuildEventType
<1>3. /\ DOMAIN h = 1 .. n /\ DOMAIN k = 1 .. (n + 1) /\ k[n + 1] = e
      /\ \A i \in 1 .. n : k[i] = h[i] /\ h[i] \in ClaimEvent
    BY <1>2, Longer
<1>4. Accepted(k) = Accepted(h) \cup (IF e.type = "CLAIM_ACCEPTED" THEN {n + 1} ELSE {})
    BY <1>2, AcceptedExtends
<1>5. \A i, j \in DOMAIN h : Ends(k, j, i) <=> Ends(h, j, i)
    BY <1>2, EndsExtends
<1>6. Accepted(h) \subseteq 1 .. n BY <1>3 DEF Accepted
<1>7. e.type = "CLAIM_ACCEPTED" => st.accepted = None
    BY <1>1, DecisionOnClaim
<1>8. Ordered(k) OBVIOUS
<1> HIDE DEF n, e, k
<1> SUFFICES ASSUME NEW i \in Accepted(k), NEW j \in Accepted(k), i < j
             PROVE  \E m \in (i + 1) .. (j - 1) :
                       Ends(k, m, i) /\ k[m].request.at <= k[j].request.at
    BY DEF Excludes, k, e, n
<1>9. i \in Accepted(h) /\ i \in 1 .. n
    BY <1>1, <1>4, <1>6
<1>10. CASE j \in Accepted(h)
  <2>1. PICK m \in (i + 1) .. (j - 1) :
            Ends(h, m, i) /\ h[m].request.at <= h[j].request.at
      BY <1>9, <1>10 DEF Excludes
  <2>2. j \in 1 .. n /\ m \in 1 .. n BY <1>1, <1>6, <1>9, <1>10
  <2> QED BY <2>1, <2>2, <1>3, <1>5, <1>9
<1>11. CASE j \notin Accepted(h)
  <2>1. j = n + 1 /\ st.accepted = None BY <1>4, <1>7, <1>11
  <2>2. h[i] # st.accepted BY <2>1, <1>3, <1>9, NoneAssumption
  <2>3. PICK m \in DOMAIN h : i < m /\ Ends(h, m, i) BY <2>2, <1>9 DEF Settled
  <2>4. m \in (i + 1) .. (j - 1) /\ m <= j /\ m \in DOMAIN k /\ j \in DOMAIN k
      BY <2>1, <2>3, <1>1, <1>3, <1>9
  <2>5. k[m].request.at <= k[j].request.at BY <2>4, <1>8 DEF Ordered
  <2>6. Ends(k, m, i) BY <2>3, <1>3, <1>5, <1>9
  <2> QED BY <2>4, <2>5, <2>6
<1> QED BY <1>10, <1>11

\* The story of a history survives every event the policy decides on it.
LEMMA StoryExtends ==
    ASSUME NEW h \in Seq(ClaimEvent), NEW r \in Request,
           Sound(Replay(h)), Replay(h).version = Len(h), r.expected = Len(h),
           Legal(r, Replay(h)), Story(h, Replay(h))
    PROVE  LET k == Append(h, BuildEvent(r, Replay(h), Len(h)))
           IN  Story(k, Replay(k))
<1> DEFINE st == Replay(h)
           e == BuildEvent(r, st, Len(h))
           k == Append(h, e)
<1>1. st \in DerivedState /\ Len(h) \in Nat BY ReplayType
<1>2. Replay(k) = AdvanceState(st, e) BY ReplayExtends
<1> HIDE DEF st
<1>3. /\ Sound(st) /\ st.version = Len(h) /\ Legal(r, st)
      /\ Ordered(h) /\ Follows(h, st) /\ Settled(h, st) /\ Excludes(h)
    BY DEF st, Story
<1>4. e \in ClaimEvent /\ e.request = r /\ e.version = Len(h) + 1
    BY <1>1, <1>3, BuildEventType, BuildEventFields
<1>5. Ordered(k)
  <2>1. InOrder(e.request, st) BY <1>3, <1>4 DEF Legal
  <2> HIDE DEF e
  <2> QED BY <1>1, <1>3, <1>4, <2>1, OrderedExtends
<1>6. Follows(k, AdvanceState(st, e))
  <2>1. AdvanceState(st, e).last = e BY <1>1, <1>3, DecisionOnClaim
  <2> HIDE DEF e
  <2>2. k # <<>> /\ k[Len(k)] = e BY <1>4, Longer
  <2> QED BY <2>1, <2>2 DEF Follows
<1>7. Settled(k, AdvanceState(st, e)) BY <1>1, <1>3, SettledExtends
<1>8. Excludes(k) BY <1>1, <1>3, <1>5, ExcludesExtends
<1> QED BY <1>2, <1>5, <1>6, <1>7, <1>8 DEF Story, st

-----------------------------------------------------------------------------
(* The theorem                                                              *)

Stories == \A l \in Lineages : Story(streams[l], Replay(streams[l]))

\* A lineage without events has nothing to answer for.
LEMMA StoriesInit == Init => Stories
<1>1. DOMAIN <<>> = {} OBVIOUS
<1>2. Accepted(<<>>) = {} BY <1>1 DEF Accepted
<1>3. Story(<<>>, EmptyState)
    BY <1>1, <1>2 DEF Story, Ordered, Follows, Settled, Excludes, EmptyState
<1> QED BY <1>3, ReplayEmpty DEF Init, Stories

\* What a commit does to its lineage: it appends what the policy decides from
\* the history it extends, and no other lineage changes.
LEMMA CommitDecided ==
    ASSUME TypeInv, ReplayInv, NEW c \in Callers, AppendEvent(c)
    PROVE  \E l \in Lineages, r \in Request :
              LET h == streams[l]
              IN  /\ r = call[c].request
                  /\ h \in Seq(ClaimEvent)
                  /\ Sound(Replay(h)) /\ Replay(h).version = Len(h)
                  /\ r.expected = Len(h) /\ Legal(r, Replay(h))
                  /\ streams'[l] = Append(h, BuildEvent(r, Replay(h), Len(h)))
                  /\ \A m \in Lineages : m # l => streams'[m] = streams[m]
<1> DEFINE e == call[c].event
           r == e.request
           l == r.lineage
           h == streams[l]
<1>1. /\ e \in ClaimEvent /\ r \in Request /\ l \in Lineages /\ r = call[c].request
      /\ r.expected = Len(h)
      /\ streams' = [streams EXCEPT ![l] = Append(@, e)]
    BY CommitEffect
<1>2. call[c].pc = "append" /\ Decided(call[c], streams, retained)
    BY DEF AppendEvent, ReplayInv
<1>3. h \in Seq(ClaimEvent) /\ Replays(h, retained)
    BY <1>1 DEF TypeInv, TypeOK, ReplayInv
<1>4. Legal(r, Replay(h)) /\ e = BuildEvent(r, Replay(h), Len(h))
  <2>1. Len(h) <= Len(h) BY <1>3
  <2> QED BY <1>1, <1>2, <2>1 DEF Decided
<1>5. streams'[l] = Append(h, e) /\ \A m \in Lineages : m # l => streams'[m] = streams[m]
    BY <1>1 DEF TypeInv, TypeOK
<1>6. streams'[l] = Append(h, BuildEvent(r, Replay(h), Len(h))) BY <1>4, <1>5
<1> HIDE DEF e, r, l
<1> QED BY <1>1, <1>3, <1>4, <1>5, <1>6 DEF Replays

\* A commit continues the story of its lineage.
LEMMA StoriesCommit ==
    ASSUME TypeInv, ReplayInv, Stories, NEW c \in Callers, AppendEvent(c)
    PROVE  Stories'
<1>1. PICK l \in Lineages, r \in Request :
          /\ streams[l] \in Seq(ClaimEvent)
          /\ Sound(Replay(streams[l])) /\ Replay(streams[l]).version = Len(streams[l])
          /\ r.expected = Len(streams[l]) /\ Legal(r, Replay(streams[l]))
          /\ streams'[l] = Append(streams[l], BuildEvent(r, Replay(streams[l]), Len(streams[l])))
          /\ \A m \in Lineages : m # l => streams'[m] = streams[m]
    BY CommitDecided
<1>2. Story(streams[l], Replay(streams[l])) BY DEF Stories
<1>3. Story(streams'[l], Replay(streams'[l])) BY <1>1, <1>2, StoryExtends
<1> QED BY <1>1, <1>3 DEF Stories

\* So does every step of the service.
LEMMA StoriesNext == TypeInv /\ ReplayInv /\ Stories /\ [Next]_vars => Stories'
<1> SUFFICES ASSUME TypeInv, ReplayInv, Stories, [Next]_vars PROVE Stories' OBVIOUS
<1>1. CASE UNCHANGED <<streams, byId, idempotency, current>>
    BY <1>1 DEF Stories
<1> QED BY <1>1, RepositoryStep, StoriesCommit

\* Exclusive bounded acceptance: however the threads interleave, whatever they
\* decided from a stale history, a work item is claimed again only after its
\* claim was released by its holder or ran out of time.
THEOREM ExclusiveAcceptance == Spec => []ClaimsExclude
<1>1. Stories => ClaimsExclude
    BY DEF Stories, Story, Excludes, ClaimsExclude
<1> QED BY <1>1, TypeInit, TypeNext, IndexesInit, IndexesNext, ReplayInit, ReplayNext,
           StoriesInit, StoriesNext, PTL DEF Spec

-----------------------------------------------------------------------------
(* Answers                                                                  *)

\* An answer one thread is given takes nothing from what another was told.
LEMMA AnswerOfOne ==
    ASSUME TypeInv, AnswersAreCommitted, NEW c \in Callers, NEW event,
           NEW outcome, outcome # "Created", Answer(c, outcome, event),
           byId' = byId,
           outcome = "ExistingEquivalent" =>
              /\ event \in byId
              /\ Identity(event.request) = Identity(call[c].request)
              /\ Input(event.request) = Input(call[c].request)
    PROVE  AnswersAreCommitted'
<1>1. \A d \in Callers : call'[d] = IF d = c THEN Frame("done", call[c].request, event, outcome)
                                             ELSE call[d]
    BY DEF Answer, TypeInv, TypeOK
<1>2. /\ call'[c].outcome = outcome /\ call'[c].event = event
      /\ call'[c].request = call[c].request
    BY <1>1 DEF Frame
<1>3. \A d \in Callers : d # c => call'[d] = call[d] BY <1>1
<1> QED BY <1>2, <1>3 DEF AnswersAreCommitted

\* A frame without an outcome takes nothing from what anyone was told.
LEMMA FrameWithoutAnswer ==
    ASSUME TypeInv, AnswersAreCommitted, NEW c \in Callers, NEW frame,
           frame.outcome \notin {"Created", "ExistingEquivalent"},
           call' = [call EXCEPT ![c] = frame], byId' = byId
    PROVE  AnswersAreCommitted'
<1>1. call'[c] = frame /\ \A d \in Callers : d # c => call'[d] = call[d]
    BY DEF TypeInv, TypeOK
<1> QED BY <1>1 DEF AnswersAreCommitted

\* The prior record under an identity is committed, and is of that identity.
LEMMA PriorCommitted ==
    ASSUME TypeInv, IndexesAgree, NEW r \in Request, idempotency[Identity(r)] # None
    PROVE  LET prior == idempotency[Identity(r)]
           IN  prior \in byId /\ Identity(prior.request) = Identity(r)
BY IdentityType DEF IndexesAgree

\* The first commit of an event: its caller alone is told it created it.
LEMMA AnswersCommit ==
    ASSUME TypeInv, AnswersAreCommitted, NEW c \in Callers, AppendEvent(c)
    PROVE  AnswersAreCommitted'
<1> DEFINE e == call[c].event
<1>1. /\ e \notin byId /\ byId' = byId \cup {e}
      /\ call' = [call EXCEPT ![c] = Frame("done", e.request, e, "Created")]
    BY CommitEffect
<1>2. /\ call'[c].outcome = "Created" /\ call'[c].event = e
      /\ call'[c].request = e.request
      /\ \A d \in Callers : d # c => call'[d] = call[d]
    BY <1>1 DEF Frame, TypeInv, TypeOK
<1> HIDE DEF e
<1>3. ASSUME NEW d \in Callers, call'[d].outcome \in {"Created", "ExistingEquivalent"}
      PROVE  /\ call'[d].event \in byId'
             /\ Identity(call'[d].event.request) = Identity(call'[d].request)
             /\ Input(call'[d].event.request) = Input(call'[d].request)
    BY <1>1, <1>2, <1>3 DEF AnswersAreCommitted
<1>4. ASSUME NEW b \in Callers, NEW d \in Callers, b # d,
             call'[b].outcome = "Created", call'[d].outcome = "Created"
      PROVE  call'[b].event # call'[d].event
  <2>1. \A a \in Callers : a # c /\ call'[a].outcome = "Created" => call'[a].event \in byId
      BY <1>2 DEF AnswersAreCommitted
  <2>2. CASE b # c /\ d # c BY <2>2, <1>2, <1>4 DEF AnswersAreCommitted
  <2> QED BY <1>1, <1>2, <1>4, <2>1, <2>2
<1> QED BY <1>3, <1>4 DEF AnswersAreCommitted

\* So does every other step of the service.
LEMMA AnswersNext ==
    TypeInv /\ IndexesAgree /\ AnswersAreCommitted /\ [Next]_vars => AnswersAreCommitted'
<1> SUFFICES ASSUME TypeInv, IndexesAgree, AnswersAreCommitted, [Next]_vars
             PROVE  AnswersAreCommitted'
    OBVIOUS
<1>1. ASSUME NEW a \in Dispatches \cup Evidence, Retain(a) PROVE AnswersAreCommitted'
    BY <1>1 DEF Retain, AnswersAreCommitted
<1>2. ASSUME NEW c \in Callers, NEW r \in Requests, Submit(c, r)
      PROVE  AnswersAreCommitted'
  <2>1. PICK frame \in {Frame("done", r, None, "EvidenceUnavailable"),
                        Frame("done", r, None, "Invalid"), Frame("lookup", r, None, None)} :
            call' = [call EXCEPT ![c] = frame]
      BY <1>2 DEF Submit
  <2>2. frame.outcome \notin {"Created", "ExistingEquivalent"}
      BY OutcomeAssumption DEF Frame, Outcome
  <2> QED BY <1>2, <2>1, <2>2, FrameWithoutAnswer DEF Submit
<1>3. ASSUME NEW c \in Callers, NEW e \in byId, Reconstruct(c, e) PROVE AnswersAreCommitted'
  <2>1. Frame("rebuild", None, e, None).outcome \notin {"Created", "ExistingEquivalent"}
      BY OutcomeAssumption DEF Frame, Outcome
  <2> QED BY <1>3, <2>1, FrameWithoutAnswer DEF Reconstruct
<1>4. ASSUME NEW c \in Callers, IdempotentLookup(c) PROVE AnswersAreCommitted'
  <2> DEFINE r == call[c].request
             prior == idempotency[Identity(r)]
  <2>1. r \in Request /\ byId' = byId BY <1>4 DEF IdempotentLookup, TypeInv, InFlight
  <2>2. CASE call' = [call EXCEPT ![c] = Frame("load", r, None, None)]
    <3>1. Frame("load", r, None, None).outcome \notin {"Created", "ExistingEquivalent"}
        BY OutcomeAssumption DEF Frame, Outcome
    <3> QED BY <2>1, <2>2, <3>1, FrameWithoutAnswer
  <2>3. CASE prior # None /\ Input(prior.request) = Input(r)
             /\ Answer(c, "ExistingEquivalent", prior)
    <3>1. prior \in byId /\ Identity(prior.request) = Identity(r)
        BY <2>1, <2>3, PriorCommitted
    <3> QED BY <2>1, <2>3, <3>1, AnswerOfOne
  <2>4. CASE Answer(c, "IdempotencyConflict", None) BY <2>1, <2>4, AnswerOfOne
  <2> QED BY <1>4, <2>2, <2>3, <2>4 DEF IdempotentLookup
<1>5. ASSUME NEW c \in Callers, LoadHistory(c) PROVE AnswersAreCommitted'
  <2>1. byId' = byId BY <1>5 DEF LoadHistory
  <2>2. ASSUME NEW e, call' = [call EXCEPT ![c] = Frame("append", call[c].request, e, None)]
        PROVE  AnswersAreCommitted'
    <3>1. Frame("append", call[c].request, e, None).outcome
              \notin {"Created", "ExistingEquivalent"}
        BY OutcomeAssumption DEF Frame, Outcome
    <3> QED BY <2>1, <2>2, <3>1, FrameWithoutAnswer
  <2>3. \A outcome \in {"VersionConflict", "ReplayFailed", "IllegalTransition"} :
            Answer(c, outcome, None) => AnswersAreCommitted'
      BY <2>1, AnswerOfOne
  <2> QED BY <1>5, <2>2, <2>3 DEF LoadHistory
<1>6. ASSUME NEW c \in Callers, CommitFails(c) PROVE AnswersAreCommitted'
    BY <1>6, AnswerOfOne DEF CommitFails
<1>7. ASSUME NEW c \in Callers, AppendLoses(c) PROVE AnswersAreCommitted'
  <2> DEFINE r == call[c].request
             prior == idempotency[Identity(r)]
  <2>1. r \in Request /\ call[c].event.request = r /\ byId' = byId
      BY <1>7 DEF AppendLoses, TypeInv, InFlight
  <2>2. CASE prior # None /\ Input(prior.request) = Input(r)
             /\ Answer(c, "ExistingEquivalent", prior)
    <3>1. prior \in byId /\ Identity(prior.request) = Identity(r)
        BY <2>1, <2>2, PriorCommitted
    <3> QED BY <2>1, <2>2, <3>1, AnswerOfOne
  <2>3. \A outcome \in {"IdempotencyConflict", "VersionConflict"} :
            Answer(c, outcome, None) => AnswersAreCommitted'
      BY <2>1, AnswerOfOne
  <2> QED BY <1>7, <2>1, <2>2, <2>3 DEF AppendLoses
<1>8. ASSUME NEW c \in Callers, Rebuild(c) PROVE AnswersAreCommitted'
  <2>1. byId' = byId BY <1>8 DEF Rebuild
  <2>2. \A outcome \in {"ReplayFailed", "Reconstructed", "ReconstructionFailed"} :
            \A e : Answer(c, outcome, e) => AnswersAreCommitted'
      BY <2>1, AnswerOfOne
  <2> QED BY <1>8, <2>2 DEF Rebuild
<1>9. ASSUME NEW c \in Callers, Return(c) PROVE AnswersAreCommitted'
  <2>1. Idle.outcome \notin {"Created", "ExistingEquivalent"}
      BY OutcomeAssumption DEF Idle, Frame, Outcome
  <2> QED BY <1>9, <2>1, FrameWithoutAnswer DEF Return
<1>10. CASE UNCHANGED vars BY <1>10 DEF vars, AnswersAreCommitted
<1> QED BY <1>1, <1>2, <1>3, <1>4, <1>5, <1>6, <1>7, <1>8, <1>9, <1>10, AnswersCommit
        DEF Next, CallStep

\* What evaluate answers is committed, answers what its caller asked, and is
\* never reported as created to two callers.
THEOREM AnswersStayTrue == Spec => []AnswersAreCommitted
<1>1. Init => AnswersAreCommitted
    BY OutcomeAssumption DEF Init, AnswersAreCommitted, Idle, Frame, Outcome
<1> QED BY <1>1, TypeInit, TypeNext, IndexesInit, IndexesNext, AnswersNext, PTL DEF Spec

-----------------------------------------------------------------------------
(* Append-only history                                                      *)

\* A commit extends one lineage by one event, under an identity nobody used.
LEMMA CommitAppends ==
    ASSUME TypeInv, NEW c \in Callers, AppendEvent(c)
    PROVE  /\ \A l \in Lineages :
                 streams'[l] = streams[l]
                 \/ \E e \in byId' : streams'[l] = Append(streams[l], e)
           /\ Cardinality(byId' \ byId) <= 1
           /\ retained \subseteq retained'
           /\ \A i \in Identities :
                 idempotency[i] # None => idempotency'[i] = idempotency[i]
<1> DEFINE e == call[c].event
           l == e.request.lineage
           i == Identity(e.request)
<1>1. /\ l \in Lineages /\ i \in Identities
      /\ idempotency[i] = None /\ e \notin byId
      /\ streams' = [streams EXCEPT ![l] = Append(@, e)]
      /\ byId' = byId \cup {e}
      /\ idempotency' = [idempotency EXCEPT ![i] = e]
      /\ retained' = retained
    BY CommitEffect
<1>2. streams \in [Lineages -> Seq(ClaimEvent)]
      /\ idempotency \in [Identities -> ClaimEvent \cup {None}]
    BY DEF TypeInv, TypeOK
<1> HIDE DEF e, l, i
<1>3. Cardinality(byId' \ byId) <= 1
  <2>1. byId' \ byId = {e} BY <1>1
  <2>2. Cardinality({e}) = 1 BY FS_Singleton, Zenon
  <2>3. Cardinality(byId' \ byId) = 1 BY <2>1, <2>2, Zenon
  <2> QED BY <2>3
<1>4. \A m \in Lineages : streams'[m] = IF m = l THEN Append(streams[m], e) ELSE streams[m]
    BY <1>1, <1>2
<1> QED BY <1>1, <1>2, <1>3, <1>4

\* No step replaces what another caller may already have been given.
THEOREM HistoryAppendOnly == Spec => AppendOnly
<1> DEFINE A == /\ \A l \in Lineages :
                      streams'[l] = streams[l]
                      \/ \E e \in byId' : streams'[l] = Append(streams[l], e)
                /\ Cardinality(byId' \ byId) <= 1
                /\ retained \subseteq retained'
                /\ \A i \in Identities :
                      idempotency[i] # None => idempotency'[i] = idempotency[i]
<1>1. ASSUME TypeInv, [Next]_vars PROVE [A]_vars
  <2>1. CASE UNCHANGED <<streams, byId, idempotency, current>>
    <3>1. retained \subseteq retained'
        BY <1>1 DEF Next, CallStep, vars, Retain, Submit, IdempotentLookup, LoadHistory,
                    AppendEvent, CommitFails, AppendLoses, Reconstruct, Rebuild, Return
    <3>2. byId' \ byId = {} BY <2>1
    <3> QED BY <2>1, <3>1, <3>2, FS_EmptySet
  <2>2. CASE \E c \in Callers : AppendEvent(c) BY <1>1, <2>2, CommitAppends
  <2> QED BY <1>1, <2>1, <2>2, RepositoryStep
<1> HIDE DEF A
<1>2. (TypeInv /\ [Next]_vars) => [A]_vars BY <1>1
<1>3. Spec => [][A]_vars BY <1>2, TypeInit, TypeNext, PTL DEF Spec
<1> QED BY <1>3 DEF AppendOnly, A

-----------------------------------------------------------------------------
(* Fences and generations count                                             *)

\* The counters the decision and the advance carry from event to event.
LEMMA DecisionCounts ==
    ASSUME NEW r \in Request, NEW st \in DerivedState, NEW v \in Nat,
           Sound(st), Legal(r, st)
    PROVE  LET e == BuildEvent(r, st, v)
               s == AdvanceState(st, e)
           IN  \/ /\ e.type = "GENERATION_CREATED"
                  /\ e.generation = st.generation + 1 /\ e.fence = 0
                  /\ s.generation = st.generation + 1 /\ s.fence = st.fence
                  /\ s.ended = None
                  /\ st.version # 0 => st.ended # None /\ e.causal = st.ended.version
               \/ /\ e.type = "CLAIM_ACCEPTED"
                  /\ e.generation = st.generation /\ e.fence = st.fence + 1
                  /\ s.generation = st.generation /\ s.fence = st.fence + 1
                  /\ s.ended = None
               \/ /\ e.type = "CLAIM_REJECTED"
                  /\ e.generation = st.generation /\ e.fence = 0
                  /\ s.generation = st.generation /\ s.fence = st.fence
                  /\ s.ended = None
               \/ /\ e.type \in {"CLAIM_EXPIRED", "CLAIM_RELEASED"}
                  /\ e.generation = st.generation /\ e.fence = 0
                  /\ s.generation = st.generation /\ s.fence = st.fence
                  /\ s.ended = e
<1> DEFINE e == BuildEvent(r, st, v)
           d == Decide(r, st)
           s == AdvanceState(st, e)
<1>1. /\ e.type = d.type /\ e.causal = d.causal
      /\ e.generation = d.generation /\ e.fence = d.fence
    BY DEF BuildEvent
<1>2. r.operation \in Operation BY DEF Request
<1> HIDE DEF e
<1>3. CASE r.operation = "CREATE_GENERATION"
  <2>1. d.type = "GENERATION_CREATED" /\ d.fence = 0 BY <1>3 DEF Decide, Decision
  <2>2. d.generation = st.generation + 1 BY <1>3 DEF Decide, Decision, Sound
  <2>3. st.version # 0 => st.ended # None /\ d.causal = st.ended.version
      BY <1>3 DEF Decide, Decision, Legal, MayCreate
  <2>4. s.generation = e.generation /\ s.fence = st.fence /\ s.ended = None
      BY <1>1, <2>1 DEF AdvanceState, DerivedState
  <2> QED BY <1>1, <2>1, <2>2, <2>3, <2>4 DEF e
<1>4. CASE r.operation = "CLAIM" /\ st.accepted = None /\ ClaimantMatchesCandidate(r)
  <2>1. d.type = "CLAIM_ACCEPTED" /\ d.generation = st.generation /\ d.fence = st.fence + 1
      BY <1>4 DEF Decide, Decision
  <2>2. st.ended = None BY <1>4 DEF Legal, GenerationOpen
  <2>3. s.generation = st.generation /\ s.fence = e.fence /\ s.ended = None
      BY <1>1, <2>1, <2>2 DEF AdvanceState, DerivedState
  <2> QED BY <1>1, <2>1, <2>3 DEF e
<1>5. CASE r.operation = "CLAIM" /\ ~(st.accepted = None /\ ClaimantMatchesCandidate(r))
  <2>1. d.type = "CLAIM_REJECTED" /\ d.generation = st.generation /\ d.fence = 0
      BY <1>5 DEF Decide, Decision
  <2>2. st.ended = None BY <1>5 DEF Legal, GenerationOpen
  <2>3. s.generation = st.generation /\ s.fence = st.fence /\ s.ended = None
      BY <1>1, <2>1, <2>2 DEF AdvanceState, DerivedState
  <2> QED BY <1>1, <2>1, <2>3 DEF e
<1>6. CASE r.operation \in {"EXPIRE", "RELEASE"}
  <2>1. /\ d.type \in {"CLAIM_EXPIRED", "CLAIM_RELEASED"}
        /\ d.generation = st.generation /\ d.fence = 0
      BY <1>6 DEF Decide, Decision
  <2>2. s.generation = st.generation /\ s.fence = st.fence /\ s.ended = e
      BY <1>1, <2>1 DEF AdvanceState, DerivedState
  <2> QED BY <1>1, <2>1, <2>2 DEF e
<1> QED BY <1>2, <1>3, <1>4, <1>5, <1>6 DEF Operation

\* The positions, up to the n-th, of a history's generation events.
Openings(h, n) == {i \in 1 .. n : h[i].type = "GENERATION_CREATED"}

Counted(h, st) ==
    /\ st.fence = Cardinality(Accepted(h))
    /\ st.generation = Cardinality(Openings(h, Len(h)))
    /\ st.ended # None =>
          /\ h # <<>> /\ st.ended = h[Len(h)]
          /\ st.ended.type \in {"CLAIM_EXPIRED", "CLAIM_RELEASED"}

Fenced(h) ==
    \A j \in DOMAIN h :
       h[j].fence = IF j \in Accepted(h)
                    THEN Cardinality({i \in Accepted(h) : i <= j}) ELSE 0

Chained(h) ==
    \A j \in DOMAIN h :
       /\ h[j].generation = Cardinality(Openings(h, j))
       /\ h[j].type = "GENERATION_CREATED" /\ j > 1 =>
             /\ h[j].causal = j - 1
             /\ h[j - 1].type \in {"CLAIM_EXPIRED", "CLAIM_RELEASED"}

\* The openings of a history one event longer.
LEMMA OpeningsExtend ==
    ASSUME NEW h \in Seq(ClaimEvent), NEW e \in ClaimEvent
    PROVE  /\ \A j \in 0 .. Len(h) : Openings(Append(h, e), j) = Openings(h, j)
           /\ Cardinality(Openings(Append(h, e), Len(h) + 1)) =
                 Cardinality(Openings(h, Len(h)))
                    + (IF e.type = "GENERATION_CREATED" THEN 1 ELSE 0)
<1> DEFINE k == Append(h, e)
           n == Len(h)
<1>1. /\ n \in Nat /\ k[n + 1] = e /\ \A i \in 1 .. n : k[i] = h[i]
    BY Longer
<1> HIDE DEF k, n
<1>2. \A j \in 0 .. n : Openings(k, j) = Openings(h, j)
    BY <1>1 DEF Openings
<1>3. Openings(h, n) \in SUBSET (1 .. n) BY DEF Openings
<1>4. Cardinality(Openings(h, n)) \in Nat
      /\ Cardinality(Openings(h, n) \cup {n + 1}) = Cardinality(Openings(h, n)) + 1
    BY <1>1, <1>3, CountOne
<1>5. CASE e.type = "GENERATION_CREATED"
  <2>1. Openings(k, n + 1) = Openings(h, n) \cup {n + 1} BY <1>1, <1>5 DEF Openings
  <2> QED BY <1>2, <1>4, <1>5, <2>1 DEF k, n
<1>6. CASE e.type # "GENERATION_CREATED"
  <2>1. Openings(k, n + 1) = Openings(h, n)
    <3>1. \A i \in 1 .. (n + 1) : i \in 1 .. n \/ i = n + 1 BY <1>1
    <3>2. \A i \in 1 .. n : i \in 1 .. (n + 1) BY <1>1
    <3> QED BY <1>1, <1>6, <3>1, <3>2 DEF Openings
  <2> QED BY <1>2, <1>4, <1>6, <2>1 DEF k, n
<1> QED BY <1>5, <1>6

\* The counters of the derived state keep counting.
LEMMA CountedExtends ==
    ASSUME NEW h \in Seq(ClaimEvent), NEW r \in Request, NEW st \in DerivedState,
           Sound(st), Legal(r, st), Counted(h, st)
    PROVE  LET e == BuildEvent(r, st, Len(h))
           IN  Counted(Append(h, e), AdvanceState(st, e))
<1> DEFINE n == Len(h)
           e == BuildEvent(r, st, n)
           k == Append(h, e)
           s == AdvanceState(st, e)
<1>1. n \in Nat OBVIOUS
<1>2. e \in ClaimEvent BY <1>1, BuildEventType
<1>3. /\ k[n + 1] = e /\ Len(k) = n + 1 /\ k # <<>> /\ DOMAIN h = 1 .. n
    BY <1>2, Longer
<1>4. Accepted(k) = Accepted(h) \cup (IF e.type = "CLAIM_ACCEPTED" THEN {n + 1} ELSE {})
    BY <1>2, AcceptedExtends
<1>5. Cardinality(Openings(k, n + 1)) =
         Cardinality(Openings(h, n)) + (IF e.type = "GENERATION_CREATED" THEN 1 ELSE 0)
    BY <1>2, OpeningsExtend
<1>6. \/ /\ e.type = "GENERATION_CREATED"
         /\ s.generation = st.generation + 1 /\ s.fence = st.fence /\ s.ended = None
      \/ /\ e.type = "CLAIM_ACCEPTED"
         /\ s.generation = st.generation /\ s.fence = st.fence + 1 /\ s.ended = None
      \/ /\ e.type = "CLAIM_REJECTED"
         /\ s.generation = st.generation /\ s.fence = st.fence /\ s.ended = None
      \/ /\ e.type \in {"CLAIM_EXPIRED", "CLAIM_RELEASED"}
         /\ s.generation = st.generation /\ s.fence = st.fence /\ s.ended = e
    BY <1>1, DecisionCounts, Zenon
<1>7. st.generation \in Nat /\ st.fence \in Nat BY DEF DerivedState
<1> SUFFICES Counted(k, s) OBVIOUS
<1> HIDE DEF n, e, k, s
<1>8. s.fence = Cardinality(Accepted(k))
  <2>1. Accepted(h) \in SUBSET (1 .. n) BY <1>3 DEF Accepted
  <2>2. Cardinality(Accepted(h) \cup {n + 1}) = Cardinality(Accepted(h)) + 1
      BY <1>1, <2>1, CountOne
  <2>3. Accepted(h) \cup {} = Accepted(h) OBVIOUS
  <2> QED BY <1>4, <1>6, <2>2, <2>3 DEF Counted
<1>9. s.generation = Cardinality(Openings(k, Len(k)))
    BY <1>3, <1>5, <1>6, <1>7 DEF Counted, n
<1>10. s.ended # None =>
          /\ k # <<>> /\ s.ended = k[Len(k)]
          /\ s.ended.type \in {"CLAIM_EXPIRED", "CLAIM_RELEASED"}
    BY <1>3, <1>6
<1> QED BY <1>8, <1>9, <1>10 DEF Counted

\* The event decided next carries the next fence, if it is an acceptance.
LEMMA FencedExtends ==
    ASSUME NEW h \in Seq(ClaimEvent), NEW r \in Request, NEW st \in DerivedState,
           Sound(st), Legal(r, st), Counted(h, st), Fenced(h)
    PROVE  Fenced(Append(h, BuildEvent(r, st, Len(h))))
<1> DEFINE n == Len(h)
           e == BuildEvent(r, st, n)
           k == Append(h, e)
<1>1. n \in Nat OBVIOUS
<1>2. e \in ClaimEvent BY <1>1, BuildEventType
<1>3. /\ DOMAIN h = 1 .. n /\ DOMAIN k = 1 .. (n + 1) /\ k[n + 1] = e
      /\ \A i \in 1 .. n : k[i] = h[i]
    BY <1>2, Longer
<1>4. Accepted(k) = Accepted(h) \cup (IF e.type = "CLAIM_ACCEPTED" THEN {n + 1} ELSE {})
    BY <1>2, AcceptedExtends
<1>5. e.fence = IF e.type = "CLAIM_ACCEPTED" THEN st.fence + 1 ELSE 0
    BY <1>1, DecisionCounts
<1> HIDE DEF n, e, k
<1> SUFFICES ASSUME NEW j \in DOMAIN k
             PROVE  k[j].fence = IF j \in Accepted(k)
                                 THEN Cardinality({i \in Accepted(k) : i <= j}) ELSE 0
    BY DEF Fenced, k, e, n
<1>6. Accepted(h) \in SUBSET (1 .. n) BY <1>3 DEF Accepted
<1>7. CASE j \in 1 .. n
  <2>1. j \in Accepted(k) <=> j \in Accepted(h) BY <1>1, <1>4, <1>7
  <2>2. {i \in Accepted(k) : i <= j} = {i \in Accepted(h) : i <= j}
      BY <1>1, <1>4, <1>6, <1>7
  <2>3. h[j].fence = IF j \in Accepted(h)
                     THEN Cardinality({i \in Accepted(h) : i <= j}) ELSE 0
      BY <1>3, <1>7 DEF Fenced
  <2> QED BY <1>3, <1>7, <2>1, <2>2, <2>3
<1>8. CASE j = n + 1 /\ e.type = "CLAIM_ACCEPTED"
  <2>1. j \in Accepted(k) BY <1>4, <1>8
  <2>2. {i \in Accepted(k) : i <= j} = Accepted(h) \cup {n + 1}
      BY <1>1, <1>4, <1>6, <1>8
  <2>3. Cardinality(Accepted(h) \cup {n + 1}) = Cardinality(Accepted(h)) + 1
      BY <1>1, <1>6, CountOne
  <2>4. k[j].fence = Cardinality(Accepted(h)) + 1 BY <1>3, <1>5, <1>8 DEF Counted
  <2> QED BY <2>1, <2>2, <2>3, <2>4
<1>9. CASE j = n + 1 /\ e.type # "CLAIM_ACCEPTED"
  <2>1. j \notin Accepted(k) BY <1>1, <1>4, <1>6, <1>9
  <2> QED BY <1>3, <1>5, <1>9, <2>1
<1> QED BY <1>1, <1>3, <1>7, <1>8, <1>9

\* The event decided next is of the generation the openings count to, and a
\* new generation is caused by the event just before it.
LEMMA ChainedExtends ==
    ASSUME NEW h \in Seq(ClaimEvent), NEW r \in Request, NEW st \in DerivedState,
           Sound(st), st.version = Len(h), Legal(r, st), Ordered(h), Counted(h, st),
           Chained(h)
    PROVE  Chained(Append(h, BuildEvent(r, st, Len(h))))
<1> DEFINE n == Len(h)
           e == BuildEvent(r, st, n)
           k == Append(h, e)
<1>1. n \in Nat OBVIOUS
<1>2. e \in ClaimEvent BY <1>1, BuildEventType
<1>3. /\ DOMAIN h = 1 .. n /\ DOMAIN k = 1 .. (n + 1) /\ k[n + 1] = e
      /\ \A i \in 1 .. n : k[i] = h[i]
    BY <1>2, Longer
<1>4. /\ \A j \in 0 .. n : Openings(k, j) = Openings(h, j)
      /\ Cardinality(Openings(k, n + 1)) =
            Cardinality(Openings(h, n)) + (IF e.type = "GENERATION_CREATED" THEN 1 ELSE 0)
    BY <1>2, OpeningsExtend
<1>5. /\ e.generation = st.generation
                           + (IF e.type = "GENERATION_CREATED" THEN 1 ELSE 0)
      /\ e.type = "GENERATION_CREATED" /\ st.version # 0 =>
            st.ended # None /\ e.causal = st.ended.version
  <2>1. st.generation \in Nat BY DEF DerivedState
  <2> QED BY <1>1, <2>1, DecisionCounts
<1>6. st.version = n OBVIOUS
<1> HIDE DEF n, e, k
<1> SUFFICES ASSUME NEW j \in DOMAIN k
             PROVE  /\ k[j].generation = Cardinality(Openings(k, j))
                    /\ k[j].type = "GENERATION_CREATED" /\ j > 1 =>
                          /\ k[j].causal = j - 1
                          /\ k[j - 1].type \in {"CLAIM_EXPIRED", "CLAIM_RELEASED"}
    BY DEF Chained, k, e, n
<1>7. CASE j \in 1 .. n
  <2>1. Openings(k, j) = Openings(h, j) BY <1>1, <1>4, <1>7
  <2>2. j > 1 => j - 1 \in 1 .. n BY <1>1, <1>7
  <2> QED BY <2>1, <2>2, <1>3, <1>7 DEF Chained
<1>8. CASE j = n + 1
  <2>1. k[j].generation = Cardinality(Openings(k, j))
      BY <1>3, <1>4, <1>5, <1>8 DEF Counted, n
  <2>2. ASSUME k[j].type = "GENERATION_CREATED", j > 1
        PROVE  /\ k[j].causal = j - 1
               /\ k[j - 1].type \in {"CLAIM_EXPIRED", "CLAIM_RELEASED"}
    <3>1. n # 0 /\ n \in 1 .. n /\ j - 1 = n BY <1>1, <1>8, <2>2
    <3>2. e.type = "GENERATION_CREATED" /\ k[j] = e BY <1>3, <1>8, <2>2
    <3>3. st.ended # None /\ e.causal = st.ended.version BY <1>5, <1>6, <3>1, <3>2
    <3>4. st.ended = h[n] /\ h[n].type \in {"CLAIM_EXPIRED", "CLAIM_RELEASED"}
        BY <3>3 DEF Counted, n
    <3>5. h[n].version = n /\ k[n] = h[n] BY <1>3, <3>1 DEF Ordered
    <3> QED BY <3>1, <3>2, <3>3, <3>4, <3>5
  <2> QED BY <2>1, <2>2
<1> QED BY <1>1, <1>3, <1>7, <1>8

Counts == \A l \in Lineages :
             /\ Counted(streams[l], Replay(streams[l]))
             /\ Fenced(streams[l])
             /\ Chained(streams[l])

\* A lineage without events has accepted and opened nothing.
LEMMA CountsInit == Init => Counts
<1>1. DOMAIN <<>> = {} /\ Len(<<>>) = 0 OBVIOUS
<1>2. Accepted(<<>>) = {} BY <1>1 DEF Accepted
<1>3. Openings(<<>>, 0) = {} BY DEF Openings
<1>4. Cardinality({}) = 0 BY FS_EmptySet
<1>5. Counted(<<>>, EmptyState) /\ Fenced(<<>>) /\ Chained(<<>>)
    BY <1>1, <1>2, <1>3, <1>4 DEF Counted, Fenced, Chained, EmptyState
<1> QED BY <1>5, ReplayEmpty DEF Init, Counts

\* A commit continues the counts of its lineage.
LEMMA CountsCommit ==
    ASSUME TypeInv, ReplayInv, Stories, Counts, NEW c \in Callers, AppendEvent(c)
    PROVE  Counts'
<1>1. PICK l \in Lineages, r \in Request :
          /\ streams[l] \in Seq(ClaimEvent)
          /\ Sound(Replay(streams[l])) /\ Replay(streams[l]).version = Len(streams[l])
          /\ r.expected = Len(streams[l]) /\ Legal(r, Replay(streams[l]))
          /\ streams'[l] = Append(streams[l], BuildEvent(r, Replay(streams[l]), Len(streams[l])))
          /\ \A m \in Lineages : m # l => streams'[m] = streams[m]
    BY CommitDecided
<1> DEFINE h == streams[l]
           st == Replay(h)
           k == Append(h, BuildEvent(r, st, Len(h)))
<1>2. /\ Ordered(h) /\ Counted(h, st) /\ Fenced(h) /\ Chained(h)
      /\ st \in DerivedState
    BY <1>1, ReplayType DEF Stories, Story, Counts
<1>3. Replay(k) = AdvanceState(st, BuildEvent(r, st, Len(h))) BY <1>1, ReplayExtends
<1>4. /\ h \in Seq(ClaimEvent) /\ Sound(st) /\ st.version = Len(h) /\ Legal(r, st)
      /\ streams'[l] = k
    BY <1>1
<1>5. Counted(k, Replay(k)) /\ Fenced(k) /\ Chained(k)
  <2> HIDE DEF st, h
  <2> QED BY <1>2, <1>3, <1>4, CountedExtends, FencedExtends, ChainedExtends
<1> HIDE DEF k
<1> QED BY <1>1, <1>4, <1>5 DEF Counts

\* So does every step of the service.
LEMMA CountsNext == TypeInv /\ ReplayInv /\ Stories /\ Counts /\ [Next]_vars => Counts'
<1> SUFFICES ASSUME TypeInv, ReplayInv, Stories, Counts, [Next]_vars PROVE Counts' OBVIOUS
<1>1. CASE UNCHANGED <<streams, byId, idempotency, current>>
    BY <1>1 DEF Counts
<1> QED BY <1>1, RepositoryStep, CountsCommit

\* The fence is the ordinal of the acceptance in the lineage, for histories of
\* any length: no generation restarts it and no rejected claim consumes one.
THEOREM FencesNeverRestart == Spec => []FencesCountAcceptances
<1>1. Counts => FencesCountAcceptances
    BY DEF Counts, Fenced, FencesCountAcceptances
<1> QED BY <1>1, TypeInit, TypeNext, IndexesInit, IndexesNext, ReplayInit, ReplayNext,
           StoriesInit, StoriesNext, CountsInit, CountsNext, PTL DEF Spec

\* Generations are consecutive and each is caused by the end of the last one.
THEOREM GenerationsFollow == Spec => []GenerationsChain
<1>1. Counts => GenerationsChain
    BY DEF Counts, Chained, Openings, GenerationsChain
<1> QED BY <1>1, TypeInit, TypeNext, IndexesInit, IndexesNext, ReplayInit, ReplayNext,
           StoriesInit, StoriesNext, CountsInit, CountsNext, PTL DEF Spec

-----------------------------------------------------------------------------
(* The register                                                             *)

\* What _advance_state makes of a legal decision, case by case: which event is
\* the opening, the claim and the end afterwards, and what allowed it.
LEMMA DecisionAdvances ==
    ASSUME NEW r \in Request, NEW st \in DerivedState, NEW v \in Nat,
           Sound(st), Legal(r, st)
    PROVE  LET e == BuildEvent(r, st, v)
               s == AdvanceState(st, e)
           IN  \/ /\ e.type = "GENERATION_CREATED" /\ MayCreate(st)
                  /\ s.opened = e /\ s.accepted = None /\ s.ended = None
               \/ /\ e.type = "CLAIM_ACCEPTED" /\ GenerationOpen(st) /\ st.accepted = None
                  /\ s.opened = st.opened /\ s.accepted = e /\ s.ended = None
               \/ /\ e.type = "CLAIM_REJECTED" /\ GenerationOpen(st)
                  /\ s.opened = st.opened /\ s.accepted = st.accepted /\ s.ended = None
               \/ /\ e.type = "CLAIM_EXPIRED" /\ MayExpire(r, st)
                  /\ s.opened = st.opened /\ s.accepted = st.accepted /\ s.ended = e
               \/ /\ e.type = "CLAIM_RELEASED" /\ MayRelease(r, st)
                  /\ s.opened = st.opened /\ s.accepted = st.accepted /\ s.ended = e
<1> DEFINE e == BuildEvent(r, st, v)
           s == AdvanceState(st, e)
<1>1. e.type = Decide(r, st).type BY DEF BuildEvent
<1>2. r.operation \in Operation BY DEF Request
<1> HIDE DEF e
<1>3. CASE r.operation = "CREATE_GENERATION"
  <2>1. e.type = "GENERATION_CREATED" BY <1>1, <1>3 DEF Decide, Decision
  <2>2. s.opened = e /\ s.accepted = None /\ s.ended = None
      BY <2>1 DEF AdvanceState, DerivedState
  <2> QED BY <1>3, <2>1, <2>2 DEF Legal, e
<1>4. CASE r.operation = "CLAIM" /\ st.accepted = None /\ ClaimantMatchesCandidate(r)
  <2>1. e.type = "CLAIM_ACCEPTED" BY <1>1, <1>4 DEF Decide, Decision
  <2>2. GenerationOpen(st) BY <1>4 DEF Legal
  <2>3. s.opened = st.opened /\ s.accepted = e /\ s.ended = None
      BY <2>1, <2>2 DEF AdvanceState, DerivedState, GenerationOpen
  <2> QED BY <1>4, <2>1, <2>2, <2>3 DEF e
<1>5. CASE r.operation = "CLAIM" /\ ~(st.accepted = None /\ ClaimantMatchesCandidate(r))
  <2>1. e.type = "CLAIM_REJECTED" BY <1>1, <1>5 DEF Decide, Decision
  <2>2. GenerationOpen(st) BY <1>5 DEF Legal
  <2>3. s.opened = st.opened /\ s.accepted = st.accepted /\ s.ended = None
      BY <2>1, <2>2 DEF AdvanceState, DerivedState, GenerationOpen
  <2> QED BY <2>1, <2>2, <2>3 DEF e
<1>6. CASE r.operation = "EXPIRE"
  <2>1. e.type = "CLAIM_EXPIRED" BY <1>1, <1>6 DEF Decide, Decision
  <2>2. s.opened = st.opened /\ s.accepted = st.accepted /\ s.ended = e
      BY <2>1 DEF AdvanceState, DerivedState
  <2> QED BY <1>6, <2>1, <2>2 DEF Legal, e
<1>7. CASE r.operation = "RELEASE"
  <2>1. e.type = "CLAIM_RELEASED" BY <1>1, <1>7 DEF Decide, Decision
  <2>2. s.opened = st.opened /\ s.accepted = st.accepted /\ s.ended = e
      BY <2>1 DEF AdvanceState, DerivedState
  <2> QED BY <1>7, <2>1, <2>2 DEF Legal, e
<1> QED BY <1>2, <1>3, <1>4, <1>5, <1>6, <1>7 DEF Operation

\* The last event of some types in a history is a position of it, or 0.
LEMMA LastOfIn ==
    ASSUME NEW h \in Seq(ClaimEvent), NEW types
    PROVE  /\ LastOf(h, types) \in 0 .. Len(h)
           /\ LastOf(h, types) # 0 => h[LastOf(h, types)].type \in types
           /\ \A i \in 1 .. Len(h) : h[i].type \in types => i <= LastOf(h, types)
<1> DEFINE found == {i \in 1 .. Len(h) : h[i].type \in types}
           n == Len(h)
<1>1. /\ n \in Nat
      /\ LastOf(h, types) = IF found = {} THEN 0
                            ELSE CHOOSE i \in found : \A j \in found : j <= i
  <2>1. DOMAIN h = 1 .. n /\ n \in Nat OBVIOUS
  <2> QED BY <2>1 DEF LastOf
<1>2. \A i \in 1 .. n : i \in found <=> h[i].type \in types OBVIOUS
<1>3. found \subseteq 1 .. n OBVIOUS
<1> HIDE DEF found
<1>4. CASE found = {} BY <1>1, <1>2, <1>4
<1>5. CASE found # {}
  <2> DEFINE T == {n - i : i \in found}
  <2>1. T \subseteq Nat /\ T # {}
    <3>1. \A i \in 1 .. n : n - i \in Nat BY <1>1
    <3>2. \A i \in found : n - i \in Nat BY <1>3, <3>1
    <3>3. PICK i \in found : TRUE BY <1>5
    <3>4. n - i \in T BY <3>3
    <3> QED BY <3>2, <3>4
  <2>2. PICK x \in T : \A y \in T : x <= y
    <3> HIDE DEF T
    <3> QED BY <2>1, LeastNatural
  <2>3. PICK m \in found : x = n - m BY <2>2
  <2>4. ASSUME NEW j \in found PROVE j <= m
    <3>1. n - j \in T OBVIOUS
    <3>2. n - m <= n - j BY <2>2, <2>3, <3>1
    <3> QED BY <1>1, <1>3, <3>2
  <2>5. /\ LastOf(h, types) \in found
        /\ \A j \in found : j <= LastOf(h, types)
    <3> HIDE DEF T
    <3> QED BY <1>1, <1>5, <2>4
  <2>6. LastOf(h, types) \in 1 .. n BY <1>3, <2>5
  <2>7. LastOf(h, types) \in 0 .. n BY <1>1, <2>6
  <2>8. h[LastOf(h, types)].type \in types BY <1>2, <2>5, <2>6
  <2>9. \A i \in 1 .. n : h[i].type \in types => i <= LastOf(h, types) BY <1>2, <2>5
  <2> QED BY <2>7, <2>8, <2>9
<1> QED BY <1>4, <1>5

\* One event more: it is the last one of its own type, and of no other.
LEMMA LastOfExtends ==
    ASSUME NEW h \in Seq(ClaimEvent), NEW e \in ClaimEvent, NEW types
    PROVE  LastOf(Append(h, e), types) = IF e.type \in types THEN Len(h) + 1
                                                             ELSE LastOf(h, types)
<1> DEFINE k == Append(h, e)
           n == Len(h)
           a == LastOf(h, types)
           b == LastOf(k, types)
<1>1. /\ n \in Nat /\ k \in Seq(ClaimEvent) /\ Len(k) = n + 1 /\ k[n + 1] = e
      /\ \A i \in 1 .. n : k[i] = h[i]
    BY Longer
<1>2. /\ a \in 0 .. n
      /\ a # 0 => h[a].type \in types
      /\ \A i \in 1 .. n : h[i].type \in types => i <= a
    BY LastOfIn
<1>3. /\ b \in 0 .. (n + 1)
      /\ b # 0 => k[b].type \in types
      /\ \A i \in 1 .. (n + 1) : k[i].type \in types => i <= b
  <2> HIDE DEF k, n
  <2> QED BY <1>1, LastOfIn
<1> HIDE DEF k, n, a, b
<1>4. CASE e.type \in types
  <2>1. n + 1 <= b BY <1>1, <1>3, <1>4
  <2> QED BY <1>1, <1>3, <1>4, <2>1 DEF k, n, a, b
<1>5. CASE e.type \notin types
  <2>1. b # n + 1
    <3>1. b = n + 1 => b # 0 BY <1>1
    <3> QED BY <1>1, <1>3, <1>5, <3>1
  <2>2. b \in 0 .. n BY <1>1, <1>3, <2>1
  <2>3. b <= a
    <3>1. CASE b = 0 BY <1>2, <3>1
    <3>2. CASE b # 0
      <4>1. b \in 1 .. n /\ k[b].type \in types /\ k[b] = h[b]
          BY <1>1, <1>3, <2>2, <3>2
      <4> QED BY <1>2, <4>1
    <3> QED BY <3>1, <3>2
  <2>4. a <= b
    <3>1. CASE a = 0 BY <2>2, <3>1
    <3>2. CASE a # 0
      <4>1. a \in 1 .. n /\ a \in 1 .. (n + 1) /\ h[a].type \in types /\ k[a] = h[a]
          BY <1>1, <1>2, <3>2
      <4> QED BY <1>3, <4>1
    <3> QED BY <3>1, <3>2
  <2> QED BY <1>1, <1>2, <1>3, <1>5, <2>2, <2>3, <2>4 DEF k, n, a, b
<1> QED BY <1>4, <1>5

\* Where the replayed state's opening, claim and end lie in the history.
Placed(h, st) ==
    LET opened == LastOf(h, {"GENERATION_CREATED"})
        ended  == LastOf(h, {"CLAIM_EXPIRED", "CLAIM_RELEASED"})
        claim  == LastOf(h, {"CLAIM_ACCEPTED"})
    IN  /\ st.opened = None =>
              /\ opened = 0 /\ ended = 0 /\ claim = 0
              /\ st.accepted = None /\ st.ended = None
        /\ st.opened # None => 0 < opened
        /\ st.opened # None /\ st.ended = None => ended < opened
        /\ st.ended # None => opened < ended /\ claim < ended /\ h[ended] = st.ended
        /\ st.accepted # None => opened < claim /\ h[claim] = st.accepted
        /\ st.accepted = None => claim <= opened

\* The places after the next decision.
LEMMA PlacedExtends ==
    ASSUME NEW h \in Seq(ClaimEvent), NEW r \in Request, NEW st \in DerivedState,
           Sound(st), Legal(r, st), Placed(h, st)
    PROVE  LET e == BuildEvent(r, st, Len(h))
           IN  Placed(Append(h, e), AdvanceState(st, e))
<1> DEFINE n == Len(h)
           e == BuildEvent(r, st, n)
           k == Append(h, e)
           s == AdvanceState(st, e)
           opened(x) == LastOf(x, {"GENERATION_CREATED"})
           ended(x)  == LastOf(x, {"CLAIM_EXPIRED", "CLAIM_RELEASED"})
           claim(x)  == LastOf(x, {"CLAIM_ACCEPTED"})
<1>1. n \in Nat /\ e \in ClaimEvent /\ e # None
  <2>1. e \in ClaimEvent BY BuildEventType
  <2> QED BY <2>1, NoneAssumption
<1>2. k[n + 1] = e /\ \A i \in 1 .. n : k[i] = h[i]
    BY <1>1, Longer
<1>3. opened(h) \in 0 .. n /\ ended(h) \in 0 .. n /\ claim(h) \in 0 .. n
    BY LastOfIn
<1>4. /\ opened(k) = IF e.type = "GENERATION_CREATED" THEN n + 1 ELSE opened(h)
      /\ ended(k) = IF e.type \in {"CLAIM_EXPIRED", "CLAIM_RELEASED"}
                    THEN n + 1 ELSE ended(h)
      /\ claim(k) = IF e.type = "CLAIM_ACCEPTED" THEN n + 1 ELSE claim(h)
    BY <1>1, LastOfExtends
<1>5. \/ /\ e.type = "GENERATION_CREATED" /\ MayCreate(st)
         /\ s.opened = e /\ s.accepted = None /\ s.ended = None
      \/ /\ e.type = "CLAIM_ACCEPTED" /\ GenerationOpen(st) /\ st.accepted = None
         /\ s.opened = st.opened /\ s.accepted = e /\ s.ended = None
      \/ /\ e.type = "CLAIM_REJECTED" /\ GenerationOpen(st)
         /\ s.opened = st.opened /\ s.accepted = st.accepted /\ s.ended = None
      \/ /\ e.type = "CLAIM_EXPIRED" /\ MayExpire(r, st)
         /\ s.opened = st.opened /\ s.accepted = st.accepted /\ s.ended = e
      \/ /\ e.type = "CLAIM_RELEASED" /\ MayRelease(r, st)
         /\ s.opened = st.opened /\ s.accepted = st.accepted /\ s.ended = e
    BY <1>1, DecisionAdvances
<1>6. /\ st.opened = None =>
            /\ opened(h) = 0 /\ ended(h) = 0 /\ claim(h) = 0
            /\ st.accepted = None /\ st.ended = None
      /\ st.opened # None => 0 < opened(h)
      /\ st.opened # None /\ st.ended = None => ended(h) < opened(h)
      /\ st.ended # None =>
            opened(h) < ended(h) /\ claim(h) < ended(h) /\ h[ended(h)] = st.ended
      /\ st.accepted # None => opened(h) < claim(h) /\ h[claim(h)] = st.accepted
      /\ st.accepted = None => claim(h) <= opened(h)
    BY DEF Placed
<1> SUFFICES Placed(k, s) OBVIOUS
<1> HIDE DEF n, e, k, s
<1>7. CASE e.type = "GENERATION_CREATED"
  <2>1. s.opened = e /\ s.accepted = None /\ s.ended = None BY <1>5, <1>7
  <2>2. opened(k) = n + 1 /\ ended(k) = ended(h) /\ claim(k) = claim(h) BY <1>4, <1>7
  <2> QED BY <1>1, <1>3, <2>1, <2>2 DEF Placed
<1>8. CASE e.type = "CLAIM_ACCEPTED"
  <2>1. /\ st.opened # None /\ st.ended = None
        /\ s.opened = st.opened /\ s.accepted = e /\ s.ended = None
      BY <1>5, <1>8 DEF GenerationOpen
  <2>2. opened(k) = opened(h) /\ ended(k) = ended(h) /\ claim(k) = n + 1 BY <1>4, <1>8
  <2> QED BY <1>1, <1>2, <1>3, <1>6, <2>1, <2>2 DEF Placed
<1>9. CASE e.type = "CLAIM_REJECTED"
  <2>1. /\ st.opened # None /\ st.ended = None
        /\ s.opened = st.opened /\ s.accepted = st.accepted /\ s.ended = None
      BY <1>5, <1>9 DEF GenerationOpen
  <2>2. opened(k) = opened(h) /\ ended(k) = ended(h) /\ claim(k) = claim(h) BY <1>4, <1>9
  <2>3. st.accepted # None => claim(h) \in 1 .. n BY <1>3, <1>6
  <2> QED BY <1>1, <1>2, <1>3, <1>6, <2>1, <2>2, <2>3 DEF Placed
<1>10. CASE e.type \in {"CLAIM_EXPIRED", "CLAIM_RELEASED"}
  <2>1. /\ st.opened # None /\ st.ended = None /\ st.accepted # None
        /\ s.opened = st.opened /\ s.accepted = st.accepted /\ s.ended = e
      BY <1>5, <1>10 DEF MayExpire, MayRelease, MayEnd, GenerationOpen
  <2>2. opened(k) = opened(h) /\ ended(k) = n + 1 /\ claim(k) = claim(h) BY <1>4, <1>10
  <2>3. claim(h) \in 1 .. n BY <1>3, <1>6, <2>1
  <2> QED BY <1>1, <1>2, <1>3, <1>6, <2>1, <2>2, <2>3 DEF Placed
<1> QED BY <1>5, <1>7, <1>8, <1>9, <1>10

\* The claim that is held in a derived state.
Held(st) == st.accepted # None /\ st.ended = None

\* The register a derived state stands for.
RegisterAt(st) ==
    [generation |-> st.generation,
     open       |-> GenerationOpen(st),
     holder     |-> IF Held(st) THEN Claimant(st.accepted.request) ELSE None,
     releaser   |-> IF st.ended # None /\ st.ended.type = "CLAIM_RELEASED"
                    THEN Claimant(st.ended.request) ELSE None,
     fence      |-> st.fence,
     until      |-> IF Held(st) THEN ExpiresAt(st.accepted) ELSE 0,
     clock      |-> IF st.last = None THEN 0 ELSE st.last.request.at]

\* The register read off the events is the one the replay derives.
LEMMA RegisterReplayed ==
    ASSUME NEW h \in Seq(ClaimEvent), NEW st \in DerivedState,
           Counted(h, st), Follows(h, st), Placed(h, st)
    PROVE  RegisterOf(h) = RegisterAt(st)
<1> DEFINE opened == LastOf(h, {"GENERATION_CREATED"})
           ended  == LastOf(h, {"CLAIM_EXPIRED", "CLAIM_RELEASED"})
           claim  == LastOf(h, {"CLAIM_ACCEPTED"})
           n      == Len(h)
<1>1. n \in Nat /\ DOMAIN h = 1 .. n OBVIOUS
<1>2. opened \in 0 .. n /\ ended \in 0 .. n /\ claim \in 0 .. n BY LastOfIn
<1>3. /\ st.opened = None =>
            /\ opened = 0 /\ ended = 0 /\ claim = 0
            /\ st.accepted = None /\ st.ended = None
      /\ st.opened # None => 0 < opened
      /\ st.opened # None /\ st.ended = None => ended < opened
      /\ st.ended # None => opened < ended /\ claim < ended /\ h[ended] = st.ended
      /\ st.accepted # None => opened < claim /\ h[claim] = st.accepted
      /\ st.accepted = None => claim <= opened
    BY DEF Placed
<1>4. /\ RegisterOf(h).generation = Cardinality(Openings(h, n))
      /\ RegisterOf(h).fence = Cardinality(Accepted(h))
    BY <1>1 DEF RegisterOf, Openings
<1>5. RegisterOf(h).clock = IF h = <<>> THEN 0 ELSE h[n].request.at BY DEF RegisterOf
<1>6. /\ RegisterOf(h).open = (opened > ended)
      /\ RegisterOf(h).holder = IF claim > opened /\ claim > ended
                                THEN Claimant(h[claim].request) ELSE None
      /\ RegisterOf(h).until = IF claim > opened /\ claim > ended
                               THEN ExpiresAt(h[claim]) ELSE 0
      /\ RegisterOf(h).releaser = IF ended > opened /\ h[ended].type = "CLAIM_RELEASED"
                                  THEN Claimant(h[ended].request) ELSE None
    BY DEF RegisterOf
<1> HIDE DEF opened, ended, claim, n
<1>7. st.generation = Cardinality(Openings(h, n)) /\ st.fence = Cardinality(Accepted(h))
    BY DEF Counted, n
<1>8. (IF h = <<>> THEN 0 ELSE h[n].request.at)
         = IF st.last = None THEN 0 ELSE st.last.request.at
  <2>1. h # <<>> => h[n] # None
    <3>1. h # <<>> => n \in 1 .. n BY DEF n
    <3>2. h # <<>> => h[n] \in ClaimEvent BY <3>1, <1>1
    <3> QED BY <3>2, NoneAssumption
  <2> QED BY <2>1 DEF Follows, n
<1>9. (opened > ended) = GenerationOpen(st)
    BY <1>2, <1>3 DEF GenerationOpen
<1>10. Held(st) => claim > opened /\ claim > ended /\ h[claim] = st.accepted
    BY <1>2, <1>3 DEF Held
<1>11. ~Held(st) => ~(claim > opened /\ claim > ended)
    BY <1>2, <1>3 DEF Held
<1>12. /\ st.ended # None => ended > opened /\ h[ended] = st.ended
       /\ st.ended = None => ~(ended > opened)
    BY <1>2, <1>3
<1> QED BY <1>4, <1>5, <1>6, <1>7, <1>8, <1>9, <1>10, <1>11, <1>12
        DEF RegisterAt, RegisterOf

RegisterFields == DOMAIN Claims!Unopened

\* A register is determined by its fields.
LEMMA RegisterShape ==
    ASSUME NEW st
    PROVE  /\ RegisterFields = {"generation", "open", "holder", "releaser", "fence",
                                "until", "clock"}
           /\ RegisterAt(st) = [i \in RegisterFields |-> RegisterAt(st)[i]]
BY DEF RegisterFields, Claims!Unopened, RegisterAt

\* Each legal decision, seen in the register it is decided from, is the step of
\* the abstract register that its event names.
LEMMA DecisionIsStep ==
    ASSUME NEW h \in Seq(ClaimEvent), NEW r \in Request, NEW st \in DerivedState,
           Sound(st), st.version = Len(h), Legal(r, st), Counted(h, st), Placed(h, st)
    PROVE  LET e   == BuildEvent(r, st, Len(h))
               reg == RegisterAt(st)
               new == RegisterAt(AdvanceState(st, e))
           IN  /\ r.at >= reg.clock
               /\ \/ /\ ~reg.open
                     /\ new = [reg EXCEPT !.generation = @ + 1, !.open = TRUE,
                                          !.releaser = None, !.clock = r.at]
                  \/ /\ reg.open /\ reg.holder = None
                     /\ new = [reg EXCEPT !.holder = Claimant(r), !.fence = @ + 1,
                                          !.until = r.at + TTL, !.clock = r.at]
                  \/ reg.open /\ new = [reg EXCEPT !.clock = r.at]
                  \/ /\ reg.open
                     /\ \/ reg.holder # None /\ r.at >= reg.until /\ new.releaser = None
                        \/ reg.holder = Claimant(r) /\ new.releaser = Claimant(r)
                     /\ new = [reg EXCEPT !.open = FALSE, !.holder = None, !.until = 0,
                                          !.releaser = new.releaser, !.clock = r.at]
<1> DEFINE n == Len(h)
           e == BuildEvent(r, st, n)
           s == AdvanceState(st, e)
           reg == RegisterAt(st)
           new == RegisterAt(s)
<1>1. n \in Nat /\ e \in ClaimEvent /\ e # None /\ e.request = r
  <2>1. e \in ClaimEvent /\ e.request = r BY BuildEventType, BuildEventFields
  <2> QED BY <2>1, NoneAssumption
<1>2. \/ /\ e.type = "GENERATION_CREATED" /\ MayCreate(st)
         /\ s.opened = e /\ s.accepted = None /\ s.ended = None
      \/ /\ e.type = "CLAIM_ACCEPTED" /\ GenerationOpen(st) /\ st.accepted = None
         /\ s.opened = st.opened /\ s.accepted = e /\ s.ended = None
      \/ /\ e.type = "CLAIM_REJECTED" /\ GenerationOpen(st)
         /\ s.opened = st.opened /\ s.accepted = st.accepted /\ s.ended = None
      \/ /\ e.type = "CLAIM_EXPIRED" /\ MayExpire(r, st)
         /\ s.opened = st.opened /\ s.accepted = st.accepted /\ s.ended = e
      \/ /\ e.type = "CLAIM_RELEASED" /\ MayRelease(r, st)
         /\ s.opened = st.opened /\ s.accepted = st.accepted /\ s.ended = e
    BY <1>1, DecisionAdvances
<1>3. s.last = e BY <1>1, DecisionOnClaim
<1>4. /\ e.type = "GENERATION_CREATED" =>
            s.generation = st.generation + 1 /\ s.fence = st.fence
      /\ e.type = "CLAIM_ACCEPTED" =>
            s.generation = st.generation /\ s.fence = st.fence + 1
      /\ e.type \in {"CLAIM_REJECTED", "CLAIM_EXPIRED", "CLAIM_RELEASED"} =>
            s.generation = st.generation /\ s.fence = st.fence
  <2>1. \/ /\ e.type = "GENERATION_CREATED"
           /\ s.generation = st.generation + 1 /\ s.fence = st.fence
        \/ /\ e.type = "CLAIM_ACCEPTED"
           /\ s.generation = st.generation /\ s.fence = st.fence + 1
        \/ /\ e.type = "CLAIM_REJECTED"
           /\ s.generation = st.generation /\ s.fence = st.fence
        \/ /\ e.type \in {"CLAIM_EXPIRED", "CLAIM_RELEASED"}
           /\ s.generation = st.generation /\ s.fence = st.fence
      BY <1>1, DecisionCounts, Zenon
  <2> HIDE DEF e, s
  <2> QED BY <2>1
<1>5. r.at \in Nat /\ r.at >= reg.clock
  <2>1. r.at \in Nat BY DEF Request
  <2> QED BY <2>1 DEF Legal, InOrder, RegisterAt
<1>6. MayCreate(st) => ~GenerationOpen(st) /\ ~Held(st)
  <2>1. st.version = 0 => st.opened = None
    <3>1. st.opened # None => 0 < LastOf(h, {"GENERATION_CREATED"}) BY DEF Placed
    <3>2. LastOf(h, {"GENERATION_CREATED"}) \in 0 .. n BY LastOfIn
    <3> QED BY <3>1, <3>2
  <2>2. st.opened = None => st.accepted = None BY DEF Placed
  <2> QED BY <2>1, <2>2 DEF MayCreate, GenerationOpen, Held
<1>7. GenerationOpen(st) => reg.releaser = None BY DEF GenerationOpen, RegisterAt
<1>8. /\ new.generation = s.generation /\ new.fence = s.fence /\ new.clock = r.at
      /\ reg.generation = st.generation /\ reg.fence = st.fence
      /\ reg.open = GenerationOpen(st) /\ new.open = GenerationOpen(s)
  <2>1. new.clock = r.at BY <1>1, <1>3 DEF RegisterAt
  <2> HIDE DEF s
  <2> QED BY <2>1 DEF RegisterAt
<1>9. /\ reg.holder = IF Held(st) THEN Claimant(st.accepted.request) ELSE None
      /\ reg.until = IF Held(st) THEN ExpiresAt(st.accepted) ELSE 0
    BY DEF RegisterAt
<1>10. /\ new.holder = IF Held(s) THEN Claimant(s.accepted.request) ELSE None
       /\ new.until = IF Held(s) THEN ExpiresAt(s.accepted) ELSE 0
       /\ new.releaser = IF s.ended # None /\ s.ended.type = "CLAIM_RELEASED"
                         THEN Claimant(s.ended.request) ELSE None
  <2> HIDE DEF s
  <2> QED BY DEF RegisterAt
<1> DEFINE Fields == {"generation", "open", "holder", "releaser", "fence", "until", "clock"}
           Yes == TRUE
           No  == FALSE
<1>15. reg = [i \in Fields |-> reg[i]] /\ new = [i \in Fields |-> new[i]]
  <2> HIDE DEF s
  <2> QED BY RegisterShape
<1> SUFFICES \/ /\ ~reg.open
                /\ new = [reg EXCEPT !.generation = @ + 1, !.open = TRUE,
                                     !.releaser = None, !.clock = r.at]
             \/ /\ reg.open /\ reg.holder = None
                /\ new = [reg EXCEPT !.holder = Claimant(r), !.fence = @ + 1,
                                     !.until = r.at + TTL, !.clock = r.at]
             \/ reg.open /\ new = [reg EXCEPT !.clock = r.at]
             \/ /\ reg.open
                /\ \/ reg.holder # None /\ r.at >= reg.until /\ new.releaser = None
                   \/ reg.holder = Claimant(r) /\ new.releaser = Claimant(r)
                /\ new = [reg EXCEPT !.open = FALSE, !.holder = None, !.until = 0,
                                     !.releaser = new.releaser, !.clock = r.at]
    BY <1>5
<1> HIDE DEF n, e, s, reg, new, Fields, Yes, No
<1>11. CASE e.type = "GENERATION_CREATED"
  <2>1. MayCreate(st) /\ s.opened = e /\ s.accepted = None /\ s.ended = None
      BY <1>2, <1>11
  <2>2. GenerationOpen(s) /\ ~Held(s) BY <1>1, <2>1 DEF GenerationOpen, Held
  <2>3. new.holder = None /\ new.until = 0 /\ new.releaser = None BY <1>10, <2>1, <2>2
  <2>4. ~GenerationOpen(st) /\ reg.holder = None /\ reg.until = 0 BY <1>6, <1>9, <2>1
  <2>5. s.generation = st.generation + 1 /\ s.fence = st.fence BY <1>4, <1>11
  <2>6. ~reg.open /\ new.open = Yes BY <1>8, <2>2, <2>4 DEF Yes
  <2>7. [reg EXCEPT !.generation = @ + 1, !.open = Yes, !.releaser = None, !.clock = r.at]
           = [i \in Fields |-> CASE i = "generation" -> reg.generation + 1
                                 [] i = "open" -> Yes [] i = "releaser" -> None
                                 [] i = "clock" -> r.at [] OTHER -> reg[i]]
      BY <1>15 DEF Fields
  <2>8. new = [reg EXCEPT !.generation = @ + 1, !.open = Yes, !.releaser = None,
                          !.clock = r.at]
      BY <1>8, <1>15, <2>3, <2>4, <2>5, <2>6, <2>7 DEF Fields
  <2> QED BY <2>6, <2>8 DEF Yes
<1>12. CASE e.type = "CLAIM_ACCEPTED"
  <2>1. /\ GenerationOpen(st) /\ st.accepted = None
        /\ s.opened = st.opened /\ s.accepted = e /\ s.ended = None
      BY <1>2, <1>12
  <2>2. GenerationOpen(s) /\ Held(s) /\ ~Held(st) BY <1>1, <2>1 DEF GenerationOpen, Held
  <2>3. new.holder = Claimant(r) /\ new.until = r.at + TTL /\ new.releaser = None
      BY <1>1, <1>10, <2>1, <2>2 DEF ExpiresAt
  <2>4. reg.holder = None /\ reg.until = 0 /\ reg.releaser = None BY <1>7, <1>9, <2>1, <2>2
  <2>5. s.generation = st.generation /\ s.fence = st.fence + 1 BY <1>4, <1>12
  <2>6. reg.open = Yes /\ new.open = Yes BY <1>8, <2>1, <2>2 DEF Yes
  <2>7. [reg EXCEPT !.holder = Claimant(r), !.fence = @ + 1, !.until = r.at + TTL,
                    !.clock = r.at]
           = [i \in Fields |-> CASE i = "holder" -> Claimant(r)
                                 [] i = "fence" -> reg.fence + 1
                                 [] i = "until" -> r.at + TTL
                                 [] i = "clock" -> r.at [] OTHER -> reg[i]]
      BY <1>15 DEF Fields
  <2>8. new = [reg EXCEPT !.holder = Claimant(r), !.fence = @ + 1, !.until = r.at + TTL,
                          !.clock = r.at]
      BY <1>8, <1>15, <2>3, <2>4, <2>5, <2>6, <2>7 DEF Fields
  <2> QED BY <2>4, <2>6, <2>8 DEF Yes
<1>13. CASE e.type = "CLAIM_REJECTED"
  <2>1. /\ GenerationOpen(st)
        /\ s.opened = st.opened /\ s.accepted = st.accepted /\ s.ended = None
      BY <1>2, <1>13
  <2>2. GenerationOpen(s) /\ (Held(s) <=> Held(st)) BY <2>1 DEF GenerationOpen, Held
  <2>3. new.holder = reg.holder /\ new.until = reg.until /\ new.releaser = None
      BY <1>9, <1>10, <2>1, <2>2
  <2>4. reg.releaser = None BY <1>7, <2>1
  <2>5. s.generation = st.generation /\ s.fence = st.fence BY <1>4, <1>13
  <2>6. reg.open = Yes /\ new.open = Yes BY <1>8, <2>1, <2>2 DEF Yes
  <2>7. [reg EXCEPT !.clock = r.at]
           = [i \in Fields |-> IF i = "clock" THEN r.at ELSE reg[i]]
      BY <1>15 DEF Fields
  <2>8. new = [reg EXCEPT !.clock = r.at]
      BY <1>8, <1>15, <2>3, <2>4, <2>5, <2>6, <2>7 DEF Fields
  <2> QED BY <2>6, <2>8 DEF Yes
<1>14. CASE e.type \in {"CLAIM_EXPIRED", "CLAIM_RELEASED"}
  <2>1. /\ MayEnd(r, st) /\ s.ended = e
        /\ e.type = "CLAIM_EXPIRED" => r.at >= ExpiresAt(st.accepted)
        /\ e.type = "CLAIM_RELEASED" => Claimant(r) = Claimant(st.accepted.request)
      BY <1>2, <1>14 DEF MayExpire, MayRelease
  <2>2. GenerationOpen(st) /\ Held(st) /\ ~GenerationOpen(s) /\ ~Held(s)
      BY <1>1, <2>1 DEF MayEnd, GenerationOpen, Held
  <2>3. new.holder = None /\ new.until = 0 BY <1>10, <2>2
  <2>4. new.releaser = IF e.type = "CLAIM_RELEASED" THEN Claimant(r) ELSE None
      BY <1>1, <1>10, <2>1
  <2>5. reg.holder = Claimant(st.accepted.request) /\ reg.until = ExpiresAt(st.accepted)
      BY <1>9, <2>2
  <2>6. reg.holder # None
    <3>1. st.accepted \in ClaimEvent BY <2>2 DEF Held, DerivedState
    <3>2. st.accepted.request.evidence \in Evidence BY <3>1 DEF ClaimEvent, Request
    <3>3. Claimant(st.accepted.request) \in Claimants
        BY <3>2, CatalogueAssumption DEF Claimant
    <3> QED BY <2>5, <3>3, NoneAssumption
  <2>7. s.generation = st.generation /\ s.fence = st.fence BY <1>4, <1>14
  <2>8. new = [reg EXCEPT !.open = FALSE, !.holder = None, !.until = 0,
                          !.releaser = new.releaser, !.clock = r.at]
    <3>1. new.open = No BY <1>8, <2>2 DEF No
    <3>2. [reg EXCEPT !.open = No, !.holder = None, !.until = 0,
                      !.releaser = new.releaser, !.clock = r.at]
             = [i \in Fields |-> CASE i = "open" -> No [] i = "holder" -> None
                                   [] i = "until" -> 0 [] i = "releaser" -> new.releaser
                                   [] i = "clock" -> r.at [] OTHER -> reg[i]]
        BY <1>15 DEF Fields
    <3>3. new = [reg EXCEPT !.open = No, !.holder = None, !.until = 0,
                            !.releaser = new.releaser, !.clock = r.at]
        BY <1>8, <1>15, <2>3, <2>7, <3>1, <3>2 DEF Fields
    <3> QED BY <3>3 DEF No
  <2>9. reg.open BY <1>8, <2>2
  <2>10. \/ reg.holder # None /\ r.at >= reg.until /\ new.releaser = None
         \/ reg.holder = Claimant(r) /\ new.releaser = Claimant(r)
      BY <1>14, <2>1, <2>4, <2>5, <2>6
  <2> QED BY <2>8, <2>9, <2>10
<1> QED BY <1>2, <1>11, <1>12, <1>13, <1>14

\* A call in flight answers a request some caller submitted.
Submitted == \A c \in Callers :
                call[c].pc \in {"lookup", "load", "append"} => call[c].request \in Requests

Places == \A l \in Lineages : Placed(streams[l], Replay(streams[l]))

\* What the steps of the register are read from.
RegisterInv == TypeInv /\ ReplayInv /\ Stories /\ Counts /\ Places /\ Submitted

\* Before any event nothing is opened, held or ended.
LEMMA PlacesInit == Init => Places /\ Submitted
<1> SUFFICES ASSUME Init PROVE Places /\ Submitted OBVIOUS
<1>1. \A types : LastOf(<<>>, types) = 0 BY DEF LastOf
<1>2. Placed(<<>>, EmptyState) BY <1>1 DEF Placed, EmptyState
<1>3. Places BY <1>2, ReplayEmpty DEF Init, Places
<1>4. Submitted BY DEF Init, Submitted, Idle, Frame
<1> QED BY <1>3, <1>4

\* A commit moves the places of its own lineage.
LEMMA PlacesCommit ==
    ASSUME RegisterInv, NEW c \in Callers, AppendEvent(c)
    PROVE  Places'
<1>1. PICK l \in Lineages, r \in Request :
          /\ streams[l] \in Seq(ClaimEvent)
          /\ Sound(Replay(streams[l])) /\ Replay(streams[l]).version = Len(streams[l])
          /\ r.expected = Len(streams[l]) /\ Legal(r, Replay(streams[l]))
          /\ streams'[l] = Append(streams[l], BuildEvent(r, Replay(streams[l]), Len(streams[l])))
          /\ \A m \in Lineages : m # l => streams'[m] = streams[m]
    BY CommitDecided DEF RegisterInv
<1> DEFINE h == streams[l]
           st == Replay(h)
           k == Append(h, BuildEvent(r, st, Len(h)))
<1>2. Placed(h, st) /\ st \in DerivedState BY <1>1, ReplayType DEF RegisterInv, Places
<1>3. Replay(k) = AdvanceState(st, BuildEvent(r, st, Len(h))) BY <1>1, ReplayExtends
<1>4. h \in Seq(ClaimEvent) /\ Sound(st) /\ Legal(r, st) /\ streams'[l] = k
    BY <1>1
<1>5. Placed(k, Replay(k))
  <2> HIDE DEF st, h
  <2> QED BY <1>2, <1>3, <1>4, PlacedExtends
<1> HIDE DEF k
<1> QED BY <1>1, <1>4, <1>5 DEF RegisterInv, Places

\* A call keeps its request from its submission to its answer.
LEMMA SubmittedNext == TypeInv /\ Submitted /\ [Next]_vars => Submitted'
<1> SUFFICES ASSUME TypeInv, Submitted, [Next]_vars, NEW d \in Callers
             PROVE  call'[d].pc \in {"lookup", "load", "append"} =>
                       call'[d].request \in Requests
    BY DEF Submitted
<1>1. call[d].pc \in {"lookup", "load", "append"} => call[d].request \in Requests
    BY DEF Submitted
<1>2. call \in [Callers -> CallState] BY DEF TypeInv, TypeOK
<1>3. ASSUME NEW c \in Callers, NEW frame, call' = [call EXCEPT ![c] = frame],
             frame.pc \in {"lookup", "load", "append"} => frame.request \in Requests
      PROVE  call'[d].pc \in {"lookup", "load", "append"} => call'[d].request \in Requests
    BY <1>1, <1>2, <1>3
<1>4. ASSUME NEW c \in Callers, NEW outcome, NEW event, Answer(c, outcome, event)
      PROVE  call'[d].pc \in {"lookup", "load", "append"} => call'[d].request \in Requests
    BY <1>3, <1>4 DEF Answer, Frame
<1>5. ASSUME NEW a, Retain(a)
      PROVE  call'[d].pc \in {"lookup", "load", "append"} => call'[d].request \in Requests
    BY <1>1, <1>5 DEF Retain
<1>6. ASSUME NEW c \in Callers, NEW r \in Requests, Submit(c, r)
      PROVE  call'[d].pc \in {"lookup", "load", "append"} => call'[d].request \in Requests
  <2>0. \A pc, outcome : Frame(pc, r, None, outcome).request = r BY DEF Frame
  <2>1. PICK frame : call' = [call EXCEPT ![c] = frame] /\ frame.request = r
      BY <1>6, <2>0, Zenon DEF Submit
  <2> QED BY <1>3, <2>1
<1>7. ASSUME NEW c \in Callers, NEW e, Reconstruct(c, e)
      PROVE  call'[d].pc \in {"lookup", "load", "append"} => call'[d].request \in Requests
    BY <1>3, <1>7 DEF Reconstruct, Frame
<1>8. ASSUME NEW c \in Callers, CallStep(c)
      PROVE  call'[d].pc \in {"lookup", "load", "append"} => call'[d].request \in Requests
  <2>1. CASE \E outcome, event : Answer(c, outcome, event) BY <1>4, <2>1
  <2>2. CASE IdempotentLookup(c) /\ call' = [call EXCEPT ![c] =
                Frame("load", call[c].request, None, None)]
    <3>1. call[c].request \in Requests BY <2>2 DEF IdempotentLookup, Submitted
    <3> QED BY <1>3, <2>2, <3>1 DEF Frame
  <2>3. CASE LoadHistory(c) /\ \E e : call' = [call EXCEPT ![c] =
                Frame("append", call[c].request, e, None)]
    <3>1. call[c].request \in Requests BY <2>3 DEF LoadHistory, Submitted
    <3> QED BY <1>3, <2>3, <3>1 DEF Frame
  <2>4. CASE Return(c) BY <1>3, <2>4 DEF Return, Idle, Frame
  <2>5. IdempotentLookup(c) => \/ \E outcome, event : Answer(c, outcome, event)
                               \/ call' = [call EXCEPT ![c] =
                                     Frame("load", call[c].request, None, None)]
      BY DEF IdempotentLookup
  <2>6. LoadHistory(c) => \/ \E outcome, event : Answer(c, outcome, event)
                          \/ \E e : call' = [call EXCEPT ![c] =
                                Frame("append", call[c].request, e, None)]
      BY DEF LoadHistory
  <2>7. AppendEvent(c) \/ CommitFails(c) \/ AppendLoses(c) \/ Rebuild(c) =>
           \E outcome, event : Answer(c, outcome, event)
      BY DEF AppendEvent, CommitFails, AppendLoses, Rebuild
  <2> QED BY <1>8, <2>1, <2>2, <2>3, <2>4, <2>5, <2>6, <2>7 DEF CallStep
<1>9. CASE UNCHANGED vars BY <1>1, <1>9 DEF vars
<1> QED BY <1>5, <1>6, <1>7, <1>8, <1>9 DEF Next

\* The register of every lineage is the one its replay derives.
LEMMA RegistersReplayed ==
    ASSUME RegisterInv, NEW l \in Lineages
    PROVE  RegisterOf(streams[l]) = RegisterAt(Replay(streams[l]))
<1>1. streams[l] \in Seq(ClaimEvent) BY DEF RegisterInv, TypeInv, TypeOK
<1>2. Replay(streams[l]) \in DerivedState BY <1>1, ReplayType
<1>3. /\ Counted(streams[l], Replay(streams[l])) /\ Follows(streams[l], Replay(streams[l]))
      /\ Placed(streams[l], Replay(streams[l]))
    BY DEF RegisterInv, Counts, Stories, Story, Places
<1> QED BY <1>1, <1>2, <1>3, RegisterReplayed

\* A commit is one step of the abstract register of its lineage.
LEMMA CommitIsClaim ==
    ASSUME RegisterInv, RegisterInv', NEW c \in Callers, AppendEvent(c)
    PROVE  Claims!Next
<1>1. PICK l \in Lineages, r \in Request :
          /\ r = call[c].request
          /\ streams[l] \in Seq(ClaimEvent)
          /\ Sound(Replay(streams[l])) /\ Replay(streams[l]).version = Len(streams[l])
          /\ r.expected = Len(streams[l]) /\ Legal(r, Replay(streams[l]))
          /\ streams'[l] = Append(streams[l], BuildEvent(r, Replay(streams[l]), Len(streams[l])))
          /\ \A m \in Lineages : m # l => streams'[m] = streams[m]
    BY CommitDecided DEF RegisterInv
<1> DEFINE h == streams[l]
           st == Replay(h)
           s == AdvanceState(st, BuildEvent(r, st, Len(h)))
           register == [m \in Lineages |-> RegisterOf(streams[m])]
           reg == RegisterAt(st)
           new == RegisterAt(s)
<1>2. r.at \in {q.at : q \in Requests}
  <2>1. r \in Requests BY <1>1 DEF AppendEvent, RegisterInv, Submitted
  <2> QED BY <2>1
<1>3. Claimant(r) \in Claimants BY CatalogueAssumption DEF Claimant, Request
<1>4. register[l] = reg
    BY RegistersReplayed
<1>5. RegisterOf(streams'[l]) = new
  <2>1. RegisterOf(streams'[l]) = RegisterAt(Replay(streams'[l]))
    <3>1. streams'[l] \in Seq(ClaimEvent) BY DEF RegisterInv, TypeInv, TypeOK
    <3>2. Replay(streams'[l]) \in DerivedState BY <3>1, ReplayType
    <3>3. /\ Counted(streams'[l], Replay(streams'[l]))
          /\ Follows(streams'[l], Replay(streams'[l]))
          /\ Placed(streams'[l], Replay(streams'[l]))
        BY DEF RegisterInv, Counts, Stories, Story, Places
    <3> QED BY <3>1, <3>2, <3>3, RegisterReplayed
  <2>2. Replay(streams'[l]) = s BY <1>1, ReplayExtends
  <2> QED BY <2>1, <2>2
<1>6. [m \in Lineages |-> RegisterOf(streams'[m])] = [register EXCEPT ![l] = new]
  <2>1. \A m \in Lineages :
           RegisterOf(streams'[m]) = IF m = l THEN new ELSE RegisterOf(streams[m])
      BY <1>1, <1>5
  <2> HIDE DEF new
  <2> QED BY <2>1
<1>7. /\ r.at >= reg.clock
      /\ \/ /\ ~reg.open
            /\ new = [reg EXCEPT !.generation = @ + 1, !.open = TRUE,
                                 !.releaser = None, !.clock = r.at]
         \/ /\ reg.open /\ reg.holder = None
            /\ new = [reg EXCEPT !.holder = Claimant(r), !.fence = @ + 1,
                                 !.until = r.at + TTL, !.clock = r.at]
         \/ reg.open /\ new = [reg EXCEPT !.clock = r.at]
         \/ /\ reg.open
            /\ \/ reg.holder # None /\ r.at >= reg.until /\ new.releaser = None
               \/ reg.holder = Claimant(r) /\ new.releaser = Claimant(r)
            /\ new = [reg EXCEPT !.open = FALSE, !.holder = None, !.until = 0,
                                 !.releaser = new.releaser, !.clock = r.at]
  <2>1. /\ h \in Seq(ClaimEvent) /\ st \in DerivedState /\ Sound(st)
        /\ st.version = Len(h) /\ Legal(r, st)
      BY <1>1, ReplayType
  <2>2. Counted(h, st) /\ Placed(h, st) BY DEF RegisterInv, Counts, Places
  <2> HIDE DEF st, h
  <2> QED BY <2>1, <2>2, DecisionIsStep
<1> HIDE DEF reg, new, st, h, s
<1>8. CASE /\ ~reg.open
           /\ new = [reg EXCEPT !.generation = @ + 1, !.open = TRUE,
                                !.releaser = None, !.clock = r.at]
  <2>1. Claims!Open(l, r.at) BY <1>4, <1>6, <1>7, <1>8 DEF Claims!Open, Claims!Update
  <2> QED BY <1>2, <2>1 DEF Claims!Next
<1>9. CASE /\ reg.open /\ reg.holder = None
           /\ new = [reg EXCEPT !.holder = Claimant(r), !.fence = @ + 1,
                                !.until = r.at + TTL, !.clock = r.at]
  <2>1. Claims!Grant(l, r.at, Claimant(r))
      BY <1>4, <1>6, <1>7, <1>9 DEF Claims!Grant, Claims!Update
  <2> QED BY <1>2, <1>3, <2>1 DEF Claims!Next
<1>10. CASE reg.open /\ new = [reg EXCEPT !.clock = r.at]
  <2>1. Claims!Refuse(l, r.at) BY <1>4, <1>6, <1>7, <1>10 DEF Claims!Refuse, Claims!Update
  <2> QED BY <1>2, <2>1 DEF Claims!Next
<1>11. CASE /\ reg.open
            /\ reg.holder # None /\ r.at >= reg.until
            /\ new = [reg EXCEPT !.open = FALSE, !.holder = None, !.until = 0,
                                 !.releaser = None, !.clock = r.at]
  <2>1. Claims!Close(l, r.at, None)
      BY <1>4, <1>6, <1>11 DEF Claims!Close, Claims!Update
  <2>2. Claims!Expire(l, r.at) BY <1>4, <1>7, <1>11, <2>1 DEF Claims!Expire
  <2> QED BY <1>2, <2>2 DEF Claims!Next
<1>12. CASE /\ reg.open /\ reg.holder = Claimant(r)
            /\ new = [reg EXCEPT !.open = FALSE, !.holder = None, !.until = 0,
                                 !.releaser = Claimant(r), !.clock = r.at]
  <2>1. Claims!Close(l, r.at, Claimant(r))
      BY <1>4, <1>6, <1>12 DEF Claims!Close, Claims!Update
  <2>2. Claims!Release(l, r.at, Claimant(r)) BY <1>4, <1>7, <1>12, <2>1 DEF Claims!Release
  <2> QED BY <1>2, <1>3, <2>2 DEF Claims!Next
<1> QED BY <1>7, <1>8, <1>9, <1>10, <1>11, <1>12

\* The lineages implement the register: every commit, decided from a snapshot
\* other threads may have outrun, is one step of the abstract register from its
\* current state, and nothing else the service does changes it.
THEOREM ClaimImplementsRegister == Spec => ImplementsRegister
<1>1. Init => Claims!Init
    <2>1. /\ LastOf(<<>>, {"GENERATION_CREATED"}) = 0
          /\ LastOf(<<>>, {"CLAIM_EXPIRED", "CLAIM_RELEASED"}) = 0
          /\ LastOf(<<>>, {"CLAIM_ACCEPTED"}) = 0
        BY DEF LastOf
    <2>2. DOMAIN <<>> = {} OBVIOUS
    <2>3. RegisterOf(<<>>) = Claims!Unopened
      <3>1. /\ {i \in DOMAIN <<>> : <<>>[i].type = "GENERATION_CREATED"} = {}
            /\ Accepted(<<>>) = {}
          BY <2>2 DEF Accepted
      <3>2. Cardinality({}) = 0 BY FS_EmptySet
      <3> DEFINE No  == FALSE
                 reg == RegisterOf(<<>>)
      <3>3. reg.open = No
        <4> DEFINE opened == LastOf(<<>>, {"GENERATION_CREATED"})
                   ended  == LastOf(<<>>, {"CLAIM_EXPIRED", "CLAIM_RELEASED"})
        <4>1. reg.open = (opened > ended) BY DEF RegisterOf
        <4> HIDE DEF reg
        <4>2. (opened > ended) = No BY <2>1
        <4> QED BY <4>1, <4>2
      <3> HIDE DEF No
      <3>4. /\ reg.generation = 0 /\ reg.fence = 0 /\ reg.clock = 0
            /\ reg.holder = None /\ reg.releaser = None /\ reg.until = 0
          BY <2>1, <3>1, <3>2 DEF RegisterOf
      <3>5. reg = [generation |-> reg.generation, open |-> reg.open,
                   holder |-> reg.holder, releaser |-> reg.releaser,
                   fence |-> reg.fence, until |-> reg.until, clock |-> reg.clock]
          BY DEF RegisterOf
      <3> HIDE DEF reg
      <3>6. reg = [generation |-> 0, open |-> No, holder |-> None, releaser |-> None,
                   fence |-> 0, until |-> 0, clock |-> 0]
          BY <3>3, <3>4, <3>5
      <3> QED BY <3>6 DEF Claims!Unopened, No, reg
    <2> QED BY <2>3 DEF Init, Claims!Init
<1>2. RegisterInv /\ RegisterInv' /\ [Next]_vars
         => [Claims!Next]_([l \in Lineages |-> RegisterOf(streams[l])])
  <2> SUFFICES ASSUME RegisterInv, RegisterInv', [Next]_vars
               PROVE  \/ Claims!Next
                      \/ UNCHANGED [l \in Lineages |-> RegisterOf(streams[l])]
      OBVIOUS
  <2>1. CASE UNCHANGED <<streams, byId, idempotency, current>> BY <2>1
  <2> QED BY <2>1, RepositoryStep, CommitIsClaim
<1>3. RegisterInv /\ [Next]_vars => Places' /\ Submitted'
  <2> SUFFICES ASSUME RegisterInv, [Next]_vars PROVE Places' /\ Submitted' OBVIOUS
  <2>1. Submitted' BY SubmittedNext DEF RegisterInv
  <2>2. CASE UNCHANGED <<streams, byId, idempotency, current>>
      BY <2>1, <2>2 DEF RegisterInv, Places
  <2> QED BY <2>1, <2>2, RepositoryStep, PlacesCommit
<1>4. Spec => []RegisterInv
    BY <1>3, TypeInit, TypeNext, IndexesInit, IndexesNext, ReplayInit, ReplayNext,
       StoriesInit, StoriesNext, CountsInit, CountsNext, PlacesInit,
       PTL DEF Spec, RegisterInv
<1> QED BY <1>1, <1>2, <1>4, PTL DEF Spec, ImplementsRegister, Claims!Spec
=============================================================================
