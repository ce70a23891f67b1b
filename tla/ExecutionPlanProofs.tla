------------------------- MODULE ExecutionPlanProofs -------------------------
(***************************************************************************)
(* Theorems about ExecutionPlan, and about the ExecutionRequest service it  *)
(* is composed with, for every number of threads, drafts and policies.  A   *)
(* planner reads an admitted request and a verdict before it takes the lock *)
(* of its own repository; since neither is ever taken back, what it appends *)
(* still rests on them.  The last section is about the rule that makes a    *)
(* plan's steps.                                                            *)
(***************************************************************************)
EXTENDS Planning, FoldLemmas, SequenceTheorems

-----------------------------------------------------------------------------
(* The request service                                                      *)

\* What one thread of the request service holds.
Asks(frame) ==
    /\ frame.pc = "admit" => frame.asked \in Admission!Request
    /\ frame.outcome = "Created" => frame.request # None

AdmissionInv ==
    /\ Admission!TypeOK
    /\ Admission!IndexesAgree
    /\ Admission!AnswersAreAdmitted
    /\ \A c \in Callers : Asks(call[c])

\* A request is indexed by the identity it carries.
LEMMA RequestIdentity ==
    ASSUME NEW r \in Admission!Request
    PROVE  r.identity \in Admission!Identities /\ r # None
BY PlanningAssumption DEF Admission!Request, Admission!NoneAssumption

\* A step that changes one thread's frame, creates nothing and answers, if at all,
\* with the admitted request the thread asked for.
LEMMA AdmissionFrame ==
    ASSUME AdmissionInv, NEW c \in Callers, NEW frame,
           frame \in Admission!CallState, Asks(frame), frame.outcome # "Created",
           frame.request # None => frame.request \in byId /\ frame.request = frame.asked,
           call' = [call EXCEPT ![c] = frame], Admission!ReadOnly
    PROVE  AdmissionInv'
<1>1. \A d \in Callers : call'[d] = IF d = c THEN frame ELSE call[d]
    BY DEF AdmissionInv, Admission!TypeOK
<1>2. call' \in [Callers -> Admission!CallState] BY DEF AdmissionInv, Admission!TypeOK
<1>3. byId' = byId /\ byIdempotency' = byIdempotency BY DEF Admission!ReadOnly
<1>4. Admission!TypeOK' BY <1>2, <1>3 DEF AdmissionInv, Admission!TypeOK
<1>5. Admission!IndexesAgree' BY <1>3 DEF AdmissionInv, Admission!IndexesAgree
<1>6. Admission!AnswersAreAdmitted'
    BY <1>1, <1>3 DEF AdmissionInv, Admission!AnswersAreAdmitted
<1>7. \A d \in Callers : Asks(call'[d]) BY <1>1, Zenon DEF AdmissionInv
<1> QED BY <1>4, <1>5, <1>6, <1>7 DEF AdmissionInv

\* Submit: a draft with a key that is not refused is a request.
LEMMA AdmissionSubmit ==
    ASSUME AdmissionInv, NEW c \in Callers, NEW d \in Drafts, NEW k \in Keys,
           Admission!Submit(c, d, k)
    PROVE  AdmissionInv'
<1> DEFINE refused == Admission!Frame("done", None, None, "Invalid")
           r == Admission!BuildRequest(d, k)
           asked == Admission!Frame("admit", r, None, None)
<1>1. CASE k = EmptyKey
  <2>1. refused \in Admission!CallState
      BY DEF Admission!Frame, Admission!CallState, Admission!Outcome
  <2>2. Asks(refused) /\ refused.outcome # "Created" /\ refused.request = None
      BY DEF Admission!Frame, Asks
  <2>3. call' = [call EXCEPT ![c] = refused] /\ Admission!ReadOnly
      BY <1>1 DEF Admission!Submit
  <2> QED BY <2>1, <2>2, <2>3, AdmissionFrame
<1>2. CASE k # EmptyKey
  <2>1. r \in Admission!Request
      BY <1>2 DEF Admission!BuildRequest, Admission!IdempotencyIdentity, Admission!Request,
                  Admission!Identities, Admission!Scopes, Admission!Contents
  <2>2. asked \in Admission!CallState BY <2>1 DEF Admission!Frame, Admission!CallState
  <2>3. Asks(asked) /\ asked.outcome # "Created" /\ asked.request = None
      BY <2>1, PlanningAssumption
         DEF Admission!Frame, Asks, Admission!NoneAssumption, Admission!Outcome
  <2>4. call' = [call EXCEPT ![c] = asked] /\ Admission!ReadOnly
      BY <1>2 DEF Admission!Submit
  <2> QED BY <2>2, <2>3, <2>4, AdmissionFrame
<1> QED BY <1>1, <1>2

\* repository.admit, published: both indexes together.
LEMMA AdmissionNew ==
    ASSUME AdmissionInv, NEW c \in Callers, Admission!AdmitNew(c)
    PROVE  AdmissionInv'
<1> DEFINE r == call[c].asked
           frame == Admission!Frame("done", r, r, "Created")
<1>1. r \in Admission!Request BY DEF AdmissionInv, Asks, Admission!AdmitNew
<1>2. /\ byIdempotency[r.identity] = None /\ r \notin byId
      /\ byId' = byId \cup {r}
      /\ byIdempotency' = [byIdempotency EXCEPT ![r.identity] = r]
      /\ call' = [call EXCEPT ![c] = frame]
    BY DEF Admission!AdmitNew, Admission!Prior, Admission!Answer
<1>3. frame \in Admission!CallState
    BY <1>1 DEF Admission!Frame, Admission!CallState, Admission!Outcome
<1>4. r.identity \in Admission!Identities /\ r # None BY <1>1, RequestIdentity
<1>5. Admission!TypeOK /\ Admission!IndexesAgree /\ Admission!AnswersAreAdmitted
    BY DEF AdmissionInv
<1>6. \A d \in Callers : call'[d] = IF d = c THEN frame ELSE call[d]
    BY <1>2, <1>5 DEF Admission!TypeOK
<1>7. frame.request = r /\ frame.asked = r /\ frame.outcome = "Created" /\ frame.pc = "done"
    BY DEF Admission!Frame
<1> HIDE DEF frame, r
<1>8. Admission!TypeOK' BY <1>1, <1>2, <1>3, <1>5 DEF Admission!TypeOK
<1>9. Admission!IndexesAgree'
  <2>1. \A i \in Admission!Identities :
           byIdempotency'[i] = IF i = r.identity THEN r ELSE byIdempotency[i]
      BY <1>2, <1>5 DEF Admission!TypeOK
  <2>2. \A q \in byId : q.identity \in Admission!Identities /\ q # None
      BY <1>5, RequestIdentity DEF Admission!TypeOK
  <2>3. \A q \in byId : byIdempotency[q.identity] = q BY <1>5 DEF Admission!IndexesAgree
  <2>4. \A q \in byId : q.identity # r.identity BY <1>2, <2>2, <2>3
  <2>5. \A q \in byId' : byIdempotency'[q.identity] = q
      BY <1>2, <1>4, <2>1, <2>2, <2>3, <2>4
  <2>6. \A i \in Admission!Identities : byIdempotency'[i] # None =>
           byIdempotency'[i] \in byId' /\ byIdempotency'[i].identity = i
      BY <1>2, <1>5, <2>1 DEF Admission!IndexesAgree
  <2> QED BY <2>5, <2>6 DEF Admission!IndexesAgree
<1>10. \A d \in Callers : Asks(call'[d]) BY <1>4, <1>6, <1>7 DEF AdmissionInv, Asks
<1>11. Admission!AnswersAreAdmitted'
  <2>1. \A d \in Callers : call'[d].request # None =>
           call'[d].request \in byId' /\ call'[d].request = call'[d].asked
      BY <1>2, <1>5, <1>6, <1>7 DEF Admission!AnswersAreAdmitted
  <2>2. \A d \in Callers : call[d].outcome = "Created" => call[d].request \in byId
      BY <1>5 DEF AdmissionInv, Asks, Admission!AnswersAreAdmitted
  <2>3. \A d, e \in Callers :
           d # e /\ call'[d].outcome = "Created" /\ call'[e].outcome = "Created" =>
              call'[d].request # call'[e].request
      BY <1>2, <1>5, <1>6, <1>7, <2>2 DEF Admission!AnswersAreAdmitted
  <2> QED BY <2>1, <2>3 DEF Admission!AnswersAreAdmitted
<1> QED BY <1>8, <1>9, <1>10, <1>11 DEF AdmissionInv

\* The steps of the request service that admit nothing.
LEMMA AdmissionRefuses ==
    ASSUME AdmissionInv, NEW c \in Callers,
           \/ Admission!CommitFails(c)
           \/ Admission!AdmitAgain(c)
           \/ Admission!Return(c)
           \/ \E r \in Admission!Request, o \in Admission!Organizations :
                 Admission!Reconstruct(c, r, o)
    PROVE  AdmissionInv'
<1> DEFINE answer(asked, r, outcome) == Admission!Frame("done", asked, r, outcome)
<1>1. ASSUME NEW asked \in Admission!Request \cup {None},
             NEW outcome \in {"PersistenceFailure", "IdempotencyConflict", "NotFound"},
             call' = [call EXCEPT ![c] = answer(asked, None, outcome)], Admission!ReadOnly
      PROVE  AdmissionInv'
  <2>1. answer(asked, None, outcome) \in Admission!CallState
      BY DEF Admission!Frame, Admission!CallState, Admission!Outcome
  <2>2. /\ Asks(answer(asked, None, outcome))
        /\ answer(asked, None, outcome).outcome # "Created"
        /\ answer(asked, None, outcome).request = None
      BY DEF Admission!Frame, Asks
  <2> HIDE DEF answer
  <2> QED BY <1>1, <2>1, <2>2, AdmissionFrame
<1>2. ASSUME NEW r \in byId, NEW outcome \in {"ExistingEquivalent", "Reconstructed"},
             call' = [call EXCEPT ![c] = answer(r, r, outcome)], Admission!ReadOnly
      PROVE  AdmissionInv'
  <2>0. r \in Admission!Request BY DEF AdmissionInv, Admission!TypeOK
  <2>1. answer(r, r, outcome) \in Admission!CallState
      BY <2>0 DEF Admission!Frame, Admission!CallState, Admission!Outcome
  <2>2. /\ Asks(answer(r, r, outcome))
        /\ answer(r, r, outcome).outcome # "Created"
        /\ answer(r, r, outcome).request = r /\ answer(r, r, outcome).asked = r
      BY DEF Admission!Frame, Asks
  <2> HIDE DEF answer
  <2> QED BY <1>2, <2>1, <2>2, AdmissionFrame
<1>3. call[c].pc = "admit" => call[c].asked \in Admission!Request BY DEF AdmissionInv, Asks
<1>4. CASE Admission!CommitFails(c)
    BY <1>1, <1>3, <1>4 DEF Admission!CommitFails, Admission!Answer
<1>5. CASE Admission!AdmitAgain(c)
  <2>1. call[c].asked.identity \in Admission!Identities
      BY <1>3, <1>5, RequestIdentity DEF Admission!AdmitAgain
  <2>2. Admission!Prior(c) \in byId
      BY <1>5, <2>1 DEF Admission!AdmitAgain, Admission!Prior, AdmissionInv,
                        Admission!IndexesAgree
  <2> QED BY <1>1, <1>2, <1>3, <1>5, <2>2 DEF Admission!AdmitAgain, Admission!Answer
<1>6. CASE Admission!Return(c)
  <2>1. Admission!Idle \in Admission!CallState
      BY DEF Admission!Idle, Admission!Frame, Admission!CallState
  <2>2. Asks(Admission!Idle) /\ Admission!Idle.outcome # "Created"
        /\ Admission!Idle.request = None
      BY PlanningAssumption
         DEF Admission!Idle, Admission!Frame, Asks, Admission!NoneAssumption, Admission!Outcome
  <2> QED BY <1>6, <2>1, <2>2, AdmissionFrame DEF Admission!Return
<1>7. ASSUME NEW r \in Admission!Request, NEW o \in Admission!Organizations,
             Admission!Reconstruct(c, r, o)
      PROVE  AdmissionInv'
    BY <1>1, <1>2, <1>7 DEF Admission!Reconstruct
<1> QED BY <1>4, <1>5, <1>6, <1>7

\* Every step of the request service keeps its invariant.
LEMMA AdmissionNext == AdmissionInv /\ [Admission!Next]_(Admission!vars) => AdmissionInv'
<1> SUFFICES ASSUME AdmissionInv, [Admission!Next]_(Admission!vars) PROVE AdmissionInv'
    OBVIOUS
<1>1. CASE UNCHANGED Admission!vars
  <2>1. byId' = byId /\ byIdempotency' = byIdempotency /\ call' = call
      BY <1>1 DEF Admission!vars
  <2>2. Admission!TypeOK' /\ Admission!IndexesAgree' /\ Admission!AnswersAreAdmitted'
      BY <2>1 DEF AdmissionInv, Admission!TypeOK, Admission!IndexesAgree,
                  Admission!AnswersAreAdmitted
  <2>3. \A c \in Callers : Asks(call'[c]) BY <2>1, Zenon DEF AdmissionInv
  <2> QED BY <2>2, <2>3 DEF AdmissionInv
<1>2. CASE Admission!Next
    BY <1>2, AdmissionSubmit, AdmissionNew, AdmissionRefuses
       DEF Admission!Next, Admission!CallStep
<1> QED BY <1>1, <1>2

\* An empty request repository.
LEMMA AdmissionInit == Admission!Init => AdmissionInv
<1> SUFFICES ASSUME Admission!Init PROVE AdmissionInv OBVIOUS
<1>1. Admission!Idle \in Admission!CallState
    BY DEF Admission!Idle, Admission!Frame, Admission!CallState
<1>2. Asks(Admission!Idle) /\ Admission!Idle.request = None
      /\ Admission!Idle.outcome # "Created"
    BY PlanningAssumption
       DEF Admission!Idle, Admission!Frame, Asks, Admission!NoneAssumption, Admission!Outcome
<1>3. \A c \in Callers : call[c] = Admission!Idle BY DEF Admission!Init
<1>4. Admission!TypeOK BY <1>1 DEF Admission!Init, Admission!TypeOK
<1>5. Admission!IndexesAgree BY DEF Admission!Init, Admission!IndexesAgree
<1>6. Admission!AnswersAreAdmitted BY <1>2, <1>3 DEF Admission!AnswersAreAdmitted
<1> QED BY <1>2, <1>3, <1>4, <1>5, <1>6 DEF AdmissionInv

-----------------------------------------------------------------------------
(* The plan service                                                         *)

\* What one planner holds, against what is planned, admitted and retained.
Holds(frame, records, requests, verdicts) ==
    /\ frame \in PlannerState
    /\ frame.pc \in {"validation", "append"} =>
          /\ frame.input \in Input /\ frame.input.request \in requests
          /\ frame.outcome = None
    /\ frame.pc = "append" =>
          /\ frame.input.validation \in verdicts
          /\ Applies(frame.input.validation, frame.input.request)
          /\ frame.input.key # EmptyKey
    /\ frame.pc = "rebuild" => frame.record \in records
    /\ frame.outcome \in {"Created", "ExistingEquivalent"} =>
          frame.record \in records /\ frame.record.plan = BuildPlan(frame.input)
    /\ frame.outcome \notin {"ReconstructionFailed", "ReplayDiverged"}

\* No two planners both created a record.
OneCreator ==
    \A p, q \in Planners :
       p # q /\ planner[p].outcome = "Created" /\ planner[q].outcome = "Created" =>
          planner[p].record # planner[q].record

PlanInv ==
    /\ AdmissionInv
    /\ TypeOK
    /\ IndexesAgree
    /\ OneCanonicalPlan
    /\ PlansRestOnAcceptedEvidence
    /\ \A p \in Planners : Holds(planner[p], plans, byId, evidence)
    /\ OneCreator

\* A planning input names a request of the request service, and the plan it makes
\* is for that request.
LEMMA InputFields ==
    ASSUME NEW i \in Input
    PROVE  /\ i.request \in Admission!Request /\ i.validation \in Validations
           /\ i.key \in Keys /\ i.expected \in Nat
           /\ BuildPlan(i) \in Plan
           /\ BuildPlan(i).request = i.request /\ BuildPlan(i).validation = i.validation
           /\ i.key # EmptyKey => Identity(i) \in Identities /\ Identity(i)[1] = i.request
BY DEF Input, BuildPlan, Plan, Identity, Identities

\* A step that changes one planner's frame, and creates nothing.
LEMMA FrameStep ==
    ASSUME PlanInv, NEW p \in Planners, NEW frame,
           Holds(frame, plans, byId, evidence), frame.outcome # "Created",
           planner' = [planner EXCEPT ![p] = frame], ReadOnly
    PROVE  PlanInv'
<1>1. /\ byId' = byId /\ byIdempotency' = byIdempotency /\ call' = call
      /\ evidence' = evidence /\ streams' = streams /\ plans' = plans
      /\ idempotency' = idempotency /\ current' = current
    BY DEF ReadOnly, Elsewhere, requestVars, repository
<1>2. \A q \in Planners : planner'[q] = IF q = p THEN frame ELSE planner[q]
    BY DEF PlanInv, TypeOK
<1>3. planner' \in [Planners -> PlannerState] BY DEF PlanInv, TypeOK, Holds
<1>4. AdmissionInv'
  <2>1. UNCHANGED Admission!vars BY <1>1 DEF Admission!vars
  <2> QED BY <2>1, AdmissionNext DEF PlanInv
<1>5. TypeOK' BY <1>1, <1>3, <1>4 DEF PlanInv, TypeOK, AdmissionInv
<1>6. IndexesAgree'
  <2>1. plans' = UNION {{streams'[r][n] : n \in DOMAIN streams'[r]} : r \in Admission!Request}
      BY <1>1 DEF PlanInv, IndexesAgree
  <2>2. \A r \in Admission!Request :
           /\ \A n \in DOMAIN streams'[r] :
                 streams'[r][n].version = n /\ streams'[r][n].plan.request = r
           /\ current'[r] = IF streams'[r] = <<>> THEN None
                            ELSE streams'[r][Len(streams'[r])].plan
      BY <1>1 DEF PlanInv, IndexesAgree
  <2>3. /\ \A i \in Identities : idempotency'[i] # None =>
              idempotency'[i] \in plans' /\ idempotency'[i].plan.request = i[1]
        /\ \A x \in plans' : \E i \in Identities : idempotency'[i] = x
      BY <1>1 DEF PlanInv, IndexesAgree
  <2> QED BY <2>1, <2>2, <2>3 DEF IndexesAgree
<1>7. OneCanonicalPlan' /\ PlansRestOnAcceptedEvidence'
    BY <1>1 DEF PlanInv, OneCanonicalPlan, PlansRestOnAcceptedEvidence
<1>8. \A q \in Planners : Holds(planner'[q], plans', byId', evidence')
    BY <1>1, <1>2, Zenon DEF PlanInv
<1>9. OneCreator' BY <1>2 DEF PlanInv, OneCreator
<1> QED BY <1>4, <1>5, <1>6, <1>7, <1>8, <1>9 DEF PlanInv

\* What derive may raise.
Errors == {"RequestInvalid", "Invalid", "IdempotencyConflict", "VersionConflict",
           "PersistenceFailure"}

\* An error answered to the planner leaves the invariant as it was.
LEMMA ErrorStep ==
    ASSUME PlanInv, NEW p \in Planners, NEW outcome \in Errors,
           NEW input \in Input \cup {None},
           planner' = [planner EXCEPT ![p] = Frame("done", input, None, outcome)], ReadOnly
    PROVE  PlanInv'
<1> DEFINE frame == Frame("done", input, None, outcome)
<1>1. frame \in PlannerState BY DEF Frame, PlannerState, Outcome, Errors
<1>2. Holds(frame, plans, byId, evidence) BY <1>1 DEF Holds, Frame, Errors
<1>3. frame.outcome # "Created" BY DEF Frame, Errors
<1> QED BY <1>2, <1>3, FrameStep

\* accepted_requests.record: the request is admitted, and stays so.
LEMMA LookUpRequestStep ==
    ASSUME PlanInv, NEW p \in Planners, NEW i \in Inputs, LookUpRequest(p, i)
    PROVE  PlanInv'
<1> DEFINE frame == Frame("validation", i, None, None)
<1>1. i \in Input BY PlanningAssumption
<1>2. CASE i.request \in byId /\ i.request.identity[1] = i.scope
  <2>1. frame \in PlannerState BY <1>1 DEF Frame, PlannerState
  <2>2. Holds(frame, plans, byId, evidence)
      BY <1>1, <1>2, <2>1, NoneAssumption DEF Holds, Frame, Outcome
  <2>3. frame.outcome # "Created" BY NoneAssumption DEF Frame, Outcome
  <2> QED BY <1>2, <2>2, <2>3, FrameStep DEF LookUpRequest
<1>3. CASE ~(i.request \in byId /\ i.request.identity[1] = i.scope)
    BY <1>1, <1>3, ErrorStep DEF LookUpRequest, Errors
<1> QED BY <1>2, <1>3

\* validation_evidence.get: the verdict is retained, and stays so.
LEMMA LookUpValidationStep ==
    ASSUME PlanInv, NEW p \in Planners, LookUpValidation(p)
    PROVE  PlanInv'
<1> DEFINE i == planner[p].input
           frame == Frame("append", i, planner[p].record, planner[p].outcome)
<1>1. planner[p] \in PlannerState /\ Holds(planner[p], plans, byId, evidence)
      /\ planner[p].pc = "validation"
    BY DEF PlanInv, TypeOK, LookUpValidation
<1>2. i \in Input /\ i.request \in byId BY <1>1 DEF Holds
<1>3. CASE i.validation \in evidence /\ Applies(i.validation, i.request) /\ i.key # EmptyKey
  <2>1. planner' = [planner EXCEPT ![p].pc = "append"] /\ ReadOnly
      BY <1>3 DEF LookUpValidation
  <2>2. [planner[p] EXCEPT !.pc = "append"] = frame BY <1>1 DEF PlannerState, Frame
  <2>3. planner' = [planner EXCEPT ![p] = frame]
      BY <2>1, <2>2 DEF PlanInv, TypeOK
  <2>4. frame \in PlannerState BY <1>1 DEF PlannerState, Frame
  <2>5. Holds(frame, plans, byId, evidence) BY <1>1, <1>2, <1>3, <2>4 DEF Holds, Frame
  <2>6. frame.outcome # "Created" BY <1>1, NoneAssumption DEF Holds, Frame, Outcome
  <2> QED BY <2>1, <2>3, <2>5, <2>6, FrameStep
<1>4. CASE ~(i.validation \in evidence /\ Applies(i.validation, i.request)
             /\ i.key # EmptyKey)
    BY <1>2, <1>4, ErrorStep DEF LookUpValidation, Answer, Errors
<1> QED BY <1>3, <1>4

\* Admissions and verdicts are never taken back, so what rests on them goes on
\* resting on them while more arrive.
LEMMA MoreEvidence ==
    ASSUME PlanInv, AdmissionInv', byId \subseteq byId',
           evidence \subseteq evidence', evidence' \subseteq Validations,
           streams' = streams, plans' = plans, idempotency' = idempotency,
           current' = current, planner' = planner
    PROVE  PlanInv'
<1>1. TypeOK' BY DEF PlanInv, TypeOK, AdmissionInv
<1>2. IndexesAgree'
  <2>1. plans' = UNION {{streams'[r][n] : n \in DOMAIN streams'[r]} : r \in Admission!Request}
      BY DEF PlanInv, IndexesAgree
  <2>2. \A r \in Admission!Request :
           /\ \A n \in DOMAIN streams'[r] :
                 streams'[r][n].version = n /\ streams'[r][n].plan.request = r
           /\ current'[r] = IF streams'[r] = <<>> THEN None
                            ELSE streams'[r][Len(streams'[r])].plan
      BY DEF PlanInv, IndexesAgree
  <2>3. /\ \A i \in Identities : idempotency'[i] # None =>
              idempotency'[i] \in plans' /\ idempotency'[i].plan.request = i[1]
        /\ \A x \in plans' : \E i \in Identities : idempotency'[i] = x
      BY DEF PlanInv, IndexesAgree
  <2> QED BY <2>1, <2>2, <2>3 DEF IndexesAgree
<1>3. OneCanonicalPlan' /\ OneCreator' BY DEF PlanInv, OneCanonicalPlan, OneCreator
<1>4. PlansRestOnAcceptedEvidence' BY DEF PlanInv, PlansRestOnAcceptedEvidence
<1>5. \A p \in Planners : Holds(planner'[p], plans', byId', evidence')
    BY DEF PlanInv, Holds
<1> QED BY <1>1, <1>2, <1>3, <1>4, <1>5 DEF PlanInv

\* The request service only admits.
LEMMA AdmissionGrows ==
    ASSUME [Admission!Next]_(Admission!vars)
    PROVE  byId \subseteq byId'
<1>1. CASE UNCHANGED Admission!vars BY <1>1 DEF Admission!vars
<1>2. CASE Admission!Next
    BY <1>2 DEF Admission!Next, Admission!CallStep, Admission!Submit, Admission!Reconstruct,
                Admission!AdmitNew, Admission!CommitFails, Admission!AdmitAgain,
                Admission!Return, Admission!ReadOnly
<1> QED BY <1>1, <1>2

\* A step of the request service, and evidence that arrives.
LEMMA OthersStep ==
    ASSUME PlanInv,
           \/ Admission!Next /\ UNCHANGED <<evidence, repository, planner>>
           \/ \E v \in Validations : Retain(v)
    PROVE  PlanInv'
<1>1. AdmissionInv /\ evidence \subseteq Validations BY DEF PlanInv, TypeOK
<1>2. CASE Admission!Next /\ UNCHANGED <<evidence, repository, planner>>
  <2>1. AdmissionInv' BY <1>1, <1>2, AdmissionNext
  <2>2. byId \subseteq byId' BY <1>2, AdmissionGrows
  <2> QED BY <1>1, <1>2, <2>1, <2>2, MoreEvidence DEF repository
<1>3. ASSUME NEW v \in Validations, Retain(v) PROVE PlanInv'
  <2>1. UNCHANGED Admission!vars BY <1>3 DEF Retain, requestVars, Admission!vars
  <2>2. AdmissionInv' BY <1>1, <2>1, AdmissionNext
  <2>3. byId' = byId BY <2>1 DEF Admission!vars
  <2>4. evidence' = evidence \cup {v} BY <1>3 DEF Retain
  <2>5. streams' = streams /\ plans' = plans /\ idempotency' = idempotency
        /\ current' = current /\ planner' = planner
      BY <1>3 DEF Retain, repository
  <2> QED BY <1>1, <2>2, <2>3, <2>4, <2>5, MoreEvidence
<1> QED BY <1>2, <1>3

\* A planner about to append holds an input whose request is admitted and whose
\* evidence applies to it.
LEMMA AppendHolds ==
    ASSUME PlanInv, NEW p \in Planners, planner[p].pc = "append"
    PROVE  LET i == planner[p].input
           IN  /\ planner[p] \in PlannerState /\ i \in Input
               /\ i.request \in byId /\ i.validation \in evidence
               /\ Applies(i.validation, i.request)
               /\ Identity(i) \in Identities /\ Identity(i)[1] = i.request
<1>1. Holds(planner[p], plans, byId, evidence) BY DEF PlanInv
<1> QED BY <1>1, InputFields DEF Holds

\* append refuses or answers with the earlier commit: nothing is committed.
LEMMA AppendLosesStep ==
    ASSUME PlanInv, NEW p \in Planners, AppendLoses(p)
    PROVE  PlanInv'
<1> DEFINE i == planner[p].input
           frame == Frame("done", i, Prior(p), "ExistingEquivalent")
<1>1. planner[p].pc = "append" /\ ReadOnly BY DEF AppendLoses
<1>2. i \in Input /\ Identity(i) \in Identities BY <1>1, AppendHolds
<1>3. CASE Prior(p) # None /\ Prior(p).plan = BuildPlan(i)
  <2>1. Prior(p) \in plans BY <1>2, <1>3 DEF PlanInv, IndexesAgree, Prior
  <2>2. Prior(p) \in Record BY <2>1 DEF PlanInv, TypeOK
  <2>3. frame \in PlannerState BY <1>2, <2>2 DEF Frame, PlannerState, Outcome
  <2>4. Holds(frame, plans, byId, evidence) BY <1>3, <2>1, <2>3, NoneAssumption DEF Holds, Frame
  <2>5. frame.outcome # "Created" BY DEF Frame
  <2>6. planner' = [planner EXCEPT ![p] = frame] BY <1>3 DEF AppendLoses, Answer
  <2> QED BY <1>1, <2>4, <2>5, <2>6, FrameStep
<1>4. CASE ~(Prior(p) # None /\ Prior(p).plan = BuildPlan(i))
  <2>1. PICK outcome \in {"IdempotencyConflict", "VersionConflict"} : Answer(p, outcome, None)
      BY <1>4 DEF AppendLoses
  <2> QED BY <1>1, <1>2, <2>1, ErrorStep DEF Answer, Errors
<1> QED BY <1>3, <1>4

\* Membership in plans, read off the streams.
LEMMA Committed ==
    ASSUME IndexesAgree
    PROVE  \A x : x \in plans <=> \E r \in Admission!Request :
                                     \E n \in DOMAIN streams[r] : x = streams[r][n]
<1> DEFINE of(r) == {streams[r][n] : n \in DOMAIN streams[r]}
<1>1. plans = UNION {of(r) : r \in Admission!Request} BY DEF IndexesAgree
<1>2. \A r, x : x \in of(r) <=> \E n \in DOMAIN streams[r] : x = streams[r][n] OBVIOUS
<1> HIDE DEF of
<1>3. \A x : x \in plans <=> \E r \in Admission!Request : x \in of(r) BY <1>1
<1> QED BY <1>2, <1>3

\* reconstruct: the history is contiguous, and the plan is derived again from what
\* its record says it was derived from.
LEMMA RebuildStep ==
    ASSUME PlanInv, NEW p \in Planners, Rebuild(p)
    PROVE  PlanInv'
<1> DEFINE x == planner[p].record
           frame == Frame("done", planner[p].input, x, "Reconstructed")
<1>1. planner[p] \in PlannerState /\ Holds(planner[p], plans, byId, evidence)
      /\ planner[p].pc = "rebuild"
    BY DEF PlanInv, TypeOK, Rebuild
<1>2. x \in plans BY <1>1 DEF Holds
<1>3. x \in Record BY <1>2 DEF PlanInv, TypeOK
<1>4. x.plan \in Plan /\ x.plan.request \in Admission!Request BY <1>3 DEF Record, Plan
<1>5. \A n \in DOMAIN streams[x.plan.request] : streams[x.plan.request][n].version = n
    BY <1>4 DEF PlanInv, IndexesAgree
<1>6. BuildPlan(PlanningInputOf(x.plan)) = x.plan
    BY <1>4 DEF BuildPlan, PlanningInputOf, Plan
<1>7. planner' = [planner EXCEPT ![p] = frame] /\ ReadOnly
    BY <1>5, <1>6 DEF Rebuild, Answer
<1>8. frame \in PlannerState BY <1>1, <1>3 DEF Frame, PlannerState, Outcome
<1>9. Holds(frame, plans, byId, evidence) BY <1>8, NoneAssumption DEF Holds, Frame
<1>10. frame.outcome # "Created" BY DEF Frame
<1> QED BY <1>7, <1>9, <1>10, FrameStep

\* The remaining steps of one planner.
LEMMA PlannerOnlyStep ==
    ASSUME PlanInv, NEW p \in Planners,
           \/ CommitFails(p)
           \/ Return(p)
           \/ \E x \in plans : Reconstruct(p, x)
    PROVE  PlanInv'
<1>1. CASE CommitFails(p)
  <2>1. planner[p].input \in Input BY <1>1, AppendHolds DEF CommitFails
  <2> QED BY <1>1, <2>1, ErrorStep DEF CommitFails, Answer, Errors
<1>2. CASE Return(p)
  <2>1. Idle \in PlannerState BY DEF Idle, Frame, PlannerState
  <2>2. Holds(Idle, plans, byId, evidence)
      BY <2>1, NoneAssumption DEF Holds, Idle, Frame, Outcome
  <2>3. Idle.outcome # "Created" BY NoneAssumption DEF Idle, Frame, Outcome
  <2> QED BY <1>2, <2>2, <2>3, FrameStep DEF Return
<1>3. ASSUME NEW x \in plans, Reconstruct(p, x) PROVE PlanInv'
  <2> DEFINE frame == Frame("rebuild", None, x, None)
  <2>1. frame \in PlannerState BY DEF Frame, PlannerState, PlanInv, TypeOK
  <2>2. Holds(frame, plans, byId, evidence)
      BY <2>1, NoneAssumption DEF Holds, Frame, Outcome
  <2>3. frame.outcome # "Created" BY NoneAssumption DEF Frame, Outcome
  <2> QED BY <1>3, <2>2, <2>3, FrameStep DEF Reconstruct
<1> QED BY <1>1, <1>2, <1>3

\* What the commit of a plan is: the record is new to every index.
LEMMA AppendEffect ==
    ASSUME PlanInv, NEW p \in Planners, AppendPlan(p)
    PROVE  LET i == planner[p].input
               r == i.request
               x == Candidate(p)
           IN  /\ r \in Admission!Request /\ x \in Record
               /\ x.plan = BuildPlan(i) /\ x.version = Len(streams[r]) + 1
               /\ x.plan.request = r /\ x.plan.validation = i.validation
               /\ Prior(p) = None
               /\ \A y \in plans : y.plan # x.plan
               /\ streams' = [streams EXCEPT ![r] = Append(streams[r], x)]
               /\ plans' = plans \cup {x}
               /\ idempotency' = [idempotency EXCEPT ![Identity(i)] = x]
               /\ current' = [current EXCEPT ![r] = x.plan]
               /\ planner' = [planner EXCEPT ![p] = Frame("done", i, x, "Created")]
               /\ UNCHANGED <<requestVars, evidence>>
<1> DEFINE i == planner[p].input
           r == i.request
           x == Candidate(p)
<1>1. i \in Input BY AppendHolds DEF AppendPlan
<1>2. r \in Admission!Request /\ BuildPlan(i) \in Plan
      /\ BuildPlan(i).request = r /\ BuildPlan(i).validation = i.validation
    BY <1>1, InputFields
<1>3. Len(streams[r]) \in Nat BY <1>2 DEF PlanInv, TypeOK
<1>4. x \in Record /\ x.plan = BuildPlan(i) /\ x.version = Len(streams[r]) + 1
    BY <1>2, <1>3 DEF Candidate, Version, Record
<1>5. \A y \in plans : y.plan # x.plan
  <2>1. \A y \in plans : PlanId(y.plan) # PlanId(i) BY DEF AppendPlan, Known
  <2>2. PlanId(BuildPlan(i)) = PlanId(i) BY DEF PlanId, BuildPlan
  <2> QED BY <1>4, <2>1, <2>2
<1>6. /\ Prior(p) = None
      /\ streams' = [streams EXCEPT ![r] = Append(streams[r], x)]
      /\ plans' = plans \cup {x}
      /\ idempotency' = [idempotency EXCEPT ![Identity(i)] = x]
      /\ current' = [current EXCEPT ![r] = x.plan]
      /\ planner' = [planner EXCEPT ![p] = Frame("done", i, x, "Created")]
      /\ UNCHANGED <<requestVars, evidence>>
    BY DEF AppendPlan, Answer, Elsewhere
<1> QED BY <1>2, <1>4, <1>5, <1>6

\* Where the commit lands in the streams.
LEMMA StreamsAfter ==
    ASSUME PlanInv, NEW p \in Planners, AppendPlan(p), NEW t \in Admission!Request
    PROVE  LET x == Candidate(p)
           IN  IF t = planner[p].input.request
               THEN /\ DOMAIN streams'[t] = DOMAIN streams[t] \cup {Len(streams[t]) + 1}
                    /\ \A n \in DOMAIN streams[t] : streams'[t][n] = streams[t][n]
                    /\ streams'[t][Len(streams[t]) + 1] = x
                    /\ Len(streams'[t]) = Len(streams[t]) + 1
                    /\ streams'[t] = Append(streams[t], x)
               ELSE streams'[t] = streams[t]
<1> DEFINE x == Candidate(p)
           r == planner[p].input.request
<1>1. streams' = [streams EXCEPT ![r] = Append(streams[r], x)] BY AppendEffect
<1>2. streams[t] \in Seq(Record) BY DEF PlanInv, TypeOK
<1>3. streams'[t] = IF t = r THEN Append(streams[t], x) ELSE streams[t]
    BY <1>1 DEF PlanInv, TypeOK
<1> HIDE DEF x, r
<1>4. CASE t = r
  <2> DEFINE h == streams[t]
  <2>1. DOMAIN h = 1 .. Len(h) /\ Len(h) \in Nat BY <1>2
  <2>2. Append(h, x) \in Seq(Record \cup {x}) /\ Len(Append(h, x)) = Len(h) + 1
      BY <1>2
  <2>3. DOMAIN Append(h, x) = 1 .. (Len(h) + 1) BY <2>2
  <2>4. \A n \in 1 .. Len(h) : Append(h, x)[n] = h[n] BY <1>2
  <2>5. Append(h, x)[Len(h) + 1] = x BY <1>2
  <2>6. 1 .. (Len(h) + 1) = (1 .. Len(h)) \cup {Len(h) + 1} BY <2>1
  <2> HIDE DEF h
  <2>7. /\ DOMAIN streams'[t] = DOMAIN streams[t] \cup {Len(streams[t]) + 1}
        /\ \A n \in DOMAIN streams[t] : streams'[t][n] = streams[t][n]
        /\ streams'[t][Len(streams[t]) + 1] = x
        /\ Len(streams'[t]) = Len(streams[t]) + 1
        /\ streams'[t] = Append(streams[t], x)
      BY <1>3, <1>4, <2>1, <2>2, <2>3, <2>4, <2>5, <2>6 DEF h
  <2> QED BY <1>4, <2>7 DEF x, r
<1>5. CASE t # r BY <1>3, <1>5 DEF x, r
<1> QED BY <1>4, <1>5

\* The commit keeps the types.
LEMMA TypeAppend ==
    ASSUME PlanInv, NEW p \in Planners, AppendPlan(p)
    PROVE  TypeOK' /\ AdmissionInv'
<1> DEFINE i == planner[p].input
           r == i.request
           x == Candidate(p)
<1>1. /\ r \in Admission!Request /\ x \in Record /\ x.plan = BuildPlan(i)
      /\ streams' = [streams EXCEPT ![r] = Append(streams[r], x)]
      /\ plans' = plans \cup {x}
      /\ idempotency' = [idempotency EXCEPT ![Identity(i)] = x]
      /\ current' = [current EXCEPT ![r] = x.plan]
      /\ planner' = [planner EXCEPT ![p] = Frame("done", i, x, "Created")]
      /\ UNCHANGED <<requestVars, evidence>>
    BY AppendEffect
<1>2. i \in Input BY AppendHolds DEF AppendPlan
<1>3. TypeOK BY DEF PlanInv
<1> HIDE DEF i, r, x
<1>4. UNCHANGED Admission!vars BY <1>1 DEF requestVars, Admission!vars
<1>5. AdmissionInv' BY <1>4, AdmissionNext DEF PlanInv
<1>6. Frame("done", i, x, "Created") \in PlannerState
    BY <1>1, <1>2 DEF Frame, PlannerState, Outcome
<1>7. planner' \in [Planners -> PlannerState] BY <1>1, <1>3, <1>6 DEF TypeOK
<1>8. Append(streams[r], x) \in Seq(Record) BY <1>1, <1>3 DEF TypeOK
<1>9. streams' \in [Admission!Request -> Seq(Record)] BY <1>1, <1>3, <1>8 DEF TypeOK
<1>10. x.plan \in Plan BY <1>1 DEF Record
<1>11. current' \in [Admission!Request -> Plan \cup {None}]
    BY <1>1, <1>3, <1>10 DEF TypeOK
<1>12. idempotency' \in [Identities -> Record \cup {None}] BY <1>1, <1>3 DEF TypeOK
<1>13. evidence' \subseteq Validations /\ plans' \subseteq Record BY <1>1, <1>3 DEF TypeOK
<1> QED BY <1>5, <1>7, <1>9, <1>11, <1>12, <1>13 DEF TypeOK, AdmissionInv

\* The four indexes, published together, describe the same plans.
LEMMA IndexesAppend ==
    ASSUME PlanInv, NEW p \in Planners, AppendPlan(p)
    PROVE  IndexesAgree'
<1> DEFINE i == planner[p].input
           r == i.request
           x == Candidate(p)
           n == Len(streams[r]) + 1
<1>1. /\ r \in Admission!Request /\ x \in Record
      /\ x.version = n /\ x.plan.request = r
      /\ Prior(p) = None
      /\ plans' = plans \cup {x}
      /\ idempotency' = [idempotency EXCEPT ![Identity(i)] = x]
      /\ current' = [current EXCEPT ![r] = x.plan]
    BY AppendEffect
<1>2. IndexesAgree /\ TypeOK BY DEF PlanInv
<1>3. \A t \in Admission!Request : t # r => streams'[t] = streams[t] BY StreamsAfter
<1>4. /\ DOMAIN streams'[r] = DOMAIN streams[r] \cup {n}
      /\ \A m \in DOMAIN streams[r] : streams'[r][m] = streams[r][m]
      /\ streams'[r][n] = x
      /\ Len(streams'[r]) = n
    BY <1>1, StreamsAfter
<1>5. Identity(i) \in Identities /\ Identity(i)[1] = r /\ idempotency[Identity(i)] = None
    BY <1>1, AppendHolds DEF AppendPlan, Prior
<1>6. n # 0 /\ n \in Nat
  <2>1. Len(streams[r]) \in Nat BY <1>1, <1>2 DEF TypeOK
  <2> QED BY <2>1
<1>7. x # None BY <1>1, NoneAssumption
<1> HIDE DEF i, x, r, n
<1>8. plans' = UNION {{streams'[t][m] : m \in DOMAIN streams'[t]} : t \in Admission!Request}
  <2> DEFINE held(t) == {streams[t][m] : m \in DOMAIN streams[t]}
             after(t) == {streams'[t][m] : m \in DOMAIN streams'[t]}
  <2>1. plans = UNION {held(t) : t \in Admission!Request} BY <1>2 DEF IndexesAgree
  <2>2. \A t \in Admission!Request : t # r => after(t) = held(t) BY <1>3
  <2>3. after(r) = held(r) \cup {x} BY <1>4
  <2> HIDE DEF held, after
  <2>4. UNION {after(t) : t \in Admission!Request}
           = (UNION {held(t) : t \in Admission!Request}) \cup {x}
      BY <1>1, <2>2, <2>3
  <2>5. plans' = UNION {after(t) : t \in Admission!Request} BY <1>1, <2>1, <2>4
  <2> QED BY <2>5 DEF after
<1>9. \A t \in Admission!Request : \A m \in DOMAIN streams'[t] :
         streams'[t][m].version = m /\ streams'[t][m].plan.request = t
  <2>1. \A t \in Admission!Request : \A m \in DOMAIN streams[t] :
           streams[t][m].version = m /\ streams[t][m].plan.request = t
      BY <1>2 DEF IndexesAgree
  <2> QED BY <1>1, <1>3, <1>4, <2>1
<1>10. \A t \in Admission!Request :
          current'[t] = IF streams'[t] = <<>> THEN None
                        ELSE streams'[t][Len(streams'[t])].plan
  <2>1. \A t \in Admission!Request : t # r => current'[t] = current[t]
      BY <1>1, <1>2 DEF TypeOK
  <2>2. current'[r] = x.plan BY <1>1, <1>2 DEF TypeOK
  <2>3. streams'[r] # <<>>
    <3>1. Len(<<>>) = 0 OBVIOUS
    <3> QED BY <1>4, <1>6, <3>1
  <2>4. ASSUME NEW t \in Admission!Request, t # r
        PROVE  current'[t] = IF streams'[t] = <<>> THEN None
                             ELSE streams'[t][Len(streams'[t])].plan
    <3>1. streams'[t] = streams[t] /\ current'[t] = current[t] BY <1>3, <2>1, <2>4
    <3> QED BY <1>2, <3>1 DEF IndexesAgree
  <2> QED BY <1>4, <2>2, <2>3, <2>4
<1>11. \A o \in Identities : idempotency'[o] = IF o = Identity(i) THEN x
                                               ELSE idempotency[o]
    BY <1>1, <1>2 DEF TypeOK
<1>12. \A o \in Identities : idempotency'[o] # None =>
          idempotency'[o] \in plans' /\ idempotency'[o].plan.request = o[1]
  <2>1. \A o \in Identities : idempotency[o] # None =>
           idempotency[o] \in plans /\ idempotency[o].plan.request = o[1]
      BY <1>2 DEF IndexesAgree
  <2> QED BY <1>1, <1>5, <1>11, <2>1
<1>13. \A y \in plans' : \E o \in Identities : idempotency'[o] = y
  <2>1. \A y \in plans : y # None BY <1>2, NoneAssumption DEF TypeOK
  <2>2. ASSUME NEW y \in plans PROVE \E o \in Identities : idempotency'[o] = y
    <3>1. PICK o \in Identities : idempotency[o] = y BY <1>2 DEF IndexesAgree
    <3>2. o # Identity(i) BY <1>5, <2>1, <3>1
    <3> QED BY <1>11, <3>1, <3>2
  <2>3. \E o \in Identities : idempotency'[o] = x BY <1>5, <1>11
  <2> QED BY <1>1, <2>2, <2>3
<1> QED BY <1>8, <1>9, <1>10, <1>12, <1>13 DEF IndexesAgree

\* The planner that appends is told of its own plan, which rests on what it read
\* before it took the lock; the others keep what they hold.
LEMMA AppendPlanStep ==
    ASSUME PlanInv, NEW p \in Planners, AppendPlan(p)
    PROVE  PlanInv'
<1> DEFINE i == planner[p].input
           x == Candidate(p)
           frame == Frame("done", i, x, "Created")
<1>1. /\ x \in Record /\ x.plan = BuildPlan(i)
      /\ x.plan.request = i.request /\ x.plan.validation = i.validation
      /\ \A y \in plans : y.plan # x.plan
      /\ plans' = plans \cup {x}
      /\ planner' = [planner EXCEPT ![p] = frame]
      /\ byId' = byId /\ evidence' = evidence
    BY AppendEffect DEF requestVars
<1>2. /\ i \in Input /\ i.request \in byId /\ i.validation \in evidence
      /\ Applies(i.validation, i.request) /\ i.validation \in Validations
    BY AppendHolds, InputFields DEF AppendPlan
<1>3. frame \in PlannerState BY <1>1, <1>2 DEF Frame, PlannerState, Outcome
<1>4. Holds(frame, plans', byId', evidence') BY <1>1, <1>3 DEF Holds, Frame
<1>5. frame.record = x /\ frame.outcome = "Created" BY DEF Frame
<1> HIDE DEF i, x, frame
<1>6. \A q \in Planners : planner'[q] = IF q = p THEN frame ELSE planner[q]
    BY <1>1 DEF PlanInv, TypeOK
<1>7. \A q \in Planners : Holds(planner'[q], plans', byId', evidence')
  <2>1. \A q \in Planners : Holds(planner[q], plans, byId, evidence) BY DEF PlanInv
  <2>2. \A q \in Planners : Holds(planner[q], plans', byId', evidence')
      BY <1>1, <2>1 DEF Holds
  <2> QED BY <1>4, <1>6, <2>2
<1>8. OneCanonicalPlan' BY <1>1 DEF PlanInv, OneCanonicalPlan
<1>9. PlansRestOnAcceptedEvidence'
  <2>1. ValidationOf[i.validation] \in Verdict BY <1>2, PlanningAssumption
  <2>2. ValidationOf[i.validation] =
           [request |-> i.request, digest |-> i.request,
            scope |-> i.request.identity[1], outcome |-> "Valid"]
      BY <1>2, <2>1 DEF Applies, Verdict
  <2> QED BY <1>1, <1>2, <2>2 DEF PlanInv, PlansRestOnAcceptedEvidence
<1>10. OneCreator'
  <2>1. \A q \in Planners : planner[q].outcome = "Created" => planner[q].record \in plans
      BY DEF PlanInv, Holds
  <2>2. \A q \in Planners : planner[q].outcome = "Created" => planner[q].record # x
      BY <1>1, <2>1
  <2> QED BY <1>5, <1>6, <2>2 DEF PlanInv, OneCreator
<1> QED BY <1>7, <1>8, <1>9, <1>10, TypeAppend, IndexesAppend DEF PlanInv

\* A key that joins a retained plan leads to a record of its own request, made
\* from the very input.
LEMMA AliasPlanStep ==
    ASSUME PlanInv, NEW p \in Planners, AliasPlan(p)
    PROVE  PlanInv'
<1> DEFINE i == planner[p].input
<1>1. PICK x \in plans :
         /\ x.plan = BuildPlan(i)
         /\ idempotency' = [idempotency EXCEPT ![Identity(i)] = x]
         /\ Answer(p, "ExistingEquivalent", x)
    BY DEF AliasPlan, Known
<1> DEFINE frame == Frame("done", i, x, "ExistingEquivalent")
<1>2. /\ streams' = streams /\ plans' = plans /\ current' = current
      /\ byId' = byId /\ byIdempotency' = byIdempotency /\ call' = call
      /\ evidence' = evidence
    BY DEF AliasPlan, Elsewhere, requestVars
<1>3. planner' = [planner EXCEPT ![p] = frame] BY <1>1 DEF Answer
<1>4. i \in Input /\ Identity(i) \in Identities /\ Identity(i)[1] = i.request
    BY AppendHolds DEF AliasPlan
<1>5. TypeOK /\ IndexesAgree BY DEF PlanInv
<1>6. x \in Record /\ x # None BY <1>5, NoneAssumption DEF TypeOK
<1>7. x.plan.request = i.request BY <1>1, <1>4, InputFields
<1>8. idempotency[Identity(i)] = None BY DEF AliasPlan, Prior
<1>9. frame \in PlannerState BY <1>4, <1>6 DEF Frame, PlannerState, Outcome
<1>10. Holds(frame, plans, byId, evidence) BY <1>1, <1>9 DEF Holds, Frame
<1>11. frame.outcome # "Created" BY DEF Frame
<1> HIDE DEF i, frame
<1>12. AdmissionInv'
  <2>1. UNCHANGED Admission!vars BY <1>2 DEF Admission!vars
  <2> QED BY <2>1, AdmissionNext DEF PlanInv
<1>13. \A q \in Planners : planner'[q] = IF q = p THEN frame ELSE planner[q]
    BY <1>3, <1>5 DEF TypeOK
<1>14. TypeOK'
  <2>1. planner' \in [Planners -> PlannerState] BY <1>3, <1>5, <1>9 DEF TypeOK
  <2>2. idempotency' \in [Identities -> Record \cup {None}] BY <1>1, <1>5, <1>6 DEF TypeOK
  <2> QED BY <1>2, <1>5, <1>12, <2>1, <2>2 DEF TypeOK, AdmissionInv
<1>15. \A o \in Identities : idempotency'[o] = IF o = Identity(i) THEN x
                                               ELSE idempotency[o]
    BY <1>1, <1>5 DEF TypeOK
<1>16. IndexesAgree'
  <2>1. plans' = UNION {{streams'[r][n] : n \in DOMAIN streams'[r]} : r \in Admission!Request}
      BY <1>2, <1>5 DEF IndexesAgree
  <2>2. \A r \in Admission!Request :
           /\ \A n \in DOMAIN streams'[r] :
                 streams'[r][n].version = n /\ streams'[r][n].plan.request = r
           /\ current'[r] = IF streams'[r] = <<>> THEN None
                            ELSE streams'[r][Len(streams'[r])].plan
      BY <1>2, <1>5 DEF IndexesAgree
  <2>3. \A o \in Identities : idempotency[o] # None =>
           idempotency[o] \in plans /\ idempotency[o].plan.request = o[1]
      BY <1>5 DEF IndexesAgree
  <2>4. \A o \in Identities : idempotency'[o] # None =>
           idempotency'[o] \in plans' /\ idempotency'[o].plan.request = o[1]
      BY <1>2, <1>4, <1>7, <1>15, <2>3
  <2>5. \A y \in plans : y # None BY <1>5, NoneAssumption DEF TypeOK
  <2>6. ASSUME NEW y \in plans PROVE \E o \in Identities : idempotency'[o] = y
    <3>1. PICK o \in Identities : idempotency[o] = y BY <1>5 DEF IndexesAgree
    <3>2. o # Identity(i) BY <1>8, <2>5, <3>1
    <3> QED BY <1>15, <3>1, <3>2
  <2> QED BY <1>2, <2>1, <2>2, <2>4, <2>6 DEF IndexesAgree
<1>17. OneCanonicalPlan' /\ PlansRestOnAcceptedEvidence'
    BY <1>2 DEF PlanInv, OneCanonicalPlan, PlansRestOnAcceptedEvidence
<1>18. \A q \in Planners : Holds(planner'[q], plans', byId', evidence')
    BY <1>2, <1>10, <1>13, Zenon DEF PlanInv
<1>19. OneCreator' BY <1>11, <1>13 DEF PlanInv, OneCreator
<1> QED BY <1>12, <1>14, <1>16, <1>17, <1>18, <1>19 DEF PlanInv

-----------------------------------------------------------------------------
(* The invariant                                                            *)

\* Nothing is admitted, retained or planned.
LEMMA PlanInit == Init => PlanInv
<1> SUFFICES ASSUME Init PROVE PlanInv OBVIOUS
<1>1. AdmissionInv BY AdmissionInit DEF Init
<1>2. Idle \in PlannerState BY DEF Idle, Frame, PlannerState
<1>3. Holds(Idle, plans, byId, evidence)
    BY <1>2, NoneAssumption DEF Holds, Idle, Frame, Outcome
<1>4. Idle.outcome # "Created" BY NoneAssumption DEF Idle, Frame, Outcome
<1>5. \A p \in Planners : planner[p] = Idle BY DEF Init
<1>6. \A p \in Planners : Holds(planner[p], plans, byId, evidence) BY <1>3, <1>5
<1>7. TypeOK
  <2>1. <<>> \in Seq(Record) OBVIOUS
  <2> QED BY <1>1, <1>2, <2>1 DEF Init, TypeOK, AdmissionInv
<1>8. IndexesAgree
  <2> DEFINE held(r) == {streams[r][n] : n \in DOMAIN streams[r]}
  <2>1. \A r \in Admission!Request : held(r) = {} BY DEF Init
  <2> HIDE DEF held
  <2>2. UNION {held(r) : r \in Admission!Request} = {} BY <2>1
  <2>3. plans = UNION {{streams[r][n] : n \in DOMAIN streams[r]} : r \in Admission!Request}
      BY <2>2 DEF Init, held
  <2>4. /\ \A r \in Admission!Request : streams[r] = <<>> /\ current[r] = None
        /\ \A o \in Identities : idempotency[o] = None
        /\ plans = {}
      BY DEF Init
  <2> QED BY <2>3, <2>4 DEF IndexesAgree
<1>9. OneCanonicalPlan /\ PlansRestOnAcceptedEvidence
    BY DEF Init, OneCanonicalPlan, PlansRestOnAcceptedEvidence
<1>10. OneCreator BY <1>4, <1>5 DEF OneCreator
<1> QED BY <1>1, <1>6, <1>7, <1>8, <1>9, <1>10 DEF PlanInv

\* Every step of the two services and of the evidence repository keeps it.
LEMMA PlanNext == PlanInv /\ [Next]_vars => PlanInv'
<1> SUFFICES ASSUME PlanInv, [Next]_vars PROVE PlanInv' OBVIOUS
<1>1. ASSUME NEW p \in Planners, PlannerStep(p) PROVE PlanInv'
    BY <1>1, LookUpValidationStep, AppendPlanStep, AliasPlanStep, AppendLosesStep,
       RebuildStep, PlannerOnlyStep
       DEF PlannerStep
<1>2. CASE UNCHANGED vars
  <2>1. UNCHANGED Admission!vars BY <1>2 DEF vars, requestVars, Admission!vars
  <2>2. AdmissionInv' BY <2>1, AdmissionNext DEF PlanInv
  <2>3. /\ byId' = byId /\ evidence' = evidence /\ streams' = streams /\ plans' = plans
        /\ idempotency' = idempotency /\ current' = current /\ planner' = planner
      BY <1>2 DEF vars, requestVars, repository
  <2>4. evidence \subseteq Validations BY DEF PlanInv, TypeOK
  <2> QED BY <2>2, <2>3, <2>4, MoreEvidence
<1> QED BY <1>1, <1>2, OthersStep, LookUpRequestStep, PlannerOnlyStep DEF Next

\* The inductive invariant of the composition: the indexes of both repositories
\* agree, every plan rests on an admission and a verdict, and so does whatever a
\* planner between two locks still holds.
THEOREM PlanInvariant == Spec => []PlanInv
<1> QED BY PlanInit, PlanNext, PTL DEF Spec

\* However planners race over keys and versions, the four indexes of the plan
\* repository agree, a canonical plan is retained once, an answer stays true and
\* every plan reconstructs (InMemoryExecutionPlanRepository.append,
\* ExecutionPlanService.reconstruct).
THEOREM PlansAlwaysStand == Spec => []PlansStand
<1>1. PlanInv => PlansStand
  <2> SUFFICES ASSUME PlanInv PROVE PlansStand OBVIOUS
  <2>1. \A p \in Planners : Holds(planner[p], plans, byId, evidence) BY DEF PlanInv
  <2>2. AnswersAreCommitted BY <2>1 DEF Holds, PlanInv, OneCreator, AnswersAreCommitted
  <2>3. PlansReconstruct BY <2>1 DEF Holds, PlansReconstruct
  <2> QED BY <2>2, <2>3 DEF PlanInv, PlansStand
<1> QED BY <1>1, PlanInvariant, PTL

\* Behind every plan stand a request the request service admitted and a retained
\* verdict that this very request is valid, although derive reads each under a lock
\* it has released by the time it appends (ADR 0009).
THEOREM PlansAreWarranted == Spec => []PlansRestOnAcceptedEvidence
<1>1. PlanInv => PlansRestOnAcceptedEvidence BY DEF PlanInv
<1> QED BY <1>1, PlanInvariant, PTL

-----------------------------------------------------------------------------
(* The request service alone, and inside the composition                    *)

\* The indexes of the request repository agree and an answer stays true, whoever
\* admits or fails to (InMemoryExecutionRequestRepository.admit).
THEOREM AdmissionsAlwaysStand == Admission!Spec => []Admission!AdmissionsStand
<1>1. AdmissionInv => Admission!AdmissionsStand
    BY DEF AdmissionInv, Admission!AdmissionsStand
<1> QED BY <1>1, AdmissionInit, AdmissionNext, PTL DEF Admission!Spec

\* The composition is an execution of the request service: planners read its
\* repository and never write it.
THEOREM AdmissionIsUndisturbed == Spec => Admission!Spec
<1>1. Init => Admission!Init BY DEF Init
<1>2. [Next]_vars => [Admission!Next]_(Admission!vars)
  <2> SUFFICES ASSUME [Next]_vars PROVE [Admission!Next]_(Admission!vars) OBVIOUS
  <2>1. Admission!Next \/ UNCHANGED requestVars
      BY DEF Next, vars, Retain, LookUpRequest, Reconstruct, PlannerStep, LookUpValidation,
             AppendPlan, AliasPlan, CommitFails, AppendLoses, Rebuild, Return,
             ReadOnly, Elsewhere
  <2> QED BY <2>1 DEF requestVars, Admission!vars
<1> QED BY <1>1, <1>2, PTL DEF Spec, Admission!Spec

\* The same of the request service while requests are planned.
THEOREM AdmissionsStandWhilePlanned == Spec => []AdmissionsStand
<1>1. Admission!AdmissionsStand <=> AdmissionsStand BY DEF AdmissionsStand
<1> QED BY <1>1, AdmissionIsUndisturbed, AdmissionsAlwaysStand, PTL

\* A request once admitted under an identity stays, and nothing else is ever
\* admitted under that identity.
THEOREM AdmissionsAreForGood == Spec => Admission!AdmissionIsForGood
<1> DEFINE Good == byId \subseteq byId' /\ \A r, q \in byId' : r.identity = q.identity => r = q
<1>1. AdmissionInv /\ [Admission!Next]_(Admission!vars) => [Good]_(Admission!vars)
  <2> SUFFICES ASSUME AdmissionInv, [Admission!Next]_(Admission!vars) PROVE Good OBVIOUS
  <2>1. byId \subseteq byId' BY AdmissionGrows
  <2>2. AdmissionInv' BY AdmissionNext
  <2>3. \A r \in byId' : byIdempotency'[r.identity] = r
      BY <2>2 DEF AdmissionInv, Admission!IndexesAgree
  <2> QED BY <2>1, <2>3
<1> HIDE DEF Good
<1>2. Admission!Spec => [][Good]_(Admission!vars)
    BY <1>1, AdmissionInit, AdmissionNext, PTL DEF Admission!Spec
<1> QED BY <1>2, AdmissionIsUndisturbed, PTL DEF Admission!AdmissionIsForGood, Good

\* Repeating an admission with identical content is answered with the request
\* admitted before: admit looks the identity up before anything else.
THEOREM AdmissionRetriesConverge == Spec => Admission!EquivalentRetriesConverge
<1> DEFINE Converges ==
             \A c \in Callers :
                call[c].pc = "admit" /\ call[c].asked \in byId /\ call'[c] # call[c] =>
                   call'[c].outcome = "ExistingEquivalent"
                   /\ call'[c].request = call[c].asked
<1>1. ASSUME AdmissionInv, [Admission!Next]_(Admission!vars), NEW c \in Callers,
             call[c].pc = "admit", call[c].asked \in byId, call'[c] # call[c]
      PROVE  call'[c].outcome = "ExistingEquivalent" /\ call'[c].request = call[c].asked
  <2>1. call \in [Callers -> Admission!CallState]
      BY <1>1 DEF AdmissionInv, Admission!TypeOK
  <2>2. PICK t \in Callers :
           \/ Admission!CallStep(t)
           \/ \E d \in Drafts, k \in Keys : Admission!Submit(t, d, k)
           \/ \E r \in Admission!Request, o \in Admission!Organizations :
                 Admission!Reconstruct(t, r, o)
      BY <1>1 DEF Admission!Next, Admission!vars
  <2>3. \E frame : call' = [call EXCEPT ![t] = frame]
      BY <2>2 DEF Admission!CallStep, Admission!AdmitNew, Admission!CommitFails,
                  Admission!AdmitAgain, Admission!Return, Admission!Answer,
                  Admission!Submit, Admission!Reconstruct
  <2>4. t = c BY <1>1, <2>1, <2>3
  <2>5. byIdempotency[call[c].asked.identity] = call[c].asked /\ call[c].asked # None
      BY <1>1, RequestIdentity DEF AdmissionInv, Admission!TypeOK, Admission!IndexesAgree
  <2>6. Admission!AdmitAgain(c)
      BY <1>1, <2>2, <2>4, <2>5
         DEF Admission!CallStep, Admission!AdmitNew, Admission!CommitFails, Admission!Prior,
             Admission!Return, Admission!Submit, Admission!Reconstruct
  <2>7. Admission!Answer(c, "ExistingEquivalent", call[c].asked)
      BY <2>5, <2>6 DEF Admission!AdmitAgain, Admission!Prior
  <2>8. call'[c] = Admission!Frame("done", call[c].asked, call[c].asked, "ExistingEquivalent")
      BY <2>1, <2>7 DEF Admission!Answer
  <2> QED BY <2>8 DEF Admission!Frame
<1>2. AdmissionInv /\ [Admission!Next]_(Admission!vars) => [Converges]_(Admission!vars)
    BY <1>1
<1> HIDE DEF Converges
<1>3. Admission!Spec => [][Converges]_(Admission!vars)
    BY <1>2, AdmissionInit, AdmissionNext, PTL DEF Admission!Spec
<1> QED BY <1>3, AdmissionIsUndisturbed, PTL
           DEF Admission!EquivalentRetriesConverge, Converges

-----------------------------------------------------------------------------
(* What a step of the plan service may never do                             *)

\* Plans are never replaced or dropped, a used key never leads elsewhere, and the
\* current plan changes only by a longer history (InMemoryExecutionPlanRepository).
THEOREM PlansAppendOnly == Spec => AppendOnly
<1> DEFINE Grows ==
             /\ plans \subseteq plans'
             /\ \A r \in Admission!Request :
                   /\ Len(streams[r]) <= Len(streams'[r])
                   /\ SubSeq(streams'[r], 1, Len(streams[r])) = streams[r]
                   /\ current'[r] # current[r] => Len(streams'[r]) = Len(streams[r]) + 1
             /\ \A i \in Identities :
                   idempotency[i] # None => idempotency'[i] = idempotency[i]
<1>1. ASSUME PlanInv, UNCHANGED <<streams, plans, current>>
      PROVE  /\ plans \subseteq plans'
             /\ \A r \in Admission!Request :
                   /\ Len(streams[r]) <= Len(streams'[r])
                   /\ SubSeq(streams'[r], 1, Len(streams[r])) = streams[r]
                   /\ current'[r] = current[r]
  <2>1. \A r \in Admission!Request : streams[r] \in Seq(Record)
      BY <1>1 DEF PlanInv, TypeOK
  <2>2. \A r \in Admission!Request : SubSeq(streams[r], 1, Len(streams[r])) = streams[r]
      BY <2>1, SubSeqFull
  <2>3. \A r \in Admission!Request : Len(streams[r]) \in Nat BY <2>1
  <2> QED BY <1>1, <2>2, <2>3
<1>2. ASSUME PlanInv, NEW p \in Planners, AppendPlan(p) PROVE Grows
  <2> DEFINE x == Candidate(p)
             s == planner[p].input.request
  <2>1. /\ x \in Record /\ Prior(p) = None /\ plans' = plans \cup {x}
        /\ idempotency' = [idempotency EXCEPT ![Identity(planner[p].input)] = x]
        /\ current' = [current EXCEPT ![s] = x.plan]
      BY <1>2, AppendEffect
  <2>2. \A r \in Admission!Request :
           \/ r = s /\ streams'[r] = Append(streams[r], x)
           \/ r # s /\ streams'[r] = streams[r]
      BY <1>2, StreamsAfter
  <2> HIDE DEF x, s
  <2>3. ASSUME NEW r \in Admission!Request
        PROVE  /\ Len(streams[r]) <= Len(streams'[r])
               /\ SubSeq(streams'[r], 1, Len(streams[r])) = streams[r]
               /\ current'[r] # current[r] => Len(streams'[r]) = Len(streams[r]) + 1
    <3>1. streams[r] \in Seq(Record) BY <1>2 DEF PlanInv, TypeOK
    <3>2. CASE r = s /\ streams'[r] = Append(streams[r], x)
      <4>1. Len(Append(streams[r], x)) = Len(streams[r]) + 1 /\ Len(streams[r]) \in Nat
          BY <3>1
      <4>2. SubSeq(Append(streams[r], x), 1, Len(streams[r])) = streams[r]
          BY <2>1, <3>1, PrefixKept
      <4> QED BY <3>2, <4>1, <4>2
    <3>3. CASE r # s /\ streams'[r] = streams[r]
      <4>1. SubSeq(streams[r], 1, Len(streams[r])) = streams[r] BY <3>1, SubSeqFull
      <4>2. Len(streams[r]) \in Nat BY <3>1
      <4>3. current'[r] = current[r] BY <1>2, <2>1, <3>3 DEF PlanInv, TypeOK
      <4> QED BY <3>3, <4>1, <4>2, <4>3
    <3> QED BY <2>2, <3>2, <3>3
  <2>4. \A i \in Identities : idempotency[i] # None => idempotency'[i] = idempotency[i]
      BY <1>2, <2>1 DEF Prior, PlanInv, TypeOK
  <2> QED BY <2>1, <2>3, <2>4
<1>3. ASSUME PlanInv, NEW p \in Planners, AliasPlan(p) PROVE Grows
  <2>1. UNCHANGED <<streams, plans, current>> /\ Prior(p) = None BY <1>3 DEF AliasPlan
  <2>2. \E x : idempotency' = [idempotency EXCEPT ![Identity(planner[p].input)] = x]
      BY <1>3 DEF AliasPlan
  <2>3. \A i \in Identities : idempotency[i] # None => idempotency'[i] = idempotency[i]
      BY <1>3, <2>1, <2>2 DEF Prior, PlanInv, TypeOK
  <2> QED BY <1>1, <1>3, <2>1, <2>3
<1>4. ASSUME PlanInv, UNCHANGED repository PROVE Grows
    BY <1>1, <1>4 DEF repository
<1>5. ASSUME [Next]_vars
      PROVE  \/ UNCHANGED repository
             \/ \E p \in Planners : AppendPlan(p) \/ AliasPlan(p)
    BY <1>5 DEF Next, vars, PlannerStep, Retain, LookUpRequest, LookUpValidation,
               CommitFails, AppendLoses, Reconstruct, Rebuild, Return, ReadOnly
<1>6. PlanInv /\ [Next]_vars => [Grows]_vars BY <1>2, <1>3, <1>4, <1>5
<1> QED BY <1>6, PlanInvariant, PTL DEF Spec, AppendOnly

\* Repeating a key with identical content gets the plan it got before, whatever
\* version the retry expects: append looks the key up before it compares versions.
THEOREM RetriesGetThePlan == Spec => EquivalentRetriesConverge
<1>1. ASSUME PlanInv, [Next]_vars, NEW p \in Planners,
             planner[p].pc = "append", Prior(p) # None,
             Prior(p).plan = BuildPlan(planner[p].input), planner'[p] # planner[p]
      PROVE  planner'[p].outcome = "ExistingEquivalent" /\ planner'[p].record = Prior(p)
  <2>1. planner \in [Planners -> PlannerState] BY <1>1 DEF PlanInv, TypeOK
  <2>2. PICK t \in Planners :
           \/ PlannerStep(t)
           \/ \E i \in Inputs : LookUpRequest(t, i)
           \/ \E x \in plans : Reconstruct(t, x)
      BY <1>1 DEF Next, vars, Retain
  <2>3. \A q \in Planners : q # t => planner'[q] = planner[q]
      BY <2>1, <2>2 DEF PlannerStep, LookUpRequest, LookUpValidation, AppendPlan, AliasPlan,
             CommitFails, AppendLoses, Reconstruct, Rebuild, Return, Answer
  <2>4. t = p BY <1>1, <2>3
  <2>5. AppendLoses(p)
      BY <1>1, <2>2, <2>4 DEF PlannerStep, LookUpRequest, LookUpValidation, AppendPlan,
             AliasPlan, CommitFails, Reconstruct, Rebuild, Return
  <2>6. Answer(p, "ExistingEquivalent", Prior(p)) BY <1>1, <2>5 DEF AppendLoses
  <2>7. planner'[p] = Frame("done", planner[p].input, Prior(p), "ExistingEquivalent")
      BY <2>1, <2>6 DEF Answer
  <2> QED BY <2>7 DEF Frame
<1>2. PlanInv /\ [Next]_vars =>
         [ \A p \in Planners :
             planner[p].pc = "append" /\ Prior(p) # None
             /\ Prior(p).plan = BuildPlan(planner[p].input) /\ planner'[p] # planner[p] =>
                planner'[p].outcome = "ExistingEquivalent"
                /\ planner'[p].record = Prior(p) ]_vars
    BY <1>1
<1> QED BY <1>2, PlanInvariant, PTL DEF Spec, EquivalentRetriesConverge

\* History is never rewritten, in either repository, and an equivalent retry gets
\* the record or request of the call it repeats (ExecutionPlanService.derive,
\* ExecutionRequestService.admit).
THEOREM PlanningConverges == Spec => RetriesConverge
BY PlansAppendOnly, RetriesGetThePlan, AdmissionsAreForGood, AdmissionRetriesConverge
   DEF RetriesConverge

-----------------------------------------------------------------------------
(* The rule: what it may return                                             *)

\* A result is accepted exactly when it is of the form that is checked for.
RuleInv ==
    \/ rule_result = None /\ rule_verdict = None
    \/ /\ rule_result \in Rules!Result
       /\ rule_verdict = IF Rules!Accepted(rule_result) THEN "accepted" ELSE "refused"

\* The rule counts as this module does.
LEMMA RulesCardinality == ASSUME NEW S PROVE Rules!Cardinality(S) = Cardinality(S)
BY DEF Rules!Cardinality, Cardinality

\* A list without duplicates has each of its items at one place.
LEMMA NoDuplicatesOnce ==
    ASSUME NEW S, NEW s \in Seq(S), Rules!NoDuplicates(s)
    PROVE  \A m, n \in DOMAIN s : s[m] = s[n] => m = n
<1> DEFINE I == 1 .. Len(s)
           T == Rules!ToSet(s)
<1>1. DOMAIN s = I /\ s \in [I -> S] OBVIOUS
<1>2. IsFiniteSet(I) /\ Cardinality(I) = Len(s)
  <2>1. Len(s) \in Nat /\ Len(s) \in Int /\ 1 \in Int OBVIOUS
  <2>2. Cardinality(I) = IF 1 > Len(s) THEN 0 ELSE Len(s) - 1 + 1
      BY <2>1, FS_Interval, Zenon
  <2>3. IsFiniteSet(I) BY <2>1, FS_Interval, Zenon
  <2> QED BY <2>1, <2>2, <2>3
<1>3. T = {s[i] : i \in DOMAIN s} BY DEF Rules!ToSet
<1>4. s \in Surjection(I, T) BY <1>1, <1>3 DEF Surjection
<1>5. Cardinality(T) = Cardinality(I)
    BY <1>2, RulesCardinality, Zenon DEF Rules!NoDuplicates
<1> HIDE DEF T, I
<1>6. s \in Injection(I, T) BY <1>2, <1>4, <1>5, FS_Surjection
<1> QED BY <1>1, <1>6 DEF Injection, IsInjective

\* A step that waits in accepted work is listed, and so is what it waits for,
\* earlier.
LEMMA WaitsForEarlier ==
    ASSUME NEW x \in Rules!Result, Rules!Accepted(x), NEW t \in StepIds,
           NEW s \in Rules!WaitsFor(x, t)
    PROVE  \E m, n \in DOMAIN x.steps :
              x.steps[m].id = s /\ x.steps[n].id = t /\ m < n
<1>1. <<s, t>> \in Rules!ToSet(x.dependencies) BY DEF Rules!WaitsFor
<1>2. PICK k \in DOMAIN x.dependencies : x.dependencies[k] = <<s, t>>
    BY <1>1 DEF Rules!ToSet
<1>3. Rules!PointsForward(<<s, t>>, x.steps) BY <1>2 DEF Rules!Accepted
<1>4. <<s, t>>[1] = s /\ <<s, t>>[2] = t OBVIOUS
<1> QED BY <1>3, <1>4, Zenon DEF Rules!PointsForward

\* The steps' identifiers, each listed once.
LEMMA StepsListedOnce ==
    ASSUME NEW x \in Rules!Result, Rules!Accepted(x)
    PROVE  /\ DOMAIN Rules!StepIdsOf(x.steps) = DOMAIN x.steps
           /\ DOMAIN x.steps \subseteq Nat
           /\ \A n \in DOMAIN x.steps : Rules!StepIdsOf(x.steps)[n] = x.steps[n].id
           /\ \A m, n \in DOMAIN x.steps : x.steps[m].id = x.steps[n].id => m = n
<1> DEFINE ids == Rules!StepIdsOf(x.steps)
<1>1. x.steps \in Seq(Rules!Step) BY DEF Rules!Result
<1>2. DOMAIN x.steps = 1 .. Len(x.steps) BY <1>1
<1>3. ids = [n \in 1 .. Len(x.steps) |-> x.steps[n].id] BY <1>2 DEF Rules!StepIdsOf
<1>4. ids \in Seq(StepIds)
  <2>1. \A n \in 1 .. Len(x.steps) : x.steps[n] \in Rules!Step BY <1>1
  <2>2. \A n \in 1 .. Len(x.steps) : x.steps[n].id \in StepIds BY <2>1 DEF Rules!Step
  <2>3. Len(x.steps) \in Nat BY <1>1
  <2> QED BY <1>3, <2>2, <2>3
<1>5. Rules!NoDuplicates(ids) BY DEF Rules!Accepted
<1>6. \A m, n \in DOMAIN ids : ids[m] = ids[n] => m = n
    BY <1>4, <1>5, NoDuplicatesOnce
<1>7. 1 .. Len(x.steps) \subseteq Nat BY <1>1
<1>8. DOMAIN ids = DOMAIN x.steps /\ \A n \in DOMAIN x.steps : ids[n] = x.steps[n].id
    BY <1>2, <1>3
<1> HIDE DEF ids
<1>9. \A m, n \in DOMAIN x.steps : x.steps[m].id = x.steps[n].id => m = n
    BY <1>6, <1>8, Zenon
<1> QED BY <1>2, <1>7, <1>8, <1>9 DEF ids

LEMMA AcceptedIsSchedulable ==
    ASSUME RuleInv
    PROVE  Rules!AcceptedWorkIsSchedulable
<1> SUFFICES ASSUME rule_verdict = "accepted" PROVE Rules!AcceptedWorkIsSchedulable
    BY DEF Rules!AcceptedWorkIsSchedulable
<1> DEFINE x == rule_result
           position == Rules!StepIdsOf(x.steps)
           work == Rules!ToSet(position)
           places == DOMAIN x.steps
<1>1. x \in Rules!Result /\ Rules!Accepted(x)
    BY RulesAssumption DEF RuleInv, Rules!ResultsAssumption
<1> HIDE DEF x
<1>2. /\ DOMAIN position = places /\ places \subseteq Nat
      /\ \A n \in places : position[n] = x.steps[n].id
      /\ \A m, n \in places : position[m] = position[n] => m = n
    BY <1>1, StepsListedOnce
<1>3. ASSUME NEW t \in StepIds, NEW s \in Rules!WaitsFor(x, t)
      PROVE  \E m, n \in places : position[m] = s /\ position[n] = t /\ m < n
    BY <1>1, <1>2, WaitsForEarlier
<1>4. work = {position[n] : n \in places} BY <1>2 DEF Rules!ToSet
<1>5. work \subseteq StepIds
  <2>1. x.steps \in Seq(Rules!Step) BY <1>1 DEF Rules!Result
  <2>2. \A n \in places : x.steps[n] \in Rules!Step BY <2>1
  <2>3. \A n \in places : x.steps[n].id \in StepIds BY <2>2 DEF Rules!Step
  <2> QED BY <1>2, <1>4, <2>3
<1> HIDE DEF position, work, places
<1>6. ASSUME NEW rest \in SUBSET work, rest # {}
      PROVE  \E t \in rest : Rules!WaitsFor(x, t) \cap rest = {}
  <2> DEFINE P == {n \in places : position[n] \in rest}
  <2>1. P \subseteq Nat BY <1>2
  <2>0. P # {} BY <1>4, <1>6
  <2> HIDE DEF P
  <2>2. PICK n \in P : \A m \in P : n <= m BY <2>0, <2>1, LeastNatural, Zenon
  <2>3. n \in places /\ position[n] \in rest BY <2>2 DEF P
  <2>4. ASSUME NEW s \in Rules!WaitsFor(x, position[n]), s \in rest PROVE FALSE
    <3>1. position[n] \in StepIds BY <1>5, <2>3
    <3>2. PICK k, l \in places : position[k] = s /\ position[l] = position[n] /\ k < l
        BY <1>3, <3>1
    <3>3. l = n BY <1>2, <2>3, <3>2
    <3>4. k \in P BY <2>4, <3>2 DEF P
    <3>5. n <= k BY <2>2, <3>4
    <3>6. k \in Nat /\ n \in Nat BY <1>2, <2>3
    <3> QED BY <3>2, <3>3, <3>5, <3>6
  <2> QED BY <2>3, <2>4
<1>7. ASSUME NEW t \in StepIds, Rules!WaitsFor(x, t) # {}
      PROVE  t \in work /\ Rules!WaitsFor(x, t) \subseteq work
    BY <1>3, <1>4, <1>7
<1>8. ASSUME NEW m \in places, NEW n \in places, position[m] \in Rules!WaitsFor(x, position[n])
      PROVE  m < n
  <2>1. position[n] \in StepIds BY <1>4, <1>5
  <2>2. PICK k, l \in places : position[k] = position[m] /\ position[l] = position[n] /\ k < l
      BY <1>3, <1>8, <2>1
  <2> QED BY <1>2, <2>2
<1>9. \A n \in places : x.steps[n].sequence = n - 1
    BY <1>1, Zenon DEF Rules!Accepted, Rules!Numbered, places
<1> QED BY <1>2, <1>6, <1>7, <1>8, <1>9, Zenon
        DEF Rules!AcceptedWorkIsSchedulable, position, work, x

\* Four different items are four.
LEMMA FourItems ==
    ASSUME NEW a, NEW b, NEW c, NEW d,
           a # b, a # c, a # d, b # c, b # d, c # d
    PROVE  Cardinality({a, b, c, d}) = 4
<1>1. IsFiniteSet({a}) /\ Cardinality({a}) = 1 BY FS_Singleton
<1>2. b \notin {a} /\ c \notin {a} \cup {b} /\ d \notin {a} \cup {b} \cup {c} OBVIOUS
<1>3. IsFiniteSet({a} \cup {b}) /\ Cardinality({a} \cup {b}) = 2
    BY <1>1, <1>2, FS_AddElement
<1>4. IsFiniteSet({a} \cup {b} \cup {c}) /\ Cardinality({a} \cup {b} \cup {c}) = 3
    BY <1>2, <1>3, FS_AddElement
<1>5. Cardinality({a} \cup {b} \cup {c} \cup {d}) = 4 BY <1>2, <1>4, FS_AddElement
<1>6. {a} \cup {b} \cup {c} \cup {d} = {a, b, c, d} OBVIOUS
<1> QED BY <1>5, <1>6

\* Nothing the registered rule produces is refused.
LEMMA RegisteredAccepted ==
    ASSUME NEW id \in StepIds, NEW required \in Seq(Capabilities), Rules!NoDuplicates(required)
    PROVE  /\ Rules!DeterministicRuleV1(id, required) \in Rules!Result
           /\ Rules!Accepted(Rules!DeterministicRuleV1(id, required))
<1> DEFINE x == Rules!DeterministicRuleV1(id, required)
           step == [sequence |-> 0, id |-> id]
           basis == Rules!RegisteredEvidence
<1>1. /\ x.steps = <<step>> /\ x.dependencies = <<>> /\ x.capabilities = required
      /\ x.evidence = basis
    BY DEF Rules!DeterministicRuleV1
<1>2. x \in Rules!Result
  <2>1. step \in Rules!Step BY DEF Rules!Step
  <2>2. <<step>> \in Seq(Rules!Step) /\ <<>> \in Seq(Rules!Dependency)
    <3> HIDE DEF step
    <3> QED BY <2>1
  <2>3. basis \in Seq(Evidence)
    <3>1. DOMAIN basis = 1 .. 4 /\ basis = [i \in 1 .. 4 |-> basis[i]]
        BY DEF Rules!RegisteredEvidence
    <3> HIDE DEF basis
    <3>2. \A i \in 1 .. 4 : basis[i] \in Evidence
        BY RulesAssumption, <3>1, Zenon DEF Rules!ResultsAssumption, Rules!ToSet, basis
    <3> QED BY <3>1, <3>2
  <2> QED BY <2>2, <2>3 DEF Rules!Result, Rules!DeterministicRuleV1
<1>10. DOMAIN <<step>> = {1} /\ DOMAIN <<>> = {}
  <2> HIDE DEF step
  <2> QED OBVIOUS
<1> HIDE DEF x
<1>3. Rules!Numbered(x.steps)
  <2>1. <<step>>[1] = step /\ step.sequence = 1 - 1 OBVIOUS
  <2>2. DOMAIN x.steps = {1} /\ x.steps[1] = step BY <1>1, <1>10, <2>1, Zenon
  <2> HIDE DEF step
  <2> QED BY <2>1, <2>2, Zenon DEF Rules!Numbered
<1>4. Rules!NoDuplicates(Rules!StepIdsOf(x.steps))
  <2>1. Rules!StepIdsOf(x.steps) = <<id>>
    <3>0. <<step>>[1] = step /\ step.id = id /\ 1 .. 1 = {1} OBVIOUS
    <3>1. DOMAIN x.steps = 1 .. 1 /\ x.steps[1].id = id BY <1>1, <1>10, <3>0, Zenon
    <3>2. Rules!StepIdsOf(x.steps) = [n \in 1 .. 1 |-> x.steps[n].id]
        BY <3>1, Zenon DEF Rules!StepIdsOf
    <3>3. <<id>> = [n \in 1 .. 1 |-> id] OBVIOUS
    <3>4. \A n \in 1 .. 1 : x.steps[n].id = id BY <3>1
    <3> QED BY <3>2, <3>3, <3>4
  <2>4. Len(<<id>>) = 1 OBVIOUS
  <2>2. Rules!ToSet(<<id>>) = {id} BY DEF Rules!ToSet
  <2>3. Cardinality({id}) = 1 BY FS_Singleton
  <2> QED BY <2>1, <2>2, <2>3, <2>4, RulesCardinality, Zenon DEF Rules!NoDuplicates
<1>5. Rules!NoDuplicates(x.dependencies)
  <2>1. Rules!ToSet(<<>>) = {} BY DEF Rules!ToSet
  <2>2. Len(<<>>) = 0 OBVIOUS
  <2>3. Cardinality({}) = 0 BY FS_EmptySet
  <2> QED BY <1>1, <2>1, <2>2, <2>3, RulesCardinality, Zenon DEF Rules!NoDuplicates
<1>6. \A n \in DOMAIN x.dependencies : Rules!PointsForward(x.dependencies[n], x.steps)
  <2>1. DOMAIN x.dependencies = {} BY <1>1, <1>10, Zenon
  <2> QED BY <2>1
<1>7. Rules!NoDuplicates(x.evidence)
  <2> DEFINE four == {"request", "request digest", "validation", "validation digest"}
  <2>4. Cardinality(four) = 4
    <3>1. /\ "request" # "request digest" /\ "request" # "validation"
          /\ "request" # "validation digest" /\ "request digest" # "validation"
          /\ "request digest" # "validation digest" /\ "validation" # "validation digest"
        OBVIOUS
    <3> QED BY <3>1, FourItems, Zenon
  <2>5. Rules!ToSet(basis) = four
    <3>1. DOMAIN basis = 1 .. 4 BY DEF Rules!RegisteredEvidence
    <3>2. Rules!ToSet(basis) = {basis[i] : i \in 1 .. 4} BY <3>1, Zenon DEF Rules!ToSet
    <3>3. 1 .. 4 = {1, 2, 3, 4} OBVIOUS
    <3>4. {basis[i] : i \in 1 .. 4} = {basis[1], basis[2], basis[3], basis[4]}
        BY <3>3
    <3>5. {basis[1], basis[2], basis[3], basis[4]} = four BY DEF Rules!RegisteredEvidence
    <3> HIDE DEF basis, four
    <3> QED BY <3>2, <3>4, <3>5, Zenon
  <2>6. Len(basis) = 4 BY DEF Rules!RegisteredEvidence
  <2> HIDE DEF basis, four
  <2> QED BY <1>1, <2>4, <2>5, <2>6, RulesCardinality, Zenon DEF Rules!NoDuplicates
<1>8. x.steps # <<>> /\ x.evidence # <<>>
  <2>1. <<step>> # <<>> /\ basis # <<>> BY DEF Rules!RegisteredEvidence
  <2> QED BY <1>1, <2>1
<1>9. Rules!NoDuplicates(x.capabilities) BY <1>1
<1> QED BY <1>2, <1>3, <1>4, <1>5, <1>6, <1>7, <1>8, <1>9 DEF Rules!Accepted, x

LEMMA SeqOfIsSeq ==
    ASSUME NEW n \in Nat, NEW s \in Rules!SeqOf(Capabilities, n)
    PROVE  s \in Seq(Capabilities)
<1>1. PICK m \in 0 .. n : s \in [1 .. m -> Capabilities] BY DEF Rules!SeqOf
<1> QED BY <1>1

LEMMA RuleStep ==
    ASSUME RuleInv, [Rules!Next]_(Rules!vars)
    PROVE  RuleInv'
<1>1. CASE UNCHANGED Rules!vars BY <1>1 DEF Rules!vars, RuleInv, Rules!Accepted, Rules!Numbered
<1>2. ASSUME NEW x \in Results, Rules!Construct(x) PROVE RuleInv'
  <2>1. x \in Rules!Result BY RulesAssumption DEF Rules!ResultsAssumption
  <2> QED BY <1>2, <2>1, Zenon DEF Rules!Construct, RuleInv
<1>3. ASSUME NEW id \in StepIds, NEW required \in Rules!SeqOf(Capabilities, 2),
             Rules!RunRegistered(id, required)
      PROVE  RuleInv'
  <2>1. required \in Seq(Capabilities) BY SeqOfIsSeq
  <2>2. rule_result' \in Rules!Result BY <1>3, <2>1, RegisteredAccepted DEF Rules!RunRegistered
  <2> QED BY <1>3, <2>2, Zenon DEF Rules!RunRegistered, RuleInv
<1>4. CASE Rules!Return BY <1>4 DEF Rules!Return, RuleInv
<1> QED BY <1>1, <1>2, <1>3, <1>4 DEF Rules!Next

\* Whatever a rule returns, what is accepted of it can be done in the order it is
\* listed, and the registered rule's own result is accepted.
THEOREM AcceptedWorkStaysSchedulable == Rules!Spec => []AcceptedWorkIsSchedulable
<1>1. Rules!Init => RuleInv BY DEF Rules!Init, RuleInv
<1>2. RuleInv /\ [Rules!Next]_(Rules!vars) => RuleInv' BY RuleStep
<1>3. RuleInv => AcceptedWorkIsSchedulable
  <2> SUFFICES ASSUME RuleInv PROVE AcceptedWorkIsSchedulable OBVIOUS
  <2>1. Rules!AcceptedWorkIsSchedulable BY AcceptedIsSchedulable
  <2>2. ASSUME rule_result # None, NEW id \in StepIds,
               NEW required \in Rules!SeqOf(Capabilities, 2), Rules!NoDuplicates(required),
               rule_result = Rules!DeterministicRuleV1(id, required)
        PROVE  rule_verdict = "accepted"
    <3>1. required \in Seq(Capabilities) BY SeqOfIsSeq
    <3>2. Rules!Accepted(rule_result) BY <2>2, <3>1, RegisteredAccepted
    <3> QED BY <2>2, <3>2, Zenon DEF RuleInv
  <2>3. Rules!RegisteredRuleAccepted BY <2>2, Zenon DEF Rules!RegisteredRuleAccepted
  <2> QED BY <2>1, <2>3 DEF AcceptedWorkIsSchedulable
<1> QED BY <1>1, <1>2, <1>3, PTL DEF Rules!Spec
=============================================================================
