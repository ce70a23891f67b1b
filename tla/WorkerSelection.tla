--------------------------- MODULE WorkerSelection ---------------------------
(***************************************************************************)
(* WorkerSelectionService over InMemoryWorkerSelectionHistory, called by    *)
(* concurrent threads.  A selection is evaluated, for the version after the *)
(* one its caller expects, before the history's lock is taken in append.    *)
(***************************************************************************)
EXTENDS SelectionPolicy

CONSTANTS
    Callers,              \* threads calling the service
    Requests,             \* the requests they may make
    Keys, EmptyKey,       \* idempotency keys, and the one that is refused
    Versions              \* the versions they may expect

VARIABLES
    streams,        \* _streams
    byId,           \* _by_id
    idempotency,    \* _idempotency
    call            \* where each thread is in the service

vars == <<streams, byId, idempotency, call>>

OperationKeys == Streams \X Keys

Outcome == {"Accepted", "Replayed", "History", "Invalid", "IdempotencyConflict",
            "VersionConflict", "ReplayDiverged"}

\* selection is what the call evaluated, names or is answered with.
Frame(pc, request, key, selection, history, outcome) ==
    [pc |-> pc, request |-> request, key |-> key, selection |-> selection,
     history |-> history, outcome |-> outcome]

Idle == Frame("idle", None, None, None, <<>>, None)

Init ==
    /\ streams = [s \in Streams |-> <<>>]
    /\ byId = {}
    /\ idempotency = [o \in OperationKeys |-> None]
    /\ call = [c \in Callers |-> Idle]

Answer(c, outcome, selection) ==
    call' = [call EXCEPT ![c] = [@ EXCEPT !.pc = "done", !.outcome = outcome,
                                          !.selection = selection]]

ReadOnly == UNCHANGED <<streams, byId, idempotency>>

\* What evaluate makes of the requests and versions its callers pass.
SelectionRecords == {Evaluate(r, v + 1) : r \in Requests, v \in Versions}

\* A request is for a stream of the repository; an optional value that is absent
\* is no selection and no outcome.
ServiceAssumption ==
    /\ Versions \subseteq Nat
    /\ \A r \in Requests : r.stream \in Streams
    /\ None \notin Outcome
    /\ None \notin SelectionRecords

-----------------------------------------------------------------------------
(* evaluate                                                                 *)

\* evaluate up to its append.
Submit(c, r, k, expected) ==
    /\ call[c].pc = "idle"
    /\ call' = [call EXCEPT ![c] =
                  IF k = EmptyKey \/ ~Valid(r)
                  THEN Frame("done", r, k, None, <<>>, "Invalid")
                  ELSE Frame("append", r, k, Evaluate(r, expected + 1), <<>>, None)]
    /\ ReadOnly

OperationKey(c) == <<call[c].request.stream, call[c].key>>

Prior(c) == idempotency[OperationKey(c)]

Expected(c) == call[c].selection.version - 1

Current(c) == Len(streams[call[c].request.stream])

\* The selection retained under the identity of this one.
Known(c) == {x \in byId : SelectionId(x.request) = SelectionId(call[c].request)}

\* Mutant: the newest selection heads the stream.
Accept_NewestFirst(c) ==
    LET x == [call[c].selection EXCEPT !.version = Current(c) + 1]
    IN  /\ call[c].pc = "append"
        /\ Prior(c) = None /\ Known(c) = {}
        /\ Expected(c) = Current(c)
        /\ streams' = [streams EXCEPT ![x.request.stream] = <<x>> \o @]
        /\ byId' = byId \cup {x}
        /\ idempotency' = [idempotency EXCEPT ![OperationKey(c)] = x]
        /\ Answer(c, "Accepted", x)

\* append of a selection with a new key and a new identity, at the version its
\* caller expects.
Accept(c) ==
    LET x == [call[c].selection EXCEPT !.version = Current(c) + 1]
    IN  /\ call[c].pc = "append"
        /\ Prior(c) = None /\ Known(c) = {}
        /\ Expected(c) = Current(c)
        /\ streams' = [streams EXCEPT ![x.request.stream] = Append(@, x)]
        /\ byId' = byId \cup {x}
        /\ idempotency' = [idempotency EXCEPT ![OperationKey(c)] = x]
        /\ Answer(c, "Accepted", x)

\* append of an identity already retained, under a new key: the same input is
\* answered with that selection, another input of the same identity refused.
AcceptKnown(c) ==
    /\ call[c].pc = "append"
    /\ Prior(c) = None
    /\ Expected(c) = Current(c)
    /\ \E x \in Known(c) :
          IF x.request = call[c].request
          THEN /\ idempotency' = [idempotency EXCEPT ![OperationKey(c)] = x]
               /\ Answer(c, "Accepted", x)
          ELSE /\ Answer(c, "IdempotencyConflict", None)
               /\ UNCHANGED idempotency
    /\ UNCHANGED <<streams, byId>>

\* append meets its key, or a version that has moved on.
AppendLoses(c) ==
    /\ call[c].pc = "append"
    /\ \/ /\ Prior(c) # None
          /\ IF Prior(c).request = call[c].request THEN Answer(c, "Accepted", Prior(c))
             ELSE Answer(c, "IdempotencyConflict", None)
       \/ /\ Prior(c) = None /\ Expected(c) # Current(c)
          /\ Answer(c, "VersionConflict", None)
    /\ ReadOnly

-----------------------------------------------------------------------------
(* replay and history                                                       *)

\* replay(selection_id): the record, then its request evaluated once more.
Replay(c, x) ==
    /\ call[c].pc = "idle"
    /\ x \in byId
    /\ call' = [call EXCEPT ![c] =
                  IF Evaluate(x.request, x.version) = x
                  THEN Frame("done", x.request, None, x, <<>>, "Replayed")
                  ELSE Frame("done", x.request, None, None, <<>>, "ReplayDiverged")]
    /\ ReadOnly

\* GET /worker-selection/{id}/history: get, under the first of two locks.
AskHistory(c, x) ==
    /\ call[c].pc = "idle"
    /\ x \in byId
    /\ call' = [call EXCEPT ![c] = Frame("history", x.request, None, x, <<>>, None)]
    /\ ReadOnly

\* history, under the second.
ReadHistory(c) ==
    /\ call[c].pc = "history"
    /\ call' = [call EXCEPT ![c].pc = "done", ![c].outcome = "History",
                            ![c].history = streams[call[c].request.stream]]
    /\ ReadOnly

\* The call returns or raises to its caller, which may call again.
Return(c) ==
    /\ call[c].pc = "done"
    /\ call' = [call EXCEPT ![c] = Idle]
    /\ ReadOnly

-----------------------------------------------------------------------------

CallStep(c) ==
    Accept(c) \/ AcceptKnown(c) \/ AppendLoses(c) \/ ReadHistory(c) \/ Return(c)

Next ==
    \/ \E c \in Callers, r \in Requests, k \in Keys, v \in Versions : Submit(c, r, k, v)
    \/ \E c \in Callers : \E x \in byId : Replay(c, x) \/ AskHistory(c, x)
    \/ \E c \in Callers : CallStep(c)

Spec == Init /\ [][Next]_vars

-----------------------------------------------------------------------------
(* Properties                                                               *)

Appended == UNION {{streams[s][n] : n \in DOMAIN streams[s]} : s \in Streams}

\* The three maps, changed one after the other under the lock, agree whenever it
\* is free: a stream holds its selections at their versions, each identity has
\* one selection, and every key leads to one of its own stream.
IndexesAgree ==
    /\ byId = Appended
    /\ \A s \in Streams : \A n \in DOMAIN streams[s] :
          streams[s][n].version = n /\ streams[s][n].request.stream = s
    /\ \A x, y \in byId : SelectionId(x.request) = SelectionId(y.request) => x = y
    /\ \A o \in OperationKeys : idempotency[o] # None =>
          idempotency[o] \in byId /\ idempotency[o].request.stream = o[1]

\* What a caller is told stays true: the selection it is given is committed and
\* was made for its own request, capabilities required and evidence included,
\* although the identity of a selection leaves both out.
AnswersAreCommitted ==
    \A c \in Callers : call[c].outcome \in {"Accepted", "Replayed"} =>
       call[c].selection \in byId /\ call[c].selection.request = call[c].request

\* A history read after its selection was found contains that selection, however
\* the stream grew between the two locks.
HistoryHoldsSelection ==
    \A c \in Callers : call[c].outcome = "History" =>
       call[c].history[call[c].selection.version] = call[c].selection

\* Every committed selection is reproduced from its retained request.
SelectionsReplay == \A c \in Callers : call[c].outcome # "ReplayDiverged"

\* The three tables of the selection history agree although append changes them
\* one by one, answers are committed and replay, and a history read after its
\* selection holds it (InMemoryWorkerSelectionHistory, WorkerSelectionService).
SelectionsStand ==
    /\ IndexesAgree
    /\ AnswersAreCommitted
    /\ HistoryHoldsSelection
    /\ SelectionsReplay

\* History is append-only, and a used key never leads elsewhere.
AppendOnly ==
    [][ /\ \A s \in Streams :
              /\ Len(streams'[s]) \in Len(streams[s]) .. Len(streams[s]) + 1
              /\ SubSeq(streams'[s], 1, Len(streams[s])) = streams[s]
        /\ byId \subseteq byId'
        /\ \A o \in OperationKeys :
              idempotency[o] # None => idempotency'[o] = idempotency[o] ]_vars

\* As documented and tested, identical idempotent writes return the accepted
\* selection, whatever version they expect.
EquivalentRetriesConverge ==
    [][ \A c \in Callers :
          call[c].pc = "append" /\ Prior(c) # None /\ Prior(c).request = call[c].request
          /\ call'[c] # call[c] =>
             call'[c].outcome = "Accepted" /\ call'[c].selection = Prior(c) ]_vars

\* The selections callers have evaluated or been given.
Seen == byId \cup {call[c].selection : c \in {d \in Callers : call[d].selection # None}}

EvidenceOn(x, worker) ==
    CHOOSE e \in ToSet(x.request.readiness) : e.worker = worker

\* The nearest multiple of the digit kept, the even one of two equally near.
Nearest(n) ==
    CHOOSE q \in 0 .. n : LET twice == 2 * (q * Unit - n)
                          IN  twice \in -Unit .. Unit /\ (twice \in {-Unit, Unit} => q % 2 = 0)

\* The documented ranking: every eligible worker once, and none before one that
\* has a higher score, the same score and older evidence, or the same of both
\* and a lower id; the score rounds each component half to even before weighing.
RankingAsDocumented ==
    \A x \in Seen :
       LET e(n) == EvidenceOn(x, x.candidates[n])
           total(n) == MapThenSumSet(LAMBDA c : Weights[c] * Nearest(e(n).scores[c]),
                                     DOMAIN e(n).scores)
       IN  /\ ToSet(x.candidates) = {f.worker : f \in {g \in ToSet(x.request.readiness) :
                                        Reasons(x.request, g) = {}}}
           /\ \A m, n \in DOMAIN x.candidates : m < n =>
                 /\ total(m) >= total(n)
                 /\ total(m) = total(n) => e(m).evaluated <= e(n).evaluated
                 /\ total(m) = total(n) /\ e(m).evaluated = e(n).evaluated =>
                       e(m).worker < e(n).worker

\* WORKER_SELECTION.md: if hard policy filters every otherwise evaluable worker,
\* return PolicyFiltered.
\* Not so of this code: README, Divergences.
PolicyFilteredAsDocumented ==
    \A x \in Seen :
       LET reasons == {Reasons(x.request, e) : e \in ToSet(x.request.readiness)}
           evaluable == {R \in reasons : R \subseteq {"HARD_POLICY_FILTERED"}}
       IN  evaluable = {{"HARD_POLICY_FILTERED"}}
           /\ UNION reasons \cap {"CONTRADICTORY_EVIDENCE", "HARD_POLICY_EVIDENCE_UNAVAILABLE"} = {}
           => x.outcome = "PolicyFiltered"

\* WORKER_SELECTION.md: NoEligibleWorkers is reserved for a valid, complete
\* evidence set containing no readiness-positive worker.
\* Not so of this code: README, Divergences.
NoEligibleWorkersAsDocumented ==
    \A x \in Seen : x.outcome = "NoEligibleWorkers" =>
       \A e \in ToSet(x.request.readiness) : ~e.ready
=============================================================================
