----------------------------- MODULE Assignment -----------------------------
(***************************************************************************)
(* The two services that assign work, side by side: DispatchDecisionService *)
(* and WorkerSelectionService, each over its own repository.  Neither calls *)
(* the other; a dispatch decision refers to a selection made before it.     *)
(***************************************************************************)
EXTENDS DispatchDecision

CONSTANTS
    SelStreams, SelCallers, SelRequests, SelKeys, EmptyKey,
    Versions, Capabilities, Weights, Unit, One, References

VARIABLES
    sel_streams, sel_byId, sel_idempotency, sel_call

Sel == INSTANCE WorkerSelection WITH
    Streams <- SelStreams, Callers <- SelCallers,
    Requests <- SelRequests, Keys <- SelKeys,
    streams <- sel_streams, byId <- sel_byId, idempotency <- sel_idempotency,
    call <- sel_call

\* What holds of selections and of the requests for them.
ASSUME SelectionAssumption == Sel!ScoreAssumption /\ Sel!ServiceAssumption

sel_vars == <<sel_streams, sel_byId, sel_idempotency, sel_call>>

-----------------------------------------------------------------------------
(* Properties                                                               *)

\* The histories of worker selections stand, whoever races for them
\* (InMemoryWorkerSelectionHistory, WorkerSelectionService).
SelectionsStand == Sel!SelectionsStand

\* Neither repository rewrites what it holds, and an equivalent retry gets the
\* decision or selection of the call it repeats, whatever version it expects (both
\* append functions look the identity up before the version).
RetriesConverge ==
    /\ AppendOnly /\ EquivalentRetriesConverge
    /\ Sel!AppendOnly /\ Sel!EquivalentRetriesConverge
=============================================================================
