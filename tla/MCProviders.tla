----------------------------- MODULE MCProviders -----------------------------
(***************************************************************************)
(* Small instances of what takes provider data in.  A behaviour exercises   *)
(* one part: runs of two processes or of one, the validation of a payload,  *)
(* the storing of two payloads, or the resolving of player names by two     *)
(* sessions or by one.  Parts that are about the same variables differ in   *)
(* the steps they take; the variables of the others stay as they are.       *)
(***************************************************************************)
EXTENDS Providers, SequencesExt, TLC

CONSTANTS
    r1, r2, r3, r4,        \* runs, the last of a second process
    fake, typo,            \* providers; nobody registered typo
    today, later, junk, nothing     \* payloads; the last is empty

MCKindOf ==
    [p \in {today, later, junk, nothing} |->
        CASE p \in {today, later} -> "offers" [] p = junk -> "unusable" [] p = nothing -> "empty"]
MCRowsOf ==
    [p \in {today, later, junk, nothing} |-> CASE p = today -> 1 [] p = later -> 2 [] OTHER -> 0]
MCProcessOf == (r1 :> 1) @@ (r2 :> 1) @@ (r3 :> 1) @@ (r4 :> 2)

-----------------------------------------------------------------------------
(* Payloads of up to three records for one event: sound ones that collide   *)
(* in contract, book, name or row, and one with each defect.                *)

CONSTANTS game, receptions, touchdown, gabe, gabriel, davis, mike, jr, white,
          book, Book, dashed, spaced

MCFoldOf == (book :> book) @@ (Book :> book) @@ (dashed :> dashed) @@ (spaced :> spaced)
MCKeyOf == (book :> book) @@ (Book :> book) @@ (dashed :> dashed) @@ (spaced :> dashed)

\* Two spellings of one player, another player, and two names of which nothing is left.
MCNormalOf ==
    (gabe :> davis) @@ (gabriel :> davis) @@ (mike :> mike) @@ (jr :> None) @@ (white :> None)

MCImplied == [o \in {-150, -110, 100} |-> CASE o = -150 -> 60 [] o = -110 -> 52 [] o = 100 -> 50]

Sound ==
    [schema |-> "valid", event |-> game, book |-> book, market |-> receptions, player |-> gabe,
     side |-> "over", line |-> 5, odds |-> -110, captured |-> 1, stale |-> FALSE]

AnyRecords ==
    {Sound, [Sound EXCEPT !.side = "under"], [Sound EXCEPT !.side = "under", !.line = 6],
     [Sound EXCEPT !.book = Book, !.odds = 100], [Sound EXCEPT !.player = gabriel],
     [Sound EXCEPT !.player = gabriel, !.side = "under", !.stale = TRUE],
     [Sound EXCEPT !.market = touchdown, !.side = "yes", !.line = None]}
    \cup
    {[Sound EXCEPT !.schema = "MALFORMED_PAYLOAD"], [Sound EXCEPT !.schema = "UNSUPPORTED_MARKET"],
     [Sound EXCEPT !.player = white], [Sound EXCEPT !.odds = 99], [Sound EXCEPT !.line = -1],
     [Sound EXCEPT !.line = 10], [Sound EXCEPT !.market = touchdown, !.side = "yes"]}

ValidationPayloads == UNION {[1 .. n -> AnyRecords] : n \in 0 .. 3}

\* Records that are stored side by side, and a name that breaks the batch.
StoredRecords ==
    {[Sound EXCEPT !.book = b, !.side = s, !.line = l, !.odds = IF s = "over" THEN -110 ELSE -150] :
        b \in {book, dashed, spaced}, s \in {"over", "under"}, l \in {5, 6}}
    \cup {[Sound EXCEPT !.player = jr], [Sound EXCEPT !.captured = 2]}

StoredPayloads == UNION {[1 .. n -> StoredRecords] : n \in 1 .. 2}

MCRecordLists == ValidationPayloads \cup StoredPayloads

-----------------------------------------------------------------------------

CONSTANTS s1, s2, pa, pb, pc      \* sessions, and providers that name players

VARIABLE part      \* what this behaviour exercises

InitParts ==
    /\ part \in {"two processes", "one process", "validation", "storing",
                 "two sessions", "one session"}
    /\ Init /\ Offers!Init /\ Resolution!Init

\* A step of one of the runs R, of the given providers, answered with the payloads,
\* that leaves at most so many unanswered attempts behind it.
Running(R, providers, payloads, retries) ==
    \E r \in R :
        /\ (\E p \in providers : Start(r, p)) \/ RunStep(r) \/ Die(r)
        /\ run'[r].payload \in payloads \cup {None}
        /\ run'[r].pc = "fetch" => run'[r].attempts <= retries

\* A step of one of the sessions S, of the given providers and with the names.
Resolving(S, providers, names) ==
    /\ Resolution!Next
    /\ \A s \in Sessions :
          IF s \in S
          THEN session'[s].provider \in providers \cup {None} /\ ToSet(session'[s].names) \subseteq names
          ELSE session'[s] = session[s]

NextPart ==
    /\ \/ part = "two processes" /\ Running({r1, r4}, Providers, {today, nothing, junk}, 1)
          /\ UNCHANGED <<offer_vars, name_vars>>
       \/ part = "one process" /\ Running({r1, r2, r3}, {fake}, {today, later, junk}, 0)
          /\ UNCHANGED <<offer_vars, name_vars>>
       \/ part = "validation" /\ handled = 0
          /\ \E records \in ValidationPayloads : Offers!Handle(records)
          /\ UNCHANGED <<vars, name_vars>>
       \/ part = "storing" /\ \E records \in StoredPayloads : Offers!Handle(records)
          /\ UNCHANGED <<vars, name_vars>>
       \/ part = "two sessions" /\ Resolving(Sessions, AliasProviders, {gabe, gabriel, jr})
          /\ UNCHANGED <<vars, offer_vars>>
       \/ part = "one session" /\ Resolving({s1}, {pa, pb}, {gabe, gabriel, mike, jr})
          /\ UNCHANGED <<vars, offer_vars>>
    /\ UNCHANGED part

SpecParts == InitParts /\ [][NextPart]_<<part, vars, offer_vars, name_vars>>

\* The fairness of Ingestion: attempts are bounded and the loop runs what is ready.
FairSpecParts == SpecParts /\ Fairness

-----------------------------------------------------------------------------

\* A started job does not stay RUNNING unless its run dies, and once it has ended
\* its batch and lines are history (run_provider, the timeout of each attempt).
RunsEndForGood == RunsEnd /\ EndedJobsStay
=============================================================================
