---------------------------- MODULE IngestionProofs ----------------------------
(***************************************************************************)
(* Theorems about Ingestion, for any finite number of runs in any number of *)
(* processes, any providers, payloads and bound on attempts: what a job     *)
(* says of its run is what the tables hold, and stays so; about             *)
(* PlayerAliases, for any sessions, providers and names; and about          *)
(* OfferStore, for any payloads.                                            *)
(***************************************************************************)
EXTENDS Providers, FoldLemmas, SequenceTheorems

-----------------------------------------------------------------------------
(* Types                                                                    *)

Digests == Payloads \cup {"no offers"}

Batch == [job : Runs, provider : Providers, digest : Digests, duplicate : BOOLEAN, rows : Nat]

Pcs == {"idle", "fetch", "compare", "batch", "persist", "complete", "completing", "fail",
        "failing", "done", "dead"}

\* What a run remembers, whatever the row or digest it found for comparison.
Framed(f) ==
    f \in [pc : Pcs, provider : Providers \cup {None}, attempts : Nat,
           payload : Payloads \cup {None}, batch : Nat, seen : {f.seen},
           category : Categories \cup {None}]

\* The two tables of batches have the same rows, and everything its columns.
TypeOK ==
    /\ jobs \in [Runs -> Job \cup {None}]
    /\ batches \in Seq(Batch) /\ lines \in Seq(Nat) /\ Len(lines) = Len(batches)
    /\ health \in [Providers -> Health \cup {None}]
    /\ run = [r \in Runs |-> run[r]] /\ \A r \in Runs : Framed(run[r])

-----------------------------------------------------------------------------
(* The story of a run                                                       *)

\* The only batch of run r is b.
Only(r, b) == BatchOf(r) = {b} /\ b \in DOMAIN batches

\* What the job of a run that is done says is what the tables hold.
Told(r) ==
    LET j == jobs[r]
    IN  /\ j.status # "RUNNING"
        /\ j.status = "SUCCESS" =>
              \E b \in BatchOf(r) : /\ Only(r, b) /\ ~batches[b].duplicate
                                    /\ batches[b].rows = j.rows /\ lines[b] = j.rows
        /\ j.status = "DUPLICATE_SUPPRESSED" =>
              \E b \in BatchOf(r) : /\ Only(r, b) /\ batches[b].duplicate
                                    /\ batches[b].rows = 0 /\ lines[b] = 0
        /\ j.status = "FAILED" =>
              /\ j.rows = 0
              /\ j.category = "PERSISTENCE" =>
                    \E b \in BatchOf(r) : Only(r, b) /\ batches[b].rows = 0 /\ lines[b] = 0
              /\ j.category # "PERSISTENCE" => BatchOf(r) = {}
              /\ j.category \in {"TIMEOUT", "PROVIDER_ERROR"} => j.attempts = MaxAttempts

\* Where a run is tells what its job and its batch are, before anything of it is
\* told: other runs, of this process or of another, leave them alone.
Story(r) ==
    LET f == run[r]
        b == run[r].batch
    IN  /\ f.pc = "idle" => jobs[r] = None /\ BatchOf(r) = {}
        /\ f.pc # "idle" => jobs[r] \in Job /\ f.provider \in Providers
        /\ f.pc \notin {"idle", "done"} =>
              jobs[r].status = "RUNNING" /\ jobs[r].ended = 0 /\ jobs[r].rows = 0
        /\ f.pc \in {"fetch", "compare", "batch"} => BatchOf(r) = {}
        /\ f.pc \in {"compare", "batch", "persist", "complete", "completing"} =>
              f.payload \in Payloads
        /\ f.pc = "persist" =>
              Only(r, b) /\ ~batches[b].duplicate /\ batches[b].rows = RowsOf[f.payload]
              /\ lines[b] = 0
        /\ f.pc \in {"complete", "completing"} =>
              /\ Only(r, b)
              /\ batches[b].duplicate => batches[b].rows = 0 /\ lines[b] = 0
              /\ ~batches[b].duplicate =>
                    batches[b].rows = RowsOf[f.payload] /\ lines[b] = RowsOf[f.payload]
        /\ f.pc \in {"fail", "failing"} =>
              /\ f.category \in Categories
              /\ f.category = "PERSISTENCE" => Only(r, b) /\ lines[b] = 0
              /\ f.category # "PERSISTENCE" => BatchOf(r) = {}
              /\ f.category \in {"TIMEOUT", "PROVIDER_ERROR"} => f.attempts = MaxAttempts
        /\ f.pc \in {"completing", "failing"} => f.seen \in Health \cup {None}
        /\ f.pc = "dead" => \A m, n \in BatchOf(r) : m = n
        /\ f.pc = "done" => Told(r)

IngestionInv == TypeOK /\ \A r \in Runs : Story(r)
-----------------------------------------------------------------------------
(* Runs leave each other alone                                              *)

\* Nothing of run r changes: neither where it is, nor its job, batch or lines.
Undisturbed(r) ==
    /\ run'[r] = run[r] /\ jobs'[r] = jobs[r] /\ BatchOf(r)' = BatchOf(r)
    /\ \A n \in BatchOf(r) : /\ n \in DOMAIN batches /\ n \in DOMAIN batches'
                             /\ batches'[n] = batches[n] /\ lines'[n] = lines[n]

\* What the run_provider of one run does to the tables of batches: nothing, one
\* batch more, the lines of a batch of its own, or the row count of one.
OwnBatches(q) ==
    \/ batches' = batches /\ lines' = lines
    \/ \E b \in Batch : b.job = q /\ batches' = Append(batches, b) /\ lines' = Append(lines, 0)
    \/ \E b \in BatchOf(q), n \in Nat : batches' = batches /\ lines' = [lines EXCEPT ![b] = n]
    \/ \E b \in BatchOf(q) : batches' = [batches EXCEPT ![b].rows = 0] /\ lines' = lines

\* What is undisturbed keeps its story.
LEMMA StoryStays ==
    ASSUME NEW r \in Runs, Story(r), Undisturbed(r)
    PROVE  Story(r)'
<1> DEFINE f == run[r]
           b == run[r].batch
<1>1. /\ run'[r] = run[r] /\ jobs'[r] = jobs[r] /\ BatchOf(r)' = BatchOf(r)
      /\ \A n \in BatchOf(r) : /\ n \in DOMAIN batches /\ n \in DOMAIN batches'
                               /\ batches'[n] = batches[n] /\ lines'[n] = lines[n]
      BY DEF Undisturbed
<1>2. \A n : Only(r, n) => n \in BatchOf(r) /\ Only(r, n)'
      BY <1>1 DEF Only
<1>3. Told(r) => Told(r)'
      BY <1>1, <1>2 DEF Told
<1>4. QED  BY <1>1, <1>2, <1>3 DEF Story

\* The statements of a run leave the batches of every other run as they are, and
\* both tables well formed.
LEMMA BatchesApart ==
    ASSUME TypeOK, NEW q \in Runs, OwnBatches(q)
    PROVE  /\ batches' \in Seq(Batch) /\ lines' \in Seq(Nat) /\ Len(lines') = Len(batches')
           /\ \A r \in Runs \ {q} :
                 /\ BatchOf(r)' = BatchOf(r)
                 /\ \A n \in BatchOf(r) : /\ n \in DOMAIN batches /\ n \in DOMAIN batches'
                                          /\ batches'[n] = batches[n] /\ lines'[n] = lines[n]
<1>1. /\ batches \in Seq(Batch) /\ lines \in Seq(Nat) /\ Len(lines) = Len(batches)
      /\ DOMAIN batches = 1 .. Len(batches) /\ DOMAIN lines = 1 .. Len(lines)
      BY DEF TypeOK
<1>2. CASE batches' = batches /\ lines' = lines
      BY <1>1, <1>2 DEF BatchOf
<1>3. CASE \E b \in Batch : b.job = q /\ batches' = Append(batches, b) /\ lines' = Append(lines, 0)
  <2>1. PICK b \in Batch : b.job = q /\ batches' = Append(batches, b) /\ lines' = Append(lines, 0)
        BY <1>3
  <2>2. /\ batches' \in Seq(Batch) /\ Len(batches') = Len(batches) + 1
        /\ lines' \in Seq(Nat) /\ Len(lines') = Len(lines) + 1
        /\ DOMAIN batches' = 1 .. Len(batches) + 1
        /\ \A n \in 1 .. Len(batches) : batches'[n] = batches[n] /\ lines'[n] = lines[n]
        /\ batches'[Len(batches) + 1] = b
    <3>1. /\ batches' \in Seq(Batch) /\ Len(batches') = Len(batches) + 1
          /\ batches'[Len(batches) + 1] = b
          /\ \A n \in 1 .. Len(batches) : batches'[n] = batches[n]
          BY <1>1, <2>1, AppendProperties
    <3>2. /\ lines' \in Seq(Nat) /\ Len(lines') = Len(lines) + 1
          /\ \A n \in 1 .. Len(lines) : lines'[n] = lines[n]
          BY <1>1, <2>1, AppendProperties
    <3>3. DOMAIN batches' = 1 .. Len(batches')
          BY <3>1
    <3>4. QED  BY <1>1, <3>1, <3>2, <3>3
  <2>3. ASSUME NEW r \in Runs \ {q} PROVE BatchOf(r)' = BatchOf(r)
        BY <1>1, <2>1, <2>2 DEF BatchOf
  <2>4. QED  BY <1>1, <2>2, <2>3 DEF BatchOf
<1>4. CASE \E b \in BatchOf(q), n \in Nat : batches' = batches /\ lines' = [lines EXCEPT ![b] = n]
  <2>1. PICK b \in BatchOf(q), n \in Nat : batches' = batches /\ lines' = [lines EXCEPT ![b] = n]
        BY <1>4
  <2>2. lines' \in Seq(Nat) /\ Len(lines') = Len(lines)
    <3>1. b \in 1 .. Len(lines)
          BY <1>1 DEF BatchOf
    <3>2. QED  BY <1>1, <2>1, <3>1, ExceptSeq
  <2>3. \A m \in DOMAIN batches : m # b => lines'[m] = lines[m]
        BY <1>1, <2>1
  <2>4. QED  BY <1>1, <2>1, <2>2, <2>3 DEF BatchOf
<1>5. CASE \E b \in BatchOf(q) : batches' = [batches EXCEPT ![b].rows = 0] /\ lines' = lines
  <2>1. PICK b \in BatchOf(q) : batches' = [batches EXCEPT ![b].rows = 0] /\ lines' = lines
        BY <1>5
  <2>2. b \in DOMAIN batches /\ batches[b] \in Batch /\ batches[b].job = q
        BY <1>1 DEF BatchOf
  <2>3. [batches[b] EXCEPT !.rows = 0] \in Batch /\ [batches[b] EXCEPT !.rows = 0].job = q
        BY <2>2 DEF Batch
  <2>4. /\ batches' \in Seq(Batch) /\ Len(batches') = Len(batches)
        /\ DOMAIN batches' = DOMAIN batches
        /\ \A m \in DOMAIN batches : m # b => batches'[m] = batches[m]
        /\ batches'[b].job = q
        BY <1>1, <2>1, <2>2, <2>3
  <2>5. ASSUME NEW r \in Runs \ {q} PROVE BatchOf(r)' = BatchOf(r) /\ b \notin BatchOf(r)
        BY <2>2, <2>4 DEF BatchOf
  <2>6. QED  BY <1>1, <2>1, <2>4, <2>5 DEF BatchOf
<1>6. QED  BY <1>2, <1>3, <1>4, <1>5 DEF OwnBatches

\* A statement of run q leaves the tables' rows of other runs alone.
Apart(q) ==
    OwnBatches(q) /\ \A r \in Runs \ {q} : jobs'[r] = jobs[r] /\ run'[r] = run[r]

\* A statement of run q that keeps types, touches only what is q's and leads on
\* its own story keeps every story.
LEMMA InvFromOwn ==
    ASSUME IngestionInv, NEW q \in Runs, NEW f, Framed(f), run' = [run EXCEPT ![q] = f],
           jobs' \in [Runs -> Job \cup {None}], \A r \in Runs \ {q} : jobs'[r] = jobs[r],
           health' \in [Providers -> Health \cup {None}], OwnBatches(q), Story(q)'
    PROVE  IngestionInv' /\ Apart(q)
<1>1. TypeOK /\ \A r \in Runs : Story(r)
      BY DEF IngestionInv
<1>2. /\ batches' \in Seq(Batch) /\ lines' \in Seq(Nat) /\ Len(lines') = Len(batches')
      /\ \A r \in Runs \ {q} :
            /\ BatchOf(r)' = BatchOf(r)
            /\ \A n \in BatchOf(r) : /\ n \in DOMAIN batches /\ n \in DOMAIN batches'
                                     /\ batches'[n] = batches[n] /\ lines'[n] = lines[n]
      BY <1>1, BatchesApart
<1>3. /\ run' = [r \in Runs |-> run'[r]] /\ run'[q] = f
      /\ \A r \in Runs \ {q} : run'[r] = run[r]
      BY <1>1 DEF TypeOK
<1>4. TypeOK'
      BY <1>1, <1>2, <1>3 DEF TypeOK
<1>5. ASSUME NEW r \in Runs \ {q} PROVE Story(r)'
  <2>1. Undisturbed(r)
        BY <1>2, <1>3 DEF Undisturbed
  <2>2. QED  BY <1>1, <2>1, StoryStays
<1>6. QED  BY <1>3, <1>4, <1>5 DEF IngestionInv, Apart

-----------------------------------------------------------------------------
(* Every statement of a run leads its story on                              *)

\* The tables of batches as the lemmas on sequences want them.
LEMMA BatchTables ==
    ASSUME IngestionInv
    PROVE  /\ batches \in Seq(Batch) /\ lines \in Seq(Nat)
           /\ Len(batches) \in Nat /\ Len(lines) = Len(batches)
           /\ DOMAIN batches = 1 .. Len(batches) /\ DOMAIN lines = 1 .. Len(batches)
<1>1. batches \in Seq(Batch) /\ lines \in Seq(Nat) /\ Len(lines) = Len(batches)
      BY DEF IngestionInv, TypeOK
<1>2. QED  BY <1>1

\* The facts about run q that a statement of its starts from.
LEMMA RunFacts ==
    ASSUME IngestionInv, NEW q \in Runs
    PROVE  /\ TypeOK /\ Story(q) /\ Framed(run[q])
           /\ \A f : [run EXCEPT ![q] = f][q] = f
           /\ jobs \in [Runs -> Job \cup {None}]
           /\ health \in [Providers -> Health \cup {None}]
<1>1. TypeOK /\ Story(q)
      BY DEF IngestionInv
<1>2. \A f : [run EXCEPT ![q] = f][q] = f
      BY <1>1 DEF TypeOK
<1>3. QED  BY <1>1, <1>2 DEF TypeOK

\* One attempt more is a number of attempts.
LEMMA OneMoreAttempt ==
    ASSUME NEW f, Framed(f)
    PROVE  f.attempts \in Nat /\ f.attempts + 1 \in Nat
<1>1. f.attempts \in Nat
      BY DEF Framed
<1>2. QED  BY <1>1

\* g is frame f, but for where the run is, its batch, the row it saw and why it fails.
Moved(f, g, pc, batch, seen, category) ==
    /\ Framed(g) /\ g.pc = pc /\ g.batch = batch /\ g.seen = seen /\ g.category = category
    /\ g.provider = f.provider /\ g.attempts = f.attempts /\ g.payload = f.payload

\* A run moves on with nothing new,
LEMMA MoveOn ==
    ASSUME NEW f, Framed(f), NEW pc \in Pcs
    PROVE  Moved(f, [f EXCEPT !.pc = pc], pc, f.batch, f.seen, f.category)
BY DEF Framed, Moved

\* with the row it found,
LEMMA MoveSeen ==
    ASSUME NEW f, Framed(f), NEW pc \in Pcs, NEW s
    PROVE  Moved(f, [f EXCEPT !.pc = pc, !.seen = s], pc, f.batch, s, f.category)
BY DEF Framed, Moved

\* with its batch,
LEMMA MoveBatch ==
    ASSUME NEW f, Framed(f), NEW pc \in Pcs, NEW b \in Nat
    PROVE  Moved(f, [f EXCEPT !.pc = pc, !.batch = b], pc, b, f.seen, f.category)
BY DEF Framed, Moved

\* or with what went wrong.
LEMMA MoveCategory ==
    ASSUME NEW f, Framed(f), NEW pc \in Pcs, NEW c \in Categories
    PROVE  Moved(f, [f EXCEPT !.pc = pc, !.category = c], pc, f.batch, f.seen, c)
BY DEF Framed, Moved

\* An attempt counts, whether it is answered
LEMMA AnsweredFrame ==
    ASSUME NEW f, Framed(f), NEW p \in Payloads
    PROVE  LET g == [f EXCEPT !.attempts = @ + 1, !.payload = p]
           IN  Framed(g) /\ g.provider = f.provider /\ g.payload = p
<1>1. f.attempts + 1 \in Nat
      BY OneMoreAttempt
<1>2. QED  BY <1>1 DEF Framed

\* or not.
LEMMA UnansweredFrame ==
    ASSUME NEW f, Framed(f), NEW c \in Categories
    PROVE  LET g == [f EXCEPT !.attempts = @ + 1, !.category = c]
           IN  Framed(g) /\ g.provider = f.provider /\ g.category = c
<1>1. f.attempts + 1 \in Nat
      BY OneMoreAttempt
<1>2. QED  BY <1>1 DEF Framed

\* Where only the run's frame changes, its batches are what they were.
LEMMA QuietStep ==
    ASSUME IngestionInv, NEW q \in Runs, NEW f, Framed(f), run' = [run EXCEPT ![q] = f],
           UNCHANGED <<jobs, batches, lines, health>>, Story(q)'
    PROVE  IngestionInv' /\ Apart(q)
<1>1. OwnBatches(q)
      BY DEF OwnBatches
<1>2. jobs' = jobs /\ health' = health
      OBVIOUS
<1>3. jobs' \in [Runs -> Job \cup {None}] /\ health' \in [Providers -> Health \cup {None}]
      BY <1>2, RunFacts
<1>4. QED  BY <1>1, <1>2, <1>3, InvFromOwn

LEMMA IngestionInit == Init => IngestionInv
<1>1. SUFFICES ASSUME Init PROVE IngestionInv
      OBVIOUS
<1>2. \A r \in Runs : jobs[r] = None /\ run[r] = Idle /\ BatchOf(r) = {}
      BY <1>1 DEF Init, BatchOf
<1>3. TypeOK
      BY <1>1, <1>2 DEF Init, TypeOK, Framed, Idle, Frame, Pcs
<1>4. ASSUME NEW r \in Runs PROVE Story(r)
      BY <1>2 DEF Story, Idle, Frame
<1>5. QED  BY <1>3, <1>4 DEF IngestionInv

\* Starting: the job is RUNNING before anything can fail.
LEMMA StartStep ==
    ASSUME IngestionInv, NEW q \in Runs, NEW p \in Providers, Start(q, p)
    PROVE  IngestionInv' /\ Apart(q)
<1> DEFINE f == IF p \in Registered
                THEN Frame("fetch", p, 0, None, 0, None, None)
                ELSE Frame("fail", p, 0, None, 0, None, "CONFIGURATION")
           j == [provider |-> p, status |-> "RUNNING", ended |-> 0,
                 attempts |-> 0, rows |-> 0, category |-> None]
<1>1. /\ run' = [run EXCEPT ![q] = f] /\ jobs' = [jobs EXCEPT ![q] = j]
      /\ UNCHANGED <<batches, lines, health>> /\ run[q].pc = "idle"
      BY DEF Start, Goto, At
<1>2. Framed(f)
      BY DEF Framed, Frame, Pcs, Categories
<1>3. j \in Job
      BY DEF Job
<1>4. run'[q] = f /\ jobs'[q] = j
      BY <1>1, RunFacts
<1>5. BatchOf(q)' = {}
  <2>1. BatchOf(q) = {}
        BY <1>1, RunFacts DEF Story
  <2>2. QED  BY <1>1, <2>1 DEF BatchOf
<1>6. /\ f.pc \in {"fetch", "fail"} /\ f.provider = p
      /\ f.pc = "fail" => f.category = "CONFIGURATION"
      BY DEF Frame
<1>7. j.status = "RUNNING" /\ j.ended = 0 /\ j.rows = 0
      OBVIOUS
<1> HIDE DEF f, j
<1>8. Story(q)'
      BY <1>3, <1>4, <1>5, <1>6, <1>7 DEF Story, Categories
<1>9. /\ jobs' \in [Runs -> Job \cup {None}] /\ \A r \in Runs \ {q} : jobs'[r] = jobs[r]
      BY <1>1, <1>3, RunFacts
<1>10. OwnBatches(q) /\ health' \in [Providers -> Health \cup {None}]
  <2>1. batches' = batches /\ lines' = lines /\ health' = health
        BY <1>1
  <2>2. QED  BY <2>1, RunFacts DEF OwnBatches
<1>11. QED  BY <1>1, <1>2, <1>8, <1>9, <1>10, InvFromOwn

\* Fetching: an attempt is answered or not, and nothing is stored.
LEMMA FetchStep ==
    ASSUME IngestionInv, NEW q \in Runs,
           \/ \E p \in Payloads : Answered(q, p)
           \/ \E c \in {"TIMEOUT", "PROVIDER_ERROR"} : Unanswered(q, c)
    PROVE  IngestionInv' /\ Apart(q)
<1>1. PICK f : /\ Framed(f) /\ run' = [run EXCEPT ![q] = f] /\ f.provider = run[q].provider
               /\ f.pc \in {"compare", "fetch", "fail"}
               /\ f.pc = "compare" => f.payload \in Payloads
               /\ f.pc = "fail" => \/ f.category = "DATA_QUALITY"
                                   \/ /\ f.category \in {"TIMEOUT", "PROVIDER_ERROR"}
                                      /\ f.attempts = MaxAttempts
  <2>1. Framed(run[q])
        BY RunFacts
  <2>2. CASE \E p \in Payloads : Answered(q, p)
    <3>1. PICK p \in Payloads : Answered(q, p)
          BY <2>2
    <3> DEFINE g == [run[q] EXCEPT !.attempts = @ + 1, !.payload = p]
               h == [g EXCEPT !.pc = "fail", !.category = "DATA_QUALITY"]
               k == [g EXCEPT !.pc = "compare"]
    <3>2. run' = [run EXCEPT ![q] = IF KindOf[p] = "unusable" THEN h ELSE k]
          BY <3>1 DEF Answered, Goto
    <3>3. Framed(g) /\ g.provider = run[q].provider /\ g.payload = p
          BY <2>1, AnsweredFrame
    <3> HIDE DEF g
    <3>4. /\ Moved(g, h, "fail", g.batch, g.seen, "DATA_QUALITY")
          /\ Moved(g, k, "compare", g.batch, g.seen, g.category)
          BY <3>3, MoveCategory, MoveOn DEF Pcs, Categories
    <3> HIDE DEF h, k
    <3>5. CASE KindOf[p] = "unusable"
          BY <3>2, <3>3, <3>4, <3>5 DEF Moved
    <3>6. CASE KindOf[p] # "unusable"
          BY <3>2, <3>3, <3>4, <3>6 DEF Moved
    <3>7. QED  BY <3>5, <3>6
  <2>3. CASE \E c \in {"TIMEOUT", "PROVIDER_ERROR"} : Unanswered(q, c)
    <3>1. PICK c \in {"TIMEOUT", "PROVIDER_ERROR"} : Unanswered(q, c)
          BY <2>3
    <3> DEFINE g == [run[q] EXCEPT !.attempts = @ + 1, !.category = c]
               pc == IF g.attempts = MaxAttempts THEN "fail" ELSE "fetch"
               h == [g EXCEPT !.pc = pc]
    <3>2. run' = [run EXCEPT ![q] = h]
          BY <3>1 DEF Unanswered, Goto
    <3>3. Framed(g) /\ g.provider = run[q].provider /\ g.category = c
      <4>1. c \in Categories
            BY DEF Categories
      <4> HIDE DEF g
      <4>2. QED  BY <2>1, <4>1, UnansweredFrame DEF g
    <3> HIDE DEF g
    <3>4. pc \in {"fail", "fetch"} /\ (pc = "fail" => g.attempts = MaxAttempts)
          OBVIOUS
    <3> HIDE DEF pc
    <3>5. Moved(g, h, pc, g.batch, g.seen, g.category)
          BY <3>3, <3>4, MoveOn DEF Pcs
    <3> HIDE DEF h
    <3>6. QED  BY <3>2, <3>3, <3>4, <3>5 DEF Moved
  <2>4. QED  BY <2>2, <2>3
<1>2. run[q].pc = "fetch" /\ UNCHANGED <<jobs, batches, lines, health>>
      BY DEF Answered, Unanswered, At
<1>3. /\ jobs[q] \in Job /\ run[q].provider \in Providers /\ BatchOf(q) = {}
      /\ jobs[q].status = "RUNNING" /\ jobs[q].ended = 0 /\ jobs[q].rows = 0
      BY <1>2, RunFacts DEF Story
<1>4. run'[q] = f /\ jobs'[q] = jobs[q] /\ BatchOf(q)' = {}
  <2>1. run'[q] = f
        BY <1>1, RunFacts
  <2>2. QED  BY <1>2, <1>3, <2>1 DEF BatchOf
<1>5. Story(q)'
      BY <1>1, <1>3, <1>4 DEF Story, Categories
<1>6. QED  BY <1>1, <1>2, <1>5, QuietStep
\* Comparing: the latest batch is read.
LEMMA CompareStep ==
    ASSUME IngestionInv, NEW q \in Runs, Compare(q)
    PROVE  IngestionInv' /\ Apart(q)
<1> DEFINE f == [run[q] EXCEPT !.pc = "batch", !.seen = LatestDigest(q)]
<1>1. /\ run' = [run EXCEPT ![q] = f] /\ run[q].pc = "compare"
      /\ UNCHANGED <<jobs, batches, lines, health>>
      BY DEF Compare, Goto, At
<1>2. Moved(run[q], f, "batch", run[q].batch, LatestDigest(q), run[q].category)
      BY RunFacts, MoveSeen DEF Pcs
<1> HIDE DEF f
<1>3. run'[q] = f /\ jobs'[q] = jobs[q] /\ BatchOf(q)' = BatchOf(q)
  <2>1. run'[q] = f
        BY <1>1, RunFacts
  <2>2. QED  BY <1>1, <2>1 DEF BatchOf
<1>4. Story(q)'
      BY <1>1, <1>2, <1>3, RunFacts DEF Story, Moved
<1>5. QED  BY <1>1, <1>2, <1>4, QuietStep DEF Moved

\* Adding the batch: the first of the run, with the rows it is about to have.
LEMMA AddBatchStep ==
    ASSUME IngestionInv, NEW q \in Runs, AddBatch(q)
    PROVE  IngestionInv' /\ Apart(q)
<1>0. PICK n : n = Len(batches) + 1
      OBVIOUS
<1> DEFINE d == Digest(run[q].payload)
           dup == d = run[q].seen
           b == [job |-> q, provider |-> run[q].provider, digest |-> d, duplicate |-> dup,
                 rows |-> IF dup THEN 0 ELSE RowsOf[run[q].payload]]
           pc == IF dup THEN "complete" ELSE "persist"
           f == [run[q] EXCEPT !.pc = pc, !.batch = n]
<1>1. /\ run' = [run EXCEPT ![q] = f] /\ batches' = Append(batches, b)
      /\ lines' = Append(lines, 0) /\ jobs' = jobs /\ health' = health
      /\ run[q].pc = "batch"
      BY <1>0 DEF AddBatch, Goto, At
<1>2. /\ run[q].payload \in Payloads /\ run[q].provider \in Providers /\ BatchOf(q) = {}
      /\ jobs[q] \in Job
      /\ jobs[q].status = "RUNNING" /\ jobs[q].ended = 0 /\ jobs[q].rows = 0
      BY <1>1, RunFacts DEF Story
<1>3. RowsOf[run[q].payload] \in Nat /\ n \in Nat /\ pc \in {"complete", "persist"}
  <2>1. Len(batches) \in Nat
        BY BatchTables
  <2>2. RowsOf[run[q].payload] \in Nat
        BY <1>2, IngestionAssumption
  <2>3. QED  BY <1>0, <2>1, <2>2
<1>4. /\ b \in Batch /\ b.job = q /\ b.duplicate = dup
      /\ b.rows = IF dup THEN 0 ELSE RowsOf[run[q].payload]
  <2>1. d \in Digests
        BY <1>2 DEF Digest, Digests
  <2>2. dup \in BOOLEAN
        OBVIOUS
  <2>3. (IF dup THEN 0 ELSE RowsOf[run[q].payload]) \in Nat
        BY <1>3
  <2> HIDE DEF d, dup
  <2>4. QED  BY <1>2, <2>1, <2>2, <2>3 DEF Batch
<1>5. Moved(run[q], f, pc, n, run[q].seen, run[q].category)
  <2>1. pc \in Pcs
        BY <1>3 DEF Pcs
  <2> HIDE DEF pc
  <2>2. QED  BY <1>3, <2>1, RunFacts, MoveBatch
<1>6. pc = "complete" <=> dup
      OBVIOUS
<1> HIDE DEF f, b, pc, dup, d
<1>7. /\ batches'[n] = b /\ lines'[n] = 0
      /\ DOMAIN batches' = DOMAIN batches \cup {n} /\ n \notin DOMAIN batches
      /\ \A m \in DOMAIN batches : batches'[m] = batches[m]
  <2>1. /\ Append(batches, b) \in Seq(Batch) /\ Len(Append(batches, b)) = Len(batches) + 1
        /\ Append(batches, b)[Len(batches) + 1] = b
        /\ \A m \in 1 .. Len(batches) : Append(batches, b)[m] = batches[m]
        BY <1>4, BatchTables, AppendProperties
  <2>2. Append(lines, 0)[Len(lines) + 1] = 0
        BY BatchTables, AppendProperties
  <2>3. DOMAIN Append(batches, b) = 1 .. Len(batches) + 1
        BY <2>1
  <2>4. 1 .. Len(batches) + 1 = 1 .. Len(batches) \cup {Len(batches) + 1}
        BY BatchTables
  <2>5. QED  BY <1>0, <1>1, <2>1, <2>2, <2>3, <2>4, BatchTables
<1>8. BatchOf(q)' = {n} /\ n \in DOMAIN batches'
  <2>1. \A m \in DOMAIN batches : batches'[m].job # q
        BY <1>2, <1>7 DEF BatchOf
  <2>2. QED  BY <1>4, <1>7, <2>1 DEF BatchOf
<1>9. run'[q] = f /\ jobs'[q] = jobs[q]
      BY <1>1, RunFacts
<1>10. Only(q, n)'
      BY <1>8 DEF Only
<1>11. Story(q)'
      BY <1>2, <1>3, <1>4, <1>5, <1>6, <1>7, <1>9, <1>10 DEF Story, Moved
<1>12. OwnBatches(q)
      BY <1>1, <1>4 DEF OwnBatches
<1>13. jobs' \in [Runs -> Job \cup {None}] /\ health' \in [Providers -> Health \cup {None}]
      BY <1>1, RunFacts
<1>14. QED  BY <1>1, <1>5, <1>11, <1>12, <1>13, InvFromOwn DEF Moved

\* Persisting: all rows of the batch at once,
LEMMA PersistStep ==
    ASSUME IngestionInv, NEW q \in Runs, Persist(q)
    PROVE  IngestionInv' /\ Apart(q)
<1>0. PICK b : b = run[q].batch
      OBVIOUS
<1> DEFINE f == [run[q] EXCEPT !.pc = "complete"]
           k == RowsOf[run[q].payload]
<1>1. /\ run' = [run EXCEPT ![q] = f] /\ lines' = [lines EXCEPT ![b] = k]
      /\ batches' = batches /\ jobs' = jobs /\ health' = health
      /\ run[q].pc = "persist"
      BY <1>0 DEF Persist, Goto, At
<1>2. /\ run[q].payload \in Payloads /\ run[q].provider \in Providers
      /\ Only(q, b) /\ ~batches[b].duplicate /\ batches[b].rows = k
      /\ jobs[q] \in Job
      /\ jobs[q].status = "RUNNING" /\ jobs[q].ended = 0 /\ jobs[q].rows = 0
      BY <1>0, <1>1, RunFacts DEF Story
<1>3. k \in Nat
      BY <1>2, IngestionAssumption
<1>4. Moved(run[q], f, "complete", b, run[q].seen, run[q].category)
      BY <1>0, RunFacts, MoveOn DEF Pcs
<1> HIDE DEF f
<1>5. b \in BatchOf(q) /\ b \in DOMAIN lines /\ Only(q, b)' /\ batches'[b] = batches[b]
      BY <1>1, <1>2, BatchTables DEF Only, BatchOf
<1>6. run'[q] = f /\ jobs'[q] = jobs[q] /\ lines'[b] = k
      BY <1>1, <1>5, RunFacts
<1>7. Story(q)'
      BY <1>2, <1>4, <1>5, <1>6 DEF Story, Moved
<1>8. OwnBatches(q)
      BY <1>1, <1>3, <1>5 DEF OwnBatches
<1>9. jobs' \in [Runs -> Job \cup {None}] /\ health' \in [Providers -> Health \cup {None}]
      BY <1>1, RunFacts
<1>10. QED  BY <1>1, <1>4, <1>7, <1>8, <1>9, InvFromOwn DEF Moved

\* or none of them.
LEMMA PersistFailsStep ==
    ASSUME IngestionInv, NEW q \in Runs, PersistFails(q)
    PROVE  IngestionInv' /\ Apart(q)
<1> DEFINE f == [run[q] EXCEPT !.pc = "fail", !.category = "PERSISTENCE"]
<1>1. /\ run' = [run EXCEPT ![q] = f] /\ run[q].pc = "persist"
      /\ UNCHANGED <<jobs, batches, lines, health>>
      BY DEF PersistFails, Goto, At
<1>2. Moved(run[q], f, "fail", run[q].batch, run[q].seen, "PERSISTENCE")
      BY RunFacts, MoveCategory DEF Pcs, Categories
<1> HIDE DEF f
<1>3. /\ run'[q] = f /\ jobs'[q] = jobs[q] /\ BatchOf(q)' = BatchOf(q)
      /\ \A n : Only(q, n)' <=> Only(q, n)
  <2>1. run'[q] = f
        BY <1>1, RunFacts
  <2>2. QED  BY <1>1, <2>1 DEF BatchOf, Only
<1>4. Story(q)'
      BY <1>1, <1>2, <1>3, RunFacts DEF Story, Moved, Categories
<1>5. QED  BY <1>1, <1>2, <1>4, QuietStep DEF Moved

\* The final transaction begins with the provider's row.
LEMMA ReadHealthStep ==
    ASSUME IngestionInv, NEW q \in Runs, ReadHealth(q)
    PROVE  IngestionInv' /\ Apart(q)
<1>0. PICK pc, s : /\ pc = IF run[q].pc = "fail" THEN "failing" ELSE "completing"
                   /\ s = health[run[q].provider]
      OBVIOUS
<1> DEFINE f == [run[q] EXCEPT !.pc = pc, !.seen = s]
<1>1. /\ run' = [run EXCEPT ![q] = f] /\ run[q].pc \in {"complete", "fail"}
      /\ UNCHANGED <<jobs, batches, lines, health>>
  <2>1. run' = [run EXCEPT ![q] = [run[q] EXCEPT
                  !.pc = IF run[q].pc = "fail" THEN "failing" ELSE "completing",
                  !.seen = health[run[q].provider]]]
        BY DEF ReadHealth, Goto
  <2>2. QED  BY <1>0, <2>1 DEF ReadHealth
<1>2. pc \in {"failing", "completing"} /\ (pc = "failing" <=> run[q].pc = "fail")
      BY <1>0
<1>3. Moved(run[q], f, pc, run[q].batch, s, run[q].category)
      BY <1>2, RunFacts, MoveSeen, ZenonT(30) DEF Pcs
<1> HIDE DEF f
<1>4. s \in Health \cup {None}
  <2>1. run[q].provider \in Providers
        BY <1>1, RunFacts DEF Story
  <2>2. QED  BY <1>0, <2>1, RunFacts
<1>5. /\ run'[q] = f /\ jobs'[q] = jobs[q] /\ BatchOf(q)' = BatchOf(q)
      /\ \A n : Only(q, n)' <=> Only(q, n)
  <2>1. run'[q] = f
        BY <1>1, RunFacts
  <2>2. QED  BY <1>1, <2>1 DEF BatchOf, Only
<1>6. Story(q)'
      BY <1>1, <1>2, <1>3, <1>4, <1>5, RunFacts DEF Story, Moved
<1>7. QED  BY <1>1, <1>3, <1>6, QuietStep DEF Moved

\* A run may end without a word wherever it is: its job stays RUNNING.
LEMMA DeadStep ==
    ASSUME IngestionInv, NEW q \in Runs, Die(q) \/ HealthCollides(q)
    PROVE  IngestionInv' /\ Apart(q)
<1> DEFINE f == [run[q] EXCEPT !.pc = "dead"]
<1>1. /\ run' = [run EXCEPT ![q] = f] /\ run[q].pc \notin {"idle", "done", "dead"}
      /\ UNCHANGED <<jobs, batches, lines, health>>
      BY DEF Die, HealthCollides, Goto
<1>2. Moved(run[q], f, "dead", run[q].batch, run[q].seen, run[q].category)
      BY RunFacts, MoveOn DEF Pcs
<1> HIDE DEF f
<1>3. run'[q] = f /\ jobs'[q] = jobs[q] /\ BatchOf(q)' = BatchOf(q)
  <2>1. run'[q] = f
        BY <1>1, RunFacts
  <2>2. QED  BY <1>1, <2>1 DEF BatchOf
<1>4. \A m, n \in BatchOf(q) : m = n
  <2>1. run[q].pc \in Pcs
        BY RunFacts DEF Framed
  <2>2. BatchOf(q) = {} \/ \E b : BatchOf(q) = {b}
        BY <1>1, <2>1, RunFacts DEF Story, Only, Pcs
  <2>3. QED  BY <2>2
<1>5. Story(q)'
      BY <1>1, <1>2, <1>3, <1>4, RunFacts DEF Story, Moved
<1>6. QED  BY <1>1, <1>2, <1>5, QuietStep DEF Moved

\* The place of a run among the ended ones.
LEMMA PlaceIsNat == Cardinality(Ended) \in Nat /\ Cardinality(Ended) + 1 \in Nat \ {0}
<1>1. IsFiniteSet(Ended)
      BY IngestionAssumption, FS_Subset DEF Ended
<1>2. Cardinality(Ended) \in Nat
      BY <1>1, FS_CardinalityType
<1>3. QED  BY <1>2

\* What is written to provider_health is a row of it.
LEMMA HealthIsHealth ==
    ASSUME NEW h \in Health, NEW k \in Nat
    PROVE  Recovered(h, k) \in Health /\ Worsened(h) \in Health
<1>1. h.failures + 1 \in Nat /\ h.successes + 1 \in Nat
      BY DEF Health
<1>2. QED  BY <1>1 DEF Health, Recovered, Worsened

\* Completing: the job takes its status and rows from the batch.
LEMMA CompleteStep ==
    ASSUME IngestionInv, NEW q \in Runs, Complete(q)
    PROVE  IngestionInv' /\ Apart(q)
<1>0. PICK b, k, place, dup : /\ b = run[q].batch /\ k = RowsOf[run[q].payload]
                              /\ place = Cardinality(Ended) + 1 /\ dup = batches[b].duplicate
      OBVIOUS
<1> DEFINE status == IF dup THEN "DUPLICATE_SUPPRESSED" ELSE "SUCCESS"
           rows == IF dup THEN 0 ELSE k
           j == [jobs[q] EXCEPT !.status = status, !.ended = place,
                                !.attempts = run[q].attempts, !.rows = rows]
           h == Recovered(Read(q), k)
           f == [run[q] EXCEPT !.pc = "done"]
<1>1. /\ run' = [run EXCEPT ![q] = f] /\ jobs' = [jobs EXCEPT ![q] = j]
      /\ health' = [health EXCEPT ![run[q].provider] = h]
      /\ batches' = batches /\ lines' = lines /\ run[q].pc = "completing"
  <2>1. /\ jobs' = [jobs EXCEPT ![q] = [@ EXCEPT
              !.status = IF batches[run[q].batch].duplicate
                         THEN "DUPLICATE_SUPPRESSED" ELSE "SUCCESS",
              !.ended = Cardinality(Ended) + 1, !.attempts = run[q].attempts,
              !.rows = IF batches[run[q].batch].duplicate THEN 0
                       ELSE RowsOf[run[q].payload]]]
        /\ health' = [health EXCEPT ![run[q].provider] =
                         Recovered(Read(q), RowsOf[run[q].payload])]
        /\ run' = [run EXCEPT ![q] = [run[q] EXCEPT !.pc = "done"]]
        /\ batches' = batches /\ lines' = lines /\ run[q].pc = "completing"
        BY DEF Complete, At, Goto
  <2>2. QED  BY <1>0, <2>1
<1>2. /\ run[q].payload \in Payloads /\ run[q].provider \in Providers
      /\ run[q].seen \in Health \cup {None} /\ jobs[q] \in Job
      /\ Only(q, b)
      /\ dup => batches[b].rows = 0 /\ lines[b] = 0
      /\ ~dup => batches[b].rows = k /\ lines[b] = k
      BY <1>0, <1>1, RunFacts DEF Story
<1>3. k \in Nat /\ place \in Nat /\ run[q].attempts \in Nat
      BY <1>0, <1>2, IngestionAssumption, PlaceIsNat, RunFacts, OneMoreAttempt
<1>4. /\ status \in {"SUCCESS", "DUPLICATE_SUPPRESSED"} /\ rows \in Nat
      /\ status = "SUCCESS" <=> ~dup
      /\ rows = IF dup THEN 0 ELSE k
      BY <1>3
<1>5. Moved(run[q], f, "done", b, run[q].seen, run[q].category)
      BY <1>0, RunFacts, MoveOn DEF Pcs
<1> HIDE DEF f, status, rows
<1>6. j \in Job /\ j.status = status /\ j.rows = rows
      BY <1>2, <1>3, <1>4 DEF Job
<1>7. h \in Health
  <2>1. Read(q) \in Health
        BY <1>2 DEF Read, Fresh, Health
  <2>2. QED  BY <1>3, <2>1, HealthIsHealth
<1> HIDE DEF j, h
<1>8. run'[q] = f /\ jobs'[q] = j
      BY <1>1, RunFacts
<1>9. Only(q, b)' /\ b \in BatchOf(q)'
      BY <1>1, <1>2 DEF Only, BatchOf
<1>10. Told(q)'
  <2>1. CASE dup
        BY <1>0, <1>1, <1>2, <1>4, <1>6, <1>8, <1>9, <2>1 DEF Told
  <2>2. CASE ~dup
        BY <1>0, <1>1, <1>2, <1>4, <1>6, <1>8, <1>9, <2>2 DEF Told
  <2>3. QED  BY <2>1, <2>2
<1>11. Story(q)'
      BY <1>2, <1>5, <1>6, <1>8, <1>10 DEF Story, Moved
<1>12. OwnBatches(q)
      BY <1>1 DEF OwnBatches
<1>13. /\ jobs' \in [Runs -> Job \cup {None}] /\ \A r \in Runs \ {q} : jobs'[r] = jobs[r]
       /\ health' \in [Providers -> Health \cup {None}]
      BY <1>1, <1>6, <1>7, RunFacts
<1>14. QED  BY <1>1, <1>5, <1>11, <1>12, <1>13, InvFromOwn DEF Moved

\* Failing: the batch of offers that were not stored loses its rows.
LEMMA FailStep ==
    ASSUME IngestionInv, NEW q \in Runs, Fail(q)
    PROVE  IngestionInv' /\ Apart(q)
<1>0. PICK b, c, place : /\ b = run[q].batch /\ c = run[q].category
                         /\ place = Cardinality(Ended) + 1
      OBVIOUS
<1> DEFINE j == [jobs[q] EXCEPT !.status = "FAILED", !.ended = place,
                                !.attempts = run[q].attempts, !.category = c]
           h == Worsened(Read(q))
           f == [run[q] EXCEPT !.pc = "done"]
<1>1. /\ run' = [run EXCEPT ![q] = f] /\ jobs' = [jobs EXCEPT ![q] = j]
      /\ health' = [health EXCEPT ![run[q].provider] = h]
      /\ batches' = IF c = "PERSISTENCE" THEN [batches EXCEPT ![b].rows = 0] ELSE batches
      /\ lines' = lines /\ run[q].pc = "failing"
      BY <1>0 DEF Fail, At, Goto
<1>2. /\ run[q].provider \in Providers /\ run[q].seen \in Health \cup {None}
      /\ jobs[q] \in Job /\ jobs[q].rows = 0
      /\ c \in Categories
      /\ c = "PERSISTENCE" => Only(q, b) /\ lines[b] = 0
      /\ c # "PERSISTENCE" => BatchOf(q) = {}
      /\ c \in {"TIMEOUT", "PROVIDER_ERROR"} => run[q].attempts = MaxAttempts
      BY <1>0, <1>1, RunFacts DEF Story
<1>3. place \in Nat /\ run[q].attempts \in Nat
      BY <1>0, PlaceIsNat, RunFacts, OneMoreAttempt
<1>4. Moved(run[q], f, "done", b, run[q].seen, c)
      BY <1>0, RunFacts, MoveOn DEF Pcs
<1> HIDE DEF f
<1>5. /\ j \in Job /\ j.status = "FAILED" /\ j.rows = 0 /\ j.category = c
      /\ j.attempts = run[q].attempts
      BY <1>2, <1>3 DEF Job
<1>6. h \in Health
  <2>1. Read(q) \in Health
        BY <1>2 DEF Read, Fresh, Health
  <2>2. QED  BY <2>1, HealthIsHealth
<1> HIDE DEF j, h
<1>7. run'[q] = f /\ jobs'[q] = j
      BY <1>1, RunFacts
<1>8. c = "PERSISTENCE" =>
         Only(q, b)' /\ b \in BatchOf(q)' /\ batches'[b].rows = 0 /\ b \in BatchOf(q)
  <2>1. SUFFICES ASSUME c = "PERSISTENCE"
                 PROVE  Only(q, b)' /\ b \in BatchOf(q)' /\ batches'[b].rows = 0 /\ b \in BatchOf(q)
        OBVIOUS
  <2>2. /\ BatchOf(q) = {b} /\ b \in DOMAIN batches /\ batches[b].job = q
        /\ batches[b] \in Batch
        BY <1>2, <2>1, BatchTables DEF Only, BatchOf
  <2>3. /\ [batches[b] EXCEPT !.rows = 0].job = q /\ [batches[b] EXCEPT !.rows = 0].rows = 0
        BY <2>2 DEF Batch
  <2>4. /\ DOMAIN batches' = DOMAIN batches
        /\ \A m \in DOMAIN batches : m # b => batches'[m] = batches[m]
        /\ batches'[b].job = q /\ batches'[b].rows = 0
        BY <1>1, <2>1, <2>2, <2>3
  <2>5. BatchOf(q)' = {b}
        BY <2>2, <2>4 DEF BatchOf
  <2>6. QED  BY <2>2, <2>4, <2>5 DEF Only
<1>9. c # "PERSISTENCE" => BatchOf(q)' = {}
      BY <1>1, <1>2 DEF BatchOf
<1>10. Told(q)'
      BY <1>1, <1>2, <1>5, <1>7, <1>8, <1>9 DEF Told
<1>11. Story(q)'
      BY <1>2, <1>4, <1>5, <1>7, <1>10 DEF Story, Moved
<1>12. OwnBatches(q)
      BY <1>1, <1>8 DEF OwnBatches
<1>13. /\ jobs' \in [Runs -> Job \cup {None}] /\ \A r \in Runs \ {q} : jobs'[r] = jobs[r]
       /\ health' \in [Providers -> Health \cup {None}]
      BY <1>1, <1>5, <1>6, RunFacts
<1>14. QED  BY <1>1, <1>4, <1>11, <1>12, <1>13, InvFromOwn DEF Moved

-----------------------------------------------------------------------------

\* A statement is one of a run that is not done, and apart from all others.
LEMMA StepIsApart ==
    ASSUME IngestionInv, NEW q \in Runs,
           (\E p \in Providers : Start(q, p)) \/ RunStep(q) \/ Die(q)
    PROVE  IngestionInv' /\ Apart(q) /\ run[q].pc # "done"
<1>1. CASE \E p \in Providers : Start(q, p)
      BY <1>1, StartStep DEF Start, At
<1>2. CASE RunStep(q)
  <2>1. IngestionInv' /\ Apart(q)
        BY <1>2, FetchStep, CompareStep, AddBatchStep, PersistStep, PersistFailsStep,
           ReadHealthStep, DeadStep, CompleteStep, FailStep DEF RunStep
  <2>2. run[q].pc # "done"
        BY <1>2 DEF RunStep, Answered, Unanswered, Compare, AddBatch, Persist, PersistFails,
           ReadHealth, HealthCollides, Complete, Fail, At
  <2>3. QED  BY <2>1, <2>2
<1>3. CASE Die(q)
      BY <1>3, DeadStep DEF Die
<1>4. QED  BY <1>1, <1>2, <1>3

LEMMA IngestionStep == IngestionInv /\ [Next]_vars => IngestionInv'
<1>1. SUFFICES ASSUME IngestionInv, [Next]_vars PROVE IngestionInv'
      OBVIOUS
<1>2. CASE UNCHANGED vars
  <2>1. /\ jobs' = jobs /\ batches' = batches /\ lines' = lines /\ health' = health
        /\ run' = run
        BY <1>2 DEF vars
  <2>2. TypeOK'
        BY <1>1, <2>1 DEF IngestionInv, TypeOK
  <2>3. ASSUME NEW r \in Runs PROVE Story(r)'
    <3>1. Undisturbed(r)
          BY <2>1 DEF Undisturbed, BatchOf
    <3>2. QED  BY <1>1, <3>1, StoryStays DEF IngestionInv
  <2>4. QED  BY <2>2, <2>3 DEF IngestionInv
<1>3. CASE Next
  <2>1. PICK q \in Runs : (\E p \in Providers : Start(q, p)) \/ RunStep(q) \/ Die(q)
        BY <1>3 DEF Next
  <2>2. QED  BY <1>1, <2>1, StepIsApart
<1>4. QED  BY <1>1, <1>2, <1>3

\* Where every run is tells its job and its batch, in every interleaving of any
\* number of processes.
THEOREM RunsTellTheirStories == Spec => []IngestionInv
<1>1. Init => IngestionInv
      BY IngestionInit
<1>2. IngestionInv /\ [Next]_vars => IngestionInv'
      BY IngestionStep
<1>3. QED  BY <1>1, <1>2, PTL DEF Spec

-----------------------------------------------------------------------------
(* The audit trail                                                          *)

\* SumSet with its recursion named.
SumOf(S) ==
    LET iter[s \in SUBSET S] ==
            IF s = {} THEN 0
            ELSE LET x == CHOOSE y \in s : TRUE IN x + iter[s \ {x}]
    IN  iter[S]

LEMMA SumSetIsSumOf == \A S : SumSet(S) = SumOf(S)
BY DEF SumSet, FoldSet, MapThenFoldSet, SumOf

\* The lines of no batch are none, and those of one batch are its own.
LEMMA SumOfFew ==
    ASSUME NEW n \in Nat
    PROVE  SumSet({}) = 0 /\ SumSet({n}) = n
<1> DEFINE R(S, h) == [s \in SUBSET S |-> IF s = {} THEN 0
                          ELSE LET x == CHOOSE y \in s : TRUE IN x + h[s \ {x}]]
           It(S) == CHOOSE h : h = R(S, h)
<1>1. \A S : SumOf(S) = It(S)[S]
      BY DEF SumOf
<1>2. ASSUME NEW S \in {{}, {n}} PROVE It(S) = R(S, It(S))
  <2> DEFINE k == [s \in SUBSET S |-> IF s = {} THEN 0 ELSE n]
  <2>1. ASSUME NEW s \in SUBSET S, s # {}
        PROVE  k[s] = LET x == CHOOSE y \in s : TRUE IN x + k[s \ {x}]
    <3>1. s = {n} /\ S = {n}
          BY <2>1
    <3>2. (CHOOSE y \in s : TRUE) = n /\ s \ {n} = {}
          BY <3>1
    <3>3. k[s] = n /\ k[{}] = 0
          BY <3>1
    <3> HIDE DEF k
    <3>4. k[s] = n + k[s \ {n}]
          BY <3>2, <3>3
    <3>5. QED  BY <3>2, <3>4, Zenon
  <2>2. k[{}] = 0
        OBVIOUS
  <2>3. k = [s \in SUBSET S |-> k[s]]
        OBVIOUS
  <2> HIDE DEF k
  <2>4. \A s \in SUBSET S : k[s] = IF s = {} THEN 0
                          ELSE LET x == CHOOSE y \in s : TRUE IN x + k[s \ {x}]
        BY <2>1, <2>2
  <2>5. k = R(S, k)
        BY <2>3, <2>4
  <2> HIDE DEF R
  <2>6. QED  BY <2>5
<1>3. ASSUME NEW S \in {{}, {n}}, NEW s \in SUBSET S
      PROVE  It(S)[s] = IF s = {} THEN 0
                        ELSE LET x == CHOOSE y \in s : TRUE IN x + It(S)[s \ {x}]
  <2> DEFINE i == It(S)
  <2>1. i = R(S, i)
        BY <1>2
  <2> HIDE DEF i
  <2>2. i[s] = IF s = {} THEN 0 ELSE LET x == CHOOSE y \in s : TRUE IN x + i[s \ {x}]
        BY <2>1
  <2>3. QED  BY <2>2 DEF i
<1> HIDE DEF It
<1>4. It({})[{}] = 0 /\ It({n})[{}] = 0
      BY <1>3
<1>5. It({n})[{n}] = n
  <2>1. (CHOOSE y \in {n} : TRUE) = n /\ {n} \ {n} = {} /\ {n} # {}
        OBVIOUS
  <2>2. It({n})[{n}] = n + It({n})[{}]
        BY <1>3, <2>1, ZenonT(30)
  <2>3. QED  BY <1>4, <2>2
<1>6. QED  BY <1>1, <1>4, <1>5, SumSetIsSumOf

\* A run that told its story told the truth.
LEMMA StoriesAreTrue == IngestionInv => JobsTellWhatHappened
<1>1. SUFFICES ASSUME IngestionInv, NEW r \in Runs, jobs[r] # None
               PROVE  LET own == BatchOf(r)
                          stored == SumSet({lines[n] : n \in own})
                      IN  /\ Cardinality(own) <= 1
                          /\ jobs[r].status = "SUCCESS" =>
                                /\ \E n \in own : ~batches[n].duplicate
                                                  /\ batches[n].rows = jobs[r].rows
                                /\ stored = jobs[r].rows
                          /\ jobs[r].status = "DUPLICATE_SUPPRESSED" =>
                                stored = 0 /\ \E n \in own : batches[n].duplicate
                                                               /\ batches[n].rows = 0
                          /\ jobs[r].status = "FAILED" =>
                                /\ stored = 0 /\ jobs[r].rows = 0
                                /\ \A n \in own : batches[n].rows = 0
                                /\ own # {} <=> jobs[r].category = "PERSISTENCE"
                                /\ jobs[r].category \in {"TIMEOUT", "PROVIDER_ERROR"} =>
                                      jobs[r].attempts = MaxAttempts
                          /\ jobs[r].status = "RUNNING" => run[r].pc # "done"
      BY DEF JobsTellWhatHappened
<1> DEFINE own == BatchOf(r)
           stored == SumSet({lines[n] : n \in own})
<1>2. Story(r) /\ Framed(run[r]) /\ jobs[r] \in Job /\ run[r].pc # "idle"
  <2>1. Story(r) /\ Framed(run[r])
        BY <1>1, RunFacts
  <2>2. run[r].pc # "idle"
        BY <1>1, <2>1 DEF Story
  <2>3. QED  BY <2>1, <2>2 DEF Story
<1>3. own = {} \/ \E b : own = {b}
  <2>1. run[r].pc \in Pcs
        BY <1>2 DEF Framed
  <2>2. CASE run[r].pc = "done"
        BY <1>2, <2>2 DEF Story, Told, Only, Job
  <2>3. CASE run[r].pc = "dead"
        BY <1>2, <2>3 DEF Story
  <2>4. CASE run[r].pc \notin {"done", "dead"}
        BY <1>2, <2>1, <2>4 DEF Story, Only, Pcs
  <2>5. QED  BY <2>2, <2>3, <2>4
<1>4. Cardinality(own) <= 1
  <2>1. CASE own = {}
        BY <2>1, FS_EmptySet
  <2>2. CASE \E b : own = {b}
        BY <2>2, FS_Singleton
  <2>3. QED  BY <1>3, <2>1, <2>2
<1>5. own = {} => stored = 0
      BY SumOfFew
<1>6. ASSUME NEW b, Only(r, b) PROVE stored = lines[b] /\ own = {b}
  <2>1. own = {b} /\ b \in DOMAIN batches
        BY <1>6 DEF Only
  <2>2. lines[b] \in Nat
        BY <1>1, <2>1, BatchTables
  <2>3. {lines[n] : n \in own} = {lines[b]}
        BY <2>1
  <2>4. QED  BY <2>1, <2>2, <2>3, SumOfFew
<1> HIDE DEF stored
<1>7. CASE jobs[r].status = "RUNNING"
      BY <1>2, <1>4, <1>7 DEF Story, Told
<1>8. CASE jobs[r].status # "RUNNING"
  <2>1. Told(r)
        BY <1>2, <1>8 DEF Story
  <2>2. CASE jobs[r].status = "SUCCESS"
        BY <1>4, <1>6, <2>1, <2>2 DEF Told, stored
  <2>3. CASE jobs[r].status = "DUPLICATE_SUPPRESSED"
        BY <1>4, <1>6, <2>1, <2>3 DEF Told, stored
  <2>4. CASE jobs[r].status = "FAILED"
        BY <1>4, <1>5, <1>6, <2>1, <2>4 DEF Told, stored
  <2>5. QED  BY <1>2, <1>8, <2>2, <2>3, <2>4 DEF Job
<1>9. QED  BY <1>7, <1>8

\* JobsTellWhatHappened: the audit trail is true, for any runs of any processes,
\* whatever fails or dies: what the row run_provider leaves in ingestion_jobs says
\* is what the tables of batches and lines hold.
THEOREM TheAuditTrailIsTrue == Spec => []JobsTellWhatHappened
<1>1. Spec => []IngestionInv
      BY RunsTellTheirStories
<1>2. IngestionInv => JobsTellWhatHappened
      BY StoriesAreTrue
<1>3. QED  BY <1>1, <1>2, PTL

\* What has ended belongs to a run that is done.
LEMMA EndedIsDone ==
    ASSUME IngestionInv, NEW r \in Ended
    PROVE  r \in Runs /\ run[r].pc = "done"
<1>1. r \in Runs /\ jobs[r] # None /\ jobs[r].ended # 0
      BY DEF Ended
<1>2. QED  BY <1>1, RunFacts DEF Story

\* EndedJobsStay: a job that has ended, its batch and the lines stored for it are
\* history: no later statement of run_provider, of any run, changes them.
THEOREM EndedIsHistory == Spec => EndedJobsStay
<1> DEFINE Kept == \A r \in Ended :
          /\ jobs'[r] = jobs[r]
          /\ \A n \in BatchOf(r) : batches'[n] = batches[n] /\ lines'[n] = lines[n]
<1>1. ASSUME IngestionInv, Next PROVE Kept
  <2>1. PICK q \in Runs : (\E p \in Providers : Start(q, p)) \/ RunStep(q) \/ Die(q)
        BY <1>1 DEF Next
  <2>2. Apart(q) /\ run[q].pc # "done"
        BY <1>1, <2>1, StepIsApart
  <2>3. ASSUME NEW r \in Ended
        PROVE  /\ jobs'[r] = jobs[r]
               /\ \A n \in BatchOf(r) : batches'[n] = batches[n] /\ lines'[n] = lines[n]
    <3>1. r \in Runs \ {q}
          BY <1>1, <2>2, EndedIsDone
    <3>2. QED  BY <1>1, <2>2, <3>1, BatchesApart DEF Apart, IngestionInv
  <2>4. QED  BY <2>3
<1>2. IngestionInv /\ [Next]_vars => [Kept]_vars
      BY <1>1
<1>3. Spec => []IngestionInv
      BY RunsTellTheirStories
<1>4. QED  BY <1>2, <1>3, PTL DEF Spec, EndedJobsStay

-----------------------------------------------------------------------------
(* One process                                                              *)

\* Where a task gives way to the others of its process, or has nothing to do.
Waiting == {"idle", "fetch", "done", "dead"}

\* Between two awaits a task is alone,
OneAtATime == \A q, r \in Runs : q # r => run[q].pc \in Waiting \/ run[r].pc \in Waiting

\* so that the batch it compares with is the latest until it adds its own.
SeenIsLatest == \A r \in Runs : run[r].pc = "batch" => run[r].seen = LatestDigest(r)

LoopInv == OneAtATime /\ SeenIsLatest

\* A set of positions that is not empty has a last one.
LEMMA LastOne ==
    ASSUME NEW N \in Nat, NEW S \in SUBSET (0 .. N), S # {}
    PROVE  Max(S) \in S /\ \A m \in S : m <= Max(S)
<1> DEFINE T == {k \in 0 .. N : N - k \in S}
<1>1. T \subseteq Nat /\ T # {}
  <2>1. PICK m \in S : TRUE
        OBVIOUS
  <2>2. N - m \in 0 .. N /\ N - (N - m) = m
        BY <2>1
  <2>3. N - m \in T
        BY <2>1, <2>2
  <2>4. T \subseteq Nat
        OBVIOUS
  <2> HIDE DEF T
  <2>5. QED  BY <2>3, <2>4
<1>2. PICK k \in T : \A j \in T : k <= j
  <2> HIDE DEF T
  <2>1. QED  BY <1>1, LeastNatural, Zenon
<1>3. ASSUME NEW m \in S PROVE m <= N - k
  <2>1. N - m \in 0 .. N /\ N - (N - m) = m /\ m \in 0 .. N
        OBVIOUS
  <2>2. k <= N - m
        BY <1>2, <2>1
  <2>3. QED  BY <2>1, <2>2
<1>4. N - k \in S
      OBVIOUS
<1>5. \E x \in S : \A y \in S : x >= y
      BY <1>3, <1>4
<1>6. Max(S) \in S /\ \A y \in S : Max(S) >= y
      BY <1>5 DEF Max
<1>7. QED  BY <1>6

\* What a run compares with is the last batch of its provider, if there is one.
LEMMA LatestIsLast ==
    ASSUME IngestionInv, NEW r \in Runs
    PROVE  LET own == BatchesOf(run[r].provider)
           IN  LatestDigest(r) = IF own = {} THEN None ELSE batches[Max(own)].digest
<1> DEFINE own == BatchesOf(run[r].provider)
<1>1. CASE own = {}
      BY <1>1 DEF LatestDigest
<1>2. CASE own # {}
  <2>1. own \in SUBSET (0 .. Len(batches)) /\ Len(batches) \in Nat
        BY BatchTables DEF BatchesOf
  <2>2. Max(own) \in own /\ \A m \in own : m <= Max(own)
    <3> HIDE DEF own
    <3>1. QED  BY <1>2, <2>1, LastOne
  <2>3. ASSUME NEW n \in own, \A m \in own : m <= n PROVE n = Max(own)
    <3>1. n <= Max(own) /\ Max(own) <= n /\ n \in Nat /\ Max(own) \in Nat
          BY <2>1, <2>2, <2>3
    <3> HIDE DEF own
    <3>2. QED  BY <3>1
  <2>4. (CHOOSE n \in own : \A m \in own : m <= n) = Max(own)
    <3> HIDE DEF own
    <3>1. QED  BY <2>2, <2>3
  <2>5. LatestDigest(r) = batches[CHOOSE n \in own : \A m \in own : m <= n].digest
    <3>1. QED  BY <1>2, Zenon DEF LatestDigest
  <2>6. LatestDigest(r) = batches[Max(own)].digest
    <3> HIDE DEF own
    <3>1. QED  BY <2>4, <2>5, Zenon
  <2>7. QED  BY <1>2, <2>6
<1>3. QED  BY <1>1, <1>2

\* A statement of the loop is one of the task that is scheduled, or a death.
LEMMA ScheduledOrDead ==
    ASSUME NEW q \in Runs, (\E p \in Providers : Start(q, p)) \/ RunStep(q) \/ Die(q)
    PROVE  Scheduled(q) \/ Die(q)
BY DEF RunStep, Start, Answered, Unanswered, Compare, AddBatch, Persist, PersistFails,
       ReadHealth, HealthCollides, Complete, Fail, At

\* Run q moves from its frame to g by a statement that is neither the comparison
\* nor the reading of a row.
Elsewhere(q, g) ==
    /\ run'[q] = g /\ g.provider = run[q].provider
    /\ g.pc \notin {"idle", "batch", "completing", "failing"}

\* Only comparing brings a run before its batch, only reading the row before its
\* end, and none changes its provider or has it start again.
LEMMA WhereTo ==
    ASSUME IngestionInv, NEW q \in Runs, RunStep(q) \/ Die(q)
    PROVE  /\ run'[q].provider = run[q].provider /\ run'[q].pc # "idle"
           /\ run'[q].pc = "batch" => Compare(q)
           /\ run'[q].pc \in {"completing", "failing"} => ReadHealth(q)
<1>1. Framed(run[q]) /\ \A f : [run EXCEPT ![q] = f][q] = f
      BY RunFacts
<1>2. ASSUME NEW p \in Payloads, Answered(q, p) PROVE Elsewhere(q, run'[q])
  <2> DEFINE g == [run[q] EXCEPT !.attempts = @ + 1, !.payload = p]
  <2>1. Framed(g) /\ g.provider = run[q].provider
        BY <1>1, AnsweredFrame
  <2>2. run'[q] = IF KindOf[p] = "unusable"
                  THEN [g EXCEPT !.pc = "fail", !.category = "DATA_QUALITY"]
                  ELSE [g EXCEPT !.pc = "compare"]
        BY <1>1, <1>2 DEF Answered, Goto
  <2> HIDE DEF g
  <2>3. run'[q].provider = g.provider /\ run'[q].pc \in {"fail", "compare"}
        BY <2>1, <2>2 DEF Framed
  <2>4. QED  BY <2>1, <2>3 DEF Elsewhere
<1>3. ASSUME NEW c \in {"TIMEOUT", "PROVIDER_ERROR"}, Unanswered(q, c)
      PROVE  Elsewhere(q, run'[q])
  <2> DEFINE g == [run[q] EXCEPT !.attempts = @ + 1, !.category = c]
  <2>1. Framed(g) /\ g.provider = run[q].provider
    <3>1. c \in Categories
          BY DEF Categories
    <3> HIDE DEF g
    <3>2. QED  BY <1>1, <3>1, UnansweredFrame DEF g
  <2>2. run'[q] = [g EXCEPT !.pc = IF g.attempts = MaxAttempts THEN "fail" ELSE "fetch"]
        BY <1>1, <1>3 DEF Unanswered, Goto
  <2> HIDE DEF g
  <2>3. run'[q].provider = g.provider /\ run'[q].pc \in {"fail", "fetch"}
        BY <2>1, <2>2 DEF Framed
  <2>4. QED  BY <2>1, <2>3 DEF Elsewhere
<1>4. Compare(q) => run'[q].provider = run[q].provider /\ run'[q].pc = "batch"
      BY <1>1 DEF Compare, Goto, Framed
<1>5. AddBatch(q) => Elsewhere(q, run'[q])
  <2>1. SUFFICES ASSUME AddBatch(q) PROVE Elsewhere(q, run'[q])
        OBVIOUS
  <2>2. PICK pc, n : /\ pc = IF Digest(run[q].payload) = run[q].seen
                             THEN "complete" ELSE "persist"
                     /\ n = Len(batches) + 1
        OBVIOUS
  <2>3. run'[q] = [run[q] EXCEPT !.pc = pc, !.batch = n]
        BY <1>1, <2>1, <2>2 DEF AddBatch, Goto
  <2>4. pc \in {"complete", "persist"}
        BY <2>2
  <2>5. run'[q].provider = run[q].provider /\ run'[q].pc = pc
        BY <1>1, <2>3 DEF Framed
  <2>6. QED  BY <2>4, <2>5 DEF Elsewhere
<1>6. Persist(q) \/ PersistFails(q) =>
         run'[q].provider = run[q].provider /\ run'[q].pc \in {"complete", "fail"}
      BY <1>1 DEF Persist, PersistFails, Goto, Framed
<1>7. ReadHealth(q) =>
         run'[q].provider = run[q].provider /\ run'[q].pc \in {"failing", "completing"}
      BY <1>1 DEF ReadHealth, Goto, Framed
<1>8. HealthCollides(q) \/ Complete(q) \/ Fail(q) \/ Die(q) =>
         run'[q].provider = run[q].provider /\ run'[q].pc \in {"done", "dead"}
      BY <1>1 DEF HealthCollides, Complete, Fail, Die, Goto, Framed
<1>9. QED  BY <1>2, <1>3, <1>4, <1>5, <1>6, <1>7, <1>8 DEF RunStep, Elsewhere

\* Runs that are tasks of one loop after a statement were so before it, and those
\* beside the one that is scheduled wait or have not started.
LEMMA LoopWasOne ==
    ASSUME IngestionInv, NEW q \in Runs,
           (\E p \in Providers : Start(q, p)) \/ RunStep(q) \/ Die(q), OneLoop'
    PROVE  OneLoop /\ (Scheduled(q) => \A r \in Runs \ {q} : run[r].pc \in Waiting)
<1>1. \A r \in Runs \ {q} : run'[r] = run[r]
      BY StepIsApart DEF Apart
<1>2. run'[q].pc # "idle"
  <2>1. \A p \in Providers : Start(q, p) => run'[q].pc # "idle"
        BY RunFacts DEF Start, Goto, Frame
  <2>2. QED  BY <2>1, WhereTo
<1>3. \A r \in Runs : run[r].pc # "idle" => run'[r].pc # "idle"
      BY <1>1, <1>2
<1>4. OneLoop
      BY <1>3 DEF OneLoop
<1>5. \A r \in Runs \ {q} : run[r].pc # "idle" => ProcessOf[r] = ProcessOf[q]
      BY <1>2, <1>3 DEF OneLoop
<1>6. QED  BY <1>4, <1>5 DEF Scheduled, Waiting

\* The event loop runs one task at a time, from one of its awaits to the next.
LEMMA LoopStep ==
    ASSUME OneLoop', IngestionInv, LoopInv, NEW q \in Runs,
           (\E p \in Providers : Start(q, p)) \/ RunStep(q) \/ Die(q)
    PROVE  LoopInv'
<1>1. \A r \in Runs \ {q} : run'[r] = run[r]
      BY StepIsApart DEF Apart
<1>2. Scheduled(q) => \A r \in Runs \ {q} : run[r].pc \in Waiting
      BY LoopWasOne
<1>3. Die(q) => run'[q].pc = "dead" /\ batches' = batches
  <2>1. Framed(run[q]) /\ \A f : [run EXCEPT ![q] = f][q] = f
        BY RunFacts
  <2>2. QED  BY <2>1 DEF Die, Goto, Framed
<1>4. Scheduled(q) \/ Die(q)
      BY ScheduledOrDead
<1>5. OneAtATime'
  <2>1. CASE Scheduled(q)
        BY <1>1, <1>2, <2>1 DEF OneAtATime
  <2>2. CASE Die(q)
        BY <1>1, <1>3, <2>2 DEF LoopInv, OneAtATime, Waiting
  <2>3. QED  BY <1>4, <2>1, <2>2
<1>6. ASSUME NEW r \in Runs, run'[r].pc = "batch" PROVE run'[r].seen = LatestDigest(r)'
  <2>1. CASE r = q
    <3>1. Compare(q)
      <4>1. \A p \in Providers : Start(q, p) => run'[q].pc # "batch"
            BY RunFacts DEF Start, Goto, Frame
      <4>2. QED  BY <1>6, <2>1, <4>1, WhereTo
    <3>2. /\ run'[q] = [run[q] EXCEPT !.pc = "batch", !.seen = LatestDigest(q)]
          /\ batches' = batches
          BY <3>1, RunFacts DEF Compare, Goto
    <3>3. run'[q].seen = LatestDigest(q) /\ run'[q].provider = run[q].provider
      <4>1. Framed(run[q])
            BY RunFacts
      <4>2. QED  BY <3>2, <4>1 DEF Framed
    <3>4. LatestDigest(q)' = LatestDigest(q)
          BY <3>2, <3>3 DEF LatestDigest, BatchesOf
    <3>5. QED  BY <2>1, <3>3, <3>4
  <2>2. CASE r # q
    <3>1. run'[r] = run[r] /\ run[r].pc \notin Waiting
          BY <1>1, <1>6, <2>2 DEF Waiting
    <3>2. batches' = batches
          BY <1>2, <1>3, <1>4, <2>2, <3>1
    <3>3. LatestDigest(r)' = LatestDigest(r)
          BY <3>1, <3>2 DEF LatestDigest, BatchesOf
    <3>4. QED  BY <1>6, <3>1, <3>3 DEF LoopInv, SeenIsLatest
  <2>3. QED  BY <2>1, <2>2
<1>7. QED  BY <1>5, <1>6 DEF LoopInv, SeenIsLatest

\* So at every step.
LEMMA LoopKeeps ==
    ASSUME OneLoop', IngestionInv, LoopInv, [Next]_vars
    PROVE  LoopInv'
<1>1. CASE UNCHANGED vars
  <2>1. batches' = batches /\ run' = run
        BY <1>1 DEF vars
  <2>2. OneAtATime'
        BY <2>1 DEF LoopInv, OneAtATime
  <2>3. \A r \in Runs : LatestDigest(r)' = LatestDigest(r)
        BY <2>1 DEF LatestDigest, BatchesOf
  <2>4. SeenIsLatest'
        BY <2>1, <2>3 DEF LoopInv, SeenIsLatest
  <2>5. QED  BY <2>2, <2>4 DEF LoopInv
<1>2. CASE Next
      BY <1>2, LoopStep DEF Next
<1>3. QED  BY <1>1, <1>2

\* A loop that is the only one so far has been the only one.
LEMMA LoopStaysOne ==
    ASSUME IngestionInv, [Next]_vars, OneLoop'
    PROVE  OneLoop
<1>1. CASE UNCHANGED vars
  <2>1. run' = run
        BY <1>1 DEF vars
  <2>2. QED  BY <2>1 DEF OneLoop
<1>2. CASE Next
      BY <1>2, LoopWasOne DEF Next
<1>3. QED  BY <1>1, <1>2

\* A batch is suppressed as it should be.
RightlySuppressed(n) ==
    LET before == {m \in BatchesOf(batches[n].provider) : m < n}
    IN  batches[n].duplicate <=> before # {} /\ batches[Max(before)].digest = batches[n].digest

\* The batches before one of them, of its provider, are positions of the table.
LEMMA BatchesBefore ==
    ASSUME IngestionInv, NEW n \in DOMAIN batches
    PROVE  LET before == {m \in BatchesOf(batches[n].provider) : m < n}
           IN  before \subseteq DOMAIN batches /\ (before # {} => Max(before) \in before)
<1> DEFINE before == {m \in BatchesOf(batches[n].provider) : m < n}
<1>1. before \in SUBSET (0 .. Len(batches)) /\ Len(batches) \in Nat
      BY BatchTables DEF BatchesOf
<1>2. before # {} => Max(before) \in before
  <2> HIDE DEF before
  <2>1. QED  BY <1>1, LastOne
<1>3. QED  BY <1>2 DEF BatchesOf

\* What is said of a batch rests on columns no statement changes.
LEMMA StaysSuppressed ==
    ASSUME IngestionInv, NEW n \in DOMAIN batches, RightlySuppressed(n),
           \A m \in DOMAIN batches :
              /\ m \in DOMAIN batches'
              /\ batches'[m].provider = batches[m].provider
              /\ batches'[m].digest = batches[m].digest
              /\ batches'[m].duplicate = batches[m].duplicate,
           \A m \in DOMAIN batches' : m < n => m \in DOMAIN batches
    PROVE  RightlySuppressed(n)'
<1> DEFINE before == {m \in BatchesOf(batches[n].provider) : m < n}
<1>1. before' = before
      BY DEF BatchesOf
<1>2. before \subseteq DOMAIN batches /\ (before # {} => Max(before) \in before)
      BY BatchesBefore
<1>3. batches[n].duplicate <=> before # {} /\ batches[Max(before)].digest = batches[n].digest
      BY DEF RightlySuppressed
<1>4. (Max(before))' = Max(before)
      BY <1>1
<1> HIDE DEF before
<1>5. batches'[n].duplicate <=>
         before' # {} /\ batches'[(Max(before))'].digest = batches'[n].digest
      BY <1>1, <1>2, <1>3, <1>4
<1>6. QED  BY <1>5 DEF RightlySuppressed, before

\* The batch a run adds is a duplicate just when it repeats the last one.
LEMMA AddedIsRight ==
    ASSUME IngestionInv, LoopInv, NEW q \in Runs, AddBatch(q)
    PROVE  /\ DOMAIN batches' = DOMAIN batches \cup {Len(batches) + 1}
           /\ \A m \in DOMAIN batches : batches'[m] = batches[m]
           /\ \A n : n = Len(batches) + 1 => RightlySuppressed(n)'
<1> DEFINE d == Digest(run[q].payload)
           dup == d = run[q].seen
           b == [job |-> q, provider |-> run[q].provider, digest |-> d, duplicate |-> dup,
                 rows |-> IF dup THEN 0 ELSE RowsOf[run[q].payload]]
<1>0. PICK n : n = Len(batches) + 1
      OBVIOUS
<1>1. batches' = Append(batches, b) /\ run[q].pc = "batch"
      BY DEF AddBatch, At
<1>2. b.provider = run[q].provider /\ b.digest = d /\ b.duplicate = dup
      OBVIOUS
<1>3. run[q].payload \in Payloads /\ d # None
  <2>1. run[q].payload \in Payloads
        BY <1>1, RunFacts DEF Story
  <2>2. QED  BY <2>1, IngestionAssumption DEF Digest
<1>4. run[q].seen = LatestDigest(q)
      BY <1>1 DEF LoopInv, SeenIsLatest
<1> DEFINE own == BatchesOf(run[q].provider)
<1>5. run[q].seen = IF own = {} THEN None ELSE batches[Max(own)].digest
      BY <1>4, LatestIsLast
<1>6. own # {} => Max(own) \in own
  <2>1. own \in SUBSET (0 .. Len(batches)) /\ Len(batches) \in Nat
        BY BatchTables DEF BatchesOf
  <2> HIDE DEF own
  <2>2. QED  BY <2>1, LastOne
<1> HIDE DEF b
<1>7. /\ DOMAIN batches' = DOMAIN batches \cup {n} /\ batches'[n] = b
      /\ \A m \in DOMAIN batches : batches'[m] = batches[m] /\ m < n
  <2>1. /\ Append(batches, b) \in Seq(Batch \cup {b})
        /\ Len(Append(batches, b)) = Len(batches) + 1
        /\ Append(batches, b)[Len(batches) + 1] = b
        /\ \A m \in 1 .. Len(batches) : Append(batches, b)[m] = batches[m]
    <3>1. batches \in Seq(Batch \cup {b}) /\ b \in Batch \cup {b}
          BY BatchTables
    <3>2. QED  BY <3>1, AppendProperties
  <2>2. DOMAIN Append(batches, b) = 1 .. Len(batches) + 1
        BY <2>1
  <2>3. /\ 1 .. Len(batches) + 1 = 1 .. Len(batches) \cup {Len(batches) + 1}
        /\ \A m \in 1 .. Len(batches) : m < Len(batches) + 1
        BY BatchTables
  <2>4. QED  BY <1>0, <1>1, <2>1, <2>2, <2>3, BatchTables
<1>8. {m \in BatchesOf(batches[n].provider)' : m < n} = own
  <2>1. Len(batches) \in Nat
        BY BatchTables
  <2>2. ~(n < n)
        BY <1>0, <2>1
  <2>3. QED  BY <1>2, <1>7, <2>2 DEF BatchesOf
<1>9. own # {} => batches'[Max(own)] = batches[Max(own)]
      BY <1>6, <1>7 DEF BatchesOf
<1> HIDE DEF own
<1>10. b.duplicate <=> own # {} /\ batches'[Max(own)].digest = b.digest
      BY <1>2, <1>3, <1>5, <1>9
<1>11. RightlySuppressed(n)'
      BY <1>7, <1>8, <1>10 DEF RightlySuppressed
<1>12. QED  BY <1>0, <1>7, <1>11

\* Whatever a statement of run_provider does, the batches stay rightly suppressed.
LEMMA SuppressionStep ==
    ASSUME IngestionInv, LoopInv, OnlyConsecutiveSuppressed, NEW q \in Runs,
           (\E p \in Providers : Start(q, p)) \/ RunStep(q) \/ Die(q)
    PROVE  OnlyConsecutiveSuppressed'
<1>1. \A n \in DOMAIN batches : RightlySuppressed(n)
      BY DEF OnlyConsecutiveSuppressed, RightlySuppressed
<1>2. SUFFICES ASSUME NEW n \in DOMAIN batches' PROVE RightlySuppressed(n)'
      BY DEF OnlyConsecutiveSuppressed, RightlySuppressed
<1>3. CASE AddBatch(q)
  <2>1. /\ DOMAIN batches' = DOMAIN batches \cup {Len(batches) + 1}
        /\ \A m \in DOMAIN batches : batches'[m] = batches[m]
        /\ \A k : k = Len(batches) + 1 => RightlySuppressed(k)'
        BY <1>3, AddedIsRight
  <2>2. CASE n = Len(batches) + 1
        BY <2>1, <2>2
  <2>3. CASE n \in DOMAIN batches
    <3>1. \A m \in DOMAIN batches' : m < n => m \in DOMAIN batches
          BY <2>1, <2>3, BatchTables
    <3>2. QED  BY <1>1, <2>1, <2>3, <3>1, StaysSuppressed
  <2>4. QED  BY <1>2, <2>1, <2>2, <2>3
<1>4. CASE ~AddBatch(q)
  <2>1. /\ DOMAIN batches' = DOMAIN batches
        /\ \A m \in DOMAIN batches : /\ batches'[m].provider = batches[m].provider
                                     /\ batches'[m].digest = batches[m].digest
                                     /\ batches'[m].duplicate = batches[m].duplicate
    <3>1. batches' = batches \/ \E b : batches' = [batches EXCEPT ![b].rows = 0]
          BY <1>4 DEF RunStep, Start, Answered, Unanswered, Compare, Persist, PersistFails,
                      ReadHealth, HealthCollides, Complete, Fail, Die
    <3>2. \A m \in DOMAIN batches : batches[m] \in Batch
          BY BatchTables
    <3>3. QED  BY <3>1, <3>2 DEF Batch
  <2>2. QED  BY <1>1, <1>2, <2>1, StaysSuppressed
<1>5. QED  BY <1>3, <1>4

\* OnlyConsecutiveSuppressed, while one process runs: of the batches of a provider
\* those and only those are suppressed that repeat the one before, since no task gets
\* a turn between the reading of the latest batch and the adding of the next.  (Of
\* two processes both may read before either adds.)
THEOREM SuppressionIsConsecutive == Spec => [](OneLoop => OnlyConsecutiveSuppressed)
<1> DEFINE Inv == OneLoop => LoopInv /\ OnlyConsecutiveSuppressed
<1>1. Init => Inv
      BY DEF Init, LoopInv, OneAtATime, SeenIsLatest, Idle, Frame, Waiting,
             OnlyConsecutiveSuppressed
<1>2. IngestionInv /\ Inv /\ [Next]_vars => Inv'
  <2>1. SUFFICES ASSUME IngestionInv, Inv, [Next]_vars, OneLoop'
                 PROVE  LoopInv' /\ OnlyConsecutiveSuppressed'
        OBVIOUS
  <2>2. LoopInv /\ OnlyConsecutiveSuppressed
        BY <2>1, LoopStaysOne
  <2>3. CASE UNCHANGED vars
    <3>1. batches' = batches
          BY <2>3 DEF vars
    <3>2. OnlyConsecutiveSuppressed'
          BY <2>2, <3>1 DEF OnlyConsecutiveSuppressed, BatchesOf
    <3>3. QED  BY <2>1, <2>2, <3>2, LoopKeeps
  <2>4. CASE Next
        BY <2>1, <2>2, <2>4, LoopKeeps, SuppressionStep DEF Next
  <2>5. QED  BY <2>1, <2>3, <2>4
<1>3. Spec => []IngestionInv
      BY RunsTellTheirStories
<1>4. Inv => (OneLoop => OnlyConsecutiveSuppressed)
      OBVIOUS
<1>5. QED  BY <1>1, <1>2, <1>3, <1>4, PTL DEF Spec

-----------------------------------------------------------------------------
(* The health of a provider                                                 *)

\* The ended runs of a provider that did not fail, the last of them, and those
\* that ended after it.
Good(p) == {r \in EndedOf(p) : jobs[r].status # "FAILED"}
LastGood(p) == Max({0} \cup {jobs[r].ended : r \in Good(p)})
Since(p) == {r \in EndedOf(p) : jobs[r].ended > LastGood(p)}

StatusOf(failures) == CASE failures = 0 -> "HEALTHY"
                        [] failures \in {1, 2} -> "DEGRADED"
                        [] OTHER -> "DOWN"

\* The row h is the tale of the provider's ended runs.
TaleOf(p, h) ==
    IF EndedOf(p) = {} THEN h = None
    ELSE /\ h \in Health
         /\ h.successes = Cardinality(Good(p)) /\ h.failures = Cardinality(Since(p))
         /\ h.status = StatusOf(h.failures)

\* Runs end one after the other; a run about to end still sees the row as it is,
\* since no other task of the process got a turn since it read it.
HealthInv ==
    /\ \A r \in Ended : jobs[r].ended \in 1 .. Cardinality(Ended)
    /\ \A r \in Runs : /\ run[r].pc # "idle" => jobs[r].provider = run[r].provider
                       /\ run[r].pc \in {"completing", "failing"} =>
                             run[r].seen = health[run[r].provider]
    /\ \A p \in Providers : TaleOf(p, health[p])

\* The sets of ended runs are finite, and nothing ended after the last good one
\* in vain.
LEMMA EndedAreFinite ==
    ASSUME NEW p
    PROVE  /\ IsFiniteSet(Ended) /\ IsFiniteSet(Good(p)) /\ IsFiniteSet(Since(p))
           /\ Cardinality(Good(p)) \in Nat /\ Cardinality(Since(p)) \in Nat
<1>1. Ended \subseteq Runs /\ Good(p) \subseteq Runs /\ Since(p) \subseteq Runs
      BY DEF Ended, EndedOf, Good, Since
<1>2. IsFiniteSet(Ended) /\ IsFiniteSet(Good(p)) /\ IsFiniteSet(Since(p))
      BY <1>1, IngestionAssumption, FS_Subset
<1>3. QED  BY <1>2, FS_CardinalityType

\* The last good run is one of the places taken.
LEMMA LastGoodIsPlace ==
    ASSUME HealthInv, NEW p
    PROVE  /\ LastGood(p) \in 0 .. Cardinality(Ended)
           /\ \A r \in Good(p) : jobs[r].ended <= LastGood(p)
<1> DEFINE S == {0} \cup {jobs[r].ended : r \in Good(p)}
<1>1. Cardinality(Ended) \in Nat
      BY PlaceIsNat
<1>2. S \in SUBSET (0 .. Cardinality(Ended)) /\ S # {}
      BY <1>1 DEF HealthInv, Good, EndedOf
<1>3. Max(S) \in S /\ \A m \in S : m <= Max(S)
  <2> HIDE DEF S
  <2>1. QED  BY <1>1, <1>2, LastOne
<1>4. LastGood(p) = Max(S)
      BY DEF LastGood
<1>5. \A r \in Good(p) : jobs[r].ended \in S
      OBVIOUS
<1> HIDE DEF S
<1>6. QED  BY <1>2, <1>3, <1>4, <1>5

\* A statement that ends no run leaves every tale as it is.
LEMMA TalesStay ==
    ASSUME NEW p, EndedOf(p)' = EndedOf(p), \A r \in EndedOf(p) : jobs'[r] = jobs[r],
           NEW h, TaleOf(p, h)
    PROVE  TaleOf(p, h)'
<1>1. Good(p)' = Good(p)
      BY DEF Good
<1>2. {jobs[r].ended : r \in Good(p)}' = {jobs[r].ended : r \in Good(p)}
      BY <1>1 DEF Good
<1>3. LastGood(p)' = LastGood(p)
      BY <1>2 DEF LastGood
<1>4. Since(p)' = Since(p)
      BY <1>3 DEF Since
<1>5. QED  BY <1>1, <1>4 DEF TaleOf

\* Run q ends with job j, which is not what ended before.
Ends(q, j) ==
    /\ jobs' = [jobs EXCEPT ![q] = j] /\ j \in Job
    /\ j.ended = Cardinality(Ended) + 1 /\ j.status # "RUNNING"

\* One more has ended, at the next place, of its own provider.
LEMMA OneMoreEnded ==
    ASSUME IngestionInv, HealthInv, NEW q \in Runs, q \notin Ended, NEW j, Ends(q, j)
    PROVE  /\ Ended' = Ended \cup {q} /\ Cardinality(Ended') = Cardinality(Ended) + 1
           /\ jobs'[q] = j /\ \A r \in Runs \ {q} : jobs'[r] = jobs[r]
           /\ \A r \in Ended' : jobs'[r].ended \in 1 .. Cardinality(Ended')
           /\ \A p : EndedOf(p)' = EndedOf(p) \cup (IF j.provider = p THEN {q} ELSE {})
<1>1. jobs'[q] = j /\ \A r \in Runs \ {q} : jobs'[r] = jobs[r]
      BY RunFacts DEF Ends
<1>2. j # None /\ j.ended # 0
  <2>1. j.ended # 0
        BY PlaceIsNat DEF Ends
  <2>2. j # None
        BY IngestionAssumption DEF Ends
  <2>3. QED  BY <2>1, <2>2
<1>3. Ended' = Ended \cup {q}
      BY <1>1, <1>2 DEF Ended
<1>4. Cardinality(Ended') = Cardinality(Ended) + 1
      BY <1>3, EndedAreFinite, FS_AddElement
<1>5. ASSUME NEW r \in Ended' PROVE jobs'[r].ended \in 1 .. Cardinality(Ended')
  <2>1. Cardinality(Ended) \in Nat
        BY PlaceIsNat
  <2>2. CASE r = q
        BY <1>1, <1>4, <2>1, <2>2 DEF Ends
  <2>3. CASE r # q
    <3>1. r \in Ended /\ jobs'[r] = jobs[r]
          BY <1>1, <1>3, <2>3 DEF Ended
    <3>2. jobs[r].ended \in 1 .. Cardinality(Ended)
          BY <3>1 DEF HealthInv
    <3>3. QED  BY <1>4, <2>1, <3>1, <3>2
  <2>4. QED  BY <2>2, <2>3
<1>6. ASSUME NEW p PROVE EndedOf(p)' = EndedOf(p) \cup (IF j.provider = p THEN {q} ELSE {})
      BY <1>1, <1>3 DEF EndedOf, Ended
<1>7. QED  BY <1>1, <1>3, <1>4, <1>5, <1>6

\* The row a run updates says what ended before it.
LEMMA RowBefore ==
    ASSUME NEW p, NEW s, TaleOf(p, s)
    PROVE  LET h == IF s = None THEN Fresh ELSE s
           IN  /\ h \in Health /\ h.successes = Cardinality(Good(p))
               /\ h.failures = Cardinality(Since(p))
<1>1. CASE EndedOf(p) = {}
  <2>1. s = None /\ Good(p) = {} /\ Since(p) = {}
        BY <1>1 DEF TaleOf, Good, Since
  <2>2. Cardinality(Good(p)) = 0 /\ Cardinality(Since(p)) = 0
        BY <2>1, FS_EmptySet
  <2>3. Fresh \in Health /\ Fresh.successes = 0 /\ Fresh.failures = 0
        BY DEF Fresh, Health
  <2>4. QED  BY <2>1, <2>2, <2>3
<1>2. CASE EndedOf(p) # {}
      BY <1>2, IngestionAssumption DEF TaleOf
<1>3. QED  BY <1>1, <1>2

\* After a run that did not fail, nothing has ended since the last good one.
LEMMA SuccessTale ==
    ASSUME IngestionInv, HealthInv, NEW q \in Runs, q \notin Ended, NEW j, Ends(q, j),
           j.status # "FAILED", NEW s, TaleOf(j.provider, s), NEW k \in Nat
    PROVE  \A h : h = Recovered(IF s = None THEN Fresh ELSE s, k) => TaleOf(j.provider, h)'
<1>0. PICK p, g, h, N : /\ p = j.provider /\ g = (IF s = None THEN Fresh ELSE s)
                        /\ h = Recovered(g, k) /\ N = Cardinality(Ended)
      OBVIOUS
<1>1. /\ g \in Health /\ g.successes = Cardinality(Good(p))
      /\ Cardinality(Good(p)) \in Nat /\ N \in Nat
      BY <1>0, RowBefore, EndedAreFinite, PlaceIsNat
<1>2. /\ EndedOf(p)' = EndedOf(p) \cup {q} /\ Cardinality(Ended') = N + 1
      /\ jobs'[q] = j /\ \A r \in Runs \ {q} : jobs'[r] = jobs[r]
      /\ \A r \in Ended' : jobs'[r].ended \in 1 .. N + 1
      /\ j.ended = N + 1
  <2>1. j.ended = N + 1
        BY <1>0 DEF Ends
  <2>2. QED  BY <1>0, <2>1, OneMoreEnded
<1>3. Good(p)' = Good(p) \cup {q} /\ q \notin Good(p)
  <2>1. EndedOf(p) \subseteq Runs \ {q}
        BY DEF EndedOf, Ended
  <2>2. QED  BY <1>2, <2>1 DEF Good
<1>4. Cardinality(Good(p)') = Cardinality(Good(p)) + 1
      BY <1>3, EndedAreFinite, FS_AddElement
<1>5. (LastGood(p))' = N + 1
  <2> DEFINE S == {0} \cup {jobs'[r].ended : r \in Good(p)'}
  <2>1. N + 1 \in S
        BY <1>2, <1>3
  <2>2. S \in SUBSET (0 .. N + 1)
    <3>1. Good(p)' \subseteq Ended'
          BY DEF Good, EndedOf
    <3>2. QED  BY <1>1, <1>2, <3>1
  <2>3. Max(S) \in S /\ N + 1 <= Max(S)
    <3> HIDE DEF S
    <3>1. N + 1 \in Nat
          BY <1>1
    <3>2. QED  BY <2>1, <2>2, <3>1, LastOne
  <2>4. (LastGood(p))' = Max(S)
        BY DEF LastGood
  <2>5. Max(S) \in 0 .. N + 1
    <3> HIDE DEF S
    <3>1. QED  BY <2>2, <2>3
  <2> HIDE DEF S
  <2>6. QED  BY <1>1, <2>3, <2>4, <2>5
<1>6. Since(p)' = {}
  <2>1. EndedOf(p)' \subseteq Ended'
        BY DEF EndedOf
  <2>2. \A r \in EndedOf(p)' : ~(jobs'[r].ended > N + 1)
        BY <1>1, <1>2, <2>1
  <2>3. QED  BY <1>5, <2>2 DEF Since
<1>7. Cardinality(Since(p)') = 0
      BY <1>6, FS_EmptySet
<1>8. /\ h \in Health /\ h.successes = Cardinality(Good(p)) + 1 /\ h.failures = 0
      /\ h.status = "HEALTHY"
  <2>1. h \in Health
        BY <1>0, <1>1, HealthIsHealth
  <2>2. QED  BY <1>0, <1>1, <2>1 DEF Recovered
<1>9. h.status = StatusOf(h.failures)
      BY <1>8 DEF StatusOf
<1>10. TaleOf(p, h)'
      BY <1>2, <1>4, <1>7, <1>8, <1>9 DEF TaleOf
<1>11. QED  BY <1>0, <1>10

\* After a run that failed, one more has ended since the last good one.
LEMMA FailureTale ==
    ASSUME IngestionInv, HealthInv, NEW q \in Runs, q \notin Ended, NEW j, Ends(q, j),
           j.status = "FAILED", NEW s, TaleOf(j.provider, s)
    PROVE  \A h : h = Worsened(IF s = None THEN Fresh ELSE s) => TaleOf(j.provider, h)'
<1>0. PICK p, g, h, N : /\ p = j.provider /\ g = (IF s = None THEN Fresh ELSE s)
                        /\ h = Worsened(g) /\ N = Cardinality(Ended)
      OBVIOUS
<1>1. /\ g \in Health /\ g.successes = Cardinality(Good(p))
      /\ g.failures = Cardinality(Since(p))
      /\ Cardinality(Since(p)) \in Nat /\ N \in Nat
      BY <1>0, RowBefore, EndedAreFinite, PlaceIsNat
<1>2. /\ EndedOf(p)' = EndedOf(p) \cup {q}
      /\ jobs'[q] = j /\ \A r \in Runs \ {q} : jobs'[r] = jobs[r]
      /\ j.ended = N + 1
  <2>1. j.ended = N + 1
        BY <1>0 DEF Ends
  <2>2. QED  BY <1>0, <2>1, OneMoreEnded
<1>3. EndedOf(p) \subseteq Runs \ {q} /\ Good(p) \subseteq Runs \ {q}
      BY DEF EndedOf, Ended, Good
<1>4. Good(p)' = Good(p)
      BY <1>2, <1>3 DEF Good
<1>5. (LastGood(p))' = LastGood(p)
  <2>1. {jobs[r].ended : r \in Good(p)}' = {jobs[r].ended : r \in Good(p)}
        BY <1>2, <1>3, <1>4
  <2>2. QED  BY <2>1 DEF LastGood
<1>6. LastGood(p) \in 0 .. N /\ N + 1 > LastGood(p)
      BY <1>0, <1>1, LastGoodIsPlace
<1>7. Since(p)' = Since(p) \cup {q} /\ q \notin Since(p)
      BY <1>2, <1>3, <1>5, <1>6 DEF Since
<1>8. Cardinality(Since(p)') = Cardinality(Since(p)) + 1
      BY <1>7, EndedAreFinite, FS_AddElement
<1>9. /\ h \in Health /\ h.successes = g.successes /\ h.failures = g.failures + 1
      /\ h.status = IF g.failures + 1 >= 3 THEN "DOWN" ELSE "DEGRADED"
  <2>1. h \in Health
        BY <1>0, <1>1, HealthIsHealth
  <2>2. QED  BY <1>0, <1>1, <2>1 DEF Worsened, Health
<1>10. h.status = StatusOf(h.failures)
  <2>1. g.failures \in Nat
        BY <1>1
  <2>2. CASE g.failures + 1 \in {1, 2}
        BY <1>9, <2>1, <2>2 DEF StatusOf
  <2>3. CASE g.failures + 1 \notin {0, 1, 2}
        BY <1>9, <2>1, <2>3 DEF StatusOf
  <2>4. QED  BY <2>1, <2>2, <2>3
<1>11. TaleOf(p, h)'
      BY <1>1, <1>2, <1>4, <1>8, <1>9, <1>10 DEF TaleOf
<1>12. QED  BY <1>0, <1>11

\* The end of a run, from what its final transaction writes.
LEMMA EndStep ==
    ASSUME OneLoop', IngestionInv, LoopInv, HealthInv, NEW q \in Runs, Complete(q) \/ Fail(q)
    PROVE  HealthInv'
<1>1. /\ Apart(q) /\ Scheduled(q) /\ run[q].pc \in {"completing", "failing"}
      /\ run[q].provider \in Providers /\ jobs[q] \in Job /\ q \notin Ended
      /\ jobs[q].provider = run[q].provider /\ run[q].seen = health[run[q].provider]
  <2>1. run[q].pc = IF Complete(q) THEN "completing" ELSE "failing"
        BY DEF Complete, Fail, At
  <2>2. Apart(q) /\ Scheduled(q)
        BY CompleteStep, FailStep DEF Complete, Fail, At
  <2>3. run[q].provider \in Providers /\ jobs[q] \in Job /\ jobs[q].ended = 0
        BY <2>1, RunFacts DEF Story
  <2>4. q \notin Ended
        BY <2>3 DEF Ended
  <2>5. jobs[q].provider = run[q].provider /\ run[q].seen = health[run[q].provider]
        BY <2>1 DEF HealthInv
  <2>6. QED  BY <2>1, <2>2, <2>3, <2>4, <2>5
<1>2. PICK p : p = run[q].provider
      OBVIOUS
<1>3. PICK j, h : /\ Ends(q, j) /\ j.provider = p /\ health' = [health EXCEPT ![p] = h]
                  /\ TaleOf(p, h)'
  <2>1. TaleOf(p, run[q].seen)
        BY <1>1, <1>2 DEF HealthInv
  <2>2. run[q].attempts \in Nat /\ Cardinality(Ended) + 1 \in Nat
        BY RunFacts, OneMoreAttempt, PlaceIsNat
  <2>3. CASE Complete(q)
    <3>1. PICK dup, k : /\ dup = batches[run[q].batch].duplicate
                        /\ k = RowsOf[run[q].payload]
          OBVIOUS
    <3>2. k \in Nat
      <4>1. run[q].payload \in Payloads
            BY <2>3, RunFacts DEF Complete, At, Story
      <4>2. QED  BY <3>1, <4>1, IngestionAssumption
    <3>3. PICK st, n, s : /\ st = (IF dup THEN "DUPLICATE_SUPPRESSED" ELSE "SUCCESS")
                          /\ n = (IF dup THEN 0 ELSE k) /\ s = run[q].seen
          OBVIOUS
    <3>4. PICK j, h : /\ j = [jobs[q] EXCEPT !.status = st, !.ended = Cardinality(Ended) + 1,
                                             !.attempts = run[q].attempts, !.rows = n]
                      /\ h = Recovered(IF s = None THEN Fresh ELSE s, k)
          OBVIOUS
    <3>5. jobs' = [jobs EXCEPT ![q] = j] /\ health' = [health EXCEPT ![p] = h]
          BY <1>2, <2>3, <3>1, <3>3, <3>4 DEF Complete, Read
    <3>6. st \in {"DUPLICATE_SUPPRESSED", "SUCCESS"} /\ n \in Nat
          BY <3>2, <3>3
    <3>7. /\ j \in Job /\ j.ended = Cardinality(Ended) + 1 /\ j.status = st
          /\ j.provider = p
          BY <1>1, <1>2, <2>2, <3>4, <3>6 DEF Job
    <3>8. Ends(q, j)
          BY <3>5, <3>6, <3>7 DEF Ends
    <3>9. TaleOf(j.provider, h)'
      <4>1. j.status # "FAILED" /\ TaleOf(j.provider, s)
            BY <2>1, <3>3, <3>6, <3>7
      <4>2. QED  BY <1>1, <3>2, <3>4, <3>8, <4>1, SuccessTale
    <3>10. QED  BY <3>5, <3>7, <3>8, <3>9
  <2>4. CASE Fail(q)
    <3>1. PICK c, s : c = run[q].category /\ s = run[q].seen
          OBVIOUS
    <3>2. PICK j, h : /\ j = [jobs[q] EXCEPT !.status = "FAILED",
                                             !.ended = Cardinality(Ended) + 1,
                                             !.attempts = run[q].attempts, !.category = c]
                      /\ h = Worsened(IF s = None THEN Fresh ELSE s)
          OBVIOUS
    <3>3. jobs' = [jobs EXCEPT ![q] = j] /\ health' = [health EXCEPT ![p] = h]
          BY <1>2, <2>4, <3>1, <3>2 DEF Fail, Read
    <3>4. c \in Categories
          BY <2>4, <3>1, RunFacts DEF Fail, At, Story
    <3>5. /\ j \in Job /\ j.ended = Cardinality(Ended) + 1 /\ j.status = "FAILED"
          /\ j.provider = p
          BY <1>1, <1>2, <2>2, <3>2, <3>4 DEF Job
    <3>6. Ends(q, j)
          BY <3>3, <3>5 DEF Ends
    <3>7. TaleOf(j.provider, h)'
      <4>1. TaleOf(j.provider, s)
            BY <2>1, <3>1, <3>5
      <4>2. QED  BY <1>1, <3>2, <3>5, <3>6, <4>1, FailureTale
    <3>8. QED  BY <3>3, <3>5, <3>6, <3>7
  <2>5. QED  BY <1>1, <2>3, <2>4
<1>4. /\ \A r \in Ended' : jobs'[r].ended \in 1 .. Cardinality(Ended')
      /\ jobs'[q] = j /\ \A r \in Runs \ {q} : jobs'[r] = jobs[r]
      /\ \A o : EndedOf(o)' = EndedOf(o) \cup (IF j.provider = o THEN {q} ELSE {})
      BY <1>1, <1>3, OneMoreEnded
<1>5. ASSUME NEW r \in Runs
      PROVE  /\ run'[r].pc # "idle" => jobs'[r].provider = run'[r].provider
             /\ run'[r].pc \in {"completing", "failing"} =>
                   run'[r].seen = health'[run'[r].provider]
  <2>1. CASE r = q
    <3>1. run'[q] = [run[q] EXCEPT !.pc = "done"] /\ Framed(run[q])
      <4>1. run' = [run EXCEPT ![q] = [run[q] EXCEPT !.pc = "done"]]
            BY DEF Complete, Fail, Goto
      <4>2. QED  BY <4>1, RunFacts
    <3>2. run'[q].pc = "done" /\ run'[q].provider = p
          BY <1>2, <3>1 DEF Framed
    <3>3. QED  BY <1>3, <1>4, <2>1, <3>2
  <2>2. CASE r # q
    <3>1. run'[r] = run[r] /\ jobs'[r] = jobs[r]
          BY <1>1, <2>2 DEF Apart
    <3>2. run[r].pc \in {"idle", "fetch", "done", "dead"}
          BY <1>1, <2>2, LoopWasOne DEF RunStep, Waiting
    <3>3. QED  BY <3>1, <3>2 DEF HealthInv
  <2>3. QED  BY <2>1, <2>2
<1>6. ASSUME NEW o \in Providers PROVE TaleOf(o, health[o])'
  <2>1. CASE o = p
    <3>1. health'[p] = h
          BY <1>1, <1>2, <1>3, RunFacts
    <3>2. QED  BY <1>3, <2>1, <3>1 DEF TaleOf
  <2>2. CASE o # p
    <3>1. PICK g : g = health[o]
          OBVIOUS
    <3>2. EndedOf(o)' = EndedOf(o) /\ \A r \in EndedOf(o) : jobs'[r] = jobs[r]
          BY <1>1, <1>3, <1>4, <2>2 DEF EndedOf, Ended
    <3>3. TaleOf(o, g)'
          BY <3>1, <3>2, TalesStay DEF HealthInv
    <3>4. health'[o] = g
          BY <1>3, <2>2, <3>1, RunFacts
    <3>5. QED  BY <3>3, <3>4 DEF TaleOf
  <2>3. QED  BY <2>1, <2>2
<1>7. QED  BY <1>4, <1>5, <1>6 DEF HealthInv

\* What keeps the jobs that have ended and the rows of the providers keeps the
\* tales.
LEMMA NothingEnds ==
    ASSUME HealthInv, Ended' = Ended, \A r \in Ended : jobs'[r] = jobs[r], health' = health
    PROVE  /\ \A r \in Ended' : jobs'[r].ended \in 1 .. Cardinality(Ended')
           /\ \A p \in Providers : TaleOf(p, health[p])'
<1>1. \A p : EndedOf(p)' = EndedOf(p)
      BY DEF EndedOf
<1>2. ASSUME NEW p \in Providers PROVE TaleOf(p, health[p])'
  <2>1. PICK h : h = health[p]
        OBVIOUS
  <2>2. TaleOf(p, h)'
        BY <1>1, <2>1, TalesStay DEF HealthInv, EndedOf
  <2>3. health'[p] = h
        BY <2>1
  <2>4. QED  BY <2>2, <2>3 DEF TaleOf
<1>3. \A r \in Ended' : jobs'[r].ended \in 1 .. Cardinality(Ended')
      BY DEF HealthInv
<1>4. QED  BY <1>2, <1>3

\* Any other statement ends no run.
LEMMA OtherStep ==
    ASSUME OneLoop', IngestionInv, LoopInv, HealthInv, NEW q \in Runs,
           (\E p \in Providers : Start(q, p)) \/ RunStep(q) \/ Die(q),
           ~(Complete(q) \/ Fail(q))
    PROVE  HealthInv'
<1>1. health' = health /\ Apart(q)
  <2>1. health' = health
        BY DEF RunStep, Start, Answered, Unanswered, Compare, AddBatch, Persist, PersistFails,
               ReadHealth, HealthCollides, Die
  <2>2. QED  BY <2>1, StepIsApart
<1>2. jobs' = jobs \/ \E p \in Providers : Start(q, p)
      BY DEF RunStep, Answered, Unanswered, Compare, AddBatch, Persist, PersistFails,
             ReadHealth, HealthCollides, Die
<1>3. ASSUME NEW p \in Providers, Start(q, p)
      PROVE  /\ q \notin Ended /\ jobs'[q].ended = 0 /\ jobs'[q].provider = p
             /\ run'[q].provider = p /\ run'[q].pc \in {"fetch", "fail"}
  <2>1. jobs[q] = None
        BY <1>3, RunFacts DEF Start, At, Story
  <2>2. /\ jobs'[q].ended = 0 /\ jobs'[q].provider = p
        BY <1>3, RunFacts DEF Start
  <2>3. run'[q].provider = p /\ run'[q].pc \in {"fetch", "fail"}
        BY <1>3, RunFacts DEF Start, Goto, Frame
  <2>4. QED  BY <2>1, <2>2, <2>3 DEF Ended
<1>4. Ended' = Ended /\ \A r \in Ended : jobs'[r] = jobs[r]
  <2>1. CASE jobs' = jobs
        BY <2>1 DEF Ended
  <2>2. CASE \E p \in Providers : Start(q, p)
        BY <1>1, <1>3, <2>2 DEF Ended, Apart
  <2>3. QED  BY <1>2, <2>1, <2>2
<1>5. ASSUME NEW r \in Runs
      PROVE  /\ run'[r].pc # "idle" => jobs'[r].provider = run'[r].provider
             /\ run'[r].pc \in {"completing", "failing"} =>
                   run'[r].seen = health'[run'[r].provider]
  <2>1. CASE r # q
        BY <1>1, <2>1 DEF Apart, HealthInv
  <2>2. CASE r = q /\ \E p \in Providers : Start(q, p)
        BY <1>3, <2>2
  <2>3. CASE r = q /\ ~\E p \in Providers : Start(q, p)
    <3>1. /\ run'[q].provider = run[q].provider /\ jobs' = jobs
          /\ run'[q].pc \in {"completing", "failing"} => ReadHealth(q)
          BY <1>2, <2>3, WhereTo
    <3>2. run[q].pc # "idle"
          BY <2>3 DEF RunStep, Answered, Unanswered, Compare, AddBatch, Persist, PersistFails,
                      ReadHealth, HealthCollides, Complete, Fail, Die, At
    <3>3. jobs'[q].provider = run'[q].provider
          BY <3>1, <3>2 DEF HealthInv
    <3>4. ReadHealth(q) => run'[q].seen = health[run[q].provider]
      <4>1. SUFFICES ASSUME ReadHealth(q) PROVE run'[q].seen = health[run[q].provider]
            OBVIOUS
      <4>2. PICK pc, s : /\ pc = IF run[q].pc = "fail" THEN "failing" ELSE "completing"
                         /\ s = health[run[q].provider]
            OBVIOUS
      <4>3. run'[q] = [run[q] EXCEPT !.pc = pc, !.seen = s] /\ Framed(run[q])
            BY <4>1, <4>2, RunFacts DEF ReadHealth, Goto
      <4>4. QED  BY <4>2, <4>3 DEF Framed
    <3>5. QED  BY <1>1, <2>3, <3>1, <3>3, <3>4
  <2>4. QED  BY <2>1, <2>2, <2>3
<1>6. /\ \A r \in Ended' : jobs'[r].ended \in 1 .. Cardinality(Ended')
      /\ \A p \in Providers : TaleOf(p, health[p])'
      BY <1>1, <1>4, NothingEnds
<1>7. QED  BY <1>5, <1>6 DEF HealthInv

\* HealthMatchesRuns, while one process runs: the row of a provider is the tale of
\* its ended runs, since no task gets a turn between the reading of the row and the
\* commit that writes it.  (Of two processes one may overwrite the other's tale.)
THEOREM HealthIsTheTale == Spec => [](OneLoop => HealthMatchesRuns)
<1> DEFINE Inv == OneLoop => LoopInv /\ HealthInv
<1>1. Init => Inv
  <2>1. SUFFICES ASSUME Init PROVE LoopInv /\ HealthInv
        OBVIOUS
  <2>2. LoopInv
        BY <2>1 DEF Init, LoopInv, OneAtATime, SeenIsLatest, Idle, Frame, Waiting
  <2>3. Ended = {}
        BY <2>1 DEF Init, Ended
  <2>4. \A r \in Runs : run[r].pc = "idle"
        BY <2>1 DEF Init, Idle, Frame
  <2>5. \A p \in Providers : TaleOf(p, health[p])
        BY <2>1, <2>3 DEF Init, TaleOf, EndedOf
  <2>6. QED  BY <2>2, <2>3, <2>4, <2>5 DEF HealthInv
<1>2. IngestionInv /\ Inv /\ [Next]_vars => Inv'
  <2>1. SUFFICES ASSUME IngestionInv, Inv, [Next]_vars, OneLoop'
                 PROVE  LoopInv' /\ HealthInv'
        OBVIOUS
  <2>2. LoopInv /\ HealthInv
        BY <2>1, LoopStaysOne
  <2>3. CASE UNCHANGED vars
    <3>1. run' = run /\ jobs' = jobs /\ health' = health
          BY <2>3 DEF vars
    <3>2. Ended' = Ended /\ \A r \in Ended : jobs'[r] = jobs[r]
          BY <3>1 DEF Ended
    <3>3. HealthInv'
          BY <2>2, <3>1, <3>2, NothingEnds DEF HealthInv
    <3>4. QED  BY <2>1, <2>2, <3>3, LoopKeeps
  <2>4. CASE Next
        BY <2>1, <2>2, <2>4, LoopKeeps, EndStep, OtherStep DEF Next
  <2>5. QED  BY <2>1, <2>3, <2>4
<1>3. LoopInv /\ HealthInv => HealthMatchesRuns
  <2>1. SUFFICES ASSUME HealthInv, NEW p \in Providers
                 PROVE  IF EndedOf(p) = {} THEN health[p] = None
                        ELSE /\ health[p].successes = Cardinality(Good(p))
                             /\ health[p].failures = Cardinality(Since(p))
                             /\ health[p].status = StatusOf(Cardinality(Since(p)))
        BY DEF HealthMatchesRuns, Good, LastGood, Since, StatusOf
  <2>2. QED  BY <2>1 DEF HealthInv, TaleOf
<1>4. Spec => []IngestionInv
      BY RunsTellTheirStories
<1>5. QED  BY <1>1, <1>2, <1>3, <1>4, PTL DEF Spec

\* RecordsMatchRuns: what run_provider writes down is what happened: the audit trail
\* under any interleaving of processes, and the suppressed batches and the health of
\* the providers as long as the runs are tasks of one event loop.
THEOREM RecordsAlwaysMatch == Spec => []RecordsMatchRuns
<1>1. RecordsMatchRuns <=> /\ JobsTellWhatHappened
                           /\ OneLoop => OnlyConsecutiveSuppressed
                           /\ OneLoop => HealthMatchesRuns
      BY DEF RecordsMatchRuns
<1>2. QED  BY <1>1, TheAuditTrailIsTrue, SuppressionIsConsecutive, HealthIsTheTale, PTL

-----------------------------------------------------------------------------
(* The names of players                                                     *)

\* What a session of resolve_player remembers.
SessionFrame ==
    [pc : {"idle", "look", "write", "commit"}, provider : AliasProviders \cup {None},
     names : Seq(Names), new : SUBSET Names, linked : SUBSET Resolution!Aliases,
     player : Names \cup {None}, insert : BOOLEAN]

NamesTyped ==
    /\ players \subseteq Names /\ aliases \subseteq Resolution!Aliases
    /\ writer \in Sessions \cup {None}
    /\ session \in [Sessions -> SessionFrame]

\* The unique key of player_aliases: a name of a provider occurs once.
Unique(S) == \A a, b \in S : a.provider = b.provider /\ a.name = b.name => a = b

\* What a session has written and is about to write fits what it sees: it has the
\* lock, its aliases lead to players of their names, and so does the next.
SessionIsSound(s) ==
    LET f == session[s]
    IN  /\ f.pc = "idle" => f.new = {} /\ f.linked = {}
        /\ f.pc \in {"look", "write"} => f.names # <<>> /\ f.provider \in AliasProviders
        /\ f.new # {} \/ f.linked # {} => writer = s
        /\ \A a \in f.linked :
              a.player \in Resolution!PlayersSeen(s) /\ NormalOf[a.player] = a.name
        /\ Unique(Resolution!AliasesSeen(s))
        /\ f.pc = "write" =>
              /\ Resolution!Wanted(s) # None /\ f.player \in Names
              /\ NormalOf[f.player] = Resolution!Wanted(s)
              /\ ~f.insert => f.player \in Resolution!PlayersSeen(s)

NamesInv == NamesTyped /\ Resolution!AliasesAreSound /\ \A s \in Sessions : SessionIsSound(s)

\* What a session of its own has seen stays so while the others do not take its lock:
\* what they commit is no less sound.
LEMMA OthersStaySound ==
    ASSUME NEW r \in Sessions, SessionIsSound(r), session'[r] = session[r],
           players \subseteq players', Unique(aliases'),
           writer = r => writer' = r /\ aliases' = aliases
    PROVE  SessionIsSound(r)'
<1> DEFINE f == session[r]
<1>1. Resolution!PlayersSeen(r) \subseteq Resolution!PlayersSeen(r)'
      BY DEF Resolution!PlayersSeen
<1>2. Resolution!Wanted(r)' = Resolution!Wanted(r)
      BY DEF Resolution!Wanted
<1>3. Unique(Resolution!AliasesSeen(r))'
  <2>1. CASE f.linked = {}
    <3>1. Resolution!AliasesSeen(r)' = aliases'
          BY <2>1 DEF Resolution!AliasesSeen
    <3>2. QED  BY <3>1 DEF Unique
  <2>2. CASE f.linked # {}
    <3>1. aliases' = aliases
          BY <2>2 DEF SessionIsSound
    <3>2. Resolution!AliasesSeen(r)' = Resolution!AliasesSeen(r)
          BY <3>1 DEF Resolution!AliasesSeen
    <3>3. QED  BY <3>2 DEF SessionIsSound, Unique
  <2>3. QED  BY <2>1, <2>2
<1>4. QED  BY <1>1, <1>2, <1>3 DEF SessionIsSound

\* A step of session s moves it to the frame g and touches no other.
Steps(s, g) == session' = [session EXCEPT ![s] = g]

\* A statement of a session that keeps what is committed sound, leaves the lock to
\* its owner and is sound itself.
LEMMA NamesFromOwn ==
    ASSUME NamesInv, NEW s \in Sessions, NEW g \in SessionFrame, Steps(s, g),
           players' \subseteq Names, players \subseteq players',
           writer' \in Sessions \cup {None}, aliases' \subseteq Resolution!Aliases,
           Resolution!AliasesAreSound', SessionIsSound(s)',
           \A r \in Sessions \ {s} : writer = r => writer' = r /\ aliases' = aliases
    PROVE  NamesInv'
<1>1. session' \in [Sessions -> SessionFrame] /\ \A r \in Sessions \ {s} : session'[r] = session[r]
      BY DEF Steps, NamesInv, NamesTyped
<1>2. Unique(aliases')
      BY DEF Resolution!AliasesAreSound, Unique
<1>3. ASSUME NEW r \in Sessions \ {s} PROVE SessionIsSound(r)'
      BY <1>1, <1>2, OthersStaySound DEF NamesInv
<1>4. QED  BY <1>1, <1>3 DEF NamesInv, NamesTyped

\* The facts about session s that a statement of its starts from.
LEMMA SessionFacts ==
    ASSUME NamesInv, NEW s \in Sessions
    PROVE  /\ NamesTyped /\ SessionIsSound(s) /\ session[s] \in SessionFrame
           /\ \A g : Steps(s, g) => session'[s] = g
           /\ Resolution!AliasesAreSound
BY DEF NamesInv, NamesTyped, Steps

\* The frame after a name has been resolved.
LEMMA NextName ==
    ASSUME NEW s, NEW f \in SessionFrame, f.names # <<>>
    PROVE  LET g == Resolution!Next1(s, f)
           IN  /\ g \in SessionFrame /\ g.pc \in {"look", "commit"}
               /\ g.pc = "look" => g.names # <<>>
               /\ g.provider = f.provider /\ g.new = f.new /\ g.linked = f.linked
<1>1. PICK n, pc : n = Tail(f.names) /\ pc = IF Len(f.names) = 1 THEN "commit" ELSE "look"
      OBVIOUS
<1>2. PICK ns : ns = f.names
      OBVIOUS
<1>3. n \in Seq(Names) /\ (pc = "look" => n # <<>>) /\ pc \in {"look", "commit"}
  <2>1. ns \in Seq(Names) /\ ns # <<>>
        BY <1>2 DEF SessionFrame
  <2>2. Tail(ns) \in Seq(Names) /\ Len(Tail(ns)) = Len(ns) - 1 /\ Len(ns) \in Nat \ {0}
        BY <2>1
  <2>3. Len(ns) # 1 => n # <<>>
    <3>1. Len(ns) # 1 => Len(n) # 0
          BY <1>1, <1>2, <2>2
    <3>2. QED  BY <3>1
  <2>4. n \in Seq(Names)
        BY <1>1, <1>2, <2>2
  <2>5. QED  BY <1>1, <1>2, <2>3, <2>4
<1>4. Resolution!Next1(s, f) =
         [f EXCEPT !.pc = pc, !.names = n, !.player = None, !.insert = FALSE]
      BY <1>1 DEF Resolution!Next1
<1>5. QED  BY <1>3, <1>4 DEF SessionFrame

\* Before anything has happened the tables are empty and no session has begun.
LEMMA NamesInit == Resolution!Init => NamesInv
<1>1. SUFFICES ASSUME Resolution!Init PROVE NamesInv
      OBVIOUS
<1>2. players = {} /\ aliases = {} /\ writer = None
      /\ session = [s \in Sessions |-> Resolution!Idle]
      BY <1>1 DEF Resolution!Init
<1>3. Resolution!Idle \in SessionFrame
  <2>1. <<>> \in Seq(Names)
        OBVIOUS
  <2>2. QED  BY <2>1 DEF Resolution!Idle, Resolution!Frame, SessionFrame
<1>4. NamesTyped /\ Resolution!AliasesAreSound
      BY <1>2, <1>3 DEF NamesTyped, Resolution!AliasesAreSound
<1>5. ASSUME NEW s \in Sessions PROVE SessionIsSound(s)
      BY <1>2 DEF SessionIsSound, Resolution!Idle, Resolution!Frame, Resolution!AliasesSeen,
                  Unique
<1>6. QED  BY <1>4, <1>5 DEF NamesInv

\* What nothing is committed by keeps the committed aliases sound.
LEMMA NothingCommitted ==
    ASSUME NamesInv, NEW s \in Sessions, NEW g \in SessionFrame, Steps(s, g),
           players' = players, aliases' = aliases,
           \/ writer' = writer
           \/ writer' = s /\ writer \in {None, s}
           \/ writer' = IF writer = s THEN None ELSE writer,
           SessionIsSound(s)'
    PROVE  NamesInv'
<1>1. Resolution!AliasesAreSound'
      BY SessionFacts DEF Resolution!AliasesAreSound
<1>2. /\ writer' \in Sessions \cup {None}
      /\ \A r \in Sessions \ {s} : writer = r => writer' = r /\ aliases' = aliases
  <2>1. writer \in Sessions \cup {None} /\ None \notin Sessions
        BY SessionFacts, ProvidersAssumption DEF NamesTyped, Resolution!AliasAssumption
  <2>2. QED  BY <2>1
<1>3. players' \subseteq Names /\ players \subseteq players' /\ aliases' \subseteq Resolution!Aliases
      BY SessionFacts DEF NamesTyped
<1>4. QED  BY <1>1, <1>2, <1>3, NamesFromOwn

\* A batch begins with names to resolve.
LEMMA BeginStep ==
    ASSUME NamesInv, NEW s \in Sessions, NEW p \in AliasProviders, NEW n \in 1 .. MaxOffers,
           NEW names \in [1 .. n -> Names], Resolution!Begin(s, p, names)
    PROVE  NamesInv'
<1> DEFINE g == Resolution!Frame("look", p, names, {}, {}, None, FALSE)
<1>1. names \in Seq(Names) /\ names # <<>>
  <2>1. n \in Nat \ {0}
        BY ProvidersAssumption DEF Resolution!AliasAssumption
  <2>2. names \in Seq(Names) /\ Len(names) = n
        BY <2>1
  <2>3. QED  BY <2>1, <2>2
<1>2. g \in SessionFrame
      BY <1>1 DEF Resolution!Frame, SessionFrame
<1>3. Steps(s, g) /\ UNCHANGED <<players, aliases, writer>>
      BY DEF Resolution!Begin, Resolution!Goto, Steps
<1>4. session'[s] = g
      BY <1>3, SessionFacts
<1>5. /\ g.pc = "look" /\ g.names = names /\ g.provider = p /\ g.new = {} /\ g.linked = {}
      BY DEF Resolution!Frame
<1> HIDE DEF g
<1>6. Resolution!AliasesSeen(s)' = aliases
      BY <1>3, <1>4, <1>5 DEF Resolution!AliasesSeen
<1>7. Unique(aliases)
      BY SessionFacts DEF Resolution!AliasesAreSound, Unique
<1>8. SessionIsSound(s)'
      BY <1>1, <1>3, <1>4, <1>5, <1>6, <1>7 DEF SessionIsSound, Unique
<1>9. QED  BY <1>2, <1>3, <1>8, NothingCommitted

\* A statement that reads leaves what the session sees.
LEMMA ReadingStep ==
    ASSUME NamesInv, NEW s \in Sessions, NEW g \in SessionFrame, Steps(s, g),
           UNCHANGED <<players, aliases, writer>>, g.new = session[s].new,
           g.linked = session[s].linked
    PROVE  /\ Resolution!PlayersSeen(s)' = Resolution!PlayersSeen(s)
           /\ Resolution!AliasesSeen(s)' = Resolution!AliasesSeen(s)
<1>1. session'[s] = g
      BY SessionFacts
<1>2. QED  BY <1>1 DEF Resolution!PlayersSeen, Resolution!AliasesSeen

\* The provider's own alias decides.
LEMMA KnownStep ==
    ASSUME NamesInv, NEW s \in Sessions, Resolution!Known(s)
    PROVE  NamesInv'
<1>1. PICK g : g = Resolution!Next1(s, session[s])
      OBVIOUS
<1>2. Steps(s, g) /\ UNCHANGED <<players, aliases, writer>> /\ session[s].pc = "look"
      BY <1>1 DEF Resolution!Known, Resolution!Goto, Steps
<1>3. /\ session[s].names # <<>> /\ session[s].provider \in AliasProviders
      /\ session[s] \in SessionFrame /\ session'[s] = g
      BY <1>2, SessionFacts DEF SessionIsSound
<1>4. /\ g \in SessionFrame /\ g.pc \in {"look", "commit"}
      /\ g.pc = "look" => g.names # <<>>
      /\ g.provider = session[s].provider /\ g.new = session[s].new
      /\ g.linked = session[s].linked
      BY <1>1, <1>3, NextName
<1>5. /\ Resolution!PlayersSeen(s)' = Resolution!PlayersSeen(s)
      /\ Resolution!AliasesSeen(s)' = Resolution!AliasesSeen(s)
      BY <1>2, <1>4, ReadingStep
<1>6. SessionIsSound(s)'
      BY <1>2, <1>3, <1>4, <1>5, SessionFacts DEF SessionIsSound, Unique
<1>7. QED  BY <1>2, <1>4, <1>6, NothingCommitted

\* What an alias that is seen means is a player of the name that is seen.
LEMMA SeenAliases ==
    ASSUME NamesInv, NEW s \in Sessions, NEW a \in Resolution!AliasesSeen(s)
    PROVE  a \in Resolution!Aliases /\ a.player \in Resolution!PlayersSeen(s)
           /\ NormalOf[a.player] = a.name
<1>1. session[s].linked \subseteq Resolution!Aliases /\ aliases \subseteq Resolution!Aliases
      BY SessionFacts DEF NamesTyped, SessionFrame
<1>2. CASE a \in aliases
      BY <1>1, <1>2, SessionFacts DEF Resolution!AliasesAreSound, Resolution!PlayersSeen
<1>3. CASE a \in session[s].linked
      BY <1>1, <1>3, SessionFacts DEF SessionIsSound
<1>4. QED  BY <1>2, <1>3 DEF Resolution!AliasesSeen

\* What Look chooses: the player to link, and whether its row is new.
Chosen(s, p, insert) ==
    /\ session[s].pc = "look" /\ Resolution!Wanted(s) # None
    /\ UNCHANGED <<players, aliases, writer>>
    /\ Steps(s, [session[s] EXCEPT !.pc = "write", !.player = p, !.insert = insert])
    /\ p \in Names /\ NormalOf[p] = Resolution!Wanted(s)
    /\ insert \in BOOLEAN /\ (~insert => p \in Resolution!PlayersSeen(s))
    /\ p \in Resolution!Linked(s) \/ Resolution!Linked(s) = {}

\* Look links a player the session sees, or inserts one, of the name it looks up.
LEMMA LookChooses ==
    ASSUME NamesInv, NEW s \in Sessions, Resolution!Look(s)
    PROVE  \E p \in Names, insert \in BOOLEAN : Chosen(s, p, insert)
<1>1. /\ session[s].pc = "look" /\ Resolution!Wanted(s) # None
      /\ UNCHANGED <<players, aliases, writer>>
      BY DEF Resolution!Look
<1>2. PICK f : f = session[s]
      OBVIOUS
<1>3. f \in SessionFrame /\ f.names # <<>> /\ f.insert \in BOOLEAN
  <2>1. f \in SessionFrame
        BY <1>2, SessionFacts
  <2>2. QED  BY <1>1, <1>2, <2>1, SessionFacts DEF SessionIsSound, SessionFrame
<1>4. ASSUME NEW p,
             session' = [session EXCEPT ![s] = [session[s] EXCEPT !.pc = "write", !.player = p]]
      PROVE  Steps(s, [session[s] EXCEPT !.pc = "write", !.player = p, !.insert = f.insert])
  <2>1. [f EXCEPT !.pc = "write", !.player = p]
           = [f EXCEPT !.pc = "write", !.player = p, !.insert = f.insert]
        BY <1>3 DEF SessionFrame
  <2>2. QED  BY <1>2, <1>4, <2>1 DEF Steps
<1>5. PICK raw, named :
         /\ raw = Head(session[s].names)
         /\ named = {p \in Resolution!PlayersSeen(s) : NormalOf[p] = Resolution!Wanted(s)}
      OBVIOUS
<1>6. raw \in Names /\ NormalOf[raw] = Resolution!Wanted(s)
  <2>1. f.names \in Seq(Names)
        BY <1>3 DEF SessionFrame
  <2>2. Head(f.names) \in Names
        BY <1>3, <2>1
  <2>3. QED  BY <1>2, <1>5, <2>2 DEF Resolution!Wanted
<1>7. Resolution!PlayersSeen(s) \subseteq Names
      BY SessionFacts DEF NamesTyped, SessionFrame, Resolution!PlayersSeen
<1>8. CASE \E p \in Resolution!Linked(s) :
              Resolution!Goto(s, [session[s] EXCEPT !.pc = "write", !.player = p])
  <2>1. PICK p \in Resolution!Linked(s) :
           session' = [session EXCEPT ![s] = [session[s] EXCEPT !.pc = "write", !.player = p]]
        BY <1>8 DEF Resolution!Goto
  <2>2. p \in Resolution!PlayersSeen(s) /\ NormalOf[p] = Resolution!Wanted(s)
        BY <2>1, SeenAliases DEF Resolution!Linked
  <2>3. Chosen(s, p, f.insert)
        BY <1>1, <1>3, <1>4, <1>7, <2>1, <2>2 DEF Chosen
  <2>4. QED  BY <1>3, <1>7, <2>2, <2>3
<1>9. CASE /\ Resolution!Linked(s) = {}
           /\ \E p \in named :
                 Resolution!Goto(s, [session[s] EXCEPT !.pc = "write", !.player = p])
  <2>1. PICK p \in named :
           session' = [session EXCEPT ![s] = [session[s] EXCEPT !.pc = "write", !.player = p]]
        BY <1>9 DEF Resolution!Goto
  <2>2. p \in Resolution!PlayersSeen(s) /\ NormalOf[p] = Resolution!Wanted(s)
        BY <1>5, <2>1
  <2>3. Chosen(s, p, f.insert)
        BY <1>1, <1>3, <1>4, <1>7, <1>9, <2>1, <2>2 DEF Chosen
  <2>4. QED  BY <1>3, <1>7, <2>2, <2>3
<1>10. CASE /\ Resolution!Linked(s) = {}
            /\ Resolution!Goto(s, [session[s] EXCEPT !.pc = "write", !.player = raw,
                                                     !.insert = TRUE])
  <2>1. Chosen(s, raw, TRUE)
        BY <1>1, <1>6, <1>10 DEF Chosen, Resolution!Goto, Steps
  <2>2. QED  BY <1>6, <2>1
<1>11. QED  BY <1>5, <1>8, <1>9, <1>10 DEF Resolution!Look

\* What it chose is sound to write.
LEMMA LookStep ==
    ASSUME NamesInv, NEW s \in Sessions, NEW p \in Names, NEW insert \in BOOLEAN,
           Chosen(s, p, insert)
    PROVE  NamesInv'
<1>1. PICK f : f = session[s]
      OBVIOUS
<1>2. f \in SessionFrame /\ f.names # <<>> /\ f.provider \in AliasProviders
      BY <1>1, SessionFacts DEF Chosen, SessionIsSound
<1>3. PICK g : g = [f EXCEPT !.pc = "write", !.player = p, !.insert = insert]
      OBVIOUS
<1>4. /\ g \in SessionFrame /\ g.pc = "write" /\ g.player = p /\ g.insert = insert
      /\ g.names = f.names /\ g.provider = f.provider /\ g.new = f.new /\ g.linked = f.linked
      BY <1>2, <1>3 DEF SessionFrame
<1>5. Steps(s, g) /\ UNCHANGED <<players, aliases, writer>> /\ session'[s] = g
      BY <1>1, <1>3, SessionFacts DEF Chosen
<1>6. /\ Resolution!PlayersSeen(s)' = Resolution!PlayersSeen(s)
      /\ Resolution!AliasesSeen(s)' = Resolution!AliasesSeen(s)
      BY <1>1, <1>4, <1>5, ReadingStep
<1>7. Resolution!Wanted(s)' = Resolution!Wanted(s)
      BY <1>1, <1>4, <1>5 DEF Resolution!Wanted
<1>8. SessionIsSound(s)'
      BY <1>1, <1>2, <1>4, <1>5, <1>6, <1>7, SessionFacts DEF Chosen, SessionIsSound, Unique
<1>9. QED  BY <1>4, <1>5, <1>8, NothingCommitted

\* A rolled back session has nothing, and its lock is free.
LEMMA RollbackStep ==
    ASSUME NamesInv, NEW s \in Sessions, Resolution!Rollback(s)
    PROVE  NamesInv'
<1>1. PICK g : g = Resolution!Idle
      OBVIOUS
<1>2. /\ g \in SessionFrame /\ g.pc = "idle" /\ g.new = {} /\ g.linked = {}
  <2>1. <<>> \in Seq(Names)
        OBVIOUS
  <2>2. QED  BY <1>1, <2>1 DEF Resolution!Idle, Resolution!Frame, SessionFrame
<1>3. /\ Steps(s, g) /\ UNCHANGED <<players, aliases>> /\ session'[s] = g
      /\ writer' = IF writer = s THEN None ELSE writer
      BY <1>1, SessionFacts DEF Resolution!Rollback, Resolution!Goto, Steps
<1>4. Resolution!AliasesSeen(s)' = aliases
      BY <1>2, <1>3 DEF Resolution!AliasesSeen
<1>5. Unique(aliases)
      BY SessionFacts DEF Resolution!AliasesAreSound, Unique
<1>6. SessionIsSound(s)'
      BY <1>2, <1>3, <1>4, <1>5 DEF SessionIsSound, Unique
<1>7. QED  BY <1>2, <1>3, <1>6, NothingCommitted

\* What Write adds: the alias, and the player if its row is to be inserted.
Added(s) == [provider |-> session[s].provider, name |-> Resolution!Wanted(s),
             player |-> session[s].player]

\* Where Write leaves its session.
LEMMA WriteFrame ==
    ASSUME NamesInv, NEW s \in Sessions, Resolution!Write(s)
    PROVE  \E g \in SessionFrame :
              /\ Steps(s, g) /\ g.pc \in {"look", "commit"}
              /\ g.pc = "look" => g.names # <<>> /\ g.provider \in AliasProviders
              /\ g.linked = session[s].linked \cup {Added(s)}
              /\ g.new = IF session[s].insert
                         THEN session[s].new \cup {session[s].player} ELSE session[s].new
              /\ Added(s) \in Resolution!Aliases
<1>1. PICK f, a : f = session[s] /\ a = Added(s)
      OBVIOUS
<1>2. /\ f \in SessionFrame /\ f.pc = "write" /\ f.names # <<>>
      /\ f.provider \in AliasProviders /\ f.player \in Names
      /\ Resolution!Wanted(s) # None /\ NormalOf[f.player] = Resolution!Wanted(s)
      BY <1>1, SessionFacts DEF Resolution!Write, SessionIsSound
<1>3. a \in Resolution!Aliases
  <2>1. Resolution!Wanted(s) \in Resolution!Normals
        BY <1>2 DEF Resolution!Normals
  <2>2. QED  BY <1>1, <1>2, <2>1 DEF Added, Resolution!Aliases
<1>4. PICK new, linked : /\ new = IF f.insert THEN f.new \cup {f.player} ELSE f.new
                         /\ linked = f.linked \cup {a}
      OBVIOUS
<1>5. new \in SUBSET Names /\ linked \in SUBSET Resolution!Aliases
      BY <1>2, <1>3, <1>4 DEF SessionFrame
<1>6. PICK h : h = [f EXCEPT !.new = new, !.linked = linked]
      OBVIOUS
<1>7. /\ h \in SessionFrame /\ h.names = f.names /\ h.provider = f.provider
      /\ h.new = new /\ h.linked = linked
      BY <1>2, <1>5, <1>6 DEF SessionFrame
<1>8. PICK g : g = Resolution!Next1(s, h)
      OBVIOUS
<1>9. /\ g \in SessionFrame /\ g.pc \in {"look", "commit"} /\ (g.pc = "look" => g.names # <<>>)
      /\ g.provider = f.provider /\ g.new = new /\ g.linked = linked
      BY <1>2, <1>7, <1>8, NextName
<1>10. Steps(s, g)
      BY <1>1, <1>4, <1>6, <1>8 DEF Resolution!Write, Resolution!Goto, Steps, Added
<1>11. QED  BY <1>1, <1>2, <1>3, <1>4, <1>9, <1>10

\* The unique key keeps the aliases that the session sees apart.
LEMMA WriteStep ==
    ASSUME NamesInv, NEW s \in Sessions, Resolution!Write(s)
    PROVE  NamesInv'
<1>1. PICK g \in SessionFrame :
         /\ Steps(s, g) /\ g.pc \in {"look", "commit"}
         /\ g.pc = "look" => g.names # <<>> /\ g.provider \in AliasProviders
         /\ g.linked = session[s].linked \cup {Added(s)}
         /\ g.new = IF session[s].insert
                    THEN session[s].new \cup {session[s].player} ELSE session[s].new
         /\ Added(s) \in Resolution!Aliases
      BY WriteFrame
<1>2. PICK f, a : f = session[s] /\ a = Added(s)
      OBVIOUS
<1>3. /\ UNCHANGED <<players, aliases>> /\ writer' = s /\ writer \in {None, s}
      /\ ~Resolution!Violates(s) /\ f.pc = "write"
      BY <1>2 DEF Resolution!Write
<1>4. /\ a.provider = f.provider /\ a.name = Resolution!Wanted(s) /\ a.player = f.player
      BY <1>2 DEF Added
<1>5. session'[s] = g /\ g.linked = f.linked \cup {a}
      BY <1>1, <1>2, SessionFacts
<1>6. /\ Resolution!PlayersSeen(s) \subseteq Resolution!PlayersSeen(s)'
      /\ f.insert => f.player \in Resolution!PlayersSeen(s)'
      BY <1>1, <1>2, <1>3, <1>5 DEF Resolution!PlayersSeen
<1>7. Resolution!AliasesSeen(s)' = Resolution!AliasesSeen(s) \cup {a}
      BY <1>2, <1>3, <1>5 DEF Resolution!AliasesSeen
<1>8. Unique(Resolution!AliasesSeen(s))'
  <2>1. \A b \in Resolution!AliasesSeen(s) : ~(b.provider = a.provider /\ b.name = a.name)
        BY <1>2, <1>3, <1>4 DEF Resolution!Violates
  <2>2. Unique(Resolution!AliasesSeen(s))
        BY SessionFacts DEF SessionIsSound
  <2>3. QED  BY <1>7, <2>1, <2>2 DEF Unique
<1>9. NormalOf[f.player] = Resolution!Wanted(s)
      /\ (~f.insert => f.player \in Resolution!PlayersSeen(s))
      BY <1>2, <1>3, SessionFacts DEF SessionIsSound
<1>10. \A b \in g.linked : b.player \in Resolution!PlayersSeen(s)' /\ NormalOf[b.player] = b.name
  <2>1. a.player \in Resolution!PlayersSeen(s)' /\ NormalOf[a.player] = a.name
        BY <1>4, <1>6, <1>9
  <2>2. \A b \in f.linked : b.player \in Resolution!PlayersSeen(s) /\ NormalOf[b.player] = b.name
        BY <1>2, SessionFacts DEF SessionIsSound
  <2>3. QED  BY <1>5, <1>6, <2>1, <2>2
<1>11. SessionIsSound(s)'
      BY <1>1, <1>3, <1>5, <1>8, <1>10 DEF SessionIsSound
<1>12. QED  BY <1>1, <1>3, <1>11, NothingCommitted

\* What is committed is what the session saw; the lock is free again.
LEMMA CommitStep ==
    ASSUME NamesInv, NEW s \in Sessions, Resolution!Commit(s)
    PROVE  NamesInv'
<1>1. PICK g, f : g = Resolution!Idle /\ f = session[s]
      OBVIOUS
<1>2. /\ g \in SessionFrame /\ g.pc = "idle" /\ g.new = {} /\ g.linked = {}
  <2>1. <<>> \in Seq(Names)
        OBVIOUS
  <2>2. QED  BY <1>1, <2>1 DEF Resolution!Idle, Resolution!Frame, SessionFrame
<1>3. /\ Steps(s, g) /\ session'[s] = g
      /\ players' = Resolution!PlayersSeen(s) /\ aliases' = Resolution!AliasesSeen(s)
      /\ writer' = IF writer = s THEN None ELSE writer
      BY <1>1, SessionFacts DEF Resolution!Commit, Resolution!Goto, Steps,
                                Resolution!PlayersSeen, Resolution!AliasesSeen
<1>4. /\ NamesTyped /\ f \in SessionFrame /\ Unique(aliases')
      /\ None \notin Sessions
      BY <1>1, <1>3, SessionFacts, ProvidersAssumption
         DEF SessionIsSound, Resolution!AliasAssumption, Unique
<1>5. players \subseteq players' /\ players' \subseteq Names /\ aliases' \subseteq Resolution!Aliases
      BY <1>1, <1>3, <1>4 DEF NamesTyped, SessionFrame, Resolution!PlayersSeen,
                              Resolution!AliasesSeen
<1>6. Resolution!AliasesAreSound'
  <2>1. \A a \in aliases' : a.player \in players' /\ NormalOf[a.player] = a.name
        BY <1>3, SeenAliases
  <2>2. QED  BY <1>4, <1>5, <2>1 DEF Resolution!AliasesAreSound, Unique
<1>7. Resolution!AliasesSeen(s)' = aliases'
      BY <1>2, <1>3 DEF Resolution!AliasesSeen
<1>8. SessionIsSound(s)'
      BY <1>2, <1>3, <1>4, <1>7 DEF SessionIsSound, Unique
<1>9. writer' \in Sessions \cup {None}
      BY <1>3, <1>4 DEF NamesTyped
<1>10. ASSUME NEW r \in Sessions \ {s}, writer = r PROVE writer' = r /\ aliases' = aliases
  <2>1. f.linked = {}
        BY <1>1, <1>10, SessionFacts DEF SessionIsSound
  <2>2. QED  BY <1>1, <1>3, <1>10, <2>1 DEF Resolution!AliasesSeen
<1>11. QED  BY <1>2, <1>3, <1>5, <1>6, <1>8, <1>9, <1>10, NamesFromOwn

\* Every statement keeps the names sound.
LEMMA NamesStep == NamesInv /\ [Resolution!Next]_(Resolution!vars) => NamesInv'
<1>1. SUFFICES ASSUME NamesInv, [Resolution!Next]_(Resolution!vars) PROVE NamesInv'
      OBVIOUS
<1>2. CASE UNCHANGED Resolution!vars
  <2>1. UNCHANGED <<players, aliases, writer, session>>
        BY <1>2 DEF Resolution!vars
  <2>2. QED  BY <1>1, <2>1 DEF NamesInv, NamesTyped, SessionIsSound, Unique,
               Resolution!AliasesAreSound, Resolution!PlayersSeen, Resolution!AliasesSeen,
               Resolution!Wanted
<1>3. CASE Resolution!Next
  <2>1. PICK s \in Sessions :
           \/ \E p \in AliasProviders : \E n \in 1 .. MaxOffers : \E names \in [1 .. n -> Names] :
                 Resolution!Begin(s, p, names)
           \/ Resolution!Known(s) \/ Resolution!Look(s) \/ Resolution!Refuse(s)
           \/ Resolution!Write(s) \/ Resolution!WriteFails(s) \/ Resolution!Commit(s)
        BY <1>3 DEF Resolution!Next
  <2>2. CASE \E p \in AliasProviders : \E n \in 1 .. MaxOffers : \E names \in [1 .. n -> Names] :
                Resolution!Begin(s, p, names)
        BY <1>1, <2>2, BeginStep
  <2>3. CASE Resolution!Known(s)
        BY <1>1, <2>3, KnownStep
  <2>4. CASE Resolution!Look(s)
        BY <1>1, <2>4, LookChooses, LookStep
  <2>5. CASE Resolution!Refuse(s) \/ Resolution!WriteFails(s)
    <3>1. Resolution!Rollback(s)
          BY <2>5 DEF Resolution!Refuse, Resolution!WriteFails
    <3>2. QED  BY <1>1, <3>1, RollbackStep
  <2>6. CASE Resolution!Write(s)
        BY <1>1, <2>6, WriteStep
  <2>7. CASE Resolution!Commit(s)
        BY <1>1, <2>7, CommitStep
  <2>8. QED  BY <2>1, <2>2, <2>3, <2>4, <2>5, <2>6, <2>7
<1>4. QED  BY <1>1, <1>2, <1>3

\* The names stay sound whatever sessions do to each other.
LEMMA NamesAreSound == Resolution!Spec => []NamesInv
BY NamesInit, NamesStep, PTL DEF Resolution!Spec

\* Aliases of one name mean one player.
SamePlayer(S) == \A a, b \in S : a.name = b.name => a.player = b.player

\* What is committed and what each session sees agrees across providers, and what a
\* session is about to write agrees with what it sees.
AgreeInv ==
    /\ SamePlayer(aliases)
    /\ \A s \in Sessions :
          /\ SamePlayer(Resolution!AliasesSeen(s))
          /\ session[s].pc = "write" =>
                \A a \in Resolution!AliasesSeen(s) :
                   a.name = Resolution!Wanted(s) => a.player = session[s].player

\* A session that is not under way has written nothing.
LEMMA IdleSeesCommitted ==
    ASSUME NamesInv, NEW s \in Sessions, session[s].pc = "idle"
    PROVE  Resolution!AliasesSeen(s) = aliases
BY SessionFacts DEF SessionIsSound, Resolution!AliasesSeen

\* What s and what is committed agree on after a statement of session s.
OwnAgree(s) ==
    /\ SamePlayer(aliases')
    /\ SamePlayer(Resolution!AliasesSeen(s)')
    /\ session'[s].pc = "write" =>
          \A a \in Resolution!AliasesSeen(s)' :
             a.name = Resolution!Wanted(s)' => a.player = session'[s].player

\* Look takes the player the other providers mean, so that Write keeps the agreement.
LEMMA OwnAgreement ==
    ASSUME NamesInv, AgreeInv, NEW s \in Sessions,
           \/ \E p \in AliasProviders : \E n \in 1 .. MaxOffers : \E names \in [1 .. n -> Names] :
                 Resolution!Begin(s, p, names)
           \/ Resolution!Known(s) \/ Resolution!Look(s) \/ Resolution!Refuse(s)
           \/ Resolution!Write(s) \/ Resolution!WriteFails(s) \/ Resolution!Commit(s)
    PROVE  OwnAgree(s)
<1>1. SamePlayer(aliases) /\ SamePlayer(Resolution!AliasesSeen(s))
      BY DEF AgreeInv
<1>2. ASSUME NEW g, Steps(s, g), aliases' = aliases,
             g.linked \subseteq session[s].linked, g.pc # "write"
      PROVE  OwnAgree(s)
  <2>1. session'[s] = g
        BY <1>2, SessionFacts
  <2>2. Resolution!AliasesSeen(s)' \subseteq Resolution!AliasesSeen(s)
        BY <1>2, <2>1 DEF Resolution!AliasesSeen
  <2>3. QED  BY <1>1, <1>2, <2>1, <2>2 DEF OwnAgree, SamePlayer
<1>3. CASE \E p \in AliasProviders : \E n \in 1 .. MaxOffers : \E names \in [1 .. n -> Names] :
              Resolution!Begin(s, p, names)
  <2>1. PICK p, names : Resolution!Begin(s, p, names)
        BY <1>3
  <2>2. PICK g : g = Resolution!Frame("look", p, names, {}, {}, None, FALSE)
        OBVIOUS
  <2>3. Steps(s, g) /\ aliases' = aliases
        BY <2>1, <2>2 DEF Resolution!Begin, Resolution!Goto, Steps
  <2>4. g.linked = {} /\ g.pc # "write"
        BY <2>2 DEF Resolution!Frame
  <2>5. QED  BY <1>2, <2>3, <2>4
<1>4. CASE Resolution!Known(s)
  <2>1. PICK g : g = Resolution!Next1(s, session[s])
        OBVIOUS
  <2>2. Steps(s, g) /\ aliases' = aliases /\ session[s].pc = "look"
        BY <1>4, <2>1 DEF Resolution!Known, Resolution!Goto, Steps
  <2>3. session[s].names # <<>> /\ session[s] \in SessionFrame
        BY <2>2, SessionFacts DEF SessionIsSound
  <2>4. g.linked = session[s].linked /\ g.pc # "write"
        BY <2>1, <2>3, NextName
  <2>5. QED  BY <1>2, <2>2, <2>4
<1>5. CASE Resolution!Look(s)
  <2>1. PICK p \in Names, insert \in BOOLEAN : Chosen(s, p, insert)
        BY <1>5, LookChooses
  <2>2. PICK f : f = session[s]
        OBVIOUS
  <2>3. PICK g : g = [f EXCEPT !.pc = "write", !.player = p, !.insert = insert]
        OBVIOUS
  <2>4. f \in SessionFrame
        BY <2>2, SessionFacts
  <2>5. g \in SessionFrame /\ g.player = p /\ g.names = f.names /\ g.new = f.new
        /\ g.linked = f.linked
        BY <2>3, <2>4 DEF SessionFrame
  <2>6. session'[s] = g /\ Steps(s, g) /\ UNCHANGED <<players, aliases, writer>>
        BY <2>1, <2>2, <2>3, SessionFacts DEF Chosen
  <2>7. Resolution!AliasesSeen(s)' = Resolution!AliasesSeen(s)
        BY <2>2, <2>5, <2>6, ReadingStep
  <2>8. Resolution!Wanted(s)' = Resolution!Wanted(s)
        BY <2>2, <2>5, <2>6 DEF Resolution!Wanted
  <2>9. ASSUME NEW a \in Resolution!AliasesSeen(s), a.name = Resolution!Wanted(s)
        PROVE  a.player = p
    <3>1. a.player \in Resolution!Linked(s)
          BY <2>9 DEF Resolution!Linked
    <3>2. p \in Resolution!Linked(s)
          BY <2>1, <3>1 DEF Chosen
    <3>3. PICK b \in Resolution!AliasesSeen(s) : b.name = Resolution!Wanted(s) /\ b.player = p
          BY <3>2 DEF Resolution!Linked
    <3>4. QED  BY <1>1, <2>9, <3>3 DEF SamePlayer
  <2>10. QED  BY <1>1, <2>5, <2>6, <2>7, <2>8, <2>9 DEF OwnAgree
<1>6. CASE Resolution!Refuse(s) \/ Resolution!WriteFails(s)
  <2>1. Resolution!Rollback(s)
        BY <1>6 DEF Resolution!Refuse, Resolution!WriteFails
  <2>2. Steps(s, Resolution!Idle) /\ aliases' = aliases
        BY <2>1 DEF Resolution!Rollback, Resolution!Goto, Steps
  <2>3. Resolution!Idle.linked = {} /\ Resolution!Idle.pc # "write"
        BY DEF Resolution!Idle, Resolution!Frame
  <2>4. QED  BY <1>2, <2>2, <2>3
<1>7. CASE Resolution!Write(s)
  <2>1. PICK g \in SessionFrame : /\ Steps(s, g) /\ g.pc \in {"look", "commit"}
                                  /\ g.linked = session[s].linked \cup {Added(s)}
        BY <1>7, WriteFrame
  <2>2. session'[s] = g /\ aliases' = aliases /\ session[s].pc = "write"
        BY <1>7, <2>1, SessionFacts DEF Resolution!Write
  <2>3. Resolution!AliasesSeen(s)' = Resolution!AliasesSeen(s) \cup {Added(s)}
        BY <2>1, <2>2 DEF Resolution!AliasesSeen
  <2>4. \A a \in Resolution!AliasesSeen(s) : a.name = Added(s).name => a.player = Added(s).player
        BY <2>2 DEF AgreeInv, Added
  <2>5. SamePlayer(Resolution!AliasesSeen(s)')
        BY <1>1, <2>3, <2>4 DEF SamePlayer
  <2>6. QED  BY <1>1, <2>1, <2>2, <2>5 DEF OwnAgree
<1>8. CASE Resolution!Commit(s)
  <2>1. Steps(s, Resolution!Idle) /\ aliases' = Resolution!AliasesSeen(s)
        BY <1>8 DEF Resolution!Commit, Resolution!Goto, Steps, Resolution!AliasesSeen
  <2>2. session'[s].pc = "idle" /\ session'[s].linked = {}
        BY <2>1, SessionFacts DEF Resolution!Idle, Resolution!Frame
  <2>3. Resolution!AliasesSeen(s)' = aliases'
        BY <2>2 DEF Resolution!AliasesSeen
  <2>4. QED  BY <1>1, <2>1, <2>2, <2>3 DEF OwnAgree
<1>9. QED  BY <1>3, <1>4, <1>5, <1>6, <1>7, <1>8

\* While sessions follow one another, each sees what the one before it committed, and
\* the names keep one player each.
LEMMA AgreeStep ==
    ASSUME NamesInv, NamesInv', AgreeInv, Resolution!OneAtATime, Resolution!OneAtATime',
           [Resolution!Next]_(Resolution!vars)
    PROVE  AgreeInv'
<1>1. CASE UNCHANGED Resolution!vars
  <2>1. UNCHANGED <<players, aliases, writer, session>>
        BY <1>1 DEF Resolution!vars
  <2>2. QED  BY <2>1 DEF AgreeInv, SamePlayer, Resolution!AliasesSeen, Resolution!Wanted
<1>2. CASE Resolution!Next
  <2>1. PICK s \in Sessions :
           \/ \E p \in AliasProviders : \E n \in 1 .. MaxOffers : \E names \in [1 .. n -> Names] :
                 Resolution!Begin(s, p, names)
           \/ Resolution!Known(s) \/ Resolution!Look(s) \/ Resolution!Refuse(s)
           \/ Resolution!Write(s) \/ Resolution!WriteFails(s) \/ Resolution!Commit(s)
        BY <1>2 DEF Resolution!Next
  <2>2. OwnAgree(s)
        BY <2>1, OwnAgreement
  <2>3. /\ \A r \in Sessions \ {s} : session'[r] = session[r]
        /\ session[s].pc # "idle" \/ session'[s].pc # "idle"
    <3>1. \E g : Steps(s, g)
          BY <2>1 DEF Resolution!Begin, Resolution!Known, Resolution!Look, Resolution!Refuse,
                      Resolution!Write, Resolution!WriteFails, Resolution!Commit,
                      Resolution!Rollback, Resolution!Goto, Steps
    <3>2. \A r \in Sessions \ {s} : session'[r] = session[r]
          BY <3>1 DEF Steps, NamesInv, NamesTyped
    <3>3. ASSUME NEW p \in AliasProviders, NEW names, Resolution!Begin(s, p, names)
          PROVE  session'[s].pc # "idle"
      <4>1. session'[s] = Resolution!Frame("look", p, names, {}, {}, None, FALSE)
            BY <3>3, SessionFacts DEF Resolution!Begin, Resolution!Goto, Steps
      <4>2. QED  BY <4>1 DEF Resolution!Frame
    <3>4. QED  BY <2>1, <3>2, <3>3 DEF Resolution!Known, Resolution!Look, Resolution!Refuse,
                      Resolution!Write, Resolution!WriteFails, Resolution!Commit
  <2>4. ASSUME NEW r \in Sessions \ {s}
        PROVE  session'[r].pc = "idle" /\ Resolution!AliasesSeen(r)' = aliases'
    <3>1. session'[r].pc = "idle"
          BY <2>3 DEF Resolution!OneAtATime
    <3>2. session'[r].linked = {}
          BY <3>1 DEF NamesInv, SessionIsSound
    <3>3. QED  BY <3>1, <3>2 DEF Resolution!AliasesSeen
  <2>5. QED  BY <2>2, <2>4 DEF OwnAgree, AgreeInv
<1>3. QED  BY <1>1, <1>2

\* AliasesResolve: an alias that resolve_player committed leads to a player of its name
\* and is the only one of its provider's name, whatever sessions run at once; as long as
\* they follow one another, a name has one player across providers.
THEOREM NamesResolve == Resolution!Spec => AliasesResolve
<1>1. Resolution!Init => AgreeInv
  <2>1. SUFFICES ASSUME Resolution!Init PROVE AgreeInv
        OBVIOUS
  <2>2. aliases = {} /\ \A s \in Sessions : session[s] = Resolution!Idle
        BY <2>1 DEF Resolution!Init
  <2>3. QED  BY <2>2 DEF AgreeInv, SamePlayer, Resolution!AliasesSeen, Resolution!Idle,
                         Resolution!Frame
<1>2. /\ NamesInv /\ NamesInv' /\ AgreeInv /\ Resolution!OneAtATime /\ Resolution!OneAtATime'
      /\ [Resolution!Next]_(Resolution!vars)
      => AgreeInv'
      BY AgreeStep
<1>3. NamesInv => Resolution!AliasesAreSound
      BY DEF NamesInv
<1>4. AgreeInv => Resolution!OnePlayerPerName
      BY DEF AgreeInv, SamePlayer, Resolution!OnePlayerPerName
<1>5. QED  BY <1>1, <1>2, <1>3, <1>4, NamesAreSound, PTL
           DEF Resolution!Spec, AliasesResolve, Resolution!AliasesResolve

-----------------------------------------------------------------------------
(* The validation of a payload                                              *)

\* The records without a defect, those before n of the same player, and those that
\* repeat a contract.
SoundOf(rs) == {n \in DOMAIN rs : Offers!Defect(rs[n]) = None}
EarlierOf(rs, n) ==
    {m \in SoundOf(rs) : m < n /\ NormalOf[rs[m].player] = NormalOf[rs[n].player]}
RepeatedOf(rs) ==
    {n \in SoundOf(rs) :
        \E m \in EarlierOf(rs, n) : Offers!Contract(rs[m]) = Offers!Contract(rs[n])}
VariedOf(rs) ==
    {n \in SoundOf(rs) : EarlierOf(rs, n) # {}
                         /\ rs[Max(EarlierOf(rs, n))].player # rs[n].player}

\* The flags of record n.
FlagsAt(rs, n) ==
    IF n \notin SoundOf(rs) THEN {Offers!Flag(Offers!Defect(rs[n]), n)}
    ELSE (IF rs[n].stale THEN {Offers!Flag("STALE_EVENT", n)} ELSE {})
         \cup (IF n \in VariedOf(rs) THEN {Offers!Flag("PLAYER_ALIAS_VARIATION", n)} ELSE {})
         \cup (IF n \in RepeatedOf(rs) THEN {Offers!Flag("DUPLICATE_CONTRACT", n)} ELSE {})

\* Of the first n records: those kept, the last of every player, and their flags.
KeptTo(rs, n) == {m \in SoundOf(rs) \ RepeatedOf(rs) : m <= n}
LatestTo(rs, n) ==
    {m \in SoundOf(rs) : m <= n /\ ~\E k \in SoundOf(rs) :
        m < k /\ k <= n /\ NormalOf[rs[k].player] = NormalOf[rs[m].player]}
FlagsTo(rs, n) == UNION {FlagsAt(rs, m) : m \in 1 .. n}

\* The records at places are those kept, in their order.
Placed(offers, kept, rs) ==
    \E place \in [DOMAIN offers -> kept] :
       /\ \A n \in kept : \E i \in DOMAIN place : place[i] = n
       /\ \A i, j \in DOMAIN place : i < j => place[i] < place[j]
       /\ \A i \in DOMAIN place : offers[i] = rs[place[i]]

\* A list of flags without repetition, and those in it.
FlagList(flags, F) == /\ flags \in Seq(F)
                      /\ \A i, j \in 1 .. Len(flags) : flags[i] = flags[j] => i = j
Listed(flags) == {flags[i] : i \in 1 .. Len(flags)}

\* What validate_provider_payload has found after n records.
Validated(rs, n, v) ==
    /\ Placed(v.offers, KeptTo(rs, n), rs)
    /\ Listed(v.flags) = FlagsTo(rs, n)
    /\ \A i, j \in 1 .. Len(v.flags) : v.flags[i] = v.flags[j] => i = j
    /\ v.seen = {Offers!Contract(rs[m]) : m \in {k \in SoundOf(rs) : k <= n}}
    /\ v.names = {<<NormalOf[rs[m].player], rs[m].player>> : m \in LatestTo(rs, n)}

\* What it may find.
FlagSet(rs) ==
    [category : {Offers!Defect(rs[n]) : n \in DOMAIN rs}
                \cup {"STALE_EVENT", "PLAYER_ALIAS_VARIATION", "DUPLICATE_CONTRACT"},
     index : 1 .. Len(rs)]
Validation(rs) ==
    [offers : Seq({rs[n] : n \in DOMAIN rs}), flags : Seq(FlagSet(rs)),
     seen : SUBSET {Offers!Contract(rs[n]) : n \in DOMAIN rs},
     names : SUBSET {<<NormalOf[rs[n].player], rs[n].player>> : n \in DOMAIN rs}]

\* One flag more, unless there is no reason for it.
LEMMA OneFlagMore ==
    ASSUME NEW F, NEW s, FlagList(s, F), NEW c, NEW n, NEW b \in BOOLEAN,
           Offers!Flag(c, n) \in F, Offers!Flag(c, n) \notin Listed(s)
    PROVE  LET t == s \o Offers!Flags(c, b, n)
           IN  /\ FlagList(t, F)
               /\ Listed(t) = Listed(s) \cup (IF b THEN {Offers!Flag(c, n)} ELSE {})
<1> DEFINE f == Offers!Flag(c, n)
           t == s \o Offers!Flags(c, b, n)
<1>1. s \in Seq(F) /\ Len(s) \in Nat /\ f \in F /\ f \notin Listed(s)
      BY DEF FlagList
<1>2. CASE b
  <2>1. t = s \o <<f>>
        BY <1>2 DEF Offers!Flags
  <2> HIDE DEF f, t
  <2>2. <<f>> \in Seq(F) /\ Len(<<f>>) = 1 /\ <<f>>[1] = f
        BY <1>1
  <2>3. /\ t \in Seq(F) /\ Len(t) = Len(s) + 1
        /\ \A i \in 1 .. Len(t) : t[i] = IF i <= Len(s) THEN s[i] ELSE <<f>>[i - Len(s)]
        BY <1>1, <2>1, <2>2, ConcatProperties
  <2>4. t[Len(s) + 1] = f /\ \A i \in 1 .. Len(s) : t[i] = s[i]
        BY <1>1, <2>2, <2>3
  <2>5. Listed(t) = Listed(s) \cup {f}
    <3>1. 1 .. Len(t) = (1 .. Len(s)) \cup {Len(s) + 1}
          BY <1>1, <2>3
    <3>2. QED  BY <2>4, <3>1 DEF Listed
  <2>6. \A i \in 1 .. Len(s) : s[i] # f
        BY <1>1 DEF Listed
  <2>7. ASSUME NEW i \in 1 .. Len(t), NEW j \in 1 .. Len(t), t[i] = t[j] PROVE i = j
    <3>1. i \in 1 .. Len(s) \/ i = Len(s) + 1
          BY <1>1, <2>3
    <3>2. j \in 1 .. Len(s) \/ j = Len(s) + 1
          BY <1>1, <2>3
    <3>3. QED  BY <2>4, <2>6, <2>7, <3>1, <3>2 DEF FlagList
  <2>8. QED  BY <1>2, <2>3, <2>5, <2>7 DEF FlagList, f, t
<1>3. CASE ~b
  <2>1. t = s
        BY <1>1, <1>3, ConcatEmptySeq DEF Offers!Flags
  <2>2. QED  BY <1>3, <2>1
<1>4. QED  BY <1>2, <1>3

\* The facts about a list of records.
LEMMA RecordFacts ==
    ASSUME NEW R, NEW rs \in Seq(R)
    PROVE  /\ Len(rs) \in Nat /\ DOMAIN rs = 1 .. Len(rs)
           /\ SoundOf(rs) \subseteq 1 .. Len(rs)
           /\ \A n : EarlierOf(rs, n) \subseteq SoundOf(rs)
           /\ RepeatedOf(rs) \subseteq SoundOf(rs)
<1>1. Len(rs) \in Nat /\ DOMAIN rs = 1 .. Len(rs)
      OBVIOUS
<1>2. QED  BY <1>1 DEF SoundOf, EarlierOf, RepeatedOf

\* The variation of a name is seen against the latest record of the player.
LEMMA VariedIsSeen ==
    ASSUME NEW R, NEW rs \in Seq(R), NEW n \in SoundOf(rs)
    PROVE  n \in VariedOf(rs) <=>
              \E m \in LatestTo(rs, n - 1) :
                 /\ NormalOf[rs[m].player] = NormalOf[rs[n].player]
                 /\ rs[m].player # rs[n].player
<1> DEFINE E == EarlierOf(rs, n)
<1>1. n \in 1 .. Len(rs) /\ Len(rs) \in Nat /\ SoundOf(rs) \subseteq 1 .. Len(rs)
      BY RecordFacts
<1>2. \A m \in LatestTo(rs, n - 1) : NormalOf[rs[m].player] = NormalOf[rs[n].player] => m \in E
  <2>1. \A m \in 1 .. Len(rs) : m <= n - 1 => m < n
        BY <1>1
  <2>2. QED  BY <1>1, <2>1 DEF LatestTo, EarlierOf
<1>3. CASE E = {}
      BY <1>2, <1>3 DEF VariedOf
<1>4. CASE E # {}
  <2>1. E \in SUBSET (0 .. Len(rs))
        BY <1>1 DEF EarlierOf
  <2>2. PICK M : M = Max(E)
        OBVIOUS
  <2>3. M \in E /\ \A m \in E : m <= M
    <3> HIDE DEF E
    <3>1. QED  BY <1>1, <1>4, <2>1, <2>2, LastOne
  <2>4. /\ M \in SoundOf(rs) /\ M \in 1 .. Len(rs) /\ M < n /\ M <= n - 1
        /\ NormalOf[rs[M].player] = NormalOf[rs[n].player]
        BY <1>1, <2>3 DEF EarlierOf
  <2>5. ASSUME NEW k \in SoundOf(rs), M < k, k <= n - 1,
               NormalOf[rs[k].player] = NormalOf[rs[M].player]
        PROVE  FALSE
    <3>1. k \in 1 .. Len(rs) /\ k < n
          BY <1>1, <2>5
    <3>2. k \in E
          BY <2>4, <2>5, <3>1 DEF EarlierOf
    <3>3. k <= M
          BY <2>3, <3>2
    <3>4. QED  BY <2>4, <2>5, <3>1, <3>3
  <2>6. M \in LatestTo(rs, n - 1)
        BY <2>4, <2>5 DEF LatestTo
  <2>7. ASSUME NEW m \in LatestTo(rs, n - 1), NormalOf[rs[m].player] = NormalOf[rs[n].player]
        PROVE  m = M
    <3>1. m \in E /\ m <= M /\ m \in 1 .. Len(rs)
          BY <1>1, <1>2, <2>3, <2>7 DEF EarlierOf
    <3>2. ~(m < M)
          BY <2>4, <2>7 DEF LatestTo
    <3>3. QED  BY <2>4, <3>1, <3>2
  <2>8. n \in VariedOf(rs) <=> rs[M].player # rs[n].player
        BY <1>4, <2>2 DEF VariedOf
  <2>9. QED  BY <2>4, <2>6, <2>7, <2>8
<1>5. QED  BY <1>3, <1>4

\* One record more is the last of its player from now on.
LEMMA LatestOneMore ==
    ASSUME NEW R, NEW rs \in Seq(R), NEW n \in DOMAIN rs
    PROVE  /\ n \notin SoundOf(rs) => LatestTo(rs, n) = LatestTo(rs, n - 1)
           /\ n \in SoundOf(rs) =>
                 LatestTo(rs, n) = {n} \cup
                    {m \in LatestTo(rs, n - 1) : NormalOf[rs[m].player] # NormalOf[rs[n].player]}
<1>1. n \in 1 .. Len(rs) /\ Len(rs) \in Nat /\ SoundOf(rs) \subseteq 1 .. Len(rs)
      BY RecordFacts
<1>2. \A m \in 1 .. Len(rs) : m <= n <=> (m <= n - 1 \/ m = n)
      BY <1>1
<1>3. \A m \in 1 .. Len(rs) : m <= n - 1 => m < n
      BY <1>1
<1>4. ~(n < n) /\ ~(n <= n - 1)
      BY <1>1
<1>5. n \notin SoundOf(rs) => LatestTo(rs, n) = LatestTo(rs, n - 1)
      BY <1>1, <1>2 DEF LatestTo
<1>6. ASSUME n \in SoundOf(rs), NEW m
      PROVE  m \in LatestTo(rs, n) <=>
                \/ m = n
                \/ m \in LatestTo(rs, n - 1) /\ NormalOf[rs[m].player] # NormalOf[rs[n].player]
  <2>1. CASE m = n
    <3>1. \A k \in SoundOf(rs) : ~(n < k /\ k <= n)
          BY <1>1
    <3>2. QED  BY <1>1, <1>6, <2>1, <3>1 DEF LatestTo
  <2>2. CASE m \in SoundOf(rs) /\ m # n
        BY <1>1, <1>2, <1>3, <1>6, <2>2 DEF LatestTo
  <2>3. CASE m \notin SoundOf(rs)
        BY <1>6, <2>3 DEF LatestTo
  <2>4. QED  BY <2>1, <2>2, <2>3
<1>7. QED  BY <1>5, <1>6

\* A record is kept when it is sound and repeats none before it.
LEMMA KeptOneMore ==
    ASSUME NEW R, NEW rs \in Seq(R), NEW n \in DOMAIN rs, NEW Q, rs[n] \in Q,
           NEW offers \in Seq(Q), Placed(offers, KeptTo(rs, n - 1), rs)
    PROVE  Placed(IF n \in SoundOf(rs) \ RepeatedOf(rs) THEN Append(offers, rs[n]) ELSE offers,
                  KeptTo(rs, n), rs)
<1>1. n \in 1 .. Len(rs) /\ Len(rs) \in Nat /\ SoundOf(rs) \subseteq 1 .. Len(rs)
      BY RecordFacts
<1>2. \A m \in 1 .. Len(rs) : m <= n <=> (m <= n - 1 \/ m = n)
      BY <1>1
<1>3. CASE n \notin SoundOf(rs) \ RepeatedOf(rs)
  <2>1. KeptTo(rs, n) = KeptTo(rs, n - 1)
        BY <1>1, <1>2, <1>3 DEF KeptTo
  <2>2. QED  BY <1>3, <2>1
<1>4. CASE n \in SoundOf(rs) \ RepeatedOf(rs)
  <2>1. KeptTo(rs, n) = KeptTo(rs, n - 1) \cup {n}
        BY <1>1, <1>2, <1>4 DEF KeptTo
  <2>2. PICK place \in [DOMAIN offers -> KeptTo(rs, n - 1)] :
           /\ \A m \in KeptTo(rs, n - 1) : \E i \in DOMAIN place : place[i] = m
           /\ \A i, j \in DOMAIN place : i < j => place[i] < place[j]
           /\ \A i \in DOMAIN place : offers[i] = rs[place[i]]
        BY DEF Placed
  <2>3. PICK L, more : L = Len(offers) /\ more = Append(offers, rs[n])
        OBVIOUS
  <2>4. /\ L \in Nat /\ DOMAIN offers = 1 .. L /\ DOMAIN more = 1 .. L + 1
        /\ more[L + 1] = rs[n] /\ \A i \in 1 .. L : more[i] = offers[i]
    <3>1. rs[n] \in Q /\ L \in Nat /\ DOMAIN offers = 1 .. L
          BY <2>3
    <3>2. /\ more \in Seq(Q) /\ Len(more) = L + 1 /\ more[L + 1] = rs[n]
          /\ \A i \in 1 .. L : more[i] = offers[i]
          BY <2>3, <3>1, AppendProperties
    <3>3. DOMAIN more = 1 .. L + 1
          BY <3>2
    <3>4. QED  BY <3>1, <3>2, <3>3
  <2>5. PICK there : there = [i \in 1 .. L + 1 |-> IF i <= L THEN place[i] ELSE n]
        OBVIOUS
  <2>6. /\ DOMAIN there = 1 .. L + 1 /\ there[L + 1] = n
        /\ \A i \in 1 .. L : there[i] = place[i] /\ place[i] \in KeptTo(rs, n - 1)
        /\ 1 .. L + 1 = (1 .. L) \cup {L + 1}
    <3>1. 1 .. L + 1 = (1 .. L) \cup {L + 1} /\ \A i \in 1 .. L : i <= L /\ ~(L + 1 <= L)
          BY <2>4
    <3>2. \A i \in 1 .. L : place[i] \in KeptTo(rs, n - 1)
          BY <2>2, <2>4
    <3>3. DOMAIN there = 1 .. L + 1 /\ there[L + 1] = n /\ \A i \in 1 .. L : there[i] = place[i]
      <4>1. L + 1 \in 1 .. L + 1 /\ ~(L + 1 <= L) /\ \A i \in 1 .. L : i \in 1 .. L + 1
            BY <2>4
      <4>2. QED  BY <2>5, <3>1, <4>1
    <3>4. QED  BY <3>1, <3>2, <3>3
  <2>7. there \in [DOMAIN more -> KeptTo(rs, n)]
        BY <2>1, <2>4, <2>5, <2>6
  <2>8. \A m \in KeptTo(rs, n) : \E i \in DOMAIN there : there[i] = m
        BY <2>1, <2>2, <2>4, <2>6
  <2>9. ASSUME NEW i \in DOMAIN there, NEW j \in DOMAIN there, i < j PROVE there[i] < there[j]
    <3>1. i \in 1 .. L
          BY <2>4, <2>6, <2>9
    <3>2. CASE j \in 1 .. L
          BY <2>2, <2>4, <2>6, <2>9, <3>1, <3>2
    <3>3. CASE j = L + 1
      <4>1. there[i] \in 1 .. Len(rs) /\ there[i] <= n - 1
            BY <1>1, <2>6, <3>1 DEF KeptTo
      <4>2. QED  BY <1>1, <2>6, <3>3, <4>1
    <3>4. QED  BY <2>6, <2>9, <3>2, <3>3
  <2>10. \A i \in DOMAIN there : more[i] = rs[there[i]]
        BY <2>2, <2>4, <2>6
  <2>11. QED  BY <1>4, <2>3, <2>7, <2>8, <2>9, <2>10 DEF Placed
<1>5. QED  BY <1>3, <1>4

\* The flags of one record more are new.
LEMMA FlagsOneMore ==
    ASSUME NEW R, NEW rs \in Seq(R), NEW n \in DOMAIN rs
    PROVE  /\ FlagsTo(rs, n) = FlagsTo(rs, n - 1) \cup FlagsAt(rs, n)
           /\ \A c : Offers!Flag(c, n) \notin FlagsTo(rs, n - 1)
<1>1. n \in 1 .. Len(rs) /\ Len(rs) \in Nat
      BY RecordFacts
<1>2. 1 .. n = (1 .. n - 1) \cup {n} /\ n \notin 1 .. n - 1
      BY <1>1
<1>3. FlagsTo(rs, n) = FlagsTo(rs, n - 1) \cup FlagsAt(rs, n)
      BY <1>2 DEF FlagsTo
<1>4. \A m : \A f \in FlagsAt(rs, m) : f.index = m
  <2>1. \A c, m : Offers!Flag(c, m).index = m
        BY DEF Offers!Flag
  <2>2. QED  BY <2>1 DEF FlagsAt
<1>5. ASSUME NEW c, Offers!Flag(c, n) \in FlagsTo(rs, n - 1) PROVE FALSE
  <2>1. PICK m \in 1 .. n - 1 : Offers!Flag(c, n) \in FlagsAt(rs, m)
        BY <1>5 DEF FlagsTo
  <2>2. Offers!Flag(c, n).index = m /\ Offers!Flag(c, n).index = n
        BY <1>4, <2>1 DEF Offers!Flag
  <2>3. QED  BY <1>2, <2>1, <2>2
<1>6. QED  BY <1>3, <1>5

\* The sound records up to n, but for n itself.
LEMMA SoundBefore ==
    ASSUME NEW R, NEW rs \in Seq(R), NEW n \in DOMAIN rs
    PROVE  {k \in SoundOf(rs) : k <= n} =
              {k \in SoundOf(rs) : k <= n - 1} \cup (IF n \in SoundOf(rs) THEN {n} ELSE {})
<1>1. n \in 1 .. Len(rs) /\ Len(rs) \in Nat /\ SoundOf(rs) \subseteq 1 .. Len(rs)
      BY RecordFacts
<1>2. \A k \in 1 .. Len(rs) : k <= n <=> (k <= n - 1 \/ k = n)
      BY <1>1
<1>3. QED  BY <1>1, <1>2

\* A record repeats a contract when its contract was seen.
LEMMA RepeatedIsSeen ==
    ASSUME NEW R, NEW rs \in Seq(R), NEW n \in SoundOf(rs)
    PROVE  n \in RepeatedOf(rs) <=>
              Offers!Contract(rs[n]) \in
                 {Offers!Contract(rs[m]) : m \in {k \in SoundOf(rs) : k <= n - 1}}
<1>1. n \in 1 .. Len(rs) /\ Len(rs) \in Nat /\ SoundOf(rs) \subseteq 1 .. Len(rs)
      BY RecordFacts
<1>2. \A k \in 1 .. Len(rs) : k < n <=> k <= n - 1
      BY <1>1
<1>3. \A o, p : Offers!Contract(o) = Offers!Contract(p) => NormalOf[o.player] = NormalOf[p.player]
      BY DEF Offers!Contract
<1>4. QED  BY <1>1, <1>2, <1>3 DEF RepeatedOf, EarlierOf

\* A defective record is flagged and dropped.
LEMMA DefectStep ==
    ASSUME NEW R, NEW rs \in Seq(R), NEW n \in DOMAIN rs, NEW v \in Validation(rs),
           Validated(rs, n - 1, v), n \notin SoundOf(rs)
    PROVE  LET w == Offers!ValidateRecord(v, rs[n], n)
           IN  w \in Validation(rs) /\ Validated(rs, n, w)
<1>1. n \in 1 .. Len(rs) /\ Len(rs) \in Nat /\ SoundOf(rs) \subseteq 1 .. Len(rs)
      BY RecordFacts
<1>2. PICK c, f : c = Offers!Defect(rs[n]) /\ f = Offers!Flag(c, n)
      OBVIOUS
<1>3. PICK flags : flags = Append(v.flags, f)
      OBVIOUS
<1>4. PICK w : w = [v EXCEPT !.flags = flags]
      OBVIOUS
<1>5. Offers!ValidateRecord(v, rs[n], n) = w
      BY <1>2, <1>3, <1>4 DEF Offers!ValidateRecord, SoundOf
<1>6. v.flags \in Seq(FlagSet(rs)) /\ FlagList(v.flags, FlagSet(rs))
      BY DEF Validation, Validated, FlagList
<1>7. f \in FlagSet(rs)
      BY <1>1, <1>2 DEF FlagSet, Offers!Flag
<1>8. f \notin Listed(v.flags) /\ FlagsAt(rs, n) = {f}
      BY <1>2, FlagsOneMore DEF Validated, FlagsAt
<1>9. flags = v.flags \o Offers!Flags(c, TRUE, n)
  <2>1. Append(v.flags, f) = v.flags \o <<f>>
        BY <1>6, <1>7
  <2>2. QED  BY <1>2, <1>3, <2>1 DEF Offers!Flags
<1>10. FlagList(flags, FlagSet(rs)) /\ Listed(flags) = Listed(v.flags) \cup {f}
  <2>1. Offers!Flag(c, n) \in FlagSet(rs) /\ Offers!Flag(c, n) \notin Listed(v.flags)
        BY <1>2, <1>7, <1>8
  <2>2. PICK b \in BOOLEAN : b
        OBVIOUS
  <2>3. LET t == v.flags \o Offers!Flags(c, b, n)
        IN  /\ FlagList(t, FlagSet(rs))
            /\ Listed(t) = Listed(v.flags) \cup (IF b THEN {Offers!Flag(c, n)} ELSE {})
        BY <1>6, <2>1, OneFlagMore
  <2>4. flags = v.flags \o Offers!Flags(c, b, n)
        BY <1>9, <2>2 DEF Offers!Flags
  <2>5. QED  BY <1>2, <2>2, <2>3, <2>4
<1>11. /\ w \in Validation(rs) /\ w.offers = v.offers /\ w.flags = flags
       /\ w.seen = v.seen /\ w.names = v.names
      BY <1>4, <1>10 DEF Validation, FlagList
<1>12. Placed(v.offers, KeptTo(rs, n), rs)
  <2>1. v.offers \in Seq({rs[m] : m \in DOMAIN rs})
        BY DEF Validation
  <2>2. rs[n] \in {rs[m] : m \in DOMAIN rs}
        OBVIOUS
  <2>3. QED  BY <2>1, <2>2, KeptOneMore DEF Validated
<1>13. Validated(rs, n, w)
  <2>1. Listed(flags) = FlagsTo(rs, n)
        BY <1>8, <1>10, FlagsOneMore DEF Validated
  <2>2. LatestTo(rs, n) = LatestTo(rs, n - 1)
        BY LatestOneMore
  <2>3. {k \in SoundOf(rs) : k <= n} = {k \in SoundOf(rs) : k <= n - 1}
        BY SoundBefore
  <2>4. QED  BY <1>10, <1>11, <1>12, <2>1, <2>2, <2>3 DEF Validated, FlagList
<1>14. QED  BY <1>5, <1>11, <1>13

\* A sound record is kept with its warnings, or dropped as a repetition.
LEMMA SoundStep ==
    ASSUME NEW R, NEW rs \in Seq(R), NEW n \in SoundOf(rs), NEW v \in Validation(rs),
           Validated(rs, n - 1, v)
    PROVE  LET w == Offers!ValidateRecord(v, rs[n], n)
           IN  w \in Validation(rs) /\ Validated(rs, n, w)
<1>1. /\ n \in 1 .. Len(rs) /\ n \in DOMAIN rs
      /\ Len(rs) \in Nat /\ SoundOf(rs) \subseteq 1 .. Len(rs)
      BY RecordFacts
<1>2. PICK o, name, others, previous :
         /\ o = rs[n] /\ name = NormalOf[o.player]
         /\ others = {m \in v.names : m[1] # name} /\ previous = v.names \ others
      OBVIOUS
<1>3. PICK stale, varied, duplicate \in BOOLEAN :
         /\ stale <=> o.stale
         /\ varied <=> n \in VariedOf(rs)
         /\ duplicate <=> n \in RepeatedOf(rs)
      OBVIOUS
<1>4. duplicate <=> Offers!Contract(o) \in v.seen
      BY <1>2, <1>3, RepeatedIsSeen DEF Validated
<1>5. varied <=> \E m \in previous : m[2] # o.player
  <2>1. v.names = {<<NormalOf[rs[m].player], rs[m].player>> : m \in LatestTo(rs, n - 1)}
        BY DEF Validated
  <2>2. previous = {m \in v.names : m[1] = name}
        BY <1>2
  <2>3. ASSUME NEW m \in previous, m[2] # o.player
        PROVE  \E k \in LatestTo(rs, n - 1) :
                  NormalOf[rs[k].player] = name /\ rs[k].player # o.player
    <3>1. PICK k \in LatestTo(rs, n - 1) : m = <<NormalOf[rs[k].player], rs[k].player>>
          BY <2>1, <2>2
    <3>2. QED  BY <2>2, <2>3, <3>1
  <2>4. ASSUME NEW k \in LatestTo(rs, n - 1), NormalOf[rs[k].player] = name,
               rs[k].player # o.player
        PROVE  \E m \in previous : m[2] # o.player
    <3>1. PICK m : m = <<NormalOf[rs[k].player], rs[k].player>>
          OBVIOUS
    <3>2. m \in previous /\ m[2] # o.player
          BY <2>1, <2>2, <2>4, <3>1
    <3>3. QED  BY <3>2
  <2>5. QED  BY <1>2, <1>3, <2>3, <2>4, VariedIsSeen
<1>6. PICK s1, s2, s3 : /\ s1 = v.flags \o Offers!Flags("STALE_EVENT", stale, n)
                        /\ s2 = s1 \o Offers!Flags("PLAYER_ALIAS_VARIATION", varied, n)
                        /\ s3 = s2 \o Offers!Flags("DUPLICATE_CONTRACT", duplicate, n)
      OBVIOUS
<1>7. PICK offers, seen, names : /\ offers = IF duplicate THEN v.offers ELSE Append(v.offers, o)
                                 /\ seen = v.seen \cup {Offers!Contract(o)}
                                 /\ names = others \cup {<<name, o.player>>}
      OBVIOUS
<1>8. PICK w : w = [offers |-> offers, flags |-> s3, seen |-> seen, names |-> names]
      OBVIOUS
<1>9. Offers!ValidateRecord(v, rs[n], n) = w
  <2>1. Offers!Defect(o) = None
        BY <1>2 DEF SoundOf
  <2>2. Offers!Flags("STALE_EVENT", o.stale, n) = Offers!Flags("STALE_EVENT", stale, n)
        BY <1>3 DEF Offers!Flags
  <2>3. Offers!Flags("PLAYER_ALIAS_VARIATION", \E m \in previous : m[2] # o.player, n)
           = Offers!Flags("PLAYER_ALIAS_VARIATION", varied, n)
        BY <1>5 DEF Offers!Flags
  <2>4. Offers!Flags("DUPLICATE_CONTRACT", Offers!Contract(o) \in v.seen, n)
           = Offers!Flags("DUPLICATE_CONTRACT", duplicate, n)
        BY <1>4 DEF Offers!Flags
  <2>5. (IF Offers!Contract(o) \in v.seen THEN v.offers ELSE Append(v.offers, o)) = offers
        BY <1>4, <1>7
  <2>6. Offers!ValidateRecord(v, o, n) =
           [offers |-> IF Offers!Contract(o) \in v.seen THEN v.offers ELSE Append(v.offers, o),
            flags |-> v.flags
               \o Offers!Flags("STALE_EVENT", o.stale, n)
               \o Offers!Flags("PLAYER_ALIAS_VARIATION", \E m \in previous : m[2] # o.player, n)
               \o Offers!Flags("DUPLICATE_CONTRACT", Offers!Contract(o) \in v.seen, n),
            seen |-> v.seen \cup {Offers!Contract(o)},
            names |-> others \cup {<<name, o.player>>}]
        BY <1>2, <2>1, Zenon DEF Offers!ValidateRecord
  <2>7. QED  BY <1>2, <1>6, <1>7, <1>8, <2>2, <2>3, <2>4, <2>5, <2>6
<1>10. /\ FlagList(s3, FlagSet(rs))
       /\ Listed(s3) = Listed(v.flags) \cup FlagsAt(rs, n)
  <2> DEFINE F == FlagSet(rs)
             a == Offers!Flag("STALE_EVENT", n)
             b == Offers!Flag("PLAYER_ALIAS_VARIATION", n)
             c == Offers!Flag("DUPLICATE_CONTRACT", n)
  <2>1. a \in F /\ b \in F /\ c \in F /\ a # b /\ a # c /\ b # c
        BY <1>1 DEF FlagSet, Offers!Flag
  <2>2. FlagList(v.flags, F) /\ a \notin Listed(v.flags) /\ b \notin Listed(v.flags)
        /\ c \notin Listed(v.flags)
        BY <1>1, FlagsOneMore DEF Validation, Validated, FlagList
  <2> HIDE DEF F
  <2>3. FlagList(s1, F) /\ Listed(s1) = Listed(v.flags) \cup (IF stale THEN {a} ELSE {})
        BY <1>6, <2>1, <2>2, OneFlagMore
  <2>4. b \notin Listed(s1) /\ c \notin Listed(s1)
        BY <2>1, <2>2, <2>3
  <2>5. FlagList(s2, F) /\ Listed(s2) = Listed(s1) \cup (IF varied THEN {b} ELSE {})
        BY <1>6, <2>1, <2>3, <2>4, OneFlagMore
  <2>6. c \notin Listed(s2)
        BY <2>1, <2>4, <2>5
  <2>7. FlagList(s3, F) /\ Listed(s3) = Listed(s2) \cup (IF duplicate THEN {c} ELSE {})
        BY <1>6, <2>1, <2>5, <2>6, OneFlagMore
  <2>8. FlagsAt(rs, n) = (IF stale THEN {a} ELSE {}) \cup (IF varied THEN {b} ELSE {})
                         \cup (IF duplicate THEN {c} ELSE {})
        BY <1>2, <1>3 DEF FlagsAt
  <2>9. QED  BY <2>3, <2>5, <2>7, <2>8 DEF F
<1>11. Listed(s3) = FlagsTo(rs, n)
       BY <1>1, <1>10, FlagsOneMore DEF Validated
<1>12. o \in {rs[m] : m \in DOMAIN rs} /\ v.offers \in Seq({rs[m] : m \in DOMAIN rs})
       BY <1>1, <1>2 DEF Validation
<1>13. offers \in Seq({rs[m] : m \in DOMAIN rs}) /\ Placed(offers, KeptTo(rs, n), rs)
  <2>1. offers \in Seq({rs[m] : m \in DOMAIN rs})
        BY <1>7, <1>12
  <2>2. offers = IF n \in SoundOf(rs) \ RepeatedOf(rs) THEN Append(v.offers, rs[n]) ELSE v.offers
        BY <1>2, <1>3, <1>7
  <2>3. QED  BY <1>1, <1>2, <1>12, <2>1, <2>2, KeptOneMore DEF Validated
<1>14. seen = {Offers!Contract(rs[m]) : m \in {k \in SoundOf(rs) : k <= n}}
       BY <1>1, <1>2, <1>7, SoundBefore DEF Validated
<1>15. names = {<<NormalOf[rs[m].player], rs[m].player>> : m \in LatestTo(rs, n)}
  <2>1. LatestTo(rs, n) = {n} \cup {m \in LatestTo(rs, n - 1) : NormalOf[rs[m].player] # name}
        BY <1>1, <1>2, LatestOneMore
  <2>2. others = {<<NormalOf[rs[m].player], rs[m].player>> :
                     m \in {m \in LatestTo(rs, n - 1) : NormalOf[rs[m].player] # name}}
        BY <1>2 DEF Validated
  <2>3. QED  BY <1>2, <1>7, <2>1, <2>2
<1>16. /\ seen \in SUBSET {Offers!Contract(rs[m]) : m \in DOMAIN rs}
       /\ names \in SUBSET {<<NormalOf[rs[m].player], rs[m].player>> : m \in DOMAIN rs}
       BY <1>1, <1>14, <1>15 DEF LatestTo, SoundOf
<1>17. w \in Validation(rs)
       BY <1>8, <1>10, <1>13, <1>16 DEF Validation, FlagList
<1>18. Validated(rs, n, w)
       BY <1>8, <1>10, <1>11, <1>13, <1>14, <1>15 DEF Validated, FlagList
<1>19. QED  BY <1>9, <1>17, <1>18

\* Before the first record nothing has been found.
Unread == [offers |-> <<>>, flags |-> <<>>, seen |-> {}, names |-> {}]

LEMMA NothingValidated ==
    ASSUME NEW R, NEW rs \in Seq(R)
    PROVE  Unread \in Validation(rs) /\ Validated(rs, 0, Unread)
<1>1. /\ SoundOf(rs) \subseteq 1 .. Len(rs) /\ Len(rs) \in Nat
      /\ \A m \in 1 .. Len(rs) : ~(m <= 0)
      BY RecordFacts
<1>2. KeptTo(rs, 0) = {} /\ LatestTo(rs, 0) = {} /\ {k \in SoundOf(rs) : k <= 0} = {}
      BY <1>1 DEF KeptTo, LatestTo
<1>3. FlagsTo(rs, 0) = {}
  <2>1. 1 .. 0 = {}
        OBVIOUS
  <2>2. QED  BY <2>1 DEF FlagsTo
<1>4. PICK e : e = <<>>
      OBVIOUS
<1>5. Len(e) = 0 /\ DOMAIN e = {} /\ 1 .. Len(e) = {} /\ \A T : e \in Seq(T)
      BY <1>4
<1>6. Placed(e, {}, rs)
  <2>1. PICK p : p = [i \in {} |-> 0]
        OBVIOUS
  <2>2. p \in [DOMAIN e -> {}] /\ DOMAIN p = {}
        BY <1>5, <2>1
  <2>3. QED  BY <2>2 DEF Placed
<1>7. /\ Unread.offers = e /\ Unread.flags = e /\ Unread.seen = {} /\ Unread.names = {}
      /\ Unread = [offers |-> e, flags |-> e, seen |-> {}, names |-> {}]
      BY <1>4 DEF Unread
<1>8. Unread \in Validation(rs)
      BY <1>5, <1>7 DEF Validation
<1>9. Validated(rs, 0, Unread)
      BY <1>2, <1>3, <1>5, <1>6, <1>7 DEF Validated, Listed
<1>10. QED  BY <1>8, <1>9

\* validate_provider_payload: after the last record everything found is of the payload.
LEMMA ValidationIsTrue ==
    ASSUME NEW R, NEW rs \in Seq(R)
    PROVE  /\ Offers!Validate(rs) \in Validation(rs)
           /\ Validated(rs, Len(rs), Offers!Validate(rs))
<1> DEFINE N == Len(rs)
           S == Validation(rs)
           W(v, n) == Offers!ValidateRecord(v, rs[n], n)
           G == [q \in S \X (1 .. N) |-> IF W(q[1], q[2]) \in S THEN W(q[1], q[2]) ELSE q[1]]
           H(h) == [n \in 0 .. N |-> IF n = 0 THEN Unread ELSE W(h[n - 1], n)]
           after == CHOOSE h : h = H(h)
<1>1. N \in Nat /\ DOMAIN rs = 1 .. N
      BY RecordFacts
<1>2. Offers!Validate(rs) = after[N]
      BY Zenon DEF Offers!Validate, Unread
<1>3. Unread \in S /\ Validated(rs, 0, Unread)
      BY NothingValidated
<1>4. ASSUME NEW n \in 1 .. N, NEW v \in S, Validated(rs, n - 1, v)
      PROVE  W(v, n) \in S /\ Validated(rs, n, W(v, n))
  <2>1. CASE n \in SoundOf(rs)
        BY <1>4, <2>1, SoundStep
  <2>2. CASE n \notin SoundOf(rs)
        BY <1>1, <1>4, <2>2, DefectStep
  <2>3. QED  BY <2>1, <2>2
<1>5. \A q \in S \X (1 .. N) : q[1] \in S
      OBVIOUS
<1>6. G \in [S \X (1 .. N) -> S]
  <2> HIDE DEF W, S
  <2>1. QED  BY <1>5
<1>7. PICK f \in Folds(S, Unread, G, N) : TRUE
  <2> HIDE DEF G, S
  <2>1. QED  BY <1>1, <1>3, <1>6, FoldExists
<1>8. /\ f \in [0 .. N -> S] /\ f[0] = Unread
      /\ \A n \in 1 .. N : f[n] = G[<<f[n - 1], n>>]
      BY <1>7 DEF Folds
<1>9. \A n \in 1 .. N : n \in 0 .. N /\ n - 1 \in 0 .. N /\ n # 0
      BY <1>1
<1>10. ASSUME NEW n \in 1 .. N
       PROVE  f[n] = IF W(f[n - 1], n) \in S THEN W(f[n - 1], n) ELSE f[n - 1]
  <2>1. f[n - 1] \in S
        BY <1>8, <1>9
  <2>2. PICK q : q = <<f[n - 1], n>>
        OBVIOUS
  <2>3. q \in S \X (1 .. N) /\ q[1] = f[n - 1] /\ q[2] = n /\ f[n] = G[q]
        BY <1>8, <2>1, <2>2
  <2> HIDE DEF W, S
  <2>4. QED  BY <2>3
<1>11. \A n \in 0 .. N : Validated(rs, n, f[n])
  <2> DEFINE Right == {n \in 0 .. N : Validated(rs, n, f[n])}
  <2>1. 0 \in Right
        BY <1>1, <1>3, <1>8
  <2>2. ASSUME NEW n \in 1 .. N, n - 1 \in Right PROVE n \in Right
    <3>1. Validated(rs, n - 1, f[n - 1]) /\ f[n - 1] \in S
          BY <1>8, <1>9, <2>2
    <3>2. W(f[n - 1], n) \in S /\ Validated(rs, n, W(f[n - 1], n))
          BY <1>4, <3>1
    <3> HIDE DEF W, S
    <3>3. QED  BY <1>9, <1>10, <3>2
  <2> HIDE DEF Right
  <2>3. 0 .. N \subseteq Right
        BY <1>1, <2>1, <2>2, UpTo
  <2>4. QED  BY <2>3 DEF Right
<1>12. ASSUME NEW n \in 1 .. N PROVE f[n] = W(f[n - 1], n)
  <2>1. f[n - 1] \in S /\ Validated(rs, n - 1, f[n - 1])
        BY <1>8, <1>9, <1>11
  <2>2. W(f[n - 1], n) \in S
        BY <1>4, <2>1
  <2> HIDE DEF W, S
  <2>3. QED  BY <1>10, <2>2
<1>13. f = H(f)
  <2> HIDE DEF W, S
  <2>1. \A n \in 0 .. N : n = 0 \/ n \in 1 .. N
        BY <1>1
  <2>2. DOMAIN f = 0 .. N /\ f = [n \in 0 .. N |-> f[n]]
        BY <1>8
  <2>3. QED  BY <1>8, <1>12, <2>1, <2>2
<1>14. after = H(after)
  <2> HIDE DEF H
  <2>1. QED  BY <1>13, Zenon
<1>15. \A n \in 0 .. N : f[n] = after[n]
  <2> HIDE DEF W, S, after
  <2>1. after[0] = Unread /\ \A n \in 1 .. N : after[n] = W(after[n - 1], n)
    <3>1. 0 \in 0 .. N
          BY <1>1
    <3>2. QED  BY <1>9, <1>14, <3>1
  <2>2. f[0] = after[0] /\ \A n \in 1 .. N : f[n - 1] = after[n - 1] => f[n] = after[n]
        BY <1>8, <1>12, <2>1
  <2>3. QED  BY <1>1, <2>2, FoldUnique, ZenonT(30)
<1>16. f[N] = Offers!Validate(rs) /\ N \in 0 .. N
  <2> HIDE DEF W, S, after
  <2>1. QED  BY <1>1, <1>2, <1>15
<1>17. QED  BY <1>8, <1>11, <1>16

\* ValidationAsDocumented: what validate_provider_payload keeps and flags, in whatever
\* order its records come.
LEMMA ValidationIsDocumented ==
    ASSUME NEW R, payload \in Seq(R)
    PROVE  Offers!ValidationAsDocumented
<1> DEFINE v == Offers!Validate(payload)
           N == Len(payload)
           sound == SoundOf(payload)
           flags == {Offers!Flag(Offers!Defect(payload[n]), n) : n \in DOMAIN payload \ sound}
              \cup {Offers!Flag("STALE_EVENT", n) : n \in {m \in sound : payload[m].stale}}
              \cup {Offers!Flag("PLAYER_ALIAS_VARIATION", n) : n \in VariedOf(payload)}
              \cup {Offers!Flag("DUPLICATE_CONTRACT", n) : n \in RepeatedOf(payload)}
<1>1. v \in Validation(payload) /\ Validated(payload, N, v)
      BY ValidationIsTrue
<1>2. N \in Nat /\ DOMAIN payload = 1 .. N /\ sound \subseteq 1 .. N
      BY RecordFacts
<1>3. Placed(v.offers, sound \ RepeatedOf(payload), payload)
  <2>1. KeptTo(payload, N) = sound \ RepeatedOf(payload)
        BY <1>2 DEF KeptTo
  <2>2. QED  BY <1>1, <2>1 DEF Validated
<1>4. v.flags \in Seq(FlagSet(payload)) /\ DOMAIN v.flags = 1 .. Len(v.flags)
      BY <1>1 DEF Validation
<1>5. Offers!ToSet(v.flags) = FlagsTo(payload, N)
      BY <1>1, <1>4 DEF Validated, Listed, Offers!ToSet
<1>6. FlagsTo(payload, N) = flags
  <2>1. VariedOf(payload) \subseteq sound /\ RepeatedOf(payload) \subseteq sound
        BY DEF VariedOf, RepeatedOf
  <2>2. ASSUME NEW x PROVE x \in FlagsTo(payload, N) <=> \E n \in 1 .. N : x \in FlagsAt(payload, n)
        BY DEF FlagsTo
  <2>3. ASSUME NEW x PROVE x \in flags <=> \E n \in 1 .. N : x \in FlagsAt(payload, n)
        BY <1>2, <2>1 DEF FlagsAt
  <2> HIDE DEF flags
  <2>4. QED  BY <2>2, <2>3
<1>7. Offers!IsInjective(v.flags)
      BY <1>1, <1>4 DEF Validated, Offers!IsInjective
<1>8. \A E : Offers!Max(E) = Max(E)
      BY DEF Offers!Max, Max
<1>9. VariedOf(payload) = {n \in sound : EarlierOf(payload, n) # {}
                              /\ payload[Offers!Max(EarlierOf(payload, n))].player # payload[n].player}
      BY <1>8 DEF VariedOf
<1>10. Offers!ToSet(v.flags) = flags
       BY <1>5, <1>6
<1>11. QED
  BY <1>3, <1>7, <1>9, <1>10, Zenon
  DEF Offers!ValidationAsDocumented, Placed, SoundOf, EarlierOf, RepeatedOf

\* A set of two positions that n is in has one other.
LEMMA PairOf ==
    ASSUME NEW N \in Nat, NEW S \in SUBSET (1 .. N), NEW n \in S, Offers!Cardinality(S) = 2
    PROVE  \E m \in S : m # n /\ S = {n, m}
<1>1. Cardinality(S) = 2
      BY DEF Offers!Cardinality, Cardinality
<1>2. IsFiniteSet(S)
  <2>1. 1 \in Int /\ N \in Int
        OBVIOUS
  <2>2. QED  BY <2>1, FS_Interval, FS_Subset
<1>3. IsFiniteSet(S \ {n}) /\ Cardinality(S \ {n}) = 1
      BY <1>1, <1>2, FS_RemoveElement
<1>4. PICK m : S \ {n} = {m}
      BY <1>3, FS_Singleton
<1>5. QED  BY <1>4

\* FairPricesRestOnPairs, among the rows of one batch of persist_offers.
LEMMA PersistedPairs ==
    ASSUME None \notin Nat \X Nat, NEW Q, NEW offers \in Seq(Q),
           \A n \in DOMAIN offers : Implied[offers[n].odds] \in Nat,
           NEW l \in Offers!Persisted(offers), l.fair # None
    PROVE  \E k \in Offers!Persisted(offers) \ {l} :
              /\ k.batch = l.batch /\ k.row.event = l.row.event /\ k.row.player = l.row.player
              /\ k.row.book = l.row.book /\ k.row.market = l.row.market /\ k.row.line = l.row.line
              /\ k.fair # None /\ k.fair[2] = l.fair[2] /\ k.fair[1] + l.fair[1] = l.fair[2]
<1> DEFINE at == DOMAIN offers
           row == [n \in at |-> Offers!Row(offers[n])]
           price == [n \in at |-> Implied[offers[n].odds]]
           Group(n) == {m \in at : Offers!SameGroup(row[n], row[m])}
           Line(n) == [row |-> row[n], batch |-> handled + 1, place |-> n,
                       fair |-> Offers!FairProbability(price, Group(n), n)]
<1>1. Offers!Persisted(offers) = {Line(n) : n \in at}
  <2>1. Offers!Persisted(offers) = {} \/ Offers!Persisted(offers) = {Line(n) : n \in at}
        BY Zenon DEF Offers!Persisted
  <2> HIDE DEF Line
  <2>2. QED  BY <2>1
<1>2. PICK N : N = Len(offers) /\ N \in Nat /\ at = 1 .. N
      OBVIOUS
<1>3. \A n \in at : price[n] \in Nat
      OBVIOUS
<1>4. PICK n \in at : l = Line(n)
  <2> HIDE DEF Line
  <2>1. QED  BY <1>1
<1>5. n \in Group(n) /\ Group(n) \in SUBSET (1 .. N)
      BY <1>2, <1>4 DEF Offers!SameGroup
<1>6. Offers!Cardinality(Group(n)) = 2
      BY <1>4 DEF Offers!FairProbability
<1>7. PICK m \in Group(n) : m # n /\ Group(n) = {n, m}
  <2> HIDE DEF Group
  <2>1. QED  BY <1>2, <1>5, <1>6, PairOf
<1>8. m \in at /\ Offers!SameGroup(row[n], row[m])
      BY <1>7
<1>9. Group(m) = Group(n)
      BY <1>8 DEF Offers!SameGroup
<1>10. /\ Offers!FairProbability(price, Group(n), n) = <<price[n], price[n] + price[m]>>
       /\ Offers!FairProbability(price, Group(m), m) = <<price[m], price[m] + price[n]>>
  <2>1. Group(n) \ {n} = {m} /\ Group(m) \ {m} = {n}
    <3>1. {n, m} \ {n} = {m} /\ {n, m} \ {m} = {n}
          BY <1>7
    <3> HIDE DEF Group
    <3>2. QED  BY <1>7, <1>9, <3>1
  <2> HIDE DEF Group, price
  <2>2. (CHOOSE x \in {m} : TRUE) = m /\ (CHOOSE x \in {n} : TRUE) = n
        OBVIOUS
  <2>3. QED  BY <1>6, <1>9, <2>1, <2>2 DEF Offers!FairProbability
<1>11. PICK k : k = Line(m)
       OBVIOUS
<1>12. k \in Offers!Persisted(offers) /\ k # l
  <2>1. k.place = m /\ l.place = n
        BY <1>4, <1>11
  <2> HIDE DEF Line
  <2>2. QED  BY <1>1, <1>7, <1>8, <1>11, <2>1
<1>13. /\ k.batch = l.batch /\ k.row = row[m] /\ l.row = row[n]
       /\ k.fair = <<price[m], price[m] + price[n]>> /\ l.fair = <<price[n], price[n] + price[m]>>
  <2> HIDE DEF Group, price, row
  <2>1. QED  BY <1>4, <1>10, <1>11
<1>14. price[n] \in Nat /\ price[m] \in Nat
       BY <1>3, <1>4, <1>8
<1>15. k.fair # None /\ k.fair[2] = l.fair[2] /\ k.fair[1] + l.fair[1] = l.fair[2]
  <2> HIDE DEF price, row, Group
  <2>1. k.fair \in Nat \X Nat
        BY <1>13, <1>14
  <2>2. QED  BY <1>13, <1>14, <2>1
<1>16. /\ row[m].event = row[n].event /\ row[m].player = row[n].player
       /\ row[m].book = row[n].book /\ row[m].market = row[n].market /\ row[m].line = row[n].line
       BY <1>8 DEF Offers!SameGroup
<1>17. QED
  <2> HIDE DEF row, price, Group
  <2>1. QED  BY <1>12, <1>13, <1>15, <1>16

\* The payload is one a provider answered, or there was none yet.
PayloadKnown == payload \in RecordLists \cup {<<>>}

\* StoredOffersAreSound: whatever payloads providers answer, validation drops and flags
\* what it should (validate_provider_payload), and a fair probability rests on two prices
\* of one book, player, event, market and line that share the margin (persist_offers).
THEOREM OffersStaySound == Offers!Spec => []StoredOffersAreSound
<1> DEFINE R == UNION {Offers!ToSet(records) : records \in RecordLists}
<1>1. /\ RecordLists \subseteq Seq(R) /\ None \notin Nat \X Nat
      /\ \A records \in RecordLists : \A o \in Offers!ToSet(records) :
            Offers!Defect(o) = None => Implied[o.odds] \in Nat
      BY ProvidersAssumption DEF Offers!OffersAssumption
<1>2. PayloadKnown => Offers!ValidationAsDocumented
  <2>1. PayloadKnown => payload \in Seq(R)
    <3> HIDE DEF R
    <3>1. \A p : p = <<>> => p \in Seq(R)
          OBVIOUS
    <3>2. QED  BY <1>1, <3>1 DEF PayloadKnown
  <2> HIDE DEF R
  <2>2. QED  BY <2>1, ValidationIsDocumented
<1>3. ASSUME NEW records \in RecordLists
      PROVE  /\ Offers!Validate(records).offers \in Seq({records[n] : n \in DOMAIN records})
             /\ \A n \in DOMAIN Offers!Validate(records).offers :
                   Implied[Offers!Validate(records).offers[n].odds] \in Nat
  <2>1. PICK v : v = Offers!Validate(records)
        OBVIOUS
  <2>2. records \in Seq(R)
    <3> HIDE DEF R
    <3>1. QED  BY <1>1
  <2>3. v \in Validation(records) /\ Validated(records, Len(records), v)
    <3> HIDE DEF R
    <3>1. QED  BY <2>1, <2>2, ValidationIsTrue
  <2>4. PICK place \in [DOMAIN v.offers -> KeptTo(records, Len(records))] :
           \A i \in DOMAIN place : v.offers[i] = records[place[i]]
        BY <2>3 DEF Validated, Placed
  <2>5. \A m \in KeptTo(records, Len(records)) :
           /\ m \in DOMAIN records /\ Offers!Defect(records[m]) = None
           /\ records[m] \in Offers!ToSet(records)
        BY DEF KeptTo, SoundOf, Offers!ToSet
  <2>6. \A n \in DOMAIN v.offers : Implied[v.offers[n].odds] \in Nat
        BY <1>1, <2>4, <2>5
  <2>7. QED  BY <2>1, <2>3, <2>6 DEF Validation
<1>4. Offers!Init => PayloadKnown /\ Offers!FairPricesRestOnPairs
      BY DEF Offers!Init, PayloadKnown, Offers!FairPricesRestOnPairs
<1>5. PayloadKnown /\ Offers!FairPricesRestOnPairs /\ [Offers!Next]_(Offers!vars)
      => (PayloadKnown /\ Offers!FairPricesRestOnPairs)'
  <2>1. SUFFICES ASSUME PayloadKnown, Offers!FairPricesRestOnPairs, [Offers!Next]_(Offers!vars)
                 PROVE  PayloadKnown' /\ (Offers!FairPricesRestOnPairs)'
        OBVIOUS
  <2>2. CASE UNCHANGED Offers!vars
        BY <2>1, <2>2 DEF Offers!vars, PayloadKnown, Offers!FairPricesRestOnPairs
  <2>3. ASSUME NEW records \in RecordLists, Offers!Handle(records)
        PROVE  PayloadKnown' /\ (Offers!FairPricesRestOnPairs)'
    <3>1. PICK new : new = Offers!Persisted(Offers!Validate(records).offers)
          OBVIOUS
    <3>2. prop_lines' = prop_lines \cup new /\ payload' = records
          BY <2>3, <3>1 DEF Offers!Handle
    <3>3. \A l \in new : l.fair # None => \E k \in new \ {l} :
             /\ k.batch = l.batch /\ k.row.event = l.row.event /\ k.row.player = l.row.player
             /\ k.row.book = l.row.book /\ k.row.market = l.row.market /\ k.row.line = l.row.line
             /\ k.fair # None /\ k.fair[2] = l.fair[2] /\ k.fair[1] + l.fair[1] = l.fair[2]
      <4>1. PICK offers : offers = Offers!Validate(records).offers
            OBVIOUS
      <4>2. /\ offers \in Seq({records[n] : n \in DOMAIN records})
            /\ \A n \in DOMAIN offers : Implied[offers[n].odds] \in Nat
            BY <1>3, <4>1
      <4>3. new = Offers!Persisted(offers)
            BY <3>1, <4>1
      <4> HIDE DEF R
      <4>4. QED  BY <1>1, <4>2, <4>3, PersistedPairs
    <3>4. (Offers!FairPricesRestOnPairs)'
          BY <2>1, <3>2, <3>3 DEF Offers!FairPricesRestOnPairs
    <3>5. QED  BY <3>2, <3>4 DEF PayloadKnown
  <2>4. QED  BY <2>1, <2>2, <2>3 DEF Offers!Next
<1>6. QED  BY <1>2, <1>4, <1>5, PTL DEF Offers!Spec, StoredOffersAreSound
=============================================================================
