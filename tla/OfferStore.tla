------------------------------ MODULE OfferStore ------------------------------
(***************************************************************************)
(* From a provider's payload to prop_lines: validate_provider_payload, then *)
(* persist_offers with its fair market probabilities.  A player is his      *)
(* normalised name here; PlayerAliases is about how players come about.     *)
(***************************************************************************)
EXTENDS Integers, Sequences, FiniteSetsExt, SequencesExt

CONSTANTS
    None,
    FoldOf,        \* raw bookmaker -> casefolded
    KeyOf,         \* raw bookmaker -> casefolded, with "-" for " "
    NormalOf,      \* raw player name -> normalised, None when nothing is left
    Blank,         \* the raw names that are all white space
    Binary,        \* Market.ANYTIME_TD
    MaxLine,       \* the highest plausible line, 10_000
    Implied,       \* American odds -> implied probability, in some common unit
    Payloads,      \* what providers may answer
    MaxPayloads    \* how many payloads a behaviour holds

VARIABLES
    lines,         \* prop_lines
    payload,       \* the payload handled last
    handled        \* how many there were

vars == <<lines, payload, handled>>

Opposite == [over |-> "under", under |-> "over", yes |-> "no", no |-> "yes"]

-----------------------------------------------------------------------------
(* Validation                                                               *)

\* The flag that drops a record on its own account, None if there is none.
Defect(o) ==
    IF o.schema # "valid" THEN o.schema
    ELSE IF o.player \in Blank THEN "MISSING_PLAYER_NAME"
    ELSE IF o.odds \in -99 .. 99 THEN "INVALID_ODDS"
    ELSE IF o.line # None /\ (o.line < 0 \/ o.line > MaxLine \/ o.market = Binary)
         THEN "IMPOSSIBLE_LINE"
    ELSE None

\* Payloads are lists; odds that are no defect have an implied probability.
OffersAssumption ==
    /\ Payloads \subseteq Seq(UNION {ToSet(records) : records \in Payloads})
    /\ \A records \in Payloads : \A o \in ToSet(records) :
          Defect(o) = None => Implied[o.odds] \in Nat
    /\ None \notin Nat \X Nat

Contract(o) == <<o.event, FoldOf[o.book], o.market, NormalOf[o.player], o.side, o.line>>

Flag(category, n) == [category |-> category, index |-> n]

Flags(category, condition, n) == IF condition THEN <<Flag(category, n)>> ELSE <<>>

\* One record of validate_provider_payload: dropped with one flag, or kept with
\* its warnings, unless its contract was seen before.
ValidateRecord(v, o, n) ==
    IF Defect(o) # None THEN [v EXCEPT !.flags = Append(@, Flag(Defect(o), n))]
    ELSE LET name == NormalOf[o.player]
             others == {m \in v.names : m[1] # name}
             previous == v.names \ others
             duplicate == Contract(o) \in v.seen
         IN  [offers |-> IF duplicate THEN v.offers ELSE Append(v.offers, o),
              flags |-> v.flags
                  \o Flags("STALE_EVENT", o.stale, n)
                  \o Flags("PLAYER_ALIAS_VARIATION", \E m \in previous : m[2] # o.player, n)
                  \o Flags("DUPLICATE_CONTRACT", duplicate, n),
              seen |-> v.seen \cup {Contract(o)},
              names |-> others \cup {<<name, o.player>>}]

\* validate_provider_payload, record by record.
Validate(records) ==
    LET after[n \in 0 .. Len(records)] ==
            IF n = 0 THEN [offers |-> <<>>, flags |-> <<>>, seen |-> {}, names |-> {}]
            ELSE ValidateRecord(after[n - 1], records[n], n)
    IN  after[Len(records)]

-----------------------------------------------------------------------------
(* Storing                                                                  *)

\* The row an offer becomes; the first seven fields and the time are unique.
Row(o) ==
    [event |-> o.event, player |-> NormalOf[o.player], book |-> KeyOf[o.book],
     market |-> o.market, side |-> o.side, line |-> o.line, odds |-> o.odds,
     captured |-> o.captured]

\* Mutant: prices on different lines are set against each other.
SameGroup_AnyLine(r, s) ==
    <<r.event, r.player, r.book, r.market>> = <<s.event, s.player, s.book, s.market>>

SameGroup(r, s) ==
    <<r.event, r.player, r.book, r.market, r.line>> = <<s.event, s.player, s.book, s.market, s.line>>

\* normalize_two_way_market: two prices share the margin in proportion.
FairProbability(price, group, n) ==
    IF Cardinality(group) = 2
    THEN LET other == CHOOSE m \in group \ {n} : TRUE
         IN  <<price[n], price[n] + price[other]>>
    ELSE None

\* What persist_offers adds, or an empty set when it raises: a name of which
\* nothing is left, or a row that is there already, loses the whole batch.  A row
\* without a line is never the same as another.
Persisted(offers) ==
    LET at == DOMAIN offers
        row == [n \in at |-> Row(offers[n])]
        price == [n \in at |-> Implied[offers[n].odds]]
        Group(n) == {m \in at : SameGroup(row[n], row[m])}
        Repeats(n) == /\ row[n].line # None
                      /\ \/ \E m \in at \ {n} : row[m] = row[n]
                         \/ \E l \in lines : l.row = row[n]
    IN  IF \E n \in at : row[n].player = None \/ Repeats(n) THEN {}
        ELSE {[row |-> row[n], batch |-> handled + 1, place |-> n,
               fair |-> FairProbability(price, Group(n), n)] : n \in at}

Handle(records) ==
    /\ handled < MaxPayloads
    /\ lines' = lines \cup Persisted(Validate(records).offers)
    /\ payload' = records
    /\ handled' = handled + 1

Init ==
    /\ lines = {}
    /\ payload = <<>>
    /\ handled = 0

Next == \E records \in Payloads : Handle(records)

Spec == Init /\ [][Next]_vars

-----------------------------------------------------------------------------
(* Properties                                                               *)

\* Validation, record by record and without its state: a record is dropped for
\* a defect of its own, or because an earlier one without a defect is the same
\* contract; names vary when the latest earlier record of the same name is spelt
\* differently; and nothing else is flagged, reordered or lost.
ValidationAsDocumented ==
    LET v == Validate(payload)
        sound == {n \in DOMAIN payload : Defect(payload[n]) = None}
        Earlier(n) == {m \in sound : m < n /\ NormalOf[payload[m].player] = NormalOf[payload[n].player]}
        repeated == {n \in sound : \E m \in Earlier(n) : Contract(payload[m]) = Contract(payload[n])}
        varied == {n \in sound : Earlier(n) # {}
                                 /\ payload[Max(Earlier(n))].player # payload[n].player}
        kept == sound \ repeated
    IN  /\ \E place \in [DOMAIN v.offers -> kept] :
              /\ \A n \in kept : \E i \in DOMAIN place : place[i] = n
              /\ \A i, j \in DOMAIN place : i < j => place[i] < place[j]
              /\ \A i \in DOMAIN place : v.offers[i] = payload[place[i]]
        /\ ToSet(v.flags) =
              {Flag(Defect(payload[n]), n) : n \in DOMAIN payload \ sound}
              \cup {Flag("STALE_EVENT", n) : n \in {m \in sound : payload[m].stale}}
              \cup {Flag("PLAYER_ALIAS_VARIATION", n) : n \in varied}
              \cup {Flag("DUPLICATE_CONTRACT", n) : n \in repeated}
        /\ IsInjective(v.flags)

\* A fair probability rests on two prices one book gave in one batch for one
\* player, event, market and line, both of which have it, and the two add up to
\* one: no margin is left and none is taken from another contract.
FairPricesRestOnPairs ==
    \A l \in lines : l.fair # None =>
       \E k \in lines \ {l} :
          /\ k.batch = l.batch /\ k.row.event = l.row.event /\ k.row.player = l.row.player
          /\ k.row.book = l.row.book /\ k.row.market = l.row.market /\ k.row.line = l.row.line
          /\ k.fair # None /\ k.fair[2] = l.fair[2] /\ k.fair[1] + l.fair[1] = l.fair[2]

\* README: fair probability is only populated when there is a complete OVER/UNDER
\* or YES/NO pair.
\* Not so of this code: README, Divergences.
FairOnlyForOpposingSides ==
    \A l \in lines : l.fair # None =>
       \E k \in lines : k.batch = l.batch /\ SameGroup(k.row, l.row)
                        /\ k.row.side = Opposite[l.row.side]
=============================================================================
