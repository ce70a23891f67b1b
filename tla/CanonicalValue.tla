---------------------------- MODULE CanonicalValue ----------------------------
(***************************************************************************)
(* The canonical form behind every digest of app/runtime: values are nested *)
(* maps and lists, as Python holds them (a map is its entries in insertion  *)
(* order), and canonical_json writes them with normalised text and sorted   *)
(* keys, so that what means the same is the same bytes.                     *)
(***************************************************************************)
EXTENDS Integers, Sequences, FiniteSets, SequencesExt

CONSTANTS
    Texts, NFC,       \* raw strings, and Unicode normalisation of them
    Before(_, _),     \* the order sort_keys puts normalised strings in
    Scalars,          \* null, booleans and integers
    Values            \* the values canonicalised

Text(t) == [kind |-> "text", text |-> t]
Scalar(x) == [kind |-> "scalar", scalar |-> x]
Float == [kind |-> "float"]
List(items) == [kind |-> "list", items |-> items]

\* A map: a sequence of <<raw key, value>> with no raw key twice.
Map(entries) == [kind |-> "map", entries |-> entries]

\* ExecutionRequestInvalid, ExecutionPlanInvalid.
Refused == [kind |-> "refused"]

NormalKeys(entries) == {NFC[entries[n][1]] : n \in DOMAIN entries}

\* Two keys differ as given and not once normalised.
KeysCollide(entries) == Cardinality(NormalKeys(entries)) # Len(entries)

KeyBefore(e, f) == Before(NFC[e[1]], NFC[f[1]])

RECURSIVE Canonical(_)

\* Mutant: a list is sorted as if its order meant nothing.
CanonicalList_Sorted(items) ==
    IF \E n \in DOMAIN items : items[n] = Refused THEN Refused
    ELSE List(SetToSeq({items[n] : n \in DOMAIN items}))

\* A list keeps its order; one refused item refuses it.
CanonicalList(items) ==
    IF \E n \in DOMAIN items : items[n] = Refused THEN Refused ELSE List(items)

\* A map is its entries sorted by normalised key; a refused entry or two keys
\* that meet refuse it.
CanonicalMap(entries) ==
    LET sorted == SortSeq(entries, KeyBefore)
        result == [n \in DOMAIN sorted |->
                     <<NFC[sorted[n][1]], Canonical(sorted[n][2])>>]
    IN  IF KeysCollide(entries) \/ \E n \in DOMAIN result : result[n][2] = Refused
        THEN Refused ELSE Map(result)

\* _immutable_value and _canonical_value.
Canonical(v) ==
    CASE v.kind = "text" -> Text(NFC[v.text])
      [] v.kind = "scalar" -> v
      [] v.kind = "float" -> Refused
      [] v.kind = "list" -> CanonicalList([n \in DOMAIN v.items |-> Canonical(v.items[n])])
      [] v.kind = "map" -> CanonicalMap(v.entries)

-----------------------------------------------------------------------------

VARIABLES
    value,     \* the value a caller gives, or Float while there is none
    content    \* its canonical form

vars == <<value, content>>

Init == value = Float /\ content = Refused

Canonicalise(v) ==
    /\ value = Float
    /\ value' = v
    /\ content' = Canonical(v)

Return ==
    /\ value # Float
    /\ value' = Float
    /\ content' = Refused

Next == (\E v \in Values \ {Float} : Canonicalise(v)) \/ Return

Spec == Init /\ [][Next]_vars

-----------------------------------------------------------------------------
(* What a value means                                                       *)

RECURSIVE Meaning(_)

\* A text is its normal form, a list the sequence of what its items mean, a map
\* the function from normalised keys to what they hold.
Meaning(v) ==
    CASE v.kind = "text" -> <<"text", NFC[v.text]>>
      [] v.kind = "scalar" -> <<"scalar", v.scalar>>
      [] v.kind = "list" -> <<"list", [n \in DOMAIN v.items |-> Meaning(v.items[n])]>>
      [] v.kind = "map" ->
         <<"map", [t \in NormalKeys(v.entries) |->
              Meaning(v.entries[CHOOSE n \in DOMAIN v.entries :
                                   NFC[v.entries[n][1]] = t][2])]>>

RECURSIVE HasMeaning(_)

\* No float anywhere, and no map that would hold two values for one key.
HasMeaning(v) ==
    CASE v.kind \in {"text", "scalar"} -> TRUE
      [] v.kind = "float" -> FALSE
      [] v.kind = "list" -> \A n \in DOMAIN v.items : HasMeaning(v.items[n])
      [] v.kind = "map" ->
         /\ \A n \in DOMAIN v.entries : HasMeaning(v.entries[n][2])
         /\ \A m, n \in DOMAIN v.entries :
               NFC[v.entries[m][1]] = NFC[v.entries[n][1]] => m = n

-----------------------------------------------------------------------------
(* Properties                                                               *)

\* A value is refused exactly when it means nothing: nothing is dropped or
\* merged on the way to the canonical form.
RefusedOnlyIfMeaningless == value # Float => (content = Refused <=> ~HasMeaning(value))

\* Two values have the same canonical content, and so the same digest and the
\* same identity, exactly when they mean the same.
SameContentSameMeaning ==
    content # Refused =>
       \A w \in Values : HasMeaning(w) =>
          (Canonical(w) = content <=> Meaning(w) = Meaning(value))

\* Reconstruction reads canonical content back and compares it with its own
\* canonical form: the canonical form is a fixed point.
ContentIsCanonical == content # Refused => Canonical(content) = content
=============================================================================
