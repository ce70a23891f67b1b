------------------------------ MODULE Providers ------------------------------
(***************************************************************************)
(* What takes provider data in: the runs of IngestionService (the module    *)
(* extended), the validation and storing of a payload's offers, and the     *)
(* names of their players.  A run hands its offers to persist_offers in one *)
(* transaction, whose outcome is all it sees; what goes on inside it, and   *)
(* between the transactions of several processes, is each module's own.     *)
(***************************************************************************)
EXTENDS Ingestion

CONSTANTS Sessions, AliasProviders, Names, NormalOf, MaxOffers
CONSTANTS FoldOf, KeyOf, Blank, Binary, MaxLine, Implied, RecordLists, MaxPayloads

VARIABLES players, aliases, writer, session
VARIABLES prop_lines, payload, handled

Resolution == INSTANCE PlayerAliases WITH Providers <- AliasProviders

Offers == INSTANCE OfferStore WITH Payloads <- RecordLists, lines <- prop_lines

ASSUME ProvidersAssumption == Resolution!AliasAssumption /\ Offers!OffersAssumption

name_vars == <<players, aliases, writer, session>>
offer_vars == <<prop_lines, payload, handled>>

-----------------------------------------------------------------------------
(* Properties                                                               *)

\* An alias leads to a player of its name, and one provider's name to one player,
\* whatever sessions do to each other; while they follow one another, as in one
\* process, a name has one player across providers (resolve_player).
AliasesResolve == Resolution!AliasesResolve

\* Validation drops and flags what it should, and a fair probability rests on two
\* prices of one book, player, market and line (validate_provider_payload,
\* persist_offers).
StoredOffersAreSound == Offers!ValidationAsDocumented /\ Offers!FairPricesRestOnPairs
=============================================================================
