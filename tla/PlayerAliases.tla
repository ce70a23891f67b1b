---------------------------- MODULE PlayerAliases ----------------------------
(***************************************************************************)
(* resolve_player, called for one offer after the other in the transaction  *)
(* of persist_offers, by sessions of several processes on one SQLite        *)
(* database: statements read what is committed and what the session wrote;  *)
(* its first write takes the write lock until it commits or rolls back.     *)
(***************************************************************************)
EXTENDS Naturals, Sequences, FiniteSets

CONSTANTS
    None,
    Sessions,         \* one per process: a process runs one persist_offers at a time
    Providers,
    Names, NormalOf,  \* raw names, and what they are normalised to; None if nothing
    MaxOffers         \* offers in one transaction

AliasAssumption ==
    /\ NormalOf \in [Names -> {NormalOf[n] : n \in Names}]
    /\ None \notin Sessions
    /\ MaxOffers \in Nat

Normals == {NormalOf[n] : n \in Names} \ {None}

\* A player is the row with its unique name; an alias names the player.
Aliases == [provider : Providers, name : Normals, player : Names]

VARIABLES
    players,     \* committed names of players
    aliases,     \* committed player_aliases
    writer,      \* the session that holds the write lock
    session      \* where each session is

vars == <<players, aliases, writer, session>>

\* names are still to be resolved; new and linked are the session's own writes;
\* player is what was read for the first name: a player to be linked, and whether
\* the row is to be inserted.
Frame(pc, provider, names, new, linked, player, insert) ==
    [pc |-> pc, provider |-> provider, names |-> names, new |-> new, linked |-> linked,
     player |-> player, insert |-> insert]

Idle == Frame("idle", None, <<>>, {}, {}, None, FALSE)

Init ==
    /\ players = {} /\ aliases = {}
    /\ writer = None
    /\ session = [s \in Sessions |-> Idle]

Goto(s, frame) == session' = [session EXCEPT ![s] = frame]

Begin(s, provider, names) ==
    /\ session[s].pc = "idle"
    /\ Goto(s, Frame("look", provider, names, {}, {}, None, FALSE))
    /\ UNCHANGED <<players, aliases, writer>>

\* What a statement of s sees.
PlayersSeen(s) == players \cup session[s].new
AliasesSeen(s) == aliases \cup session[s].linked

Wanted(s) == NormalOf[Head(session[s].names)]

Next1(s, f) == [f EXCEPT !.pc = IF Len(f.names) = 1 THEN "commit" ELSE "look",
                         !.names = Tail(@), !.player = None, !.insert = FALSE]

\* The provider's own alias decides.
Known(s) ==
    /\ session[s].pc = "look" /\ Wanted(s) # None
    /\ \E a \in AliasesSeen(s) : a.provider = session[s].provider /\ a.name = Wanted(s)
    /\ Goto(s, Next1(s, session[s]))
    /\ UNCHANGED <<players, aliases, writer>>

\* The players other providers know under the name.
Linked(s) == {a.player : a \in {b \in AliasesSeen(s) : b.name = Wanted(s)}}

\* Mutant: the name is only looked up among the provider's own aliases.
Look_OwnAliases(s) ==
    /\ session[s].pc = "look" /\ Wanted(s) # None
    /\ ~\E a \in AliasesSeen(s) : a.provider = session[s].provider /\ a.name = Wanted(s)
    /\ Goto(s, LET raw == Head(session[s].names)
               IN  [session[s] EXCEPT !.pc = "write", !.player = raw,
                                      !.insert = raw \notin PlayersSeen(s)])
    /\ UNCHANGED <<players, aliases, writer>>

\* Else the one player the other providers mean, else a player whose name
\* normalises to the same, else a new one.
Look(s) ==
    LET raw == Head(session[s].names)
        named == {p \in PlayersSeen(s) : NormalOf[p] = Wanted(s)}
    IN  /\ session[s].pc = "look" /\ Wanted(s) # None
        /\ ~\E a \in AliasesSeen(s) : a.provider = session[s].provider /\ a.name = Wanted(s)
        /\ Cardinality(Linked(s)) <= 1
        /\ \/ \E p \in Linked(s) :
                 Goto(s, [session[s] EXCEPT !.pc = "write", !.player = p])
           \/ /\ Linked(s) = {}
              /\ \E p \in named :
                    Goto(s, [session[s] EXCEPT !.pc = "write", !.player = p])
           \/ /\ Linked(s) = {} /\ named = {}
              /\ Goto(s, [session[s] EXCEPT !.pc = "write", !.player = raw, !.insert = TRUE])
        /\ UNCHANGED <<players, aliases, writer>>

\* The batch is rolled back: the session's writes are lost, its lock is free.
Rollback(s) ==
    /\ writer' = IF writer = s THEN None ELSE writer
    /\ Goto(s, Idle)
    /\ UNCHANGED <<players, aliases>>

\* AliasConflictError, or a name of which nothing is left.
Refuse(s) ==
    /\ session[s].pc = "look"
    /\ \/ Wanted(s) = None
       \/ /\ ~\E a \in AliasesSeen(s) : a.provider = session[s].provider /\ a.name = Wanted(s)
          /\ Cardinality(Linked(s)) > 1
    /\ Rollback(s)

Violates(s) ==
    LET f == session[s]
    IN  \/ f.insert /\ f.player \in PlayersSeen(s)
        \/ \E a \in AliasesSeen(s) : a.provider = f.provider /\ a.name = Wanted(s)

\* Player and alias are flushed, under the lock and unless a unique key objects.
Write(s) ==
    LET f == session[s]
    IN  /\ f.pc = "write" /\ writer \in {None, s} /\ ~Violates(s)
        /\ writer' = s
        /\ Goto(s, Next1(s, [f EXCEPT
               !.new = IF f.insert THEN @ \cup {f.player} ELSE @,
               !.linked = @ \cup {[provider |-> f.provider, name |-> Wanted(s),
                                   player |-> f.player]}]))
        /\ UNCHANGED <<players, aliases>>

\* A unique key objects, or the lock is not free before the timeout.
WriteFails(s) ==
    /\ session[s].pc = "write"
    /\ Violates(s) \/ writer \notin {None, s}
    /\ Rollback(s)

Commit(s) ==
    /\ session[s].pc = "commit"
    /\ players' = players \cup session[s].new
    /\ aliases' = aliases \cup session[s].linked
    /\ writer' = IF writer = s THEN None ELSE writer
    /\ Goto(s, Idle)

Next ==
    \E s \in Sessions :
       \/ \E p \in Providers : \E n \in 1 .. MaxOffers : \E names \in [1 .. n -> Names] :
             Begin(s, p, names)
       \/ Known(s) \/ Look(s) \/ Refuse(s) \/ Write(s) \/ WriteFails(s) \/ Commit(s)

Spec == Init /\ [][Next]_vars

-----------------------------------------------------------------------------
(* Properties                                                               *)

\* Whatever the sessions do to each other, an alias never leads nowhere or to a
\* player of another name, and one provider's name has one player.
AliasesAreSound ==
    /\ aliases \subseteq Aliases
    /\ \A a \in aliases : a.player \in players /\ NormalOf[a.player] = a.name
    /\ \A a, b \in aliases : a.provider = b.provider /\ a.name = b.name => a = b

\* Test: aliases across providers resolve to one canonical player.
OnePlayerPerName == \A a, b \in aliases : a.name = b.name => a.player = b.player

\* Only one session is under way, as in one process.
OneAtATime == \A s, t \in Sessions : session[s].pc # "idle" /\ session[t].pc # "idle" => s = t

\* Aliases lead to players of their name whatever sessions do to each other, and while
\* they follow one another a name has one player across providers.
AliasesResolve ==
    /\ []AliasesAreSound
    /\ []OneAtATime => []OnePlayerPerName
=============================================================================
