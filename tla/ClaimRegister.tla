---------------------------- MODULE ClaimRegister ----------------------------
(***************************************************************************)
(* What Work Claim promises about one planned work item: a register that is *)
(* opened for a generation, granted to one claimant under the next fence,   *)
(* and closed by its holder, or by anyone once the claim's time has run     *)
(* out, before it can be opened again.  Semantic time never runs backwards. *)
(***************************************************************************)
EXTENDS Naturals

CONSTANTS Lineages, Claimants, Times, TTL, None

VARIABLE register

\* releaser is who gave the last claim back, None if it is held or ran out.
Unopened == [generation |-> 0, open |-> FALSE, holder |-> None,
             releaser |-> None, fence |-> 0, until |-> 0, clock |-> 0]

Init == register = [l \in Lineages |-> Unopened]

Update(l, entry) == register' = [register EXCEPT ![l] = entry]

Open(l, t) ==
    LET reg == register[l]
    IN  /\ ~reg.open
        /\ t >= reg.clock
        /\ Update(l, [reg EXCEPT !.generation = @ + 1, !.open = TRUE,
                                 !.releaser = None, !.clock = t])

Grant(l, t, claimant) ==
    LET reg == register[l]
    IN  /\ reg.open
        /\ reg.holder = None
        /\ t >= reg.clock
        /\ Update(l, [reg EXCEPT !.holder = claimant, !.fence = @ + 1,
                                 !.until = t + TTL, !.clock = t])

Refuse(l, t) ==
    LET reg == register[l]
    IN  /\ reg.open
        /\ t >= reg.clock
        /\ Update(l, [reg EXCEPT !.clock = t])

Close(l, t, releaser) ==
    LET reg == register[l]
    IN  Update(l, [reg EXCEPT !.open = FALSE, !.holder = None,
                              !.releaser = releaser, !.until = 0, !.clock = t])

Release(l, t, claimant) ==
    /\ register[l].open
    /\ register[l].holder = claimant
    /\ t >= register[l].clock
    /\ Close(l, t, claimant)

Expire(l, t) ==
    /\ register[l].open
    /\ register[l].holder # None
    /\ t >= register[l].until
    /\ t >= register[l].clock
    /\ Close(l, t, None)

Next == \E l \in Lineages, t \in Times :
           \/ Open(l, t)
           \/ Refuse(l, t)
           \/ Expire(l, t)
           \/ \E claimant \in Claimants : \/ Grant(l, t, claimant)
                                          \/ Release(l, t, claimant)

Spec == Init /\ [][Next]_register
=============================================================================
