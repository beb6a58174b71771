---------------------------- MODULE MCOrderAudit ----------------------------
(***************************************************************************)
(* OrderAudit for TLC.  A template of two audit stages; bob audits both,   *)
(* and al's name is part of alice's.                                       *)
(***************************************************************************)
EXTENDS OrderAudit, TLC

CONSTANTS w1, al, alice, bob, h1, h2, h3

MCWorkIds    == {w1}
MCUsers      == {al, alice, bob}
MCAuditor    == (1 :> {alice, bob}) @@ (2 :> {bob})
MCNameWithin == {<<u, u>> : u \in MCUsers} \union {<<al, alice>>}

Goroutines == Permutations({h1, h2, h3} \intersect Handlers)
=============================================================================
