-------------------------- MODULE MCNotifications --------------------------
(***************************************************************************)
(* Notifications for TLC.  dan has no e-mail address.                      *)
(***************************************************************************)
EXTENDS Notifications, TLC

CONSTANTS al, bob, cat, dan, h1, h2

MCAuditor == <<{bob, cat}, {bob}, {dan}>>
Goroutines == Permutations({h1, h2})
=============================================================================
