--------------------------- MODULE MCInstallation ---------------------------
(***************************************************************************)
(* Installation for TLC, with five of the sixteen tables, in the order of    *)
(* the code: those DataInit fills and the one whose column is moved.       *)
(***************************************************************************)
EXTENDS Installation

MCTables == <<"core_accounts", Config, "core_graineds", "core_auto_tasks", "core_role_groups">>

=============================================================================
