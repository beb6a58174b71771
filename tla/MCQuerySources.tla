--------------------------- MODULE MCQuerySources ---------------------------
(***************************************************************************)
(* QuerySources for TLC: access, and the sources of queries.               *)
(***************************************************************************)
EXTENDS QuerySources, TLC

Alike == Permutations(Users) \union Permutations(Handlers) \union Permutations(Sources)
=============================================================================
