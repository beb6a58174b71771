---------------------------- MODULE MCPermission ----------------------------
(***************************************************************************)
(* Permission for TLC.  Names of sources are not uuids.                    *)
(***************************************************************************)
EXTENDS Permission

CONSTANTS u1, g1, g2, s1, name1

MCName == [s \in SourceIds |-> name1]
Tick(ws, qs) == [k \in Kinds |-> IF k = "query" THEN qs ELSE ws]
MCPermissionLists == {Tick({}, {}), Tick({s1}, {})}
\* One list names a group twice, which Policy does not prevent.
MCMemberships == {<<>>, <<g1>>, <<g1, g1, g2>>}
=============================================================================
