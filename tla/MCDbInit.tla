------------------------------ MODULE MCDbInit ------------------------------
(* Instances of DbInit for TLC: two or three processes, two tables and two  *)
(* views, releases 1 to 3 of both schemas.                                  *)
EXTENDS DbInit, TLC

CONSTANTS p1, p2

V(t, v) == [tables |-> t, views |-> v]

(* One release, or an older and a newer one of the views or of the tables,  *)
(* at the same path.                                                        *)
MCDeployments ==
  { p1 :> V(2, 2) @@ p2 :> V(2, 2), p1 :> V(2, 2) @@ p2 :> V(2, 3),
    p1 :> V(2, 2) @@ p2 :> V(3, 2) }

MCOldFiles == {Absent} \cup {WholeOf(ver) : ver \in {V(1, 1), V(2, 1), V(2, 2), V(2, 3), V(3, 2)}}

(* One process, and a file made by a release with older tables. *)
MCOneRelease == {p1 :> V(2, 2)}
MCOutdated == {WholeOf(V(1, 1))}
=============================================================================
