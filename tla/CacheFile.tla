----------------------------- MODULE CacheFile -----------------------------
(***************************************************************************)
(* What the file of a flake's database promises to everyone who opens it:  *)
(* it is absent, or it is still being made, or it is whole and of some     *)
(* version.  It becomes whole once, by one step; its tables keep the       *)
(* version they were made with, its views only move to later versions; and *)
(* the only way back is that the whole file disappears.                    *)
(***************************************************************************)
EXTENDS Naturals

VARIABLES
  shown,     \* "absent", "partial" or "whole"
  tables,    \* the version of the tables of a whole file, else 0
  views      \* the version of the views of a whole file, else 0

cacheVars == <<shown, tables, views>>

Init ==
  \/ shown = "whole" /\ tables \in Nat /\ views \in Nat
  \/ shown = "absent" /\ tables = 0 /\ views = 0

(* Someone creates the file. *)
Make == shown = "absent" /\ shown' = "partial" /\ UNCHANGED <<tables, views>>

(* The last thing that makes a file a database is written. *)
Complete ==
  /\ shown = "partial"
  /\ shown' = "whole"
  /\ tables' \in Nat
  /\ views' \in Nat

(* The views of a whole file are replaced by later ones. *)
Upgrade ==
  /\ shown = "whole"
  /\ UNCHANGED <<shown, tables>>
  /\ views' \in Nat
  /\ views' > views

(* The file is deleted. *)
Discard == shown' = "absent" /\ tables' = 0 /\ views' = 0

Next == Make \/ Complete \/ Upgrade \/ Discard

Spec == Init /\ [][Next]_cacheVars
=============================================================================
