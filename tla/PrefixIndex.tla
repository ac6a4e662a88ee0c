---------------------------- MODULE PrefixIndex ----------------------------
(***************************************************************************)
(* What a package database promises its users: an index of the flake's     *)
(* prefixes in which each prefix is added by one indivisible step, however *)
(* many processes open the file and whatever becomes of them.              *)
(*                                                                         *)
(* There are no processes, locks, transactions or queues here.  Module     *)
(* Scrape has them, and implements this specification.                     *)
(***************************************************************************)
EXTENDS PkgDb

VARIABLE db

Init == db = EmptyDb

\* A row is added for the next attribute of a prefix on its way in.
Reserve(s) ==
    /\ s \notin db.rows
    /\ HasParentRow(db, s)
    /\ db' = AddAttrSet(db, s)

\* Everything the recursion finds under q is added, and q's subtree is marked.
Publish(q) ==
    /\ q \in db.rows \cap AttrSets
    /\ ~CompletedRow(db, q)
    /\ ~Fails(q)
    /\ db' = SetPrefixDone(Filled(db, q), q, TRUE)

\* q was completed after it was looked up: nothing is evaluated, but rows
\* that others added under q meanwhile are marked with it.
Reseal(q) ==
    /\ CompletedRow(db, q)
    /\ db' = SetPrefixDone(db, q, TRUE)

\* `--force' takes back what is known to be complete under q.
Retract(q) ==
    /\ q \in db.rows
    /\ db' = SetPrefixDone(db, q, FALSE)

Next == \/ \E s \in Paths : Reserve(s)
        \/ \E q \in Paths : Len(q) > 1 /\ (Publish(q) \/ Reseal(q) \/ Retract(q))

Spec == Init /\ [][Next]_db
-----------------------------------------------------------------------------
TypeOK == db \in Contents

\* The tree that readers join over is whole: see IsRooted in PkgDb.
RowsRooted == IsRooted(db)

\* A `done' mark is a set's own or its parent's: see MarksExplained in PkgDb.
DoneExplained == MarksExplained(db)

\* No reader sees a part of what a set holds: see NoneHalfFilled in PkgDb.
NothingHalfVisible == NoneHalfFilled(db)

\* A `<subtree>.<system>' prefix marked `done' is fully scraped: the answers
\* of search and of the resolver rest on it, they scrape no other prefixes.
SystemPrefixComplete ==
    \A s \in db.done : Len(s) = 2 => FullyScraped(db, s)

\* Nothing that was scraped is taken away, by `--force' or by a lost update.
NothingLost == [][db.rows \subseteq db'.rows /\ db.pkgs \subseteq db'.pkgs]_db
=============================================================================
