------------------------------- MODULE PkgDb -------------------------------
(***************************************************************************)
(* The contents of one package database and the operations of classes      *)
(* `PkgDb' and `PkgDbReadOnly' on it, each a function of the contents.      *)
(*                                                                         *)
(*   rows   the attribute paths with a row in `AttrSets'                   *)
(*   done   those whose `done' column is true                              *)
(*   pkgs   the rows of `Packages', by attribute set and name              *)
(*                                                                         *)
(* UNIQUE(parent, attrName) makes a path and its row id interchangeable,   *)
(* and no operation deletes a row of either table.                         *)
(***************************************************************************)
EXTENDS AttrTree

Contents == [rows : SUBSET Paths, done : SUBSET Paths, pkgs : SUBSET Derivations]

\* A database just created: the tables exist and are empty.
EmptyDb == [rows |-> {}, done |-> {}, pkgs |-> {}]

\* The set of the row's parent is in the table: the trigger IT_AttrSets.
HasParentRow(D, s) == Parent(s) = Root \/ Parent(s) \in D.rows

\* addOrGetAttrSetId() for the last attribute of s.
AddAttrSet(D, s) == [D EXCEPT !.rows = @ \cup {s}]

\* completedAttrSet( row_id ) and completedAttrSet( AttrPath ).
CompletedRow(D, s) == s \in D.done
CompletedPath(D, q) == \E a \in D.done : IsPrefix(a, q)

(***************************************************************************)
(* The rows setPrefixDone() updates: the subtree of q, joined with the     *)
(* parents' rows, which leaves a top-level set itself out.                 *)
(***************************************************************************)
SubtreeRows(D, q) == {s \in D.rows : IsPrefix(q, s) /\ Parent(s) \in D.rows}

\* Mutants: clearing the prefix's own row only; clearing every row.
SetPrefixDone_ClearsOne(D, q, b) ==
    [D EXCEPT !.done = IF b THEN @ \cup SubtreeRows(D, q) ELSE @ \ {q}]

SetPrefixDone_ClearsAll(D, q, b) ==
    [D EXCEPT !.done = IF b THEN @ \cup SubtreeRows(D, q) ELSE {}]

SetPrefixDone(D, q, b) ==
    [D EXCEPT !.done = IF b THEN @ \cup SubtreeRows(D, q)
                            ELSE @ \ SubtreeRows(D, q)]

\* addPackage() of each derivation of t: INSERT OR IGNORE, a row that is there
\* stays as it is.
AddPackages(D, t) == [D EXCEPT !.pkgs = @ \cup DrvsOf({t})]

\* scrape() of one target: its derivations are added, its child sets get rows.
ScrapeTarget(D, t) == [AddPackages(D, t) EXCEPT !.rows = @ \cup Kids(t)]

\* Everything the recursion from q finds, added to D.
Filled(D, q) == [D EXCEPT !.rows = @ \cup Reach[q],
                          !.pkgs = @ \cup DrvsOf(Reach[q])]
-----------------------------------------------------------------------------
(***************************************************************************)
(* The loop of scrapePrefix(), as its transaction sees the contents D: it   *)
(* began with F, the prefix is q, and T are the targets on the queue.  What *)
(* is left of the reach of q is what the queue reaches.  A child set was    *)
(* pushed because its parent was not done: if it is done itself, it is not  *)
(* for its parent's sake, and skipping it leaves nothing out.               *)
(***************************************************************************)
Underway(F, D, q, T) ==
    /\ D.done = F.done
    /\ F.rows \subseteq D.rows /\ D.rows \subseteq F.rows \cup Reach[q]
    /\ F.pkgs \subseteq D.pkgs /\ D.pkgs \subseteq F.pkgs \cup DrvsOf(Reach[q])
    /\ T \subseteq Reach[q] \cap D.rows
    /\ \A t \in T : t = q \/ Parent(t) \notin F.done
    /\ IF q \in F.done
         THEN D.rows = F.rows /\ D.pkgs = F.pkgs /\ T \subseteq {q}
         ELSE /\ q \in T \/ ~Fails(q)
              /\ \A s \in Reach[q] : \/ \E u \in T : s \in Reach[u]
                                     \/ s \in D.rows /\ DrvsOf({s}) \subseteq D.pkgs

\* What a transaction that empties its queue is to commit.
Result(F, q) ==
    SetPrefixDone(IF q \in F.done THEN F ELSE Filled(F, q), q, TRUE)
-----------------------------------------------------------------------------
(***************************************************************************)
(* What good contents are.                                                 *)
(***************************************************************************)

\* All that scraping the set s can find is in the database.
FullyScraped(D, s) ==
    /\ s \in AttrSets
    /\ Reach[s] \subseteq D.rows
    /\ DrvsOf(Reach[s]) \subseteq D.pkgs

\* Rows form a tree: no row without the row of the set that holds it, and no
\* package or `done' mark without a row (readers rebuild paths by joining
\* Packages with AttrSets up to row 0, and drop what does not join).
IsRooted(D) ==
    /\ \A s \in D.rows : HasParentRow(D, s)
    /\ D.done \subseteq D.rows
    /\ \A d \in D.pkgs : d[1] \in D.rows

\* A set marked `done' is fully scraped, or owes the mark to the set above it.
MarksExplained(D) ==
    \A s \in D.done : FullyScraped(D, s) \/ Parent(s) \in D.done

\* Top-level sets are never marked: prefixes have a subtree and a system.
TopUnmarked(D) == \A s \in D.done : Len(s) > 1

\* A package is there only with all the others that scraping its set, and the
\* sets recursed into below, can find.
NoneHalfFilled(D) == \A d \in D.pkgs : FullyScraped(D, d[1])

Sound(D) == /\ D \in Contents
            /\ IsRooted(D)
            /\ TopUnmarked(D)
            /\ MarksExplained(D)
            /\ NoneHalfFilled(D)
=============================================================================
