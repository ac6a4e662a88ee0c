----------------------------- MODULE AttrTree -----------------------------
(***************************************************************************)
(* The tree of attribute sets a locked flake evaluates to, as `pkgdb`      *)
(* walks it.  The flake is locked, so the tree is constant.                *)
(*                                                                         *)
(* An attribute path (`flox::AttrPath`, a vector of strings) is a sequence *)
(* of names; the empty path is row 0, the parent of the top-level sets.    *)
(***************************************************************************)
EXTENDS Naturals, Sequences, SequencesExt

CONSTANTS
    Paths,          \* every attribute path that may get a row in `AttrSets'
    AttrSets,       \* the paths at which the flake has an attribute set
    Derivations,    \* pairs <<s, n>>: attribute n of set s is a derivation
    RecurseMarked,  \* the sets with `recurseForDerivations = true'
    Broken          \* the sets with an attribute whose evaluation throws

Root == << >>

\* The path of the set that holds s.
Parent(s) == Front(s)

(***************************************************************************)
(* Paths are built one attribute at a time, so a path's parent is a path,  *)
(* and the parent of an attribute set of the flake is one too.             *)
(***************************************************************************)
ASSUME PathsAssumption ==
    /\ Paths \subseteq Seq(STRING) \ {Root}
    /\ \A s \in Paths : Len(s) > 1 => Parent(s) \in Paths

ASSUME FlakeAssumption ==
    /\ AttrSets \subseteq Paths
    /\ \A s \in AttrSets : Len(s) > 1 => Parent(s) \in AttrSets
    /\ Derivations \subseteq AttrSets \X STRING
    /\ RecurseMarked \subseteq AttrSets
    /\ Broken \subseteq AttrSets
-----------------------------------------------------------------------------
\* `tryRecur' of scrape(): `packages' is the one subtree it does not descend.
TryRecur(s) == s[1] # "packages"

\* The condition on which scrape() pushes a child set on its todo queue.
Recursed(c) ==
    \/ c \in RecurseMarked
    \/ c[1] = "legacyPackages" /\ Last(c) = "darwin"

\* The child sets scrape() pushes when it processes the set t: what is a
\* derivation is added as one, and not recursed into.
Kids(t) == {c \in AttrSets : /\ TryRecur(t) /\ Parent(c) = t /\ Recursed(c)
                             /\ <<t, Last(c)>> \notin Derivations}

\* What scrape() passes to addPackage() when it processes one of the sets S.
DrvsOf(S) == {d \in Derivations : d[1] \in S}

\* Scraping t raises an EvalError that scrape() rethrows: those of the other
\* subtrees are swallowed, attribute by attribute.
Fails(t) == ~TryRecur(t) /\ t \in Broken
-----------------------------------------------------------------------------
\* A set of attribute sets that scrape() cannot leave by recursion.
Closed(S) == \A t \in S : Kids(t) \subseteq S

(***************************************************************************)
(* What scraping the prefix q has to visit: q and, transitively, the child *)
(* sets recursed into.  The least closed set that holds q.                 *)
(***************************************************************************)
Reach == [q \in AttrSets |->
            {s \in AttrSets : \A S \in SUBSET AttrSets :
                                q \in S /\ Closed(S) => s \in S}]
=============================================================================
