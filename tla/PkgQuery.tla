------------------------------ MODULE PkgQuery ------------------------------
(***************************************************************************)
(* Queries of a package database (src/pkgdb/pkg-query.cc): which rows of   *)
(* v_PackagesSearch a query keeps, and in which order.                     *)
(*                                                                         *)
(* The SQL text that init() puts together is modelled by what it selects;  *)
(* names, licenses and descriptions are values, and Likes says which       *)
(* pattern is a part of which of them, as LIKE would.                      *)
(***************************************************************************)
EXTENDS Versions

CONSTANTS
    AllSystems,     \* getDefaultSystems()
    ThisSystem,     \* nix::settings.thisSystem
    BadLicenses,    \* licenses with a quote in them
    Likes,          \* pairs of a pattern and a text it is a part of
    Alphabet        \* Alphabet[n]: the place of name n in the order of texts

ASSUME PkgQueryAssumption == ThisSystem \in AllSystems

Subtrees == {"legacyPackages", "packages"}

(* A row of v_PackagesSearch.  Its attrName and depth are functions of its *)
(* path; broken and unfree are None for a package that does not say.       *)
Row(system, subtree, relPath, pname, version) ==
    [system |-> system, subtree |-> subtree, relPath |-> relPath, pname |-> pname,
     version |-> version,
     semver |-> IF version = None THEN None ELSE CoerceSemver(version),
     license |-> None, broken |-> None, unfree |-> None, description |-> None]

AttrName(row) == Last(row.relPath)
Depth(row) == Len(row.relPath) + 2
Name(row) == <<row.pname, row.version>>

(* PkgQueryArgs after clear(). *)
NoArgs ==
    [name |-> None, pname |-> None, version |-> None, semver |-> None,
     partialMatch |-> None, partialNameMatch |-> None, pnameOrAttrName |-> None,
     licenses |-> None, allowBroken |-> FALSE, allowUnfree |-> TRUE,
     preferPreReleases |-> FALSE, subtrees |-> None, systems |-> <<ThisSystem>>,
     relPath |-> None]

(* PkgQueryArgs::check(). *)
ValidArgs(args) ==
    /\ args.name # None => args.pname = None /\ args.version = None /\ args.semver = None
    /\ args.version = None \/ args.semver = None
    /\ args.licenses # None => ToSet(args.licenses) \cap BadLicenses = {}
    /\ ToSet(args.systems) \subseteq AllSystems
    /\ args.partialMatch = None \/ args.partialNameMatch = None

(***************************************************************************)
(* initMatch().                                                            *)
(***************************************************************************)
Given(text) == text # None /\ text # ""

Pattern(args) == IF Given(args.partialNameMatch) THEN args.partialNameMatch
                 ELSE IF Given(args.partialMatch) THEN args.partialMatch ELSE None

Like(args, text) == <<Pattern(args), text>> \in Likes
Exact(args, text) == args.pnameOrAttrName = text

\* Neither kind of match looks at a row's whole `name'.
MatchesName(row, args) ==
    /\ Given(args.pnameOrAttrName) =>
           Exact(args, row.pname) \/ Exact(args, AttrName(row))
    /\ Pattern(args) # None =>
           \/ Like(args, row.pname) \/ Like(args, AttrName(row))
           \/ ~Given(args.partialNameMatch) /\ Like(args, row.description)

(* init(), and str(): the rows of the inner SELECT. *)
Selected(row, args) ==
    /\ MatchesName(row, args)
    /\ args.name # None => Name(row) = args.name
    /\ args.pname # None => row.pname = args.pname
    /\ IF args.version # None THEN row.version = args.version
       ELSE args.semver # None => row.semver # None
    /\ args.licenses # None /\ args.licenses # <<>> => row.license \in ToSet(args.licenses)
    /\ ~args.allowBroken => row.broken # TRUE
    /\ ~args.allowUnfree => row.unfree # TRUE
    /\ args.relPath # None => row.relPath = args.relPath
    /\ args.subtrees # None => row.subtree \in ToSet(args.subtrees)
    /\ row.system \in ToSet(args.systems)

(***************************************************************************)
(* initOrderBy().  A criterion compares two rows: negative if the first    *)
(* one comes first, zero if they are alike.  NULL is below every value.    *)
(***************************************************************************)
Asc(m, n) == m - n
Desc(m, n) == n - m
TextAsc(s, t) == IF LexLess(s, t) THEN -1 ELSE IF s = t THEN 0 ELSE 1
NullsLast(s, t) == IF (s = <<>>) # (t = <<>>) THEN Asc(Len(t), Len(s)) ELSE TextAsc(s, t)
DescNullsFirst(s, t) == IF (s = 0) # (t = 0) THEN Asc(s, t) ELSE Desc(s, t)
NameAsc(s, t) == Asc(Alphabet[s], Alphabet[t])

Truth(p) == IF p THEN 1 ELSE 0
\* subtreesRank, systemsRank: the place in the list, if there is a choice.
Rank(list, elem) == IF list = None \/ Len(list) < 2 THEN 0
                    ELSE Min({i \in 1..Len(list) : list[i] = elem})
\* brokenRank, unfreeRank.
FlagRank(flag) == IF flag = TRUE THEN 2 ELSE IF flag = FALSE THEN 0 ELSE 1

MatchRanks(args, row) ==
    LET some == Pattern(args) # None
        either == Given(args.pnameOrAttrName)
    IN  <<Truth(either /\ Exact(args, row.pname)),
          Truth(some /\ Pattern(args) = row.pname),
          Truth(either /\ Exact(args, AttrName(row))),
          Truth(some /\ Pattern(args) = AttrName(row)),
          -Depth(row),
          Truth(some /\ Like(args, row.pname)),
          Truth(some /\ Like(args, AttrName(row))),
          IF some /\ ~Given(args.partialNameMatch) /\ row.description = None THEN -1
          ELSE Truth(some /\ ~Given(args.partialNameMatch) /\ Like(args, row.description))>>

SemverOrder(args, x, y) ==
    LET parts == [i \in 1..3 |-> TextAsc(SemverPart(y.semver, i), SemverPart(x.semver, i))]
        tag == <<DescNullsFirst(PreTag(x.semver), PreTag(y.semver))>>
    IN  IF args.preferPreReleases THEN parts \o tag ELSE tag \o parts

OrderBy(args, x, y) ==
    [i \in 1..8 |-> Desc(MatchRanks(args, x)[i], MatchRanks(args, y)[i])]
      \o <<Asc(Rank(args.subtrees, x.subtree), Rank(args.subtrees, y.subtree)),
           Asc(Rank(args.systems, x.system), Rank(args.systems, y.system)),
           NameAsc(x.pname, y.pname),
           Asc(VersionType(x.version, x.semver), VersionType(y.version, y.semver))>>
      \o SemverOrder(args, x, y)
      \o <<TextAsc(VersionDate(y.version, y.semver), VersionDate(x.version, x.semver)),
           NullsLast(Spelled(x.version), Spelled(y.version)),
           Asc(FlagRank(x.broken), FlagRank(y.broken)),
           Asc(FlagRank(x.unfree), FlagRank(y.unfree)),
           NameAsc(AttrName(x), AttrName(y))>>

Before(args, x, y) ==
    LET order == OrderBy(args, x, y)
    IN  \E i \in DOMAIN order : order[i] < 0 /\ \A j \in 1..(i - 1) : order[j] = 0

(***************************************************************************)
(* execute(): what SQL selects and orders, then filtered by the range.     *)
(***************************************************************************)
AnyVersion(range) == range.kind \in {"empty", "star", "any"}

FilterSemvers(args, versions) ==
    IF args.semver = None \/ AnyVersion(args.semver) THEN versions
    ELSE SemverSat(args.semver, versions)

Execute(db, args) ==
    LET rows == {r \in db : Selected(r, args)}
        kept == FilterSemvers(args, {r.semver : r \in rows})
    IN  {r \in rows : r.semver \in kept}

\* The rows that execute() may list first: it leaves the order of rows that
\* are alike in every criterion to the database.
Firsts(db, args) ==
    LET rows == Execute(db, args)
    IN  {x \in rows : \A y \in rows : ~Before(args, y, x)}
=============================================================================
