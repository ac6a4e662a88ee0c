------------------------------ MODULE Versions ------------------------------
(***************************************************************************)
(* Version strings and version ranges (src/versions.cc), and how the views *)
(* of the database take them apart and order them (src/pkgdb/schemas.hh).  *)
(*                                                                         *)
(* A text is its parts: a modifier, up to three numbers, whether an `x' or *)
(* `*' follows them, and a pre-release tag.  Tags and words are numbered   *)
(* in the order of their texts; tag 0 is no tag.                           *)
(***************************************************************************)
EXTENDS Integers, SequencesExt

CONSTANTS
    None,       \* std::nullopt, and SQL's NULL
    Numbers,    \* what the parts of a version may be: below 100
    Tags,       \* pre-release tags and words, 0 among them
    CutTag      \* CutTag[t]: what is left of t before its first `x' or `X'

ASSUME VersionsAssumption ==
    /\ Numbers \subseteq 0..99
    /\ Tags \subseteq Nat /\ 0 \in Tags
    /\ CutTag \in [Tags -> Tags] /\ CutTag[0] = 0

Texts == [kind : {"dotted", "date", "word", "star", "any", "latest", "empty"},
          op : {"", "=", "^", "~", ">"}, nums : {s \in Seq(Numbers) : Len(s) <= 3},
          wild : BOOLEAN, tag : Tags]

Text(kind, op, nums, wild, tag) ==
    [kind |-> kind, op |-> op, nums |-> nums, wild |-> wild, tag |-> tag]
Dotted(op, nums, tag) == Text("dotted", op, nums, FALSE, tag)
EmptyText == Text("empty", "", <<>>, FALSE, 0)

IsSemver(t) ==
    t.kind = "dotted" /\ t.op = "" /\ ~t.wild /\ Len(t.nums) = 3
IsDate(t) == t.kind = "date" /\ t.op = ""

(* A version with parts missing gets zeros for them; a date is no version. *)
CoerceSemver(t) ==
    IF t.kind = "dotted" /\ t.op = "" /\ ~t.wild
    THEN [t EXCEPT !.nums = [i \in 1..3 |-> IF i <= Len(t.nums) THEN t.nums[i] ELSE 0]]
    ELSE None

IsSemverRange(t) == t.kind \in {"dotted", "date", "star", "any", "latest", "empty"}

(* cleanRange() cuts at every `x', those of a pre-release tag as well. *)
CleanRange(t) == [t EXCEPT !.wild = FALSE, !.tag = CutTag[t.tag]]

(***************************************************************************)
(* node-semver, with --include-prerelease and --loose.                     *)
(***************************************************************************)
\* A release is above each of its pre-releases.
TagRank(tag) == IF tag = 0 THEN 100 ELSE tag

LexLess(s, t) ==
    \E i \in 1..Len(t) : /\ \A j \in 1..(i - 1) : j <= Len(s) /\ s[j] = t[j]
                         /\ i > Len(s) \/ s[i] < t[i]

Precedes(v, w) == LexLess(Append(v.nums, TagRank(v.tag)), Append(w.nums, TagRank(w.tag)))

SamePrefix(v, nums) == \A i \in 1..Len(nums) : v.nums[i] = nums[i]

\* A bound that is not given to the last part is below its pre-releases too.
AtLeast(v, r) ==
    \/ SamePrefix(v, r.nums) /\ Len(r.nums) < 3
    \/ ~Precedes(v, CoerceSemver([r EXCEPT !.op = ""]))

Satisfies(v, r) ==
    /\ r.kind = "dotted"
    /\ CASE r.op = "^" ->
              /\ AtLeast(v, r)
              /\ \E i \in 1..Len(r.nums) :
                     /\ SamePrefix(v, SubSeq(r.nums, 1, i))
                     /\ r.nums[i] > 0 \/ i = Len(r.nums)
                     /\ \A j \in 1..(i - 1) : r.nums[j] = 0
         [] r.op = "~" ->
              AtLeast(v, r) /\ SamePrefix(v, SubSeq(r.nums, 1, IF Len(r.nums) = 1 THEN 1 ELSE 2))
         [] r.op = ">" ->
              IF Len(r.nums) < 3 THEN LexLess(r.nums, v.nums) /\ ~SamePrefix(v, r.nums)
              ELSE Precedes([r EXCEPT !.op = ""], v)
         [] OTHER ->
              IF Len(r.nums) < 3 THEN SamePrefix(v, r.nums)
              ELSE v.nums = r.nums /\ v.tag = r.tag

\* semverSat(): a range the program cannot read is satisfied by nothing.
SemverSat(r, versions) == {v \in versions : Satisfies(v, CleanRange(r))}

(***************************************************************************)
(* The views split a version at its dots and dash.  Their columns have no  *)
(* type, so that numbers are compared as the texts they are: digit by      *)
(* digit, 9 after 10.                                                      *)
(***************************************************************************)
Digits(n) == IF n < 10 THEN <<n>> ELSE <<n \div 10, n % 10>>

SemverPart(semver, i) == IF semver = None THEN <<>> ELSE Digits(semver.nums[i])
PreTag(semver) == IF semver = None THEN 0 ELSE semver.tag

VersionType(version, semver) ==
    IF version = None THEN 3
    ELSE IF semver # None THEN 0
    ELSE IF IsDate(version) THEN 1 ELSE 3
VersionDate(version, semver) ==
    IF VersionType(version, semver) = 1 THEN version.nums ELSE <<>>

\* A version as a text: a dash comes before a dot, a dot before a digit, a
\* digit before a letter.
Spelled(version) ==
    LET Part(i) == IF i > Len(version.nums) THEN <<>>
                   ELSE (IF i = 1 THEN <<>> ELSE <<-1>>) \o Digits(version.nums[i])
    IN  IF version = None THEN <<>>
        ELSE IF version.nums = <<>> THEN <<200 + version.tag>>
        ELSE Part(1) \o Part(2) \o Part(3)
               \o (IF version.tag = 0 THEN <<>> ELSE <<-2, version.tag>>)
=============================================================================
