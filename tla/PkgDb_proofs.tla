---------------------------- MODULE PkgDb_proofs ----------------------------
(***************************************************************************)
(* Facts about attribute paths, about what a scrape reaches, and about the *)
(* operations on a database's contents: each keeps sound contents sound.   *)
(***************************************************************************)
EXTENDS PkgDb, SequenceTheorems, WellFoundedInduction, TLAPS

\* A set of numbers has a least one: the order of Nat is well-founded.
LEMMA LeastNatural ==
  ASSUME NEW T \in SUBSET Nat, T # {}
  PROVE  \E m \in T : \A n \in T : m <= n
<1> DEFINE R == OpToRel(<, Nat)
<1>1. PICK m \in T : \A n \in T : <<n, m>> \notin R
  <2>1. IsWellFoundedOn(R, Nat)
    BY NatLessThanWellFounded
  <2> HIDE DEF R
  <2>2. QED
    BY <2>1, WFMin
<1>2. ASSUME NEW n \in T PROVE m <= n
  <2>1. <<n, m>> \notin R
    BY <1>1
  <2>2. ~(n < m)
    BY <2>1 DEF OpToRel
  <2>3. QED
    BY <2>2
<1>3. QED
  BY <1>2

\* Induction, by the least number that is not in S.
LEMMA SetInduction ==
  ASSUME NEW S, 0 \in S, \A n \in Nat : n \in S => n + 1 \in S
  PROVE  Nat \subseteq S
<1> SUFFICES ASSUME Nat \ S # {} PROVE FALSE
  OBVIOUS
<1>1. PICK m \in Nat \ S : \A n \in Nat \ S : m <= n
  BY LeastNatural
<1>2. m - 1 \in Nat /\ m - 1 \notin S
  OBVIOUS
<1>3. QED
  BY <1>1, <1>2
-----------------------------------------------------------------------------

\* A parent is one attribute shorter, and the parents of the sets directly
\* below row 0 are no path.
LEMMA ParentLen ==
  ASSUME NEW s \in Paths
  PROVE  /\ Parent(s) \in Seq(STRING)
         /\ Len(Parent(s)) = Len(s) - 1
         /\ Len(s) >= 1
         /\ Len(s) = 1 => Parent(s) = Root
         /\ Len(s) > 1 => Parent(s) # Root
<1>1. s \in Seq(STRING) /\ s # << >>
  BY PathsAssumption DEF Root
<1>2. Len(s) \in Nat /\ Len(s) >= 1
  BY <1>1
<1>3. Parent(s) = SubSeq(s, 1, Len(s) - 1)
  BY DEF Parent, Front
<1>4. Parent(s) \in Seq(STRING) /\ Len(Parent(s)) = Len(s) - 1
  <2>1. CASE Len(s) = 1
    BY <1>3, <2>1
  <2>2. CASE Len(s) > 1
    BY <1>1, <1>2, <1>3, <2>2
  <2>3. QED
    BY <1>2, <2>1, <2>2
<1>5. QED
  BY <1>2, <1>4 DEF Root

LEMMA PrefixRefl ==
  ASSUME NEW q \in Seq(STRING)
  PROVE  IsPrefix(q, q)
BY DEF IsPrefix

\* Between a prefix and a path below it there is the path's parent.
LEMMA PrefixStep ==
  ASSUME NEW q \in Paths, NEW s \in Paths, IsPrefix(q, s), s # q
  PROVE  IsPrefix(q, Parent(s)) /\ Len(q) < Len(s)
<1>1. /\ q \in Seq(STRING) /\ s \in Seq(STRING)
      /\ Len(q) \in Nat /\ Len(s) \in Nat /\ Len(s) >= 1 /\ Len(q) <= Len(s)
      /\ SubSeq(q, 1, Len(q)) = SubSeq(s, 1, Len(q))
  BY PathsAssumption, ParentLen DEF IsPrefix
<1>2. \A i \in 1..Len(q) : q[i] = s[i]
  BY <1>1
<1>3. Len(q) < Len(s)
  <2>1. SUFFICES ASSUME Len(q) = Len(s) PROVE FALSE
    BY <1>1
  <2>2. QED
    BY <1>1, <1>2, <2>1
<1>4. /\ Parent(s) = SubSeq(s, 1, Len(s) - 1)
      /\ Len(Parent(s)) = Len(s) - 1
      /\ Parent(s) \in Seq(STRING)
  BY ParentLen DEF Parent, Front
<1>5. \A i \in 1..Len(q) : Parent(s)[i] = q[i]
  BY <1>1, <1>2, <1>3, <1>4
<1>6. SubSeq(Parent(s), 1, Len(q)) = SubSeq(q, 1, Len(q))
  BY <1>1, <1>3, <1>4, <1>5
<1>7. QED
  BY <1>1, <1>3, <1>4, <1>6 DEF IsPrefix

\* What is below a path's parent and longer is below the prefixes of the parent.
LEMMA PrefixChild ==
  ASSUME NEW q \in Paths, NEW s \in Paths, IsPrefix(q, Parent(s))
  PROVE  IsPrefix(q, s)
<1>1. /\ q \in Seq(STRING) /\ s \in Seq(STRING)
      /\ Parent(s) \in Seq(STRING)
      /\ Len(q) \in Nat /\ Len(s) \in Nat /\ Len(s) >= 1
      /\ Parent(s) = SubSeq(s, 1, Len(s) - 1)
      /\ Len(Parent(s)) = Len(s) - 1
      /\ Len(q) <= Len(Parent(s))
      /\ SubSeq(q, 1, Len(q)) = SubSeq(Parent(s), 1, Len(q))
  BY PathsAssumption, ParentLen DEF IsPrefix, Parent, Front
<1>2. \A i \in 1..Len(q) : q[i] = Parent(s)[i] /\ Parent(s)[i] = s[i]
  BY <1>1
<1>3. SubSeq(q, 1, Len(q)) = SubSeq(s, 1, Len(q))
  BY <1>1, <1>2
<1>4. QED
  BY <1>1, <1>3 DEF IsPrefix
-----------------------------------------------------------------------------
\* The recursion starts at the prefix itself.
LEMMA ReachSelf ==
  ASSUME NEW q \in AttrSets
  PROVE  q \in Reach[q] /\ Reach[q] \subseteq AttrSets
BY DEF Reach

\* It goes on wherever scrape() pushes a child set.
LEMMA ReachClosed ==
  ASSUME NEW q \in AttrSets
  PROVE  Closed(Reach[q])
<1> SUFFICES ASSUME NEW t \in Reach[q], NEW c \in Kids(t)
             PROVE  c \in Reach[q]
  BY DEF Closed
<1>1. c \in AttrSets
  BY DEF Kids
<1>2. ASSUME NEW S \in SUBSET AttrSets, q \in S, Closed(S)
      PROVE  c \in S
  BY <1>2 DEF Reach, Closed
<1>3. QED
  BY <1>1, <1>2 DEF Reach

\* It reaches nothing that a closed set around the prefix does not hold.
LEMMA ReachLeast ==
  ASSUME NEW q \in AttrSets, NEW S \in SUBSET AttrSets, q \in S, Closed(S)
  PROVE  Reach[q] \subseteq S
BY DEF Reach

LEMMA ReachTransitive ==
  ASSUME NEW q \in AttrSets, NEW s \in Reach[q]
  PROVE  Reach[s] \subseteq Reach[q]
<1>1. s \in AttrSets /\ Reach[q] \in SUBSET AttrSets /\ Closed(Reach[q])
  BY ReachSelf, ReachClosed
<1>2. QED
  BY <1>1, ReachLeast

\* What a set reaches is itself or is reached from one of the sets pushed.
LEMMA ReachStep ==
  ASSUME NEW t \in AttrSets, NEW s \in Reach[t]
  PROVE  s = t \/ \E c \in Kids(t) : s \in Reach[c]
<1> DEFINE S == {t} \cup UNION {Reach[c] : c \in Kids(t)}
<1>1. Kids(t) \subseteq AttrSets
  BY DEF Kids
<1>2. S \in SUBSET AttrSets
  BY <1>1, ReachSelf
<1>3. Closed(S)
  <2> SUFFICES ASSUME NEW x \in S, NEW y \in Kids(x)
               PROVE  y \in S
    BY DEF Closed
  <2>1. y \in AttrSets
    BY DEF Kids
  <2>2. CASE x = t
    BY <2>1, <2>2, ReachSelf
  <2>3. CASE \E c \in Kids(t) : x \in Reach[c]
    <3>1. PICK c \in Kids(t) : x \in Reach[c]
      BY <2>3
    <3>2. y \in Reach[c]
      BY <1>1, <3>1, ReachClosed DEF Closed
    <3>3. QED
      BY <3>2
  <2>4. QED
    BY <2>2, <2>3
<1>4. Reach[t] \subseteq S
  BY <1>2, <1>3, ReachLeast
<1>5. QED
  BY <1>4
-----------------------------------------------------------------------------
(***************************************************************************)
(* Operations only add rows and packages: what is fully scraped stays so.  *)
(***************************************************************************)
LEMMA FullyScrapedMonotone ==
  ASSUME NEW D, NEW E, NEW s,
         D.rows \subseteq E.rows, D.pkgs \subseteq E.pkgs, FullyScraped(D, s)
  PROVE  FullyScraped(E, s)
BY DEF FullyScraped

\* What setPrefixDone() does to each of the three tables.
LEMMA SetPrefixDoneEffect ==
  ASSUME NEW D \in Contents, NEW q, NEW b \in BOOLEAN
  PROVE  /\ SetPrefixDone(D, q, b) \in Contents
         /\ SetPrefixDone(D, q, b).rows = D.rows
         /\ SetPrefixDone(D, q, b).pkgs = D.pkgs
         /\ b => SetPrefixDone(D, q, b).done = D.done \cup SubtreeRows(D, q)
         /\ ~b => SetPrefixDone(D, q, b).done = D.done \ SubtreeRows(D, q)
BY DEF SetPrefixDone, Contents, SubtreeRows

\* What a whole scrape of q adds to each of them.
LEMMA FilledEffect ==
  ASSUME NEW D \in Contents, NEW q \in AttrSets
  PROVE  /\ Filled(D, q) \in Contents
         /\ Filled(D, q).rows = D.rows \cup Reach[q]
         /\ Filled(D, q).pkgs = D.pkgs \cup DrvsOf(Reach[q])
         /\ Filled(D, q).done = D.done
<1>1. /\ AttrSets \subseteq Paths
      /\ Reach[q] \subseteq AttrSets
      /\ DrvsOf(Reach[q]) \subseteq Derivations
  BY ReachSelf, FlakeAssumption DEF DrvsOf
<1>2. QED
  BY <1>1 DEF Filled, Contents

\* A row for the next attribute of a path.
LEMMA AddKeepsSound ==
  ASSUME NEW D, Sound(D), NEW s \in Paths, HasParentRow(D, s)
  PROVE  Sound(AddAttrSet(D, s))
<1> DEFINE E == AddAttrSet(D, s)
<1>1. /\ D \in Contents /\ E \in Contents
      /\ E.rows = D.rows \cup {s} /\ E.done = D.done /\ E.pkgs = D.pkgs
  BY DEF Sound, Contents, AddAttrSet
<1> HIDE DEF E
<1>2. IsRooted(E) /\ TopUnmarked(E)
  BY <1>1 DEF Sound, IsRooted, HasParentRow, TopUnmarked
<1>3. MarksExplained(E) /\ NoneHalfFilled(E)
  BY <1>1, FullyScrapedMonotone DEF Sound, MarksExplained, NoneHalfFilled
<1>4. QED
  BY <1>1, <1>2, <1>3 DEF Sound, E

\* Filling in all that a prefix reaches, which then is fully scraped.
LEMMA FillKeepsSound ==
  ASSUME NEW D, Sound(D), NEW q \in D.rows \cap AttrSets
  PROVE  Sound(Filled(D, q)) /\ FullyScraped(Filled(D, q), q)
<1> DEFINE E == Filled(D, q)
<1>1. /\ D \in Contents /\ E \in Contents
      /\ Reach[q] \subseteq AttrSets
      /\ E.rows = D.rows \cup Reach[q]
      /\ E.pkgs = D.pkgs \cup DrvsOf(Reach[q])
      /\ E.done = D.done
  BY FilledEffect, ReachSelf DEF Sound
<1> HIDE DEF E
<1>2. FullyScraped(E, q)
  BY <1>1 DEF FullyScraped
<1>3. ASSUME NEW s \in E.rows PROVE HasParentRow(E, s)
  <2>1. CASE s \in D.rows
    BY <1>1, <2>1 DEF Sound, IsRooted, HasParentRow
  <2>2. CASE s \in Reach[q] /\ s # q
    <3> DEFINE S == {x \in Reach[q] : x = q \/ Parent(x) \in Reach[q]}
    <3>1. S \in SUBSET AttrSets /\ q \in S
      BY <1>1, ReachSelf
    <3>2. Closed(S)
      BY <1>1, ReachClosed DEF Closed, Kids
    <3>3. s \in S
      BY <1>1, <2>2, <3>1, <3>2, ReachLeast
    <3>4. QED
      BY <1>1, <2>2, <3>3 DEF HasParentRow
  <2>3. QED
    BY <1>1, <1>3, <2>1, <2>2
<1>4. ASSUME NEW d \in E.pkgs
      PROVE  FullyScraped(E, d[1]) /\ d[1] \in E.rows
  <2>1. CASE d \in D.pkgs
    BY <1>1, <2>1, FullyScrapedMonotone DEF Sound, NoneHalfFilled, IsRooted
  <2>2. CASE d \in DrvsOf(Reach[q])
    <3>1. d \in Derivations /\ d[1] \in Reach[q]
      BY <2>2 DEF DrvsOf
    <3>2. d[1] \in AttrSets /\ Reach[d[1]] \subseteq Reach[q]
      BY <1>1, <3>1, ReachTransitive
    <3>3. DrvsOf(Reach[d[1]]) \subseteq DrvsOf(Reach[q])
      BY <3>2 DEF DrvsOf
    <3>4. QED
      BY <1>1, <3>1, <3>2, <3>3 DEF FullyScraped
  <2>3. QED
    BY <1>1, <1>4, <2>1, <2>2
<1>5. TopUnmarked(E) /\ MarksExplained(E) /\ E.done \subseteq E.rows
  BY <1>1, FullyScrapedMonotone DEF Sound, TopUnmarked, MarksExplained, IsRooted
<1>6. QED
  BY <1>1, <1>2, <1>3, <1>4, <1>5 DEF Sound, IsRooted, NoneHalfFilled, E

(***************************************************************************)
(* Marking a prefix that is fully scraped, or was marked before, explains  *)
(* every mark it makes: below q by the parent's, at q by q's contents.     *)
(***************************************************************************)
LEMMA MarkKeepsSound ==
  ASSUME NEW D, Sound(D), NEW q \in D.rows, Len(q) > 1,
         FullyScraped(D, q) \/ q \in D.done
  PROVE  Sound(SetPrefixDone(D, q, TRUE))
<1> DEFINE E == SetPrefixDone(D, q, TRUE)
<1>1. /\ D \in Contents /\ E \in Contents
      /\ E.rows = D.rows /\ E.pkgs = D.pkgs
      /\ E.done = D.done \cup SubtreeRows(D, q)
      /\ D.rows \subseteq Paths
      /\ q \in Paths
  BY SetPrefixDoneEffect DEF Contents, Sound
<1> HIDE DEF E
<1>2. ASSUME NEW s \in SubtreeRows(D, q)
      PROVE  /\ Len(s) > 1
             /\ s \in D.rows
             /\ s # q => Parent(s) \in SubtreeRows(D, q)
  <2>1. /\ s \in D.rows /\ s \in Paths /\ IsPrefix(q, s)
        /\ Parent(s) \in D.rows /\ Parent(s) \in Paths
    BY <1>1, <1>2 DEF SubtreeRows
  <2>2. Len(s) > 1
    BY <2>1, ParentLen, PathsAssumption
  <2>3. ASSUME s # q PROVE Parent(s) \in SubtreeRows(D, q)
    <3>1. IsPrefix(q, Parent(s)) /\ Len(q) < Len(s)
      BY <1>1, <2>1, <2>3, PrefixStep
    <3>2. Len(q) \in Nat /\ Len(s) \in Nat
      BY <1>1, <2>1, PathsAssumption
    <3>3. Len(Parent(s)) = Len(s) - 1
      BY <2>1, ParentLen
    <3>4. Len(Parent(s)) > 1
      BY <3>1, <3>2, <3>3
    <3>5. Parent(Parent(s)) # Root
      BY <2>1, <3>4, ParentLen
    <3>6. Parent(Parent(s)) \in D.rows
      BY <2>1, <3>5 DEF HasParentRow, Sound, IsRooted
    <3>7. QED
      BY <2>1, <3>1, <3>6 DEF SubtreeRows
  <2>4. QED
    BY <2>1, <2>2, <2>3
<1>3. ASSUME NEW s \in E.done
      PROVE  FullyScraped(E, s) \/ Parent(s) \in E.done
  <2>1. CASE s \in D.done
    BY <1>1, <2>1, FullyScrapedMonotone DEF Sound, MarksExplained
  <2>2. CASE s \in SubtreeRows(D, q) /\ s # q
    BY <1>1, <1>2, <2>2
  <2>3. CASE s = q
    BY <1>1, <2>3, FullyScrapedMonotone DEF Sound, MarksExplained
  <2>4. QED
    BY <1>1, <1>3, <2>1, <2>2, <2>3
<1>4. TopUnmarked(E) /\ E.done \subseteq E.rows
  BY <1>1, <1>2 DEF Sound, TopUnmarked, IsRooted
<1>5. /\ \A s \in E.rows : HasParentRow(E, s)
      /\ \A d \in E.pkgs : FullyScraped(E, d[1]) /\ d[1] \in E.rows
  BY <1>1 DEF Sound, IsRooted, NoneHalfFilled, HasParentRow, FullyScraped
<1>6. QED
  BY <1>1, <1>3, <1>4, <1>5 DEF Sound, IsRooted, MarksExplained, NoneHalfFilled, E

(***************************************************************************)
(* If a mark survives a clearing and owed itself to its parent's, then the *)
(* parent's survives: clearing the parent would have cleared the child.    *)
(***************************************************************************)
LEMMA ClearKeepsSound ==
  ASSUME NEW D, Sound(D), NEW q \in Paths
  PROVE  Sound(SetPrefixDone(D, q, FALSE))
<1> DEFINE E == SetPrefixDone(D, q, FALSE)
<1>1. /\ D \in Contents /\ E \in Contents
      /\ E.rows = D.rows /\ E.pkgs = D.pkgs
      /\ E.done = D.done \ SubtreeRows(D, q)
  BY SetPrefixDoneEffect DEF Sound
<1> HIDE DEF E
<1>2. ASSUME NEW s \in E.done
      PROVE  FullyScraped(E, s) \/ Parent(s) \in E.done
  <2>1. s \in D.done /\ s \in D.rows /\ s \in Paths
    BY <1>1, <1>2 DEF Sound, IsRooted, Contents
  <2>2. CASE FullyScraped(D, s)
    BY <1>1, <2>2, FullyScrapedMonotone
  <2>3. CASE Parent(s) \in D.done
    <3>1. Parent(s) \in D.rows
      BY <2>3 DEF Sound, IsRooted
    <3>2. ASSUME Parent(s) \in SubtreeRows(D, q) PROVE FALSE
      <4>1. IsPrefix(q, s)
        BY <2>1, <3>2, PrefixChild DEF SubtreeRows
      <4>2. s \in SubtreeRows(D, q)
        BY <2>1, <3>1, <4>1 DEF SubtreeRows
      <4>3. QED
        BY <1>1, <1>2, <4>2
    <3>3. QED
      BY <1>1, <2>3, <3>2
  <2>4. QED
    BY <2>1, <2>2, <2>3 DEF Sound, MarksExplained
<1>3. TopUnmarked(E) /\ E.done \subseteq E.rows
  BY <1>1 DEF Sound, TopUnmarked, IsRooted
<1>4. /\ \A s \in E.rows : HasParentRow(E, s)
      /\ \A d \in E.pkgs : FullyScraped(E, d[1]) /\ d[1] \in E.rows
  BY <1>1 DEF Sound, IsRooted, NoneHalfFilled, HasParentRow, FullyScraped
<1>5. QED
  BY <1>1, <1>2, <1>3, <1>4
  DEF Sound, IsRooted, MarksExplained, NoneHalfFilled, E

\* In sound contents a marked `<subtree>.<system>' prefix is fully scraped:
\* its parent is a top-level set, and those are never marked.
LEMMA SoundSystemPrefix ==
  ASSUME NEW D, Sound(D), NEW s \in D.done, Len(s) = 2
  PROVE  FullyScraped(D, s)
<1>1. s \in Paths
  BY DEF Sound, Contents
<1>2. Len(Parent(s)) = Len(s) - 1
  BY <1>1, ParentLen
<1>3. ~(Len(Parent(s)) > 1)
  BY <1>2
<1>4. Parent(s) \notin D.done
  BY <1>3 DEF Sound, TopUnmarked
<1>5. QED
  BY <1>4 DEF Sound, MarksExplained

LEMMA EmptyIsSound == Sound(EmptyDb)
BY DEF EmptyDb, Contents, Sound, IsRooted, TopUnmarked, MarksExplained, NoneHalfFilled
-----------------------------------------------------------------------------
LEMMA ScrapeTargetEffect ==
  ASSUME NEW D \in Contents, NEW t \in AttrSets
  PROVE  /\ ScrapeTarget(D, t) \in Contents
         /\ ScrapeTarget(D, t).rows = D.rows \cup Kids(t)
         /\ ScrapeTarget(D, t).pkgs = D.pkgs \cup DrvsOf({t})
         /\ ScrapeTarget(D, t).done = D.done
<1>1. Kids(t) \subseteq Paths /\ DrvsOf({t}) \subseteq Derivations
  BY FlakeAssumption DEF Kids, DrvsOf
<1>2. QED
  BY <1>1 DEF ScrapeTarget, AddPackages, Contents

(***************************************************************************)
(* The loop of scrapePrefix(), on the contents D it sees: what it started  *)
(* from, what each kind of turn keeps, and what it has when it ends.       *)
(***************************************************************************)
LEMMA UnderwayStarts ==
  ASSUME NEW F, NEW q \in F.rows \cap AttrSets
  PROVE  Underway(F, F, q, {q})
BY ReachSelf DEF Underway

\* A target that is done was done before this transaction, and not for the
\* sake of the set that pushed it: it is fully scraped, and can be skipped.
LEMMA UnderwaySkips ==
  ASSUME NEW F, NEW D, Sound(F), NEW q \in AttrSets, NEW T, Underway(F, D, q, T),
         NEW t \in T, t \in D.done, NEW U, T \ {t} \subseteq U, U \subseteq T
  PROVE  Underway(F, D, q, U)
<1>1. CASE q \in F.done
  BY <1>1 DEF Underway
<1>2. CASE q \notin F.done
  <2>1. t \in F.done /\ t # q /\ Parent(t) \notin F.done
    BY <1>2 DEF Underway
  <2>2. FullyScraped(F, t)
    BY <2>1 DEF Sound, MarksExplained
  <2>3. /\ t \in AttrSets
        /\ F.rows \subseteq D.rows
        /\ F.pkgs \subseteq D.pkgs
        /\ Reach[t] \subseteq F.rows
        /\ DrvsOf(Reach[t]) \subseteq F.pkgs
    BY <2>2 DEF FullyScraped, Underway
  <2>4. ASSUME NEW s \in Reach[t]
        PROVE  s \in D.rows /\ DrvsOf({s}) \subseteq D.pkgs
    BY <2>3 DEF DrvsOf
  <2>5. ASSUME NEW s \in Reach[q]
        PROVE  \/ \E u \in U : s \in Reach[u]
               \/ s \in D.rows /\ DrvsOf({s}) \subseteq D.pkgs
    BY <1>2, <2>4 DEF Underway
  <2>6. QED
    BY <1>2, <2>1, <2>5 DEF Underway
<1>3. QED
  BY <1>1, <1>2

\* A target that is not done is scraped, and its child sets take its place.
LEMMA UnderwayFills ==
  ASSUME NEW F, NEW D \in Contents, NEW q \in AttrSets, NEW T, Underway(F, D, q, T),
         NEW t \in T, t \notin D.done, ~Fails(t)
  PROVE  Underway(F, ScrapeTarget(D, t), q, (T \ {t}) \cup Kids(t))
<1> DEFINE E == ScrapeTarget(D, t)
<1> DEFINE U == (T \ {t}) \cup Kids(t)
<1>1. /\ t \in Reach[q] /\ t \in D.rows /\ t \in AttrSets
      /\ q \notin F.done
  BY ReachSelf DEF Underway
<1>2. /\ E.rows = D.rows \cup Kids(t)
      /\ E.pkgs = D.pkgs \cup DrvsOf({t})
      /\ E.done = D.done
  BY <1>1, ScrapeTargetEffect
<1> HIDE DEF E
<1>3. /\ Kids(t) \subseteq Reach[q]
      /\ DrvsOf({t}) \subseteq DrvsOf(Reach[q])
  BY <1>1, ReachClosed DEF Closed, DrvsOf
<1>4. \A c \in Kids(t) : Parent(c) \notin F.done
  BY DEF Kids, Underway
<1>5. /\ E.done = F.done
      /\ F.rows \subseteq E.rows /\ E.rows \subseteq F.rows \cup Reach[q]
      /\ F.pkgs \subseteq E.pkgs /\ E.pkgs \subseteq F.pkgs \cup DrvsOf(Reach[q])
      /\ U \subseteq Reach[q] \cap E.rows
  BY <1>2, <1>3 DEF Underway
<1>6. \A u \in U : u = q \/ Parent(u) \notin F.done
  BY <1>4 DEF Underway
<1>7. q \in U \/ ~Fails(q)
  BY <1>1 DEF Underway
<1>8. ASSUME NEW s \in Reach[q]
      PROVE  \/ \E u \in U : s \in Reach[u]
             \/ s \in E.rows /\ DrvsOf({s}) \subseteq E.pkgs
  <2>1. CASE \E u \in T \ {t} : s \in Reach[u]
    BY <2>1
  <2>2. CASE s \in Reach[t]
    BY <1>1, <1>2, <2>2, ReachStep
  <2>3. CASE s \in D.rows /\ DrvsOf({s}) \subseteq D.pkgs
    BY <1>2, <2>3
  <2>4. QED
    BY <1>1, <2>1, <2>2, <2>3 DEF Underway
<1>9. Underway(F, E, q, U)
  BY <1>1, <1>5, <1>6, <1>7, <1>8 DEF Underway
<1>10. QED
  BY <1>9 DEF E

LEMMA SameContents ==
  ASSUME NEW D \in Contents, NEW E \in Contents,
         D.rows = E.rows, D.done = E.done, D.pkgs = E.pkgs
  PROVE  D = E
BY DEF Contents

\* With no target left, the contents are what the transaction is to commit.
LEMMA UnderwayEnds ==
  ASSUME NEW F \in Contents, NEW D \in Contents, NEW q \in AttrSets,
         Underway(F, D, q, {})
  PROVE  SetPrefixDone(D, q, TRUE) = Result(F, q) /\ (q \in F.done \/ ~Fails(q))
<1>1. CASE q \in F.done
  <2>1. D = F
    BY <1>1 DEF Underway, Contents
  <2>2. QED
    BY <1>1, <2>1 DEF Result
<1>2. CASE q \notin F.done
  <2>1. /\ D.done = F.done
        /\ D.rows = F.rows \cup Reach[q]
    BY <1>2 DEF Underway
  <2>2. D.pkgs = F.pkgs \cup DrvsOf(Reach[q])
    BY <1>2 DEF Underway, DrvsOf
  <2>3. D = Filled(F, q)
    <3>1. /\ Filled(F, q) \in Contents
          /\ Filled(F, q).rows = D.rows
          /\ Filled(F, q).pkgs = D.pkgs
          /\ Filled(F, q).done = D.done
      BY <2>1, <2>2, FilledEffect
    <3>2. QED
      BY <3>1, SameContents
  <2>4. QED
    BY <1>2, <2>3 DEF Result, Underway
<1>3. QED
  BY <1>1, <1>2

\* One derivation of a target that is not done: its package is added.
LEMMA UnderwayAddsPackage ==
  ASSUME NEW F, NEW D \in Contents, NEW q \in AttrSets, NEW T,
         Underway(F, D, q, T), NEW d \in Derivations, d[1] \in T, d[1] \notin F.done
  PROVE  Underway(F, [D EXCEPT !.pkgs = @ \cup {d}], q, T)
<1> DEFINE E == [D EXCEPT !.pkgs = @ \cup {d}]
<1>1. /\ E.rows = D.rows /\ E.done = D.done /\ E.pkgs = D.pkgs \cup {d}
  BY DEF Contents
<1>2. d \in DrvsOf(Reach[q]) /\ q \notin F.done
  BY DEF Underway, DrvsOf
<1> HIDE DEF E
<1>3. Underway(F, E, q, T)
  BY <1>1, <1>2 DEF Underway
<1>4. QED
  BY <1>3 DEF E

\* One child set of it: it has a row, or gets one, and is pushed.
LEMMA UnderwayPushes ==
  ASSUME NEW F, NEW D \in Contents, NEW q \in AttrSets, NEW T,
         Underway(F, D, q, T), NEW t \in T, t \notin F.done, NEW c \in Kids(t)
  PROVE  Underway(F, AddAttrSet(D, c), q, T \cup {c})
<1> DEFINE E == AddAttrSet(D, c)
<1>1. /\ E.rows = D.rows \cup {c} /\ E.done = D.done /\ E.pkgs = D.pkgs
  BY DEF Contents, AddAttrSet
<1>2. c \in Reach[q] /\ q \notin F.done /\ Parent(c) = t
  BY ReachClosed DEF Underway, Closed, Kids
<1> HIDE DEF E
<1>3. Underway(F, E, q, T \cup {c})
  BY <1>1, <1>2 DEF Underway
<1>4. QED
  BY <1>3 DEF E

\* The target is popped, its derivations added and its child sets pushed.
LEMMA UnderwayPops ==
  ASSUME NEW F, NEW D \in Contents, NEW q \in AttrSets, NEW T,
         Underway(F, D, q, T), NEW t \in T, t \notin F.done, ~Fails(t),
         DrvsOf({t}) \subseteq D.pkgs,
         NEW U, T \ {t} \subseteq U, U \subseteq T, Kids(t) \subseteq U
  PROVE  Underway(F, D, q, U)
<1>1. t \in D.rows /\ t \in AttrSets /\ q \notin F.done
  BY ReachSelf DEF Underway
<1>2. ASSUME NEW s \in Reach[q]
      PROVE  \/ \E u \in U : s \in Reach[u]
             \/ s \in D.rows /\ DrvsOf({s}) \subseteq D.pkgs
  <2>1. CASE \E u \in T \ {t} : s \in Reach[u]
    BY <2>1
  <2>2. CASE s \in Reach[t]
    BY <1>1, <2>2, ReachStep
  <2>3. QED
    BY <1>1, <2>1, <2>2 DEF Underway
<1>3. QED
  BY <1>1, <1>2 DEF Underway
=============================================================================
