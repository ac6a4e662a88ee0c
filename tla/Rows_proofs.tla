---------------------------- MODULE Rows_proofs ----------------------------
(***************************************************************************)
(* Ids and paths name the same things, readers get what they asked for,    *)
(* committed ids keep their meaning, and the tables implement PrefixIndex: *)
(* for every flake, and for any number of scrapers and readers.            *)
(*                                                                         *)
(* The proof is in five parts.                                             *)
(*   - Paths, and what the tables make of them.  getAttrSetPath() ends, as *)
(*     ids grow downwards: by induction over ids (LeastNatural), the       *)
(*     recursive function AttrSetPaths exists and is a path for each row.  *)
(*   - What each operation on the tables does: to the tables, and to the   *)
(*     index that module PkgDb makes of them.                              *)
(*   - What a reader or a scraper relies on stays true as the file grows,  *)
(*     and what each of its statements makes of it (ReaderFits,            *)
(*     ScraperFits).  The turns of scrapePrefix() are those of Underway.   *)
(*   - Each action keeps RowsInv, lets the file only grow, and is a step   *)
(*     of the index or none (Keeps).                                       *)
(*   - The theorems.                                                       *)
(***************************************************************************)
EXTENDS Rows, PkgDb_proofs
-----------------------------------------------------------------------------
(***************************************************************************)
(* The algebra of paths.  What names are, and that paths are sequences of  *)
(* them, is of no interest elsewhere, and hidden from the provers.         *)
(***************************************************************************)
Name == STRING
Path == Seq(Name)
Below(s, n) == Append(s, n)
Then(s, t) == s \o t

\* The empty path is one.
LEMMA RootIsPath == Root \in Path
BY EmptySeq DEF Root, Path

\* One attribute more: a path whose parent and last attribute are known.
LEMMA BelowIsPath ==
  ASSUME NEW s \in Path, NEW n \in Name
  PROVE  /\ Below(s, n) \in Path /\ Below(s, n) # Root
         /\ Parent(Below(s, n)) = s /\ Last(Below(s, n)) = n
<1>1. Front(Append(s, n)) = s
  <2>1. Front(Append(s, n)) = SubSeq(Append(s, n), 1, Len(s))
    BY DEF Front, Path
  <2>2. QED
    BY <2>1 DEF Path
<1>2. Last(Append(s, n)) = n
  BY DEF Last, Path
<1>3. Append(s, n) \in Seq(Name) /\ Append(s, n) # << >>
  BY AppendProperties DEF Path
<1>4. QED
  BY <1>1, <1>2, <1>3 DEF Parent, Path, Below, Root

\* Such a path determines both.
LEMMA BelowInjective ==
  ASSUME NEW s \in Path, NEW t \in Path, NEW m \in Name, NEW n \in Name,
         Below(s, m) = Below(t, n)
  PROVE  s = t /\ m = n
BY AppendInjective DEF Path, Below

\* Concatenation, and the empty path in it.
LEMMA ThenIsPath ==
  ASSUME NEW s \in Path, NEW t \in Path
  PROVE  /\ Then(s, t) \in Path /\ Then(s, Root) = s /\ Then(Root, s) = s
         /\ Then(s, t) = Root => s = Root /\ t = Root
BY ConcatProperties, ConcatEmptySeq, ConcatEqualIffEmpty DEF Path, Then, Root

\* One name moves from what is left of a path to what is behind.
LEMMA OneNameOn ==
  ASSUME NEW s \in Path, NEW rest \in Path, rest # Root
  PROVE  /\ Head(rest) \in Name /\ Tail(rest) \in Path
         /\ Then(s, rest) = Then(Below(s, Head(rest)), Tail(rest))
<1>1. Head(rest) \in Name /\ Tail(rest) \in Seq(Name)
      /\ rest = <<Head(rest)>> \o Tail(rest)
  BY SequenceEmptyOrAppend DEF Path, Root
<1>2. <<Head(rest)>> \in Seq(Name)
  BY <1>1
<1>3. s \o rest = (s \o <<Head(rest)>>) \o Tail(rest)
  BY <1>1, <1>2, ConcatAssociative DEF Path
<1>4. QED
  BY <1>1, <1>3, AppendIsConcat DEF Path, Then, Below

\* It does not matter when the last attribute is added.
LEMMA ThenBelow ==
  ASSUME NEW s \in Path, NEW t \in Path, NEW n \in Name
  PROVE  Then(s, Below(t, n)) = Below(Then(s, t), n)
<1>1. <<n>> \in Seq(Name) /\ s \o t \in Seq(Name)
  BY ConcatProperties DEF Path
<1>2. QED
  BY <1>1, AppendIsConcat, ConcatAssociative DEF Path, Then, Below

\* A path that is not empty has a parent and a last attribute.
LEMMA PathSplits ==
  ASSUME NEW s \in Path, s # Root
  PROVE  \E t \in Path, n \in Name : s = Below(t, n)
BY SequenceEmptyOrAppend DEF Path, Root, Below
-----------------------------------------------------------------------------
SetRow == [up : Nat, name : Name, done : BOOLEAN]
PkgRow == [up : Nat, name : Name, text : {None} \cup Nat]

\* Ids grow downwards, so that a walk from child to parent ends.
IsTree(D) ==
    /\ D.sets \in Seq(SetRow)
    /\ \A i \in DOMAIN D.sets : D.sets[i].up \in 0..(i - 1)

\* The rows of a tree: ids from 1, each parent row 0 or a row before it.
LEMMA TreeRows ==
  ASSUME NEW D, IsTree(D)
  PROVE  /\ DOMAIN D.sets = 1..Len(D.sets) /\ Len(D.sets) \in Nat
         /\ \A i \in DOMAIN D.sets : /\ i \in Nat /\ i > 0
                                     /\ D.sets[i] \in SetRow
                                     /\ D.sets[i].up \in Nat /\ D.sets[i].up < i
                                     /\ D.sets[i].up \in {0} \cup DOMAIN D.sets
                                     /\ D.sets[i].name \in Name
<1>1. D.sets \in Seq(SetRow) /\ \A i \in DOMAIN D.sets : D.sets[i].up \in 0..(i - 1)
  BY DEF IsTree
<1> DEFINE s == D.sets
<1>2. s \in Seq(SetRow)
  BY <1>1
<1>3. \A i \in DOMAIN s : s[i].up \in 0..(i - 1)
  BY <1>1
<1> HIDE DEF s
<1>4. DOMAIN s = 1..Len(s) /\ Len(s) \in Nat /\ \A i \in 1..Len(s) : s[i] \in SetRow
  BY <1>2
<1>5. \A r \in SetRow : r.name \in Name
  BY DEF SetRow
<1>6. QED
  BY <1>3, <1>4, <1>5 DEF s

\* The recursion of AttrSetPaths has a solution: built row by row.
LEMMA PathsExist ==
  ASSUME NEW D, IsTree(D)
  PROVE  \E f : f = [i \in {0} \cup DOMAIN D.sets |->
                       IF i = 0 THEN Root
                       ELSE Append(f[D.sets[i].up], D.sets[i].name)]
<1> DEFINE up(i) == D.sets[i].up
<1> DEFINE name(i) == D.sets[i].name
<1> DEFINE N == Len(D.sets)
<1> DEFINE Upto(k, f) == f = [i \in 0..k |-> IF i = 0 THEN Root
                                            ELSE Append(f[up(i)], name(i))]
<1> DEFINE S == {k \in Nat : k <= N => \E f : Upto(k, f)}
<1>1. /\ DOMAIN D.sets = 1..N /\ N \in Nat
      /\ \A i \in 1..N : up(i) \in 0..(i - 1)
  BY TreeRows DEF IsTree
<1> HIDE DEF up, name, N
<1>2. 0 \in S
  <2> DEFINE f == [i \in 0..0 |-> Root]
  <2>1. Upto(0, f)
    OBVIOUS
  <2>2. QED
    BY <2>1
<1>3. ASSUME NEW k \in Nat, k \in S PROVE k + 1 \in S
  <2> SUFFICES ASSUME k + 1 <= N PROVE \E g : Upto(k + 1, g)
    OBVIOUS
  <2>1. PICK f : Upto(k, f)
    <3>1. k <= N
      BY <1>1
    <3> HIDE DEF Upto
    <3>2. QED
      BY <1>3, <3>1
  <2> DEFINE g == [i \in 0..(k + 1) |-> IF i = k + 1 THEN Append(f[up(i)], name(i))
                                                    ELSE f[i]]
  <2>2. ASSUME NEW i \in 0..(k + 1)
        PROVE  g[i] = IF i = 0 THEN Root ELSE Append(g[up(i)], name(i))
    <3>1. CASE i = 0
      BY <2>1, <3>1
    <3>2. CASE i \in 1..(k + 1)
      <4>1. up(i) \in 0..k
        BY <1>1, <3>2
      <4>2. g[up(i)] = f[up(i)]
        BY <4>1
      <4>3. CASE i = k + 1
        <5>1. g[i] = Append(f[up(i)], name(i)) /\ i # 0
          BY <4>3
        <5> HIDE DEF g
        <5>2. QED
          BY <4>2, <5>1
      <4>4. CASE i \in 1..k
        <5>1. g[i] = f[i] /\ i # 0 /\ i \in 0..k
          BY <4>4
        <5>2. f[i] = Append(f[up(i)], name(i))
          BY <2>1, <5>1
        <5> HIDE DEF g
        <5>3. QED
          BY <4>2, <5>1, <5>2
      <4>5. QED
        BY <3>2, <4>3, <4>4
    <3>3. QED
      BY <3>1, <3>2
  <2>3. Upto(k + 1, g)
    BY <2>2
  <2>4. QED
    BY <2>3
<1>4. N \in S
  <2> HIDE DEF S
  <2>1. QED
    BY <1>1, <1>2, <1>3, SetInduction
<1>5. PICK f : Upto(N, f)
  BY <1>1, <1>4
<1>6. {0} \cup DOMAIN D.sets = 0..N
  BY <1>1
<1>7. QED
  BY <1>5, <1>6 DEF up, name

\* So the recursive definition means what it says, ...
LEMMA PathsAreFunctions ==
  ASSUME NEW D, IsTree(D)
  PROVE  AttrSetPaths(D) = [i \in {0} \cup DOMAIN D.sets |->
                              IF i = 0 THEN Root
                              ELSE Append(AttrSetPaths(D)[D.sets[i].up], D.sets[i].name)]
<1> DEFINE IsPaths(f) == f = [i \in {0} \cup DOMAIN D.sets |->
                                IF i = 0 THEN Root
                                ELSE Append(f[D.sets[i].up], D.sets[i].name)]
<1>1. \E f : IsPaths(f)
  BY PathsExist
<1>2. AttrSetPaths(D) = CHOOSE f : IsPaths(f)
  BY DEF AttrSetPaths
<1>3. IsPaths(AttrSetPaths(D))
  <2> HIDE DEF IsPaths
  <2>1. QED
    BY <1>1, <1>2
<1>4. QED
  BY <1>3

\* ... row by row.
LEMMA PathsEquation ==
  ASSUME NEW D, IsTree(D)
  PROVE  /\ DOMAIN AttrSetPaths(D) = {0} \cup DOMAIN D.sets
         /\ AttrSetPaths(D)[0] = Root
         /\ \A i \in DOMAIN D.sets :
              AttrSetPaths(D)[i] = Below(AttrSetPaths(D)[D.sets[i].up], D.sets[i].name)
<1>1. \A i \in DOMAIN D.sets : i # 0
  BY TreeRows
<1>2. QED
  BY <1>1, PathsAreFunctions DEF Below

\* Each row has a path: by induction over ids.
LEMMA PathsAreSeqs ==
  ASSUME NEW D, IsTree(D)
  PROVE  \A i \in {0} \cup DOMAIN D.sets : AttrSetPaths(D)[i] \in Path
<1> DEFINE P == AttrSetPaths(D)
<1> DEFINE T == {i \in {0} \cup DOMAIN D.sets : P[i] \notin Path}
<1> SUFFICES ASSUME T # {} PROVE FALSE
  OBVIOUS
<1>1. T \subseteq Nat
  BY TreeRows
<1>2. PICK m \in T : \A n \in T : m <= n
  <2> HIDE DEF T
  <2>1. QED
    BY <1>1, LeastNatural
<1>3. P[0] \in Path
  BY PathsEquation, RootIsPath
<1>4. m \in DOMAIN D.sets /\ P[m] \notin Path
  BY <1>3
<1>5. P[m] = Below(P[D.sets[m].up], D.sets[m].name)
  BY <1>4, PathsEquation
<1>6. /\ D.sets[m].up \in {0} \cup DOMAIN D.sets /\ ~(m <= D.sets[m].up)
      /\ D.sets[m].name \in Name
  BY <1>4, TreeRows
<1> HIDE DEF P
<1>7. P[D.sets[m].up] \in Path
  BY <1>2, <1>6
<1>8. QED
  BY <1>4, <1>5, <1>6, <1>7, BelowIsPath

\* The parent row and the attrName column are those of the path.
LEMMA PathParts ==
  ASSUME NEW D, IsTree(D), NEW i \in DOMAIN D.sets
  PROVE  /\ AttrSetPaths(D)[i] # Root
         /\ Parent(AttrSetPaths(D)[i]) = AttrSetPaths(D)[D.sets[i].up]
         /\ Last(AttrSetPaths(D)[i]) = D.sets[i].name
<1>1. /\ D.sets[i].up \in {0} \cup DOMAIN D.sets
      /\ D.sets[i].name \in Name
  BY TreeRows
<1>2. AttrSetPaths(D)[D.sets[i].up] \in Path
  BY <1>1, PathsAreSeqs
<1>3. AttrSetPaths(D)[i] = Below(AttrSetPaths(D)[D.sets[i].up], D.sets[i].name)
  BY PathsEquation
<1>4. QED
  BY <1>1, <1>2, <1>3, BelowIsPath

\* Paths stay when rows are added or marked.
LEMMA PathsStay ==
  ASSUME NEW D, NEW E, IsTree(D), IsTree(E), SameSets(D.sets, E.sets)
  PROVE  \A i \in {0} \cup DOMAIN D.sets :
            i \in {0} \cup DOMAIN E.sets /\ AttrSetPaths(E)[i] = AttrSetPaths(D)[i]
<1> DEFINE P == AttrSetPaths(D)
<1> DEFINE Q == AttrSetPaths(E)
<1> DEFINE T == {i \in {0} \cup DOMAIN D.sets : Q[i] # P[i]}
<1>0. \A i \in {0} \cup DOMAIN D.sets : i \in {0} \cup DOMAIN E.sets
  BY DEF SameSets
<1> SUFFICES ASSUME T # {} PROVE FALSE
  BY <1>0
<1>1. T \subseteq Nat
  BY TreeRows
<1>2. PICK m \in T : \A n \in T : m <= n
  <2> HIDE DEF T
  <2>1. QED
    BY <1>1, LeastNatural
<1>3. P[0] = Q[0]
  BY PathsEquation
<1>4. m \in DOMAIN D.sets /\ P[m] # Q[m]
  BY <1>3
<1>5. m \in DOMAIN E.sets /\ D.sets[m].up = E.sets[m].up
      /\ D.sets[m].name = E.sets[m].name
  BY <1>4 DEF SameSets
<1>6. P[m] = Below(P[D.sets[m].up], D.sets[m].name)
  BY <1>4, PathsEquation
<1>7. Q[m] = Below(Q[E.sets[m].up], E.sets[m].name)
  BY <1>5, PathsEquation
<1>8. D.sets[m].up \in {0} \cup DOMAIN D.sets /\ ~(m <= D.sets[m].up)
  BY <1>4, TreeRows
<1> HIDE DEF P, Q
<1>9. Q[D.sets[m].up] = P[D.sets[m].up]
  BY <1>2, <1>8
<1>10. QED
  BY <1>4, <1>5, <1>6, <1>7, <1>9

\* A row whose path goes on to that of another has a child on the way there.
LEMMA ChildExists ==
  ASSUME NEW D, IsTree(D), IsInjective(AttrSetPaths(D)),
         NEW i \in {0} \cup DOMAIN D.sets, NEW j \in {0} \cup DOMAIN D.sets,
         NEW rest \in Path, rest # Root,
         AttrSetPaths(D)[j] = Then(AttrSetPaths(D)[i], rest)
  PROVE  SetIds(D, i, Head(rest)) # {}
<1> DEFINE P == AttrSetPaths(D)
<1> DEFINE n == Head(rest)
<1> DEFINE s == Below(P[i], n)
\* the rows whose paths go through the one we look for
<1> DEFINE T == {k \in {0} \cup DOMAIN D.sets : \E tail \in Path : P[k] = Then(s, tail)}
<1>1. T \subseteq Nat
  BY TreeRows
<1>2. /\ P[i] \in Path /\ n \in Name /\ s \in Path /\ s # Root
      /\ Tail(rest) \in Path /\ P[j] = Then(s, Tail(rest))
  <2>1. P[i] \in Path
    BY PathsAreSeqs
  <2>2. n \in Name /\ Tail(rest) \in Path /\ Then(P[i], rest) = Then(s, Tail(rest))
    BY <2>1, OneNameOn
  <2>3. s \in Path /\ s # Root
    BY <2>1, <2>2, BelowIsPath
  <2>4. QED
    BY <2>1, <2>2, <2>3
<1> HIDE DEF P, n, s
<1>3. PICK m \in T : \A k \in T : m <= k
  <2>1. j \in T
    BY <1>2
  <2> HIDE DEF T
  <2>2. QED
    BY <1>1, <2>1, LeastNatural
<1>4. PICK tail \in Path : P[m] = Then(s, tail)
  BY <1>3
<1>5. m \in DOMAIN D.sets
  <2>1. P[0] = Root
    BY PathsEquation DEF P
  <2>2. P[m] # Root
    BY <1>2, <1>4, ThenIsPath
  <2>3. QED
    BY <2>1, <2>2
<1> DEFINE u == D.sets[m].up
<1> DEFINE v == D.sets[m].name
<1>6. /\ u \in {0} \cup DOMAIN D.sets /\ ~(m <= u) /\ v \in Name
      /\ P[u] \in Path /\ P[m] = Below(P[u], v)
  <2>1. u \in {0} \cup DOMAIN D.sets /\ m \in Nat /\ u \in Nat /\ u < m /\ v \in Name
    BY <1>5, TreeRows
  <2>2. P[m] = Below(P[u], v) /\ P[u] \in Path
    BY <1>5, <2>1, PathsEquation, PathsAreSeqs DEF P
  <2>3. QED
    BY <2>1, <2>2
<1> HIDE DEF u, v
<1>7. CASE tail = Root
  <2>1. P[u] = P[i] /\ v = n
    <3>1. Below(P[u], v) = Below(P[i], n)
      BY <1>2, <1>4, <1>6, <1>7, ThenIsPath DEF s
    <3>2. QED
      BY <1>2, <1>6, <3>1, BelowInjective
  <2>2. u = i
    BY <1>6, <2>1, PathsEquation DEF IsInjective, P
  <2>3. QED
    BY <1>5, <2>1, <2>2 DEF SetIds, u, v, n
<1>8. CASE tail # Root
  <2>1. PICK t \in Path, x \in Name : tail = Below(t, x)
    BY <1>8, PathSplits
  <2>2. Below(P[u], v) = Below(Then(s, t), x) /\ Then(s, t) \in Path
    <3>1. Then(s, Below(t, x)) = Below(Then(s, t), x) /\ Then(s, t) \in Path
      BY <1>2, ThenBelow, ThenIsPath
    <3>2. QED
      BY <1>4, <1>6, <2>1, <3>1
  <2>3. P[u] = Then(s, t)
    BY <1>6, <2>1, <2>2, BelowInjective
  <2>4. u \in T
    BY <1>6, <2>3
  <2>5. QED
    BY <1>3, <1>6, <2>4
<1>9. QED
  BY <1>7, <1>8

-----------------------------------------------------------------------------
(***************************************************************************)
(* What the operations do to the tables.                                   *)
(***************************************************************************)

\* INSERT appends: the greatest id of a table of k rows is k.
LEMMA InsertEffect ==
  ASSUME NEW S, NEW table \in Seq(S), NEW row \in S
  PROVE  /\ Insert(table, row) \in Seq(S)
         /\ NewId(table) \in Nat /\ NewId(table) \notin DOMAIN table
         /\ DOMAIN Insert(table, row) = DOMAIN table \cup {NewId(table)}
         /\ Insert(table, row)[NewId(table)] = row
         /\ \A i \in DOMAIN table : i < NewId(table) /\ Insert(table, row)[i] = table[i]
<1> DEFINE k == Len(table)
<1>1. k \in Nat /\ DOMAIN table = 1..k /\ \A i \in 1..k : table[i] \in S
  OBVIOUS
<1> HIDE DEF k
<1>2. NewId(table) = k + 1
  <2> DEFINE T == {0} \cup DOMAIN table
  <2>1. k \in T /\ \A y \in T : k >= y
    BY <1>1
  <2>2. \A x \in T : (\A y \in T : x >= y) => x = k
    <3> SUFFICES ASSUME NEW x \in T, \A y \in T : x >= y PROVE x = k
      OBVIOUS
    <3>1. x >= k /\ k >= x /\ x \in Nat
      BY <1>1, <2>1
    <3>2. QED
      BY <1>1, <3>1
  <2> HIDE DEF T
  <2>3. (CHOOSE x \in T : \A y \in T : x >= y) = k
    BY <2>1, <2>2
  <2>4. QED
    BY <2>3 DEF Max, NewId, T
<1>3. DOMAIN Insert(table, row) = DOMAIN table \cup {k + 1}
  BY <1>2 DEF Insert
<1>4. \A i \in DOMAIN table : i < k + 1 /\ Insert(table, row)[i] = table[i]
  BY <1>1, <1>2 DEF Insert
<1>5. k + 1 \notin DOMAIN table /\ Insert(table, row)[k + 1] = row
  BY <1>1, <1>2 DEF Insert
<1>6. Insert(table, row) \in Seq(S)
  <2>1. Insert(table, row) \in [1..(k + 1) -> S]
    <3>1. DOMAIN table \cup {k + 1} = 1..(k + 1)
      BY <1>1
    <3>2. QED
      BY <1>1, <1>2, <3>1 DEF Insert
  <2>2. QED
    BY <1>1, <2>1
<1>7. QED
  BY <1>1, <1>2, <1>3, <1>4, <1>5, <1>6

\* What WellFormed says of the sets, and of one package.
SetsFit(D) ==
    LET path == AttrSetPaths(D) IN
    /\ \A i \in DOMAIN D.sets : D.sets[i].up \in 0..(i - 1)
    /\ \A i \in DOMAIN D.sets : path[i] \in Paths
    /\ IsInjective(path)

PkgFits(D, i) ==
    LET path == AttrSetPaths(D) IN
    /\ D.pkgs[i].up \in DOMAIN D.sets
    /\ PkgIds(D, D.pkgs[i].up, D.pkgs[i].name) = {i}
    /\ D.pkgs[i].text \in {None} \cup DOMAIN D.texts
    /\ <<path[D.pkgs[i].up], D.pkgs[i].name>> \in Derivations
    /\ PackageText(D, i) = Description[<<path[D.pkgs[i].up], D.pkgs[i].name>>]

GoodDb(D) == D \in Tables /\ WellFormed(D)

\* The tables by themselves.
LEMMA GoodTypes ==
  ASSUME NEW D, D \in Tables
  PROVE  /\ D = [sets |-> D.sets, pkgs |-> D.pkgs, texts |-> D.texts]
         /\ D.sets \in Seq(SetRow) /\ D.pkgs \in Seq(PkgRow) /\ D.texts \in Seq(Texts)
BY DEF Tables, SetRow, PkgRow, Name

\* What is good is a tree of paths with packages that fit it, ...
LEMMA GoodParts ==
  ASSUME NEW D, GoodDb(D)
  PROVE  /\ IsTree(D) /\ SetsFit(D) /\ IsInjective(AttrSetPaths(D))
         /\ \A i \in DOMAIN D.pkgs : PkgFits(D, i)
         /\ IsInjective(D.texts)
<1>1. IsTree(D)
  BY GoodTypes DEF GoodDb, WellFormed, IsTree
<1>2. QED
  BY <1>1 DEF GoodDb, WellFormed, SetsFit, PkgFits

\* ... and the other way round.
LEMMA GoodFromParts ==
  ASSUME NEW s \in Seq(SetRow), NEW p \in Seq(PkgRow), NEW t \in Seq(Texts),
         NEW D, D = [sets |-> s, pkgs |-> p, texts |-> t],
         SetsFit(D), \A i \in DOMAIN D.pkgs : PkgFits(D, i), IsInjective(D.texts)
  PROVE  GoodDb(D)
<1>1. D \in Tables
  BY DEF Tables, SetRow, PkgRow, Name
<1>2. \A i \in DOMAIN D.sets : D.sets[i].up # 0 => D.sets[i].up \in DOMAIN D.sets
  <2>1. IsTree(D)
    BY DEF IsTree, SetsFit
  <2>2. QED
    BY <2>1, TreeRows
<1>3. QED
  BY <1>1, <1>2 DEF GoodDb, WellFormed, SetsFit, PkgFits

\* The packages and texts that are there fit still if the sets have grown.
LEMMA PkgFitsStill ==
  ASSUME NEW D, NEW E, GoodDb(D), IsTree(E), Grows(D, E), D.pkgs = E.pkgs,
         NEW i \in DOMAIN D.pkgs
  PROVE  PkgFits(E, i)
<1>1. PkgFits(D, i)
  BY GoodParts
<1>2. /\ AttrSetPaths(E)[D.pkgs[i].up] = AttrSetPaths(D)[D.pkgs[i].up]
      /\ D.pkgs[i].up \in DOMAIN E.sets
  <2>1. D.pkgs[i].up \in DOMAIN D.sets /\ SameSets(D.sets, E.sets)
    BY <1>1 DEF PkgFits, Grows
  <2>2. IsTree(D)
    BY GoodParts
  <2>3. \A j \in {0} \cup DOMAIN D.sets :
           j \in {0} \cup DOMAIN E.sets /\ AttrSetPaths(E)[j] = AttrSetPaths(D)[j]
    BY <2>1, <2>2, PathsStay
  <2>4. QED
    BY <2>1, <2>3 DEF SameSets
<1>3. /\ D.pkgs[i].text \in {None} \cup DOMAIN E.texts
      /\ PackageText(E, i) = PackageText(D, i)
  BY <1>1 DEF PkgFits, PackageText, Grows, SameRows
<1>4. PkgIds(E, D.pkgs[i].up, D.pkgs[i].name) = PkgIds(D, D.pkgs[i].up, D.pkgs[i].name)
  BY DEF PkgIds
<1>5. QED
  BY <1>1, <1>2, <1>3, <1>4 DEF PkgFits

\* Growing is reflexive and transitive.
LEMMA GrowsReflexive == ASSUME NEW D PROVE Grows(D, D)
BY DEF Grows, SameSets, SameRows

LEMMA GrowsTransitive ==
  ASSUME NEW C, NEW D, NEW E, Grows(C, D), Grows(D, E)
  PROVE  Grows(C, E)
BY DEF Grows, SameSets, SameRows

\* Without a row of that name below the row, no row has that path.
LEMMA NoneOfTheName ==
  ASSUME NEW D, GoodDb(D), NEW up \in {0} \cup DOMAIN D.sets, NEW n \in Name,
         SetIds(D, up, n) = {}
  PROVE  \A j \in {0} \cup DOMAIN D.sets :
            AttrSetPaths(D)[j] # Below(AttrSetPaths(D)[up], n)
<1> DEFINE P == AttrSetPaths(D)
<1> SUFFICES ASSUME NEW j \in {0} \cup DOMAIN D.sets, P[j] = Below(P[up], n)
             PROVE  FALSE
  OBVIOUS
<1>0. IsTree(D) /\ IsInjective(P)
  BY GoodParts
<1>1. P[up] \in Path
  BY <1>0, PathsAreSeqs
<1>2. j \in DOMAIN D.sets
  <2>1. P[0] = Root /\ Below(P[up], n) # Root
    BY <1>0, <1>1, BelowIsPath, PathsEquation
  <2> HIDE DEF P
  <2>2. QED
    BY <2>1
<1> DEFINE u == D.sets[j].up
<1> DEFINE v == D.sets[j].name
<1>3. u \in {0} \cup DOMAIN D.sets /\ v \in Name
  BY <1>0, <1>2, TreeRows
<1>4. P[u] \in Path /\ P[j] = Below(P[u], v)
  BY <1>0, <1>2, <1>3, PathsAreSeqs, PathsEquation
<1> HIDE DEF P, u, v
<1>5. P[u] = P[up] /\ v = n
  <2>1. Below(P[u], v) = Below(P[up], n)
    BY <1>4
  <2>2. P[u] \in Path /\ P[up] \in Path /\ v \in Name /\ n \in Name
    BY <1>1, <1>3, <1>4
  <2>3. QED
    BY <2>1, <2>2, BelowInjective
<1>6. u = up
  BY <1>0, <1>3, <1>5, PathsEquation DEF IsInjective, P
<1>7. j \in SetIds(D, up, n)
  BY <1>2, <1>5, <1>6 DEF SetIds, u, v
<1>8. QED
  BY <1>7

\* A row of that name has that path.
LEMMA FoundByName ==
  ASSUME NEW D, GoodDb(D), NEW up, NEW n, NEW i \in SetIds(D, up, n)
  PROVE  i \in DOMAIN D.sets /\ AttrSetPaths(D)[i] = Below(AttrSetPaths(D)[up], n)
BY GoodParts, PathsEquation DEF SetIds

\* A new set below a row that has none of its name.
LEMMA AddSetEffect ==
  ASSUME NEW D, GoodDb(D), NEW up \in {0} \cup DOMAIN D.sets, NEW n \in Name,
         SetIds(D, up, n) = {}, Below(AttrSetPaths(D)[up], n) \in Paths
  PROVE  /\ GoodDb(AddSet(D, up, n)) /\ Grows(D, AddSet(D, up, n))
         /\ DOMAIN AddSet(D, up, n).sets = DOMAIN D.sets \cup {NewId(D.sets)}
         /\ NewId(D.sets) \notin DOMAIN D.sets
         /\ AttrSetPaths(AddSet(D, up, n))[NewId(D.sets)] = Below(AttrSetPaths(D)[up], n)
         /\ ~AddSet(D, up, n).sets[NewId(D.sets)].done
         /\ \A i \in DOMAIN D.sets : AddSet(D, up, n).sets[i] = D.sets[i]
         /\ AddSet(D, up, n).pkgs = D.pkgs
<1> DEFINE k == NewId(D.sets)
<1> DEFINE row == [up |-> up, name |-> n, done |-> FALSE]
<1> DEFINE t == Insert(D.sets, row)
<1> DEFINE E == AddSet(D, up, n)
<1> DEFINE P == AttrSetPaths(D)
<1> DEFINE Q == AttrSetPaths(E)
<1>1. /\ D = [sets |-> D.sets, pkgs |-> D.pkgs, texts |-> D.texts]
      /\ D.sets \in Seq(SetRow) /\ D.pkgs \in Seq(PkgRow) /\ D.texts \in Seq(Texts)
  BY GoodTypes DEF GoodDb
<1>2. IsTree(D) /\ SetsFit(D) /\ IsInjective(P)
  BY GoodParts
<1>3. row \in SetRow
  BY <1>2, TreeRows DEF SetRow
<1>4. E = [sets |-> t, pkgs |-> D.pkgs, texts |-> D.texts]
  BY <1>1 DEF AddSet
<1>5. row.up = up /\ row.name = n /\ ~row.done
  OBVIOUS
<1> HIDE DEF row, E
<1>6. /\ t \in Seq(SetRow) /\ k \in Nat /\ k \notin DOMAIN D.sets
      /\ DOMAIN t = DOMAIN D.sets \cup {k} /\ t[k] = row
      /\ \A i \in DOMAIN D.sets : i < k /\ t[i] = D.sets[i]
  <2>1. \A s \in Seq(SetRow), r \in SetRow :
          /\ Insert(s, r) \in Seq(SetRow)
          /\ NewId(s) \in Nat /\ NewId(s) \notin DOMAIN s
          /\ DOMAIN Insert(s, r) = DOMAIN s \cup {NewId(s)}
          /\ Insert(s, r)[NewId(s)] = r
          /\ \A i \in DOMAIN s : i < NewId(s) /\ Insert(s, r)[i] = s[i]
    BY InsertEffect
  <2>2. QED
    BY <1>1, <1>3, <2>1
<1> HIDE DEF t, k
<1>7. E.sets = t /\ E.pkgs = D.pkgs /\ E.texts = D.texts
  BY <1>4
<1>8. \A i \in DOMAIN t : t[i].up \in 0..(i - 1)
  <2>1. t[k].up \in 0..(k - 1)
    <3>1. \A i \in DOMAIN D.sets : i \in Nat
      BY <1>2, TreeRows
    <3>2. up = 0 \/ (up \in Nat /\ up < k)
      BY <1>6, <3>1
    <3>3. k # 0
      <4>1. \A i \in DOMAIN D.sets : i > 0
        BY <1>2, TreeRows
      <4>2. QED
        BY <1>1, <1>6
    <3>4. QED
      BY <1>5, <1>6, <3>2, <3>3
  <2>2. QED
    BY <1>2, <1>6, <2>1 DEF IsTree
<1>9. IsTree(E)
  BY <1>6, <1>7, <1>8 DEF IsTree
<1>10. Grows(D, E)
  BY <1>6, <1>7 DEF Grows, SameSets, SameRows
<1>11. \A i \in {0} \cup DOMAIN D.sets : Q[i] = P[i]
  BY <1>2, <1>9, <1>10, PathsStay DEF Grows
<1>12. Q[k] = Below(P[up], n) /\ DOMAIN Q = {0} \cup DOMAIN t
  <2>1. Q[k] = Below(Q[t[k].up], t[k].name)
    BY <1>6, <1>7, <1>9, PathsEquation
  <2>2. QED
    BY <1>5, <1>6, <1>7, <1>9, <1>11, <2>1, PathsEquation
<1>13. \A j \in {0} \cup DOMAIN D.sets : P[j] # Below(P[up], n)
  BY NoneOfTheName
<1>14. IsInjective(Q)
  <2>1. DOMAIN P = {0} \cup DOMAIN D.sets
    BY <1>2, PathsEquation
  <2> HIDE DEF P, Q
  <2>2. QED
    BY <1>2, <1>6, <1>11, <1>12, <1>13, <2>1 DEF IsInjective
<1>15. SetsFit(E)
  <2>1. \A i \in DOMAIN E.sets : Q[i] \in Paths
    BY <1>2, <1>6, <1>7, <1>11, <1>12 DEF SetsFit
  <2>2. QED
    BY <1>7, <1>8, <1>14, <2>1 DEF SetsFit
<1>16. \A i \in DOMAIN E.pkgs : PkgFits(E, i)
  BY <1>7, <1>9, <1>10, PkgFitsStill
<1>17. IsInjective(E.texts)
  BY <1>7, GoodParts
<1>18. GoodDb(E)
  BY <1>1, <1>4, <1>6, <1>15, <1>16, <1>17, GoodFromParts
<1>19. QED
  BY <1>5, <1>6, <1>7, <1>10, <1>12, <1>18 DEF E, k

\* Marking rows changes no id, parent or name.
LEMMA MarkEffect ==
  ASSUME NEW D, GoodDb(D), NEW q \in DOMAIN D.sets, NEW b \in BOOLEAN
  PROVE  /\ GoodDb(SetRowsDone(D, q, b)) /\ Grows(D, SetRowsDone(D, q, b))
         /\ SetRowsDone(D, q, b).pkgs = D.pkgs
         /\ DOMAIN SetRowsDone(D, q, b).sets = DOMAIN D.sets
         /\ AttrSetPaths(SetRowsDone(D, q, b)) = AttrSetPaths(D)
         /\ \A i \in DOMAIN D.sets :
              SetRowsDone(D, q, b).sets[i].done =
                IF D.sets[i].up # 0 /\ IsPrefix(AttrSetPaths(D)[q], AttrSetPaths(D)[i])
                THEN b ELSE D.sets[i].done
<1> DEFINE P == AttrSetPaths(D)
<1> DEFINE Under(i) == D.sets[i].up # 0 /\ IsPrefix(P[q], P[i])
<1> DEFINE t == [i \in DOMAIN D.sets |->
                   IF Under(i) THEN [D.sets[i] EXCEPT !.done = b] ELSE D.sets[i]]
<1> DEFINE E == SetRowsDone(D, q, b)
<1> DEFINE Q == AttrSetPaths(E)
<1>1. /\ D = [sets |-> D.sets, pkgs |-> D.pkgs, texts |-> D.texts]
      /\ D.sets \in Seq(SetRow) /\ D.pkgs \in Seq(PkgRow) /\ D.texts \in Seq(Texts)
  BY GoodTypes DEF GoodDb
<1>2. IsTree(D) /\ SetsFit(D) /\ IsInjective(P)
  BY GoodParts
<1>3. E = [sets |-> t, pkgs |-> D.pkgs, texts |-> D.texts]
  <2>1. D = [sets |-> D.sets, pkgs |-> D.pkgs, texts |-> D.texts]
    BY <1>1
  <2>2. QED
    BY <2>1 DEF SetRowsDone
<1> HIDE DEF Under
<1>4. ASSUME NEW i \in DOMAIN D.sets
      PROVE  /\ t[i] \in SetRow /\ t[i].up = D.sets[i].up /\ t[i].name = D.sets[i].name
             /\ t[i].done = IF Under(i) THEN b ELSE D.sets[i].done
  <2> DEFINE r == D.sets[i]
  <2>1. r \in SetRow
    BY <1>2, TreeRows
  <2>2. t[i] = IF Under(i) THEN [r EXCEPT !.done = b] ELSE r
    OBVIOUS
  <2> HIDE DEF r, t
  <2>3. /\ [r EXCEPT !.done = b] \in SetRow /\ [r EXCEPT !.done = b].up = r.up
        /\ [r EXCEPT !.done = b].name = r.name /\ [r EXCEPT !.done = b].done = b
    BY <2>1 DEF SetRow
  <2>4. QED
    BY <2>1, <2>2, <2>3 DEF r
<1>5. DOMAIN t = DOMAIN D.sets
  OBVIOUS
<1> HIDE DEF E, t
<1>6. E.sets = t /\ E.pkgs = D.pkgs /\ E.texts = D.texts
  BY <1>3
<1>7. t \in Seq(SetRow)
  <2>1. t \in [1..Len(D.sets) -> SetRow] /\ Len(D.sets) \in Nat
    <3>1. t = [i \in DOMAIN D.sets |-> t[i]]
      BY DEF t
    <3>2. DOMAIN D.sets = 1..Len(D.sets) /\ Len(D.sets) \in Nat
      BY <1>2, TreeRows
    <3>3. QED
      BY <1>4, <1>5, <3>1, <3>2
  <2>2. QED
    BY <2>1
<1>8. IsTree(E) /\ Grows(D, E)
  BY <1>2, <1>4, <1>5, <1>6, <1>7 DEF IsTree, Grows, SameSets, SameRows
<1>9. Q = P
  <2>1. DOMAIN Q = DOMAIN P
    BY <1>2, <1>5, <1>6, <1>8, PathsEquation
  <2>2. \A i \in DOMAIN P : Q[i] = P[i]
    <3>1. \A i \in {0} \cup DOMAIN D.sets : Q[i] = P[i]
      BY <1>2, <1>8, PathsStay DEF Grows
    <3>2. QED
      BY <1>2, <3>1, PathsEquation
  <2>3. P = [i \in DOMAIN P |-> P[i]] /\ Q = [i \in DOMAIN Q |-> Q[i]]
    BY <1>2, <1>8, PathsAreFunctions
  <2> HIDE DEF P, Q
  <2>4. QED
    BY <2>1, <2>2, <2>3
<1>10. SetsFit(E)
  BY <1>2, <1>4, <1>5, <1>6, <1>9 DEF SetsFit
<1>11. \A i \in DOMAIN E.pkgs : PkgFits(E, i)
  BY <1>6, <1>8, PkgFitsStill
<1>12. IsInjective(E.texts)
  BY <1>6, GoodParts
<1>13. GoodDb(E)
  BY <1>1, <1>3, <1>7, <1>10, <1>11, <1>12, GoodFromParts
<1>14. QED
  BY <1>4, <1>5, <1>6, <1>8, <1>9, <1>13 DEF E, Under

\* Paths depend on the sets alone.
LEMMA SamePaths ==
  ASSUME NEW D, NEW E, D.sets = E.sets
  PROVE  AttrSetPaths(D) = AttrSetPaths(E)
BY DEF AttrSetPaths

\* NULL, or the id of a row that has the text.
LEMMA AddTextEffect ==
  ASSUME NEW D, GoodDb(D), NEW d \in Derivations
  PROVE  LET E == AddText(D, Description[d])
             i == TextId(E, Description[d]) IN
         /\ GoodDb(E) /\ Grows(D, E) /\ E.sets = D.sets /\ E.pkgs = D.pkgs
         /\ i \in {None} \cup DOMAIN E.texts /\ i \in {None} \cup Nat
         /\ (IF i = None THEN None ELSE E.texts[i]) = Description[d]
<1> DEFINE x == Description[d]
<1> DEFINE E == AddText(D, x)
<1> DEFINE i == TextId(E, x)
<1> DEFINE t == Insert(D.texts, x)
<1>1. /\ D = [sets |-> D.sets, pkgs |-> D.pkgs, texts |-> D.texts]
      /\ D.sets \in Seq(SetRow) /\ D.pkgs \in Seq(PkgRow) /\ D.texts \in Seq(Texts)
  BY GoodTypes DEF GoodDb
<1>2. x \in Texts
  BY DEF Texts
<1> HIDE DEF x
<1> DEFINE k0 == NewId(D.texts)
<1>3. /\ t \in Seq(Texts) /\ k0 \in Nat /\ k0 \notin DOMAIN D.texts
      /\ DOMAIN t = DOMAIN D.texts \cup {k0} /\ t[k0] = x
      /\ \A k \in DOMAIN D.texts : k < k0 /\ t[k] = D.texts[k]
  <2>1. \A s \in Seq(Texts), r \in Texts :
          /\ Insert(s, r) \in Seq(Texts)
          /\ NewId(s) \in Nat /\ NewId(s) \notin DOMAIN s
          /\ DOMAIN Insert(s, r) = DOMAIN s \cup {NewId(s)}
          /\ Insert(s, r)[NewId(s)] = r
          /\ \A j \in DOMAIN s : j < NewId(s) /\ Insert(s, r)[j] = s[j]
    BY InsertEffect
  <2>2. QED
    BY <1>1, <1>2, <2>1
<1> HIDE DEF t, k0
<1>4. E = D \/ (TextIds(D, x) = {} /\ E = [sets |-> D.sets, pkgs |-> D.pkgs, texts |-> t])
  <2>1. E = IF x = None \/ TextIds(D, x) # {} THEN D ELSE [D EXCEPT !.texts = t]
    BY DEF AddText, t
  <2>2. [D EXCEPT !.texts = t] = [sets |-> D.sets, pkgs |-> D.pkgs, texts |-> t]
    BY <1>1
  <2>3. QED
    BY <2>1, <2>2
<1>5. GoodDb(E) /\ Grows(D, E) /\ E.sets = D.sets /\ E.pkgs = D.pkgs
  <2>1. CASE E = D
    BY <2>1, GrowsReflexive
  <2>2. CASE TextIds(D, x) = {} /\ E = [sets |-> D.sets, pkgs |-> D.pkgs, texts |-> t]
    <3> HIDE DEF E
    <3>1. E.sets = D.sets /\ E.pkgs = D.pkgs /\ E.texts = t
      BY <2>2
    <3>2. Grows(D, E)
      BY <1>3, <3>1 DEF Grows, SameSets, SameRows
    <3>3. AttrSetPaths(E) = AttrSetPaths(D)
      BY <3>1, SamePaths
    <3>4. SetsFit(E) /\ IsTree(E)
      BY <3>1, <3>3, GoodParts DEF SetsFit, IsTree
    <3>5. \A k \in DOMAIN E.pkgs : PkgFits(E, k)
      BY <3>1, <3>2, <3>4, PkgFitsStill
    <3>6. IsInjective(E.texts)
      <4>1. \A k \in DOMAIN D.texts : D.texts[k] # x
        BY <2>2 DEF TextIds
      <4>2. IsInjective(D.texts)
        BY GoodParts
      <4>3. QED
        BY <1>3, <3>1, <4>1, <4>2 DEF IsInjective
    <3>7. GoodDb(E)
      BY <1>1, <1>3, <2>2, <3>4, <3>5, <3>6, GoodFromParts
    <3>8. QED
      BY <3>1, <3>2, <3>7
  <2>3. QED
    BY <1>4, <2>1, <2>2
<1>6. CASE x = None
  BY <1>5, <1>6 DEF TextId, E, x
<1>7. CASE x # None
  <2>1. TextIds(E, x) # {}
    <3>1. CASE TextIds(D, x) # {}
      BY <3>1, <1>7 DEF AddText
    <3>2. CASE TextIds(D, x) = {}
      <4>1. E = [D EXCEPT !.texts = t]
        BY <1>7, <3>2 DEF AddText, t
      <4>2. E.texts = t
        BY <1>1, <4>1
      <4>3. QED
        BY <1>3, <4>2 DEF TextIds
    <3>3. QED
      BY <3>1, <3>2
  <2> HIDE DEF E
  <2>2. i \in TextIds(E, x)
    BY <1>7, <2>1 DEF TextId, The
  <2>3. E.texts \in Seq(Texts)
    BY <1>5, GoodTypes DEF GoodDb
  <2>4. i \in DOMAIN E.texts /\ E.texts[i] = x /\ i \in Nat
    BY <2>2, <2>3 DEF TextIds
  <2>5. i # None
    BY <2>4, RowsAssumption
  <2>6. QED
    BY <1>5, <2>4, <2>5 DEF E, x
<1>8. QED
  BY <1>6, <1>7

\* A derivation of a set that has a row gets a package, unless it has one.
LEMMA AddPackageEffect ==
  ASSUME NEW D, GoodDb(D), NEW d \in Derivations, NEW up \in DOMAIN D.sets,
         AttrSetPaths(D)[up] = d[1]
  PROVE  LET E == AddPackage(D, up, d) IN
         /\ GoodDb(E) /\ Grows(D, E) /\ E.sets = D.sets
         /\ \A k \in DOMAIN D.pkgs : k \in DOMAIN E.pkgs
         /\ \E k \in DOMAIN E.pkgs : E.pkgs[k].up = up /\ E.pkgs[k].name = d[2]
         /\ \A k \in DOMAIN E.pkgs \ DOMAIN D.pkgs :
              E.pkgs[k].up = up /\ E.pkgs[k].name = d[2]
<1> DEFINE C == AddText(D, Description[d])
<1> DEFINE i == TextId(C, Description[d])
<1> DEFINE n == d[2]
<1> DEFINE row == [up |-> up, name |-> n, text |-> i]
<1> DEFINE t == Insert(C.pkgs, row)
<1> DEFINE k0 == NewId(C.pkgs)
<1> DEFINE E == AddPackage(D, up, d)
<1>1. /\ GoodDb(C) /\ Grows(D, C) /\ C.sets = D.sets /\ C.pkgs = D.pkgs
      /\ i \in {None} \cup DOMAIN C.texts /\ i \in {None} \cup Nat
      /\ (IF i = None THEN None ELSE C.texts[i]) = Description[d]
  BY AddTextEffect
<1>2. d = <<d[1], n>> /\ n \in Name
  BY FlakeAssumption DEF Name
<1>3. IsTree(C) /\ SetsFit(C) /\ AttrSetPaths(C)[up] = d[1] /\ IsInjective(C.texts)
      /\ \A k \in DOMAIN C.pkgs : PkgFits(C, k)
  BY <1>1, SamePaths, GoodParts
<1>4. E = IF PkgIds(D, up, n) # {} THEN C ELSE [C EXCEPT !.pkgs = t]
  BY DEF AddPackage
<1> HIDE DEF C, i, n, E
<1>5. /\ C = [sets |-> C.sets, pkgs |-> C.pkgs, texts |-> C.texts]
      /\ C.sets \in Seq(SetRow) /\ C.pkgs \in Seq(PkgRow) /\ C.texts \in Seq(Texts)
  BY <1>1, GoodTypes DEF GoodDb
<1>6. row \in PkgRow
  <2>1. up \in Nat
    BY <1>1, <1>3, TreeRows
  <2>2. QED
    BY <1>1, <1>2, <2>1 DEF PkgRow
<1>7. row.up = up /\ row.name = n /\ row.text = i
  OBVIOUS
<1> HIDE DEF row
<1>8. /\ t \in Seq(PkgRow) /\ k0 \in Nat /\ k0 \notin DOMAIN C.pkgs
      /\ DOMAIN t = DOMAIN C.pkgs \cup {k0} /\ t[k0] = row
      /\ \A k \in DOMAIN C.pkgs : k < k0 /\ t[k] = C.pkgs[k]
  <2>1. \A s \in Seq(PkgRow), r \in PkgRow :
          /\ Insert(s, r) \in Seq(PkgRow)
          /\ NewId(s) \in Nat /\ NewId(s) \notin DOMAIN s
          /\ DOMAIN Insert(s, r) = DOMAIN s \cup {NewId(s)}
          /\ Insert(s, r)[NewId(s)] = r
          /\ \A j \in DOMAIN s : j < NewId(s) /\ Insert(s, r)[j] = s[j]
    BY InsertEffect
  <2>2. QED
    BY <1>5, <1>6, <2>1
<1> HIDE DEF t, k0
<1>9. CASE PkgIds(D, up, n) # {}
  <2>1. E = C
    BY <1>4, <1>9
  <2>2. \E k \in DOMAIN D.pkgs : D.pkgs[k].up = up /\ D.pkgs[k].name = n
    BY <1>9 DEF PkgIds
  <2>3. QED
    BY <1>1, <2>1, <2>2 DEF E, n
<1>10. CASE PkgIds(D, up, n) = {}
  <2>1. E = [sets |-> C.sets, pkgs |-> t, texts |-> C.texts]
    <3>1. E = [C EXCEPT !.pkgs = t]
      BY <1>4, <1>10
    <3>2. QED
      BY <1>5, <3>1
  <2>2. E.sets = C.sets /\ E.pkgs = t /\ E.texts = C.texts
    BY <2>1
  <2>3. AttrSetPaths(E) = AttrSetPaths(C)
    BY <2>2, SamePaths
  <2>4. SetsFit(E) /\ IsInjective(E.texts)
    BY <1>3, <2>2, <2>3 DEF SetsFit
  <2>5. \A k \in DOMAIN C.pkgs : k \in DOMAIN t /\ t[k] = C.pkgs[k]
    BY <1>8
  <2>6. \A k \in DOMAIN C.pkgs : ~(C.pkgs[k].up = up /\ C.pkgs[k].name = n)
    BY <1>1, <1>10 DEF PkgIds
  <2>7. ASSUME NEW k \in DOMAIN C.pkgs PROVE PkgFits(E, k)
    <3>1. PkgFits(C, k) /\ E.pkgs[k] = C.pkgs[k]
      BY <1>3, <2>2, <2>5
    <3>2. PkgIds(E, C.pkgs[k].up, C.pkgs[k].name) = PkgIds(C, C.pkgs[k].up, C.pkgs[k].name)
      BY <1>7, <1>8, <2>2, <2>6 DEF PkgIds
    <3>3. PackageText(E, k) = PackageText(C, k)
      BY <2>2, <3>1 DEF PackageText
    <3>4. QED
      BY <2>2, <2>3, <3>1, <3>2, <3>3 DEF PkgFits
  <2>8. PkgFits(E, k0)
    <3>1. E.pkgs[k0] = row
      BY <1>8, <2>2
    <3>2. PkgIds(E, up, n) = {k0}
      BY <1>7, <1>8, <2>2, <2>6 DEF PkgIds
    <3>3. PackageText(E, k0) = Description[d]
      BY <1>1, <1>7, <2>2, <3>1 DEF PackageText
    <3>4. QED
      BY <1>1, <1>2, <1>3, <1>7, <2>2, <2>3, <3>1, <3>2, <3>3 DEF PkgFits
  <2>9. \A k \in DOMAIN E.pkgs : PkgFits(E, k)
    BY <1>8, <2>2, <2>7, <2>8
  <2>10. GoodDb(E)
    BY <1>5, <1>8, <2>1, <2>4, <2>9, GoodFromParts
  <2>11. Grows(D, E)
    <3>1. Grows(C, E)
      BY <2>2, <2>5 DEF Grows, SameSets, SameRows
    <3>2. QED
      BY <1>1, <3>1, GrowsTransitive
  <2>12. QED
    BY <1>1, <1>7, <1>8, <2>2, <2>10, <2>11 DEF E, n
<1>11. QED
  BY <1>9, <1>10
-----------------------------------------------------------------------------
(***************************************************************************)
(* The same, on the index of paths.                                        *)
(***************************************************************************)

\* The tables hold no path that cannot have a row, and rows and paths match.
LEMMA IndexContents ==
  ASSUME NEW D, GoodDb(D)
  PROVE  /\ IndexOf(D) \in Contents
         /\ IndexOf(D).rows = {AttrSetPaths(D)[i] : i \in DOMAIN D.sets}
         /\ IndexOf(D).done = {AttrSetPaths(D)[i] : i \in {j \in DOMAIN D.sets : D.sets[j].done}}
         /\ IndexOf(D).pkgs = {<<AttrSetPaths(D)[D.pkgs[i].up], D.pkgs[i].name>> :
                                 i \in DOMAIN D.pkgs}
<1>1. SetsFit(D) /\ \A i \in DOMAIN D.pkgs : PkgFits(D, i)
  BY GoodParts
<1>2. QED
  BY <1>1 DEF IndexOf, Contents, SetsFit, PkgFits

\* The `done' column and the marks of the index agree.
LEMMA DoneByRow ==
  ASSUME NEW D, GoodDb(D), NEW i \in DOMAIN D.sets
  PROVE  D.sets[i].done <=> AttrSetPaths(D)[i] \in IndexOf(D).done
<1> DEFINE P == AttrSetPaths(D)
<1>1. IsInjective(P) /\ DOMAIN D.sets \subseteq DOMAIN P
  BY GoodParts, PathsEquation
<1>2. IndexOf(D).done = {P[j] : j \in {k \in DOMAIN D.sets : D.sets[k].done}}
  BY IndexContents
<1> HIDE DEF P
<1>3. \A j \in DOMAIN D.sets : P[j] = P[i] => j = i
  BY <1>1 DEF IsInjective
<1>4. QED
  BY <1>2, <1>3 DEF P

\* The path of a row below another.
LEMMA RowOfParent ==
  ASSUME NEW D, GoodDb(D), NEW i \in {0} \cup DOMAIN D.sets
  PROVE  AttrSetPaths(D)[i] = Root \/ AttrSetPaths(D)[i] \in IndexOf(D).rows
<1>1. AttrSetPaths(D)[0] = Root
  BY GoodParts, PathsEquation
<1>2. QED
  BY <1>1, IndexContents

\* A new row is AddAttrSet() of its path, which had none, below one that has.
LEMMA IndexOfAddSet ==
  ASSUME NEW D, GoodDb(D), NEW up \in {0} \cup DOMAIN D.sets, NEW n \in Name,
         SetIds(D, up, n) = {}, Below(AttrSetPaths(D)[up], n) \in Paths
  PROVE  /\ IndexOf(AddSet(D, up, n)) = AddAttrSet(IndexOf(D), Below(AttrSetPaths(D)[up], n))
         /\ Below(AttrSetPaths(D)[up], n) \notin IndexOf(D).rows
         /\ HasParentRow(IndexOf(D), Below(AttrSetPaths(D)[up], n))
<1> DEFINE P == AttrSetPaths(D)
<1> DEFINE s == Below(P[up], n)
<1> DEFINE E == AddSet(D, up, n)
<1> DEFINE k == NewId(D.sets)
<1> DEFINE Q == AttrSetPaths(E)
<1>1. /\ GoodDb(E) /\ Grows(D, E)
      /\ DOMAIN E.sets = DOMAIN D.sets \cup {k} /\ k \notin DOMAIN D.sets
      /\ Q[k] = s /\ ~E.sets[k].done
      /\ \A i \in DOMAIN D.sets : E.sets[i] = D.sets[i]
      /\ E.pkgs = D.pkgs
  BY AddSetEffect
<1>2. \A i \in DOMAIN D.sets : Q[i] = P[i]
  <2>1. IsTree(D) /\ IsTree(E) /\ SameSets(D.sets, E.sets)
    BY <1>1, GoodParts DEF Grows
  <2> HIDE DEF E
  <2>2. \A i \in {0} \cup DOMAIN D.sets : Q[i] = P[i]
    BY <2>1, PathsStay
  <2>3. QED
    BY <2>2
<1>3. /\ IndexOf(D) \in Contents /\ IndexOf(E) \in Contents
      /\ IndexOf(D).rows = {P[i] : i \in DOMAIN D.sets}
      /\ IndexOf(D).done = {P[i] : i \in {j \in DOMAIN D.sets : D.sets[j].done}}
      /\ IndexOf(D).pkgs = {<<P[D.pkgs[i].up], D.pkgs[i].name>> : i \in DOMAIN D.pkgs}
      /\ IndexOf(E).rows = {Q[i] : i \in DOMAIN E.sets}
      /\ IndexOf(E).done = {Q[i] : i \in {j \in DOMAIN E.sets : E.sets[j].done}}
      /\ IndexOf(E).pkgs = {<<Q[E.pkgs[i].up], E.pkgs[i].name>> : i \in DOMAIN E.pkgs}
  BY <1>1, IndexContents
<1>4. \A i \in DOMAIN D.pkgs : D.pkgs[i].up \in DOMAIN D.sets
  BY GoodParts DEF PkgFits
<1>5. s \notin IndexOf(D).rows
  <2>1. \A j \in {0} \cup DOMAIN D.sets : P[j] # s
    BY NoneOfTheName
  <2> HIDE DEF P, s
  <2>2. QED
    BY <1>3, <2>1
<1>6. HasParentRow(IndexOf(D), s)
  <2>1. P[up] \in Path
    BY GoodParts, PathsAreSeqs
  <2>2. Parent(s) = P[up]
    BY <2>1, BelowIsPath
  <2>3. QED
    BY <2>2, RowOfParent DEF HasParentRow
<1> HIDE DEF P, Q, E, k, s
<1>7. IndexOf(E).rows = IndexOf(D).rows \cup {s}
  BY <1>1, <1>2, <1>3
<1>8. IndexOf(E).done = IndexOf(D).done
  BY <1>1, <1>2, <1>3
<1>9. IndexOf(E).pkgs = IndexOf(D).pkgs
  BY <1>1, <1>2, <1>3, <1>4
<1>10. AddAttrSet(IndexOf(D), s) = IndexOf(E)
  BY <1>3, <1>7, <1>8, <1>9 DEF AddAttrSet, Contents
<1>11. QED
  BY <1>5, <1>6, <1>10 DEF P, s, E

\* A package is added to the index, or is there already.
LEMMA IndexOfAddPackage ==
  ASSUME NEW D, GoodDb(D), NEW d \in Derivations, NEW up \in DOMAIN D.sets,
         AttrSetPaths(D)[up] = d[1]
  PROVE  IndexOf(AddPackage(D, up, d)) = [IndexOf(D) EXCEPT !.pkgs = @ \cup {d}]
<1> DEFINE E == AddPackage(D, up, d)
<1> DEFINE P == AttrSetPaths(D)
<1> DEFINE pair(T, i) == <<P[T.pkgs[i].up], T.pkgs[i].name>>
<1>1. /\ GoodDb(E) /\ Grows(D, E) /\ E.sets = D.sets
      /\ \A k \in DOMAIN D.pkgs : k \in DOMAIN E.pkgs
      /\ \E k \in DOMAIN E.pkgs : E.pkgs[k].up = up /\ E.pkgs[k].name = d[2]
      /\ \A k \in DOMAIN E.pkgs \ DOMAIN D.pkgs :
           E.pkgs[k].up = up /\ E.pkgs[k].name = d[2]
  BY AddPackageEffect
<1>2. AttrSetPaths(E) = P
  BY <1>1, SamePaths
<1>3. /\ IndexOf(D) \in Contents /\ IndexOf(E) \in Contents
      /\ IndexOf(D).pkgs = {pair(D, i) : i \in DOMAIN D.pkgs}
      /\ IndexOf(E).pkgs = {pair(E, i) : i \in DOMAIN E.pkgs}
  BY <1>1, <1>2, IndexContents
<1>4. IndexOf(D).rows = IndexOf(E).rows /\ IndexOf(D).done = IndexOf(E).done
  BY <1>1, <1>2 DEF IndexOf
<1>5. d = <<P[up], d[2]>>
  BY FlakeAssumption
<1>6. \A k \in DOMAIN D.pkgs : D.pkgs[k] = E.pkgs[k]
  BY <1>1 DEF Grows, SameRows
<1> HIDE DEF E, P
<1>7. IndexOf(E).pkgs = IndexOf(D).pkgs \cup {d}
  BY <1>1, <1>3, <1>5, <1>6
<1>8. QED
  BY <1>3, <1>4, <1>7 DEF Contents, E

\* setPrefixDone() by row is that by path.
LEMMA IndexOfMark ==
  ASSUME NEW D, GoodDb(D), NEW q \in DOMAIN D.sets, NEW b \in BOOLEAN
  PROVE  IndexOf(SetRowsDone(D, q, b)) =
           SetPrefixDone(IndexOf(D), AttrSetPaths(D)[q], b)
<1> DEFINE P == AttrSetPaths(D)
<1> DEFINE E == SetRowsDone(D, q, b)
<1> DEFINE I == IndexOf(D)
<1> DEFINE Under(i) == D.sets[i].up # 0 /\ IsPrefix(P[q], P[i])
<1>1. /\ GoodDb(E) /\ E.pkgs = D.pkgs /\ DOMAIN E.sets = DOMAIN D.sets
      /\ AttrSetPaths(E) = P
      /\ \A i \in DOMAIN D.sets : E.sets[i].done = IF Under(i) THEN b ELSE D.sets[i].done
  BY MarkEffect
<1>2. /\ I \in Contents /\ IndexOf(E) \in Contents
      /\ I.rows = {P[i] : i \in DOMAIN D.sets}
      /\ I.done = {P[i] : i \in {j \in DOMAIN D.sets : D.sets[j].done}}
      /\ IndexOf(E).done = {P[i] : i \in {j \in DOMAIN D.sets : E.sets[j].done}}
  BY <1>1, IndexContents
<1>3. IndexOf(E).rows = I.rows /\ IndexOf(E).pkgs = I.pkgs
  BY <1>1 DEF IndexOf
<1>4. \A i \in DOMAIN D.sets : D.sets[i].up # 0 <=> Parent(P[i]) \in I.rows
  <2> SUFFICES ASSUME NEW i \in DOMAIN D.sets
               PROVE  D.sets[i].up # 0 <=> Parent(P[i]) \in I.rows
    OBVIOUS
  <2>1. IsTree(D)
    BY GoodParts
  <2>2. Parent(P[i]) = P[D.sets[i].up] /\ D.sets[i].up \in {0} \cup DOMAIN D.sets
    BY <2>1, PathParts, TreeRows
  <2>3. P[0] = Root /\ \A j \in DOMAIN D.sets : P[j] # Root
    BY <2>1, PathParts, PathsEquation
  <2> HIDE DEF P
  <2>4. QED
    BY <1>2, <2>2, <2>3
<1>5. SubtreeRows(I, P[q]) = {P[i] : i \in {j \in DOMAIN D.sets : Under(j)}}
  <2> HIDE DEF P, I
  <2>1. QED
    BY <1>2, <1>4 DEF SubtreeRows
<1>6. \A i \in DOMAIN D.sets, j \in DOMAIN D.sets : P[i] = P[j] => i = j
  <2>1. IsInjective(P) /\ DOMAIN D.sets \subseteq DOMAIN P
    BY GoodParts, PathsEquation
  <2> HIDE DEF P
  <2>2. QED
    BY <2>1 DEF IsInjective
<1> DEFINE S == SetPrefixDone(I, P[q], b)
<1>7. /\ S \in Contents /\ S.rows = I.rows /\ S.pkgs = I.pkgs
      /\ b => S.done = I.done \cup SubtreeRows(I, P[q])
      /\ ~b => S.done = I.done \ SubtreeRows(I, P[q])
  BY <1>2, SetPrefixDoneEffect
<1> HIDE DEF P, I, E, Under, S
<1>8. S.done = IndexOf(E).done
  <2>1. CASE b
    <3>1. \A i \in DOMAIN D.sets : E.sets[i].done <=> Under(i) \/ D.sets[i].done
      BY <1>1, <2>1
    <3>2. S.done = I.done \cup {P[i] : i \in {j \in DOMAIN D.sets : Under(j)}}
      BY <1>5, <1>7, <2>1
    <3>3. QED
      BY <1>2, <3>1, <3>2
  <2>2. CASE ~b
    BY <1>1, <1>2, <1>5, <1>6, <1>7, <2>2
  <2>3. QED
    BY <2>1, <2>2
<1>9. S = IndexOf(E)
  BY <1>2, <1>3, <1>7, <1>8, SameContents
<1>10. QED
  BY <1>9 DEF S, I, E, P

\* A path from its parts.
LEMMA PathBuilds ==
  ASSUME NEW s \in Path, s # Root
  PROVE  s = Below(Parent(s), Last(s)) /\ Parent(s) \in Path /\ Last(s) \in Name
<1>1. PICK t \in Path, n \in Name : s = Below(t, n)
  BY PathSplits
<1>2. Parent(Below(t, n)) = t /\ Last(Below(t, n)) = n
  BY BelowIsPath
<1>3. QED
  BY <1>1, <1>2

\* getAttrSetPath() puts attributes in front.
LEMMA NameBefore ==
  ASSUME NEW s \in Path, NEW t \in Path, NEW n \in Name
  PROVE  <<n>> \o t \in Path /\ Then(s, <<n>> \o t) = Then(Below(s, n), t)
<1>1. <<n>> \in Seq(Name)
  OBVIOUS
<1>2. <<n>> \o t \in Seq(Name)
  BY <1>1, ConcatProperties DEF Path
<1>3. s \o (<<n>> \o t) = (s \o <<n>>) \o t
  BY <1>1, ConcatAssociative DEF Path
<1>4. QED
  BY <1>2, <1>3, AppendIsConcat DEF Path, Then, Below

\* Paths that may have a row: none is the empty one, and prefixes are ones too.
LEMMA RowPathIsPath ==
  ASSUME NEW s \in Paths
  PROVE  s \in Path /\ s # Root
BY PathsAssumption DEF Path, Name

\* What a path of a row goes through are paths of rows.
LEMMA PrefixIsRowPath ==
  ASSUME NEW s \in Path, s # Root, NEW t \in Path, Then(s, t) \in Paths
  PROVE  s \in Paths
<1> DEFINE T == {k \in Nat : \E u \in Path : Then(s, u) \in Paths /\ k = Len(u)}
<1>1. PICK m \in T : \A k \in T : m <= k
  <2>1. Len(t) \in T
    BY LenProperties DEF Path
  <2> HIDE DEF T
  <2>2. QED
    BY <2>1, LeastNatural DEF T
<1>2. PICK u \in Path : Then(s, u) \in Paths /\ m = Len(u)
  OBVIOUS
<1>3. CASE u = Root
  BY <1>2, <1>3, ThenIsPath
<1>4. CASE u # Root
  <2>1. PICK v \in Path, x \in Name : u = Below(v, x)
    BY <1>4, PathSplits
  <2>2. Then(s, u) = Below(Then(s, v), x) /\ Then(s, v) \in Path /\ Then(s, v) # Root
    BY <2>1, ThenBelow, ThenIsPath
  <2>3. Parent(Then(s, u)) = Then(s, v)
    BY <2>2, BelowIsPath
  <2>4. Len(u) = Len(v) + 1 /\ Len(v) \in Nat
    BY <2>1, AppendProperties, LenProperties DEF Path, Below
  <2>5. Len(Then(s, u)) > 1
    <3>1. Len(Then(s, u)) # 1
      <4>1. Len(Then(s, u)) = 1 => Parent(Then(s, u)) = Root
        BY <1>2, ParentLen
      <4>2. QED
        BY <2>2, <2>3, <4>1
    <3>2. Len(Then(s, u)) >= 1 /\ Len(Then(s, u)) \in Nat
      BY <1>2, ParentLen, RowPathIsPath, LenProperties DEF Path
    <3> DEFINE k == Len(Then(s, u))
    <3>3. k \in Nat /\ k >= 1 /\ k # 1
      BY <3>1, <3>2
    <3> HIDE DEF k
    <3>4. k > 1
      BY <3>3
    <3>5. QED
      BY <3>4 DEF k
  <2>6. Then(s, v) \in Paths
    BY <1>2, <2>3, <2>5, PathsAssumption
  <2>7. Len(v) \in T /\ Len(v) < m
    BY <1>2, <2>4, <2>6
  <2>8. QED
    BY <1>1, <2>7
<1>5. QED
  BY <1>3, <1>4

\* What is there when the tables grow.
LEMMA GrowsKeeps ==
  ASSUME NEW D, NEW E, GoodDb(D), GoodDb(E), Grows(D, E)
  PROVE  /\ \A i \in {0} \cup DOMAIN D.sets :
              i \in {0} \cup DOMAIN E.sets /\ AttrSetPaths(E)[i] = AttrSetPaths(D)[i]
         /\ \A i \in DOMAIN D.sets : i \in DOMAIN E.sets
         /\ \A i \in DOMAIN D.pkgs :
              i \in DOMAIN E.pkgs /\ PackagePath(E, i) = PackagePath(D, i)
         /\ IndexOf(D).rows \subseteq IndexOf(E).rows
         /\ IndexOf(D).pkgs \subseteq IndexOf(E).pkgs
         /\ \A path, pkg : There(D, path, pkg) => There(E, path, pkg)
<1> DEFINE P == AttrSetPaths(D)
<1> DEFINE Q == AttrSetPaths(E)
<1>1. \A i \in {0} \cup DOMAIN D.sets : i \in {0} \cup DOMAIN E.sets /\ Q[i] = P[i]
  <2>1. IsTree(D) /\ IsTree(E) /\ SameSets(D.sets, E.sets)
    BY GoodParts DEF Grows
  <2>2. QED
    BY <2>1, PathsStay
<1>2. \A i \in DOMAIN D.sets : i \in DOMAIN E.sets
  BY DEF Grows, SameSets
<1>3. \A i \in DOMAIN D.pkgs : /\ i \in DOMAIN E.pkgs /\ E.pkgs[i] = D.pkgs[i]
                               /\ D.pkgs[i].up \in DOMAIN D.sets
  BY GoodParts DEF Grows, SameRows, PkgFits
<1>4. \A i \in DOMAIN D.pkgs : PackagePath(E, i) = PackagePath(D, i)
  <2>1. \A i \in DOMAIN D.pkgs : Q[D.pkgs[i].up] = P[D.pkgs[i].up]
    BY <1>1, <1>3
  <2>2. QED
    BY <1>3, <2>1 DEF PackagePath
<1>5. /\ IndexOf(D).rows = {P[i] : i \in DOMAIN D.sets}
      /\ IndexOf(E).rows = {Q[i] : i \in DOMAIN E.sets}
      /\ IndexOf(D).pkgs = {<<P[D.pkgs[i].up], D.pkgs[i].name>> : i \in DOMAIN D.pkgs}
      /\ IndexOf(E).pkgs = {<<Q[E.pkgs[i].up], E.pkgs[i].name>> : i \in DOMAIN E.pkgs}
  BY IndexContents
<1> HIDE DEF P, Q
<1>6. IndexOf(D).rows \subseteq IndexOf(E).rows
  BY <1>1, <1>2, <1>5
<1>7. IndexOf(D).pkgs \subseteq IndexOf(E).pkgs
  <2> SUFFICES ASSUME NEW x \in IndexOf(D).pkgs PROVE x \in IndexOf(E).pkgs
    OBVIOUS
  <2>1. PICK i \in DOMAIN D.pkgs : x = <<P[D.pkgs[i].up], D.pkgs[i].name>>
    BY <1>5
  <2>2. Q[D.pkgs[i].up] = P[D.pkgs[i].up]
    BY <1>1, <1>3
  <2>3. x = <<Q[E.pkgs[i].up], E.pkgs[i].name>> /\ i \in DOMAIN E.pkgs
    BY <1>3, <2>1, <2>2
  <2>4. QED
    BY <1>5, <2>3
<1>8. \A path, pkg : There(D, path, pkg) => There(E, path, pkg)
  BY <1>6, <1>7 DEF There
<1>9. QED
  BY <1>1, <1>2, <1>3, <1>4, <1>6, <1>7, <1>8 DEF P, Q

\* A scraper stays on its way when others commit, ...
LEMMA OnItsWayGrows ==
  ASSUME NEW D, NEW E, GoodDb(D), GoodDb(E), Grows(D, E), NEW w, OnItsWay(w, D)
  PROVE  OnItsWay(w, E)
BY GrowsKeeps DEF OnItsWay

\* ... and a reader keeps what it holds.
LEMMA ReadsRightGrows ==
  ASSUME NEW D, NEW E, GoodDb(D), GoodDb(E), Grows(D, E), NEW s, ReadsRight(s, D)
  PROVE  ReadsRight(s, E)
<1> DEFINE P == AttrSetPaths(D)
<1> DEFINE Q == AttrSetPaths(E)
<1>1. ASSUME NEW i, i \in {0} \cup DOMAIN D.sets
      PROVE  i \in {0} \cup DOMAIN E.sets /\ Q[i] = P[i]
  BY <1>1, GrowsKeeps
<1>2. ASSUME NEW i, i \in DOMAIN D.pkgs
      PROVE  i \in DOMAIN E.pkgs /\ PackagePath(E, i) = PackagePath(D, i)
  BY <1>2, GrowsKeeps
<1>3. There(D, s.path, s.pkg) => There(E, s.path, s.pkg)
  BY GrowsKeeps
<1> HIDE DEF P, Q
<1>4. ReadsRight(s, D) <=>
        /\ s.stage = "down" =>
             /\ s.rest # Root
             /\ s.row \in {0} \cup DOMAIN D.sets
             /\ s.path = P[s.row] \o s.rest
             /\ s.want # None => There(D, s.path, s.pkg)
        /\ s.stage = "have" /\ s.pkg =>
             s.row \in DOMAIN D.pkgs /\ s.want = PackagePath(D, s.row)
        /\ s.stage = "have" /\ ~s.pkg =>
             s.row \in {0} \cup DOMAIN D.sets /\ s.want = P[s.row] \o s.path
  BY DEF ReadsRight, P
<1>5. CASE s.stage = "down"
  <2>1. Q[s.row] = P[s.row] /\ s.row \in {0} \cup DOMAIN E.sets
    BY <1>1, <1>4, <1>5
  <2>2. QED
    BY <1>3, <1>4, <1>5, <2>1 DEF ReadsRight, Q
<1>6. CASE s.stage = "have" /\ s.pkg
  BY <1>2, <1>4, <1>6 DEF ReadsRight
<1>7. CASE s.stage = "have" /\ ~s.pkg
  <2>1. Q[s.row] = P[s.row] /\ s.row \in {0} \cup DOMAIN E.sets
    BY <1>1, <1>4, <1>7
  <2>2. QED
    BY <1>4, <1>7, <2>1 DEF ReadsRight, Q
<1>8. CASE s.stage \notin {"down", "have"}
  BY <1>8 DEF ReadsRight
<1>9. QED
  BY <1>5, <1>6, <1>7, <1>8
-----------------------------------------------------------------------------
(***************************************************************************)
(* Readers: each step leaves them with what they asked for.                *)
(***************************************************************************)
ReaderFits(s, F) == s \in Reading /\ ReadsRight(s, F) /\ AnswerIsRight(s)

ReadingStages == {"idle", "down", "have", "answer", "failed"}

\* The readers' variables, with names and paths hidden.
LEMMA ReadingIs ==
  Reading = [stage : ReadingStages, pkg : BOOLEAN, row : Nat, rest : Path, path : Path,
             text : {None} \cup Texts, want : {None} \cup Path]
BY DEF Reading, Path, Name, ReadingStages

\* Each of them.
LEMMA ReadingFields ==
  ASSUME NEW s \in Reading
  PROVE  /\ s.pkg \in BOOLEAN /\ s.row \in Nat /\ s.rest \in Path /\ s.path \in Path
         /\ s.text \in {None} \cup Texts /\ s.want \in {None} \cup Path
         /\ s.stage \in ReadingStages
BY ReadingIs

\* A reader that has not begun.
LEMMA IdleReaderIs == IdleReader \in Reading
BY RootIsPath, ReadingIs DEF IdleReader, ReadingStages

\* What the actions leave a reader with.
LEMMA ReaderFails ==
  ASSUME NEW s \in Reading,  NEW t, t = [s EXCEPT !.stage = "failed"]
  PROVE  t \in Reading /\ t.stage = "failed" /\ t.want = s.want
<1> DEFINE S == {None} \cup Path
<1> DEFINE T == {None} \cup Texts
<1>1. Reading = [stage : ReadingStages, pkg : BOOLEAN, row : Nat, rest : Path,
                 path : Path, text : T, want : S]
  BY ReadingIs
<1> HIDE DEF S, T
<1>2. {"down", "have", "answer", "failed"} \subseteq ReadingStages
  BY DEF ReadingStages
<1>3. QED
  BY <1>1, <1>2

\* Who wanted nothing that is there may fail.
LEMMA FailKeeps ==
  ASSUME NEW F, NEW s \in Reading, s.want = None
  PROVE  ReaderFits(Failed(s), F)
<1> DEFINE t == Failed(s)
<1>1. t \in Reading /\ t.stage = "failed" /\ t.want = None
  BY ReaderFails DEF Failed
<1> HIDE DEF t
<1>2. ReaderFits(t, F)
  BY <1>1 DEF ReaderFits, ReadsRight, AnswerIsRight
<1>3. QED
  BY <1>2 DEF t

\* An id for a package.
LEMMA PackagePathIsPath ==
  ASSUME NEW F, GoodDb(F), NEW i \in DOMAIN F.pkgs
  PROVE  /\ PackagePath(F, i) \in Path /\ i \in Nat
         /\ PackagePath(F, i) = Below(AttrSetPaths(F)[F.pkgs[i].up], F.pkgs[i].name)
         /\ Front(PackagePath(F, i)) = AttrSetPaths(F)[F.pkgs[i].up]
         /\ Last(PackagePath(F, i)) = F.pkgs[i].name
<1>1. /\ IsTree(F) /\ F.pkgs[i].up \in {0} \cup DOMAIN F.sets
      /\ F.pkgs \in Seq(PkgRow)
  BY GoodParts, GoodTypes DEF PkgFits, GoodDb
<1>2. AttrSetPaths(F)[F.pkgs[i].up] \in Path
  BY <1>1, PathsAreSeqs
<1>3. F.pkgs[i] \in PkgRow /\ i \in Nat
  <2> DEFINE s == F.pkgs
  <2>1. s \in Seq(PkgRow) /\ i \in DOMAIN s
    BY <1>1
  <2> HIDE DEF s
  <2>2. s[i] \in PkgRow /\ i \in Nat
    BY <2>1
  <2>3. QED
    BY <2>2 DEF s
<1>4. F.pkgs[i].name \in Name
  BY <1>3 DEF PkgRow
<1>5. PackagePath(F, i) = Below(AttrSetPaths(F)[F.pkgs[i].up], F.pkgs[i].name)
  BY DEF PackagePath, Below
<1>6. QED
  BY <1>2, <1>3, <1>4, <1>5, BelowIsPath DEF Parent

\* A query has an id that stands for the package it wants.
LEMMA HaveKeeps ==
  ASSUME NEW F, GoodDb(F), NEW i \in DOMAIN F.pkgs,
         NEW t, t = [IdleReader EXCEPT !.stage = "have", !.pkg = TRUE, !.row = i,
                                       !.want = PackagePath(F, i)]
  PROVE  ReaderFits(t, F)
<1> DEFINE x == PackagePath(F, i)
<1>1. x \in {None} \cup Path /\ i \in Nat
  BY PackagePathIsPath
<1>2. t = [IdleReader EXCEPT !.stage = "have", !.pkg = TRUE, !.row = i, !.want = x]
  OBVIOUS
<1> HIDE DEF x
<1>3. t \in Reading /\ t.stage = "have" /\ t.pkg /\ t.row = i /\ t.want = x
  <2> DEFINE s == IdleReader
  <2> DEFINE S == {None} \cup Path
  <2> DEFINE T == {None} \cup Texts
  <2>1. /\ t = [s EXCEPT !.stage = "have", !.pkg = TRUE, !.row = i, !.want = x]
        /\ s \in Reading /\ x \in S
        /\ Reading = [stage : ReadingStages, pkg : BOOLEAN, row : Nat, rest : Path,
                      path : Path, text : T, want : S]
    BY <1>1, <1>2, IdleReaderIs, ReadingIs
  <2> HIDE DEF s, S, T
  <2>2. QED
    BY <1>1, <2>1 DEF ReadingStages
<1>4. QED
  BY <1>3 DEF ReaderFits, ReadsRight, AnswerIsRight, x

\* A lookup begins at row 0.
LEMMA LookupKeeps ==
  ASSUME NEW F, GoodDb(F), NEW path \in Lookups, NEW pkg \in BOOLEAN,
         NEW t, t = [IdleReader EXCEPT
                       !.stage = "down", !.pkg = pkg, !.rest = path, !.path = path,
                       !.want = IF There(F, path, pkg) THEN path ELSE None]
  PROVE  ReaderFits(t, F)
<1> DEFINE x == IF There(F, path, pkg) THEN path ELSE None
<1>1. path \in Path /\ path # Root
  BY RowsAssumption DEF Path, Name
<1>2. x \in {None} \cup Path /\ (x # None => There(F, path, pkg))
  BY <1>1
<1>3. t = [IdleReader EXCEPT !.stage = "down", !.pkg = pkg, !.rest = path,
                             !.path = path, !.want = x]
  OBVIOUS
<1> HIDE DEF x
<1>4. /\ t \in Reading /\ t.stage = "down" /\ t.pkg = pkg /\ t.row = 0 /\ t.want = x
      /\ t.rest = path /\ t.path = path
  <2>1. IdleReader.row = 0
    BY DEF IdleReader
  <2> DEFINE s == IdleReader
  <2> DEFINE S == {None} \cup Path
  <2> DEFINE T == {None} \cup Texts
  <2>2. /\ t = [s EXCEPT !.stage = "down", !.pkg = pkg, !.rest = path,
                         !.path = path, !.want = x]
        /\ s \in Reading /\ s.row = 0 /\ x \in S
        /\ Reading = [stage : ReadingStages, pkg : BOOLEAN, row : Nat, rest : Path,
                      path : Path, text : T, want : S]
    BY <1>2, <1>3, <2>1, IdleReaderIs, ReadingIs
  <2> HIDE DEF s, S, T
  <2>3. QED
    BY <1>1, <2>2 DEF ReadingStages
<1>5. AttrSetPaths(F)[0] \o path = path
  <2>1. AttrSetPaths(F)[0] = Root
    BY GoodParts, PathsEquation
  <2>2. QED
    BY <1>1, <2>1, ThenIsPath DEF Then
<1>6. QED
  BY <1>1, <1>2, <1>4, <1>5 DEF ReaderFits, ReadsRight, AnswerIsRight

\* What is there is found at the next step down.
LEMMA ThereIsFound ==
  ASSUME NEW F, GoodDb(F), NEW row \in {0} \cup DOMAIN F.sets, NEW rest \in Path,
         rest # Root, NEW pkg \in BOOLEAN,
         There(F, Then(AttrSetPaths(F)[row], rest), pkg)
  PROVE  IF pkg /\ Len(rest) = 1 THEN PkgIds(F, row, Head(rest)) # {}
                                 ELSE SetIds(F, row, Head(rest)) # {}
<1> DEFINE P == AttrSetPaths(F)
<1>1. IsTree(F) /\ IsInjective(P) /\ P[row] \in Path
  BY GoodParts, PathsAreSeqs
<1>2. PICK t \in Path, x \in Name : rest = Below(t, x)
  BY PathSplits
<1>3. /\ Then(P[row], t) \in Path
      /\ Then(P[row], rest) = Below(Then(P[row], t), x)
  <2> HIDE DEF P
  <2>1. Then(P[row], t) \in Path
    BY <1>1, ThenIsPath
  <2>2. Then(P[row], Below(t, x)) = Below(Then(P[row], t), x)
    BY <1>1, ThenBelow
  <2>3. QED
    BY <1>2, <2>1, <2>2
<1>4. /\ IndexOf(F).rows = {P[i] : i \in DOMAIN F.sets}
      /\ IndexOf(F).pkgs = {<<P[F.pkgs[i].up], F.pkgs[i].name>> : i \in DOMAIN F.pkgs}
  BY IndexContents
<1>5. CASE ~pkg
  <2>1. PICK j \in DOMAIN F.sets : P[j] = Then(P[row], rest)
    BY <1>4, <1>5 DEF There
  <2>2. QED
    BY <1>1, <1>5, <2>1, ChildExists
<1>6. CASE pkg
  <2>1. PICK j \in DOMAIN F.pkgs : /\ P[F.pkgs[j].up] = Then(P[row], t)
                                   /\ F.pkgs[j].name = x
    <3>1. <<Front(Then(P[row], rest)), Last(Then(P[row], rest))>> \in IndexOf(F).pkgs
      BY <1>6 DEF There
    <3>2. /\ Front(Then(P[row], rest)) = Then(P[row], t)
          /\ Last(Then(P[row], rest)) = x
      BY <1>3, BelowIsPath DEF Parent
    <3>3. <<Then(P[row], t), x>> \in IndexOf(F).pkgs
      BY <3>1, <3>2
    <3> HIDE DEF P
    <3>4. QED
      BY <1>4, <3>3
  <2>2. F.pkgs[j].up \in {0} \cup DOMAIN F.sets
    BY GoodParts DEF PkgFits
  <2>3. Len(rest) = Len(t) + 1 /\ Len(t) \in Nat /\ (Len(t) = 0 <=> t = Root)
    BY <1>2, AppendProperties, LenProperties, EmptySeq DEF Path, Below, Root
  <2>4. CASE t = Root
    <3>1. P[F.pkgs[j].up] = P[row]
      BY <1>1, <2>1, <2>4, ThenIsPath
    <3>2. DOMAIN P = {0} \cup DOMAIN F.sets
      BY <1>1, PathsEquation
    <3>3. F.pkgs[j].up = row
      <4> HIDE DEF P
      <4>1. QED
        BY <1>1, <2>2, <3>1, <3>2 DEF IsInjective
    <3>4. Head(rest) = x
      <4>1. rest = <<x>>
        BY <1>2, <2>4 DEF Below, Root
      <4>2. QED
        BY <4>1
    <3>5. j \in PkgIds(F, row, Head(rest))
      BY <2>1, <3>3, <3>4 DEF PkgIds
    <3>6. Len(rest) = 1
      BY <2>3, <2>4
    <3>7. QED
      BY <1>6, <3>5, <3>6
  <2>5. CASE t # Root
    <3>1. SetIds(F, row, Head(t)) # {}
      BY <1>1, <2>1, <2>2, <2>5, ChildExists
    <3>2. Head(rest) = Head(t)
      BY <1>2, <2>5, AppendProperties, HeadTailProperties DEF Path, Below, Root
    <3>3. Len(rest) # 1
      <4>1. Len(t) # 0
        BY <2>3, <2>5
      <4>2. QED
        BY <2>3, <4>1
    <3>4. QED
      BY <3>1, <3>2, <3>3
  <2>6. QED
    BY <2>4, <2>5
<1>7. QED
  BY <1>5, <1>6

\* What a reader on its way down knows.
LEMMA OnTheWayDown ==
  ASSUME NEW F, GoodDb(F), NEW s, ReaderFits(s, F), s.stage = "down"
  PROVE  /\ s \in Reading /\ s.rest \in Path /\ s.rest # Root
         /\ s.row \in {0} \cup DOMAIN F.sets /\ AttrSetPaths(F)[s.row] \in Path
         /\ s.path \in Path /\ s.path = Then(AttrSetPaths(F)[s.row], s.rest)
         /\ s.want # None => There(F, s.path, s.pkg)
         /\ s.pkg \in BOOLEAN
         /\ Head(s.rest) \in Name /\ Tail(s.rest) \in Path
         /\ s.path = Then(Below(AttrSetPaths(F)[s.row], Head(s.rest)), Tail(s.rest))
<1>1. /\ s \in Reading /\ s.rest # Root
      /\ s.row \in {0} \cup DOMAIN F.sets
      /\ s.path = AttrSetPaths(F)[s.row] \o s.rest
      /\ s.want # None => There(F, s.path, s.pkg)
  BY DEF ReaderFits, ReadsRight
<1>2. s.rest \in Path /\ s.path \in Path /\ s.pkg \in BOOLEAN
  BY <1>1, ReadingFields
<1>3. AttrSetPaths(F)[s.row] \in Path
  BY <1>1, GoodParts, PathsAreSeqs
<1>4. s.path = Then(AttrSetPaths(F)[s.row], s.rest)
  BY <1>1 DEF Then
<1>5. /\ Head(s.rest) \in Name /\ Tail(s.rest) \in Path
      /\ Then(AttrSetPaths(F)[s.row], s.rest) =
           Then(Below(AttrSetPaths(F)[s.row], Head(s.rest)), Tail(s.rest))
  BY <1>1, <1>2, <1>3, OneNameOn
<1>6. QED
  BY <1>1, <1>2, <1>3, <1>4, <1>5

\* Who finds nothing on the way down was not promised anything.
LEMMA DownFails ==
  ASSUME NEW F, GoodDb(F), NEW s, ReaderFits(s, F), s.stage = "down",
         (IF s.pkg /\ Len(s.rest) = 1 THEN PkgIds(F, s.row, Head(s.rest))
                                      ELSE SetIds(F, s.row, Head(s.rest))) = {}
  PROVE  ReaderFits(Failed(s), F)
<1>1. ~There(F, s.path, s.pkg)
  BY OnTheWayDown, ThereIsFound
<1>2. s \in Reading /\ s.want = None
  BY <1>1, OnTheWayDown
<1>3. QED
  BY <1>2, FailKeeps

\* A SELECT on the way down.
LEMMA DownWalks ==
  ASSUME NEW F, GoodDb(F), NEW s, ReaderFits(s, F), s.stage = "down",
         Len(s.rest) > 1, NEW i \in SetIds(F, s.row, Head(s.rest)),
         NEW t, t = [s EXCEPT !.row = i, !.rest = Tail(s.rest)]
  PROVE  ReaderFits(t, F)
<1> DEFINE P == AttrSetPaths(F)
<1> DEFINE rest == Tail(s.rest)
<1>1. /\ s \in Reading /\ s.rest \in Path /\ s.rest # Root /\ rest \in Path
      /\ s.path = Then(Below(P[s.row], Head(s.rest)), rest)
      /\ s.want # None => There(F, s.path, s.pkg)
  BY OnTheWayDown
<1>2. rest # Root
  <2>1. Len(rest) = Len(s.rest) - 1 /\ Len(s.rest) \in Nat
    BY <1>1, HeadTailProperties, LenProperties DEF Path, Root
  <2> DEFINE k == Len(s.rest)
  <2> DEFINE m == Len(rest)
  <2>2. m # 0
    <3>1. m = k - 1 /\ k \in Nat /\ k > 1
      BY <2>1
    <3> HIDE DEF k, m
    <3>2. QED
      BY <3>1
  <2>3. QED
    BY <1>1, <2>2, EmptySeq DEF Path, Root
<1>3. i \in DOMAIN F.sets /\ P[i] = Below(P[s.row], Head(s.rest))
  BY FoundByName
<1>4. i \in Nat
  BY <1>3, GoodParts, TreeRows
<1>5. /\ t \in Reading /\ t.stage = "down" /\ t.pkg = s.pkg /\ t.row = i
      /\ t.rest = rest /\ t.path = s.path /\ t.want = s.want
  <2>1. t = [s EXCEPT !.row = i, !.rest = rest]
    OBVIOUS
  <2> HIDE DEF rest
  <2>2. QED
    BY <1>1, <1>4, <2>1, ReadingIs
<1> HIDE DEF P, rest
<1>6. t.path = P[t.row] \o t.rest
  BY <1>1, <1>3, <1>5 DEF Then
<1>7. QED
  BY <1>1, <1>2, <1>3, <1>5, <1>6 DEF ReaderFits, ReadsRight, AnswerIsRight, P

\* At the end of the path, the id stands for it.
LEMMA DownArrives ==
  ASSUME NEW F, GoodDb(F), NEW s, ReaderFits(s, F), s.stage = "down",
         ~(Len(s.rest) > 1),
         NEW i \in IF s.pkg THEN PkgIds(F, s.row, Head(s.rest))
                            ELSE SetIds(F, s.row, Head(s.rest)),
         NEW t, t = [[s EXCEPT !.row = i, !.rest = Tail(s.rest)]
                       EXCEPT !.stage = "have", !.want = s.path, !.path = Root]
  PROVE  ReaderFits(t, F)
<1> DEFINE P == AttrSetPaths(F)
<1> DEFINE rest == Tail(s.rest)
<1>1. /\ s \in Reading /\ s.rest \in Path /\ s.rest # Root /\ rest \in Path
      /\ s.path = Then(Below(P[s.row], Head(s.rest)), rest) /\ s.path \in Path
      /\ s.pkg \in BOOLEAN
      /\ P[s.row] \in Path /\ Head(s.rest) \in Name
  BY OnTheWayDown
<1>2. rest = Root
  <2>1. Len(rest) = Len(s.rest) - 1 /\ Len(s.rest) \in Nat /\ Len(s.rest) # 0
    BY <1>1, HeadTailProperties, LenProperties, EmptySeq DEF Path, Root
  <2> DEFINE k == Len(s.rest)
  <2> DEFINE m == Len(rest)
  <2>2. m = 0
    <3>1. m = k - 1 /\ k \in Nat /\ k # 0 /\ ~(k > 1)
      BY <2>1
    <3> HIDE DEF k, m
    <3>2. QED
      BY <3>1
  <2>3. QED
    BY <1>1, <2>2, EmptySeq DEF Path, Root
<1>3. s.path = Below(P[s.row], Head(s.rest))
  <2>1. Below(P[s.row], Head(s.rest)) \in Path
    BY <1>1, BelowIsPath
  <2>2. QED
    BY <1>1, <1>2, <2>1, ThenIsPath
<1>4. i \in Nat
  <2>1. CASE s.pkg
    BY <2>1, PackagePathIsPath DEF PkgIds
  <2>2. CASE ~s.pkg
    BY <2>2, GoodParts, TreeRows DEF SetIds
  <2>3. QED
    BY <2>1, <2>2
<1>5. /\ t \in Reading /\ t.stage = "have" /\ t.pkg = s.pkg /\ t.row = i
      /\ t.path = Root /\ t.want = s.path
  <2> DEFINE u == [s EXCEPT !.row = i, !.rest = rest]
  <2>1. u \in Reading /\ u.pkg = s.pkg /\ u.row = i
    <3> HIDE DEF rest
    <3>1. QED
      BY <1>1, <1>4, ReadingIs
  <2>2. t = [u EXCEPT !.stage = "have", !.want = s.path, !.path = Root]
    OBVIOUS
  <2> DEFINE S == {None} \cup Path
  <2> DEFINE T == {None} \cup Texts
  <2>3. s.path \in S /\ Root \in Path
        /\ Reading = [stage : ReadingStages, pkg : BOOLEAN, row : Nat, rest : Path,
                      path : Path, text : T, want : S]
    BY <1>1, RootIsPath, ReadingIs
  <2> HIDE DEF u, S, T
  <2>4. QED
    BY <2>1, <2>2, <2>3 DEF ReadingStages
<1>6. CASE s.pkg
  <2>1. /\ i \in DOMAIN F.pkgs /\ F.pkgs[i].up = s.row /\ F.pkgs[i].name = Head(s.rest)
    BY <1>6 DEF PkgIds
  <2>2. PackagePath(F, i) = s.path
    BY <1>3, <2>1, PackagePathIsPath
  <2>3. QED
    BY <1>5, <1>6, <2>1, <2>2 DEF ReaderFits, ReadsRight, AnswerIsRight
<1>7. CASE ~s.pkg
  <2>1. i \in DOMAIN F.sets /\ P[i] = s.path
    BY <1>3, <1>7, FoundByName
  <2>2. P[i] \o Root = P[i]
    BY <1>1, <2>1, ThenIsPath DEF Then
  <2> HIDE DEF P
  <2>3. t.want = P[t.row] \o t.path
    BY <1>5, <2>1, <2>2
  <2>4. QED
    BY <1>5, <1>7, <2>1, <2>3 DEF ReaderFits, ReadsRight, AnswerIsRight, P
<1>8. QED
  BY <1>1, <1>6, <1>7

\* The package that getPackage() answers with.
LEMMA GetKeeps ==
  ASSUME NEW F, GoodDb(F), NEW s, ReaderFits(s, F), s.stage = "have", s.pkg,
         NEW t, t = [s EXCEPT !.stage = "answer", !.path = PackagePath(F, s.row),
                              !.text = PackageText(F, s.row)]
  PROVE  s.row \in DOMAIN F.pkgs /\ ReaderFits(t, F)
<1>1. s \in Reading /\ s.row \in DOMAIN F.pkgs /\ s.want = PackagePath(F, s.row)
  BY DEF ReaderFits, ReadsRight
<1> DEFINE i == s.row
<1> DEFINE path == PackagePath(F, i)
<1> DEFINE text == PackageText(F, i)
<1> DEFINE d == <<AttrSetPaths(F)[F.pkgs[i].up], F.pkgs[i].name>>
<1>2. path \in Path /\ <<Front(path), Last(path)>> = d
  BY <1>1, PackagePathIsPath
<1>3. d \in Derivations /\ text = Description[d]
  BY <1>1, GoodParts DEF PkgFits
<1>4. /\ t \in Reading /\ t.stage = "answer" /\ t.pkg = s.pkg
      /\ t.path = path /\ t.text = text /\ t.want = s.want
  <2> DEFINE S == {None} \cup Path
  <2> DEFINE T == {None} \cup Texts
  <2>1. text \in T
        /\ Reading = [stage : ReadingStages, pkg : BOOLEAN, row : Nat, rest : Path,
                      path : Path, text : T, want : S]
    BY <1>3, ReadingIs DEF Texts
  <2>2. t = [s EXCEPT !.stage = "answer", !.path = path, !.text = text]
    OBVIOUS
  <2> HIDE DEF path, text, S, T
  <2>3. QED
    BY <1>1, <1>2, <2>1, <2>2 DEF ReadingStages
<1> HIDE DEF d, text
<1>5. AnswerIsRight(t)
  BY <1>1, <1>2, <1>3, <1>4 DEF AnswerIsRight
<1>6. ReadsRight(t, F)
  BY <1>4 DEF ReadsRight
<1>7. QED
  BY <1>1, <1>4, <1>5, <1>6 DEF ReaderFits

\* One step up: the name of the row goes in front of the path.
LEMMA UpWalks ==
  ASSUME NEW F, GoodDb(F), NEW s, ReaderFits(s, F), s.stage = "have", ~s.pkg, s.row # 0,
         NEW t, t = [s EXCEPT !.row = F.sets[s.row].up,
                              !.path = <<F.sets[s.row].name>> \o s.path]
  PROVE  s.row \in DOMAIN F.sets /\ ReaderFits(t, F)
<1> DEFINE P == AttrSetPaths(F)
<1> DEFINE i == s.row
<1> DEFINE up == F.sets[i].up
<1> DEFINE n == F.sets[i].name
<1> DEFINE path == <<n>> \o s.path
<1>1. /\ s \in Reading /\ i \in DOMAIN F.sets /\ s.want = Then(P[i], s.path)
      /\ s.path \in Path
  BY ReadingFields DEF ReaderFits, ReadsRight, Then
<1>2. IsTree(F) /\ up \in {0} \cup DOMAIN F.sets /\ up \in Nat /\ n \in Name
  BY <1>1, GoodParts, TreeRows
<1>3. P[up] \in Path /\ P[i] = Below(P[up], n)
  BY <1>1, <1>2, PathsAreSeqs, PathsEquation
<1> HIDE DEF P, up, n
<1>4. path \in Path /\ Then(P[up], path) = Then(Below(P[up], n), s.path)
  BY <1>1, <1>2, <1>3, NameBefore
<1>5. /\ t \in Reading /\ t.stage = "have" /\ t.pkg = s.pkg /\ t.row = up
      /\ t.path = path /\ t.want = s.want
  <2>1. t = [s EXCEPT !.row = up, !.path = path]
    BY DEF up, n
  <2> HIDE DEF path
  <2>2. QED
    BY <1>1, <1>2, <1>4, <2>1, ReadingIs
<1> HIDE DEF path
<1>6. t.want = P[t.row] \o t.path
  BY <1>1, <1>3, <1>4, <1>5 DEF Then
<1>7. QED
  BY <1>1, <1>2, <1>5, <1>6 DEF ReaderFits, ReadsRight, AnswerIsRight, P

\* At row 0 the path is whole.
LEMMA UpArrives ==
  ASSUME NEW F, GoodDb(F), NEW s, ReaderFits(s, F), s.stage = "have", ~s.pkg, s.row = 0,
         NEW t, t = [s EXCEPT !.stage = "answer"]
  PROVE  ReaderFits(t, F)
<1>1. s \in Reading /\ s.want = Then(AttrSetPaths(F)[0], s.path) /\ s.path \in Path
  BY ReadingFields DEF ReaderFits, ReadsRight, Then
<1>2. s.want = s.path
  BY <1>1, GoodParts, PathsEquation, ThenIsPath
<1>3. /\ t \in Reading /\ t.stage = "answer" /\ t.pkg = s.pkg
      /\ t.path = s.path /\ t.want = s.want
  BY <1>1, ReadingIs DEF ReadingStages
<1>4. QED
  BY <1>2, <1>3 DEF ReaderFits, ReadsRight, AnswerIsRight
-----------------------------------------------------------------------------
(***************************************************************************)
(* Scrapers: each step leaves them on their way, and their transactions on *)
(* track.                                                                  *)
(***************************************************************************)
ScraperFits(w, F, D) == w \in Work /\ OnItsWay(w, F) /\ TxnOnTrack(w, F, D)

WorkStages == {"idle", "check", "unmark", "enter", "targets", "attrs"}

\* The scrapers' variables, with names and paths hidden.
LEMMA WorkIs ==
  Work = [stage : WorkStages, prefix : {None} \cup Requested, row : Nat, rest : Path,
          todo : Seq(Target), left : SUBSET Name]
BY DEF Work, Path, Name, WorkStages

\* Each of them.
LEMMA WorkFields ==
  ASSUME NEW w \in Work
  PROVE  /\ w.stage \in WorkStages /\ w.prefix \in {None} \cup Requested /\ w.row \in Nat
         /\ w.rest \in Path /\ w.todo \in Seq(Target) /\ w.left \subseteq Name
BY WorkIs

\* Prefixes are paths of rows.
LEMMA RequestedIsPath ==
  ASSUME NEW q \in Requested
  PROVE  q \in Paths /\ q \in Path /\ q # Root /\ Len(q) > 1
BY RowsAssumption, RowPathIsPath

\* Outside a transaction there is no queue, and nothing to be on track with.
LEMMA NoTxnFits ==
  ASSUME NEW F, NEW D, NEW w \in Work, w.stage \notin TxnStages, OnItsWay(w, F)
  PROVE  w.todo = << >> /\ ScraperFits(w, F, D)
<1>1. w.todo = << >> /\ w.stage # "attrs"
  BY DEF OnItsWay, TxnStages
<1>2. QED
  BY <1>1 DEF ScraperFits, TxnOnTrack

\* A scraper that has nothing to do.
LEMMA IdleFits ==
  ASSUME NEW F, NEW D
  PROVE  ScraperFits(IdleWork, F, D) /\ IdleWork.stage = "idle"
<1> DEFINE none == << >>
<1>1. none \in Seq(Target) /\ Root \in Path
  BY RootIsPath
<1>2. IdleWork = [stage |-> "idle", prefix |-> None, row |-> 0, rest |-> Root,
                  todo |-> none, left |-> {}]
  BY DEF IdleWork
<1> HIDE DEF none
<1>3. IdleWork \in Work /\ IdleWork.stage = "idle" /\ IdleWork.todo = none
  BY <1>1, <1>2, WorkIs DEF WorkStages
<1>4. OnItsWay(IdleWork, F)
  BY <1>3 DEF OnItsWay, TxnStages, none
<1>5. QED
  BY <1>3, <1>4, NoTxnFits DEF TxnStages

\* A scrape is asked for: at row 0, with all of the prefix ahead.
LEMMA AskFits ==
  ASSUME NEW F, GoodDb(F), NEW D, NEW q \in Requested, NEW stage \in {"unmark", "check"},
         NEW t, t = [IdleWork EXCEPT !.prefix = q, !.rest = q, !.stage = stage]
  PROVE  ScraperFits(t, F, D) /\ t.stage = stage
<1> DEFINE w == IdleWork
<1>1. w \in Work /\ w.todo = << >> /\ w.row = 0 /\ q \in Path
  BY IdleFits, RequestedIsPath DEF ScraperFits, IdleWork
<1>2. t = [w EXCEPT !.prefix = q, !.rest = q, !.stage = stage]
  OBVIOUS
<1> HIDE DEF w
<1>3. /\ t \in Work /\ t.stage = stage /\ t.todo = << >> /\ t.row = 0 /\ t.rest = q
      /\ t.prefix = q
  BY <1>1, <1>2, WorkIs DEF WorkStages
<1>4. AttrSetPaths(F)[0] \o q = q
  <2>1. AttrSetPaths(F)[0] = Root
    BY GoodParts, PathsEquation
  <2>2. QED
    BY <1>1, <2>1, ThenIsPath DEF Then
<1>5. OnItsWay(t, F)
  BY <1>3, <1>4 DEF OnItsWay, TxnStages
<1>6. QED
  BY <1>3, <1>5, NoTxnFits DEF TxnStages

\* Back to row 0, for the next walk down the prefix.
LEMMA WalkFits ==
  ASSUME NEW F, GoodDb(F), NEW G, GoodDb(G), NEW D, NEW w \in Work, OnItsWay(w, F),
         w.stage \in {"unmark", "check"}, NEW stage \in {"check", "enter"},
         stage = "enter" => w.prefix \in AttrSets,
         NEW t, t = [w EXCEPT !.stage = stage, !.row = 0, !.rest = w.prefix]
  PROVE  ScraperFits(t, G, D) /\ t.stage = stage
<1> DEFINE q == w.prefix
<1>1. q \in Requested /\ w.todo = << >> /\ q \in Path
  <2>1. q \in Requested
    BY DEF OnItsWay
  <2>2. w.todo = << >>
    BY DEF OnItsWay, TxnStages
  <2>3. QED
    BY <2>1, <2>2, RequestedIsPath
<1>2. /\ t \in Work /\ t.stage = stage /\ t.todo = << >> /\ t.row = 0 /\ t.rest = q
      /\ t.prefix = q
  <2>1. t = [w EXCEPT !.stage = stage, !.row = 0, !.rest = q]
    OBVIOUS
  <2>2. q \in Path /\ w.todo = << >>
    BY <1>1
  <2> HIDE DEF q
  <2> DEFINE S == {None} \cup Requested
  <2> DEFINE none == << >>
  <2>3. /\ Work = [stage : WorkStages, prefix : S, row : Nat, rest : Path,
                   todo : Seq(Target), left : SUBSET Name]
        /\ w.todo = none
    BY <2>2, WorkIs
  <2> HIDE DEF S, none
  <2>4. /\ t \in Work /\ t.stage = stage /\ t.todo = w.todo /\ t.row = 0 /\ t.rest = q
        /\ t.prefix = w.prefix
    <3>1. w \in Work /\ stage \in WorkStages /\ 0 \in Nat
      BY DEF WorkStages
    <3>2. t \in Work
      BY <2>1, <2>2, <2>3, <3>1
    <3>3. t.stage = stage /\ t.todo = w.todo /\ t.row = 0 /\ t.rest = q /\ t.prefix = w.prefix
      BY <2>1, <2>3, <3>1
    <3>4. QED
      BY <3>2, <3>3
  <2>5. QED
    BY <2>3, <2>4 DEF q, none
<1>3. AttrSetPaths(G)[0] \o q = q
  <2>1. AttrSetPaths(G)[0] = Root
    BY GoodParts, PathsEquation
  <2>2. QED
    BY <1>1, <2>1, ThenIsPath DEF Then
<1> HIDE DEF q
<1>4. OnItsWay(t, G)
  BY <1>1, <1>2, <1>3 DEF OnItsWay, TxnStages, q
<1>5. QED
  BY <1>2, <1>4, NoTxnFits DEF TxnStages

\* Where a scraper that has not come to the end of its prefix is to go.
LEMMA NextOnTheWay ==
  ASSUME NEW F, GoodDb(F), NEW w \in Work, OnItsWay(w, F), w.stage # "idle", w.rest # Root
  PROVE  /\ w.row \in {0} \cup DOMAIN F.sets /\ AttrSetPaths(F)[w.row] \in Path
         /\ Head(w.rest) \in Name /\ Tail(w.rest) \in Path
         /\ w.prefix = Then(Below(AttrSetPaths(F)[w.row], Head(w.rest)), Tail(w.rest))
         /\ Below(AttrSetPaths(F)[w.row], Head(w.rest)) \in Paths
<1> DEFINE P == AttrSetPaths(F)
<1> DEFINE s == Below(P[w.row], Head(w.rest))
<1>1. /\ w.row \in {0} \cup DOMAIN F.sets /\ w.prefix \in Requested
      /\ Then(P[w.row], w.rest) = w.prefix
  BY DEF OnItsWay, Then
<1>2. P[w.row] \in Path /\ w.rest \in Path /\ w.prefix \in Paths
  BY <1>1, GoodParts, PathsAreSeqs, WorkFields, RequestedIsPath
<1>3. Head(w.rest) \in Name /\ Tail(w.rest) \in Path
      /\ w.prefix = Then(s, Tail(w.rest))
  <2> HIDE DEF P
  <2>1. QED
    BY <1>1, <1>2, OneNameOn
<1>4. s \in Path /\ s # Root
  <2> HIDE DEF P
  <2>1. QED
    BY <1>2, <1>3, BelowIsPath
<1> HIDE DEF s
<1>5. s \in Paths
  BY <1>2, <1>3, <1>4, PrefixIsRowPath
<1>6. QED
  BY <1>1, <1>2, <1>3, <1>5 DEF s

\* One attribute further, at the row found or added for it.
LEMMA StepFits ==
  ASSUME NEW F, GoodDb(F), NEW G, GoodDb(G), NEW D, NEW w \in Work, OnItsWay(w, F),
         w.stage \in {"unmark", "check", "enter"}, w.rest # Root,
         NEW i \in DOMAIN G.sets,
         AttrSetPaths(G)[i] = Below(AttrSetPaths(F)[w.row], Head(w.rest)),
         NEW t, t = [w EXCEPT !.row = i, !.rest = Tail(w.rest)]
  PROVE  ScraperFits(t, G, D) /\ t.stage = w.stage
<1> DEFINE rest == Tail(w.rest)
<1>1. /\ Then(AttrSetPaths(G)[i], rest) = w.prefix /\ rest \in Path
  BY NextOnTheWay
<1>2. i \in Nat
  BY GoodParts, TreeRows
<1>3. /\ t \in Work /\ t.stage = w.stage /\ t.todo = w.todo /\ t.row = i
      /\ t.rest = rest /\ t.prefix = w.prefix
  <2>1. t = [w EXCEPT !.row = i, !.rest = rest]
    OBVIOUS
  <2> HIDE DEF rest
  <2>2. QED
    BY <1>1, <1>2, <2>1, WorkIs
<1> HIDE DEF rest
<1>4. /\ w.prefix \in Requested /\ w.todo = << >>
      /\ w.stage = "enter" => w.prefix \in AttrSets
  BY DEF OnItsWay, TxnStages
<1>5. AttrSetPaths(G)[i] \o rest = w.prefix
  BY <1>1 DEF Then
<1>6. OnItsWay(t, G)
  BY <1>3, <1>4, <1>5 DEF OnItsWay, TxnStages
<1>7. QED
  BY <1>3, <1>6, NoTxnFits DEF TxnStages

\* At the end of a walk, the row is the prefix's own.
LEMMA WalkEnds ==
  ASSUME NEW F, GoodDb(F), NEW w \in Work, OnItsWay(w, F), w.stage # "idle", w.rest = Root
  PROVE  /\ w.prefix \in Requested /\ w.row \in DOMAIN F.sets
         /\ AttrSetPaths(F)[w.row] = w.prefix
         /\ w.prefix \in IndexOf(F).rows
<1> DEFINE P == AttrSetPaths(F)
<1>1. w.prefix \in Requested /\ w.row \in {0} \cup DOMAIN F.sets
      /\ Then(P[w.row], Root) = w.prefix
  BY DEF OnItsWay, Then
<1>2. P[w.row] \in Path /\ P[0] = Root /\ w.prefix # Root
  BY <1>1, GoodParts, PathsAreSeqs, PathsEquation, RequestedIsPath
<1> HIDE DEF P
<1>3. P[w.row] = w.prefix
  BY <1>1, <1>2, ThenIsPath
<1>4. w.row \in DOMAIN F.sets
  BY <1>1, <1>2, <1>3
<1>5. w.prefix \in IndexOf(F).rows
  BY <1>3, <1>4, IndexContents DEF P
<1>6. QED
  BY <1>1, <1>3, <1>4, <1>5 DEF P

\* The first target, and those behind it.
LEMMA QueueTail ==
  ASSUME NEW todo \in Seq(Target), todo # << >>
  PROVE  /\ todo[1] \in Target /\ 1 \in DOMAIN todo
         /\ todo[1].prefix \in Queue(todo) /\ todo[1].prefix \in AttrSets
         /\ Tail(todo) \in Seq(Target)
         /\ \A k \in DOMAIN Tail(todo) : k + 1 \in DOMAIN todo /\ Tail(todo)[k] = todo[k + 1]
         /\ Queue(Tail(todo)) \subseteq Queue(todo)
         /\ Queue(todo) \ {todo[1].prefix} \subseteq Queue(Tail(todo))
<1> DEFINE N == Len(todo)
<1>1. N \in Nat /\ N # 0 /\ DOMAIN todo = 1..N /\ \A k \in 1..N : todo[k] \in Target
  OBVIOUS
<1>2. /\ Tail(todo) \in Seq(Target) /\ DOMAIN Tail(todo) = 1..(N - 1)
      /\ \A k \in 1..(N - 1) : Tail(todo)[k] = todo[k + 1]
  OBVIOUS
<1> DEFINE rest == Tail(todo)
<1>3. /\ rest \in Seq(Target) /\ DOMAIN rest = 1..(N - 1)
      /\ \A k \in 1..(N - 1) : rest[k] = todo[k + 1]
  BY <1>2
<1> HIDE DEF N, rest
<1>4. 1 \in DOMAIN todo /\ todo[1] \in Target
  BY <1>1
<1>5. \A k \in DOMAIN rest : k + 1 \in DOMAIN todo /\ rest[k] = todo[k + 1]
  BY <1>1, <1>3
<1>6. Queue(rest) \subseteq Queue(todo)
  BY <1>5 DEF Queue
<1>7. Queue(todo) \ {todo[1].prefix} \subseteq Queue(rest)
  <2> SUFFICES ASSUME NEW k \in DOMAIN todo, k # 1 PROVE todo[k].prefix \in Queue(rest)
    BY DEF Queue
  <2>1. k - 1 \in DOMAIN rest /\ rest[k - 1] = todo[k]
    BY <1>1, <1>3
  <2>2. QED
    BY <2>1 DEF Queue
<1>8. todo[1].prefix \in Queue(todo) /\ todo[1].prefix \in AttrSets
  BY <1>4 DEF Queue, Target
<1>9. QED
  BY <1>3, <1>4, <1>5, <1>6, <1>7, <1>8 DEF rest

\* A target pushed at the back.
LEMMA QueueAppend ==
  ASSUME NEW todo \in Seq(Target), todo # << >>, NEW x \in Target
  PROVE  /\ Append(todo, x) \in Seq(Target) /\ Append(todo, x) # << >>
         /\ Append(todo, x)[1] = todo[1]
         /\ \A k \in DOMAIN Append(todo, x) :
              (k \in DOMAIN todo /\ Append(todo, x)[k] = todo[k]) \/ Append(todo, x)[k] = x
         /\ Queue(Append(todo, x)) = Queue(todo) \cup {x.prefix}
         /\ Queue(Tail(todo)) \subseteq Queue(Tail(Append(todo, x)))
         /\ x.prefix \in Queue(Tail(Append(todo, x)))
<1> DEFINE N == Len(todo)
<1> DEFINE u == Append(todo, x)
<1>1. N \in Nat /\ N # 0 /\ DOMAIN todo = 1..N
  OBVIOUS
<1>2. /\ u \in Seq(Target) /\ DOMAIN u = 1..(N + 1) /\ u[N + 1] = x /\ u # << >>
      /\ \A k \in 1..N : u[k] = todo[k]
  OBVIOUS
<1>3. DOMAIN Tail(todo) = 1..(N - 1) /\ \A k \in 1..(N - 1) : Tail(todo)[k] = todo[k + 1]
  OBVIOUS
<1> HIDE DEF u
<1>4. DOMAIN Tail(u) = 1..N /\ \A k \in 1..N : Tail(u)[k] = u[k + 1]
  <2>1. Len(u) = N + 1
    BY <1>1, <1>2
  <2> HIDE DEF N
  <2>2. QED
    BY <1>1, <1>2, <2>1
<1> HIDE DEF N
<1>5. \A k \in DOMAIN u : (k \in DOMAIN todo /\ u[k] = todo[k]) \/ u[k] = x
  BY <1>1, <1>2
<1>6. Queue(u) = Queue(todo) \cup {x.prefix}
  <2>1. N + 1 \in DOMAIN u /\ \A k \in DOMAIN todo : k \in DOMAIN u /\ u[k] = todo[k]
    BY <1>1, <1>2
  <2>2. QED
    BY <1>2, <1>5, <2>1 DEF Queue
<1>7. Queue(Tail(todo)) \subseteq Queue(Tail(u))
  <2>1. \A k \in 1..(N - 1) : k \in 1..N /\ Tail(u)[k] = Tail(todo)[k]
    BY <1>1, <1>2, <1>3, <1>4
  <2> DEFINE r == Tail(todo)
  <2> DEFINE v == Tail(u)
  <2>2. DOMAIN r = 1..(N - 1) /\ DOMAIN v = 1..N /\ \A k \in 1..(N - 1) : k \in 1..N /\ v[k] = r[k]
    BY <1>3, <1>4, <2>1
  <2> HIDE DEF r, v
  <2>3. Queue(r) \subseteq Queue(v)
    BY <2>2 DEF Queue
  <2>4. QED
    BY <2>3 DEF r, v
<1>8. x.prefix \in Queue(Tail(u))
  <2>1. N \in DOMAIN Tail(u) /\ Tail(u)[N] = x
    BY <1>1, <1>2, <1>4
  <2>2. QED
    BY <2>1 DEF Queue
<1>9. u[1] = todo[1]
  BY <1>1, <1>2
<1>10. QED
  BY <1>2, <1>5, <1>6, <1>7, <1>8, <1>9 DEF u

\* A turn of the loop leaves the walk to the prefix where it ended.
LEMMA TurnOnItsWay ==
  ASSUME NEW F, NEW w, OnItsWay(w, F), w.stage \in TxnStages, NEW t,
         t.stage \in TxnStages, t.prefix = w.prefix, t.row = w.row, t.rest = w.rest
  PROVE  OnItsWay(t, F)
BY DEF OnItsWay, TxnStages

\* The transaction begins with the prefix on the queue.
LEMMA BeginFits ==
  ASSUME NEW F, GoodDb(F), NEW w \in Work, OnItsWay(w, F), w.stage = "enter", w.rest = Root,
         NEW t, t = [w EXCEPT !.stage = "targets",
                              !.todo = <<[prefix |-> w.prefix, row |-> w.row]>>]
  PROVE  ScraperFits(t, F, F) /\ t.stage = "targets"
<1> DEFINE x == [prefix |-> w.prefix, row |-> w.row]
<1> DEFINE todo == <<x>>
<1>1. /\ w.prefix \in Requested /\ w.row \in DOMAIN F.sets
      /\ AttrSetPaths(F)[w.row] = w.prefix /\ w.prefix \in IndexOf(F).rows
      /\ w.prefix \in AttrSets
  <2>1. w.prefix \in AttrSets
    BY DEF OnItsWay
  <2>2. w.stage # "idle"
    OBVIOUS
  <2>3. QED
    BY <2>1, <2>2, WalkEnds
<1>2. x \in Target /\ x.prefix = w.prefix /\ x.row = w.row
  BY <1>1, WorkFields DEF Target
<1> HIDE DEF x
<1>3. todo \in Seq(Target) /\ DOMAIN todo = {1} /\ todo[1] = x
  BY <1>2
<1>4. t = [w EXCEPT !.stage = "targets", !.todo = todo]
  BY DEF x
<1> HIDE DEF todo
<1>5. /\ t \in Work /\ t.stage = "targets" /\ t.todo = todo /\ t.row = w.row
      /\ t.rest = w.rest /\ t.prefix = w.prefix
  BY <1>3, <1>4, WorkIs DEF WorkStages
<1>6. Queue(todo) = {w.prefix}
  BY <1>2, <1>3 DEF Queue
<1>7. Underway(IndexOf(F), IndexOf(F), w.prefix, Queue(todo))
  BY <1>1, <1>6, UnderwayStarts
<1>8. TxnOnTrack(t, F, F)
  BY <1>1, <1>2, <1>3, <1>5, <1>7 DEF TxnOnTrack
<1>9. OnItsWay(t, F)
  BY <1>5 DEF OnItsWay, TxnStages
<1>10. QED
  BY <1>5, <1>8, <1>9 DEF ScraperFits

\* What a transaction knows of its first target.
LEMMA FrontTarget ==
  ASSUME NEW F, GoodDb(F), NEW D, GoodDb(D), NEW w, ScraperFits(w, F, D),
         w.stage \in TxnStages, w.todo # << >>
  PROVE  /\ w \in Work /\ w.todo \in Seq(Target) /\ w.rest = Root
         /\ w.prefix \in AttrSets \cap Requested
         /\ w.todo[1].row \in DOMAIN D.sets
         /\ AttrSetPaths(D)[w.todo[1].row] = w.todo[1].prefix
         /\ w.todo[1].prefix \in Queue(w.todo) /\ w.todo[1].prefix \in AttrSets
         /\ w.todo[1].prefix \in IndexOf(D).rows
         /\ Underway(IndexOf(F), IndexOf(D), w.prefix, Queue(w.todo))
         /\ IndexOf(D).done = IndexOf(F).done
<1>1. w \in Work /\ OnItsWay(w, F) /\ TxnOnTrack(w, F, D)
  BY DEF ScraperFits
<1>2. w.todo \in Seq(Target)
  BY <1>1, WorkFields
<1>3. /\ w.todo[1].prefix \in Queue(w.todo) /\ w.todo[1].prefix \in AttrSets
      /\ 1 \in DOMAIN w.todo
  BY <1>2, QueueTail
<1>4. /\ w.todo[1].row \in DOMAIN D.sets
      /\ AttrSetPaths(D)[w.todo[1].row] = w.todo[1].prefix
      /\ Underway(IndexOf(F), IndexOf(D), w.prefix, Queue(w.todo))
  BY <1>1, <1>3 DEF TxnOnTrack
<1>5. IndexOf(D).done = IndexOf(F).done /\ w.todo[1].prefix \in IndexOf(D).rows
  BY <1>3, <1>4 DEF Underway
<1>6. w.prefix \in AttrSets \cap Requested /\ w.rest = Root
  BY <1>1 DEF OnItsWay, TxnStages
<1>7. QED
  BY <1>1, <1>2, <1>3, <1>4, <1>5, <1>6

\* A target that is done is skipped.
LEMMA SkipFits ==
  ASSUME NEW F, GoodDb(F), Sound(IndexOf(F)), NEW D, GoodDb(D),
         NEW w, ScraperFits(w, F, D), w.stage = "targets", w.todo # << >>,
         D.sets[w.todo[1].row].done,
         NEW t, t = [w EXCEPT !.todo = Tail(w.todo)]
  PROVE  ScraperFits(t, F, D) /\ t.stage = "targets"
<1> DEFINE todo == Tail(w.todo)
<1> DEFINE q == w.todo[1].prefix
<1>1. w.stage \in TxnStages
  BY DEF TxnStages
<1>2. /\ w \in Work /\ w.todo \in Seq(Target) /\ w.prefix \in AttrSets
      /\ w.todo[1].row \in DOMAIN D.sets /\ AttrSetPaths(D)[w.todo[1].row] = q
      /\ q \in Queue(w.todo)
      /\ Underway(IndexOf(F), IndexOf(D), w.prefix, Queue(w.todo))
  BY <1>1, FrontTarget
<1>3. /\ todo \in Seq(Target)
      /\ \A k \in DOMAIN todo : k + 1 \in DOMAIN w.todo /\ todo[k] = w.todo[k + 1]
      /\ Queue(todo) \subseteq Queue(w.todo) /\ Queue(w.todo) \ {q} \subseteq Queue(todo)
  BY <1>2, QueueTail
<1>4. /\ t \in Work /\ t.stage = "targets" /\ t.todo = todo /\ t.row = w.row
      /\ t.rest = w.rest /\ t.prefix = w.prefix
  <2>1. t = [w EXCEPT !.todo = todo]
    OBVIOUS
  <2> HIDE DEF todo
  <2>2. QED
    BY <1>2, <1>3, <2>1, WorkIs
<1> HIDE DEF todo, q
<1>5. q \in IndexOf(D).done
  BY <1>2, DoneByRow
<1>6. Underway(IndexOf(F), IndexOf(D), w.prefix, Queue(todo))
  BY <1>2, <1>3, <1>5, UnderwaySkips
<1>7. \A k \in DOMAIN todo : /\ todo[k].row \in DOMAIN D.sets
                             /\ AttrSetPaths(D)[todo[k].row] = todo[k].prefix
  BY <1>3 DEF ScraperFits, TxnOnTrack
<1>8. TxnOnTrack(t, F, D)
  BY <1>4, <1>6, <1>7 DEF TxnOnTrack
<1>9. OnItsWay(t, F)
  BY <1>1, <1>4, TurnOnItsWay DEF ScraperFits
<1>10. QED
  BY <1>4, <1>8, <1>9 DEF ScraperFits

\* The attributes of a target: its derivations and the sets to push.
LEMMA AttrsAreNames ==
  ASSUME NEW t \in AttrSets
  PROVE  /\ AttrsOf(t) \subseteq Name
         /\ \A d \in DrvsOf({t}) : d[2] \in AttrsOf(t)
         /\ \A c \in Kids(t) : /\ Last(c) \in AttrsOf(t) /\ c = Below(t, Last(c))
                               /\ c \in Paths /\ c \in AttrSets
<1>1. \A d \in DrvsOf({t}) : d[2] \in AttrsOf(t) /\ d[2] \in Name
  BY FlakeAssumption DEF DrvsOf, AttrsOf, Name
<1>2. ASSUME NEW c \in Kids(t)
      PROVE  /\ Last(c) \in AttrsOf(t) /\ c = Below(t, Last(c)) /\ Last(c) \in Name
             /\ c \in Paths /\ c \in AttrSets
  <2>1. c \in Paths /\ c \in AttrSets /\ Parent(c) = t
    BY FlakeAssumption DEF Kids
  <2>2. c = Below(t, Last(c)) /\ Last(c) \in Name
    BY <2>1, RowPathIsPath, PathBuilds
  <2>3. QED
    BY <2>1, <2>2 DEF AttrsOf
<1>3. QED
  BY <1>1, <1>2 DEF AttrsOf

\* The attributes of a target that is not done are to be dealt with.
LEMMA TakeFits ==
  ASSUME NEW F, GoodDb(F), NEW D, GoodDb(D),
         NEW w, ScraperFits(w, F, D), w.stage = "targets", w.todo # << >>,
         ~D.sets[w.todo[1].row].done,
         NEW t, t = [w EXCEPT !.stage = "attrs", !.left = AttrsOf(w.todo[1].prefix)]
  PROVE  ScraperFits(t, F, D) /\ t.stage = "attrs"
<1> DEFINE q == w.todo[1].prefix
<1> DEFINE left == AttrsOf(q)
<1>1. w.stage \in TxnStages
  BY DEF TxnStages
<1>2. /\ w \in Work /\ q \in AttrSets
      /\ w.todo[1].row \in DOMAIN D.sets /\ AttrSetPaths(D)[w.todo[1].row] = q
      /\ Underway(IndexOf(F), IndexOf(D), w.prefix, Queue(w.todo))
      /\ IndexOf(D).done = IndexOf(F).done
  BY <1>1, FrontTarget
<1>3. q \notin IndexOf(F).done
  BY <1>2, DoneByRow
<1> HIDE DEF q
<1>4. /\ left \in SUBSET Name
      /\ \A d \in DrvsOf({q}) : d[2] \in left
      /\ \A c \in Kids(q) : Last(c) \in left
  BY <1>2, AttrsAreNames
<1>5. /\ t \in Work /\ t.stage = "attrs" /\ t.todo = w.todo /\ t.row = w.row
      /\ t.rest = w.rest /\ t.prefix = w.prefix /\ t.left = left
  <2>1. t = [w EXCEPT !.stage = "attrs", !.left = left]
    BY DEF q
  <2> HIDE DEF left
  <2>2. QED
    BY <1>2, <1>4, <2>1, WorkIs DEF WorkStages
<1>6. \A k \in DOMAIN w.todo : /\ w.todo[k].row \in DOMAIN D.sets
                               /\ AttrSetPaths(D)[w.todo[k].row] = w.todo[k].prefix
  BY DEF ScraperFits, TxnOnTrack
<1>7. TxnOnTrack(t, F, D)
  BY <1>2, <1>3, <1>4, <1>5, <1>6 DEF TxnOnTrack, q
<1>8. OnItsWay(t, F)
  <2>1. OnItsWay(w, F) /\ t.stage \in TxnStages
    BY <1>5 DEF ScraperFits, TxnStages
  <2>2. QED
    BY <1>1, <1>5, <2>1, TurnOnItsWay
<1>9. QED
  BY <1>5, <1>7, <1>8 DEF ScraperFits

\* What a transaction in the middle of a target knows of it.
LEMMA InTarget ==
  ASSUME NEW F, GoodDb(F), NEW D, GoodDb(D), NEW w, ScraperFits(w, F, D), w.stage = "attrs"
  PROVE  /\ w \in Work /\ OnItsWay(w, F) /\ w.stage \in TxnStages
         /\ w.todo \in Seq(Target) /\ w.todo # << >>
         /\ w.prefix \in AttrSets /\ w.left \subseteq Name
         /\ w.todo[1].row \in DOMAIN D.sets
         /\ AttrSetPaths(D)[w.todo[1].row] = w.todo[1].prefix
         /\ w.todo[1].prefix \in Queue(w.todo) /\ w.todo[1].prefix \in AttrSets
         /\ w.todo[1].prefix \in Path
         /\ Underway(IndexOf(F), IndexOf(D), w.prefix, Queue(w.todo))
         /\ w.todo[1].prefix \notin IndexOf(F).done
         /\ w.left \subseteq AttrsOf(w.todo[1].prefix)
<1>1. w \in Work /\ OnItsWay(w, F) /\ TxnOnTrack(w, F, D) /\ w.stage \in TxnStages
  BY DEF ScraperFits, TxnStages
<1>2. /\ w.todo # << >> /\ w.todo[1].prefix \notin IndexOf(F).done
      /\ w.left \subseteq AttrsOf(w.todo[1].prefix)
  BY <1>1 DEF TxnOnTrack
<1>3. /\ w.todo \in Seq(Target) /\ w.prefix \in AttrSets
      /\ w.todo[1].row \in DOMAIN D.sets
      /\ AttrSetPaths(D)[w.todo[1].row] = w.todo[1].prefix
      /\ w.todo[1].prefix \in Queue(w.todo) /\ w.todo[1].prefix \in AttrSets
      /\ Underway(IndexOf(F), IndexOf(D), w.prefix, Queue(w.todo))
  BY <1>1, <1>2, FrontTarget
<1>4. w.todo[1].prefix \in Path
  BY <1>3, FlakeAssumption, RowPathIsPath
<1>5. w.left \subseteq Name
  BY <1>1, WorkFields
<1>6. QED
  BY <1>1, <1>2, <1>3, <1>4, <1>5

\* A package added for one of the attributes.
LEMMA DrvFits ==
  ASSUME NEW F, GoodDb(F), NEW D, GoodDb(D), NEW w, ScraperFits(w, F, D), w.stage = "attrs",
         NEW n \in w.left, <<w.todo[1].prefix, n>> \in Derivations,
         NEW E, E = AddPackage(D, w.todo[1].row, <<w.todo[1].prefix, n>>),
         NEW t, t = [w EXCEPT !.left = w.left \ {n}]
  PROVE  GoodDb(E) /\ Grows(D, E) /\ ScraperFits(t, F, E) /\ t.stage = "attrs"
<1> DEFINE q == w.todo[1].prefix
<1> DEFINE d == <<q, n>>
<1> DEFINE left == w.left \ {n}
<1>1. /\ w \in Work /\ OnItsWay(w, F) /\ w.stage \in TxnStages
      /\ w.todo # << >>
      /\ w.prefix \in AttrSets /\ left \in SUBSET Name
      /\ w.todo[1].row \in DOMAIN D.sets /\ AttrSetPaths(D)[w.todo[1].row] = q
      /\ q \in Queue(w.todo)
      /\ Underway(IndexOf(F), IndexOf(D), w.prefix, Queue(w.todo))
      /\ q \notin IndexOf(F).done /\ w.left \subseteq AttrsOf(q)
  BY InTarget
<1>2. /\ d \in Derivations /\ d[1] = q /\ d[2] = n
      /\ E = AddPackage(D, w.todo[1].row, d)
  OBVIOUS
<1>3. TxnOnTrack(w, F, D)
  BY DEF ScraperFits
<1>4. /\ \A e \in DrvsOf({q}) : e[2] \in w.left \/ e \in IndexOf(D).pkgs
      /\ \A c \in Kids(q) : Last(c) \in w.left \/ c \in Queue(Tail(w.todo))
  BY <1>3 DEF TxnOnTrack
<1>5. \A k \in DOMAIN w.todo : /\ w.todo[k].row \in DOMAIN D.sets
                               /\ AttrSetPaths(D)[w.todo[k].row] = w.todo[k].prefix
  BY <1>3 DEF TxnOnTrack
<1>6. /\ t \in Work /\ t.stage = "attrs" /\ t.todo = w.todo /\ t.row = w.row
      /\ t.rest = w.rest /\ t.prefix = w.prefix /\ t.left = left
  <2>1. t = [w EXCEPT !.left = left]
    OBVIOUS
  <2> HIDE DEF left
  <2>2. QED
    BY <1>1, <2>1, WorkIs
<1>7. \A e \in DrvsOf({q}) : e[2] = n => e = d
  BY FlakeAssumption DEF DrvsOf
<1>8. \A c \in Kids(q) : Last(c) # n
  BY <1>2 DEF Kids
<1> HIDE DEF q, d
<1>9. GoodDb(E) /\ Grows(D, E) /\ E.sets = D.sets
  BY <1>1, <1>2, AddPackageEffect
<1>10. IndexOf(E) = [IndexOf(D) EXCEPT !.pkgs = @ \cup {d}]
  <2> DEFINE up == w.todo[1].row
  <2>1. up \in DOMAIN D.sets /\ AttrSetPaths(D)[up] = d[1] /\ E = AddPackage(D, up, d)
    BY <1>1, <1>2
  <2> HIDE DEF up
  <2>2. IndexOf(AddPackage(D, up, d)) = [IndexOf(D) EXCEPT !.pkgs = @ \cup {d}]
    BY <1>2, <2>1, IndexOfAddPackage
  <2>3. QED
    BY <2>1, <2>2
<1>11. IndexOf(D) \in Contents
  BY IndexContents
<1>12. IndexOf(E).pkgs = IndexOf(D).pkgs \cup {d}
  BY <1>10, <1>11 DEF Contents
<1>13. Underway(IndexOf(F), IndexOf(E), w.prefix, Queue(w.todo))
  BY SMTT(30), <1>1, <1>2, <1>10, <1>11, UnderwayAddsPackage
<1>14. AttrSetPaths(E) = AttrSetPaths(D)
  BY <1>9, SamePaths
<1>15. /\ left \subseteq AttrsOf(q)
       /\ \A e \in DrvsOf({q}) : e[2] \in left \/ e \in IndexOf(E).pkgs
       /\ \A c \in Kids(q) : Last(c) \in left \/ c \in Queue(Tail(w.todo))
  BY <1>1, <1>4, <1>7, <1>8, <1>12
<1> HIDE DEF left
<1>16. TxnOnTrack(t, F, E)
  BY <1>1, <1>5, <1>6, <1>9, <1>13, <1>14, <1>15 DEF TxnOnTrack, q
<1>17. OnItsWay(t, F)
  <2>1. t.stage \in TxnStages
    BY <1>6 DEF TxnStages
  <2>2. QED
    BY <1>1, <1>6, <2>1, TurnOnItsWay
<1>18. QED
  BY <1>6, <1>9, <1>16, <1>17 DEF ScraperFits

\* An attribute that is no derivation is one of the sets to push.
LEMMA AttrIsKid ==
  ASSUME NEW q \in AttrSets, NEW n \in AttrsOf(q), <<q, n>> \notin Derivations
  PROVE  Below(q, n) \in Kids(q) /\ Below(q, n) \in Paths /\ Below(q, n) \in AttrSets
<1>1. \A d \in DrvsOf({q}) : d[2] # n
  BY FlakeAssumption DEF DrvsOf
<1>2. PICK c \in Kids(q) : n = Last(c)
  BY <1>1 DEF AttrsOf
<1>3. c = Below(q, n) /\ c \in Paths /\ c \in AttrSets
  BY <1>2, AttrsAreNames
<1>4. QED
  BY <1>2, <1>3

Pushed(w, n, i) ==
    [w EXCEPT !.left = w.left \ {n},
              !.todo = Append(w.todo, [prefix |-> Below(w.todo[1].prefix, n), row |-> i])]

\* Its row is found, or added, and pushed.
LEMMA PushFits ==
  ASSUME NEW F, GoodDb(F), NEW D, GoodDb(D), NEW w, ScraperFits(w, F, D), w.stage = "attrs",
         NEW n \in w.left, <<w.todo[1].prefix, n>> \notin Derivations,
         NEW E, GoodDb(E), Grows(D, E), NEW i \in DOMAIN E.sets,
         AttrSetPaths(E)[i] = Below(w.todo[1].prefix, n),
         IndexOf(E) = AddAttrSet(IndexOf(D), Below(w.todo[1].prefix, n))
  PROVE  ScraperFits(Pushed(w, n, i), F, E) /\ Pushed(w, n, i).stage = "attrs"
<1> DEFINE q == w.todo[1].prefix
<1> DEFINE c == Below(q, n)
<1> DEFINE t == Pushed(w, n, i)
<1> DEFINE x == [prefix |-> c, row |-> i]
<1> DEFINE todo == Append(w.todo, x)
<1> DEFINE left == w.left \ {n}
<1>1. /\ w \in Work /\ OnItsWay(w, F) /\ w.stage \in TxnStages
      /\ w.todo \in Seq(Target) /\ w.todo # << >>
      /\ w.prefix \in AttrSets /\ left \in SUBSET Name /\ n \in AttrsOf(q)
      /\ q \in Queue(w.todo) /\ q \in AttrSets
      /\ Underway(IndexOf(F), IndexOf(D), w.prefix, Queue(w.todo))
      /\ q \notin IndexOf(F).done /\ w.left \subseteq AttrsOf(q)
  BY InTarget
<1>2. <<q, n>> \notin Derivations
  OBVIOUS
<1>3. c \in Kids(q) /\ c \in AttrSets
  BY <1>1, <1>2, AttrIsKid
<1>4. x \in Target /\ x.prefix = c /\ x.row = i
  <2>1. i \in Nat
    BY GoodParts, TreeRows
  <2> HIDE DEF c
  <2>2. QED
    BY <1>3, <2>1 DEF Target
<1>5. t = [w EXCEPT !.left = left, !.todo = todo] /\ todo = Append(w.todo, x)
  BY DEF Pushed
<1>6. TxnOnTrack(w, F, D)
  BY DEF ScraperFits
<1>7. /\ \A e \in DrvsOf({q}) : e[2] \in w.left \/ e \in IndexOf(D).pkgs
      /\ \A k \in Kids(q) : Last(k) \in w.left \/ k \in Queue(Tail(w.todo))
  BY <1>6 DEF TxnOnTrack
<1>8. \A k \in DOMAIN w.todo : /\ w.todo[k].row \in DOMAIN D.sets
                               /\ AttrSetPaths(D)[w.todo[k].row] = w.todo[k].prefix
  BY <1>6 DEF TxnOnTrack
<1>9. \A e \in DrvsOf({q}) : e[2] # n
  BY <1>2, FlakeAssumption DEF DrvsOf
<1>10. \A k \in Kids(q) : Last(k) = n => k = c
  BY <1>1, AttrsAreNames
<1>11. AttrSetPaths(E)[i] = c /\ IndexOf(E) = AddAttrSet(IndexOf(D), c)
  OBVIOUS
<1> HIDE DEF q, c, x, todo, t
<1>12. /\ todo \in Seq(Target) /\ todo # << >> /\ todo[1] = w.todo[1]
       /\ \A k \in DOMAIN todo : (k \in DOMAIN w.todo /\ todo[k] = w.todo[k]) \/ todo[k] = x
       /\ Queue(todo) = Queue(w.todo) \cup {c}
       /\ Queue(Tail(w.todo)) \subseteq Queue(Tail(todo)) /\ c \in Queue(Tail(todo))
  BY <1>1, <1>4, <1>5, QueueAppend
<1>13. /\ t \in Work /\ t.stage = "attrs" /\ t.todo = todo /\ t.row = w.row
       /\ t.rest = w.rest /\ t.prefix = w.prefix /\ t.left = left
  <2> HIDE DEF left
  <2>1. QED
    BY <1>1, <1>5, <1>12, WorkIs
<1>14. IndexOf(D) \in Contents
  BY IndexContents
<1>15. IndexOf(E).pkgs = IndexOf(D).pkgs
  BY <1>11, <1>14 DEF Contents, AddAttrSet
<1>16. Underway(IndexOf(F), IndexOf(E), w.prefix, Queue(todo))
  <2>1. Underway(IndexOf(F), AddAttrSet(IndexOf(D), c), w.prefix, Queue(w.todo) \cup {c})
    BY <1>1, <1>3, <1>14, UnderwayPushes
  <2>2. QED
    BY <1>11, <1>12, <2>1
<1>17. \A k \in DOMAIN todo : /\ todo[k].row \in DOMAIN E.sets
                              /\ AttrSetPaths(E)[todo[k].row] = todo[k].prefix
  <2>1. \A j \in DOMAIN D.sets : j \in DOMAIN E.sets /\ AttrSetPaths(E)[j] = AttrSetPaths(D)[j]
    <3>1. /\ \A j \in {0} \cup DOMAIN D.sets :
                j \in {0} \cup DOMAIN E.sets /\ AttrSetPaths(E)[j] = AttrSetPaths(D)[j]
          /\ \A j \in DOMAIN D.sets : j \in DOMAIN E.sets
      BY GrowsKeeps
    <3>2. QED
      BY <3>1
  <2>2. QED
    BY <1>4, <1>8, <1>11, <1>12, <2>1
<1>18. /\ left \subseteq AttrsOf(q)
       /\ \A e \in DrvsOf({q}) : e[2] \in left \/ e \in IndexOf(E).pkgs
       /\ \A k \in Kids(q) : Last(k) \in left \/ k \in Queue(Tail(todo))
  BY <1>1, <1>7, <1>9, <1>10, <1>12, <1>15
<1> HIDE DEF left
<1>19. TxnOnTrack(t, F, E)
  BY <1>1, <1>12, <1>13, <1>16, <1>17, <1>18 DEF TxnOnTrack, q
<1>20. OnItsWay(t, F)
  <2>1. t.stage \in TxnStages
    BY <1>13 DEF TxnStages
  <2>2. QED
    BY <1>1, <1>13, <2>1, TurnOnItsWay
<1>21. QED
  BY <1>13, <1>19, <1>20 DEF ScraperFits, t

\* All attributes are dealt with: the target is popped.
LEMMA PopFits ==
  ASSUME NEW F, GoodDb(F), NEW D, GoodDb(D), NEW w, ScraperFits(w, F, D), w.stage = "attrs",
         w.left = {}, ~Fails(w.todo[1].prefix),
         NEW t, t = [w EXCEPT !.stage = "targets", !.todo = Tail(w.todo)]
  PROVE  ScraperFits(t, F, D) /\ t.stage = "targets"
<1> DEFINE q == w.todo[1].prefix
<1> DEFINE todo == Tail(w.todo)
<1>1. /\ w \in Work /\ OnItsWay(w, F) /\ w.stage \in TxnStages
      /\ w.todo \in Seq(Target) /\ w.todo # << >> /\ w.prefix \in AttrSets
      /\ q \in Queue(w.todo) /\ q \notin IndexOf(F).done /\ ~Fails(q)
      /\ Underway(IndexOf(F), IndexOf(D), w.prefix, Queue(w.todo))
  BY InTarget
<1>2. TxnOnTrack(w, F, D)
  BY DEF ScraperFits
<1>3. /\ DrvsOf({q}) \subseteq IndexOf(D).pkgs
      /\ Kids(q) \subseteq Queue(todo)
  BY <1>2 DEF TxnOnTrack
<1>4. /\ todo \in Seq(Target)
      /\ \A k \in DOMAIN todo : k + 1 \in DOMAIN w.todo /\ todo[k] = w.todo[k + 1]
      /\ Queue(todo) \subseteq Queue(w.todo) /\ Queue(w.todo) \ {q} \subseteq Queue(todo)
  BY <1>1, QueueTail
<1>5. /\ t \in Work /\ t.stage = "targets" /\ t.todo = todo /\ t.row = w.row
      /\ t.rest = w.rest /\ t.prefix = w.prefix
  <2>1. t = [w EXCEPT !.stage = "targets", !.todo = todo]
    OBVIOUS
  <2> HIDE DEF todo
  <2>2. QED
    BY <1>1, <1>4, <2>1, WorkIs DEF WorkStages
<1> HIDE DEF todo, q
<1>6. Underway(IndexOf(F), IndexOf(D), w.prefix, Queue(todo))
  <2>1. IndexOf(D) \in Contents
    BY IndexContents
  <2>2. QED
    BY <1>1, <1>3, <1>4, <2>1, UnderwayPops
<1>7. \A k \in DOMAIN todo : /\ todo[k].row \in DOMAIN D.sets
                             /\ AttrSetPaths(D)[todo[k].row] = todo[k].prefix
  BY <1>2, <1>4 DEF TxnOnTrack
<1>8. TxnOnTrack(t, F, D)
  BY <1>5, <1>6, <1>7 DEF TxnOnTrack
<1>9. OnItsWay(t, F)
  <2>1. t.stage \in TxnStages
    BY <1>5 DEF TxnStages
  <2>2. QED
    BY <1>1, <1>5, <2>1, TurnOnItsWay
<1>10. QED
  BY <1>5, <1>8, <1>9 DEF ScraperFits

\* The queue is empty: what is marked and committed is what PrefixIndex says.
LEMMA FinishEffect ==
  ASSUME NEW F, GoodDb(F), Sound(IndexOf(F)), NEW D, GoodDb(D), Grows(F, D),
         NEW w, ScraperFits(w, F, D), w.stage = "targets", w.todo = << >>,
         NEW E, E = SetRowsDone(D, w.row, TRUE)
  PROVE  /\ GoodDb(E) /\ Grows(F, E) /\ Sound(IndexOf(E))
         /\ IndexOf(E) = Result(IndexOf(F), w.prefix)
         /\ w.prefix \in IndexOf(F).rows \cap AttrSets /\ w.prefix \in Paths
         /\ Len(w.prefix) > 1
         /\ w.prefix \in IndexOf(F).done \/ ~Fails(w.prefix)
<1> DEFINE q == w.prefix
<1> DEFINE I == IndexOf(F)
<1>1. w \in Work /\ OnItsWay(w, F) /\ TxnOnTrack(w, F, D) /\ w.stage \in TxnStages
  BY DEF ScraperFits, TxnStages
<1>2. q \in AttrSets /\ w.rest = Root /\ w.stage # "idle"
  BY <1>1 DEF OnItsWay, TxnStages
<1>3. /\ q \in Requested /\ w.row \in DOMAIN F.sets
      /\ AttrSetPaths(F)[w.row] = q /\ q \in I.rows
  BY <1>1, <1>2, WalkEnds
<1>4. q \in Paths /\ Len(q) > 1
  BY <1>3, RequestedIsPath
<1>5. w.row \in DOMAIN D.sets /\ AttrSetPaths(D)[w.row] = q
  <2>1. /\ \A i \in {0} \cup DOMAIN F.sets :
              i \in {0} \cup DOMAIN D.sets /\ AttrSetPaths(D)[i] = AttrSetPaths(F)[i]
        /\ \A i \in DOMAIN F.sets : i \in DOMAIN D.sets
    BY GrowsKeeps
  <2>2. QED
    BY <1>3, <2>1
<1>6. GoodDb(E) /\ Grows(D, E) /\ IndexOf(E) = SetPrefixDone(IndexOf(D), q, TRUE)
  BY <1>5, MarkEffect, IndexOfMark
<1>7. Underway(I, IndexOf(D), q, {})
  <2>1. Queue(w.todo) = {}
    BY DEF Queue
  <2>2. QED
    BY <1>1, <2>1 DEF TxnOnTrack
<1>8. I \in Contents /\ IndexOf(D) \in Contents
  BY IndexContents
<1>9. IndexOf(E) = Result(I, q) /\ (q \in I.done \/ ~Fails(q))
  BY <1>2, <1>6, <1>7, <1>8, UnderwayEnds
<1> HIDE DEF I, q
<1>10. Sound(Result(I, q))
  <2>1. Sound(I)
    BY DEF I
  <2>2. CASE q \in I.done
    BY <1>3, <1>4, <2>1, <2>2, MarkKeepsSound DEF Result
  <2>3. CASE q \notin I.done
    <3>1. Sound(Filled(I, q)) /\ FullyScraped(Filled(I, q), q)
      BY <1>2, <1>3, <2>1, FillKeepsSound
    <3>2. q \in Filled(I, q).rows
      BY <1>2, <1>3, <1>8, FilledEffect
    <3>3. QED
      BY <1>4, <2>3, <3>1, <3>2, MarkKeepsSound DEF Result
  <2>4. QED
    BY <2>2, <2>3
<1>11. Grows(F, E)
  BY <1>6, GrowsTransitive
<1>12. QED
  BY <1>2, <1>3, <1>4, <1>6, <1>9, <1>10, <1>11 DEF I, q
-----------------------------------------------------------------------------
(***************************************************************************)
(* What a step may do to the invariant, to ids, and to the tables read as  *)
(* paths: what module PrefixIndex says, or nothing.                        *)
(***************************************************************************)
IndexStep(I, J) ==
    \/ J = I
    \/ \E s \in Paths : s \notin I.rows /\ HasParentRow(I, s) /\ J = AddAttrSet(I, s)
    \/ \E q \in Paths : Len(q) > 1 /\ q \in I.rows /\ J = SetPrefixDone(I, q, FALSE)
    \/ \E q \in Paths : /\ Len(q) > 1 /\ q \in I.rows \cap AttrSets
                        /\ q \in I.done \/ ~Fails(q)
                        /\ J = Result(I, q)

Keeps == RowsInv' /\ Grows(file, file') /\ IndexStep(IndexOf(file), IndexOf(file'))

\* The invariant in the terms of the lemmas above, ...
LEMMA InvParts ==
  ASSUME RowsInv
  PROVE  /\ GoodDb(file) /\ GoodDb(dirty) /\ Sound(IndexOf(file)) /\ Grows(file, dirty)
         /\ writer \in {None} \cup Scrapers
         /\ work \in [Scrapers -> Work] /\ reader \in [Readers -> Reading]
         /\ writer # None => InTxn(writer)
         /\ writer = None => dirty = file
         /\ \A p \in Scrapers : /\ GoodDb(View(p)) /\ Grows(file, View(p))
                                /\ work[p] \in Work /\ OnItsWay(work[p], file)
                                /\ ScraperFits(work[p], file, View(p))
         /\ \A r \in Readers : ReaderFits(reader[r], file)
<1>1. /\ GoodDb(file) /\ GoodDb(dirty) /\ Sound(IndexOf(file)) /\ Grows(file, dirty)
      /\ writer \in {None} \cup Scrapers
      /\ work \in [Scrapers -> Work] /\ reader \in [Readers -> Reading]
      /\ writer # None => InTxn(writer)
      /\ writer = None => dirty = file
  BY DEF RowsInv, TypeOK, WriterExtends, GoodDb
<1>2. ASSUME NEW p \in Scrapers
      PROVE  /\ GoodDb(View(p)) /\ Grows(file, View(p))
             /\ work[p] \in Work /\ OnItsWay(work[p], file)
             /\ ScraperFits(work[p], file, View(p))
  <2>1. OnItsWay(work[p], file) /\ TxnOnTrack(work[p], file, View(p)) /\ work[p] \in Work
    BY <1>1 DEF RowsInv
  <2>2. GoodDb(View(p)) /\ Grows(file, View(p))
    BY <1>1, GrowsReflexive DEF View
  <2>3. QED
    BY <2>1, <2>2 DEF ScraperFits
<1>3. ASSUME NEW r \in Readers PROVE ReaderFits(reader[r], file)
  <2>1. reader[r] \in Reading /\ ReadsRight(reader[r], file) /\ AnswerIsRight(reader[r])
    BY <1>1 DEF RowsInv
  <2>2. QED
    BY <2>1 DEF ReaderFits
<1>4. QED
  BY <1>1, <1>2, <1>3

\* ... and back, for the next state.
LEMMA PartsInv ==
  ASSUME GoodDb(file'), GoodDb(dirty'), Sound(IndexOf(file')), Grows(file', dirty'),
         writer' \in {None} \cup Scrapers,
         writer' # None => InTxn(writer)',
         writer' = None => dirty' = file',
         work' \in [Scrapers -> Work], reader' \in [Readers -> Reading],
         \A p \in Scrapers : ScraperFits(work'[p], file', View(p)'),
         \A r \in Readers : ReaderFits(reader'[r], file')
  PROVE  RowsInv'
<1>1. TypeOK'
  BY DEF TypeOK, GoodDb
<1>2. WriterExtends'
  BY DEF WriterExtends
<1>3. \A p \in Scrapers : OnItsWay(work'[p], file') /\ TxnOnTrack(work'[p], file', View(p)')
  BY DEF ScraperFits
<1>4. \A r \in Readers : ReadsRight(reader'[r], file') /\ AnswerIsRight(reader'[r])
  BY DEF ReaderFits
<1>5. WellFormed(file') /\ WellFormed(dirty')
  BY DEF GoodDb
<1>6. QED
  BY <1>1, <1>2, <1>3, <1>4, <1>5 DEF RowsInv

\* One scraper's variables change.
LEMMA SetEffect ==
  ASSUME NEW p \in Scrapers, work \in [Scrapers -> Work], NEW t \in Work, Set(p, t)
  PROVE  /\ work' \in [Scrapers -> Work] /\ work'[p] = t
         /\ \A o \in Scrapers : o # p => work'[o] = work[o]
BY DEF Set

\* With the file as it was, nothing else is to be shown.
LEMMA SameFile ==
  ASSUME file' = file, RowsInv'
  PROVE  Keeps
BY GrowsReflexive DEF Keeps, IndexStep

\* A step that writes nothing.
LEMMA OwnStep ==
  ASSUME RowsInv, NEW p \in Scrapers, NEW t, Set(p, t),
         UNCHANGED <<file, dirty, writer, reader>>,
         ScraperFits(t, file, View(p)), InTxn(p) => t.stage \in TxnStages
  PROVE  Keeps
<1>1. t \in Work
  BY DEF ScraperFits
<1>2. /\ work' \in [Scrapers -> Work] /\ work'[p] = t
      /\ \A o \in Scrapers : o # p => work'[o] = work[o]
  BY <1>1, InvParts, SetEffect
<1>3. \A o \in Scrapers : ScraperFits(work'[o], file', View(o)')
  <2>1. \A o \in Scrapers : View(o)' = View(o) /\ ScraperFits(work[o], file, View(o))
    BY InvParts DEF View
  <2>2. QED
    BY <1>2, <2>1
<1>4. writer' # None => InTxn(writer)'
  BY <1>2, InvParts DEF InTxn
<1>5. RowsInv'
  BY <1>2, <1>3, <1>4, InvParts, PartsInv
<1>6. QED
  BY <1>5, SameFile

\* A step of the transaction that writes.
LEMMA WriteStep ==
  ASSUME RowsInv, NEW p \in Scrapers, NEW t, Set(p, t), MayReserve(p),
         UNCHANGED <<file, reader>>, writer' = p,
         GoodDb(dirty'), Grows(View(p), dirty'),
         ScraperFits(t, file, dirty'), t.stage \in TxnStages
  PROVE  Keeps
<1>1. t \in Work /\ p # None
  BY RowsAssumption DEF ScraperFits
<1>2. /\ work' \in [Scrapers -> Work] /\ work'[p] = t
      /\ \A o \in Scrapers : o # p => work'[o] = work[o]
  BY <1>1, InvParts, SetEffect
<1>3. \A o \in Scrapers : ScraperFits(work'[o], file', View(o)')
  <2>1. \A o \in Scrapers : o # p => View(o) = file /\ View(o)' = file
    BY <1>1, RowsAssumption DEF View, MayReserve
  <2>2. View(p)' = dirty'
    BY DEF View
  <2>3. QED
    BY <1>2, <2>1, <2>2, InvParts
<1>4. InTxn(writer)'
  BY <1>2 DEF InTxn
<1>5. Grows(file, dirty')
  BY InvParts, GrowsTransitive
<1>6. RowsInv'
  BY <1>1, <1>2, <1>3, <1>4, <1>5, InvParts, PartsInv
<1>7. QED
  BY <1>6, SameFile

\* A step that commits: of the others, none is in a transaction.
LEMMA CommitStep ==
  ASSUME RowsInv, NEW p \in Scrapers, NEW t, Set(p, t), ~OthersInTxn(p),
         dirty' = file', UNCHANGED reader, writer' = None,
         GoodDb(file'), Grows(file, file'), Sound(IndexOf(file')),
         IndexStep(IndexOf(file), IndexOf(file')),
         ScraperFits(t, file', file')
  PROVE  Keeps
<1>1. t \in Work
  BY DEF ScraperFits
<1>2. /\ work' \in [Scrapers -> Work] /\ work'[p] = t
      /\ \A o \in Scrapers : o # p => work'[o] = work[o]
  BY <1>1, InvParts, SetEffect
<1>3. \A o \in Scrapers : View(o)' = file'
  BY RowsAssumption DEF View
<1>4. \A o \in Scrapers : ScraperFits(work'[o], file', View(o)')
  <2> SUFFICES ASSUME NEW o \in Scrapers, o # p PROVE ScraperFits(work[o], file', file')
    BY <1>2, <1>3
  <2>1. work[o].stage \notin TxnStages
    BY DEF OthersInTxn, InTxn
  <2>2. work[o] \in Work /\ OnItsWay(work[o], file)
    BY InvParts
  <2>3. OnItsWay(work[o], file')
    BY <2>2, InvParts, OnItsWayGrows
  <2>4. QED
    BY <2>1, <2>2, <2>3, NoTxnFits
<1>5. \A r \in Readers : ReaderFits(reader'[r], file')
  <2> SUFFICES ASSUME NEW r \in Readers PROVE ReaderFits(reader[r], file')
    OBVIOUS
  <2>1. ReaderFits(reader[r], file)
    BY InvParts
  <2>2. ReadsRight(reader[r], file')
    BY <2>1, InvParts, ReadsRightGrows DEF ReaderFits
  <2>3. QED
    BY <2>1, <2>2 DEF ReaderFits
<1>6. RowsInv'
  BY <1>2, <1>4, <1>5, InvParts, PartsInv, GrowsReflexive
<1>7. QED
  BY <1>6 DEF Keeps

\* A step of a reader.
LEMMA ReadStep ==
  ASSUME RowsInv, NEW r \in Readers, NEW s, SetReader(r, s),
         UNCHANGED <<file, dirty, writer, work>>, ReaderFits(s, file)
  PROVE  Keeps
<1>1. s \in Reading
  BY DEF ReaderFits
<1>2. /\ reader' \in [Readers -> Reading]
      /\ \A o \in Readers : reader'[o] = IF o = r THEN s ELSE reader[o]
  BY <1>1, InvParts DEF SetReader
<1>3. \A o \in Readers : ReaderFits(reader'[o], file')
  BY <1>2, InvParts
<1>4. \A o \in Scrapers : ScraperFits(work'[o], file', View(o)')
  <2>1. \A o \in Scrapers : View(o)' = View(o) /\ ScraperFits(work[o], file, View(o))
    BY InvParts DEF View
  <2>2. QED
    BY <2>1
<1>5. writer' # None => InTxn(writer)'
  BY InvParts DEF InTxn
<1>6. RowsInv'
  BY <1>2, <1>3, <1>4, <1>5, InvParts, PartsInv
<1>7. QED
  BY <1>6, SameFile

\* The row a SELECT finds.
LEMMA TheIn == ASSUME NEW S, S # {} PROVE The(S) \in S
BY DEF The

\* The row an INSERT adds.
LEMMA TheOnly == ASSUME NEW x PROVE The({x}) = x
BY DEF The

\* Who is in no transaction commits when no one is in one.
LEMMA NobodyWrites ==
  ASSUME RowsInv, NEW p \in Scrapers, ~InTxn(p), ~OthersInTxn(p)
  PROVE  writer = None
BY InvParts DEF OthersInTxn

\* The scrapers' actions, one by one.
LEMMA AskKeeps ==
  ASSUME RowsInv, NEW p \in Scrapers, NEW q \in Requested, NEW force \in BOOLEAN,
         Ask(p, q, force)
  PROVE  Keeps
<1> DEFINE stage == IF force THEN "unmark" ELSE "check"
<1> DEFINE t == [IdleWork EXCEPT !.prefix = q, !.rest = q, !.stage = stage]
<1>1. stage \in {"unmark", "check"} /\ Set(p, t) /\ ~InTxn(p)
      /\ UNCHANGED <<file, dirty, writer, reader>>
  BY DEF Ask, InTxn, TxnStages
<1> HIDE DEF stage
<1>2. GoodDb(file)
  BY InvParts
<1>3. ScraperFits(t, file, View(p))
  BY <1>1, <1>2, AskFits
<1> HIDE DEF t
<1>4. QED
  BY <1>1, <1>3, OwnStep

LEMMA AddOrGetAttrSetIdKeeps ==
  ASSUME RowsInv, NEW p \in Scrapers, AddOrGetAttrSetId(p)
  PROVE  Keeps
<1> DEFINE w == work[p]
<1> DEFINE n == Head(w.rest)
<1> DEFINE ids == SetIds(file, w.row, n)
<1>1. /\ w.stage \in {"unmark", "check", "enter"} /\ w.rest # Root /\ w.stage # "idle"
      /\ w \in Work /\ OnItsWay(w, file) /\ GoodDb(file) /\ ~InTxn(p)
      /\ Sound(IndexOf(file))
  BY InvParts DEF AddOrGetAttrSetId, InTxn, TxnStages
<1>2. /\ w.row \in {0} \cup DOMAIN file.sets /\ n \in Name
      /\ Below(AttrSetPaths(file)[w.row], n) \in Paths
  BY <1>1, NextOnTheWay
<1>3. CASE ids # {} /\ Set(p, Step(w, ids)) /\ UNCHANGED <<file, dirty>>
  <2> DEFINE i == The(ids)
  <2> DEFINE t == [w EXCEPT !.row = i, !.rest = Tail(w.rest)]
  <2>1. i \in ids
    BY <1>3, TheIn
  <2>2. i \in DOMAIN file.sets /\ AttrSetPaths(file)[i] = Below(AttrSetPaths(file)[w.row], n)
    BY <1>1, <2>1, FoundByName
  <2>3. Set(p, t) /\ UNCHANGED <<file, dirty, writer, reader>>
    BY <1>3 DEF Step, AddOrGetAttrSetId
  <2> HIDE DEF i
  <2>4. ScraperFits(t, file, View(p))
    BY <1>1, <2>2, StepFits
  <2> HIDE DEF t, ids, w
  <2>5. QED
    BY <1>1, <2>3, <2>4, OwnStep
<1>4. CASE /\ ids = {} /\ ~OthersInTxn(p)
           /\ file' = AddSet(file, w.row, n) /\ dirty' = file'
           /\ Set(p, Step(w, {NewId(file.sets)}))
  <2> DEFINE i == NewId(file.sets)
  <2> DEFINE t == [w EXCEPT !.row = i, !.rest = Tail(w.rest)]
  <2> DEFINE s == Below(AttrSetPaths(file)[w.row], n)
  <2>1. Set(p, t) /\ UNCHANGED <<writer, reader>> /\ dirty' = file' /\ ~OthersInTxn(p)
    BY <1>4, TheOnly DEF Step, AddOrGetAttrSetId
  <2>2. /\ GoodDb(file') /\ Grows(file, file') /\ i \in DOMAIN file'.sets
        /\ AttrSetPaths(file')[i] = s
    <3> DEFINE E == AddSet(file, w.row, n)
    <3>1. /\ GoodDb(E) /\ Grows(file, E) /\ DOMAIN E.sets = DOMAIN file.sets \cup {i}
          /\ AttrSetPaths(E)[i] = s
      BY <1>1, <1>2, <1>4, AddSetEffect
    <3>2. file' = E
      BY <1>4
    <3> HIDE DEF E
    <3>3. QED
      BY <3>1, <3>2
  <2>3. /\ IndexOf(file') = AddAttrSet(IndexOf(file), s)
        /\ s \notin IndexOf(file).rows /\ HasParentRow(IndexOf(file), s)
    BY <1>1, <1>2, <1>4, IndexOfAddSet
  <2>4. writer' = None
    BY <1>1, <2>1, NobodyWrites
  <2> HIDE DEF i
  <2>5. ScraperFits(t, file', file')
    BY <1>1, <2>2, StepFits
  <2> HIDE DEF s
  <2>6. s \in Paths
    BY <1>2 DEF s
  <2>7. Sound(IndexOf(file'))
    BY <1>1, <2>3, <2>6, AddKeepsSound
  <2>8. IndexStep(IndexOf(file), IndexOf(file'))
    BY <2>3, <2>6 DEF IndexStep
  <2> HIDE DEF t, ids, w
  <2>9. QED
    BY <2>1, <2>2, <2>4, <2>5, <2>7, <2>8, CommitStep
<1>5. QED
  BY <1>3, <1>4 DEF AddOrGetAttrSetId

LEMMA UnmarkKeeps ==
  ASSUME RowsInv, NEW p \in Scrapers, Unmark(p)
  PROVE  Keeps
<1> DEFINE w == work[p]
<1> DEFINE t == [w EXCEPT !.stage = "check", !.row = 0, !.rest = w.prefix]
<1>1. /\ w.stage = "unmark" /\ w.rest = Root /\ w.stage # "idle"
      /\ w \in Work /\ OnItsWay(w, file) /\ GoodDb(file) /\ ~InTxn(p)
      /\ Sound(IndexOf(file))
  BY InvParts DEF Unmark, InTxn, TxnStages
<1>2. /\ w.prefix \in Requested /\ w.row \in DOMAIN file.sets
      /\ AttrSetPaths(file)[w.row] = w.prefix /\ w.prefix \in IndexOf(file).rows
  BY <1>1, WalkEnds
<1>3. w.prefix \in Paths /\ Len(w.prefix) > 1
  BY <1>2, RequestedIsPath
<1>4. /\ Set(p, t) /\ UNCHANGED <<writer, reader>> /\ dirty' = file' /\ ~OthersInTxn(p)
      /\ file' = SetRowsDone(file, w.row, FALSE)
  BY DEF Unmark, Walk
<1>5. GoodDb(file') /\ Grows(file, file')
  BY <1>1, <1>2, <1>4, MarkEffect
<1>6. IndexOf(file') = SetPrefixDone(IndexOf(file), w.prefix, FALSE)
  BY <1>1, <1>2, <1>4, IndexOfMark
<1>7. writer' = None
  BY <1>1, <1>4, NobodyWrites
<1>8. ScraperFits(t, file', file')
  BY ZenonT(40), <1>1, <1>5, WalkFits
<1>9. Sound(IndexOf(file'))
  BY <1>1, <1>3, <1>6, ClearKeepsSound
<1>10. IndexStep(IndexOf(file), IndexOf(file'))
  BY <1>2, <1>3, <1>6 DEF IndexStep
<1> HIDE DEF t, w
<1>11. QED
  BY <1>4, <1>5, <1>7, <1>8, <1>9, <1>10, CommitStep

LEMMA CompletedAttrSetKeeps ==
  ASSUME RowsInv, NEW p \in Scrapers, CompletedAttrSet(p)
  PROVE  Keeps
<1> DEFINE w == work[p]
<1> DEFINE ids == IF w.rest = Root THEN {} ELSE SetIds(file, w.row, Head(w.rest))
<1>1. /\ w.stage = "check" /\ w.stage # "idle"
      /\ w \in Work /\ OnItsWay(w, file) /\ GoodDb(file) /\ ~InTxn(p)
      /\ UNCHANGED <<file, dirty, writer, reader>>
  BY InvParts DEF CompletedAttrSet, InTxn, TxnStages
<1>2. CASE Set(p, IdleWork)
  BY <1>1, <1>2, IdleFits, OwnStep
<1>3. CASE w.prefix \in AttrSets /\ Set(p, Walk(p, "enter"))
  <2> DEFINE t == [w EXCEPT !.stage = "enter", !.row = 0, !.rest = w.prefix]
  <2>1. Set(p, t)
    BY <1>3 DEF Walk
  <2>2. ScraperFits(t, file, View(p))
    <3> DEFINE stage == "enter"
    <3>1. /\ w \in Work /\ OnItsWay(w, file) /\ w.stage \in {"unmark", "check"}
          /\ stage \in {"check", "enter"} /\ w.prefix \in AttrSets
          /\ t = [w EXCEPT !.stage = stage, !.row = 0, !.rest = w.prefix]
      BY <1>1, <1>3
    <3> HIDE DEF stage, w, t
    <3>2. QED
      BY ZenonT(40), <1>1, <3>1, WalkFits
  <2> HIDE DEF t, w
  <2>3. QED
    BY <1>1, <2>1, <2>2, OwnStep
<1>4. CASE ids # {} /\ Set(p, Step(w, ids))
  <2> DEFINE i == The(ids)
  <2> DEFINE t == [w EXCEPT !.row = i, !.rest = Tail(w.rest)]
  <2>1. i \in ids
    BY <1>4, TheIn
  <2>2. w.rest # Root /\ i \in SetIds(file, w.row, Head(w.rest))
    BY <1>4, <2>1
  <2>3. /\ i \in DOMAIN file.sets
        /\ AttrSetPaths(file)[i] = Below(AttrSetPaths(file)[w.row], Head(w.rest))
    BY <1>1, <2>2, FoundByName
  <2>4. Set(p, t)
    BY <1>4 DEF Step
  <2> HIDE DEF i
  <2>5. ScraperFits(t, file, View(p))
    BY <1>1, <2>2, <2>3, StepFits
  <2> HIDE DEF t, w, ids
  <2>6. QED
    BY <1>1, <2>4, <2>5, OwnStep
<1>5. QED
  BY <1>2, <1>3, <1>4 DEF CompletedAttrSet

LEMMA BeginKeeps ==
  ASSUME RowsInv, NEW p \in Scrapers, Begin(p)
  PROVE  Keeps
<1> DEFINE w == work[p]
<1> DEFINE t == [w EXCEPT !.stage = "targets",
                          !.todo = <<[prefix |-> w.prefix, row |-> w.row]>>]
<1>1. /\ w.stage = "enter" /\ w.rest = Root
      /\ w \in Work /\ OnItsWay(w, file) /\ GoodDb(file) /\ ~InTxn(p)
      /\ Set(p, t) /\ UNCHANGED <<file, dirty, writer, reader>>
  BY InvParts DEF Begin, InTxn, TxnStages
<1>2. ScraperFits(t, file, file)
  BY <1>1, BeginFits
<1>3. View(p) = file
  BY <1>1, InvParts, RowsAssumption DEF View
<1> HIDE DEF t, w
<1>4. QED
  BY <1>1, <1>2, <1>3, OwnStep

LEMMA TakeTargetKeeps ==
  ASSUME RowsInv, NEW p \in Scrapers, TakeTarget(p)
  PROVE  Keeps
<1> DEFINE w == work[p]
<1> DEFINE D == View(p)
<1>1. /\ w.stage = "targets" /\ w.todo # << >>
      /\ GoodDb(file) /\ GoodDb(D) /\ ScraperFits(w, file, D) /\ Sound(IndexOf(file))
      /\ UNCHANGED <<file, dirty, writer, reader>>
  BY InvParts DEF TakeTarget
<1>2. CASE D.sets[w.todo[1].row].done
  <2> DEFINE t == [w EXCEPT !.todo = Tail(w.todo)]
  <2>1. Set(p, t)
    BY <1>2 DEF TakeTarget
  <2> HIDE DEF w, D
  <2>2. ScraperFits(t, file, D) /\ t.stage = "targets"
    BY <1>1, <1>2, SkipFits
  <2> HIDE DEF t
  <2>3. QED
    BY <1>1, <2>1, <2>2, OwnStep DEF D, TxnStages
<1>3. CASE ~D.sets[w.todo[1].row].done
  <2> DEFINE t == [w EXCEPT !.stage = "attrs", !.left = AttrsOf(w.todo[1].prefix)]
  <2>1. Set(p, t)
    BY <1>3 DEF TakeTarget
  <2> HIDE DEF w, D
  <2>2. ScraperFits(t, file, D) /\ t.stage = "attrs"
    BY <1>1, <1>3, TakeFits
  <2> HIDE DEF t
  <2>3. QED
    BY <1>1, <2>1, <2>2, OwnStep DEF D, TxnStages
<1>4. QED
  BY <1>2, <1>3

LEMMA ScrapeDrvKeeps ==
  ASSUME RowsInv, NEW p \in Scrapers, NEW n \in work[p].left, ScrapeDrv(p, n)
  PROVE  Keeps
<1> DEFINE w == work[p]
<1> DEFINE D == View(p)
<1> DEFINE t == [w EXCEPT !.left = w.left \ {n}]
<1>1. /\ w.stage = "attrs" /\ <<w.todo[1].prefix, n>> \in Derivations /\ n \in w.left
      /\ GoodDb(file) /\ GoodDb(D) /\ ScraperFits(w, file, D)
      /\ dirty' = AddPackage(D, w.todo[1].row, <<w.todo[1].prefix, n>>)
      /\ Set(p, t) /\ MayReserve(p) /\ writer' = p /\ UNCHANGED <<file, reader>>
  BY InvParts DEF ScrapeDrv
<1> HIDE DEF w, D
<1>2. GoodDb(dirty') /\ Grows(D, dirty') /\ ScraperFits(t, file, dirty') /\ t.stage = "attrs"
  BY <1>1, DrvFits
<1> HIDE DEF t
<1>3. QED
  BY <1>1, <1>2, WriteStep DEF D, TxnStages

\* The row of an attribute that is a set is there, or is added.
LEMMA ScrapeSetKeeps ==
  ASSUME RowsInv, NEW p \in Scrapers, NEW n \in work[p].left, ScrapeSet(p, n)
  PROVE  Keeps
<1> DEFINE w == work[p]
<1> DEFINE D == View(p)
<1> DEFINE q == w.todo[1].prefix
<1> DEFINE up == w.todo[1].row
<1> DEFINE ids == SetIds(D, up, n)
<1> DEFINE t(i) == Pushed(w, n, i)
<1> DEFINE c == Below(q, n)
<1>1. /\ w.stage = "attrs" /\ n \in w.left /\ <<q, n>> \notin Derivations
      /\ GoodDb(file) /\ GoodDb(D) /\ ScraperFits(w, file, D)
      /\ UNCHANGED <<file, reader>>
  BY InvParts DEF ScrapeSet
<1>2. /\ up \in DOMAIN D.sets /\ AttrSetPaths(D)[up] = q /\ n \in Name
      /\ n \in AttrsOf(q) /\ q \in AttrSets
  <2> HIDE DEF w, D
  <2>1. QED
    BY <1>1, InTarget
<1>3. c \in Kids(q) /\ c \in Paths
  BY <1>1, <1>2, AttrIsKid
<1>4. CASE ids # {}
  <2> DEFINE i == The(ids)
  <2>1. i \in ids
    BY <1>4, TheIn
  <2>2. i \in DOMAIN D.sets /\ AttrSetPaths(D)[i] = c
    <3> HIDE DEF D, q, up
    <3>1. QED
      BY <1>1, <1>2, <2>1, FoundByName
  <2>3. IndexOf(D) = AddAttrSet(IndexOf(D), c)
    <3>1. IndexOf(D) \in Contents /\ c \in IndexOf(D).rows
      BY <1>1, <2>2, IndexContents
    <3> HIDE DEF D, c
    <3>2. AddAttrSet(IndexOf(D), c) \in Contents
      BY <1>3, <3>1 DEF AddAttrSet, Contents
    <3>3. QED
      BY <3>1, <3>2, SameContents DEF AddAttrSet, Contents
  <2>4. Set(p, t(i))
    BY <1>4 DEF ScrapeSet, Pushed, Below
  <2>5. ScraperFits(t(i), file, D) /\ t(i).stage = "attrs"
    <3> HIDE DEF w, D, i
    <3>1. QED
      BY <1>1, <2>2, <2>3, GrowsReflexive, PushFits
  <2>6. \/ dirty' = D /\ MayReserve(p) /\ writer' = p
        \/ UNCHANGED <<dirty, writer>>
    BY <1>4 DEF ScrapeSet
  <2> HIDE DEF t, i, w
  <2>7. QED
    BY <1>1, <2>4, <2>5, <2>6, GrowsReflexive, WriteStep, OwnStep DEF TxnStages
<1>5. CASE ids = {}
  <2> DEFINE E == AddSet(D, up, n)
  <2> DEFINE i == NewId(D.sets)
  <2>1. dirty' = E /\ MayReserve(p) /\ writer' = p /\ Set(p, t(i))
    BY <1>5 DEF ScrapeSet, Pushed, Below
  <2>2. /\ GoodDb(E) /\ Grows(D, E) /\ i \in DOMAIN E.sets
        /\ AttrSetPaths(E)[i] = c
        /\ IndexOf(E) = AddAttrSet(IndexOf(D), c)
    <3> HIDE DEF D, q, up
    <3>1. up \in {0} \cup DOMAIN D.sets /\ SetIds(D, up, n) = {}
          /\ Below(AttrSetPaths(D)[up], n) \in Paths /\ n \in Name
          /\ Below(AttrSetPaths(D)[up], n) = c
      BY <1>2, <1>3, <1>5
    <3>2. IndexOf(AddSet(D, up, n)) = AddAttrSet(IndexOf(D), Below(AttrSetPaths(D)[up], n))
      BY <1>1, <3>1, IndexOfAddSet
    <3>3. /\ GoodDb(AddSet(D, up, n)) /\ Grows(D, AddSet(D, up, n))
          /\ DOMAIN AddSet(D, up, n).sets = DOMAIN D.sets \cup {NewId(D.sets)}
          /\ AttrSetPaths(AddSet(D, up, n))[NewId(D.sets)] = Below(AttrSetPaths(D)[up], n)
      BY <1>1, <3>1, AddSetEffect
    <3> HIDE DEF c
    <3>4. QED
      BY <3>1, <3>2, <3>3
  <2>3. ScraperFits(t(i), file, E) /\ t(i).stage = "attrs"
    <3> HIDE DEF w, D, i, E
    <3>1. QED
      BY <1>1, <2>2, PushFits
  <2> HIDE DEF t, i, w, E
  <2>4. QED
    BY <1>1, <2>1, <2>2, <2>3, WriteStep DEF TxnStages
<1>6. QED
  BY <1>4, <1>5

LEMMA PopKeeps ==
  ASSUME RowsInv, NEW p \in Scrapers, Pop(p)
  PROVE  Keeps
<1> DEFINE w == work[p]
<1> DEFINE D == View(p)
<1> DEFINE t == [w EXCEPT !.stage = "targets", !.todo = Tail(w.todo)]
<1>1. /\ w.stage = "attrs" /\ w.left = {} /\ ~Fails(w.todo[1].prefix)
      /\ GoodDb(file) /\ GoodDb(D) /\ ScraperFits(w, file, D)
      /\ Set(p, t) /\ UNCHANGED <<file, dirty, writer, reader>>
  BY InvParts DEF Pop
<1> HIDE DEF w, D
<1>2. ScraperFits(t, file, D) /\ t.stage = "targets"
  BY <1>1, PopFits
<1> HIDE DEF t
<1>3. QED
  BY <1>1, <1>2, OwnStep DEF D, TxnStages

\* The commit: what is published is sound, and the others see it whole.
LEMMA FinishKeeps ==
  ASSUME RowsInv, NEW p \in Scrapers, Finish(p)
  PROVE  Keeps
<1> DEFINE w == work[p]
<1> DEFINE D == View(p)
<1>1. /\ w.stage = "targets" /\ w.todo = << >>
      /\ GoodDb(file) /\ GoodDb(D) /\ ScraperFits(w, file, D) /\ Sound(IndexOf(file))
      /\ Grows(file, D) /\ file' = SetRowsDone(D, w.row, TRUE) /\ dirty' = file'
      /\ Set(p, IdleWork) /\ ~OthersInTxn(p) /\ writer' = None /\ UNCHANGED reader
  BY InvParts DEF Finish
<1> HIDE DEF w, D
<1>2. /\ GoodDb(file') /\ Grows(file, file') /\ Sound(IndexOf(file'))
      /\ IndexOf(file') = Result(IndexOf(file), w.prefix)
      /\ w.prefix \in IndexOf(file).rows \cap AttrSets /\ w.prefix \in Paths
      /\ Len(w.prefix) > 1
      /\ w.prefix \in IndexOf(file).done \/ ~Fails(w.prefix)
  BY <1>1, FinishEffect
<1>3. IndexStep(IndexOf(file), IndexOf(file'))
  BY <1>2 DEF IndexStep
<1>4. ScraperFits(IdleWork, file', file')
  BY IdleFits
<1>5. QED
  BY <1>1, <1>2, <1>3, <1>4, CommitStep

\* A rollback: what the writer had is gone, and nobody else saw it.
LEMMA CrashKeeps ==
  ASSUME RowsInv, NEW p \in Scrapers, Crash(p)
  PROVE  Keeps
<1>1. CASE writer # p
  <2>1. Set(p, IdleWork) /\ UNCHANGED <<file, dirty, writer, reader>>
    BY <1>1 DEF Crash
  <2>2. IdleWork \in Work
    BY IdleFits DEF ScraperFits
  <2>3. /\ work' \in [Scrapers -> Work] /\ work'[p] = IdleWork
        /\ \A o \in Scrapers : o # p => work'[o] = work[o]
    BY <2>1, <2>2, InvParts, SetEffect
  <2>4. \A o \in Scrapers : ScraperFits(work'[o], file', View(o)')
    <3>1. \A o \in Scrapers : View(o)' = View(o) /\ ScraperFits(work[o], file, View(o))
      BY <2>1, InvParts DEF View
    <3>2. QED
      BY <2>1, <2>3, <3>1, IdleFits
  <2>5. writer' # None => InTxn(writer)'
    BY <1>1, <2>1, <2>3, InvParts DEF InTxn
  <2>6. RowsInv'
    BY <2>1, <2>3, <2>4, <2>5, InvParts, PartsInv
  <2>7. QED
    BY <2>1, <2>6, SameFile
<1>2. CASE writer = p
  <2>1. /\ Set(p, IdleWork) /\ file' = file /\ dirty' = file /\ writer' = None
        /\ UNCHANGED reader
    BY <1>2 DEF Crash
  <2>2. IdleWork \in Work
    BY IdleFits DEF ScraperFits
  <2>3. /\ work' \in [Scrapers -> Work] /\ work'[p] = IdleWork
        /\ \A o \in Scrapers : o # p => work'[o] = work[o]
    BY <2>1, <2>2, InvParts, SetEffect
  <2>4. \A o \in Scrapers : ScraperFits(work'[o], file', View(o)')
    <3>1. \A o \in Scrapers : View(o)' = file
      BY <2>1, RowsAssumption DEF View
    <3>2. \A o \in Scrapers : o # p => View(o) = file /\ ScraperFits(work[o], file, View(o))
      BY <1>2, InvParts DEF View
    <3>3. QED
      BY <2>1, <2>3, <3>1, <3>2, IdleFits
  <2>5. RowsInv'
    BY <2>1, <2>3, <2>4, InvParts, PartsInv, GrowsReflexive
  <2>6. QED
    BY <2>1, <2>5, SameFile
<1>3. QED
  BY <1>1, <1>2

\* The readers' actions.
LEMMA QueryKeeps ==
  ASSUME RowsInv, NEW r \in Readers, Query(r)
  PROVE  Keeps
<1>1. GoodDb(file) /\ UNCHANGED <<file, dirty, writer, work>>
  BY InvParts DEF Query
<1>2. PICK i \in DOMAIN file.pkgs :
        SetReader(r, [IdleReader EXCEPT !.stage = "have", !.pkg = TRUE, !.row = i,
                                        !.want = PackagePath(file, i)])
  BY DEF Query
<1> DEFINE t == [IdleReader EXCEPT !.stage = "have", !.pkg = TRUE, !.row = i,
                                   !.want = PackagePath(file, i)]
<1>3. ReaderFits(t, file)
  BY <1>1, HaveKeeps
<1>4. SetReader(r, t)
  BY <1>2
<1> HIDE DEF t
<1>5. QED
  BY <1>1, <1>3, <1>4, ReadStep

LEMMA LookupStepKeeps ==
  ASSUME RowsInv, NEW r \in Readers, NEW path \in Lookups, NEW pkg \in BOOLEAN,
         Lookup(r, path, pkg)
  PROVE  Keeps
<1> DEFINE t == [IdleReader EXCEPT
                   !.stage = "down", !.pkg = pkg, !.rest = path, !.path = path,
                   !.want = IF There(file, path, pkg) THEN path ELSE None]
<1>1. GoodDb(file) /\ UNCHANGED <<file, dirty, writer, work>> /\ SetReader(r, t)
  BY InvParts DEF Lookup
<1>2. ReaderFits(t, file)
  BY <1>1, LookupKeeps
<1> HIDE DEF t
<1>3. QED
  BY <1>1, <1>2, ReadStep

LEMMA DownKeeps ==
  ASSUME RowsInv, NEW r \in Readers, Down(r)
  PROVE  Keeps
<1> DEFINE s == reader[r]
<1> DEFINE last == s.pkg /\ Len(s.rest) = 1
<1> DEFINE n == s.rest[1]
<1> DEFINE ids == IF last THEN PkgIds(file, s.row, n) ELSE SetIds(file, s.row, n)
<1> DEFINE next == [s EXCEPT !.row = The(ids), !.rest = Tail(s.rest)]
<1> DEFINE there == [next EXCEPT !.stage = "have", !.want = s.path, !.path = Root]
<1>1. /\ s.stage = "down" /\ ReaderFits(s, file) /\ GoodDb(file)
      /\ UNCHANGED <<file, dirty, writer, work>>
      /\ SetReader(r, IF ids = {} THEN Failed(s) ELSE IF Len(s.rest) > 1 THEN next ELSE there)
  BY InvParts DEF Down
<1>2. s.rest \in Path /\ s.rest # Root /\ s.pkg \in BOOLEAN
  BY <1>1, OnTheWayDown
<1>3. n = Head(s.rest) /\ Len(s.rest) \in Nat /\ Len(s.rest) # 0
  BY <1>2 DEF Path, Root
<1>4. CASE ids = {}
  <2>1. ReaderFits(Failed(s), file)
    <3> HIDE DEF s
    <3>1. QED
      BY <1>1, <1>3, <1>4, DownFails
  <2>2. QED
    BY <1>1, <1>4, <2>1, ReadStep
<1>5. CASE ids # {} /\ Len(s.rest) > 1
  <2> DEFINE i == The(ids)
  <2>1. i \in ids
    BY <1>5, TheIn
  <2>2. ~last
    <3> DEFINE k == Len(s.rest)
    <3>1. k > 1 /\ k \in Nat
      BY <1>3, <1>5
    <3> HIDE DEF k
    <3>2. k # 1
      BY <3>1
    <3>3. QED
      BY <3>2 DEF k
  <2>3. i \in SetIds(file, s.row, Head(s.rest))
    BY <1>3, <2>1, <2>2
  <2>4. next = [s EXCEPT !.row = i, !.rest = Tail(s.rest)]
    OBVIOUS
  <2> HIDE DEF i, s
  <2>5. ReaderFits(next, file)
    BY <1>1, <1>5, <2>3, <2>4, DownWalks
  <2> HIDE DEF next, ids
  <2>6. SetReader(r, next)
    BY <1>1, <1>5
  <2>7. QED
    BY <1>1, <2>5, <2>6, ReadStep
<1>6. CASE ids # {} /\ ~(Len(s.rest) > 1)
  <2> DEFINE i == The(ids)
  <2>1. i \in ids
    BY <1>6, TheIn
  <2>2. Len(s.rest) = 1
    <3> DEFINE k == Len(s.rest)
    <3>1. ~(k > 1) /\ k \in Nat /\ k # 0
      BY <1>3, <1>6
    <3> HIDE DEF k
    <3>2. k = 1
      BY <3>1
    <3>3. QED
      BY <3>2 DEF k
  <2>3. i \in IF s.pkg THEN PkgIds(file, s.row, Head(s.rest))
                       ELSE SetIds(file, s.row, Head(s.rest))
    BY <1>3, <2>1, <2>2
  <2>4. there = [[s EXCEPT !.row = i, !.rest = Tail(s.rest)]
                   EXCEPT !.stage = "have", !.want = s.path, !.path = Root]
    OBVIOUS
  <2> HIDE DEF i, s
  <2>5. ReaderFits(there, file)
    BY <1>1, <1>6, <2>3, <2>4, DownArrives
  <2> HIDE DEF there, next, ids
  <2>6. SetReader(r, there)
    BY <1>1, <1>6
  <2>7. QED
    BY <1>1, <2>5, <2>6, ReadStep
<1>7. QED
  BY <1>4, <1>5, <1>6

LEMMA GetPackageKeeps ==
  ASSUME RowsInv, NEW r \in Readers, GetPackage(r)
  PROVE  Keeps
<1> DEFINE s == reader[r]
<1> DEFINE t == [s EXCEPT !.stage = "answer", !.path = PackagePath(file, s.row),
                          !.text = PackageText(file, s.row)]
<1>1. /\ s.stage = "have" /\ s.pkg /\ ReaderFits(s, file) /\ GoodDb(file)
      /\ UNCHANGED <<file, dirty, writer, work>>
      /\ SetReader(r, IF s.row \notin DOMAIN file.pkgs THEN Failed(s) ELSE t)
  BY InvParts DEF GetPackage
<1> HIDE DEF s
<1>2. s.row \in DOMAIN file.pkgs /\ ReaderFits(t, file)
  BY <1>1, GetKeeps
<1> HIDE DEF t
<1>3. QED
  BY <1>1, <1>2, ReadStep

LEMMA UpKeeps ==
  ASSUME RowsInv, NEW r \in Readers, Up(r)
  PROVE  Keeps
<1> DEFINE s == reader[r]
<1> DEFINE top == [s EXCEPT !.stage = "answer"]
<1> DEFINE next == [s EXCEPT !.row = file.sets[s.row].up,
                             !.path = <<file.sets[s.row].name>> \o s.path]
<1>1. /\ s.stage = "have" /\ ~s.pkg /\ ReaderFits(s, file) /\ GoodDb(file)
      /\ UNCHANGED <<file, dirty, writer, work>>
      /\ SetReader(r, IF s.row = 0 THEN top
                      ELSE IF s.row \notin DOMAIN file.sets THEN Failed(s) ELSE next)
  BY InvParts DEF Up
<1> HIDE DEF s
<1>2. CASE s.row = 0
  <2>1. ReaderFits(top, file)
    BY <1>1, <1>2, UpArrives
  <2> HIDE DEF top
  <2>2. QED
    BY <1>1, <1>2, <2>1, ReadStep
<1>3. CASE s.row # 0
  <2>1. s.row \in DOMAIN file.sets /\ ReaderFits(next, file)
    BY <1>1, <1>3, UpWalks
  <2> HIDE DEF next
  <2>2. QED
    BY <1>1, <1>3, <2>1, ReadStep
<1>4. QED
  BY <1>2, <1>3
-----------------------------------------------------------------------------
\* A database just created.
LEMMA EmptyFileIsGood == GoodDb(EmptyFile) /\ IndexOf(EmptyFile) = EmptyDb
<1> DEFINE D == EmptyFile
<1>1. /\ D.sets = << >> /\ D.pkgs = << >> /\ D.texts = << >>
      /\ D = [sets |-> D.sets, pkgs |-> D.pkgs, texts |-> D.texts]
  BY DEF EmptyFile, Empty
<1>2. D.sets \in Seq(SetRow) /\ D.pkgs \in Seq(PkgRow) /\ D.texts \in Seq(Texts)
  BY <1>1
<1>3. DOMAIN D.sets = {} /\ DOMAIN D.pkgs = {} /\ DOMAIN D.texts = {}
  BY <1>1
<1> HIDE DEF D
<1>4. IsTree(D)
  BY <1>2, <1>3 DEF IsTree
<1>5. DOMAIN AttrSetPaths(D) = {0}
  BY <1>3, <1>4, PathsEquation
<1>6. SetsFit(D) /\ IsInjective(D.texts)
  BY <1>3, <1>4, <1>5 DEF SetsFit, IsInjective
<1>7. GoodDb(D)
  BY <1>1, <1>2, <1>3, <1>6, GoodFromParts
<1>8. IndexOf(D) = EmptyDb
  <2>1. /\ IndexOf(D) \in Contents /\ IndexOf(D).rows = {} /\ IndexOf(D).done = {}
        /\ IndexOf(D).pkgs = {}
    BY <1>3, <1>7, IndexContents
  <2>2. EmptyDb \in Contents /\ EmptyDb.rows = {} /\ EmptyDb.done = {} /\ EmptyDb.pkgs = {}
    BY DEF EmptyDb, Contents
  <2>3. QED
    BY <2>1, <2>2, SameContents
<1>9. QED
  BY <1>7, <1>8 DEF D

\* It is where everything begins.
LEMMA RowsInit == Init => RowsInv /\ IndexOf(file) = EmptyDb
<1> SUFFICES ASSUME Init PROVE RowsInv /\ IndexOf(file) = EmptyDb
  OBVIOUS
<1>1. /\ GoodDb(file) /\ dirty = file /\ IndexOf(file) = EmptyDb /\ writer = None
  BY EmptyFileIsGood DEF Init
<1>2. Sound(IndexOf(file)) /\ Grows(file, dirty)
  BY <1>1, EmptyIsSound, GrowsReflexive
<1>3. /\ work = [p \in Scrapers |-> IdleWork] /\ reader = [r \in Readers |-> IdleReader]
  BY DEF Init
<1>4. /\ IdleReader \in Reading /\ ReadsRight(IdleReader, file) /\ AnswerIsRight(IdleReader)
  BY IdleReaderIs DEF IdleReader, ReadsRight, AnswerIsRight
<1>5. \A D : IdleWork \in Work /\ OnItsWay(IdleWork, file) /\ TxnOnTrack(IdleWork, file, D)
  BY IdleFits DEF ScraperFits
<1>6. TypeOK
  BY <1>1, <1>3, <1>4, <1>5 DEF TypeOK, GoodDb
<1>7. WriterExtends
  BY <1>1, <1>2 DEF WriterExtends
<1>8. \A p \in Scrapers : OnItsWay(work[p], file) /\ TxnOnTrack(work[p], file, View(p))
  BY <1>3, <1>5
<1>9. \A r \in Readers : ReadsRight(reader[r], file) /\ AnswerIsRight(reader[r])
  BY <1>3, <1>4
<1>10. WellFormed(file) /\ WellFormed(dirty)
  BY <1>1 DEF GoodDb
<1>11. QED
  BY <1>1, <1>2, <1>6, <1>7, <1>8, <1>9, <1>10 DEF RowsInv

\* Each step of each process keeps the invariant and the ids, and does to the
\* index what PrefixIndex says or nothing.
LEMMA RowsStep == RowsInv /\ [Next]_vars => Keeps
<1> SUFFICES ASSUME RowsInv, [Next]_vars PROVE Keeps
  OBVIOUS
<1>1. ASSUME NEW p \in Scrapers, NEW q \in Requested, NEW force \in BOOLEAN, Ask(p, q, force)
      PROVE  Keeps
  BY <1>1, AskKeeps
<1>2. ASSUME NEW p \in Scrapers, Scraping(p) PROVE Keeps
  BY <1>2, AddOrGetAttrSetIdKeeps, UnmarkKeeps, CompletedAttrSetKeeps, BeginKeeps,
     TakeTargetKeeps, PopKeeps, FinishKeeps, CrashKeeps, ScrapeDrvKeeps, ScrapeSetKeeps
  DEF Scraping
<1>3. ASSUME NEW r \in Readers, Query(r) \/ Down(r) \/ GetPackage(r) \/ Up(r) PROVE Keeps
  BY <1>3, QueryKeeps, DownKeeps, GetPackageKeeps, UpKeeps
<1>4. ASSUME NEW r \in Readers, NEW path \in Lookups, NEW pkg \in BOOLEAN, Lookup(r, path, pkg)
      PROVE  Keeps
  BY <1>4, LookupStepKeeps
<1>5. CASE UNCHANGED vars
  <2>1. UNCHANGED <<file, dirty, writer, work, reader>>
    BY <1>5 DEF vars
  <2>2. \A o \in Scrapers : View(o)' = View(o)
    BY <2>1 DEF View
  <2>3. RowsInv'
    <3>1. writer' # None => InTxn(writer)'
      BY <2>1, InvParts DEF InTxn
    <3>2. QED
      BY <2>1, <2>2, <3>1, InvParts, PartsInv
  <2>4. QED
    BY <2>1, <2>3, SameFile
<1>6. QED
  BY <1>1, <1>2, <1>3, <1>4, <1>5 DEF Next

\* Row by row and id by id, the tables are sound, the transactions do what
\* they are for, and the readers hold on to what they asked for.
THEOREM RowsInvariant == Spec => []RowsInv
<1>1. RowsInv /\ [Next]_vars => RowsInv'
  BY RowsStep DEF Keeps
<1>2. QED
  BY RowsInit, <1>1, PTL DEF Spec

\* Every type the rows, the queues and the readers' variables are declared to have.
THEOREM RowsTypes == Spec => []TypeOK
<1>1. RowsInv => TypeOK
  BY DEF RowsInv
<1>2. QED
  BY <1>1, RowsInvariant, PTL

\* Ids and paths name the same things, in the file, in an open transaction and
\* in the hands of every process that scrapes.
THEOREM RowsNamePaths == Spec => []IdsNamePaths
<1>1. RowsInv => IdsNamePaths
  <2> SUFFICES ASSUME RowsInv PROVE IdsNamePaths
    OBVIOUS
  <2>1. ASSUME NEW p \in Scrapers PROVE HoldsRight(p)
    <3> DEFINE w == work[p]
    <3> DEFINE D == View(p)
    <3>1. /\ GoodDb(file) /\ GoodDb(D) /\ Grows(file, D)
          /\ OnItsWay(w, file) /\ ScraperFits(w, file, D)
      BY InvParts
    <3>2. \A k \in DOMAIN w.todo : AttrSetPaths(D)[w.todo[k].row] = w.todo[k].prefix
      BY <3>1 DEF ScraperFits, TxnOnTrack
    <3>3. ASSUME w.stage # "idle" PROVE AttrSetPaths(D)[w.row] \o w.rest = w.prefix
      <4>1. /\ w.row \in {0} \cup DOMAIN file.sets
            /\ AttrSetPaths(file)[w.row] \o w.rest = w.prefix
        BY <3>1, <3>3 DEF OnItsWay
      <4>2. \A i \in {0} \cup DOMAIN file.sets :
              i \in {0} \cup DOMAIN D.sets /\ AttrSetPaths(D)[i] = AttrSetPaths(file)[i]
        <5> HIDE DEF D
        <5>1. QED
          BY <3>1, GrowsKeeps
      <4>3. QED
        BY <4>1, <4>2
    <3>4. QED
      BY <3>2, <3>3 DEF HoldsRight
  <2>2. WellFormed(file) /\ WellFormed(dirty)
    BY DEF RowsInv
  <2>3. QED
    BY <2>1, <2>2 DEF IdsNamePaths
<1>2. QED
  BY <1>1, RowsInvariant, PTL

\* Whatever is committed between two statements of a reader, the id it has
\* stands for what it wants, and what it asked for and was there it finds.
THEOREM RowsAnswerRight == Spec => []AnswersAreRight
<1>1. RowsInv => AnswersAreRight
  BY DEF RowsInv, AnswersAreRight
<1>2. QED
  BY <1>1, RowsInvariant, PTL

\* A committed id is never given to another row, and its row never changes its
\* parent, name, package or description.
THEOREM CommittedIdsStay == Spec => IdsKeepMeaning
<1>1. RowsInv /\ [Next]_vars => [Grows(file, file')]_file
  BY RowsStep DEF Keeps
<1>2. QED
  BY <1>1, RowsInvariant, PTL DEF Spec, IdsKeepMeaning
-----------------------------------------------------------------------------
(***************************************************************************)
(* The index of prefixes, on the tables read as paths: its operators are   *)
(* those of PkgDb.                                                         *)
(***************************************************************************)
LEMMA SameReach == \A q \in AttrSets : Index!Reach[q] = Reach[q]
<1>1. \A t : Index!Kids(t) = Kids(t)
  BY DEF Index!Kids, Kids, Index!TryRecur, TryRecur, Index!Recursed, Recursed,
         Index!Parent, Parent, Index!Front, Front, Index!Last, Last
<1>2. \A S : Index!Closed(S) <=> Closed(S)
  BY <1>1 DEF Index!Closed, Closed
<1>3. QED
  BY <1>2 DEF Index!Reach, Reach

\* Marking is.
LEMMA SameSetPrefixDone ==
  ASSUME NEW D, NEW q, NEW b
  PROVE  Index!SetPrefixDone(D, q, b) = SetPrefixDone(D, q, b)
BY DEF Index!SetPrefixDone, SetPrefixDone, Index!SubtreeRows, SubtreeRows,
       Index!Parent, Parent, Index!Front, Front, Index!IsPrefix, IsPrefix

\* So is what a scrape adds.
LEMMA SameFilled ==
  ASSUME NEW D, NEW q \in AttrSets
  PROVE  Index!Filled(D, q) = Filled(D, q)
BY SameReach DEF Index!Filled, Filled, Index!DrvsOf, DrvsOf

\* A step of the tables, as one of PrefixIndex.
LEMMA IndexSteps ==
  ASSUME IndexStep(IndexOf(file), IndexOf(file'))
  PROVE  [Index!Next]_(IndexOf(file))
<1> DEFINE I == IndexOf(file)
<1> DEFINE J == IndexOf(file')
<1>1. CASE J = I
  BY <1>1
<1>2. ASSUME NEW s \in Paths, s \notin I.rows, HasParentRow(I, s), J = AddAttrSet(I, s)
      PROVE  Index!Next
  BY <1>2 DEF Index!Next, Index!Reserve, Index!HasParentRow, HasParentRow,
       Index!AddAttrSet, AddAttrSet, Index!Parent, Parent, Index!Front, Front,
       Index!Root, Root
<1>3. ASSUME NEW q \in Paths, Len(q) > 1, q \in I.rows, J = SetPrefixDone(I, q, FALSE)
      PROVE  Index!Next
  BY <1>3, SameSetPrefixDone DEF Index!Next, Index!Retract
<1>4. ASSUME NEW q \in Paths, Len(q) > 1, q \in I.rows \cap AttrSets,
             q \in I.done \/ ~Fails(q), J = Result(I, q)
      PROVE  Index!Next
  <2>1. CASE q \in I.done
    BY <1>4, <2>1, SameSetPrefixDone
    DEF Index!Next, Index!Reseal, Index!CompletedRow, Result
  <2>2. CASE q \notin I.done
    <3>1. J = Index!SetPrefixDone(Index!Filled(I, q), q, TRUE)
      BY <1>4, <2>2, SameSetPrefixDone, SameFilled DEF Result
    <3>2. ~Index!Fails(q)
      BY <1>4, <2>2 DEF Fails, Index!Fails, TryRecur, Index!TryRecur
    <3>3. QED
      BY <1>4, <2>2, <3>1, <3>2 DEF Index!Next, Index!Publish, Index!CompletedRow
  <2>3. QED
    BY <2>1, <2>2
<1>5. QED
  BY <1>1, <1>2, <1>3, <1>4 DEF IndexStep

\* Attribute by attribute and id by id, a scrape still adds its prefix to the
\* index in one step.
THEOREM RowsAreAnIndex == Spec => RowsImplementIndex
<1>1. Init => Index!Init
  BY RowsInit DEF Index!Init, EmptyDb, Index!EmptyDb
<1>2. RowsInv /\ [Next]_vars => [Index!Next]_(IndexOf(file))
  BY RowsStep, IndexSteps DEF Keeps
<1>3. QED
  BY <1>1, <1>2, RowsInvariant, PTL DEF Spec, RowsImplementIndex, Index!Spec
=============================================================================
