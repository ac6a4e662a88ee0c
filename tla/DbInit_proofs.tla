---------------------------- MODULE DbInit_proofs ----------------------------
(***************************************************************************)
(* The file of a flake's database, made and migrated and removed by any    *)
(* number of processes of any releases, with any number of statements in   *)
(* the schema, and crashes between any two of them: the row of LockedFlake *)
(* is written last; who returns from init() reads a finished database of   *)
(* its own tables; the file everyone sees is the abstract cache file; and  *)
(* what is missing from it has a reason.                                   *)
(*                                                                         *)
(* All rest on InitInv: what a process in the constructor of PkgDb has     *)
(* established so far, and what everyone else leaves alone.  Tables are    *)
(* never dropped, the version of the tables never changes, and a file that *)
(* is removed takes the connections that are open on it along.             *)
(***************************************************************************)
EXTENDS DbInit, TLAPS

\* Stages of the constructor at which the tables, and the versions, are there.
HasTables == {"versions", "compare", "drop", "bump", "views", "input"}
HasVersions == HasTables \ {"versions"}

\* A process in the constructor has a connection for writing, and no other.
\* The next table or view is one of the schema's.
WriterOK(p) ==
    /\ stage[p] \in Making <=> rw[p] # "none"
    /\ stage[p] = "tables" => next[p] <= NTables
    /\ stage[p] \in Making \ {"tables", "views", "input"} => next[p] = 1
    /\ stage[p] = "views" => next[p] <= NViews + 1
    /\ rw[p] = "path" =>
         /\ disk.exists
         /\ stage[p] = "tables" => disk.tables >= next[p] - 1
         /\ stage[p] \in HasTables => disk.tables = NTables
         /\ stage[p] \in HasVersions => disk.version.tables # 0

\* The file, with or without a writer.
FileOK ==
    /\ ~disk.exists => disk.tables = 0 /\ disk.version = NoVersion /\ ~disk.flake
    /\ disk.version # NoVersion => disk.version.tables # 0
    /\ LockedFlakeIsLast

InitInv == TypeOK /\ FileOK /\ \A p \in Procs : WriterOK(p)
-----------------------------------------------------------------------------
(***************************************************************************)
(* What each statement does to the contents of the file.                   *)
(***************************************************************************)

LEMMA AbsentIsFile ==
  /\ Absent \in File /\ Empty \in File
  /\ Absent.tables = 0 /\ Absent.version = NoVersion /\ ~Absent.flake /\ ~Absent.exists
  /\ Empty.tables = 0 /\ Empty.version = NoVersion /\ ~Empty.flake /\ Empty.exists
  /\ \A v \in 1..NViews : Absent.views[v] = 0 /\ Empty.views[v] = 0
<1>1. NoVersion \in Version
  BY DbInitAssumption DEF NoVersion, Version
<1>2. [v \in 1..NViews |-> 0] \in [1..NViews -> 0..MaxVersion] /\ 0 \in 0..NTables
  BY DbInitAssumption
<1> DEFINE none == [v \in 1..NViews |-> 0]
<1> HIDE DEF none
<1>3. /\ Absent = [exists |-> FALSE, tables |-> 0, version |-> NoVersion,
                   views |-> none, flake |-> FALSE]
      /\ none \in [1..NViews -> 0..MaxVersion]
  BY <1>2 DEF Absent, none
<1>4. Absent \in File
  BY <1>1, <1>2, <1>3 DEF File
<1>5. Empty \in File /\ Empty.exists
  BY <1>4 DEF Empty, File
<1>6. /\ Empty.tables = Absent.tables /\ Empty.version = Absent.version
      /\ Empty.flake = Absent.flake /\ Empty.views = Absent.views
  BY <1>4 DEF Empty, File
<1>7. \A v \in 1..NViews : Absent.views[v] = 0
  BY <1>3 DEF none
<1>8. QED
  BY <1>3, <1>4, <1>5, <1>6, <1>7

LEMMA WholeIsFile ==
  ASSUME NEW ver \in [tables : 1..MaxVersion, views : 1..MaxVersion]
  PROVE  /\ WholeOf(ver) \in File /\ WholeOf(ver).exists /\ WholeOf(ver).flake
         /\ WholeOf(ver).tables = NTables /\ WholeOf(ver).version = ver
         /\ ver \in Version /\ ver.tables # 0
BY DbInitAssumption DEF WholeOf, File, Version

LEMMA TableEffect ==
  ASSUME NEW f \in File, NEW n \in 1..NTables, NEW g,
         g = [f EXCEPT !.tables = IF n > f.tables THEN n ELSE f.tables]
  PROVE  /\ g \in File /\ g.exists = f.exists /\ g.version = f.version
         /\ g.flake = f.flake /\ g.tables >= n /\ g.tables >= f.tables
         /\ g.tables \in 0..NTables
BY DbInitAssumption DEF File

LEMMA VersionEffect ==
  ASSUME NEW f \in File, NEW v \in Version, NEW g,
         g = [f EXCEPT !.version = v]
  PROVE  /\ g \in File /\ g.exists = f.exists /\ g.version = v
         /\ g.flake = f.flake /\ g.tables = f.tables
BY DEF File

LEMMA BumpEffect ==
  ASSUME NEW f \in File, NEW v \in 1..MaxVersion, NEW g,
         g = [f EXCEPT !.version.views = v]
  PROVE  /\ g \in File /\ g.exists = f.exists /\ g.flake = f.flake
         /\ g.tables = f.tables /\ g.version = [f.version EXCEPT !.views = v]
         /\ g.version.tables = f.version.tables /\ g.version.views = v
<1>1. g = [f EXCEPT !.version = [f.version EXCEPT !.views = v]]
  BY DEF File
<1>2. f.version \in Version
  BY DEF File
<1>3. /\ [f.version EXCEPT !.views = v] \in Version
      /\ [f.version EXCEPT !.views = v].tables = f.version.tables
      /\ [f.version EXCEPT !.views = v].views = v
  BY <1>2 DEF Version
<1> DEFINE w == [f.version EXCEPT !.views = v]
<1>4. g = [f EXCEPT !.version = w] /\ w \in Version
  BY <1>1, <1>3
<1> HIDE DEF w
<1>5. /\ g \in File /\ g.exists = f.exists /\ g.version = w
      /\ g.flake = f.flake /\ g.tables = f.tables
  BY <1>4 DEF File
<1>6. QED
  BY <1>3, <1>5 DEF w

LEMMA ViewEffect ==
  ASSUME NEW f \in File, NEW i \in 1..NViews, NEW v \in 0..MaxVersion, NEW g,
         g = [f EXCEPT !.views[i] = v]
  PROVE  /\ g \in File /\ g.exists = f.exists /\ g.flake = f.flake
         /\ g.tables = f.tables /\ g.version = f.version
<1>1. g = [f EXCEPT !.views = [f.views EXCEPT ![i] = v]]
  BY DEF File
<1>2. [f.views EXCEPT ![i] = v] \in [1..NViews -> 0..MaxVersion]
  BY DEF File
<1>3. QED
  BY <1>1, <1>2 DEF File

LEMMA FlakeEffect ==
  ASSUME NEW f \in File, NEW g, g = [f EXCEPT !.flake = TRUE]
  PROVE  /\ g \in File /\ g.exists = f.exists /\ g.flake
         /\ g.tables = f.tables /\ g.version = f.version
BY DEF File

LEMMA OursIsVersion ==
  ASSUME TypeOK, NEW p \in Procs
  PROVE  /\ ours[p] \in Version /\ ours[p].tables \in 1..MaxVersion
         /\ ours[p].views \in 1..MaxVersion /\ ours[p] # NoVersion
BY DbInitAssumption DEF TypeOK, Version, NoVersion
-----------------------------------------------------------------------------
(***************************************************************************)
(* What a step leaves to the others.                                       *)
(***************************************************************************)

\* Nobody takes away what another process has made of the file.
DiskGrows ==
    /\ disk.exists => disk'.exists
    /\ disk'.tables >= disk.tables
    /\ disk.version.tables # 0 => disk'.version.tables = disk.version.tables
    /\ disk.flake => disk'.flake

OthersStay(p) ==
    \A o \in Procs \ {p} : stage'[o] = stage[o] /\ rw'[o] = rw[o] /\ next'[o] = next[o]

LEMMA OthersKeep ==
  ASSUME InitInv, NEW p \in Procs, OthersStay(p), DiskGrows, TypeOK'
  PROVE  \A o \in Procs \ {p} : WriterOK(o)'
<1> SUFFICES ASSUME NEW o \in Procs \ {p} PROVE WriterOK(o)'
  OBVIOUS
<1>1. WriterOK(o) /\ disk \in File /\ disk' \in File
  BY DEF InitInv, TypeOK
<1>2. stage'[o] = stage[o] /\ rw'[o] = rw[o] /\ next'[o] = next[o] /\ next[o] \in Nat
  BY DEF OthersStay, InitInv, TypeOK
<1>3. disk.tables \in 0..NTables /\ disk'.tables \in 0..NTables /\ NTables \in Nat
  BY <1>1, DbInitAssumption DEF File
<1>4. QED
  BY <1>1, <1>2, <1>3 DEF WriterOK, DiskGrows, HasTables, HasVersions

LEMMA StepKeeps ==
  ASSUME InitInv, NEW p \in Procs, OthersStay(p), DiskGrows,
         TypeOK', FileOK', WriterOK(p)'
  PROVE  InitInv'
BY OthersKeep DEF InitInv

\* A step that does not touch the file, outside the constructor.
LEMMA QuietKeeps ==
  ASSUME InitInv, NEW p \in Procs, OthersStay(p), disk' = disk, TypeOK',
         stage'[p] \notin Making, rw'[p] = "none"
  PROVE  InitInv'
<1>1. DiskGrows /\ FileOK'
  <2>1. disk.tables \in Nat
    BY DbInitAssumption DEF InitInv, TypeOK, File
  <2>2. QED
    BY <2>1 DEF DiskGrows, FileOK, InitInv, LockedFlakeIsLast
<1>2. WriterOK(p)'
  BY DEF WriterOK, Making, HasTables, HasVersions
<1>3. QED
  BY <1>1, <1>2, StepKeeps

LEMMA GoneKeeps ==
  ASSUME InitInv, NEW p \in Procs, NEW s \in {"idle", "failed", "incompatible"},
         Gone(p, s)
  PROVE  InitInv'
<1>1. TypeOK'
  <2>1. Absent \in File /\ NoVersion \in Version /\ 1 \in 1..(NTables + NViews + 1)
    BY AbsentIsFile, DbInitAssumption DEF NoVersion, Version
  <2>2. hurt' \in BOOLEAN
    BY DEF Gone, InitInv, TypeOK
  <2>3. QED
    BY <2>1, <2>2 DEF Gone, InitInv, TypeOK, Goto, Stages, Making
<1>2. OthersStay(p) /\ disk' = disk /\ stage'[p] = s /\ rw'[p] = "none"
  BY DEF Gone, Goto, OthersStay, InitInv, TypeOK
<1>3. QED
  BY <1>1, <1>2, QuietKeeps DEF Making

\* A process moves on outside the constructor.
LEMMA OutsideKeeps ==
  ASSUME InitInv, NEW p \in Procs,
         \/ Start(p) \/ Check(p) \/ Open(p) \/ ReadVersion(p) \/ Recheck(p)
         \/ OpenReadWrite(p)
  PROVE  InitInv'
<1> USE DEF InitInv, TypeOK, Goto, Stages
<1>1. stage[p] \notin Making /\ rw[p] = "none"
  BY DEF WriterOK, Making, Start, Check, Open, ReadVersion, Recheck, OpenReadWrite
<1>2. /\ OthersStay(p) /\ disk' = disk /\ rw' = rw
      /\ stage'[p] \in {"check", "open", "connect", "version", "ready", "remove",
                        "recheck"}
  BY DEF OthersStay, Start, Check, Open, ReadVersion, Recheck, OpenReadWrite
<1>3. Reads(p).version \in Version
  BY DEF Reads, File
<1>4. TypeOK'
  BY <1>3 DEF Start, Check, Open, ReadVersion, Recheck, OpenReadWrite
<1>5. QED
  BY <1>1, <1>2, <1>4, QuietKeeps DEF Making

\* Opening creates at most an empty file.
LEMMA ConnectKeeps ==
  ASSUME InitInv, NEW p \in Procs, Connect(p)
  PROVE  InitInv'
<1> USE DEF InitInv, TypeOK, Goto, Stages, Making
<1>1. disk' \in File /\ disk'.exists
  BY AbsentIsFile DEF Connect
<1>2. DiskGrows /\ FileOK'
  <2>1. CASE disk.exists
    <3>1. disk.tables \in Nat /\ disk' = disk
      BY <2>1, DbInitAssumption DEF File, Connect
    <3>2. QED
      BY <3>1 DEF DiskGrows, FileOK, LockedFlakeIsLast
  <2>2. CASE ~disk.exists
    <3>1. disk' = Empty
      BY <2>2 DEF Connect
    <3>2. disk.tables = 0 /\ disk.version = NoVersion /\ ~disk.flake
      BY <2>2 DEF FileOK
    <3>3. QED
      BY <3>1, <3>2, AbsentIsFile, DbInitAssumption
      DEF DiskGrows, FileOK, LockedFlakeIsLast, NoVersion
  <2>3. QED
    BY <2>1, <2>2
<1>3. 1 \in 1..(NTables + NViews + 1) /\ 1 <= NTables
  BY DbInitAssumption
<1>4. TypeOK'
  BY <1>1, <1>3 DEF Connect
<1>5. OthersStay(p) /\ stage'[p] = "tables" /\ rw'[p] = "path" /\ next'[p] = 1
  BY DEF Connect, OthersStay
<1>6. disk'.tables \in Nat
  BY <1>1, DbInitAssumption DEF File
<1>7. WriterOK(p)'
  BY <1>1, <1>3, <1>5, <1>6 DEF WriterOK, HasTables, HasVersions
<1>8. QED
  BY <1>2, <1>4, <1>5, <1>7, StepKeeps

\* A removed file takes its connections along.
LEMMA RemoveKeeps ==
  ASSUME InitInv, NEW p \in Procs, Remove(p)
  PROVE  InitInv'
<1> USE DEF InitInv, TypeOK, Goto, Stages, Making
<1>1. disk' = Absent /\ next' = next
  BY DEF Remove
<1>2. \A o \in Procs : rw'[o] # "path" /\ (rw'[o] # "none" <=> rw[o] # "none")
  BY DEF Remove
<1>3. /\ \A o \in Procs \ {p} : stage'[o] = stage[o]
      /\ stage[p] \notin Making /\ stage'[p] \notin Making
  BY DEF Remove
<1>4. \A o \in Procs : WriterOK(o)'
  <2> SUFFICES ASSUME NEW o \in Procs PROVE WriterOK(o)'
    OBVIOUS
  <2>1. WriterOK(o)
    OBVIOUS
  <2>2. QED
    BY <1>1, <1>2, <1>3, <2>1 DEF WriterOK
<1>5. FileOK'
  BY <1>1, AbsentIsFile DEF FileOK, LockedFlakeIsLast
<1>6. TypeOK'
  BY <1>1, AbsentIsFile DEF Remove
<1>7. QED
  BY <1>4, <1>5, <1>6

\* What the actions of the constructor have in common.
LEMMA WritingKeeps ==
  ASSUME InitInv, NEW p \in Procs, OthersStay(p), TypeOK', DiskGrows,
         rw[p] = "path", rw' = rw, stage'[p] \in Making,
         disk'.version # NoVersion => disk'.version.tables # 0,
         disk'.flake = disk.flake,
         stage'[p] = "tables" => next'[p] <= NTables /\ disk'.tables >= next'[p] - 1,
         stage'[p] \in Making \ {"tables", "views", "input"} => next'[p] = 1,
         stage'[p] = "views" => next'[p] <= NViews + 1,
         stage'[p] \in HasTables => disk'.tables = NTables,
         stage'[p] \in HasVersions => disk'.version.tables # 0
  PROVE  InitInv'
<1>1. WriterOK(p) /\ disk.exists
  BY DEF InitInv, WriterOK
<1>2. disk.tables \in 0..NTables /\ disk'.tables \in 0..NTables /\ NTables \in Nat
  BY DbInitAssumption DEF InitInv, TypeOK, File
<1>3. FileOK'
  BY <1>1, <1>2 DEF InitInv, FileOK, LockedFlakeIsLast, DiskGrows
<1>4. WriterOK(p)'
  BY <1>1 DEF WriterOK, DiskGrows
<1>5. QED
  BY <1>3, <1>4, StepKeeps

LEMMA CreateTableKeeps ==
  ASSUME InitInv, NEW p \in Procs, CreateTable(p)
  PROVE  InitInv'
<1> USE DEF InitInv, TypeOK, Goto, Stages, Making
<1>1. /\ rw[p] = "path" /\ rw' = rw /\ stage[p] = "tables" /\ OthersStay(p)
      /\ next[p] \in 1..NTables /\ NTables \in Nat /\ NViews \in Nat
      /\ disk.tables \in 0..NTables
      /\ disk.tables >= next[p] - 1
  BY DbInitAssumption DEF CreateTable, MayWrite, WriterOK, OthersStay, File
<1>2. disk' = [disk EXCEPT !.tables = IF next[p] > disk.tables THEN next[p] ELSE disk.tables]
  BY DEF CreateTable
<1>3. /\ disk' \in File /\ disk'.exists = disk.exists /\ disk'.version = disk.version
      /\ disk'.flake = disk.flake /\ disk'.tables >= next[p]
      /\ disk'.tables >= disk.tables /\ disk'.tables \in 0..NTables
  BY <1>1, <1>2, TableEffect
<1>4. /\ stage'[p] = IF next[p] = NTables THEN "versions" ELSE "tables"
      /\ next'[p] = IF next[p] = NTables THEN 1 ELSE next[p] + 1
  BY DEF CreateTable
<1>5. TypeOK'
  <2>1. /\ stage' \in [Procs -> Stages] /\ UNCHANGED <<ours, kind, ro, was, rw, after, seen, hurt>>
    BY DEF CreateTable
  <2>2. next' \in [Procs -> 1..(NTables + NViews + 1)]
    BY <1>1 DEF CreateTable
  <2>3. QED
    BY <1>3, <2>1, <2>2
<1>6. DiskGrows
  BY <1>3 DEF DiskGrows
<1>7. CASE next[p] = NTables
  <2>1. disk'.tables = NTables /\ stage'[p] = "versions" /\ next'[p] = 1
    BY <1>1, <1>3, <1>4, <1>7
  <2>2. QED
    BY <1>1, <1>3, <1>5, <1>6, <2>1, WritingKeeps DEF HasTables, HasVersions, FileOK
<1>8. CASE next[p] # NTables
  <2>1. stage'[p] = "tables" /\ next'[p] = next[p] + 1 /\ next'[p] <= NTables
        /\ disk'.tables >= next'[p] - 1
    BY <1>1, <1>3, <1>4, <1>8
  <2>2. QED
    BY <1>1, <1>3, <1>5, <1>6, <2>1, WritingKeeps DEF HasTables, HasVersions, FileOK
<1>9. QED
  BY <1>7, <1>8

LEMMA InitVersionsKeeps ==
  ASSUME InitInv, NEW p \in Procs, InitVersions(p)
  PROVE  InitInv'
<1> USE DEF InitInv, TypeOK, Goto, Stages, Making
<1>1. /\ rw[p] = "path" /\ rw' = rw /\ stage[p] = "versions" /\ stage'[p] = "compare"
      /\ OthersStay(p) /\ next' = next /\ next[p] = 1 /\ disk.tables = NTables
      /\ NTables \in Nat
  BY DbInitAssumption DEF InitVersions, MayWrite, WriterOK, OthersStay, HasTables
<1> DEFINE v == IF disk.version = NoVersion THEN ours[p] ELSE disk.version
<1>2. ours[p] \in Version /\ ours[p].tables # 0 /\ ours[p] # NoVersion
  BY OursIsVersion
<1>3. /\ v \in Version /\ v.tables # 0
      /\ disk.version.tables # 0 => v.tables = disk.version.tables
  BY <1>2 DEF FileOK, File, NoVersion
<1>4. disk' = [disk EXCEPT !.version = v]
  BY DEF InitVersions, File
<1> HIDE DEF v
<1>5. /\ disk' \in File /\ disk'.exists = disk.exists /\ disk'.version = v
      /\ disk'.flake = disk.flake /\ disk'.tables = disk.tables
  BY <1>3, <1>4, VersionEffect
<1>6. TypeOK'
  BY <1>5 DEF InitVersions
<1>7. DiskGrows
  BY <1>1, <1>3, <1>5 DEF DiskGrows
<1>8. QED
  BY <1>1, <1>3, <1>5, <1>6, <1>7, WritingKeeps DEF HasTables, HasVersions

\* A step of the constructor that only reads.
LEMMA ReadingKeeps ==
  ASSUME InitInv, NEW p \in Procs, CompareViews(p) \/ NoMoreViews(p) \/ ViewsDone(p)
  PROVE  InitInv'
<1> USE DEF InitInv, TypeOK, Goto, Stages, Making
<1>1. /\ rw' = rw /\ OthersStay(p) /\ next' = next /\ disk' = disk
      /\ NTables \in Nat /\ NViews \in Nat /\ disk.tables \in Nat
  BY DbInitAssumption DEF CompareViews, NoMoreViews, ViewsDone, OthersStay, File
<1>2. WriterOK(p)
  OBVIOUS
<1>3. \/ /\ stage[p] \in {"compare", "drop"} /\ stage'[p] \in {"drop", "views", "bump"}
         /\ next[p] = 1 /\ rw[p] = "path"
      \/ stage[p] = "views" /\ stage'[p] = "input"
  BY <1>2 DEF CompareViews, NoMoreViews, ViewsDone, WriterOK
<1>4. TypeOK'
  BY DEF CompareViews, NoMoreViews, ViewsDone
<1>5. DiskGrows /\ FileOK'
  BY <1>1 DEF DiskGrows, FileOK, LockedFlakeIsLast
<1>6. WriterOK(p)'
  BY <1>1, <1>2, <1>3 DEF WriterOK, HasTables, HasVersions
<1>7. QED
  BY <1>1, <1>4, <1>5, <1>6, StepKeeps

LEMMA DropViewKeeps ==
  ASSUME InitInv, NEW p \in Procs, DropView(p)
  PROVE  InitInv'
<1> USE DEF InitInv, TypeOK, Goto, Stages, Making
<1>1. /\ rw[p] = "path" /\ rw' = rw /\ stage' = stage /\ stage[p] = "drop"
      /\ OthersStay(p) /\ next' = next /\ next[p] = 1
      /\ disk.tables = NTables /\ disk.version.tables # 0 /\ NTables \in Nat
  BY DbInitAssumption
  DEF DropView, MayWrite, WriterOK, OthersStay, HasTables, HasVersions
<1>2. PICK v \in 1..NViews : disk' = [disk EXCEPT !.views[v] = 0]
  BY DEF DropView
<1>3. 0 \in 0..MaxVersion /\ disk \in File
  BY DbInitAssumption
<1>4. /\ disk' \in File /\ disk'.exists = disk.exists /\ disk'.flake = disk.flake
      /\ disk'.tables = disk.tables /\ disk'.version = disk.version
  BY <1>2, <1>3, ViewEffect
<1>5. TypeOK'
  BY <1>4 DEF DropView
<1>6. DiskGrows
  BY <1>1, <1>4 DEF DiskGrows
<1>7. QED
  BY <1>1, <1>4, <1>5, <1>6, WritingKeeps DEF HasTables, HasVersions

LEMMA BumpVersionKeeps ==
  ASSUME InitInv, NEW p \in Procs, BumpVersion(p)
  PROVE  InitInv'
<1> USE DEF InitInv, TypeOK, Goto, Stages, Making
<1>1. /\ rw[p] = "path" /\ rw' = rw /\ stage[p] = "bump" /\ stage'[p] = "views"
      /\ OthersStay(p) /\ next' = next /\ next[p] = 1
      /\ disk.tables = NTables /\ disk.version.tables # 0
      /\ NTables \in Nat /\ NViews \in Nat
  BY DbInitAssumption
  DEF BumpVersion, MayWrite, WriterOK, OthersStay, HasTables, HasVersions
<1>2. ours[p].views \in 1..MaxVersion
  BY OursIsVersion
<1>3. disk' = [disk EXCEPT !.version.views = ours[p].views]
  BY DEF BumpVersion
<1>4. /\ disk' \in File /\ disk'.exists = disk.exists /\ disk'.flake = disk.flake
      /\ disk'.tables = disk.tables /\ disk'.version.tables = disk.version.tables
  BY <1>2, <1>3, BumpEffect
<1>5. TypeOK'
  BY <1>4 DEF BumpVersion
<1>6. DiskGrows
  BY <1>1, <1>4 DEF DiskGrows
<1>7. QED
  BY <1>1, <1>4, <1>5, <1>6, WritingKeeps DEF HasTables, HasVersions

LEMMA CreateViewKeeps ==
  ASSUME InitInv, NEW p \in Procs, CreateView(p)
  PROVE  InitInv'
<1> USE DEF InitInv, TypeOK, Goto, Stages, Making
<1>1. /\ rw[p] = "path" /\ rw' = rw /\ stage' = stage /\ stage[p] = "views"
      /\ OthersStay(p) /\ next[p] \in 1..NViews /\ next'[p] = next[p] + 1
      /\ disk.tables = NTables /\ disk.version.tables # 0
      /\ NTables \in Nat /\ NViews \in Nat
  BY DbInitAssumption
  DEF CreateView, MayWrite, WriterOK, OthersStay, HasTables, HasVersions
<1> DEFINE v == IF disk.views[next[p]] = 0 THEN ours[p].views ELSE disk.views[next[p]]
<1>2. v \in 0..MaxVersion
  BY <1>1, OursIsVersion DEF File
<1>3. disk' = [disk EXCEPT !.views[next[p]] = v]
  BY <1>1 DEF CreateView, File
<1> HIDE DEF v
<1>4. /\ disk' \in File /\ disk'.exists = disk.exists /\ disk'.flake = disk.flake
      /\ disk'.tables = disk.tables /\ disk'.version = disk.version
  BY <1>1, <1>2, <1>3, ViewEffect
<1>5. next' \in [Procs -> 1..(NTables + NViews + 1)] /\ next'[p] <= NViews + 1
  BY <1>1 DEF CreateView
<1>6. TypeOK'
  BY <1>4, <1>5 DEF CreateView
<1>7. DiskGrows
  BY <1>1, <1>4 DEF DiskGrows
<1>8. QED
  BY <1>1, <1>4, <1>5, <1>6, <1>7, WritingKeeps DEF HasTables, HasVersions

\* The last statement: all that the row of LockedFlake stands for is there.
LEMMA WriteInputKeeps ==
  ASSUME InitInv, NEW p \in Procs, WriteInput(p)
  PROVE  InitInv'
<1> USE DEF InitInv, TypeOK, Goto, Stages, Making
<1>1. /\ rw[p] = "path" /\ rw'[p] = "none" /\ stage[p] = "input"
      /\ stage'[p] \notin Making /\ OthersStay(p)
      /\ disk.exists /\ disk.tables = NTables /\ disk.version.tables # 0
      /\ NTables \in Nat /\ NViews \in Nat
  BY DbInitAssumption
  DEF WriteInput, MayWrite, WriterOK, OthersStay, HasTables, HasVersions
<1>2. /\ disk' \in File /\ disk'.exists = disk.exists /\ disk'.flake
      /\ disk'.tables = disk.tables /\ disk'.version = disk.version
  BY FlakeEffect DEF WriteInput
<1>3. TypeOK'
  <2>1. hurt' \in BOOLEAN
    BY DEF WriteInput
  <2>2. next' \in [Procs -> 1..(NTables + NViews + 1)]
    BY <1>1 DEF WriteInput
  <2>3. QED
    BY <1>2, <2>1, <2>2 DEF WriteInput
<1>4. DiskGrows /\ FileOK'
  BY <1>1, <1>2 DEF DiskGrows, FileOK, LockedFlakeIsLast
<1>5. WriterOK(p)'
  BY <1>1 DEF WriterOK, HasTables, HasVersions
<1>6. QED
  BY <1>1, <1>3, <1>4, <1>5, StepKeeps

LEMMA InitInvStep == InitInv /\ [Next]_vars => InitInv'
<1> SUFFICES ASSUME InitInv, [Next]_vars PROVE InitInv'
  OBVIOUS
<1>1. CASE UNCHANGED vars
  BY <1>1 DEF vars, InitInv, TypeOK, FileOK, WriterOK, LockedFlakeIsLast
<1>2. CASE Next
  <2> PICK p \in Procs :
        \/ Start(p) \/ Check(p) \/ Connect(p) \/ Open(p) \/ OpenFails(p)
        \/ ReadVersion(p) \/ Remove(p) \/ Recheck(p) \/ RecheckFails(p)
        \/ OpenReadWrite(p) \/ Return(p) \/ Construct(p) \/ Refused(p) \/ Crash(p)
    BY <1>2 DEF Next
  <2>1. CASE \/ Start(p) \/ Check(p) \/ Open(p) \/ ReadVersion(p) \/ Recheck(p)
             \/ OpenReadWrite(p)
    BY <2>1, OutsideKeeps
  <2>2. CASE Connect(p)
    BY <2>2, ConnectKeeps
  <2>3. CASE Remove(p)
    BY <2>3, RemoveKeeps
  <2>4. CASE OpenFails(p) \/ RecheckFails(p) \/ Return(p) \/ Refused(p) \/ Crash(p)
    BY <2>4, GoneKeeps DEF OpenFails, RecheckFails, Return, Refused, Crash
  <2>5. CASE Construct(p)
    BY <2>5, CreateTableKeeps, InitVersionsKeeps, ReadingKeeps, DropViewKeeps,
       BumpVersionKeeps, CreateViewKeeps, WriteInputKeeps DEF Construct
  <2>6. QED
    BY <2>1, <2>2, <2>3, <2>4, <2>5
<1>3. QED
  BY <1>1, <1>2

LEMMA InitInvStart == Init => InitInv
<1> SUFFICES ASSUME Init PROVE InitInv
  OBVIOUS
<1>1. disk \in File /\ FileOK
  <2>1. CASE disk = Absent
    BY <2>1, AbsentIsFile DEF FileOK, LockedFlakeIsLast
  <2>2. CASE \E ver \in [tables : 1..MaxVersion, views : 1..MaxVersion] : disk = WholeOf(ver)
    BY <2>2, WholeIsFile DEF FileOK, LockedFlakeIsLast
  <2>3. QED
    BY <2>1, <2>2, OldFilesAssumption DEF Init
<1>2. TypeOK
  <2>1. /\ Absent \in File /\ NoVersion \in Version /\ 1 \in 1..(NTables + NViews + 1)
        /\ ours \in Deployments
    BY AbsentIsFile, DbInitAssumption DEF NoVersion, Version, Init
  <2>2. QED
    BY <1>1, <2>1 DEF Init, TypeOK, Stages
<1>3. \A p \in Procs : WriterOK(p)
  BY DEF Init, WriterOK, Making
<1>4. QED
  BY <1>1, <1>2, <1>3 DEF InitInv

\* What is established by each process on its way through the constructor, and
\* left alone by all others.
THEOREM DbInitInvariant == Spec => []InitInv
<1>1. QED
  BY InitInvStart, InitInvStep, PTL DEF Spec

\* The variables of DbInit stay in their types, whoever dies where.
THEOREM DbInitTypes == Spec => []TypeOK
<1>1. InitInv => TypeOK
  BY DEF InitInv
<1>2. QED
  BY <1>1, DbInitInvariant, PTL

\* The row of LockedFlake, by which PkgDbReadOnly::init() takes a file for a
\* database, is there only after all tables and the versions: for any number of
\* processes that create, migrate and remove the file at once.
THEOREM FlakeIsLast == Spec => []LockedFlakeIsLast
<1>1. InitInv => LockedFlakeIsLast
  BY DEF InitInv, FileOK
<1>2. QED
  BY <1>1, DbInitInvariant, PTL
-----------------------------------------------------------------------------
(***************************************************************************)
(* What init() has read stays true of the file its connection is on.       *)
(***************************************************************************)

GoodFile(f) == f.flake /\ f.tables = NTables /\ f.version.tables # 0

\* A read-only connection is on a finished database.
ReadsGood(p) ==
    /\ ro[p] = "path" => disk.flake
    /\ ro[p] = "gone" => GoodFile(was[p])

\* And on one of the process's own release.
ReadsOwn(p) ==
    /\ Reads(p).version.tables = ours[p].tables
    /\ OneRelease => Reads(p).version = ours[p]

\* Where a process is, or goes on after the constructor.
Within(p, S) ==
    stage[p] \in S \/ (stage[p] \in Making \cup {"connect"} /\ after[p] \in S)

ReaderOK(p) ==
    /\ ReadsGood(p)
    /\ stage[p] = "remove" => after[p] = "recheck"
    /\ Within(p, {"version", "remove", "recheck", "ready"}) => ro[p] # "none"
    /\ Within(p, {"ready"}) /\ kind[p] = "input" => ReadsOwn(p)

ReadInv == InitInv /\ \A p \in Procs : ReaderOK(p)

\* A finished database at the path stays one, of the same tables, and the version
\* of the views becomes at most that of the process that makes the step.
FileKept(p) ==
    /\ disk.flake => disk'.flake /\ disk'.version.tables = disk.version.tables
    /\ disk'.version = disk.version \/ disk'.version.views = ours[p].views

LEMMA ReadsKept ==
  ASSUME InitInv, TypeOK', NEW p \in Procs, NEW q \in Procs, FileKept(p), ours' = ours,
         ReadsGood(q), ro'[q] = ro[q], was'[q] = was[q]
  PROVE  ReadsGood(q)' /\ (ro[q] # "none" /\ ReadsOwn(q) => ReadsOwn(q)')
<1>1. ReadsGood(q)'
  BY DEF ReadsGood, FileKept
<1>2. ASSUME ro[q] # "none", ReadsOwn(q) PROVE ReadsOwn(q)'
  <2>1. CASE ro[q] = "gone"
    BY <2>1, <1>2 DEF ReadsOwn, Reads, OneRelease
  <2>2. CASE ro[q] # "gone"
    <3>1. ro[q] = "path" /\ disk.flake
      BY <2>2, <1>2 DEF ReadsGood, InitInv, TypeOK
    <3>2. Reads(q) = disk /\ Reads(q)' = disk'
      BY <2>2 DEF Reads
    <3>3. disk.version \in Version /\ disk'.version \in Version
      BY DEF InitInv, TypeOK, File
    <3>4. ASSUME OneRelease PROVE disk'.version = disk.version
      <4>1. disk.version.views = ours[p].views
        BY <1>2, <3>2, <3>4 DEF ReadsOwn, OneRelease
      <4>2. QED
        BY <3>1, <3>3, <4>1 DEF FileKept, Version
    <3>5. QED
      BY <1>2, <3>1, <3>2, <3>4 DEF ReadsOwn, FileKept, OneRelease
  <2>3. QED
    BY <2>1, <2>2
<1>3. QED
  BY <1>1, <1>2

LEMMA OthersRead ==
  ASSUME ReadInv, TypeOK', NEW p \in Procs, FileKept(p), ours' = ours,
         \A q \in Procs \ {p} :
           /\ stage'[q] = stage[q] /\ kind'[q] = kind[q] /\ after'[q] = after[q]
           /\ ro'[q] = ro[q] /\ was'[q] = was[q]
  PROVE  \A q \in Procs \ {p} : ReaderOK(q)'
<1> SUFFICES ASSUME NEW q \in Procs \ {p} PROVE ReaderOK(q)'
  OBVIOUS
<1>1. ReaderOK(q) /\ InitInv
  BY DEF ReadInv
<1>2. ReadsGood(q)' /\ (ro[q] # "none" /\ ReadsOwn(q) => ReadsOwn(q)')
  BY <1>1, ReadsKept DEF ReaderOK
<1>3. Within(q, {"ready"}) => Within(q, {"version", "remove", "recheck", "ready"})
  BY DEF Within
<1>4. QED
  BY <1>1, <1>2, <1>3 DEF ReaderOK, Within

LEMMA FileIsKept ==
  ASSUME InitInv, NEW p \in Procs, Construct(p) \/ Connect(p)
  PROVE  FileKept(p)
<1> USE DEF InitInv, TypeOK
<1>1. disk \in File /\ MaxVersion \in Nat /\ (disk.flake => disk.exists)
  BY DbInitAssumption DEF FileOK, LockedFlakeIsLast
<1>2. disk.flake => disk.version # NoVersion
  BY DEF FileOK, LockedFlakeIsLast, NoVersion
<1>3. CASE Connect(p) \/ CompareViews(p) \/ NoMoreViews(p) \/ ViewsDone(p)
  BY <1>1, <1>3, AbsentIsFile
  DEF FileKept, FileOK, Connect, CompareViews, NoMoreViews, ViewsDone
<1>4. CASE CreateTable(p)
  BY <1>1, <1>4 DEF FileKept, CreateTable, File
<1>5. CASE InitVersions(p)
  BY <1>1, <1>2, <1>5 DEF FileKept, InitVersions, File
<1>6. CASE DropView(p)
  <2>1. PICK v \in 1..NViews : disk' = [disk EXCEPT !.views[v] = 0]
    BY <1>6 DEF DropView
  <2>2. QED
    BY <1>1, <2>1, ViewEffect DEF FileKept
<1>7. CASE BumpVersion(p)
  <2>1. ours[p].views \in 1..MaxVersion
    BY OursIsVersion
  <2>2. disk' = [disk EXCEPT !.version.views = ours[p].views]
    BY <1>7 DEF BumpVersion
  <2>3. QED
    BY <1>1, <2>1, <2>2, BumpEffect DEF FileKept
<1>8. CASE CreateView(p)
  BY <1>1, <1>8 DEF FileKept, CreateView, File
<1>9. CASE WriteInput(p)
  BY <1>1, <1>9, FlakeEffect DEF FileKept, WriteInput
<1>10. QED
  BY <1>3, <1>4, <1>5, <1>6, <1>7, <1>8, <1>9 DEF Construct

\* The constructor of PkgDb leaves the read-only connection alone.
LEMMA ConstructReads ==
  ASSUME ReadInv, TypeOK', NEW p \in Procs, Construct(p) \/ Connect(p)
  PROVE  \A q \in Procs : ReaderOK(q)'
<1> USE DEF ReadInv, InitInv, TypeOK, Goto
<1>1. FileKept(p)
  BY FileIsKept
<1>2. /\ ours' = ours /\ kind' = kind /\ after' = after /\ ro' = ro /\ was' = was
      /\ \A q \in Procs \ {p} : stage'[q] = stage[q]
      /\ stage[p] \in Making \cup {"connect"}
      /\ stage'[p] \in Making \/ stage'[p] = after[p]
  BY DEF Construct, Connect, CreateTable, InitVersions, CompareViews, DropView,
         NoMoreViews, BumpVersion, CreateView, ViewsDone, WriteInput, Making
<1>3. \A q \in Procs \ {p} : ReaderOK(q)'
  BY <1>1, <1>2, OthersRead
<1>4. ReaderOK(p)'
  <2>1. ReadsGood(p)' /\ (ro[p] # "none" /\ ReadsOwn(p) => ReadsOwn(p)')
    BY <1>1, <1>2, ReadsKept DEF ReaderOK
  <2>2. Within(p, {"ready"})' => Within(p, {"ready"})
    BY <1>2 DEF Within, Making
  <2>3. Within(p, {"version", "remove", "recheck", "ready"})'
          => Within(p, {"version", "remove", "recheck", "ready"})
    BY <1>2 DEF Within, Making
  <2>4. Within(p, {"ready"}) => Within(p, {"version", "remove", "recheck", "ready"})
    BY DEF Within
  <2>5. ReaderOK(p)
    OBVIOUS
  <2>6. ro' = ro /\ kind' = kind
    BY <1>2
  <2>7. stage'[p] # "remove"
    BY <1>2 DEF Making
  <2>8. QED
    BY <2>1, <2>2, <2>3, <2>4, <2>5, <2>6, <2>7 DEF ReaderOK
<1>5. QED
  BY <1>3, <1>4

\* A process that is done with the file, or has not opened it yet.
LEMMA GoneReads ==
  ASSUME ReadInv, TypeOK', NEW p \in Procs, NEW s \in {"idle", "failed", "incompatible"},
         Gone(p, s)
  PROVE  \A q \in Procs : ReaderOK(q)'
<1> USE DEF ReadInv, InitInv, TypeOK, Goto
<1>1. /\ FileKept(p) /\ ours' = ours /\ stage'[p] = s /\ ro'[p] = "none"
      /\ \A q \in Procs \ {p} :
           /\ stage'[q] = stage[q] /\ kind'[q] = kind[q] /\ after'[q] = after[q]
           /\ ro'[q] = ro[q] /\ was'[q] = was[q]
  BY DEF Gone, FileKept
<1>2. \A q \in Procs \ {p} : ReaderOK(q)'
  BY <1>1, OthersRead
<1>3. ReaderOK(p)'
  BY <1>1 DEF ReaderOK, ReadsGood, Within, Making
<1>4. QED
  BY <1>2, <1>3

\* What is read decides how a process goes on.
LEMMA OutsideReads ==
  ASSUME ReadInv, TypeOK', NEW p \in Procs,
         \/ Start(p) \/ Check(p) \/ Open(p) \/ ReadVersion(p) \/ Recheck(p)
         \/ OpenReadWrite(p)
  PROVE  \A q \in Procs : ReaderOK(q)'
<1> USE DEF ReadInv, InitInv, TypeOK, Goto
<1>1. /\ ours' = ours /\ disk' = disk /\ was' = was /\ FileKept(p)
      /\ \A q \in Procs \ {p} :
           /\ stage'[q] = stage[q] /\ kind'[q] = kind[q] /\ after'[q] = after[q]
           /\ ro'[q] = ro[q] /\ was'[q] = was[q]
  BY DEF Start, Check, Open, ReadVersion, Recheck, OpenReadWrite, FileKept
<1>2. \A q \in Procs \ {p} : ReaderOK(q)'
  BY <1>1, OthersRead
<1>3. ReaderOK(p)'
  <2> USE DEF ReaderOK
  <2>0. ReaderOK(p) /\ OneRelease' = OneRelease
    BY <1>1 DEF OneRelease
  <2>1. CASE Start(p) \/ Check(p)
    BY <1>1, <2>0, <2>1 DEF Start, Check, Within, Making, ReadsGood
  <2>2. CASE Open(p)
    BY <1>1, <2>0, <2>2 DEF Open, CanOpen, Within, Making, ReadsGood
  <2>3. CASE ReadVersion(p)
    <3>1. /\ ro' = ro /\ stage[p] = "version" /\ after'[p] = "recheck"
          /\ stage'[p] \in {"remove", "connect", "recheck"}
      BY <2>3 DEF ReadVersion
    <3>2. QED
      BY <1>1, <2>0, <3>1 DEF Within, Making, ReadsGood
  <2>4. CASE Recheck(p)
    <3>1. ro' = ro /\ stage[p] = "recheck" /\ stage'[p] = "ready" /\ Reads(p).version = ours[p]
      BY <2>4 DEF Recheck
    <3>2. ReadsOwn(p)'
      BY <1>1, <3>1 DEF ReadsOwn, Reads
    <3>3. QED
      BY <1>1, <2>0, <3>1, <3>2 DEF Within, ReadsGood
  <2>5. CASE OpenReadWrite(p)
    <3>1. /\ ro' = ro /\ stage[p] = "ready" /\ stage'[p] = "connect" /\ after'[p] = "ready"
          /\ kind[p] = "input" /\ kind' = kind
      BY <2>5 DEF OpenReadWrite
    <3>2. ReadsOwn(p)'
      BY <1>1, <2>0, <3>1 DEF ReadsOwn, Reads, Within
    <3>3. QED
      BY <1>1, <2>0, <3>1, <3>2 DEF Within, ReadsGood
  <2>6. QED
    BY <2>1, <2>2, <2>3, <2>4, <2>5
<1>4. QED
  BY <1>2, <1>3

\* Those who have opened a file that is removed go on reading it.
LEMMA RemoveReads ==
  ASSUME ReadInv, TypeOK', NEW p \in Procs, Remove(p)
  PROVE  \A q \in Procs : ReaderOK(q)'
<1> USE DEF ReadInv, InitInv, TypeOK, Goto
<1> SUFFICES ASSUME NEW q \in Procs PROVE ReaderOK(q)'
  OBVIOUS
<1>1. /\ ours' = ours /\ kind' = kind /\ after' = after
      /\ ro'[q] = (IF ro[q] = "path" THEN "gone" ELSE ro[q])
      /\ was'[q] = (IF ro[q] = "path" THEN disk ELSE was[q])
      /\ stage[p] = "remove" /\ stage' = [stage EXCEPT ![p] = "connect"]
  BY DEF Remove
<1>2. ReaderOK(q)
  OBVIOUS
<1>3. ReadsGood(q)'
  BY <1>1, <1>2 DEF ReaderOK, ReadsGood, GoodFile, FileOK, LockedFlakeIsLast
<1>4. ro[q] # "none" => ro'[q] # "none" /\ Reads(q)' = Reads(q)
  BY <1>1 DEF Reads
<1>5. /\ Within(q, {"version", "remove", "recheck", "ready"})'
           => Within(q, {"version", "remove", "recheck", "ready"})
      /\ Within(q, {"ready"}) => Within(q, {"version", "remove", "recheck", "ready"})
      /\ q # p => (Within(q, {"ready"})' => Within(q, {"ready"}))
  BY <1>1 DEF Within
<1>6. CASE q # p
  BY <1>1, <1>2, <1>3, <1>4, <1>5, <1>6 DEF ReaderOK, ReadsOwn, OneRelease
<1>7. CASE q = p
  <2>1. after'[p] = "recheck" /\ stage'[p] = "connect"
    BY <1>1, <1>2, <1>7 DEF ReaderOK
  <2>2. ~Within(p, {"ready"})'
    BY <2>1 DEF Within
  <2>3. ro'[p] # "none"
    BY <1>1, <1>2, <1>4, <1>7 DEF ReaderOK, Within
  <2>4. QED
    BY <1>3, <1>7, <2>1, <2>2, <2>3 DEF ReaderOK
<1>8. QED
  BY <1>6, <1>7

LEMMA ReadInvStep == ReadInv /\ [Next]_vars => ReadInv'
<1> SUFFICES ASSUME ReadInv, [Next]_vars PROVE ReadInv'
  OBVIOUS
<1>1. InitInv' /\ TypeOK'
  BY InitInvStep DEF ReadInv, InitInv
<1>2. CASE UNCHANGED vars
  BY <1>1, <1>2
  DEF vars, ReadInv, ReaderOK, ReadsGood, ReadsOwn, Reads, Within, OneRelease
<1>3. CASE Next
  <2> PICK p \in Procs :
        \/ Start(p) \/ Check(p) \/ Connect(p) \/ Open(p) \/ OpenFails(p)
        \/ ReadVersion(p) \/ Remove(p) \/ Recheck(p) \/ RecheckFails(p)
        \/ OpenReadWrite(p) \/ Return(p) \/ Construct(p) \/ Refused(p) \/ Crash(p)
    BY <1>3 DEF Next
  <2>1. CASE \/ Start(p) \/ Check(p) \/ Open(p) \/ ReadVersion(p) \/ Recheck(p)
             \/ OpenReadWrite(p)
    BY <1>1, <2>1, OutsideReads DEF ReadInv
  <2>2. CASE Construct(p) \/ Connect(p)
    BY <1>1, <2>2, ConstructReads DEF ReadInv
  <2>3. CASE Remove(p)
    BY <1>1, <2>3, RemoveReads DEF ReadInv
  <2>4. CASE OpenFails(p) \/ RecheckFails(p) \/ Return(p) \/ Refused(p) \/ Crash(p)
    BY <1>1, <2>4, GoneReads
    DEF ReadInv, OpenFails, RecheckFails, Return, Refused, Crash
  <2>5. QED
    BY <2>1, <2>2, <2>3, <2>4
<1>4. QED
  BY <1>2, <1>3

\* A process for which PkgDbInput::init() has returned reads a finished database
\* with the tables of its own release, and its views while one release is in use,
\* whoever removes or migrates the file meanwhile.
THEOREM ReadyReads == Spec => []ReadyIsCompatible
<1>1. Init => ReadInv
  <2> SUFFICES ASSUME Init PROVE ReadInv
    OBVIOUS
  <2>1. \A p \in Procs : ReaderOK(p)
    BY DEF Init, ReaderOK, ReadsGood, Within, Making
  <2>2. QED
    BY <2>1, InitInvStart DEF ReadInv
<1>2. ReadInv => ReadyIsCompatible
  <2> SUFFICES ASSUME ReadInv, NEW p \in Procs, stage[p] = "ready", kind[p] = "input"
               PROVE  /\ Reads(p).flake /\ Reads(p).tables = NTables
                      /\ Reads(p).version.tables = ours[p].tables
                      /\ OneRelease => Reads(p).version = ours[p]
    BY DEF ReadyIsCompatible
  <2>1. ReaderOK(p) /\ FileOK /\ ro[p] \in {"none", "path", "gone"}
    BY DEF ReadInv, InitInv, TypeOK
  <2>2. ro[p] # "none" /\ ReadsOwn(p)
    BY <2>1 DEF ReaderOK, Within
  <2>3. Reads(p).flake /\ Reads(p).tables = NTables
    BY <2>1, <2>2 DEF ReaderOK, ReadsGood, GoodFile, Reads, FileOK, LockedFlakeIsLast
  <2>4. QED
    BY <2>2, <2>3 DEF ReadsOwn
<1>3. QED
  BY <1>1, <1>2, ReadInvStep, PTL DEF Spec
-----------------------------------------------------------------------------
(***************************************************************************)
(* The file everyone sees is the abstract cache file.                      *)
(***************************************************************************)

\* While one release is in use, who replaces the views has not been overtaken.
ViewsBehind ==
    \A p \in Procs : OneRelease /\ stage[p] \in {"drop", "bump"} /\ rw[p] = "path"
                     => disk.version.views <= ours[p].views

LEMMA ViewsBehindStep == InitInv /\ ViewsBehind /\ [Next]_vars => ViewsBehind'
<1> USE DEF InitInv, TypeOK
<1> SUFFICES ASSUME InitInv, ViewsBehind, [Next]_vars, NEW q \in Procs, OneRelease',
                    stage'[q] \in {"drop", "bump"}, rw'[q] = "path"
             PROVE  disk'.version.views <= ours'[q].views
  BY DEF ViewsBehind
<1>1. CASE UNCHANGED vars
  BY <1>1 DEF vars, ViewsBehind, OneRelease
<1>2. ASSUME NEW p \in Procs, Remove(p) PROVE FALSE
  BY <1>2 DEF Remove
<1>3. ASSUME NEW p \in Procs, FileKept(p), ours' = ours, rw'[q] = "path" => rw[q] = "path",
             stage'[q] = stage[q] \/ stage[q] \in {"drop", "bump"}
      PROVE  disk'.version.views <= ours'[q].views
  <2>1. ours[p].views = ours[q].views /\ ours[p].views \in 1..MaxVersion /\ OneRelease
    BY <1>3, OursIsVersion DEF OneRelease
  <2>2. disk.version.views <= ours[q].views
    BY <1>3, <2>1 DEF ViewsBehind
  <2>3. QED
    BY <1>3, <2>1, <2>2, DbInitAssumption DEF FileKept
<1>4. ASSUME NEW p \in Procs, CompareViews(p), p = q
      PROVE  disk'.version.views <= ours'[q].views
  <2>1. disk' = disk /\ ours' = ours /\ disk.version.views < ours[q].views
    BY <1>4 DEF CompareViews, Goto
  <2>2. disk.version \in Version /\ ours[q].views \in 1..MaxVersion
    BY OursIsVersion DEF File
  <2>3. disk.version.views \in Nat /\ ours[q].views \in Nat
    BY <2>2, DbInitAssumption DEF Version
  <2>4. QED
    BY <2>1, <2>3
<1>5. ASSUME NEW p \in Procs, Construct(p), ~(CompareViews(p) /\ p = q)
      PROVE  disk'.version.views <= ours'[q].views
  <2>1. ours' = ours /\ (rw'[q] = "path" => rw[q] = "path")
    BY <1>5 DEF Construct, CreateTable, InitVersions, CompareViews, DropView,
                NoMoreViews, BumpVersion, CreateView, ViewsDone, WriteInput
  <2>2. stage'[q] = stage[q] \/ stage[q] \in {"drop", "bump"}
    BY <1>5 DEF Construct, CreateTable, InitVersions, CompareViews, DropView, Goto,
                NoMoreViews, BumpVersion, CreateView, ViewsDone, WriteInput
  <2>3. QED
    BY <1>3, <1>5, <2>1, <2>2, FileIsKept
<1>6. ASSUME NEW p \in Procs, Connect(p) PROVE disk'.version.views <= ours'[q].views
  <2>1. ours' = ours /\ stage'[q] = stage[q] /\ rw'[q] = rw[q]
    BY <1>6 DEF Connect, Goto
  <2>2. QED
    BY <1>3, <1>6, <2>1, FileIsKept
<1>7. ASSUME NEW p \in Procs,
             \/ Start(p) \/ Check(p) \/ Open(p) \/ ReadVersion(p) \/ Recheck(p)
             \/ OpenReadWrite(p)
      PROVE  disk'.version.views <= ours'[q].views
  <2>1. disk' = disk /\ ours' = ours /\ rw' = rw /\ stage'[q] = stage[q]
    BY <1>7 DEF Start, Check, Open, ReadVersion, Recheck, OpenReadWrite, Goto
  <2>2. QED
    BY <2>1 DEF ViewsBehind, OneRelease
<1>8. ASSUME NEW p \in Procs, NEW s \in {"idle", "failed", "incompatible"}, Gone(p, s)
      PROVE  disk'.version.views <= ours'[q].views
  <2>1. disk' = disk /\ ours' = ours /\ rw'[q] = rw[q] /\ stage'[q] = stage[q]
    BY <1>8 DEF Gone, Goto
  <2>2. QED
    BY <2>1 DEF ViewsBehind, OneRelease
<1>9. QED
  BY <1>1, <1>2, <1>4, <1>5, <1>6, <1>7, <1>8
  DEF Next, OpenFails, RecheckFails, Return, Refused, Crash

LEMMA CacheStep ==
  InitInv /\ ViewsBehind /\ [Next]_vars => [Cache!Next]_(Cache!cacheVars)
<1> USE DEF InitInv, TypeOK, Cache!Next, Cache!cacheVars
<1> SUFFICES ASSUME InitInv, ViewsBehind, [Next]_vars
             PROVE  [Cache!Next]_(Cache!cacheVars)
  OBVIOUS
<1>1. ASSUME disk' = disk, ours' = ours PROVE [Cache!Next]_(Cache!cacheVars)
  BY <1>1 DEF OneRelease
<1>2. CASE UNCHANGED vars
  BY <1>1, <1>2 DEF vars
<1>3. ASSUME NEW p \in Procs,
             \/ Start(p) \/ Check(p) \/ Open(p) \/ ReadVersion(p) \/ Recheck(p)
             \/ OpenReadWrite(p) \/ CompareViews(p) \/ NoMoreViews(p) \/ ViewsDone(p)
      PROVE  [Cache!Next]_(Cache!cacheVars)
  <2>1. disk' = disk /\ ours' = ours
    BY <1>3 DEF Start, Check, Open, ReadVersion, Recheck, OpenReadWrite, CompareViews,
                NoMoreViews, ViewsDone
  <2>2. QED
    BY <1>1, <2>1
<1>4. ASSUME NEW p \in Procs, NEW s \in {"idle", "failed", "incompatible"}, Gone(p, s)
      PROVE  [Cache!Next]_(Cache!cacheVars)
  <2>1. disk' = disk /\ ours' = ours
    BY <1>4 DEF Gone
  <2>2. QED
    BY <1>1, <2>1
<1>5. ASSUME NEW p \in Procs, Connect(p) PROVE [Cache!Next]_(Cache!cacheVars)
  <2>1. CASE disk.exists
    <3>1. disk' = disk /\ ours' = ours
      BY <1>5, <2>1 DEF Connect
    <3>2. QED
      BY <1>1, <3>1
  <2>2. CASE ~disk.exists
    <3>1. disk' = Empty /\ ours' = ours /\ ~disk.flake
      BY <1>5, <2>2 DEF Connect, FileOK
    <3>2. Cache!Make
      BY <2>2, <3>1, AbsentIsFile DEF Cache!Make
    <3>3. QED
      BY <3>2
  <2>3. QED
    BY <2>1, <2>2
<1>6. ASSUME NEW p \in Procs, Remove(p) PROVE [Cache!Next]_(Cache!cacheVars)
  <2>1. disk' = Absent
    BY <1>6 DEF Remove
  <2>2. Cache!Discard
    BY <2>1, AbsentIsFile DEF Cache!Discard
  <2>3. QED
    BY <2>2
\* A statement that leaves the versions alone.
<1>7. ASSUME ours' = ours, disk'.exists = disk.exists, disk'.flake = disk.flake,
             disk.flake => disk'.version = disk.version
      PROVE  [Cache!Next]_(Cache!cacheVars)
  BY <1>7 DEF OneRelease
<1>8. disk \in File /\ NTables \in Nat /\ MaxVersion \in Nat
  BY DbInitAssumption
<1>9. ASSUME NEW p \in Procs, CreateTable(p) \/ CreateView(p)
      PROVE  [Cache!Next]_(Cache!cacheVars)
  <2>1. ours' = ours /\ disk'.exists = disk.exists /\ disk'.flake = disk.flake
        /\ disk'.version = disk.version
    BY <1>8, <1>9 DEF CreateTable, CreateView, File
  <2>2. QED
    BY <1>7, <2>1
<1>10. ASSUME NEW p \in Procs, DropView(p) PROVE [Cache!Next]_(Cache!cacheVars)
  <2>1. PICK v \in 1..NViews : disk' = [disk EXCEPT !.views[v] = 0] /\ ours' = ours
    BY <1>10 DEF DropView
  <2>2. 0 \in 0..MaxVersion
    BY <1>8
  <2>3. QED
    BY <1>7, <1>8, <2>1, <2>2, ViewEffect
<1>11. ASSUME NEW p \in Procs, InitVersions(p) PROVE [Cache!Next]_(Cache!cacheVars)
  <2>1. disk.flake => disk.version # NoVersion
    BY DEF FileOK, LockedFlakeIsLast, NoVersion
  <2>2. ours' = ours /\ disk'.exists = disk.exists /\ disk'.flake = disk.flake
        /\ (disk.flake => disk'.version = disk.version)
    BY <1>8, <1>11, <2>1 DEF InitVersions, File
  <2>3. QED
    BY <1>7, <2>2
<1>12. ASSUME NEW p \in Procs, BumpVersion(p) PROVE [Cache!Next]_(Cache!cacheVars)
  <2>1. ours[p].views \in 1..MaxVersion
    BY OursIsVersion
  <2>2. disk' = [disk EXCEPT !.version.views = ours[p].views] /\ ours' = ours
    BY <1>12 DEF BumpVersion
  <2>3. /\ disk'.exists = disk.exists /\ disk'.flake = disk.flake
        /\ disk'.version.tables = disk.version.tables
        /\ disk'.version.views = ours[p].views
    BY <1>8, <2>1, <2>2, BumpEffect
  <2>4. disk.exists /\ rw[p] = "path" /\ stage[p] = "bump"
    BY <1>12 DEF BumpVersion, MayWrite, WriterOK
  <2>5. disk.version.views \in Nat /\ ours[p].views \in Nat
    BY <1>8, <2>1 DEF File, Version
  <2>6. OneRelease' = OneRelease
    BY <2>2 DEF OneRelease
  <2>7. CASE ~disk.flake \/ ~OneRelease \/ disk.version.views = ours[p].views
    BY <2>2, <2>3, <2>4, <2>6, <2>7
  <2>8. CASE disk.flake /\ OneRelease /\ disk.version.views # ours[p].views
    <3>1. disk.version.views < ours[p].views
      BY <2>4, <2>5, <2>8 DEF ViewsBehind
    <3>2. Cache!Upgrade
      BY <2>2, <2>3, <2>4, <2>5, <2>6, <2>8, <3>1 DEF Cache!Upgrade
    <3>3. QED
      BY <3>2
  <2>9. QED
    BY <2>7, <2>8
<1>13. ASSUME NEW p \in Procs, WriteInput(p) PROVE [Cache!Next]_(Cache!cacheVars)
  <2>1. /\ disk'.exists = disk.exists /\ disk'.flake /\ disk'.version = disk.version
        /\ ours' = ours
    BY <1>8, <1>13, FlakeEffect DEF WriteInput
  <2>2. disk.exists /\ disk.version.tables \in Nat /\ disk.version.views \in Nat
    BY <1>8, <1>13 DEF WriteInput, MayWrite, WriterOK, File, Version
  <2>3. OneRelease' = OneRelease
    BY <2>1 DEF OneRelease
  <2>4. CASE disk.flake
    BY <1>7, <2>1, <2>4
  <2>5. CASE ~disk.flake
    <3>1. Cache!Complete
      BY <2>1, <2>2, <2>3, <2>5 DEF Cache!Complete
    <3>2. QED
      BY <3>1
  <2>6. QED
    BY <2>4, <2>5
<1>14. QED
  BY <1>2, <1>3, <1>4, <1>5, <1>6, <1>9, <1>10, <1>11, <1>12, <1>13
  DEF Next, Construct, OpenFails, RecheckFails, Return, Refused, Crash

LEMMA CacheStart == Init => Cache!Init
<1> SUFFICES ASSUME Init PROVE Cache!Init
  OBVIOUS
<1>1. CASE disk = Absent
  BY <1>1, AbsentIsFile DEF Cache!Init
<1>2. CASE \E ver \in [tables : 1..MaxVersion, views : 1..MaxVersion] : disk = WholeOf(ver)
  <2>1. PICK ver \in [tables : 1..MaxVersion, views : 1..MaxVersion] : disk = WholeOf(ver)
    BY <1>2
  <2>2. disk.exists /\ disk.flake /\ disk.version = ver /\ ver.tables \in Nat /\ ver.views \in Nat
    BY <2>1, WholeIsFile, DbInitAssumption
  <2>3. QED
    BY <2>2, DbInitAssumption DEF Cache!Init
<1>3. QED
  BY <1>1, <1>2, OldFilesAssumption DEF Init

\* The file that all processes see implements the abstract cache file: it becomes a
\* database by one step, keeps the version of its tables, and only ever disappears
\* as a whole.
THEOREM FileImplementsCache == Spec => DbIsCacheFile
<1>1. Init => InitInv /\ ViewsBehind /\ Cache!Init
  BY InitInvStart, CacheStart DEF Init, ViewsBehind
<1>2. InitInv /\ ViewsBehind /\ [Next]_vars => InitInv' /\ ViewsBehind'
  BY InitInvStep, ViewsBehindStep
<1>3. InitInv /\ ViewsBehind /\ [Next]_vars => [Cache!Next]_(Cache!cacheVars)
  BY CacheStep
<1>4. QED
  BY <1>1, <1>2, <1>3, PTL DEF Spec, DbIsCacheFile, Cache!Spec
-----------------------------------------------------------------------------
(***************************************************************************)
(* Who answers for what is missing from the file.                          *)
(***************************************************************************)

\* A process that is going to create view v, if it gets that far.
AnswersFor(p, v) ==
    /\ rw[p] = "path"
    /\ \/ stage[p] \in {"tables", "versions", "compare", "drop", "bump"}
       \/ stage[p] = "views" /\ next[p] <= v

Answered ==
    disk.exists /\ ~hurt =>
      /\ ~disk.flake => \E p \in Procs : rw[p] = "path"
      /\ \A v \in 1..NViews : disk.views[v] = 0 => \E p \in Procs : AnswersFor(p, v)

LEMMA AnsweredStep == InitInv /\ Answered /\ [Next]_vars => Answered'
<1> USE DEF InitInv, TypeOK
<1> SUFFICES ASSUME InitInv, Answered, [Next]_vars PROVE Answered'
  OBVIOUS
<1>0. disk \in File /\ NTables \in Nat /\ NViews \in Nat /\ MaxVersion \in Nat
  BY DbInitAssumption
<1>1. CASE UNCHANGED vars
  BY <1>1 DEF vars, Answered, AnswersFor
<1>2. ASSUME NEW p \in Procs,
             \/ Start(p) \/ Check(p) \/ Open(p) \/ ReadVersion(p) \/ Recheck(p)
             \/ OpenReadWrite(p)
      PROVE  Answered'
  <2>1. /\ disk' = disk /\ hurt' = hurt /\ rw' = rw /\ next' = next
        /\ rw[p] = "none" /\ \A o \in Procs \ {p} : stage'[o] = stage[o]
    BY <1>2 DEF Start, Check, Open, ReadVersion, Recheck, OpenReadWrite, Goto, WriterOK, Making
  <2>2. \A o \in Procs, v \in 1..NViews : AnswersFor(o, v) => AnswersFor(o, v)'
    BY <2>1 DEF AnswersFor
  <2>3. QED
    BY <2>1, <2>2 DEF Answered
<1>3. ASSUME NEW p \in Procs, NEW s \in {"idle", "failed", "incompatible"}, Gone(p, s)
      PROVE  Answered'
  <2>1. /\ disk' = disk /\ hurt' = (hurt \/ rw[p] = "path")
        /\ \A o \in Procs \ {p} : stage'[o] = stage[o] /\ rw'[o] = rw[o] /\ next'[o] = next[o]
    BY <1>3 DEF Gone, Goto
  <2>2. CASE rw[p] = "path"
    BY <2>1, <2>2 DEF Answered
  <2>3. CASE rw[p] # "path"
    <3>1. \A o \in Procs, v \in 1..NViews : AnswersFor(o, v) => AnswersFor(o, v)'
      BY <2>1, <2>3 DEF AnswersFor
    <3>2. \A o \in Procs : rw[o] = "path" => rw'[o] = "path"
      BY <2>1, <2>3
    <3>3. QED
      BY <2>1, <3>1, <3>2 DEF Answered
  <2>4. QED
    BY <2>2, <2>3
<1>4. ASSUME NEW p \in Procs, Connect(p) PROVE Answered'
  <2>1. rw'[p] = "path" /\ stage'[p] = "tables"
    BY <1>4 DEF Connect, Goto
  <2>2. \A v \in 1..NViews : AnswersFor(p, v)'
    BY <2>1 DEF AnswersFor
  <2>3. QED
    BY <2>1, <2>2 DEF Answered
<1>5. ASSUME NEW p \in Procs, Remove(p) PROVE Answered'
  BY <1>5, AbsentIsFile DEF Remove, Answered
\* The writer goes on, and creates the views it leaves behind.
<1>6. ASSUME NEW p \in Procs, rw[p] = "path", rw' = rw, hurt' = hurt,
             disk'.exists = disk.exists, disk'.flake = disk.flake,
             \A o \in Procs \ {p} : stage'[o] = stage[o] /\ next'[o] = next[o],
             \A v \in 1..NViews : disk'.views[v] = 0 =>
               \/ disk.views[v] = 0 /\ (AnswersFor(p, v) => AnswersFor(p, v)')
               \/ AnswersFor(p, v)'
      PROVE  Answered'
  <2>1. \A o \in Procs \ {p}, v \in 1..NViews : AnswersFor(o, v) => AnswersFor(o, v)'
    BY <1>6 DEF AnswersFor
  <2>2. QED
    BY <1>6, <2>1 DEF Answered
<1>7. ASSUME NEW p \in Procs, CreateTable(p) \/ InitVersions(p) PROVE Answered'
  <2>1. /\ rw[p] = "path" /\ rw' = rw /\ hurt' = hurt /\ disk'.exists = disk.exists
        /\ disk'.flake = disk.flake /\ disk'.views = disk.views
        /\ \A o \in Procs \ {p} : stage'[o] = stage[o] /\ next'[o] = next[o]
        /\ stage'[p] \in {"tables", "versions", "compare"}
    BY <1>0, <1>7 DEF CreateTable, InitVersions, MayWrite, Goto, File
  <2>2. \A v \in 1..NViews : AnswersFor(p, v)'
    BY <2>1 DEF AnswersFor
  <2>3. QED
    BY <1>6, <2>1, <2>2
<1>8. ASSUME NEW p \in Procs, CompareViews(p) \/ NoMoreViews(p) PROVE Answered'
  <2>1. /\ rw[p] = "path" /\ rw' = rw /\ hurt' = hurt /\ disk' = disk /\ next' = next
        /\ \A o \in Procs \ {p} : stage'[o] = stage[o]
        /\ next[p] = 1 /\ stage'[p] \in {"drop", "bump", "views"}
    BY <1>8 DEF CompareViews, NoMoreViews, Goto, WriterOK, Making
  <2>2. \A v \in 1..NViews : AnswersFor(p, v)'
    BY <1>0, <2>1 DEF AnswersFor
  <2>3. QED
    BY <1>6, <2>1, <2>2
<1>9. ASSUME NEW p \in Procs, DropView(p) PROVE Answered'
  <2>1. PICK v \in 1..NViews : disk' = [disk EXCEPT !.views[v] = 0]
    BY <1>9 DEF DropView
  <2>2. disk'.exists = disk.exists /\ disk'.flake = disk.flake
    BY <1>0, <2>1, ViewEffect
  <2>3. /\ rw[p] = "path" /\ rw' = rw /\ hurt' = hurt /\ next' = next /\ stage' = stage
        /\ stage[p] = "drop"
    BY <1>9 DEF DropView, MayWrite
  <2>4. \A w \in 1..NViews : AnswersFor(p, w)'
    BY <2>3 DEF AnswersFor
  <2>5. QED
    BY <1>6, <2>2, <2>3, <2>4
<1>10. ASSUME NEW p \in Procs, BumpVersion(p) PROVE Answered'
  <2>1. /\ rw[p] = "path" /\ rw' = rw /\ hurt' = hurt /\ next' = next /\ next[p] = 1
        /\ stage'[p] = "views" /\ \A o \in Procs \ {p} : stage'[o] = stage[o]
    BY <1>10 DEF BumpVersion, MayWrite, Goto, WriterOK, Making
  <2>2. disk'.exists = disk.exists /\ disk'.flake = disk.flake
    BY <1>0, <1>10, OursIsVersion, BumpEffect DEF BumpVersion
  <2>3. \A v \in 1..NViews : AnswersFor(p, v)'
    BY <1>0, <2>1 DEF AnswersFor
  <2>4. QED
    BY <1>6, <2>1, <2>2, <2>3
<1>11. ASSUME NEW p \in Procs, CreateView(p) PROVE Answered'
  <2>1. /\ rw[p] = "path" /\ rw' = rw /\ hurt' = hurt /\ stage' = stage
        /\ stage[p] = "views" /\ next[p] \in 1..NViews /\ next'[p] = next[p] + 1
        /\ \A o \in Procs \ {p} : next'[o] = next[o]
    BY <1>0, <1>11 DEF CreateView, MayWrite
  <2> DEFINE u == IF disk.views[next[p]] = 0 THEN ours[p].views ELSE disk.views[next[p]]
  <2>2. u \in 0..MaxVersion /\ u # 0
    <3>1. ours[p].views \in 1..MaxVersion
      BY OursIsVersion
    <3>2. disk.views[next[p]] \in 0..MaxVersion
      BY <1>0, <2>1 DEF File
    <3>3. QED
      BY <1>0, <3>1, <3>2
  <2>3. disk' = [disk EXCEPT !.views[next[p]] = u]
    BY <1>0, <2>1, <1>11 DEF CreateView, File
  <2> HIDE DEF u
  <2>4. disk'.exists = disk.exists /\ disk'.flake = disk.flake
    BY <1>0, <2>1, <2>2, <2>3, ViewEffect
  <2>5. disk' = [disk EXCEPT !.views = [disk.views EXCEPT ![next[p]] = u]]
    BY <1>0, <2>3 DEF File
  <2>6. disk'.views = [disk.views EXCEPT ![next[p]] = u] /\ disk.views \in [1..NViews -> 0..MaxVersion]
    BY <1>0, <2>5 DEF File
  <2>7. \A v \in 1..NViews : disk'.views[v] = 0 => disk.views[v] = 0 /\ v # next[p]
    BY <2>1, <2>2, <2>6
  <2>8. \A v \in 1..NViews : v # next[p] /\ AnswersFor(p, v) => AnswersFor(p, v)'
    BY <1>0, <2>1 DEF AnswersFor
  <2>9. QED
    BY <1>6, <2>1, <2>4, <2>7, <2>8
<1>12. ASSUME NEW p \in Procs, ViewsDone(p) PROVE Answered'
  <2>1. /\ rw' = rw /\ hurt' = hurt /\ disk' = disk /\ next' = next
        /\ stage[p] = "views" /\ next[p] > NViews /\ next[p] \in Nat
        /\ \A o \in Procs \ {p} : stage'[o] = stage[o]
    BY <1>0, <1>12 DEF ViewsDone, Goto
  <2>2. \A o \in Procs, v \in 1..NViews : AnswersFor(o, v) => AnswersFor(o, v)'
    BY <1>0, <2>1 DEF AnswersFor
  <2>3. QED
    BY <2>1, <2>2 DEF Answered
<1>13. ASSUME NEW p \in Procs, WriteInput(p) PROVE Answered'
  <2>1. /\ disk' = [disk EXCEPT !.flake = TRUE] /\ hurt' = (hurt /\ ~Whole(disk'))
        /\ \A o \in Procs \ {p} : stage'[o] = stage[o] /\ rw'[o] = rw[o] /\ next'[o] = next[o]
        /\ stage[p] = "input"
    BY <1>13 DEF WriteInput, Goto
  <2>2. disk'.exists = disk.exists /\ disk'.flake /\ disk'.views = disk.views
    BY <1>0, <2>1 DEF File
  <2>3. \A o \in Procs, v \in 1..NViews : AnswersFor(o, v) => AnswersFor(o, v)'
    BY <2>1 DEF AnswersFor
  <2>4. CASE hurt
    <3>1. ~hurt' => \A v \in 1..NViews : disk'.views[v] # 0
      BY <2>1, <2>4 DEF Whole
    <3>2. QED
      BY <2>2, <3>1 DEF Answered
  <2>5. CASE ~hurt
    BY <2>2, <2>3, <2>5 DEF Answered
  <2>6. QED
    BY <2>4, <2>5
<1>14. QED
  BY <1>1, <1>2, <1>3, <1>4, <1>5, <1>7, <1>8, <1>9, <1>10, <1>11, <1>12, <1>13
  DEF Next, Construct, OpenFails, RecheckFails, Return, Refused, Crash

\* A file that is not a finished database with all its views is being worked on, or
\* was left so by someone who died or failed over it: of any number of processes.
THEOREM BrokenHasReason == Spec => []BrokenIsExplained
<1>1. Init => InitInv /\ Answered
  <2> SUFFICES ASSUME Init PROVE Answered
    BY InitInvStart
  <2>1. CASE disk = Absent
    BY <2>1, AbsentIsFile DEF Answered
  <2>2. CASE \E ver \in [tables : 1..MaxVersion, views : 1..MaxVersion] : disk = WholeOf(ver)
    BY <2>2, DbInitAssumption DEF WholeOf, Answered
  <2>3. QED
    BY <2>1, <2>2, OldFilesAssumption DEF Init
<1>2. InitInv /\ Answered => BrokenIsExplained
  <2> SUFFICES ASSUME InitInv, Answered, disk.exists, ~hurt,
                      \A p \in Procs : rw[p] # "path"
               PROVE  Whole(disk)
    BY DEF BrokenIsExplained
  <2>1. disk.flake /\ \A v \in 1..NViews : disk.views[v] # 0
    BY DEF Answered, AnswersFor
  <2>2. disk.tables = NTables /\ disk.version # NoVersion
    BY <2>1 DEF InitInv, FileOK, LockedFlakeIsLast, NoVersion
  <2>3. QED
    BY <2>1, <2>2 DEF Whole
<1>3. QED
  BY <1>1, <1>2, InitInvStep, AnsweredStep, PTL DEF Spec
-----------------------------------------------------------------------------
(***************************************************************************)
(* Views under a version.                                                  *)
(***************************************************************************)

NoViews == \A v \in 1..NViews : disk.views[v] = 0

\* Later views than those of the release in use are all there, since nobody drops
\* them; and a process defines its views under their own version.
FreshViews ==
    OneRelease =>
      /\ NoStaleViews
      /\ disk.version = NoVersion => NoViews
      /\ \A p \in Procs :
           /\ disk.version.views > ours[p].views => \A v \in 1..NViews : disk.views[v] # 0
           /\ rw[p] = "path" /\ stage[p] = "views" => disk.version.views >= ours[p].views
           /\ rw[p] = "path" /\ stage[p] = "bump" =>
                disk.version.views = ours[p].views \/ NoViews

LEMMA FreshViewsStep ==
  InitInv /\ ViewsBehind /\ FreshViews /\ [Next]_vars => FreshViews'
<1> USE DEF InitInv, TypeOK
<1> SUFFICES ASSUME InitInv, ViewsBehind, FreshViews, [Next]_vars PROVE FreshViews'
  OBVIOUS
<1> SUFFICES ASSUME OneRelease PROVE FreshViews'
  <2>1. ours' = ours
    BY DEF vars, Next, Construct, Start, Check, Connect, Open, OpenFails, ReadVersion, Remove,
           Recheck, RecheckFails, OpenReadWrite, Return, Refused, Crash, Gone, CreateTable,
           InitVersions, CompareViews, DropView, NoMoreViews, BumpVersion, CreateView,
           ViewsDone, WriteInput
  <2>2. OneRelease' = OneRelease
    BY <2>1 DEF OneRelease
  <2>3. QED
    BY <2>2 DEF FreshViews
<1>0. /\ disk \in File /\ NTables \in Nat /\ NViews \in Nat /\ MaxVersion \in Nat
      /\ disk.version \in Version /\ disk.version.views \in Nat
      /\ \A p \in Procs : ours[p].views \in 1..MaxVersion
  BY SMTT(30), OursIsVersion, DbInitAssumption DEF File, Version
<1>1. CASE UNCHANGED vars
  BY <1>1 DEF vars, FreshViews, NoStaleViews, OneRelease, NoViews
\* The file is not touched, and nobody gets to where it matters.
<1>2. ASSUME NEW p \in Procs, disk'.version = disk.version, disk'.views = disk.views,
             ours' = ours,
             \A o \in Procs \ {p} : stage'[o] = stage[o] /\ rw'[o] = rw[o],
             \/ rw'[p] # "path"
             \/ rw'[p] = rw[p] /\ stage'[p] = stage[p]
             \/ stage'[p] \notin {"bump", "views"}
             \/ stage'[p] = "views" /\ disk.version.views >= ours[p].views
             \/ stage'[p] = "bump" /\ NoViews
      PROVE  FreshViews'
  BY <1>2 DEF FreshViews, NoStaleViews, OneRelease, NoViews
<1>3. ASSUME NEW p \in Procs,
             \/ Start(p) \/ Check(p) \/ Open(p) \/ ReadVersion(p) \/ Recheck(p)
             \/ OpenReadWrite(p)
      PROVE  FreshViews'
  <2>1. /\ disk' = disk /\ ours' = ours /\ rw' = rw /\ rw[p] = "none"
        /\ \A o \in Procs \ {p} : stage'[o] = stage[o]
    BY <1>3 DEF Start, Check, Open, ReadVersion, Recheck, OpenReadWrite, Goto, WriterOK, Making
  <2>2. QED
    BY <1>2, <2>1
<1>4. ASSUME NEW p \in Procs, NEW s \in {"idle", "failed", "incompatible"}, Gone(p, s)
      PROVE  FreshViews'
  <2>1. /\ disk' = disk /\ ours' = ours /\ rw'[p] = "none"
        /\ \A o \in Procs \ {p} : stage'[o] = stage[o] /\ rw'[o] = rw[o]
    BY <1>4 DEF Gone, Goto
  <2>2. QED
    BY <1>2, <2>1
\* A file without a version and views.
<1>5. ASSUME NEW p \in Procs, disk' \in {Absent, Empty}, ours' = ours,
             \A o \in Procs : rw'[o] = "path" => stage'[o] \notin {"bump", "views"}
      PROVE  FreshViews'
  <2>1. disk'.version = NoVersion /\ disk'.version.views = 0
    BY <1>5, AbsentIsFile DEF NoVersion
  <2>2. \A v \in 1..NViews : disk'.views[v] = 0
    BY <1>5, AbsentIsFile
  <2>3. \A o \in Procs : ~ (disk'.version.views > ours'[o].views)
    BY <1>0, <1>5, <2>1
  <2>4. QED
    BY <1>5, <2>1, <2>2, <2>3 DEF FreshViews, NoStaleViews, NoViews
<1>6. ASSUME NEW p \in Procs, Connect(p) PROVE FreshViews'
  <2>1. ours' = ours /\ stage'[p] = "tables"
        /\ \A o \in Procs \ {p} : stage'[o] = stage[o] /\ rw'[o] = rw[o]
    BY <1>6 DEF Connect, Goto
  <2>2. CASE disk.exists
    <3>1. disk' = disk
      BY <1>6, <2>2 DEF Connect
    <3>2. QED
      BY <1>2, <2>1, <3>1
  <2>3. CASE ~disk.exists
    <3>1. disk' = Empty /\ \A o \in Procs : rw[o] # "path"
      BY <1>6, <2>3 DEF Connect, WriterOK
    <3>2. QED
      BY <1>5, <2>1, <3>1
  <2>4. QED
    BY <2>2, <2>3
<1>7. ASSUME NEW p \in Procs, Remove(p) PROVE FreshViews'
  <2>1. disk' = Absent /\ ours' = ours /\ \A o \in Procs : rw'[o] # "path"
    BY <1>7 DEF Remove
  <2>2. QED
    BY <1>5, <2>1
<1>8. ASSUME NEW p \in Procs, CreateTable(p) \/ WriteInput(p) \/ CompareViews(p)
                              \/ NoMoreViews(p) \/ ViewsDone(p)
      PROVE  FreshViews'
  <2>1. /\ disk'.version = disk.version /\ disk'.views = disk.views /\ ours' = ours
        /\ \A o \in Procs \ {p} : stage'[o] = stage[o] /\ rw'[o] = rw[o]
    BY <1>0, <1>8 DEF CreateTable, WriteInput, CompareViews, NoMoreViews, ViewsDone, Goto, File
  <2>2. CASE CreateTable(p) \/ WriteInput(p) \/ ViewsDone(p)
    <3>1. rw'[p] # "path" \/ stage'[p] \notin {"bump", "views"}
      BY <2>2 DEF CreateTable, WriteInput, ViewsDone, Goto
    <3>2. QED
      BY <1>2, <2>1, <3>1
  <2>3. CASE CompareViews(p)
    <3>1. ours[p].views \in Nat /\ disk.version.views \in Nat
      BY <1>0
    <3>2. stage' = [stage EXCEPT ![p] = IF disk.version.views < ours[p].views THEN "drop" ELSE "views"]
      BY <2>3 DEF CompareViews, Goto
    <3>3. stage'[p] = "drop" \/ (stage'[p] = "views" /\ disk.version.views >= ours[p].views)
      BY <3>1, <3>2
    <3>4. QED
      BY <1>2, <2>1, <3>3
  <2>4. CASE NoMoreViews(p)
    <3>1. stage'[p] = "bump" /\ NoViews
      BY <2>4 DEF NoMoreViews, Goto, NoViews
    <3>2. QED
      BY <1>2, <2>1, <3>1
  <2>5. QED
    BY <1>8, <2>2, <2>3, <2>4
<1>9. ASSUME NEW p \in Procs, InitVersions(p) PROVE FreshViews'
  <2>1. /\ disk' = [disk EXCEPT !.version = IF @ = NoVersion THEN ours[p] ELSE @]
        /\ ours' = ours /\ rw' = rw /\ stage'[p] = "compare"
        /\ \A o \in Procs \ {p} : stage'[o] = stage[o]
    BY <1>9 DEF InitVersions, Goto
  <2>2. CASE disk.version # NoVersion
    <3>1. disk'.version = disk.version /\ disk'.views = disk.views
      BY <1>0, <2>1, <2>2 DEF File
    <3>2. QED
      BY <1>2, <2>1, <3>1
  <2>3. CASE disk.version = NoVersion
    <3>1. disk'.version = ours[p] /\ disk'.views = disk.views /\ NoViews
      BY <1>0, <2>1, <2>3 DEF File, FreshViews
    <3>2. \A o \in Procs : ours[o].views = disk'.version.views
      BY <3>1 DEF OneRelease
    <3>3. disk'.version # NoVersion
      BY <3>1, OursIsVersion
    <3>4. \A v \in 1..NViews : disk'.views[v] = 0
      BY <3>1 DEF NoViews
    <3>5. QED
      BY <1>0, <2>1, <3>2, <3>3, <3>4 DEF FreshViews, NoStaleViews, NoViews
  <2>4. QED
    BY <2>2, <2>3
<1>10. ASSUME NEW p \in Procs, DropView(p) PROVE FreshViews'
  <2>1. PICK v \in 1..NViews : disk' = [disk EXCEPT !.views[v] = 0]
    BY <1>10 DEF DropView
  <2>2. /\ ours' = ours /\ rw' = rw /\ stage' = stage /\ stage[p] = "drop" /\ rw[p] = "path"
    BY <1>10 DEF DropView, MayWrite
  <2>3. disk'.version = disk.version
    BY <1>0, <2>1, ViewEffect
  <2>4. disk' = [disk EXCEPT !.views = [disk.views EXCEPT ![v] = 0]]
    BY <1>0, <2>1 DEF File
  <2>5. \A w \in 1..NViews : disk'.views[w] = IF w = v THEN 0 ELSE disk.views[w]
    BY <1>0, <2>4 DEF File
  <2>6. \A o \in Procs : disk.version.views <= ours[o].views
    BY <2>2 DEF ViewsBehind, OneRelease
  <2>7. NoViews => \A w \in 1..NViews : disk'.views[w] = 0
    BY <2>5 DEF NoViews
  <2>8. \A w \in 1..NViews : disk'.views[w] \in {0, disk'.version.views}
    BY <2>3, <2>5 DEF FreshViews, NoStaleViews
  <2>9. QED
    BY <1>0, <2>2, <2>3, <2>6, <2>7, <2>8 DEF FreshViews, NoStaleViews, NoViews
<1>11. ASSUME NEW p \in Procs, BumpVersion(p) PROVE FreshViews'
  <2>1. /\ disk' = [disk EXCEPT !.version.views = ours[p].views] /\ ours' = ours /\ rw' = rw
        /\ stage[p] = "bump" /\ rw[p] = "path" /\ disk.version.tables # 0
        /\ \A o \in Procs \ {p} : stage'[o] = stage[o]
    BY <1>11 DEF BumpVersion, MayWrite, Goto, WriterOK, HasTables, HasVersions
  <2>2. /\ disk'.version.views = ours[p].views /\ disk'.version.tables = disk.version.tables
    BY <1>0, <2>1, BumpEffect
  <2>3. disk' = [disk EXCEPT !.version = [disk.version EXCEPT !.views = ours[p].views]]
    BY <1>0, <2>1 DEF File
  <2>4. disk'.views = disk.views
    BY <1>0, <2>3 DEF File
  <2>5. \A o \in Procs : ours[o].views = disk'.version.views
    BY <2>2 DEF OneRelease
  <2>6. \A v \in 1..NViews : disk'.views[v] \in {0, disk'.version.views}
    BY <2>1, <2>2, <2>4 DEF FreshViews, NoStaleViews, NoViews
  <2>7. disk'.version # NoVersion
    BY <2>1, <2>2 DEF NoVersion
  <2>8. QED
    BY <1>0, <2>1, <2>5, <2>6, <2>7 DEF FreshViews, NoStaleViews, NoViews
<1>12. ASSUME NEW p \in Procs, CreateView(p) PROVE FreshViews'
  <2>1. /\ ours' = ours /\ rw' = rw /\ stage' = stage /\ stage[p] = "views" /\ rw[p] = "path"
        /\ next[p] \in 1..NViews /\ disk.version # NoVersion
    BY <1>0, <1>12 DEF CreateView, MayWrite, WriterOK, HasTables, HasVersions, NoVersion
  <2> DEFINE u == IF disk.views[next[p]] = 0 THEN ours[p].views ELSE disk.views[next[p]]
  <2>2. disk' = [disk EXCEPT !.views[next[p]] = u]
    BY <1>0, <2>1, <1>12 DEF CreateView, File
  <2>3. disk' = [disk EXCEPT !.views = [disk.views EXCEPT ![next[p]] = u]]
    BY <1>0, <2>2 DEF File
  <2>4. disk'.version = disk.version /\ disk'.views = [disk.views EXCEPT ![next[p]] = u]
    BY <1>0, <2>3 DEF File
  <2>5. disk.version.views >= ours[p].views
    BY <2>1 DEF FreshViews
  <2>6. disk.views[next[p]] = 0 => disk.version.views = ours[p].views
    <3>1. disk.views[next[p]] = 0 => ~ (disk.version.views > ours[p].views)
      BY <2>1 DEF FreshViews
    <3>2. ours[p].views \in Nat /\ disk.version.views \in Nat
      BY <1>0
    <3>3. QED
      BY <2>5, <3>1, <3>2
  <2>7. u = disk.version.views
    BY <2>1, <2>6 DEF FreshViews, NoStaleViews
  <2>8. ours[p].views # 0 /\ disk.version.views # 0
    BY <1>0, <2>5
  <2>9. \A v \in 1..NViews : disk'.views[v] = IF v = next[p] THEN disk.version.views ELSE disk.views[v]
    BY <1>0, <2>4, <2>7 DEF File
  <2>10. \A o \in Procs : disk.version.views >= ours[o].views
    BY <2>5 DEF OneRelease
  <2>11. \A o \in Procs : disk.version.views > ours[o].views
                            => \A v \in 1..NViews : disk'.views[v] # 0
    BY <2>8, <2>9 DEF FreshViews
  <2>12. \A o \in Procs : rw[o] = "path" /\ stage[o] = "bump" => disk.version.views = ours[o].views
    BY <1>0, <2>10 DEF ViewsBehind
  <2>13. \A v \in 1..NViews : disk'.views[v] \in {0, disk'.version.views}
    BY <2>4, <2>9 DEF FreshViews, NoStaleViews
  <2>14. QED
    BY <2>1, <2>4, <2>10, <2>11, <2>12, <2>13 DEF FreshViews, NoStaleViews
<1>13. QED
  BY <1>1, <1>3, <1>4, <1>6, <1>7, <1>8, <1>9, <1>10, <1>11, <1>12
  DEF Next, Construct, OpenFails, RecheckFails, Return, Refused, Crash

\* While all processes are of one release, no view of another one is left under the
\* current version, wherever a migration is cut short.
THEOREM ViewsAreFresh == Spec => []NoStaleViews
<1>1. Init => InitInv /\ ViewsBehind /\ FreshViews
  <2> SUFFICES ASSUME Init PROVE ViewsBehind /\ FreshViews
    BY InitInvStart
  <2>1. \A p \in Procs : stage[p] = "idle"
    BY DEF Init
  <2>2. \A p \in Procs : ours[p].views \in 1..MaxVersion
    BY InitInvStart, OursIsVersion DEF InitInv
  <2>3. CASE disk = Absent
    <3>1. disk.version.views = 0 /\ NoViews
      BY <2>3 DEF Absent, NoVersion, NoViews
    <3>2. QED
      BY <2>1, <2>2, <3>1, DbInitAssumption DEF ViewsBehind, FreshViews, NoStaleViews, NoViews
  <2>4. CASE \E ver \in [tables : 1..MaxVersion, views : 1..MaxVersion] : disk = WholeOf(ver)
    <3>1. /\ \A v \in 1..NViews : disk.views[v] = disk.version.views
          /\ disk.version # NoVersion /\ disk.version.views # 0
      BY <2>4, DbInitAssumption DEF WholeOf, NoVersion
    <3>2. QED
      BY <2>1, <3>1 DEF ViewsBehind, FreshViews, NoStaleViews
  <2>5. QED
    BY <2>3, <2>4, OldFilesAssumption DEF Init
<1>2. FreshViews => NoStaleViews
  BY DEF FreshViews, NoStaleViews
<1>3. QED
  BY <1>1, <1>2, InitInvStep, ViewsBehindStep, FreshViewsStep, PTL DEF Spec
=============================================================================
