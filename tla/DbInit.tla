------------------------------- MODULE DbInit -------------------------------
(***************************************************************************)
(* How the database file of one flake is created, opened, checked and      *)
(* migrated: PkgDbInput::init() (src/pkgdb/input.cc), what the commands    *)
(* `get' and `list' do instead (PkgDbMixin, src/pkgdb/command.cc), and the *)
(* constructor of PkgDb, which is what creates and updates the schema      *)
(* (src/pkgdb/write.cc).  Several processes do this at once, possibly with *)
(* different releases of the program; each may die at any step.            *)
(*                                                                         *)
(* SQLite commits every statement of the schema on its own: one action is  *)
(* one statement.  What SQLite does is used as the code relies on it:      *)
(*  - a connection stays on the file it was opened on, also after that     *)
(*    file has been removed from its path; such a file can be read, but    *)
(*    SQLite refuses to write it (SQLITE_READONLY_DBMOVED);                *)
(*  - a statement may be refused with SQLITE_BUSY while another process    *)
(*    has the file open, and is while another one iterates over            *)
(*    sqlite_master: there is no busy handler.                             *)
(* Every error is an exception that ends the process's use of the file.    *)
(***************************************************************************)
EXTENDS Integers

CONSTANTS
  Procs,        \* processes
  Deployments,  \* which release each process runs: functions from Procs to Version
  OldFiles,     \* what may be at the path at the beginning
  NTables,      \* statements that create tables (initTables())
  NViews,       \* statements that create views (sql_views)
  MaxVersion    \* schema versions are 1..MaxVersion

(* SqlVersions: 0 for a version that is not in DbVersions. *)
Version == [tables : 0..MaxVersion, views : 0..MaxVersion]
NoVersion == [tables |-> 0, views |-> 0]

ASSUME DbInitAssumption ==
  /\ NTables \in Nat \ {0}
  /\ NViews \in Nat
  /\ MaxVersion \in Nat \ {0}
  /\ Deployments \subseteq [Procs -> [tables : 1..MaxVersion, views : 1..MaxVersion]]

(***************************************************************************)
(* The contents of a file: how many of the tables there are, the rows of   *)
(* DbVersions, the release whose definition each view has (0: no such      *)
(* view), and whether the row of LockedFlake is written.                   *)
(***************************************************************************)
File == [exists  : BOOLEAN,
         tables  : 0..NTables,
         version : Version,
         views   : [1..NViews -> 0..MaxVersion],
         flake   : BOOLEAN]

Absent == [exists  |-> FALSE, tables |-> 0, version |-> NoVersion,
           views   |-> [v \in 1..NViews |-> 0], flake |-> FALSE]

(* An empty file, which is what opening a missing one for writing creates. *)
Empty == [Absent EXCEPT !.exists = TRUE]

(* A file on which PkgDb( flake, path ) of some release has run to its end. *)
WholeOf(ver) == [exists  |-> TRUE, tables |-> NTables, version |-> ver,
                 views   |-> [v \in 1..NViews |-> ver.views], flake |-> TRUE]

Whole(f) == /\ f.exists /\ f.flake
            /\ f.tables = NTables
            /\ f.version # NoVersion
            /\ \A v \in 1..NViews : f.views[v] # 0

ASSUME OldFilesAssumption ==
  OldFiles \subseteq {Absent} \cup {WholeOf(ver) : ver \in [tables : 1..MaxVersion, views : 1..MaxVersion]}

VARIABLES
  ours,   \* sqlVersions of the release that each process runs
  disk,   \* the file at dbPath
  stage,  \* where each process is
  kind,   \* "input" for PkgDbInput, "mixin" for PkgDbMixin<PkgDbReadOnly>
  ro,     \* each process's read-only connection: "none", "path" or "gone"
  was,    \* what a read-only connection reads if its file is gone from the path
  rw,     \* the connection of the PkgDb being constructed: "none", "path", "gone"
  next,   \* the next table or view that this constructor creates
  after,  \* where a process goes on when its PkgDb has been constructed
  seen,   \* the versions it read
  hurt    \* the file at the path was left by a process that died or threw
          \* while it was making or migrating it

vars == <<ours, disk, stage, kind, ro, was, rw, next, after, seen, hurt>>

(* The constructor of PkgDb. *)
Making == {"tables", "versions", "compare", "drop", "bump", "views", "input"}
Stages == {"idle", "check", "connect", "open", "version", "remove", "recheck",
           "ready", "incompatible", "failed"} \cup Making

Init ==
  /\ ours \in Deployments
  /\ disk \in OldFiles
  /\ stage = [p \in Procs |-> "idle"]
  /\ kind = [p \in Procs |-> "input"]
  /\ ro = [p \in Procs |-> "none"]
  /\ was = [p \in Procs |-> Absent]
  /\ rw = [p \in Procs |-> "none"]
  /\ next = [p \in Procs |-> 1]
  /\ after = [p \in Procs |-> "open"]
  /\ seen = [p \in Procs |-> NoVersion]
  /\ hurt = FALSE

-----------------------------------------------------------------------------
(* Connections. *)

Active(p) == stage[p] \notin {"idle", "failed", "incompatible"}

(* What process p reads through dbRO. *)
Reads(p) == IF ro[p] = "gone" THEN was[p] ELSE disk

(* Nobody else is in the middle of the SELECT that updateViews() drops     *)
(* views under, which keeps the file locked against other writers.         *)
NobodyIterates(p) == \A q \in Procs \ {p} : ~ (stage[q] = "drop" /\ rw[q] = "path")

MayWrite(p) == rw[p] = "path" /\ NobodyIterates(p)

Goto(p, s) == stage' = [stage EXCEPT ![p] = s]

(* A process has done with the file: its connections are closed.  A file   *)
(* it was making stays as it is.                                           *)
Gone(p, s) ==
  /\ Goto(p, s)
  /\ ro' = [ro EXCEPT ![p] = "none"]
  /\ was' = [was EXCEPT ![p] = Absent]
  /\ rw' = [rw EXCEPT ![p] = "none"]
  /\ next' = [next EXCEPT ![p] = 1]
  /\ after' = [after EXCEPT ![p] = "open"]
  /\ seen' = [seen EXCEPT ![p] = NoVersion]
  /\ kind' = [kind EXCEPT ![p] = "input"]
  /\ hurt' = (hurt \/ rw[p] = "path")
  /\ UNCHANGED <<ours, disk>>

-----------------------------------------------------------------------------
(* Opening. *)

(* A command is started: search, lock, update and scrape construct a       *)
(* PkgDbInput, get and list a PkgDbReadOnly through PkgDbMixin.            *)
Start(p) ==
  /\ stage[p] = "idle"
  /\ \E k \in {"input", "mixin"} : kind' = [kind EXCEPT ![p] = k]
  /\ Goto(p, "check")
  /\ UNCHANGED <<ours, disk, ro, was, rw, next, after, seen, hurt>>

(* `Initialize DB if missing': the file is looked for, and created later. *)
Check(p) ==
  /\ stage[p] = "check"
  /\ Goto(p, IF disk.exists THEN "open" ELSE "connect")
  /\ after' = [after EXCEPT ![p] = "open"]
  /\ UNCHANGED <<ours, disk, kind, ro, was, rw, next, seen, hurt>>

(* PkgDb( flake, path ) opens the file, and creates it if there is none. *)
Connect(p) ==
  /\ stage[p] = "connect"
  /\ disk' = IF disk.exists THEN disk ELSE Empty
  /\ hurt' = (hurt /\ disk.exists)
  /\ rw' = [rw EXCEPT ![p] = "path"]
  /\ next' = [next EXCEPT ![p] = 1]
  /\ Goto(p, "tables")
  /\ UNCHANGED <<ours, kind, ro, was, after, seen>>

(* PkgDbReadOnly( fingerprint, path ): the file must exist, and have the   *)
(* row of LockedFlake.                                                     *)
CanOpen == disk.exists /\ disk.flake

Open(p) ==
  /\ stage[p] = "open"
  /\ CanOpen
  /\ ro' = [ro EXCEPT ![p] = "path"]
  /\ Goto(p, IF kind[p] = "input" THEN "version" ELSE "ready")
  /\ UNCHANGED <<ours, disk, kind, was, rw, next, after, seen, hurt>>

OpenFails(p) ==
  /\ stage[p] = "open"
  /\ ~ CanOpen
  /\ Gone(p, "failed")

(* getDbVersion(), and what init() makes of it. *)
ReadVersion(p) ==
  /\ stage[p] = "version"
  /\ LET ver == Reads(p).version IN
       /\ seen' = [seen EXCEPT ![p] = ver]
       /\ Goto(p, IF ver.tables # ours[p].tables THEN "remove"
                  ELSE IF ver.views # ours[p].views THEN "connect" ELSE "recheck")
  /\ after' = [after EXCEPT ![p] = "recheck"]
  /\ UNCHANGED <<ours, disk, kind, ro, was, rw, next, hurt>>

(* `Clearing outdated database': whatever file is at the path by now. The  *)
(* connections that are open on it, the own one too, stay on it.           *)
Remove(p) ==
  /\ stage[p] = "remove"
  /\ disk' = Absent
  /\ ro' = [q \in Procs |-> IF ro[q] = "path" THEN "gone" ELSE ro[q]]
  /\ was' = [q \in Procs |-> IF ro[q] = "path" THEN disk ELSE was[q]]
  /\ rw' = [q \in Procs |-> IF rw[q] = "path" THEN "gone" ELSE rw[q]]
  /\ hurt' = FALSE
  /\ Goto(p, "connect")
  /\ UNCHANGED <<ours, kind, next, after, seen>>

(* A mistaken form of Recheck, which compares the tables only. *)
Recheck_TablesOnly(p) ==
  /\ stage[p] = "recheck"
  /\ Reads(p).version.tables = ours[p].tables
  /\ seen' = [seen EXCEPT ![p] = Reads(p).version]
  /\ Goto(p, "ready")
  /\ UNCHANGED <<ours, disk, kind, ro, was, rw, next, after, hurt>>

(* The versions are read again, on the connection opened at first. *)
Recheck(p) ==
  /\ stage[p] = "recheck"
  /\ Reads(p).version = ours[p]
  /\ seen' = [seen EXCEPT ![p] = Reads(p).version]
  /\ Goto(p, "ready")
  /\ UNCHANGED <<ours, disk, kind, ro, was, rw, next, after, hurt>>

RecheckFails(p) ==
  /\ stage[p] = "recheck"
  /\ Reads(p).version # ours[p]
  /\ Gone(p, "incompatible")

(* getDbReadWrite(), when something is to be scraped. *)
OpenReadWrite(p) ==
  /\ stage[p] = "ready" /\ kind[p] = "input" /\ rw[p] = "none"
  /\ after' = [after EXCEPT ![p] = "ready"]
  /\ Goto(p, "connect")
  /\ UNCHANGED <<ours, disk, kind, ro, was, rw, next, seen, hurt>>

(* The command has done its work, or its caller has seen its exception. *)
Return(p) ==
  /\ stage[p] \in {"ready", "failed", "incompatible"}
  /\ Gone(p, "idle")

-----------------------------------------------------------------------------
(* The constructor of PkgDb, statement by statement. *)

(* Mistaken forms of CreateTable: one statement too many, and without the   *)
(* call of initVersions() that follows.                                    *)
CreateTable_OneMore(p) ==
  /\ stage[p] = "tables" /\ MayWrite(p)
  /\ disk' = [disk EXCEPT !.tables = IF next[p] > disk.tables THEN next[p] ELSE disk.tables]
  /\ next' = [next EXCEPT ![p] = IF next[p] > NTables THEN 1 ELSE next[p] + 1]
  /\ Goto(p, IF next[p] > NTables THEN "versions" ELSE "tables")
  /\ UNCHANGED <<ours, kind, ro, was, rw, after, seen, hurt>>

CreateTable_NoVersions(p) ==
  /\ stage[p] = "tables" /\ MayWrite(p)
  /\ disk' = [disk EXCEPT !.tables = IF next[p] > disk.tables THEN next[p] ELSE disk.tables]
  /\ next' = [next EXCEPT ![p] = IF next[p] = NTables THEN 1 ELSE next[p] + 1]
  /\ Goto(p, IF next[p] = NTables THEN "compare" ELSE "tables")
  /\ UNCHANGED <<ours, kind, ro, was, rw, after, seen, hurt>>

(* initTables(): CREATE TABLE IF NOT EXISTS. *)
CreateTable(p) ==
  /\ stage[p] = "tables" /\ MayWrite(p)
  /\ disk' = [disk EXCEPT !.tables = IF next[p] > disk.tables THEN next[p] ELSE disk.tables]
  /\ next' = [next EXCEPT ![p] = IF next[p] = NTables THEN 1 ELSE next[p] + 1]
  /\ Goto(p, IF next[p] = NTables THEN "versions" ELSE "tables")
  /\ UNCHANGED <<ours, kind, ro, was, rw, after, seen, hurt>>

(* initVersions(): INSERT OR IGNORE of all rows. *)
InitVersions(p) ==
  /\ stage[p] = "versions" /\ MayWrite(p)
  /\ disk' = [disk EXCEPT !.version = IF @ = NoVersion THEN ours[p] ELSE @]
  /\ Goto(p, "compare")
  /\ UNCHANGED <<ours, kind, ro, was, rw, next, after, seen, hurt>>

(* A mistaken form of CompareViews, with # for <. *)
CompareViews_Differ(p) ==
  /\ stage[p] = "compare" /\ rw[p] = "path"
  /\ Goto(p, IF disk.version.views # ours[p].views THEN "drop" ELSE "views")
  /\ UNCHANGED <<ours, disk, kind, ro, was, rw, next, after, seen, hurt>>

(* init(): are the views older than this release's? *)
CompareViews(p) ==
  /\ stage[p] = "compare" /\ rw[p] = "path"
  /\ Goto(p, IF disk.version.views < ours[p].views THEN "drop" ELSE "views")
  /\ UNCHANGED <<ours, disk, kind, ro, was, rw, next, after, seen, hurt>>

(* A mistaken form of NoMoreViews, which leaves views that exist alone. *)
NoMoreViews_Any(p) ==
  /\ stage[p] = "drop" /\ rw[p] = "path"
  /\ Goto(p, "bump")
  /\ UNCHANGED <<ours, disk, kind, ro, was, rw, next, after, seen, hurt>>

(* updateViews(): DROP VIEW, for each that sqlite_master has. *)
DropView(p) ==
  /\ stage[p] = "drop" /\ MayWrite(p)
  /\ \E v \in 1..NViews : /\ disk.views[v] # 0
                          /\ disk' = [disk EXCEPT !.views[v] = 0]
  /\ UNCHANGED <<ours, stage, kind, ro, was, rw, next, after, seen, hurt>>

NoMoreViews(p) ==
  /\ stage[p] = "drop" /\ rw[p] = "path"
  /\ \A v \in 1..NViews : disk.views[v] = 0
  /\ Goto(p, "bump")
  /\ UNCHANGED <<ours, disk, kind, ro, was, rw, next, after, seen, hurt>>

(* A mistaken form of BumpVersion, after which the views are not defined. *)
BumpVersion_NoViews(p) ==
  /\ stage[p] = "bump" /\ MayWrite(p)
  /\ disk' = [disk EXCEPT !.version.views = ours[p].views]
  /\ Goto(p, "input")
  /\ UNCHANGED <<ours, kind, ro, was, rw, next, after, seen, hurt>>

(* updateViews(): the new version is written before the new views. *)
BumpVersion(p) ==
  /\ stage[p] = "bump" /\ MayWrite(p)
  /\ disk' = [disk EXCEPT !.version.views = ours[p].views]
  /\ Goto(p, "views")
  /\ UNCHANGED <<ours, kind, ro, was, rw, next, after, seen, hurt>>

(* initViews(): CREATE VIEW IF NOT EXISTS. *)
CreateView(p) ==
  /\ stage[p] = "views" /\ MayWrite(p)
  /\ next[p] <= NViews
  /\ disk' = [disk EXCEPT !.views[next[p]] = IF @ = 0 THEN ours[p].views ELSE @]
  /\ next' = [next EXCEPT ![p] = next[p] + 1]
  /\ UNCHANGED <<ours, stage, kind, ro, was, rw, after, seen, hurt>>

ViewsDone(p) ==
  /\ stage[p] = "views" /\ next[p] > NViews
  /\ Goto(p, "input")
  /\ UNCHANGED <<ours, disk, kind, ro, was, rw, next, after, seen, hurt>>

(* writeInput(), and the connection of a temporary PkgDb is closed; the    *)
(* file is in order again if all of its views are there.                   *)
WriteInput(p) ==
  /\ stage[p] = "input" /\ MayWrite(p)
  /\ disk' = [disk EXCEPT !.flake = TRUE]
  /\ hurt' = (hurt /\ ~ Whole(disk'))
  /\ rw' = [rw EXCEPT ![p] = "none"]
  /\ next' = [next EXCEPT ![p] = 1]
  /\ Goto(p, after[p])
  /\ UNCHANGED <<ours, kind, ro, was, after, seen>>

-----------------------------------------------------------------------------
(* A statement is refused: the file is gone from the path, or someone else *)
(* has it open.                                                            *)
Shares(p, q) ==
  /\ Active(q)
  /\ rw[q] = "path" \/ ro[q] = "path"

Refused(p) ==
  /\ stage[p] \in {"version", "recheck"} \cup Making
  /\ rw[p] = "gone" \/ \E q \in Procs \ {p} : Shares(p, q)
  /\ Gone(p, "failed")

(* The process is killed. *)
Crash(p) ==
  /\ Active(p)
  /\ Gone(p, "idle")

Construct(p) ==
  \/ CreateTable(p) \/ InitVersions(p) \/ CompareViews(p) \/ DropView(p)
  \/ NoMoreViews(p) \/ BumpVersion(p) \/ CreateView(p) \/ ViewsDone(p)
  \/ WriteInput(p)

Next == \E p \in Procs :
  \/ Start(p) \/ Check(p) \/ Connect(p) \/ Open(p) \/ OpenFails(p)
  \/ ReadVersion(p) \/ Remove(p) \/ Recheck(p) \/ RecheckFails(p)
  \/ OpenReadWrite(p) \/ Return(p) \/ Construct(p) \/ Refused(p) \/ Crash(p)

Spec == Init /\ [][Next]_vars

-----------------------------------------------------------------------------
(* Properties. *)

TypeOK ==
  /\ ours \in Deployments
  /\ disk \in File
  /\ stage \in [Procs -> Stages]
  /\ kind \in [Procs -> {"input", "mixin"}]
  /\ ro \in [Procs -> {"none", "path", "gone"}]
  /\ was \in [Procs -> File]
  /\ rw \in [Procs -> {"none", "path", "gone"}]
  /\ next \in [Procs -> 1..(NTables + NViews + 1)]
  /\ after \in [Procs -> {"open", "recheck", "ready"}]
  /\ seen \in [Procs -> Version]
  /\ hurt \in BOOLEAN

(* The row of LockedFlake is what every reader takes for a finished         *)
(* database: however many processes create the file at once, and wherever   *)
(* they die, it is there only if the tables and the versions are.           *)
LockedFlakeIsLast ==
  disk.flake => disk.exists /\ disk.tables = NTables /\ disk.version.tables # 0

OneRelease == \A p, q \in Procs : ours[p] = ours[q]

(* A process for which init() has returned reads a finished database, with  *)
(* tables of its own release, and views of it while only one is in use;     *)
(* also if another process has removed that file, or migrated it, since.    *)
ReadyIsCompatible ==
  \A p \in Procs : stage[p] = "ready" /\ kind[p] = "input" =>
    /\ Reads(p).flake
    /\ Reads(p).tables = NTables
    /\ Reads(p).version.tables = ours[p].tables
    /\ OneRelease => Reads(p).version = ours[p]

(* A file at the path that is not a finished database with all its views is *)
(* being worked on, or was left so by a process that died or failed over it:*)
(* processes that merely run at the same time do not damage it.             *)
BrokenIsExplained ==
  disk.exists /\ ~ Whole(disk) => hurt \/ \E p \in Procs : rw[p] = "path"

(* As long as one release is in use, no view of an older one is left under  *)
(* the current version: at worst a view is missing.                         *)
NoStaleViews ==
  OneRelease =>
    \A v \in 1..NViews : disk.views[v] \in {0, disk.version.views}

(* The file everyone sees implements the cache file of the abstract module: *)
(* it becomes a database by one step, its tables are never of two versions, *)
(* and it is only ever replaced as a whole.  The versions of the views are  *)
(* part of it while one release is in use: an older and a newer one that    *)
(* migrate the views at the same moment may set the older version last.     *)
Cache == INSTANCE CacheFile WITH
  shown  <- IF ~ disk.exists THEN "absent" ELSE IF disk.flake THEN "whole" ELSE "partial",
  tables <- IF disk.flake THEN disk.version.tables ELSE 0,
  views  <- IF disk.flake /\ OneRelease THEN disk.version.views ELSE 0

DbIsCacheFile == Cache!Spec

(* input.cc:75: that the versions are still wrong after the file has been   *)
(* migrated is not `expected to actually occur'.                            *)
MigratedIsCompatible == \A p \in Procs : stage[p] # "incompatible"
=============================================================================
