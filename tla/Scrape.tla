------------------------------- MODULE Scrape -------------------------------
(***************************************************************************)
(* Processes that scrape prefixes of one locked flake into the one SQLite  *)
(* file that caches it, while others read the file.                        *)
(*                                                                         *)
(* A scraper is a run of `pkgdb scrape', or `PkgDbInput::scrapeSystems'    *)
(* inside search or the resolver: PkgDbInput::scrapePrefix() is modelled   *)
(* call by call, each SQL statement outside the transaction being a step.  *)
(* A reader is any process in the middle of a query.                       *)
(*                                                                         *)
(* SQLite (rollback journal, no busy handler: the code sets neither) is    *)
(* modelled by its file locks.  A statement that writes needs RESERVED, of *)
(* which there is one; its commit needs every other SHARED lock gone; what *)
(* cannot be had at once fails with SQLITE_BUSY, and nothing ever waits.   *)
(***************************************************************************)
EXTENDS PkgDb

CONSTANTS
    Scrapers,   \* the processes that scrape
    Readers,    \* the processes that only query
    Requested,  \* the prefixes they ask for
    None        \* no process, no request

ASSUME RequestedAssumption ==
    /\ Requested \subseteq {q \in Paths : Len(q) > 1}
    /\ None \notin Scrapers \cup Readers
    /\ Scrapers \cap Readers = {}

VARIABLES
    db,         \* what is committed in the file
    dirty,      \* the file as the process that writes it sees it
    writer,     \* the process that holds RESERVED, or None
    shared,     \* the processes that hold SHARED across steps
    pc,         \* where each scraper is
    req,        \* the prefix asked of it, and whether with --force
    todo        \* scrapePrefix()'s queue of targets

vars == <<db, dirty, writer, shared, pc, req, todo>>

Idle == {"idle", "ok", "error"}
InTxn == {"scrape", "commit"}
Stages == Idle \cup InTxn \cup
          {"forceOpen", "forceRows", "clear", "check", "open", "rows", "begin"}

Request == [prefix : Requested, force : BOOLEAN]

TypeOK ==
    /\ db \in Contents
    /\ dirty \in Contents
    /\ writer \in Scrapers \cup {None}
    /\ shared \subseteq Scrapers \cup Readers
    /\ pc \in [Scrapers -> Stages]
    /\ req \in [Scrapers -> Request \cup {None}]
    /\ todo \in [Scrapers -> SUBSET AttrSets]

Init ==
    /\ db = EmptyDb
    /\ dirty = EmptyDb
    /\ writer = None
    /\ shared = {}
    /\ pc = [p \in Scrapers |-> "idle"]
    /\ req = [p \in Scrapers |-> None]
    /\ todo = [p \in Scrapers |-> {}]
-----------------------------------------------------------------------------
\* The contents process p sees.
View(p) == IF writer = p THEN dirty ELSE db

MayReserve(p) == writer \in {None, p}
OthersRead(p) == shared \ {p} # {}

Goto(p, stage) == pc' = [pc EXCEPT ![p] = stage]

\* An autocommitted write of p, outside any transaction.
Write(D) == db' = D /\ dirty' = D

\* p returns, or dies: its connections close, an open transaction rolls back.
Leave(p, stage) ==
    /\ Goto(p, stage)
    /\ req' = [req EXCEPT ![p] = None]
    /\ todo' = [todo EXCEPT ![p] = {}]
    /\ shared' = shared \ {p}
    /\ writer' = IF writer = p THEN None ELSE writer

Abandon(p, stage) ==
    /\ Leave(p, stage)
    /\ dirty' = IF writer = p THEN db ELSE dirty
    /\ UNCHANGED db
-----------------------------------------------------------------------------
\* A prefix is asked for, by `pkgdb scrape [--force]' or by scrapeSystems().
Ask(p, q, force) ==
    /\ pc[p] \in Idle
    /\ req' = [req EXCEPT ![p] = [prefix |-> q, force |-> force]]
    /\ Goto(p, IF force THEN "forceOpen" ELSE "check")
    /\ UNCHANGED <<db, dirty, writer, shared, todo>>

\* getDbReadWrite(): init() and writeInput() change nothing in a database that
\* exists, but their INSERT OR IGNOREs want RESERVED all the same.
Open(p) ==
    /\ pc[p] \in {"forceOpen", "open"}
    /\ \/ /\ MayReserve(p)
          /\ Goto(p, IF pc[p] = "open" THEN "rows" ELSE "forceRows")
          /\ UNCHANGED <<db, dirty, writer, shared, req, todo>>
       \/ ~MayReserve(p) /\ Abandon(p, "error")

\* Mutants: the rows in any order; no regard for who reads or writes.
AddRow_AnyOrder(p) ==
    /\ pc[p] \in {"forceRows", "rows"}
    /\ LET missing == {a \in Paths \ db.rows : IsPrefix(a, req[p].prefix)}
       IN  \/ /\ missing = {}
              /\ Goto(p, IF pc[p] = "rows" THEN "begin" ELSE "clear")
              /\ UNCHANGED <<db, dirty, writer, shared, req, todo>>
           \/ /\ shared = {}
              /\ \E a \in missing : Write(AddAttrSet(db, a))
              /\ UNCHANGED <<writer, shared, pc, req, todo>>
           \/ /\ missing # {} /\ shared # {}
              /\ Abandon(p, "error")

AddRow_NoLock(p) ==
    /\ pc[p] \in {"forceRows", "rows"}
    /\ LET missing == {a \in Paths \ db.rows : IsPrefix(a, req[p].prefix)}
       IN  \/ /\ missing = {}
              /\ Goto(p, IF pc[p] = "rows" THEN "begin" ELSE "clear")
              /\ UNCHANGED <<db, dirty, writer, shared, req, todo>>
           \/ /\ \E a \in missing : HasParentRow(db, a) /\ db' = AddAttrSet(db, a)
              /\ dirty' = IF writer = None THEN db' ELSE dirty
              /\ UNCHANGED <<writer, shared, pc, req, todo>>

\* addOrGetAttrSetId( AttrPath ): one autocommitted INSERT per attribute.  Any
\* error is taken for "it exists already", and the SELECT that follows
\* settles it: busy or not, a row that is there is found.
AddRow(p) ==
    /\ pc[p] \in {"forceRows", "rows"}
    /\ LET missing == {a \in Paths \ db.rows : IsPrefix(a, req[p].prefix)}
       IN  \/ /\ missing = {}
              /\ Goto(p, IF pc[p] = "rows" THEN "begin" ELSE "clear")
              /\ UNCHANGED <<db, dirty, writer, shared, req, todo>>
           \/ /\ shared = {}
              /\ \E a \in missing : HasParentRow(db, a) /\ Write(AddAttrSet(db, a))
              /\ UNCHANGED <<writer, shared, pc, req, todo>>
           \/ /\ missing # {} /\ shared # {}
              /\ Abandon(p, "error")

\* --force: setPrefixDone( attrPath, false ), then the connection is closed.
Clear(p) ==
    /\ pc[p] = "clear"
    /\ \/ /\ shared = {}
          /\ Write(SetPrefixDone(db, req[p].prefix, FALSE))
          /\ Goto(p, "check")
          /\ UNCHANGED <<writer, shared, req, todo>>
       \/ shared # {} /\ Abandon(p, "error")

\* Mutant: no look whether the flake has the prefix.
Check_NoRoot(p) ==
    /\ pc[p] = "check"
    /\ \/ CompletedPath(db, req[p].prefix) /\ Abandon(p, "ok")
       \/ /\ ~CompletedPath(db, req[p].prefix)
          /\ Goto(p, "open")
          /\ UNCHANGED <<db, dirty, writer, shared, req, todo>>

\* scrapePrefix() looks the prefix up, on the read-only connection and ahead
\* of its transaction, then in the flake, and returns if there is no work.
Check(p) ==
    /\ pc[p] = "check"
    /\ \/ /\ CompletedPath(db, req[p].prefix) \/ req[p].prefix \notin AttrSets
          /\ Abandon(p, "ok")
       \/ /\ ~CompletedPath(db, req[p].prefix) /\ req[p].prefix \in AttrSets
          /\ Goto(p, "open")
          /\ UNCHANGED <<db, dirty, writer, shared, req, todo>>

\* BEGIN takes no lock: the first SELECT of the first scrape() takes SHARED.
Begin(p) ==
    /\ pc[p] = "begin"
    /\ Goto(p, "scrape")
    /\ todo' = [todo EXCEPT ![p] = {req[p].prefix}]
    /\ shared' = shared \cup {p}
    /\ UNCHANGED <<db, dirty, writer, req>>

(***************************************************************************)
(* One turn of scrapePrefix()'s loop: scrape() of a target of the queue.   *)
(* The targets are distinct sets and their order matters to nothing here,  *)
(* so the queue is a set and any target of it may be next.                 *)
(***************************************************************************)
Target(p, t, rest) == todo' = [todo EXCEPT ![p] = (@ \ {t}) \cup rest]

\* `completedAttrSet( parentId )': scraped before, by row; bail out.
SkipTarget(p, t) ==
    /\ CompletedRow(View(p), t)
    /\ Target(p, t, {})
    /\ UNCHANGED <<db, dirty, writer, shared, pc, req>>

\* Mutants: scrape() outside any transaction; a target that is not popped.
FillTarget_NoTxn(p, t) ==
    /\ ~CompletedRow(View(p), t) /\ ~Fails(t)
    /\ DrvsOf({t}) # {} \/ Kids(t) # {}
    /\ MayReserve(p)
    /\ Write(ScrapeTarget(View(p), t))
    /\ writer' = p
    /\ Target(p, t, Kids(t))
    /\ UNCHANGED <<shared, pc, req>>

FillTarget_KeepsTarget(p, t) ==
    /\ ~CompletedRow(View(p), t) /\ ~Fails(t)
    /\ DrvsOf({t}) # {} \/ Kids(t) # {}
    /\ MayReserve(p)
    /\ dirty' = ScrapeTarget(View(p), t)
    /\ writer' = p
    /\ Target(p, t, Kids(t) \cup {t})
    /\ UNCHANGED <<db, shared, pc, req>>

\* The set has derivations to add or child sets to push, and RESERVED is had.
FillTarget(p, t) ==
    /\ ~CompletedRow(View(p), t) /\ ~Fails(t)
    /\ DrvsOf({t}) # {} \/ Kids(t) # {}
    /\ MayReserve(p)
    /\ dirty' = ScrapeTarget(View(p), t)
    /\ writer' = p
    /\ Target(p, t, Kids(t))
    /\ UNCHANGED <<db, shared, pc, req>>

\* Nothing has to be written: the set is empty, or another process writes and
\* every child set already has its row, which addOrGetAttrSetId() then finds.
PassTarget(p, t) ==
    /\ ~CompletedRow(View(p), t) /\ ~Fails(t)
    /\ DrvsOf({t}) = {}
    /\ Kids(t) = {} \/ (~MayReserve(p) /\ Kids(t) \subseteq View(p).rows)
    /\ Target(p, t, Kids(t))
    /\ UNCHANGED <<db, dirty, writer, shared, pc, req>>

\* Mutant: the exception handler does not throw on.
FailTarget_Swallows(p, t) ==
    /\ ~CompletedRow(View(p), t) /\ Fails(t)
    /\ Abandon(p, "ok")

\* An EvalError below `packages' is rethrown: scrapePrefix() rolls back.
FailTarget(p, t) ==
    /\ ~CompletedRow(View(p), t) /\ Fails(t)
    /\ Abandon(p, "error")

\* A write that is refused: addPackage(), or addOrGetAttrSetId() for a child
\* set with no row, throws; the transaction's destructor rolls back.
BusyTarget(p, t) ==
    /\ ~CompletedRow(View(p), t)
    /\ ~MayReserve(p)
    /\ DrvsOf({t}) # {} \/ ~(Kids(t) \subseteq View(p).rows)
    /\ Abandon(p, "error")

ScrapeNext(p) ==
    /\ pc[p] = "scrape"
    /\ \E t \in todo[p] : \/ SkipTarget(p, t)
                          \/ FillTarget(p, t)
                          \/ PassTarget(p, t)
                          \/ FailTarget(p, t)
                          \/ BusyTarget(p, t)

\* Mutant: the prefix is marked with targets left on the queue.
MarkDone_AnyTime(p) ==
    /\ pc[p] = "scrape"
    /\ \/ /\ MayReserve(p)
          /\ dirty' = SetPrefixDone(View(p), req[p].prefix, TRUE)
          /\ writer' = p
          /\ Goto(p, "commit")
          /\ UNCHANGED <<db, shared, req, todo>>
       \/ ~MayReserve(p) /\ Abandon(p, "error")

\* The queue is empty: setPrefixDone( row, true ), still in the transaction.
MarkDone(p) ==
    /\ pc[p] = "scrape" /\ todo[p] = {}
    /\ \/ /\ MayReserve(p)
          /\ dirty' = SetPrefixDone(View(p), req[p].prefix, TRUE)
          /\ writer' = p
          /\ Goto(p, "commit")
          /\ UNCHANGED <<db, shared, req, todo>>
       \/ ~MayReserve(p) /\ Abandon(p, "error")

\* txn.commit(): whatever COMMIT returns, scrapePrefix() closes the connection
\* and returns.  If others read, COMMIT was refused and closing rolls back.
Commit(p) ==
    /\ pc[p] = "commit"
    /\ \/ ~OthersRead(p) /\ db' = dirty /\ UNCHANGED dirty /\ Leave(p, "ok")
       \/ OthersRead(p) /\ Abandon(p, "ok")

\* A scraper is killed, or a statement fails for a reason of its own.
Crash(p) == pc[p] \notin Idle /\ Abandon(p, "error")

\* A query of another process holds SHARED from its first row to its last.
BeginRead(r) ==
    /\ shared' = shared \cup {r}
    /\ UNCHANGED <<db, dirty, writer, pc, req, todo>>

EndRead(r) ==
    /\ r \in shared
    /\ shared' = shared \ {r}
    /\ UNCHANGED <<db, dirty, writer, pc, req, todo>>

Work(p) == Open(p) \/ AddRow(p) \/ Clear(p) \/ Check(p) \/ Begin(p)
           \/ ScrapeNext(p) \/ MarkDone(p) \/ Commit(p)

Next == \/ \E p \in Scrapers :
              \/ \E q \in Requested, force \in BOOLEAN : Ask(p, q, force)
              \/ Work(p)
              \/ Crash(p)
        \/ \E r \in Readers : BeginRead(r) \/ EndRead(r)

Spec == Init /\ [][Next]_vars

\* A process that is scraping keeps running until it returns or dies.
FairSpec == Spec /\ \A p \in Scrapers : WF_vars(Work(p))
-----------------------------------------------------------------------------
(***************************************************************************)
(* Why it works: the inductive invariant.                                  *)
(***************************************************************************)

\* Who is in a transaction holds SHARED, who is about to commit RESERVED, and
\* without a writer there is nothing uncommitted.
LocksHeld ==
    /\ \A p \in Scrapers : p \in shared <=> pc[p] \in InTxn
    /\ \A p \in Scrapers : pc[p] = "commit" => writer = p
    /\ writer # None => writer \in shared
    /\ writer = None => dirty = db

\* What a scraper has established on its way, and later steps build upon.
WayIn(p) ==
    /\ pc[p] \notin Idle => req[p] \in Request
    /\ pc[p] \in {"forceOpen", "forceRows", "clear"} => req[p].force
    /\ pc[p] \in {"open", "rows", "begin"} \cup InTxn => req[p].prefix \in AttrSets
    /\ pc[p] \in {"clear", "begin"} \cup InTxn => req[p].prefix \in db.rows

\* Every transaction is on the way to commit all that its prefix reaches.
TxnOnTrack(p) ==
    LET q == req[p].prefix
    IN  /\ pc[p] = "scrape" => Underway(db, View(p), q, todo[p])
        /\ pc[p] = "commit" => /\ dirty = Result(db, q)
                               /\ q \in db.done \/ ~Fails(q)

ScrapeInv == /\ TypeOK
             /\ LocksHeld
             /\ Sound(db)
             /\ \A p \in Scrapers : WayIn(p) /\ TxnOnTrack(p)
-----------------------------------------------------------------------------
\* The abstract specification, of the committed contents alone.
Index == INSTANCE PrefixIndex

\* Scraping by many processes, crashes and refused locks included, looks to
\* every user of the file like prefixes published in single steps.
ScrapesAreAtomic == Index!Spec

\* The tree readers join over is whole: see RowsRooted in PrefixIndex.
RowsRooted == Index!RowsRooted

\* A mark has a reason, its own or its parent's: see PrefixIndex.
DoneExplained == Index!DoneExplained

\* What search and the resolver rely on: see PrefixIndex.
SystemPrefixComplete == Index!SystemPrefixComplete

\* No reader sees a part of a set's packages: see PrefixIndex.
NothingHalfVisible == Index!NothingHalfVisible

\* No committed row is lost, whoever else writes: see PrefixIndex.
NothingLost == Index!NothingLost

ClearedByForce(s) ==
    \E p \in Scrapers : /\ pc[p] = "clear" /\ req[p].force
                        /\ IsPrefix(req[p].prefix, s)

\* A mark is lost only to a `--force' that named a prefix above it: no commit
\* brings back an older state of the table.
MarksOnlyForced ==
    [][\A s \in Paths : s \in db.done \ db'.done => ClearedByForce(s)]_vars

Succeeds(p) == pc[p] # "ok" /\ pc'[p] = "ok"
Answered(p) == CompletedPath(db', req[p].prefix) \/ req[p].prefix \notin AttrSets

\* scrapePrefix() returns normally only with the prefix completed in the file,
\* unless its COMMIT found another process reading.
OkUnlessRefused ==
    [][\A p \in Scrapers :
         Succeeds(p) => Answered(p) \/ (pc[p] = "commit" /\ OthersRead(p))]_vars

\* Every request comes to an end: a scrape never waits for a lock, nor for
\* another process, and its queue drains.
RequestsReturn == \A p \in Scrapers : pc[p] \notin Idle ~> pc[p] \in Idle
-----------------------------------------------------------------------------
(***************************************************************************)
(* What the documentation says and the code does not keep.                 *)
(***************************************************************************)

\* "Ensure that an attribute path prefix has been scraped" (input.hh).
OkMeansCompleted == [][\A p \in Scrapers : Succeeds(p) => Answered(p)]_vars
=============================================================================
