-------------------------------- MODULE Rows --------------------------------
(***************************************************************************)
(* The rows of the package database and their ids.                         *)
(*                                                                         *)
(* The other modules speak of attribute sets and packages by their paths.  *)
(* The program speaks of them by `row_id': the todo queue of scrapePrefix()*)
(* carries the row of each target, a query answers with ids, `pkgdb get'   *)
(* prints ids that a later call is given back.  Ids come from SQLite: one  *)
(* more than the greatest in the table, so an id given out in a            *)
(* transaction that rolls back is given out again.                         *)
(*                                                                         *)
(* Scrapers follow scrapePrefix() down to the single attribute.  Of the    *)
(* locks only this is kept: one process writes, and nothing is committed   *)
(* while another is in its transaction (module Scrape has all of them).  A *)
(* statement that is refused throws, which is one of the ways to Crash.    *)
(***************************************************************************)
EXTENDS PkgDb, Functions, FiniteSetsExt, TLC

CONSTANTS
    Description,    \* of a derivation: a text, or None
    Requested,      \* the prefixes scraped
    Lookups,        \* the paths readers look up
    Scrapers,
    Readers,
    None

ASSUME RowsAssumption ==
    /\ Derivations \subseteq DOMAIN Description
    /\ Requested \subseteq {q \in Paths : Len(q) > 1}
    /\ Lookups \subseteq Seq(STRING) \ {Root}
    /\ None \notin Scrapers \cup Readers \cup Nat

VARIABLES
    file,       \* what is committed
    dirty,      \* what the process that writes sees
    writer,     \* the process that holds RESERVED, or None
    work,       \* each scraper's variables
    reader      \* each reader's variables

vars == <<file, dirty, writer, work, reader>>

\* Row 0 is no row: the parent of the top-level sets.
Empty == << >>
EmptyFile == [sets |-> Empty, pkgs |-> Empty, texts |-> Empty]

NewId(table) == Max({0} \cup DOMAIN table) + 1
Insert(table, row) ==
    [i \in DOMAIN table \cup {NewId(table)} |->
        IF i \in DOMAIN table THEN table[i] ELSE row]
-----------------------------------------------------------------------------
(***************************************************************************)
(* PkgDbReadOnly: looking up ids and paths.                                *)
(***************************************************************************)

\* The rows of AttrSets, and of Packages, under a parent and a name: at most
\* one, by the UNIQUE constraints.
SetIds(D, up, n) == {i \in DOMAIN D.sets : D.sets[i].up = up /\ D.sets[i].name = n}
PkgIds(D, up, n) == {i \in DOMAIN D.pkgs : D.pkgs[i].up = up /\ D.pkgs[i].name = n}
TextIds(D, t) == {i \in DOMAIN D.texts : D.texts[i] = t}

The(S) == CHOOSE i \in S : TRUE

\* getAttrSetPath(), by row; a parent that has no row ends it.
AttrSetPaths(D) ==
    LET path[i \in {0} \cup DOMAIN D.sets] ==
            IF i = 0 THEN Root
            ELSE Append(path[D.sets[i].up], D.sets[i].name)
    IN  path

\* getPackagePath().
PackagePath(D, i) == Append(AttrSetPaths(D)[D.pkgs[i].up], D.pkgs[i].name)

\* The `description' that getPackage() joins, NULL if the package has none.
PackageText(D, i) == IF D.pkgs[i].text = None THEN None ELSE D.texts[D.pkgs[i].text]

\* The tables, read as paths.
IndexOf(D) ==
    LET path == AttrSetPaths(D) IN
    [rows |-> {path[i] : i \in DOMAIN D.sets},
     done |-> {path[i] : i \in {j \in DOMAIN D.sets : D.sets[j].done}},
     pkgs |-> {<<path[D.pkgs[i].up], D.pkgs[i].name>> : i \in DOMAIN D.pkgs}]

\* The package, or the set, of that path has a row.
There(D, path, pkg) ==
    IF pkg THEN <<Front(path), Last(path)>> \in IndexOf(D).pkgs
           ELSE path \in IndexOf(D).rows
-----------------------------------------------------------------------------
(***************************************************************************)
(* PkgDb: adding rows.                                                     *)
(***************************************************************************)

\* The INSERT of addOrGetAttrSetId( attrName, parent ).
AddSet(D, up, n) ==
    [D EXCEPT !.sets = Insert(@, [up |-> up, name |-> n, done |-> FALSE])]

\* addOrGetDescriptionId(): NULL for a package that has no description.
AddText(D, t) ==
    IF t = None \/ TextIds(D, t) # {} THEN D ELSE [D EXCEPT !.texts = Insert(@, t)]
TextId(D, t) == IF t = None THEN None ELSE The(TextIds(D, t))

\* Mutant: INSERT OR REPLACE, which deletes the row there is for a new one.
AddPackage_Replaces(D, up, d) ==
    LET E == AddText(D, Description[d])
        row == [up |-> up, name |-> d[2], text |-> TextId(E, Description[d])]
        old == PkgIds(D, up, d[2])
    IN  [E EXCEPT !.pkgs = Insert([i \in DOMAIN @ \ old |-> @[i]], row)]

\* addPackage(): INSERT OR IGNORE (nobody passes `replace').
AddPackage(D, up, d) ==
    LET E == AddText(D, Description[d])
        row == [up |-> up, name |-> d[2], text |-> TextId(E, Description[d])]
    IN  IF PkgIds(D, up, d[2]) # {} THEN E ELSE [E EXCEPT !.pkgs = Insert(@, row)]

\* setPrefixDone( row_id ): the rows under it that join with a parent's row.
SetRowsDone(D, q, b) ==
    LET path == AttrSetPaths(D)
        Under(i) == D.sets[i].up # 0 /\ IsPrefix(path[q], path[i])
    IN  [D EXCEPT !.sets = [i \in DOMAIN @ |->
            IF Under(i) THEN [@[i] EXCEPT !.done = b] ELSE @[i]]]
-----------------------------------------------------------------------------
IdleWork == [stage |-> "idle", prefix |-> None, row |-> 0, rest |-> Root,
             todo |-> << >>, left |-> {}]
IdleReader == [stage |-> "idle", pkg |-> FALSE, row |-> 0, rest |-> Root,
               path |-> Root, text |-> None, want |-> None]

Init ==
    /\ file = EmptyFile
    /\ dirty = EmptyFile
    /\ writer = None
    /\ work = [p \in Scrapers |-> IdleWork]
    /\ reader = [r \in Readers |-> IdleReader]

View(p) == IF writer = p THEN dirty ELSE file
MayReserve(p) == writer \in {None, p}
TxnStages == {"targets", "attrs"}
InTxn(p) == work[p].stage \in TxnStages
OthersInTxn(p) == \E o \in Scrapers \ {p} : InTxn(o)

Set(p, w) == work' = [work EXCEPT ![p] = w]
Walk(p, stage) == [work[p] EXCEPT !.stage = stage, !.row = 0, !.rest = work[p].prefix]
Step(w, ids) == [w EXCEPT !.row = The(ids), !.rest = Tail(w.rest)]
-----------------------------------------------------------------------------
\* A prefix is to be scraped, with --force or without.
Ask(p, q, force) ==
    /\ work[p].stage = "idle"
    /\ Set(p, [IdleWork EXCEPT !.prefix = q, !.rest = q,
                               !.stage = IF force THEN "unmark" ELSE "check"])
    /\ UNCHANGED <<file, dirty, writer, reader>>

\* Mutant: the SELECT is left out, and last_insert_rowid() is as it was.
AddOrGetAttrSetId_NoSelect(p) ==
    LET w == work[p]
        ids == IF SetIds(file, w.row, Head(w.rest)) = {} THEN {}
               ELSE {NewId(file.sets) - 1}
    IN  /\ w.stage \in {"unmark", "enter"} /\ w.rest # Root
        /\ \/ /\ ids # {}
              /\ Set(p, Step(w, ids))
              /\ UNCHANGED <<file, dirty>>
           \/ /\ ids = {} /\ ~OthersInTxn(p)
              /\ file' = AddSet(file, w.row, Head(w.rest)) /\ dirty' = file'
              /\ Set(p, Step(w, {NewId(file.sets)}))
        /\ UNCHANGED <<writer, reader>>

\* addOrGetAttrSetId( AttrPath ), one attribute: INSERT, on any error SELECT.
AddOrGetAttrSetId(p) ==
    LET w == work[p]
        ids == SetIds(file, w.row, Head(w.rest))
    IN  /\ w.stage \in {"unmark", "enter"} /\ w.rest # Root
        /\ \/ /\ ids # {}
              /\ Set(p, Step(w, ids))
              /\ UNCHANGED <<file, dirty>>
           \/ /\ ids = {} /\ ~OthersInTxn(p)
              /\ file' = AddSet(file, w.row, Head(w.rest)) /\ dirty' = file'
              /\ Set(p, Step(w, {NewId(file.sets)}))
        /\ UNCHANGED <<writer, reader>>

\* --force: setPrefixDone( attrPath, false ).
Unmark(p) ==
    /\ work[p].stage = "unmark" /\ work[p].rest = Root
    /\ ~OthersInTxn(p)
    /\ file' = SetRowsDone(file, work[p].row, FALSE) /\ dirty' = file'
    /\ Set(p, Walk(p, "check"))
    /\ UNCHANGED <<writer, reader>>

\* completedAttrSet( AttrPath ), one SELECT per attribute from the top.
CompletedAttrSet(p) ==
    LET w == work[p]
        ids == IF w.rest = Root THEN {} ELSE SetIds(file, w.row, Head(w.rest))
        \* the flake has the prefix: the scrape goes on
        goOn == IF w.prefix \in AttrSets THEN Walk(p, "enter") ELSE IdleWork
    IN  /\ w.stage = "check"
        /\ \/ ids = {} /\ Set(p, goOn)
           \/ ids # {} /\ file.sets[The(ids)].done /\ Set(p, IdleWork)
           \/ ids # {} /\ ~file.sets[The(ids)].done /\ Set(p, Step(w, ids))
        /\ UNCHANGED <<file, dirty, writer, reader>>

\* The queue starts with the prefix, and the transaction begins.
Begin(p) ==
    /\ work[p].stage = "enter" /\ work[p].rest = Root
    /\ Set(p, [work[p] EXCEPT
                 !.stage = "targets",
                 !.todo = <<[prefix |-> work[p].prefix, row |-> work[p].row]>>])
    /\ UNCHANGED <<file, dirty, writer, reader>>

\* scrape() of the front target: bail out if its row is done, else loop over
\* the attributes that are derivations or sets to push.  (Mutant: only those
\* with recurseForDerivations are pushed.)
AttrsOf_MarkedOnly(t) ==
    {d[2] : d \in DrvsOf({t})} \cup {Last(c) : c \in Kids(t) \cap RecurseMarked}

AttrsOf(t) == {d[2] : d \in DrvsOf({t})} \cup {Last(c) : c \in Kids(t)}

TakeTarget(p) ==
    LET w == work[p] IN
    /\ w.stage = "targets" /\ w.todo # << >>
    /\ Set(p, IF View(p).sets[w.todo[1].row].done
                THEN [w EXCEPT !.todo = Tail(@)]
                ELSE [w EXCEPT !.stage = "attrs", !.left = AttrsOf(w.todo[1].prefix)])
    /\ UNCHANGED <<file, dirty, writer, reader>>

\* One attribute: a package for a derivation, ...
ScrapeDrv(p, n) ==
    LET w == work[p] IN
    /\ w.stage = "attrs" /\ n \in w.left
    /\ <<w.todo[1].prefix, n>> \in Derivations
    /\ MayReserve(p)
    /\ dirty' = AddPackage(View(p), w.todo[1].row, <<w.todo[1].prefix, n>>)
    /\ writer' = p
    /\ Set(p, [w EXCEPT !.left = @ \ {n}])
    /\ UNCHANGED <<file, reader>>

\* ... a row and a new target for a set.  Refused or not, the INSERT fails if
\* there is a row already, and the SELECT finds it.
ScrapeSet(p, n) ==
    LET w == work[p]
        t == w.todo[1]
        ids == SetIds(View(p), t.row, n)
        Push(i) == [w EXCEPT !.left = @ \ {n},
                             !.todo = Append(@, [prefix |-> Append(t.prefix, n),
                                                 row |-> i])]
    IN  /\ w.stage = "attrs" /\ n \in w.left
        /\ <<t.prefix, n>> \notin Derivations
        /\ \/ /\ ids # {}
              /\ dirty' = View(p) /\ MayReserve(p) /\ writer' = p
              /\ Set(p, Push(The(ids)))
           \/ /\ ids # {} /\ ~MayReserve(p)
              /\ Set(p, Push(The(ids)))
              /\ UNCHANGED <<dirty, writer>>
           \/ /\ ids = {} /\ MayReserve(p)
              /\ dirty' = AddSet(View(p), t.row, n) /\ writer' = p
              /\ Set(p, Push(NewId(View(p).sets)))
        /\ UNCHANGED <<file, reader>>

\* The target is popped, unless one of its attributes throws (see Crash).
Pop(p) ==
    LET w == work[p] IN
    /\ w.stage = "attrs" /\ w.left = {} /\ ~Fails(w.todo[1].prefix)
    /\ Set(p, [w EXCEPT !.stage = "targets", !.todo = Tail(@)])
    /\ UNCHANGED <<file, dirty, writer, reader>>

\* The queue is empty: setPrefixDone( row, true ) and COMMIT.
Finish(p) ==
    /\ work[p].stage = "targets" /\ work[p].todo = << >>
    /\ MayReserve(p) /\ ~OthersInTxn(p)
    /\ file' = SetRowsDone(View(p), work[p].row, TRUE) /\ dirty' = file'
    /\ writer' = None
    /\ Set(p, IdleWork)
    /\ UNCHANGED reader

\* Mutant: what was written before the error is kept.
Crash_Keeps(p) ==
    /\ work[p].stage # "idle"
    /\ Set(p, IdleWork)
    /\ file' = View(p)
    /\ IF writer = p THEN writer' = None ELSE UNCHANGED writer
    /\ UNCHANGED <<dirty, reader>>

\* The process dies, an evaluation or a statement throws, COMMIT is refused:
\* the connection closes and an open transaction rolls back.
Crash(p) ==
    /\ work[p].stage # "idle"
    /\ Set(p, IdleWork)
    /\ IF writer = p THEN writer' = None /\ dirty' = file ELSE UNCHANGED <<writer, dirty>>
    /\ UNCHANGED <<file, reader>>
-----------------------------------------------------------------------------
(***************************************************************************)
(* Readers.  Between two of their statements the file may change; `want'   *)
(* remembers what the id in hand stood for when it was come by.            *)
(***************************************************************************)
Free(r) == reader[r].stage \in {"idle", "answer", "failed"}
SetReader(r, s) == reader' = [reader EXCEPT ![r] = s]
Failed(s) == [s EXCEPT !.stage = "failed"]

\* Mutant: a query that reads what is not committed.
Query_Dirty(r) ==
    /\ Free(r)
    /\ \E i \in DOMAIN dirty.pkgs :
         SetReader(r, [IdleReader EXCEPT !.stage = "have", !.pkg = TRUE, !.row = i,
                                         !.want = PackagePath(dirty, i)])
    /\ UNCHANGED <<file, dirty, writer, work>>

\* getPackages(): a search has the ids of the rows that match.
Query(r) ==
    /\ Free(r)
    /\ \E i \in DOMAIN file.pkgs :
         SetReader(r, [IdleReader EXCEPT !.stage = "have", !.pkg = TRUE, !.row = i,
                                         !.want = PackagePath(file, i)])
    /\ UNCHANGED <<file, dirty, writer, work>>

\* `pkgdb get id [--pkg] PATH', `pkgdb get pkg PATH'.
Lookup(r, path, pkg) ==
    /\ Free(r)
    /\ SetReader(r, [IdleReader EXCEPT
                       !.stage = "down", !.pkg = pkg, !.rest = path, !.path = path,
                       !.want = IF There(file, path, pkg) THEN path ELSE None])
    /\ UNCHANGED <<file, dirty, writer, work>>

\* getAttrSetId() and getPackageId(), one SELECT per attribute.
Down(r) ==
    LET s == reader[r]
        last == s.pkg /\ Len(s.rest) = 1
        ids == IF last THEN PkgIds(file, s.row, s.rest[1])
                       ELSE SetIds(file, s.row, s.rest[1])
        next == [s EXCEPT !.row = The(ids), !.rest = Tail(@)]
    IN  /\ s.stage = "down"
        /\ SetReader(r, IF ids = {} THEN Failed(s)
                        ELSE IF Len(s.rest) > 1 THEN next
                        ELSE [next EXCEPT !.stage = "have", !.want = s.path,
                                          !.path = Root])
        /\ UNCHANGED <<file, dirty, writer, work>>

\* getPackage( row_id ): its first SELECT is not reset before the walk up is
\* over, and holds a snapshot for all of it.
GetPackage(r) ==
    LET s == reader[r] IN
    /\ s.stage = "have" /\ s.pkg
    /\ SetReader(r, IF s.row \notin DOMAIN file.pkgs THEN Failed(s)
                    ELSE [s EXCEPT !.stage = "answer",
                                   !.path = PackagePath(file, s.row),
                                   !.text = PackageText(file, s.row)])
    /\ UNCHANGED <<file, dirty, writer, work>>

\* `pkgdb get path ID', with the id that was printed: getAttrSetPath(), one
\* SELECT per attribute, from the last to the first.
Up(r) ==
    LET s == reader[r] IN
    /\ s.stage = "have" /\ ~s.pkg
    /\ SetReader(r, IF s.row = 0 THEN [s EXCEPT !.stage = "answer"]
                    ELSE IF s.row \notin DOMAIN file.sets THEN Failed(s)
                    ELSE [s EXCEPT !.row = file.sets[s.row].up,
                                   !.path = <<file.sets[s.row].name>> \o @])
    /\ UNCHANGED <<file, dirty, writer, work>>
-----------------------------------------------------------------------------
Scraping(p) ==
    \/ AddOrGetAttrSetId(p) \/ Unmark(p) \/ CompletedAttrSet(p) \/ Begin(p)
    \/ TakeTarget(p) \/ Pop(p) \/ Finish(p) \/ Crash(p)
    \/ \E n \in work[p].left : ScrapeDrv(p, n) \/ ScrapeSet(p, n)

Next ==
    \/ \E p \in Scrapers : \/ \E q \in Requested, force \in BOOLEAN : Ask(p, q, force)
                           \/ Scraping(p)
    \/ \E r \in Readers : \/ Query(r) \/ Down(r) \/ GetPackage(r) \/ Up(r)
                          \/ \E path \in Lookups, pkg \in BOOLEAN : Lookup(r, path, pkg)

Spec == Init /\ [][Next]_vars
-----------------------------------------------------------------------------
(***************************************************************************)
(* What ids promise.                                                       *)
(***************************************************************************)

\* The tables hold a tree whose ids grow downwards (so the walk up ends), one
\* row per path, and each package refers to its own description.
WellFormed(D) ==
    LET path == AttrSetPaths(D) IN
    /\ \A i \in DOMAIN D.sets : D.sets[i].up \in 0..(i - 1)
    /\ \A i \in DOMAIN D.sets : D.sets[i].up # 0 => D.sets[i].up \in DOMAIN D.sets
    /\ \A i \in DOMAIN D.sets : path[i] \in Paths
    /\ IsInjective(path)
    /\ \A i \in DOMAIN D.pkgs :
         /\ D.pkgs[i].up \in DOMAIN D.sets
         /\ PkgIds(D, D.pkgs[i].up, D.pkgs[i].name) = {i}
         /\ D.pkgs[i].text \in {None} \cup DOMAIN D.texts
         /\ LET d == <<path[D.pkgs[i].up], D.pkgs[i].name>>
            IN  d \in Derivations /\ PackageText(D, i) = Description[d]
    /\ IsInjective(D.texts)

\* A row id that a scraper holds across statements stands for the path the
\* code takes it for: the row it has walked to, the parent row of a target.
HoldsRight(p) ==
    LET w == work[p]
        path == AttrSetPaths(View(p))
    IN  /\ w.stage # "idle" => path[w.row] \o w.rest = w.prefix
        /\ \A k \in DOMAIN w.todo : path[w.todo[k].row] = w.todo[k].prefix

\* Ids and paths name the same things, in the file, in an open transaction and
\* in the hands of every process that scrapes.
IdsNamePaths ==
    WellFormed(file) /\ WellFormed(dirty) /\ \A p \in Scrapers : HoldsRight(p)

\* A committed id keeps its meaning for good: ids are used again only if they
\* were never committed, and neither --force nor a second scrape renumbers.
SameRows(table, new) ==
    \A i \in DOMAIN table : i \in DOMAIN new /\ table[i] = new[i]
SameSets(sets, new) ==
    \A i \in DOMAIN sets : i \in DOMAIN new /\ sets[i].up = new[i].up
                                            /\ sets[i].name = new[i].name
Grows(D, E) ==
    /\ SameSets(D.sets, E.sets)
    /\ SameRows(D.pkgs, E.pkgs)
    /\ SameRows(D.texts, E.texts)
IdsKeepMeaning == [][Grows(file, file')]_file

\* A reader that has its answer has the right one, and one that failed had
\* asked for what was not there.
AnswerIsRight(s) ==
    /\ s.stage = "failed" => s.want = None
    /\ s.stage = "answer" =>
         /\ s.path = s.want
         /\ s.pkg => s.text = Description[<<Front(s.path), Last(s.path)>>]

\* Who got an id from a query or a lookup gets that package or that path for
\* it, described as in the flake, and never an error; and a path that was
\* there when the lookup began is found.
AnswersAreRight == \A r \in Readers : AnswerIsRight(reader[r])

Index == INSTANCE PrefixIndex WITH db <- IndexOf(file)

\* The tables implement the index of prefixes: attribute by attribute and id
\* by id, a scrape still is published in one step and by path.
RowsImplementIndex == Index!Spec
-----------------------------------------------------------------------------
(***************************************************************************)
(* Why it works: the inductive invariant.                                  *)
(***************************************************************************)
Texts == {Description[d] : d \in Derivations}

\* Ids are 1..k: each table is a sequence of its rows.
Tables ==
    [sets : Seq([up : Nat, name : STRING, done : BOOLEAN]),
     pkgs : Seq([up : Nat, name : STRING, text : {None} \cup Nat]),
     texts : Seq(Texts)]

Target == [prefix : AttrSets, row : Nat]

Work ==
    [stage : {"idle", "check", "unmark", "enter", "targets", "attrs"},
     prefix : {None} \cup Requested, row : Nat, rest : Seq(STRING),
     todo : Seq(Target), left : SUBSET STRING]

Reading ==
    [stage : {"idle", "down", "have", "answer", "failed"}, pkg : BOOLEAN,
     row : Nat, rest : Seq(STRING), path : Seq(STRING),
     text : {None} \cup Texts, want : {None} \cup Seq(STRING)]

TypeOK ==
    /\ file \in Tables /\ dirty \in Tables
    /\ writer \in {None} \cup Scrapers
    /\ work \in [Scrapers -> Work]
    /\ reader \in [Readers -> Reading]

\* The writer is in its transaction, and what it sees extends the file.
WriterExtends ==
    /\ writer # None => InTxn(writer)
    /\ writer = None => dirty = file
    /\ Grows(file, dirty)

\* With the file F, a scraper has come as far on its prefix as its row says.
OnItsWay(w, F) ==
    /\ w.stage # "idle" =>
         /\ w.prefix \in Requested
         /\ w.row \in {0} \cup DOMAIN F.sets
         /\ AttrSetPaths(F)[w.row] \o w.rest = w.prefix
    /\ w.stage \in {"enter", "targets", "attrs"} => w.prefix \in AttrSets
    /\ IF w.stage \in TxnStages THEN w.rest = Root ELSE w.todo = << >>

Queue(todo) == {todo[k].prefix : k \in DOMAIN todo}

\* Row by row and attribute by attribute, a transaction that sees D does what
\* Underway says of whole targets: the front one is taken from the queue when
\* all its attributes are dealt with.
TxnOnTrack(w, F, D) ==
    /\ \A k \in DOMAIN w.todo :
         /\ w.todo[k].row \in DOMAIN D.sets
         /\ AttrSetPaths(D)[w.todo[k].row] = w.todo[k].prefix
    /\ w.stage \in TxnStages =>
         Underway(IndexOf(F), IndexOf(D), w.prefix, Queue(w.todo))
    /\ w.stage = "attrs" =>
         /\ w.todo # << >>
         /\ LET t == w.todo[1].prefix IN
            /\ t \notin IndexOf(F).done
            /\ w.left \subseteq AttrsOf(t)
            /\ \A d \in DrvsOf({t}) : d[2] \in w.left \/ d \in IndexOf(D).pkgs
            /\ \A c \in Kids(t) : Last(c) \in w.left \/ c \in Queue(Tail(w.todo))

\* With the file F, a reader has come as far on its path as its row says, and
\* what was there still is; the id it has stands for what it wants.
ReadsRight(s, F) ==
    LET path == AttrSetPaths(F) IN
    /\ s.stage = "down" =>
         /\ s.rest # Root
         /\ s.row \in {0} \cup DOMAIN F.sets
         /\ s.path = path[s.row] \o s.rest
         /\ s.want # None => There(F, s.path, s.pkg)
    /\ s.stage = "have" /\ s.pkg =>
         s.row \in DOMAIN F.pkgs /\ s.want = PackagePath(F, s.row)
    /\ s.stage = "have" /\ ~s.pkg =>
         s.row \in {0} \cup DOMAIN F.sets /\ s.want = path[s.row] \o s.path

\* Ids are 1..k and name paths, transactions are on track and extend the file,
\* readers hold on to what they asked for, and what is committed is sound.
RowsInv ==
    /\ TypeOK
    /\ WellFormed(file) /\ WellFormed(dirty)
    /\ Sound(IndexOf(file))
    /\ WriterExtends
    /\ \A p \in Scrapers : OnItsWay(work[p], file) /\ TxnOnTrack(work[p], file, View(p))
    /\ \A r \in Readers : ReadsRight(reader[r], file) /\ AnswerIsRight(reader[r])
=============================================================================
