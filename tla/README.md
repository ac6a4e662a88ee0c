# A verification project for `pkgdb`

`pkgdb` scrapes the packages of locked Nix flakes into SQLite databases, answers
searches from them, and resolves the descriptors of a manifest to locked
packages.  This directory holds TLA+ modules of the program, TLC configurations
that check them on small instances, and proofs checked by TLAPS.  Paths below
are relative to the repository.

## 1. The system

| part | state it keeps | operations | source |
|---|---|---|---|
| package database | one SQLite file per locked flake: `AttrSets` (a tree of attribute sets with a `done` mark), `Packages`, `Descriptions`, `LockedFlake`, `DbVersions` | `addOrGetAttrSetId`, `addPackage`, `setPrefixDone`, `scrape`, `completedAttrSet`, row and path lookups | `src/pkgdb/write.cc`, `read.cc`, `schemas.hh` |
| database creation | whether the file exists, its tables, versions and views | `PkgDbInput::init`, `PkgDb::init`, `initVersions`, `writeInput`, `DbPathMixin::openDatabase` | `src/pkgdb/input.cc`, `write.cc`, `command.cc` |
| scraping | a queue of targets, a read-only and a read/write connection | `PkgDbInput::scrapePrefix`, `scrapeSystems`, `pkgdb scrape [--force]` | `src/pkgdb/input.cc`, `scrape.cc` |
| queries | none | `PkgQuery`, version ranges, `pkgdb get`, `pkgdb list` | `src/pkgdb/pkg-query.cc`, `get.cc`, `list.cc`, `src/versions.cc` |
| input registry | named inputs, defaults, priorities | merge, order, lock | `src/registry.cc`, `include/flox/registry.hh` |
| manifests | descriptors in groups, options, systems | parsing, checks, grouping, merging | `src/resolver/manifest*.cc`, `descriptor.cc` |
| resolver environment | global manifest, manifest, old lock, new lock, per-system groups | `getUnlockedGroups`, `tryResolveGroup`, `lockSystem`, `createLockfile` | `src/resolver/environment.cc` |
| lockfile | locked registry, locked packages by system | check, read back, `removeUnusedInputs` | `src/resolver/lockfile.cc` |
| environment mixin | optional manifests, lockfile and environment, built on first use | the options `--manifest`, `--lockfile`, `--dir`, `--ga-registry`, …; `set…Raw`, `get…` | `src/resolver/mixins.cc` |
| search | parameters, and one structure of query arguments | `SearchCommand::initEnvironment`, `run` | `src/search/command.cc`, `params.cc` |
| resolver commands | none | `lock`, `diff`, `update`, `registry` | `src/resolver/command.cc` |
| flakes and packages | none of their own (the Nix evaluator's caches) | `FloxFlake`, `FlakePackage`, `RawPackage`, `eval` | `src/flox-flake.cc`, `flake-package.cc`, … |
| CLI, logging, conversions, primops | none | argument parsing, TOML and YAML to JSON | `src/main.cc`, `util.cc`, … |

How they interact.  Search and the resolver call `scrapeSystems()` on every
input of a registry, which scrapes `<subtree>.<system>` prefixes on demand, and
then query the databases; `pkgdb scrape` scrapes any prefix by name.  All of
them are separate processes that share the database files and nothing else:
SQLite's file locks are the only synchronisation.  Within a process everything is
sequential.  The resolver reads an old lockfile and writes a new one; the user
may edit the manifest, or run `pkgdb update`, in between.

What is hard about it:

* several processes scrape overlapping prefixes into one file, with no busy
  handler, so that any statement may be refused at any moment;
* the prefix is looked up outside the transaction that fills it, and on another
  connection;
* a scrape that fails or is killed leaves the rows it inserted before its
  transaction, and `setPrefixDone()` marks all rows below a prefix;
* the database is created and migrated statement by statement in a file others
  may open, remove or migrate, and by different releases of the program;
* rows have ids that a transaction which rolls back gives out and others get again,
  and that a reader has in hand from one statement to the next;
* a lock is made from an older lock and an edited manifest, system by system and
  group by group, and is read back by the next run;
* an entry of a manifest is converted five times, between structures that name
  its fields differently, before a query is made of it, and a lockfile adds a
  round trip through JSON;
* manifests, lock and environment are built lazily, from options in any order.

## 2. What makes each part correct

* **Database.**  Rows form a tree; a mark `done` has a reason; what a mark
  promises is there; nobody sees part of a prefix; nothing is lost.
* **Scraping.**  It is atomic for those who read the file; a success means that the
  prefix is complete; it always returns.
* **Ids.**  An id that was committed keeps its meaning for good; who has one from
  a query gets that package for it.
* **Creation.**  A file is taken for a database only if it is one; who has opened
  it reads tables and views of his own release; what is missing has a reason.
* **Registry.**  What is merged, ordered and locked is each input with its own
  preferences, or the defaults; `--ga-registry` admits no other input.
* **Resolver.**  A lock resolves every descriptor that is not optional, all of a
  group in one input; what has not changed stays locked to what it was; a lock
  that is written can be read back.
* **Queries.**  What is found is what the manifest asks for and the options
  allow, and the best of it; nothing is missed; a manifest survives its lockfile.
* **Commands.**  What a search prints is what its options ask for, in whatever
  order they came; inputs that a lock pins stay where they are.

## 3. The modules

```
AttrTree             the flake as a constant tree, and what a scrape must visit
   PkgDb             the contents of a database, by path, and the operations on them
      PrefixIndex    abstract: an index of prefixes added in single steps
      Scrape         processes, locks, transactions, queues; implements PrefixIndex
         MCScrape
   Rows              tables, row ids, descriptions, readers; implements PrefixIndex
      MCRows
CacheFile            abstract: a file that is absent, in the making, or whole
   DbInit            the file made, opened, checked, migrated; implements CacheFile
      MCDbInit
Vectors              the loop of merge_vectors() and getOrder(), for both chains below
Registry             registries of inputs: merge, order, locking of references
   Locks             manifests, lockfiles and the resolver's functions on them
      Locking        a user, the world, and the commands `lock' and `update'
         MCLocking
Versions             version strings, ranges, and how the views order them
   PkgQuery          rows, arguments, filters and order of a query
      Descriptors    descriptors from JSON and from strings, and what they ask for
         Inputs      registries with their preferences and defaults
            Manifests      the four kinds of manifests, options, their JSON
               Lookup      from an entry to a row, step by step
                  MCLookup
               Session     options, files, environments; search, registry, update
                  MCSession
PkgDb_proofs         lemmas for Scrape_proofs and Rows_proofs
Vectors_proofs       lemmas for Locking_proofs, Lookup_proofs and Session_proofs
Scrape_proofs, Rows_proofs, DbInit_proofs,
Locking_proofs, Lookup_proofs, Session_proofs        the theorems
```

Modules in the middle of a chain are pure: constants with their assumptions, and
operators.  `PrefixIndex`, `Scrape`, `Rows`, `CacheFile`, `DbInit`, `Locking`,
`Lookup` and `Session` are state machines.  The components meet in three ways.
`Scrape` and `Rows` implement the same abstract index, one with all of SQLite's
locks and by path, the other by id and attribute with only what of the locks
bears on ids.  `DbInit` ends where they begin, with a finished file.  `Locking` has
a descriptor and an input as single values, and `Lookup` shows what the step that
looks one up in the other does inside; `Session` composes the mixin, registry,
manifests, scraping and queries into commands.

An operator or action with a suffix, `CreateTable_OneMore` next to `CreateTable`, is
a mistaken form of it, to which the properties are put: each run's properties are
violated by one.

### AttrTree

A locked flake never changes, so its attribute sets, its derivations, the sets
with `recurseForDerivations` and the sets with an attribute that throws are
constants.  `Kids` is the recursion rule of `PkgDb::scrape` (a derivation is a
package and is never recursed into), `Fails` its handling of evaluation errors (those outside `packages` are swallowed), and `Reach[q]` the
least set closed under `Kids` that holds `q`: what a scrape of `q` must visit.

### PkgDb

Contents are the rows, the marks and the packages; a row is named by its path.
`SetPrefixDone` keeps the join of the statement in the code: a top-level set, whose
parent is row 0, is not among the rows that are marked.
Ids and descriptions are in `Rows`.

### Scrape

| state | in the code |
|---|---|
| `db` | what is committed in the file |
| `dirty`, `writer` | the uncommitted pages and the connection that holds RESERVED |
| `shared` | the connections that hold SHARED across statements |
| `pc`, `req`, `todo` | where `scrapePrefix` is, its argument and `--force`, its queue |

| action | in the code |
|---|---|
| `Ask` | `pkgdb scrape`, or a prefix of `scrapeSystems()` |
| `Open` | `getDbReadWrite()`, whose statements change nothing in a file that exists but want a lock |
| `AddRow` | `addOrGetAttrSetId(AttrPath)`, one autocommitted insert at a time; any error is taken for "exists already" |
| `Clear` | `setPrefixDone(prefix, false)` of `--force` |
| `Check` | `completedAttrSet(prefix)` on the read-only connection, then the look into the flake |
| `Begin`, `SkipTarget`, `FillTarget`, `PassTarget`, `FailTarget`, `BusyTarget` | the transaction and the turns of its loop over `scrape()`, by outcome |
| `MarkDone`, `Commit` | `setPrefixDone(row, true)` and `txn.commit()`, whose result is ignored |
| `Crash` | the process dies, or a statement fails for another reason |
| `BeginRead`, `EndRead` | another process steps through the rows of a query |

SQLite is external and modelled from how the code uses it: rollback journal
(`journal_mode` is never set), deferred transactions, no busy handler.  One
statement inside a transaction is not a step of its own where the state it
reaches is visible to its own connection only: a turn of the loop is one step.
The rows of the prefix are one step each, for they are committed one by one.
The read of `completedAttrSet(AttrPath)`, which goes from ancestor to ancestor,
is one step: rows are never removed, and a mark that appears or is cleared in
mid-walk gives the result of one moment or of the other.  The queue is a set,
since the targets of one scrape are distinct and each is skipped or filled alike in
any order.

`shared` blocks writers in both of the ways SQLite does: an autocommitted write
and a commit need all other SHARED locks gone.  A process that is refused never
waits: the code sets no timeout.

### PrefixIndex

The abstract specification has only the contents.  `Reserve` adds a row on a
prefix's way in, `Publish` adds all a prefix's scrape can find together with
its mark, `Reseal` marks rows below a prefix that was completed meanwhile, and
`Retract` takes marks back.  `Scrape` implements it with `db` for `db`: `AddRow`
is `Reserve`, `Clear` is `Retract`, a successful `Commit` is `Publish` or
`Reseal`, and every other step changes nothing.

### Rows

| state | in the code |
|---|---|
| `file`, `dirty`, `writer` | the committed tables, what the writer sees, who it is |
| `work` | a scraper's stage, prefix, the row it has walked to, its queue of targets with their rows, the attributes left of a target |
| `reader` | the id a reader has in hand, the path it walks, what the id stood for (`want`, which no code has) |

| action | in the code |
|---|---|
| `Ask`, `AddOrGetAttrSetId`, `Unmark`, `CompletedAttrSet`, `Begin` | `scrapePrefix()` and `--force`, one attribute of a path at a time |
| `TakeTarget`, `ScrapeDrv`, `ScrapeSet`, `Pop` | `PkgDb::scrape()` of the front of the queue, one attribute at a time |
| `Finish`, `Crash` | `setPrefixDone( row )` and COMMIT; everything that rolls back |
| `Query`, `Lookup`, `Down`, `GetPackage`, `Up` | `getPackages()`, `pkgdb get id`, `get path`, `get pkg`, one SELECT at a time |

An id is one more than the greatest of its table, as SQLite gives them out, so
that a rolled-back transaction's ids are given out again.  `getPackage()` is one step:
its first statement is still active while `getPackagePath()` walks up, so that
all of it reads one snapshot.  The ids a reader uses are ones it was given:
`getPackage()` of an id that never was dereferences an empty result
(`src/pkgdb/read.cc:398`), which is left out.

### CacheFile and DbInit

| state | in the code |
|---|---|
| `disk` | the file at `dbPath`: tables, the rows of `DbVersions`, the release each view is of, whether `LockedFlake` has its row |
| `ours` | `sqlVersions` of the release a process runs |
| `stage`, `kind`, `next`, `after`, `seen` | where it is; a `PkgDbInput` or a `PkgDbMixin`; the next statement of the schema; what follows the constructor |
| `ro`, `was`, `rw` | its connections, and what they read once the file is gone from the path |
| `hurt` | no code has it: the file was left by one who died or failed while making it |

| action | in the code |
|---|---|
| `Start`, `Check`, `Open`, `OpenFails`, `ReadVersion`, `Remove`, `Recheck`, `RecheckFails` | `PkgDbInput::init()`, or `openDatabase()` of the mixin |
| `Connect`, `CreateTable`, `InitVersions`, `CompareViews`, `DropView`, `NoMoreViews`, `BumpVersion`, `CreateView`, `ViewsDone`, `WriteInput` | the constructor of `PkgDb`, one statement each |
| `OpenReadWrite`, `Return`, `Refused`, `Crash` | `getDbReadWrite()`; the end of a command; SQLITE_BUSY or a file that is gone; death anywhere |

A connection stays on the file it was opened on.  Another process may remove the
file, put a new one in its place, or migrate it, between any two statements.
`CacheFile` has three variables: the file is absent, partial or whole, and its
versions; it becomes whole in one step, and its views only get later.

### Vectors, Registry and Locks

`WithNew` is the one loop of `merge_vectors()` and `getOrder()`: it appends the
elements of a list that are not there yet, as a recursive function over the list.
`MergeRegistry`, `GetOrder` and `LockRegistry` are the functions of `registry.cc`
on a registry of names, references and a priority list.  `SameInput` is
`RegistryInput::operator==`, with the one fact about preferences that matters to
it: an input of a locked registry always names its subtrees, and an input made
from a locked package never does.

A descriptor is what it asks for (its six fields that the resolver only compares
and passes to a query are one value), its group, its systems, its priority and
whether it is optional.  `Offers[r][s]` is what revision `r` has a package for on
system `s`; `Found` is true if the packages of `r` on `s` are in a database as
well.  `CheckGroups`, `GroupIsLocked`, `UnlockedGroups`, `GroupInputs`,
`ResolvesIn`, `Resolved`, `Kept`, `CombinedRegistry` and `UnusedInputs` are the
functions their `map` entries name.  Two of them have an outcome the code leaves open:
`GroupInputs` is a set, for a group is an unordered map, and what
`removeUnusedInputs()` does after it has erased the element it goes on from is a
choice in `FinishLock`.  The priority list after that is not modelled:
`std::remove()` leaves its end unspecified, and nothing reads it from a lock.

### Locking

| state | in the code |
|---|---|
| `global`, `manifest`, `file` | the global manifest's registry, the manifest and the lockfile on disk |
| `head` | what every flake reference points to at the moment |
| `scraped` | the revisions and systems whose packages are in the cache |
| `pc`, `man`, `old`, `ups` | where the run is; its manifest, old lock and upgrades |
| `reg`, `dbs`, `made` | `combinedRegistryRaw`, whether `dbs` is there, `lockfileRaw->packages` |
| `sys`, `todo`, `failed`, `pkgs` | the locals of `lockSystem()` |

| action | in the code |
|---|---|
| `EditManifest`, `MoveRef`, `ClearCache` | the user, a push to a branch, `rm -r` of the cache |
| `StartLock` | a new `Environment`; the lock is checked, and if it is parsed from a file a null is refused.  The library is also given locks as objects and upgrades, as the tests do |
| `CombineRegistries` | `getCombinedRegistryRaw()`, the first thing `createLockfile()` calls |
| `StartSystem`, `ResolveGroup`, `FinishSystem` | `lockSystem()`: the groups to resolve, `tryResolveGroup()` of one, and the entries that are kept |
| `FinishLock` | `Lockfile`'s own check, `removeUnusedInputs()`, the output |
| `UpdateAll`, `UpdateInput` | `pkgdb manifest update`, with or without an input |

Runs of the resolver do not overlap (a lockfile is its user's), so that the world
changes between them; a run that has read its manifest and locked its references
does not look again.  Scraping is one step here, and succeeds: `Scrape` says
how.  The options of manifests are left out here, as they only narrow a query:
they are in `Lookup` and `Session`.

### Versions, PkgQuery, Descriptors, Inputs, Manifests

These are the functions of `versions.cc`, `pkg-query.cc`, `descriptor.cc`,
`registry.cc` and `manifest-raw.cc`, one module for each, over structures with
the code's fields.  A text is what the code can tell of it: a version is a
modifier, numbers, a wild card and a tag; a path is its parts and whether it was
a list.  JSON is a function from the names of members, `None` for null and
`Malformed` for a value of the wrong type; reading gives `Refused` where the
code throws.  The SQL that `PkgQuery::init()` puts together is modelled by what it
selects and how it orders, with the columns' collation: major, minor and patch
have no type and compare as texts.

### Lookup

| state | in the code |
|---|---|
| `entry`, `settings`, `string` | what was written: an entry and the `options` next to it, or a string |
| `manifest`, `desc`, `args`, `found` | `ManifestRaw`, `ManifestDescriptor`, `PkgQueryArgs`, the row |
| `stage`, `request` | how far it has come; the system, the input and the options |

`ReadManifest`, `ReadBack`, `MakeDescriptor`, `TryResolveIn` and `RunQuery` are the
steps from a manifest to a row in `Environment::tryResolveDescriptorIn()`, and
`Parse` and `PrintQuery` those of `parse descriptor`.  The properties do not use
the structures in between: `Wanted` tells from the entry itself which rows it asks for.
Entries, strings, options, registry and catalog are constants; `IsEntry`, `IsRow`
and the assumptions around them say which of them the program can meet (a member that
can be read is a value of its type, a row is as the scraper writes it).

### Session

| state | in the code |
|---|---|
| `command`, `given`, `phase` | the command, its options in their order, how far it has come |
| `mixin` | the members that options set |
| `env`, `registry`, `dbs`, `args`, `next` | `Environment`, `combinedRegistryRaw`, `dbs`, the query's arguments, the loop |
| `output`, `printed` | what search and update print |
| `files`, `cached` | the files, and what is scraped |
| `pins` | no code has it: what each input of a lock was last updated to |

| action | in the code |
|---|---|
| `GiveGARegistry` … `GiveDir`, `GiveQuery`, `GiveParams` | the actions of the parser's options, which read files at once |
| `InitEnvironment`, `GetEnvironment`, `GetCombinedRegistry` | `initEnvironment()`, `getEnvironment()`, `getCombinedRegistryRaw()` |
| `OpenRegistry`, `ScrapeInput`, `SearchInput` | `getPkgDbRegistry()`, and the loop of `search`, input by input |
| `Update` | `update` with a lock; without one it locks, which is `Locking` |
| `Fail`, `Save`, `Again` | an exception; the user saves what was printed; the next command, when references point elsewhere |

## 4. The runs

| run | what is checked | instance |
|---|---|---|
| `scrape_safety` | types, the inductive invariant, the reasons of marks, complete system prefixes, nothing half visible; as steps: the refinement, nothing lost, marks cleared only by `--force`, success means completed | 2 scrapers, 1 reader, 5 prefixes |
| `scrape_live` | every request returns | 2 scrapers, 1 reader, 2 prefixes |
| `rows_safety` | types and the inductive invariant, ids name paths everywhere, answers are right, committed ids keep their meaning, the tables implement `PrefixIndex` | 2 scrapers, 1 reader, 4 sets, 2 packages of one description, 2 prefixes |
| `scrape_ok` | refutes `include/flox/pkgdb/input.hh:185`: `scrapePrefix()` may return normally without having scraped | 1 scraper, 1 reader |
| `dbinit_safety` | types, `LockedFlake` is last, who is ready reads a compatible database, what is broken has a reason, no stale views; the refinement of `CacheFile` | 2 processes, 2 tables, 2 views, one release or two |
| `dbinit_migrated` | refutes `src/pkgdb/input.cc:78`: after a file with other tables was replaced, `init()` fails | 1 process, an outdated file |
| `lock_safety` | types, the inductive invariants of locks and of runs, one input per group, completeness, nothing unwanted; as steps: pins, stability, no group is given up that could be resolved | 2 install IDs, groups, systems, inputs, references and revisions, 6 manifests |
| `lock_readback` | refutes `docs/lockfile.md:29`: a lock with a null cannot be read | the same |
| `lock_others` | refutes the comment at `src/resolver/environment.cc:517`: the other inputs are not tried | the same |
| `lookup_safety` | the inductive invariant, what is found is wanted, nothing is missed, the best comes first, strings mean what entries mean, manifests survive being read back | 2 systems, 2 inputs, 18 versions and ranges, each field of an entry |
| `session_safety` | types and the inductive invariant, what is printed is wanted, nothing is left out, `--ga-registry` admits no other input, pins hold across commands | 2 commands, 3 options each, 2 inputs |
| `search_dir` | refutes `src/resolver/mixins.cc:318`: `search --dir` does not use the manifest of the directory | 1 command, 3 options |

`Scrape`, `Rows`, `DbInit` and `Locking` are bounded by nothing but their
constants: processes ask again and again, in any order, users edit, lock and
update again and again, and the reachable states are all explored.
`Session` bounds the options of a command (`MaxOptions`) and the commands
(`MaxSessions`); `Lookup` ends with its one lookup.  Those two and the runs that
share their modules do not check deadlock, for a command ends.

* **Scraping.**  The flake of `MCScrape` has two top-level sets: `legacyPackages` with a
  system that holds a set scraped by its name (`darwin`, in which an attribute
  throws), a set not recursed into, and in it one marked for recursion; and
  `packages` with a system in which an attribute throws, so that its scrape fails.
  One prefix asked for is not in the flake.  Five prefixes overlap in every way two can: equal,
  nested with recursion, nested without it, disjoint, absent.  Two scrapers are
  enough for the interesting interleavings because there is one RESERVED lock: a third scraper
  is to the first as the second.  `MCRows` needs a nested set, so that a
  prefix takes two targets, and two packages that share a description.
* **Creation.**  Two tables and two views give every statement a neighbour of its
  kind.  The deployments are two processes of one release, or of two that differ
  in the views or in the tables; the file is missing, or was made by an older,
  equal or newer release.
* **Locking.**  The six manifests of `MCLocking` differ in each of the ways
  `groupIsLocked()` tells apart: a member is added, asks for something else, is
  optional or not, moves to another group, changes its priority or its systems;
  the manifest's systems and inputs come and go.  Of the two revisions one offers
  less, and on one system less than on the other, so that resolution fails, falls
  through to the second input, and changes its outcome when a reference moves.
  `Upgrades` is nothing or one install ID; the proofs are for any.
* **Lookup.**  Rows differ in one field each; versions are whole, partial, with
  wild cards, dates, words, empty, of every modifier the code looks at, with tags,
  and with numbers of one and of two digits; options are absent, null, empty or
  set in each of the three places they are merged from.
* **Session.**  Three options are two that set the same thing and one that reads
  it; two commands are an update, whose print may be saved, and what reads it.
  Parameters name manifests by path and inline, with nulls and members missing.

Fairness: a scraper that is in a request keeps taking steps (weak fairness of its own
work, crashes excepted).  The code has no loop that waits, hence no fairness
between processes is assumed, and readers may read for ever.  Nothing of the kind is
claimed of the other modules: creation, locking, look-ups and commands are loops
over finite lists.

### What the runs show of the code

* The scrape of a prefix is atomic and nothing half-scraped is ever visible,
  although the look-up is made outside the transaction: `scrape()` looks again, by row.
* What search and the resolver rest on holds: a `<subtree>.<system>` prefix that is
  marked is complete.  README.md:153 says so of every marked set, which is not so.
  A nested set that is not recursed into gets a row by a scrape of its own;
  if that scrape fails, a scrape of the system marks the row and no later scrape
  visits it.
* A commit that is refused is not noticed.  `OkUnlessRefused` shows that this is
  the only way in which a success is not one.
* `--force` on a prefix below a completed one removes marks and scrapes nothing,
  although `src/pkgdb/scrape.cc:66` says that it forces a new evaluation:
  `completedAttrSet()` takes the mark above for its own.
* An id that was committed is for good.  What a search has in hand is right
  although it reads in several statements, because nothing is ever deleted and
  each transaction is seen whole.
* Several processes may create a database at once; all statements are idempotent,
  and who loses a race fails but leaves nothing that a reader takes for a
  database.  A crash leaves a file that exists and is not whole, and then nothing
  creates the rest: `BrokenIsExplained` says that this is the only way to one.
  Two releases that migrate the views at once may leave the older version last.
* After every change of the tables' version the first `init()` fails: the versions are read
  again from the removed file.
* A lock that is written is complete, has one input per group, and has what its
  manifest asks for, through any history of edits; locking again changes nothing.
  `Lockfile::checkGroups()` never finds a fault in what `createLockfile()` makes.
* A pin is final.  When a group cannot be resolved in the input it is pinned to, the
  loop over the registry tries no other: a new member that the pinned revision
  does not have makes locking fail, and neither `update` nor upgrading moves the
  group, for the pin is taken from the locked package and not from the registry.
  `PinsHold` holds for that reason.
* A pinned input is never scraped: without the cache its group cannot be resolved,
  although README.md:239 says that the cache may simply be deleted.  `GivesUpOnlyIfNowhere`
  says that this and a package its pin does not have are the only reasons to give up
  a pinned group.
* A lockfile with an unresolved optional package is refused by the next command.
* What an entry asks for reaches the query through all conversions.  Of
  comparable versions the best is found, if their numbers have as many digits: 9 sorts
  above 10, since the columns of `v_Semvers` are texts.  `latest` is taken for a
  range, and no version satisfies it.  A range that names a pre-release with an `x` in
  it, `~1.2.3-next.2`, is cut there and handed on as `~1.2.3-ne`: 1.2.3-next.1, which is
  below it, is found, although `include/versions.hh:121` speaks of the versions "which
  fall in the range".  `FoundIsWanted` therefore reads a range as `cleanRange()` leaves
  it (`src/versions.cc:215`), and says nothing of the range as it was written.
  `package-repository` of an entry is read and written, and nothing uses it
  (`src/resolver/descriptor.cc:736`).  An empty version, a range by the comment at
  `descriptor.cc:134`, ends the look-up in an exception at `:719`, and an absolute path
  whose system is one of several is accepted by one check and refused by the next;
  the properties speak of the look-ups that go on.
* What a search prints is what its options ask for, in any order of theirs, but
  for the manifest in the directory of `--dir`, which is read and then replaced.

Where documents and code disagree on what is asked for, the properties follow the
code, and these are the places:

| what is said | what the code does | so that |
|---|---|---|
| `docs/manifests.md:106` and `include/flox/resolver/descriptor.hh:59,218,225`: an entry's `name` also matches the `name` of a package (`hello-2.12.1`) | `pnameOrAttrName` is compared with `pname` and `attrName` only (`src/pkgdb/pkg-query.cc:204`), as `pkg-query.hh:88` says | `Wanted` of `Lookup` has these two: `NothingMissed` does not count a package missed that the entry names by its whole `name` alone, and such an entry finds nothing |
| `docs/search.md:34` and `:38`: `match-name` and `match` also match `name` | `pname` and `attrName`, and for `match` the description (`pkg-query.cc:219`), as `pkg-query.hh:82-85` and the help of the two options say (`src/search/command.cc:91-100`) | `NothingLeftOut` does not promise a row that matches by its whole `name` alone; `search` never prints it |
| `docs/manifests.md:117`: an entry without `systems` is resolved on the current system only | it is resolved on all systems of the manifest's options (`src/resolver/environment.cc`, `getSystems()`, `createLockfile()`) | `NothingMissing` of `Locking` and `Wanted` of `Lookup` take those systems |
| `include/flox/resolver/environment.hh:331`: the registry of the manifest clobbers all others | inputs that the lock has replace those of the manifest (`src/resolver/environment.cc:70`), as `tests/ga-registry.bats:202` expects | `PinsHold` of `Session` says the opposite of that comment |
| `docs/manifests.md:39`: `unfree` is `false` by default | it is `true` (`include/flox/pkgdb/pkg-query.hh:102`) | both `Wanted` take `true` |
| `include/versions.hh:121`: versions in the range | versions in what `cleanRange()` leaves of it | see above |

## 5. The proofs

`Scrape_proofs` proves, for every flake that satisfies `FlakeAssumption`, any
number of scrapers and readers, and any requests of at least two attributes:

| theorem | statement |
|---|---|
| `ScrapeInvariant` | `Spec => []ScrapeInv` |
| `ScrapeTypes`, `ScrapeIsSound` | the type invariant; the four invariants of the contents |
| `ScrapeRooted`, `ScrapeExplainsMarks`, `ScrapeShowsWhole` | three of these by themselves |
| `ScrapeImplementsIndex` | `Spec => Index!Spec` |
| `ScrapeLosesNothing`, `ScrapeMarksOnlyForced`, `ScrapeOkUnlessRefused` | the action properties |
| `IndexIsSound` | of the abstract specification by itself: `Index!Spec` keeps the contents sound |

The invariants of the contents are not inductive: a commit replaces the file by
`dirty`, of which they say nothing.  `ScrapeInv` adds

* `LocksHeld`: who is in a transaction holds SHARED, who is about to commit holds
  RESERVED, and without a writer nothing is uncommitted.  From this follows that
  nobody else writes while a transaction is open, which makes the rest stable;
* `WayIn(p)`: what the process has established before its transaction (the prefix
  is in the flake, its row is in the table);
* `TxnOnTrack(p)`: `Scraping(D, q, T)`, the loop invariant.  What is left of
  `Reach[q]` is reached from the queue `T`, and what the transaction has added lies
  within `Reach[q]`.  The hard part is `SkipTarget`, which skips a target because
  it is done.  A mark may be inherited from the set above, and then the set need not
  be scraped; but a target was pushed by a parent that was *not* done, so its
  mark is its own, and `MarksExplained` says it is fully scraped.  At the end of the queue
  the contents are exactly `Filled(db, q)`, and the commit is `Publish(q)`.

`Sound` is preserved by each operation of `PkgDb` alone (`AddKeepsSound`,
`FillKeepsSound`, `MarkKeepsSound`, `ClearKeepsSound`); the abstract and the
detailed specification share these lemmas.  The lemmas about `Reach` (that it
holds `q`, is closed, is least, and splits into `q` and the reaches of its kids)
follow from its definition as an intersection, without induction.

`Rows_proofs` proves every property of `rows_safety`, for every flake and any number
of scrapers and readers:

| theorem | statement |
|---|---|
| `RowsInvariant`, `RowsTypes` | `Spec => []RowsInv`; the type invariant |
| `RowsNamePaths` | `Spec => []IdsNamePaths` |
| `RowsAnswerRight` | `Spec => []AnswersAreRight` |
| `CommittedIdsStay` | `Spec => IdsKeepMeaning` |
| `RowsAreAnIndex` | `Spec => Index!Spec`, the refinement of `PrefixIndex` |

All of them rest on what path an id has, which `getAttrSetPath()` finds by walking
up and the model by the recursive function `AttrSetPaths`.  `WellFormed` has what
makes that walk end: ids are `1..k`, and a row's parent is row 0 or a row before
it.  By induction over ids, with the least id for which a claim fails in place of
an induction theorem (`LeastNatural`), the function exists, gives each row a path,
and gives different rows different ones.  `RowsInv` then says

* of the tables: they are `WellFormed`, what is committed is `Sound` when read as
  paths (the invariant of `PrefixIndex`), and `dirty` extends `file`
  (`WriterExtends`), so that ids in hand stay good when others commit;
* of a scraper, `OnItsWay`: the row it has walked to is that of the part of
  its prefix behind it; and `TxnOnTrack`: its queue and the attributes left of its
  target are, read as paths, in the middle of the same loop as in `Scrape`
  (`Underway`), so that at COMMIT the tables are `Filled`;
* of a reader, `ReadsRight`: the id it has is on the way to what it asked for, if that was
  there when it asked.

`Keeps` is proved for each action: it keeps `RowsInv`, makes `file` only grow, and is
on the index of paths the step `PrefixIndex` has, or none.

`DbInit_proofs` proves every property of `dbinit_safety`, for any number of
processes, any deployment of releases, and any number of tables and views:

| theorem | statement |
|---|---|
| `DbInitInvariant`, `DbInitTypes` | `Spec => []InitInv`; the type invariant |
| `FlakeIsLast` | `Spec => []LockedFlakeIsLast` |
| `ReadyReads` | `Spec => []ReadyIsCompatible` |
| `FileImplementsCache` | `Spec => Cache!Spec`, the refinement |
| `BrokenHasReason` | `Spec => []BrokenIsExplained` |
| `ViewsAreFresh` | `Spec => []NoStaleViews` |

What a process writes depends on what the others have left, so no property is
inductive.  `InitInv` adds to the types what each writer has established by its
stage (`WriterOK`: which tables and versions are there) and what holds of a file
without one (`FileOK`); both are stable, since statements only add tables, the
version of the tables never changes, and `Remove` takes all connections to the file along.
The others are built on it:

* `ReaderOK(p)`: a connection is on a finished file, at the path or gone
  from it; and once `init()` has compared the versions, on one of the process's
  own release.  A finished file stays one (`FileKept`).
* `ViewsBehind`: while one release is in use, who replaces the views has not
  been overtaken, which makes `BumpVersion` an `Upgrade` of the abstract file.
* `Answered`: for each thing that is missing there is a process which still
  comes to it, or `hurt`.
* `FreshViews`: views of a later release are all there, since nobody drops them; a
  process defines its views under a version that is not older than its own.

`Locking_proofs` proves, for any sets of manifests, registries, revisions and
offers:

| theorem | statement |
|---|---|
| `LockingInvariant`, `LockingTypes` | `Spec => []LockingInv`; the type invariant |
| `LocksAreRight`, `RunsAreWhole` | its two halves, `LockInv` of locks and `RunInv` of runs |
| `GroupsShare`, `NothingIsMissing`, `LockedIsWanted` | the invariants of locks |
| `PinsAreKept`, `RelockingIsStable`, `NothingPassedOver` | the action properties |

The invariants speak of the lock on disk, which the new one replaces: `LockInv`
adds that the old lock is right (`RightLock`), that the systems already made are
(`MadeRight`), and that within a system the entries of the groups already settled
are right, share their group's input and hold its pin, while there are none of the
others (`Right(man, sys, Settled, pkgs)`).  `KeptIsRight` shows that what
`groupIsLocked()` compares is enough to copy an entry under a new descriptor;
`ResolvedIsRight` is about a group that is resolved; `StayedMembersPin` says that the
members that stayed in a group agree on its pin, because the old lock was right;
and `NothingPassesAfterAPin` that nothing is tried after it.

`RunInv` is what a run relies on between its steps: once its databases are open, each
input of its registry is scraped for each system of its manifest, and a group
that is yet to be resolved has no entry.  `NothingPassedOver` needs it: a group
is given up only if nothing the loop tries has it in the cache.  The types rest
on `WithNewIsList` (in `Vectors_proofs`): what the loop of `merge_vectors()`
returns is a list of elements of both, which has all of them and none twice.

`Session_proofs` proves, for any files, parameters and options in any order, any
registries, packages and references, any number of commands, and anything that was
scraped before:

| theorem | statement |
|---|---|
| `SessionInvariant`, `SessionTypes` | `Spec => []SessionInv`; the type invariant |
| `OnlyWantedIsPrinted`, `SearchIsComplete` | `Spec => []PrintedIsWanted`, `Spec => []NothingLeftOut` |
| `GARegistryIsUsed` | `Spec => []GARegistryOnly` |
| `LockPinsHold` | `Spec => []PinsHold` |

A command is a pipeline, and `SessionInv` says of each structure what function of the
one before it is: `OptionsInv`, `MixinInv` (the mixin's members, from the options
given and the files), `EnvironmentInv` (the environment, from the mixin),
`RegistryInv` (the combined registry, its inputs, a printed lock), `SearchInv`
(arguments, what is scraped, what is printed).  The properties do not speak of these
functions but of the options and the JSON itself.  `Means(o, j)` ties the two together: the
structure `o` holds what the JSON `j` says; reading makes it so (`ManifestRead`,
`LockRead`), initialising keeps it, and merging three of them gives the setting that
`Setting` looks up (`MergedOptions`, `CombinedArgs`).  `Executed` then says that what a
query selects is what `Wanted` asks for, and `FilledAgain` that the structure of
arguments filled again for the next input is the same.  The last option that sets
a field of the query wins: `AskedAppended` follows `AskedFor` through one more option.
`PinsInv` is about all locks on disk, whether a command reads them or not: the input
that a pin is for is in the lock at that revision.  `UpdatePins` shows that an update
keeps it so: what is read from a lock that was written is what was written
(`WrittenLock`, `WrittenRegistry`), the updated input is where its reference points now,
and the others are those of the lock that was read.

`Lookup_proofs` proves every property of `lookup_safety`, for any entries, strings,
options, registry and catalog:

| theorem | statement |
|---|---|
| `LookupInvariant` | `Spec => []LookupInv`, the type invariant in it |
| `FoundPackagesAreWanted`, `NothingIsMissed` | `Spec => []FoundIsWanted`, `Spec => []NothingMissed` |
| `BestComesFirst` | `Spec => []BestFirst` |
| `StringFormsAgree` | `Spec => []StringFormAgrees` |
| `ReadingBackKeeps` | `Spec => SurvivesReadingBack` |

The properties say what is found of what was written, and are not inductive: of the
structures in between they say nothing.  `LookupInv` says what each of these is a
function of: `ManifestInv`, `DescriptorInv`, `QueryInv`, `FoundInv`.  The one that is not
plain is `ManifestInv`: a manifest may have gone through a lockfile, which makes null of
an entry without fields.  `ManifestKept` shows that reading what was written gives the
manifest up to that, member by member and, in `OptionsKept`, section by section;
`NulledDescriptor` that the two make the same descriptor.  Then

* `DescriptorIsAsked` and `QueryIsAsked` tell the descriptor and the arguments of the
  query from the entry (`IsAsked`, `IsQuery`) as `Wanted` does: name, version or range
  (`ExactOf`, `RangeOf`), the parts of a path (`Parts`), subtree and systems of an
  absolute one, options setting by setting (`CombinedArgs`);
* `PlaceIsFound`, `VersionIsFound` and with them `SelectedIsWanted` say that a row is
  selected, and in the range, exactly if it is wanted.  The list of systems is where
  the two differ most: the code narrows it by an absolute path, skips systems that are
  not in it and overwrites it, and all this comes to what the entry says.
  `FoundIsWanted` is one half of this;
* for the other half, that a query which keeps a row has a first one, the order has to
  be strict.  Each of the 21 criteria is a comparison of which the first of two that
  are not zero decides (`Chain`: numbers, texts, texts with nulls last, tags);
  concatenation keeps that (`ChainedConcat`), so that `Before` is transitive and
  irreflexive (`OrderIsChained`) and has a least element in a finite set
  (`LeastOfFinite`);
* rivals are alike in all criteria before those of versions (`RivalsMatch`), so that
  these decide (`VersionsDecide`): a release comes first (`ReleaseFirst`), and so does
  the newer version (`NewerFirst`), because numbers of as many digits are in the order
  of their texts (`DigitsInOrder`);
* `StringIsEntry` follows a string and the entry with the same fields through the two
  parsers of attribute paths; what matters is that splitting the parts that a split
  has left changes nothing (`SplitIsWritten`, `FrontIsWritten`).

What follows from `SessionInvariant` or `LookupInvariant` has the hypothesis
`MarkersAreAtoms`: null, a wrong type and an exception are not functions, hence are
confused with no object, structure or list (and in `Lookup`, null is no subtree).  They
are model values, of which that is so; it is a hypothesis and not an assumption of the
module because its quantifier is unbounded.

Assumptions, each of which TLC evaluates in a run:

* databases: `PathsAssumption`, `FlakeAssumption` (paths are prefix-closed, constants
  are what their names say), `RequestedAssumption` (requests have two attributes
  or more: `fixupAttrPath` and `scrapeSystems` make them so), `RowsAssumption` (the same
  for rows; the marker for nothing is no id and no process);
* creation: `DbInitAssumption` (there is a table, and releases number their
  schemas from 1), `OldFilesAssumption` (what is at the path at first is nothing, or
  a database some release has finished);
* locks: `LocksAssumption` of `Locks`, `LexAssumption` (constants are what their names
  say), `MarkersAssumption` of `Locks`, `AbsentAssumption` (the markers for what is absent or
  null are none of the values), `ManifestsAssumption` of `Locking` (every name in a
  priority list has an input; the code dereferences an end iterator where one has
  not, `include/flox/registry.hh:487`);
* commands: `MarkersAssumption` of `Descriptors` (the three markers differ),
  `LexicalAssumption` (the order of names has each once), `GARegistryAssumption` (the
  hard coded registry is a registry, with its inputs in its priorities),
  `ManifestsAssumption` of `Session` (priority lists, as above), `PointsAssumption` (every
  command finds the same references, which point to revisions, and a
  revision is not a reference that points elsewhere), `LocksAssumption` of `Session` (a lock that
  is there at first has locked references);
* look-ups: `VersionsAssumption` (numbers are below 100, tags are numbered, no tag stays
  none), `EntriesAssumption`, `StringsAssumption` and `OptionsAssumption` (a member that can
  be read is of its type, no marker is among the strings, the manifests merged before were
  accepted), `RegAssumption` (preferred subtrees are a list of the two), `CatalogAssumption`
  (finitely many rows as the scraper writes them, whose names have a place in the order of
  texts; null is no row).

Only model-checked:

* `RequestsReturn`: liveness under fairness is beyond TLAPS;
* the five claims of the code or its documentation that fail, each refuted by a run;
* `RangeExamples` of `MCLookup`, what node-semver's own documentation says of the
  operator that stands for it.

## 6. Not modelled

* **The Nix evaluator, fetching and flakes**: a locked flake is a constant tree, a
  fetch succeeds or ends the command.
* **SQLite**: external; its locks, ids, rollback and collation are modelled as the code
  relies on them.  The text of queries is not, only what they select.
* **node-semver**: external, modelled for the ranges that `CleanRange` can produce
  from the texts of the instances.
* **A second `createLockfile()`** of one `Environment` after a failure, and setters
  of the mixin after initialisation: no command makes such calls.
* **The `info` of a locked package** and the lockfile's version: copied and printed.
* **`hook`, `vars`, `env-base`** of a manifest beyond reading and writing.
* **`pkgdb get flake`, `get db`, `list`, `manifest diff`**: they print what is there.
* **CLI parsing, logging, texts of exceptions, TOML and YAML, the REPL, the primops**:
  no state, and no property here is about their format.

What is left to add is composition: a larger `Session`, in which `lock` is a command
next to the other three, would meet `Locking` through the lockfile, and `Lookup` could
be shown to implement the one step in which `Locking` looks a descriptor up.
