------------------------------ MODULE Session ------------------------------
(***************************************************************************)
(* Commands on an environment: EnvironmentMixin (resolver/mixins.cc) and   *)
(* the commands search, registry and update that are made of it.           *)
(*                                                                         *)
(* A command is given options in any order, each of which may read a file; *)
(* run() then builds the environment lazily from what the options left     *)
(* behind.  A search scrapes the inputs of the combined registry one by    *)
(* one and queries them one by one.  A lock that an update has printed may *)
(* be saved in place of the old one and read by the next command, when the *)
(* references of its registry point elsewhere.                             *)
(***************************************************************************)
EXTENDS Manifests

CONSTANTS
    Options,        \* Options[flag]: the values an option may be given
    Files0,         \* the files: a path is a directory and a name
    Points,         \* Points[session][ref]: where a reference points
    FlakeSubtrees,  \* FlakeSubtrees[rev]: the one getSubtrees() finds
    Packages,       \* Packages[rev]: the rows of a whole flake
    Cached0,        \* what other commands may have scraped already
    MaxOptions, MaxSessions

Values(flag) == IF flag \in DOMAIN Options THEN Options[flag] ELSE {}

\* A reference points to a revision, which stands for itself.
ASSUME PointsAssumption ==
    /\ MaxSessions \in Nat \ {0}
    /\ \A s, t \in 1..MaxSessions : \A ref \in DOMAIN Points[s] :
           ref \in DOMAIN Points[t] /\ Points[s][ref] \notin DOMAIN Points[t]

VARIABLES
    session,    \* the number of the command
    command,    \* which one it is
    phase,      \* how far it has come
    given,      \* the options it was given, in their order
    mixin,      \* the fields of the command that options set
    env,        \* the environment, once it is initialised
    registry,   \* its combined registry, once it is
    dbs,        \* the inputs of its database registry, once it is open
    args,       \* the query arguments of a search
    next,       \* the next input to scrape or to query
    output,     \* what a search has printed: pairs of a name and rows
    printed,    \* the lock an update has printed
    cached,     \* what is scraped: a revision, a subtree and a system
    files,
    pins        \* what the inputs in a lock's file were last updated to

commandVars == <<command, given, mixin, env, registry, dbs, args, next, output, printed>>
vars == <<session, phase, commandVars, cached, files, pins>>

QueryFields == {"name", "pname", "version", "semver", "partialMatch", "partialNameMatch"}

Accepted ==
    [search |-> {"gaRegistry", "params", "dir"} \cup QueryFields,
     registry |-> {"gaRegistry", "globalManifest", "lockfile", "manifest"},
     update |-> {"gaRegistry", "globalManifest", "lockfile", "manifest", "input"}]

NoParams == [globalManifest |-> None, manifest |-> None, lockfile |-> None,
             query |-> [f \in QueryFields |-> None]]

NewMixin == [gaRegistry |-> FALSE, params |-> NoParams, globalManifest |-> None,
             manifest |-> None, lockfile |-> None, input |-> None]

Fresh ==
    /\ phase = "options" /\ given = <<>> /\ mixin = NewMixin
    /\ env = None /\ registry = None /\ dbs = None /\ args = None /\ next = 1
    /\ output = <<>> /\ printed = None

(***************************************************************************)
(* Files.                                                                  *)
(***************************************************************************)
Exists(path) == path \in DOMAIN files /\ files[path] # None

\* readManifestFromPath().
ManifestFile(path, kind) ==
    IF Exists(path) THEN ManifestFromJSON(files[path], kind) ELSE Refused

\* LockfileRaw, its packages left out: a member that is missing is empty.
LockMemberFromJSON(f, json) ==
    IF f = "manifest" THEN ManifestFromJSON(json, Manifest) ELSE RegistryFromJSON(json)

LockOf(read) ==
    IF read = Refused THEN Refused
    ELSE [manifest |-> Or(read.manifest, EmptyManifest(Manifest)),
          registry |-> Or(read.registry, NoRegistry)]

LockFromJSON(json) ==
    LockOf(ReadObject(json, {"manifest", "registry"}, LockMemberFromJSON))

LockToJSON(lock) ==
    [manifest |-> ManifestToJSON(lock.manifest), registry |-> RegistryToJSON(lock.registry)]

LockFile(path) == IF Exists(path) THEN LockFromJSON(files[path]) ELSE Refused

(***************************************************************************)
(* The first command.  What the locks that are there pin is locked.        *)
(***************************************************************************)
LockPaths == {path \in DOMAIN Files0 : path[2] = "manifest.lock"}

\* The reference of an input in a lock's file.
PinOf(json, name) ==
    LET lock == LockFromJSON(json)
    IN  IF lock = Refused \/ name \notin DOMAIN lock.registry.inputs THEN None
        ELSE lock.registry.inputs[name].from

ASSUME LocksAssumption ==
    \A path \in LockPaths, n \in Range(Lexical), s \in 1..MaxSessions :
        PinOf(Files0[path], n) \notin DOMAIN Points[s]

Init ==
    /\ session = 1 /\ command \in DOMAIN Accepted /\ Fresh
    /\ cached \in Cached0
    /\ files = Files0
    /\ pins = [path \in LockPaths |-> [n \in Range(Lexical) |-> PinOf(Files0[path], n)]]

(***************************************************************************)
(* Options.  Each sets fields of the command or fails; none may be given   *)
(* twice.                                                                  *)
(***************************************************************************)
Give(flag, value, new) ==
    /\ phase = "options" /\ Len(given) < MaxOptions
    /\ flag \in Accepted[command]
    /\ \A i \in DOMAIN given : given[i].flag # flag
    /\ given' = Append(given, [flag |-> flag, value |-> value])
    /\ IF new = Refused THEN phase' = "failed" /\ UNCHANGED mixin
       ELSE mixin' = new /\ UNCHANGED phase
    /\ UNCHANGED <<session, command, env, registry, dbs, args, next, output, printed,
                   cached, files, pins>>

With(field, value) == IF value = Refused THEN Refused ELSE [mixin EXCEPT ![field] = value]

GiveGARegistry == Give("gaRegistry", TRUE, With("gaRegistry", TRUE))

GiveGlobalManifest(path) ==
    Give("globalManifest", path, With("globalManifest", ManifestFile(path, GlobalManifest)))

GiveManifest(path) == Give("manifest", path, With("manifest", ManifestFile(path, Manifest)))

GiveLockfile(path) == Give("lockfile", path, With("lockfile", LockFile(path)))

GiveInput(name) == Give("input", name, With("input", name))

GiveQuery(field, value) ==
    Give(field, value, [mixin EXCEPT !.params.query[field] = value])

\* --dir: the lock if there is one, and the first manifest there is.
ManifestNames == <<"manifest.json", "manifest.toml", "manifest.yaml">>

ManifestIn(dir) ==
    LET there == SelectSeq(ManifestNames, LAMBDA n : Exists(<<dir, n>>))
    IN  IF there = <<>> THEN Refused ELSE ManifestFile(<<dir, there[1]>>, Manifest)

FromDir(dir) ==
    LET path == <<dir, "manifest.lock">>
        lock == IF Exists(path) THEN LockFile(path) ELSE mixin.lockfile
    IN  IF Refused \in {lock, ManifestIn(dir)} THEN Refused
        ELSE [mixin EXCEPT !.lockfile = lock, !.manifest = ManifestIn(dir)]

GiveDir(dir) == Give("dir", dir, FromDir(dir))

(***************************************************************************)
(* SearchParams.  A manifest or lockfile is a path, [at |-> path], or its  *)
(* contents, [raw |-> JSON].  Members that are missing keep their value;   *)
(* null clears it, but not that of a query's field.                        *)
(***************************************************************************)
Contents(f, json) ==
    IF f = "lockfile" THEN LockFromJSON(json)
    ELSE ManifestFromJSON(json, IF f = "manifest" THEN Manifest ELSE GlobalManifest)

\* The priorities of a manifest's registry name inputs that it has.
WellOrderedIn(f, json) ==
    LET m == Contents(f, json)
    IN  m # Refused /\ Has(m, "registry") => WellOrdered(m.registry)

ASSUME ManifestsAssumption ==
    \A f \in {"globalManifest", "manifest"} :
        /\ \A path \in DOMAIN Files0 : WellOrderedIn(f, Files0[path])
        /\ \A json \in Values("params") \ {Malformed} :
               f \in DOMAIN json /\ json[f] # None /\ "at" \notin DOMAIN json[f]
               => WellOrderedIn(f, json[f].raw)

SourceFromJSON(f, json) ==
    IF json = None \/ "at" \in DOMAIN json THEN json
    ELSE IF Contents(f, json.raw) = Refused THEN Refused ELSE [raw |-> Contents(f, json.raw)]

QueryFromJSON(json) ==
    LET read == ReadPlain(json, QueryFields)
    IN  IF read = Refused THEN Refused ELSE MergeFields(mixin.params.query, read)

ReadParam(f, json) == IF f = "query" THEN QueryFromJSON(json) ELSE SourceFromJSON(f, json)

GiveParams(json) ==
    LET read == ReadObject(json, DOMAIN NoParams, ReadParam)
    IN  Give("params", json,
             IF read = Refused THEN Refused
             ELSE [mixin EXCEPT !.params = Overlay([f \in DOMAIN json |-> read[f]], @)])

(***************************************************************************)
(* The environment.  search sets what its parameters name, the manifest    *)
(* whether they name one or not.                                           *)
(***************************************************************************)
FromSource(f) ==
    LET source == mixin.params[f]
    IN  IF "at" \notin DOMAIN source THEN source.raw
        ELSE IF Exists(source.at) THEN Contents(f, files[source.at]) ELSE Refused

SourceOr(f, default) == IF mixin.params[f] = None THEN default ELSE FromSource(f)

SetAll(global, own, lock) ==
    IF Refused \in {global, own, lock} THEN Refused
    ELSE [mixin EXCEPT !.globalManifest = global, !.manifest = own, !.lockfile = lock]

SetFromParams == SetAll(SourceOr("globalManifest", mixin.globalManifest),
                        SourceOr("manifest", EmptyManifest(Manifest)),
                        SourceOr("lockfile", mixin.lockfile))

\* An exception ends the command.
Reach(from, to, result) ==
    /\ phase = from
    /\ phase' = IF result = Refused THEN "failed" ELSE to

\* The parser is done; the other commands require a manifest.
InitEnvironment ==
    \E result \in {IF command = "search" THEN SetFromParams
                   ELSE IF mixin.manifest = None THEN Refused ELSE mixin} :
        /\ Reach("options", "environment", result)
        /\ mixin' = IF result = Refused THEN mixin ELSE result
        /\ UNCHANGED <<session, command, given, env, registry, dbs, args, next, output,
                       printed, cached, files, pins>>

\* initGlobalManifest(), initManifest(), and a mutant that does not insist on
\* the GA form.
Initialised_AnyRegistry(manifest) ==
    IF ~mixin.gaRegistry THEN manifest
    ELSE [manifest EXCEPT !.registry = Or(@, GARegistry)]
Initialised(manifest) ==
    IF ~mixin.gaRegistry THEN manifest
    ELSE IF ToGA(manifest) = Refused THEN Refused
    ELSE [manifest EXCEPT !.registry = Or(@, GARegistry)]

EnvironmentOf ==
    LET global == IF mixin.globalManifest = None THEN None ELSE Initialised(mixin.globalManifest)
        own == Initialised(mixin.manifest)
        lock == mixin.lockfile
    IN  IF \/ Refused \in {global, own}
           \/ EnvironmentManifest(own) = Refused
           \/ lock # None /\ EnvironmentManifest(lock.manifest) = Refused
        THEN Refused
        ELSE [global |-> global, manifest |-> own, lock |-> lock]

BaseArgs(e) ==
    ArgsOf(CombinedOptions(Field(e.global, "options"),
                           IF e.lock = None THEN None ELSE e.lock.manifest.options,
                           e.manifest.options))

GetEnvironment ==
    LET result == EnvironmentOf
    IN  /\ Reach("environment", "ready", result)
        /\ env' = IF result = Refused THEN None ELSE result
        /\ args' = IF result = Refused \/ command # "search" THEN None ELSE BaseArgs(result)
        /\ UNCHANGED <<session, command, given, mixin, registry, dbs, next, output, printed,
                       cached, files, pins>>

(***************************************************************************)
(* The combined registry.                                                  *)
(***************************************************************************)
\* A locked reference stands for itself.
Target(ref) == IF ref \in DOMAIN Points[session] THEN Points[session][ref] ELSE ref

SubtreesOf(input) == Or(input.subtrees, FlakeSubtrees[Target(input.from)])

\* lockRegistry(): what is opened, at the revisions its references point to.
LockRegistry(reg) ==
    LET Locked(name) ==
            LET filled == [reg.inputs[name] EXCEPT !.subtrees = PreferredSubtrees(reg, name)]
            IN  [subtrees |-> SubtreesOf(filled), from |-> Target(filled.from)]
    IN  IF Opened(reg) = Refused THEN Refused
        ELSE [reg EXCEPT !.inputs = [n \in DOMAIN reg.inputs |-> Locked(n)]]

\* The inputs that the lock has are taken from it (environment.cc:70).  The
\* comment at environment.hh:331 has the manifest override them.
Pinned(reg, lock) ==
    IF lock = None THEN reg
    ELSE [reg EXCEPT !.inputs = [n \in DOMAIN @ |-> IF n \in DOMAIN lock.registry.inputs
                                                    THEN lock.registry.inputs[n] ELSE @[n]]]

CombinedRegistryOf(e) ==
    LET own == LockRegistry(RegistryOfManifest(e.manifest))
        global == IF e.global = None THEN own ELSE LockRegistry(RegistryOfManifest(e.global))
    IN  IF Refused \in {own, global} THEN Refused
        ELSE Pinned(IF e.global = None THEN own ELSE MergeInputs(global, own), e.lock)

\* getCombinedRegistryRaw(), of search and registry, which prints it.
GetCombinedRegistry ==
    /\ command \in {"search", "registry"}
    /\ LET result == CombinedRegistryOf(env)
       IN  /\ Reach("ready", IF command = "search" THEN "combined" ELSE "done", result)
           /\ registry' = IF result = Refused THEN None ELSE result
    /\ UNCHANGED <<session, command, given, mixin, env, dbs, args, next, output, printed,
                   cached, files, pins>>

(***************************************************************************)
(* update.  Without a lock it makes one, which module Locking models.      *)
(***************************************************************************)
\* Mutant: one input's update updates them all.
UpdatedRegistry_All(old, new, name) == new
UpdatedRegistry(old, new, name) ==
    IF name = None THEN new
    ELSE IF name \notin DOMAIN new.inputs THEN Refused
    ELSE [new EXCEPT !.inputs = Overlay([n \in {name} |-> @[n]], old.inputs)]

Update ==
    /\ command = "update" /\ env # None
    /\ LET own == LockRegistry(RegistryOfManifest(env.manifest))
           result == IF env.lock = None THEN None
                     ELSE IF own = Refused THEN Refused
                     ELSE UpdatedRegistry(env.lock.registry, own, mixin.input)
       IN  /\ Reach("ready", IF env.lock = None THEN "locking" ELSE "done", result)
           /\ printed' = IF result \in {None, Refused} THEN None
                         ELSE LockToJSON([env.lock EXCEPT !.registry = result])
    /\ UNCHANGED <<session, command, given, mixin, env, registry, dbs, args, next, output,
                   cached, files, pins>>

(***************************************************************************)
(* search.  getPkgDbRegistry() opens the inputs in their order, then       *)
(* scrapes each for the systems of the manifest; run() queries each with   *)
(* the one structure of arguments.                                         *)
(***************************************************************************)
OpenRegistry ==
    LET result == Opened(registry)
    IN  /\ Reach("combined", "scraping", result)
        /\ dbs' = IF result = Refused THEN None ELSE result
        /\ UNCHANGED <<session, command, given, mixin, env, registry, args, next, output,
                       printed, cached, files, pins>>

RevOf(i) == Target(dbs[i][2].from)

\* scrapeSystems(), and a mutant that scrapes for this system alone.
PrefixesOf_ThisSystem(i) ==
    {<<RevOf(i), subtree, ThisSystem>> : subtree \in ToSet(SubtreesOf(dbs[i][2]))}
PrefixesOf(i) ==
    {<<RevOf(i), subtree, system>> :
        subtree \in ToSet(SubtreesOf(dbs[i][2])), system \in ToSet(SystemsOf(env.manifest))}

ScrapeInput ==
    /\ phase = "scraping"
    /\ IF next \in DOMAIN dbs
       THEN cached' = cached \cup PrefixesOf(next) /\ next' = next + 1 /\ UNCHANGED phase
       ELSE next' = 1 /\ phase' = "querying" /\ UNCHANGED cached
    /\ UNCHANGED <<session, command, given, mixin, env, registry, dbs, args, output, printed,
                   files, pins>>

\* SearchQuery::fillPkgQueryArgs(), and a mutant that forgets a field.
FillFromQuery_NoNameMatch(query, filled) == Overlay([query EXCEPT !.partialNameMatch = None], filled)
FillFromQuery(query, filled) == Overlay(query, filled)

\* The rows of an input's database; without a prefix its rows are missing.
Visible(rev) == {row \in Packages[rev] : <<rev, row.subtree, row.system>> \in cached}

SearchInput ==
    /\ phase = "querying"
    /\ IF next \notin DOMAIN dbs THEN phase' = "done" /\ UNCHANGED <<args, next, output>>
       ELSE LET filled == FillFromQuery(mixin.params.query, args)
            IN  /\ args' = filled
                /\ IF ValidArgs(filled)
                   THEN /\ output' = Append(output,
                                 <<dbs[next][1], Execute(Visible(RevOf(next)), filled)>>)
                        /\ next' = next + 1 /\ UNCHANGED phase
                   ELSE phase' = "failed" /\ UNCHANGED <<next, output>>
    /\ UNCHANGED <<session, command, given, mixin, env, registry, dbs, printed, cached,
                   files, pins>>

\* Fetching, evaluating or a database may fail at any time.
Fail ==
    /\ phase \in {"ready", "combined", "scraping", "querying"}
    /\ phase' = "failed"
    /\ UNCHANGED <<session, commandVars, cached, files, pins>>

(***************************************************************************)
(* The next command.  What an update has printed may be saved as the lock  *)
(* it has read.                                                            *)
(***************************************************************************)
NextSession ==
    /\ phase \in {"done", "failed"} /\ session < MaxSessions
    /\ session' = session + 1 /\ command' \in DOMAIN Accepted
    /\ phase' = "options" /\ given' = <<>> /\ mixin' = NewMixin
    /\ env' = None /\ registry' = None /\ dbs' = None /\ args' = None /\ next' = 1
    /\ output' = <<>> /\ printed' = None
    /\ UNCHANGED cached

GivenFor(flag) == {given[i].value : i \in {j \in DOMAIN given : given[j].flag = flag}}

\* What an update means: the inputs it is for are at what they point to now.
NewPin(name, old) ==
    LET inputs == RegistryOfManifest(env.manifest).inputs
    IN  IF mixin.input \notin {None, name} THEN old
        ELSE IF name \in DOMAIN inputs THEN Target(inputs[name].from) ELSE None

Save ==
    /\ printed # None
    /\ \E path \in GivenFor("lockfile") :
           /\ files' = [files EXCEPT ![path] = printed]
           /\ pins' = [pins EXCEPT ![path] = [n \in DOMAIN @ |-> NewPin(n, @[n])]]
    /\ NextSession

Again == NextSession /\ UNCHANGED <<files, pins>>

Next ==
    \/ GiveGARegistry
    \/ \E path \in Values("globalManifest") : GiveGlobalManifest(path)
    \/ \E path \in Values("manifest") : GiveManifest(path)
    \/ \E path \in Values("lockfile") : GiveLockfile(path)
    \/ \E name \in Values("input") : GiveInput(name)
    \/ \E dir \in Values("dir") : GiveDir(dir)
    \/ \E field \in QueryFields : \E value \in Values(field) : GiveQuery(field, value)
    \/ \E json \in Values("params") : GiveParams(json)
    \/ InitEnvironment \/ GetEnvironment \/ GetCombinedRegistry \/ Update
    \/ OpenRegistry \/ ScrapeInput \/ SearchInput
    \/ Fail \/ Save \/ Again

Spec == Init /\ [][Next]_vars
-----------------------------------------------------------------------------
(* A command only goes on with structures that the next step can read: an  *)
(* environment's manifest has all its members and makes descriptors, every *)
(* input that is open can be fetched and has one place in the order unless *)
(* the priorities name it twice, and nothing is printed but by a search or *)
(* an update.                                                              *)
TypeOK ==
    /\ session \in 1..MaxSessions /\ command \in DOMAIN Accepted
    /\ phase \in {"options", "environment", "ready", "combined", "scraping", "querying",
                  "locking", "done", "failed"}
    /\ env # None => /\ DOMAIN env.manifest = Manifest
                     /\ EnvironmentManifest(env.manifest) # Refused
    /\ dbs # None => /\ \A i \in DOMAIN dbs : Reachable(dbs[i][2])
                     /\ {dbs[i][1] : i \in DOMAIN dbs} = DOMAIN registry.inputs
                     /\ IsInjective(registry.priority) =>
                            \A i, j \in DOMAIN dbs : dbs[i][1] = dbs[j][1] => i = j
    /\ output # <<>> => command = "search" /\ ValidArgs(args)
    /\ printed # None => command = "update"

(***************************************************************************)
(* What the options ask for, told from the options themselves.             *)
(***************************************************************************)
Member(json, f) == IF json # None /\ f \in DOMAIN json THEN json[f] ELSE None

The(S) == CHOOSE x \in S : TRUE

Param(f) == IF GivenFor("params") = {} THEN None ELSE Member(The(GivenFor("params")), f)

Sets(i, field) ==
    \/ given[i].flag = field
    \/ given[i].flag = "params" /\ Member(Param("query"), field) # None

\* The last option that sets a field of the query.
AskedFor(field) ==
    LET setters == {i \in DOMAIN given : Sets(i, field)}
        last == Max(setters)
    IN  IF setters = {} THEN None
        ELSE IF given[last].flag = field THEN given[last].value ELSE Param("query")[field]

JSONAt(path) == IF Exists(path) THEN files[path] ELSE None
SourceJSON(source) ==
    IF source = None THEN None
    ELSE IF "at" \in DOMAIN source THEN JSONAt(source.at) ELSE source.raw

DirLock == <<The(GivenFor("dir")), "manifest.lock">>

LockUsed ==
    IF Param("lockfile") # None THEN SourceJSON(Param("lockfile"))
    ELSE IF GivenFor("dir") = {} THEN None ELSE JSONAt(DirLock)

OwnOptions == Member(SourceJSON(Param("manifest")), "options")

Setting(section, f, default) ==
    LET At(options) == Member(Member(options, section), f)
    IN  Or(At(OwnOptions),
           Or(At(Member(Member(LockUsed, "manifest"), "options")),
              Or(At(Member(SourceJSON(Param("globalManifest")), "options")), default)))

ScrapedSystems == Or(Member(OwnOptions, "systems"), <<ThisSystem>>)
AllowedSystems ==
    Or(Member(OwnOptions, "systems"),
       Or(Member(Member(Member(LockUsed, "manifest"), "options"), "systems"),
          Or(Member(Member(SourceJSON(Param("globalManifest")), "options"), "systems"),
             <<ThisSystem>>)))

(* What the options ask for.  The texts that match and match-name are      *)
(* compared with are those of pkg-query.cc:219, params.hh and the help of  *)
(* --match: pname, attrName and, for match, the description.               *)
(* docs/search.md:34 and :38 add the whole `name' of a package, which no   *)
(* query compares with a pattern.                                          *)
Wanted(row) ==
    LET Is(field, value) == AskedFor(field) \in {None, value}
        Part(field, texts) == Given(AskedFor(field)) =>
                                  \E t \in texts : <<AskedFor(field), t>> \in Likes
        names == {row.pname, AttrName(row)}
        range == AskedFor("semver")
        licenses == Setting("allow", "licenses", <<>>)
    IN  /\ Is("name", Name(row)) /\ Is("pname", row.pname) /\ Is("version", row.version)
        /\ range # None => /\ row.semver # None
                           /\ AnyVersion(range) \/ row.semver \in SemverSat(range, {row.semver})
        /\ Part("partialMatch", names \cup {row.description})
        /\ Part("partialNameMatch", names)
        /\ row.broken = TRUE => Setting("allow", "broken", FALSE)
        /\ row.unfree = TRUE => Setting("allow", "unfree", TRUE)
        /\ licenses # <<>> => row.license \in ToSet(licenses)
        /\ row.system \in ToSet(AllowedSystems)

(* Whatever order the options came in, and whichever files and inline      *)
(* values stood for the manifests and the lock, a search prints under the  *)
(* name of an input only packages of the revision that was opened, that    *)
(* the query asks for and the merged options allow: the structure of       *)
(* arguments that all the inputs share (search/command.cc:170) carries     *)
(* nothing from one to the next.                                           *)
PrintedIsWanted ==
    \A i \in DOMAIN output :
        /\ output[i][1] = dbs[i][1]
        /\ \A row \in output[i][2] : row \in Packages[RevOf(i)] /\ Wanted(row)

(* A search that ends well has printed every such package of every input,  *)
(* of the subtrees the input is for and the systems of the manifest: what  *)
(* a query reads was scraped before (environment.cc:103).  Left out, and   *)
(* not promised here, are rows of systems that only the lock or the global *)
(* manifest names, for which this search scrapes nothing (:346 of          *)
(* environment.hh), and rows that match by their whole `name' alone, which *)
(* docs/search.md:34 promises.                                             *)
NothingLeftOut ==
    command = "search" /\ phase = "done" =>
        /\ Len(output) = Len(dbs)
        /\ \A i \in DOMAIN dbs : \A row \in Packages[RevOf(i)] :
               /\ row.subtree \in ToSet(SubtreesOf(dbs[i][2]))
               /\ row.system \in ToSet(ScrapedSystems)
               /\ Wanted(row)
               => row \in output[i][2]

(* With --ga-registry the inputs are those of the hard coded registry, no  *)
(* matter what the manifests say, and nothing but a lock moves one         *)
(* elsewhere (mixins.cc:359).                                              *)
GARegistryOnly ==
    mixin.gaRegistry /\ registry # None =>
        /\ DOMAIN registry.inputs = DOMAIN GARegistry.inputs
        /\ \A n \in DOMAIN registry.inputs :
               \/ Target(registry.inputs[n].from) = Target(GARegistry.inputs[n].from)
               \/ env.lock # None /\ registry.inputs[n] = env.lock.registry.inputs[n]

(***************************************************************************)
(* The lock, across commands.                                              *)
(***************************************************************************)
LockPath ==
    LET source == Param("lockfile")
    IN  IF command # "search" THEN GivenFor("lockfile")
        ELSE IF source # None THEN IF "at" \in DOMAIN source THEN {source.at} ELSE {}
        ELSE {<<d, "manifest.lock">> : d \in GivenFor("dir")}

(* An input that a lock pins stays at the revision that the last update of *)
(* it has found, however its reference has moved since, and whichever      *)
(* other inputs were updated and saved in between (command.cc:151,         *)
(* environment.cc:69).                                                     *)
PinsHold ==
    registry # None =>
        \A path \in LockPath \cap LockPaths : \A n \in DOMAIN registry.inputs :
            pins[path][n] # None => Target(registry.inputs[n].from) = pins[path][n]

(***************************************************************************)
(* The inductive invariant.  A command is a pipeline: what each of its     *)
(* steps leaves behind is a function of what the step before has left, of  *)
(* the options and of the files; what it prints, of what is scraped.       *)
(***************************************************************************)
\* Options that were taken, by a command that has not failed at one.
Taken == phase # "failed" \/ env # None

ManifestFor(f, kind) ==
    IF GivenFor(f) = {} THEN None ELSE ManifestFile(The(GivenFor(f)), kind)

\* What the mixin holds when the parser is done with the options given so far.
ParsedLock ==
    IF command = "search"
    THEN IF GivenFor("dir") # {} /\ Exists(DirLock) THEN LockFile(DirLock) ELSE None
    ELSE IF GivenFor("lockfile") = {} THEN None ELSE LockFile(The(GivenFor("lockfile")))

OptionsInv ==
    Taken =>
        /\ given \in Seq(Range(given))
        /\ \A i \in DOMAIN given : given[i].flag \in Accepted[command]
        /\ \A i, j \in DOMAIN given : given[i].flag = given[j].flag => i = j
        /\ GivenFor("params") \subseteq Values("params") \ {None, Malformed}
        /\ DOMAIN mixin = DOMAIN NewMixin /\ DOMAIN mixin.params = DOMAIN NoParams
        /\ mixin.params.query = [f \in QueryFields |-> AskedFor(f)]
        /\ \A f \in {"globalManifest", "manifest", "lockfile"} :
               /\ mixin.params[f] = SourceFromJSON(f, Param(f))
               /\ mixin.params[f] # Refused

MixinInv ==
    /\ Taken /\ phase = "options" =>
           /\ mixin.lockfile = ParsedLock
           /\ mixin.globalManifest = ManifestFor("globalManifest", GlobalManifest)
           /\ command # "search" => mixin.manifest = ManifestFor("manifest", Manifest)
    /\ Taken /\ phase # "options" =>
           /\ mixin.lockfile = IF command = "search" THEN SourceOr("lockfile", ParsedLock)
                               ELSE ParsedLock
           /\ mixin.globalManifest =
                  IF command = "search" THEN SourceOr("globalManifest", None)
                  ELSE ManifestFor("globalManifest", GlobalManifest)
           /\ mixin.manifest =
                  IF command = "search" THEN SourceOr("manifest", EmptyManifest(Manifest))
                  ELSE ManifestFor("manifest", Manifest)
           /\ mixin.manifest # None
    /\ Taken => Refused \notin {mixin.lockfile, mixin.globalManifest, mixin.manifest}

EnvironmentInv ==
    /\ phase \in {"options", "environment"} => env = None
    /\ phase \in {"ready", "combined", "scraping", "querying", "locking", "done"} => env # None
    /\ env # None => env = EnvironmentOf /\ env # Refused
    /\ phase = "ready" => registry = None /\ dbs = None /\ output = <<>> /\ printed = None
    /\ env = None => registry = None /\ dbs = None /\ output = <<>> /\ printed = None
    /\ phase \in {"ready", "combined", "scraping"} /\ command = "search" =>
           args = BaseArgs(env)

RegistryInv ==
    /\ registry # None => /\ env # None /\ command \in {"search", "registry"}
                          /\ registry = CombinedRegistryOf(env)
                          /\ registry # Refused
    /\ phase \in {"combined", "scraping", "querying"} => command = "search" /\ registry # None
    /\ phase = "combined" => dbs = None
    /\ dbs # None => registry # None /\ command = "search"
                     /\ dbs = Opened(registry) /\ dbs # Refused
    /\ phase \in {"scraping", "querying"} => dbs # None
    /\ phase = "done" /\ command = "search" => dbs # None
    /\ printed # None =>
           /\ env # None /\ command = "update" /\ env.lock # None
           /\ LET own == LockRegistry(RegistryOfManifest(env.manifest))
                  new == UpdatedRegistry(env.lock.registry, own, mixin.input)
              IN  /\ Refused \notin {own, new}
                  /\ printed = LockToJSON([env.lock EXCEPT !.registry = new])

Query == FillFromQuery(mixin.params.query, BaseArgs(env))

SearchInv ==
    /\ phase \in {"options", "environment", "ready", "combined"} => next = 1
    /\ phase \in {"scraping", "querying"} => next \in 1..(Len(dbs) + 1)
    /\ phase = "scraping" =>
           /\ output = <<>>
           /\ \A i \in 1..(next - 1) : PrefixesOf(i) \subseteq cached
    /\ phase = "querying" =>
           /\ \A i \in DOMAIN dbs : PrefixesOf(i) \subseteq cached
           /\ Len(output) = next - 1
           /\ args \in {BaseArgs(env), Query}
    /\ phase = "done" /\ command = "search" =>
           /\ \A i \in DOMAIN dbs : PrefixesOf(i) \subseteq cached
           /\ Len(output) = Len(dbs)
    /\ output # <<>> =>
           /\ dbs # None /\ args = Query /\ ValidArgs(Query)
           /\ Len(output) <= Len(dbs)
           /\ output = [i \in 1..Len(output) |->
                          <<dbs[i][1], Execute(Visible(RevOf(i)), Query)>>]

\* A file is what it was, or a lock that an update has printed.
FilesInv ==
    LET first == Files0
    IN  /\ DOMAIN files = DOMAIN first
        /\ \A path \in DOMAIN files : \/ files[path] = first[path]
                                      \/ /\ files[path] # None
                                         /\ DOMAIN files[path] = {"manifest", "registry"}

PinsInv ==
    /\ DOMAIN pins = LockPaths
    /\ \A path \in LockPaths : DOMAIN pins[path] = Range(Lexical)
    /\ \A path \in LockPaths : \A n \in Range(Lexical) :
           LET lock == LockFromJSON(files[path])
           IN  /\ pins[path][n] # None => files[path] # None
               /\ pins[path][n] # None =>
                      \A s \in 1..MaxSessions : pins[path][n] \notin DOMAIN Points[s]
               /\ lock # Refused /\ pins[path][n] # None =>
                      /\ n \in DOMAIN lock.registry.inputs
                      /\ lock.registry.inputs[n].from = pins[path][n]

SessionInv ==
    /\ TypeOK
    /\ OptionsInv /\ MixinInv /\ EnvironmentInv /\ RegistryInv /\ SearchInv
    /\ FilesInv /\ PinsInv

(* The help of --dir (mixins.cc:319), "the directory to search for         *)
(* `manifest.{json,yaml,toml}' and `manifest.lock`.": the manifest that is *)
(* found there is the environment's, unless the parameters name another.   *)
DirIsUsed ==
    env # None /\ Param("manifest") = None =>
        \A dir \in GivenFor("dir") :
            \E n \in ToSet(ManifestNames) :
                Exists(<<dir, n>>) /\ env.manifest = Initialised(ManifestFile(<<dir, n>>, Manifest))
=============================================================================
