----------------------------- MODULE Descriptors -----------------------------
(***************************************************************************)
(* Package descriptors (src/resolver/descriptor.cc): the fields of an      *)
(* `install' entry of a manifest, the string form that commands accept,    *)
(* the descriptor both are turned into, and what it asks of a query.       *)
(*                                                                         *)
(* A path is written as a text, or as a list of parts; the text is         *)
(* modelled by the parts between its dots, quotes removed.                 *)
(***************************************************************************)
EXTENDS PkgQuery

CONSTANTS
    Refused,    \* an exception of the program
    Malformed,  \* a JSON value of the wrong type
    Globbed     \* attribute names with a `*' inside

ASSUME MarkersAssumption == None # Refused /\ None # Malformed /\ Refused # Malformed

RawFields == {"name", "version", "path", "absPath", "systems", "optional",
              "group", "repository", "priority"}

(* ManifestDescriptorRaw after clear(). *)
NoFields == [f \in RawFields |-> None]

(***************************************************************************)
(* JSON.  An object is a function from the names of its members, null is   *)
(* None.  Reading refuses an object with a member it does not know or      *)
(* cannot read; a member that is null is as good as missing.  Writing      *)
(* leaves out what is not set.                                             *)
(***************************************************************************)
ReadValue(value) == IF value = Malformed THEN Refused ELSE value

ReadObject(json, fields, Read(_, _)) ==
    IF json \in {None, Malformed} \/ ~(DOMAIN json \subseteq fields) THEN Refused
    ELSE LET value == [f \in DOMAIN json |-> Read(f, json[f])]
         IN  IF \E f \in DOMAIN json : value[f] = Refused THEN Refused
             ELSE [f \in fields |-> IF f \in DOMAIN json THEN value[f] ELSE None]

ReadPlain(json, fields) == ReadObject(json, fields, LAMBDA f, value : ReadValue(value))

WriteObject(struct) == [f \in {g \in DOMAIN struct : struct[g] # None} |-> struct[f]]

\* A manifest may have null for a descriptor; one with no field is written so.
FromJSON(json) == IF json = None THEN None ELSE ReadPlain(json, RawFields)

ToJSON_NoGroup(raw) ==
    IF raw \in {None, NoFields} THEN None ELSE WriteObject([raw EXCEPT !.group = None])
ToJSON(raw) == IF raw \in {None, NoFields} THEN None ELSE WriteObject(raw)

(***************************************************************************)
(* Paths.                                                                  *)
(***************************************************************************)
\* splitAttrPath(): nothing follows a last dot.
SplitAttrPath(parts) == IF parts # <<>> /\ Last(parts) = "" THEN Front(parts) ELSE parts

\* maybeSplitAttrPathGlob(): in a text, `*' and `null' are globs.
Glob(path) ==
    IF path.list THEN path.parts
    ELSE LET parts == SplitAttrPath(path.parts)
         IN  [i \in DOMAIN parts |-> IF parts[i] \in {"*", "null"} THEN None ELSE parts[i]]

GlobInAttrName(attrs) == \E i \in DOMAIN attrs : attrs[i] \in Globbed \cup {"*"}
Globs(attrs) == {i \in DOMAIN attrs : attrs[i] = None}

IsAbsolutePath(attrs) == Len(attrs) >= 3 /\ attrs[1] \in Subtrees

ValidRelativePath(attrs) == Globs(attrs) = {} /\ ~GlobInAttrName(attrs) /\ Len(attrs) >= 2
ValidAbsolutePath(attrs) == Globs(attrs) \subseteq {2} /\ ~GlobInAttrName(attrs)

(* ManifestDescriptorRaw::check(), and a mutant that knows no subtrees. *)
ValidRaw_AnySubtree(raw) ==
    raw.absPath # None =>
        LET glob == Glob(raw.absPath)
        IN  /\ Len(glob) >= 3 /\ raw.path = None
            /\ raw.systems # None /\ glob[2] # None => glob[2] \in ToSet(raw.systems)
ValidRaw(raw) ==
    raw.absPath # None =>
        LET glob == Glob(raw.absPath)
        IN  /\ Len(glob) >= 3
            /\ glob[1] \in Subtrees
            /\ raw.path = None
            /\ raw.systems # None /\ glob[2] # None => glob[2] \in ToSet(raw.systems)

(***************************************************************************)
(* The string form, `input:path@version'.                                  *)
(***************************************************************************)
\* The field that the attributes are for, and what stands before and after
\* them; a mutant reads the version of a plain name only.
Fields_NoVersion(string, field, value) ==
    [NoFields EXCEPT ![field] = value, !.repository = string.input,
                     !.version = IF field = "name" THEN string.version ELSE None]
Fields(string, field, value) ==
    [NoFields EXCEPT ![field] = value, !.version = string.version, !.repository = string.input]

ParseString(string) ==
    LET strings == SplitAttrPath(string.parts)
        attrs == Glob([list |-> FALSE, parts |-> string.parts])
    IN  IF string.parts = <<>> \/ \E i \in DOMAIN attrs : attrs[i] = "" THEN Refused
        ELSE IF Len(attrs) = 1
        THEN IF attrs[1] = None THEN Refused ELSE Fields(string, "name", attrs[1])
        ELSE IF ~IsAbsolutePath(attrs) /\ ValidRelativePath(attrs)
        THEN Fields(string, "path", [list |-> TRUE, parts |-> strings])
        ELSE IF IsAbsolutePath(attrs) /\ ValidAbsolutePath(attrs)
        THEN Fields(string, "absPath", [list |-> TRUE, parts |-> attrs])
        ELSE Refused

(***************************************************************************)
(* ManifestDescriptor( raw ).                                              *)
(***************************************************************************)
\* clear().
NoDescriptor == [name |-> None, optional |-> FALSE, group |-> None, version |-> None,
                 semver |-> None, subtree |-> None, systems |-> None, path |-> None,
                 input |-> None, priority |-> 5]

\* initManifestDescriptorVersion().
IsExactVersion_Shape(text) == IsSemver(text) \/ ~IsSemverRange(text)
IsExactVersion(text) == IsSemver(text) \/ IsDate(text) \/ ~IsSemverRange(text)

WithVersion(desc, text) ==
    IF text.kind = "empty" THEN [desc EXCEPT !.semver = text]
    ELSE IF text.op = "=" THEN [desc EXCEPT !.version = [text EXCEPT !.op = ""]]
    ELSE IF text.op # "" \/ text.kind = "star" THEN [desc EXCEPT !.semver = text]
    ELSE IF IsExactVersion(text) THEN [desc EXCEPT !.version = text]
    ELSE [desc EXCEPT !.semver = text]

\* initManifestDescriptorAbsPath().
WithAbsPath(desc, raw) ==
    LET glob == Glob(raw.absPath)
        system == glob[2]
        open == system \in {None, "null", "*"}
    IN  IF \/ Len(glob) < 3
           \/ 1 \in Globs(glob) \/ \E i \in 3..Len(glob) : glob[i] = None
           \/ ~open /\ raw.systems # None /\ raw.systems # <<system>>
        THEN Refused
        ELSE [desc EXCEPT !.subtree = IF glob[1] \in Subtrees THEN glob[1] ELSE "ST_NONE",
                          !.path = SubSeq(glob, 3, Len(glob)),
                          !.systems = IF open THEN None ELSE <<system>>]

RawPath(raw) == IF raw.path.list THEN raw.path.parts ELSE SplitAttrPath(raw.path.parts)

Or(value, default) == IF value = None THEN default ELSE value

DescriptorOf(raw) ==
    LET plain == [NoDescriptor EXCEPT
                    !.name = raw.name, !.optional = Or(raw.optional, FALSE),
                    !.group = raw.group, !.input = raw.repository,
                    !.priority = Or(raw.priority, 5)]
        versioned == IF raw.version = None THEN plain ELSE WithVersion(plain, raw.version)
        desc == IF raw.absPath = None THEN versioned ELSE WithAbsPath(versioned, raw)
    IN  IF desc = Refused THEN Refused
        ELSE IF raw.path # None /\ desc.path # None /\ desc.path # RawPath(raw) THEN Refused
        ELSE [desc EXCEPT !.systems = Or(@, raw.systems),
                          !.path = IF @ = None /\ raw.path # None THEN RawPath(raw) ELSE @]

(* ManifestDescriptor( installID, raw ), and initDescriptors() for null. *)
InstalledDescriptor(iid, raw) ==
    IF raw = None THEN [NoDescriptor EXCEPT !.name = iid]
    ELSE LET desc == DescriptorOf(raw)
         IN  IF desc = Refused THEN Refused ELSE [desc EXCEPT !.name = Or(@, iid)]

(***************************************************************************)
(* fillPkgQueryArgs().  The first character of the range is looked at      *)
(* before anything is known of its length.                                 *)
(***************************************************************************)
AsksForRange(desc) == desc.version = None /\ desc.semver # None

Filled(desc, args) ==
    [args EXCEPT
        !.pnameOrAttrName = Or(desc.name, @),
        !.version = Or(desc.version, @),
        !.semver = IF AsksForRange(desc) THEN desc.semver ELSE @,
        !.subtrees = IF desc.subtree = None THEN @ ELSE <<desc.subtree>>,
        !.systems = Or(desc.systems, @),
        !.relPath = desc.path]

\* Mutant: a range with `~' leaves the preference for pre-releases alone.
FillArgs_KeepsPreference(desc, args) ==
    IF AsksForRange(desc) /\ desc.semver.kind = "empty" THEN Refused ELSE Filled(desc, args)
FillArgs(desc, args) ==
    IF AsksForRange(desc) /\ desc.semver.kind = "empty" THEN Refused
    ELSE [Filled(desc, args) EXCEPT
            !.preferPreReleases = IF AsksForRange(desc) /\ desc.semver.op = "~"
                                  THEN desc.semver.tag # 0 ELSE @]
=============================================================================
