------------------------------- MODULE Inputs -------------------------------
(***************************************************************************)
(* Registries with the preferences of their inputs (src/registry.cc): how  *)
(* they are read and written, merged, compared, and put in order.  Module  *)
(* Registry leaves the preferences out; this one has the whole structure.  *)
(*                                                                         *)
(* `inputs' is a function from the names a registry has.                   *)
(***************************************************************************)
EXTENDS Descriptors, Vectors

CONSTANTS
    Indirect,       \* flake references that need the user's flake registry
    Lexical,        \* the names of inputs in the order of std::map
    GARegistry      \* getGARegistry()

ASSUME LexicalAssumption == Lexical \in Seq(Range(Lexical)) /\ IsInjective(Lexical)

NoInputs == [n \in {} |-> None]

\* RegistryRaw after clear().
NoRegistry == [inputs |-> NoInputs, defaults |-> [subtrees |-> None], priority |-> <<>>]

(***************************************************************************)
(* JSON.  `from' may be missing but not null; a member of a registry that  *)
(* is null is passed over, whatever its name.                              *)
(***************************************************************************)
PreferencesFromJSON(json) == ReadPlain(json, {"subtrees"})

InputFromJSON(json) ==
    ReadObject(json, {"subtrees", "from"},
               LAMBDA f, v : IF f = "from" /\ v = None THEN Refused ELSE ReadValue(v))

InputsFromJSON(json) ==
    IF json = Malformed \/ \E n \in DOMAIN json : InputFromJSON(json[n]) = Refused
    THEN Refused ELSE [n \in DOMAIN json |-> InputFromJSON(json[n])]

RegistryMemberFromJSON(f, json) ==
    CASE f = "inputs" -> InputsFromJSON(json)
      [] f = "defaults" -> PreferencesFromJSON(json)
      [] OTHER -> ReadValue(json)

RegistryFromJSON(json) ==
    LET read == IF json \in {None, Malformed} THEN Refused
                ELSE ReadObject(WriteObject(json), DOMAIN NoRegistry, RegistryMemberFromJSON)
    IN  IF read = Refused THEN Refused
        ELSE [f \in DOMAIN NoRegistry |-> Or(read[f], NoRegistry[f])]

\* Everything is written, null for what is not set.
RegistryToJSON(reg) == reg

(***************************************************************************)
(* Merging.  What the overrides list comes first.                          *)
(***************************************************************************)
Overlay(over, base) ==
    [x \in DOMAIN over \cup DOMAIN base |-> IF x \in DOMAIN over THEN over[x] ELSE base[x]]

MergePreferences(base, over) ==
    [subtrees |-> IF base.subtrees = None \/ over.subtrees = None
                  THEN Or(over.subtrees, base.subtrees)
                  ELSE MergeVectors(base.subtrees, over.subtrees)]

MergeInputs(base, over) ==
    [inputs |-> Overlay(over.inputs, base.inputs),
     defaults |-> MergePreferences(base.defaults, over.defaults),
     priority |-> MergeVectors(base.priority, over.priority)]

(***************************************************************************)
(* operator== looks at the inputs of its left side only: a registry that   *)
(* lacks some of the other's inputs is equal to it.                        *)
(***************************************************************************)
Equals(reg, other) ==
    /\ reg.priority = other.priority
    /\ reg.defaults = other.defaults
    /\ \A n \in DOMAIN reg.inputs : /\ n \in DOMAIN other.inputs
                                    /\ reg.inputs[n] = other.inputs[n]

(***************************************************************************)
(* RegistryRaw::fillPkgQueryArgs().                                        *)
(***************************************************************************)
PreferredSubtrees(reg, name) ==
    IF name \in DOMAIN reg.inputs
    THEN Or(reg.inputs[name].subtrees, reg.defaults.subtrees)
    ELSE reg.defaults.subtrees

FillFromRegistry(reg, name, args) == [args EXCEPT !.subtrees = PreferredSubtrees(reg, name)]

(***************************************************************************)
(* Registry( raw, factory ): the inputs in their order, or an exception    *)
(* for a reference that is missing or indirect.                            *)
(***************************************************************************)
\* The names of `priority' are taken to have an input.
WellOrdered(reg) ==
    DOMAIN reg.inputs \subseteq Range(Lexical) /\ reg.priority \in Seq(DOMAIN reg.inputs)

ASSUME GARegistryAssumption ==
    /\ GARegistry # None /\ DOMAIN GARegistry = DOMAIN NoRegistry
    /\ \A n \in DOMAIN GARegistry.inputs : DOMAIN GARegistry.inputs[n] = {"subtrees", "from"}
    /\ WellOrdered(GARegistry) /\ DOMAIN GARegistry.inputs = Range(GARegistry.priority)

\* RegistryRaw::getOrder(), and a mutant that lists a name of `priority' again.
Order_Again(reg) == reg.priority \o SelectSeq(Lexical, LAMBDA n : n \in DOMAIN reg.inputs)
Order(reg) == WithNew(reg.priority, Lexical, DOMAIN reg.inputs)

Reachable(input) == input.from \notin Indirect \cup {None}

Opened(reg) ==
    IF \E i \in DOMAIN Order(reg) : ~Reachable(reg.inputs[Order(reg)[i]]) THEN Refused
    ELSE [i \in DOMAIN Order(reg) |->
            LET name == Order(reg)[i]
            IN  <<name, [reg.inputs[name] EXCEPT !.subtrees = PreferredSubtrees(reg, name)]>>]
=============================================================================
