------------------------------ MODULE Registry ------------------------------
(***************************************************************************)
(* Input registries: named flake references with a priority list.          *)
(*                                                                         *)
(* A registry maps every name to a flake reference, or to Absent, and      *)
(* lists some names in order of priority.  A locked registry maps names to *)
(* revisions instead.  Subtree preferences matter only to the comparison   *)
(* of inputs: what lockRegistry() returns always names subtrees, an input  *)
(* that is taken from a locked package never does.                         *)
(***************************************************************************)
EXTENDS Vectors

CONSTANTS
    Names,      \* the names of inputs
    Lex,        \* all of them, in lexicographical order
    Refs,       \* flake references, as users write them
    Revs,       \* locked flake references: they stand for themselves
    Absent      \* no such member

ASSUME LexAssumption == Lex \in Seq(Names) /\ Range(Lex) = Names

ASSUME AbsentAssumption == Absent \notin Refs \cup Revs

RegistryOf(X) == [inputs : [Names -> X \cup {Absent}], priority : Seq(Names)]

NamesIn(reg) == {n \in Names : reg.inputs[n] # Absent}

\* RegistryRaw::merge().
MergeRegistry(lower, higher) ==
    [inputs |-> [n \in Names |-> IF n \in NamesIn(higher) THEN higher.inputs[n]
                                                          ELSE lower.inputs[n]],
     priority |-> MergeVectors(lower.priority, higher.priority)]

\* RegistryRaw::getOrder(): the priorities, then the other names of inputs in
\* their map's order.
GetOrder(reg) == WithNew(reg.priority, Lex, NamesIn(reg))

\* lockRegistry(), while the references point where `head' says.
LockRegistry(reg, head) ==
    [reg EXCEPT !.inputs = [n \in Names |-> IF n \in NamesIn(reg)
                                              THEN head[reg.inputs[n]]
                                              ELSE Absent]]

\* The input of a registry, and the one made of a locked package's `input'.
RegistryInput(rev) == [rev |-> rev, subtrees |-> "given"]
PinnedInput(rev) == [rev |-> rev, subtrees |-> "none"]

\* RegistryInput::operator==.
SameInput(a, b) == a.subtrees = b.subtrees /\ a.rev = b.rev
=============================================================================
