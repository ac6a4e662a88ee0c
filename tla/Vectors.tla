------------------------------ MODULE Vectors ------------------------------
(***************************************************************************)
(* Lists that are put together element by element, as registries are       *)
(* merged and ordered (include/flox/core/util.hh).                         *)
(***************************************************************************)
EXTENDS Naturals, Sequences, SequencesExt

\* The loop of merge_vectors() and getOrder(): the elements of t that are in S
\* are appended to s one by one, each unless it is there.
WithNew(s, t, S) ==
    LET upto[k \in 0 .. Len(t)] ==
            IF k = 0 THEN s
            ELSE IF t[k] \in S /\ ~Contains(upto[k - 1], t[k])
                   THEN Append(upto[k - 1], t[k])
                   ELSE upto[k - 1]
    IN  upto[Len(t)]

\* merge_vectors(): the higher list, then what only the lower one has.
MergeVectors(lower, higher) == WithNew(higher, lower, Range(lower))
=============================================================================
