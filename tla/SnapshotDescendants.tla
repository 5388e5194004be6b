------------------------- MODULE SnapshotDescendants -------------------------
(***************************************************************************)
(* Snapshot.Descendants (src/state/protocol/badger/snapshot.go): all       *)
(* blocks that descend from the snapshot's block, found by a recursive     *)
(* walk over the children index.                                           *)
(*                                                                         *)
(* descendants(b) starts from b's children and, for each of them, appends  *)
(* that child's descendants. Go evaluates the range expression once, so    *)
(* the loop visits only b's own children even though the slice grows.      *)
(*                                                                         *)
(* Environment (not under src/): blocks are incorporated one at a time,    *)
(* each with a parent among the known blocks; the children index of a      *)
(* block lists its children in the order they were inserted. Block 0 is   *)
(* the root. Storage errors of the lookup are not modelled.                *)
(***************************************************************************)
EXTENDS Naturals, Sequences, SequencesExt, Functions

CONSTANTS MaxBlocks  \* blocks 0..MaxBlocks-1

ASSUME MaxBlocks \in Nat \ {0}

VARIABLES
  n,       \* blocks incorporated: 0..n-1
  parent   \* parent of each incorporated block other than the root

vars == <<n, parent>>

Blocks == 0..(n - 1)

TypeOK ==
  /\ n \in 1..MaxBlocks
  /\ DOMAIN parent = 1..(n - 1)
  /\ \A b \in DOMAIN parent : parent[b] \in 0..(b - 1)

Init == n = 1 /\ parent = <<>>

\* a block with a known parent is incorporated and indexed as its child
AddBlock ==
  /\ n < MaxBlocks
  /\ \E p \in Blocks :
       /\ parent' = [b \in 1..n |-> IF b = n THEN p ELSE parent[b]]
       /\ n' = n + 1

Done == n = MaxBlocks /\ UNCHANGED vars

Next == AddBlock \/ Done

Spec == Init /\ [][Next]_vars

-----------------------------------------------------------------------------

\* lookupChildren: procedure.LookupBlockChildren, in insertion order
LookupChildren(b) == SelectSeq([i \in 1..(n - 1) |-> i], LAMBDA c : parent[c] = b)

\* mutant: the loop runs over the growing slice, as an index loop would
RECURSIVE DescendantsGrowing(_), GrowingLoop(_, _)
GrowingLoop(ids, i) ==
  IF i > Len(ids) THEN ids
  ELSE GrowingLoop(ids \o DescendantsGrowing(ids[i]), i + 1)
DescendantsGrowing(b) == GrowingLoop(LookupChildren(b), 1)

\* descendants(blockID): for _, descendantID := range descendantIDs over the
\* children only, appending each child's descendants
RECURSIVE Descendants(_), AppendEach(_, _)
AppendEach(ids, children) ==
  IF children = <<>> THEN ids
  ELSE AppendEach(ids \o Descendants(Head(children)), Tail(children))
Descendants(b) == AppendEach(LookupChildren(b), LookupChildren(b))

-----------------------------------------------------------------------------
(* Properties                                                              *)

\* reference: d descends from b when b is on d's chain of parents
RECURSIVE DescendsFrom(_, _)
DescendsFrom(d, b) ==
  d \in DOMAIN parent /\ (parent[d] = b \/ DescendsFrom(parent[d], b))
DescendantSet(b) == {d \in Blocks : DescendsFrom(d, b)}

(* Descendants returns every descendant of the snapshot's block exactly    *)
(* once, whatever the shape of the tree of forks.                          *)
DescendantsExact ==
  \A b \in Blocks :
    /\ Range(Descendants(b)) = DescendantSet(b)
    /\ IsInjective(Descendants(b))

=============================================================================
