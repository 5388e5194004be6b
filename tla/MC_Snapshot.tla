---------------------------- MODULE MC_Snapshot ----------------------------
(***************************************************************************)
(* The read operations of a protocol-state snapshot                        *)
(* (src/state/protocol/badger/snapshot.go) checked in one run: the epoch   *)
(* queries over a growing, finalizing chain (EpochQuery) and the           *)
(* descendants walk over a growing tree of forks (SnapshotDescendants).    *)
(* The two read independent parts of the protocol state, so their steps    *)
(* interleave freely.                                                      *)
(***************************************************************************)
EXTENDS Naturals

CONSTANTS MaxEpoch, MaxHeight, MaxBlocks

VARIABLES starts, phase, root, final, tip, index, n, parent

Q == INSTANCE EpochQuery
D == INSTANCE SnapshotDescendants

chainVars == <<starts, phase, root, final, tip, index>>
treeVars == <<n, parent>>

Init == Q!Init /\ D!Init

Next ==
  \/ Q!Next /\ UNCHANGED treeVars
  \/ D!Next /\ UNCHANGED chainVars

Spec == Init /\ [][Next]_<<chainVars, treeVars>>

TypeOK == Q!TypeOK /\ D!TypeOK

(* EpochQuery: every boundary the queries return is the chain's and        *)
(* finalized, at every known block (retrieveEpochHeightBounds).            *)
HeightBoundsMatchChain == Q!HeightBoundsMatchChain

(* EpochQuery: NextUnsafe and NextCommitted split the epoch phases.        *)
NextEpochQueriesAgree == Q!NextEpochQueriesAgree

(* Descendants returns every descendant exactly once (descendants).        *)
DescendantsExact == D!DescendantsExact
=============================================================================
