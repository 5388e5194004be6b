------------------------------ MODULE EpochQuery ------------------------------
(***************************************************************************)
(* The epoch queries of a protocol-state snapshot                          *)
(* (src/state/protocol/badger/snapshot.go, EpochQuery): Current,          *)
(* NextUnsafe, NextCommitted, Previous and retrieveEpochHeightBounds.       *)
(*                                                                         *)
(* Epoch height bounds are not fork-aware: they come from the index of     *)
(* epoch first heights, written when an epoch's first block is finalized.  *)
(* A snapshot may be taken at any block the node knows, finalized or not,  *)
(* so the queries are evaluated at every known block while the chain      *)
(* grows and is finalized.                                                 *)
(*                                                                         *)
(* Environment (not under src/): the chain and its protocol state. Epoch   *)
(* e's first block is at height starts[e]; every block has an epoch phase *)
(* (staking, then setup, then committed; or fallback after staking or      *)
(* setup, for the rest of the epoch); an epoch transition happens only    *)
(* from the committed phase. The node knows blocks from its root (the      *)
(* lowest block it bootstrapped from) to the tip; finalizing a block that  *)
(* is an epoch's first block indexes that epoch's first height. Storage   *)
(* errors and corrupted entries are not modelled.                          *)
(***************************************************************************)
EXTENDS Integers, FiniteSets

CONSTANTS
  MaxEpoch,   \* epochs are 0..MaxEpoch
  MaxHeight   \* heights are 0..MaxHeight

Epochs == 0..MaxEpoch
Heights == 0..MaxHeight
Unknown == -1
Phases == {"staking", "setup", "committed", "fallback"}

\* a chain schedule: strictly increasing first heights of epochs 0..k
Schedules ==
  UNION {{s \in [0..k -> Heights] :
            s[0] = 0 /\ \A e \in 1..k : s[e - 1] < s[e]} : k \in Epochs}

\* the epoch of the block at height h
EpochAtIn(s, h) == CHOOSE e \in DOMAIN s : s[e] <= h /\ (e + 1 \in DOMAIN s => h < s[e + 1])

\* phases each block's successor in the same epoch may have
PhaseSuccessors ==
  [staking   |-> {"staking", "setup", "fallback"},
   setup     |-> {"setup", "committed", "fallback"},
   committed |-> {"committed"},
   fallback  |-> {"fallback"}]

ValidPhases(s, ph) ==
  \A h \in Heights :
    /\ h \in {s[e] : e \in DOMAIN s} => ph[h] = "staking"
    /\ h < MaxHeight /\ EpochAtIn(s, h + 1) = EpochAtIn(s, h)
         => ph[h + 1] \in PhaseSuccessors[ph[h]]
    /\ h < MaxHeight /\ EpochAtIn(s, h + 1) # EpochAtIn(s, h)
         => ph[h] = "committed"

VARIABLES
  starts,   \* first height of every epoch of the chain (its future included)
  phase,    \* epoch phase of the protocol state at each height
  root,     \* lowest block the node knows
  final,    \* latest finalized height
  tip,      \* highest block the node knows
  index     \* EpochFirstHeight index: epoch -> first height, or Unknown

vars == <<starts, phase, root, final, tip, index>>

IndexDomain == 0..(MaxEpoch + 1)
EpochAt(h) == EpochAtIn(starts, h)
Known == root..tip

TypeOK ==
  /\ starts \in Schedules /\ phase \in [Heights -> Phases]
  /\ root \in Heights /\ final \in root..tip /\ tip \in Heights
  /\ index \in [IndexDomain -> Heights \cup {Unknown}]

\* bootstrapping from root: the first heights of epochs starting at or
\* after root and finalized by then are indexed
IndexAt(s, r, f) ==
  [e \in IndexDomain |-> IF e \in DOMAIN s /\ s[e] \in r..f THEN s[e] ELSE Unknown]

Init ==
  /\ starts \in Schedules
  /\ phase \in {ph \in [Heights -> Phases] : ValidPhases(starts, ph)}
  /\ root \in Heights /\ final = root /\ tip = root
  /\ index = IndexAt(starts, root, root)

\* a new block extends the tip
Extend ==
  /\ tip < MaxHeight
  /\ tip' = tip + 1
  /\ UNCHANGED <<starts, phase, root, final, index>>

\* the next block is finalized; an epoch's first block indexes its height
Finalize ==
  /\ final < tip
  /\ final' = final + 1
  /\ index' = IF final' \in {starts[e] : e \in DOMAIN starts}
                THEN [index EXCEPT ![EpochAt(final')] = final'] ELSE index
  /\ UNCHANGED <<starts, phase, root, tip>>

Done == final = MaxHeight /\ UNCHANGED vars

Next == Extend \/ Finalize \/ Done

Spec == Init /\ [][Next]_vars

-----------------------------------------------------------------------------
(* The queries at the snapshot of block b                                  *)

\* EpochStateAtBlockID(b): the entry's counters and phase
CurrentCounter(b) == EpochAt(b)
PreviousEpochExists(b) == EpochAt(b) > 0

\* Snapshot.EpochPhase
EpochPhase(b) == phase[b]

\* mutant: the final height taken as the next epoch's first height
FinalHeightOfNoOffset(next) == next
\* finalHeight = subsequentEpochFirstHeight - 1
FinalHeightOf(next) == next - 1

\* retrieveEpochHeightBounds(epoch): reads the first heights of epoch and
\* epoch+1; a missing entry (storage.ErrNotFound) is an unknown boundary
RetrieveEpochHeightBounds(epoch) ==
  [firstKnown |-> index[epoch] # Unknown,
   first      |-> IF index[epoch] # Unknown THEN index[epoch] ELSE 0,
   finalKnown |-> index[epoch + 1] # Unknown,
   final      |-> IF index[epoch + 1] # Unknown
                    THEN FinalHeightOf(index[epoch + 1]) ELSE 0]

\* a query's result: an error, or an epoch with its counter and the
\* boundaries it carries
EpochResult(c, firstHeight, finalHeight) ==
  [err |-> "none", counter |-> c, first |-> firstHeight, final |-> finalHeight]
ErrorResult(err) ==
  [err |-> err, counter |-> Unknown, first |-> Unknown, final |-> Unknown]
IsEpoch(r) == r.err = "none"

\* Current: the current epoch, with its start boundary when known
Current(b) ==
  LET c == CurrentCounter(b)
      r == RetrieveEpochHeightBounds(c)
  IN EpochResult(c, IF r.firstKnown THEN r.first ELSE Unknown, Unknown)

\* NextUnsafe: a tentative epoch only in the setup phase
NextUnsafe(b) ==
  CASE EpochPhase(b) \in {"staking", "fallback"} -> ErrorResult("ErrNextEpochNotSetup")
    [] EpochPhase(b) = "setup"                  -> EpochResult(CurrentCounter(b) + 1, Unknown, Unknown)
    [] EpochPhase(b) = "committed"              -> ErrorResult("ErrNextEpochAlreadyCommitted")

\* mutant: the setup phase grouped with the committed one
NextCommittedInSetup(b) ==
  CASE EpochPhase(b) \in {"staking", "fallback"} -> ErrorResult("ErrNextEpochNotCommitted")
    [] EpochPhase(b) \in {"setup", "committed"} -> EpochResult(CurrentCounter(b) + 1, Unknown, Unknown)

\* NextCommitted: the next epoch only in the committed phase
NextCommitted(b) ==
  CASE EpochPhase(b) \in {"staking", "fallback", "setup"} -> ErrorResult("ErrNextEpochNotCommitted")
    [] EpochPhase(b) = "committed" -> EpochResult(CurrentCounter(b) + 1, Unknown, Unknown)

\* setup := entry.PreviousEpochSetup: the previous epoch's counter
PreviousCounter(b) == CurrentCounter(b) - 1

\* Previous: the four combinations of known boundaries, each carried over
Previous(b) ==
  IF ~PreviousEpochExists(b) THEN ErrorResult("ErrNoPreviousEpoch")
  ELSE LET c == PreviousCounter(b)
           r == RetrieveEpochHeightBounds(c)
       IN EpochResult(c, IF r.firstKnown THEN r.first ELSE Unknown,
                         IF r.finalKnown THEN r.final ELSE Unknown)

-----------------------------------------------------------------------------
(* Properties                                                              *)

(* Every boundary a query returns is the chain's: a known first height is  *)
(* the height of the epoch's first block, a known final height is the     *)
(* height of its last block, and both are finalized, at every known block *)
(* whether finalized or not; and once a boundary inside the node's known   *)
(* range is finalized, the queries know it.                                *)
HeightBoundsMatchChain ==
  \A b \in Known :
    LET cur == Current(b)
        prev == Previous(b)
    IN /\ cur.first # Unknown => cur.first = starts[cur.counter] /\ cur.first <= final
       /\ starts[cur.counter] \in root..final => cur.first = starts[cur.counter]
       /\ IsEpoch(prev) =>
            /\ prev.first # Unknown => prev.first = starts[prev.counter]
            /\ prev.final # Unknown =>
                 /\ EpochAt(prev.final) = prev.counter
                 /\ EpochAt(prev.final + 1) = prev.counter + 1
                 /\ prev.final < final
            /\ starts[prev.counter + 1] \in root..final => prev.final # Unknown

(* A caller that asks NextUnsafe and, on ErrNextEpochAlreadyCommitted,     *)
(* NextCommitted, obtains the next epoch exactly when the snapshot's block *)
(* is in the setup or committed phase, and the two never both return it.   *)
NextEpochQueriesAgree ==
  \A b \in Known :
    /\ ~(IsEpoch(NextUnsafe(b)) /\ IsEpoch(NextCommitted(b)))
    /\ LET obtained ==
             \/ IsEpoch(NextUnsafe(b))
             \/ /\ NextUnsafe(b).err = "ErrNextEpochAlreadyCommitted"
                /\ IsEpoch(NextCommitted(b))
       IN obtained <=> EpochPhase(b) \in {"setup", "committed"}

=============================================================================
