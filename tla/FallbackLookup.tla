---------------------------- MODULE FallbackLookup ----------------------------
(***************************************************************************)
(* Two first-success lookups:                                              *)
(*  - HierarchicalIDTranslator (src/network/p2p/hierarchical_translator.go) *)
(*    asks its translators in order and returns the first answer; GetPeerID *)
(*    collects every translator's error with multierror.Append, GetFlowID   *)
(*    returns flow.ZeroID;                                                  *)
(*  - ChainedTransactionResults                                            *)
(*    (src/storage/store/chained/transaction_results.go) reads the first    *)
(*    store and falls back to the second on storage.ErrNotFound (single     *)
(*    results) or on an empty list (ByBlockID).                             *)
(*                                                                         *)
(* The lookups have no state of their own: the properties quantify over   *)
(* every input (translators, store contents) of the bounds.                *)
(*                                                                         *)
(* Environment (not under src/): a translator knows an identifier or      *)
(* fails; a store holds, per block, the results of the block written in   *)
(* one batch, or none, or fails with an error other than ErrNotFound; the  *)
(* first store (the one being migrated to) holds a block only with the     *)
(* same results as the second.                                             *)
(***************************************************************************)
EXTENDS Naturals, Sequences, SequencesExt

CONSTANTS
  FlowIDs,         \* flow identifiers (model values)
  PeerIDs,         \* peer identifiers (model values)
  MaxTranslators,  \* translators of a HierarchicalIDTranslator
  Blocks,          \* block identifiers (model values)
  Txs              \* transactions of a block (model values); each has an index

Fail == "fail"
ZeroID == "ZeroID"

\* a translator: for each flow ID its peer ID or a failure, and back
Translators ==
  [toPeer : [FlowIDs -> PeerIDs \cup {Fail}], toFlow : [PeerIDs -> FlowIDs \cup {Fail}]]

\* a store's content for one block: it fails on the block, or holds the
\* results of these transactions (none: the block is not in the store)
Holds(txs) == [failed |-> FALSE, txs |-> txs]
Failing == [failed |-> TRUE, txs |-> {}]
\* the stores as a migration leaves them: the second holds every block's
\* results or fails on it; the first holds a block with all its results,
\* or not at all, or fails on it
StoreStates(txs) ==
  [first : {Failing, Holds({}), Holds(txs)}, second : {Failing, Holds(txs)}]

\* a ChainedTransactionResults over such stores, for the blocks' data
Chains(data) ==
  LET perBlock == {f \in [Blocks -> UNION {StoreStates(data[b]) : b \in Blocks}] :
                     \A b \in Blocks : f[b] \in StoreStates(data[b])}
  IN {[first |-> [b \in Blocks |-> f[b].first],
       second |-> [b \in Blocks |-> f[b].second]] : f \in perBlock}

-----------------------------------------------------------------------------
(* HierarchicalIDTranslator                                                *)

\* a lookup's outcome: the value found, or the errors collected in order
Found(v) == [ok |-> TRUE, value |-> v, errs |-> <<>>]
NotFound(v, errs) == [ok |-> FALSE, value |-> v, errs |-> errs]

\* mutant: the loop goes on after a success and keeps the last answer
RECURSIVE GetPeerIDLastWins(_, _, _, _)
GetPeerIDLastWins(ts, fid, i, res) ==
  IF i > Len(ts) THEN res
  ELSE IF ts[i].toPeer[fid] # Fail
         THEN GetPeerIDLastWins(ts, fid, i + 1, Found(ts[i].toPeer[fid]))
         ELSE GetPeerIDLastWins(ts, fid, i + 1,
                IF res.ok THEN res ELSE NotFound("", Append(res.errs, i)))

\* GetPeerID: for _, translator := range t.translators, return the first
\* peer ID; errs = multierror.Append(errs, err) for each failure; "" and
\* the wrapped errors when none knows it. An error is named by the index of
\* the translator that returned it.
RECURSIVE GetPeerID(_, _, _, _)
GetPeerID(ts, fid, i, res) ==
  IF i > Len(ts) THEN res
  ELSE IF ts[i].toPeer[fid] # Fail
         THEN Found(ts[i].toPeer[fid])
         ELSE GetPeerID(ts, fid, i + 1, NotFound("", Append(res.errs, i)))

\* GetFlowID: the first flow ID found; flow.ZeroID and an error otherwise
RECURSIVE GetFlowID(_, _, _)
GetFlowID(ts, pid, i) ==
  IF i > Len(ts) THEN NotFound(ZeroID, <<>>)
  ELSE IF ts[i].toFlow[pid] # Fail
         THEN Found(ts[i].toFlow[pid])
         ELSE GetFlowID(ts, pid, i + 1)
-----------------------------------------------------------------------------
(* ChainedTransactionResults                                               *)

\* a store's answer for one result: its error, ErrNotFound, or the result
StoreGet(entry, t) ==
  IF entry.failed THEN "err" ELSE IF t \in entry.txs THEN "none" ELSE "notFound"

\* a result lookup's outcome: its error ("none" on success) and the result
Result(err, t) == [err |-> err, tx |-> IF err = "none" THEN t ELSE "nil"]

\* mutant: the second store read on any error of the first
ByBlockIDTransactionIDAnyError(c, b, t) ==
  IF StoreGet(c.first[b], t) = "none" THEN Result("none", t)
  ELSE Result(StoreGet(c.second[b], t), t)

\* ByBlockIDTransactionID: the first store's result; on ErrNotFound the
\* second store's answer; any other error is returned
ByBlockIDTransactionID(c, b, t) ==
  LET r == StoreGet(c.first[b], t)
  IN CASE r = "none"     -> Result("none", t)
       [] r = "notFound" -> Result(StoreGet(c.second[b], t), t)
       [] OTHER          -> Result(r, t)

\* ByBlockIDTransactionIndex: the same fallback, by the transaction's index
\* in the block (a transaction stands for its index)
ByBlockIDTransactionIndex(c, b, i) ==
  LET r == StoreGet(c.first[b], i)
  IN CASE r = "none"     -> Result("none", i)
       [] r = "notFound" -> Result(StoreGet(c.second[b], i), i)
       [] OTHER          -> Result(r, i)

\* ByBlockID: the first store's error is returned; a non-empty list of
\* results is returned; an empty one falls back to the second store
ByBlockID(c, b) ==
  CASE c.first[b].failed    -> [err |-> "err", txs |-> {}]
    [] c.first[b].txs # {}  -> [err |-> "none", txs |-> c.first[b].txs]
    [] c.second[b].failed   -> [err |-> "err", txs |-> {}]
    [] OTHER                -> [err |-> "none", txs |-> c.second[b].txs]

-----------------------------------------------------------------------------
(* Properties                                                              *)

\* reference: the position of the first translator that knows the key
FirstKnowing(ts, knows(_)) ==
  LET idx == {i \in 1..Len(ts) : knows(ts[i])}
  IN IF idx = {} THEN 0 ELSE CHOOSE i \in idx : \A j \in idx : i <= j

(* Both translations answer what the first translator that knows the key   *)
(* answers, whatever the others say; when none knows it, GetPeerID reports *)
(* every translator's error, in order, and GetFlowID returns flow.ZeroID.  *)
HierarchicalFirstSuccess ==
  \A translators \in BoundedSeq(Translators, MaxTranslators) :
  /\ \A fid \in FlowIDs :
       LET k == FirstKnowing(translators, LAMBDA t : t.toPeer[fid] # Fail)
       IN GetPeerID(translators, fid, 1, NotFound("", <<>>)) =
            IF k = 0 THEN NotFound("", [i \in 1..Len(translators) |-> i])
            ELSE Found(translators[k].toPeer[fid])
  /\ \A pid \in PeerIDs :
       LET k == FirstKnowing(translators, LAMBDA t : t.toFlow[pid] # Fail)
       IN GetFlowID(translators, pid, 1) =
            IF k = 0 THEN NotFound(ZeroID, <<>>) ELSE Found(translators[k].toFlow[pid])

(* While results are migrated from the second store to the first, the     *)
(* three reads of ChainedTransactionResults agree with each other and with *)
(* the migrated data: a result is found, by transaction or by index,       *)
(* exactly when the block's list (ByBlockID) contains it, which is exactly *)
(* when the data holds it and the first store does not fail on the block;  *)
(* when the list fails, so does every single read.                         *)
ChainedViewsAgree ==
  \A data \in [Blocks -> SUBSET Txs] : \A c \in Chains(data) : \A b \in Blocks :
    LET list == ByBlockID(c, b)
    IN \A t \in Txs :
         /\ (ByBlockIDTransactionID(c, b, t).err = "none") = (list.err = "none" /\ t \in list.txs)
         /\ ByBlockIDTransactionIndex(c, b, t) = ByBlockIDTransactionID(c, b, t)
         /\ (list.err = "none" /\ t \in list.txs) =
              (t \in data[b] /\ ~c.first[b].failed /\ (c.first[b].txs = {} => ~c.second[b].failed))

====
