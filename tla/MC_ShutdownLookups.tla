------------------------- MODULE MC_ShutdownLookups -------------------------
(***************************************************************************)
(* Four parts of the node that share no state, checked in one run:         *)
(*  - the shutdown of the collection node's epoch manager                  *)
(*    (EpochMgrShutdown, src/engine/collection/epochmgr/engine.go);        *)
(*  - the epoch contract client's WaitForSealed (BaseClient,               *)
(*    src/module/epochs/base_client.go);                                   *)
(*  - the hierarchical ID translator and the chained transaction results   *)
(*    (FallbackLookup), and the EVM block context (BlockContext): pure     *)
(*    lookups whose properties hold for every input, with no state.        *)
(* The engine's and the client's steps interleave; each keeps the fairness *)
(* of its own module.                                                      *)
(***************************************************************************)
EXTENDS Naturals

CONSTANTS MaxAttempts, MaxKeys, KeyIndex, MaxTranslators,
          f1, p1, p2, b1, b2, t1, t2

VARIABLES
  ctxDone, bundle, epochs, trEvent, stopEvent, notices, tr, sw, doneCalled,
  doneSnap, doneClosed, fault,                           \* EpochMgrShutdown
  status, execErr, clientPc, result, attempts, ret       \* BaseClient

E == INSTANCE EpochMgrShutdown
C == INSTANCE BaseClient WITH pc <- clientPc
L == INSTANCE FallbackLookup
       WITH FlowIDs <- {f1}, PeerIDs <- {p1, p2}, Blocks <- {b1, b2}, Txs <- {t1, t2}
B == INSTANCE BlockContext

engineVars == <<ctxDone, bundle, epochs, trEvent, stopEvent, notices, tr, sw,
                doneCalled, doneSnap, doneClosed, fault>>
clientVars == <<status, execErr, clientPc, result, attempts, ret>>
vars == <<engineVars, clientVars>>

Init == E!Init /\ C!Init

Next ==
  \/ E!Next /\ UNCHANGED clientVars
  \/ C!Next /\ UNCHANGED engineVars

\* EpochMgrShutdown's fairness (its workers, the bundles, Done's goroutine)
\* and BaseClient's (the caller's goroutine, the network)
Spec ==
  /\ Init /\ [][Next]_vars
  /\ WF_engineVars(E!TransitionReceive \/ E!TransitionReady \/ E!TransitionExit)
  /\ WF_engineVars(E!StopReceive \/ E!StopDone \/ E!StopExit)
  /\ WF_engineVars(E!TransitionTimeout) /\ WF_engineVars(E!StopTimeout)
  /\ WF_engineVars(E!DoneCall) /\ WF_engineVars(E!DoneClose)
  /\ \A k \in E!Counters : WF_engineVars(E!BundleDone(k))
  /\ \A k \in E!Counters : WF_engineVars(~bundle[k].cancelled /\ E!BundleReady(k))
  /\ WF_clientVars(C!Client) /\ WF_clientVars(C!Progress)

TypeOK == E!TypeOK /\ C!TypeOK

\* The lookups' properties quantify over all their inputs and hold in no
\* particular state: each is stated, with TypeOK, of every state of the run,
\* so that TLC reports a failure of it as the violation of an invariant.

(* EpochMgrShutdown: after cancellation Done() closes and every bundle    *)
(* finishes, unless a timeout is thrown.                                   *)
ShutdownCompletes == E!ShutdownCompletes

(* BaseClient: WaitForSealed reports success only for a sealed transaction *)
(* whose execution did not fail.                                           *)
SealedOnlySuccess == C!SealedOnlySuccess

(* BaseClient: the caller eventually gets an answer.                       *)
WaitForSealedTerminates == C!WaitForSealedTerminates

(* HierarchicalIDTranslator answers as the first translator that knows the *)
(* key, and reports every error when none does.                            *)
HierarchicalFirstSuccess == TypeOK /\ L!HierarchicalFirstSuccess

(* ChainedTransactionResults' three reads agree with each other and with   *)
(* the migrated data.                                                      *)
ChainedViewsAgree == TypeOK /\ L!ChainedViewsAgree

(* BlockContext: BLOCKHASH answers as when the block was executed.         *)
BlockHashAsExecuted == TypeOK /\ B!BlockHashAsExecuted
=============================================================================
