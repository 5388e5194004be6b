--------------------------- MODULE EpochMgrShutdown ---------------------------
(***************************************************************************)
(* Shutdown of the collection node's epoch manager                         *)
(* (src/engine/collection/epochmgr/engine.go): the engine's context is     *)
(* cancelled while the transition worker may be starting the next epoch's  *)
(* bundle and the stop worker may be stopping the previous one, and Done() *)
(* snapshots the epochs map under the lock and waits for the component     *)
(* manager's workers and the snapshotted bundles.                          *)
(*                                                                         *)
(* Scope: Start has stored epoch 0's bundle; the EpochTransition for       *)
(* epoch 1 is queued; the stop notice for epoch 0 arrives later. Worker    *)
(* loops select between ctx.Done() and their queue, so either case may be *)
(* taken once both are ready.                                              *)
(*                                                                         *)
(* Environment (not under src/): a bundle's lifecycle (its Ready may never *)
(* close once it is cancelled before being ready; once cancelled it is    *)
(* eventually done); the node cancelling the engine's context and then     *)
(* calling Done(); ctx.Throw ending the process (`fault`).                 *)
(***************************************************************************)
EXTENDS Naturals, FiniteSets

Counters == {0, 1}
BundleStates == {"none", "starting", "ready", "done"}

VARIABLES
  ctxDone,     \* the engine's context is cancelled
  bundle,      \* each epoch's bundle: lifecycle state, its context cancelled
  epochs,      \* e.epochs: counters of stored bundles
  trEvent,     \* the EpochTransition for epoch 1 is queued
  stopEvent,   \* the stop notice for epoch 0 is queued
  notices,     \* stop notices for epoch 0 delivered so far
  tr,          \* transition worker: idle, await (startEpochComponents), exited
  sw,          \* stop worker: idle, await (stopEpochComponents), exited
  doneCalled,  \* Done() has been called
  doneSnap,    \* the counters Done() read under the lock
  doneClosed,  \* the channel Done() returned is closed
  fault        \* ctx.Throw: the process ends

vars == <<ctxDone, bundle, epochs, trEvent, stopEvent, notices, tr, sw, doneCalled, doneSnap,
          doneClosed, fault>>

TypeOK ==
  /\ ctxDone \in BOOLEAN
  /\ bundle \in [Counters -> [state : BundleStates, cancelled : BOOLEAN]]
  /\ epochs \subseteq Counters
  /\ trEvent \in BOOLEAN /\ stopEvent \in BOOLEAN /\ notices \in 0..2
  /\ tr \in {"idle", "await", "exited"} /\ sw \in {"idle", "await", "exited"}
  /\ doneCalled \in BOOLEAN /\ doneSnap \subseteq Counters
  /\ doneClosed \in BOOLEAN /\ fault \in BOOLEAN

\* after Start: epoch 0's bundle ready and stored, the transition queued
Init ==
  /\ ctxDone = FALSE
  /\ bundle = [c \in Counters |->
                 [state |-> IF c = 0 THEN "ready" ELSE "none", cancelled |-> FALSE]]
  /\ epochs = {0}
  /\ trEvent = TRUE /\ stopEvent = FALSE /\ notices = 0
  /\ tr = "idle" /\ sw = "idle"
  /\ doneCalled = FALSE /\ doneSnap = {} /\ doneClosed = FALSE /\ fault = FALSE

Running == ~fault

-----------------------------------------------------------------------------
(* Transition worker: handleEpochTransitionLoop / startEpochComponents     *)

\* irrecoverable.WithSignallerAndCancel(engineCtx): the bundle's context is
\* cancelled if the engine's already is
NewBundleContext == ctxDone

\* case firstBlock := <-e.epochTransitionEvents: create the bundle and
\* components.Start(epochCtx)
TransitionReceive ==
  /\ Running /\ tr = "idle" /\ trEvent
  /\ trEvent' = FALSE
  /\ bundle' = [bundle EXCEPT ![1] = [state |-> "starting", cancelled |-> NewBundleContext]]
  /\ tr' = "await"
  /\ UNCHANGED <<ctxDone, epochs, stopEvent, notices, sw, doneCalled, doneSnap, doneClosed, fault>>

\* case <-components.Ready(): storeEpochComponents; back to the loop
TransitionReady ==
  /\ Running /\ tr = "await" /\ bundle[1].state = "ready"
  /\ epochs' = epochs \cup {1} /\ tr' = "idle"
  /\ UNCHANGED <<ctxDone, bundle, trEvent, stopEvent, notices, sw, doneCalled, doneSnap, doneClosed, fault>>

\* case <-time.After(startupTimeout): Ready has not closed (a bundle
\* cancelled while starting may finish without being ready); cancel(), and
\* the error is thrown
TransitionTimeout ==
  /\ Running /\ tr = "await" /\ bundle[1].state # "ready"
  /\ bundle' = [bundle EXCEPT ![1].cancelled = TRUE]
  /\ fault' = TRUE
  /\ UNCHANGED <<ctxDone, epochs, trEvent, stopEvent, notices, tr, sw, doneCalled, doneSnap, doneClosed>>

\* mutant: a loop whose select has no ctx.Done() case
TransitionExitMissing == FALSE

\* case <-ctx.Done(): return
TransitionExit ==
  /\ Running /\ tr = "idle" /\ ctxDone
  /\ tr' = "exited"
  /\ UNCHANGED <<ctxDone, bundle, epochs, trEvent, stopEvent, notices, sw, doneCalled, doneSnap, doneClosed, fault>>

-----------------------------------------------------------------------------
(* Stop worker: handleStopEpochLoop / stopEpochComponents                  *)

\* case epochCounter := <-e.epochStopEvents: a missing epoch is a no-op;
\* otherwise cancel it and wait for Done
StopReceive ==
  /\ Running /\ sw = "idle" /\ stopEvent
  /\ stopEvent' = FALSE
  /\ IF 0 \in epochs
       THEN bundle' = [bundle EXCEPT ![0].cancelled = TRUE] /\ sw' = "await"
       ELSE UNCHANGED <<bundle, sw>>
  /\ UNCHANGED <<ctxDone, epochs, trEvent, notices, tr, doneCalled, doneSnap, doneClosed, fault>>

\* case <-components.Done(): removeEpoch (and the pool is cleared)
StopDone ==
  /\ Running /\ sw = "await" /\ bundle[0].state = "done"
  /\ epochs' = epochs \ {0} /\ sw' = "idle"
  /\ UNCHANGED <<ctxDone, bundle, trEvent, stopEvent, notices, tr, doneCalled, doneSnap, doneClosed, fault>>

\* case <-time.After(startupTimeout): the error is thrown
StopTimeout ==
  /\ Running /\ sw = "await" /\ bundle[0].state # "done"
  /\ fault' = TRUE
  /\ UNCHANGED <<ctxDone, bundle, epochs, trEvent, stopEvent, notices, tr, sw, doneCalled, doneSnap, doneClosed>>

StopExit ==
  /\ Running /\ sw = "idle" /\ ctxDone
  /\ sw' = "exited"
  /\ UNCHANGED <<ctxDone, bundle, epochs, trEvent, stopEvent, notices, tr, doneCalled, doneSnap, doneClosed, fault>>

-----------------------------------------------------------------------------
(* Done() and the environment                                              *)

\* Done(): under e.mu, the component manager and every stored bundle
DoneCall ==
  /\ Running /\ ctxDone /\ ~doneCalled
  /\ doneCalled' = TRUE /\ doneSnap' = epochs
  /\ UNCHANGED <<ctxDone, bundle, epochs, trEvent, stopEvent, notices, tr, sw, doneClosed, fault>>

\* util.AllDone: closes once the workers returned and every snapshotted
\* bundle is done
DoneClose ==
  /\ Running /\ doneCalled /\ ~doneClosed
  /\ tr = "exited" /\ sw = "exited"
  /\ \A c \in doneSnap : bundle[c].state = "done"
  /\ doneClosed' = TRUE
  /\ UNCHANGED <<ctxDone, bundle, epochs, trEvent, stopEvent, notices, tr, sw, doneCalled, doneSnap, fault>>

\* the height callback for epoch 0's stop fires after the transition; it
\* was registered twice (before and after starting the new bundle), so it
\* fires twice
StopNotice ==
  /\ Running /\ ~trEvent /\ ~stopEvent /\ notices < 2
  /\ stopEvent' = TRUE /\ notices' = notices + 1
  /\ UNCHANGED <<ctxDone, bundle, epochs, trEvent, tr, sw, doneCalled, doneSnap, doneClosed, fault>>

\* the node cancels the engine's context; every bundle's context derives
\* from it
Shutdown ==
  /\ Running /\ ~ctxDone
  /\ ctxDone' = TRUE
  /\ bundle' = [c \in Counters |->
                  IF bundle[c].state = "none" THEN bundle[c]
                  ELSE [bundle[c] EXCEPT !.cancelled = TRUE]]
  /\ UNCHANGED <<epochs, trEvent, stopEvent, notices, tr, sw, doneCalled, doneSnap, doneClosed, fault>>

\* a starting bundle becomes ready (not guaranteed once cancelled)
BundleReady(c) ==
  /\ Running /\ bundle[c].state = "starting"
  /\ bundle' = [bundle EXCEPT ![c].state = "ready"]
  /\ UNCHANGED <<ctxDone, epochs, trEvent, stopEvent, notices, tr, sw, doneCalled, doneSnap, doneClosed, fault>>

\* a cancelled bundle finishes
BundleDone(c) ==
  /\ Running /\ bundle[c].cancelled /\ bundle[c].state \in {"starting", "ready"}
  /\ bundle' = [bundle EXCEPT ![c].state = "done"]
  /\ UNCHANGED <<ctxDone, epochs, trEvent, stopEvent, notices, tr, sw, doneCalled, doneSnap, doneClosed, fault>>

Next ==
  \/ TransitionReceive \/ TransitionReady \/ TransitionTimeout \/ TransitionExit
  \/ StopReceive \/ StopDone \/ StopTimeout \/ StopExit
  \/ DoneCall \/ DoneClose \/ StopNotice \/ Shutdown
  \/ \E c \in Counters : BundleReady(c) \/ BundleDone(c)

\* the engine's goroutines run; the node calls Done() after cancelling; a
\* bundle that is not cancelled becomes ready, and a cancelled one done;
\* a timer fires once its wait is over
Spec ==
  /\ Init /\ [][Next]_vars
  /\ WF_vars(TransitionReceive \/ TransitionReady \/ TransitionExit)
  /\ WF_vars(StopReceive \/ StopDone \/ StopExit)
  /\ WF_vars(TransitionTimeout) /\ WF_vars(StopTimeout)
  /\ WF_vars(DoneCall) /\ WF_vars(DoneClose)
  /\ \A c \in Counters : WF_vars(BundleDone(c))
  /\ \A c \in Counters : WF_vars(~bundle[c].cancelled /\ BundleReady(c))

-----------------------------------------------------------------------------
(* Properties                                                              *)

(* After the node cancels the engine's context, Done() eventually closes   *)
(* and every bundle ever started eventually finishes, unless the process  *)
(* ends on a thrown error.                                                 *)
ShutdownCompletes ==
  ctxDone ~> (fault \/ (doneClosed /\ \A c \in Counters : bundle[c].state \in {"none", "done"}))

=============================================================================
