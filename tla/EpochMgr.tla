------------------------------- MODULE EpochMgr -------------------------------
(***************************************************************************)
(* The collection node's epoch manager (src/engine/collection/epochmgr/    *)
(* engine.go): the component that creates, starts and stops the bundle of  *)
(* cluster-consensus components of each epoch.                             *)
(*                                                                         *)
(* Actors, each an independent goroutine in the code:                      *)
(*   - the Start path (Engine.Start, run once by the node builder);        *)
(*   - three workers of the component manager: the epoch transition loop, *)
(*     the setup-phase loop and the stop-epoch loop;                       *)
(*   - the bundles of epoch components (Ready, Done, internal faults);     *)
(*   - the environment: the finalizer, which finalizes heights, delivers   *)
(*     protocol events into the engine's channels and runs the height      *)
(*     callbacks of the events.Heights registry.                           *)
(* A thrown irrecoverable error (ctx.Throw) terminates the node: the       *)
(* variable fault is then TRUE and nothing else happens.                   *)
(***************************************************************************)
EXTENDS Naturals, Sequences, FiniteSets, TLC

CONSTANTS
  MaxEpoch,        \* epochs are 0..MaxEpoch
  EpochLen,        \* number of heights of each epoch; epoch e starts at e*EpochLen
  SetupOffset,     \* offset within an epoch of the first block of its setup phase
  Expiry,          \* flow.DefaultTransactionExpiry
  TimeoutHeights,  \* heights that can be finalized while a timed wait is open
  MaxHeight,       \* last height the finalizer finalizes
  StartHeights     \* finalized heights at which the node may (re)start

ASSUME /\ MaxEpoch \in Nat \ {0}
       /\ EpochLen \in Nat /\ SetupOffset \in 1..(EpochLen - 1)
       /\ Expiry \in Nat \ {0}
       /\ TimeoutHeights \in 1..Expiry
       /\ MaxHeight \in Nat /\ StartHeights \subseteq 0..MaxHeight

Epochs == 0..MaxEpoch
Heights == 0..MaxHeight
NoBundle == 0

-----------------------------------------------------------------------------
(* The protocol state, read-only for the engine (spec_modelled).           *)

FirstHeight(e) == e * EpochLen
EpochOf(h) == h \div EpochLen
\* the epoch's phase is Setup from SetupOffset to its last block
InSetupPhase(h) == h % EpochLen >= SetupOffset

\* heights at which the finalizer emits EpochTransition / EpochSetupPhaseStarted
EventHeights ==
  [transition |-> {FirstHeight(e) : e \in Epochs \ {0}},
   setup      |-> {FirstHeight(e) + SetupOffset : e \in Epochs}]

\* the protocol events the finalizer emits when it finalizes height h
EventsAt(h) ==
  {[kind |-> k, h |-> h] : k \in {k \in DOMAIN EventHeights : h \in EventHeights[k]}}

-----------------------------------------------------------------------------
VARIABLES
  final,       \* latest finalized height
  outbox,      \* protocol events of the latest height not yet delivered
  trCh,        \* epochTransitionEvents: chan *flow.Header, capacity 1 (heights)
  setupCh,     \* epochSetupPhaseStartedEvents: capacity 1 (heights)
  stopCh,      \* epochStopEvents: chan uint64, capacity 1 (counters)
  regs,        \* callbacks registered with heightEvents.OnHeight
  epochs,      \* e.epochs: counter -> index of the stored bundle
  bundles,     \* every bundle ever created: [epoch, st]
  st,          \* locals of the Start path
  tr,          \* locals of handleEpochTransitionLoop
  sw,          \* locals of handleStopEpochLoop
  votes,       \* votes[e]: calls of voter.Vote for epoch e
  cleared,     \* epochs whose transaction pool was cleared
  authorized,  \* epochs the factory creates components for (fixed per run)
  fault        \* an irrecoverable error was thrown

vars == <<final, outbox, trCh, setupCh, stopCh, regs, epochs, bundles, st, tr,
          sw, votes, cleared, authorized, fault>>

\* mutation: the channels are made with capacity 2
ChanCapUnbounded == 2
ChanCap == 1
BundleStates == {"starting", "ready", "cancelled", "done"}
Live(b) == bundles[b].st # "done"

-----------------------------------------------------------------------------
(* Registry helpers (getEpochComponents, storeEpochComponents,             *)
(* removeEpoch): map reads and writes under e.mu.                          *)

Exists(c) == c \in DOMAIN epochs
StoreEpochComponents(c, b) == epochs' = (c :> b) @@ epochs
\* mutation: the delete from the map is forgotten
RemoveEpochForgotten(c) == epochs' = epochs
RemoveEpoch(c) == epochs' = [x \in DOMAIN epochs \ {c} |-> epochs[x]]

\* mutation: the + 1 is dropped
StopAtHeightNoSlack(epochMaxHeight) == epochMaxHeight + Expiry
\* stopAtHeight := epochMaxHeight + flow.DefaultTransactionExpiry + 1
StopAtHeight(epochMaxHeight) == epochMaxHeight + Expiry + 1

\* mutation: the callback sends the counter of the new epoch
PrepareToStopWrongCounter(epochCounter, epochMaxHeight, k) ==
  regs' = regs \cup {[h |-> StopAtHeight(epochMaxHeight), c |-> epochCounter + 1, k |-> k]}
\* prepareToStopEpochComponents: register the callback that sends the
\* counter on epochStopEvents; k tells the two registrations apart
PrepareToStop(epochCounter, epochMaxHeight, k) ==
  regs' = regs \cup {[h |-> StopAtHeight(epochMaxHeight), c |-> epochCounter, k |-> k]}

\* the factory result: components, ErrNotAuthorizedForEpoch or another error
FactoryResults(e) == IF e \in authorized THEN {"ok", "error"} ELSE {"unauthorized", "error"}

\* components.Start(epochCtx) on a fresh bundle
NewBundle(e) == bundles' = Append(bundles, [epoch |-> e, st |-> "starting"])
SetBundle(b, s) == bundles' = [bundles EXCEPT ![b].st = s]

Running == ~fault

-----------------------------------------------------------------------------
(* Start path: Engine.Start and checkShouldVoteOnStartup.                  *)

\* e.cm.Start(ctx): the three workers are launched
StartWorkers ==
  /\ Running /\ st.pc = "init"
  /\ st' = [st EXCEPT !.pc = "votecheck"]
  /\ UNCHANGED <<final, outbox, trCh, setupCh, stopCh, regs, epochs, bundles, tr, sw, votes, cleared, authorized, fault>>

\* mutation: the startup phase check is left out
ShouldVoteOnStartupNever(h) == FALSE
\* phase == flow.EpochPhaseSetup for the finalized snapshot
ShouldVoteOnStartup(h) == InSetupPhase(h)

\* checkShouldVoteOnStartup: in the setup phase, the finalized header is
\* sent on epochSetupPhaseStartedEvents (blocking while it is full)
CheckShouldVoteOnStartup ==
  /\ Running /\ st.pc = "votecheck"
  /\ \/ ~ShouldVoteOnStartup(final) /\ UNCHANGED setupCh
     \/ ShouldVoteOnStartup(final) /\ Len(setupCh) < ChanCap /\ setupCh' = Append(setupCh, final)
  /\ st' = [st EXCEPT !.pc = "create"]
  /\ UNCHANGED <<final, outbox, trCh, stopCh, regs, epochs, bundles, tr, sw, votes, cleared, authorized, fault>>

\* the current epoch is read from state.Final(); createEpochComponents;
\* not authorized: return; other error: Throw; else start the bundle
StartCreate ==
  /\ Running /\ st.pc = "create"
  /\ LET c == EpochOf(final) IN
     \E r \in FactoryResults(c) :
       \/ r = "unauthorized" /\ st' = [st EXCEPT !.pc = "done"]
          /\ UNCHANGED <<bundles, fault>>
       \/ r = "error" /\ fault' = TRUE /\ UNCHANGED <<st, bundles>>
       \/ r = "ok" /\ NewBundle(c)
          /\ st' = [pc |-> "await", c |-> c, b |-> Len(bundles) + 1, since |-> final]
          /\ UNCHANGED fault
  /\ UNCHANGED <<final, outbox, trCh, setupCh, stopCh, regs, epochs, tr, sw, votes, cleared, authorized>>

\* startEpochComponents: race Ready against the startup timeout
StartAwait ==
  /\ Running /\ st.pc = "await"
  /\ \/ bundles[st.b].st = "ready" /\ StoreEpochComponents(st.c, st.b)
        /\ st' = [st EXCEPT !.pc = "done"] /\ UNCHANGED <<bundles, fault>>
     \/ SetBundle(st.b, "cancelled") /\ fault' = TRUE /\ UNCHANGED <<st, epochs>>
  /\ UNCHANGED <<final, outbox, trCh, setupCh, stopCh, regs, tr, sw, votes, cleared, authorized>>

-----------------------------------------------------------------------------
(* handleEpochTransitionLoop and onEpochTransition.                        *)

WorkersStarted == st.pc # "init"

\* receive the first block of the new epoch; exit if its components
\* exist; register the stop of the previous epoch; create and start
TransitionReceive ==
  /\ Running /\ WorkersStarted /\ tr.pc = "idle" /\ trCh # <<>>
  /\ trCh' = Tail(trCh)
  /\ LET first == Head(trCh)
         c == EpochOf(first)
     IN
     \/ Exists(c) /\ UNCHANGED <<regs, tr, bundles, fault>>
     \/ ~Exists(c) /\ PrepareToStop(c - 1, first - 1, 1)
        /\ \E r \in FactoryResults(c) :
             \/ r = "unauthorized" /\ UNCHANGED <<tr, bundles, fault>>
             \/ r = "error" /\ fault' = TRUE /\ UNCHANGED <<tr, bundles>>
             \/ r = "ok" /\ NewBundle(c) /\ UNCHANGED fault
                /\ tr' = [pc |-> "await", c |-> c, first |-> first,
                          b |-> Len(bundles) + 1, since |-> final]
  /\ UNCHANGED <<final, outbox, setupCh, stopCh, epochs, st, sw, votes, cleared, authorized>>

\* startEpochComponents returned: store and register the stop again,
\* or time out and Throw
TransitionAwait ==
  /\ Running /\ tr.pc = "await"
  /\ \/ bundles[tr.b].st = "ready" /\ StoreEpochComponents(tr.c, tr.b)
        /\ PrepareToStop(tr.c - 1, tr.first - 1, 2)
        /\ tr' = [tr EXCEPT !.pc = "idle"] /\ UNCHANGED <<bundles, fault>>
     \/ SetBundle(tr.b, "cancelled") /\ fault' = TRUE /\ UNCHANGED <<tr, epochs, regs>>
  /\ UNCHANGED <<final, outbox, trCh, setupCh, stopCh, st, sw, votes, cleared, authorized>>

-----------------------------------------------------------------------------
(* handleStopEpochLoop and stopEpochComponents.                            *)

\* look up the epoch; absent: warn and return; else cancel its context
StopReceive ==
  /\ Running /\ WorkersStarted /\ sw.pc = "idle" /\ stopCh # <<>>
  /\ stopCh' = Tail(stopCh)
  /\ LET c == Head(stopCh) IN
     \/ ~Exists(c) /\ UNCHANGED <<sw, bundles>>
     \/ Exists(c) /\ SetBundle(epochs[c], "cancelled")
        /\ sw' = [pc |-> "await", c |-> c, b |-> epochs[c], since |-> final]
  /\ UNCHANGED <<final, outbox, trCh, setupCh, regs, epochs, st, tr, votes, cleared, authorized, fault>>

\* Done: remove the epoch and clear its pool; or time out and Throw
StopAwait ==
  /\ Running /\ sw.pc = "await"
  /\ \/ bundles[sw.b].st = "done" /\ RemoveEpoch(sw.c)
        /\ cleared' = cleared \cup {sw.c}
        /\ sw' = [sw EXCEPT !.pc = "idle"] /\ UNCHANGED fault
     \/ fault' = TRUE /\ UNCHANGED <<sw, epochs, cleared>>
  /\ UNCHANGED <<final, outbox, trCh, setupCh, stopCh, regs, bundles, st, tr, votes, authorized>>

-----------------------------------------------------------------------------
(* handleEpochSetupPhaseStartedLoop and onEpochSetupPhaseStarted: vote     *)
(* for the next epoch relative to the received block; errors are logged.   *)

SetupReceive ==
  /\ Running /\ WorkersStarted /\ setupCh # <<>>
  /\ setupCh' = Tail(setupCh)
  /\ LET next == EpochOf(Head(setupCh)) + 1 IN
     votes' = [votes EXCEPT ![next] = @ + 1]
  /\ UNCHANGED <<final, outbox, trCh, stopCh, regs, epochs, bundles, st, tr, sw, cleared, authorized, fault>>

-----------------------------------------------------------------------------
(* The bundles: Ready after start, Done after cancel, and faults raised in *)
(* their private context, forwarded by handleEpochErrors to ctx.Throw.     *)

BundleReady(b) ==
  /\ Running /\ bundles[b].st = "starting"
  /\ SetBundle(b, "ready")
  /\ UNCHANGED <<final, outbox, trCh, setupCh, stopCh, regs, epochs, st, tr, sw, votes, cleared, authorized, fault>>

BundleDone(b) ==
  /\ Running /\ bundles[b].st = "cancelled"
  /\ SetBundle(b, "done")
  /\ UNCHANGED <<final, outbox, trCh, setupCh, stopCh, regs, epochs, st, tr, sw, votes, cleared, authorized, fault>>

HandleEpochErrors(b) ==
  /\ Running /\ Live(b)
  /\ fault' = TRUE
  /\ UNCHANGED <<final, outbox, trCh, setupCh, stopCh, regs, epochs, bundles, st, tr, sw, votes, cleared, authorized>>

-----------------------------------------------------------------------------
(* The environment (spec_modelled): the finalizer and events.Heights.      *)

\* Timed waits last at most TimeoutHeights finalized heights, and an idle
\* goroutine takes a queued event before the next block is finalized.
Timely ==
  /\ \A w \in {st, tr, sw} : w.pc = "await" => final < w.since + TimeoutHeights
  /\ st.pc \in {"await", "done"}
  /\ trCh # <<>> => tr.pc = "await"
  /\ stopCh # <<>> => sw.pc = "await"
  /\ setupCh = <<>>

\* a callback is pending when its height is finalized
Due == {r \in regs : r.h <= final}

Finalize ==
  /\ Running /\ final < MaxHeight
  /\ outbox = {} /\ Due = {} /\ Timely
  /\ final' = final + 1
  /\ outbox' = EventsAt(final + 1)
  /\ UNCHANGED <<trCh, setupCh, stopCh, regs, epochs, bundles, st, tr, sw, votes, cleared, authorized, fault>>

\* EpochTransition / EpochSetupPhaseStarted: a blocking channel send
DeliverEvent ==
  /\ Running
  /\ \E ev \in outbox :
       /\ outbox' = outbox \ {ev}
       /\ \/ ev.kind = "transition" /\ Len(trCh) < ChanCap
             /\ trCh' = Append(trCh, ev.h) /\ UNCHANGED setupCh
          \/ ev.kind = "setup" /\ Len(setupCh) < ChanCap
             /\ setupCh' = Append(setupCh, ev.h) /\ UNCHANGED trCh
  /\ UNCHANGED <<final, stopCh, regs, epochs, bundles, st, tr, sw, votes, cleared, authorized, fault>>

\* the OnHeight callback: e.epochStopEvents <- epochCounter
FireHeightCallback ==
  /\ Running
  /\ \E r \in Due :
       /\ Len(stopCh) < ChanCap
       /\ stopCh' = Append(stopCh, r.c)
       /\ regs' = regs \ {r}
  /\ UNCHANGED <<final, outbox, trCh, setupCh, epochs, bundles, st, tr, sw, votes, cleared, authorized, fault>>

\* the node has stopped (Throw) or the bounded run is over
Quiescent ==
  \/ fault
  \/ /\ final = MaxHeight /\ outbox = {} /\ Due = {} /\ Timely
     /\ tr.pc = "idle" /\ sw.pc = "idle" /\ trCh = <<>> /\ stopCh = <<>>
Halt == Quiescent /\ UNCHANGED vars

-----------------------------------------------------------------------------
Init ==
  /\ final \in StartHeights
  /\ outbox \in SUBSET EventsAt(final)
  /\ trCh = <<>> /\ setupCh = <<>> /\ stopCh = <<>>
  /\ regs = {}
  /\ epochs = <<>>
  /\ bundles = <<>>
  /\ st = [pc |-> "init", c |-> 0, b |-> NoBundle, since |-> 0]
  /\ tr = [pc |-> "idle", c |-> 0, first |-> 0, b |-> NoBundle, since |-> 0]
  /\ sw = [pc |-> "idle", c |-> 0, b |-> NoBundle, since |-> 0]
  /\ votes = [e \in 0..(MaxEpoch + 1) |-> 0]
  /\ cleared = {}
  /\ authorized \in SUBSET Epochs
  /\ fault = FALSE

Next ==
  \/ StartWorkers \/ CheckShouldVoteOnStartup \/ StartCreate \/ StartAwait
  \/ TransitionReceive \/ TransitionAwait
  \/ StopReceive \/ StopAwait
  \/ SetupReceive
  \/ \E b \in DOMAIN bundles : BundleReady(b) \/ BundleDone(b) \/ HandleEpochErrors(b)
  \/ Finalize \/ DeliverEvent \/ FireHeightCallback
  \/ Halt

\* Every goroutine of the engine and the finalizer is scheduled; bundles
\* honour the start/stop contract. Internal bundle faults and timeouts are
\* not forced.
Fairness ==
  /\ WF_vars(StartWorkers) /\ WF_vars(CheckShouldVoteOnStartup) /\ WF_vars(StartCreate) /\ WF_vars(StartAwait)
  /\ WF_vars(TransitionReceive) /\ WF_vars(TransitionAwait)
  /\ WF_vars(StopReceive) /\ WF_vars(StopAwait) /\ WF_vars(SetupReceive)
  /\ \A b \in 1..(2 * (MaxEpoch + 1)) :
       WF_vars(b \in DOMAIN bundles /\ BundleReady(b)) /\ WF_vars(b \in DOMAIN bundles /\ BundleDone(b))
  /\ WF_vars(Finalize) /\ WF_vars(DeliverEvent) /\ WF_vars(FireHeightCallback)

Spec == Init /\ [][Next]_vars /\ Fairness

-----------------------------------------------------------------------------
(* Properties                                                              *)

TypeOK ==
  /\ final \in Heights
  /\ trCh \in Seq(Heights) /\ setupCh \in Seq(Heights) /\ stopCh \in Seq(Nat)
  /\ Len(trCh) <= 1 /\ Len(setupCh) <= 1 /\ Len(stopCh) <= 1
  /\ DOMAIN epochs \subseteq Epochs
  /\ \A c \in DOMAIN epochs : epochs[c] \in DOMAIN bundles
  /\ \A b \in DOMAIN bundles : bundles[b].epoch \in Epochs /\ bundles[b].st \in BundleStates
  /\ st.pc \in {"init", "votecheck", "create", "await", "done"}
  /\ tr.pc \in {"idle", "await"} /\ sw.pc \in {"idle", "await"}
  /\ cleared \subseteq Epochs /\ fault \in BOOLEAN

\* Cardinality (spec section 8): the engine's map never holds more than two
\* epochs. It relies on the stop of epoch N-1 being scheduled by the
\* transition to N and executed by the stop loop before N+1 starts.
AtMostTwoEpochs == Cardinality(DOMAIN epochs) <= 2

\* Grace period: the stop loop cancels a bundle of epoch e only once the
\* height lastEpochMaxHeight + DefaultTransactionExpiry + 1 of e is
\* finalized, so that every transaction referencing a block of e expired.
GracePeriodRespected ==
  \A b \in DOMAIN bundles :
    (bundles[b].st \in {"cancelled", "done"} /\ ~fault)
      => final >= FirstHeight(bundles[b].epoch + 1) + Expiry

\* Every epoch stored in the map except the last one is eventually stopped
\* and removed (unless the node failed).
EpochsEventuallyStopped ==
  \A e \in Epochs \ {MaxEpoch} : Exists(e) ~> (~Exists(e) \/ fault)



\* Every setup phase the node is up for ends with a vote for the next
\* epoch's root QC, whether the node saw the phase begin (the
\* EpochSetupPhaseStarted event) or restarted inside it (the check of
\* checkShouldVoteOnStartup), unless the node failed.
SetupPhase(e) == (FirstHeight(e) + SetupOffset)..(FirstHeight(e + 1) - 1)
VotedInEverySetupPhase ==
  \A e \in Epochs : final \in SetupPhase(e) ~> (votes[e + 1] > 0 \/ fault)

\* Refinement: the engine's map implements the abstract lifecycle, with the
\* epochs whose pools were cleared as the released ones. It fails if an
\* epoch is stored before its first block or after its grace period, is
\* removed early, or is stored again after its removal.
Lifecycle == INSTANCE EpochLifecycle WITH running <- DOMAIN epochs, ended <- cleared
ImplementsLifecycle == Lifecycle!Spec

\* The spec (section 3): a new bundle for a counter is never created once
\* one has existed. The Start path and onEpochTransition both create one.
AtMostOneBundlePerEpoch ==
  \A b1, b2 \in DOMAIN bundles : bundles[b1].epoch = bundles[b2].epoch => b1 = b2

=============================================================================
