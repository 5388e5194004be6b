------------------------------ MODULE GhostRPC ------------------------------
(***************************************************************************)
(* The ghost node's gRPC engine                                            *)
(* (src/integration/ghost/engine/ghost/rpc/engine.go).                     *)
(*                                                                         *)
(* New registers the engine on the network for every engine ID            *)
(* (registerConduits) and fails on the first error. Ready launches serve  *)
(* on the engine's unit; serve listens and blocks in server.Serve until   *)
(* GracefulStop. Submit launches process (which returns nil) on the unit. *)
(* Done cancels the unit, stops the server and waits for every launched   *)
(* goroutine.                                                              *)
(*                                                                         *)
(* Environment (not under src/): the network's Register either refuses a  *)
(* channel that already has an engine (the libp2p and stub networks) or   *)
(* hands out another conduit (`netRefuses`, fixed for the run); the       *)
(* engine.Unit (Launch adds to a wait group, Ready closes its channel      *)
(* after no checks, Done cancels, runs its actions and waits); the node   *)
(* calls Ready before Done, if at all; net.Listen succeeds or fails;       *)
(* Serve returns once GracefulStop was called, also when it is called      *)
(* first (grpc.ErrServerStopped).                                          *)
(***************************************************************************)
EXTENDS Naturals, Sequences, FiniteSets

CONSTANTS
  AllEngineIDs,        \* allEngineIDs, in order (a sequence of model values)
  CollectionProvider,  \* engine.CollectionProvider, the first of them
  MaxSubmits           \* events submitted to the engine

ASSUME AllEngineIDs[1] = CollectionProvider /\ MaxSubmits \in Nat

EngineIDs == {AllEngineIDs[i] : i \in 1..Len(AllEngineIDs)}
NoConduit == "none"

VARIABLES
  netRefuses,   \* the network refuses a second engine on a channel
  netEngines,   \* channels the network has an engine registered on
  conduitMap,   \* engine ID -> channel of the conduit stored for it
  phase,        \* New's outcome: "new", "failed", "constructed"
  readyCalled,  \* Ready() has been called (its channel closes at once)
  serve,        \* the serve goroutine: none, launched, serving, returned
  procs,        \* process goroutines launched by Submit and not yet done
  submits,      \* events submitted so far
  doneCalled,   \* Done() has been called: the unit is cancelled
  stopped,      \* server.GracefulStop has been called
  doneClosed    \* the channel Done() returned is closed

vars == <<netRefuses, netEngines, conduitMap, phase, readyCalled, serve, procs,
          submits, doneCalled, stopped, doneClosed>>

TypeOK ==
  /\ netRefuses \in BOOLEAN /\ netEngines \subseteq EngineIDs
  /\ conduitMap \in [EngineIDs -> EngineIDs \cup {NoConduit}]
  /\ phase \in {"new", "failed", "constructed"} /\ readyCalled \in BOOLEAN
  /\ serve \in {"none", "launched", "serving", "returned"}
  /\ procs \in 0..MaxSubmits /\ submits \in 0..MaxSubmits
  /\ doneCalled \in BOOLEAN /\ stopped \in BOOLEAN /\ doneClosed \in BOOLEAN

Init ==
  /\ netRefuses \in BOOLEAN /\ netEngines = {}
  /\ conduitMap = [e \in EngineIDs |-> NoConduit]
  /\ phase = "new" /\ readyCalled = FALSE /\ serve = "none"
  /\ procs = 0 /\ submits = 0
  /\ doneCalled = FALSE /\ stopped = FALSE /\ doneClosed = FALSE

-----------------------------------------------------------------------------
(* New / registerConduits                                                  *)

\* net.Register(channel, eng): an error when the network refuses a channel
\* already taken, and the channels registered afterwards
Register(reg, ch) ==
  IF netRefuses /\ ch \in reg THEN [err |-> TRUE, reg |-> reg]
  ELSE [err |-> FALSE, reg |-> reg \cup {ch}]

\* the loop over allEngineIDs from position i: every iteration registers
\* on engine.CollectionProvider and stores the conduit under e; the first
\* error ends it. The network keeps what was registered before the error.
RECURSIVE RegisterConduits(_, _, _)
RegisterConduits(i, reg, cmap) ==
  IF i > Len(AllEngineIDs) THEN [err |-> FALSE, reg |-> reg, cmap |-> cmap]
  ELSE LET r == Register(reg, CollectionProvider)
       IN IF r.err THEN [err |-> TRUE, reg |-> reg, cmap |-> cmap]
          ELSE RegisterConduits(i + 1, r.reg,
                 [cmap EXCEPT ![AllEngineIDs[i]] = CollectionProvider])

\* New: registerConduits; on its error New returns nil and the error,
\* otherwise the handler is built on the conduit map
New ==
  /\ phase = "new"
  /\ LET r == RegisterConduits(1, netEngines, conduitMap)
     IN /\ netEngines' = r.reg
        /\ conduitMap' = IF r.err THEN conduitMap ELSE r.cmap
        /\ phase' = IF r.err THEN "failed" ELSE "constructed"
  /\ UNCHANGED <<netRefuses, readyCalled, serve, procs, submits, doneCalled,
                 stopped, doneClosed>>

-----------------------------------------------------------------------------
(* Lifecycle                                                               *)

\* Ready: e.unit.Launch(e.serve); e.unit.Ready() closes with no checks
Ready ==
  /\ phase = "constructed" /\ ~readyCalled /\ ~doneCalled
  /\ readyCalled' = TRUE /\ serve' = "launched"
  /\ UNCHANGED <<netRefuses, netEngines, conduitMap, phase, procs, submits,
                 doneCalled, stopped, doneClosed>>

\* serve: net.Listen fails (logged, return), or server.Serve(l) runs; a
\* server already stopped makes Serve return at once
ServeListen ==
  /\ serve = "launched"
  /\ \/ serve' = "returned"
     \/ serve' = IF stopped THEN "returned" ELSE "serving"
  /\ UNCHANGED <<netRefuses, netEngines, conduitMap, phase, readyCalled, procs,
                 submits, doneCalled, stopped, doneClosed>>

\* server.Serve returns after GracefulStop; the error is logged
ServeReturn ==
  /\ serve = "serving" /\ stopped
  /\ serve' = "returned"
  /\ UNCHANGED <<netRefuses, netEngines, conduitMap, phase, readyCalled, procs,
                 submits, doneCalled, stopped, doneClosed>>

\* Submit (and SubmitLocal): e.unit.Launch of process, with no check of the
\* unit's context
Submit ==
  /\ phase = "constructed" /\ submits < MaxSubmits
  /\ submits' = submits + 1 /\ procs' = procs + 1
  /\ UNCHANGED <<netRefuses, netEngines, conduitMap, phase, readyCalled, serve,
                 doneCalled, stopped, doneClosed>>

\* mutant: a goroutine's end counted without one running (wait group
\* Done without Add)
ProcessReturnUnguarded ==
  /\ procs' = procs - 1
  /\ UNCHANGED <<netRefuses, netEngines, conduitMap, phase, readyCalled, serve,
                 submits, doneCalled, stopped, doneClosed>>

\* process returns nil: the goroutine ends (nothing is logged)
ProcessReturn ==
  /\ procs > 0
  /\ procs' = procs - 1
  /\ UNCHANGED <<netRefuses, netEngines, conduitMap, phase, readyCalled, serve,
                 submits, doneCalled, stopped, doneClosed>>

\* Done: e.unit.Done(e.server.GracefulStop) cancels the unit
DoneCall ==
  /\ phase = "constructed" /\ ~doneCalled
  /\ doneCalled' = TRUE
  /\ UNCHANGED <<netRefuses, netEngines, conduitMap, phase, readyCalled, serve,
                 procs, submits, stopped, doneClosed>>

\* mutant: Done passes no action, so the server is never stopped
GracefulStopMissing == stopped
\* the action passed to unit.Done: server.GracefulStop
StopServer == TRUE

\* Done's goroutine runs its action
DoneStop ==
  /\ doneCalled /\ ~stopped
  /\ stopped' = StopServer
  /\ UNCHANGED <<netRefuses, netEngines, conduitMap, phase, readyCalled, serve,
                 procs, submits, doneCalled, doneClosed>>

\* then waits for the unit's wait group and closes the channel
DoneClose ==
  /\ doneCalled /\ stopped /\ ~doneClosed
  /\ serve \notin {"launched", "serving"} /\ procs = 0
  /\ doneClosed' = TRUE
  /\ UNCHANGED <<netRefuses, netEngines, conduitMap, phase, readyCalled, serve,
                 procs, submits, doneCalled, stopped>>

Next ==
  \/ New \/ Ready \/ ServeListen \/ ServeReturn \/ Submit \/ ProcessReturn
  \/ DoneCall \/ DoneStop \/ DoneClose

\* the unit's goroutines run: serve, process, and Done's goroutine
Fairness ==
  /\ WF_vars(ServeListen) /\ WF_vars(ServeReturn) /\ WF_vars(ProcessReturn)
  /\ WF_vars(DoneStop) /\ WF_vars(DoneClose)

Spec == Init /\ [][Next]_vars /\ Fairness

-----------------------------------------------------------------------------
(* Properties                                                              *)

(* registerConduits "registers for ALL channels and returns a map of       *)
(* engine id to conduit": whenever New has run, it succeeded and every     *)
(* engine ID has a conduit registered on its own channel.                  *)
NewRegistersEveryChannel ==
  phase # "new" =>
    /\ phase = "constructed"
    /\ \A e \in EngineIDs : conduitMap[e] = e /\ e \in netEngines

(* Once Done() is called, the server is stopped, serve and every process   *)
(* goroutine launched by Submit return, and the channel Done() returned    *)
(* closes.                                                                 *)
GhostDoneCloses == doneCalled ~> doneClosed
====
