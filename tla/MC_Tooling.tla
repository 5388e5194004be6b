------------------------------ MODULE MC_Tooling ------------------------------
(***************************************************************************)
(* Four programs outside the node , checked in one run:                    *)
(*  - the generate-authorization-fixes tool (AuthorizationFixes,           *)
(*    src/cmd/util/cmd/generate-authorization-fixes/cmd.go);               *)
(*  - the ghost node's gRPC engine used by the integration tests           *)
(*    (GhostRPC, src/integration/ghost/engine/ghost/rpc/engine.go);        *)
(*  - the checkpoint-collect-stats tool (CheckpointStats,                  *)
(*    src/cmd/util/cmd/checkpoint-collect-stats/cmd.go);                   *)
(*  - the Cadence 1.0 ledger migrations (CadenceMigrations,                *)
(*    src/cmd/util/ledger/migrations/cadence.go).                          *)
(* They share no state and every property is about one of them, so a       *)
(* behaviour of the run is a behaviour of one program (`program`), the     *)
(* others staying in one initial state. Each keeps its own fairness.      *)
(***************************************************************************)
EXTENDS Naturals, Sequences

CONSTANTS a1, a2, a3, c1, c2, c3, m1, MaxTokens,
          CollectionProviderID, CollectionIngestID, ProtocolConsensusID, MaxSubmits,
          MaxPayloads, PayloadBuf, None

VARIABLES
  tokens, addressFilter, flags, pc, errIgnored, todo, pending, mrNil, visited,
  expected, fixes, exit,                                       \* AuthorizationFixes
  netRefuses, netEngines, conduitMap, phase, readyCalled, serve, procs,
  submits, doneCalled, stopped, doneClosed,                    \* GhostRPC
  statsFlags, input, prod, i, payCh, payClosed, statsCh, statsClosed, main,
  total, accounts, conflicts, ledgerStats, wg, writers, written, fault,
                                                               \* CheckpointStats
  migrations, stage, migrationPending, ledger,                 \* CadenceMigrations
  program   \* the program this behaviour runs (Programs)

\* a1 holds two controllers, a2 one, a3 none (its storage map is nil)
A == INSTANCE AuthorizationFixes
       WITH Accounts <- {a1, a2, a3}, Controllers <- {c1, c2, c3}, Members <- {m1},
            Owner <- [c \in {c1, c2, c3} |-> IF c = c3 THEN a2 ELSE a1]

\* the first three of allEngineIDs, CollectionProvider first
G == INSTANCE GhostRPC
       WITH AllEngineIDs <- <<CollectionProviderID, CollectionIngestID, ProtocolConsensusID>>,
            CollectionProvider <- CollectionProviderID

\* two accounts
S == INSTANCE CheckpointStats WITH Addresses <- {a1, a2}, flags <- statsFlags

\* two accounts
M == INSTANCE CadenceMigrations WITH Accounts <- {a1, a2}, pending <- migrationPending

toolVars == <<tokens, addressFilter, flags, pc, errIgnored, todo, pending, mrNil,
              visited, expected, fixes, exit>>
ghostVars == <<netRefuses, netEngines, conduitMap, phase, readyCalled, serve, procs,
               submits, doneCalled, stopped, doneClosed>>
statsVars == <<statsFlags, input, prod, i, payCh, payClosed, statsCh, statsClosed,
               main, total, accounts, conflicts, ledgerStats, wg, writers, written,
               fault>>
migrationVars == <<migrations, stage, migrationPending, ledger>>
vars == <<toolVars, ghostVars, statsVars, migrationVars, program>>

Programs == {"fixes", "ghost", "stats", "migrations"}

\* a program this behaviour does not run stays in one of its initial states
FixesIdle == A!Init /\ tokens = <<>> /\ flags = CHOOSE f \in A!Flags : TRUE
GhostIdle == G!Init /\ netRefuses = FALSE
StatsIdle == S!Init /\ input = <<>> /\ statsFlags = CHOOSE f \in S!Flags : TRUE
MigrationsIdle == M!Init /\ migrations = M!NewCadence1Migrations(FALSE, FALSE, "none")

Init ==
  /\ program \in Programs
  /\ IF program = "fixes" THEN A!Init ELSE FixesIdle
  /\ IF program = "ghost" THEN G!Init ELSE GhostIdle
  /\ IF program = "stats" THEN S!Init ELSE StatsIdle
  /\ IF program = "migrations" THEN M!Init ELSE MigrationsIdle

FixesStep(Act) ==
  program = "fixes" /\ Act /\ UNCHANGED <<ghostVars, statsVars, migrationVars, program>>
GhostStep(Act) ==
  program = "ghost" /\ Act /\ UNCHANGED <<toolVars, statsVars, migrationVars, program>>
StatsStep(Act) ==
  program = "stats" /\ Act /\ UNCHANGED <<toolVars, ghostVars, migrationVars, program>>
MigrationsStep(Act) ==
  program = "migrations" /\ Act /\ UNCHANGED <<toolVars, ghostVars, statsVars, program>>

\* the ghost engine and the stats tool may stop in any state their own
\* modules end in (AuthorizationFixes and CadenceMigrations have their own
\* final steps)
Stopped == program \in {"ghost", "stats"} /\ UNCHANGED vars

Next ==
  \/ FixesStep(A!Next) \/ GhostStep(G!Next) \/ StatsStep(S!Next)
  \/ MigrationsStep(M!Next)
  \/ Stopped

\* GhostRPC's fairness: the unit's goroutines run; CheckpointStats': every
\* goroutine runs whenever it can
Spec ==
  /\ Init /\ [][Next]_vars
  /\ WF_vars(GhostStep(G!ServeListen)) /\ WF_vars(GhostStep(G!ServeReturn))
  /\ WF_vars(GhostStep(G!ProcessReturn))
  /\ WF_vars(GhostStep(G!DoneStop)) /\ WF_vars(GhostStep(G!DoneClose))
  /\ WF_vars(StatsStep(S!Producer)) /\ WF_vars(StatsStep(S!Main))
  /\ \A r \in S!Reports : WF_vars(StatsStep(S!WriteReport(r)))

TypeOK == A!TypeOK /\ G!TypeOK /\ S!TypeOK /\ M!TypeOK /\ program \in Programs

(* AuthorizationFixes: a normal exit has visited every controller and      *)
(* written exactly the fixes its comments call for.                        *)
FixesExactOnExit == A!FixesExactOnExit

(* GhostRPC: once Done() is called, the channel it returned closes.        *)
GhostDoneCloses == G!GhostDoneCloses

(* GhostRPC: New registers a conduit on every engine's own channel.        *)
NewRegistersEveryChannel == G!NewRegistersEveryChannel

(* CheckpointStats: the tool always ends (in the behaviours that run it). *)
Termination == program = "stats" => S!Termination

(* CheckpointStats: at exit both reports are written and cover every       *)
(* payload.                                                                *)
ReportsCompleteAtExit == S!ReportsCompleteAtExit

(* CheckpointStats: every account has the format of its first account or  *)
(* domain register, and a conflict is logged exactly for mixed accounts.   *)
AccountFormatClassified == S!AccountFormatClassified

(* CadenceMigrations: every value migration works from the contract        *)
(* updates, the extracted contracts and the link mapping of every account. *)
ValueMigrationsSeeTheirInputs == M!ValueMigrationsSeeTheirInputs
=============================================================================
