-------------------------- MODULE CadenceMigrations --------------------------
(***************************************************************************)
(* The Cadence 1.0 ledger migration pipeline                               *)
(* (src/cmd/util/ledger/migrations/cadence.go).                            *)
(*                                                                         *)
(* NewCadence1Migrations builds the list of named migrations the ledger    *)
(* migration runs one after the other: an optional prune, the contract     *)
(* migrations (burner deployment when asked for, then the system-contract  *)
(* and the staged-contract updates), then the value migrations: the        *)
(* extraction of every contract's code into `contracts`, and three         *)
(* account-based migrations, each wrapped on its own: the value migration  *)
(* (static types converted by the composite and interface rules), the link *)
(* migration (which fills capabilityMapping) and the capability migration  *)
(* (which reads it).                                                       *)
(*                                                                         *)
(* Environment (not under src/): NewAccountBasedMigration runs its         *)
(* migrators on every account, accounts spread over nWorker workers, so    *)
(* accounts are migrated in any order; one account's migrators run in      *)
(* order (an account is one step). The prune migration may be nil for a   *)
(* chain. A static type is a model value for the types the rules name; a  *)
(* capability may target the link of any account.                          *)
(***************************************************************************)
EXTENDS Naturals, Sequences, FiniteSets

CONSTANTS
  Accounts,   \* account addresses (model values)
  None        \* not yet read (a model value)
BurnerChanges == {"none", "deploy", "update"}

\* the types the rules name, and one the rules leave alone
OldTypes == {"FungibleToken.Vault", "NonFungibleToken.NFT", "MetadataViews.Resolver"}
StaticTypes == OldTypes \cup
  {"{FungibleToken.Vault}", "{NonFungibleToken.NFT}", "ViewResolver.Resolver", "Other"}

\* fungibleTokenVaultRule, nonFungibleTokenNFTRule: the composite type to
\* the intersection of the interface of the same type ID
CompositeRules ==
  [t \in {"FungibleToken.Vault", "NonFungibleToken.NFT"} |-> "{" \o t \o "}"]
\* fungibleTokenResolverRule: MetadataViews.Resolver to ViewResolver.Resolver
InterfaceRules == [t \in {"MetadataViews.Resolver"} |-> "ViewResolver.Resolver"]

\* NewStaticTypeMigrator (not under src/): a type a rule names is replaced
Convert(rules, t) == IF t \in DOMAIN rules THEN rules[t] ELSE t

\* a named migration: a whole-ledger step, or an account-based migration
\* running its migrators on each account
Ledger(name) == [name |-> name, migrators |-> <<>>]
AccountBased(name, ms) == [name |-> name, migrators |-> ms]

\* mutant: link and capability migrators wrapped in one account-based
\* migration
NewCadence1ValueMigrationsJoined ==
  <<Ledger("contracts"), AccountBased("cadence-value-migration", <<"value">>),
    AccountBased("cadence-link-value-migration", <<"link", "capability">>)>>

\* NewCadence1ValueMigrations: contracts extracted first, then each
\* migrator wrapped in its own account-based migration
NewCadence1ValueMigrations ==
  <<Ledger("contracts"),
    AccountBased("cadence-value-migration", <<"value">>),
    AccountBased("cadence-link-value-migration", <<"link">>),
    AccountBased("cadence-capability-value-migration", <<"capability">>)>>

\* NewCadence1ContractsMigrations: the burner deployment only for
\* BurnerContractChangeDeploy, then the two contract updates
NewCadence1ContractsMigrations(burner) ==
  (IF burner = "deploy" THEN <<Ledger("burner-deployment-migration")>> ELSE <<>>)
  \o <<AccountBased("system-contracts-update-migration", <<"system">>),
       AccountBased("staged-contracts-update-migration", <<"staged">>)>>

\* NewCadence1Migrations: prune (when asked for and not nil), contracts,
\* values
NewCadence1Migrations(prune, pruneNil, burner) ==
  (IF prune /\ ~pruneNil THEN <<Ledger("prune-migration")>> ELSE <<>>)
  \o NewCadence1ContractsMigrations(burner)
  \o NewCadence1ValueMigrations

-----------------------------------------------------------------------------
VARIABLES
  migrations,   \* the list NewCadence1Migrations returned
  stage,        \* the migration running
  pending,      \* accounts the running account-based migration has left
  ledger        \* what the migrations have produced so far (LedgerState)

vars == <<migrations, stage, pending, ledger>>

\* updated: accounts whose contracts the updates have rewritten;
\* contracts: the accounts updated when `contracts` was filled (None before);
\* types: account -> the static types of its values;
\* mapping: accounts whose links are in capabilityMapping;
\* valueSaw, capSaw: account -> the `contracts` its value migration used,
\* the mapping its capability migration used (None before)
LedgerState ==
  [updated : SUBSET Accounts, contracts : (SUBSET Accounts) \cup {None},
   types : [Accounts -> SUBSET StaticTypes], mapping : SUBSET Accounts,
   valueSaw : [Accounts -> (SUBSET Accounts) \cup {None}],
   capSaw : [Accounts -> (SUBSET Accounts) \cup {None}]]

TypeOK ==
  /\ stage \in 1..(Len(migrations) + 1) /\ pending \subseteq Accounts
  /\ ledger \in LedgerState

Init ==
  /\ \E prune, pruneNil \in BOOLEAN, burner \in BurnerChanges :
       migrations = NewCadence1Migrations(prune, pruneNil, burner)
  /\ stage = 1 /\ pending = Accounts
  \* every account has values of every type the rules name, and others
  /\ ledger = [updated |-> {}, contracts |-> None,
               types |-> [a \in Accounts |-> OldTypes \cup {"Other"}],
               mapping |-> {}, valueSaw |-> [a \in Accounts |-> None],
               capSaw |-> [a \in Accounts |-> None]]

Running == stage <= Len(migrations)
Current == migrations[stage]

\* one migrator on one account: the contract updates rewrite its code; the
\* value migrator converts its types with both converters, using
\* `contracts`; the link migrator adds its links to capabilityMapping; the
\* capability migrator reads capabilityMapping
Migrate(m, a, l) ==
  CASE m \in {"system", "staged"} -> [l EXCEPT !.updated = @ \cup {a}]
    [] m = "value" ->
         [l EXCEPT !.types[a] = {Convert(InterfaceRules, Convert(CompositeRules, t)) : t \in @},
                   !.valueSaw[a] = l.contracts]
    [] m = "link" -> [l EXCEPT !.mapping = @ \cup {a}]
    [] m = "capability" -> [l EXCEPT !.capSaw[a] = l.mapping]

\* an account-based migration's migrators on one account, in order
RECURSIVE MigrateAll(_, _, _)
MigrateAll(ms, a, l) ==
  IF ms = <<>> THEN l ELSE MigrateAll(Tail(ms), a, Migrate(Head(ms), a, l))

\* a whole-ledger migration; the contracts extraction reads every
\* account's code as the earlier migrations left it
RunLedgerMigration ==
  /\ Running /\ Current.migrators = <<>>
  /\ ledger' = IF Current.name = "contracts"
                 THEN [ledger EXCEPT !.contracts = ledger.updated] ELSE ledger
  /\ stage' = stage + 1 /\ pending' = Accounts
  /\ UNCHANGED migrations

\* a worker migrates one account with every migrator of the migration
MigrateAccount(a) ==
  /\ Running /\ Current.migrators # <<>> /\ a \in pending
  /\ ledger' = MigrateAll(Current.migrators, a, ledger)
  /\ pending' = pending \ {a}
  /\ UNCHANGED <<migrations, stage>>

\* every account is migrated: the next migration starts
FinishAccountBased ==
  /\ Running /\ Current.migrators # <<>> /\ pending = {}
  /\ stage' = stage + 1 /\ pending' = Accounts
  /\ UNCHANGED <<migrations, ledger>>

Finished == ~Running /\ UNCHANGED vars

Next ==
  \/ RunLedgerMigration \/ \E a \in Accounts : MigrateAccount(a)
  \/ FinishAccountBased \/ Finished

Spec == Init /\ [][Next]_vars

-----------------------------------------------------------------------------
(* Properties                                                              *)

(* Each value migration works from what the earlier ones produced, whatever *)
(* order the workers take the accounts in: an account's values are         *)
(* migrated with the code of every contract as the contract updates left   *)
(* it, and lose every type a rule names; its capabilities are migrated     *)
(* with the links of every account already in capabilityMapping.           *)
ValueMigrationsSeeTheirInputs ==
  \A a \in Accounts :
    /\ ledger.valueSaw[a] # None =>
         /\ ledger.valueSaw[a] = ledger.updated
         /\ ledger.types[a] \cap OldTypes = {}
    /\ ledger.capSaw[a] # None => ledger.capSaw[a] = Accounts
====
