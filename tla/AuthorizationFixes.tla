-------------------------- MODULE AuthorizationFixes --------------------------
(***************************************************************************)
(* The generate-authorization-fixes tool                                   *)
(* (src/cmd/util/cmd/generate-authorization-fixes/cmd.go).                 *)
(*                                                                         *)
(* run parses --addresses into addressFilter, validates the flags, reads  *)
(* the two link reports and the payloads, builds the registers and the     *)
(* migration runtime, checks the contracts, and then, for every account,   *)
(* iterates its capability-controller storage map: a storage capability    *)
(* controller whose borrow type has an entitlement-set authorization, that *)
(* was migrated from a public link whose accessible members differ from    *)
(* the members the new borrow type grants, gets a fix written.             *)
(*                                                                         *)
(* Exits: log.Fatal().Msg* ends the process without running deferred      *)
(* calls ("fatal"); a Go panic ends it after them ("panic"). zerolog's     *)
(* log.Fatal().Err(err) with no Msg call sends nothing and does not exit,  *)
(* so the code carries on after those four checks.                         *)
(*                                                                         *)
(* Environment (not under src/): the report readers, the payload and       *)
(* register loaders, the contract checker and the type converter succeed  *)
(* or fail; a controller is abstracted to the facts its handling reads     *)
(* (ControllerFacts); accessible members are sets of model values (sorting *)
(* and comparing two slices without duplicates is set equality);           *)
(* findMinimalEntitlementSet is reduced to whether its result is empty.    *)
(***************************************************************************)
EXTENDS Naturals, Sequences, SequencesExt, FiniteSets

CONSTANTS
  Accounts,     \* account addresses (model values)
  Controllers,  \* capability controllers (model values)
  Owner,        \* the account whose storage holds each controller
  Members,      \* member names of a borrow type (model values)
  MaxTokens     \* comma-separated entries of --addresses

ASSUME Owner \in [Controllers -> Accounts] /\ MaxTokens \in Nat

\* an entry of --addresses after strings.TrimSpace
Tokens == {"empty", "invalid", "valid"}

\* the flags that matter
Flags == [payloads : BOOLEAN, state : BOOLEAN, stateCommitment : BOOLEAN,
          chainValid : BOOLEAN]

Auths == {"entitlementSet", "unauthorized", "inaccessible", "entitlementMap"}

\* what the handling of one capability-controller entry reads: the key's
\* type, the value's type, the borrow type's authorization, the public path
\* in the link migration report, the link info, the conversion to a sema
\* type, the old and new accessible members, the minimal entitlement set
ControllerFacts ==
  [keyUint64 : BOOLEAN, storageCap : BOOLEAN, auth : Auths,
   migratedPath : BOOLEAN, link : {"missing", "noMembers", "present"},
   oldMembers : SUBSET Members, converts : BOOLEAN,
   newMembers : SUBSET Members, minimalEmpty : BOOLEAN]

Exits == {"running", "ok", "fatal", "panic"}

\* a fixEntitlementsEntry: the controller and its new authorization
Fixes == [c : Controllers, auth : {"unauthorized", "entitlementSet"}]

VARIABLES
  tokens,         \* entries of --addresses not yet parsed
  addressFilter,  \* the map: nil (never made) and its keys
  flags,          \* the command line
  pc,             \* run's position
  errIgnored,     \* an error passed to log.Fatal().Err(err) was dropped
  todo,           \* accounts ForEachAccount has not visited
  pending,        \* controllers of the current account not yet iterated
  mrNil,          \* the migration runtime is nil (its error was dropped)
  visited,        \* controllers iterated so far
  expected,       \* the fixes the visited controllers call for
  fixes,          \* entries written: controller and new authorization
  exit            \* how the process ended

vars == <<tokens, addressFilter, flags, pc, errIgnored, todo, pending, mrNil,
          visited, expected, fixes, exit>>

Stages == {"parse", "flags", "load", "registers", "runtime", "contracts",
           "accounts", "controllers", "end"}

TypeOK ==
  /\ tokens \in Seq(Tokens) /\ Len(tokens) <= MaxTokens
  /\ addressFilter \in [isNil : BOOLEAN, keys : SUBSET Accounts]
  /\ flags \in Flags /\ pc \in Stages /\ errIgnored \in BOOLEAN
  /\ todo \subseteq Accounts /\ pending \subseteq Controllers
  /\ mrNil \in BOOLEAN /\ visited \subseteq Controllers
  /\ expected \subseteq Fixes /\ fixes \subseteq Fixes
  /\ exit \in Exits

Init ==
  /\ tokens \in BoundedSeq(Tokens, MaxTokens)
  /\ addressFilter = [isNil |-> TRUE, keys |-> {}]   \* var addressFilter map[...]
  /\ flags \in Flags
  /\ pc = IF tokens = <<>> THEN "flags" ELSE "parse"
  /\ errIgnored = FALSE
  /\ todo = Accounts /\ pending = {}
  /\ mrNil = FALSE /\ visited = {} /\ expected = {}
  /\ fixes = {} /\ exit = "running"

Running == exit = "running"

\* the process ends where it is
Exit(how) == exit' = how /\ UNCHANGED pc
\* run goes on to the next stage
Continue(stage) == pc' = stage /\ UNCHANGED exit

-----------------------------------------------------------------------------
(* run: flags, inputs, registers and contracts                            *)

\* assignment to an entry of a Go map: a nil map panics
MapAssign(m, k) == [m EXCEPT !.keys = @ \cup {k}]

\* the loop goes on with the next entry, or on to the flag checks
NextToken == Continue(IF Len(tokens) = 1 THEN "flags" ELSE "parse")

\* one entry of strings.Split(flagAddresses, ","): empty ones are skipped,
\* an unparsable one is fatal, a parsed one is put into addressFilter
ParseAddressToken ==
  /\ Running /\ pc = "parse" /\ tokens # <<>>
  /\ tokens' = Tail(tokens)
  /\ CASE Head(tokens) = "empty"   -> NextToken /\ UNCHANGED addressFilter
       [] Head(tokens) = "invalid" -> Exit("fatal") /\ UNCHANGED addressFilter
       [] Head(tokens) = "valid"   ->
            IF addressFilter.isNil
              THEN Exit("panic") /\ UNCHANGED addressFilter
              ELSE \E a \in Accounts : addressFilter' = MapAssign(addressFilter, a)
                     /\ NextToken
  /\ UNCHANGED <<flags, errIgnored, todo, pending, mrNil, visited, expected, fixes>>

\* the three flag checks, then chainID.Chain(), which panics on an unknown
\* chain
ValidateFlags ==
  /\ Running /\ pc = "flags"
  /\ LET f == flags
     IN CASE ~f.payloads /\ ~f.state              -> Exit("fatal")
          [] f.payloads /\ f.state                -> Exit("fatal")
          [] f.state /\ ~f.stateCommitment        -> Exit("fatal")
          [] ~f.chainValid                        -> Exit("panic")
          [] OTHER -> Continue("load")
  /\ UNCHANGED <<tokens, addressFilter, flags, errIgnored, todo, pending, mrNil,
                 visited, expected, fixes>>
\* the report writer; open and read the link report, the link migration
\* report, and the payloads (payload file or trie): each failure is a
\* log.Fatal with a message
LoadInputs ==
  /\ Running /\ pc = "load"
  /\ \/ Continue("registers")
     \/ Exit("fatal")
  /\ UNCHANGED <<tokens, addressFilter, flags, errIgnored, todo, pending, mrNil,
                 visited, expected, fixes>>

\* registers.NewByAccountFromPayloads: its error goes to log.Fatal().Err(err)
\* and is dropped; the nil registersByAccount is then used at once by the
\* log line's Count() (code outside src/ decides whether that panics)
BuildRegisters ==
  /\ Running /\ pc = "registers"
  /\ \/ Continue("runtime") /\ UNCHANGED errIgnored
     \/ errIgnored' = TRUE /\ (Continue("runtime") \/ Exit("panic"))
  /\ UNCHANGED <<tokens, addressFilter, flags, todo, pending, mrNil, visited,
                 expected, fixes>>

\* migrations.NewInterpreterMigrationRuntime: its error is dropped as well,
\* leaving mr nil
BuildRuntime ==
  /\ Running /\ pc = "runtime"
  /\ \/ UNCHANGED <<errIgnored, mrNil>>
     \/ errIgnored' = TRUE /\ mrNil' = TRUE
  /\ Continue("contracts")
  /\ UNCHANGED <<tokens, addressFilter, flags, todo, pending, visited, expected,
                 fixes>>

\* checkContracts: gatherContractsFromRegisters' error is dropped and no
\* contract is checked; otherwise every contract is checked with mr, which
\* panics when mr is nil and there is a contract
CheckContracts ==
  /\ Running /\ pc = "contracts"
  /\ \/ errIgnored' = TRUE /\ Continue("accounts")
     \/ UNCHANGED errIgnored
        /\ IF mrNil THEN Exit("panic") \/ Continue("accounts")
           ELSE Continue("accounts")
  /\ UNCHANGED <<tokens, addressFilter, flags, todo, pending, mrNil, visited,
                 expected, fixes>>

-----------------------------------------------------------------------------
(* generateFixesForAllAccounts                                             *)

\* reference: the fix the tool's comments call for ("Only fix the
\* entitlements if the capability controller was migrated from a public
\* link"; old and new accessible members "should be the same")
NeedsFix(f) ==
  /\ f.keyUint64 /\ f.storageCap /\ f.auth = "entitlementSet"
  /\ f.migratedPath /\ f.link = "present" /\ f.converts
  /\ f.oldMembers # f.newMembers
ExpectedFix(c, f) ==
  IF NeedsFix(f)
    THEN {[c |-> c, auth |-> IF f.minimalEmpty THEN "unauthorized" ELSE "entitlementSet"]}
    ELSE {}

\* ForEachAccount's callback, generateFixesForAccount: g.mr.Storage is read
\* (a nil mr panics); a nil capability-controller storage map (the account
\* never stored a controller) returns, otherwise its entries are iterated
VisitAccount ==
  /\ Running /\ pc = "accounts" /\ todo # {}
  /\ \E a \in todo :
       /\ todo' = todo \ {a}
       /\ IF mrNil THEN Exit("panic") /\ UNCHANGED pending
          ELSE pending' = {c \in Controllers : Owner[c] = a}
               /\ IF pending' = {} THEN UNCHANGED <<pc, exit>>
                  ELSE Continue("controllers")
  /\ UNCHANGED <<tokens, addressFilter, flags, errIgnored, mrNil, visited,
                 expected, fixes>>

\* ForEachAccount returns nil (the callback always does); run returns and
\* the deferred calls close the reporter and the report files
Finish ==
  /\ Running /\ pc = "accounts" /\ todo = {}
  /\ pc' = "end" /\ exit' = "ok"
  /\ UNCHANGED <<tokens, addressFilter, flags, errIgnored, todo, pending, mrNil,
                 visited, expected, fixes>>
\* maybeGenerateFixForCapabilityController: only a controller migrated from
\* a public link (a path in the migration report) whose link info has a
\* borrow type and accessible members, whose borrow type converts, and
\* whose sorted old and new accessible members differ gets a fix; its new
\* authorization is unauthorized when the minimal entitlement set is empty
MaybeGenerateFix(c, f) ==
  IF \/ ~f.migratedPath
     \/ f.link \in {"missing", "noMembers"}
     \/ ~f.converts
     \/ f.oldMembers = f.newMembers
    THEN {}
    ELSE {[c |-> c, auth |-> IF f.minimalEmpty THEN "unauthorized" ELSE "entitlementSet"]}

\* the switch on the borrow type's authorization: only an entitlement set
\* is considered; unauthorized, inaccessible and entitlement-map ones are
\* left alone (with a warning for the last two)
FixFor(c, f) == IF f.auth = "entitlementSet" THEN MaybeGenerateFix(c, f) ELSE {}

\* mutant: a value that is not a storage capability controller ends the
\* iteration (break instead of continue)
IterateControllerBreaksOnOther ==
  /\ Running /\ pc = "controllers"
  /\ \E c \in pending, f \in ControllerFacts :
       /\ pending' = IF f.storageCap THEN pending \ {c} ELSE {}
       /\ visited' = visited \cup {c}
       /\ expected' = expected \cup ExpectedFix(c, f)
       /\ IF ~f.keyUint64 THEN Exit("fatal") /\ UNCHANGED fixes
          ELSE /\ fixes' = fixes \cup (IF f.storageCap THEN FixFor(c, f) ELSE {})
               /\ IF pending' = {} THEN Continue("accounts") ELSE UNCHANGED <<pc, exit>>
  /\ UNCHANGED <<tokens, addressFilter, flags, errIgnored, todo, mrNil>>

\* one iterator.Next() of the storage map: a key that is not a
\* Uint64AtreeValue is fatal; a value that is not a storage capability
\* controller is skipped (continue); otherwise the fix, if any, is written.
\* The iteration ends (break) once every entry was returned.
IterateController ==
  /\ Running /\ pc = "controllers"
  /\ \E c \in pending, f \in ControllerFacts :
       /\ pending' = pending \ {c}
       /\ visited' = visited \cup {c}
       /\ expected' = expected \cup ExpectedFix(c, f)
       /\ IF ~f.keyUint64 THEN Exit("fatal") /\ UNCHANGED fixes
          ELSE /\ fixes' = fixes \cup (IF f.storageCap THEN FixFor(c, f) ELSE {})
               /\ IF pending' = {} THEN Continue("accounts") ELSE UNCHANGED <<pc, exit>>
  /\ UNCHANGED <<tokens, addressFilter, flags, errIgnored, todo, mrNil>>

\* the process has ended
Terminated == ~Running /\ UNCHANGED vars

Next ==
  \/ ParseAddressToken \/ ValidateFlags \/ LoadInputs
  \/ BuildRegisters \/ BuildRuntime \/ CheckContracts
  \/ VisitAccount \/ IterateController \/ Finish
  \/ Terminated

Spec == Init /\ [][Next]_vars

-----------------------------------------------------------------------------
(* Properties                                                              *)

(* A run that ends normally has iterated every capability controller of   *)
(* every account exactly as the tool's comments intend: a fix is written   *)
(* for exactly the storage capability controllers with an entitlement-set  *)
(* borrow type that were migrated from a public link (recorded with its    *)
(* accessible members) and whose accessible members changed, with an       *)
(* unauthorized access when no entitlement is needed.                      *)
FixesExactOnExit ==
  exit = "ok" => visited = Controllers /\ fixes = expected

(* The log.Fatal calls on a failure to build the registers, the migration  *)
(* runtime or the contract list stop the tool, so a run that ends          *)
(* normally met none of those failures.                                    *)
OkExitOnlyWithoutDroppedErrors ==
  exit = "ok" => ~errIgnored

(* --addresses "only generate fixes for given accounts": parsing a list of *)
(* well-formed addresses never crashes the tool. Only the address loop is  *)
(* at pc = "parse"; the flag checks and chainID.Chain() come after it.     *)
AddressesParsedWithoutPanic ==
  ~(exit = "panic" /\ pc = "parse")

====
