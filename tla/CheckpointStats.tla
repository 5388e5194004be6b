---------------------------- MODULE CheckpointStats ----------------------------
(***************************************************************************)
(* The checkpoint-collect-stats tool                                       *)
(* (src/cmd/util/cmd/checkpoint-collect-stats/cmd.go).                     *)
(*                                                                         *)
(* run validates the flags and starts the producer goroutine               *)
(* getPayloadsAsync, which loads the payloads from a checkpoint or from a  *)
(* payloads file and sends them on payloadChannel (buffered); from a       *)
(* checkpoint it then sends the ledger stats on ledgerStatsChannel          *)
(* (capacity 1). Its deferred calls close ledgerStatsChannel, then         *)
(* payloadChannel. The main goroutine ranges over payloadChannel, updating *)
(* the totals and each account's count and storage format, then receives  *)
(* the ledger stats (nil when the channel was closed without a value),     *)
(* and waits on a WaitGroup for two goroutines writing the two reports.    *)
(* A log.Fatal exits the process (fault).                                  *)
(*                                                                         *)
(* A payload is abstracted to its address and the kind of its register     *)
(* key: the account register ("stored"), a storage-domain register, or any *)
(* other. Sizes, types, top-N and the report contents are left out.        *)
(***************************************************************************)
EXTENDS Naturals, Sequences, SequencesExt

CONSTANTS
  Addresses,    \* account addresses (model values)
  MaxPayloads,  \* payloads in the input
  PayloadBuf    \* payloadChannelBufferSize

ASSUME MaxPayloads \in Nat /\ PayloadBuf \in Nat \ {0}

Kinds == {"account", "domain", "other"}
Payload == [addr : Addresses, kind : Kinds]
Formats == {"none", "v1", "v2"}
Reports == {"ledger-stats", "account-stats"}

\* the flags that matter: which of --payload-filename, --checkpoint-dir and
\* --state-commitment are non-empty
Flags == [payloads : BOOLEAN, checkpointDir : BOOLEAN, stateCommitment : BOOLEAN]

\* run, lines 137-145: the three log.Fatal checks of the flags
ValidFlags(f) ==
  /\ f.payloads \/ f.checkpointDir
  /\ ~(f.payloads /\ f.checkpointDir)
  /\ ~(~f.checkpointDir /\ f.stateCommitment)

\* getPayloadsAsync: useCheckpointFile := flagPayloads == ""
UseCheckpointFile(f) == ~f.payloads

VARIABLES
  flags, input,            \* the command line and the payloads to load
  prod, i,                 \* producer: program counter, next payload
  payCh, payClosed,        \* payloadChannel
  statsCh, statsClosed,    \* ledgerStatsChannel
  main,                    \* main goroutine's program counter
  total,                   \* totalPayloadCount
  accounts,                \* accounts: count and format per address
  conflicts,               \* addresses for which a format conflict was logged
  ledgerStats,             \* what main received from ledgerStatsChannel
  wg, writers, written,    \* WaitGroup, running writer goroutines, reports
  fault                    \* log.Fatal or a panic ended the process

vars == <<flags, input, prod, i, payCh, payClosed, statsCh, statsClosed, main,
          total, accounts, conflicts, ledgerStats, wg, writers, written, fault>>

TypeOK ==
  /\ flags \in Flags /\ input \in Seq(Payload)
  /\ prod \in {"idle", "load", "send", "stats", "close", "done"}
  /\ i \in 1..(MaxPayloads + 1)
  /\ payCh \in Seq(Payload) /\ Len(payCh) <= PayloadBuf
  /\ statsCh \in Seq({"stats"}) /\ Len(statsCh) <= 1
  /\ payClosed \in BOOLEAN /\ statsClosed \in BOOLEAN
  /\ main \in {"validate", "range", "stats", "wait", "exited"}
  /\ total \in 0..MaxPayloads
  /\ accounts \in [Addresses -> [count : 0..MaxPayloads, format : Formats]]
  /\ conflicts \subseteq Addresses
  /\ ledgerStats \in {"none", "stats", "nil"}
  /\ wg \in 0..2 /\ writers \subseteq Reports /\ written \subseteq Reports
  /\ fault \in BOOLEAN

Init ==
  /\ flags \in Flags
  /\ input \in BoundedSeq(Payload, MaxPayloads)
  /\ prod = "idle" /\ i = 1
  /\ payCh = <<>> /\ payClosed = FALSE
  /\ statsCh = <<>> /\ statsClosed = FALSE
  /\ main = "validate" /\ total = 0
  /\ accounts = [a \in Addresses |-> [count |-> 0, format |-> "none"]]
  /\ conflicts = {} /\ ledgerStats = "none"
  /\ wg = 0 /\ writers = {} /\ written = {}
  /\ fault = FALSE

Running == ~fault

-----------------------------------------------------------------------------
(* Producer: getPayloadsAsync                                              *)

\* getPayloadStatsFromCheckpoint / FromPayloadFile: opening the WAL, the
\* ledger, the compactor, the trie or the payload file may log.Fatal
ProducerLoad ==
  /\ Running /\ prod = "load"
  /\ \/ prod' = "send" /\ UNCHANGED fault
     \/ fault' = TRUE /\ UNCHANGED prod
  /\ UNCHANGED <<flags, input, i, payCh, payClosed, statsCh, statsClosed, main,
                 total, accounts, conflicts, ledgerStats, wg, writers, written>>

\* mutant: a send that does not block on a full channel
PayloadChanHasRoomOffByOne == Len(payCh) <= PayloadBuf
\* make(chan *ledger.Payload, payloadChannelBufferSize): room for a send
PayloadChanHasRoom == Len(payCh) < PayloadBuf

\* payloadCallback: payloadChannel <- payload, blocking while it is full
ProducerSend ==
  /\ Running /\ prod = "send" /\ i <= Len(input)
  /\ PayloadChanHasRoom
  /\ payCh' = Append(payCh, input[i]) /\ i' = i + 1
  /\ UNCHANGED <<flags, input, prod, payClosed, statsCh, statsClosed, main,
                 total, accounts, conflicts, ledgerStats, wg, writers, written,
                 fault>>

\* all payloads handed over: from a checkpoint, CollectStats returns stats
ProducerLoaded ==
  /\ Running /\ prod = "send" /\ i > Len(input)
  /\ prod' = IF UseCheckpointFile(flags) THEN "stats" ELSE "close"
  /\ UNCHANGED <<flags, input, i, payCh, payClosed, statsCh, statsClosed, main,
                 total, accounts, conflicts, ledgerStats, wg, writers, written,
                 fault>>

\* mutant: ledgerStatsChannel made unbuffered
StatsChanUnbuffered == 0
\* make(chan *complete.LedgerStats, 1)
StatsChanCap == 1

\* ledgerStatsChannel <- getPayloadStatsFromCheckpoint(...)
ProducerSendStats ==
  /\ Running /\ prod = "stats"
  /\ Len(statsCh) < StatsChanCap
  /\ statsCh' = Append(statsCh, "stats") /\ prod' = "close"
  /\ UNCHANGED <<flags, input, i, payCh, payClosed, statsClosed, main, total,
                 accounts, conflicts, ledgerStats, wg, writers, written, fault>>

\* the deferred calls, last deferred first: close(ledgerStatsChannel), then
\* close(payloadChannel); nothing runs between them in this goroutine
ProducerClose ==
  /\ Running /\ prod = "close"
  /\ statsClosed' = TRUE /\ payClosed' = TRUE /\ prod' = "done"
  /\ UNCHANGED <<flags, input, i, payCh, statsCh, main, total, accounts,
                 conflicts, ledgerStats, wg, writers, written, fault>>

-----------------------------------------------------------------------------
(* Main goroutine: run                                                     *)

\* flag checks, then go getPayloadsAsync(...)
Validate ==
  /\ Running /\ main = "validate"
  /\ IF ValidFlags(flags)
       THEN main' = "range" /\ prod' = "load" /\ UNCHANGED fault
       ELSE fault' = TRUE /\ UNCHANGED <<main, prod>>
  /\ UNCHANGED <<flags, input, i, payCh, payClosed, statsCh, statsClosed, total,
                 accounts, conflicts, ledgerStats, wg, writers, written>>

\* mutant: the domain branch sets V1 without looking at the format
NewFormatDomainOverwrites(f, kind) ==
  CASE kind = "account" /\ f # "v1" -> "v2"
    [] kind = "domain"              -> "v1"
    [] OTHER                        -> f

\* the account-format update, lines 218-230: the first format register seen
\* sets the format; a register of the other format only logs an error
NewFormat(f, kind) ==
  CASE kind = "account" /\ f # "v1" -> "v2"
    [] kind = "domain" /\ f # "v2"  -> "v1"
    [] OTHER                        -> f

FormatConflict(f, kind) ==
  \/ kind = "account" /\ f = "v1"
  \/ kind = "domain" /\ f = "v2"

\* one iteration of: for p := range payloadChannel
Consume ==
  /\ Running /\ main = "range" /\ payCh # <<>>
  /\ LET p == Head(payCh)
         acct == accounts[p.addr]
     IN /\ payCh' = Tail(payCh)
        /\ total' = total + 1
        /\ accounts' = [accounts EXCEPT ![p.addr] =
                          [count |-> acct.count + 1,
                           format |-> NewFormat(acct.format, p.kind)]]
        /\ conflicts' = IF FormatConflict(acct.format, p.kind)
                          THEN conflicts \cup {p.addr} ELSE conflicts
  /\ UNCHANGED <<flags, input, prod, i, payClosed, statsCh, statsClosed, main,
                 ledgerStats, wg, writers, written, fault>>

\* the range ends once payloadChannel is closed and drained
RangeEnd ==
  /\ Running /\ main = "range" /\ payCh = <<>> /\ payClosed
  /\ main' = "stats"
  /\ UNCHANGED <<flags, input, prod, i, payCh, payClosed, statsCh, statsClosed,
                 total, accounts, conflicts, ledgerStats, wg, writers, written,
                 fault>>

\* mutant: wg.Add(1)
WaitGroupAddOne == 1
\* wg.Add(2)
WaitGroupAdd == 2

\* ledgerStats := <-ledgerStatsChannel (nil once closed and empty); then
\* wg.Add and the two report goroutines
ReceiveStats ==
  /\ Running /\ main = "stats"
  /\ \/ statsCh # <<>> /\ ledgerStats' = "stats" /\ statsCh' = Tail(statsCh)
     \/ statsCh = <<>> /\ statsClosed /\ ledgerStats' = "nil"
        /\ UNCHANGED statsCh
  /\ main' = "wait" /\ wg' = WaitGroupAdd /\ writers' = Reports
  /\ UNCHANGED <<flags, input, prod, i, payCh, payClosed, statsClosed, total,
                 accounts, conflicts, written, fault>>

\* a report goroutine writes its report, then wg.Done(); a Done that would
\* make the counter negative panics
WriteReport(r) ==
  /\ Running /\ main = "wait" /\ r \in writers
  /\ writers' = writers \ {r} /\ written' = written \cup {r}
  /\ IF wg > 0 THEN wg' = wg - 1 /\ UNCHANGED fault
               ELSE fault' = TRUE /\ UNCHANGED wg
  /\ UNCHANGED <<flags, input, prod, i, payCh, payClosed, statsCh, statsClosed,
                 main, total, accounts, conflicts, ledgerStats>>

\* wg.Wait() returns; run returns and the process exits
Exit ==
  /\ Running /\ main = "wait" /\ wg = 0
  /\ main' = "exited"
  /\ UNCHANGED <<flags, input, prod, i, payCh, payClosed, statsCh, statsClosed,
                 total, accounts, conflicts, ledgerStats, wg, writers, written,
                 fault>>

Producer ==
  ProducerLoad \/ ProducerSend \/ ProducerLoaded \/ ProducerSendStats
  \/ ProducerClose

Main == Validate \/ Consume \/ RangeEnd \/ ReceiveStats \/ Exit

Next == Producer \/ Main \/ \E r \in Reports : WriteReport(r)

\* every goroutine runs whenever it can; the process ends when run returns
Spec ==
  /\ Init /\ [][Next]_vars
  /\ WF_vars(Producer) /\ WF_vars(Main)
  /\ \A r \in Reports : WF_vars(WriteReport(r))

-----------------------------------------------------------------------------
(* Properties                                                              *)

PayloadsOf(a) == SelectSeq(input, LAMBDA p : p.addr = a)
FormatRegisters(a) == SelectSeq(PayloadsOf(a), LAMBDA p : p.kind # "other")
KindsOf(a) == {p.kind : p \in Range(PayloadsOf(a))}

\* reference: the format of the first account or domain register
FirstFormat(a) ==
  IF FormatRegisters(a) = <<>> THEN "none"
  ELSE IF Head(FormatRegisters(a)).kind = "account" THEN "v2" ELSE "v1"

(* The tool always ends: it exits on a bad flag or a load failure, or once *)
(* the producer has closed both channels, main has received the ledger     *)
(* stats and both reports are written. No goroutine waits for another      *)
(* forever, whatever the input and its size against the channel buffer.   *)
Termination == <>(main = "exited" \/ fault)

(* When run returns, both reports are written and cover every payload:     *)
(* the totals and each account's count are those of the input, and the     *)
(* ledger stats are present exactly when loading from a checkpoint.        *)
ReportsCompleteAtExit ==
  main = "exited" =>
    /\ written = Reports
    /\ total = Len(input)
    /\ \A a \in Addresses : accounts[a].count = Len(PayloadsOf(a))
    /\ ledgerStats = IF UseCheckpointFile(flags) THEN "stats" ELSE "nil"

(* After all payloads are processed, every account has the format of its   *)
(* first account-or-domain register, and an error was logged for exactly   *)
(* the accounts that have both an account register and a domain register,  *)
(* whatever order the trie walk delivers them in.                          *)
AccountFormatClassified ==
  main \in {"stats", "wait", "exited"} =>
    \A a \in Addresses :
      /\ accounts[a].format = FirstFormat(a)
      /\ a \in conflicts <=> {"account", "domain"} \subseteq KindsOf(a)

=============================================================================
