-------------------------- MODULE TxStatusesProvider --------------------------
(***************************************************************************)
(* The websocket data provider of transaction statuses                     *)
(* (src/engine/access/rest/websockets/data_providers/                      *)
(*  transaction_statuses_provider.go).                                     *)
(*                                                                         *)
(* Run subscribes to the statuses of one transaction and, for every batch  *)
(* of results the subscription delivers, sendResponse builds one message   *)
(* per result, stamped with messageIndex.Value(), increments the counter   *)
(* and sends the message on the client's channel. Run resets the counter   *)
(* to zero, so each run of the provider numbers its messages from 0.       *)
(* The client's writer drains the channel concurrently.                    *)
(*                                                                         *)
(* Environment (not under src/): the generic run loop of the base data     *)
(* provider, which hands each batch from the subscription to the callback  *)
(* and returns when the subscription ends or the provider's done channel  *)
(* is closed (Close); the subscription; the client, whose writer may stop  *)
(* reading (the connection is gone) before the provider is closed.         *)
(* A transaction result is abstracted away: a message is the run it        *)
(* belongs to and its index.                                               *)
(***************************************************************************)
EXTENDS Naturals, Sequences, FiniteSets

CONSTANTS
  MaxRuns,     \* calls of Run
  MaxBatches,  \* batches one subscription delivers
  MaxBatch,    \* results in one batch
  ChanCap      \* capacity of the client's send channel

ASSUME /\ MaxRuns \in Nat \ {0} /\ MaxBatches \in Nat \ {0}
       /\ MaxBatch \in Nat \ {0} /\ ChanCap \in Nat \ {0}

-----------------------------------------------------------------------------
(* parseTransactionStatusesArguments, run by the constructor: a provider  *)
(* exists only for arguments it accepts. Arguments are abstracted to the   *)
(* fields present and the kind of each field's value.                      *)

Fields == {"tx_id", "other"}
ValueKinds == {"hex_id", "bad_hex", "empty_string", "number"}
AllArguments == UNION {[F -> ValueKinds] : F \in SUBSET Fields}

\* ensureAllowedFields (not under src/): every field must be allowed
EnsureAllowedFields(args, allowed) == DOMAIN args \subseteq allowed

\* mutant: the allowed-fields check left out
ParseArgumentsLenient(args) ==
  CASE "tx_id" \notin DOMAIN args       -> "missing tx_id"
    [] args["tx_id"] = "number"         -> "tx_id not a string"
    [] args["tx_id"] = "empty_string"   -> "tx_id empty"
    [] args["tx_id"] = "bad_hex"        -> "invalid tx_id"
    [] OTHER                            -> "ok"

ParseTransactionStatusesArguments(args) ==
  CASE ~EnsureAllowedFields(args, {"tx_id"}) -> "unknown field"
    [] "tx_id" \notin DOMAIN args       -> "missing tx_id"
    [] args["tx_id"] = "number"         -> "tx_id not a string"
    [] args["tx_id"] = "empty_string"   -> "tx_id empty"
    [] args["tx_id"] = "bad_hex"        -> "invalid tx_id"
    [] OTHER                            -> "ok"

-----------------------------------------------------------------------------
VARIABLES
  args,          \* the raw arguments of the subscription request
  created,       \* NewTransactionStatusesDataProvider returned a provider
  runs,          \* calls of Run so far; the current run's number
  pc,            \* idle (no Run active), wait (run loop), send (sendResponse)
  messageIndex,  \* p.messageIndex
  batch,         \* results of the current batch not yet sent
  subLeft,       \* batches the current subscription will still deliver
  ch,            \* p.send: messages in the channel
  received,      \* messages the client's writer has taken, in order
  closed,        \* the base provider's done channel is closed (Close)
  reading        \* the client's writer still takes messages

vars == <<args, created, runs, pc, messageIndex, batch, subLeft, ch, received,
          closed, reading>>

MaxIndex == MaxBatches * MaxBatch
Message == [run : 1..MaxRuns, index : 0..MaxIndex]

TypeOK ==
  /\ args \in AllArguments /\ created \in BOOLEAN
  /\ runs \in 0..MaxRuns
  /\ pc \in {"idle", "wait", "send"}
  /\ messageIndex \in 0..MaxIndex
  /\ batch \in 0..MaxBatch /\ subLeft \in 0..MaxBatches
  /\ ch \in Seq(Message) /\ Len(ch) <= ChanCap
  /\ received \in Seq(Message)
  /\ closed \in BOOLEAN /\ reading \in BOOLEAN

\* NewTransactionStatusesDataProvider: fails on invalid arguments;
\* messageIndex starts at 0
Init ==
  /\ args \in AllArguments
  /\ created = (ParseTransactionStatusesArguments(args) = "ok")
  /\ runs = 0 /\ pc = "idle" /\ messageIndex = 0
  /\ batch = 0 /\ subLeft = 0
  /\ ch = <<>> /\ received = <<>>
  /\ closed = FALSE /\ reading = TRUE

-----------------------------------------------------------------------------
(* Run: create and start the subscription, reset messageIndex, enter the   *)
(* run loop. Run is called again only after the previous call returned.    *)

\* mutant: messageIndex not reset
RunNoReset ==
  /\ created /\ pc = "idle" /\ runs < MaxRuns
  /\ runs' = runs + 1 /\ pc' = "wait" /\ subLeft' = MaxBatches
  /\ UNCHANGED <<args, created, messageIndex, batch, ch, received, closed, reading>>

Run ==
  /\ created /\ pc = "idle" /\ runs < MaxRuns
  /\ runs' = runs + 1 /\ pc' = "wait" /\ subLeft' = MaxBatches
  /\ messageIndex' = 0
  /\ UNCHANGED <<args, created, batch, ch, received, closed, reading>>

\* the run loop hands a batch of n results to sendResponse
ReceiveBatch ==
  /\ pc = "wait" /\ subLeft > 0
  /\ \E n \in 0..MaxBatch : batch' = n
  /\ subLeft' = subLeft - 1 /\ pc' = "send"
  /\ UNCHANGED <<args, created, runs, messageIndex, ch, received, closed, reading>>

\* run's select: the subscription ends (all delivered, an error, the
\* context cancelled) or the done channel is closed; run returns and so
\* does Run; deferred cancel()
RunReturns ==
  /\ pc = "wait"
  /\ pc' = "idle" /\ subLeft' = 0
  /\ UNCHANGED <<args, created, runs, messageIndex, batch, ch, received,
                 closed, reading>>

-----------------------------------------------------------------------------
(* sendResponse: one iteration of its loop over the results                *)

\* mutant: a send that does not block on a full channel
ChanHasRoomOffByOne == Len(ch) <= ChanCap
\* p.send <- &response blocks while the channel is full
ChanHasRoom == Len(ch) < ChanCap

SendResponse ==
  /\ pc = "send" /\ batch > 0
  /\ ChanHasRoom
  \* Build(..., messageIndex.Value()), then messageIndex.Increment()
  /\ ch' = Append(ch, [run |-> runs, index |-> messageIndex])
  /\ messageIndex' = messageIndex + 1
  /\ batch' = batch - 1
  /\ UNCHANGED <<args, created, runs, pc, subLeft, received, closed, reading>>

\* the loop is over: return nil to the run loop
SendResponseDone ==
  /\ pc = "send" /\ batch = 0
  /\ pc' = "wait"
  /\ UNCHANGED <<args, created, runs, messageIndex, batch, subLeft, ch, received,
                 closed, reading>>

\* the client's writer takes a message from the channel
ClientReceive ==
  /\ reading /\ ch # <<>>
  /\ received' = Append(received, Head(ch)) /\ ch' = Tail(ch)
  /\ UNCHANGED <<args, created, runs, pc, messageIndex, batch, subLeft, closed,
                 reading>>

\* the client's writer stops (the connection is closed)
ClientStops ==
  /\ reading
  /\ reading' = FALSE
  /\ UNCHANGED <<args, created, runs, pc, messageIndex, batch, subLeft, ch,
                 received, closed>>

\* Close: the base provider closes its done channel
Close ==
  /\ created /\ ~closed
  /\ closed' = TRUE
  /\ UNCHANGED <<args, created, runs, pc, messageIndex, batch, subLeft, ch,
                 received, reading>>

\* no provider was created; or every Run has returned and the client has
\* everything or has gone; or sendResponse waits on a channel nobody reads
Finished ==
  /\ \/ ~created
     \/ pc = "idle" /\ runs = MaxRuns /\ (ch = <<>> \/ ~reading)
     \/ pc = "send" /\ batch > 0 /\ ~ChanHasRoom /\ ~reading
  /\ UNCHANGED vars

\* the provider's goroutine: Run's loop and sendResponse
Provider == ReceiveBatch \/ RunReturns \/ SendResponse \/ SendResponseDone

Next ==
  \/ Run \/ Provider \/ ClientReceive \/ ClientStops \/ Close \/ Finished

\* the provider's goroutine runs whenever it can, and so does the client's
\* writer while it reads
Spec == Init /\ [][Next]_vars /\ WF_vars(Provider) /\ WF_vars(ClientReceive)

-----------------------------------------------------------------------------
(* Properties                                                              *)

(* The constructor accepts exactly the arguments that name one            *)
(* transaction by a well-formed ID and nothing else: no unknown field, no  *)
(* missing, non-string, empty or malformed tx_id is let through.           *)
ArgumentsAcceptedExactlyWhenWellFormed ==
  created <=> (args = [f \in {"tx_id"} |-> "hex_id"])

\* messages of run r the client took before position i
EarlierOfRun(i, r) == Cardinality({j \in 1..(i - 1) : received[j].run = r})

(* The client sees each run's messages numbered 0, 1, 2, ... without gaps *)
(* or repeats, even when the channel still holds messages of the previous *)
(* run as the next Run resets messageIndex.                                *)
MessageIndicesConsecutive ==
  \A i \in 1..Len(received) :
    received[i].index = EarlierOfRun(i, received[i].run)

(* Close stops the provider: once the done channel is closed, a Run in     *)
(* progress returns (run selects on done; sendResponse's send on the       *)
(* client's channel does not).                                             *)
CloseEndsRun == closed ~> pc = "idle"
=============================================================================
