-------------------------- MODULE MC_AccessStreams --------------------------
(***************************************************************************)
(* The two access-node streaming paths checked in one run: the             *)
(* subscription Streamer (src/engine/access/subscription/streamer.go) and  *)
(* the websocket transaction-statuses data provider                        *)
(* (src/engine/access/rest/websockets/data_providers/                      *)
(*  transaction_statuses_provider.go). They serve different clients and    *)
(* share no state, and every property is about one of them, so a behaviour *)
(* of the run is a behaviour of one of them (`program`), the other staying *)
(* in one of its initial states: each is explored in full, without the     *)
(* product of the two state spaces, which an interleaving would add and    *)
(* which no property tells apart.                                          *)
(***************************************************************************)
EXTENDS Naturals

CONSTANTS MaxHeight, EndHeight, MaxRuns, MaxBatches, MaxBatch, ChanCap

VARIABLES
  avail, subscribed, notified, ctxDone, limited, streamPc, nextHeight, resp,
  out, skipped, result,
  args, created, runs, providerPc, messageIndex, batch, subLeft, ch, received,
  closed, reading,
  program   \* the part this behaviour runs: "streamer" or "provider"

S == INSTANCE Streamer WITH pc <- streamPc
T == INSTANCE TxStatusesProvider WITH pc <- providerPc

streamVars == <<avail, subscribed, notified, ctxDone, limited, streamPc,
                nextHeight, resp, out, skipped, result>>
providerVars == <<args, created, runs, providerPc, messageIndex, batch,
                  subLeft, ch, received, closed, reading>>
vars == <<streamVars, providerVars, program>>

\* the part this behaviour does not run stays in one of its initial states
StreamerIdle == S!Init /\ avail = 0 /\ limited = FALSE
ProviderIdle == T!Init /\ args = [f \in {"tx_id"} |-> "hex_id"]

Init ==
  /\ program \in {"streamer", "provider"}
  /\ IF program = "streamer" THEN S!Init ELSE StreamerIdle
  /\ IF program = "provider" THEN T!Init ELSE ProviderIdle

StreamerStep(A) == program = "streamer" /\ A /\ UNCHANGED <<providerVars, program>>
ProviderStep(A) == program = "provider" /\ A /\ UNCHANGED <<streamVars, program>>

Next == StreamerStep(S!Next) \/ ProviderStep(T!Next)

\* each module's fairness: the streamer's goroutine runs whenever it can;
\* so do the provider's goroutine and the client's writer while it reads
Spec ==
  /\ Init /\ [][Next]_vars
  /\ WF_vars(StreamerStep(S!Streaming))
  /\ WF_vars(ProviderStep(T!Provider)) /\ WF_vars(ProviderStep(T!ClientReceive))

\* a liveness property of one part is stated of the behaviours running it
TypeOK == S!TypeOK /\ T!TypeOK /\ program \in {"streamer", "provider"}

(* Streamer: a published height is eventually delivered or the stream      *)
(* fails (Stream, sendAllAvailable).                                       *)
AllAvailableDelivered == program = "streamer" => S!AllAvailableDelivered

(* Streamer: a cancelled client makes Stream return.                       *)
CancelEventuallyStops == program = "streamer" => S!CancelEventuallyStops

(* Streamer: closing on end of data only after every height was sent, in   *)
(* order.                                                                  *)
ClosedOnlyWhenComplete == S!ClosedOnlyWhenComplete

(* Provider: each Run numbers its messages 0, 1, 2, ... (sendResponse,     *)
(* messageIndex reset in Run).                                             *)
MessageIndicesConsecutive == T!MessageIndicesConsecutive

(* Provider: the constructor accepts exactly well-formed arguments          *)
(* (parseTransactionStatusesArguments).                                    *)
ArgumentsAcceptedExactlyWhenWellFormed == T!ArgumentsAcceptedExactlyWhenWellFormed

(* Provider: Close makes a running Run return.                             *)
CloseEndsRun == program = "provider" => T!CloseEndsRun
=============================================================================
