------------------------------- MODULE Streamer -------------------------------
(***************************************************************************)
(* The access node's subscription streamer                                 *)
(* (src/engine/access/subscription/streamer.go): one goroutine per client  *)
(* subscription runs Stream, which waits on a notifier and on the client's *)
(* context and, on every notification, calls sendAllAvailable to read      *)
(* responses from the subscription and send them until no more are ready. *)
(*                                                                         *)
(* Environment (not under src/, modelled from its contract):               *)
(*   - the broadcaster, which notifies every subscribed notifier when new  *)
(*     data (a new height) becomes available;                              *)
(*   - the notifier, a channel of capacity 1 written without blocking, so  *)
(*     notifications coalesce and are never lost;                          *)
(*   - the height-based subscription: Next returns the response of         *)
(*     nextHeight and advances it, (nil, nil) for a height without a       *)
(*     response, ErrBlockNotReady past the available data, ErrEndOfData    *)
(*     past the end height, or any other error; Send may time out;         *)
(*   - the client, which may disconnect (cancel the context) at any time.  *)
(* Data is abstracted to heights: a response is the height it is for.      *)
(***************************************************************************)
EXTENDS Naturals, Sequences, SequencesExt

CONSTANTS
  MaxHeight,  \* the last height the broadcaster makes available
  EndHeight   \* heights past it make Next return ErrEndOfData

ASSUME MaxHeight \in Nat \ {0} /\ EndHeight \in 1..MaxHeight

Heights == 1..MaxHeight
NoResponse == 0

VARIABLES
  avail,       \* highest height whose data is available
  subscribed,  \* the notifier is subscribed to the broadcaster
  notified,    \* the notifier's channel holds a notification
  ctxDone,     \* the client's context is cancelled
  limited,     \* the streamer has a rate limiter (limit > 0)
  pc,          \* where Stream is: start, wait (select), next (loop of
               \* sendAllAvailable), send (s.sub.Send), done (returned)
  nextHeight,  \* the subscription's next height
  resp,        \* the response held between Next and Send
  out,         \* responses the client received, in order
  skipped,     \* heights for which Next returned (nil, nil)
  result       \* what the subscription was told: open, closed or failed

vars == <<avail, subscribed, notified, ctxDone, limited, pc, nextHeight,
          resp, out, skipped, result>>
env == <<avail, subscribed, notified, ctxDone, limited>>

TypeOK ==
  /\ avail \in 0..MaxHeight
  /\ subscribed \in BOOLEAN /\ notified \in BOOLEAN
  /\ ctxDone \in BOOLEAN /\ limited \in BOOLEAN
  /\ pc \in {"start", "wait", "next", "send", "done"}
  /\ nextHeight \in 1..(EndHeight + 1)
  /\ resp \in {NoResponse} \cup Heights
  /\ out \in Seq(Heights) /\ skipped \subseteq Heights
  /\ result \in {"open", "closed", "failed"}

(* NewStreamer: the limiter exists iff limit > 0; the subscription starts  *)
(* at its start height, with any amount of data already available.        *)
Init ==
  /\ avail \in 0..MaxHeight
  /\ subscribed = FALSE /\ notified = FALSE /\ ctxDone = FALSE
  /\ limited \in BOOLEAN
  /\ pc = "start" /\ nextHeight = 1 /\ resp = NoResponse
  /\ out = <<>> /\ skipped = {} /\ result = "open"

-----------------------------------------------------------------------------
(* Stream                                                                  *)

\* s.sub.Fail(...) and return
Fail == result' = "failed" /\ pc' = "done" /\ resp' = NoResponse

\* mutant: the initial notifier.Notify() left out
StreamStartNoInitialNotify ==
  /\ pc = "start"
  /\ subscribed' = TRUE /\ pc' = "wait"
  /\ UNCHANGED <<avail, notified, ctxDone, limited, nextHeight, resp, out,
                 skipped, result>>

\* Subscribe the notifier to the broadcaster, then notify it once so that
\* data available before the subscription is still read.
StreamStart ==
  /\ pc = "start"
  /\ subscribed' = TRUE /\ notified' = TRUE /\ pc' = "wait"
  /\ UNCHANGED <<avail, ctxDone, limited, nextHeight, resp, out, skipped,
                 result>>

\* select, case <-ctx.Done(): fail the subscription and return
SelectDone ==
  /\ pc = "wait" /\ ctxDone
  /\ Fail
  /\ UNCHANGED <<avail, subscribed, notified, ctxDone, limited, nextHeight,
                 out, skipped>>

\* select, case <-notifier.Channel(): receive and call sendAllAvailable
SelectNotified ==
  /\ pc = "wait" /\ notified
  /\ notified' = FALSE /\ pc' = "next"
  /\ UNCHANGED <<avail, subscribed, ctxDone, limited, nextHeight, resp, out,
                 skipped, result>>

-----------------------------------------------------------------------------
(* sendAllAvailable: one iteration of its loop                             *)

\* checkRateLimit: limiter.WaitN returns ctx.Err() once the context is done
CheckRateLimitFails == limited /\ ctxDone

\* mutant: ErrBlockNotReady treated like (nil, nil): continue
NotReadyBusyLoop == pc' = "next"
\* ErrBlockNotReady: no more available, return nil to Stream's select
NotReady == pc' = "wait"

SendAllAvailable ==
  /\ pc = "next"
  /\ IF CheckRateLimitFails
       THEN Fail /\ UNCHANGED <<nextHeight, out, skipped>>
       ELSE
         \/ \* ErrEndOfData: Stream closes the subscription and returns
            /\ nextHeight > EndHeight
            /\ result' = "closed" /\ pc' = "done"
            /\ UNCHANGED <<nextHeight, resp, out, skipped>>
         \/ \* ErrBlockNotReady
            /\ nextHeight <= EndHeight /\ nextHeight > avail
            /\ NotReady
            /\ UNCHANGED <<nextHeight, resp, out, skipped, result>>
         \/ \* response == nil && err == nil: continue
            /\ nextHeight <= EndHeight /\ nextHeight <= avail
            /\ skipped' = skipped \cup {nextHeight}
            /\ nextHeight' = nextHeight + 1
            /\ UNCHANGED <<pc, resp, out, result>>
         \/ \* a response: go on to Send
            /\ nextHeight <= EndHeight /\ nextHeight <= avail
            /\ resp' = nextHeight /\ nextHeight' = nextHeight + 1
            /\ pc' = "send"
            /\ UNCHANGED <<out, skipped, result>>
  /\ UNCHANGED env

\* Next returns any other error (a storage error, or the cancelled context
\* seen by the data lookup): Stream fails the subscription
NextFails ==
  /\ pc = "next"
  /\ Fail
  /\ UNCHANGED <<env, nextHeight, out, skipped>>

\* s.sub.Send succeeds: the client receives the response, loop again
SendOk ==
  /\ pc = "send"
  /\ out' = Append(out, resp) /\ resp' = NoResponse /\ pc' = "next"
  /\ UNCHANGED <<env, nextHeight, skipped, result>>

\* mutant: a Send error dropped instead of returned
SendSwallowed ==
  /\ pc = "send"
  /\ resp' = NoResponse /\ pc' = "next"
  /\ UNCHANGED <<env, nextHeight, out, skipped, result>>

\* s.sub.Send times out or sees the cancelled context: return err
SendFails ==
  /\ pc = "send"
  /\ Fail
  /\ UNCHANGED <<env, nextHeight, out, skipped>>

-----------------------------------------------------------------------------
(* Environment                                                             *)

\* mutant: the broadcaster publishes past its last height
PublishUnbounded ==
  /\ avail' = avail + 1
  /\ notified' = (notified \/ subscribed)
  /\ UNCHANGED <<subscribed, ctxDone, limited, pc, nextHeight, resp, out,
                 skipped, result>>

\* the broadcaster publishes: notifier.Notify is a non-blocking send on a
\* channel of capacity 1, so a pending notification absorbs a new one
Publish ==
  /\ avail < MaxHeight
  /\ avail' = avail + 1
  /\ notified' = (notified \/ subscribed)
  /\ UNCHANGED <<subscribed, ctxDone, limited, pc, nextHeight, resp, out,
                 skipped, result>>

\* the client disconnects
Cancel ==
  /\ ~ctxDone
  /\ ctxDone' = TRUE
  /\ UNCHANGED <<avail, subscribed, notified, limited, pc, nextHeight, resp,
                 out, skipped, result>>

\* Stream has returned
Halt == pc = "done" /\ UNCHANGED vars

\* the steps the streamer's goroutine takes whenever they are enabled;
\* failures of Next and Send are possible but never forced
Streaming ==
  StreamStart \/ SelectDone \/ SelectNotified \/ SendAllAvailable \/ SendOk

Next ==
  \/ Streaming \/ NextFails \/ SendFails
  \/ Publish \/ Cancel \/ Halt

Spec == Init /\ [][Next]_vars /\ WF_vars(Streaming)

-----------------------------------------------------------------------------
(* Properties                                                              *)

Delivered(h) == h \in Range(out) \cup skipped

(* Every height that becomes available (up to the end height) is           *)
(* eventually delivered to the client or the stream ends: a notification   *)
(* published while sendAllAvailable runs, or before the notifier was       *)
(* subscribed, is not lost (Stream's initial Notify, coalescing notifier). *)
AllAvailableDelivered ==
  \A h \in 1..EndHeight :
    (avail >= h) ~> (Delivered(h) \/ result = "failed")

(* A client that disconnects is eventually dropped: Stream returns even    *)
(* when no more data arrives and no limiter watches the context.           *)
CancelEventuallyStops == ctxDone ~> (pc = "done")

(* When Stream closes the subscription (ErrEndOfData), the client has      *)
(* received every response up to the end height, in order: no failed Send *)
(* was passed over.                                                        *)
ClosedOnlyWhenComplete ==
  result = "closed" =>
    /\ \A h \in 1..EndHeight : Delivered(h)
    /\ \A i \in 1..(Len(out) - 1) : out[i] < out[i + 1]

=============================================================================
