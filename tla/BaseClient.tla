------------------------------ MODULE BaseClient ------------------------------
(***************************************************************************)
(* The epoch contract client (src/module/epochs/base_client.go): a caller *)
(* checks its account (GetAccount), submits a signed transaction           *)
(* (SendTransaction) and waits for it to be sealed (WaitForSealed).        *)
(*                                                                         *)
(* WaitForSealed loops: retry.WithTimeout calls f, which assigns           *)
(* result, err = GetTransactionResult(...), until f succeeds or the retry  *)
(* budget is spent; the error of retry.WithTimeout is discarded and the    *)
(* loop then reads result.Error and result.Status.                         *)
(*                                                                         *)
(* Environment (not under src/): the access node answers or fails each     *)
(* request; on failure the SDK returns a nil result; retry.WithTimeout     *)
(* makes at most MaxAttempts attempts (its 1000 retries and 5 minute       *)
(* timeout) and stops at the first success; the transaction goes from      *)
(* pending to finalized, executed (with or without an execution error)    *)
(* and sealed, or expires before it is executed.                           *)
(***************************************************************************)
EXTENDS Naturals

CONSTANTS
  MaxAttempts,  \* attempts of one retry.WithTimeout call
  MaxKeys,      \* keys an account may have
  KeyIndex      \* c.AccountKeyIndex

ASSUME MaxAttempts \in Nat \ {0} /\ MaxKeys \in Nat /\ KeyIndex \in Nat

Statuses == {"unknown", "pending", "finalized", "executed", "sealed", "expired"}
NilResult == [status |-> "nil", error |-> FALSE]

VARIABLES
  status,    \* the transaction's status on the network
  execErr,   \* the transaction's execution failed
  pc,        \* the caller's position
  result,    \* WaitForSealed's `result` variable
  attempts,  \* attempts of the current retry.WithTimeout call
  ret        \* what the caller got back

vars == <<status, execErr, pc, result, attempts, ret>>

TypeOK ==
  /\ status \in Statuses /\ execErr \in BOOLEAN
  /\ pc \in {"getAccount", "send", "retry", "check", "returned", "panicked"}
  /\ result \in [status : Statuses \cup {"nil"}, error : BOOLEAN]
  /\ attempts \in 0..MaxAttempts
  /\ ret \in {"none", "ok", "error", "expired", "failed"}

Init ==
  /\ status = "unknown" /\ execErr = FALSE
  /\ pc = "getAccount" /\ result = NilResult /\ attempts = 0 /\ ret = "none"

Return(r) == pc' = "returned" /\ ret' = r

-----------------------------------------------------------------------------
(* The caller                                                              *)

\* GetAccount: the node fails, or the account has too few keys for the
\* configured index (len(account.Keys) <= AccountKeyIndex)
GetAccount ==
  /\ pc = "getAccount"
  /\ \/ Return("error")
     \/ \E keys \in 0..MaxKeys :
          IF keys <= KeyIndex THEN Return("error")
          ELSE pc' = "send" /\ UNCHANGED ret
  /\ UNCHANGED <<status, execErr, result, attempts>>

\* SendTransaction: an unsigned transaction is refused; the node may fail
\* the submission; otherwise the transaction is pending and the caller
\* enters WaitForSealed
SendTransaction ==
  /\ pc = "send"
  /\ \E signed \in BOOLEAN, accepted \in BOOLEAN :
       IF signed /\ accepted
         THEN pc' = "retry" /\ status' = "pending" /\ UNCHANGED ret
         ELSE Return("error") /\ UNCHANGED status
  /\ UNCHANGED <<execErr, result, attempts>>

\* mutant: one attempt more than the retry budget allows
RetryExhaustedOffByOne(n) == n + 1 > MaxAttempts
\* retry.WithTimeout gives up after its last attempt
RetryExhausted(n) == n + 1 = MaxAttempts

\* one call of f inside retry.WithTimeout: the node answers and the retry
\* stops, or it fails and `result` is overwritten with nil
Attempt ==
  /\ pc = "retry"
  /\ \/ result' = [status |-> status, error |-> execErr] /\ pc' = "check"
     \/ result' = NilResult
        /\ pc' = IF RetryExhausted(attempts) THEN "check" ELSE "retry"
  /\ attempts' = attempts + 1
  /\ UNCHANGED <<status, execErr, ret>>

\* mutant: the execution error of a sealed transaction not checked
CheckResultIgnoresError ==
  /\ pc = "check"
  /\ CASE result.status = "nil"     -> pc' = "panicked" /\ UNCHANGED ret
       [] result.status = "expired" -> Return("expired")
       [] result.status = "sealed"  -> Return("ok")
       [] OTHER -> pc' = "retry" /\ UNCHANGED ret
  /\ attempts' = 0
  /\ UNCHANGED <<status, execErr, result>>

\* mutant: sealed not recognised as the end of the wait
CheckResultNeverSealed ==
  /\ pc = "check"
  /\ CASE result.status = "nil"     -> pc' = "panicked" /\ UNCHANGED ret
       [] result.error              -> Return("failed")
       [] result.status = "expired" -> Return("expired")
       [] OTHER -> pc' = "retry" /\ UNCHANGED ret
  /\ attempts' = 0
  /\ UNCHANGED <<status, execErr, result>>

\* the loop body after retry.WithTimeout returns: result.Error on a nil
\* result is a nil pointer dereference; an execution error or expiry ends
\* with an error, a seal with nil; otherwise loop again
CheckResult ==
  /\ pc = "check"
  /\ CASE result.status = "nil"     -> pc' = "panicked" /\ UNCHANGED ret
       [] result.error              -> Return("failed")
       [] result.status = "expired" -> Return("expired")
       [] result.status = "sealed"  -> Return("ok")
       [] OTHER -> pc' = "retry" /\ UNCHANGED ret
  /\ attempts' = 0
  /\ UNCHANGED <<status, execErr, result>>

-----------------------------------------------------------------------------
(* The network                                                             *)

\* the transaction advances; it expires only before it is executed
Progress ==
  /\ \/ status = "pending"   /\ status' = "finalized" /\ UNCHANGED execErr
     \/ status = "finalized" /\ status' = "executed" /\ execErr' \in BOOLEAN
     \/ status = "executed"  /\ status' = "sealed" /\ UNCHANGED execErr
     \/ status \in {"pending", "finalized"} /\ status' = "expired"
          /\ UNCHANGED execErr
  /\ UNCHANGED <<pc, result, attempts, ret>>

\* the caller is done and the transaction final
Done ==
  /\ pc \in {"returned", "panicked"}
  /\ status \in {"unknown", "sealed", "expired"}
  /\ UNCHANGED vars

Client == GetAccount \/ SendTransaction \/ Attempt \/ CheckResult

Next == Client \/ Progress \/ Done

\* the caller's goroutine runs; a submitted transaction is eventually
\* sealed or expires
Spec == Init /\ [][Next]_vars /\ WF_vars(Client) /\ WF_vars(Progress)

-----------------------------------------------------------------------------
(* Properties                                                              *)

(* WaitForSealed reports success only for a transaction that is sealed and *)
(* whose execution did not fail, however the node's failures and the      *)
(* transaction's progress interleave with the polling.                     *)
SealedOnlySuccess ==
  ret = "ok" => status = "sealed" /\ ~execErr

(* The caller eventually gets an answer from GetAccount, SendTransaction   *)
(* or WaitForSealed: the polling loop ends once the transaction is final. *)
WaitForSealedTerminates == <>(pc \in {"returned", "panicked"})

(* WaitForSealed never dereferences a nil result: when the node fails     *)
(* every attempt of a retry, the caller gets an error rather than a panic. *)
NeverDereferencesNilResult == pc # "panicked"

=============================================================================
