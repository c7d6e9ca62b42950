----------------------------- MODULE SagaProofs -----------------------------
(***************************************************************************)
(* Proofs about Saga, for any accounts, transfers, amounts and any number  *)
(* of failures.                                                            *)
(***************************************************************************)
EXTENDS Saga, SumTheorems, TLAPS

(***************************************************************************)
(* The inductive invariant.  It says of each transfer which messages may   *)
(* still be under way, which effects each place of handleStartTransfer     *)
(* knows to have happened, and what is certain while nothing disturbed it. *)
(***************************************************************************)

InMailbox(a, type, t) == [type |-> type, transfer |-> t] \in mailbox[a]
DebitPending(t) == InMailbox(From(t), "DebitAccount", t)
CreditPending(t) == InMailbox(To(t), "CreditAccount", t)
RefundPending(t) == InMailbox(From(t), "CreditAccount", t)

\* A debit goes to the source only, a credit to one of the two accounts.
MailboxInv ==
  \A a \in Accounts : \A m \in mailbox[a] :
    /\ m.type = "DebitAccount" => a = From(m.transfer)
    /\ m.type = "CreditAccount" => a \in {From(m.transfer), To(m.transfer)}

\* A request under way has not taken effect, and the orchestrator that sent it
\* waits for it or has given up on it.
PendingOK(t) ==
  /\ DebitPending(t) =>
       /\ "debit" \notin applied[t]
       /\ pc[t] \in {"debit", "failed"}
       /\ reply[t] \in {"none", "error"}
  /\ CreditPending(t) =>
       /\ "credit" \notin applied[t]
       /\ pc[t] \in {"credit", "compensated"} \cup Compensating
       /\ pc[t] = "credit" => reply[t] \in {"none", "error"}
  /\ RefundPending(t) =>
       /\ "refund" \notin applied[t]
       /\ pc[t] \in {"refund", "failing", "compensated"}
       /\ pc[t] = "refund" => reply[t] \in {"none", "error"}

\* What each place of the handler knows of the balances.
EffectOK(t) ==
  /\ pc[t] \in {"idle", "starting", "locateFrom"} => applied[t] = {}
  /\ pc[t] \in {"debit", "failed"} => applied[t] \subseteq {"debit"}
  /\ pc[t] = "debit" /\ reply[t] = "ok" => applied[t] = {"debit"}
  /\ pc[t] = "debit" /\ reply[t] = "no" => applied[t] = {}
  /\ pc[t] \in {"credit", "refund"} => reply[t] # "no"
  /\ pc[t] = "locateTo" => applied[t] = {"debit"}
  /\ pc[t] \in Crediting \cup Compensating \cup {"compensated"} =>
       "debit" \in applied[t]
  /\ pc[t] \in {"credit", "compensate"} => "refund" \notin applied[t]
  /\ pc[t] = "credit" /\ reply[t] = "ok" => "credit" \in applied[t]
  /\ pc[t] = "refund" /\ reply[t] = "ok" => "refund" \in applied[t]
  /\ pc[t] \in {"completing", "completed"} => applied[t] = {"debit", "credit"}

\* No Ask of an undisturbed transfer failed, so a refused debit will not happen
\* late, and it compensates only what was not and will not be credited.
UndisturbedOK(t) ==
  t \notin disturbed =>
    /\ pc[t] \in Waiting => reply[t] # "error"
    /\ pc[t] = "failed" => applied[t] = {} /\ ~DebitPending(t)
    /\ pc[t] \in Compensating \cup {"compensated"} =>
         "credit" \notin applied[t] /\ ~CreditPending(t)
    /\ pc[t] \in {"failing", "compensated"} => "refund" \in applied[t]

\* Which status may be stored, and which answer given, at each place.
RowOK(t) ==
  /\ pc[t] \in {"idle", "starting"} => transferRow[t] = "none"
  /\ pc[t] \in {"debit", "locateFrom", "compensate"} \cup Crediting =>
       transferRow[t] = "pending"
  /\ pc[t] \in {"refund", "failing"} =>
       transferRow[t] \in {"pending", "compensating"}
  /\ pc[t] = "completed" => transferRow[t] \in {"pending", "completed"}
  /\ pc[t] \in {"failed", "compensated"} => transferRow[t] # "completed"

AnswerOK(t) ==
  /\ answer[t] = "none" <=> pc[t] = "idle"
  /\ answer[t] = "completed" => pc[t] = "completed"
  /\ answer[t] = "failed" => pc[t] \in {"failed", "compensated"}

TransferOK(t) ==
  /\ PendingOK(t)
  /\ EffectOK(t)
  /\ UndisturbedOK(t)
  /\ RowOK(t)
  /\ AnswerOK(t)

TransferInv == \A t \in Transfers : TransferOK(t)

\* Unless a client charged the account, neither the memory of its actor nor its
\* row holds a negative balance.
BalanceInv ==
  \A a \in Accounts \ charged : balance[a] >= 0 /\ accountRow[a].balance >= 0

IInv == TypeOK /\ MailboxInv /\ TransferInv /\ BalanceInv

USE DEF accountVars, orchVars, storeVars, histVars, moneyVars

(***************************************************************************)
(* Type correctness.                                                       *)
(***************************************************************************)
Replies == {"none", "ok", "no", "error"}
Statuses == {"none", "pending", "compensating", "completed", "failed"}
Answers == {"none", "waiting", "completed", "failed", "error"}

LEMMA Labels ==
  /\ {"idle", "starting", "locateFrom", "debit"} \subseteq PCs
  /\ {"locateTo", "credit", "completing"} \subseteq PCs
  /\ {"compensate", "refund", "failing"} \subseteq PCs
  /\ {"completed", "failed", "compensated"} \subseteq PCs
  BY DEF PCs, Debiting, Crediting, Compensating, Ended

LEMMA RequestType ==
  ASSUME TypeOK, NEW t \in Transfers
  PROVE  /\ From(t) \in Accounts /\ To(t) \in Accounts
         /\ From(t) # To(t)
         /\ request[t].amount \in Nat
  BY AmountsAssumption DEF TypeOK, Requests, From, To

LEMMA PreStartType ==
  ASSUME TypeOK, NEW a \in Accounts, PreStart(a)
  PROVE  /\ status' \in [Accounts -> {"absent", "running", "stopped"}]
         /\ balance' \in [Accounts -> Int]
         /\ createdAt' \in [Accounts -> BOOLEAN]
  BY DEF TypeOK, PreStart, Holding, GetAccountState, Rows

LEMMA GotoType ==
  ASSUME TypeOK, NEW t \in Transfers, NEW label \in PCs, Goto(t, label)
  PROVE  pc' \in [Transfers -> PCs] /\ reply' \in [Transfers -> Replies]
  BY DEF TypeOK, Goto, Replies

LEMMA ReplyType ==
  ASSUME TypeOK, NEW t \in Transfers, NEW step, NEW r \in Replies,
         ReplyTo(t, step, r)
  PROVE  reply' \in [Transfers -> Replies]
  BY DEF TypeOK, ReplyTo, Replies

LEMMA SendType ==
  ASSUME TypeOK, NEW a \in Accounts, NEW t \in Transfers, NEW running,
         NEW type \in {"DebitAccount", "CreditAccount"},
         Send(running, a, type, t)
  PROVE  mailbox' \in [Accounts -> SUBSET Messages]
  <1>1. [type |-> type, transfer |-> t] \in Messages
    BY DEF Messages
  <1> QED
    BY <1>1 DEF TypeOK, Send

LEMMA FaultType ==
  ASSUME TypeOK, Fault PROVE faults' \in Nat
  BY DEF TypeOK, Fault

LEMMA TryWriteType ==
  ASSUME TypeOK, NEW t \in Transfers, NEW s \in Statuses,
         TryWriteTransferState(t, s)
  PROVE  /\ transferRow' \in [Transfers -> Statuses]
         /\ faults' \in Nat
  BY FaultType DEF TypeOK, TryWriteTransferState, WriteTransferState, Statuses

LEMMA ResponseType ==
  ASSUME TypeOK, NEW t \in Transfers, NEW r \in Answers, Response(t, r)
  PROVE  answer' \in [Transfers -> Answers]
  BY DEF TypeOK, Response, Answers

LEMMA TakeType ==
  ASSUME TypeOK, NEW a \in Accounts, NEW m, NEW type, Take(a, m, type)
  PROVE  /\ mailbox' \in [Accounts -> SUBSET Messages]
         /\ m \in Messages
         /\ m.transfer \in Transfers
  BY DEF TypeOK, Take, Messages

LEMMA AppliedType ==
  ASSUME TypeOK, NEW t \in Transfers, NEW e \in Effects
  PROVE  [applied EXCEPT ![t] = @ \cup {e}] \in [Transfers -> SUBSET Effects]
  BY DEF TypeOK

LEMMA LeaveType ==
  ASSUME TypeOK, NEW a \in Accounts, Leave(a)
  PROVE  /\ status' \in [Accounts -> {"absent", "running", "stopped"}]
         /\ balance' \in [Accounts -> Int]
         /\ createdAt' \in [Accounts -> BOOLEAN]
         /\ mailbox' \in [Accounts -> SUBSET Messages]
         /\ faults' \in Nat
         /\ disturbed' \subseteq Transfers
  <1>1. status' \in [Accounts -> {"absent", "running", "stopped"}]
    BY DEF TypeOK, Leave
  <1>2. balance' \in [Accounts -> Int] /\ createdAt' \in [Accounts -> BOOLEAN]
    BY DEF TypeOK, Leave
  <1>3. mailbox' \in [Accounts -> SUBSET Messages]
    BY DEF TypeOK, Leave
  <1>4. disturbed' \subseteq Transfers
    BY DEF TypeOK, Leave
  <1> QED
    BY <1>1, <1>2, <1>3, <1>4, FaultType DEF Leave

LEMMA InitType == Init => TypeOK
  BY AmountsAssumption, Labels DEF Init, TypeOK, NoRow, Rows, Requests

\* Every step keeps the types.
LEMMA NextType == TypeOK /\ [Next]_vars => TypeOK'
<1> SUFFICES ASSUME TypeOK, [Next]_vars PROVE TypeOK'
  OBVIOUS
<1> USE DEF Replies, Statuses, Answers
<1>1. ASSUME NEW t \in Transfers, CreateTransfer(t) PROVE TypeOK'
  BY <1>1, Labels, GotoType DEF TypeOK, CreateTransfer
<1>2. ASSUME NEW t \in Transfers, ClientTimeout(t) PROVE TypeOK'
  BY <1>2, FaultType DEF TypeOK, ClientTimeout
<1>3. ASSUME NEW t \in Transfers, CrashOrchestrator(t) PROVE TypeOK'
  BY <1>3, FaultType DEF TypeOK, CrashOrchestrator
<1>4. ASSUME NEW t \in Transfers, WritePending(t) PROVE TypeOK'
  <2>1. CASE /\ WriteTransferState(t, "pending") /\ Goto(t, "locateFrom")
             /\ UNCHANGED <<answer, faults>>
    BY <1>4, <2>1, Labels, GotoType DEF TypeOK, WritePending, WriteTransferState
  <2>2. CASE /\ Fault /\ Goto(t, "failed") /\ Response(t, "failed")
             /\ UNCHANGED transferRow
    BY <1>4, <2>2, Labels, GotoType, FaultType, ResponseType
       DEF TypeOK, WritePending
  <2> QED
    BY <1>4, <2>1, <2>2 DEF WritePending
<1>5. ASSUME NEW t \in Transfers, AskDebit(t) PROVE TypeOK'
  <2>1. CASE /\ PreStart(From(t))
             /\ Send(Running \cup {From(t)}, From(t), "DebitAccount", t)
             /\ Goto(t, "debit")
             /\ UNCHANGED <<transferRow, answer, faults>>
    <3>1. mailbox' \in [Accounts -> SUBSET Messages]
      BY <2>1, SendType, RequestType
    <3> QED
      BY <1>5, <2>1, <3>1, Labels, GotoType, PreStartType, RequestType
         DEF TypeOK, AskDebit
  <2>2. CASE /\ Fault
             /\ Goto(t, "failed")
             /\ WriteTransferState(t, "failed") \/ UNCHANGED transferRow
             /\ Response(t, "failed")
             /\ UNCHANGED <<accountVars, mailbox>>
    BY <1>5, <2>2, Labels, GotoType, FaultType, ResponseType
       DEF TypeOK, AskDebit, WriteTransferState
  <2> QED
    BY <1>5, <2>1, <2>2 DEF AskDebit
<1>6. ASSUME NEW t \in Transfers, DebitReplied(t) PROVE TypeOK'
  <2>1. CASE Goto(t, "locateTo") /\ UNCHANGED <<transferRow, answer, faults>>
    BY <1>6, <2>1, Labels, GotoType DEF TypeOK, DebitReplied
  <2>2. CASE failTransfer(t)
    BY <1>6, <2>2, Labels, GotoType, TryWriteType, ResponseType
       DEF TypeOK, DebitReplied, failTransfer, Fail
  <2> QED
    BY <1>6, <2>1, <2>2 DEF DebitReplied
<1>7. ASSUME NEW t \in Transfers, AskCredit(t) PROVE TypeOK'
  <2>1. CASE /\ PreStart(To(t))
             /\ Send(Running \cup {To(t)}, To(t), "CreditAccount", t)
             /\ Goto(t, "credit")
             /\ UNCHANGED faults
    <3>1. mailbox' \in [Accounts -> SUBSET Messages]
      BY <2>1, SendType, RequestType
    <3> QED
      BY <1>7, <2>1, <3>1, Labels, GotoType, PreStartType, RequestType
         DEF TypeOK, AskCredit
  <2>2. CASE /\ Fault
             /\ Goto(t, "compensate")
             /\ UNCHANGED <<accountVars, mailbox>>
    BY <1>7, <2>2, Labels, GotoType, FaultType DEF TypeOK, AskCredit
  <2> QED
    BY <1>7, <2>1, <2>2 DEF AskCredit
<1>8. ASSUME NEW t \in Transfers, CreditReplied(t) PROVE TypeOK'
  BY <1>8, Labels, GotoType DEF TypeOK, CreditReplied
<1>9. ASSUME NEW t \in Transfers, WriteCompleted(t) PROVE TypeOK'
  BY <1>9, Labels, GotoType, TryWriteType, ResponseType DEF TypeOK, WriteCompleted
<1>10. ASSUME NEW t \in Transfers, AskRefund(t) PROVE TypeOK'
  <2>1. mailbox' \in [Accounts -> SUBSET Messages]
    BY <1>10, SendType, RequestType DEF AskRefund
  <2> QED
    BY <1>10, <2>1, Labels, GotoType, TryWriteType DEF TypeOK, AskRefund
<1>11. ASSUME NEW t \in Transfers, RefundReplied(t) PROVE TypeOK'
  BY <1>11, Labels, GotoType DEF TypeOK, RefundReplied
<1>12. ASSUME NEW t \in Transfers, WriteFailed(t) PROVE TypeOK'
  BY <1>12, Labels, GotoType, TryWriteType, ResponseType
     DEF TypeOK, WriteFailed, Fail
<1>13. ASSUME NEW t \in Transfers, AskTimeout(t) PROVE TypeOK'
  <2>1. faults' \in Nat
    BY <1>13, FaultType DEF AskTimeout, TypeOK
  <2> QED
    BY <1>13, <2>1 DEF TypeOK, AskTimeout
<1>14. ASSUME NEW a \in Accounts, NEW m \in mailbox[a], DebitAccount(a, m)
       PROVE  TypeOK'
  <2>1. /\ mailbox' \in [Accounts -> SUBSET Messages]
        /\ m.transfer \in Transfers
    BY <1>14, TakeType DEF DebitAccount
  <2>2. reply' \in [Transfers -> Replies]
    BY <1>14, <2>1, ReplyType DEF DebitAccount
  <2>3. applied' \in [Transfers -> SUBSET Effects]
    <3>1. "debit" \in Effects
      BY DEF Effects
    <3>2. CASE UNCHANGED applied
      BY <3>2 DEF TypeOK
    <3>3. CASE applied' = [applied EXCEPT ![m.transfer] = @ \cup {"debit"}]
      BY <3>1, <3>3, <2>1, AppliedType
    <3> QED
      BY <1>14, <3>2, <3>3 DEF DebitAccount
  <2>4. balance' \in [Accounts -> Int]
    BY <1>14, <2>1, RequestType DEF DebitAccount, TypeOK
  <2> QED
    BY <1>14, <2>1, <2>2, <2>3, <2>4 DEF DebitAccount, TypeOK
<1>15. ASSUME NEW a \in Accounts, NEW m \in mailbox[a], CreditAccount(a, m)
       PROVE  TypeOK'
  <2>1. /\ mailbox' \in [Accounts -> SUBSET Messages]
        /\ m.transfer \in Transfers
    BY <1>15, TakeType DEF CreditAccount
  <2>2. reply' \in [Transfers -> Replies]
    BY <1>15, <2>1, ReplyType DEF CreditAccount
  <2>3. applied' \in [Transfers -> SUBSET Effects]
    BY <1>15, <2>1, AppliedType DEF CreditAccount, Effects
  <2>4. balance' \in [Accounts -> Int]
    BY <1>15, <2>1, RequestType DEF CreditAccount, TypeOK
  <2> QED
    BY <1>15, <2>1, <2>2, <2>3, <2>4 DEF CreditAccount, TypeOK
<1>16. ASSUME NEW a \in Accounts, NEW m \in mailbox[a], Lose(a, m)
       PROVE  TypeOK'
  <2>1. m.transfer \in Transfers
    BY DEF TypeOK, Messages
  <2> QED
    BY <1>16, <2>1, FaultType DEF TypeOK, Lose
<1>17. ASSUME NEW a \in Accounts, NEW amount \in Openings, CreateAccount(a, amount)
       PROVE  TypeOK'
  BY <1>17, CreditsAssumption
     DEF TypeOK, CreateAccount, Holding, GetAccountState, Rows
<1>18. ASSUME NEW a \in Accounts, NEW amount \in Credits, ClientCredit(a, amount)
       PROVE  TypeOK'
  BY <1>18, CreditsAssumption DEF TypeOK, ClientCredit
<1>19. ASSUME NEW a \in Accounts, PostStop(a) PROVE TypeOK'
  <2>1. accountRow' \in [Accounts -> Rows]
    <3>1. ToNumeric(balance[a], Cent) \in Int
      BY CentAssumption, NumericTwice DEF TypeOK
    <3> QED
      BY <1>19, <3>1 DEF PostStop, WriteAccountState, TypeOK, Rows
  <2>2. roundings' \in Nat
    BY <1>19 DEF PostStop, TypeOK
  <2> QED
    BY <1>19, <2>1, <2>2, LeaveType DEF PostStop, Leave, TypeOK
<1>20. ASSUME NEW a \in Accounts, CrashAccount(a) PROVE TypeOK'
  <2>1. deposited' \in Int
    BY <1>20 DEF CrashAccount, GetAccountState, TypeOK, Rows
  <2> QED
    BY <1>20, <2>1, LeaveType DEF CrashAccount, Leave, TypeOK
<1>21. ASSUME NEW a \in Accounts, Relocate(a) PROVE TypeOK'
  BY <1>21, PreStartType DEF TypeOK, Relocate
<1>22. CASE UNCHANGED vars
  BY <1>22 DEF TypeOK, vars
<1> QED
  BY <1>1, <1>2, <1>3, <1>4, <1>5, <1>6, <1>7, <1>8, <1>9, <1>10, <1>11, <1>12,
     <1>13, <1>14, <1>15, <1>16, <1>17, <1>18, <1>19, <1>20, <1>21, <1>22
     DEF Next, OrchestratorStep, AccountStep, Receive

\* Type correctness of the whole specification, TypeOK, for every instance.
THEOREM TypeCorrect == Spec => []TypeOK
<1>1. Init => TypeOK
  BY InitType
<1>2. TypeOK /\ [Next]_vars => TypeOK'
  BY NextType
<1> QED
  BY <1>1, <1>2, PTL DEF Spec

(***************************************************************************)
(* Balances.                                                               *)
(***************************************************************************)

\* Starting an account keeps balances non-negative, whether its actor was
\* found or loaded from its row.
LEMMA PreStartBalance ==
  ASSUME TypeOK, BalanceInv, NEW a \in Accounts, PreStart(a),
         UNCHANGED <<accountRow, charged>>
  PROVE  BalanceInv'
  BY DEF BalanceInv, PreStart, Holding, GetAccountState, TypeOK, Rows

LEMMA NextBalance == TypeOK /\ BalanceInv /\ [Next]_vars => BalanceInv'
<1> SUFFICES ASSUME TypeOK, BalanceInv, [Next]_vars PROVE BalanceInv'
  OBVIOUS
<1>0. CASE UNCHANGED <<balance, accountRow, charged>>
  BY <1>0 DEF BalanceInv
<1>1. ASSUME NEW t \in Transfers, AskDebit(t) PROVE BalanceInv'
  BY <1>1, <1>0, PreStartBalance, RequestType DEF AskDebit
<1>2. ASSUME NEW t \in Transfers, AskCredit(t) PROVE BalanceInv'
  BY <1>2, <1>0, PreStartBalance, RequestType DEF AskCredit
<1>3. ASSUME NEW a \in Accounts, NEW m \in mailbox[a], DebitAccount(a, m)
      PROVE  BalanceInv'
  <2>1. m.transfer \in Transfers
    BY <1>3, TakeType DEF DebitAccount
  <2>2. CASE UNCHANGED balance
    BY <1>3, <2>2, <1>0 DEF DebitAccount
  <2>3. CASE /\ balance[a] >= request[m.transfer].amount
             /\ balance' = [balance EXCEPT ![a] = @ - request[m.transfer].amount]
    BY <1>3, <2>1, <2>3, RequestType DEF DebitAccount, BalanceInv, TypeOK
  <2> QED
    BY <1>3, <2>2, <2>3 DEF DebitAccount
<1>4. ASSUME NEW a \in Accounts, NEW m \in mailbox[a], CreditAccount(a, m)
      PROVE  BalanceInv'
  <2>1. m.transfer \in Transfers
    BY <1>4, TakeType DEF CreditAccount
  <2> QED
    BY <1>4, <2>1, RequestType DEF CreditAccount, BalanceInv, TypeOK
<1>5. ASSUME NEW a \in Accounts, NEW amount \in Openings, CreateAccount(a, amount)
      PROVE  BalanceInv'
  BY <1>5, CreditsAssumption DEF CreateAccount, BalanceInv, TypeOK
<1>6. ASSUME NEW a \in Accounts, NEW amount \in Credits, ClientCredit(a, amount)
      PROVE  BalanceInv'
  BY <1>6, CreditsAssumption DEF ClientCredit, BalanceInv, TypeOK
<1>7. ASSUME NEW a \in Accounts, PostStop(a) PROVE BalanceInv'
  <2>1. balance[a] >= 0 => ToNumeric(balance[a], Cent) >= 0
    BY CentAssumption, NumericNear DEF TypeOK
  <2> QED
    BY <1>7, <2>1
       DEF PostStop, Leave, WriteAccountState, BalanceInv, TypeOK, Rows
<1>8. ASSUME NEW a \in Accounts, CrashAccount(a) PROVE BalanceInv'
  BY <1>8 DEF CrashAccount, Leave, BalanceInv, TypeOK
<1>9. ASSUME NEW a \in Accounts, Relocate(a) PROVE BalanceInv'
  BY <1>9, PreStartBalance DEF Relocate
<1>10. ASSUME NEW a \in Accounts, NEW m \in mailbox[a], Lose(a, m)
       PROVE  BalanceInv'
  BY <1>10, <1>0 DEF Lose
<1>11. ASSUME NEW t \in Transfers,
              \/ CreateTransfer(t) \/ ClientTimeout(t) \/ CrashOrchestrator(t)
              \/ WritePending(t) \/ DebitReplied(t) \/ CreditReplied(t)
              \/ WriteCompleted(t) \/ AskRefund(t) \/ RefundReplied(t)
              \/ WriteFailed(t) \/ AskTimeout(t)
       PROVE  BalanceInv'
  BY <1>11, <1>0
     DEF CreateTransfer, ClientTimeout, CrashOrchestrator, WritePending,
         DebitReplied, CreditReplied, WriteCompleted, AskRefund, RefundReplied,
         WriteFailed, AskTimeout
<1>12. CASE UNCHANGED vars
  BY <1>12, <1>0 DEF vars
<1> QED
  BY <1>1, <1>2, <1>3, <1>4, <1>5, <1>6, <1>7, <1>8, <1>9, <1>10, <1>11, <1>12
     DEF Next, OrchestratorStep, AccountStep, Receive

\* No interleaving of transfers, restarts and crashes takes an account below
\* zero, in memory or in Postgres, which clients never charged with a negative
\* amount (handleDebitAccount, PreStart, PostStop).
THEOREM OverdraftFree == Spec => []NoOverdraft
<1>1. Init => TypeOK /\ BalanceInv
  BY InitType DEF Init, BalanceInv, NoRow
<1>2. TypeOK /\ BalanceInv /\ [Next]_vars => (TypeOK /\ BalanceInv)'
  BY NextType, NextBalance
<1>3. BalanceInv => NoOverdraft
  BY DEF BalanceInv, NoOverdraft, Holding, GetAccountState
<1> QED
  BY <1>1, <1>2, <1>3, PTL DEF Spec

(***************************************************************************)
(* Messages.                                                               *)
(***************************************************************************)

\* A step that sends a message to an account it may be sent to, or none.
LEMMA SendMailbox ==
  ASSUME TypeOK, MailboxInv, NEW a \in Accounts, NEW t \in Transfers,
         NEW running, NEW type \in {"DebitAccount", "CreditAccount"},
         Send(running, a, type, t), UNCHANGED request,
         type = "DebitAccount" => a = From(t),
         type = "CreditAccount" => a \in {From(t), To(t)}
  PROVE  MailboxInv'
  <1>1. CASE UNCHANGED mailbox
    BY <1>1 DEF MailboxInv, From, To
  <1>2. CASE mailbox' = [mailbox EXCEPT ![a] =
                          @ \cup {[type |-> type, transfer |-> t]}]
    BY <1>2 DEF MailboxInv, From, To, TypeOK
  <1> QED
    BY <1>1, <1>2 DEF Send

LEMMA NextMailbox == TypeOK /\ MailboxInv /\ [Next]_vars => MailboxInv'
<1> SUFFICES ASSUME TypeOK, MailboxInv, [Next]_vars PROVE MailboxInv'
  OBVIOUS
<1>0. ASSUME UNCHANGED request,
             \A a \in Accounts : mailbox'[a] \subseteq mailbox[a]
      PROVE  MailboxInv'
  BY <1>0 DEF MailboxInv, From, To
<1>1. ASSUME NEW t \in Transfers, AskDebit(t) PROVE MailboxInv'
  BY <1>1, <1>0, SendMailbox, RequestType DEF AskDebit
<1>2. ASSUME NEW t \in Transfers, AskCredit(t) PROVE MailboxInv'
  BY <1>2, <1>0, SendMailbox, RequestType DEF AskCredit
<1>3. ASSUME NEW t \in Transfers, AskRefund(t) PROVE MailboxInv'
  BY <1>3, SendMailbox, RequestType DEF AskRefund
<1>4. ASSUME NEW a \in Accounts, NEW m \in mailbox[a],
             DebitAccount(a, m) \/ CreditAccount(a, m) \/ Lose(a, m)
      PROVE  MailboxInv'
  BY <1>4, <1>0 DEF DebitAccount, CreditAccount, Lose, Take, TypeOK
<1>5. ASSUME NEW a \in Accounts, PostStop(a) \/ CrashAccount(a)
      PROVE  MailboxInv'
  BY <1>5, <1>0 DEF PostStop, CrashAccount, Leave, TypeOK
<1>6. ASSUME NEW a \in Accounts,
             \/ Relocate(a)
             \/ \E amount \in Int :
                  CreateAccount(a, amount) \/ ClientCredit(a, amount)
      PROVE  MailboxInv'
  BY <1>6, <1>0 DEF Relocate, CreateAccount, ClientCredit
<1>7. ASSUME NEW t \in Transfers,
             \/ CreateTransfer(t) \/ ClientTimeout(t) \/ CrashOrchestrator(t)
             \/ WritePending(t) \/ DebitReplied(t) \/ CreditReplied(t)
             \/ WriteCompleted(t) \/ RefundReplied(t)
             \/ WriteFailed(t) \/ AskTimeout(t)
      PROVE  MailboxInv'
  BY <1>7, <1>0
     DEF CreateTransfer, ClientTimeout, CrashOrchestrator, WritePending,
         DebitReplied, CreditReplied, WriteCompleted, RefundReplied,
         WriteFailed, AskTimeout
<1>8. CASE UNCHANGED vars
  BY <1>8, <1>0 DEF vars
<1> QED
  BY <1>1, <1>2, <1>3, <1>4, <1>5, <1>6, <1>7, <1>8, CreditsAssumption
     DEF Next, OrchestratorStep, AccountStep, Receive

(***************************************************************************)
(* Transfers.  A step concerns one transfer; what is known of the others   *)
(* only depends on state that such a step leaves alone.                    *)
(***************************************************************************)

\* A step that changes nothing of transfer u but for messages it takes out of
\* mailboxes, and disturbances.
Kept(u) ==
  /\ request'[u] = request[u]
  /\ pc'[u] = pc[u]
  /\ reply'[u] = reply[u]
  /\ applied'[u] = applied[u]
  /\ transferRow'[u] = transferRow[u]
  /\ answer'[u] = answer[u]
  /\ u \in disturbed => u \in disturbed'
  /\ \A a \in Accounts : \A type \in {"DebitAccount", "CreditAccount"} :
       InMailbox(a, type, u)' => InMailbox(a, type, u)

LEMMA KeptOK ==
  ASSUME TypeOK, NEW u \in Transfers, TransferOK(u), Kept(u)
  PROVE  TransferOK(u)'
  <1>1. /\ From(u)' = From(u) /\ To(u)' = To(u)
        /\ From(u) \in Accounts /\ To(u) \in Accounts
    BY RequestType DEF Kept, From, To
  <1>2. /\ DebitPending(u)' => DebitPending(u)
        /\ CreditPending(u)' => CreditPending(u)
        /\ RefundPending(u)' => RefundPending(u)
    BY <1>1 DEF Kept, DebitPending, CreditPending, RefundPending, InMailbox
  <1>3. PendingOK(u)'
    BY <1>2 DEF Kept, TransferOK, PendingOK
  <1>4. EffectOK(u)'
    BY DEF Kept, TransferOK, EffectOK
  <1>5. UndisturbedOK(u)'
    BY <1>2 DEF Kept, TransferOK, UndisturbedOK
  <1>6. RowOK(u)' /\ AnswerOK(u)'
    BY DEF Kept, TransferOK, RowOK, AnswerOK
  <1> QED
    BY <1>3, <1>4, <1>5, <1>6 DEF TransferOK

\* A message of t is none of another transfer.
LEMMA SendKeeps ==
  ASSUME TypeOK, NEW a \in Accounts, NEW t \in Transfers,
         NEW running, NEW type, Send(running, a, type, t),
         NEW u \in Transfers \ {t}
  PROVE  \A b \in Accounts : \A ty \in {"DebitAccount", "CreditAccount"} :
           InMailbox(b, ty, u)' => InMailbox(b, ty, u)
  BY DEF TypeOK, Send, InMailbox

\* The steps of an orchestrator, its client and its node leave the other
\* transfers alone.
LEMMA OrchestratorKeeps ==
  ASSUME TypeOK, NEW t \in Transfers, NEW u \in Transfers \ {t},
         \/ OrchestratorStep(t) \/ CreateTransfer(t) \/ ClientTimeout(t)
         \/ CrashOrchestrator(t)
  PROVE  Kept(u)
<1> USE DEF Kept, TypeOK
<1>0. ASSUME UNCHANGED mailbox
      PROVE  \A a \in Accounts : \A type \in {"DebitAccount", "CreditAccount"} :
               InMailbox(a, type, u)' => InMailbox(a, type, u)
  BY <1>0 DEF InMailbox
<1>g. ASSUME NEW label, Goto(t, label)
      PROVE  pc'[u] = pc[u] /\ reply'[u] = reply[u]
  BY <1>g DEF Goto
<1>w. ASSUME NEW s, WriteTransferState(t, s) PROVE transferRow'[u] = transferRow[u]
  BY <1>w DEF WriteTransferState
<1>r. ASSUME NEW r, Response(t, r) PROVE answer'[u] = answer[u]
  BY <1>r DEF Response
<1>1. CASE CreateTransfer(t)
  BY <1>1, <1>0, <1>g DEF CreateTransfer
<1>2. CASE ClientTimeout(t)
  BY <1>2, <1>0 DEF ClientTimeout
<1>3. CASE CrashOrchestrator(t)
  BY <1>3, <1>0 DEF CrashOrchestrator
<1>4. CASE WritePending(t)
  BY <1>4, <1>0, <1>g, <1>w, <1>r DEF WritePending
<1>5. CASE AskDebit(t)
  BY <1>5, <1>0, <1>g, <1>w, <1>r, SendKeeps, RequestType DEF AskDebit
<1>6. CASE DebitReplied(t)
  BY <1>6, <1>0, <1>g, <1>w, <1>r
     DEF DebitReplied, failTransfer, Fail, TryWriteTransferState
<1>7. CASE AskCredit(t)
  BY <1>7, <1>0, <1>g, SendKeeps, RequestType DEF AskCredit
<1>8. CASE CreditReplied(t)
  BY <1>8, <1>0, <1>g DEF CreditReplied
<1>9. CASE WriteCompleted(t)
  BY <1>9, <1>0, <1>g, <1>w, <1>r DEF WriteCompleted, TryWriteTransferState
<1>10. CASE AskRefund(t)
  BY <1>10, <1>g, <1>w, SendKeeps, RequestType
     DEF AskRefund, TryWriteTransferState
<1>11. CASE RefundReplied(t)
  BY <1>11, <1>0, <1>g DEF RefundReplied
<1>12. CASE WriteFailed(t)
  BY <1>12, <1>0, <1>g, <1>w, <1>r DEF WriteFailed, Fail, TryWriteTransferState
<1>13. CASE AskTimeout(t)
  BY <1>13, <1>0 DEF AskTimeout
<1> QED
  BY <1>1, <1>2, <1>3, <1>4, <1>5, <1>6, <1>7, <1>8, <1>9, <1>10, <1>11, <1>12,
     <1>13 DEF OrchestratorStep

\* The steps of an account leave a transfer alone whose message is not taken.
LEMMA AccountKeeps ==
  ASSUME TypeOK, NEW a \in Accounts, NEW u \in Transfers,
         \/ \E m \in mailbox[a] :
              \/ DebitAccount(a, m) /\ u # m.transfer
              \/ CreditAccount(a, m) /\ u # m.transfer
              \/ Lose(a, m)
         \/ \E amount \in Int :
              CreateAccount(a, amount) \/ ClientCredit(a, amount)
         \/ PostStop(a) \/ CrashAccount(a) \/ Relocate(a)
  PROVE  Kept(u)
<1> USE DEF Kept, TypeOK
<1>0. ASSUME \A b \in Accounts : mailbox'[b] \subseteq mailbox[b]
      PROVE  \A b \in Accounts : \A type \in {"DebitAccount", "CreditAccount"} :
               InMailbox(b, type, u)' => InMailbox(b, type, u)
  BY <1>0 DEF InMailbox
<1>1. ASSUME NEW m \in mailbox[a], DebitAccount(a, m), u # m.transfer
      PROVE  Kept(u)
  <2>1. \A b \in Accounts : mailbox'[b] \subseteq mailbox[b]
    BY <1>1 DEF DebitAccount, Take
  <2> QED
    BY <1>1, <2>1, <1>0 DEF DebitAccount, ReplyTo
<1>2. ASSUME NEW m \in mailbox[a], CreditAccount(a, m), u # m.transfer
      PROVE  Kept(u)
  <2>1. \A b \in Accounts : mailbox'[b] \subseteq mailbox[b]
    BY <1>2 DEF CreditAccount, Take
  <2> QED
    BY <1>2, <2>1, <1>0 DEF CreditAccount, ReplyTo
<1>3. ASSUME NEW m \in mailbox[a], Lose(a, m) PROVE Kept(u)
  BY <1>3, <1>0 DEF Lose
<1>4. ASSUME NEW amount \in Int,
             CreateAccount(a, amount) \/ ClientCredit(a, amount)
      PROVE  Kept(u)
  BY <1>4, <1>0 DEF CreateAccount, ClientCredit
<1>5. CASE PostStop(a) \/ CrashAccount(a)
  <2>1. \A b \in Accounts : mailbox'[b] \subseteq mailbox[b]
    BY <1>5 DEF PostStop, CrashAccount, Leave
  <2> QED
    BY <1>5, <2>1, <1>0 DEF PostStop, CrashAccount, Leave
<1>6. CASE Relocate(a)
  BY <1>6, <1>0 DEF Relocate
<1> QED
  BY <1>1, <1>2, <1>3, <1>4, <1>5, <1>6

\* What a step of its own orchestrator, client or node does to a transfer.
LEMMA OrchestratorOK ==
  ASSUME TypeOK, MailboxInv, NEW t \in Transfers, TransferOK(t),
         \/ OrchestratorStep(t) \/ CreateTransfer(t) \/ ClientTimeout(t)
         \/ CrashOrchestrator(t)
  PROVE  TransferOK(t)'
<1> USE DEF Crediting, Compensating, Waiting
<1>0. ASSUME UNCHANGED <<mailbox, request>>
      PROVE  /\ DebitPending(t)' = DebitPending(t)
             /\ CreditPending(t)' = CreditPending(t)
             /\ RefundPending(t)' = RefundPending(t)
  BY <1>0 DEF DebitPending, CreditPending, RefundPending, InMailbox, From, To
<1>g. ASSUME NEW label, Goto(t, label)
      PROVE  pc'[t] = label /\ reply'[t] = "none"
  BY <1>g DEF Goto, TypeOK
<1>w. ASSUME NEW s, TryWriteTransferState(t, s)
      PROVE transferRow'[t] \in {s, transferRow[t]}
  BY <1>w DEF TryWriteTransferState, WriteTransferState, TypeOK
<1>r. ASSUME NEW r, Response(t, r)
      PROVE answer'[t] = IF answer[t] = "waiting" THEN r ELSE answer[t]
  BY <1>r DEF Response, TypeOK
<1>1. CASE CreateTransfer(t)
  <2>1. /\ pc[t] = "idle" /\ pc'[t] = "starting" /\ reply'[t] = "none"
        /\ answer'[t] = "waiting"
        /\ UNCHANGED <<mailbox, request, transferRow, applied, disturbed>>
    BY <1>1, <1>g DEF CreateTransfer, TypeOK
  <2>2. PendingOK(t)'
    BY <2>1, <1>0 DEF TransferOK, PendingOK
  <2>3. EffectOK(t)' /\ UndisturbedOK(t)'
    BY <2>1 DEF TransferOK, EffectOK, UndisturbedOK
  <2>4. RowOK(t)' /\ AnswerOK(t)'
    BY <2>1 DEF TransferOK, RowOK, AnswerOK
  <2> QED
    BY <2>2, <2>3, <2>4 DEF TransferOK
<1>2. CASE ClientTimeout(t)
  <2>1. /\ answer[t] = "waiting" /\ answer'[t] = "error"
        /\ UNCHANGED <<mailbox, request, pc, reply, transferRow, applied, disturbed>>
    BY <1>2 DEF ClientTimeout, TypeOK
  <2>2. PendingOK(t)' /\ UndisturbedOK(t)'
    BY <2>1, <1>0 DEF TransferOK, PendingOK, UndisturbedOK
  <2>3. EffectOK(t)' /\ RowOK(t)' /\ AnswerOK(t)'
    BY <2>1 DEF TransferOK, EffectOK, RowOK, AnswerOK
  <2> QED
    BY <2>2, <2>3 DEF TransferOK
<1>3. CASE CrashOrchestrator(t)
  <2>1. Kept(t)
    BY <1>3 DEF CrashOrchestrator, Kept, InMailbox
  <2> QED
    BY <2>1, KeptOK
<1>4. CASE WritePending(t)
  <2>1. /\ pc[t] = "starting" /\ reply'[t] = "none"
        /\ UNCHANGED <<mailbox, request, applied, disturbed>>
        /\ \/ /\ pc'[t] = "locateFrom" /\ transferRow'[t] = "pending"
              /\ UNCHANGED answer
           \/ /\ pc'[t] = "failed" /\ UNCHANGED transferRow
              /\ answer'[t] = IF answer[t] = "waiting" THEN "failed" ELSE answer[t]
    BY <1>4, <1>g, <1>r DEF WritePending, At, WriteTransferState, TypeOK
  <2>2. PendingOK(t)' /\ UndisturbedOK(t)'
    BY <2>1, <1>0 DEF TransferOK, PendingOK, EffectOK, UndisturbedOK
  <2>3. EffectOK(t)' /\ RowOK(t)' /\ AnswerOK(t)'
    BY <2>1 DEF TransferOK, EffectOK, RowOK, AnswerOK
  <2> QED
    BY <2>2, <2>3 DEF TransferOK
<1>5. CASE AskDebit(t)
  <2>1. /\ pc[t] = "locateFrom" /\ reply'[t] = "none"
        /\ UNCHANGED <<request, applied, disturbed>>
    BY <1>5, <1>g DEF AskDebit, At
  <2>2. ~DebitPending(t) /\ ~CreditPending(t) /\ ~RefundPending(t)
    BY <2>1 DEF TransferOK, PendingOK
  <2>3. CASE /\ Send(Running \cup {From(t)}, From(t), "DebitAccount", t)
             /\ Goto(t, "debit")
             /\ UNCHANGED <<transferRow, answer>>
    <3>1. ~CreditPending(t)' /\ ~RefundPending(t)'
      BY <2>1, <2>2, <2>3, RequestType
         DEF CreditPending, RefundPending, InMailbox, Send, From, To, TypeOK
    <3>2. PendingOK(t)' /\ UndisturbedOK(t)'
      BY <2>1, <2>3, <3>1, <1>g DEF TransferOK, EffectOK, PendingOK, UndisturbedOK
    <3>3. EffectOK(t)' /\ RowOK(t)' /\ AnswerOK(t)'
      BY <2>1, <2>3, <1>g DEF TransferOK, EffectOK, RowOK, AnswerOK
    <3> QED
      BY <3>2, <3>3 DEF TransferOK
  <2>4. CASE /\ Goto(t, "failed")
             /\ WriteTransferState(t, "failed") \/ UNCHANGED transferRow
             /\ Response(t, "failed")
             /\ UNCHANGED mailbox
    <3>1. transferRow'[t] \in {"failed", transferRow[t]}
      BY <2>4 DEF WriteTransferState, TypeOK
    <3>2. PendingOK(t)' /\ UndisturbedOK(t)'
      BY <2>1, <2>2, <2>4, <1>0, <1>g
         DEF TransferOK, EffectOK, PendingOK, UndisturbedOK
    <3>3. EffectOK(t)' /\ RowOK(t)' /\ AnswerOK(t)'
      BY <2>1, <2>4, <3>1, <1>g, <1>r DEF TransferOK, EffectOK, RowOK, AnswerOK
    <3> QED
      BY <3>2, <3>3 DEF TransferOK
  <2> QED
    BY <1>5, <2>3, <2>4 DEF AskDebit
<1>6. CASE DebitReplied(t)
  <2>1. /\ pc[t] = "debit" /\ reply'[t] = "none"
        /\ UNCHANGED <<mailbox, request, applied, disturbed>>
        /\ \/ /\ reply[t] = "ok" /\ pc'[t] = "locateTo"
              /\ UNCHANGED <<transferRow, answer>>
           \/ /\ reply[t] \in {"no", "error"} /\ pc'[t] = "failed"
              /\ transferRow'[t] \in {"failed", transferRow[t]}
              /\ answer'[t] = IF answer[t] = "waiting" THEN "failed" ELSE answer[t]
    BY <1>6, <1>g, <1>w, <1>r DEF DebitReplied, At, failTransfer, Fail
  <2>2. PendingOK(t)' /\ UndisturbedOK(t)'
    BY <2>1, <1>0 DEF TransferOK, PendingOK, EffectOK, UndisturbedOK
  <2>3. EffectOK(t)' /\ RowOK(t)' /\ AnswerOK(t)'
    BY <2>1 DEF TransferOK, EffectOK, RowOK, AnswerOK
  <2> QED
    BY <2>2, <2>3 DEF TransferOK
<1>7. CASE AskCredit(t)
  <2>1. /\ pc[t] = "locateTo" /\ reply'[t] = "none"
        /\ UNCHANGED <<request, transferRow, answer, applied, disturbed>>
    BY <1>7, <1>g DEF AskCredit, At
  <2>2. ~DebitPending(t) /\ ~CreditPending(t) /\ ~RefundPending(t)
    BY <2>1 DEF TransferOK, PendingOK
  <2>3. CASE /\ Send(Running \cup {To(t)}, To(t), "CreditAccount", t)
             /\ Goto(t, "credit")
    <3>1. ~DebitPending(t)' /\ ~RefundPending(t)'
      BY <2>1, <2>2, <2>3, RequestType
         DEF DebitPending, RefundPending, InMailbox, Send, From, To, TypeOK
    <3>2. PendingOK(t)' /\ UndisturbedOK(t)'
      BY <2>1, <2>3, <3>1, <1>g DEF TransferOK, EffectOK, PendingOK, UndisturbedOK
    <3>3. EffectOK(t)' /\ RowOK(t)' /\ AnswerOK(t)'
      BY <2>1, <2>3, <1>g DEF TransferOK, EffectOK, RowOK, AnswerOK
    <3> QED
      BY <3>2, <3>3 DEF TransferOK
  <2>4. CASE Goto(t, "compensate") /\ UNCHANGED mailbox
    <3>1. PendingOK(t)' /\ UndisturbedOK(t)'
      BY <2>1, <2>2, <2>4, <1>0, <1>g
         DEF TransferOK, EffectOK, PendingOK, UndisturbedOK
    <3>2. EffectOK(t)' /\ RowOK(t)' /\ AnswerOK(t)'
      BY <2>1, <2>4, <1>g DEF TransferOK, EffectOK, RowOK, AnswerOK
    <3> QED
      BY <3>1, <3>2 DEF TransferOK
  <2> QED
    BY <1>7, <2>3, <2>4 DEF AskCredit
<1>8. CASE CreditReplied(t)
  <2>1. /\ pc[t] = "credit" /\ reply'[t] = "none"
        /\ UNCHANGED <<mailbox, request, transferRow, answer, applied, disturbed>>
        /\ \/ reply[t] = "ok" /\ pc'[t] = "completing"
           \/ reply[t] = "error" /\ pc'[t] = "compensate"
    BY <1>8, <1>g DEF CreditReplied, At
  <2>2. PendingOK(t)' /\ UndisturbedOK(t)'
    BY <2>1, <1>0 DEF TransferOK, PendingOK, EffectOK, UndisturbedOK
  <2>3. EffectOK(t)'
    BY <2>1 DEF TransferOK, EffectOK, TypeOK, Effects
  <2>4. RowOK(t)' /\ AnswerOK(t)'
    BY <2>1 DEF TransferOK, RowOK, AnswerOK
  <2> QED
    BY <2>2, <2>3, <2>4 DEF TransferOK
<1>9. CASE WriteCompleted(t)
  <2>1. /\ pc[t] = "completing" /\ pc'[t] = "completed" /\ reply'[t] = "none"
        /\ UNCHANGED <<mailbox, request, applied, disturbed>>
        /\ transferRow'[t] \in {"completed", transferRow[t]}
        /\ answer'[t] = IF answer[t] = "waiting" THEN "completed" ELSE answer[t]
    BY <1>9, <1>g, <1>w, <1>r DEF WriteCompleted, At
  <2>2. PendingOK(t)' /\ UndisturbedOK(t)'
    BY <2>1, <1>0 DEF TransferOK, PendingOK, EffectOK, UndisturbedOK
  <2>3. EffectOK(t)' /\ RowOK(t)' /\ AnswerOK(t)'
    BY <2>1 DEF TransferOK, EffectOK, RowOK, AnswerOK
  <2> QED
    BY <2>2, <2>3 DEF TransferOK
<1>10. CASE AskRefund(t)
  <2>1. /\ pc[t] = "compensate" /\ pc'[t] = "refund" /\ reply'[t] = "none"
        /\ UNCHANGED <<request, answer, applied, disturbed>>
        /\ transferRow'[t] \in {"compensating", transferRow[t]}
    BY <1>10, <1>g, <1>w DEF AskRefund, At
  <2>2. /\ ~DebitPending(t)'
        /\ CreditPending(t)' => CreditPending(t)
    <3>1. ~DebitPending(t)
      BY <2>1 DEF TransferOK, PendingOK
    <3> QED
      BY <1>10, <2>1, <3>1, RequestType
         DEF AskRefund, DebitPending, CreditPending, InMailbox, Send, From, To,
             TypeOK
  <2>3. PendingOK(t)' /\ UndisturbedOK(t)'
    BY <2>1, <2>2 DEF TransferOK, PendingOK, EffectOK, UndisturbedOK
  <2>4. EffectOK(t)' /\ RowOK(t)' /\ AnswerOK(t)'
    BY <2>1 DEF TransferOK, EffectOK, RowOK, AnswerOK
  <2> QED
    BY <2>3, <2>4 DEF TransferOK
<1>11. CASE RefundReplied(t)
  <2>1. /\ pc[t] = "refund" /\ pc'[t] = "failing" /\ reply[t] # "none"
        /\ reply'[t] = "none" /\ reply[t] \in {"none", "ok", "no", "error"}
        /\ UNCHANGED <<mailbox, request, transferRow, answer, applied, disturbed>>
    BY <1>11, <1>g DEF RefundReplied, At, TypeOK
  <2>2. PendingOK(t)' /\ UndisturbedOK(t)'
    BY <2>1, <1>0 DEF TransferOK, PendingOK, EffectOK, UndisturbedOK
  <2>3. EffectOK(t)' /\ RowOK(t)' /\ AnswerOK(t)'
    BY <2>1 DEF TransferOK, EffectOK, RowOK, AnswerOK
  <2> QED
    BY <2>2, <2>3 DEF TransferOK
<1>12. CASE WriteFailed(t)
  <2>1. /\ pc[t] = "failing" /\ pc'[t] = "compensated" /\ reply'[t] = "none"
        /\ UNCHANGED <<mailbox, request, applied, disturbed>>
        /\ transferRow'[t] \in {"failed", transferRow[t]}
        /\ answer'[t] = IF answer[t] = "waiting" THEN "failed" ELSE answer[t]
    BY <1>12, <1>g, <1>w, <1>r DEF WriteFailed, At, Fail
  <2>2. PendingOK(t)' /\ UndisturbedOK(t)'
    BY <2>1, <1>0 DEF TransferOK, PendingOK, EffectOK, UndisturbedOK
  <2>3. EffectOK(t)' /\ RowOK(t)' /\ AnswerOK(t)'
    BY <2>1 DEF TransferOK, EffectOK, RowOK, AnswerOK
  <2> QED
    BY <2>2, <2>3 DEF TransferOK
<1>13. CASE AskTimeout(t)
  <2>1. /\ pc[t] \in Waiting /\ reply[t] = "none" /\ reply'[t] = "error"
        /\ t \in disturbed'
        /\ UNCHANGED <<mailbox, request, pc, transferRow, answer, applied>>
    BY <1>13 DEF AskTimeout, TypeOK
  <2>2. PendingOK(t)' /\ UndisturbedOK(t)'
    BY <2>1, <1>0 DEF TransferOK, PendingOK, UndisturbedOK
  <2>3. EffectOK(t)' /\ RowOK(t)' /\ AnswerOK(t)'
    BY <2>1 DEF TransferOK, EffectOK, RowOK, AnswerOK
  <2> QED
    BY <2>2, <2>3 DEF TransferOK
<1> QED
  BY <1>1, <1>2, <1>3, <1>4, <1>5, <1>6, <1>7, <1>8, <1>9, <1>10, <1>11, <1>12,
     <1>13 DEF OrchestratorStep

\* A message is determined by its type and its transfer.
LEMMA MessageIs ==
  ASSUME TypeOK, NEW a \in Accounts, NEW m \in mailbox[a]
  PROVE  /\ m = [type |-> m.type, transfer |-> m.transfer]
         /\ m.transfer \in Transfers
  BY DEF TypeOK, Messages

\* The source handles the debit of a transfer, perhaps long after the Ask for
\* it has ended.
LEMMA DebitOK ==
  ASSUME TypeOK, MailboxInv, NEW a \in Accounts, NEW m \in mailbox[a],
         DebitAccount(a, m), TransferOK(m.transfer)
  PROVE  TransferOK(m.transfer)'
<1> DEFINE t == m.transfer
<1>0. t \in Transfers /\ m = [type |-> "DebitAccount", transfer |-> t]
  BY MessageIs DEF DebitAccount, Take
<1>1. a = From(t)
  BY <1>0 DEF MailboxInv
<1>2. DebitPending(t)
  BY <1>0, <1>1 DEF DebitPending, InMailbox
<1>3. /\ ~DebitPending(t)'
      /\ CreditPending(t)' = CreditPending(t)
      /\ RefundPending(t)' = RefundPending(t)
  BY <1>0, <1>1, RequestType
     DEF DebitAccount, Take, DebitPending, CreditPending, RefundPending,
         InMailbox, From, To, TypeOK
<1>4. /\ pc[t] \in {"debit", "failed"} /\ reply[t] \in {"none", "error"}
      /\ "debit" \notin applied[t]
  BY <1>2 DEF TransferOK, PendingOK
<1>5. /\ UNCHANGED <<pc, transferRow, answer, disturbed>>
      /\ \/ applied'[t] = applied[t] /\ reply'[t] \in {"no", reply[t]}
         \/ /\ applied'[t] = applied[t] \cup {"debit"}
            /\ reply'[t] \in {"ok", reply[t]}
      /\ reply'[t] # reply[t] => pc[t] = "debit" /\ reply[t] = "none"
  BY <1>0 DEF DebitAccount, ReplyTo, TypeOK
<1>6. applied[t] = {}
  BY <1>4 DEF TransferOK, EffectOK
<1>7. PendingOK(t)'
  BY <1>3, <1>4, <1>5 DEF TransferOK, PendingOK, Compensating
<1>8. EffectOK(t)'
  BY <1>4, <1>5, <1>6 DEF TransferOK, EffectOK, Crediting, Compensating
<1>9. UndisturbedOK(t)'
  BY <1>2, <1>3, <1>4, <1>5 DEF TransferOK, UndisturbedOK, Waiting, Compensating
<1>10. RowOK(t)' /\ AnswerOK(t)'
  BY <1>5 DEF TransferOK, RowOK, AnswerOK
<1> QED
  BY <1>7, <1>8, <1>9, <1>10 DEF TransferOK

\* The destination handles the credit of a transfer, or the source its refund.
LEMMA CreditOK ==
  ASSUME TypeOK, MailboxInv, NEW a \in Accounts, NEW m \in mailbox[a],
         CreditAccount(a, m), TransferOK(m.transfer)
  PROVE  TransferOK(m.transfer)'
<1> DEFINE t == m.transfer
<1> USE DEF Waiting, Crediting, Compensating
<1>0. t \in Transfers /\ m = [type |-> "CreditAccount", transfer |-> t]
  BY MessageIs DEF CreditAccount, Take
<1>1. a \in {From(t), To(t)} /\ From(t) # To(t)
  BY <1>0, RequestType DEF MailboxInv
<1>2. UNCHANGED <<pc, transferRow, answer, disturbed>>
  BY DEF CreditAccount
<1>3. CASE a = To(t)
  <2>1. CreditPending(t)
    BY <1>0, <1>3 DEF CreditPending, InMailbox
  <2>2. /\ ~CreditPending(t)'
        /\ DebitPending(t)' = DebitPending(t)
        /\ RefundPending(t)' = RefundPending(t)
    BY <1>0, <1>1, <1>3, RequestType
       DEF CreditAccount, Take, DebitPending, CreditPending, RefundPending,
           InMailbox, From, To, TypeOK
  <2>3. /\ pc[t] \in {"credit", "compensated"} \cup Compensating
        /\ pc[t] = "credit" => reply[t] \in {"none", "error"}
    BY <2>1 DEF TransferOK, PendingOK
  <2>4. /\ applied'[t] = applied[t] \cup {"credit"}
        /\ reply'[t] \in {"ok", reply[t]}
        /\ reply'[t] # reply[t] => pc[t] = "credit" /\ reply[t] = "none"
    BY <1>0, <1>3 DEF CreditAccount, ReplyTo, TypeOK
  <2>5. PendingOK(t)'
    BY <1>2, <2>2, <2>3, <2>4 DEF TransferOK, PendingOK
  <2>6. EffectOK(t)'
    BY <1>2, <2>3, <2>4 DEF TransferOK, EffectOK
  <2>7. UndisturbedOK(t)'
    BY <1>2, <2>1, <2>2, <2>3, <2>4 DEF TransferOK, UndisturbedOK
  <2>8. RowOK(t)' /\ AnswerOK(t)'
    BY <1>2 DEF TransferOK, RowOK, AnswerOK
  <2> QED
    BY <2>5, <2>6, <2>7, <2>8 DEF TransferOK
<1>4. CASE a = From(t)
  <2>1. RefundPending(t)
    BY <1>0, <1>4 DEF RefundPending, InMailbox
  <2>2. /\ ~RefundPending(t)'
        /\ DebitPending(t)' = DebitPending(t)
        /\ CreditPending(t)' = CreditPending(t)
    BY <1>0, <1>1, <1>4, RequestType
       DEF CreditAccount, Take, DebitPending, CreditPending, RefundPending,
           InMailbox, From, To, TypeOK
  <2>3. /\ pc[t] \in {"refund", "failing", "compensated"}
        /\ pc[t] = "refund" => reply[t] \in {"none", "error"}
    BY <2>1 DEF TransferOK, PendingOK
  <2>4. /\ applied'[t] = applied[t] \cup {"refund"}
        /\ reply'[t] \in {"ok", reply[t]}
        /\ reply'[t] # reply[t] => pc[t] = "refund" /\ reply[t] = "none"
    BY <1>0, <1>1, <1>4 DEF CreditAccount, ReplyTo, TypeOK
  <2>5. PendingOK(t)'
    BY <1>2, <2>2, <2>3, <2>4 DEF TransferOK, PendingOK
  <2>6. EffectOK(t)'
    BY <1>2, <2>3, <2>4 DEF TransferOK, EffectOK
  <2>7. UndisturbedOK(t)'
    BY <1>2, <2>1, <2>2, <2>3, <2>4 DEF TransferOK, UndisturbedOK
  <2>8. RowOK(t)' /\ AnswerOK(t)'
    BY <1>2 DEF TransferOK, RowOK, AnswerOK
  <2> QED
    BY <2>5, <2>6, <2>7, <2>8 DEF TransferOK
<1> QED
  BY <1>1, <1>3, <1>4

LEMMA NextTransfer ==
  TypeOK /\ MailboxInv /\ TransferInv /\ [Next]_vars => TransferInv'
<1> SUFFICES ASSUME TypeOK, MailboxInv, TransferInv, [Next]_vars,
                    NEW u \in Transfers
             PROVE  TransferOK(u)'
  BY DEF TransferInv
<1>0. TransferOK(u)
  BY DEF TransferInv
<1>1. ASSUME NEW t \in Transfers,
             \/ OrchestratorStep(t) \/ CreateTransfer(t) \/ ClientTimeout(t)
             \/ CrashOrchestrator(t)
      PROVE  TransferOK(u)'
  <2>1. CASE u = t
    BY <1>0, <1>1, <2>1, OrchestratorOK
  <2>2. CASE u # t
    BY <1>0, <1>1, <2>2, OrchestratorKeeps, KeptOK
  <2> QED
    BY <2>1, <2>2
<1>2. ASSUME NEW a \in Accounts, AccountStep(a) PROVE TransferOK(u)'
  <2>1. ASSUME NEW m \in mailbox[a], DebitAccount(a, m) PROVE TransferOK(u)'
    <3>1. CASE u = m.transfer
      BY <1>0, <2>1, <3>1, DebitOK
    <3>2. CASE u # m.transfer
      BY <1>0, <2>1, <3>2, AccountKeeps, KeptOK
    <3> QED
      BY <3>1, <3>2
  <2>2. ASSUME NEW m \in mailbox[a], CreditAccount(a, m) PROVE TransferOK(u)'
    <3>1. CASE u = m.transfer
      BY <1>0, <2>2, <3>1, CreditOK
    <3>2. CASE u # m.transfer
      BY <1>0, <2>2, <3>2, AccountKeeps, KeptOK
    <3> QED
      BY <3>1, <3>2
  <2>3. CASE \/ \E m \in mailbox[a] : Lose(a, m)
             \/ \E amount \in Int :
                  CreateAccount(a, amount) \/ ClientCredit(a, amount)
             \/ PostStop(a) \/ CrashAccount(a) \/ Relocate(a)
    BY <1>0, <2>3, AccountKeeps, KeptOK
  <2> QED
    BY <1>2, <2>1, <2>2, <2>3, CreditsAssumption DEF AccountStep, Receive
<1>3. CASE UNCHANGED vars
  <2>1. Kept(u)
    BY <1>3 DEF vars, Kept, InMailbox
  <2> QED
    BY <1>0, <2>1, KeptOK
<1> QED
  BY <1>1, <1>2, <1>3 DEF Next

\* The inductive invariant holds of every instance: every place of
\* handleStartTransfer, every message under way and every effect on a balance
\* agree, through late, lost and unanswered messages, restarts and crashes.
THEOREM Invariance == Spec => []IInv
<1>1. Init => IInv
  <2> SUFFICES ASSUME Init PROVE IInv
    OBVIOUS
  <2>1. TypeOK
    BY InitType
  <2>2. MailboxInv /\ BalanceInv
    BY DEF Init, MailboxInv, BalanceInv, NoRow
  <2>3. ASSUME NEW t \in Transfers PROVE TransferOK(t)
    <3>1. ~DebitPending(t) /\ ~CreditPending(t) /\ ~RefundPending(t)
      BY <2>1, RequestType
         DEF Init, DebitPending, CreditPending, RefundPending, InMailbox
    <3> QED
      BY <3>1 DEF Init, TransferOK, PendingOK, EffectOK, UndisturbedOK, RowOK,
                  AnswerOK, Waiting, Crediting, Compensating
  <2> QED
    BY <2>1, <2>2, <2>3 DEF IInv, TransferInv
<1>2. IInv /\ [Next]_vars => IInv'
  BY NextType, NextMailbox, NextTransfer, NextBalance DEF IInv
<1> QED
  BY <1>1, <1>2, PTL DEF Spec

\* A transfer none of whose Asks failed and none of whose accounts stopped is
\* never left half done (handleStartTransfer, compensateAndFail, failTransfer).
THEOREM UndisturbedSettled == Spec => []UndisturbedIsSettled
<1>1. IInv => UndisturbedIsSettled
  <2> SUFFICES ASSUME IInv, NEW t \in Transfers \ disturbed
               PROVE  /\ pc[t] = "completed" => applied[t] = {"debit", "credit"}
                      /\ pc[t] = "failed" => applied[t] = {}
                      /\ pc[t] = "compensated" => applied[t] = {"debit", "refund"}
    BY DEF UndisturbedIsSettled
  <2>1. EffectOK(t) /\ UndisturbedOK(t) /\ applied[t] \subseteq Effects
    BY DEF IInv, TransferInv, TransferOK, TypeOK
  <2> QED
    BY <2>1 DEF EffectOK, UndisturbedOK, Effects, Compensating
<1> QED
  BY <1>1, Invariance, PTL

\* No report of GET /transfers names another outcome than POST /transfers
\* answered, whichever of the reads and writes failed and whether or not the
\* orchestrator is found (GetTransfer, handleGetTransferStatus).
THEOREM StatusAgreement == Spec => []StatusAgreesWithAnswer
<1>1. IInv => StatusAgreesWithAnswer
  <2> SUFFICES ASSUME IInv, NEW t \in Transfers, NEW report \in GetTransfer(t)
               PROVE  /\ answer[t] = "failed" => report # "completed"
                      /\ answer[t] = "completed" =>
                           report \notin {"failed", "compensating"}
                      /\ report = "completed" => applied[t] = {"debit", "credit"}
    BY DEF StatusAgreesWithAnswer
  <2>1. EffectOK(t) /\ RowOK(t) /\ AnswerOK(t) /\ pc[t] \in PCs
    BY DEF IInv, TransferInv, TransferOK, TypeOK
  <2> QED
    <3>1. report \in {"not_found", "error", "unknown"} \/ report = transferRow[t]
      BY DEF GetTransfer, handleGetTransferStatus
    <3>2. CASE report = transferRow[t]
      BY <2>1, <3>2 DEF EffectOK, RowOK, AnswerOK, PCs, Debiting, Crediting,
                        Compensating, Ended
    <3> QED
      BY <3>1, <3>2
<1> QED
  BY <1>1, Invariance, PTL

(***************************************************************************)
(* The refinement of CompensatedTransfer.                                  *)
(***************************************************************************)
PhaseAt(label) ==
  CASE label \in Debiting -> "debiting"
    [] label \in Crediting -> "crediting"
    [] label \in Compensating -> "compensating"
    [] label = "completed" -> "completed"
    [] OTHER -> "failed"

LEMMA Phases ==
  /\ \A l \in {"idle", "starting", "locateFrom", "debit"} : PhaseAt(l) = "debiting"
  /\ \A l \in {"locateTo", "credit", "completing"} : PhaseAt(l) = "crediting"
  /\ \A l \in {"compensate", "refund", "failing"} : PhaseAt(l) = "compensating"
  /\ PhaseAt("completed") = "completed"
  /\ \A l \in {"failed", "compensated"} : PhaseAt(l) = "failed"
  BY DEF PhaseAt, Debiting, Crediting, Compensating

LEMMA PhaseOf ==
  /\ phase = [t \in Transfers |-> PhaseAt(pc[t])]
  /\ phase' = [t \in Transfers |-> PhaseAt(pc'[t])]
  BY DEF phase, PhaseAt

\* A jump of the handler moves the phase of its transfer and no other.
LEMMA GotoPhase ==
  ASSUME TypeOK, NEW t \in Transfers, NEW label, Goto(t, label)
  PROVE  phase' = [phase EXCEPT ![t] = PhaseAt(label)]
  BY PhaseOf DEF Goto, TypeOK

LEMMA SamePhase ==
  ASSUME TypeOK, NEW t \in Transfers, NEW label, Goto(t, label),
         PhaseAt(label) = PhaseAt(pc[t])
  PROVE  phase' = phase
  BY PhaseOf, GotoPhase DEF TypeOK

\* Failing before the debit was confirmed, or after the compensation.
LEMMA RefineFail ==
  ASSUME TypeOK, NEW t \in Transfers, NEW label \in {"failed", "compensated"},
         Goto(t, label), Response(t, "failed"), UNCHANGED applied,
         PhaseAt(pc[t]) \in {"debiting", "compensating"}
  PROVE  Abstract!Fail(t)
  <1>1. phase[t] \in {"debiting", "compensating"}
    BY PhaseOf
  <1>2. phase' = [phase EXCEPT ![t] = "failed"]
    BY GotoPhase, Phases
  <1> QED
    BY <1>1, <1>2 DEF Abstract!Fail, Abstract!Advance, Abstract!Tell, Response

\* Every step of the actors is a step of CompensatedTransfer or changes nothing
\* it speaks of.
LEMMA RefineStep ==
  ASSUME IInv, [Next]_vars PROVE [Abstract!Next]_(Abstract!vars)
<1> USE DEF IInv
<1> DEFINE Stutter == UNCHANGED Abstract!vars
<1>0. ASSUME phase' = phase, UNCHANGED <<applied, answer>> PROVE Stutter
  BY <1>0 DEF Abstract!vars
<1>pc. ASSUME UNCHANGED pc PROVE phase' = phase
  BY <1>pc, PhaseOf
<1>1. ASSUME NEW t \in Transfers, CreateTransfer(t) PROVE Abstract!Request(t)
  <2>1. answer[t] = "none"
    BY <1>1 DEF CreateTransfer, TransferInv, TransferOK, AnswerOK
  <2>2. phase' = phase
    BY <1>1, SamePhase, Phases DEF CreateTransfer
  <2> QED
    BY <1>1, <2>1, <2>2 DEF CreateTransfer, Abstract!Request
<1>2. ASSUME NEW t \in Transfers, ClientTimeout(t) PROVE Abstract!GiveUp(t)
  BY <1>2, <1>pc DEF ClientTimeout, Abstract!GiveUp
<1>3. ASSUME NEW t \in Transfers, WritePending(t)
      PROVE  Abstract!Fail(t) \/ Stutter
  <2>1. PhaseAt(pc[t]) = "debiting" /\ UNCHANGED applied
    BY <1>3, Phases DEF WritePending, At
  <2>2. CASE Goto(t, "locateFrom") /\ UNCHANGED answer
    BY <1>0, <2>1, <2>2, SamePhase, Phases
  <2>3. CASE Goto(t, "failed") /\ Response(t, "failed")
    BY <2>1, <2>3, RefineFail
  <2> QED
    BY <1>3, <2>2, <2>3 DEF WritePending
<1>4. ASSUME NEW t \in Transfers, AskDebit(t) PROVE Abstract!Fail(t) \/ Stutter
  <2>1. PhaseAt(pc[t]) = "debiting" /\ UNCHANGED applied
    BY <1>4, Phases DEF AskDebit, At
  <2>2. CASE Goto(t, "debit") /\ UNCHANGED answer
    BY <1>0, <2>1, <2>2, SamePhase, Phases
  <2>3. CASE Goto(t, "failed") /\ Response(t, "failed")
    BY <2>1, <2>3, RefineFail
  <2> QED
    BY <1>4, <2>2, <2>3 DEF AskDebit
<1>5. ASSUME NEW t \in Transfers, DebitReplied(t)
      PROVE  Abstract!Fail(t) \/ Abstract!Confirm(t)
  <2>1. PhaseAt(pc[t]) = "debiting" /\ UNCHANGED applied /\ pc[t] = "debit"
    BY <1>5, Phases DEF DebitReplied, At
  <2>2. CASE reply[t] = "ok" /\ Goto(t, "locateTo") /\ UNCHANGED answer
    <3>1. applied[t] = {"debit"}
      BY <2>1, <2>2 DEF TransferInv, TransferOK, EffectOK
    <3>2. phase[t] = "debiting" /\ phase' = [phase EXCEPT ![t] = "crediting"]
      BY <2>1, <2>2, PhaseOf, GotoPhase, Phases
    <3> QED
      BY <2>1, <2>2, <3>1, <3>2 DEF Abstract!Confirm, Abstract!Advance
  <2>3. CASE failTransfer(t)
    BY <2>1, <2>3, RefineFail DEF failTransfer, Fail
  <2> QED
    BY <1>5, <2>2, <2>3 DEF DebitReplied
<1>6. ASSUME NEW t \in Transfers, AskCredit(t)
      PROVE  Abstract!Compensate(t) \/ Stutter
  <2>1. PhaseAt(pc[t]) = "crediting" /\ UNCHANGED <<applied, answer>>
    BY <1>6, Phases DEF AskCredit, At
  <2>2. CASE Goto(t, "credit")
    BY <1>0, <2>1, <2>2, SamePhase, Phases
  <2>3. CASE Goto(t, "compensate")
    <3>1. phase[t] = "crediting" /\ phase' = [phase EXCEPT ![t] = "compensating"]
      BY <2>1, <2>3, PhaseOf, GotoPhase, Phases
    <3> QED
      BY <2>1, <3>1 DEF Abstract!Compensate, Abstract!Advance
  <2> QED
    BY <1>6, <2>2, <2>3 DEF AskCredit
<1>7. ASSUME NEW t \in Transfers, CreditReplied(t)
      PROVE  Abstract!Compensate(t) \/ Stutter
  <2>1. PhaseAt(pc[t]) = "crediting" /\ UNCHANGED <<applied, answer>>
    BY <1>7, Phases DEF CreditReplied, At
  <2>2. CASE Goto(t, "completing")
    BY <1>0, <2>1, <2>2, SamePhase, Phases
  <2>3. CASE Goto(t, "compensate")
    <3>1. phase[t] = "crediting" /\ phase' = [phase EXCEPT ![t] = "compensating"]
      BY <2>1, <2>3, PhaseOf, GotoPhase, Phases
    <3> QED
      BY <2>1, <3>1 DEF Abstract!Compensate, Abstract!Advance
  <2> QED
    BY <1>7, <2>2, <2>3 DEF CreditReplied
<1>8. ASSUME NEW t \in Transfers, WriteCompleted(t) PROVE Abstract!Complete(t)
  <2>1. pc[t] = "completing" /\ Goto(t, "completed") /\ UNCHANGED applied
    BY <1>8 DEF WriteCompleted, At
  <2>2. applied[t] = {"debit", "credit"}
    BY <2>1 DEF TransferInv, TransferOK, EffectOK
  <2>3. phase[t] = "crediting" /\ phase' = [phase EXCEPT ![t] = "completed"]
    BY <2>1, PhaseOf, GotoPhase, Phases
  <2> QED
    BY <1>8, <2>1, <2>2, <2>3
       DEF WriteCompleted, Response, Abstract!Complete, Abstract!Advance,
           Abstract!Tell
<1>9. ASSUME NEW t \in Transfers, AskRefund(t) \/ RefundReplied(t) PROVE Stutter
  <2>1. CASE AskRefund(t)
    BY <1>0, <2>1, SamePhase, Phases DEF AskRefund, At
  <2>2. CASE RefundReplied(t)
    BY <1>0, <2>2, SamePhase, Phases DEF RefundReplied, At
  <2> QED
    BY <1>9, <2>1, <2>2
<1>10. ASSUME NEW t \in Transfers, WriteFailed(t) PROVE Abstract!Fail(t)
  BY <1>10, RefineFail, Phases DEF WriteFailed, At, Fail
<1>11. ASSUME NEW a \in Accounts, NEW m \in mailbox[a], DebitAccount(a, m)
       PROVE  Abstract!Debit(m.transfer) \/ Stutter
  <2> DEFINE t == m.transfer
  <2>1. t \in Transfers /\ m = [type |-> "DebitAccount", transfer |-> t]
    BY <1>11, MessageIs DEF DebitAccount, Take
  <2>2. DebitPending(t)
    BY <2>1 DEF MailboxInv, DebitPending, InMailbox
  <2>3. pc[t] \in {"debit", "failed"} /\ "debit" \notin applied[t]
    BY <2>1, <2>2 DEF TransferInv, TransferOK, PendingOK
  <2>4. phase[t] \in {"debiting", "failed"}
    BY <2>1, <2>3, PhaseOf, Phases
  <2>5. phase' = phase /\ UNCHANGED answer
    BY <1>11, <1>pc DEF DebitAccount
  <2>6. CASE UNCHANGED applied
    BY <1>0, <2>5, <2>6
  <2>7. CASE applied' = [applied EXCEPT ![t] = @ \cup {"debit"}]
    BY <2>3, <2>4, <2>5, <2>7 DEF Abstract!Debit, Abstract!Apply
  <2> QED
    BY <1>11, <2>6, <2>7 DEF DebitAccount
<1>12. ASSUME NEW a \in Accounts, NEW m \in mailbox[a], CreditAccount(a, m)
       PROVE  Abstract!Credit(m.transfer) \/ Abstract!Refund(m.transfer)
  <2> DEFINE t == m.transfer
  <2>1. t \in Transfers /\ m = [type |-> "CreditAccount", transfer |-> t]
    BY <1>12, MessageIs DEF CreditAccount, Take
  <2>2. a \in {From(t), To(t)} /\ From(t) # To(t)
    BY <2>1, RequestType DEF MailboxInv
  <2>3. phase' = phase /\ UNCHANGED answer
    BY <1>12, <1>pc DEF CreditAccount
  <2>4. PendingOK(t) /\ EffectOK(t)
    BY <2>1 DEF TransferInv, TransferOK
  <2>5. CASE a = To(t)
    <3>1. CreditPending(t)
      BY <2>1, <2>5 DEF CreditPending, InMailbox
    <3>2. /\ "credit" \notin applied[t] /\ "debit" \in applied[t]
          /\ pc[t] \in {"credit", "compensate", "refund", "failing", "compensated"}
      BY <2>4, <3>1 DEF PendingOK, EffectOK, Crediting, Compensating
    <3>3. phase[t] \in {"crediting", "compensating", "failed"}
      BY <2>1, <3>2, PhaseOf, Phases
    <3>4. applied' = [applied EXCEPT ![t] = @ \cup {"credit"}]
      BY <1>12, <2>5 DEF CreditAccount
    <3> QED
      BY <2>3, <3>2, <3>3, <3>4 DEF Abstract!Credit, Abstract!Apply
  <2>6. CASE a = From(t)
    <3>1. RefundPending(t)
      BY <2>1, <2>6 DEF RefundPending, InMailbox
    <3>2. /\ "refund" \notin applied[t] /\ "debit" \in applied[t]
          /\ pc[t] \in {"refund", "failing", "compensated"}
      BY <2>4, <3>1 DEF PendingOK, EffectOK, Crediting, Compensating
    <3>3. phase[t] \in {"compensating", "failed"}
      BY <2>1, <3>2, PhaseOf, Phases
    <3>4. applied' = [applied EXCEPT ![t] = @ \cup {"refund"}]
      BY <1>12, <2>2, <2>6 DEF CreditAccount
    <3> QED
      BY <2>3, <3>2, <3>3, <3>4 DEF Abstract!Refund, Abstract!Apply
  <2> QED
    BY <2>2, <2>5, <2>6
<1>13. ASSUME \/ \E t \in Transfers : CrashOrchestrator(t) \/ AskTimeout(t)
              \/ \E a \in Accounts : \E m \in mailbox[a] : Lose(a, m)
              \/ \E a \in Accounts : \E amount \in Int :
                   CreateAccount(a, amount) \/ ClientCredit(a, amount)
              \/ \E a \in Accounts : PostStop(a) \/ CrashAccount(a) \/ Relocate(a)
              \/ UNCHANGED vars
       PROVE  Stutter
  <2>1. UNCHANGED <<pc, applied, answer>>
    BY <1>13 DEF CrashOrchestrator, AskTimeout, Lose, CreateAccount,
                 ClientCredit, PostStop, CrashAccount, Leave, Relocate, vars
  <2> QED
    BY <1>0, <1>pc, <2>1
<1>14. ASSUME NEW t \in Transfers,
              \/ Abstract!Request(t) \/ Abstract!GiveUp(t) \/ Abstract!Debit(t)
              \/ Abstract!Credit(t) \/ Abstract!Refund(t) \/ Abstract!Confirm(t)
              \/ Abstract!Complete(t) \/ Abstract!Compensate(t)
              \/ Abstract!Fail(t)
       PROVE  Abstract!Next
  BY <1>14 DEF Abstract!Next
<1>15. ASSUME NEW a \in Accounts, Receive(a) PROVE Abstract!Next \/ Stutter
  BY <1>11, <1>12, <1>14, <1>15, MessageIs DEF Receive
<1>16. ASSUME NEW t \in Transfers,
              OrchestratorStep(t) \/ CreateTransfer(t) \/ ClientTimeout(t)
                \/ CrashOrchestrator(t)
       PROVE  Abstract!Next \/ Stutter
  BY <1>1, <1>2, <1>3, <1>4, <1>5, <1>6, <1>7, <1>8, <1>9, <1>10, <1>13, <1>14,
     <1>16
     DEF OrchestratorStep
<1> HIDE DEF Stutter
<1>17. Abstract!Next \/ Stutter
  BY <1>13, <1>15, <1>16, CreditsAssumption DEF Next, AccountStep
<1> QED
  BY <1>17 DEF Stutter

\* The orchestrators and accounts implement CompensatedTransfer, for any number
\* of accounts, transfers and failures: each effect happens at most once, and a
\* transfer is answered "completed" only when debited and credited.
THEOREM Refinement == Spec => ImplementsCompensatedTransfer
<1>1. Init => Abstract!Init
  BY PhaseOf, Phases DEF Init, Abstract!Init
<1>2. IInv /\ [Next]_vars => [Abstract!Next]_(Abstract!vars)
  BY RefineStep
<1> QED
  BY <1>1, <1>2, Invariance, PTL
     DEF Spec, ImplementsCompensatedTransfer, Abstract!Spec

(***************************************************************************)
(* Conservation of money.  What the accounts hold, and what transfers have *)
(* taken from their source and not yet given to anyone, is what clients    *)
(* have put in, but for what the rows rounded.  This is true at every      *)
(* step, disturbed or not: a request under way has not taken effect        *)
(* (PendingOK), so no effect is counted twice.                             *)
(***************************************************************************)
Moved(t, effect) == IF effect \in applied[t] THEN request[t].amount ELSE 0
Open == [t \in Transfers |->
  Moved(t, "debit") - Moved(t, "credit") - Moved(t, "refund")]
Holdings == [a \in Accounts |-> Holding(a)]

\* What there is more than clients put in.
Excess ==
  SumFunctionOnSet(Holdings, Accounts) + SumFunctionOnSet(Open, Transfers)
    - deposited

\* It is what the rows rounded, each time by half a cent at most.
MoneyInv == 2 * Excess \in -(Cent * roundings) .. Cent * roundings

\* The amounts are integers.
LEMMA MoneyType ==
  ASSUME TypeOK
  PROVE  Holdings \in [Accounts -> Int] /\ Open \in [Transfers -> Int]
<1>1. \A a \in Accounts : Holding(a) \in Int
  BY DEF TypeOK, Holding, GetAccountState, Rows
<1>2. \A t \in Transfers : Moved(t, "debit") - Moved(t, "credit") - Moved(t, "refund") \in Int
  BY RequestType DEF Moved
<1> QED
  BY <1>1, <1>2 DEF Holdings, Open

\* A function of integers that changes at one place changes its sum by as much.
LEMMA SumMoves ==
  ASSUME NEW S, IsFiniteSet(S), NEW f \in [S -> Int], NEW h,
         NEW y \in S, NEW d \in Int,
         h[y] = f[y] + d, \A x \in S : x # y => h[x] = f[x]
  PROVE  /\ SumFunctionOnSet(h, S) = SumFunctionOnSet(f, S) + d
         /\ SumFunctionOnSet(f, S) \in Int
<1>1. SumFunctionOnSet(h, S) = SumFunctionOnSet(f, S) + h[y] - f[y]
  <2>1. PICK k : k = h
    OBVIOUS
  <2>2. \A x \in S : f[x] \in Int /\ k[x] \in Int
    BY <2>1
  <2>3. \A x \in S \ {y} : f[x] = k[x]
    BY <2>1
  <2>4. SumFunctionOnSet(k, S) = SumFunctionOnSet(f, S) + k[y] - f[y]
    BY <2>2, <2>3, SumChange
  <2> QED
    BY <2>1, <2>4
<1>2. SumFunctionOnSet(f, S) \in Int
  BY SumInt
<1>3. h[y] = f[y] + d /\ f[y] \in Int
  OBVIOUS
<1> QED
  BY <1>1, <1>2, <1>3

\* The excess is an integer.
LEMMA ExcessType ==
  ASSUME TypeOK PROVE Excess \in Int
<1>1. PICK h \in [Accounts -> Int] : h = Holdings
  BY MoneyType
<1>2. PICK o \in [Transfers -> Int] : o = Open
  BY MoneyType
<1>3. SumFunctionOnSet(h, Accounts) \in Int
  BY SumInt, FinitenessAssumption
<1>4. SumFunctionOnSet(o, Transfers) \in Int
  BY SumInt, FinitenessAssumption
<1> QED
  BY <1>1, <1>2, <1>3, <1>4 DEF Excess, TypeOK

\* A step that neither makes money nor rounds any keeps the account of it.
LEMMA ExcessKept ==
  ASSUME MoneyInv, Excess' = Excess, UNCHANGED roundings
  PROVE  MoneyInv'
  BY DEF MoneyInv

\* Money comes in at an account, or leaves it, and clients know of all of it
\* but e.
LEMMA Adds ==
  ASSUME TypeOK, TypeOK', NEW a \in Accounts, NEW d \in Int, NEW e \in Int,
         Holdings' = [Holdings EXCEPT ![a] = @ + d], Open' = Open,
         deposited' = deposited + d - e
  PROVE  Excess' = Excess + e
<1>1. PICK h \in [Accounts -> Int] : h = Holdings
  BY MoneyType
<1>2. PICK hh : hh = [h EXCEPT ![a] = @ + d]
  OBVIOUS
<1>3. /\ SumFunctionOnSet(hh, Accounts) = SumFunctionOnSet(h, Accounts) + d
      /\ SumFunctionOnSet(h, Accounts) \in Int
  <2>1. hh[a] = h[a] + d /\ \A x \in Accounts : x # a => hh[x] = h[x]
    BY <1>1, <1>2
  <2> QED
    BY <1>1, <2>1, SumMoves, FinitenessAssumption
<1>4. PICK o \in [Transfers -> Int] : o = Open
  BY MoneyType
<1>5. SumFunctionOnSet(o, Transfers) \in Int
  BY <1>4, SumInt, FinitenessAssumption
<1>6. Excess = SumFunctionOnSet(h, Accounts) + SumFunctionOnSet(o, Transfers) - deposited
  BY <1>1, <1>4 DEF Excess
<1>7. Excess' = SumFunctionOnSet(hh, Accounts) + SumFunctionOnSet(o, Transfers) - deposited'
  BY <1>1, <1>2, <1>4 DEF Excess
<1>8. deposited \in Int
  BY DEF TypeOK
<1> QED
  BY <1>3, <1>5, <1>6, <1>7, <1>8

\* Clients know of all of it.
LEMMA PutIn ==
  ASSUME TypeOK, TypeOK', MoneyInv, NEW a \in Accounts, NEW d \in Int,
         Holdings' = [Holdings EXCEPT ![a] = @ + d], Open' = Open,
         deposited' = deposited + d, UNCHANGED roundings
  PROVE  MoneyInv'
<1>1. deposited' = deposited + d - 0
  BY DEF TypeOK
<1>2. \A e \in Int : deposited' = deposited + d - e => Excess' = Excess + e
  BY Adds
<1>3. Excess' = Excess + 0
  BY <1>1, <1>2
<1> QED
  BY <1>3, ExcessType, ExcessKept

\* Money moves between an account and what is open of a transfer.
LEMMA MoveOver ==
  ASSUME TypeOK, TypeOK', MoneyInv, NEW a \in Accounts, NEW t \in Transfers, NEW d \in Int,
         Holdings' = [Holdings EXCEPT ![a] = @ + d],
         Open' = [Open EXCEPT ![t] = @ + (-d)],
         UNCHANGED <<deposited, roundings>>
  PROVE  MoneyInv'
<1>1. PICK h \in [Accounts -> Int] : h = Holdings
  BY MoneyType
<1>2. PICK hh : hh = [h EXCEPT ![a] = @ + d]
  OBVIOUS
<1>3. /\ SumFunctionOnSet(hh, Accounts) = SumFunctionOnSet(h, Accounts) + d
      /\ SumFunctionOnSet(h, Accounts) \in Int
  <2>1. hh[a] = h[a] + d /\ \A x \in Accounts : x # a => hh[x] = h[x]
    BY <1>1, <1>2
  <2> QED
    BY <1>1, <2>1, SumMoves, FinitenessAssumption
<1>4. PICK o \in [Transfers -> Int] : o = Open
  BY MoneyType
<1>5. PICK oo : oo = [o EXCEPT ![t] = @ + (-d)]
  OBVIOUS
<1>6. /\ SumFunctionOnSet(oo, Transfers) = SumFunctionOnSet(o, Transfers) + (-d)
      /\ SumFunctionOnSet(o, Transfers) \in Int
  <2>1. oo[t] = o[t] + (-d) /\ \A x \in Transfers : x # t => oo[x] = o[x]
    BY <1>4, <1>5
  <2>2. PICK e \in Int : e = -d
    OBVIOUS
  <2>3. oo[t] = o[t] + e
    BY <2>1, <2>2
  <2>4. /\ SumFunctionOnSet(oo, Transfers) = SumFunctionOnSet(o, Transfers) + e
        /\ SumFunctionOnSet(o, Transfers) \in Int
    BY <1>4, <2>1, <2>2, <2>3, SumMoves, FinitenessAssumption, SMTT(30)
  <2> QED
    BY <2>2, <2>4
<1>7. Excess = SumFunctionOnSet(h, Accounts) + SumFunctionOnSet(o, Transfers) - deposited
  BY <1>1, <1>4 DEF Excess
<1>8. Excess' = SumFunctionOnSet(hh, Accounts) + SumFunctionOnSet(oo, Transfers) - deposited
  BY <1>1, <1>2, <1>4, <1>5 DEF Excess
<1>9. deposited \in Int
  BY DEF TypeOK
<1>10. Excess' = Excess
  BY <1>3, <1>6, <1>7, <1>8, <1>9
<1> QED
  BY <1>10, ExcessKept

\* What is open depends on the effects and the requests only.
LEMMA OpenKept ==
  ASSUME UNCHANGED <<applied, request>>
  PROVE  Open' = Open
  BY DEF Open, Moved

\* Starting an account moves no money.
LEMMA PreStartHolds ==
  ASSUME TypeOK, NEW a \in Accounts, PreStart(a), UNCHANGED accountRow
  PROVE  Holdings' = Holdings
<1>1. \A b \in Accounts : Holding(b)' = Holding(b)
  BY DEF PreStart, Holding, GetAccountState, TypeOK
<1> QED
  BY <1>1 DEF Holdings

\* A running account whose balance changes holds as much more.
LEMMA BalanceMoves ==
  ASSUME TypeOK, NEW a \in Accounts, NEW d \in Int, status[a] = "running",
         balance' = [balance EXCEPT ![a] = @ + d], UNCHANGED <<status, accountRow>>
  PROVE  Holdings' = [Holdings EXCEPT ![a] = @ + d]
<1>1. \A b \in Accounts : Holding(b)' = IF b = a THEN Holding(b) + d ELSE Holding(b)
  BY DEF Holding, GetAccountState, TypeOK
<1> QED
  BY <1>1 DEF Holdings

\* Another effect of a transfer, which it did not have.
LEMMA EffectMoves ==
  ASSUME TypeOK, NEW t \in Transfers, NEW effect \in Effects, effect \notin applied[t],
         applied' = [applied EXCEPT ![t] = @ \cup {effect}], UNCHANGED request,
         NEW d \in Int,
         d = IF effect = "debit" THEN -request[t].amount ELSE request[t].amount
  PROVE  Open' = [Open EXCEPT ![t] = @ + (-d)]
<1>1. ASSUME NEW u \in Transfers, u # t, NEW e PROVE Moved(u, e)' = Moved(u, e)
  BY <1>1 DEF Moved, TypeOK
<1>2. ASSUME NEW e \in Effects
      PROVE  Moved(t, e)' = IF e = effect THEN request[t].amount ELSE Moved(t, e)
  BY <1>2 DEF Moved, TypeOK
<1>3. Moved(t, effect) = 0 /\ request[t].amount \in Int
  BY RequestType DEF Moved
<1>4. {"debit", "credit", "refund"} = Effects
  BY DEF Effects
<1>5. \A e \in Effects : Moved(t, e) \in Int
  BY <1>3 DEF Moved
<1>6. Moved(t, "debit")' - Moved(t, "credit")' - Moved(t, "refund")'
        = Moved(t, "debit") - Moved(t, "credit") - Moved(t, "refund") + (-d)
  <2>1. CASE effect = "debit"
    BY <1>2, <1>3, <1>4, <1>5, <2>1
  <2>2. CASE effect = "credit"
    BY <1>2, <1>3, <1>4, <1>5, <2>2
  <2>3. CASE effect = "refund"
    BY <1>2, <1>3, <1>4, <1>5, <2>3
  <2> QED
    BY <1>4, <2>1, <2>2, <2>3
<1> QED
  BY <1>1, <1>6 DEF Open

LEMMA NextMoney == IInv /\ TypeOK' /\ MoneyInv /\ [Next]_vars => MoneyInv'
<1> SUFFICES ASSUME IInv, TypeOK', MoneyInv, [Next]_vars PROVE MoneyInv'
  OBVIOUS
<1>t. TypeOK
  BY DEF IInv
<1>0. CASE /\ Holdings' = Holdings
           /\ UNCHANGED <<applied, request, deposited, roundings>>
  BY <1>0, OpenKept, ExcessKept DEF Excess
<1>00. CASE UNCHANGED <<status, balance, accountRow, applied, request, deposited,
                        roundings>>
  BY <1>00, <1>0 DEF Holdings, Holding, GetAccountState
<1>1. ASSUME NEW t \in Transfers, AskDebit(t) PROVE MoneyInv'
  BY <1>1, <1>t, <1>0, <1>00, PreStartHolds, RequestType DEF AskDebit
<1>2. ASSUME NEW t \in Transfers, AskCredit(t) PROVE MoneyInv'
  BY <1>2, <1>t, <1>0, <1>00, PreStartHolds, RequestType DEF AskCredit
<1>3. ASSUME NEW a \in Accounts, NEW m \in mailbox[a], DebitAccount(a, m)
      PROVE  MoneyInv'
  <2>0. PICK t \in Transfers : t = m.transfer /\ m = [type |-> "DebitAccount", transfer |-> t]
    BY <1>t, <1>3, MessageIs DEF DebitAccount, Take
  <2>1. CASE UNCHANGED <<balance, applied>>
    BY <1>3, <2>1, <1>00 DEF DebitAccount
  <2>2. CASE ~UNCHANGED <<balance, applied>>
    <3>1. /\ status[a] = "running"
          /\ balance' = [balance EXCEPT ![a] = @ - request[t].amount]
          /\ applied' = [applied EXCEPT ![t] = @ \cup {"debit"}]
          /\ UNCHANGED <<status, accountRow, request, deposited, roundings>>
      BY <1>3, <2>0, <2>2 DEF DebitAccount, Take
    <3>2. PICK d \in Int : d = -request[t].amount /\ request[t].amount \in Int
      BY <1>t, RequestType
    <3>3. balance' = [balance EXCEPT ![a] = @ + d]
      BY <1>t, <3>1, <3>2 DEF TypeOK
    <3>4. DebitPending(t)
      BY <2>0 DEF IInv, MailboxInv, DebitPending, InMailbox
    <3>5. "debit" \notin applied[t]
      BY <3>4 DEF IInv, TransferInv, TransferOK, PendingOK
    <3>6. Holdings' = [Holdings EXCEPT ![a] = @ + d]
      BY <1>t, <3>1, <3>3, BalanceMoves
    <3>7. Open' = [Open EXCEPT ![t] = @ + (-d)]
      BY <1>t, <3>1, <3>2, <3>5, EffectMoves DEF Effects
    <3> QED
      BY <1>t, <3>1, <3>6, <3>7, MoveOver
  <2> QED
    BY <2>1, <2>2
<1>4. ASSUME NEW a \in Accounts, NEW m \in mailbox[a], CreditAccount(a, m)
      PROVE  MoneyInv'
  <2>0. PICK t \in Transfers : t = m.transfer /\ m = [type |-> "CreditAccount", transfer |-> t]
    BY <1>t, <1>4, MessageIs DEF CreditAccount, Take
  <2>1. PICK step \in Effects : step = (IF a = To(t) THEN "credit" ELSE "refund")
    BY DEF Effects
  <2>2. /\ status[a] = "running"
        /\ balance' = [balance EXCEPT ![a] = @ + request[t].amount]
        /\ applied' = [applied EXCEPT ![t] = @ \cup {step}]
        /\ UNCHANGED <<status, accountRow, request, deposited, roundings>>
    BY <1>4, <2>0, <2>1 DEF CreditAccount, Take
  <2>3. PICK d \in Int : d = request[t].amount
    BY <1>t, RequestType
  <2>4. a \in {From(t), To(t)}
    BY <2>0 DEF IInv, MailboxInv
  <2>5. step \notin applied[t]
    <3>1. (step = "credit" /\ CreditPending(t)) \/ (step = "refund" /\ RefundPending(t))
      BY <2>0, <2>1, <2>4 DEF CreditPending, RefundPending, InMailbox
    <3> QED
      BY <3>1 DEF IInv, TransferInv, TransferOK, PendingOK
  <2>6. Holdings' = [Holdings EXCEPT ![a] = @ + d]
    BY <1>t, <2>2, <2>3, BalanceMoves
  <2>7. Open' = [Open EXCEPT ![t] = @ + (-d)]
    <3>1. step # "debit"
      BY <2>1
    <3> QED
      BY <1>t, <2>2, <2>3, <2>5, <3>1, EffectMoves
  <2> QED
    BY <1>t, <2>2, <2>6, <2>7, MoveOver
<1>5. ASSUME NEW a \in Accounts, NEW amount \in Openings, CreateAccount(a, amount)
      PROVE  MoneyInv'
  <2>1. PICK d \in Int : d = amount - Holding(a) /\ Holding(a) \in Int /\ amount \in Int
    BY <1>t, CreditsAssumption, SMTT(30) DEF TypeOK, Holding, GetAccountState, Rows
  <2>2. \A b \in Accounts : Holding(b)' = IF b = a THEN Holding(b) + d ELSE Holding(b)
    BY <1>t, <1>5, <2>1 DEF CreateAccount, Holding, GetAccountState, TypeOK
  <2>3. Holdings' = [Holdings EXCEPT ![a] = @ + d]
    BY <2>2 DEF Holdings
  <2>4. deposited' = deposited + d /\ UNCHANGED <<applied, request, roundings>>
    BY <1>t, <1>5, <2>1 DEF CreateAccount, TypeOK
  <2> QED
    BY <1>t, <2>3, <2>4, OpenKept, PutIn
<1>6. ASSUME NEW a \in Accounts, NEW amount \in Credits, ClientCredit(a, amount)
      PROVE  MoneyInv'
  <2>1. amount \in Int
    BY CreditsAssumption
  <2>2. /\ status[a] = "running" /\ balance' = [balance EXCEPT ![a] = @ + amount]
        /\ deposited' = deposited + amount
        /\ UNCHANGED <<status, accountRow, applied, request, roundings>>
    BY <1>6 DEF ClientCredit
  <2> QED
    BY <1>t, <2>1, <2>2, BalanceMoves, OpenKept, PutIn
<1>7. ASSUME NEW a \in Accounts, PostStop(a) PROVE MoneyInv'
  <2>1. PICK x \in Int : x = balance[a]
    BY <1>t DEF TypeOK
  <2>2. PICK row \in Int : row = ToNumeric(x, Cent)
    BY <2>1, CentAssumption, NumericTwice
  <2>3. PICK e \in Int : e = row - x
    OBVIOUS
  <2>4. \A b \in Accounts : Holding(b)' = IF b = a THEN Holding(b) + e ELSE Holding(b)
    BY <1>t, <1>7, <2>1, <2>2, <2>3
       DEF PostStop, Leave, WriteAccountState, Holding, GetAccountState, TypeOK
  <2>5. Holdings' = [Holdings EXCEPT ![a] = @ + e]
    BY <2>4 DEF Holdings
  <2>6. UNCHANGED <<applied, request, deposited>>
    BY <1>7 DEF PostStop, Leave
  <2>7. deposited' = deposited + e - e
    BY <1>t, <2>6 DEF TypeOK
  <2>8. Excess' = Excess + e
    BY <1>t, <2>5, <2>6, <2>7, OpenKept, Adds
  <2>9. PICK x0 \in Int : x0 = Excess
    BY <1>t, ExcessType
  <2>10. PICK n \in Nat : n = roundings
    BY <1>t DEF TypeOK
  <2>11. PICK v \in Int : v = Cent * n
    BY CentAssumption
  <2>12. -v <= 2 * x0 /\ 2 * x0 <= v
    BY <2>9, <2>10, <2>11 DEF MoneyInv
  <2>13. CASE row = x
    <3>1. UNCHANGED roundings
      BY <1>7, <2>1, <2>2, <2>13 DEF PostStop
    <3>2. Excess' = Excess
      BY <2>3, <2>8, <2>9, <2>13
    <3> QED
      BY <3>1, <3>2, ExcessKept
  <2>14. CASE row # x
    <3>1. roundings' = n + 1
      BY <1>7, <2>1, <2>2, <2>10, <2>14 DEF PostStop
    <3>2. Cent * (n + 1) = v + Cent
      BY <2>11, CentAssumption
    <3>3. -Cent <= 2 * e /\ 2 * e <= Cent
      BY <2>2, <2>3, CentAssumption, NumericNear
    <3>4. 2 * (x0 + e) \in -(v + Cent) .. v + Cent
      BY <2>12, <3>3, CentAssumption
    <3> QED
      BY <2>8, <2>9, <3>1, <3>2, <3>4 DEF MoneyInv
  <2> QED
    BY <2>13, <2>14
<1>8. ASSUME NEW a \in Accounts, CrashAccount(a) PROVE MoneyInv'
  <2>1. PICK d \in Int : /\ d = accountRow[a].balance - balance[a]
                         /\ accountRow[a].balance \in Int /\ balance[a] \in Int
    BY <1>t DEF TypeOK, Rows
  <2>2. \A b \in Accounts : Holding(b)' = IF b = a THEN Holding(b) + d ELSE Holding(b)
    BY <1>t, <1>8, <2>1 DEF CrashAccount, Leave, Holding, GetAccountState, TypeOK
  <2>3. Holdings' = [Holdings EXCEPT ![a] = @ + d]
    BY <2>2 DEF Holdings
  <2>4. deposited' = deposited + d /\ UNCHANGED <<applied, request, roundings>>
    BY <1>t, <1>8, <2>1 DEF CrashAccount, Leave, GetAccountState, TypeOK
  <2> QED
    BY <1>t, <2>3, <2>4, OpenKept, PutIn
<1>9. ASSUME NEW a \in Accounts, Relocate(a) PROVE MoneyInv'
  BY <1>9, <1>t, <1>0, PreStartHolds DEF Relocate
<1>10. ASSUME NEW a \in Accounts, NEW m \in mailbox[a], Lose(a, m)
       PROVE  MoneyInv'
  BY <1>10, <1>00 DEF Lose
<1>11. ASSUME NEW t \in Transfers,
              \/ CreateTransfer(t) \/ ClientTimeout(t) \/ CrashOrchestrator(t)
              \/ WritePending(t) \/ DebitReplied(t) \/ CreditReplied(t)
              \/ WriteCompleted(t) \/ AskRefund(t) \/ RefundReplied(t)
              \/ WriteFailed(t) \/ AskTimeout(t)
       PROVE  MoneyInv'
  BY <1>11, <1>00
     DEF CreateTransfer, ClientTimeout, CrashOrchestrator, WritePending,
         DebitReplied, CreditReplied, WriteCompleted, AskRefund, RefundReplied,
         WriteFailed, AskTimeout
<1>12. CASE UNCHANGED vars
  BY <1>12, <1>00 DEF vars
<1> QED
  BY <1>1, <1>2, <1>3, <1>4, <1>5, <1>6, <1>7, <1>8, <1>9, <1>10, <1>11, <1>12
     DEF Next, OrchestratorStep, AccountStep, Receive

\* At every moment, whatever has failed, the accounts hold what clients put in
\* less what transfers took from their source and gave to nobody, to half a
\* cent for each row that had no room for a fraction of a cent: no crash, late
\* message or refund makes money (handleDebitAccount, handleCreditAccount,
\* PreStart, PostStop).
THEOREM MoneyAccounted == Spec => []MoneyInv
<1>1. Init => MoneyInv
  <2> SUFFICES ASSUME Init PROVE MoneyInv
    OBVIOUS
  <2>1. \A a \in Accounts : Holdings[a] = 0
    BY DEF Init, Holdings, Holding, GetAccountState, NoRow
  <2>2. \A t \in Transfers : Open[t] = 0
    BY DEF Init, Open, Moved
  <2>3. SumFunctionOnSet(Holdings, Accounts) = 0
    BY <2>1, SumZero, FinitenessAssumption
  <2>4. SumFunctionOnSet(Open, Transfers) = 0
    BY <2>2, SumZero, FinitenessAssumption
  <2> QED
    BY <2>3, <2>4, CentAssumption DEF MoneyInv, Excess, Init
<1>2. IInv /\ IInv' /\ MoneyInv /\ [Next]_vars => MoneyInv'
  BY NextMoney DEF IInv
<1> QED
  BY <1>1, <1>2, Invariance, PTL DEF Spec

\* When no transfer is under way and none was disturbed, nothing is open: the
\* accounts hold what clients put in, to half a cent for each row that rounded
\* and exactly if none did, for any number of accounts and transfers and however
\* small the fractions of a cent (handleStartTransfer, compensateAndFail,
\* PostStop).
THEOREM MoneyKept == Spec => []MoneyConserved
<1>1. IInv /\ MoneyInv => MoneyConserved
  <2> SUFFICES ASSUME IInv, MoneyInv, disturbed = {},
                      \A t \in Transfers : pc[t] \in Ended \cup {"idle"}
               PROVE  2 * (SumFunction(Holdings) - deposited)
                        \in -(Cent * roundings) .. Cent * roundings
    BY DEF MoneyConserved, Holdings
  <2>1. \A t \in Transfers : Open[t] = 0
    <3> SUFFICES ASSUME NEW t \in Transfers PROVE Open[t] = 0
      OBVIOUS
    <3>1. EffectOK(t) /\ UndisturbedOK(t) /\ applied[t] \subseteq Effects
      BY DEF IInv, TransferInv, TransferOK, TypeOK
    <3>2. \/ applied[t] = {} \/ applied[t] = {"debit", "credit"}
          \/ applied[t] = {"debit", "refund"}
      BY <3>1 DEF EffectOK, UndisturbedOK, Effects, Compensating, Ended
    <3>3. request[t].amount \in Int
      BY RequestType DEF IInv
    <3>4. Open[t] = Moved(t, "debit") - Moved(t, "credit") - Moved(t, "refund")
      BY DEF Open
    <3> QED
      BY <3>2, <3>3, <3>4 DEF Moved
  <2>2. SumFunctionOnSet(Open, Transfers) = 0
    BY <2>1, SumZero, FinitenessAssumption
  <2>3. SumFunctionOnSet(Holdings, Accounts) \in Int
    BY MoneyType, SumInt, FinitenessAssumption DEF IInv
  <2>4. SumFunctionOnSet(Holdings, Accounts) - deposited = Excess
    BY <2>2, <2>3 DEF Excess, IInv, TypeOK
  <2>5. DOMAIN Holdings = Accounts
    BY DEF Holdings
  <2> QED
    BY <2>4, <2>5 DEF SumFunction, MoneyInv
<1> QED
  BY <1>1, Invariance, MoneyAccounted, PTL
=============================================================================
