-------------------------------- MODULE Saga --------------------------------
(***************************************************************************)
(* goakt-saga: a money transfer between two account actors, driven by one  *)
(* SagaOrchestrator actor per transfer: debit the source, credit the       *)
(* destination, and credit the source back if the second step fails.       *)
(*                                                                         *)
(* The orchestrator runs handleStartTransfer to its end and is blocked in  *)
(* its Asks, so the handler is cut there and where it writes to Postgres.  *)
(* An Ask that fails leaves its message in the account's mailbox, to be    *)
(* handled late, unless it is lost.  Accounts live in memory and are       *)
(* written by PostStop only.                                               *)
(*                                                                         *)
(* No orchestrator has two messages in one mailbox, and messages of        *)
(* different senders arrive in any order, so a mailbox is a set.           *)
(***************************************************************************)
EXTENDS Integers, FiniteSets, Functions, Money

CONSTANTS
  Accounts,   \* account ids
  Transfers,  \* transfer ids: one SagaOrchestrator each
  Amounts,    \* amounts of transfers
  Openings,   \* what clients open accounts with
  Credits,    \* what clients credit accounts with
  Cent,       \* units of money in a cent
  MaxCredited, \* bound: no credit of a client leaves more than this, or less
              \* than its negative, in an account
  MaxFaults   \* bound: failures of nodes, network and database in all

\* CreateTransfer refuses an amount that is not positive; nobody checks what
\* accounts are opened or credited with.
ASSUME AmountsAssumption == Amounts \subseteq Nat \ {0}
ASSUME CreditsAssumption == Openings \subseteq Int /\ Credits \subseteq Int
ASSUME CentAssumption == Cent \in Nat \ {0}
ASSUME BoundsAssumption == MaxCredited \in Nat /\ MaxFaults \in Nat
ASSUME FinitenessAssumption == IsFiniteSet(Accounts) /\ IsFiniteSet(Transfers)

VARIABLES
  \* AccountEntity: the state of the actors, meaningful while they run
  status,      \* status[a]: "absent", "running" or "stopped"
  balance,     \* balance[a]
  createdAt,   \* createdAt[a]: is the creation time set?
  mailbox,     \* mailbox[a]: the messages a has not handled yet
  \* SagaOrchestrator
  request,     \* request[t]: the body of the client's POST /transfers
  pc,          \* pc[t]: where handleStartTransfer of t stands
  reply,       \* reply[t]: the result of the Ask t waits for
  crashed,     \* the orchestrators whose node died: their handler is gone
  \* Postgres
  accountRow,  \* accountRow[a]: the row of table accounts
  transferRow, \* transferRow[t]: the status column of table transfers
  \* HTTP client
  answer,      \* answer[t]: what POST /transfers returned
  \* bookkeeping
  faults,      \* failures so far, at most MaxFaults
  applied,     \* applied[t]: the effects t had on balances (history)
  disturbed,   \* transfers one of whose Asks or accounts failed (history)
  deposited,   \* the money clients put in, less what crashes rolled back
  charged,     \* accounts that clients gave a negative amount (history)
  roundings    \* how often a row had no room for a fraction of a cent (history)

accountVars == <<status, balance, createdAt>>
orchVars    == <<request, pc, reply, crashed>>
storeVars   == <<accountRow, transferRow>>
moneyVars   == <<deposited, charged, roundings>>
histVars    == <<faults, applied, disturbed, moneyVars>>
vars == <<accountVars, mailbox, orchVars, storeVars, answer, histVars>>

Effects == {"debit", "credit", "refund"}
Requests == {r \in [from : Accounts, to : Accounts, amount : Amounts] :
               r.from # r.to}
Messages == [type : {"DebitAccount", "CreditAccount"}, transfer : Transfers]
NoRow == [balance |-> 0, createdAt |-> FALSE, exists |-> FALSE]
Rows == [balance : Int, createdAt : BOOLEAN, exists : BOOLEAN]

Waiting == {"debit", "credit", "refund"}
Ended == {"completed", "failed", "compensated"}
Debiting == {"idle", "starting", "locateFrom", "debit"}
Crediting == {"locateTo", "credit", "completing"}
Compensating == {"compensate", "refund", "failing"}
PCs == Debiting \cup Crediting \cup Compensating \cup Ended

From(t) == request[t].from
To(t) == request[t].to

\* How far the orchestrator of t has come: the abstract state of
\* CompensatedTransfer.
phase == [t \in Transfers |->
  CASE pc[t] \in Debiting -> "debiting"
    [] pc[t] \in Crediting -> "crediting"
    [] pc[t] \in Compensating -> "compensating"
    [] pc[t] = "completed" -> "completed"
    [] OTHER -> "failed"]

\* The kinds of values each variable holds.
TypeOK ==
  /\ status \in [Accounts -> {"absent", "running", "stopped"}]
  /\ balance \in [Accounts -> Int]
  /\ createdAt \in [Accounts -> BOOLEAN]
  /\ mailbox \in [Accounts -> SUBSET Messages]
  /\ request \in [Transfers -> Requests]
  /\ pc \in [Transfers -> PCs]
  /\ reply \in [Transfers -> {"none", "ok", "no", "error"}]
  /\ crashed \subseteq Transfers
  /\ accountRow \in [Accounts -> Rows]
  /\ transferRow \in [Transfers ->
       {"none", "pending", "compensating", "completed", "failed"}]
  /\ answer \in [Transfers ->
       {"none", "waiting", "completed", "failed", "error"}]
  /\ faults \in Nat
  /\ applied \in [Transfers -> SUBSET Effects]
  /\ disturbed \subseteq Transfers
  /\ deposited \in Int
  /\ charged \subseteq Accounts
  /\ roundings \in Nat

Init ==
  /\ status = [a \in Accounts |-> "absent"]
  /\ balance = [a \in Accounts |-> 0]
  /\ createdAt = [a \in Accounts |-> FALSE]
  /\ mailbox = [a \in Accounts |-> {}]
  /\ request \in [Transfers -> Requests]
  /\ pc = [t \in Transfers |-> "idle"]
  /\ reply = [t \in Transfers |-> "none"]
  /\ crashed = {}
  /\ accountRow = [a \in Accounts |-> NoRow]
  /\ transferRow = [t \in Transfers |-> "none"]
  /\ answer = [t \in Transfers |-> "none"]
  /\ faults = 0
  /\ applied = [t \in Transfers |-> {}]
  /\ disturbed = {}
  /\ deposited = 0
  /\ charged = {}
  /\ roundings = 0

\* A node, the network or the database fails.
Fault ==
  /\ faults < MaxFaults
  /\ faults' = faults + 1

-----------------------------------------------------------------------------
(* Postgres *)

\* GetAccountState: a missing row reads as a fresh account, balance 0 and no
\* creation time.
GetAccountState(a) == accountRow[a]

\* WriteAccountState inserts the row, or updates its balance and nothing else:
\* created_at keeps the value of the first insert.  The column keeps cents.
WriteAccountState(a) ==
  accountRow' = [accountRow EXCEPT ![a] =
    [balance |-> ToNumeric(balance[a], Cent),
     createdAt |-> IF @.exists THEN @.createdAt ELSE createdAt[a],
     exists |-> TRUE]]

WriteTransferState(t, s) ==
  transferRow' = [transferRow EXCEPT ![t] = s]

\* A write whose error is ignored.
TryWriteTransferState(t, s) ==
  \/ WriteTransferState(t, s) /\ UNCHANGED faults
  \/ Fault /\ UNCHANGED transferRow

-----------------------------------------------------------------------------
(* AccountEntity *)

\* The money of account a: in the memory of its actor, or in its row.
Holding(a) ==
  IF status[a] = "running" THEN balance[a] ELSE GetAccountState(a).balance

\* getOrSpawnAccount finds the actor, or PreStart loads it from its row.
PreStart(a) ==
  /\ status' = [status EXCEPT ![a] = "running"]
  /\ balance' = [balance EXCEPT ![a] = Holding(a)]
  /\ createdAt' = [createdAt EXCEPT ![a] =
       IF status[a] = "running" THEN @ ELSE GetAccountState(a).createdAt]

\* POST /accounts on an account with no running actor, or whose actor a
\* transfer spawned: spawn it if need be and let it handle CreateAccount, which
\* sets the balance to whatever it says.  An account known as created only
\* answers its balance.
CreateAccount(a, amount) ==
  LET known == IF status[a] = "running" THEN createdAt[a]
               ELSE GetAccountState(a).createdAt
  IN /\ ~known
     /\ status' = [status EXCEPT ![a] = "running"]
     /\ balance' = [balance EXCEPT ![a] = amount]
     /\ createdAt' = [createdAt EXCEPT ![a] = TRUE]
     /\ deposited' = deposited + amount - Holding(a)
     /\ charged' = IF amount < 0 THEN charged \cup {a} ELSE charged
     /\ UNCHANGED <<mailbox, orchVars, storeVars, answer, faults, applied,
                    disturbed, roundings>>

\* POST /accounts/{id}/credit: the actor handles CreditAccount of a client,
\* whose amount may be negative.
ClientCredit(a, amount) ==
  /\ status[a] = "running"
  /\ balance[a] + amount \in -MaxCredited .. MaxCredited
  /\ balance' = [balance EXCEPT ![a] = @ + amount]
  /\ deposited' = deposited + amount
  /\ charged' = IF amount < 0 THEN charged \cup {a} ELSE charged
  /\ UNCHANGED <<status, createdAt, mailbox, orchVars, storeVars, answer,
                 faults, applied, disturbed, roundings>>

\* The reply of an account reaches the orchestrator only while the Ask waits.
ReplyTo(t, waitsAt, r) ==
  reply' = IF pc[t] = waitsAt /\ reply[t] = "none"
           THEN [reply EXCEPT ![t] = r] ELSE reply

\* The account takes a message of type `type` out of its mailbox.
Take(a, m, type) ==
  /\ status[a] = "running"
  /\ m \in mailbox[a]
  /\ m.type = type
  /\ mailbox' = [mailbox EXCEPT ![a] = @ \ {m}]

\* Mutant: the balance is not checked.
DebitAccountUnchecked(a, m) ==
  /\ Take(a, m, "DebitAccount")
  /\ balance' = [balance EXCEPT ![a] = @ - request[m.transfer].amount]
  /\ applied' = [applied EXCEPT ![m.transfer] = @ \cup {"debit"}]
  /\ ReplyTo(m.transfer, "debit", "ok")
  /\ UNCHANGED <<status, createdAt, request, pc, crashed, storeVars, answer,
                 faults, disturbed, moneyVars>>

DebitAccount(a, m) ==
  LET t == m.transfer
      amount == request[t].amount
  IN /\ Take(a, m, "DebitAccount")
     /\ \/ /\ balance[a] < amount          \* ErrInsufficientFunds
           /\ ReplyTo(t, "debit", "no")
           /\ UNCHANGED <<balance, applied>>
        \/ /\ balance[a] >= amount
           /\ ReplyTo(t, "debit", "ok")
           /\ balance' = [balance EXCEPT ![a] = @ - amount]
           /\ applied' = [applied EXCEPT ![t] = @ \cup {"debit"}]
     /\ UNCHANGED <<status, createdAt, request, pc, crashed, storeVars, answer,
                    faults, disturbed, moneyVars>>

\* Mutant: the credit of the destination is answered but not applied.
CreditAccountForgets(a, m) ==
  LET t == m.transfer
      step == IF a = To(t) THEN "credit" ELSE "refund"
  IN /\ Take(a, m, "CreditAccount")
     /\ ReplyTo(t, step, "ok")
     /\ applied' = [applied EXCEPT ![t] = @ \cup {step}]
     /\ UNCHANGED <<accountVars, request, pc, crashed, storeVars, answer,
                    faults, disturbed, moneyVars>>

\* The credit of the destination and the compensation of the source are the
\* same message; the account does not tell them apart.
CreditAccount(a, m) ==
  LET t == m.transfer
      step == IF a = To(t) THEN "credit" ELSE "refund"
  IN /\ Take(a, m, "CreditAccount")
     /\ ReplyTo(t, step, "ok")
     /\ balance' = [balance EXCEPT ![a] = @ + request[t].amount]
     /\ applied' = [applied EXCEPT ![t] = @ \cup {step}]
     /\ UNCHANGED <<status, createdAt, request, pc, crashed, storeVars, answer,
                    faults, disturbed, moneyVars>>

\* The actor leaves memory, and its mailbox with it.  The transfers under way
\* on it are disturbed.
Leave(a) ==
  /\ status[a] = "running"
  /\ Fault
  /\ status' = [status EXCEPT ![a] = "stopped"]
  /\ balance' = [balance EXCEPT ![a] = 0]
  /\ createdAt' = [createdAt EXCEPT ![a] = FALSE]
  /\ mailbox' = [mailbox EXCEPT ![a] = {}]
  /\ disturbed' = disturbed \cup {t \in Transfers :
       a \in {From(t), To(t)} /\ pc[t] \notin Ended \cup {"idle"}}
  /\ UNCHANGED <<orchVars, transferRow, answer, applied>>

\* A graceful stop of the node runs PostStop.
PostStop(a) ==
  /\ Leave(a)
  /\ WriteAccountState(a)
  /\ roundings' = IF ToNumeric(balance[a], Cent) = balance[a] THEN roundings
                  ELSE roundings + 1
  /\ UNCHANGED <<deposited, charged>>

\* A crash of the node, or a PostStop that cannot write: the account goes back
\* to its row.
CrashAccount(a) ==
  /\ Leave(a)
  /\ deposited' = deposited - (balance[a] - GetAccountState(a).balance)
  /\ UNCHANGED <<accountRow, charged, roundings>>

\* The cluster starts the account again on a node that lives.
Relocate(a) ==
  /\ status[a] = "stopped"
  /\ PreStart(a)
  /\ UNCHANGED <<mailbox, orchVars, storeVars, answer, histVars>>

\* A message never reaches its account.
Lose(a, m) ==
  /\ m \in mailbox[a]
  /\ Fault
  /\ mailbox' = [mailbox EXCEPT ![a] = @ \ {m}]
  /\ disturbed' = disturbed \cup {m.transfer}
  /\ UNCHANGED <<accountVars, orchVars, storeVars, answer, applied, moneyVars>>

-----------------------------------------------------------------------------
(* SagaOrchestrator *)

At(t, label) == pc[t] = label /\ t \notin crashed

Goto(t, label) ==
  /\ pc' = [pc EXCEPT ![t] = label]
  /\ reply' = [reply EXCEPT ![t] = "none"]

\* ctx.Response reaches the client if it still waits.
Response(t, r) ==
  answer' = [answer EXCEPT ![t] = IF @ = "waiting" THEN r ELSE @]

\* Ask puts the message in the mailbox of an account that runs.  A message to
\* an account that does not run, or to the PID of an account that has stopped
\* since the orchestrator located it, is a dead letter and the Ask fails.
\* `running` is the set of accounts that run when the message is sent.
Send(running, a, type, t) ==
  \/ /\ a \in running
     /\ mailbox' = [mailbox EXCEPT ![a] =
                     @ \cup {[type |-> type, transfer |-> t]}]
  \/ /\ a \notin running \/ t \in disturbed
     /\ UNCHANGED mailbox

Running == {a \in Accounts : status[a] = "running"}

\* The stored transfer is marked failed, if that works, and the answer is
\* TransferFailed.
Fail(t, label) ==
  /\ Goto(t, label)
  /\ TryWriteTransferState(t, "failed")
  /\ Response(t, "failed")

\* Step 1 failed: nothing is undone.
failTransfer(t) == Fail(t, "failed")

\* POST /transfers: spawn the orchestrator and Ask it.
CreateTransfer(t) ==
  /\ pc[t] = "idle"
  /\ Goto(t, "starting")
  /\ answer' = [answer EXCEPT ![t] = "waiting"]
  /\ UNCHANGED <<accountVars, mailbox, request, crashed, storeVars, histVars>>

\* The HTTP client's Ask, or its connection, times out.
ClientTimeout(t) ==
  /\ answer[t] = "waiting"
  /\ Fault
  /\ answer' = [answer EXCEPT ![t] = "error"]
  /\ UNCHANGED <<accountVars, mailbox, orchVars, storeVars, applied, disturbed,
                 moneyVars>>

\* The transfer is stored as pending before anything else happens.
WritePending(t) ==
  /\ At(t, "starting")
  /\ \/ /\ WriteTransferState(t, "pending")
        /\ Goto(t, "locateFrom")
        /\ UNCHANGED <<answer, faults>>
     \/ /\ Fault
        /\ Goto(t, "failed")
        /\ Response(t, "failed")
        /\ UNCHANGED transferRow
  /\ UNCHANGED <<accountVars, mailbox, request, crashed, accountRow, applied,
                 disturbed, moneyVars>>

\* Step 1: locate the source and ask it for the debit.  If it cannot be
\* located, failTransfer is called, whose write may fail for the same reason.
AskDebit(t) ==
  /\ At(t, "locateFrom")
  /\ \/ /\ PreStart(From(t))
        /\ Send(Running \cup {From(t)}, From(t), "DebitAccount", t)
        /\ Goto(t, "debit")
        /\ UNCHANGED <<transferRow, answer, faults>>
     \/ /\ Fault
        /\ Goto(t, "failed")
        /\ WriteTransferState(t, "failed") \/ UNCHANGED transferRow
        /\ Response(t, "failed")
        /\ UNCHANGED <<accountVars, mailbox>>
  /\ UNCHANGED <<request, crashed, accountRow, applied, disturbed, moneyVars>>

\* Mutant: only a reply of success or an error of the account ends the step; a
\* failed Ask is taken for a success.
DebitRepliedOptimistic(t) ==
  /\ At(t, "debit")
  /\ \/ /\ reply[t] \in {"ok", "error"}
        /\ Goto(t, "locateTo")
        /\ UNCHANGED <<transferRow, answer, faults>>
     \/ /\ reply[t] = "no"
        /\ failTransfer(t)
  /\ UNCHANGED <<accountVars, mailbox, request, crashed, accountRow, applied,
                 disturbed, moneyVars>>

\* A refused debit and a failed Ask both fail the transfer.
DebitReplied(t) ==
  /\ At(t, "debit")
  /\ \/ /\ reply[t] = "ok"
        /\ Goto(t, "locateTo")
        /\ UNCHANGED <<transferRow, answer, faults>>
     \/ /\ reply[t] \in {"no", "error"}
        /\ failTransfer(t)
  /\ UNCHANGED <<accountVars, mailbox, request, crashed, accountRow, applied,
                 disturbed, moneyVars>>

\* Mutant: a destination that cannot be located fails the transfer without
\* compensation.
AskCreditFailsOnly(t) ==
  /\ At(t, "locateTo")
  /\ \/ /\ PreStart(To(t))
        /\ Send(Running \cup {To(t)}, To(t), "CreditAccount", t)
        /\ Goto(t, "credit")
        /\ UNCHANGED <<transferRow, answer, faults>>
     \/ /\ Fault
        /\ Goto(t, "failed")
        /\ WriteTransferState(t, "failed") \/ UNCHANGED transferRow
        /\ Response(t, "failed")
        /\ UNCHANGED <<accountVars, mailbox>>
  /\ UNCHANGED <<request, crashed, accountRow, applied, disturbed, moneyVars>>

\* Step 2: locate the destination and ask it for the credit.
AskCredit(t) ==
  /\ At(t, "locateTo")
  /\ \/ /\ PreStart(To(t))
        /\ Send(Running \cup {To(t)}, To(t), "CreditAccount", t)
        /\ Goto(t, "credit")
        /\ UNCHANGED faults
     \/ /\ Fault
        /\ Goto(t, "compensate")
        /\ UNCHANGED <<accountVars, mailbox>>
  /\ UNCHANGED <<request, crashed, storeVars, answer, applied, disturbed,
                 moneyVars>>

\* Mutant: the error of the Ask is ignored.
CreditRepliedIgnoresError(t) ==
  /\ At(t, "credit")
  /\ reply[t] # "none"
  /\ Goto(t, "completing")
  /\ UNCHANGED <<accountVars, mailbox, request, crashed, storeVars, answer,
                 histVars>>

\* Any reply is a success: only a failed Ask leads to compensation.
CreditReplied(t) ==
  /\ At(t, "credit")
  /\ \/ reply[t] = "ok" /\ Goto(t, "completing")
     \/ reply[t] = "error" /\ Goto(t, "compensate")
  /\ UNCHANGED <<accountVars, mailbox, request, crashed, storeVars, answer,
                 histVars>>

\* The write may fail; the client hears TransferCompleted all the same.
WriteCompleted(t) ==
  /\ At(t, "completing")
  /\ TryWriteTransferState(t, "completed")
  /\ Goto(t, "completed")
  /\ Response(t, "completed")
  /\ UNCHANGED <<accountVars, mailbox, request, crashed, accountRow, applied,
                 disturbed, moneyVars>>

\* compensateAndFail, first half: store compensating if that works, and ask the
\* source, at the PID located in step 1, to take the amount back.
AskRefund(t) ==
  /\ At(t, "compensate")
  /\ TryWriteTransferState(t, "compensating")
  /\ Send(Running, From(t), "CreditAccount", t)
  /\ Goto(t, "refund")
  /\ UNCHANGED <<accountVars, request, crashed, accountRow, answer, applied,
                 disturbed, moneyVars>>

\* The outcome of the compensation is ignored.
RefundReplied(t) ==
  /\ At(t, "refund")
  /\ reply[t] # "none"
  /\ Goto(t, "failing")
  /\ UNCHANGED <<accountVars, mailbox, request, crashed, storeVars, answer,
                 histVars>>

\* compensateAndFail, second half.
WriteFailed(t) ==
  /\ At(t, "failing")
  /\ Fail(t, "compensated")
  /\ UNCHANGED <<accountVars, mailbox, request, crashed, accountRow, applied,
                 disturbed, moneyVars>>

\* Mutant: the Ask of the compensation has no timeout.
AskTimeoutStepsOnly(t) ==
  /\ pc[t] \in {"debit", "credit"} /\ t \notin crashed
  /\ reply[t] = "none"
  /\ reply' = [reply EXCEPT ![t] = "error"]
  /\ disturbed' = disturbed \cup {t}
  /\ UNCHANGED <<accountVars, mailbox, request, pc, crashed, storeVars, answer,
                 faults, applied, moneyVars>>

\* The Ask ends with an error after askTimeout.  It is a failure of the account
\* to be slow if the message is still in its mailbox.
AskTimeout(t) ==
  /\ pc[t] \in Waiting /\ t \notin crashed
  /\ reply[t] = "none"
  /\ IF \E a \in Accounts : \E m \in mailbox[a] : m.transfer = t
     THEN Fault ELSE UNCHANGED faults
  /\ reply' = [reply EXCEPT ![t] = "error"]
  /\ disturbed' = disturbed \cup {t}
  /\ UNCHANGED <<accountVars, mailbox, request, pc, crashed, storeVars, answer,
                 applied, moneyVars>>

\* The node of the orchestrator dies.  A relocated orchestrator has no message
\* to handle: the handler is never resumed.
CrashOrchestrator(t) ==
  /\ pc[t] \notin Ended \cup {"idle"}
  /\ t \notin crashed
  /\ Fault
  /\ crashed' = crashed \cup {t}
  /\ UNCHANGED <<accountVars, mailbox, request, pc, reply, storeVars, answer,
                 applied, disturbed, moneyVars>>

\* The replies of the orchestrator to GetTransferStatus: the stored status, or
\* "unknown" if the row cannot be read.
handleGetTransferStatus(t) ==
  {"unknown", IF transferRow[t] = "none" THEN "not_found" ELSE transferRow[t]}

\* GET /transfers/{id}: what the client may be told now.  The orchestrator may
\* not be found at any time, for it is not spawned again after a restart; the
\* lookup or the Ask may fail; and the orchestrator does not reply before
\* handleStartTransfer has ended, or it has been relocated.
GetTransfer(t) ==
  {"not_found", "error"}
    \cup (IF pc[t] \in Ended \/ t \in crashed
          THEN handleGetTransferStatus(t) ELSE {})

-----------------------------------------------------------------------------
OrchestratorStep(t) ==
  \/ WritePending(t)
  \/ AskDebit(t) \/ DebitReplied(t)
  \/ AskCredit(t) \/ CreditReplied(t) \/ WriteCompleted(t)
  \/ AskRefund(t) \/ RefundReplied(t) \/ WriteFailed(t)
  \/ AskTimeout(t)

Receive(a) == \E m \in mailbox[a] : DebitAccount(a, m) \/ CreditAccount(a, m)

AccountStep(a) ==
  \/ Receive(a)
  \/ \E m \in mailbox[a] : Lose(a, m)
  \/ \E amount \in Openings : CreateAccount(a, amount)
  \/ \E amount \in Credits : ClientCredit(a, amount)
  \/ PostStop(a) \/ CrashAccount(a) \/ Relocate(a)

Next ==
  \/ \E t \in Transfers :
       OrchestratorStep(t) \/ CreateTransfer(t) \/ ClientTimeout(t)
         \/ CrashOrchestrator(t)
  \/ \E a \in Accounts : AccountStep(a)

\* The actor runtime runs an orchestrator that can go on and an account that
\* has messages, and the timer of an Ask expires after askTimeout.
Fairness ==
  /\ \A t \in Transfers : WF_vars(OrchestratorStep(t))
  /\ \A a \in Accounts : WF_vars(Receive(a))

Spec == Init /\ [][Next]_vars /\ Fairness

-----------------------------------------------------------------------------
(* Properties *)

Abstract == INSTANCE CompensatedTransfer
  WITH applied <- applied, phase <- phase, answer <- answer

\* The orchestrators and accounts together implement CompensatedTransfer:
\* through late, lost and unanswered messages, restarts and crashes, a transfer
\* has each of its effects at most once, credits and refunds only what was
\* debited, never refunds a transfer it completes, and answers "completed" only
\* of a transfer both of whose steps took effect (handleStartTransfer,
\* compensateAndFail, failTransfer).
ImplementsCompensatedTransfer == Abstract!Spec

\* A transfer none of whose Asks failed and none of whose accounts stopped on
\* the way leaves nothing half done: it is completed and moved, or failed and
\* not debited or refunded, even if its destination could not be located or a
\* status could not be written.
UndisturbedIsSettled ==
  \A t \in Transfers \ disturbed :
    /\ pc[t] = "completed" => applied[t] = {"debit", "credit"}
    /\ pc[t] = "failed" => applied[t] = {}
    /\ pc[t] = "compensated" => applied[t] = {"debit", "refund"}

\* No interleaving of transfers, credits and restarts takes a balance below
\* zero: the check and the debit are one message.  Only a client can, for
\* neither the service nor the account refuses a negative opening balance or
\* credit (CreateAccount, CreditAccount).
NoOverdraft == \A a \in Accounts \ charged : Holding(a) >= 0

\* Money is neither made nor lost: when every transfer has ended or not begun
\* and none was disturbed, the accounts, in memory or in their rows, hold what
\* clients put in, across graceful restarts, relocations and compensations, but
\* for half a cent each time that PostStop wrote a fraction of a cent to the
\* column numeric(19, 2), and exactly if it never did.  CreateAccount counts as
\* putting in what it changes the balance by.
MoneyConserved ==
  (disturbed = {} /\ \A t \in Transfers : pc[t] \in Ended \cup {"idle"})
    => 2 * (SumFunction([a \in Accounts |-> Holding(a)]) - deposited)
         \in -(Cent * roundings) .. Cent * roundings

\* No report of GET /transfers names another outcome than POST /transfers
\* answered: a failed transfer is never reported completed, nor a completed one
\* failed or compensating, and what is reported completed has been debited and
\* credited.  A report may fall short of the answer: "unknown" if the row cannot
\* be read, "pending" if the last write failed, and "not_found", even of a
\* completed transfer, once its orchestrator is gone.
StatusAgreesWithAnswer ==
  \A t \in Transfers : \A report \in GetTransfer(t) :
    /\ answer[t] = "failed" => report # "completed"
    /\ answer[t] = "completed" => report \notin {"failed", "compensating"}
    /\ report = "completed" => applied[t] = {"debit", "credit"}

\* A confirmed debit never stays open: unless its node dies, the orchestrator
\* completes the transfer or has asked for the refund and answered.
ConfirmedDebitEnds ==
  \A t \in Transfers :
    pc[t] = "locateTo" ~> (pc[t] \in Ended \/ t \in crashed)

\* A transfer that failed in its first step has not debited the source, for it
\* is not compensated (SAGA.md: "nothing has been committed").
FailedDebitCommitsNothing ==
  \A t \in Transfers : pc[t] = "failed" => "debit" \notin applied[t]
=============================================================================
