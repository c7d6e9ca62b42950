--------------------------- MODULE TwoPhaseCommit ---------------------------
(***************************************************************************)
(* goakt-2pc: a money transfer between two account actors, driven by one   *)
(* Coordinator actor per transfer.                                         *)
(*                                                                         *)
(* A Coordinator runs handleStartTransfer to its end; between two Asks it  *)
(* is blocked, so the handler is cut where it waits and where it writes to *)
(* Postgres.  An Ask that errs or times out leaves its message in the      *)
(* account's mailbox, to be handled late, unless the network loses it.     *)
(* Account actors keep their state in memory: only PostStop writes it, so  *)
(* a crash goes back to the last row written, and prepared is always lost. *)
(*                                                                         *)
(* A coordinator never has two messages in one mailbox, and messages of    *)
(* different senders arrive in any order, so a mailbox is a set.           *)
(***************************************************************************)
EXTENDS Integers, Money

CONSTANTS
  Accounts,   \* account ids
  Transfers,  \* transfer ids: one Coordinator each
  Amounts,    \* amounts of the requests
  Openings,   \* what clients open accounts with
  Cent,       \* units of money in a cent
  MaxFaults   \* bound: failures of nodes, network and database in all

\* CreateTransfer refuses an amount that is not positive; nobody checks what
\* accounts are opened with.
ASSUME AmountsAssumption == Amounts \subseteq Nat \ {0}
ASSUME OpeningsAssumption == Openings \subseteq Int
ASSUME CentAssumption == Cent \in Nat \ {0}
ASSUME MaxFaultsAssumption == MaxFaults \in Nat

VARIABLES
  \* AccountEntity: the state of the actors, meaningful while they run
  status,      \* status[a]: "absent", "running" or "stopped"
  balance,     \* balance[a]
  createdAt,   \* createdAt[a]: is the creation time set?
  prepared,    \* prepared[a][t]: "no", or the side prepared for transfer t
  mailbox,     \* mailbox[a]: the messages a has not handled yet
  \* Coordinator
  request,     \* request[t]: the body of the client's POST /transfers
  pc,          \* pc[t]: where handleStartTransfer of t stands
  reply,       \* reply[t]: the result of the Ask t waits for
  crashed,     \* the coordinators whose node died: their handler is gone
  \* Postgres
  accountRow,  \* accountRow[a]: the row of table accounts
  transferRow, \* transferRow[t]: the status column of table transfers
  \* HTTP client
  answer,      \* answer[t]: what POST /transfers returned
  \* bookkeeping
  faults,      \* failures so far, at most MaxFaults
  voted,       \* voted[t]: sides whose account voted YES (history)
  moved,       \* moved[t]: sides whose account changed its balance (history)
  disturbed    \* transfers one of whose Asks or accounts failed (history)

accountVars == <<status, balance, createdAt, prepared>>
coordVars   == <<request, pc, reply, crashed>>
storeVars   == <<accountRow, transferRow>>
histVars    == <<faults, voted, moved, disturbed>>
vars == <<accountVars, mailbox, coordVars, storeVars, answer, histVars>>

Sides == {"debit", "credit"}
Requests == {r \in [from : Accounts, to : Accounts, amount : Amounts] :
               r.from # r.to}
PrepareTypes == {"PrepareDebit", "PrepareCredit"}
Messages == [type : PrepareTypes \cup {"Commit"}, transfer : Transfers]
NoRow == [balance |-> 0, createdAt |-> FALSE, exists |-> FALSE]
Rows == [balance : Int, createdAt : BOOLEAN, exists : BOOLEAN]

Waiting == {"prepareFrom", "prepareTo", "commitFrom", "commitTo"}
Committing == {"commitFrom", "commitTo", "finishing", "committed"}
Ended == {"committed", "aborted"}
PCs == {"idle", "starting", "locating", "persisting"}
         \cup Waiting \cup {"finishing"} \cup Ended

From(t) == request[t].from
To(t) == request[t].to

(***************************************************************************)
(* The decision of a coordinator: the abstract state of AtomicTransfer.    *)
(***************************************************************************)
decision == [t \in Transfers |->
  IF pc[t] \in Committing THEN "commit"
  ELSE IF pc[t] = "aborted" THEN "abort" ELSE "undecided"]

\* The kinds of values each variable holds.
TypeOK ==
  /\ status \in [Accounts -> {"absent", "running", "stopped"}]
  /\ balance \in [Accounts -> Int]
  /\ createdAt \in [Accounts -> BOOLEAN]
  /\ prepared \in [Accounts -> [Transfers -> {"no"} \cup Sides]]
  /\ mailbox \in [Accounts -> SUBSET Messages]
  /\ request \in [Transfers -> Requests]
  /\ pc \in [Transfers -> PCs]
  /\ reply \in [Transfers -> {"none", "yes", "no", "ack", "error"}]
  /\ crashed \subseteq Transfers
  /\ accountRow \in [Accounts -> Rows]
  /\ transferRow \in [Transfers ->
       {"none", "preparing", "prepared", "committed", "aborted"}]
  /\ answer \in [Transfers ->
       {"none", "waiting", "completed", "failed", "error"}]
  /\ faults \in Nat
  /\ voted \in [Transfers -> SUBSET Sides]
  /\ moved \in [Transfers -> SUBSET Sides]
  /\ disturbed \subseteq Transfers

Init ==
  /\ status = [a \in Accounts |-> "absent"]
  /\ balance = [a \in Accounts |-> 0]
  /\ createdAt = [a \in Accounts |-> FALSE]
  /\ prepared = [a \in Accounts |-> [t \in Transfers |-> "no"]]
  /\ mailbox = [a \in Accounts |-> {}]
  /\ request \in [Transfers -> Requests]
  /\ pc = [t \in Transfers |-> "idle"]
  /\ reply = [t \in Transfers |-> "none"]
  /\ crashed = {}
  /\ accountRow = [a \in Accounts |-> NoRow]
  /\ transferRow = [t \in Transfers |-> "none"]
  /\ answer = [t \in Transfers |-> "none"]
  /\ faults = 0
  /\ voted = [t \in Transfers |-> {}]
  /\ moved = [t \in Transfers |-> {}]
  /\ disturbed = {}

\* A node, the network or the database fails.
Fault ==
  /\ faults < MaxFaults
  /\ faults' = faults + 1

-----------------------------------------------------------------------------
(* Postgres *)

\* GetAccountState: a missing row reads as a fresh account, balance 0 and no
\* creation time.
GetAccountState(a) == accountRow[a]

\* WriteAccountState inserts the row, or updates its balance and nothing else:
\* created_at keeps the value of the first insert.  The column keeps cents.
WriteAccountState(a) ==
  accountRow' = [accountRow EXCEPT ![a] =
    [balance |-> ToNumeric(balance[a], Cent),
     createdAt |-> IF @.exists THEN @.createdAt ELSE createdAt[a],
     exists |-> TRUE]]

\* Mutant: the status and reason columns are swapped.
WriteTransferStateSwapped(t, s) ==
  transferRow' = [transferRow EXCEPT ![t] = "reason"]

WriteTransferState(t, s) ==
  transferRow' = [transferRow EXCEPT ![t] = s]

-----------------------------------------------------------------------------
(* AccountEntity *)

\* PreStart of the accounts in S that do not run yet: state from Postgres,
\* nothing prepared.
PreStart(S) ==
  LET fresh == {a \in S : status[a] # "running"}
  IN /\ status' = [a \in Accounts |->
          IF a \in fresh THEN "running" ELSE status[a]]
     /\ balance' = [a \in Accounts |->
          IF a \in fresh THEN GetAccountState(a).balance ELSE balance[a]]
     /\ createdAt' = [a \in Accounts |->
          IF a \in fresh THEN GetAccountState(a).createdAt ELSE createdAt[a]]
     /\ prepared' = [a \in Accounts |->
          IF a \in fresh THEN [t \in Transfers |-> "no"] ELSE prepared[a]]

\* POST /accounts on an account that has no running actor, or whose actor was
\* spawned by a transfer: spawn it if need be and let it handle CreateAccount.
\* An account created before only answers with its balance (and if it was not
\* running the spawn is a Relocate).
CreateAccount(a, amount) ==
  LET known == IF status[a] = "running" THEN createdAt[a]
               ELSE GetAccountState(a).createdAt
  IN /\ ~known
     /\ status' = [status EXCEPT ![a] = "running"]
     /\ balance' = [balance EXCEPT ![a] = amount]
     /\ createdAt' = [createdAt EXCEPT ![a] = TRUE]
     /\ UNCHANGED <<prepared, mailbox, coordVars, storeVars, answer, histVars>>

\* The reply of an account reaches the coordinator only while the Ask waits.
ReplyTo(t, waitsAt, r) ==
  reply' = IF pc[t] = waitsAt /\ reply[t] = "none"
           THEN [reply EXCEPT ![t] = r] ELSE reply

\* Mutant: only a debit is remembered as prepared.
handlePrepareTransferForgets(a, m) ==
  LET t == m.transfer
      isDebit == m.type = "PrepareDebit"
      refuses == isDebit /\ balance[a] < request[t].amount
  IN /\ status[a] = "running"
     /\ m \in mailbox[a]
     /\ m.type \in PrepareTypes
     /\ mailbox' = [mailbox EXCEPT ![a] = @ \ {m}]
     /\ ReplyTo(t, IF isDebit THEN "prepareFrom" ELSE "prepareTo",
                   IF refuses THEN "no" ELSE "yes")
     /\ prepared' = IF isDebit /\ ~refuses
                    THEN [prepared EXCEPT ![a][t] = "debit"] ELSE prepared
     /\ voted' = IF refuses THEN voted
                 ELSE [voted EXCEPT ![t] =
                         @ \cup {IF isDebit THEN "debit" ELSE "credit"}]
     /\ UNCHANGED <<status, balance, createdAt, request, pc, crashed,
                    storeVars, answer, faults, moved, disturbed>>

handlePrepareTransfer(a, m) ==
  LET t == m.transfer
      isDebit == m.type = "PrepareDebit"
      side == IF isDebit THEN "debit" ELSE "credit"
      waitsAt == IF isDebit THEN "prepareFrom" ELSE "prepareTo"
      refuses == /\ prepared[a][t] = "no"
                 /\ isDebit
                 /\ balance[a] < request[t].amount
  IN /\ status[a] = "running"
     /\ m \in mailbox[a]
     /\ m.type \in PrepareTypes
     /\ mailbox' = [mailbox EXCEPT ![a] = @ \ {m}]
     /\ \/ /\ refuses
           /\ ReplyTo(t, waitsAt, "no")
           /\ UNCHANGED <<prepared, voted>>
        \/ /\ ~refuses
           /\ ReplyTo(t, waitsAt, "yes")
           /\ prepared' = IF prepared[a][t] # "no" THEN prepared
                          ELSE [prepared EXCEPT ![a][t] = side]
           /\ voted' = [voted EXCEPT ![t] = @ \cup {side}]
     /\ UNCHANGED <<status, balance, createdAt, request, pc, crashed,
                    storeVars, answer, faults, moved, disturbed>>

handleCommitTransfer(a, m) ==
  LET t == m.transfer
      side == prepared[a][t]
      waitsAt == IF a = From(t) THEN "commitFrom" ELSE "commitTo"
  IN /\ status[a] = "running"
     /\ m \in mailbox[a]
     /\ m.type = "Commit"
     /\ mailbox' = [mailbox EXCEPT ![a] = @ \ {m}]
     /\ ReplyTo(t, waitsAt, "ack")
     /\ \/ /\ side = "no"      \* committed already, or never prepared
           /\ UNCHANGED <<balance, prepared, moved>>
        \/ /\ side # "no"
           /\ balance' = [balance EXCEPT ![a] =
                IF side = "debit" THEN @ - request[t].amount
                                  ELSE @ + request[t].amount]
           /\ prepared' = [prepared EXCEPT ![a][t] = "no"]
           /\ moved' = [moved EXCEPT ![t] = @ \cup {side}]
     /\ UNCHANGED <<status, createdAt, request, pc, crashed, storeVars, answer,
                    faults, voted, disturbed>>

\* The actor leaves memory, and its state and mailbox with it.  The transfers
\* under way on it are disturbed.
Leave(a) ==
  /\ status[a] = "running"
  /\ Fault
  /\ status' = [status EXCEPT ![a] = "stopped"]
  /\ balance' = [balance EXCEPT ![a] = 0]
  /\ createdAt' = [createdAt EXCEPT ![a] = FALSE]
  /\ prepared' = [prepared EXCEPT ![a] = [t \in Transfers |-> "no"]]
  /\ mailbox' = [mailbox EXCEPT ![a] = {}]
  /\ disturbed' = disturbed \cup {t \in Transfers :
       a \in {From(t), To(t)} /\ pc[t] \notin Ended \cup {"idle"}}
  /\ UNCHANGED <<coordVars, transferRow, answer, voted, moved>>

\* A graceful stop of the node runs PostStop, whose write may fail.
PostStop(a) ==
  /\ Leave(a)
  /\ WriteAccountState(a)

\* A crash of the node, or a PostStop that cannot write.
CrashAccount(a) ==
  /\ Leave(a)
  /\ UNCHANGED accountRow

\* The cluster starts the account again on a node that lives.
Relocate(a) ==
  /\ status[a] = "stopped"
  /\ PreStart({a})
  /\ UNCHANGED <<mailbox, coordVars, storeVars, answer, histVars>>

\* A message never reaches its account.
Lose(a, m) ==
  /\ m \in mailbox[a]
  /\ Fault
  /\ mailbox' = [mailbox EXCEPT ![a] = @ \ {m}]
  /\ disturbed' = disturbed \cup {m.transfer}
  /\ UNCHANGED <<accountVars, coordVars, storeVars, answer, voted, moved>>

-----------------------------------------------------------------------------
(* Coordinator *)

\* ctx.Response reaches the client if it still waits.
Response(t, r) ==
  answer' = [answer EXCEPT ![t] = IF @ = "waiting" THEN r ELSE @]

Goto(t, label) ==
  /\ pc' = [pc EXCEPT ![t] = label]
  /\ reply' = [reply EXCEPT ![t] = "none"]

\* Ask puts the message in the mailbox of an account that runs.  A message to
\* an account that does not run, or to the PID of an account that has stopped
\* since the coordinator located it, is a dead letter and the Ask fails.
Send(a, type, t) ==
  \/ /\ status[a] = "running"
     /\ mailbox' = [mailbox EXCEPT ![a] =
                     @ \cup {[type |-> type, transfer |-> t]}]
  \/ /\ status[a] # "running" \/ t \in disturbed
     /\ UNCHANGED mailbox

\* abortTransfer marks the stored transfer aborted, unless it cannot be read or
\* written, and answers TransferFailed.  No message goes to the accounts.
abortTransfer(t) ==
  /\ Goto(t, "aborted")
  /\ \/ transferRow[t] # "none" /\ WriteTransferState(t, "aborted")
     \/ UNCHANGED transferRow
  /\ Response(t, "failed")

\* POST /transfers: spawn the coordinator and Ask it.
CreateTransfer(t) ==
  /\ pc[t] = "idle"
  /\ Goto(t, "starting")
  /\ answer' = [answer EXCEPT ![t] = "waiting"]
  /\ UNCHANGED <<accountVars, mailbox, request, crashed, storeVars, histVars>>

\* The HTTP client's Ask, or its connection, times out.
ClientTimeout(t) ==
  /\ answer[t] = "waiting"
  /\ Fault
  /\ answer' = [answer EXCEPT ![t] = "error"]
  /\ UNCHANGED <<accountVars, mailbox, coordVars, storeVars, voted, moved,
                 disturbed>>

At(t, label) == pc[t] = label /\ t \notin crashed

\* Mutant: the error of the first write is ignored.
WritePreparingIgnoresError(t) ==
  /\ At(t, "starting")
  /\ \/ WriteTransferState(t, "preparing") /\ UNCHANGED faults
     \/ Fault /\ UNCHANGED transferRow
  /\ Goto(t, "locating")
  /\ UNCHANGED <<accountVars, mailbox, request, crashed, accountRow, answer,
                 voted, moved, disturbed>>

WritePreparing(t) ==
  /\ At(t, "starting")
  /\ \/ /\ WriteTransferState(t, "preparing")
        /\ Goto(t, "locating")
        /\ UNCHANGED <<answer, faults>>
     \/ /\ Fault
        /\ Goto(t, "aborted")
        /\ Response(t, "failed")
        /\ UNCHANGED transferRow
  /\ UNCHANGED <<accountVars, mailbox, request, crashed, accountRow, voted,
                 moved, disturbed>>

\* getOrSpawnAccount for the source, then for the destination; either may fail.
LocateAccounts(t) ==
  /\ At(t, "locating")
  /\ \E found \in {{}, {From(t)}, {From(t), To(t)}} :
       /\ PreStart(found)
       /\ \/ /\ found = {From(t), To(t)}
             /\ Goto(t, "persisting")
             /\ UNCHANGED <<transferRow, answer, faults>>
          \/ /\ found # {From(t), To(t)}
             /\ Fault
             /\ abortTransfer(t)
  /\ UNCHANGED <<mailbox, request, crashed, accountRow, voted, moved,
                 disturbed>>

\* Mutant: the prepared status is not stored.
WritePreparedSkipped(t) ==
  /\ At(t, "persisting")
  /\ Send(From(t), "PrepareDebit", t)
  /\ Goto(t, "prepareFrom")
  /\ UNCHANGED <<accountVars, request, crashed, storeVars, answer, histVars>>

\* The transfer is stored as prepared, then the source is asked to prepare.
WritePrepared(t) ==
  /\ At(t, "persisting")
  /\ \/ /\ WriteTransferState(t, "prepared")
        /\ Send(From(t), "PrepareDebit", t)
        /\ Goto(t, "prepareFrom")
        /\ UNCHANGED <<answer, faults>>
     \/ /\ Fault
        /\ abortTransfer(t)
        /\ UNCHANGED mailbox
  /\ UNCHANGED <<accountVars, request, crashed, accountRow, voted, moved,
                 disturbed>>

\* Mutant: the Asks of phase 2 have no timeout.
AskTimeoutPhase1Only(t) ==
  /\ pc[t] \in {"prepareFrom", "prepareTo"} /\ t \notin crashed
  /\ reply[t] = "none"
  /\ reply' = [reply EXCEPT ![t] = "error"]
  /\ disturbed' = disturbed \cup {t}
  /\ UNCHANGED <<accountVars, mailbox, request, pc, crashed, storeVars, answer,
                 faults, voted, moved>>

\* The Ask ends with an error after askTimeout.  It is a failure of the account
\* to be slow if the message is still in its mailbox.
AskTimeout(t) ==
  /\ pc[t] \in Waiting /\ t \notin crashed
  /\ reply[t] = "none"
  /\ IF \E a \in Accounts : \E m \in mailbox[a] : m.transfer = t
     THEN Fault ELSE UNCHANGED faults
  /\ reply' = [reply EXCEPT ![t] = "error"]
  /\ disturbed' = disturbed \cup {t}
  /\ UNCHANGED <<accountVars, mailbox, request, pc, crashed, storeVars, answer,
                 voted, moved>>

SourceVoted(t) ==
  /\ At(t, "prepareFrom")
  /\ \/ /\ reply[t] = "yes"
        /\ Send(To(t), "PrepareCredit", t)
        /\ Goto(t, "prepareTo")
        /\ UNCHANGED <<transferRow, answer>>
     \/ /\ reply[t] \in {"no", "error"}
        /\ abortTransfer(t)
        /\ UNCHANGED mailbox
  /\ UNCHANGED <<accountVars, request, crashed, accountRow, histVars>>

\* Mutant: any end of the destination's Ask is taken for a YES.
DestinationVotedUnchecked(t) ==
  /\ At(t, "prepareTo")
  /\ reply[t] # "none"
  /\ Send(From(t), "Commit", t)
  /\ Goto(t, "commitFrom")
  /\ UNCHANGED <<accountVars, request, crashed, storeVars, answer, histVars>>

DestinationVoted(t) ==
  /\ At(t, "prepareTo")
  /\ \/ /\ reply[t] = "yes"
        /\ Send(From(t), "Commit", t)
        /\ Goto(t, "commitFrom")
        /\ UNCHANGED <<transferRow, answer>>
     \/ /\ reply[t] \in {"no", "error"}
        /\ abortTransfer(t)
        /\ UNCHANGED mailbox
  /\ UNCHANGED <<accountVars, request, crashed, accountRow, histVars>>

\* A failed commit of the source is logged and the destination is committed.
SourceCommitted(t) ==
  /\ At(t, "commitFrom")
  /\ reply[t] # "none"
  /\ Send(To(t), "Commit", t)
  /\ Goto(t, "commitTo")
  /\ UNCHANGED <<accountVars, request, crashed, storeVars, answer, histVars>>

DestinationCommitted(t) ==
  /\ At(t, "commitTo")
  /\ reply[t] # "none"
  /\ Goto(t, "finishing")
  /\ UNCHANGED <<accountVars, mailbox, request, crashed, storeVars, answer,
                 histVars>>

\* The write may fail; the client hears TransferCompleted all the same.
WriteCommitted(t) ==
  /\ At(t, "finishing")
  /\ \/ WriteTransferState(t, "committed") /\ UNCHANGED faults
     \/ Fault /\ UNCHANGED transferRow
  /\ Goto(t, "committed")
  /\ Response(t, "completed")
  /\ UNCHANGED <<accountVars, mailbox, request, crashed, accountRow, voted,
                 moved, disturbed>>

\* The node of the coordinator dies.  A relocated coordinator has no message to
\* handle: the handler is never resumed.
CrashCoordinator(t) ==
  /\ pc[t] \notin Ended \cup {"idle"}
  /\ t \notin crashed
  /\ Fault
  /\ crashed' = crashed \cup {t}
  /\ UNCHANGED <<accountVars, mailbox, request, pc, reply, storeVars, answer,
                 voted, moved, disturbed>>

\* The replies of the coordinator to GetTransferStatus: the stored status, or
\* "unknown" if the row cannot be read.
handleGetTransferStatus(t) ==
  {"unknown", IF transferRow[t] = "none" THEN "not_found" ELSE transferRow[t]}

\* GET /transfers/{id}: what the client may be told now.  The coordinator may
\* not be found at any time, for it is not spawned again after a restart; the
\* lookup or the Ask may fail; and the coordinator does not reply before
\* handleStartTransfer has ended, or it has been relocated.
GetTransfer(t) ==
  {"not_found", "error"}
    \cup (IF pc[t] \in Ended \/ t \in crashed
          THEN handleGetTransferStatus(t) ELSE {})

-----------------------------------------------------------------------------
CoordinatorStep(t) ==
  \/ WritePreparing(t) \/ LocateAccounts(t) \/ WritePrepared(t)
  \/ SourceVoted(t) \/ DestinationVoted(t)
  \/ SourceCommitted(t) \/ DestinationCommitted(t) \/ WriteCommitted(t)
  \/ AskTimeout(t)

Receive(a) ==
  \E m \in mailbox[a] : handlePrepareTransfer(a, m) \/ handleCommitTransfer(a, m)

AccountStep(a) ==
  \/ Receive(a)
  \/ \E m \in mailbox[a] : Lose(a, m)
  \/ \E amount \in Openings : CreateAccount(a, amount)
  \/ PostStop(a) \/ CrashAccount(a) \/ Relocate(a)

Next ==
  \/ \E t \in Transfers :
       CoordinatorStep(t) \/ CreateTransfer(t) \/ ClientTimeout(t)
         \/ CrashCoordinator(t)
  \/ \E a \in Accounts : AccountStep(a)

\* The actor runtime runs a coordinator that can go on and an account that has
\* messages, and the timer of an Ask expires after askTimeout.
Fairness ==
  /\ \A t \in Transfers : WF_vars(CoordinatorStep(t))
  /\ \A a \in Accounts : WF_vars(Receive(a))

Spec == Init /\ [][Next]_vars /\ Fairness

-----------------------------------------------------------------------------
(* Properties *)

Abstract == INSTANCE AtomicTransfer
  WITH voted <- voted, decision <- decision,
       moved <- moved, answer <- answer

\* The coordinators and account actors together implement the commit protocol
\* of AtomicTransfer: through late, lost and unanswered messages, restarts and
\* crashes, money moves on a side at most once, only for a transfer both of
\* whose sides voted YES and that is never aborted, and the client hears
\* "completed" or "failed" only of a transfer decided so
\* (handleStartTransfer, abortTransfer, handlePrepareTransfer,
\* handleCommitTransfer).
ImplementsAtomicTransfer == Abstract!Spec

\* A transfer none of whose Asks failed and none of whose accounts stopped on
\* the way is atomic when handleStartTransfer ends: both sides have moved or
\* neither has, and which one is what was decided.
UndisturbedIsAtomic ==
  \A t \in Transfers \ disturbed :
    /\ pc[t] = "committed" => moved[t] = Sides
    /\ pc[t] = "aborted" => moved[t] = {}

\* The allowed changes of the status column of t.
StatusForward(t) ==
  \/ transferRow'[t] = transferRow[t]
  \/ <<transferRow[t], transferRow'[t]>> \in
       {<<"none", "preparing">>, <<"preparing", "prepared">>,
        <<"preparing", "aborted">>, <<"prepared", "aborted">>,
        <<"prepared", "committed">>}

\* The status column of a transfer goes forward only: a transfer stored as
\* committed or aborted stays so, and one stored as prepared never goes back to
\* preparing (WriteTransferState calls of handleStartTransfer, abortTransfer).
StoredStatusForward == [][\A t \in Transfers : StatusForward(t)]_vars

\* No report of GET /transfers names another outcome than POST /transfers
\* answered: a failed transfer is never reported committed, a completed one
\* never aborted or preparing, and what is reported committed has both votes.
\* A report may fall short of the answer: "unknown" if the row cannot be read,
\* "prepared" if the last write failed, and "not_found", even of a completed
\* transfer, once its coordinator is gone (handleGetTransferStatus,
\* GetTransfer).
StatusAgreesWithAnswer ==
  \A t \in Transfers : \A report \in GetTransfer(t) :
    /\ answer[t] = "failed" => report # "committed"
    /\ answer[t] = "completed" => report \notin {"preparing", "aborted"}
    /\ report = "committed" => voted[t] = Sides

\* handleStartTransfer always ends: lost messages, dead accounts and unanswered
\* Asks never block a coordinator whose node lives.
CoordinatorEnds ==
  \A t \in Transfers :
    pc[t] = "starting" ~> (pc[t] \in Ended \/ t \in crashed)

\* A YES vote is a promise that the account can commit: no debit takes a
\* balance below zero (2PC.md: resources are locked when voting YES).
NoOverdraft == \A a \in Accounts : balance[a] >= 0
=============================================================================
