------------------------ MODULE TwoPhaseCommitProofs ------------------------
(***************************************************************************)
(* Proofs about TwoPhaseCommit, for any accounts, transfers, amounts and   *)
(* any number of failures.                                                 *)
(***************************************************************************)
EXTENDS TwoPhaseCommit, SumTheorems, TLAPS

(***************************************************************************)
(* The inductive invariant.  Its parts say where messages can be, what a   *)
(* lock and a vote mean, and what each place of handleStartTransfer knows. *)
(***************************************************************************)

\* A message is only ever in the mailbox of the account it concerns, and a
\* Commit only after the decision and before the side it is for has moved.
MessageOK(a, type, t) ==
  /\ type = "PrepareDebit" => a = From(t)
  /\ type = "PrepareCredit" => a = To(t)
  /\ type = "Commit" =>
       \/ /\ a = From(t)
          /\ pc[t] \in Committing
          /\ "debit" \notin moved[t]
       \/ /\ a = To(t)
          /\ pc[t] \in Committing \ {"commitFrom"}
          /\ "credit" \notin moved[t]

MessageInv ==
  \A a \in Accounts : \A m \in mailbox[a] : MessageOK(a, m.type, m.transfer)

\* An account holds a lock only for its own side of a transfer, and has voted.
PreparedInv ==
  \A a \in Accounts : \A t \in Transfers :
    /\ prepared[a][t] = "debit" => a = From(t) /\ "debit" \in voted[t]
    /\ prepared[a][t] = "credit" => a = To(t) /\ "credit" \in voted[t]

\* Each place of the handler knows the votes it has passed.
VoteInv ==
  \A t \in Transfers :
    /\ pc[t] = "prepareFrom" /\ reply[t] = "yes" => "debit" \in voted[t]
    /\ pc[t] = "prepareTo" => "debit" \in voted[t]
    /\ pc[t] = "prepareTo" /\ reply[t] = "yes" => "credit" \in voted[t]
    /\ pc[t] \in Committing => voted[t] = Sides

\* Nothing moves before the decision, and the destination not before its turn.
MovedInv ==
  \A t \in Transfers :
    /\ pc[t] \notin Committing => moved[t] = {}
    /\ pc[t] = "commitFrom" => "credit" \notin moved[t]

AnswerInv ==
  \A t \in Transfers :
    /\ answer[t] = "none" <=> pc[t] = "idle"
    /\ answer[t] = "completed" => pc[t] = "committed"
    /\ answer[t] = "failed" => pc[t] = "aborted"

RowInv ==
  \A t \in Transfers :
    /\ pc[t] \in {"idle", "starting"} => transferRow[t] = "none"
    /\ pc[t] \in {"locating", "persisting"} => transferRow[t] = "preparing"
    /\ pc[t] \in Waiting \cup {"finishing"} => transferRow[t] = "prepared"
    /\ pc[t] = "committed" => transferRow[t] \in {"prepared", "committed"}
    /\ pc[t] = "aborted" => transferRow[t] # "committed"

IInv ==
  /\ TypeOK
  /\ MessageInv
  /\ PreparedInv
  /\ VoteInv
  /\ MovedInv
  /\ AnswerInv
  /\ RowInv

(***************************************************************************)
(* Type correctness.                                                       *)
(***************************************************************************)
LEMMA PreStartType ==
  ASSUME TypeOK, NEW S \in SUBSET Accounts, PreStart(S)
  PROVE  /\ status' \in [Accounts -> {"absent", "running", "stopped"}]
         /\ balance' \in [Accounts -> Int]
         /\ createdAt' \in [Accounts -> BOOLEAN]
         /\ prepared' \in [Accounts -> [Transfers -> {"no"} \cup Sides]]
  BY DEF TypeOK, PreStart, GetAccountState, Rows

LEMMA InitType == Init => TypeOK
  BY AmountsAssumption DEF Init, TypeOK, NoRow, Rows, PCs, Requests

Replies == {"none", "yes", "no", "ack", "error"}
Statuses == {"none", "preparing", "prepared", "committed", "aborted"}
Answers == {"none", "waiting", "completed", "failed", "error"}

LEMMA GotoType ==
  ASSUME TypeOK, NEW t \in Transfers, NEW label \in PCs, Goto(t, label)
  PROVE  pc' \in [Transfers -> PCs] /\ reply' \in [Transfers -> Replies]
  BY DEF TypeOK, Goto, Replies

LEMMA SendType ==
  ASSUME TypeOK, NEW a \in Accounts, NEW t \in Transfers,
         NEW type \in PrepareTypes \cup {"Commit"}, Send(a, type, t)
  PROVE  mailbox' \in [Accounts -> SUBSET Messages]
  <1>1. [type |-> type, transfer |-> t] \in Messages
    BY DEF Messages
  <1> QED
    BY <1>1 DEF TypeOK, Send

LEMMA AbortType ==
  ASSUME TypeOK, NEW t \in Transfers, abortTransfer(t)
  PROVE  /\ pc' \in [Transfers -> PCs]
         /\ reply' \in [Transfers -> Replies]
         /\ transferRow' \in [Transfers -> Statuses]
         /\ answer' \in [Transfers -> Answers]
  <1>1. "aborted" \in PCs
    BY DEF PCs, Ended
  <1> QED
    BY <1>1, GotoType
       DEF TypeOK, abortTransfer, WriteTransferState, Response, Statuses, Answers

LEMMA FaultType ==
  ASSUME TypeOK, Fault PROVE faults' \in Nat
  BY DEF TypeOK, Fault

LEMMA RequestType ==
  ASSUME TypeOK, NEW t \in Transfers
  PROVE  /\ From(t) \in Accounts /\ To(t) \in Accounts
         /\ From(t) # To(t)
         /\ request[t].amount \in Nat
  BY AmountsAssumption DEF TypeOK, Requests, From, To

LEMMA PreparedType ==
  ASSUME TypeOK, NEW a \in Accounts, NEW t \in Transfers,
         NEW s \in {"no"} \cup Sides
  PROVE  [prepared EXCEPT ![a][t] = s]
           \in [Accounts -> [Transfers -> {"no"} \cup Sides]]
  <1>1. [prepared[a] EXCEPT ![t] = s] \in [Transfers -> {"no"} \cup Sides]
    BY DEF TypeOK
  <1> QED
    BY <1>1 DEF TypeOK

USE DEF accountVars, coordVars, storeVars, histVars

\* Every step keeps the types.
LEMMA NextType == TypeOK /\ [Next]_vars => TypeOK'
<1> SUFFICES ASSUME TypeOK, [Next]_vars PROVE TypeOK'
  OBVIOUS
<1> USE DEF Replies, Statuses, Answers
<1>labels. /\ {"idle", "starting", "locating", "persisting"} \subseteq PCs
           /\ {"finishing", "committed", "aborted"} \subseteq PCs
           /\ {"prepareFrom", "prepareTo", "commitFrom", "commitTo"} \subseteq PCs
  BY DEF PCs, Waiting, Ended
<1>types. {"PrepareDebit", "PrepareCredit"} = PrepareTypes
  BY DEF PrepareTypes
<1>1. ASSUME NEW t \in Transfers, CreateTransfer(t) PROVE TypeOK'
  BY <1>1, <1>labels, GotoType DEF TypeOK, CreateTransfer
<1>2. ASSUME NEW t \in Transfers, ClientTimeout(t) PROVE TypeOK'
  BY <1>2, FaultType DEF TypeOK, ClientTimeout
<1>3. ASSUME NEW t \in Transfers, CrashCoordinator(t) PROVE TypeOK'
  BY <1>3, FaultType DEF TypeOK, CrashCoordinator
<1>4. ASSUME NEW t \in Transfers, WritePreparing(t) PROVE TypeOK'
  <2>1. CASE WriteTransferState(t, "preparing") /\ Goto(t, "locating")
               /\ UNCHANGED <<answer, faults>>
    BY <1>4, <2>1, <1>labels, GotoType
       DEF TypeOK, WritePreparing, WriteTransferState
  <2>2. CASE /\ Fault /\ Goto(t, "aborted") /\ Response(t, "failed")
             /\ UNCHANGED transferRow
    BY <1>4, <2>2, <1>labels, GotoType, FaultType
       DEF TypeOK, WritePreparing, Response
  <2> QED
    BY <1>4, <2>1, <2>2 DEF WritePreparing
<1>5. ASSUME NEW t \in Transfers, LocateAccounts(t) PROVE TypeOK'
  <2> PICK found \in {{}, {From(t)}, {From(t), To(t)}} :
        /\ PreStart(found)
        /\ \/ /\ Goto(t, "persisting")
              /\ UNCHANGED <<transferRow, answer, faults>>
           \/ Fault /\ abortTransfer(t)
    BY <1>5 DEF LocateAccounts
  <2>1. found \in SUBSET Accounts
    BY RequestType
  <2>2. CASE Goto(t, "persisting") /\ UNCHANGED <<transferRow, answer, faults>>
    BY <1>5, <2>1, <2>2, <1>labels, PreStartType, GotoType
       DEF TypeOK, LocateAccounts
  <2>3. CASE Fault /\ abortTransfer(t)
    BY <1>5, <2>1, <2>3, PreStartType, AbortType, FaultType
       DEF TypeOK, LocateAccounts
  <2> QED
    BY <2>2, <2>3
<1>6. ASSUME NEW t \in Transfers, WritePrepared(t) PROVE TypeOK'
  <2>1. CASE /\ WriteTransferState(t, "prepared")
             /\ Send(From(t), "PrepareDebit", t)
             /\ Goto(t, "prepareFrom")
             /\ UNCHANGED <<answer, faults>>
    BY <1>6, <2>1, <1>labels, <1>types, GotoType, SendType, RequestType
       DEF TypeOK, WritePrepared, WriteTransferState
  <2>2. CASE Fault /\ abortTransfer(t) /\ UNCHANGED mailbox
    BY <1>6, <2>2, AbortType, FaultType DEF TypeOK, WritePrepared
  <2> QED
    BY <1>6, <2>1, <2>2 DEF WritePrepared
<1>7. ASSUME NEW t \in Transfers, AskTimeout(t) PROVE TypeOK'
  BY <1>7, FaultType DEF TypeOK, AskTimeout
<1>8. ASSUME NEW t \in Transfers, SourceVoted(t) PROVE TypeOK'
  <2>1. CASE /\ Send(To(t), "PrepareCredit", t)
             /\ Goto(t, "prepareTo")
             /\ UNCHANGED <<transferRow, answer>>
    BY <1>8, <2>1, <1>labels, <1>types, GotoType, SendType, RequestType
       DEF TypeOK, SourceVoted
  <2>2. CASE abortTransfer(t) /\ UNCHANGED mailbox
    BY <1>8, <2>2, AbortType DEF TypeOK, SourceVoted
  <2> QED
    BY <1>8, <2>1, <2>2 DEF SourceVoted
<1>9. ASSUME NEW t \in Transfers, DestinationVoted(t) PROVE TypeOK'
  <2>1. CASE /\ Send(From(t), "Commit", t)
             /\ Goto(t, "commitFrom")
             /\ UNCHANGED <<transferRow, answer>>
    BY <1>9, <2>1, <1>labels, GotoType, SendType, RequestType
       DEF TypeOK, DestinationVoted
  <2>2. CASE abortTransfer(t) /\ UNCHANGED mailbox
    BY <1>9, <2>2, AbortType DEF TypeOK, DestinationVoted
  <2> QED
    BY <1>9, <2>1, <2>2 DEF DestinationVoted
<1>10. ASSUME NEW t \in Transfers, SourceCommitted(t) PROVE TypeOK'
  BY <1>10, <1>labels, GotoType, SendType, RequestType
     DEF TypeOK, SourceCommitted
<1>11. ASSUME NEW t \in Transfers, DestinationCommitted(t) PROVE TypeOK'
  BY <1>11, <1>labels, GotoType DEF TypeOK, DestinationCommitted
<1>12. ASSUME NEW t \in Transfers, WriteCommitted(t) PROVE TypeOK'
  <2>1. answer' \in [Transfers -> Answers]
    BY <1>12 DEF TypeOK, WriteCommitted, Response
  <2>2. transferRow' \in [Transfers -> Statuses] /\ faults' \in Nat
    BY <1>12, FaultType DEF TypeOK, WriteCommitted, WriteTransferState
  <2> QED
    BY <1>12, <2>1, <2>2, <1>labels, GotoType DEF TypeOK, WriteCommitted
<1>13. ASSUME NEW a \in Accounts, NEW m \in mailbox[a],
              handlePrepareTransfer(a, m)
       PROVE  TypeOK'
  <2>1. m.transfer \in Transfers /\ mailbox' \in [Accounts -> SUBSET Messages]
    BY <1>13 DEF TypeOK, handlePrepareTransfer, Messages
  <2>2. reply' \in [Transfers -> Replies]
    BY <1>13, <2>1 DEF TypeOK, handlePrepareTransfer, ReplyTo
  <2>3. prepared' \in [Accounts -> [Transfers -> {"no"} \cup Sides]]
    <3> DEFINE t == m.transfer
               side == IF m.type = "PrepareDebit" THEN "debit" ELSE "credit"
    <3>1. \/ prepared' = prepared
          \/ prepared' = [prepared EXCEPT ![a][t] = side]
      BY <1>13 DEF handlePrepareTransfer
    <3>2. side \in {"no"} \cup Sides
      BY DEF Sides
    <3>3. [prepared EXCEPT ![a][t] = side]
            \in [Accounts -> [Transfers -> {"no"} \cup Sides]]
      <4> HIDE DEF side
      <4> QED  BY <2>1, <3>2, PreparedType
    <3> HIDE DEF side
    <3> QED
      BY <3>1, <3>3 DEF TypeOK
  <2>4. voted' \in [Transfers -> SUBSET Sides]
    BY <1>13, <2>1, SMTT(30) DEF TypeOK, handlePrepareTransfer, Sides
  <2> QED
    BY <1>13, <2>1, <2>2, <2>3, <2>4 DEF TypeOK, handlePrepareTransfer
<1>14. ASSUME NEW a \in Accounts, NEW m \in mailbox[a],
              handleCommitTransfer(a, m)
       PROVE  TypeOK'
  <2>1. m.transfer \in Transfers /\ mailbox' \in [Accounts -> SUBSET Messages]
    BY <1>14 DEF TypeOK, handleCommitTransfer, Messages
  <2>2. reply' \in [Transfers -> Replies]
    BY <1>14, <2>1 DEF TypeOK, handleCommitTransfer, ReplyTo
  <2>3. prepared' \in [Accounts -> [Transfers -> {"no"} \cup Sides]]
    <3>1. \/ prepared' = prepared
          \/ prepared' = [prepared EXCEPT ![a][m.transfer] = "no"]
      BY <1>14 DEF handleCommitTransfer
    <3>2. [prepared EXCEPT ![a][m.transfer] = "no"]
            \in [Accounts -> [Transfers -> {"no"} \cup Sides]]
      BY <2>1, PreparedType
    <3> QED
      BY <3>1, <3>2 DEF TypeOK
  <2>5. moved' \in [Transfers -> SUBSET Sides]
    BY <1>14, <2>1 DEF TypeOK, handleCommitTransfer
  <2>4. balance' \in [Accounts -> Int]
    BY <1>14, <2>1, RequestType DEF TypeOK, handleCommitTransfer
  <2> QED
    BY <1>14, <2>1, <2>2, <2>3, <2>4, <2>5 DEF TypeOK, handleCommitTransfer
<1>15. ASSUME NEW a \in Accounts, NEW m \in mailbox[a], Lose(a, m)
       PROVE  TypeOK'
  BY <1>15, FaultType DEF TypeOK, Lose, Messages
<1>16. ASSUME NEW a \in Accounts, NEW amount \in Openings,
              CreateAccount(a, amount)
       PROVE  TypeOK'
  BY <1>16, OpeningsAssumption DEF TypeOK, CreateAccount
<1>17. ASSUME NEW a \in Accounts, PostStop(a) PROVE TypeOK'
  <2>1. ToNumeric(balance[a], Cent) \in Int
    BY CentAssumption, NumericTwice DEF TypeOK
  <2> QED
    BY <1>17, <2>1, FaultType DEF TypeOK, PostStop, Leave, WriteAccountState, Rows
<1>18. ASSUME NEW a \in Accounts, CrashAccount(a) PROVE TypeOK'
  BY <1>18, FaultType DEF TypeOK, CrashAccount, Leave
<1>19. ASSUME NEW a \in Accounts, Relocate(a) PROVE TypeOK'
  BY <1>19, PreStartType DEF TypeOK, Relocate
<1>20. CASE UNCHANGED vars
  BY <1>20 DEF TypeOK, vars
<1> QED
  BY <1>1, <1>2, <1>3, <1>4, <1>5, <1>6, <1>7, <1>8, <1>9, <1>10, <1>11,
     <1>12, <1>13, <1>14, <1>15, <1>16, <1>17, <1>18, <1>19, <1>20
     DEF Next, CoordinatorStep, AccountStep, Receive

\* Type correctness of the whole system.
THEOREM TypeCorrect == Spec => []TypeOK
  BY InitType, NextType, PTL DEF Spec

(***************************************************************************)
(* What a step of a coordinator other than a timeout does to the control   *)
(* state.                                                                  *)
(***************************************************************************)
CoordinatorMove(t) ==
  \/ CreateTransfer(t) \/ WritePreparing(t) \/ LocateAccounts(t)
  \/ WritePrepared(t) \/ SourceVoted(t) \/ DestinationVoted(t)
  \/ SourceCommitted(t) \/ DestinationCommitted(t) \/ WriteCommitted(t)

LEMMA GotoEffect ==
  ASSUME TypeOK, NEW t \in Transfers, NEW label, Goto(t, label)
  PROVE  /\ pc'[t] = label /\ reply'[t] = "none"
         /\ \A u \in Transfers \ {t} : pc'[u] = pc[u] /\ reply'[u] = reply[u]
  BY DEF TypeOK, Goto

LEMMA SendEffect ==
  ASSUME TypeOK, NEW a \in Accounts, NEW t \in Transfers, NEW type,
         Send(a, type, t)
  PROVE  \A b \in Accounts : \A m \in mailbox'[b] :
           m \in mailbox[b] \/ (b = a /\ m.type = type /\ m.transfer = t)
  BY DEF TypeOK, Send

\* A step of t leaves the other coordinators alone, commits are entered only
\* from YES votes and never left.
LEMMA ControlFlow ==
  ASSUME TypeOK, NEW t \in Transfers, CoordinatorMove(t)
  PROVE  /\ \A u \in Transfers \ {t} : pc'[u] = pc[u] /\ reply'[u] = reply[u]
         /\ reply'[t] = "none" /\ pc'[t] # "idle"
         /\ pc'[t] = "prepareTo" => pc[t] = "prepareFrom" /\ reply[t] = "yes"
         /\ pc'[t] = "commitFrom" => pc[t] = "prepareTo" /\ reply[t] = "yes"
         /\ pc'[t] \in Committing \ {"commitFrom"} <=> pc[t] \in Committing
         /\ UNCHANGED <<voted, moved, request>>
<1> USE DEF Committing, At, abortTransfer
<1>1. CASE CreateTransfer(t)  BY <1>1, GotoEffect DEF CreateTransfer
<1>2. CASE WritePreparing(t)  BY <1>2, GotoEffect DEF WritePreparing
<1>3. CASE LocateAccounts(t)  BY <1>3, GotoEffect DEF LocateAccounts
<1>4. CASE WritePrepared(t)  BY <1>4, GotoEffect DEF WritePrepared
<1>5. CASE SourceVoted(t)  BY <1>5, GotoEffect DEF SourceVoted
<1>6. CASE DestinationVoted(t)  BY <1>6, GotoEffect DEF DestinationVoted
<1>7. CASE SourceCommitted(t)  BY <1>7, GotoEffect DEF SourceCommitted
<1>8. CASE DestinationCommitted(t)  BY <1>8, GotoEffect DEF DestinationCommitted
<1>9. CASE WriteCommitted(t)  BY <1>9, GotoEffect DEF WriteCommitted
<1> QED
  BY <1>1, <1>2, <1>3, <1>4, <1>5, <1>6, <1>7, <1>8, <1>9 DEF CoordinatorMove

LEMMA MessageType ==
  ASSUME TypeOK, NEW a \in Accounts, NEW m \in mailbox[a]
  PROVE  m.transfer \in Transfers
  BY DEF TypeOK, Messages


\* A message kept by a step of a coordinator stays in order.
LEMMA MessageKept ==
  ASSUME TypeOK, MessageInv, NEW u \in Transfers, CoordinatorMove(u),
         NEW a \in Accounts, NEW m \in mailbox[a]
  PROVE  MessageOK(a, m.type, m.transfer)'
<1>1. MessageOK(a, m.type, m.transfer) /\ m.transfer \in Transfers
  BY MessageType DEF MessageInv
<1> QED
  BY <1>1, ControlFlow DEF MessageOK, From, To, Committing

\* A mailbox never holds a misplaced message or an early Commit.
LEMMA MessageStep ==
  ASSUME IInv, [Next]_vars PROVE MessageInv'
<1> USE DEF IInv
<1>1. ASSUME NEW t \in Transfers, CoordinatorMove(t) PROVE MessageInv'
  <2> SUFFICES ASSUME NEW a \in Accounts, NEW m \in mailbox'[a]
               PROVE  MessageOK(a, m.type, m.transfer)'
    BY DEF MessageInv
  <2>1. CASE m \in mailbox[a]
    BY <1>1, <2>1, MessageKept
  <2>2. CASE m \notin mailbox[a]
    <3>1. \/ /\ WritePrepared(t) /\ Send(From(t), "PrepareDebit", t)
          \/ /\ SourceVoted(t) /\ Send(To(t), "PrepareCredit", t)
          \/ /\ DestinationVoted(t) /\ Send(From(t), "Commit", t)
             /\ Goto(t, "commitFrom")
          \/ /\ SourceCommitted(t) /\ Send(To(t), "Commit", t)
             /\ Goto(t, "commitTo")
      BY <1>1, <2>2
         DEF CoordinatorMove, CreateTransfer, WritePreparing, LocateAccounts,
             WritePrepared, SourceVoted, DestinationVoted, SourceCommitted,
             DestinationCommitted, WriteCommitted
    <3>2. From(t) \in Accounts /\ To(t) \in Accounts /\ From(t) # To(t)
      BY RequestType
    <3>3. From(t)' = From(t) /\ To(t)' = To(t) /\ moved' = moved
      BY <1>1, ControlFlow DEF From, To
    <3>4. CASE WritePrepared(t) /\ Send(From(t), "PrepareDebit", t)
      BY <2>2, <3>2, <3>3, <3>4, SendEffect DEF MessageOK, From, To
    <3>5. CASE SourceVoted(t) /\ Send(To(t), "PrepareCredit", t)
      BY <2>2, <3>2, <3>3, <3>5, SendEffect DEF MessageOK, From, To
    <3>6. CASE /\ DestinationVoted(t) /\ Send(From(t), "Commit", t)
               /\ Goto(t, "commitFrom")
      <4>1. a = From(t) /\ m.type = "Commit" /\ m.transfer = t
        BY <2>2, <3>2, <3>6, SendEffect
      <4>2. pc'[t] = "commitFrom" /\ moved[t] = {}
        BY <3>6, GotoEffect DEF DestinationVoted, At, MovedInv, Committing
      <4> QED
        BY <4>1, <4>2, <3>3 DEF MessageOK, Committing, From, To
    <3>7. CASE /\ SourceCommitted(t) /\ Send(To(t), "Commit", t)
               /\ Goto(t, "commitTo")
      <4>1. a = To(t) /\ m.type = "Commit" /\ m.transfer = t
        BY <2>2, <3>2, <3>7, SendEffect
      <4>2. pc'[t] = "commitTo" /\ "credit" \notin moved[t]
        BY <3>7, GotoEffect DEF SourceCommitted, At, MovedInv
      <4> QED
        BY <4>1, <4>2, <3>3 DEF MessageOK, Committing, From, To
    <3> QED
      BY <3>1, <3>4, <3>5, <3>6, <3>7
  <2> QED
    BY <2>1, <2>2
<1>2. ASSUME NEW a \in Accounts, NEW m \in mailbox[a],
             handleCommitTransfer(a, m)
      PROVE  MessageInv'
  <2> DEFINE t == m.transfer
  <2>1. t \in Transfers /\ From(t) # To(t)
    BY MessageType, RequestType
  <2>2. MessageOK(a, "Commit", t)
    BY <1>2 DEF handleCommitTransfer, MessageInv
  <2> SUFFICES ASSUME NEW b \in Accounts, NEW n \in mailbox'[b]
               PROVE  MessageOK(b, n.type, n.transfer)'
    BY DEF MessageInv
  <2>3. n \in mailbox[b] /\ (b = a => n # m)
    BY <1>2 DEF handleCommitTransfer, TypeOK
  <2>4. MessageOK(b, n.type, n.transfer) /\ n.transfer \in Transfers
    BY <2>3, MessageType DEF MessageInv
  <2>5. UNCHANGED <<pc, request>>
    BY <1>2 DEF handleCommitTransfer
  <2>6. CASE n.transfer # t
    <3>1. moved'[n.transfer] = moved[n.transfer]
      BY <1>2, <2>1, <2>4, <2>6 DEF handleCommitTransfer, TypeOK
    <3> QED
      BY <2>4, <2>5, <3>1 DEF MessageOK, From, To
  <2>7. CASE n.transfer = t /\ n.type # "Commit"
    BY <2>4, <2>5, <2>7 DEF MessageOK, From, To
  <2>8. CASE n.transfer = t /\ n.type = "Commit"
    <3>1. b # a
      <4>1. m \in Messages /\ n \in Messages
        BY <2>3 DEF TypeOK
      <4>2. m.type = "Commit"
        BY <1>2 DEF handleCommitTransfer
      <4>3. n = m
        BY <4>1, <4>2, <2>8 DEF Messages
      <4> QED
        BY <2>3, <4>3
    <3>2. \A s \in Sides : s \in moved'[t] =>
             s \in moved[t] \/ s = prepared[a][t]
      BY <1>2, <2>1 DEF handleCommitTransfer, TypeOK, Sides
    <3>3. \/ a = From(t) /\ b = To(t) /\ prepared[a][t] # "credit"
          \/ a = To(t) /\ b = From(t) /\ prepared[a][t] # "debit"
      BY <2>1, <2>2, <2>4, <2>8, <3>1 DEF MessageOK, PreparedInv
    <3> QED
      BY <2>1, <2>4, <2>5, <2>8, <3>2, <3>3 DEF MessageOK, Sides, From, To
  <2> QED
    BY <2>6, <2>7, <2>8
<1>3. ASSUME UNCHANGED <<pc, moved, request>>,
             \A a \in Accounts : mailbox'[a] \subseteq mailbox[a]
      PROVE  MessageInv'
  BY <1>3 DEF MessageInv, MessageOK, From, To
<1>4. ASSUME NEW a \in Accounts, NEW m \in mailbox[a],
             handlePrepareTransfer(a, m) \/ Lose(a, m)
      PROVE  MessageInv'
  <2>1. \A b \in Accounts : mailbox'[b] \subseteq mailbox[b]
    BY <1>4 DEF handlePrepareTransfer, Lose, TypeOK
  <2> QED
    BY <1>3, <1>4, <2>1 DEF handlePrepareTransfer, Lose
<1>5. ASSUME NEW a \in Accounts, Leave(a) PROVE MessageInv'
  <2>1. \A b \in Accounts : mailbox'[b] \subseteq mailbox[b]
    BY <1>5 DEF Leave, TypeOK
  <2> QED
    BY <1>3, <1>5, <2>1 DEF Leave
<1> QED
  BY <1>1, <1>2, <1>3, <1>4, <1>5
     DEF Next, CoordinatorStep, AccountStep, Receive, CoordinatorMove,
         ClientTimeout, CrashCoordinator, AskTimeout, CreateAccount, PostStop,
         CrashAccount, Relocate, vars

\* A lock belongs to the account's own side, which has voted.
LEMMA PreparedStep ==
  ASSUME IInv, [Next]_vars PROVE PreparedInv'
<1> USE DEF IInv
<1>1. ASSUME NEW S \in SUBSET Accounts, PreStart(S), UNCHANGED <<voted, request>>
      PROVE  PreparedInv'
  BY <1>1 DEF PreStart, PreparedInv, TypeOK, From, To
<1>2. ASSUME NEW a \in Accounts, NEW m \in mailbox[a],
             handlePrepareTransfer(a, m)
      PROVE  PreparedInv'
  <2> DEFINE t == m.transfer
             side == IF m.type = "PrepareDebit" THEN "debit" ELSE "credit"
  <2>1. t \in Transfers /\ MessageOK(a, m.type, t)
    BY MessageType DEF MessageInv
  <2>2. m.type \in PrepareTypes /\ request' = request
    BY <1>2 DEF handlePrepareTransfer
  <2>3. \/ prepared' = prepared /\ voted' = voted
        \/ /\ prepared' = prepared \/ prepared' = [prepared EXCEPT ![a][t] = side]
           /\ voted' = [voted EXCEPT ![t] = @ \cup {side}]
    BY <1>2 DEF handlePrepareTransfer
  <2>4. \A u \in Transfers : voted[u] \subseteq voted'[u]
    BY <2>3 DEF TypeOK
  <2> SUFFICES ASSUME NEW b \in Accounts, NEW u \in Transfers
               PROVE  (PreparedInv!(b)!(u))'
    BY DEF PreparedInv
  <2>5. CASE prepared'[b][u] = prepared[b][u]
    BY <2>2, <2>4, <2>5 DEF PreparedInv, From, To
  <2>6. CASE prepared'[b][u] # prepared[b][u]
    <3>1. /\ b = a /\ u = t /\ prepared'[b][u] = side
          /\ side \in voted'[t]
      BY <2>1, <2>3, <2>6 DEF TypeOK
    <3> QED
      BY <2>1, <2>2, <3>1 DEF MessageOK, PrepareTypes, From, To
  <2> QED
    BY <2>5, <2>6
<1>3. ASSUME NEW a \in Accounts, NEW m \in mailbox[a],
             handleCommitTransfer(a, m)
      PROVE  PreparedInv'
  <2>1. m.transfer \in Transfers
    BY MessageType
  <2>2. /\ UNCHANGED <<voted, request>>
        /\ \/ prepared' = prepared
           \/ prepared' = [prepared EXCEPT ![a][m.transfer] = "no"]
    BY <1>3 DEF handleCommitTransfer
  <2>3. \A b \in Accounts : \A u \in Transfers :
           prepared'[b][u] \in {"no", prepared[b][u]}
    BY <2>1, <2>2 DEF TypeOK
  <2> QED
    BY <2>2, <2>3 DEF PreparedInv, From, To
<1>4. ASSUME NEW a \in Accounts, Leave(a) PROVE PreparedInv'
  <2>1. \A b \in Accounts : \A u \in Transfers :
           prepared'[b][u] \in {"no", prepared[b][u]}
    BY <1>4 DEF Leave, TypeOK
  <2> QED
    BY <1>4, <2>1 DEF Leave, PreparedInv, From, To
<1>5. CASE UNCHANGED <<prepared, voted, request>>
  BY <1>5 DEF PreparedInv, From, To
<1>6. ASSUME NEW t \in Transfers, LocateAccounts(t) PROVE PreparedInv'
  BY <1>1, <1>6, RequestType DEF LocateAccounts
<1>7. ASSUME NEW a \in Accounts, Relocate(a) PROVE PreparedInv'
  BY <1>1, <1>7 DEF Relocate
<1> QED
  BY <1>2, <1>3, <1>4, <1>5, <1>6, <1>7
     DEF Next, CoordinatorStep, AccountStep, Receive, CreateTransfer,
         WritePreparing, WritePrepared, SourceVoted, DestinationVoted,
         SourceCommitted, DestinationCommitted, WriteCommitted,
         ClientTimeout, CrashCoordinator, AskTimeout, CreateAccount, PostStop,
         CrashAccount, Lose, vars

\* The votes behind each place of the handler are never taken back.
LEMMA VoteStep ==
  ASSUME IInv, [Next]_vars PROVE VoteInv'
<1> USE DEF IInv, Sides
<1>1. ASSUME NEW t \in Transfers, CoordinatorMove(t) PROVE VoteInv'
  <2> SUFFICES ASSUME NEW u \in Transfers PROVE (VoteInv!(u))'
    BY DEF VoteInv
  <2>1. CASE u # t
    BY <1>1, <2>1, ControlFlow DEF VoteInv
  <2>2. CASE u = t
    <3>1. pc'[t] \in Committing => pc[t] \in Committing \/ pc'[t] = "commitFrom"
      BY <1>1, ControlFlow
    <3>2. pc'[t] \in Committing => voted[t] = Sides
      BY <1>1, <3>1, ControlFlow DEF VoteInv, TypeOK
    <3> QED
      BY <1>1, <2>2, <3>2, ControlFlow DEF VoteInv
  <2> QED
    BY <2>1, <2>2
<1>2. ASSUME NEW a \in Accounts, NEW m \in mailbox[a],
             handlePrepareTransfer(a, m)
      PROVE  VoteInv'
  <2> DEFINE t == m.transfer
             side == IF m.type = "PrepareDebit" THEN "debit" ELSE "credit"
             waitsAt == IF m.type = "PrepareDebit"
                        THEN "prepareFrom" ELSE "prepareTo"
  <2>1. t \in Transfers
    BY MessageType
  <2>2. pc' = pc
    BY <1>2 DEF handlePrepareTransfer
  <2>3. \A u \in Transfers : voted[u] \subseteq voted'[u] /\ voted'[u] \subseteq Sides
    <3>1. voted' = voted \/ voted' = [voted EXCEPT ![t] = @ \cup {side}]
      BY <1>2 DEF handlePrepareTransfer
    <3> QED
      BY <2>1, <3>1 DEF TypeOK
  <2>4. \A u \in Transfers : reply'[u] = "yes" =>
          reply[u] = "yes" \/ (u = t /\ pc[u] = waitsAt /\ side \in voted'[t])
    BY <1>2, <2>1 DEF handlePrepareTransfer, ReplyTo, TypeOK
  <2> QED
    BY <2>2, <2>3, <2>4 DEF VoteInv
<1>3. ASSUME UNCHANGED <<pc, voted>>,
             \A u \in Transfers : reply'[u] = "yes" => reply[u] = "yes"
      PROVE  VoteInv'
  BY <1>3 DEF VoteInv
<1>4. ASSUME NEW a \in Accounts, NEW m \in mailbox[a],
             handleCommitTransfer(a, m)
      PROVE  VoteInv'
  <2>1. \A u \in Transfers : reply'[u] = "yes" => reply[u] = "yes"
    BY <1>4, MessageType DEF handleCommitTransfer, ReplyTo, TypeOK
  <2> QED
    BY <1>3, <1>4, <2>1 DEF handleCommitTransfer
<1>5. ASSUME NEW t \in Transfers, AskTimeout(t) PROVE VoteInv'
  <2>1. \A u \in Transfers : reply'[u] = "yes" => reply[u] = "yes"
    BY <1>5 DEF AskTimeout, TypeOK
  <2> QED
    BY <1>3, <1>5, <2>1 DEF AskTimeout
<1>6. CASE UNCHANGED <<pc, reply, voted>>
  BY <1>6 DEF VoteInv
<1> QED
  BY <1>1, <1>2, <1>4, <1>5, <1>6
     DEF Next, CoordinatorStep, AccountStep, Receive, CoordinatorMove,
         ClientTimeout, CrashCoordinator, CreateAccount, PostStop,
         CrashAccount, Leave, Relocate, Lose, vars

\* The balance of a side changes only in its turn.
LEMMA MovedStep ==
  ASSUME IInv, [Next]_vars PROVE MovedInv'
<1> USE DEF IInv
<1>1. ASSUME NEW t \in Transfers, CoordinatorMove(t) PROVE MovedInv'
  BY <1>1, ControlFlow DEF MovedInv, Committing
<1>2. ASSUME NEW a \in Accounts, NEW m \in mailbox[a],
             handleCommitTransfer(a, m)
      PROVE  MovedInv'
  <2> DEFINE t == m.transfer
  <2>1. t \in Transfers /\ From(t) # To(t) /\ pc' = pc
    BY <1>2, MessageType, RequestType DEF handleCommitTransfer
  <2>2. MessageOK(a, "Commit", t)
    BY <1>2 DEF handleCommitTransfer, MessageInv
  <2>3. \A u \in Transfers \ {t} : moved'[u] = moved[u]
    BY <1>2, <2>1 DEF handleCommitTransfer, TypeOK
  <2>4. pc[t] \in Committing
    BY <2>2 DEF MessageOK
  <2>5. pc[t] = "commitFrom" => "credit" \notin moved'[t]
    <3> HAVE pc[t] = "commitFrom"
    <3>1. a = From(t) /\ prepared[a][t] # "credit"
      BY <2>1, <2>2 DEF MessageOK, PreparedInv
    <3> QED
      BY <1>2, <2>1, <3>1 DEF handleCommitTransfer, TypeOK, MovedInv
  <2> QED
    BY <2>1, <2>3, <2>4, <2>5 DEF MovedInv
<1>3. CASE UNCHANGED <<pc, moved>>
  BY <1>3 DEF MovedInv
<1> QED
  BY <1>1, <1>2, <1>3, ZenonT(60)
     DEF Next, CoordinatorStep, AccountStep, Receive, CoordinatorMove,
         handlePrepareTransfer, ClientTimeout, CrashCoordinator, AskTimeout,
         CreateAccount, PostStop, CrashAccount, Leave, Relocate, Lose, vars

LEMMA ResponseEffect ==
  ASSUME TypeOK, NEW t \in Transfers, NEW r, Response(t, r)
  PROVE  /\ answer'[t] = IF answer[t] = "waiting" THEN r ELSE answer[t]
         /\ \A u \in Transfers \ {t} : answer'[u] = answer[u]
  BY DEF TypeOK, Response

\* The client hears of an outcome only when the handler has reached it, and
\* the stored status follows the handler.
\* Accounts change neither the place of a handler, nor a stored status, nor an
\* answer.
LEMMA AccountFrame ==
  ASSUME NEW a \in Accounts, AccountStep(a)
  PROVE  UNCHANGED <<pc, answer, transferRow>>
<1>1. CASE Receive(a)
  BY <1>1 DEF Receive, handlePrepareTransfer, handleCommitTransfer
<1>2. CASE \E m \in mailbox[a] : Lose(a, m)
  BY <1>2 DEF Lose
<1>3. CASE \E amount \in Openings : CreateAccount(a, amount)
  BY <1>3 DEF CreateAccount
<1>4. CASE PostStop(a) \/ CrashAccount(a) \/ Relocate(a)
  BY <1>4 DEF PostStop, CrashAccount, Leave, Relocate
<1> QED
  BY <1>1, <1>2, <1>3, <1>4 DEF AccountStep

LEMMA AnswerRowStep ==
  ASSUME IInv, [Next]_vars PROVE AnswerInv' /\ RowInv'
<1> USE DEF IInv, At, Waiting
<1>1. ASSUME NEW t \in Transfers, NEW label,
             Goto(t, label), label # "idle", pc[t] # "idle",
             pc[t] \notin Ended,
             UNCHANGED answer
      PROVE  AnswerInv'
  BY <1>1, GotoEffect DEF AnswerInv, Ended
<1>2. ASSUME NEW t \in Transfers, NEW s, WriteTransferState(t, s)
      PROVE  /\ transferRow'[t] = s
             /\ \A u \in Transfers \ {t} : transferRow'[u] = transferRow[u]
  BY <1>2 DEF WriteTransferState, TypeOK
<1>3. ASSUME NEW t \in Transfers, abortTransfer(t), pc[t] # "idle",
             pc[t] \notin Ended
      PROVE  AnswerInv' /\ RowInv'
  <2>1. AnswerInv'
    BY <1>3, GotoEffect, ResponseEffect DEF abortTransfer, AnswerInv, Ended
  <2>2. transferRow[t] # "committed"
    BY <1>3 DEF RowInv, TypeOK, PCs, Ended
  <2>3. RowInv'
    BY <1>2, <1>3, <2>2, GotoEffect DEF abortTransfer, RowInv
  <2> QED
    BY <2>1, <2>3
<1>4. ASSUME NEW t \in Transfers, CreateTransfer(t) PROVE AnswerInv' /\ RowInv'
  <2>1. AnswerInv'
    BY <1>4, GotoEffect DEF CreateTransfer, AnswerInv, TypeOK
  <2>2. RowInv'
    BY <1>4, GotoEffect DEF CreateTransfer, RowInv
  <2> QED
    BY <2>1, <2>2
<1>5. ASSUME NEW t \in Transfers, WritePreparing(t) PROVE AnswerInv' /\ RowInv'
  <2>1. CASE WriteTransferState(t, "preparing") /\ Goto(t, "locating")
               /\ UNCHANGED answer
    BY <1>1, <1>2, <1>5, <2>1, GotoEffect DEF WritePreparing, RowInv, Ended
  <2>2. CASE Goto(t, "aborted") /\ Response(t, "failed")
               /\ UNCHANGED transferRow
    <3>1. AnswerInv'
      BY <1>5, <2>2, GotoEffect, ResponseEffect DEF WritePreparing, AnswerInv
    <3>2. RowInv'
      BY <1>5, <2>2, GotoEffect DEF WritePreparing, RowInv
    <3> QED
      BY <3>1, <3>2
  <2> QED
    BY <1>5, <2>1, <2>2 DEF WritePreparing
<1>6. ASSUME NEW t \in Transfers, LocateAccounts(t) PROVE AnswerInv' /\ RowInv'
  <2>1. CASE Goto(t, "persisting") /\ UNCHANGED <<transferRow, answer>>
    BY <1>1, <1>6, <2>1, GotoEffect DEF LocateAccounts, RowInv, Ended
  <2> QED
    BY <1>3, <1>6, <2>1 DEF LocateAccounts, Ended
<1>7. ASSUME NEW t \in Transfers, WritePrepared(t) PROVE AnswerInv' /\ RowInv'
  <2>1. CASE WriteTransferState(t, "prepared") /\ Goto(t, "prepareFrom")
               /\ UNCHANGED answer
    BY <1>1, <1>2, <1>7, <2>1, GotoEffect DEF WritePrepared, RowInv, Ended
  <2> QED
    BY <1>3, <1>7, <2>1 DEF WritePrepared, Ended
<1>8. ASSUME NEW t \in Transfers, SourceVoted(t) PROVE AnswerInv' /\ RowInv'
  <2>1. CASE Goto(t, "prepareTo") /\ UNCHANGED <<transferRow, answer>>
    BY <1>1, <1>8, <2>1, GotoEffect DEF SourceVoted, RowInv, Ended
  <2> QED
    BY <1>3, <1>8, <2>1 DEF SourceVoted, Ended
<1>9. ASSUME NEW t \in Transfers, DestinationVoted(t)
      PROVE  AnswerInv' /\ RowInv'
  <2>1. CASE Goto(t, "commitFrom") /\ UNCHANGED <<transferRow, answer>>
    BY <1>1, <1>9, <2>1, GotoEffect DEF DestinationVoted, RowInv, Ended
  <2> QED
    BY <1>3, <1>9, <2>1 DEF DestinationVoted, Ended
<1>10. ASSUME NEW t \in Transfers, SourceCommitted(t)
       PROVE  AnswerInv' /\ RowInv'
  BY <1>1, <1>10, GotoEffect DEF SourceCommitted, RowInv, Ended
<1>11. ASSUME NEW t \in Transfers, DestinationCommitted(t)
       PROVE  AnswerInv' /\ RowInv'
  BY <1>1, <1>11, GotoEffect DEF DestinationCommitted, RowInv, Ended
<1>12. ASSUME NEW t \in Transfers, WriteCommitted(t)
       PROVE  AnswerInv' /\ RowInv'
  <2>1. AnswerInv'
    BY <1>12, GotoEffect, ResponseEffect DEF WriteCommitted, AnswerInv
  <2>2. RowInv'
    BY <1>2, <1>12, GotoEffect DEF WriteCommitted, RowInv
  <2> QED
    BY <2>1, <2>2
<1>13. ASSUME NEW t \in Transfers, ClientTimeout(t)
       PROVE  AnswerInv' /\ RowInv'
  BY <1>13 DEF ClientTimeout, AnswerInv, RowInv, TypeOK
<1>14. ASSUME UNCHANGED <<pc, answer, transferRow>>
       PROVE  AnswerInv' /\ RowInv'
  BY <1>14 DEF AnswerInv, RowInv
<1>15. ASSUME NEW a \in Accounts, AccountStep(a)
       PROVE  UNCHANGED <<pc, answer, transferRow>>
  BY <1>15, AccountFrame
<1>16. ASSUME NEW t \in Transfers, CrashCoordinator(t) \/ AskTimeout(t)
       PROVE  UNCHANGED <<pc, answer, transferRow>>
  BY <1>16 DEF CrashCoordinator, AskTimeout
<1>17. ASSUME UNCHANGED vars
       PROVE  UNCHANGED <<pc, answer, transferRow>>
  BY <1>17 DEF vars
<1> HIDE DEF IInv, At, Waiting
<1> QED
  BY <1>4, <1>5, <1>6, <1>7, <1>8, <1>9, <1>10, <1>11, <1>12, <1>13, <1>14,
     <1>15, <1>16, <1>17
     DEF Next, CoordinatorStep

LEMMA InitInv == Init => IInv
<1> SUFFICES ASSUME Init PROVE IInv
  OBVIOUS
<1>1. TypeOK
  BY InitType
<1>2. MessageInv /\ PreparedInv
  BY DEF Init, MessageInv, PreparedInv
<1>3. VoteInv /\ MovedInv /\ AnswerInv /\ RowInv
  BY DEF Init, VoteInv, MovedInv, AnswerInv, RowInv, Committing, Waiting
<1> QED
  BY <1>1, <1>2, <1>3 DEF IInv

LEMMA NextInv == IInv /\ [Next]_vars => IInv'
  BY NextType, MessageStep, PreparedStep, VoteStep, MovedStep, AnswerRowStep
     DEF IInv

\* The inductive invariant holds of every behaviour of the coordinators and
\* accounts.
THEOREM Invariance == Spec => []IInv
  BY InitInv, NextInv, PTL DEF Spec

(***************************************************************************)
(* Refinement.                                                             *)
(***************************************************************************)
LEMMA RefineInit == Init => Abstract!Init
  BY DEF Init, Abstract!Init, decision, Committing

\* How the decision follows the control state.
LEMMA DecisionEffect ==
  ASSUME TypeOK, NEW t \in Transfers, NEW label, Goto(t, label),
         NEW d, d = IF label \in Committing THEN "commit"
                    ELSE IF label = "aborted" THEN "abort" ELSE "undecided"
  PROVE  decision' = [decision EXCEPT ![t] = d]
<1>1. /\ pc'[t] = label
      /\ \A u \in Transfers \ {t} : pc'[u] = pc[u]
  BY GotoEffect
<1>2. ASSUME NEW u \in Transfers
      PROVE  decision'[u] = IF u = t THEN d ELSE decision[u]
  BY <1>1, <1>2 DEF decision
<1>3. decision' = [u \in Transfers |-> decision'[u]]
  BY DEF decision
<1>4. [decision EXCEPT ![t] = d]
        = [u \in Transfers |-> IF u = t THEN d ELSE decision[u]]
  BY DEF decision
<1> HIDE DEF decision
<1> QED
  BY <1>2, <1>3, <1>4

LEMMA SameDecision ==
  ASSUME TypeOK, NEW t \in Transfers, NEW label, Goto(t, label),
         pc[t] \in Committing <=> label \in Committing,
         pc[t] # "aborted", label # "aborted"
  PROVE  decision' = decision
  BY GotoEffect DEF decision

\* abortTransfer is the abstract Abort.
LEMMA RefineAbort ==
  ASSUME TypeOK, NEW t \in Transfers, Goto(t, "aborted"), Response(t, "failed"),
         pc[t] \notin Committing \cup {"aborted"}, UNCHANGED <<voted, moved>>
  PROVE  Abstract!Abort(t)
<1>1. decision[t] = "undecided"
  BY DEF decision
<1>2. decision' = [decision EXCEPT ![t] = "abort"]
  BY DecisionEffect DEF Committing
<1> QED
  BY <1>1, <1>2 DEF Abstract!Abort, Response

\* Every step of the actors is a step of AtomicTransfer or changes nothing
\* there.
LEMMA RefineStep ==
  ASSUME IInv, [Next]_vars PROVE [Abstract!Next]_(Abstract!vars)
<1> USE DEF IInv
<1> DEFINE Stutter == UNCHANGED Abstract!vars
<1>0. ASSUME UNCHANGED <<voted, moved, answer>>, decision' = decision
      PROVE  Stutter
  BY <1>0 DEF Abstract!vars
<1>1. ASSUME UNCHANGED <<pc, voted, moved, answer>> PROVE Stutter
  BY <1>0, <1>1 DEF decision
<1>2. ASSUME NEW t \in Transfers, NEW label, Goto(t, label),
             pc[t] \in Committing <=> label \in Committing,
             pc[t] # "aborted", label # "aborted",
             UNCHANGED <<voted, moved, answer>>
      PROVE  Stutter
  BY <1>0, <1>2, SameDecision
<1>3. ASSUME NEW t \in Transfers, CreateTransfer(t) PROVE Abstract!Request(t)
  <2>1. answer[t] = "none" /\ decision' = decision
    BY <1>3, SameDecision DEF CreateTransfer, AnswerInv, Committing
  <2> QED
    BY <1>3, <2>1 DEF CreateTransfer, Abstract!Request
<1>4. ASSUME NEW t \in Transfers, ClientTimeout(t) PROVE Abstract!GiveUp(t)
  BY <1>4 DEF ClientTimeout, Abstract!GiveUp, decision
<1>5. ASSUME NEW t \in Transfers, WritePreparing(t)
      PROVE  Abstract!Abort(t) \/ Stutter
  <2>1. CASE Goto(t, "locating") /\ UNCHANGED answer
    BY <1>2, <1>5, <2>1 DEF WritePreparing, At, Committing
  <2>2. CASE Goto(t, "aborted") /\ Response(t, "failed")
    BY <1>5, <2>2, RefineAbort DEF WritePreparing, At, Committing
  <2> QED
    BY <1>5, <2>1, <2>2 DEF WritePreparing
<1>6. ASSUME NEW t \in Transfers, abortTransfer(t),
             pc[t] \notin Committing \cup {"aborted"}, UNCHANGED <<voted, moved>>
      PROVE  Abstract!Abort(t)
  BY <1>6, RefineAbort DEF abortTransfer
<1>7. ASSUME NEW t \in Transfers, LocateAccounts(t)
      PROVE  Abstract!Abort(t) \/ Stutter
  <2>1. CASE Goto(t, "persisting") /\ UNCHANGED answer
    BY <1>2, <1>7, <2>1 DEF LocateAccounts, At, Committing
  <2> QED
    BY <1>6, <1>7, <2>1 DEF LocateAccounts, At, Committing
<1>8. ASSUME NEW t \in Transfers, WritePrepared(t)
      PROVE  Abstract!Abort(t) \/ Stutter
  <2>1. CASE Goto(t, "prepareFrom") /\ UNCHANGED answer
    BY <1>2, <1>8, <2>1 DEF WritePrepared, At, Committing
  <2> QED
    BY <1>6, <1>8, <2>1 DEF WritePrepared, At, Committing
<1>9. ASSUME NEW t \in Transfers, SourceVoted(t)
      PROVE  Abstract!Abort(t) \/ Stutter
  <2>1. CASE Goto(t, "prepareTo") /\ UNCHANGED answer
    BY <1>2, <1>9, <2>1 DEF SourceVoted, At, Committing
  <2> QED
    BY <1>6, <1>9, <2>1 DEF SourceVoted, At, Committing
<1>10. ASSUME NEW t \in Transfers, DestinationVoted(t)
       PROVE  Abstract!Abort(t) \/ Abstract!Commit(t)
  <2>1. CASE /\ reply[t] = "yes" /\ Goto(t, "commitFrom")
             /\ UNCHANGED answer
    <3>1. decision[t] = "undecided"
      BY <1>10 DEF DestinationVoted, At, decision, Committing
    <3>2. decision' = [decision EXCEPT ![t] = "commit"]
      BY <2>1, DecisionEffect DEF Committing
    <3>3. voted[t] = Abstract!Sides
      BY <1>10, <2>1
         DEF DestinationVoted, At, VoteInv, TypeOK, Sides, Abstract!Sides
    <3> QED
      BY <1>10, <2>1, <3>1, <3>2, <3>3 DEF DestinationVoted, Abstract!Commit
  <2> QED
    BY <1>6, <1>10, <2>1 DEF DestinationVoted, At, Committing
<1>11. ASSUME NEW t \in Transfers,
              SourceCommitted(t) \/ DestinationCommitted(t)
       PROVE  Stutter
  BY <1>2, <1>11 DEF SourceCommitted, DestinationCommitted, At, Committing
<1>12. ASSUME NEW t \in Transfers, WriteCommitted(t)
       PROVE  Abstract!Complete(t) \/ Stutter
  <2>1. decision' = decision /\ decision[t] = "commit"
    BY <1>12, SameDecision DEF WriteCommitted, At, Committing, decision
  <2>2. CASE answer[t] = "waiting"
    BY <1>12, <2>1, <2>2 DEF WriteCommitted, Response, Abstract!Complete
  <2>3. CASE answer[t] # "waiting"
    <3>1. answer' = answer
      BY <1>12, <2>3 DEF WriteCommitted, Response, TypeOK
    <3> QED
      BY <1>0, <1>12, <2>1, <3>1 DEF WriteCommitted
  <2> QED
    BY <2>2, <2>3
<1>13. ASSUME NEW a \in Accounts, NEW m \in mailbox[a],
              handlePrepareTransfer(a, m)
       PROVE  (\E s \in Abstract!Sides : Abstract!Vote(m.transfer, s)) \/ Stutter
  <2> DEFINE t == m.transfer
             side == IF m.type = "PrepareDebit" THEN "debit" ELSE "credit"
  <2>1. voted' = voted \/ voted' = [voted EXCEPT ![t] = @ \cup {side}]
    BY <1>13 DEF handlePrepareTransfer
  <2>2. UNCHANGED <<pc, moved, answer>> /\ decision' = decision
    BY <1>13 DEF handlePrepareTransfer, decision
  <2>3. side \in Abstract!Sides /\ t \in Transfers
    BY MessageType DEF Abstract!Sides
  <2>4. CASE voted' # voted
    <3>1. voted' = [voted EXCEPT ![t] = @ \cup {side}]
      BY <2>1, <2>4
    <3>2. side \notin voted[t]
      BY <2>3, <2>4, <3>1 DEF TypeOK
    <3> QED
      BY <2>2, <2>3, <3>1, <3>2 DEF Abstract!Vote
  <2> QED
    BY <1>0, <2>2, <2>4
<1>14. ASSUME NEW a \in Accounts, NEW m \in mailbox[a],
              handleCommitTransfer(a, m)
       PROVE  (\E s \in Abstract!Sides : Abstract!Move(m.transfer, s)) \/ Stutter
  <2> DEFINE t == m.transfer
             side == prepared[a][t]
  <2>1. t \in Transfers /\ From(t) # To(t)
    BY MessageType, RequestType
  <2>2. UNCHANGED <<pc, voted, answer>> /\ decision' = decision
    BY <1>14 DEF handleCommitTransfer, decision
  <2>3. CASE side = "no"
    BY <1>0, <1>14, <2>2, <2>3 DEF handleCommitTransfer
  <2>4. CASE side # "no"
    <3>1. MessageOK(a, "Commit", t)
      BY <1>14 DEF handleCommitTransfer, MessageInv
    <3>2. decision[t] = "commit"
      BY <2>1, <3>1 DEF MessageOK, decision
    <3>3. side \in {"debit", "credit"}
      BY <2>1, <2>4 DEF TypeOK, Sides
    <3>4. side \in voted[t] \ moved[t]
      BY <2>1, <3>1, <3>3 DEF MessageOK, PreparedInv
    <3>5. moved' = [moved EXCEPT ![t] = @ \cup {side}]
      BY <1>14, <2>4 DEF handleCommitTransfer
    <3> QED
      BY <2>2, <3>2, <3>3, <3>4, <3>5 DEF Abstract!Move, Abstract!Sides
  <2> QED
    BY <2>3, <2>4
<1>15. ASSUME \/ \E t \in Transfers : CrashCoordinator(t) \/ AskTimeout(t)
              \/ \E a \in Accounts : \E m \in mailbox[a] : Lose(a, m)
              \/ \E a \in Accounts : \E amount \in Openings :
                   CreateAccount(a, amount)
              \/ \E a \in Accounts : PostStop(a) \/ CrashAccount(a) \/ Relocate(a)
              \/ UNCHANGED vars
       PROVE  Stutter
  <2>1. UNCHANGED <<pc, voted, moved, answer>>
    BY <1>15 DEF CrashCoordinator, AskTimeout, Lose, CreateAccount, PostStop,
                 CrashAccount, Leave, Relocate, vars
  <2> QED
    BY <1>1, <2>1
<1>16. ASSUME NEW t \in Transfers,
              \/ Abstract!Request(t) \/ Abstract!Commit(t) \/ Abstract!Abort(t)
              \/ Abstract!Complete(t) \/ Abstract!GiveUp(t)
       PROVE  Abstract!Next
  BY <1>16 DEF Abstract!Next
<1>17. ASSUME NEW t \in Transfers, NEW s \in Abstract!Sides,
              Abstract!Vote(t, s) \/ Abstract!Move(t, s)
       PROVE  Abstract!Next
  BY <1>17 DEF Abstract!Next
<1>18. ASSUME NEW a \in Accounts, Receive(a) PROVE Abstract!Next \/ Stutter
  BY <1>13, <1>14, <1>17, <1>18, MessageType DEF Receive
<1>19. ASSUME NEW t \in Transfers,
              CoordinatorStep(t) \/ CreateTransfer(t) \/ ClientTimeout(t)
                \/ CrashCoordinator(t)
       PROVE  Abstract!Next \/ Stutter
  BY <1>3, <1>4, <1>5, <1>7, <1>8, <1>9, <1>10, <1>11, <1>12, <1>15, <1>16,
     <1>19
     DEF CoordinatorStep
<1> HIDE DEF Stutter
<1>20. Abstract!Next \/ Stutter
  BY <1>15, <1>18, <1>19 DEF Next, AccountStep
<1> QED
  BY <1>20 DEF Stutter

\* The actors implement AtomicTransfer, for any number of accounts, transfers
\* and failures.
THEOREM Refinement == Spec => ImplementsAtomicTransfer
<1>1. Init => Abstract!Init
  BY RefineInit
<1>2. IInv /\ [Next]_vars => [Abstract!Next]_(Abstract!vars)
  BY RefineStep
<1> QED
  BY <1>1, <1>2, Invariance, PTL DEF Spec, ImplementsAtomicTransfer, Abstract!Spec

(***************************************************************************)
(* The stored status.                                                      *)
(***************************************************************************)

\* No report of GET /transfers names another outcome than POST /transfers
\* answered, whichever of the reads and writes failed and whether or not the
\* coordinator is found (GetTransfer, handleGetTransferStatus).
THEOREM StatusAgreement == Spec => []StatusAgreesWithAnswer
<1>1. IInv => StatusAgreesWithAnswer
  <2> SUFFICES ASSUME IInv, NEW t \in Transfers, NEW report \in GetTransfer(t)
               PROVE  /\ answer[t] = "failed" => report # "committed"
                      /\ answer[t] = "completed" =>
                           report \notin {"preparing", "aborted"}
                      /\ report = "committed" => voted[t] = Sides
    BY DEF StatusAgreesWithAnswer
  <2>1. transferRow[t] = "committed" => pc[t] = "committed"
    BY DEF IInv, RowInv, TypeOK, PCs, Waiting, Ended
  <2>2. \/ report \in {"not_found", "error", "unknown"}
        \/ report = transferRow[t]
    BY DEF GetTransfer, handleGetTransferStatus
  <2>3. CASE report = transferRow[t]
    BY <2>1, <2>3 DEF IInv, AnswerInv, RowInv, VoteInv, Committing
  <2> QED
    BY <2>2, <2>3
<1> QED
  BY <1>1, Invariance, PTL

\* Every write of the status column follows the place of the handler that
\* makes it, and RowInv says what the column holds there.
LEMMA ForwardStep ==
  ASSUME IInv, [Next]_vars PROVE \A u \in Transfers : StatusForward(u)
<1> USE DEF IInv, At, Waiting
<1>1. ASSUME NEW t \in Transfers, NEW s, WriteTransferState(t, s)
      PROVE  /\ transferRow'[t] = s
             /\ \A u \in Transfers \ {t} : transferRow'[u] = transferRow[u]
  BY <1>1 DEF WriteTransferState, TypeOK
<1>2. ASSUME NEW t \in Transfers, abortTransfer(t),
             pc[t] \in {"locating", "persisting"} \cup Waiting
      PROVE  \A u \in Transfers : StatusForward(u)
  BY <1>1, <1>2 DEF abortTransfer, RowInv, StatusForward
<1>3. ASSUME NEW t \in Transfers, WritePreparing(t)
      PROVE  \A u \in Transfers : StatusForward(u)
  BY <1>1, <1>3 DEF WritePreparing, RowInv, StatusForward
<1>4. ASSUME NEW t \in Transfers, LocateAccounts(t)
      PROVE  \A u \in Transfers : StatusForward(u)
  BY <1>2, <1>4 DEF LocateAccounts, StatusForward
<1>5. ASSUME NEW t \in Transfers, WritePrepared(t)
      PROVE  \A u \in Transfers : StatusForward(u)
  <2>1. CASE WriteTransferState(t, "prepared")
    BY <1>1, <1>5, <2>1 DEF WritePrepared, RowInv, StatusForward
  <2> QED
    BY <1>2, <1>5, <2>1 DEF WritePrepared
<1>6. ASSUME NEW t \in Transfers, SourceVoted(t) \/ DestinationVoted(t)
      PROVE  \A u \in Transfers : StatusForward(u)
  BY <1>2, <1>6 DEF SourceVoted, DestinationVoted, StatusForward
<1>7. ASSUME NEW t \in Transfers, WriteCommitted(t)
      PROVE  \A u \in Transfers : StatusForward(u)
  BY <1>1, <1>7 DEF WriteCommitted, RowInv, StatusForward
<1>8. ASSUME UNCHANGED transferRow
      PROVE  \A u \in Transfers : StatusForward(u)
  BY <1>8 DEF StatusForward
<1>9. ASSUME NEW t \in Transfers,
             \/ SourceCommitted(t) \/ DestinationCommitted(t) \/ AskTimeout(t)
             \/ CreateTransfer(t) \/ ClientTimeout(t) \/ CrashCoordinator(t)
      PROVE  UNCHANGED transferRow
  BY <1>9 DEF SourceCommitted, DestinationCommitted, AskTimeout, CreateTransfer,
     ClientTimeout, CrashCoordinator, storeVars
<1>10. ASSUME NEW a \in Accounts, AccountStep(a)
       PROVE  UNCHANGED transferRow
  BY <1>10, AccountFrame
<1>11. ASSUME UNCHANGED vars
       PROVE  UNCHANGED transferRow
  BY <1>11 DEF vars, storeVars
<1> HIDE DEF IInv, At, Waiting
<1> QED
  BY <1>3, <1>4, <1>5, <1>6, <1>7, <1>8, <1>9, <1>10, <1>11
     DEF Next, CoordinatorStep

\* The status column only goes forward, whatever fails.
THEOREM StatusOnlyForward == Spec => StoredStatusForward
<1>1. IInv /\ [Next]_vars => [\A t \in Transfers : StatusForward(t)]_vars
  BY ForwardStep
<1> QED
  BY <1>1, Invariance, PTL DEF Spec, StoredStatusForward

(***************************************************************************)
(* Atomicity of an undisturbed transfer.                                   *)
(***************************************************************************)

\* While a transfer is undisturbed its two accounts keep running from the time
\* they were located, a YES vote is a lock that stands, and the reply to a
\* Commit says that the side has moved.
AtomicOK(t) ==
  t \notin disturbed =>
    /\ pc[t] \in {"persisting"} \cup Waiting =>
         status[From(t)] = "running" /\ status[To(t)] = "running"
    /\ pc[t] \in Waiting => reply[t] # "error"
    /\ pc[t] \in {"commitFrom", "commitTo"} => reply[t] \in {"none", "ack"}
    /\ (pc[t] = "prepareFrom" /\ reply[t] = "yes") \/ pc[t] = "prepareTo"
         \/ (pc[t] = "commitFrom" /\ reply[t] = "none") =>
         prepared[From(t)][t] = "debit"
    /\ (pc[t] = "prepareTo" /\ reply[t] = "yes") \/ pc[t] = "commitFrom"
         \/ (pc[t] = "commitTo" /\ reply[t] = "none") =>
         prepared[To(t)][t] = "credit"
    /\ (pc[t] = "commitFrom" /\ reply[t] = "ack") \/ pc[t] = "commitTo" =>
         "debit" \in moved[t]
    /\ pc[t] = "commitTo" /\ reply[t] = "ack" => "credit" \in moved[t]
    /\ pc[t] \in {"finishing", "committed"} => moved[t] = Sides

AtomicInv == \A t \in Transfers : AtomicOK(t)

\* A step of another transfer, or of an account that stays, keeps what is known
\* of an undisturbed transfer.
Untouched(u) ==
  /\ request'[u] = request[u]
  /\ pc'[u] = pc[u]
  /\ reply'[u] = reply[u]
  /\ moved'[u] = moved[u]
  /\ u \in disturbed => u \in disturbed'
  /\ (u \notin disturbed' /\ pc[u] \in {"persisting"} \cup Waiting) =>
       \A a \in {From(u), To(u)} :
         status[a] = "running" =>
           status'[a] = "running" /\ prepared'[a][u] = prepared[a][u]

LEMMA UntouchedOK ==
  ASSUME NEW u \in Transfers, AtomicOK(u), Untouched(u) PROVE AtomicOK(u)'
  <1>1. From(u)' = From(u) /\ To(u)' = To(u)
    BY DEF Untouched, From, To
  <1> QED
    BY <1>1 DEF Untouched, AtomicOK, Waiting

LEMMA PreStartKeeps ==
  ASSUME TypeOK, NEW S \in SUBSET Accounts, PreStart(S)
  PROVE  /\ \A a \in Accounts : status[a] = "running" =>
              status'[a] = "running" /\ prepared'[a] = prepared[a]
         /\ \A a \in S : status'[a] = "running"
  BY DEF PreStart, TypeOK

LEMMA CoordinatorUntouched ==
  ASSUME TypeOK, NEW t \in Transfers, CoordinatorMove(t),
         NEW u \in Transfers \ {t}
  PROVE  Untouched(u)
<1>1. /\ pc'[u] = pc[u] /\ reply'[u] = reply[u]
      /\ UNCHANGED <<moved, request>>
  BY ControlFlow
<1>2. From(u) \in Accounts /\ To(u) \in Accounts
  BY RequestType
<1>3. CASE LocateAccounts(t)
  <2> PICK found \in {{}, {From(t)}, {From(t), To(t)}} : PreStart(found)
    BY <1>3 DEF LocateAccounts
  <2>1. found \in SUBSET Accounts
    BY RequestType
  <2>2. disturbed' = disturbed
    BY <1>3 DEF LocateAccounts
  <2> QED
    BY <1>1, <1>2, <2>1, <2>2, PreStartKeeps DEF Untouched
<1>4. CASE ~LocateAccounts(t)
  <2>1. UNCHANGED <<status, prepared, disturbed>>
    BY <1>4 DEF CoordinatorMove, CreateTransfer, WritePreparing, WritePrepared,
                SourceVoted, DestinationVoted, SourceCommitted,
                DestinationCommitted, WriteCommitted
  <2> QED
    BY <1>1, <2>1 DEF Untouched
<1> QED
  BY <1>3, <1>4

\* The coordinator's own steps.
LEMMA CoordinatorAtomic ==
  ASSUME IInv, NEW t \in Transfers, CoordinatorMove(t), AtomicOK(t)
  PROVE  AtomicOK(t)'
<1> USE DEF Waiting
<1>0. /\ UNCHANGED <<moved, request>> /\ reply'[t] = "none"
      /\ From(t)' = From(t) /\ To(t)' = To(t)
  BY ControlFlow DEF IInv, From, To
<1>1. CASE pc'[t] \in {"starting", "locating", "aborted"}
  BY <1>1 DEF AtomicOK
<1>2. CASE LocateAccounts(t) /\ pc'[t] = "persisting"
  <2>1. PreStart({From(t), To(t)})
    BY <1>2, GotoEffect DEF LocateAccounts, abortTransfer, IInv
  <2>2. status'[From(t)] = "running" /\ status'[To(t)] = "running"
    BY <2>1, PreStartKeeps, RequestType DEF IInv
  <2> QED
    BY <1>0, <1>2, <2>2 DEF AtomicOK
<1>3. CASE ~LocateAccounts(t) /\ pc'[t] \notin {"starting", "locating", "aborted"}
  <2>1. UNCHANGED <<status, prepared, disturbed>>
    BY <1>3 DEF CoordinatorMove, CreateTransfer, WritePreparing, WritePrepared,
                SourceVoted, DestinationVoted, SourceCommitted,
                DestinationCommitted, WriteCommitted
  <2>2. \/ pc[t] = "persisting" /\ pc'[t] = "prepareFrom"
        \/ pc[t] = "prepareFrom" /\ reply[t] = "yes" /\ pc'[t] = "prepareTo"
        \/ pc[t] = "prepareTo" /\ reply[t] = "yes" /\ pc'[t] = "commitFrom"
        \/ pc[t] = "commitFrom" /\ reply[t] # "none" /\ pc'[t] = "commitTo"
        \/ pc[t] = "commitTo" /\ reply[t] # "none" /\ pc'[t] = "finishing"
        \/ pc[t] = "finishing" /\ pc'[t] = "committed"
    BY <1>3, GotoEffect
       DEF IInv, CoordinatorMove, CreateTransfer, WritePreparing, WritePrepared,
           SourceVoted, DestinationVoted, SourceCommitted, DestinationCommitted,
           WriteCommitted, abortTransfer, At
  <2>3. moved[t] \subseteq Sides
    BY DEF IInv, TypeOK
  <2> QED
    BY <1>0, <2>1, <2>2, <2>3 DEF AtomicOK, Sides
<1>4. LocateAccounts(t) => pc'[t] \in {"persisting", "aborted"}
  BY GotoEffect DEF LocateAccounts, abortTransfer, IInv
<1> QED
  BY <1>1, <1>2, <1>3, <1>4

\* An account that votes: a YES leaves the lock, and the coordinator hears it
\* only while it waits.
LEMMA PrepareAtomic ==
  ASSUME IInv, AtomicInv, NEW a \in Accounts, NEW m \in mailbox[a],
         handlePrepareTransfer(a, m), NEW u \in Transfers
  PROVE  AtomicOK(u)'
<1> DEFINE t == m.transfer
<1> USE DEF Waiting
<1>0. TypeOK /\ MessageInv /\ PreparedInv /\ AtomicOK(u)
  BY DEF IInv, AtomicInv
<1>1. t \in Transfers /\ From(t) # To(t) /\ From(t) \in Accounts /\ To(t) \in Accounts
  BY <1>0, MessageType, RequestType
<1>2. UNCHANGED <<pc, request, moved, disturbed, status>>
  BY DEF handlePrepareTransfer
<1>3. CASE u # t
  <2>1. reply'[u] = reply[u]
    BY <1>0, <1>3 DEF handlePrepareTransfer, ReplyTo, TypeOK
  <2>2. \A b \in Accounts : prepared'[b][u] = prepared[b][u]
    BY <1>0, <1>1, <1>3 DEF handlePrepareTransfer, TypeOK
  <2>3. From(u) \in Accounts /\ To(u) \in Accounts
    BY <1>0, RequestType
  <2>4. Untouched(u)
    BY <1>2, <2>1, <2>2, <2>3 DEF Untouched
  <2> QED
    BY <1>0, <2>4, UntouchedOK
<1>4. CASE u = t
  <2>1. CASE m.type = "PrepareDebit"
    <3>1. a = From(t)
      BY <1>0, <2>1 DEF MessageInv, MessageOK
    <3>2. prepared'[To(t)][t] = prepared[To(t)][t]
      BY <1>0, <1>1, <3>1 DEF handlePrepareTransfer, TypeOK
    <3>3. prepared[a][t] \in {"no", "debit"}
      BY <1>0, <1>1, <3>1 DEF PreparedInv, TypeOK, Sides
    <3>4. \/ /\ prepared'[a][t] = prepared[a][t]
             /\ reply'[t] \in {"no", reply[t]}
          \/ /\ prepared'[a][t] = "debit"
             /\ reply'[t] \in {"yes", reply[t]}
      BY <1>0, <1>1, <2>1, <3>3 DEF handlePrepareTransfer, ReplyTo, TypeOK
    <3>5. reply'[t] # reply[t] => pc[t] = "prepareFrom"
      BY <2>1 DEF handlePrepareTransfer, ReplyTo
    <3>6. From(t)' = From(t) /\ To(t)' = To(t)
      BY <1>2 DEF From, To
    <3> QED
      BY <1>0, <1>2, <1>4, <3>1, <3>2, <3>4, <3>5, <3>6 DEF AtomicOK
  <2>2. CASE m.type = "PrepareCredit"
    <3>1. a = To(t)
      BY <1>0, <2>2 DEF MessageInv, MessageOK
    <3>2. prepared'[From(t)][t] = prepared[From(t)][t]
      BY <1>0, <1>1, <3>1 DEF handlePrepareTransfer, TypeOK
    <3>3. prepared[a][t] \in {"no", "credit"}
      BY <1>0, <1>1, <3>1 DEF PreparedInv, TypeOK, Sides
    <3>4. \/ /\ prepared'[a][t] = prepared[a][t]
             /\ reply'[t] \in {"no", reply[t]}
          \/ /\ prepared'[a][t] = "credit"
             /\ reply'[t] \in {"yes", reply[t]}
      BY <1>0, <1>1, <2>2, <3>3 DEF handlePrepareTransfer, ReplyTo, TypeOK
    <3>5. reply'[t] # reply[t] => pc[t] = "prepareTo"
      BY <2>2 DEF handlePrepareTransfer, ReplyTo
    <3>6. From(t)' = From(t) /\ To(t)' = To(t)
      BY <1>2 DEF From, To
    <3> QED
      BY <1>0, <1>2, <1>4, <3>1, <3>2, <3>4, <3>5, <3>6 DEF AtomicOK
  <2> QED
    BY <2>1, <2>2 DEF handlePrepareTransfer, PrepareTypes
<1> QED
  BY <1>3, <1>4

\* An account that commits: the lock of an undisturbed transfer is there, so
\* its side moves.
LEMMA CommitAtomic ==
  ASSUME IInv, AtomicInv, NEW a \in Accounts, NEW m \in mailbox[a],
         handleCommitTransfer(a, m), NEW u \in Transfers
  PROVE  AtomicOK(u)'
<1> DEFINE t == m.transfer
<1> USE DEF Waiting
<1>0. TypeOK /\ MessageInv /\ PreparedInv /\ AtomicOK(u)
  BY DEF IInv, AtomicInv
<1>1. t \in Transfers /\ From(t) # To(t) /\ From(t) \in Accounts /\ To(t) \in Accounts
  BY <1>0, MessageType, RequestType
<1>2. UNCHANGED <<pc, request, disturbed, status>>
  BY DEF handleCommitTransfer
<1>3. CASE u # t
  <2>1. reply'[u] = reply[u] /\ moved'[u] = moved[u]
    BY <1>0, <1>3 DEF handleCommitTransfer, ReplyTo, TypeOK
  <2>2. \A b \in Accounts : prepared'[b][u] = prepared[b][u]
    BY <1>0, <1>1, <1>3 DEF handleCommitTransfer, TypeOK
  <2>3. From(u) \in Accounts /\ To(u) \in Accounts
    BY <1>0, RequestType
  <2>4. Untouched(u)
    BY <1>2, <2>1, <2>2, <2>3 DEF Untouched
  <2> QED
    BY <1>0, <2>4, UntouchedOK
<1>4. CASE u = t
  <2>1. MessageOK(a, "Commit", t)
    BY <1>0 DEF handleCommitTransfer, MessageInv
  <2>2. From(t)' = From(t) /\ To(t)' = To(t)
    BY <1>2 DEF From, To
  <2>3. moved[t] \subseteq Sides /\ prepared[a][t] \in {"no"} \cup Sides
    BY <1>0, <1>1 DEF TypeOK
  <2>m. moved'[t] = IF prepared[a][t] = "no" THEN moved[t]
                    ELSE moved[t] \cup {prepared[a][t]}
    BY <1>0, <1>1 DEF handleCommitTransfer, TypeOK
  <2>4. \A b \in Accounts \ {a} : prepared'[b][t] = prepared[b][t]
    BY <1>0, <1>1 DEF handleCommitTransfer, TypeOK
  <2>5. CASE a = From(t)
    <3>1. reply'[t] = IF pc[t] = "commitFrom" /\ reply[t] = "none"
                      THEN "ack" ELSE reply[t]
      BY <1>0, <1>1, <2>5 DEF handleCommitTransfer, ReplyTo, TypeOK
    <3>2. pc[t] \in Committing /\ "debit" \notin moved[t]
      BY <1>1, <2>1, <2>5 DEF MessageOK
    <3> QED
      BY <1>0, <1>1, <1>2, <1>4, <2>2, <2>3, <2>m, <2>4, <2>5, <3>1,
         <3>2
         DEF AtomicOK, Committing, Sides
  <2>6. CASE a = To(t)
    <3>1. reply'[t] = IF pc[t] = "commitTo" /\ reply[t] = "none"
                      THEN "ack" ELSE reply[t]
      BY <1>0, <1>1, <2>6 DEF handleCommitTransfer, ReplyTo, TypeOK
    <3>2. pc[t] \in Committing \ {"commitFrom"} /\ "credit" \notin moved[t]
      BY <1>1, <2>1, <2>6 DEF MessageOK
    <3> QED
      BY <1>0, <1>1, <1>2, <1>4, <2>2, <2>3, <2>m, <2>4, <2>6, <3>1,
         <3>2
         DEF AtomicOK, Committing, Sides
  <2> QED
    BY <2>1, <2>5, <2>6 DEF MessageOK
<1> QED
  BY <1>3, <1>4

LEMMA AtomicStep ==
  ASSUME IInv, AtomicInv, [Next]_vars PROVE AtomicInv'
<1> SUFFICES ASSUME NEW u \in Transfers PROVE AtomicOK(u)'
  BY DEF AtomicInv
<1>0. AtomicOK(u) /\ TypeOK /\ From(u) \in Accounts /\ To(u) \in Accounts
  BY RequestType DEF IInv, AtomicInv
<1>1. ASSUME NEW t \in Transfers, CoordinatorMove(t) PROVE AtomicOK(u)'
  BY <1>0, <1>1, CoordinatorAtomic, CoordinatorUntouched, UntouchedOK
<1>2. ASSUME NEW a \in Accounts, NEW m \in mailbox[a],
             handlePrepareTransfer(a, m) \/ handleCommitTransfer(a, m)
      PROVE  AtomicOK(u)'
  BY <1>2, PrepareAtomic, CommitAtomic
<1>3. ASSUME NEW t \in Transfers, AskTimeout(t) PROVE AtomicOK(u)'
  <2>1. CASE u = t
    BY <1>3, <2>1 DEF AskTimeout, AtomicOK
  <2>2. CASE u # t
    <3>1. Untouched(u)
      BY <1>0, <1>3, <2>2 DEF AskTimeout, Untouched, TypeOK
    <3> QED
      BY <1>0, <3>1, UntouchedOK
  <2> QED
    BY <2>1, <2>2
<1>4. ASSUME NEW t \in Transfers, ClientTimeout(t) \/ CrashCoordinator(t)
      PROVE  AtomicOK(u)'
  <2>1. Untouched(u)
    BY <1>4 DEF ClientTimeout, CrashCoordinator, Untouched
  <2> QED
    BY <1>0, <2>1, UntouchedOK
<1>5. ASSUME NEW a \in Accounts, Leave(a) PROVE AtomicOK(u)'
  <2>1. Untouched(u)
    BY <1>0, <1>5 DEF Leave, Untouched, TypeOK, Ended, Waiting
  <2> QED
    BY <1>0, <2>1, UntouchedOK
<1>6. ASSUME NEW a \in Accounts, Relocate(a) PROVE AtomicOK(u)'
  <2>1. Untouched(u)
    BY <1>0, <1>6, PreStartKeeps DEF Relocate, Untouched
  <2> QED
    BY <1>0, <2>1, UntouchedOK
<1>7. ASSUME NEW a \in Accounts, NEW m \in mailbox[a], Lose(a, m)
      PROVE  AtomicOK(u)'
  <2>1. Untouched(u)
    BY <1>7 DEF Lose, Untouched
  <2> QED
    BY <1>0, <2>1, UntouchedOK
<1>8. ASSUME NEW a \in Accounts, NEW amount \in Openings, CreateAccount(a, amount)
      PROVE  AtomicOK(u)'
  <2>1. Untouched(u)
    BY <1>0, <1>8 DEF CreateAccount, Untouched, TypeOK
  <2> QED
    BY <1>0, <2>1, UntouchedOK
<1>9. CASE UNCHANGED vars
  <2>1. Untouched(u)
    BY <1>9 DEF vars, Untouched
  <2> QED
    BY <1>0, <2>1, UntouchedOK
<1> QED
  BY <1>1, <1>2, <1>3, <1>4, <1>5, <1>6, <1>7, <1>8, <1>9
     DEF Next, CoordinatorStep, CoordinatorMove, AccountStep, Receive, PostStop,
         CrashAccount

\* A transfer none of whose Asks failed and none of whose accounts stopped has
\* moved on both sides when it is committed and on none when it is aborted
\* (handleStartTransfer, handlePrepareTransfer, handleCommitTransfer).
THEOREM UndisturbedAtomic == Spec => []UndisturbedIsAtomic
<1>1. Init => IInv /\ AtomicInv
  <2>1. Init => AtomicInv
    BY DEF Init, AtomicInv, AtomicOK, Waiting
  <2> QED
    BY <2>1, InitInv
<1>2. (IInv /\ AtomicInv) /\ [Next]_vars => (IInv /\ AtomicInv)'
  BY NextInv, AtomicStep
<1>3. IInv /\ AtomicInv => UndisturbedIsAtomic
  BY DEF IInv, MovedInv, AtomicInv, AtomicOK, UndisturbedIsAtomic, Committing
<1> QED
  BY <1>1, <1>2, <1>3, PTL DEF Spec
=============================================================================
