----------------------------- MODULE MCServices -----------------------------
(***************************************************************************)
(* The account services and the chat, one at a time: a behaviour is one of *)
(* a deployed account program, or of the chat, whose variables are idle    *)
(* otherwise.                                                              *)
(***************************************************************************)
EXTENDS AccountService

CONSTANTS
  Addresses, Flags, Rooms, maxHistorySize, MaxJoins, MaxMessages, MaxMail,
  general, dev   \* rooms of the instance that TLC checks

VARIABLES
  part,
  clients, history, mailbox, user, greeting, keyboard, room, exiting, said, shown,
  since, stray, starts, joins, messages, disturbed

\* A process is started with a codec and a room; what else greeting, keyboard
\* and room may be is no room.
ASSUME ChatAssumption ==
  /\ Flags \in Seq([codec : {"proto", "cbor"}, room : Rooms])
  /\ Rooms \cap {"", "none", "sent", "reading", "ended"} = {}
  /\ maxHistorySize \in Nat

\* Two processes, one with each codec.
TwoClients ==
  <<[codec |-> "proto", room |-> general], [codec |-> "cbor", room |-> general]>>

Chat == INSTANCE ChatRooms WITH told <- shown

chatVars == <<clients, history, mailbox, user, greeting, keyboard, room, exiting, said,
              shown, since, stray, starts, joins, messages, disturbed>>
allVars == <<part, vars, chatVars>>

MCInit ==
  /\ Init /\ Chat!Init
  /\ \/ part = "accounts"
     \/ part = "chat" /\ program = "dnssd"

\* The chat may stop once both processes have ended and all is handled.
AllGone ==
  /\ starts = Len(Flags)
  /\ \A a \in Addresses : user[a] = 0
  /\ mailbox = <<>>

MCNext ==
  \/ part = "accounts" /\ Next /\ UNCHANGED <<part, chatVars>>
  \/ part = "chat" /\ Chat!Next /\ UNCHANGED <<part, vars>>
  \/ part = "chat" /\ AllGone /\ UNCHANGED allVars

MCSpec == MCInit /\ [][MCNext]_allVars

-----------------------------------------------------------------------------

\* The chat server has its clients in the rooms they believe to be in
\* (handleConnect, handleDisconnect).
ServerAgrees == Chat!ServerAgrees

\* Clients are shown all that is said in their room, once and in order
\* (handleMessage, appendHistory).
MembersHear == Chat!MembersHear
=============================================================================
