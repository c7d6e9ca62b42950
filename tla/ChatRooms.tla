----------------------------- MODULE ChatRooms -----------------------------
(***************************************************************************)
(* goakt-chat: the server's registry of clients and its history of rooms,  *)
(* and the client processes, each with the goroutine of its actor, the one *)
(* that reads the keyboard and the main one that waits for a signal.       *)
(*                                                                         *)
(* A client is known by its address, which a later process may have again  *)
(* because the port is picked at random.  The Tells to the server arrive   *)
(* in the order in which they are made; their errors are ignored.  Direct  *)
(* messages and the list of users read the registry and change nothing, so *)
(* they are no actions; neither are the notices of joining and leaving.    *)
(* The server keeps all in memory: the end of its process is the end of it.*)
(***************************************************************************)
EXTENDS Integers, Sequences

CONSTANTS
  Addresses,
  Flags,        \* Flags[n]: the --codec and --room of the n-th process; its
                \* user is n
  Rooms,
  maxHistorySize,
  MaxJoins, MaxMessages, MaxMail
                \* bounds: /join, messages, and what is in the mailbox

VARIABLES
  \* Server
  clients,   \* address -> clientInfo, for those that are connected
  history,   \* room -> the broadcasts that are kept
  mailbox,   \* what the server has still to handle, with its sender
  \* the clients
  user,      \* address -> the user of the process, or 0
  greeting,  \* PostStart: "none", the room it has read, or "sent"
  keyboard,  \* the input loop: "reading", "ended", or the room of a /join
             \* between its Disconnect and its Connect
  room,      \* CurrentRoom
  exiting,   \* the process is about to stop its actor system
  \* history variables
  said,      \* room -> everything that was said there
  told,      \* address -> the broadcasts pushed since it connected
  since,     \* address -> how much had been said when it connected
  stray,     \* addresses the server may be wrong about, see ServerAgrees
  starts,    \* processes so far
  joins, messages, disturbed
serverVars == <<clients, history, said, told, since>>
processVars == <<user, greeting, keyboard, room, exiting, starts, joins>>
vars == <<serverVars, processVars, mailbox, messages, stray, disturbed>>

Init ==
  /\ clients = <<>>
  /\ history = [r \in Rooms |-> <<>>]
  /\ user = [a \in Addresses |-> 0]
  /\ greeting = [a \in Addresses |-> "none"]
  /\ keyboard = [a \in Addresses |-> "ended"]
  /\ room = [a \in Addresses |-> ""]
  /\ exiting = [a \in Addresses |-> FALSE]
  /\ mailbox = <<>>
  /\ said = [r \in Rooms |-> <<>>]
  /\ told = [a \in Addresses |-> <<>>]
  /\ since = [a \in Addresses |-> 0]
  /\ stray = {}
  /\ starts = 0 /\ joins = 0 /\ messages = 0
  /\ disturbed = FALSE

-----------------------------------------------------------------------------
(* The wire *)

\* Codec.Encode: the family of types a message travels in.
Encode(codec, msg) ==
  [family |-> IF codec = "proto" THEN "chatpb" ELSE "chat", body |-> msg]

\* wire.Decode: the message, and the codec it came in.
Decode(wire) ==
  [body |-> wire.body, codec |-> IF wire.family = "chatpb" THEN "proto" ELSE "cbor"]

\* Something goes wrong.  Bound: once.
Disturb == ~disturbed /\ disturbed' = TRUE

\* Client.Send.  A Connect or Disconnect that fails leaves the address astray,
\* and so does one in the wrong order; a Message that fails was never sent.
Send(a, msg, wrong) ==
  \/ /\ Len(mailbox) < MaxMail
     /\ mailbox' = Append(mailbox, [from |-> a, wire |-> Encode(Flags[user[a]].codec, msg)])
     /\ stray' = IF wrong THEN stray \cup {a} ELSE stray
     /\ UNCHANGED disturbed
  \/ /\ msg.type # "Message"
     /\ Disturb
     /\ stray' = stray \cup {a}
     /\ UNCHANGED mailbox

Connect(a, r) == [type |-> "Connect", user |-> user[a], room |-> r]
Disconnect == [type |-> "Disconnect"]
Message(a) == [type |-> "Message", room |-> room[a]]

-----------------------------------------------------------------------------
(* A client process *)

\* runClient up to the input loop.
Start(a) ==
  /\ user[a] = 0
  /\ starts < Len(Flags)
  /\ starts' = starts + 1
  /\ user' = [user EXCEPT ![a] = starts']
  /\ room' = [room EXCEPT ![a] = Flags[starts'].room]
  /\ greeting' = [greeting EXCEPT ![a] = "none"]
  /\ keyboard' = [keyboard EXCEPT ![a] = "reading"]
  /\ UNCHANGED <<serverVars, mailbox, exiting, joins, messages, stray, disturbed>>

Running(a) == user[a] # 0

\* PostStart of the client actor, while the input loop is running: the room is
\* read and then told.
ReadRoom(a) ==
  /\ Running(a)
  /\ greeting[a] = "none"
  /\ greeting' = [greeting EXCEPT ![a] = room[a]]
  /\ UNCHANGED <<serverVars, user, keyboard, room, exiting, starts, joins, mailbox,
                 messages, stray, disturbed>>
Greet(a) ==
  /\ Running(a)
  /\ greeting[a] \in Rooms
  /\ Send(a, Connect(a, greeting[a]), exiting[a] \/ keyboard[a] # "reading")
  /\ greeting' = [greeting EXCEPT ![a] = "sent"]
  /\ UNCHANGED <<serverVars, user, keyboard, room, exiting, starts, joins, messages>>

Reading(a) == Running(a) /\ keyboard[a] = "reading"

\* A line that is no command.
Say(a) ==
  /\ Reading(a)
  /\ messages < MaxMessages
  /\ messages' = messages + 1
  /\ Send(a, Message(a), FALSE)
  /\ UNCHANGED <<serverVars, processVars>>

\* /join up to the sleep, and after it.
JoinLeaves(a) ==
  /\ Reading(a)
  /\ joins < MaxJoins
  /\ joins' = joins + 1
  /\ \E r \in Rooms : keyboard' = [keyboard EXCEPT ![a] = r]
  /\ Send(a, Disconnect, FALSE)
  /\ UNCHANGED <<serverVars, user, greeting, room, exiting, starts, messages>>
JoinEnters(a) ==
  /\ Running(a)
  /\ keyboard[a] \in Rooms
  /\ room' = [room EXCEPT ![a] = keyboard[a]]
  /\ Send(a, Connect(a, keyboard[a]), exiting[a])
  /\ keyboard' = [keyboard EXCEPT ![a] = "reading"]
  /\ UNCHANGED <<serverVars, user, greeting, exiting, starts, joins, messages>>

\* /quit
Quit(a) ==
  /\ Reading(a)
  /\ Send(a, Disconnect, FALSE)
  /\ keyboard' = [keyboard EXCEPT ![a] = "ended"]
  /\ exiting' = [exiting EXCEPT ![a] = TRUE]
  /\ UNCHANGED <<serverVars, user, greeting, room, starts, joins, messages>>

\* The end of the input: the loop returns without a Disconnect.
InputEnds(a) ==
  /\ Reading(a)
  /\ keyboard' = [keyboard EXCEPT ![a] = "ended"]
  /\ exiting' = [exiting EXCEPT ![a] = TRUE]
  /\ stray' = stray \cup {a}
  /\ UNCHANGED <<serverVars, user, greeting, room, starts, joins, mailbox, messages,
                 disturbed>>

\* A signal, while the input loop goes on.
Signal(a) ==
  /\ Running(a)
  /\ ~exiting[a]
  /\ Send(a, Disconnect, FALSE)
  /\ exiting' = [exiting EXCEPT ![a] = TRUE]
  /\ UNCHANGED <<serverVars, user, greeting, keyboard, room, starts, joins, messages>>

Ended(a) ==
  /\ user' = [user EXCEPT ![a] = 0]
  /\ exiting' = [exiting EXCEPT ![a] = FALSE]
  /\ keyboard' = [keyboard EXCEPT ![a] = "ended"]
  /\ greeting' = [greeting EXCEPT ![a] = "none"]
  /\ room' = [room EXCEPT ![a] = ""]

\* actorSystem.Stop, and the end of the process.
Exit(a) ==
  /\ Running(a)
  /\ exiting[a]
  /\ Ended(a)
  /\ UNCHANGED <<serverVars, starts, joins, mailbox, messages, stray, disturbed>>

\* A client is killed.
Kill(a) ==
  /\ Running(a)
  /\ Disturb
  /\ Ended(a)
  /\ stray' = stray \cup {a}
  /\ UNCHANGED <<serverVars, starts, joins, mailbox, messages>>

-----------------------------------------------------------------------------
(* The server *)

\* Receive: the next message, which a has sent.
Handle(a, type) ==
  /\ mailbox # <<>>
  /\ Head(mailbox).from = a
  /\ Decode(Head(mailbox).wire).body.type = type
  /\ mailbox' = Tail(mailbox)
  /\ UNCHANGED <<processVars, messages, stray, disturbed>>

\* What a client is shown of a broadcast: the server encodes it in the codec it
\* knows the client by, the client decodes whatever comes.
Shown(info, broadcast) == Decode(Encode(info.codec, broadcast)).body

\* Mutant of HandleConnect: the last Connect counts.
HandleConnectAgain(a) ==
  LET in == Decode(Head(mailbox).wire)
      info == [user |-> in.body.user, room |-> in.body.room, codec |-> in.codec]
  IN /\ Handle(a, "Connect")
     /\ clients' = [d \in DOMAIN clients \cup {a} |-> IF d = a THEN info ELSE clients[d]]
     /\ told' = [told EXCEPT ![a] = history[info.room]]
     /\ since' = [since EXCEPT ![a] = Len(said[info.room])]
     /\ UNCHANGED <<history, said>>

\* handleConnect: an address that is connected already is ignored.
HandleConnect(a) ==
  LET in == Decode(Head(mailbox).wire)
      info == [user |-> in.body.user, room |-> in.body.room, codec |-> in.codec]
  IN /\ Handle(a, "Connect")
     /\ IF a \in DOMAIN clients
        THEN UNCHANGED <<clients, told, since>>
        ELSE /\ clients' = [d \in DOMAIN clients \cup {a} |->
                              IF d = a THEN info ELSE clients[d]]
             /\ told' = [told EXCEPT ![a] =
                           [i \in 1 .. Len(history[info.room]) |->
                              Shown(info, history[info.room][i])]]
             /\ since' = [since EXCEPT ![a] = Len(said[info.room])]
     /\ UNCHANGED <<history, said>>

\* handleDisconnect
HandleDisconnect(a) ==
  /\ Handle(a, "Disconnect")
  /\ clients' = [d \in DOMAIN clients \ {a} |-> clients[d]]
  /\ told' = [told EXCEPT ![a] = <<>>]
  /\ since' = [since EXCEPT ![a] = 0]
  /\ UNCHANGED <<history, said>>

\* Mutant of AppendHistory: the cap is off by one.
AppendHistoryOff(kept, broadcast) ==
  LET all == Append(kept, broadcast)
  IN IF Len(all) >= maxHistorySize THEN Tail(all) ELSE all

\* appendHistory
AppendHistory(kept, broadcast) ==
  LET all == Append(kept, broadcast)
  IN IF Len(all) > maxHistorySize
     THEN SubSeq(all, Len(all) - maxHistorySize + 1, Len(all)) ELSE all

\* broadcastToRoom
BroadcastToRoom(r, from, broadcast) ==
  told' = [d \in Addresses |->
             IF d \in DOMAIN clients \ {from} /\ clients[d].room = r
             THEN Append(told[d], Shown(clients[d], broadcast)) ELSE told[d]]

\* handleMessage: what an unknown client says is ignored.
HandleMessage(a) ==
  LET r == Decode(Head(mailbox).wire).body.room
      broadcast == [from |-> a, user |-> clients[a].user]
  IN /\ Handle(a, "Message")
     /\ IF a \in DOMAIN clients
        THEN /\ history' = [history EXCEPT ![r] = AppendHistory(@, broadcast)]
             /\ said' = [said EXCEPT ![r] = Append(@, broadcast)]
             /\ BroadcastToRoom(r, a, broadcast)
        ELSE UNCHANGED <<history, said, told>>
     /\ UNCHANGED <<clients, since>>

Next ==
  \E a \in Addresses :
    \/ Start(a) \/ ReadRoom(a) \/ Greet(a) \/ Say(a) \/ JoinLeaves(a) \/ JoinEnters(a)
    \/ Quit(a) \/ InputEnds(a) \/ Signal(a) \/ Exit(a) \/ Kill(a)
    \/ HandleConnect(a) \/ HandleDisconnect(a) \/ HandleMessage(a)

Spec == Init /\ [][Next]_vars

-----------------------------------------------------------------------------
(* Properties *)

\* When all that a client has sent is handled, the server has it in the room it
\* believes to be in, as the user it is and with its codec; and of a process
\* that has ended it has nothing, so that the address can be used again.  This
\* holds although PostStart, the keyboard and the signal speak at the same time,
\* unless a Connect was sent after the Disconnect it should have come before, the
\* input ended without one, or a failure intervened (stray).
ServerAgrees ==
  \A a \in Addresses \ stray :
    (\A i \in DOMAIN mailbox : mailbox[i].from # a) =>
      /\ user[a] = 0 => a \notin DOMAIN clients
      /\ Reading(a) /\ ~exiting[a] /\ greeting[a] = "sent" =>
           /\ a \in DOMAIN clients
           /\ clients[a] = [user |-> user[a], room |-> room[a],
                            codec |-> Flags[user[a]].codec]

\* seq is all that is at the given places of all, in its order.
IsSelection(seq, all, places) ==
  \E at \in [DOMAIN seq -> places] :
    /\ \A i, j \in DOMAIN seq : i < j => at[i] < at[j]
    /\ \A n \in places : \E i \in DOMAIN seq : at[i] = n
    /\ \A i \in DOMAIN seq : seq[i] = all[at[i]]

\* A client has been shown exactly the last messages said in its room when it
\* came, and then every message of the others, each once and in order, whoever
\* else comes, leaves or changes rooms (handleConnect, appendHistory,
\* broadcastToRoom).
MembersHear ==
  \A a \in DOMAIN clients :
    LET all == said[clients[a].room]
    IN IsSelection(told[a], all,
         {i \in DOMAIN all : IF i <= since[a] THEN i > since[a] - maxHistorySize
                             ELSE all[i].from # a})
=============================================================================
