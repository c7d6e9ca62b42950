----------------------------- MODULE GameLobby -----------------------------
(***************************************************************************)
(* goakt-scrabble and goakt-pictograph: the lobby singleton and its        *)
(* directory of rooms, and the gateways that ask it for a room.            *)
(*                                                                         *)
(* A room is named after its code, in scrabble also after its language.  A *)
(* session listens to the topic of its code.  The lobby handles one request*)
(* at a time; a request that ends in an error changes nothing.             *)
(***************************************************************************)
CONSTANTS
  Players,
  Languages,  \* of the registry
  Codes,      \* of four letters
  LongCodes,  \* of six
  None

VARIABLES
  rooms,      \* LobbyActor.rooms: code -> room name
  live,       \* names of the rooms that run
  request,    \* player -> [code, room] the lobby has answered, or None
  seat,       \* player -> [code, room] of the session, or None
  restarted   \* history: the lobby was lost and started again
vars == <<rooms, live, request, seat, restarted>>

AllCodes == Codes \cup LongCodes

\* A room's name; pictograph has no languages.
Room(language, code) == [language |-> language, code |-> code]

Init ==
  /\ rooms = <<>>
  /\ live = {}
  /\ request = [p \in Players |-> None]
  /\ seat = [p \in Players |-> None]
  /\ restarted = FALSE

\* generateCode: a short code the directory does not have.  When all of its
\* tries are taken it is a long one, which is not looked up.
GeneratedCodes ==
  (Codes \ DOMAIN rooms) \cup IF Codes \cap DOMAIN rooms = {} THEN {} ELSE LongCodes

\* The lobby's answer, which the gateway may not have waited for.
Answer(p, code, name) ==
  request' \in {request, [request EXCEPT ![p] = [code |-> code, room |-> name]]}

\* The code is in the directory, whatever the language and whether or not the
\* room is still there.
KnownCode(p, code) ==
  /\ code \in DOMAIN rooms
  /\ Answer(p, code, rooms[code])
  /\ UNCHANGED <<rooms, live>>

\* SpawnOn; a room of that name that runs already is used (ErrActorAlreadyExists).
SpawnRoom(p, code, name) ==
  /\ live' = live \cup {name}
  /\ rooms' = [c \in DOMAIN rooms \cup {code} |-> IF c = code THEN name ELSE rooms[c]]
  /\ Answer(p, code, name)

\* Mutant: rooms are looked up by their names only.
JoinOrCreateByName(p) ==
  /\ request[p] = None /\ seat[p] = None
  /\ \E language \in Languages, code \in AllCodes : SpawnRoom(p, code, Room(language, code))
  /\ UNCHANGED <<seat, restarted>>

\* handleJoinOrCreate of goakt-scrabble
JoinOrCreate(p) ==
  /\ request[p] = None /\ seat[p] = None
  /\ \/ \E code \in AllCodes : KnownCode(p, code)
     \/ \E language \in Languages, code \in (AllCodes \ DOMAIN rooms) \cup GeneratedCodes :
          SpawnRoom(p, code, Room(language, code))
  /\ UNCHANGED <<seat, restarted>>

\* handleJoinOrCreate of goakt-pictograph
JoinOrCreateDrawing(p) ==
  /\ request[p] = None /\ seat[p] = None
  /\ \/ \E code \in AllCodes : KnownCode(p, code)
     \/ \E code \in (AllCodes \ DOMAIN rooms) \cup GeneratedCodes :
          SpawnRoom(p, code, Room(None, code))
  /\ UNCHANGED <<seat, restarted>>

\* resolveRoom finds the room, and the session is spawned.
ResolveRoom(p) ==
  /\ request[p] # None
  /\ request[p].room \in live
  /\ seat' = [seat EXCEPT ![p] = request[p]]
  /\ request' = [request EXCEPT ![p] = None]
  /\ UNCHANGED <<rooms, live, restarted>>

\* It does not within the deadline, or the session cannot be spawned.
ResolveFails(p) ==
  /\ request[p] # None
  /\ request' = [request EXCEPT ![p] = None]
  /\ UNCHANGED <<rooms, live, seat, restarted>>

\* wsHandler after the read has ended: GoodbyePlayer, closed.
Disconnect(p) ==
  /\ seat[p] # None
  /\ seat' = [seat EXCEPT ![p] = None]
  /\ UNCHANGED <<rooms, live, request, restarted>>

\* A room stops, with players or without, or its node dies.  The lobby is not told.
RoomStops ==
  /\ \E name \in live : live' = live \ {name}
  /\ UNCHANGED <<rooms, request, seat, restarted>>

\* The lobby's node dies and another one starts the singleton.  Bound: once.
LobbyFailsOver ==
  /\ ~restarted
  /\ restarted' = TRUE
  /\ rooms' = <<>>
  /\ UNCHANGED <<live, request, seat>>

Common ==
  \/ \E p \in Players : ResolveRoom(p) \/ ResolveFails(p) \/ Disconnect(p)
  \/ RoomStops
  \/ LobbyFailsOver

NextScrabble == Common \/ \E p \in Players : JoinOrCreate(p)
NextPictograph == Common \/ \E p \in Players : JoinOrCreateDrawing(p)

SpecScrabble == Init /\ [][NextScrabble]_vars
SpecPictograph == Init /\ [][NextPictograph]_vars

-----------------------------------------------------------------------------
(* Properties *)

\* Players who came with the same code sit in the same room, although a code is
\* typed, generated or shared, rooms stop and their codes are used again, and a
\* request names another language: what is published to the topic of a code
\* comes from one room.  Two rooms share a code only in scrabble, with different
\* languages: after the lobby has lost its directory, or when a long code is
\* generated again (handleJoinOrCreate, generateCode).
CodeMeansRoom ==
  \A p, q \in {r \in Players : seat[r] # None} :
    seat[p].code = seat[q].code =>
      \/ seat[p].room = seat[q].room
      \/ /\ restarted \/ seat[p].code \in LongCodes
         /\ seat[p].room.language # seat[q].room.language
=============================================================================
