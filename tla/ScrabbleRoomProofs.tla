------------------------- MODULE ScrabbleRoomProofs -------------------------
(***************************************************************************)
(* The safety invariants of ScrabbleRoom, proved for every set of players, *)
(* bots and sessions, every table size and every number of tiles.          *)
(*                                                                         *)
(* IInv is inductive.  It joins the invariants that the run checks, which  *)
(* need each other: that the board never has more tiles than there are     *)
(* rests on the account of the tiles, and that the account is exact rests  *)
(* on what "undisturbed" means for the seats.                              *)
(***************************************************************************)
EXTENDS ScrabbleRoom, SequenceTheorems, SumTheorems, TLAPS

USE DEF gameVars, roomVars, botVars, sessionVars, vars

-----------------------------------------------------------------------------
(* The inductive invariant *)

InGame == phase \in {"playing", "paused"}

\* A bot at the table is alive: the ids of stopped bots are not used again.
BotsSit ==
  \A i \in 1 .. Len(players) : players[i].id \in Bots => bot[players[i].id] = "alive"

\* In a game the count that ends it has not been reached, and as long as nobody
\* came or left the turn is a seated player's and all have their racks.
GameInv ==
  InGame =>
    /\ scorelessTurns < ScorelessTurnsToEnd
    /\ ~disturbed => HasCurrent /\ \A i \in 1 .. Len(players) : players[i].rack # None

\* A room that has ended has no timers.
EndInv == ~Running => armed = {} /\ due = {}

IInv ==
  /\ TypeOK
  /\ BotsSit
  /\ GameInv
  /\ EndInv
  /\ UndisturbedNeverFails
  /\ TilesAccounted
  /\ EmptyRoomStops

-----------------------------------------------------------------------------
(* Lemmas on tables and tiles *)

\* The tiles of a seat, and of a table.
RackOf(seat) == IF seat.rack = None THEN 0 ELSE seat.rack
RacksOf(seats) == [i \in 1 .. Len(seats) |-> RackOf(seats[i])]
Total(seats) == SumFunctionOnSet(RacksOf(seats), 1 .. Len(seats))

\* Bag, board and racks hold no more than all tiles, and all of them if the
\* game was not disturbed.
Accounted(seats, inBag, onBoard, whole) ==
  /\ inBag + onBoard + Total(seats) <= Tiles
  /\ whole => inBag + onBoard + Total(seats) = Tiles

LEMMA TotalIs ==
  ASSUME NEW seats
  PROVE SumFunction([i \in 1 .. Len(seats) |->
          IF seats[i].rack = None THEN 0 ELSE seats[i].rack]) = Total(seats)
<1>1. DOMAIN RacksOf(seats) = 1 .. Len(seats)
  BY DEF RacksOf
<1>2. SumFunction(RacksOf(seats)) = SumFunctionOnSet(RacksOf(seats), DOMAIN RacksOf(seats))
  BY DEF SumFunction
<1> QED
  BY <1>1, <1>2 DEF Total, RacksOf, RackOf

LEMMA SeatTypes ==
  ASSUME NEW seats \in Seq(Seats)
  PROVE /\ Len(seats) \in Nat
        /\ \A i \in 1 .. Len(seats) :
             /\ seats[i] \in Seats
             /\ RackOf(seats[i]) \in 0 .. RackSize
             /\ RacksOf(seats)[i] = RackOf(seats[i])
             /\ RacksOf(seats)[i] \in Nat
<1>1. Len(seats) \in Nat /\ \A i \in 1 .. Len(seats) : seats[i] \in Seats
  BY LenProperties, ElementOfSeq
<1>2. \A seat \in Seats : RackOf(seat) \in 0 .. RackSize
  BY RoomAssumption DEF Seats, RackOf
<1> QED
  BY <1>1, <1>2 DEF RacksOf

LEMMA TotalNat ==
  ASSUME NEW seats \in Seq(Seats)
  PROVE /\ Total(seats) \in Nat
        /\ \A i \in 1 .. Len(seats) : RackOf(seats[i]) <= Total(seats)
<1>1. /\ Len(seats) \in Nat
      /\ \A i \in 1 .. Len(seats) :
           RacksOf(seats)[i] \in Nat /\ RacksOf(seats)[i] = RackOf(seats[i])
  BY SeatTypes
<1>2. /\ SumFunctionOnSet(RacksOf(seats), 1 .. Len(seats)) \in Nat
      /\ \A i \in 1 .. Len(seats) :
           RacksOf(seats)[i] <= SumFunctionOnSet(RacksOf(seats), 1 .. Len(seats))
  BY <1>1, SumNat
<1> QED
  BY <1>1, <1>2 DEF Total

\* A table with the same racks has the same tiles.
LEMMA TotalSame ==
  ASSUME NEW seats \in Seq(Seats), NEW other \in Seq(Seats), Len(other) = Len(seats),
         \A i \in 1 .. Len(seats) : RackOf(other[i]) = RackOf(seats[i])
  PROVE Total(other) = Total(seats)
<1>1. Len(seats) \in Nat
  BY SeatTypes
<1>2. IsFiniteSet(1 .. Len(seats))
  BY <1>1, FS_Interval
<1>3. \A i \in 1 .. Len(seats) : RacksOf(other)[i] = RacksOf(seats)[i]
  BY SeatTypes
<1> QED
  BY <1>2, <1>3, SumSame DEF Total

\* A late joiner brings no tiles.
LEMMA TotalAppend ==
  ASSUME NEW seats \in Seq(Seats), NEW seat \in Seats, seat.rack = None
  PROVE Total(Append(seats, seat)) = Total(seats)
<1>1. PICK all : all = Append(seats, seat)
  OBVIOUS
<1>2. /\ all \in Seq(Seats) /\ Len(all) = Len(seats) + 1
      /\ \A i \in 1 .. Len(seats) : all[i] = seats[i]
      /\ all[Len(seats) + 1] = seat
  BY <1>1, AppendProperties
<1>3. PICK n \in Nat : n = Len(seats)
  BY SeatTypes
<1>4. \A i \in 1 .. n + 1 : RacksOf(all)[i] \in Int
  BY <1>2, <1>3, SeatTypes
<1>5. SumFunctionOnSet(RacksOf(all), 1 .. n + 1)
        = SumFunctionOnSet(RacksOf(all), 1 .. n) + RacksOf(all)[n + 1]
  BY <1>4, SumLast
<1>6. RacksOf(all)[n + 1] = 0
  BY <1>2, <1>3, SeatTypes DEF RackOf
<1>7. \A i \in 1 .. n : RacksOf(all)[i] = RacksOf(seats)[i]
  BY <1>2, <1>3, SeatTypes
<1>8. SumFunctionOnSet(RacksOf(all), 1 .. n) = SumFunctionOnSet(RacksOf(seats), 1 .. n)
  <2>1. IsFiniteSet(1 .. n)
    BY FS_Interval
  <2> QED
    BY <1>7, <2>1, SumSame
<1>9. SumFunctionOnSet(RacksOf(seats), 1 .. n) = Total(seats) /\ Total(seats) \in Nat
  BY <1>3, TotalNat DEF Total
<1>10. Total(all) = SumFunctionOnSet(RacksOf(all), 1 .. n + 1)
  BY <1>2, <1>3 DEF Total
<1> QED
  BY <1>1, <1>5, <1>6, <1>8, <1>9, <1>10

\* What RemoveAt does.
LEMMA RemoveAtProperties ==
  ASSUME NEW seats \in Seq(Seats), NEW k \in 1 .. Len(seats)
  PROVE /\ RemoveAt(seats, k) \in Seq(Seats)
        /\ Len(RemoveAt(seats, k)) = Len(seats) - 1
        /\ \A i \in 1 .. Len(seats) - 1 :
             RemoveAt(seats, k)[i] = IF i < k THEN seats[i] ELSE seats[i + 1]
<1>1. PICK n \in Nat : n = Len(seats)
  BY SeatTypes
<1>2. PICK a : a = SubSeq(seats, 1, k - 1)
  OBVIOUS
<1>3. PICK b : b = SubSeq(seats, k + 1, n)
  OBVIOUS
<1>4. /\ a \in Seq(Seats) /\ Len(a) = k - 1
      /\ \A i \in 1 .. k - 1 : a[i] = seats[i]
  <2>1. \A i \in 1 .. k - 1 : seats[i] \in Seats
    BY <1>1, SeatTypes
  <2> QED
    BY <1>1, <1>2, <2>1, SubSeqProperties
<1>5. /\ b \in Seq(Seats) /\ Len(b) = n - k
      /\ \A i \in 1 .. n - k : b[i] = seats[k + i]
  <2>1. \A i \in k + 1 .. n : seats[i] \in Seats
    BY <1>1, SeatTypes
  <2> QED
    BY <1>1, <1>3, <2>1, SubSeqProperties, SMTT(30)
<1>6. /\ a \o b \in Seq(Seats) /\ Len(a \o b) = n - 1
      /\ \A i \in 1 .. n - 1 : (a \o b)[i] = IF i <= k - 1 THEN a[i] ELSE b[i - (k - 1)]
  BY <1>1, <1>4, <1>5, ConcatProperties
<1>7. RemoveAt(seats, k) = a \o b
  BY <1>1, <1>2, <1>3 DEF RemoveAt
<1>8. ASSUME NEW i \in 1 .. n - 1
      PROVE (a \o b)[i] = IF i < k THEN seats[i] ELSE seats[i + 1]
  <2>1. CASE i < k
    BY <1>1, <1>4, <1>6, <2>1
  <2>2. CASE ~(i < k)
    <3>1. i - (k - 1) \in 1 .. n - k /\ k + (i - (k - 1)) = i + 1
      BY <1>1, <2>2
    <3> QED
      BY <1>1, <1>5, <1>6, <2>2, <3>1
  <2> QED
    BY <2>1, <2>2
<1> QED
  BY <1>1, <1>6, <1>7, <1>8

\* A leaver takes the tiles of the rack along.
LEMMA TotalRemove ==
  ASSUME NEW seats \in Seq(Seats), NEW k \in 1 .. Len(seats)
  PROVE Total(RemoveAt(seats, k)) = Total(seats) - RackOf(seats[k])
<1>1. PICK fewer \in Seq(Seats) : fewer = RemoveAt(seats, k)
  BY RemoveAtProperties
<1>2. PICK n \in Nat : Len(seats) = n + 1
  BY SeatTypes
<1>3. /\ Len(fewer) = n
      /\ \A i \in 1 .. n : fewer[i] = IF i < k THEN seats[i] ELSE seats[i + 1]
  <2>1. Len(seats) - 1 = n
    BY <1>2
  <2>2. /\ Len(fewer) = Len(seats) - 1
        /\ \A i \in 1 .. Len(seats) - 1 : fewer[i] = IF i < k THEN seats[i] ELSE seats[i + 1]
    BY <1>1, RemoveAtProperties
  <2> QED
    BY <2>1, <2>2
<1>4. \A i \in 1 .. n + 1 : RacksOf(seats)[i] \in Int /\ RacksOf(seats)[i] = RackOf(seats[i])
  BY <1>2, SeatTypes
<1>5. \A i \in 1 .. n : RacksOf(fewer)[i] =
        IF i < k THEN RacksOf(seats)[i] ELSE RacksOf(seats)[i + 1]
  BY <1>2, <1>3, <1>4 DEF RacksOf
<1>6. k \in 1 .. n + 1
  BY <1>2
<1>7. SumFunctionOnSet(RacksOf(fewer), 1 .. n)
        = SumFunctionOnSet(RacksOf(seats), 1 .. n + 1) - RacksOf(seats)[k]
  BY <1>4, <1>5, <1>6, SumShift
<1> QED
  BY <1>1, <1>2, <1>3, <1>4, <1>6, <1>7 DEF Total

\* A rack that changes changes the tiles of the table by as much.
LEMMA TotalChange ==
  ASSUME NEW seats \in Seq(Seats), NEW other \in Seq(Seats), Len(other) = Len(seats),
         NEW k \in 1 .. Len(seats),
         \A i \in 1 .. Len(seats) : i # k => other[i] = seats[i]
  PROVE Total(other) = Total(seats) + RackOf(other[k]) - RackOf(seats[k])
<1>1. PICK n \in Nat : n = Len(seats)
  BY SeatTypes
<1>2. IsFiniteSet(1 .. n)
  BY FS_Interval
<1>3. \A i \in 1 .. n : RacksOf(seats)[i] \in Int /\ RacksOf(other)[i] \in Int
  BY <1>1, SeatTypes
<1>4. \A i \in (1 .. n) \ {k} : RacksOf(seats)[i] = RacksOf(other)[i]
  BY <1>1 DEF RacksOf
<1>5. SumFunctionOnSet(RacksOf(other), 1 .. n)
        = SumFunctionOnSet(RacksOf(seats), 1 .. n) + RacksOf(other)[k] - RacksOf(seats)[k]
  <2>1. PICK S : S = 1 .. n
    OBVIOUS
  <2>2. /\ IsFiniteSet(S) /\ k \in S
        /\ \A x \in S : RacksOf(seats)[x] \in Int /\ RacksOf(other)[x] \in Int
        /\ \A x \in S \ {k} : RacksOf(seats)[x] = RacksOf(other)[x]
    BY <1>1, <1>2, <1>3, <1>4, <2>1
  <2>3. SumFunctionOnSet(RacksOf(other), S)
          = SumFunctionOnSet(RacksOf(seats), S) + RacksOf(other)[k] - RacksOf(seats)[k]
    BY <2>2, SumChange, ZenonT(60)
  <2> QED
    BY <2>1, <2>3
<1>6. RacksOf(other)[k] = RackOf(other[k]) /\ RacksOf(seats)[k] = RackOf(seats[k])
  BY SeatTypes
<1> QED
  BY <1>1, <1>5, <1>6 DEF Total

\* What the first n seats are dealt (StartGame).
Dealt(n) == Min({Tiles, n * RackSize})

LEMMA MinOf ==
  ASSUME NEW a \in Int, NEW b \in Int
  PROVE Min({a, b}) = IF a <= b THEN a ELSE b
<1>1. \E x \in {a, b} : \A y \in {a, b} : x <= y
  OBVIOUS
<1>2. /\ Min({a, b}) \in {a, b}
      /\ \A y \in {a, b} : Min({a, b}) <= y
  BY <1>1 DEF Min
<1> QED
  BY <1>2

\* A deal gives nobody more than a rack, and never more than there is.
LEMMA DealtProperties ==
  ASSUME NEW n \in Nat
  PROVE /\ Dealt(0) = 0
        /\ Dealt(n) \in 0 .. Tiles
        /\ Dealt(n + 1) - Dealt(n) \in 0 .. RackSize
<1>1. Tiles \in Nat \ {0} /\ RackSize \in Nat \ {0}
  BY RoomAssumption
<1>2. 0 * RackSize = 0 /\ n * RackSize \in Nat /\ (n + 1) * RackSize = n * RackSize + RackSize
  BY <1>1
<1>3. PICK a \in Nat : a = n * RackSize
  BY <1>2
<1>4. (n + 1) * RackSize = a + RackSize
  BY <1>2, <1>3
<1>5. Dealt(0) = 0
  BY <1>1, <1>2, MinOf DEF Dealt
<1>6. Dealt(n) = IF Tiles <= a THEN Tiles ELSE a
  BY <1>1, <1>3, MinOf DEF Dealt
<1>7. PICK b \in Nat : b = a + RackSize
  BY <1>1
<1>8. Dealt(n + 1) = IF Tiles <= b THEN Tiles ELSE b
  BY <1>1, <1>4, <1>7, MinOf DEF Dealt
<1> QED
  BY <1>1, <1>5, <1>6, <1>7, <1>8

\* After the deal the racks hold what left the bag.
LEMMA TotalDealt ==
  ASSUME NEW seats \in Seq(Seats),
         \A i \in 1 .. Len(seats) : seats[i].rack = Dealt(i) - Dealt(i - 1)
  PROVE Total(seats) = Dealt(Len(seats))
<1>1. PICK n \in Nat : n = Len(seats)
  BY SeatTypes
<1>2. PICK f : f = RacksOf(seats)
  OBVIOUS
<1>3. ASSUME NEW k \in 0 .. n - 1
      PROVE f[k + 1] \in Int /\ f[k + 1] = Dealt(k + 1) - Dealt(k)
  <2>1. k \in Nat /\ k + 1 \in 1 .. Len(seats) /\ (k + 1) - 1 = k
    BY <1>1
  <2>2. seats[k + 1].rack = Dealt(k + 1) - Dealt(k)
    BY <2>1
  <2>3. Dealt(k + 1) - Dealt(k) \in 0 .. RackSize
    BY <2>1, DealtProperties
  <2>4. RackOf(seats[k + 1]) = Dealt(k + 1) - Dealt(k)
    BY <2>2, <2>3, RoomAssumption DEF RackOf
  <2> QED
    BY <1>2, <2>1, <2>3, <2>4, SeatTypes
<1> DEFINE Good(k) == SumFunctionOnSet(f, 1 .. k) = Dealt(k)
<1> DEFINE Bad == {k \in 0 .. n : ~Good(k)}
<1>4. CASE Bad = {}
  BY <1>1, <1>2, <1>4 DEF Total
<1>5. CASE Bad # {}
  <2>0. Bad \in SUBSET Nat
    OBVIOUS
  <2>1. PICK m \in Bad : \A k \in Bad : m <= k
    <3> HIDE DEF Bad
    <3> QED
      BY <1>5, <2>0, NatMin
  <2>2. m # 0
    <3>1. 1 .. 0 = {}
      OBVIOUS
    <3>2. SumFunctionOnSet(f, 1 .. 0) = 0
      BY <3>1, SumEmpty
    <3> QED
      BY <3>2, DealtProperties
  <2>3. PICK k \in 0 .. n - 1 : m = k + 1
    <3>1. m \in 0 .. n
      OBVIOUS
    <3>2. m - 1 \in 0 .. n - 1 /\ m = (m - 1) + 1
      BY <2>2, <3>1
    <3> QED
      BY <3>2
  <2>4. Good(k)
    BY <2>1, <2>3
  <2>5. \A i \in 1 .. k + 1 : f[i] \in Int
    BY <1>1, <1>2, <2>3, SeatTypes
  <2>6. SumFunctionOnSet(f, 1 .. k + 1) = SumFunctionOnSet(f, 1 .. k) + f[k + 1]
    BY <2>3, <2>5, SumLast
  <2>7. Dealt(k) \in Int /\ Dealt(k + 1) \in Int
    BY <2>3, DealtProperties, SMTT(30)
  <2>8. Good(k + 1)
    BY <1>3, <2>3, <2>4, <2>6, <2>7
  <2> QED
    BY <2>3, <2>8
<1> QED
  BY <1>4, <1>5

-----------------------------------------------------------------------------
(* The room's part of the invariant *)

\* Nobody sits at the table twice.
TableOK(seats) ==
  /\ seats \in Seq(Seats)
  /\ Len(seats) <= MaxPlayers
  /\ \A i, j \in 1 .. Len(seats) : seats[i].id = seats[j].id => i = j

RoomTypes ==
  /\ phase \in {"waiting", "playing", "paused", "gameOver", "stopped", "failed"}
  /\ TableOK(players)
  /\ ownerID \in Players \cup {None}
  /\ bag \in 0 .. Tiles /\ board \in 0 .. Tiles
  /\ currentIdx \in Nat /\ scorelessTurns \in 0 .. ScorelessTurnsToEnd
  /\ armed \subseteq {"turn", "shutdown"} \cup Bots
  /\ due \subseteq {"turn", "shutdown"}
  /\ disturbed \in BOOLEAN /\ revived \in BOOLEAN

RoomInv ==
  /\ RoomTypes
  /\ GameInv
  /\ EndInv
  /\ UndisturbedNeverFails
  /\ InGame => Accounted(players, bag, board, ~disturbed)
  /\ EmptyRoomStops

\* Seats that keep their owners.
SameOwners(seats, other) ==
  /\ Len(other) = Len(seats)
  /\ \A i \in 1 .. Len(seats) : other[i].id = seats[i].id

LEMMA OwnersKept ==
  ASSUME NEW seats, TableOK(seats), NEW other \in Seq(Seats), SameOwners(seats, other)
  PROVE TableOK(other) /\ Humans(other) = Humans(seats)
BY DEF TableOK, SameOwners, Humans

\* The bot whose turn begins is a bot.
LEMMA BotMoves ==
  ASSUME NEW seats, NEW idx
  PROVE BotMove(seats, idx) \subseteq Bots
BY DEF BotMove

LEMMA PanicKeeps ==
  ASSUME RoomInv, InGame, disturbed, Panics
  PROVE RoomInv'
<1>1. /\ phase' = "failed" /\ armed' = {} /\ due' = {}
      /\ UNCHANGED gameVars /\ UNCHANGED <<disturbed, revived>>
  BY DEF Panics, Ends
<1> QED
  BY <1>1 DEF RoomInv, RoomTypes, GameInv, EndInv, UndisturbedNeverFails, InGame,
       EmptyRoomStops, Running

LEMMA EndTurnKeeps ==
  ASSUME RoomInv, phase = "playing", HasCurrent,
         NEW seats \in Seq(Seats), SameOwners(players, seats),
         \A i \in 1 .. Len(players) : seats[i].rack = None => players[i].rack = None,
         NEW left \in Nat, NEW laid \in Nat, left <= bag,
         left + laid + Total(seats) = bag + Total(players),
         NEW scoreless \in 0 .. ScorelessTurnsToEnd,
         NEW pending \in SUBSET due,
         EndTurn(seats, left, laid, scoreless, pending)
  PROVE RoomInv'
<1> DEFINE racks == {seats[i].rack : i \in 1 .. Len(seats)}
<1> DEFINE cutOff == scoreless >= ScorelessTurnsToEnd
<1>t. TableOK(players) /\ TableOK(seats) /\ Humans(seats) = Humans(players)
  BY OwnersKept DEF RoomInv, RoomTypes
<1>n. Len(seats) \in Nat /\ Len(seats) > 0 /\ Len(seats) = Len(players) /\ currentIdx \in Nat
  BY SeatTypes DEF SameOwners, HasCurrent, RoomInv, RoomTypes
<1>1. CASE Panics /\ None \in racks
  <2>1. disturbed
    BY <1>1, <1>n DEF RoomInv, RoomTypes, GameInv, InGame
  <2> QED
    BY <1>1, <2>1, PanicKeeps DEF InGame
<1>2. CASE /\ players' = seats /\ bag' = left /\ board' = board + laid
           /\ scorelessTurns' = scoreless /\ due' = pending
           /\ IF cutOff \/ (left = 0 /\ 0 \in racks)
              THEN EnterGameOver
              ELSE /\ BeginTurn(seats, (currentIdx + 1) % Len(seats), armed \ {"turn"})
                   /\ UNCHANGED phase
           /\ UNCHANGED <<ownerID, disturbed, revived>>
  <2>0. /\ Total(players) \in Nat /\ Total(seats) \in Nat
        /\ bag \in Nat /\ board \in Nat /\ Tiles \in Nat
    BY <1>t, TotalNat, RoomAssumption DEF RoomInv, RoomTypes, TableOK
  <2>1. /\ left + (board + laid) + Total(seats) = bag + board + Total(players)
        /\ Total(players') = Total(seats)
    <3>1. left + (board + laid) + Total(seats) = bag + board + Total(players)
      BY <2>0, SMTT(30)
    <3>2. players' = seats
      BY <1>2
    <3> QED
      BY <3>1, <3>2
  <2>2. Accounted(players', bag', board', ~disturbed')
    BY <1>2, <2>1 DEF RoomInv, Accounted, InGame
  <2>3. bag' \in 0 .. Tiles /\ board' \in 0 .. Tiles
    <3>1. left + (board + laid) + Total(seats) <= Tiles
      BY <2>1 DEF RoomInv, Accounted, InGame
    <3>2. left \in 0 .. Tiles /\ board + laid \in 0 .. Tiles
      BY <2>0, <3>1
    <3> QED
      BY <1>2, <3>2
  <2>4. EmptyRoomStops'
    BY <1>2, <1>t DEF RoomInv, EmptyRoomStops
  <2>5. CASE EnterGameOver
    <3>1. /\ phase' = "gameOver" /\ currentIdx' = currentIdx
          /\ armed' \subseteq armed \cup {"shutdown"}
      BY <2>5 DEF EnterGameOver
    <3>2. RoomTypes'
      BY <1>2, <1>t, <1>n, <2>3, <3>1 DEF RoomInv, RoomTypes
    <3> QED
      BY <1>2, <2>2, <2>4, <3>1, <3>2
        DEF RoomInv, GameInv, EndInv, UndisturbedNeverFails, InGame, Running
  <2>6. CASE /\ BeginTurn(seats, (currentIdx + 1) % Len(seats), armed \ {"turn"})
             /\ UNCHANGED phase /\ ~cutOff
    <3>1. /\ phase' = "playing" /\ currentIdx' = (currentIdx + 1) % Len(seats)
          /\ armed' \subseteq armed \cup {"turn"} \cup Bots
      BY <2>6, BotMoves DEF BeginTurn
    <3>2. currentIdx' \in 0 .. Len(seats) - 1
      BY <1>n, <3>1
    <3>3. RoomTypes'
      BY <1>2, <1>t, <1>n, <2>3, <3>1, <3>2 DEF RoomInv, RoomTypes
    <3>4. scoreless < ScorelessTurnsToEnd
      BY <2>6, RoomAssumption
    <3>5. ~disturbed => \A i \in 1 .. Len(seats) : seats[i].rack # None
      BY <1>n DEF RoomInv, GameInv, InGame
    <3>6. GameInv'
      BY <1>2, <1>n, <3>1, <3>2, <3>4, <3>5 DEF GameInv, HasCurrent
    <3> QED
      BY <1>2, <2>2, <2>4, <3>1, <3>3, <3>6
        DEF RoomInv, EndInv, UndisturbedNeverFails, InGame, Running
  <2> QED
    BY <1>2, <2>5, <2>6
<1> QED
  BY <1>1, <1>2 DEF EndTurn

LEMMA StartGameKeeps ==
  ASSUME RoomInv, phase \in {"waiting", "gameOver"}, Len(players) >= MinPlayers,
         StartGame, UNCHANGED <<ownerID, due>>, revived' \in BOOLEAN,
         ownerID # None /\ Humans(players) = {} => revived'
  PROVE RoomInv'
<1>t. TableOK(players) /\ players \in Seq(Seats) /\ Len(players) \in Nat /\ Len(players) > 0
  BY SeatTypes, RoomAssumption DEF RoomInv, RoomTypes, TableOK
<1>1. /\ players' = [i \in 1 .. Len(players) |->
                       [players[i] EXCEPT !.rack = Dealt(i) - Dealt(i - 1)]]
      /\ bag' = Tiles - Dealt(Len(players)) /\ board' = 0 /\ scorelessTurns' = 0
      /\ phase' = "playing" /\ disturbed' = FALSE
      /\ BeginTurn(players, 0, armed \ {"shutdown"})
  BY DEF StartGame, Dealt
<1>2. /\ currentIdx' = 0
      /\ armed' \subseteq armed \cup {"turn"} \cup Bots
  BY <1>1, BotMoves DEF BeginTurn
<1>3. ASSUME NEW i \in 1 .. Len(players)
      PROVE /\ players'[i] \in Seats /\ players'[i].id = players[i].id
            /\ players'[i].rack = Dealt(i) - Dealt(i - 1)
            /\ players'[i].rack # None
  <2>1. PICK k \in Nat : i = k + 1 /\ i - 1 = k
    BY <1>t
  <2>2. Dealt(i) - Dealt(i - 1) \in 0 .. RackSize
    BY <2>1, DealtProperties
  <2>3. players[i] \in Seats
    BY <1>t, SeatTypes
  <2>4. players'[i] = [players[i] EXCEPT !.rack = Dealt(i) - Dealt(i - 1)]
    BY <1>1
  <2>5. \A n \in 0 .. RackSize : n # None
    BY RoomAssumption
  <2> QED
    BY <2>2, <2>3, <2>4, <2>5 DEF Seats
<1>4. players' \in Seq(Seats) /\ Len(players') = Len(players)
  <2>1. DOMAIN players' = 1 .. Len(players)
    BY <1>1
  <2>2. players' \in [1 .. Len(players) -> Seats]
    BY <1>1, <1>3, <2>1
  <2>3. players' \in Seq(Seats)
    BY <1>t, <2>2, IsASeq
  <2> QED
    BY <1>t, <2>1, <2>3, LenProperties
<1>5. TableOK(players') /\ Humans(players') = Humans(players)
  BY <1>t, <1>3, <1>4, OwnersKept DEF SameOwners
<1>6. Total(players') = Dealt(Len(players))
  BY <1>3, <1>4, TotalDealt
<1>7. Dealt(Len(players)) \in 0 .. Tiles
  BY <1>t, DealtProperties
<1>8. Accounted(players', bag', board', ~disturbed') /\ bag' \in 0 .. Tiles
  BY <1>1, <1>6, <1>7, RoomAssumption DEF Accounted
<1>9. RoomTypes'
  <2>1. board' \in 0 .. Tiles /\ scorelessTurns' \in 0 .. ScorelessTurnsToEnd
        /\ currentIdx' \in Nat
    BY <1>1, <1>2, RoomAssumption
  <2>2. /\ phase' \in {"waiting", "playing", "paused", "gameOver", "stopped", "failed"}
        /\ disturbed' \in BOOLEAN
        /\ armed' \subseteq {"turn", "shutdown"} \cup Bots
    BY <1>1, <1>2 DEF RoomInv, RoomTypes
  <2> QED
    BY <1>5, <1>8, <2>1, <2>2 DEF RoomInv, RoomTypes
<1>10. GameInv'
  BY <1>1, <1>2, <1>3, <1>4, <1>t, RoomAssumption DEF GameInv, HasCurrent
<1>11. EmptyRoomStops'
  BY <1>5 DEF EmptyRoomStops
<1> QED
  BY <1>1, <1>8, <1>9, <1>10, <1>11
    DEF RoomInv, EndInv, UndisturbedNeverFails, InGame, Running

LEMMA PassKeeps ==
  ASSUME RoomInv, phase = "playing", HasCurrent,
         NEW pending \in SUBSET due, ApplyPass(pending)
  PROVE RoomInv'
<1>1. players \in Seq(Seats) /\ SameOwners(players, players)
  BY DEF RoomInv, RoomTypes, TableOK, SameOwners
<1>2. scorelessTurns + 1 \in 0 .. ScorelessTurnsToEnd
  BY RoomAssumption DEF RoomInv, RoomTypes, GameInv, InGame
<1>3. bag \in Nat /\ 0 \in Nat /\ bag <= bag /\ Total(players) \in Nat
  BY <1>1, TotalNat, RoomAssumption DEF RoomInv, RoomTypes
<1>4. bag + 0 + Total(players) = bag + Total(players)
  BY <1>3
<1>5. EndTurn(players, bag, 0, scorelessTurns + 1, pending)
  BY DEF ApplyPass
<1> QED
  BY <1>1, <1>2, <1>3, <1>4, <1>5, EndTurnKeeps

LEMMA PlaceKeeps ==
  ASSUME RoomInv, phase = "playing", HasCurrent, ApplyPlace
  PROVE RoomInv'
<1>t. players \in Seq(Seats) /\ bag \in Nat /\ currentIdx \in Nat
  BY RoomAssumption DEF RoomInv, RoomTypes, TableOK
<1>1. PICK k \in 1 .. Len(players) : k = currentIdx + 1
  BY <1>t, SeatTypes DEF HasCurrent
<1>2. current = players[k] /\ players[k] \in Seats
  BY <1>t, <1>1, SeatTypes DEF current
<1>3. CASE current.rack = None
  <2>1. disturbed /\ Panics
    BY <1>2, <1>3 DEF ApplyPlace, RoomInv, RoomTypes, GameInv, InGame
  <2> QED
    BY <2>1, PanicKeeps DEF InGame
<1>4. CASE current.rack # None
  <2>1. PICK rack \in 0 .. RackSize : rack = players[k].rack
    BY <1>2, <1>4 DEF Seats
  <2>2. PICK laid \in 1 .. rack :
          LET drawn == Min({RackSize - (rack - laid), bag})
          IN EndTurn([players EXCEPT ![k].rack = @ - laid + drawn],
                     bag - drawn, laid, 0, due)
    BY <1>1, <1>2, <1>4, <2>1 DEF ApplyPlace
  <2>3. PICK drawn : drawn = Min({RackSize - (rack - laid), bag})
    OBVIOUS
  <2>4. /\ drawn \in Nat /\ drawn <= bag
        /\ rack - laid + drawn \in 0 .. RackSize
        /\ laid \in Nat /\ rack \in Nat
    <3>1. RackSize \in Nat /\ rack \in Nat /\ laid \in Nat /\ laid <= rack /\ rack <= RackSize
      BY RoomAssumption
    <3>2. RackSize - (rack - laid) \in Int /\ bag \in Int
      BY <1>t, <3>1
    <3>3. drawn = IF RackSize - (rack - laid) <= bag THEN RackSize - (rack - laid) ELSE bag
      BY <2>3, <3>2, MinOf
    <3> QED
      BY <1>t, <3>1, <3>3
  <2>5. PICK seats : seats = [players EXCEPT ![k].rack = @ - laid + drawn]
    OBVIOUS
  <2>6. EndTurn(seats, bag - drawn, laid, 0, due)
    BY <2>2, <2>3, <2>5
  <2>7. /\ seats[k] \in Seats /\ seats[k].rack = rack - laid + drawn
        /\ seats[k].id = players[k].id
        /\ \A i \in 1 .. Len(players) : i # k => seats[i] = players[i]
    BY <1>2, <1>t, <2>1, <2>4, <2>5, LenProperties DEF Seats
  <2>8. seats \in Seq(Seats) /\ Len(seats) = Len(players)
    BY <1>t, <2>5, <2>7, ExceptSeq
  <2>9. SameOwners(players, seats)
    BY <2>7, <2>8 DEF SameOwners
  <2>10. \A i \in 1 .. Len(players) : seats[i].rack = None => players[i].rack = None
    BY <2>4, <2>7, RoomAssumption
  <2>11. RackOf(players[k]) = rack /\ RackOf(seats[k]) = rack - laid + drawn
    BY <1>4, <1>2, <2>1, <2>4, <2>7, RoomAssumption DEF RackOf
  <2>12. Total(seats) = Total(players) + (rack - laid + drawn) - rack
         /\ Total(players) \in Nat
    BY <1>t, <2>7, <2>8, <2>11, TotalChange, TotalNat
  <2>13. /\ (bag - drawn) + laid + Total(seats) = bag + Total(players)
         /\ bag - drawn \in Nat /\ bag - drawn <= bag
    BY <1>t, <2>4, <2>12
  <2>14. 0 \in 0 .. ScorelessTurnsToEnd
    BY RoomAssumption
  <2> QED
    BY <2>4, <2>6, <2>8, <2>9, <2>10, <2>13, <2>14, EndTurnKeeps
<1> QED
  BY <1>3, <1>4

LEMMA ExchangeKeeps ==
  ASSUME RoomInv, phase = "playing", HasCurrent, ApplyExchange
  PROVE RoomInv'
<1>1. CASE current.rack = None
  <2>1. currentIdx + 1 \in 1 .. Len(players)
    BY SeatTypes DEF HasCurrent, RoomInv, RoomTypes, TableOK
  <2>2. disturbed /\ Panics
    BY <1>1, <2>1 DEF ApplyExchange, current, RoomInv, RoomTypes, GameInv, InGame
  <2> QED
    BY <2>2, PanicKeeps DEF InGame
<1>2. CASE current.rack # None
  BY <1>2, PassKeeps DEF ApplyExchange
<1> QED
  BY <1>1, <1>2

\* A turn, of whoever and however it ends.
LEMMA TurnsKeep ==
  ASSUME RoomInv,
         \/ PlayTurn
         \/ TurnTimeout
         \/ \E b \in Bots : BotPlay(b)
         \/ UNCHANGED roomVars
  PROVE RoomInv'
<1>0. CASE UNCHANGED roomVars
  BY <1>0 DEF RoomInv, RoomTypes, GameInv, EndInv, UndisturbedNeverFails, EmptyRoomStops,
       InGame, HasCurrent, Running
<1>1. CASE PlayTurn
  BY <1>1, PassKeeps, PlaceKeeps, ExchangeKeeps DEF PlayTurn
<1>2. ASSUME NEW b \in Bots, BotPlay(b) PROVE RoomInv'
  BY <1>0, <1>2, PassKeeps, PlaceKeeps DEF BotPlay, HandleBotPlay
<1>3. CASE TurnTimeout
  <2>1. CASE phase = "playing" /\ HasCurrent
    <3>1. ApplyPass(due \ {"turn"})
      BY <1>3, <2>1 DEF TurnTimeout
    <3> QED
      BY <2>1, <3>1, PassKeeps
  <2>2. CASE phase = "playing" /\ ~HasCurrent
    <3>1. Panics /\ disturbed
      BY <1>3, <2>2 DEF TurnTimeout, RoomInv, RoomTypes, GameInv, InGame
    <3> QED
      BY <2>2, <3>1, PanicKeeps DEF InGame
  <2>3. CASE phase # "playing"
    <3>1. /\ due' = due \ {"turn"} /\ UNCHANGED <<phase, gameVars, armed, disturbed, revived>>
      BY <1>3, <2>3 DEF TurnTimeout
    <3> QED
      BY <3>1 DEF RoomInv, RoomTypes, GameInv, EndInv, UndisturbedNeverFails,
           EmptyRoomStops, InGame, HasCurrent, Running
  <2> QED
    BY <2>1, <2>2, <2>3
<1> QED
  BY <1>0, <1>1, <1>2, <1>3

-----------------------------------------------------------------------------
(* Players and bots come and go *)

LEMMA TakeSeatKeeps ==
  ASSUME RoomInv, Running, NEW s \in Sessions, TakeSeat(s),
         Seated(Owner[s]) \/ Len(players) < MaxPlayers,
         UNCHANGED <<phase, bag, board, currentIdx, scorelessTurns, armed, due, revived>>
  PROVE RoomInv'
<1>t. /\ TableOK(players) /\ players \in Seq(Seats) /\ Len(players) \in Nat
      /\ Owner[s] \in Players /\ MaxPlayers \in Nat
  BY SeatTypes, RoomAssumption DEF RoomInv, RoomTypes, TableOK
<1>1. CASE Seated(Owner[s])
  <2>1. /\ players' = [i \in 1 .. Len(players) |->
                         IF players[i].id = Owner[s]
                         THEN [players[i] EXCEPT !.session = s] ELSE players[i]]
        /\ UNCHANGED <<ownerID, disturbed>>
    BY <1>1 DEF TakeSeat
  <2>2. ASSUME NEW i \in 1 .. Len(players)
        PROVE /\ players'[i] \in Seats /\ players'[i].id = players[i].id
              /\ players'[i].rack = players[i].rack
    <3>1. players[i] \in Seats
      BY <1>t, SeatTypes
    <3> QED
      BY <2>1, <3>1 DEF Seats
  <2>3. players' \in Seq(Seats) /\ Len(players') = Len(players)
    <3>1. DOMAIN players' = 1 .. Len(players)
      BY <2>1
    <3>2. players' \in [1 .. Len(players) -> Seats]
      BY <2>1, <2>2, <3>1
    <3>3. players' \in Seq(Seats)
      BY <1>t, <3>2, IsASeq
    <3> QED
      BY <1>t, <3>1, <3>3, LenProperties
  <2>4. TableOK(players') /\ Humans(players') = Humans(players)
    BY <1>t, <2>2, <2>3, OwnersKept DEF SameOwners
  <2>5. Total(players') = Total(players)
    BY <1>t, <2>2, <2>3, TotalSame DEF RackOf
  <2>6. GameInv'
    BY <2>1, <2>2, <2>3 DEF RoomInv, GameInv, InGame, HasCurrent
  <2> QED
    BY <2>1, <2>4, <2>5, <2>6 DEF RoomInv, RoomTypes, EndInv, UndisturbedNeverFails,
         EmptyRoomStops, InGame, Running, Accounted
<1>2. CASE ~Seated(Owner[s])
  <2>1. PICK seat : seat = [id |-> Owner[s], session |-> s, rack |-> None]
    OBVIOUS
  <2>2. seat \in Seats /\ seat.rack = None /\ seat.id = Owner[s]
    BY <1>t, <2>1 DEF Seats
  <2>3. /\ players' = Append(players, seat)
        /\ ownerID' \in Players \cup {None}
        /\ disturbed' = (disturbed \/ phase \in {"playing", "paused"})
    BY <1>2, <1>t, <2>1 DEF TakeSeat, RoomInv, RoomTypes
  <2>4. /\ players' \in Seq(Seats) /\ Len(players') = Len(players) + 1
        /\ \A i \in 1 .. Len(players) : players'[i] = players[i]
        /\ players'[Len(players) + 1] = seat
    BY <1>t, <2>2, <2>3, AppendProperties
  <2>5. TableOK(players')
    <3>1. \A i \in 1 .. Len(players) : players[i].id # Owner[s]
      BY <1>2 DEF Seated
    <3>2. \A i, j \in 1 .. Len(players) : players[i].id = players[j].id => i = j
      BY <1>t DEF TableOK
    <3>3. ASSUME NEW i \in 1 .. Len(players'), NEW j \in 1 .. Len(players'),
                 players'[i].id = players'[j].id
          PROVE i = j
      <4>1. i \in 1 .. Len(players) \/ i = Len(players) + 1
        BY <1>t, <2>4
      <4>2. j \in 1 .. Len(players) \/ j = Len(players) + 1
        BY <1>t, <2>4
      <4> QED
        BY <2>2, <2>4, <3>1, <3>2, <3>3, <4>1, <4>2
    <3>4. Len(players) < MaxPlayers
      BY <1>2
    <3> QED
      BY <1>t, <2>4, <3>3, <3>4 DEF TableOK
  <2>6. Humans(players') # {}
    <3>1. Len(players) + 1 \in 1 .. Len(players')
      BY <1>t, <2>4
    <3> QED
      BY <1>t, <2>2, <2>4, <3>1 DEF Humans
  <2>7. Total(players') = Total(players) /\ Total(players) \in Nat
    BY <1>t, <2>2, <2>3, TotalAppend, TotalNat
  <2>8. disturbed' \in BOOLEAN
    BY <2>3
  <2>9. GameInv'
    BY <2>3 DEF RoomInv, GameInv, InGame
  <2>10. EmptyRoomStops'
    BY <2>6 DEF EmptyRoomStops
  <2>11. RoomTypes'
    BY <2>3, <2>5, <2>8 DEF RoomInv, RoomTypes
  <2>12. EndInv' /\ UndisturbedNeverFails'
    BY <2>3 DEF RoomInv, EndInv, UndisturbedNeverFails, Running
  <2>13. InGame' => Accounted(players', bag', board', ~disturbed')
    BY <2>3, <2>7 DEF RoomInv, InGame, Accounted
  <2> QED
    BY <2>9, <2>10, <2>11, <2>12, <2>13 DEF RoomInv
<1> QED
  BY <1>1, <1>2

\* A table without one seat.
LEMMA RemovedTable ==
  ASSUME NEW seats, TableOK(seats), NEW k \in 1 .. Len(seats)
  PROVE LET fewer == RemoveAt(seats, k)
        IN /\ TableOK(fewer)
           /\ Len(fewer) = Len(seats) - 1
           /\ Total(fewer) \in Nat /\ Total(fewer) <= Total(seats)
           /\ Humans(fewer) = {} /\ seats[k].id \notin Players => Humans(seats) = {}
<1>t. seats \in Seq(Seats) /\ MaxPlayers \in Nat
  BY RoomAssumption DEF TableOK
<1>1. PICK n \in Nat : Len(seats) = n + 1
  BY <1>t, SeatTypes
<1>2. PICK fewer \in Seq(Seats) : fewer = RemoveAt(seats, k)
  BY <1>t, RemoveAtProperties
<1>3. /\ Len(fewer) = n
      /\ \A i \in 1 .. n : fewer[i] = IF i < k THEN seats[i] ELSE seats[i + 1]
  <2>1. Len(seats) - 1 = n
    BY <1>1
  <2>2. /\ Len(fewer) = Len(seats) - 1
        /\ \A i \in 1 .. Len(seats) - 1 : fewer[i] = IF i < k THEN seats[i] ELSE seats[i + 1]
    BY <1>t, <1>2, RemoveAtProperties
  <2> QED
    BY <2>1, <2>2
<1>4. Total(fewer) \in Nat /\ Total(fewer) <= Total(seats)
  <2>1. Total(fewer) = Total(seats) - RackOf(seats[k])
    BY <1>t, <1>2, TotalRemove
  <2>2. Total(fewer) \in Nat /\ Total(seats) \in Nat /\ RackOf(seats[k]) \in 0 .. RackSize
    BY <1>t, TotalNat, SeatTypes
  <2> QED
    BY <2>1, <2>2, RoomAssumption
<1>5. TableOK(fewer)
  <2>1. ASSUME NEW i \in 1 .. n, NEW j \in 1 .. n, fewer[i].id = fewer[j].id
        PROVE i = j
    <3>1. PICK a \in 1 .. Len(seats) : a = (IF i < k THEN i ELSE i + 1) /\ fewer[i] = seats[a]
      BY <1>1, <1>3
    <3>2. PICK b \in 1 .. Len(seats) : b = (IF j < k THEN j ELSE j + 1) /\ fewer[j] = seats[b]
      BY <1>1, <1>3
    <3>3. a = b
      BY <2>1, <3>1, <3>2 DEF TableOK
    <3> QED
      BY <1>1, <3>1, <3>2, <3>3
  <2> QED
    BY <1>1, <1>3, <1>t, <2>1 DEF TableOK
<1>6. ASSUME Humans(fewer) = {}, seats[k].id \notin Players
      PROVE Humans(seats) = {}
  <2> SUFFICES ASSUME NEW i \in 1 .. Len(seats), seats[i].id \in Players PROVE FALSE
    BY DEF Humans
  <2>1. \A j \in 1 .. n : fewer[j].id \notin Players
    BY <1>3, <1>6 DEF Humans
  <2>2. CASE i < k
    <3>1. i \in 1 .. n
      BY <1>1, <2>2
    <3> QED
      BY <1>3, <2>1, <2>2, <3>1
  <2>3. CASE i > k
    <3>1. i - 1 \in 1 .. n /\ ~(i - 1 < k) /\ (i - 1) + 1 = i
      BY <1>1, <2>3
    <3> QED
      BY <1>3, <2>1, <3>1
  <2>4. CASE i = k
    BY <1>6, <2>4
  <2> QED
    BY <1>1, <2>2, <2>3, <2>4
<1> QED
  BY <1>1, <1>2, <1>3, <1>4, <1>5, <1>6

\* Whoever is at a table without one seat was there before, in another seat.
LEMMA RemovedSeats ==
  ASSUME NEW seats, TableOK(seats), NEW k \in 1 .. Len(seats),
         NEW fewer, fewer = RemoveAt(seats, k)
  PROVE \A i \in 1 .. Len(fewer) : \E j \in 1 .. Len(seats) :
          j # k /\ fewer[i] = seats[j]
<1>1. seats \in Seq(Seats)
  BY DEF TableOK
<1>2. PICK n \in Nat : Len(seats) = n + 1
  BY <1>1, SeatTypes
<1>3. Len(seats) - 1 = n
  BY <1>2
<1>4. /\ Len(fewer) = Len(seats) - 1
      /\ \A i \in 1 .. Len(seats) - 1 : fewer[i] = IF i < k THEN seats[i] ELSE seats[i + 1]
  BY <1>1, RemoveAtProperties
<1>5. /\ Len(fewer) = n
      /\ \A i \in 1 .. n : fewer[i] = IF i < k THEN seats[i] ELSE seats[i + 1]
  BY <1>3, <1>4
<1>6. ASSUME NEW i \in 1 .. n PROVE \E j \in 1 .. Len(seats) : j # k /\ fewer[i] = seats[j]
  <2>1. CASE i < k
    BY <1>2, <1>5, <2>1
  <2>2. CASE ~(i < k)
    <3>1. i + 1 \in 1 .. Len(seats) /\ i + 1 # k
      BY <1>2, <2>2
    <3> QED
      BY <1>5, <2>2, <3>1
  <2> QED
    BY <2>1, <2>2
<1> QED
  BY <1>5, <1>6

LEMMA RemovePlayerKeeps ==
  ASSUME RoomInv, NEW s, RemovePlayer(s)
  PROVE RoomInv'
<1>1. PICK seats \in Without({i \in 1 .. Len(players) : players[i].session = s}) :
        /\ Running
        /\ players' = seats
        /\ disturbed' = (disturbed \/ (phase \in {"playing", "paused"} /\ seats # players))
        /\ IF phase # "gameOver" /\ MaybeShutdown(seats)
           THEN Ends("stopped")
           ELSE UNCHANGED <<phase, armed, due>>
        /\ UNCHANGED <<ownerID, bag, board, currentIdx, scorelessTurns, revived>>
  BY DEF RemovePlayer
<1>2. TableOK(players) /\ players \in Seq(Seats)
  BY DEF RoomInv, RoomTypes, TableOK
<1>3. /\ TableOK(seats) /\ Total(seats) \in Nat /\ Total(players) \in Nat
      /\ Total(seats) <= Total(players)
  <2>1. CASE seats = players
    BY <1>2, <2>1, TotalNat
  <2>2. CASE \E k \in 1 .. Len(players) : seats = RemoveAt(players, k)
    BY <1>2, <2>2, RemovedTable, TotalNat
  <2> QED
    BY <1>1, <2>1, <2>2 DEF Without
<1>4. disturbed' \in BOOLEAN /\ (disturbed => disturbed')
      /\ (InGame /\ ~disturbed' => ~disturbed /\ players' = players)
  BY <1>1 DEF RoomInv, RoomTypes, InGame
<1>5. CASE Ends("stopped")
  <2>1. phase' = "stopped" /\ armed' = {} /\ due' = {}
    BY <1>5 DEF Ends
  <2> QED
    BY <1>1, <1>3, <1>4, <2>1 DEF RoomInv, RoomTypes, GameInv, EndInv, InGame,
         UndisturbedNeverFails, EmptyRoomStops, Running
<1>6. CASE UNCHANGED <<phase, armed, due>> /\ (phase = "gameOver" \/ ~MaybeShutdown(seats))
  <2>1. RoomTypes'
    BY <1>1, <1>3, <1>4, <1>6 DEF RoomInv, RoomTypes
  <2>2. GameInv'
    BY <1>1, <1>4, <1>6 DEF RoomInv, GameInv, InGame, HasCurrent
  <2>3. EmptyRoomStops'
    BY <1>1, <1>6 DEF EmptyRoomStops, MaybeShutdown
  <2>4. InGame' => Accounted(players', bag', board', ~disturbed')
    <3> SUFFICES ASSUME InGame' PROVE Accounted(players', bag', board', ~disturbed')
      OBVIOUS
    <3>1. InGame /\ bag' = bag /\ board' = board /\ players' = seats
      BY <1>1, <1>6 DEF InGame
    <3>2. Accounted(players, bag, board, ~disturbed) /\ bag \in Nat /\ board \in Nat /\ Tiles \in Nat
      BY <3>1, RoomAssumption DEF RoomInv, RoomTypes
    <3>3. bag + board + Total(seats) <= Tiles
      BY <1>3, <3>2 DEF Accounted
    <3>4. ~disturbed' => bag + board + Total(seats) = Tiles
      BY <1>4, <3>1, <3>2 DEF Accounted
    <3> QED
      BY <3>1, <3>3, <3>4 DEF Accounted
  <2>5. EndInv' /\ UndisturbedNeverFails'
    BY <1>1, <1>4, <1>6 DEF RoomInv, EndInv, UndisturbedNeverFails, Running
  <2> QED
    BY <2>1, <2>2, <2>3, <2>4, <2>5 DEF RoomInv
<1> QED
  BY <1>1, <1>5, <1>6

LEMMA AddBotKeeps ==
  ASSUME RoomInv, BotsSit, NEW b \in Bots, AddBot(b)
  PROVE RoomInv'
<1>1. /\ phase = "waiting" /\ ownerID # None /\ Len(players) < MaxPlayers /\ bot[b] = "none"
      /\ UNCHANGED <<phase, ownerID, bag, board, currentIdx, scorelessTurns, armed, due,
                     disturbed, revived>>
  BY DEF AddBot, OwnerAsks
<1>2. PICK seat : seat = [id |-> b, session |-> None, rack |-> None]
  OBVIOUS
<1>3. seat \in Seats /\ seat.id = b
  BY <1>2 DEF Seats
<1>t. /\ TableOK(players) /\ players \in Seq(Seats) /\ Len(players) \in Nat /\ MaxPlayers \in Nat
  BY SeatTypes, RoomAssumption DEF RoomInv, RoomTypes, TableOK
<1>4. /\ players' \in Seq(Seats) /\ Len(players') = Len(players) + 1
      /\ \A i \in 1 .. Len(players) : players'[i] = players[i]
      /\ players'[Len(players) + 1] = seat
  BY <1>t, <1>2, <1>3, AppendProperties DEF AddBot
<1>5. TableOK(players')
  <2>1. \A i \in 1 .. Len(players) : players[i].id # b
    BY <1>1 DEF BotsSit
  <2>2. \A i, j \in 1 .. Len(players) : players[i].id = players[j].id => i = j
    BY <1>t DEF TableOK
  <2>3. ASSUME NEW i \in 1 .. Len(players'), NEW j \in 1 .. Len(players'),
               players'[i].id = players'[j].id
        PROVE i = j
    <3>1. i \in 1 .. Len(players) \/ i = Len(players) + 1
      BY <1>t, <1>4
    <3>2. j \in 1 .. Len(players) \/ j = Len(players) + 1
      BY <1>t, <1>4
    <3> QED
      BY <1>3, <1>4, <2>1, <2>2, <2>3, <3>1, <3>2
  <2> QED
    BY <1>1, <1>t, <1>4, <2>3 DEF TableOK
<1>6. Humans(players') = {} => Humans(players) = {}
  BY <1>t, <1>4 DEF Humans
<1> QED
  BY <1>1, <1>5, <1>6 DEF RoomInv, RoomTypes, GameInv, EndInv, InGame,
       UndisturbedNeverFails, EmptyRoomStops, Running

LEMMA RemoveBotKeeps ==
  ASSUME RoomInv, NEW b \in Bots, RemoveBot(b)
  PROVE RoomInv'
<1>1. /\ phase = "waiting"
      /\ UNCHANGED <<phase, ownerID, bag, board, currentIdx, scorelessTurns, armed, due,
                     disturbed, revived>>
      /\ players' \in Without({i \in 1 .. Len(players) : players[i].id = b})
  BY DEF RemoveBot, OwnerAsks
<1>2. TableOK(players)
  BY DEF RoomInv, RoomTypes
<1>3. TableOK(players') /\ (Humans(players') = {} => Humans(players) = {})
  <2>1. CASE players' = players
    BY <1>2, <2>1
  <2>2. CASE \E k \in 1 .. Len(players) : players[k].id = b /\ players' = RemoveAt(players, k)
    <3>1. PICK k \in 1 .. Len(players) : players[k].id = b /\ players' = RemoveAt(players, k)
      BY <2>2
    <3>2. players[k].id \notin Players
      BY <3>1, RoomAssumption
    <3> QED
      BY <1>2, <3>1, <3>2, RemovedTable
  <2> QED
    BY <1>1, <2>1, <2>2 DEF Without
<1> QED
  BY <1>1, <1>3 DEF RoomInv, RoomTypes, GameInv, EndInv, InGame,
       UndisturbedNeverFails, EmptyRoomStops, Running

-----------------------------------------------------------------------------
(* The other handlers *)

LEMMA ControlsKeep ==
  ASSUME RoomInv,
         \/ Start \/ PauseGame \/ ResumeGame \/ RestartGame \/ ShutdownRoom
         \/ \E timer \in {"turn", "shutdown"} : Fire(timer)
         \/ \E b \in Bots : FireBotMove(b)
  PROVE RoomInv'
<1>1. CASE Start
  BY <1>1, StartGameKeeps DEF Start, OwnerAsks, RoomInv, RoomTypes, EmptyRoomStops
<1>2. CASE PauseGame
  <2>1. /\ phase = "playing" /\ phase' = "paused" /\ armed' \subseteq armed
        /\ UNCHANGED gameVars /\ UNCHANGED <<due, disturbed, revived>>
    BY <1>2 DEF PauseGame
  <2> QED
    BY <2>1 DEF RoomInv, RoomTypes, GameInv, EndInv, InGame, HasCurrent,
         UndisturbedNeverFails, EmptyRoomStops, Running
<1>3. CASE ResumeGame
  <2>1. /\ phase = "paused" /\ phase' = "playing"
        /\ armed' \subseteq armed \cup {"turn"} \cup Bots
        /\ UNCHANGED gameVars /\ UNCHANGED <<due, disturbed, revived>>
    BY <1>3, BotMoves DEF ResumeGame
  <2> QED
    BY <2>1 DEF RoomInv, RoomTypes, GameInv, EndInv, InGame, HasCurrent,
         UndisturbedNeverFails, EmptyRoomStops, Running
<1>4. CASE RestartGame
  <2>1. /\ phase = "gameOver" /\ revived' = (Humans(players) = {})
        /\ UNCHANGED <<ownerID, due>>
    BY <1>4 DEF RestartGame
  <2>2. revived' \in BOOLEAN
    BY <2>1
  <2>3. CASE Len(players) < MinPlayers
    <3>1. /\ phase' = "waiting" /\ armed' = armed \ {"shutdown"}
          /\ UNCHANGED <<players, bag, board, currentIdx, scorelessTurns, disturbed>>
      BY <1>4, <2>3 DEF RestartGame
    <3> QED
      BY <2>1, <2>2, <3>1 DEF RoomInv, RoomTypes, GameInv, EndInv, InGame,
           UndisturbedNeverFails, EmptyRoomStops, Running
  <2>4. CASE ~(Len(players) < MinPlayers)
    <3>1. StartGame
      BY <1>4, <2>4 DEF RestartGame
    <3>2. Len(players) >= MinPlayers
      BY <2>4, SeatTypes, RoomAssumption DEF RoomInv, RoomTypes, TableOK
    <3> QED
      BY <2>1, <2>2, <3>1, <3>2, StartGameKeeps
  <2> QED
    BY <2>3, <2>4
<1>5. CASE ShutdownRoom
  <2>1. /\ UNCHANGED gameVars /\ UNCHANGED <<disturbed, revived>>
        /\ \/ phase' = "stopped" /\ armed' = {} /\ due' = {}
           \/ due' = due \ {"shutdown"} /\ UNCHANGED <<phase, armed>>
    BY <1>5 DEF ShutdownRoom, Ends
  <2> QED
    BY <2>1 DEF RoomInv, RoomTypes, GameInv, EndInv, InGame, HasCurrent,
         UndisturbedNeverFails, EmptyRoomStops, Running
<1>6. ASSUME NEW timer \in {"turn", "shutdown"}, Fire(timer) PROVE RoomInv'
  <2>1. /\ armed' \subseteq armed /\ due' = due \cup {timer} /\ timer \in armed
        /\ UNCHANGED gameVars /\ UNCHANGED <<phase, disturbed, revived>>
    BY <1>6 DEF Fire
  <2> QED
    BY <2>1 DEF RoomInv, RoomTypes, GameInv, EndInv, InGame, HasCurrent,
         UndisturbedNeverFails, EmptyRoomStops, Running
<1>7. ASSUME NEW b \in Bots, FireBotMove(b) PROVE RoomInv'
  <2>1. /\ armed' \subseteq armed
        /\ UNCHANGED gameVars /\ UNCHANGED <<phase, due, disturbed, revived>>
    BY <1>7 DEF FireBotMove
  <2> QED
    BY <2>1 DEF RoomInv, RoomTypes, GameInv, EndInv, InGame, HasCurrent,
         UndisturbedNeverFails, EmptyRoomStops, Running
<1> QED
  BY <1>1, <1>2, <1>3, <1>4, <1>5, <1>6, <1>7

-----------------------------------------------------------------------------
(* The invariant is inductive *)

LEMMA InitInv == Init => IInv
<1> SUFFICES ASSUME Init PROVE IInv
  OBVIOUS
<1> USE DEF Init
<1>1. players \in Seq(Seats) /\ Len(players) = 0
  BY EmptySeq
<1>2. TypeOK
  <2>1. /\ 0 \in 0 .. Tiles /\ 0 \in Nat /\ 0 \in 0 .. ScorelessTurnsToEnd
        /\ 0 \in 0 .. MaxThinking /\ 0 <= MaxPlayers
    BY RoomAssumption
  <2>2. /\ bot \in [Bots -> {"none", "alive", "stopping", "dead"}]
        /\ session \in [Sessions -> {"new", "joined", "dead"}]
        /\ socket \in [Sessions -> {"open", "closed"}]
    OBVIOUS
  <2>3. thinking \in [Bots -> 0 .. MaxThinking]
    BY <2>1
  <2>4. disturbed \in BOOLEAN /\ revived \in BOOLEAN
    OBVIOUS
  <2>5. \A i, j \in 1 .. Len(players) : players[i].id = players[j].id => i = j
    BY <1>1
  <2> QED
    BY <1>1, <2>1, <2>2, <2>3, <2>4, <2>5 DEF TypeOK
<1>3. BotsSit
  BY <1>1 DEF BotsSit
<1>4. GameInv /\ EndInv /\ UndisturbedNeverFails /\ EmptyRoomStops
  BY DEF GameInv, InGame, EndInv, Running, UndisturbedNeverFails, EmptyRoomStops
<1>5. TilesAccounted
  BY DEF TilesAccounted
<1> QED
  BY <1>2, <1>3, <1>4, <1>5 DEF IInv

\* Bots and sessions keep their types.
OthersTyped ==
  /\ bot \in [Bots -> {"none", "alive", "stopping", "dead"}]
  /\ thinking \in [Bots -> 0 .. MaxThinking]
  /\ session \in [Sessions -> {"new", "joined", "dead"}]
  /\ socket \in [Sessions -> {"open", "closed"}]

LEMMA OthersKept ==
  ASSUME OthersTyped, [Next]_vars
  PROVE OthersTyped'
<1>1. CASE UNCHANGED <<botVars, sessionVars>>
  BY <1>1 DEF OthersTyped
<1>2. CASE \/ Start \/ PlayTurn \/ PauseGame \/ ResumeGame \/ RestartGame
           \/ TurnTimeout \/ ShutdownRoom
           \/ \E timer \in {"turn", "shutdown"} : Fire(timer)
  BY <1>1, <1>2 DEF Start, PlayTurn, PauseGame, ResumeGame, RestartGame, TurnTimeout,
       ShutdownRoom, Fire
<1>3. ASSUME NEW b \in Bots, AddBot(b) PROVE OthersTyped'
  BY <1>3 DEF AddBot, OthersTyped
<1>4. ASSUME NEW b \in Bots, RemoveBot(b) PROVE OthersTyped'
  BY <1>4 DEF RemoveBot, OthersTyped
<1>5. ASSUME NEW b \in Bots, FireBotMove(b) PROVE OthersTyped'
  <2>1. /\ thinking' = [thinking EXCEPT ![b] = @ + 1] /\ thinking[b] < MaxThinking
        /\ UNCHANGED <<bot, sessionVars>>
    BY <1>5 DEF FireBotMove
  <2>2. thinking[b] + 1 \in 0 .. MaxThinking
    BY <2>1, RoomAssumption DEF OthersTyped
  <2> QED
    BY <2>1, <2>2 DEF OthersTyped
<1>6. ASSUME NEW b \in Bots, BotPlay(b) PROVE OthersTyped'
  <2>1. /\ thinking' = [thinking EXCEPT ![b] = @ - 1] /\ thinking[b] > 0
        /\ UNCHANGED <<bot, sessionVars>>
    BY <1>6 DEF BotPlay
  <2>2. thinking[b] - 1 \in 0 .. MaxThinking
    BY <2>1, RoomAssumption DEF OthersTyped
  <2> QED
    BY <2>1, <2>2 DEF OthersTyped
<1>7. ASSUME NEW b \in Bots, BotTerminated(b) PROVE OthersTyped'
  BY <1>7 DEF BotTerminated, OthersTyped
<1>8. ASSUME NEW s \in Sessions, PlayerHello(s) PROVE OthersTyped'
  BY <1>8 DEF PlayerHello, OthersTyped
<1>9. ASSUME NEW s \in Sessions, GoodbyePlayer(s) PROVE OthersTyped'
  BY <1>9 DEF GoodbyePlayer, OthersTyped
<1>10. ASSUME NEW s \in Sessions, Terminated(s) PROVE OthersTyped'
  BY <1>10 DEF Terminated, OthersTyped
<1> QED
  BY <1>1, <1>2, <1>3, <1>4, <1>5, <1>6, <1>7, <1>8, <1>9, <1>10 DEF Next

\* Whoever is at the table after a step that leaves the bots alone was there
\* before or is a player.
NoNewBots ==
  \A i \in 1 .. Len(players') :
    players'[i].id \in Bots =>
      \E j \in 1 .. Len(players) : players'[i].id = players[j].id

LEMMA NoNewBotsIn ==
  ASSUME RoomInv,
         \/ Start \/ PlayTurn \/ PauseGame \/ ResumeGame \/ RestartGame
         \/ TurnTimeout \/ ShutdownRoom
         \/ \E timer \in {"turn", "shutdown"} : Fire(timer)
         \/ \E b \in Bots : FireBotMove(b) \/ BotPlay(b) \/ BotTerminated(b)
         \/ \E s \in Sessions : PlayerHello(s) \/ GoodbyePlayer(s) \/ Terminated(s)
         \/ UNCHANGED vars
  PROVE NoNewBots
<1>t. players \in Seq(Seats) /\ Len(players) \in Nat /\ TableOK(players)
  BY SeatTypes DEF RoomInv, RoomTypes, TableOK
<1>0. CASE UNCHANGED players
  BY <1>0 DEF NoNewBots
<1>1. CASE StartGame
  <2>1. players' = [i \in 1 .. Len(players) |->
                      [players[i] EXCEPT !.rack = Dealt(i) - Dealt(i - 1)]]
    BY <1>1 DEF StartGame, Dealt
  <2>2. \A i \in 1 .. Len(players) : players[i] \in Seats
    BY <1>t, SeatTypes
  <2>3. \A i \in 1 .. Len(players) : players'[i].id = players[i].id
    BY <2>1, <2>2 DEF Seats
  <2>4. Len(players') = Len(players)
    BY <1>t, <2>1
  <2> QED
    BY <2>3, <2>4 DEF NoNewBots
<1>2. ASSUME NEW seats, NEW left, NEW laid, NEW scoreless, NEW pending,
             EndTurn(seats, left, laid, scoreless, pending),
             SameOwners(players, seats)
      PROVE NoNewBots
  <2>1. players' = seats \/ players' = players
    BY <1>2 DEF EndTurn, Panics
  <2> QED
    BY <1>0, <1>2, <2>1 DEF NoNewBots, SameOwners
<1>3. CASE \E pending : ApplyPass(pending)
  BY <1>2, <1>3 DEF ApplyPass, SameOwners
<1>4. CASE ApplyPlace /\ HasCurrent
  <2>1. CASE Panics
    BY <1>0, <2>1 DEF Panics
  <2>2. CASE \E laid \in 1 .. current.rack :
               LET drawn == Min({RackSize - (current.rack - laid), bag})
               IN EndTurn([players EXCEPT ![currentIdx + 1].rack = @ - laid + drawn],
                          bag - drawn, laid, 0, due)
    <3>1. PICK laid, drawn :
            EndTurn([players EXCEPT ![currentIdx + 1].rack = @ - laid + drawn],
                    bag - drawn, laid, 0, due)
      BY <2>2
    <3>2. currentIdx + 1 \in 1 .. Len(players)
      BY <1>t, <1>4 DEF HasCurrent, RoomInv, RoomTypes
    <3>3. players[currentIdx + 1] \in Seats
      BY <1>t, <3>2, SeatTypes
    <3>4. SameOwners(players,
            [players EXCEPT ![currentIdx + 1].rack = @ - laid + drawn])
      BY <1>t, <3>2, <3>3, LenProperties DEF SameOwners, Seats
    <3> QED
      BY <1>2, <3>1, <3>4
  <2> QED
    BY <1>4, <2>1, <2>2 DEF ApplyPlace
<1>5. CASE Panics
  BY <1>0, <1>5 DEF Panics
<1>6. ASSUME NEW s \in Sessions, PlayerHello(s) PROVE NoNewBots
  <2>1. CASE TakeSeat(s) /\ Seated(Owner[s])
    <3>1. players' = [i \in 1 .. Len(players) |->
                        IF players[i].id = Owner[s]
                        THEN [players[i] EXCEPT !.session = s] ELSE players[i]]
      BY <2>1 DEF TakeSeat
    <3>2. \A i \in 1 .. Len(players) : players[i] \in Seats
      BY <1>t, SeatTypes
    <3>3. \A i \in 1 .. Len(players) : players'[i].id = players[i].id
      BY <3>1, <3>2 DEF Seats
    <3>4. Len(players') = Len(players)
      BY <1>t, <3>1
    <3> QED
      BY <3>3, <3>4 DEF NoNewBots
  <2>2. CASE TakeSeat(s) /\ ~Seated(Owner[s])
    <3>1. PICK seat : seat = [id |-> Owner[s], session |-> s, rack |-> None]
      OBVIOUS
    <3>2. players' = Append(players, seat) /\ seat \in Seats /\ seat.id \notin Bots
      BY <2>2, <3>1, RoomAssumption DEF TakeSeat, Seats
    <3>3. /\ Len(players') = Len(players) + 1
          /\ \A i \in 1 .. Len(players) : players'[i] = players[i]
          /\ players'[Len(players) + 1] = seat
      BY <1>t, <3>2, AppendProperties
    <3> QED
      BY <1>t, <3>2, <3>3 DEF NoNewBots
  <2> QED
    BY <1>0, <1>6, <2>1, <2>2 DEF PlayerHello
<1>7. ASSUME NEW s, RemovePlayer(s) PROVE NoNewBots
  <2>1. players' \in Without({i \in 1 .. Len(players) : players[i].session = s})
    BY <1>7 DEF RemovePlayer
  <2>2. ASSUME NEW k \in 1 .. Len(players), players' = RemoveAt(players, k)
        PROVE NoNewBots
    <3>1. \A i \in 1 .. Len(players') : \E j \in 1 .. Len(players) :
            players'[i] = players[j]
      BY <1>t, <2>2, RemovedSeats
    <3> QED
      BY <3>1 DEF NoNewBots
  <2> QED
    BY <1>0, <2>1, <2>2 DEF Without
<1>8. CASE Start
  BY <1>1, <1>8 DEF Start
<1>9. CASE PlayTurn
  BY <1>3, <1>4, <1>5, <1>9 DEF PlayTurn, ApplyExchange
<1>10. CASE PauseGame \/ ResumeGame \/ ShutdownRoom \/ UNCHANGED vars
  BY <1>0, <1>10 DEF PauseGame, ResumeGame, ShutdownRoom
<1>11. CASE RestartGame
  BY <1>0, <1>1, <1>11 DEF RestartGame
<1>12. CASE TurnTimeout
  BY <1>0, <1>3, <1>5, <1>12 DEF TurnTimeout
<1>13. CASE \E timer \in {"turn", "shutdown"} : Fire(timer)
  BY <1>0, <1>13 DEF Fire
<1>14. ASSUME NEW b \in Bots, FireBotMove(b) \/ BotPlay(b) \/ BotTerminated(b)
       PROVE NoNewBots
  <2>1. CASE FireBotMove(b)
    BY <1>0, <2>1 DEF FireBotMove
  <2>2. CASE BotPlay(b)
    BY <1>0, <1>3, <1>4, <2>2 DEF BotPlay, HandleBotPlay
  <2>3. CASE BotTerminated(b)
    BY <1>7, <2>3 DEF BotTerminated
  <2> QED
    BY <1>14, <2>1, <2>2, <2>3
<1>15. ASSUME NEW s \in Sessions, GoodbyePlayer(s) \/ Terminated(s) PROVE NoNewBots
  BY <1>7, <1>15 DEF GoodbyePlayer, Terminated
<1> QED
  BY <1>6, <1>8, <1>9, <1>10, <1>11, <1>12, <1>13, <1>14, <1>15

LEMMA BotsStillSit ==
  ASSUME RoomInv, BotsSit, OthersTyped, [Next]_vars
  PROVE BotsSit'
<1>t. players \in Seq(Seats) /\ Len(players) \in Nat /\ TableOK(players)
  BY SeatTypes DEF RoomInv, RoomTypes, TableOK
<1>1. ASSUME NoNewBots, \A b \in Bots : bot[b] = "alive" => bot'[b] = "alive"
      PROVE BotsSit'
  <2> SUFFICES ASSUME NEW i \in 1 .. Len(players'), players'[i].id \in Bots
               PROVE bot'[players'[i].id] = "alive"
    BY DEF BotsSit
  <2>1. PICK j \in 1 .. Len(players) : players'[i].id = players[j].id
    BY <1>1 DEF NoNewBots
  <2>2. bot[players[j].id] = "alive"
    BY <2>1 DEF BotsSit
  <2> QED
    BY <1>1, <2>1, <2>2
<1>2. CASE \/ Start \/ PlayTurn \/ PauseGame \/ ResumeGame \/ RestartGame
           \/ TurnTimeout \/ ShutdownRoom
           \/ \E timer \in {"turn", "shutdown"} : Fire(timer)
           \/ \E b \in Bots : FireBotMove(b) \/ BotPlay(b)
           \/ \E s \in Sessions : PlayerHello(s) \/ GoodbyePlayer(s) \/ Terminated(s)
           \/ UNCHANGED vars
  <2>1. NoNewBots
    BY <1>2, NoNewBotsIn
  <2>2. UNCHANGED bot
    BY <1>2 DEF Start, PlayTurn, PauseGame, ResumeGame, RestartGame, TurnTimeout,
         ShutdownRoom, Fire, FireBotMove, BotPlay, PlayerHello, GoodbyePlayer, Terminated
  <2> QED
    BY <1>1, <2>1, <2>2
<1>3. ASSUME NEW b \in Bots, BotTerminated(b) PROVE BotsSit'
  <2>1. NoNewBots
    BY <1>3, NoNewBotsIn
  <2>2. bot[b] = "stopping" /\ bot' = [bot EXCEPT ![b] = "dead"]
    BY <1>3 DEF BotTerminated
  <2> QED
    BY <1>1, <2>1, <2>2 DEF OthersTyped
<1>4. ASSUME NEW b \in Bots, AddBot(b) PROVE BotsSit'
  <2>1. PICK seat : seat = [id |-> b, session |-> None, rack |-> None]
    OBVIOUS
  <2>2. /\ players' = Append(players, seat) /\ seat \in Seats /\ seat.id = b
        /\ bot' = [bot EXCEPT ![b] = "alive"]
    BY <1>4, <2>1 DEF AddBot, Seats
  <2>3. /\ Len(players') = Len(players) + 1
        /\ \A i \in 1 .. Len(players) : players'[i] = players[i]
        /\ players'[Len(players) + 1] = seat
    BY <1>t, <2>2, AppendProperties
  <2>4. bot'[b] = "alive" /\ \A c \in Bots : bot[c] = "alive" => bot'[c] = "alive"
    BY <2>2 DEF OthersTyped
  <2> SUFFICES ASSUME NEW i \in 1 .. Len(players'), players'[i].id \in Bots
               PROVE bot'[players'[i].id] = "alive"
    BY DEF BotsSit
  <2>5. i \in 1 .. Len(players) \/ i = Len(players) + 1
    BY <1>t, <2>3
  <2> QED
    BY <2>2, <2>3, <2>4, <2>5 DEF BotsSit
<1>5. ASSUME NEW b \in Bots, RemoveBot(b) PROVE BotsSit'
  <2>1. /\ bot' = [bot EXCEPT ![b] = "stopping"]
        /\ Seated(b)
        /\ players' \in Without({i \in 1 .. Len(players) : players[i].id = b})
    BY <1>5 DEF RemoveBot
  <2>2. PICK k \in 1 .. Len(players) : players[k].id = b /\ players' = RemoveAt(players, k)
    BY <2>1 DEF Without, Seated
  <2>3. \A i \in 1 .. Len(players') : \E j \in 1 .. Len(players) :
          j # k /\ players'[i] = players[j]
    BY <1>t, <2>2, RemovedSeats
  <2> SUFFICES ASSUME NEW i \in 1 .. Len(players'), players'[i].id \in Bots
               PROVE bot'[players'[i].id] = "alive"
    BY DEF BotsSit
  <2>4. PICK j \in 1 .. Len(players) : j # k /\ players'[i] = players[j]
    BY <2>3
  <2>5. players[j].id # b
    BY <1>t, <2>2, <2>4 DEF TableOK
  <2>6. bot[players[j].id] = "alive"
    BY <2>4 DEF BotsSit
  <2> QED
    BY <2>1, <2>4, <2>5, <2>6 DEF OthersTyped
<1> QED
  BY <1>2, <1>3, <1>4, <1>5 DEF Next

LEMMA RoomKept ==
  ASSUME RoomInv, BotsSit, [Next]_vars
  PROVE RoomInv'
<1>1. CASE UNCHANGED roomVars
  BY <1>1, TurnsKeep
<1>2. CASE \/ Start \/ PauseGame \/ ResumeGame \/ RestartGame \/ ShutdownRoom
           \/ \E timer \in {"turn", "shutdown"} : Fire(timer)
           \/ \E b \in Bots : FireBotMove(b)
  BY <1>2, ControlsKeep
<1>3. CASE PlayTurn \/ TurnTimeout \/ \E b \in Bots : BotPlay(b)
  BY <1>3, TurnsKeep
<1>4. ASSUME NEW b \in Bots, AddBot(b) PROVE RoomInv'
  BY <1>4, AddBotKeeps
<1>5. ASSUME NEW b \in Bots, RemoveBot(b) PROVE RoomInv'
  BY <1>5, RemoveBotKeeps
<1>6. ASSUME NEW b \in Bots, BotTerminated(b) PROVE RoomInv'
  BY <1>6, RemovePlayerKeeps DEF BotTerminated
<1>7. ASSUME NEW s \in Sessions, GoodbyePlayer(s) \/ Terminated(s) PROVE RoomInv'
  BY <1>7, RemovePlayerKeeps DEF GoodbyePlayer, Terminated
<1>8. ASSUME NEW s \in Sessions, PlayerHello(s) PROVE RoomInv'
  <2>1. CASE Seated(Owner[s]) \/ Len(players) < MaxPlayers
    BY <1>8, <2>1, TakeSeatKeeps DEF PlayerHello
  <2>2. CASE ~(Seated(Owner[s]) \/ Len(players) < MaxPlayers)
    BY <1>1, <1>8, <2>2 DEF PlayerHello
  <2> QED
    BY <2>1, <2>2
<1> QED
  BY <1>1, <1>2, <1>3, <1>4, <1>5, <1>6, <1>7, <1>8 DEF Next

\* The account of the run's property is that of the lemmas.
LEMMA AccountIs ==
  TilesAccounted <=> (InGame => Accounted(players, bag, board, ~disturbed))
<1>1. SumFunction([i \in 1 .. Len(players) |->
        IF players[i].rack = None THEN 0 ELSE players[i].rack]) = Total(players)
  BY TotalIs
<1> QED
  BY <1>1 DEF TilesAccounted, InGame, Accounted

LEMMA Parts == IInv <=> RoomInv /\ BotsSit /\ OthersTyped
<1>1. TypeOK <=> RoomTypes /\ OthersTyped
  BY DEF TypeOK, RoomTypes, OthersTyped, TableOK
<1> QED
  BY <1>1, AccountIs DEF IInv, RoomInv

LEMMA NextInv == IInv /\ [Next]_vars => IInv'
<1> SUFFICES ASSUME IInv, [Next]_vars PROVE IInv'
  OBVIOUS
<1>1. RoomInv /\ BotsSit /\ OthersTyped
  BY Parts
<1>2. RoomInv' /\ BotsSit' /\ OthersTyped'
  BY <1>1, RoomKept, BotsStillSit, OthersKept
<1>3. (RoomInv /\ BotsSit /\ OthersTyped => IInv)'
  BY Parts, PTL
<1> QED
  BY <1>2, <1>3

\* The invariant holds in every room.
THEOREM Invariance == Spec => []IInv
  BY InitInv, NextInv, PTL DEF Spec

\* Every variable keeps its kind of value, nobody sits at the table twice, and
\* at most MaxPlayers do, however joins, leaves and owner's inputs are ordered
\* (addPlayer, addBot, removeBot, removePlayerByName).
THEOREM TypeCorrect == Spec => []TypeOK
<1>1. IInv => TypeOK
  BY DEF IInv
<1> QED
  BY <1>1, Invariance, PTL

\* A game that nobody joined or left does not panic: currentPlayer finds a seat
\* and FinalScores a rack in each, whatever timers, bots and inputs do.
THEOREM NeverFails == Spec => []UndisturbedNeverFails
<1>1. IInv => UndisturbedNeverFails
  BY DEF IInv
<1> QED
  BY <1>1, Invariance, PTL

\* No tile is made by dealing, laying, refilling or exchanging, for any number
\* of tiles and seats, and none is lost while nobody joins or leaves (StartGame,
\* applyPlace, applyExchange).
THEOREM TilesKept == Spec => []TilesAccounted
<1>1. IInv => TilesAccounted
  BY DEF IInv
<1> QED
  BY <1>1, Invariance, PTL

\* A room the last human has left stops, unless a game had ended in it
\* (maybeShutdown).
THEOREM EmptyRoomsStop == Spec => []EmptyRoomStops
<1>1. IInv => EmptyRoomStops
  BY DEF IInv
<1> QED
  BY <1>1, Invariance, PTL
=============================================================================
