---------------------------- MODULE GameResults ----------------------------
(***************************************************************************)
(* goakt-scrabble and goakt-pictograph: what a room records when a game is *)
(* over.  Background tasks tell each player's profile grain, which keeps   *)
(* its state in a store, and count the win in the leaderboard, a counter   *)
(* per player and an index of the players, both replicated to every node.  *)
(* Scrabble has one leaderboard per language, independent of each other,   *)
(* and bots, which win like players but have no profile.                   *)
(*                                                                         *)
(* Names and scores are left out.  The store is the one in Postgres; the   *)
(* map in memory does the same on one node.                                *)
(***************************************************************************)
EXTENDS Integers, FiniteSetsExt, Functions

CONSTANTS
  Players, Bots, Nodes, None,
  MaxGames   \* bound: games that are finished

Table == Players \cup Bots
NoProfile == [games |-> 0, wins |-> 0]

VARIABLES
  store,     \* player -> profile in the store
  grain,     \* player -> the state of the activated grain, or None
  counter,   \* node -> player -> node -> increments of the PNCounter
  index,     \* node -> the ORSet of players
  tasks,     \* background tasks under way
  played,    \* history: player or bot -> games and wins
  disturbed  \* history: some step failed
vars == <<store, grain, counter, index, tasks, played, disturbed>>

Init ==
  /\ store = [p \in Players |-> NoProfile]
  /\ grain = [p \in Players |-> None]
  /\ counter = [n \in Nodes |-> [p \in Table |-> [m \in Nodes |-> 0]]]
  /\ index = [n \in Nodes |-> {}]
  /\ tasks = {}
  /\ played = [p \in Table |-> NoProfile]
  /\ disturbed = FALSE

Plus(profile, won) ==
  [games |-> profile.games + 1, wins |-> profile.wins + IF won THEN 1 ELSE 0]

-----------------------------------------------------------------------------

\* recordResults: a game ends in a room of this node, with a winner or without.
RecordResults(node) ==
  LET game == Max({played[p].games : p \in Table}) IN
  \E winner \in Table \cup {None} :
    /\ game < MaxGames
    /\ played' = [p \in Table |-> Plus(played[p], p = winner)]
    /\ tasks' = tasks
         \cup {[type |-> "profile", game |-> game, player |-> p, won |-> p = winner] :
                 p \in Players}
         \cup {[type |-> "increment", game |-> game, player |-> p, node |-> node] :
                 p \in {winner} \ {None}}
    /\ UNCHANGED <<store, grain, counter, index, disturbed>>

\* Something goes wrong.  Bound: once.
Disturb == ~disturbed /\ disturbed' = TRUE

\* TellGrain wakes the grain up: OnActivate; a load that fails leaves a fresh
\* profile.
Activate(p) ==
  /\ \E task \in tasks : task.type = "profile" /\ task.player = p
  /\ grain[p] = None
  /\ \/ grain' = [grain EXCEPT ![p] = store[p]] /\ UNCHANGED disturbed
     \/ grain' = [grain EXCEPT ![p] = NoProfile] /\ Disturb
  /\ UNCHANGED <<store, counter, index, tasks, played>>

\* OnDeactivate; a save that fails is logged.
Deactivate(p) ==
  /\ grain[p] # None
  /\ grain' = [grain EXCEPT ![p] = None]
  /\ \/ store' = [store EXCEPT ![p] = grain[p]] /\ UNCHANGED disturbed
     \/ store' = store /\ Disturb
  /\ UNCHANGED <<counter, index, tasks, played>>

\* OnReceive, RecordGame
RecordGame(task) ==
  /\ task.type = "profile"
  /\ grain[task.player] # None
  /\ grain' = [grain EXCEPT ![task.player] = Plus(@, task.won)]
  /\ tasks' = tasks \ {task}
  /\ UNCHANGED <<store, counter, index, played, disturbed>>

\* Mutant: all nodes count under one id.
IncrementAsOne(task) ==
  LET one == CHOOSE n \in Nodes : TRUE IN
  /\ task.type = "increment"
  /\ counter' = [counter EXCEPT ![task.node][task.player][one] = @ + 1]
  /\ tasks' = (tasks \ {task}) \cup {[task EXCEPT !.type = "index"]}
  /\ UNCHANGED <<store, grain, index, played, disturbed>>

\* RecordWin, the first update, and the second is next.
Increment(task) ==
  LET n == task.node IN
  /\ task.type = "increment"
  /\ counter' = [counter EXCEPT ![n][task.player][n] = @ + 1]
  /\ tasks' = (tasks \ {task}) \cup {[task EXCEPT !.type = "index"]}
  /\ UNCHANGED <<store, grain, index, played, disturbed>>

\* RecordWin, the second update.
AddToIndex(task) ==
  /\ task.type = "index"
  /\ index' = [index EXCEPT ![task.node] = @ \cup {task.player}]
  /\ tasks' = tasks \ {task}
  /\ UNCHANGED <<store, grain, counter, played, disturbed>>

\* A grain cannot be told or an update is not answered: the task ends here.
TaskFails(task) ==
  /\ tasks' = tasks \ {task}
  /\ Disturb
  /\ UNCHANGED <<store, grain, counter, index, played>>

\* The replicator's gossip, one key at a time.
GossipCounter(from, to, p) ==
  /\ counter' = [counter EXCEPT ![to][p] =
                   [m \in Nodes |-> Max({counter[to][p][m], counter[from][p][m]})]]
  /\ UNCHANGED <<store, grain, index, tasks, played, disturbed>>
GossipIndex(from, to) ==
  /\ index' = [index EXCEPT ![to] = @ \cup index[from]]
  /\ UNCHANGED <<store, grain, counter, tasks, played, disturbed>>

Next ==
  \/ \E node \in Nodes : RecordResults(node)
  \/ \E p \in Players : Activate(p) \/ Deactivate(p)
  \/ \E task \in tasks :
       RecordGame(task) \/ Increment(task) \/ AddToIndex(task) \/ TaskFails(task)
  \/ \E from \in Nodes : \E to \in Nodes \ {from} :
       GossipIndex(from, to) \/ \E p \in Table : GossipCounter(from, to, p)

Spec == Init /\ [][Next]_vars

-----------------------------------------------------------------------------
(* Properties *)

\* Top: the players the index of a node lists, with their wins there.
Top(node) == [p \in index[node] |-> SumFunctionOnSet(counter[node][p], Nodes)]

\* The profile as GetProfile or the next activation gives it.
Profile(p) == IF grain[p] = None THEN store[p] ELSE grain[p]

\* No node ever shows more wins, and no profile more games, than were played.
\* When the tasks of all games are through and no step failed, every profile has
\* exactly what was played, and every node lists exactly the winners with their
\* wins once gossip has made the nodes equal, in whatever order the tasks of
\* rooms on different nodes, activations and gossip came (recordResults,
\* RecordWin, Top).
ResultsAgree ==
  /\ \A p \in Players : Profile(p).games <= played[p].games
  /\ \A n \in Nodes : \A p \in index[n] : Top(n)[p] <= played[p].wins
  /\ tasks = {} /\ ~disturbed =>
       /\ \A p \in Players : Profile(p) = played[p]
       /\ \A n \in Nodes :
            (\A m \in Nodes : counter[m] = counter[n] /\ index[m] = index[n]) =>
              Top(n) = [p \in {q \in Table : played[q].wins > 0} |-> played[p].wins]
=============================================================================
