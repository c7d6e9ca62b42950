---------------------------- MODULE TetrisMatch ----------------------------
(***************************************************************************)
(* goakt-tetris, one connection: the gateway, the matchmaker singleton, the*)
(* PlayerSessionActor and the MatchActor, which may be on another node.    *)
(* Connections share nothing, so one is enough.  TetrisGame has the game.  *)
(*                                                                         *)
(* The session's Subscribe and the gateway's Unsubscribe come from two     *)
(* senders and may reach the match in either order.  Inputs and snapshots  *)
(* change nothing here and are left out, but for the write that fails.     *)
(***************************************************************************)
EXTENDS Naturals

VARIABLES
  gateway,       \* asking (the matchmaker), resolving, reading, done
  session,       \* the PlayerSessionActor: none, starting, running, stopped
  match,         \* the MatchActor: none, running, stopped
  remote,        \* the match is on another node
  subscribed,    \* subs has the session
  hadSubscriber, watching,
  scheduled,     \* the match's tick is in the scheduler
  mail,          \* under way: Subscribe, Unsubscribe, Terminated, closed
  lost           \* history: a message to another node was lost
vars == <<gateway, session, match, remote, subscribed, hadSubscriber, watching,
          scheduled, mail, lost>>
matchVars == <<match, remote, subscribed, hadSubscriber, watching, scheduled>>

Init ==
  /\ gateway = "asking"
  /\ session = "none"
  /\ match = "none"
  /\ remote = FALSE
  /\ subscribed = FALSE
  /\ hadSubscriber = FALSE
  /\ watching = FALSE
  /\ scheduled = FALSE
  /\ mail = {}
  /\ lost = FALSE

-----------------------------------------------------------------------------
(* The gateway and the matchmaker *)

\* CreateMatch: SpawnOn places the match and its PostStart schedules the tick.
\* The gateway may have stopped waiting for the answer by then.
CreateMatch ==
  /\ gateway = "asking"
  /\ gateway' \in {"resolving", "done"}
  /\ match' = "running"
  /\ remote' \in BOOLEAN
  /\ scheduled' = TRUE
  /\ UNCHANGED <<session, subscribed, hadSubscriber, watching, mail, lost>>

\* The matchmaker cannot be found, or SpawnOn fails.
MatchmakerFails ==
  /\ gateway = "asking"
  /\ gateway' = "done"
  /\ UNCHANGED <<session, matchVars, mail, lost>>

\* requestMatch gives up looking for the match.
ResolveTimesOut ==
  /\ gateway = "resolving"
  /\ gateway' = "done"
  /\ UNCHANGED <<session, matchVars, mail, lost>>

\* The match is found and the session spawned.
SpawnSession ==
  /\ gateway = "resolving"
  /\ match = "running"
  /\ gateway' = "reading"
  /\ session' = "starting"
  /\ UNCHANGED <<matchVars, mail, lost>>

\* ctx.Shutdown; PostStop cancels the schedule.
StopMatch ==
  /\ match' = "stopped"
  /\ scheduled' = FALSE

\* The session cannot be spawned: the gateway stops the match.
SpawnSessionFails ==
  /\ gateway = "resolving"
  /\ match = "running"
  /\ gateway' = "done"
  /\ StopMatch
  /\ UNCHANGED <<session, remote, subscribed, hadSubscriber, watching, mail, lost>>

\* The read ends: Unsubscribe to the match, then closed to the session.
ReadEnds ==
  /\ gateway = "reading"
  /\ gateway' = "done"
  /\ mail' = mail \cup {"Unsubscribe", "closed"}
  /\ UNCHANGED <<session, matchVars, lost>>

-----------------------------------------------------------------------------
(* The session *)

\* PostStart
SessionStarts ==
  /\ session = "starting"
  /\ session' = "running"
  /\ mail' = mail \cup {"Subscribe"}
  /\ UNCHANGED <<gateway, matchVars, lost>>

\* The end of a session is reported to a match that watches it.
StopSession(left) ==
  /\ session = "running"
  /\ session' = "stopped"
  /\ mail' = left \cup IF watching THEN {"Terminated"} ELSE {}
  /\ UNCHANGED <<gateway, matchVars, lost>>

\* A snapshot cannot be written; the connection is broken and the read ends too.
WriteFails == hadSubscriber /\ StopSession(mail)

HandleClosed == "closed" \in mail /\ StopSession(mail \ {"closed"})

-----------------------------------------------------------------------------
(* The match *)

\* Watch works for actors of the same node that are alive.
HandleSubscribe ==
  /\ "Subscribe" \in mail
  /\ match = "running"
  /\ mail' = mail \ {"Subscribe"}
  /\ subscribed' = TRUE
  /\ hadSubscriber' = TRUE
  /\ watching' = (~remote /\ session = "running")
  /\ UNCHANGED <<gateway, session, match, remote, scheduled, lost>>

\* maybeShutdown
MaybeShutdown ==
  IF hadSubscriber /\ ~subscribed' THEN StopMatch ELSE UNCHANGED <<match, scheduled>>

\* Mutant: the match waits for Terminated.
HandleUnsubscribeOnly ==
  /\ "Unsubscribe" \in mail
  /\ match = "running"
  /\ mail' = mail \ {"Unsubscribe"}
  /\ subscribed' = FALSE
  /\ UNCHANGED <<gateway, session, match, remote, hadSubscriber, watching, scheduled, lost>>

\* removeSubscriberByName
HandleUnsubscribe ==
  /\ "Unsubscribe" \in mail
  /\ match = "running"
  /\ mail' = mail \ {"Unsubscribe"}
  /\ subscribed' = FALSE
  /\ MaybeShutdown
  /\ UNCHANGED <<gateway, session, remote, hadSubscriber, watching, lost>>

\* removeSubscriberByPath
HandleTerminated ==
  /\ "Terminated" \in mail
  /\ match = "running"
  /\ mail' = mail \ {"Terminated"}
  /\ subscribed' = FALSE
  /\ MaybeShutdown
  /\ UNCHANGED <<gateway, session, remote, hadSubscriber, watching, lost>>

\* The match's node goes down; relocation is disabled.
NodeDies ==
  /\ match = "running"
  /\ remote
  /\ StopMatch
  /\ UNCHANGED <<gateway, session, remote, subscribed, hadSubscriber, watching, mail, lost>>

\* A message to another node is lost; the senders ignore the error.
LoseMail ==
  /\ remote
  /\ \E m \in mail \cap {"Subscribe", "Unsubscribe"} : mail' = mail \ {m}
  /\ lost' = TRUE
  /\ UNCHANGED <<gateway, session, matchVars>>

Next ==
  \/ CreateMatch \/ MatchmakerFails \/ ResolveTimesOut
  \/ SpawnSession \/ SpawnSessionFails \/ ReadEnds
  \/ SessionStarts \/ WriteFails \/ HandleClosed
  \/ HandleSubscribe \/ HandleUnsubscribe \/ HandleTerminated
  \/ NodeDies \/ LoseMail

\* Actors handle their mail, and a broken connection ends the read.
Fairness ==
  /\ WF_vars(SessionStarts)
  /\ WF_vars(HandleClosed)
  /\ WF_vars(HandleSubscribe)
  /\ WF_vars(HandleUnsubscribe)
  /\ WF_vars(HandleTerminated)
  /\ WF_vars(session = "stopped" /\ ReadEnds)

Spec == Init /\ [][Next]_vars /\ Fairness

-----------------------------------------------------------------------------
(* Properties *)

\* The ways in which the code leaves a match running for nobody: the gateway
\* gave up before there was a session; Subscribe was handled after Unsubscribe
\* and the match cannot see the session end; a message was lost on the way.
Orphaned ==
  \/ session = "none"
  \/ subscribed /\ "Unsubscribe" \notin mail /\ ~watching
  \/ lost

\* When the connection has ended, the match stops and takes its tick with it,
\* wherever it runs and whichever of the gateway's Unsubscribe and the runtime's
\* Terminated comes first, unless it is orphaned (wsHandler, maybeShutdown).
MatchEndsWithConnection ==
  gateway = "done" ~> (match # "running" /\ ~scheduled) \/ Orphaned
=============================================================================
