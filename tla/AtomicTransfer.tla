--------------------------- MODULE AtomicTransfer ---------------------------
(***************************************************************************)
(* What the two-phase commit example promises of a transfer, with neither  *)
(* messages nor actors: the two sides of a transfer vote, one irrevocable  *)
(* decision is taken, money moves on a side at most once and only after a  *)
(* commit decision, and the client is told only what was decided.          *)
(* TwoPhaseCommit is shown to implement this specification.                *)
(***************************************************************************)
CONSTANT Transfers   \* the transfers the clients may ask for

VARIABLES
  voted,     \* voted[t]: the sides of t that have voted YES
  decision,  \* decision[t]: what the coordinator of t decided
  moved,     \* moved[t]: the sides of t whose balance was changed
  answer     \* answer[t]: what the HTTP client of t was told

vars == <<voted, decision, moved, answer>>

Sides == {"debit", "credit"}

Init ==
  /\ voted = [t \in Transfers |-> {}]
  /\ decision = [t \in Transfers |-> "undecided"]
  /\ moved = [t \in Transfers |-> {}]
  /\ answer = [t \in Transfers |-> "none"]

Request(t) ==
  /\ answer[t] = "none"
  /\ answer' = [answer EXCEPT ![t] = "waiting"]
  /\ UNCHANGED <<voted, decision, moved>>

Vote(t, s) ==
  /\ s \notin voted[t]
  /\ voted' = [voted EXCEPT ![t] = @ \cup {s}]
  /\ UNCHANGED <<decision, moved, answer>>

Commit(t) ==
  /\ decision[t] = "undecided"
  /\ voted[t] = Sides
  /\ decision' = [decision EXCEPT ![t] = "commit"]
  /\ UNCHANGED <<voted, moved, answer>>

\* The decision to abort and the answer that announces it are one step.
Abort(t) ==
  /\ decision[t] = "undecided"
  /\ decision' = [decision EXCEPT ![t] = "abort"]
  /\ answer' = [answer EXCEPT ![t] = IF @ = "waiting" THEN "failed" ELSE @]
  /\ UNCHANGED <<voted, moved>>

Move(t, s) ==
  /\ decision[t] = "commit"
  /\ s \in voted[t] \ moved[t]
  /\ moved' = [moved EXCEPT ![t] = @ \cup {s}]
  /\ UNCHANGED <<voted, decision, answer>>

Complete(t) ==
  /\ decision[t] = "commit"
  /\ answer[t] = "waiting"
  /\ answer' = [answer EXCEPT ![t] = "completed"]
  /\ UNCHANGED <<voted, decision, moved>>

\* The client stops waiting, whatever becomes of the transfer.
GiveUp(t) ==
  /\ answer[t] = "waiting"
  /\ answer' = [answer EXCEPT ![t] = "error"]
  /\ UNCHANGED <<voted, decision, moved>>

Next ==
  \E t \in Transfers :
    \/ Request(t) \/ Commit(t) \/ Abort(t) \/ Complete(t) \/ GiveUp(t)
    \/ \E s \in Sides : Vote(t, s) \/ Move(t, s)

Spec == Init /\ [][Next]_vars
=============================================================================
