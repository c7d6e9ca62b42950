------------------------ MODULE CompensatedTransfer ------------------------
(***************************************************************************)
(* What the saga example promises of a transfer.  A transfer is debited,   *)
(* credited and refunded at most once each.  It goes forward, and then is  *)
(* completed, or fails, after a compensation if its debit was confirmed.   *)
(* Nothing is promised of a request that outlives its step: a debit, a     *)
(* credit or a refund may still take effect, or never, after the transfer  *)
(* has failed.  Saga is shown to implement this specification.             *)
(***************************************************************************)
CONSTANT Transfers   \* the transfers the clients may ask for

VARIABLES
  applied,  \* applied[t]: which of debit, credit and refund took effect
  phase,    \* phase[t]: how far the orchestrator of t has come
  answer    \* answer[t]: what the HTTP client of t was told

vars == <<applied, phase, answer>>

Init ==
  /\ applied = [t \in Transfers |-> {}]
  /\ phase = [t \in Transfers |-> "debiting"]
  /\ answer = [t \in Transfers |-> "none"]

Advance(t, from, to) ==
  /\ phase[t] = from
  /\ phase' = [phase EXCEPT ![t] = to]

Tell(t, r) ==
  answer' = [answer EXCEPT ![t] = IF @ = "waiting" THEN r ELSE @]

Request(t) ==
  /\ answer[t] = "none"
  /\ answer' = [answer EXCEPT ![t] = "waiting"]
  /\ UNCHANGED <<applied, phase>>

\* The client stops waiting, whatever becomes of the transfer.
GiveUp(t) ==
  /\ answer[t] = "waiting"
  /\ answer' = [answer EXCEPT ![t] = "error"]
  /\ UNCHANGED <<applied, phase>>

Apply(t, effect) ==
  /\ effect \notin applied[t]
  /\ applied' = [applied EXCEPT ![t] = @ \cup {effect}]
  /\ UNCHANGED <<phase, answer>>

Debit(t) == phase[t] \in {"debiting", "failed"} /\ Apply(t, "debit")
Credit(t) == phase[t] \in {"crediting", "compensating", "failed"}
               /\ "debit" \in applied[t] /\ Apply(t, "credit")
Refund(t) == phase[t] \in {"compensating", "failed"}
               /\ "debit" \in applied[t] /\ Apply(t, "refund")

\* The debit is confirmed: money is under way until the transfer is completed
\* or compensated.
Confirm(t) ==
  /\ Advance(t, "debiting", "crediting")
  /\ applied[t] = {"debit"}
  /\ UNCHANGED <<applied, answer>>

Complete(t) ==
  /\ Advance(t, "crediting", "completed")
  /\ applied[t] = {"debit", "credit"}
  /\ Tell(t, "completed")
  /\ UNCHANGED applied

Compensate(t) ==
  /\ Advance(t, "crediting", "compensating")
  /\ UNCHANGED <<applied, answer>>

Fail(t) ==
  /\ \/ Advance(t, "debiting", "failed") \/ Advance(t, "compensating", "failed")
  /\ Tell(t, "failed")
  /\ UNCHANGED applied

Next ==
  \E t \in Transfers :
    \/ Request(t) \/ GiveUp(t)
    \/ Debit(t) \/ Credit(t) \/ Refund(t)
    \/ Confirm(t) \/ Complete(t) \/ Compensate(t) \/ Fail(t)

Spec == Init /\ [][Next]_vars
=============================================================================
