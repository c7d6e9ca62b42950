------------------------------- MODULE MCSaga -------------------------------
(***************************************************************************)
(* The instance of Saga that TLC checks.                                   *)
(***************************************************************************)
EXTENDS Saga

\* An account is opened with a cent, or half a cent in debt; clients credit it
\* with half a cent, or take that by a negative amount.
CentOrDebt == {-1, 2}
HalfCents == {-1, 1}
=============================================================================
