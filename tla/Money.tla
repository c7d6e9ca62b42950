------------------------------- MODULE Money -------------------------------
(***************************************************************************)
(* Amounts of money.  The programs calculate with float64 and let clients  *)
(* give any number; the tables keep numeric(19, 2).  An amount is counted  *)
(* in a unit of which there are `cent` in a cent, so that it may have a    *)
(* fraction of a cent that a row has no room for.                          *)
(***************************************************************************)
EXTENDS Integers

\* What a numeric(19, 2) column keeps of an amount: the nearest number of
\* cents, and the one further from zero if two are as near.
ToNumeric(x, cent) ==
  IF x < 0 THEN -(cent * ((cent - 2 * x) \div (2 * cent)))
           ELSE cent * ((cent + 2 * x) \div (2 * cent))
=============================================================================
