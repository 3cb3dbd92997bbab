------------------------- MODULE MCTicketLifecycle -------------------------
(***************************************************************************)
(* Small instances of TicketLifecycle.                                      *)
(***************************************************************************)
EXTENDS TicketLifecycle, TLC

CONSTANTS t1, t2, t3, w1, w2, waker, checker, c1

\* No operation looks at an edited column: its values are alike.
DetailsAlike == Permutations(Details)

\* The custom statuses of the instances, in the category solved or open.
OneCategory == [c \in CustomStatuses |-> "solved"]
OpenCategory == [c \in CustomStatuses |-> "open"]

\* Everything in one process: nothing overlaps.
OneProc == {w1}
OneProcDuties == [p \in OneProc |-> DutyNames]

\* Two request handlers that also run the rules.
TwoProcs == {w1, w2}
TwoProcDuties == [p \in TwoProcs |-> {"requests", "rules"}]

\* A request handler beside the two tickers.
Tickers == {w1, waker, checker}
TickerDuties == [p \in Tickers |->
  CASE p = waker -> {"wake"} [] p = checker -> {"sla"} [] OTHER -> {"requests"}]
=============================================================================
