----------------------------- MODULE DsSession -----------------------------
(***************************************************************************)
(* What DsCamp and DsSpawn share of a session of the camp: it lasts from   *)
(* one POP row to the next, which /ds tod stores (cmd_ds.py).              *)
(***************************************************************************)
EXTENDS Integers

CONSTANTS
  TodGap,      \* during which a second tod is refused (5 minutes)
  TodBlind,    \* what rounds to 0.0 minutes (3 seconds), and so counts as none
  MaxClock     \* bound: the clock

VARIABLES
  clock,     \* datetime.now()
  lastPop    \* the time of the last POP row

\* tod is refused for a while after a POP, but not at once.
TodAllowed == clock - lastPop >= TodGap \/ clock - lastPop \in 0 .. TodBlind
=============================================================================
