------------------------------- MODULE Timers -------------------------------
(***************************************************************************)
(* The timers of roboToald: the rows of db/models/timer.py, the tasks that *)
(* discord_client/commands/cmd_timer.py keeps for them in TIMERS, and      *)
(* load_timers, which makes the tasks anew when a process starts.  A timer  *)
(* started before load_timers has read the rows gets a second task, and    *)
(* TIMERS forgets the first.                                               *)
(*                                                                         *)
(* All timers belong to one user, since the quota of MyBase.store counts   *)
(* the rows of a user, and have the same period.                           *)
(***************************************************************************)
EXTENDS Integers, FiniteSets

CONSTANTS
  Timer,     \* timers, by id
  OneShot,   \* those started with repeating = FALSE
  Period,    \* seconds of a timer, in ticks
  Quota,     \* how many rows a user may have for store to accept another
  Faults,    \* TRUE: crashes, sends and fetches that fail
  NoRow,     \* the row does not exist
  MaxClock   \* bound: ticks that pass

ASSUME TimerAssumption ==
  /\ OneShot \subseteq Timer
  /\ Period \in Nat \ {0}
  /\ Quota \in Nat
  /\ Faults \in BOOLEAN
  /\ NoRow \notin Int
  /\ MaxClock \in Nat

VARIABLES
  clock,    \* time.time()
  first,    \* first_run of each timer, 0: never started
  row,      \* next_run of each row
  phase,    \* of the process: "up" before and "loading" in load_timers
  listed,   \* next_run of the rows load_timers has read and not come to
  timers,   \* TIMERS: which task of each timer it holds, 0: none
  at,       \* the tasks: "none" has not begun, is cancelled or has ended
  next,     \* next_time_int of each task
  early,    \* history: timers this process started before load_timers
  stopped,  \* history: timers that were stopped
  raced,    \* history: timers stopped between load_timers' read and their turn
  fired     \* history: timers that fired

tableVars == <<first, row>>
loadVars == <<phase, listed>>
taskVars == <<timers, at, next>>
history == <<early, stopped, raced, fired>>
vars == <<clock, tableVars, loadVars, taskVars, history>>

Own == 1   \* the task made by _start
Made == 2  \* the task made by load_timers
Maker == {Own, Made}

Time == Nat \cup {NoRow}

TypeOK ==
  /\ clock \in Nat
  /\ first \in [Timer -> Nat]
  /\ row \in [Timer -> Time]
  /\ phase \in {"down", "up", "loading", "ready", "failed"}
  /\ listed \in [Timer -> Time]
  /\ timers \in [Timer -> {0} \cup Maker]
  /\ at \in [Timer -> [Maker -> {"none", "sleep", "send"}]]
  /\ next \in [Timer -> [Maker -> Nat]]
  /\ early \in SUBSET Timer
  /\ stopped \in SUBSET Timer
  /\ raced \in SUBSET Timer
  /\ fired \in SUBSET Timer

Nothing == [t \in Timer |-> NoRow]
NoTask == [t \in Timer |-> [g \in Maker |-> "none"]]

Init ==
  /\ clock = 0
  /\ first = [t \in Timer |-> 0]
  /\ row = Nothing
  /\ phase = "up"
  /\ listed = Nothing
  /\ timers = [t \in Timer |-> 0]
  /\ at = NoTask
  /\ next = [t \in Timer |-> [g \in Maker |-> 0]]
  /\ early = {}
  /\ stopped = {}
  /\ raced = {}
  /\ fired = {}

Exists(t) == row[t] # NoRow

\* MyBase.store raises QuotaExceeded, for a row that is new or is not.
OverQuota == Cardinality({t \in Timer : Exists(t)}) > Quota

Tick ==
  /\ clock < MaxClock
  /\ clock' = clock + 1
  /\ UNCHANGED <<tableVars, loadVars, taskVars, history>>

-----------------------------------------------------------------------------
(* Commands *)

\* _start stores the row and creates the task; the id is new.  Over the quota it
\* raises and nothing happens.
Start(t, time) ==
  /\ phase # "down"
  /\ first[t] = 0
  /\ ~OverQuota
  /\ first' = [first EXCEPT ![t] = time]
  /\ row' = [row EXCEPT ![t] = time]
  /\ timers' = [timers EXCEPT ![t] = Own]
  /\ at' = [at EXCEPT ![t][Own] = "sleep"]
  /\ next' = [next EXCEPT ![t][Own] = time]
  /\ early' = IF phase = "up" THEN early \cup {t} ELSE early
  /\ UNCHANGED <<clock, loadVars, stopped, raced, fired>>

\* What _stop does to the tasks: the one in TIMERS is cancelled.
Cancelled(t) ==
  [at EXCEPT ![t] = [g \in Maker |-> IF g = timers[t] THEN "none" ELSE @[g]]]

\* Mutant: the row is deleted only with a task.
MutStop(t) ==
  /\ phase # "down"
  /\ first[t] # 0
  /\ row' = IF timers[t] = 0 THEN row ELSE [row EXCEPT ![t] = NoRow]
  /\ at' = Cancelled(t)
  /\ timers' = [timers EXCEPT ![t] = 0]
  /\ stopped' = stopped \cup {t}
  /\ raced' = IF listed[t] # NoRow THEN raced \cup {t} ELSE raced
  /\ UNCHANGED <<clock, first, loadVars, next, early, fired>>

\* _stop deletes the row if there is one, and cancels the task if TIMERS has one.
Stop(t) ==
  /\ phase # "down"
  /\ first[t] # 0
  /\ row' = [row EXCEPT ![t] = NoRow]
  /\ at' = Cancelled(t)
  /\ timers' = [timers EXCEPT ![t] = 0]
  /\ stopped' = stopped \cup {t}
  /\ raced' = IF listed[t] # NoRow THEN raced \cup {t} ELSE raced
  /\ UNCHANGED <<clock, first, loadVars, next, early, fired>>

-----------------------------------------------------------------------------
(* Tasks: repeat_every_x_seconds *)

Due(t, g) == at[t][g] = "sleep" /\ next[t][g] <= clock

FireRepeating(t, g) ==
  /\ Due(t, g) /\ t \notin OneShot
  /\ Exists(t) /\ ~OverQuota
  /\ next' = [next EXCEPT ![t][g] = @ + Period]
  /\ row' = [row EXCEPT ![t] = next[t][g] + Period]
  /\ at' = [at EXCEPT ![t][g] = "send"]
  /\ fired' = fired \cup {t}
  /\ UNCHANGED <<clock, first, loadVars, timers, early, stopped, raced>>

\* Mutant: the row of a timer that is over is kept.
MutFireOneShot(t, g) ==
  /\ Due(t, g) /\ t \in OneShot
  /\ Exists(t)
  /\ at' = [at EXCEPT ![t][g] = "send"]
  /\ fired' = fired \cup {t}
  /\ UNCHANGED <<clock, tableVars, loadVars, timers, next, early, stopped, raced>>

FireOneShot(t, g) ==
  /\ Due(t, g) /\ t \in OneShot
  /\ Exists(t)
  /\ row' = [row EXCEPT ![t] = NoRow]
  /\ at' = [at EXCEPT ![t][g] = "send"]
  /\ fired' = fired \cup {t}
  /\ UNCHANGED <<clock, first, loadVars, timers, next, early, stopped, raced>>

\* The row is gone, or the store of a next_run is over the quota: the task
\* raises, and nobody takes it from TIMERS.
FireFails(t, g) ==
  /\ Due(t, g)
  /\ ~Exists(t) \/ (t \notin OneShot /\ OverQuota)
  /\ at' = [at EXCEPT ![t][g] = "none"]
  /\ UNCHANGED <<clock, tableVars, loadVars, timers, next, history>>

\* The message is out, and a repeating timer sleeps again.
Sleep(t, g) ==
  /\ at[t][g] = "send" /\ t \notin OneShot
  /\ at' = [at EXCEPT ![t][g] = "sleep"]
  /\ UNCHANGED <<clock, tableVars, loadVars, timers, next, history>>

\* The others end and take what TIMERS holds from it.
End(t, g) ==
  /\ at[t][g] = "send" /\ t \in OneShot
  /\ at' = [at EXCEPT ![t][g] = "none"]
  /\ timers' = [timers EXCEPT ![t] = 0]
  /\ UNCHANGED <<clock, tableVars, loadVars, next, history>>

\* channel.send raises: the task ends and nobody takes it from TIMERS.
SendFails(t, g) ==
  /\ Faults
  /\ at[t][g] = "send"
  /\ at' = [at EXCEPT ![t][g] = "none"]
  /\ UNCHANGED <<clock, tableVars, loadVars, timers, next, history>>

-----------------------------------------------------------------------------
(* The process *)

Crash ==
  /\ Faults
  /\ phase' = "down"
  /\ listed' = Nothing
  /\ timers' = [t \in Timer |-> 0]
  /\ at' = NoTask
  /\ early' = {}
  /\ UNCHANGED <<clock, tableVars, next, stopped, raced, fired>>

Boot ==
  /\ phase = "down"
  /\ phase' = "up"
  /\ UNCHANGED <<clock, tableVars, listed, taskVars, history>>

\* The first on_ready of the process; later ones do nothing.
Load ==
  /\ phase = "up"
  /\ phase' = "loading"
  /\ listed' = row
  /\ UNCHANGED <<clock, tableVars, taskVars, history>>

\* Mutant: the period starts again with the process.
MutCaughtUp(time) == IF time <= clock THEN clock + Period ELSE time

\* Whole periods are added until the next run is not past.
CaughtUp(time) ==
  IF time <= clock THEN time + ((clock - time) \div Period + 1) * Period ELSE time

\* A timer that does not repeat and should have fired is deleted.
LoadMissed(t) ==
  /\ listed[t] # NoRow /\ listed[t] <= clock
  /\ t \in OneShot
  /\ Exists(t)
  /\ row' = [row EXCEPT ![t] = NoRow]
  /\ listed' = [listed EXCEPT ![t] = NoRow]
  /\ UNCHANGED <<clock, first, phase, taskVars, history>>

\* The others get a task; store writes the row, also one deleted since the read.
LoadTimer(t) ==
  /\ listed[t] # NoRow
  /\ t \in OneShot => listed[t] > clock
  /\ ~OverQuota
  /\ row' = [row EXCEPT ![t] = CaughtUp(listed[t])]
  /\ timers' = [timers EXCEPT ![t] = Made]
  /\ at' = [at EXCEPT ![t][Made] = "sleep"]
  /\ next' = [next EXCEPT ![t][Made] = CaughtUp(listed[t])]
  /\ listed' = [listed EXCEPT ![t] = NoRow]
  /\ UNCHANGED <<clock, first, phase, history>>

\* What raises ends load_timers for good: a fetch of the channel, a deletion of
\* what is gone, a store over the quota.
LoadFails(t) ==
  /\ listed[t] # NoRow
  /\ \/ Faults
     \/ t \in OneShot /\ listed[t] <= clock /\ ~Exists(t)
     \/ (t \in OneShot => listed[t] > clock) /\ OverQuota
  /\ phase' = "failed"
  /\ listed' = Nothing
  /\ UNCHANGED <<clock, tableVars, taskVars, history>>

LoadEnds ==
  /\ phase = "loading"
  /\ listed = Nothing
  /\ phase' = "ready"
  /\ UNCHANGED <<clock, tableVars, listed, taskVars, history>>
-----------------------------------------------------------------------------
Running(t, g) ==
  \/ FireRepeating(t, g) \/ FireOneShot(t, g) \/ FireFails(t, g)
  \/ Sleep(t, g) \/ End(t, g) \/ SendFails(t, g)

Next ==
  \/ Tick \/ Crash \/ Boot \/ Load \/ LoadEnds
  \/ \E t \in Timer :
       \/ \E time \in clock + 1 .. clock + 2 * Period : Start(t, time)
       \/ Stop(t)
       \/ \E g \in Maker : Running(t, g)
       \/ LoadMissed(t) \/ LoadTimer(t) \/ LoadFails(t)

Spec == Init /\ [][Next]_vars

-----------------------------------------------------------------------------
(* Properties *)

(***************************************************************************)
(* A timer that was stopped is gone for good, through restarts, unless it  *)
(* was stopped while load_timers held its row (_stop): without a row no    *)
(* task of it fires.                                                       *)
(***************************************************************************)
StopIsFinal ==
  \A t \in stopped \ raced : ~Exists(t) /\ timers[t] = 0 /\ listed[t] = NoRow

(***************************************************************************)
(* While a task sleeps, the row says when it will fire, so that a new      *)
(* process goes on where this one was (repeat_every_x_seconds); the two    *)
(* tasks of a timer that was started early overtake each other.            *)
(***************************************************************************)
RowSaysNext ==
  \A t \in Timer \ early, g \in Maker :
    at[t][g] = "sleep" => row[t] = next[t][g]

(***************************************************************************)
(* Once load_timers has ended, each row has its entry in TIMERS: what is   *)
(* listed can be stopped.                                                  *)
(***************************************************************************)
RowsAreLoaded ==
  \A t \in Timer :
    Exists(t) => \/ timers[t] # 0
                 \/ phase = "loading" /\ listed[t] # NoRow
                 \/ phase \in {"down", "up", "failed"}

\* Whole periods after the first run.
InStep(t, time) == \E k \in 0 .. time : time = first[t] + k * Period

(***************************************************************************)
(* A timer fires at its first run plus whole periods, whatever delays,     *)
(* failures and restarts come between (repeat_every_x_seconds adds the     *)
(* period to the time it was due, and load_timers whole periods).          *)
(***************************************************************************)
OnGrid ==
  \A t \in Timer :
    /\ Exists(t) => InStep(t, row[t])
    /\ listed[t] # NoRow => InStep(t, listed[t])
    /\ \A g \in Maker : at[t][g] # "none" => InStep(t, next[t][g])

\* What was never started has no row and no task.
Unstarted ==
  \A t \in Timer : first[t] = 0 =>
    /\ ~Exists(t) /\ listed[t] = NoRow /\ timers[t] = 0
    /\ t \notin stopped \cup fired
    /\ \A g \in Maker : at[t][g] = "none"

\* TIMERS holds the only task of a timer that was not started early, and none
\* before load_timers has come to it.
Held ==
  \A t \in Timer \ early :
    /\ \A g \in Maker : at[t][g] # "none" => timers[t] = g
    /\ phase \in {"down", "up"} \/ listed[t] # NoRow => timers[t] = 0

\* A message under way leaves the row as it was written.
SendingSaysNext ==
  \A t \in Timer \ (early \cup OneShot), g \in Maker :
    at[t][g] = "send" => row[t] = next[t][g]

\* A timer that does not repeat keeps its time, and once past it has no row.
OneShotsKeepTime ==
  \A t \in OneShot :
    /\ row[t] \in {NoRow, first[t]} /\ listed[t] \in {NoRow, first[t]}
    /\ \A g \in Maker :
         /\ at[t][g] # "none" => next[t][g] = first[t]
         /\ at[t][g] = "send" => t \in fired
    /\ t \in fired => first[t] <= clock /\ ~Exists(t)

\* The rows are listed while load_timers runs.
ListedWhenLoading == phase # "loading" => listed = Nothing

TimersInv ==
  /\ TypeOK
  /\ Unstarted /\ StopIsFinal /\ Held
  /\ RowSaysNext /\ SendingSaysNext
  /\ OneShotsKeepTime
  /\ ListedWhenLoading /\ RowsAreLoaded

(***************************************************************************)
(* A timer that does not repeat fires once, also if the process ends just  *)
(* then.                                                                   *)
(***************************************************************************)
OneShotOnce ==
  [][\A t \in OneShot : (\E g \in Maker : FireOneShot(t, g)) => t \notin fired]_vars
=============================================================================
