------------------------------ MODULE DsSpawn ------------------------------
(***************************************************************************)
(* When Drusella Sathir spawns next, as roboToald keeps it in three        *)
(* places: the last POP row, the override in memory (SPAWN_OVERRIDE) and   *)
(* the row of the "DS Spawn" timer, from which a restarted process derives *)
(* the override again (discord_client/commands/cmd_ds.py).                 *)
(*                                                                         *)
(* /ds tod and /ds set_spawn change the first two at once, then await      *)
(* their reply and restart the timer, stopping the timers of the channel   *)
(* one by one with an await after each.  load_timers, which gives the rows *)
(* their tasks when a process starts, awaits a channel for each of them.   *)
(* A step is what runs between two awaits.  The time of a pop stands for   *)
(* the spawn a day later; the timer's is computed from the clock when the  *)
(* timer is started, after all the awaits.  What DsCamp has a name for too *)
(* is prefixed here, so that one module can prove about both.              *)
(***************************************************************************)
EXTENDS DsSession, FiniteSets

CONSTANTS
  NoPop,       \* no override
  Chosen,      \* the pops implied by the spawn times admins give
  Day,         \* from a pop to the next spawn
  Minute,      \* what a period of the timer is longer than a day
  Faults,      \* TRUE: crashes, lost replies, users who stop the timer
  MaxTimers    \* bound: timers ever started

ASSUME SpawnAssumption ==
  /\ Chosen \subseteq Nat
  /\ NoPop \notin Int
  /\ Day \in Nat \ {0}
  /\ Minute \in Nat \ {0}
  /\ TodGap \in Nat
  /\ TodBlind \in Nat
  /\ Faults \in BOOLEAN
  /\ MaxClock \in Nat
  /\ MaxTimers \in Nat

VARIABLES
  override,  \* SPAWN_OVERRIDE of the guild
  timers,    \* the rows of "DS Spawn" timers: their id and the pop they imply
  tasks,     \* those that TIMERS has a task for
  loaded,    \* load_timers has begun in this process
  listed,    \* the rows it has read and not come to
  started,   \* how many were started
  at,        \* where each of the two commands is
  todo,      \* timers it has still to stop
  pop,       \* the pop it has put into the memory
  up,        \* history: on_ready or a command has set the override of this process
  alone,     \* history: nothing else has happened since the command began
  known,     \* history: the last command ran to its end, alone and in time
  spawn      \* history: the pop the last command stands for

jobVars == <<at, todo, pop>>
loadVars == <<loaded, listed>>
history == <<up, alone, known, spawn>>
spawnVars ==
  <<clock, lastPop, override, timers, tasks, loadVars, started, jobVars, history>>

Command == {"tod", "set_spawn"}

\* said: history, the pop of the command that started it.
Timer == [id : Nat, pop : Int, said : Nat]

SpawnTypeOK ==
  /\ clock \in Nat
  /\ lastPop \in 0 .. clock
  /\ override \in Int \cup {NoPop}
  /\ timers \in SUBSET Timer
  /\ tasks \in SUBSET Timer
  /\ loaded \in BOOLEAN
  /\ listed \in SUBSET Timer
  /\ started \in Nat
  /\ at \in [Command -> {"idle", "reply", "stop"}]
  /\ todo \in [Command -> SUBSET Timer]
  /\ pop \in [Command -> Nat]
  /\ up \in BOOLEAN
  /\ alone \in [Command -> BOOLEAN]
  /\ known \in BOOLEAN
  /\ spawn \in Nat

SpawnInit ==
  /\ clock = TodGap
  /\ lastPop = 0
  /\ override = NoPop
  /\ timers = {}
  /\ tasks = {}
  /\ loaded = TRUE
  /\ listed = {}
  /\ started = 0
  /\ at = [k \in Command |-> "idle"]
  /\ todo = [k \in Command |-> {}]
  /\ pop = [k \in Command |-> 0]
  /\ up = TRUE
  /\ alone = [k \in Command |-> FALSE]
  /\ known = FALSE
  /\ spawn = 0

\* get_effective_pop_time
Effective == IF override = NoPop THEN lastPop ELSE override

Quiet == \A k \in Command : at[k] = "idle"

-----------------------------------------------------------------------------
\* A command begins: it awaits its reply.
Begin(k, t) ==
  /\ at[k] = "idle"
  /\ at' = [at EXCEPT ![k] = "reply"]
  /\ pop' = [pop EXCEPT ![k] = t]
  /\ alone' = [j \in Command |-> j = k /\ Quiet]
  /\ known' = FALSE
  /\ spawn' = t
  /\ up' = TRUE
  /\ UNCHANGED <<timers, tasks, loadVars, started, todo>>

\* Mutant: the override outlives the POP.
MutSpawnTod ==
  /\ clock < MaxClock
  /\ TodAllowed
  /\ clock' = clock + 1
  /\ lastPop' = clock
  /\ override' = override
  /\ Begin("tod", clock)

\* tod, from its POP row to the reply.
SpawnTod ==
  /\ clock < MaxClock
  /\ TodAllowed
  /\ clock' = clock + 1
  /\ lastPop' = clock
  /\ override' = NoPop
  /\ Begin("tod", clock)

\* set_spawn: the next spawn must be in the future.
SetSpawn ==
  \E t \in Chosen :
    /\ t + Day > clock
    /\ override' = t
    /\ Begin("set_spawn", t)
    /\ UNCHANGED <<clock, lastPop>>

\* The timers still to stop; the list is read when the reply has been sent.
Pending(k) == IF at[k] = "reply" THEN timers ELSE todo[k]

\* _stop of one timer: deletes its row, if any, cancels its task and awaits its
\* message.
StopTimer(k) ==
  /\ at[k] # "idle"
  /\ \E t \in Pending(k) \cap tasks :
       /\ timers' = timers \ {t}
       /\ tasks' = tasks \ {t}
       /\ todo' = [todo EXCEPT ![k] = Pending(k) \ {t}]
  /\ at' = [at EXCEPT ![k] = "stop"]
  /\ UNCHANGED <<clock, lastPop, override, loadVars, started, pop, history>>

\* _stop of a timer that has no task, whether its row is there or gone: the message
\* takes arguments a channel does not, and the command ends here.
StopFails(k) ==
  /\ at[k] # "idle"
  /\ \E t \in Pending(k) \ tasks : timers' = timers \ {t}
  /\ at' = [at EXCEPT ![k] = "idle"]
  /\ todo' = [todo EXCEPT ![k] = {}]
  /\ UNCHANGED <<clock, lastPop, override, tasks, loadVars, started, pop, history>>

\* The delay the command gives to _start, and what _start makes of it: a negative
\* one is brought below one period.
Period == Day + Minute

Delay(k) == IF k = "tod" THEN -Minute ELSE pop[k] + Day - clock - Period

FirstRun(delay) ==
  clock + Period + (IF delay < 0 THEN -((-delay) % Period) ELSE delay)

\* Later than this a tod has a timer off by more than is put down to chance, and a
\* set_spawn, whose time has come, one that is off by a period.
InTime(k) == IF k = "tod" THEN clock - pop[k] <= TodGap ELSE clock < pop[k] + Day

\* _start stores the new timer.
StartTimer(k) ==
  /\ at[k] # "idle"
  /\ Pending(k) = {}
  /\ started < MaxTimers
  /\ LET t == [id |-> started, pop |-> FirstRun(Delay(k)) - Day, said |-> pop[k]] IN
       timers' = timers \cup {t} /\ tasks' = tasks \cup {t}
  /\ started' = started + 1
  /\ at' = [at EXCEPT ![k] = "idle"]
  /\ known' = (alone[k] /\ InTime(k))
  /\ UNCHANGED <<clock, lastPop, override, loadVars, todo, pop, up, alone, spawn>>

\* The reply raises and ends the command.
ReplyFails(k) ==
  /\ Faults
  /\ at[k] = "reply"
  /\ at' = [at EXCEPT ![k] = "idle"]
  /\ UNCHANGED <<clock, lastPop, override, timers, tasks, loadVars, started, todo, pop,
                 history>>

-----------------------------------------------------------------------------
Disturb == alone' = [k \in Command |-> FALSE]

\* /timer stop, by anybody in the channel.
UserStops ==
  /\ Faults
  /\ \E t \in timers : timers' = timers \ {t} /\ tasks' = tasks \ {t}
  /\ Disturb
  /\ known' = FALSE
  /\ UNCHANGED <<clock, lastPop, override, loadVars, started, jobVars, up, spawn>>

SpawnCrash ==
  /\ Faults
  /\ override' = NoPop
  /\ tasks' = {}
  /\ loaded' = FALSE
  /\ listed' = {}
  /\ at' = [k \in Command |-> "idle"]
  /\ todo' = [k \in Command |-> {}]
  /\ up' = FALSE
  /\ Disturb
  /\ UNCHANGED <<clock, lastPop, timers, started, pop, known, spawn>>

\* The first on_ready of a process begins with load_timers.
LoadBegins ==
  /\ ~loaded
  /\ loaded' = TRUE
  /\ listed' = timers
  /\ UNCHANGED <<clock, lastPop, override, timers, tasks, started, jobVars, history>>

\* Each row it has read gets a task, and is stored again if it is gone.
LoadTimer ==
  /\ \E t \in listed :
       /\ listed' = listed \ {t}
       /\ timers' = timers \cup {t}
       /\ tasks' = tasks \cup {t}
       /\ \/ t \in timers /\ UNCHANGED history
          \/ t \notin timers /\ Disturb /\ known' = FALSE /\ UNCHANGED <<up, spawn>>
  /\ UNCHANGED <<clock, lastPop, override, loaded, started, jobVars>>

\* A channel that cannot be fetched ends it for good.
LoadFails ==
  /\ Faults
  /\ listed # {}
  /\ listed' = {}
  /\ UNCHANGED <<clock, lastPop, override, timers, tasks, loaded, started, jobVars,
                 history>>

\* The same within 300 seconds, which is also what TodGap stands for.
Near(t, u) == t - u <= TodGap /\ u - t <= TodGap

\* restore_spawn_overrides looks at one timer.
Restored ==
  IF timers = {} THEN {override}
  ELSE {IF Near(t.pop, lastPop) THEN override ELSE t.pop : t \in timers}

\* The rest of on_ready; a reconnection does not wait for the first load_timers.
Ready ==
  /\ loaded
  /\ override' \in Restored
  /\ up' = TRUE
  /\ Disturb
  /\ UNCHANGED <<clock, lastPop, timers, tasks, loadVars, started, jobVars, known, spawn>>

SpawnTick ==
  /\ clock < MaxClock
  /\ clock' = clock + 1
  /\ UNCHANGED <<lastPop, override, timers, tasks, loadVars, started, jobVars, history>>

SpawnNext ==
  \/ SpawnTod \/ SetSpawn
  \/ \E k \in Command :
       StopTimer(k) \/ StopFails(k) \/ StartTimer(k) \/ ReplyFails(k)
  \/ UserStops \/ SpawnCrash \/ LoadBegins \/ LoadTimer \/ LoadFails \/ Ready \/ SpawnTick

SpawnSpec == SpawnInit /\ [][SpawnNext]_spawnVars

-----------------------------------------------------------------------------
(* Properties *)

(***************************************************************************)
(* Once a command has run to its end in time and with nothing in between,  *)
(* the timer left says what the command said, that of a tod to within 300  *)
(* seconds: whatever crashes and reconnects after that, the next spawn is  *)
(* within 300 seconds of it (restore_spawn_overrides), and no other        *)
(* override comes up.                                                      *)
(***************************************************************************)
TimerTells ==
  known =>
    /\ Quiet
    /\ timers # {}
    /\ \A t \in timers : t.pop = spawn \/ (lastPop = spawn /\ Near(t.pop, spawn))
    /\ override \in {NoPop, spawn}
    /\ up => Near(Effective, spawn)

\* Why that holds: what a command that is alone leaves to be done.
CommandsKnow ==
  \A k \in Command : alone[k] /\ at[k] # "idle" =>
    /\ up
    /\ pop[k] = spawn /\ Effective = spawn
    /\ k = "tod" => lastPop = spawn
    /\ \A j \in Command : j # k => at[j] = "idle"
    /\ at[k] = "stop" => todo[k] = timers

\* A process that has just started has no override.
DownForgets == up \/ override = NoPop

\* However long a command was kept waiting, its timer does not announce the spawn
\* before the time the command gave: a late command makes a late timer.
NeverEarly ==
  /\ pop["tod"] <= clock
  /\ \A t \in timers \cup listed : t.said <= t.pop

SpawnInv == SpawnTypeOK /\ TimerTells /\ CommandsKnow /\ DownForgets /\ NeverEarly
=============================================================================
