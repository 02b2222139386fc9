------------------------------- MODULE DsCamp -------------------------------
(***************************************************************************)
(* The camp log of roboToald: /ds start, stop and tod of                   *)
(* discord_client/commands/cmd_ds.py over the tables of                    *)
(* db/models/points.py.                                                    *)
(*                                                                         *)
(* An IN row opens a window of a camper, an OUT row that refers to it      *)
(* closes it, a POP row ends the session.  start and stop, both with an    *)
(* optional backdate that may rewrite the time of an earlier row, run      *)
(* without an await and commit once: one step each.  tod runs without an   *)
(* await too, but commits row by row: nothing runs in between, the process *)
(* may end, though.                                                        *)
(*                                                                         *)
(* Time is counted in ticks, MinuteTicks to the minute, because the code   *)
(* rounds times to minutes in three ways.  No two rows of a camper have    *)
(* the same time (the code's times are microseconds).                      *)
(***************************************************************************)
EXTENDS DsSession, FiniteSets, Sequences

CONSTANTS
  Camper,
  Backdates,    \* the minutes commands are backdated by, other than 0
  MinuteTicks,  \* ticks to the minute
  Crashes,      \* TRUE: the process may end inside tod
  MaxWindows    \* bound: IN rows of the log

ASSUME CampAssumption ==
  /\ Backdates \subseteq Nat \ {0}
  /\ MinuteTicks \in Nat \ {0}
  /\ TodGap \in Nat
  /\ TodBlind \in Nat
  /\ Crashes \in BOOLEAN
  /\ MaxClock \in Nat
  /\ MaxWindows \in Nat

VARIABLES
  log,      \* points_audit without POP rows; the index is the row's id
  phase,    \* where tod is
  todStop,  \* its stop_time
  closing,  \* the rows it has still to close
  due,      \* the windows of each member it has still to credit
  quake,    \* the rows it has still to grant the bonus for
  paid,     \* history: the credits of each camper since the last POP
  bonus     \* history: his quake bonuses since the last POP

todVars == <<todStop, closing, due, quake>>
ledger == <<paid, bonus>>
vars == <<log, lastPop, clock, phase, todVars, ledger>>

Row == [camper : Camper, event : {"IN", "OUT"}, time : Int,
        active : BOOLEAN, start : Nat]

TypeOK ==
  /\ log \in Seq(Row)
  /\ lastPop \in Nat
  /\ clock \in Nat
  /\ phase \in {"idle", "close", "credit", "bonus"}
  /\ todStop \in Nat
  /\ closing \in SUBSET Nat
  /\ due \in [Camper -> SUBSET (Int \X Int)]
  /\ quake \in SUBSET Nat
  /\ paid \in [Camper -> Nat]
  /\ bonus \in [Camper -> Nat]

Nobody == [c \in Camper |-> {}]

Init ==
  /\ log = <<>>
  /\ lastPop = 0
  /\ clock = TodGap
  /\ phase = "idle"
  /\ todStop = 0
  /\ closing = {}
  /\ due = Nobody
  /\ quake = {}
  /\ paid = [c \in Camper |-> 0]
  /\ bonus = [c \in Camper |-> 0]

-----------------------------------------------------------------------------
(* The log *)

Ids == 1 .. Len(log)

\* get_last_event: the latest row of the camper, by time.
Latest(c) ==
  {i \in Ids : /\ log[i].camper = c
               /\ \A j \in Ids : log[j].camper = c => log[j].time <= log[i].time}

Fresh(c, t) == \A i \in Ids : log[i].camper = c => log[i].time # t

\* get_active_events
Active == {i \in Ids : log[i].active}

\* Mutant: the new row does not say which one it closes.
MutOut(i, t) ==
  [camper |-> log[i].camper, event |-> "OUT", time |-> t, active |-> FALSE,
   start |-> 0]

Out(i, t) ==
  [camper |-> log[i].camper, event |-> "OUT", time |-> t, active |-> FALSE,
   start |-> i]

\* close_event
CloseEvent(i, t) ==
  log' = Append([log EXCEPT ![i].active = FALSE], Out(i, t))

\* start_event
StartEvent(c, t) ==
  /\ Cardinality({i \in Ids : log[i].event = "IN"}) < MaxWindows
  /\ log' = Append(log, [camper |-> c, event |-> "IN", time |-> t,
                         active |-> TRUE, start |-> 0])

-----------------------------------------------------------------------------
(* Commands *)

Idle == phase = "idle"

CommandTime ==
  /\ Idle
  /\ clock < MaxClock
  /\ clock' = clock + 1

Backdated(b) == clock - b * MinuteTicks

\* Mutant: a camper who is in may be started again.
MutStart(c, b) ==
  LET t == Backdated(b) IN
  /\ CommandTime
  /\ Fresh(c, t)
  /\ t >= lastPop
  /\ StartEvent(c, t)
  /\ UNCHANGED <<lastPop, phase, todVars, ledger>>

\* start: the latest row of the camper decides.
Start(c, b) ==
  LET t == Backdated(b) IN
  /\ CommandTime
  /\ Fresh(c, t)
  /\ t >= lastPop
  /\ \/ Latest(c) = {} /\ StartEvent(c, t)
     \/ \E i \in Latest(c) :
          \/ log[i].active /\ b # 0 /\ log' = [log EXCEPT ![i].time = t]
          \/ ~log[i].active /\ t >= log[i].time /\ StartEvent(c, t)
  /\ UNCHANGED <<lastPop, phase, todVars, ledger>>

\* stop of a camper who is in.  A backdate is not compared with the IN row.
Stop(c, b) ==
  LET t == Backdated(b) IN
  /\ CommandTime
  /\ Fresh(c, t)
  /\ \E i \in Latest(c) : log[i].active /\ CloseEvent(i, t)
  /\ UNCHANGED <<lastPop, phase, todVars, ledger>>

\* stop with a backdate, 0 included, of a camper who is out: the latest row is
\* moved.  It raises if that row is an IN row, which has no start_id.
RestateStop(c, b) ==
  LET t == Backdated(b) IN
  /\ CommandTime
  /\ Fresh(c, t)
  /\ \E i \in Latest(c) :
       /\ ~log[i].active
       /\ log[i].time > lastPop
       /\ log[i].start # 0
       /\ t >= log[log[i].start].time
       /\ log' = [log EXCEPT ![i].time = t]
  /\ UNCHANGED <<lastPop, phase, todVars, ledger>>

Tick ==
  /\ CommandTime
  /\ UNCHANGED <<log, lastPop, phase, todVars, ledger>>

-----------------------------------------------------------------------------
(* Windows and credit *)

\* Mutant: one window per member, the one his latest row belongs to.
MutWindows(c) ==
  {<<log[log[i].start].time, log[i].time>> :
     i \in {j \in Latest(c) : log[j].start # 0 /\ log[j].time > lastPop}}

\* get_event_pairs_since_last_pop, for one member.
Windows(c) ==
  LET since == {i \in Ids : log[i].camper = c /\ log[i].time > lastPop}
      stops(i) == {j \in Ids : log[j].start = i}
  IN {<<log[log[i].start].time, log[i].time>> : i \in {j \in since : log[j].start # 0}}
     \cup UNION {{<<log[i].time, log[j].time>> : j \in stops(i)} :
                   i \in {k \in since : log[k].start = 0}}

\* Two roundings of ticks since the last POP to minutes.  round() of Python takes a
\* tie to the even minute.
Round(t) ==
  LET q == t \div MinuteTicks
      rest == t - MinuteTicks * q
      over == 2 * rest > MinuteTicks \/ (2 * rest = MinuteTicks /\ q % 2 = 1)
  IN IF over THEN q + 1 ELSE q

Ceil(t) == (t + MinuteTicks - 1) \div MinuteTicks

\* Mutant: a minute that has begun counts at both ends of a window.
MutCredited(w) ==
  {m \in 0 .. Ceil(todStop - lastPop) - 1 :
     m >= (w[1] - lastPop) \div MinuteTicks - 1 /\ m <= Ceil(w[2] - lastPop)}

\* The minutes of the session a window is credited for.
Credited(w) ==
  {m \in 0 .. Ceil(todStop - lastPop) - 1 :
     m >= Round(w[1] - lastPop) /\ m <= Round(w[2] - lastPop)}

\* calculate_points_for_session: who is in the camp in some minute appears.
Earns(c) == \E w \in Windows(c) : Credited(w) # {}

-----------------------------------------------------------------------------
(* tod *)

TodBegin ==
  /\ CommandTime
  /\ TodAllowed
  /\ todStop' = clock
  /\ closing' = Active
  /\ quake' \in {{}, Active}
  /\ phase' = "close"
  /\ UNCHANGED <<log, lastPop, due, ledger>>

TodClose(i) ==
  /\ phase = "close"
  /\ i \in closing
  /\ CloseEvent(i, todStop)
  /\ closing' = closing \ {i}
  /\ UNCHANGED <<lastPop, clock, phase, todStop, due, quake, ledger>>

\* calculate_points_for_session for all members.
TodCompute ==
  /\ phase = "close"
  /\ closing = {}
  /\ due' = [c \in Camper |-> IF Earns(c) THEN Windows(c) ELSE {}]
  /\ phase' = "credit"
  /\ UNCHANGED <<log, lastPop, clock, todStop, closing, quake, ledger>>

TodCredit(c) ==
  /\ phase = "credit"
  /\ due[c] # {}
  /\ due' = [due EXCEPT ![c] = {}]
  /\ paid' = [paid EXCEPT ![c] = @ + 1]
  /\ UNCHANGED <<log, lastPop, clock, phase, todStop, closing, quake, bonus>>

TodCredited ==
  /\ phase = "credit"
  /\ due = Nobody
  /\ phase' = "bonus"
  /\ UNCHANGED <<log, lastPop, clock, todVars, ledger>>

TodBonus(i) ==
  /\ phase = "bonus"
  /\ i \in quake
  /\ quake' = quake \ {i}
  /\ bonus' = [bonus EXCEPT ![log[i].camper] = @ + 1]
  /\ UNCHANGED <<log, lastPop, clock, phase, todStop, closing, due, paid>>

\* Mutant: the POP row is not stored.
MutTodPop ==
  /\ phase = "bonus"
  /\ quake = {}
  /\ phase' = "idle"
  /\ UNCHANGED <<log, lastPop, clock, todVars, ledger>>

\* The POP row, and the end of what runs without an await.
TodPop ==
  /\ phase = "bonus"
  /\ quake = {}
  /\ lastPop' = todStop
  /\ paid' = [c \in Camper |-> 0]
  /\ bonus' = [c \in Camper |-> 0]
  /\ phase' = "idle"
  /\ UNCHANGED <<log, clock, todVars>>

\* The process ends between two commits and starts again.
Crash ==
  /\ Crashes
  /\ phase # "idle"
  /\ phase' = "idle"
  /\ closing' = {}
  /\ due' = Nobody
  /\ quake' = {}
  /\ UNCHANGED <<log, lastPop, clock, todStop, ledger>>

Tod ==
  \/ TodBegin \/ TodCompute \/ TodCredited \/ TodPop
  \/ \E i \in Ids : TodClose(i) \/ TodBonus(i)
  \/ \E c \in Camper : TodCredit(c)

Commands(c) ==
  \E b \in Backdates \cup {0} : Start(c, b) \/ Stop(c, b) \/ RestateStop(c, b)

Next ==
  \/ \E c \in Camper : Commands(c)
  \/ Tick
  \/ Tod
  \/ Crash

Spec == Init /\ [][Next]_vars

-----------------------------------------------------------------------------
(* Properties *)

(***************************************************************************)
(* Every row that is not active belongs to one pair: a closed IN row is    *)
(* closed by one OUT row, of the same camper and later in the log, an      *)
(* active one by none, and an OUT row closes an IN row (close_event).  The *)
(* pairing of windows and the bonus rely on it.                            *)
(***************************************************************************)
PairsMatch ==
  /\ \A i \in Ids :
       IF log[i].event = "OUT"
       THEN /\ ~log[i].active
            /\ log[i].start \in 1 .. i - 1
            /\ log[log[i].start].event = "IN"
            /\ log[log[i].start].camper = log[i].camper
            /\ ~log[log[i].start].active
       ELSE /\ log[i].start = 0
            /\ log[i].active \/ \E j \in Ids : log[j].start = i
  /\ \A i, j \in Ids : log[i].start = log[j].start /\ log[i].start # 0 => i = j

\* tod is about to close rows that are open, each once, and to reward those it
\* has closed, whatever else the log holds.
TodKnowsTheLog ==
  /\ closing \subseteq Active
  /\ quake \subseteq Ids
  /\ phase # "close" => closing = {}
  /\ phase \in {"credit", "bonus"} => Active = {}
  /\ phase = "close" => Active = closing
  /\ phase = "idle" => quake = {}

(***************************************************************************)
(* Nobody is clocked in from a session that has ended: a row that is       *)
(* active began after the last POP (tod closes all of them before it, and  *)
(* start refuses a time before it).                                        *)
(***************************************************************************)
PopClosesCamp == \A i \in Active : log[i].time >= lastPop

CampInv == TypeOK /\ PairsMatch /\ TodKnowsTheLog /\ PopClosesCamp

(***************************************************************************)
(* A camper has at most one open window.  Without backdates it holds; the  *)
(* code says as much: "Player already active at camp." (cmd_ds.py:72).     *)
(***************************************************************************)
ClockedInOnce ==
  \A i, j \in Active : log[i].camper = log[j].camper => i = j

(***************************************************************************)
(* Unless the process ends inside tod, a session pays each camper once and *)
(* gives him one quake bonus (tod records the POP that ends the session    *)
(* before anybody else may run).                                           *)
(***************************************************************************)
PaidOnce == \A c \in Camper : paid[c] <= 1 /\ bonus[c] <= 1

(***************************************************************************)
(* A session does not end before everybody whose windows hold a minute of  *)
(* it is paid, also when tod was cut short and run again.                  *)
(***************************************************************************)
EverybodyPaid ==
  [][lastPop' # lastPop =>
       \A c \in Camper :
         paid[c] = 0 =>
           \A i, j \in Ids :
             /\ log[i].camper = c /\ log[i].time > lastPop
             /\ log[j].start = i
             => Credited(<<log[i].time, log[j].time>>) = {}]_vars

(***************************************************************************)
(* What a window is credited falls short of its length by at most half a   *)
(* minute and exceeds it by at most two, however the three roundings fall  *)
(* (calculate_points_for_session).  Two it is at ties: from 0.5 to 1.5     *)
(* minutes counts the minutes 0, 1 and 2.                                  *)
(***************************************************************************)
CreditIsTime ==
  phase = "credit" =>
    \A c \in Camper : \A w \in due[c] :
      LET length == IF w[2] > w[1] THEN w[2] - w[1] ELSE 0
          credit == Cardinality(Credited(w)) * MinuteTicks
      IN 2 * length - MinuteTicks <= 2 * credit /\ credit <= length + 2 * MinuteTicks
=============================================================================
