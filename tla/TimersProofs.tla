---------------------------- MODULE TimersProofs ----------------------------
(* Proofs about Timers: what was stopped stays stopped, and what does not    *)
(* repeat fires once, for any timers, period, quota and clock.               *)
EXTENDS Timers, TLAPS

LEMMA Gens == Maker = {Own, Made} /\ Own # Made /\ Own # 0 /\ Made # 0
BY DEF Own, Made, Maker

LEMMA InitInv == Init => TimersInv
<1> SUFFICES ASSUME Init PROVE TimersInv
  OBVIOUS
<1>1. TypeOK
  BY DEF Init, TypeOK, Nothing, Time, Own, Made, NoTask, Maker
<1>2. Unstarted /\ StopIsFinal /\ Held
  BY DEF Init, Unstarted, StopIsFinal, Held, Exists, Nothing, NoTask, Maker, Own, Made
<1>3. RowSaysNext /\ SendingSaysNext /\ OneShotsKeepTime
  BY TimerAssumption
  DEF Init, RowSaysNext, SendingSaysNext, OneShotsKeepTime, Exists, Nothing, NoTask, Maker, Own, Made
<1>4. ListedWhenLoading /\ RowsAreLoaded
  BY DEF Init, ListedWhenLoading, RowsAreLoaded, Exists, Nothing
<1> QED
  BY <1>1, <1>2, <1>3, <1>4 DEF TimersInv

\* load_timers moves a time forward and leaves alone what is to come.
LEMMA CaughtUpIsNat ==
  ASSUME NEW c \in Nat, c = clock, NEW time \in Nat
  PROVE  /\ CaughtUp(time) \in Nat
         /\ time > clock => CaughtUp(time) = time
<1> DEFINE k == (c - time) \div Period + 1
<1>1. CASE time <= clock
  <2>1. c - time \in Nat /\ Period \in Nat /\ Period > 0
    BY <1>1, TimerAssumption
  <2>2. k \in Nat
    BY <2>1
  <2> HIDE DEF k
  <2>3. k * Period \in Nat
    BY <2>1, <2>2
  <2>4. CaughtUp(time) = time + k * Period
    BY <1>1 DEF CaughtUp, k
  <2> QED
    BY <1>1, <2>3, <2>4
<1>2. CASE ~(time <= clock)
  BY <1>2 DEF CaughtUp
<1> QED
  BY <1>1, <1>2

-----------------------------------------------------------------------------
(* TimersInv is inductive: one lemma per action *)

LEMMA TickInv ==
  ASSUME TimersInv, Tick
  PROVE  TimersInv'
<1> USE TimerAssumption, Gens
<1> USE DEF TimersInv, Tick, tableVars, loadVars, taskVars, history, Exists
<1>1. TypeOK'
  <2>1. clock' \in Nat
    BY DEF TypeOK
  <2> QED
    BY <2>1 DEF TypeOK
<1>2. Unstarted'
  BY DEF TypeOK, Unstarted, Nothing
<1>3. StopIsFinal'
  BY DEF TypeOK, StopIsFinal, Nothing
<1>4. Held'
  BY DEF TypeOK, Held, Nothing
<1>5. RowSaysNext' /\ SendingSaysNext'
  BY DEF TypeOK, Held, RowSaysNext, SendingSaysNext, Nothing
<1>6. OneShotsKeepTime'
  BY DEF TypeOK, OneShotsKeepTime, Nothing
<1>7. ListedWhenLoading' /\ RowsAreLoaded'
  BY DEF TypeOK, ListedWhenLoading, RowsAreLoaded, Nothing
<1> QED
  BY <1>1, <1>2, <1>3, <1>4, <1>5, <1>6, <1>7

LEMMA StartInv ==
  ASSUME TimersInv, NEW t \in Timer,
         NEW time \in Nat, time > clock, Start(t, time)
  PROVE  TimersInv'
<1> USE TimerAssumption, Gens
<1> USE DEF TimersInv, Start, loadVars, Exists
<1>1. TypeOK'
  BY DEF TypeOK, Time, Nothing
<1>2. Unstarted'
  BY DEF TypeOK, Unstarted, Nothing
<1>3. StopIsFinal'
  BY DEF TypeOK, StopIsFinal, Unstarted, Nothing
<1>4. Held'
  BY DEF TypeOK, Held, Unstarted, Nothing
<1>5. RowSaysNext' /\ SendingSaysNext'
  BY DEF TypeOK, Held, RowSaysNext, SendingSaysNext, Unstarted, Nothing
<1>6. OneShotsKeepTime'
  BY DEF TypeOK, OneShotsKeepTime, Unstarted, Nothing
<1>7. ListedWhenLoading' /\ RowsAreLoaded'
  BY DEF TypeOK, ListedWhenLoading, RowsAreLoaded, Nothing
<1> QED
  BY <1>1, <1>2, <1>3, <1>4, <1>5, <1>6, <1>7

LEMMA StopInv ==
  ASSUME TimersInv, NEW t \in Timer, Stop(t)
  PROVE  TimersInv'
<1> USE TimerAssumption, Gens
<1> USE DEF TimersInv, Stop, loadVars, Exists, Cancelled
<1>1. TypeOK'
  BY DEF TypeOK, Time, Nothing
<1>2. Unstarted'
  BY DEF TypeOK, Unstarted, Nothing
<1>3. StopIsFinal'
  BY DEF TypeOK, StopIsFinal, Nothing
<1>4. Held'
  BY DEF TypeOK, Held, Nothing
<1>5. RowSaysNext' /\ SendingSaysNext'
  BY DEF TypeOK, Held, RowSaysNext, SendingSaysNext, Nothing
<1>6. OneShotsKeepTime'
  BY DEF TypeOK, OneShotsKeepTime, Nothing
<1>7. ListedWhenLoading' /\ RowsAreLoaded'
  BY DEF TypeOK, ListedWhenLoading, RowsAreLoaded, Nothing
<1> QED
  BY <1>1, <1>2, <1>3, <1>4, <1>5, <1>6, <1>7

LEMMA FireRepeatingInv ==
  ASSUME TimersInv, NEW t \in Timer, NEW g \in Maker, FireRepeating(t, g)
  PROVE  TimersInv'
<1> USE TimerAssumption, Gens
<1> USE DEF TimersInv, FireRepeating, loadVars, Exists, Due
<1>1. TypeOK'
  <2>1. next[t][g] + Period \in Nat
    BY DEF TypeOK
  <2>2. next' \in [Timer -> [Maker -> Nat]]
    BY <2>1 DEF TypeOK
  <2>3. row' \in [Timer -> Time]
    BY <2>1 DEF TypeOK, Time
  <2> QED
    BY <2>2, <2>3 DEF TypeOK
<1>2. Unstarted'
  BY DEF TypeOK, Unstarted, Nothing
<1>3. StopIsFinal'
  BY DEF TypeOK, StopIsFinal, Nothing
<1>4. Held'
  BY DEF TypeOK, Held, Nothing
<1>5. RowSaysNext' /\ SendingSaysNext'
  BY DEF TypeOK, Held, RowSaysNext, SendingSaysNext, Nothing
<1>6. OneShotsKeepTime'
  BY DEF TypeOK, OneShotsKeepTime, Nothing
<1>7. ListedWhenLoading' /\ RowsAreLoaded'
  BY DEF TypeOK, ListedWhenLoading, RowsAreLoaded, Nothing
<1> QED
  BY <1>1, <1>2, <1>3, <1>4, <1>5, <1>6, <1>7

LEMMA FireOneShotInv ==
  ASSUME TimersInv, NEW t \in Timer, NEW g \in Maker, FireOneShot(t, g)
  PROVE  TimersInv'
<1> USE TimerAssumption, Gens
<1> USE DEF TimersInv, FireOneShot, loadVars, Exists, Due
<1>1. TypeOK'
  BY DEF TypeOK, Time, Nothing
<1>2. Unstarted'
  BY DEF TypeOK, Unstarted, Nothing
<1>3. StopIsFinal'
  BY DEF TypeOK, StopIsFinal, Nothing
<1>4. Held'
  BY DEF TypeOK, Held, Nothing
<1>5. RowSaysNext' /\ SendingSaysNext'
  BY DEF TypeOK, Held, RowSaysNext, SendingSaysNext, Nothing
<1>6. OneShotsKeepTime'
  BY DEF TypeOK, OneShotsKeepTime, Nothing
<1>7. ListedWhenLoading' /\ RowsAreLoaded'
  BY DEF TypeOK, ListedWhenLoading, RowsAreLoaded, Nothing
<1> QED
  BY <1>1, <1>2, <1>3, <1>4, <1>5, <1>6, <1>7

LEMMA FireFailsInv ==
  ASSUME TimersInv, NEW t \in Timer, NEW g \in Maker, FireFails(t, g)
  PROVE  TimersInv'
<1> USE TimerAssumption, Gens
<1> USE DEF TimersInv, FireFails, tableVars, loadVars, history, Exists, Due
<1>1. TypeOK'
  BY DEF TypeOK, Time, Nothing
<1>2. Unstarted'
  BY DEF TypeOK, Unstarted, Nothing
<1>3. StopIsFinal'
  BY DEF TypeOK, StopIsFinal, Nothing
<1>4. Held'
  BY DEF TypeOK, Held, Nothing
<1>5. RowSaysNext' /\ SendingSaysNext'
  BY DEF TypeOK, Held, RowSaysNext, SendingSaysNext, Nothing
<1>6. OneShotsKeepTime'
  BY DEF TypeOK, OneShotsKeepTime, Nothing
<1>7. ListedWhenLoading' /\ RowsAreLoaded'
  BY DEF TypeOK, ListedWhenLoading, RowsAreLoaded, Nothing
<1> QED
  BY <1>1, <1>2, <1>3, <1>4, <1>5, <1>6, <1>7

LEMMA SleepInv ==
  ASSUME TimersInv, NEW t \in Timer, NEW g \in Maker, Sleep(t, g)
  PROVE  TimersInv'
<1> USE TimerAssumption, Gens
<1> USE DEF TimersInv, Sleep, tableVars, loadVars, history, Exists
<1>1. TypeOK'
  BY DEF TypeOK, Time, Nothing
<1>2. Unstarted'
  BY DEF TypeOK, Unstarted, Nothing
<1>3. StopIsFinal'
  BY DEF TypeOK, StopIsFinal, Nothing
<1>4. Held'
  BY DEF TypeOK, Held, Nothing
<1>5. RowSaysNext' /\ SendingSaysNext'
  BY DEF TypeOK, Held, RowSaysNext, SendingSaysNext, Nothing
<1>6. OneShotsKeepTime'
  BY DEF TypeOK, OneShotsKeepTime, Nothing
<1>7. ListedWhenLoading' /\ RowsAreLoaded'
  BY DEF TypeOK, ListedWhenLoading, RowsAreLoaded, Nothing
<1> QED
  BY <1>1, <1>2, <1>3, <1>4, <1>5, <1>6, <1>7

LEMMA EndInv ==
  ASSUME TimersInv, NEW t \in Timer, NEW g \in Maker, End(t, g)
  PROVE  TimersInv'
<1> USE TimerAssumption, Gens
<1> USE DEF TimersInv, End, tableVars, loadVars, history, Exists
<1>1. TypeOK'
  BY DEF TypeOK, Time, Nothing
<1>2. Unstarted'
  BY DEF TypeOK, Unstarted, Nothing
<1>3. StopIsFinal'
  BY DEF TypeOK, StopIsFinal, Nothing
<1>4. Held'
  BY DEF TypeOK, Held, Nothing
<1>5. RowSaysNext' /\ SendingSaysNext'
  BY DEF TypeOK, Held, RowSaysNext, SendingSaysNext, Nothing
<1>6. OneShotsKeepTime'
  BY DEF TypeOK, OneShotsKeepTime, Nothing
<1>7. ListedWhenLoading' /\ RowsAreLoaded'
  BY DEF TypeOK, ListedWhenLoading, RowsAreLoaded, OneShotsKeepTime, Nothing
<1> QED
  BY <1>1, <1>2, <1>3, <1>4, <1>5, <1>6, <1>7

LEMMA SendFailsInv ==
  ASSUME TimersInv, NEW t \in Timer, NEW g \in Maker, SendFails(t, g)
  PROVE  TimersInv'
<1> USE TimerAssumption, Gens
<1> USE DEF TimersInv, SendFails, tableVars, loadVars, history, Exists
<1>1. TypeOK'
  BY DEF TypeOK, Time, Nothing
<1>2. Unstarted'
  BY DEF TypeOK, Unstarted, Nothing
<1>3. StopIsFinal'
  BY DEF TypeOK, StopIsFinal, Nothing
<1>4. Held'
  BY DEF TypeOK, Held, Nothing
<1>5. RowSaysNext' /\ SendingSaysNext'
  BY DEF TypeOK, Held, RowSaysNext, SendingSaysNext, Nothing
<1>6. OneShotsKeepTime'
  BY DEF TypeOK, OneShotsKeepTime, Nothing
<1>7. ListedWhenLoading' /\ RowsAreLoaded'
  BY DEF TypeOK, ListedWhenLoading, RowsAreLoaded, Nothing
<1> QED
  BY <1>1, <1>2, <1>3, <1>4, <1>5, <1>6, <1>7

LEMMA CrashInv ==
  ASSUME TimersInv, Crash
  PROVE  TimersInv'
<1> USE TimerAssumption, Gens
<1> USE DEF TimersInv, Crash, tableVars, Exists
<1>1. TypeOK'
  BY DEF TypeOK, Time, Nothing, NoTask
<1>2. Unstarted'
  BY DEF TypeOK, Unstarted, Nothing, NoTask
<1>3. StopIsFinal'
  BY DEF TypeOK, StopIsFinal, Nothing, NoTask
<1>4. Held'
  BY DEF TypeOK, Held, Nothing, NoTask
<1>5. RowSaysNext' /\ SendingSaysNext'
  BY DEF TypeOK, Held, RowSaysNext, SendingSaysNext, Nothing, NoTask
<1>6. OneShotsKeepTime'
  BY DEF TypeOK, OneShotsKeepTime, Nothing, NoTask
<1>7. ListedWhenLoading' /\ RowsAreLoaded'
  BY DEF TypeOK, ListedWhenLoading, RowsAreLoaded, Nothing, NoTask
<1> QED
  BY <1>1, <1>2, <1>3, <1>4, <1>5, <1>6, <1>7

LEMMA BootInv ==
  ASSUME TimersInv, Boot
  PROVE  TimersInv'
<1> USE TimerAssumption, Gens
<1> USE DEF TimersInv, Boot, tableVars, taskVars, history, Exists
<1>1. TypeOK'
  BY DEF TypeOK, Time, Nothing
<1>2. Unstarted'
  BY DEF TypeOK, Unstarted, Nothing
<1>3. StopIsFinal'
  BY DEF TypeOK, StopIsFinal, Nothing
<1>4. Held'
  BY DEF TypeOK, Held, Nothing
<1>5. RowSaysNext' /\ SendingSaysNext'
  BY DEF TypeOK, Held, RowSaysNext, SendingSaysNext, Nothing
<1>6. OneShotsKeepTime'
  BY DEF TypeOK, OneShotsKeepTime, Nothing
<1>7. ListedWhenLoading' /\ RowsAreLoaded'
  BY DEF TypeOK, ListedWhenLoading, RowsAreLoaded, Nothing
<1> QED
  BY <1>1, <1>2, <1>3, <1>4, <1>5, <1>6, <1>7

LEMMA LoadInv ==
  ASSUME TimersInv, Load
  PROVE  TimersInv'
<1> USE TimerAssumption, Gens
<1> USE DEF TimersInv, Load, tableVars, taskVars, history, Exists
<1>1. TypeOK'
  BY DEF TypeOK, Time, Nothing
<1>2. Unstarted'
  BY DEF TypeOK, Unstarted, Nothing
<1>3. StopIsFinal'
  BY DEF TypeOK, StopIsFinal, Nothing
<1>4. Held'
  BY DEF TypeOK, Held, Nothing
<1>5. RowSaysNext' /\ SendingSaysNext'
  BY DEF TypeOK, Held, RowSaysNext, SendingSaysNext, Nothing
<1>6. OneShotsKeepTime'
  BY DEF TypeOK, OneShotsKeepTime, Nothing
<1>7. ListedWhenLoading' /\ RowsAreLoaded'
  BY DEF TypeOK, ListedWhenLoading, RowsAreLoaded, Nothing
<1> QED
  BY <1>1, <1>2, <1>3, <1>4, <1>5, <1>6, <1>7

LEMMA LoadMissedInv ==
  ASSUME TimersInv, NEW t \in Timer, LoadMissed(t)
  PROVE  TimersInv'
<1> USE TimerAssumption, Gens
<1> USE DEF TimersInv, LoadMissed, taskVars, history, Exists
<1>1. TypeOK'
  BY DEF TypeOK, Time, Nothing
<1>2. Unstarted'
  BY DEF TypeOK, Unstarted, Nothing
<1>3. StopIsFinal'
  BY DEF TypeOK, StopIsFinal, Nothing
<1>4. Held'
  BY DEF TypeOK, Held, Nothing
<1>5. RowSaysNext' /\ SendingSaysNext'
  BY DEF TypeOK, Held, RowSaysNext, SendingSaysNext, Nothing
<1>6. OneShotsKeepTime'
  BY DEF TypeOK, OneShotsKeepTime, Nothing
<1>7. ListedWhenLoading' /\ RowsAreLoaded'
  BY DEF TypeOK, ListedWhenLoading, RowsAreLoaded, Nothing
<1> QED
  BY <1>1, <1>2, <1>3, <1>4, <1>5, <1>6, <1>7

LEMMA LoadTimerInv ==
  ASSUME TimersInv, NEW t \in Timer, LoadTimer(t)
  PROVE  TimersInv'
<1> USE TimerAssumption, Gens
<1> USE DEF TimersInv, Exists
<1> DEFINE c == CaughtUp(listed[t])
<1>a. c \in Nat /\ (listed[t] > clock => c = listed[t])
  <2>1. listed[t] \in Nat /\ clock \in Nat
    BY DEF LoadTimer, TypeOK, Time
  <2> QED
    BY <2>1, CaughtUpIsNat
<1>b. /\ phase = "loading"
      /\ t \notin early => timers[t] = 0 /\ \A g \in Maker : at[t][g] = "none"
  <2>1. phase = "loading"
    BY DEF LoadTimer, ListedWhenLoading, Nothing
  <2>2. t \notin early => timers[t] = 0
    BY DEF LoadTimer, Held
  <2> QED
    BY <2>1, <2>2 DEF Held
<1>c. /\ row' = [row EXCEPT ![t] = c]
      /\ next' = [next EXCEPT ![t][Made] = c]
      /\ timers' = [timers EXCEPT ![t] = Made]
      /\ at' = [at EXCEPT ![t][Made] = "sleep"]
      /\ listed' = [listed EXCEPT ![t] = NoRow]
      /\ listed[t] # NoRow /\ (t \in OneShot => listed[t] > clock)
      /\ UNCHANGED <<clock, first, phase, early, stopped, raced, fired>>
  BY DEF LoadTimer, history
<1> HIDE DEF c
<1>1. TypeOK'
  BY <1>a, <1>b, <1>c DEF TypeOK, Time, Nothing
<1>2. Unstarted'
  BY <1>a, <1>b, <1>c DEF TypeOK, Unstarted, Nothing
<1>3. StopIsFinal'
  BY <1>a, <1>b, <1>c DEF TypeOK, StopIsFinal, Nothing
<1>4. Held'
  BY <1>a, <1>b, <1>c DEF TypeOK, Held, Nothing
<1>5. RowSaysNext' /\ SendingSaysNext'
  BY <1>a, <1>b, <1>c DEF TypeOK, Held, RowSaysNext, SendingSaysNext, Nothing
<1>6. OneShotsKeepTime'
  BY <1>a, <1>b, <1>c DEF TypeOK, OneShotsKeepTime, Nothing
<1>7. ListedWhenLoading' /\ RowsAreLoaded'
  BY <1>a, <1>b, <1>c DEF TypeOK, ListedWhenLoading, RowsAreLoaded, Nothing
<1> QED
  BY <1>1, <1>2, <1>3, <1>4, <1>5, <1>6, <1>7

LEMMA LoadFailsInv ==
  ASSUME TimersInv, NEW t \in Timer, LoadFails(t)
  PROVE  TimersInv'
<1> USE TimerAssumption, Gens
<1> USE DEF TimersInv, LoadFails, tableVars, taskVars, history, Exists
<1>1. TypeOK'
  BY DEF TypeOK, Time, Nothing
<1>2. Unstarted'
  BY DEF TypeOK, Unstarted, Nothing
<1>3. StopIsFinal'
  BY DEF TypeOK, StopIsFinal, Nothing
<1>4. Held'
  BY DEF TypeOK, Held, Nothing
<1>5. RowSaysNext' /\ SendingSaysNext'
  BY DEF TypeOK, Held, RowSaysNext, SendingSaysNext, Nothing
<1>6. OneShotsKeepTime'
  BY DEF TypeOK, OneShotsKeepTime, Nothing
<1>7. ListedWhenLoading' /\ RowsAreLoaded'
  BY DEF TypeOK, ListedWhenLoading, RowsAreLoaded, Nothing
<1> QED
  BY <1>1, <1>2, <1>3, <1>4, <1>5, <1>6, <1>7

LEMMA LoadEndsInv ==
  ASSUME TimersInv, LoadEnds
  PROVE  TimersInv'
<1> USE TimerAssumption, Gens
<1> USE DEF TimersInv, LoadEnds, tableVars, taskVars, history, Exists
<1>1. TypeOK'
  BY DEF TypeOK, Time, Nothing
<1>2. Unstarted'
  BY DEF TypeOK, Unstarted, Nothing
<1>3. StopIsFinal'
  BY DEF TypeOK, StopIsFinal, Nothing
<1>4. Held'
  BY DEF TypeOK, Held, Nothing
<1>5. RowSaysNext' /\ SendingSaysNext'
  BY DEF TypeOK, Held, RowSaysNext, SendingSaysNext, Nothing
<1>6. OneShotsKeepTime'
  BY DEF TypeOK, OneShotsKeepTime, Nothing
<1>7. ListedWhenLoading' /\ RowsAreLoaded'
  BY DEF TypeOK, ListedWhenLoading, RowsAreLoaded, Nothing
<1> QED
  BY <1>1, <1>2, <1>3, <1>4, <1>5, <1>6, <1>7

LEMMA NextInv == ASSUME TimersInv, [Next]_vars PROVE TimersInv'
<1>1. CASE Tick
  BY <1>1, TickInv
<1>2. CASE Crash
  BY <1>2, CrashInv
<1>3. CASE Boot
  BY <1>3, BootInv
<1>4. CASE Load
  BY <1>4, LoadInv
<1>5. CASE LoadEnds
  BY <1>5, LoadEndsInv
<1>6. ASSUME NEW t \in Timer, NEW time \in clock + 1 .. clock + 2 * Period, Start(t, time)
      PROVE  TimersInv'
  <2>1. clock \in Nat /\ Period \in Nat
    BY TimerAssumption DEF TimersInv, TypeOK
  <2>2. time \in Nat /\ time > clock
    BY <2>1
  <2> QED
    BY <1>6, <2>2, StartInv
<1>7. ASSUME NEW t \in Timer, Stop(t) \/ LoadMissed(t) \/ LoadTimer(t) \/ LoadFails(t)
      PROVE  TimersInv'
  BY <1>7, StopInv, LoadMissedInv, LoadTimerInv, LoadFailsInv
<1>8. ASSUME NEW t \in Timer, NEW g \in Maker, Running(t, g) PROVE TimersInv'
  BY <1>8, FireRepeatingInv, FireOneShotInv, FireFailsInv, SleepInv, EndInv, SendFailsInv
  DEF Running
<1>9. CASE UNCHANGED vars
  BY <1>9 DEF vars, tableVars, loadVars, taskVars, history, TimersInv, TypeOK, Unstarted,
     StopIsFinal, Held, RowSaysNext, SendingSaysNext, OneShotsKeepTime, ListedWhenLoading,
     RowsAreLoaded, Exists
<1> QED
  BY <1>1, <1>2, <1>3, <1>4, <1>5, <1>6, <1>7, <1>8, <1>9 DEF Next

(***************************************************************************)
(* In every reachable state of every instance the variables have their     *)
(* types, a stopped timer is gone unless load_timers held its row, and the *)
(* row, TIMERS and the sleeping task agree (TimersInv).                    *)
(***************************************************************************)
THEOREM InvCorrect == Spec => []TimersInv
<1>1. Init => TimersInv
  BY InitInv
<1>2. TimersInv /\ [Next]_vars => TimersInv'
  BY NextInv
<1> QED
  BY <1>1, <1>2, PTL DEF Spec

\* A timer that was stopped is gone for good, through restarts.
THEOREM StopIsFinalCorrect == Spec => []StopIsFinal
<1>1. TimersInv => StopIsFinal
  BY DEF TimersInv
<1> QED
  BY <1>1, InvCorrect, PTL

(***************************************************************************)
(* A timer that does not repeat fires once: firing needs the row, which the *)
(* first firing deleted and nothing writes again.                          *)
(***************************************************************************)
THEOREM OneShotOnceCorrect == Spec => OneShotOnce
<1> DEFINE Once == \A t \in OneShot : (\E g \in Maker : FireOneShot(t, g)) => t \notin fired
<1>1. TimersInv => Once
  BY DEF TimersInv, OneShotsKeepTime, FireOneShot
<1>2. TimersInv /\ [Next]_vars => [Once]_vars
  BY <1>1
<1> QED
  BY <1>2, InvCorrect, PTL DEF Spec, OneShotOnce

\* What is in step stays so with whole periods added.
LEMMA InStepPlus ==
  ASSUME NEW t \in Timer, first[t] \in Nat, NEW time \in Nat, NEW n \in Nat, InStep(t, time)
  PROVE  InStep(t, time + n * Period)
<1>1. Period \in Nat /\ Period > 0
  BY TimerAssumption
<1>2. PICK k \in Nat : time = first[t] + k * Period
  BY DEF InStep
<1>3. time + n * Period = first[t] + (k + n) * Period
  BY <1>1, <1>2
<1>4. k + n \in Nat /\ k + n <= (k + n) * Period
  <2>1. \A a \in Nat, b \in Nat : b > 0 => a <= a * b
    OBVIOUS
  <2> QED
    BY <1>1, <2>1
<1>5. (k + n) * Period \in Nat
  BY <1>1
<1>6. k + n \in 0 .. time + n * Period
  BY <1>3, <1>4, <1>5
<1> QED
  BY <1>3, <1>6 DEF InStep

LEMMA CaughtUpInStep ==
  ASSUME TypeOK, NEW t \in Timer, NEW time \in Nat, InStep(t, time)
  PROVE  InStep(t, CaughtUp(time))
<1> DEFINE n == (clock - time) \div Period + 1
<1>1. CASE time <= clock
  <2>1. clock - time \in Nat /\ Period \in Nat /\ Period > 0
    BY <1>1, TimerAssumption DEF TypeOK
  <2>2. n \in Nat
    BY <2>1
  <2>3. CaughtUp(time) = time + n * Period
    BY <1>1 DEF CaughtUp
  <2> HIDE DEF n
  <2> QED
    BY <2>2, <2>3, InStepPlus DEF TypeOK
<1>2. CASE ~(time <= clock)
  BY <1>2 DEF CaughtUp
<1> QED
  BY <1>1, <1>2

\* Only Start gives a timer its first run, and only to one that has nothing.
LEMMA StartGrid ==
  ASSUME TimersInv, OnGrid, NEW t \in Timer, NEW time \in Nat, time > clock, Start(t, time)
  PROVE  OnGrid'
<1>1. InStep(t, time)'
  <2>1. first'[t] = time /\ time = time + 0 * Period
    BY TimerAssumption DEF Start, TimersInv, TypeOK
  <2> QED
    BY <2>1 DEF InStep
<1>2. \A u \in Timer \ {t}, x \in Time : InStep(u, x) => InStep(u, x)'
  BY DEF Start, TimersInv, TypeOK, InStep
<1>3. ASSUME NEW u \in Timer \ {t}
      PROVE  /\ row'[u] = row[u] /\ listed'[u] = listed[u]
             /\ \A g \in Maker : at'[u][g] = at[u][g] /\ next'[u][g] = next[u][g]
  BY DEF Start, loadVars, TimersInv, TypeOK
<1>4. /\ row'[t] = time /\ listed'[t] = NoRow
      /\ \A g \in Maker : at'[t][g] # "none" => next'[t][g] = time
  BY Gens DEF Start, loadVars, TimersInv, TypeOK, Unstarted
<1>5. \A u \in Timer : row[u] \in Time /\ listed[u] \in Time /\ \A g \in Maker : next[u][g] \in Time
  BY DEF TimersInv, TypeOK, Time
<1> QED
  BY <1>1, <1>2, <1>3, <1>4, <1>5 DEF OnGrid, Exists

\* Where first does not change, being in step does not.
LEMMA SameFirst ==
  ASSUME UNCHANGED first, NEW t, NEW time
  PROVE  InStep(t, time)' <=> InStep(t, time)
BY DEF InStep

LEMMA GridKept == ASSUME TimersInv, OnGrid, [Next]_vars PROVE OnGrid'
<1> USE DEF tableVars, loadVars, taskVars, history
<1>1. CASE \/ Tick \/ Crash \/ Boot \/ Load \/ LoadEnds
           \/ \E t \in Timer : Stop(t) \/ LoadMissed(t) \/ LoadFails(t)
  <2>1. UNCHANGED first
    BY <1>1 DEF Tick, Crash, Boot, Load, LoadEnds, Stop, LoadMissed, LoadFails
  <2>2. \A t \in Timer : /\ row'[t] \in {row[t], NoRow}
                         /\ listed'[t] \in {listed[t], row[t], NoRow}
    BY <1>1 DEF Tick, Crash, Boot, Load, LoadEnds, Stop, LoadMissed, LoadFails,
       Nothing, TimersInv, TypeOK
  <2>3. UNCHANGED next
    BY <1>1 DEF Tick, Crash, Boot, Load, LoadEnds, Stop, LoadMissed, LoadFails
  <2>4. \A t \in Timer, g \in Maker : at'[t][g] \in {at[t][g], "none"}
    <3>1. CASE at' = at
      BY <3>1
    <3>2. CASE at' = NoTask
      BY <3>2 DEF NoTask
    <3>3. ASSUME NEW t \in Timer, at' = Cancelled(t)
          PROVE  \A u \in Timer, g \in Maker : at'[u][g] \in {at[u][g], "none"}
      BY <3>3 DEF Cancelled, TimersInv, TypeOK
    <3>4. at' = at \/ at' = NoTask \/ \E t \in Timer : at' = Cancelled(t)
      BY <1>1 DEF Tick, Crash, Boot, Load, LoadEnds, Stop, LoadMissed, LoadFails
    <3> QED
      BY <3>1, <3>2, <3>3, <3>4
  <2> QED
    BY <2>1, <2>2, <2>3, <2>4 DEF OnGrid, Exists, InStep
<1>2. ASSUME NEW t \in Timer, NEW g \in Maker,
             FireOneShot(t, g) \/ FireFails(t, g) \/ Sleep(t, g) \/ End(t, g) \/ SendFails(t, g)
      PROVE  OnGrid'
  <2>1. UNCHANGED <<first, listed, next>> /\ at[t][g] # "none"
    BY <1>2 DEF FireOneShot, FireFails, Sleep, End, SendFails, Due
  <2>2. \A u \in Timer : /\ row'[u] \in {row[u], NoRow}
                         /\ \A h \in Maker : at'[u][h] # "none" => at[u][h] # "none"
    BY <1>2, <2>1 DEF FireOneShot, FireFails, Sleep, End, SendFails, TimersInv, TypeOK
  <2> QED
    BY <2>1, <2>2 DEF OnGrid, Exists, InStep
<1>3. ASSUME NEW t \in Timer, NEW g \in Maker, FireRepeating(t, g) PROVE OnGrid'
  <2> DEFINE time == next[t][g] + Period
  <2>1. InStep(t, time)
    <3>1. InStep(t, next[t][g]) /\ next[t][g] \in Nat /\ first[t] \in Nat /\ Period \in Nat
      BY <1>3, TimerAssumption DEF FireRepeating, Due, OnGrid, TimersInv, TypeOK
    <3>2. InStep(t, next[t][g] + 1 * Period)
      BY <3>1, InStepPlus
    <3> QED
      BY <3>1, <3>2
  <2>2. UNCHANGED <<first, listed>> /\ row' = [row EXCEPT ![t] = time]
        /\ next' = [next EXCEPT ![t][g] = time] /\ at' = [at EXCEPT ![t][g] = "send"]
        /\ at[t][g] # "none"
    BY <1>3 DEF FireRepeating, Due, TimersInv, TypeOK
  <2> HIDE DEF time
  <2>3. \A u \in Timer : /\ row'[u] = IF u = t THEN time ELSE row[u]
                         /\ \A h \in Maker : at'[u][h] # "none" =>
                              \/ at[u][h] # "none" /\ next'[u][h] = next[u][h]
                              \/ u = t /\ next'[u][h] = time
    BY <2>2 DEF TimersInv, TypeOK
  <2> QED
    BY <2>1, <2>2, <2>3 DEF OnGrid, Exists, InStep
<1>4. ASSUME NEW t \in Timer, LoadTimer(t) PROVE OnGrid'
  <2> DEFINE time == CaughtUp(listed[t])
  <2>1. InStep(t, time)
    <3>1. listed[t] \in Nat /\ InStep(t, listed[t])
      BY <1>4 DEF LoadTimer, OnGrid, TimersInv, TypeOK, Time
    <3> QED
      BY <3>1, CaughtUpInStep DEF TimersInv
  <2>2. UNCHANGED first /\ row' = [row EXCEPT ![t] = time]
        /\ next' = [next EXCEPT ![t][Made] = time] /\ at' = [at EXCEPT ![t][Made] = "sleep"]
        /\ listed' = [listed EXCEPT ![t] = NoRow]
    BY <1>4 DEF LoadTimer
  <2> HIDE DEF time
  <2>3. \A u \in Timer : /\ row'[u] = IF u = t THEN time ELSE row[u]
                         /\ listed'[u] \in {listed[u], NoRow}
                         /\ \A h \in Maker : at'[u][h] # "none" =>
                              \/ at[u][h] # "none" /\ next'[u][h] = next[u][h]
                              \/ u = t /\ next'[u][h] = time
    BY <2>2, Gens DEF TimersInv, TypeOK
  <2> QED
    BY <2>1, <2>2, <2>3 DEF OnGrid, Exists, InStep
<1>5. ASSUME NEW t \in Timer, NEW time \in clock + 1 .. clock + 2 * Period, Start(t, time)
      PROVE  OnGrid'
  <2>1. clock \in Nat /\ Period \in Nat
    BY TimerAssumption DEF TimersInv, TypeOK
  <2>2. time \in Nat /\ time > clock
    BY <2>1
  <2> QED
    BY <1>5, <2>2, StartGrid
<1>6. CASE UNCHANGED vars
  BY <1>6 DEF vars, OnGrid, Exists, InStep
<1> QED
  BY <1>1, <1>2, <1>3, <1>4, <1>5, <1>6 DEF Next, Running

(***************************************************************************)
(* Whatever delays, failures and restarts come between, every row and      *)
(* every task of a timer is whole periods after its first run.             *)
(***************************************************************************)
THEOREM OnGridCorrect == Spec => []OnGrid
<1>1. Init => OnGrid
  BY DEF Init, OnGrid, Exists, Nothing, NoTask
<1>2. TimersInv /\ OnGrid /\ [Next]_vars => OnGrid'
  BY GridKept
<1> QED
  BY <1>1, <1>2, InvCorrect, PTL DEF Spec
=============================================================================
