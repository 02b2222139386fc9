------------------------------ MODULE DsProofs ------------------------------
(***************************************************************************)
(* Proofs about the two modules of /ds.  DsCamp: the log's rows pair up,   *)
(* no session leaves anybody clocked in or unpaid, for any campers,        *)
(* backdates and bounds.  DsSpawn: a restart or a reconnection moves the   *)
(* next spawn only if something came between a command's steps, for any    *)
(* chosen times.                                                           *)
(***************************************************************************)
EXTENDS DsCamp, DsSpawn, SequenceTheorems, FiniteSetTheorems, TLAPS

\* What the three ways of changing the log do to it.
LEMMA ClosePairs ==
  ASSUME log \in Seq(Row), PairsMatch,
         NEW i \in Active, NEW t \in Int, CloseEvent(i, t)
  PROVE  /\ log' \in Seq(Row)
         /\ Len(log') = Len(log) + 1
         /\ Active' = Active \ {i}
         /\ \A k \in Ids : /\ log'[k].time = log[k].time
                           /\ log'[k].camper = log[k].camper
                           /\ log'[k].start = log[k].start
         /\ log'[Len(log) + 1] = Out(i, t)
         /\ PairsMatch'
<1> DEFINE n == Len(log)
           closed == [log EXCEPT ![i].active = FALSE]
<1>1. i \in 1 .. n /\ n \in Nat /\ log[i] \in Row /\ log[i].active
  BY DEF Active, Ids
<1>2. closed \in Seq(Row) /\ Len(closed) = n
  <2>1. [log[i] EXCEPT !.active = FALSE] \in Row
    BY <1>1 DEF Row
  <2>2. closed = [log EXCEPT ![i] = [log[i] EXCEPT !.active = FALSE]]
    OBVIOUS
  <2> QED
    BY <2>1, <2>2, <1>1, ExceptSeq
<1>3. Out(i, t) \in Row
  BY <1>1 DEF Out, Row
<1>4. log' = Append(closed, Out(i, t))
  BY DEF CloseEvent
<1>5. log' \in Seq(Row) /\ Len(log') = n + 1
  BY <1>2, <1>3, <1>4
<1>6. log'[n + 1] = Out(i, t)
  BY <1>2, <1>4
<1>7. \A k \in 1 .. n : log'[k] = closed[k]
  BY <1>2, <1>4
<1>8. \A k \in 1 .. n : k # i => log'[k] = log[k]
  BY <1>1, <1>7
<1>9. /\ log'[i].active = FALSE
      /\ log'[i].event = log[i].event
      /\ log'[i].camper = log[i].camper
      /\ log'[i].start = log[i].start
      /\ log'[i].time = log[i].time
  <2> DEFINE row == [log[i] EXCEPT !.active = FALSE]
  <2>1. closed = [log EXCEPT ![i] = row]
    OBVIOUS
  <2>2. row \in Row
    BY <1>1 DEF Row
  <2> HIDE DEF row, closed
  <2>3. closed[i] = row
    BY <1>1, <2>1, <2>2, ExceptSeq
  <2>4. log'[i] = row
    BY <1>1, <1>7, <2>3
  <2> USE DEF row
  <2> QED
    BY <1>1, <2>4 DEF Row
<1>10. /\ log'[n + 1].event = "OUT"
       /\ log'[n + 1].active = FALSE
       /\ log'[n + 1].start = i
       /\ log'[n + 1].camper = log[i].camper
  BY <1>6 DEF Out
<1>11. Ids' = 1 .. n + 1 /\ Ids = 1 .. n
  BY <1>5 DEF Ids
<1>12. \A k \in 1 .. n : log[k].start # i
  <2> SUFFICES ASSUME NEW k \in 1 .. n, log[k].start = i PROVE FALSE
    OBVIOUS
  <2>1. log[k].event = "OUT"
    BY <1>1 DEF PairsMatch, Ids
  <2>2. ~log[log[k].start].active
    BY <2>1 DEF PairsMatch, Ids
  <2> QED
    BY <2>2, <1>1
<1>13. log[i].event = "IN" /\ log[i].start = 0
  BY <1>1 DEF PairsMatch, Ids, Row
<1>14. Active' = Active \ {i}
  <2>1. \A k \in 1 .. n + 1 : log'[k].active <=> (k \in 1 .. n /\ k # i /\ log[k].active)
    BY <1>1, <1>8, <1>9, <1>10
  <2> QED
    BY <2>1, <1>11, <1>1 DEF Active
<1>15. \A k \in Ids : /\ log'[k].time = log[k].time
                      /\ log'[k].camper = log[k].camper
                      /\ log'[k].start = log[k].start
  BY <1>8, <1>9, <1>11
<1>16. PairsMatch'
  <2>1. \A k \in 1 .. n + 1 : log'[k].event = "OUT" =>
          /\ ~log'[k].active
          /\ log'[k].start \in 1 .. k - 1
          /\ log'[log'[k].start].event = "IN"
          /\ log'[log'[k].start].camper = log'[k].camper
          /\ ~log'[log'[k].start].active
    <3> SUFFICES ASSUME NEW k \in 1 .. n + 1, log'[k].event = "OUT"
                 PROVE  /\ ~log'[k].active
                        /\ log'[k].start \in 1 .. k - 1
                        /\ log'[log'[k].start].event = "IN"
                        /\ log'[log'[k].start].camper = log'[k].camper
                        /\ ~log'[log'[k].start].active
      OBVIOUS
    <3>1. CASE k = n + 1
      BY <3>1, <1>1, <1>9, <1>10, <1>13
    <3>2. CASE k \in 1 .. n
      <4>1. k # i
        BY <1>9, <1>13
      <4>2. log'[k] = log[k] /\ log[k].event = "OUT"
        BY <3>2, <4>1, <1>8
      <4>3. /\ ~log[k].active
            /\ log[k].start \in 1 .. k - 1
            /\ log[log[k].start].event = "IN"
            /\ log[log[k].start].camper = log[k].camper
            /\ ~log[log[k].start].active
        BY <3>2, <4>2 DEF PairsMatch, Ids
      <4>4. log[k].start \in 1 .. n /\ log[k].start # i
        BY <3>2, <4>3, <1>1, <1>12
      <4> QED
        BY <4>2, <4>3, <4>4, <1>8
    <3> QED
      BY <3>1, <3>2, <1>1
  <2>2. \A k \in 1 .. n + 1 : log'[k].event # "OUT" =>
          /\ log'[k].start = 0
          /\ log'[k].active \/ \E j \in 1 .. n + 1 : log'[j].start = k
    <3> SUFFICES ASSUME NEW k \in 1 .. n + 1, log'[k].event # "OUT"
                 PROVE  /\ log'[k].start = 0
                        /\ log'[k].active \/ \E j \in 1 .. n + 1 : log'[j].start = k
      OBVIOUS
    <3>1. k \in 1 .. n
      BY <1>1, <1>10
    <3>2. CASE k = i
      BY <3>2, <1>1, <1>9, <1>10, <1>13
    <3>3. CASE k # i
      <4>1. log'[k] = log[k]
        BY <3>1, <3>3, <1>8
      <4>2. log[k].start = 0 /\ (log[k].active \/ \E j \in 1 .. n : log[j].start = k)
        BY <3>1, <4>1 DEF PairsMatch, Ids
      <4>3. \A j \in 1 .. n : log'[j].start = log[j].start
        BY <1>8, <1>9
      <4> QED
        BY <4>1, <4>2, <4>3, <1>1
    <3> QED
      BY <3>2, <3>3
  <2>3. \A k, j \in 1 .. n + 1 :
          log'[k].start = log'[j].start /\ log'[k].start # 0 => k = j
    <3>1. \A k \in 1 .. n : log'[k].start = log[k].start
      BY <1>8, <1>9
    <3>2. \A k, j \in 1 .. n : log[k].start = log[j].start /\ log[k].start # 0 => k = j
      BY DEF PairsMatch, Ids
    <3>3. \A k \in 1 .. n + 1 : k \in 1 .. n \/ k = n + 1
      BY <1>1
    <3> QED
      BY <3>1, <3>2, <3>3, <1>10, <1>12
  <2> QED
    BY <2>1, <2>2, <2>3, <1>11 DEF PairsMatch
<1> QED
  BY <1>5, <1>6, <1>14, <1>15, <1>16

LEMMA StartPairs ==
  ASSUME log \in Seq(Row), PairsMatch,
         NEW c \in Camper, NEW t \in Int, StartEvent(c, t)
  PROVE  /\ log' \in Seq(Row)
         /\ Len(log') = Len(log) + 1
         /\ Active' = Active \cup {Len(log) + 1}
         /\ \A k \in Ids : /\ log'[k].time = log[k].time
                           /\ log'[k].camper = log[k].camper
                           /\ log'[k].start = log[k].start
         /\ log'[Len(log) + 1].time = t
         /\ log'[Len(log) + 1].camper = c
         /\ log'[Len(log) + 1].start = 0
         /\ PairsMatch'
<1> DEFINE n == Len(log)
           r == [camper |-> c, event |-> "IN", time |-> t,
                 active |-> TRUE, start |-> 0]
<1>1. n \in Nat /\ Ids = 1 .. n
  BY DEF Ids
<1>2. r \in Row
  BY DEF Row
<1>3. log' = Append(log, r)
  BY DEF StartEvent
<1>4. log' \in Seq(Row) /\ Len(log') = n + 1 /\ log'[n + 1] = r
  BY <1>2, <1>3
<1>5. \A k \in 1 .. n : log'[k] = log[k]
  BY <1>2, <1>3
<1>6. Ids' = 1 .. n + 1
  BY <1>4 DEF Ids
<1>7. \A k \in 1 .. n + 1 : k \in 1 .. n \/ k = n + 1
  BY <1>1
<1>8. Active' = Active \cup {n + 1}
  <2>1. \A k \in 1 .. n + 1 : log'[k].active <=> (k = n + 1 \/ (k \in 1 .. n /\ log[k].active))
    BY <1>4, <1>5, <1>7, <1>1
  <2> QED
    BY <2>1, <1>1, <1>6 DEF Active
<1>9. PairsMatch'
  <2>1. \A k \in 1 .. n + 1 : log'[k].event = "OUT" =>
          /\ ~log'[k].active
          /\ log'[k].start \in 1 .. k - 1
          /\ log'[log'[k].start].event = "IN"
          /\ log'[log'[k].start].camper = log'[k].camper
          /\ ~log'[log'[k].start].active
    <3> SUFFICES ASSUME NEW k \in 1 .. n + 1, log'[k].event = "OUT"
                 PROVE  /\ ~log'[k].active
                        /\ log'[k].start \in 1 .. k - 1
                        /\ log'[log'[k].start].event = "IN"
                        /\ log'[log'[k].start].camper = log'[k].camper
                        /\ ~log'[log'[k].start].active
      OBVIOUS
    <3>1. k \in 1 .. n
      BY <1>4, <1>7
    <3>2. log'[k] = log[k] /\ log[k].event = "OUT"
      BY <3>1, <1>5
    <3>3. /\ ~log[k].active
          /\ log[k].start \in 1 .. k - 1
          /\ log[log[k].start].event = "IN"
          /\ log[log[k].start].camper = log[k].camper
          /\ ~log[log[k].start].active
      BY <3>1, <3>2 DEF PairsMatch, Ids
    <3>4. log[k].start \in 1 .. n
      BY <3>1, <3>3, <1>1
    <3> QED
      BY <3>2, <3>3, <3>4, <1>5
  <2>2. \A k \in 1 .. n + 1 : log'[k].event # "OUT" =>
          /\ log'[k].start = 0
          /\ log'[k].active \/ \E j \in 1 .. n + 1 : log'[j].start = k
    <3> SUFFICES ASSUME NEW k \in 1 .. n + 1, log'[k].event # "OUT"
                 PROVE  /\ log'[k].start = 0
                        /\ log'[k].active \/ \E j \in 1 .. n + 1 : log'[j].start = k
      OBVIOUS
    <3>1. CASE k = n + 1
      BY <3>1, <1>4
    <3>2. CASE k \in 1 .. n
      <4>1. log[k].start = 0 /\ (log[k].active \/ \E j \in 1 .. n : log[j].start = k)
        BY <3>2, <1>5 DEF PairsMatch, Ids
      <4> QED
        BY <4>1, <3>2, <1>5, <1>1
    <3> QED
      BY <3>1, <3>2, <1>7
  <2>3. \A k, j \in 1 .. n + 1 :
          log'[k].start = log'[j].start /\ log'[k].start # 0 => k = j
    <3>1. \A k, j \in 1 .. n : log[k].start = log[j].start /\ log[k].start # 0 => k = j
      BY DEF PairsMatch, Ids
    <3>2. log'[n + 1].start = 0
      BY <1>4
    <3>3. \A k \in 1 .. n : log'[k].start = log[k].start
      BY <1>5
    <3> QED
      BY <3>1, <3>2, <3>3, <1>7
  <2> QED
    BY <2>1, <2>2, <2>3, <1>6 DEF PairsMatch
<1> QED
  BY <1>1, <1>4, <1>5, <1>8, <1>9

LEMMA MovePairs ==
  ASSUME log \in Seq(Row), PairsMatch,
         NEW i \in Ids, NEW t \in Int, log' = [log EXCEPT ![i].time = t]
  PROVE  /\ log' \in Seq(Row)
         /\ Len(log') = Len(log)
         /\ Active' = Active
         /\ \A k \in Ids : /\ log'[k].time = IF k = i THEN t ELSE log[k].time
                           /\ log'[k].camper = log[k].camper
                           /\ log'[k].start = log[k].start
         /\ PairsMatch'
<1>1. log[i] \in Row /\ [log[i] EXCEPT !.time = t] \in Row
  <2>1. log[i] \in Row
    BY DEF Ids
  <2> QED
    BY <2>1 DEF Row
<1>2. log' = [log EXCEPT ![i] = [log[i] EXCEPT !.time = t]]
  OBVIOUS
<1>3. log' \in Seq(Row) /\ Len(log') = Len(log)
  BY <1>1, <1>2, ExceptSeq DEF Ids
<1>4. \A k \in Ids : log'[k] = IF k = i THEN [log[i] EXCEPT !.time = t] ELSE log[k]
  BY <1>1, <1>2, ExceptSeq DEF Ids
<1>5. \A k \in Ids : /\ log'[k].active = log[k].active
                     /\ log'[k].event = log[k].event
                     /\ log'[k].camper = log[k].camper
                     /\ log'[k].start = log[k].start
                     /\ log'[k].time = IF k = i THEN t ELSE log[k].time
  BY <1>1, <1>4 DEF Row
<1>6. Ids' = Ids
  BY <1>3 DEF Ids
<1>7. Active' = Active
  BY <1>5, <1>6 DEF Active
<1>8. \A k \in Ids : log[k].event = "OUT" => log[k].start \in Ids
  BY DEF PairsMatch, Ids
<1>9. PairsMatch'
  BY <1>5, <1>6, <1>8 DEF PairsMatch
<1> QED
  BY <1>3, <1>5, <1>7, <1>9

LEMMA InitInv == Init => CampInv
<1> SUFFICES ASSUME Init PROVE CampInv
  OBVIOUS
<1>1. log = <<>> /\ Len(log) = 0 /\ Ids = {} /\ Active = {}
  BY DEF Init, Ids, Active
<1>2. TypeOK
  BY <1>1, CampAssumption DEF Init, TypeOK, Nobody
<1>3. PairsMatch
  BY <1>1 DEF PairsMatch
<1>4. TodKnowsTheLog /\ PopClosesCamp
  BY <1>1 DEF TodKnowsTheLog, PopClosesCamp, Init
<1> QED
  BY <1>2, <1>3, <1>4 DEF CampInv

LEMMA NobodyType == Nobody \in [Camper -> SUBSET (Int \X Int)]
BY DEF Nobody

LEMMA RowType ==
  ASSUME TypeOK, NEW i \in Ids
  PROVE  log[i].camper \in Camper /\ log[i].time \in Int
<1>1. log[i] \in Row
  BY DEF TypeOK, Ids
<1> QED
  BY <1>1 DEF Row

\* A window is a pair of times.
LEMMA WindowsType ==
  ASSUME TypeOK, PairsMatch, NEW c \in Camper
  PROVE  Windows(c) \in SUBSET (Int \X Int)
<1>1. \A i \in Ids : log[i].time \in Int
  BY RowType
<1>2. \A i \in Ids : log[i].start # 0 => log[i].start \in Ids
  BY DEF PairsMatch, Ids
<1> QED
  BY <1>1, <1>2 DEF Windows

\* What a command needs of the row it has found.
LEMMA LatestType == \A c \in Camper : Latest(c) \subseteq Ids
BY DEF Latest

LEMMA BackdatedType ==
  ASSUME TypeOK, NEW b \in Backdates \cup {0}
  PROVE  Backdated(b) \in Int
BY CampAssumption DEF TypeOK, Backdated

(***************************************************************************)
(* The three ways a command leaves the log are safe while tod does not run. *)
(***************************************************************************)
LEMMA StartStep ==
  ASSUME CampInv, NEW c \in Camper, NEW b \in Backdates \cup {0}, Start(c, b)
  PROVE  CampInv'
<1> DEFINE t == Backdated(b)
<1> USE DEF CampInv
<1>1. t \in Int /\ t >= lastPop /\ lastPop \in Nat
  BY BackdatedType DEF Start, TypeOK
<1>2. /\ clock' \in Nat
      /\ phase = "idle"
      /\ UNCHANGED <<lastPop, phase, todVars, ledger>>
  BY DEF Start, CommandTime, Idle, TypeOK
<1>3. quake = {} /\ closing = {}
  BY <1>2 DEF TodKnowsTheLog
<1>5. CASE StartEvent(c, t)
  <2>1. /\ log' \in Seq(Row)
        /\ Len(log') = Len(log) + 1
        /\ Active' = Active \cup {Len(log) + 1}
        /\ \A k \in Ids : log'[k].time = log[k].time
        /\ log'[Len(log) + 1].time = t
        /\ PairsMatch'
    BY <1>5, <1>1, StartPairs DEF TypeOK
  <2>2. TypeOK'
    BY <2>1, <1>2 DEF TypeOK, todVars, ledger
  <2>3. PopClosesCamp'
    <3>1. Active \subseteq Ids
      BY DEF Active
    <3> QED
      BY <2>1, <3>1, <1>1, <1>2 DEF PopClosesCamp
  <2>4. TodKnowsTheLog'
    BY <1>2, <1>3 DEF TodKnowsTheLog, todVars
  <2> QED
    BY <2>1, <2>2, <2>3, <2>4
<1>6. ASSUME NEW i \in Latest(c), log' = [log EXCEPT ![i].time = t]
      PROVE  CampInv'
  <2>1. i \in Ids
    BY LatestType
  <2>2. /\ log' \in Seq(Row)
        /\ Len(log') = Len(log)
        /\ Active' = Active
        /\ \A k \in Ids : log'[k].time = IF k = i THEN t ELSE log[k].time
        /\ PairsMatch'
    BY <1>6, <1>1, <2>1, MovePairs DEF TypeOK
  <2>3. TypeOK'
    BY <2>2, <1>2 DEF TypeOK, todVars, ledger
  <2>4. PopClosesCamp'
    <3>1. Active \subseteq Ids
      BY DEF Active
    <3> QED
      BY <2>2, <3>1, <1>1, <1>2 DEF PopClosesCamp
  <2>5. TodKnowsTheLog'
    BY <1>2, <1>3 DEF TodKnowsTheLog, todVars
  <2> QED
    BY <2>2, <2>3, <2>4, <2>5
<1> QED
  BY <1>5, <1>6 DEF Start

LEMMA StopStep ==
  ASSUME CampInv, NEW c \in Camper, NEW b \in Backdates \cup {0}, Stop(c, b)
  PROVE  CampInv'
<1> DEFINE t == Backdated(b)
<1> USE DEF CampInv
<1>1. t \in Int
  BY BackdatedType
<1>2. /\ clock' \in Nat
      /\ phase = "idle"
      /\ UNCHANGED <<lastPop, phase, todVars, ledger>>
  BY DEF Stop, CommandTime, Idle, TypeOK
<1>3. quake = {} /\ closing = {}
  BY <1>2 DEF TodKnowsTheLog
<1>4. PICK i \in Latest(c) : log[i].active /\ CloseEvent(i, t)
  BY DEF Stop
<1>5. i \in Active /\ Active \subseteq Ids
  BY <1>4, LatestType DEF Active
<1>6. /\ log' \in Seq(Row)
      /\ Len(log') = Len(log) + 1
      /\ Active' = Active \ {i}
      /\ \A k \in Ids : log'[k].time = log[k].time
      /\ PairsMatch'
  BY <1>1, <1>4, <1>5, ClosePairs DEF TypeOK
<1>7. TypeOK'
  BY <1>6, <1>2 DEF TypeOK, todVars, ledger
<1>8. PopClosesCamp'
  BY <1>2, <1>5, <1>6 DEF PopClosesCamp
<1>9. TodKnowsTheLog'
  BY <1>2, <1>3 DEF TodKnowsTheLog, todVars
<1> QED
  BY <1>6, <1>7, <1>8, <1>9

LEMMA RestateStep ==
  ASSUME CampInv, NEW c \in Camper, NEW b \in Backdates \cup {0}, RestateStop(c, b)
  PROVE  CampInv'
<1> DEFINE t == Backdated(b)
<1> USE DEF CampInv
<1>1. t \in Int
  BY BackdatedType
<1>2. /\ clock' \in Nat
      /\ phase = "idle"
      /\ UNCHANGED <<lastPop, phase, todVars, ledger>>
  BY DEF RestateStop, CommandTime, Idle, TypeOK
<1>3. quake = {} /\ closing = {}
  BY <1>2 DEF TodKnowsTheLog
<1>4. PICK i \in Latest(c) : ~log[i].active /\ log' = [log EXCEPT ![i].time = t]
  BY DEF RestateStop
<1>5. i \in Ids /\ i \notin Active /\ Active \subseteq Ids
  BY <1>4, LatestType DEF Active
<1>6. /\ log' \in Seq(Row)
      /\ Len(log') = Len(log)
      /\ Active' = Active
      /\ \A k \in Ids : log'[k].time = IF k = i THEN t ELSE log[k].time
      /\ PairsMatch'
  <2>1. log \in Seq(Row) /\ PairsMatch
    BY DEF TypeOK
  <2> HIDE DEF CampInv, t
  <2> QED
    BY <1>1, <1>4, <1>5, <2>1, MovePairs
<1>7. TypeOK'
  BY <1>6, <1>2 DEF TypeOK, todVars, ledger
<1>8. PopClosesCamp'
  BY <1>2, <1>5, <1>6 DEF PopClosesCamp
<1>9. TodKnowsTheLog'
  BY <1>2, <1>3 DEF TodKnowsTheLog, todVars
<1> QED
  BY <1>6, <1>7, <1>8, <1>9

\* tod closes a row it knows to be active.
LEMMA TodCloseStep ==
  ASSUME CampInv, NEW i \in Ids, TodClose(i)
  PROVE  CampInv'
<1> USE DEF CampInv
<1>1. /\ phase = "close" /\ i \in closing /\ CloseEvent(i, todStop)
      /\ closing' = closing \ {i}
      /\ UNCHANGED <<lastPop, clock, phase, todStop, due, quake, ledger>>
  BY DEF TodClose
<1>2. Active = closing /\ quake \subseteq Ids /\ Active \subseteq Ids
  BY <1>1 DEF TodKnowsTheLog, Active
<1>3. todStop \in Int
  BY DEF TypeOK
<1>4. /\ log' \in Seq(Row)
      /\ Len(log') = Len(log) + 1
      /\ Active' = Active \ {i}
      /\ \A k \in Ids : log'[k].time = log[k].time
      /\ PairsMatch'
  BY <1>1, <1>2, <1>3, ClosePairs DEF TypeOK
<1>5. TypeOK'
  BY <1>1, <1>4 DEF TypeOK, ledger
<1>6. PopClosesCamp'
  BY <1>1, <1>2, <1>4 DEF PopClosesCamp
<1>7. Ids \subseteq Ids'
  BY <1>4 DEF Ids, TypeOK
<1>8. TodKnowsTheLog'
  BY <1>1, <1>2, <1>4, <1>7 DEF TodKnowsTheLog
<1> QED
  BY <1>4, <1>5, <1>6, <1>8

\* The steps that leave the log alone.
LEMMA RestStep ==
  ASSUME CampInv, log' = log,
         \/ Tick \/ TodBegin \/ TodCompute \/ TodCredited \/ TodPop \/ Crash
         \/ \E c \in Camper : TodCredit(c)
         \/ \E i \in Ids : TodBonus(i)
         \/ UNCHANGED vars
  PROVE  CampInv'
<1> USE DEF CampInv
<1>1. Ids' = Ids /\ Active' = Active /\ PairsMatch' /\ Active \subseteq Ids
  BY DEF Ids, Active, PairsMatch
<1>2. CASE Tick \/ UNCHANGED vars
  <2>1. clock' \in Nat /\ UNCHANGED <<lastPop, phase, todVars, ledger>>
    BY <1>2 DEF Tick, CommandTime, vars, TypeOK
  <2>2. TypeOK'
    BY <2>1 DEF TypeOK, todVars, ledger
  <2>3. TodKnowsTheLog' /\ PopClosesCamp'
    BY <1>1, <2>1 DEF TodKnowsTheLog, PopClosesCamp, todVars
  <2> QED
    BY <1>1, <2>2, <2>3
<1>3. CASE TodBegin
  <2>1. TypeOK'
    <3>1. Active \subseteq Nat
      BY DEF Active, Ids, TypeOK
    <3>2. quake' \subseteq Nat /\ closing' \subseteq Nat
      BY <3>1, <1>3 DEF TodBegin
    <3>3. clock' \in Nat /\ todStop' \in Nat /\ phase' = "close"
      BY <1>3 DEF TodBegin, CommandTime, TypeOK
    <3>4. UNCHANGED <<lastPop, due, ledger>>
      BY <1>3 DEF TodBegin
    <3> QED
      BY <3>2, <3>3, <3>4 DEF TypeOK, ledger
  <2> QED
    BY <2>1, <1>1, <1>3 DEF TodBegin, TodKnowsTheLog, PopClosesCamp
<1>4. CASE TodCompute
  <2>1. \A c \in Camper : Windows(c) \in SUBSET (Int \X Int)
    BY WindowsType
  <2>2. due' \in [Camper -> SUBSET (Int \X Int)]
    BY <2>1, <1>4 DEF TodCompute
  <2>3. TypeOK'
    BY <2>2, <1>4 DEF TodCompute, TypeOK, ledger
  <2> QED
    BY <2>3, <1>1, <1>4 DEF TodCompute, TodKnowsTheLog, PopClosesCamp
<1>5. CASE \E c \in Camper : TodCredit(c)
  BY <1>1, <1>5 DEF TodCredit, TypeOK, TodKnowsTheLog, PopClosesCamp
<1>6. CASE TodCredited
  BY <1>1, <1>6 DEF TodCredited, todVars, ledger, TypeOK, TodKnowsTheLog,
     PopClosesCamp
<1>7. CASE \E i \in Ids : TodBonus(i)
  <2>1. PICK i \in Ids : TodBonus(i)
    BY <1>7
  <2>2. log[i].camper \in Camper
    BY RowType
  <2>3. bonus' \in [Camper -> Nat]
    BY <2>1, <2>2 DEF TodBonus, TypeOK
  <2> QED
    BY <2>1, <2>3, <1>1 DEF TodBonus, TypeOK, TodKnowsTheLog, PopClosesCamp
<1>8. CASE TodPop
  BY <1>1, <1>8 DEF TodPop, todVars, TypeOK, TodKnowsTheLog, PopClosesCamp
<1>9. CASE Crash
  BY <1>1, <1>9, NobodyType DEF Crash, ledger, TypeOK, TodKnowsTheLog,
     PopClosesCamp
<1> QED
  BY <1>2, <1>3, <1>4, <1>5, <1>6, <1>7, <1>8, <1>9

LEMMA NextInv == CampInv /\ [Next]_vars => CampInv'
<1> SUFFICES ASSUME CampInv, [Next]_vars PROVE CampInv'
  OBVIOUS
<1>1. CASE \E c \in Camper : Commands(c)
  BY <1>1, StartStep, StopStep, RestateStep DEF Commands
<1>2. CASE \E i \in Ids : TodClose(i)
  BY <1>2, TodCloseStep
<1>3. CASE \/ Tick \/ TodBegin \/ TodCompute \/ TodCredited \/ TodPop \/ Crash
           \/ \E c \in Camper : TodCredit(c)
           \/ \E i \in Ids : TodBonus(i)
           \/ UNCHANGED vars
  <2>1. log' = log
    BY <1>3 DEF Tick, TodBegin, TodCompute, TodCredited, TodPop, Crash,
       TodCredit, TodBonus, vars
  <2> QED
    BY <1>3, <2>1, RestStep
<1> QED
  BY <1>1, <1>2, <1>3 DEF Next, Tod

(***************************************************************************)
(* Whatever is started, stopped, backdated and reported, in whatever order *)
(* and wherever the process ends: rows pair up, tod knows which are open,  *)
(* and nobody stays clocked in across a POP (cmd_ds.py).                   *)
(***************************************************************************)
THEOREM CampCorrect == Spec => []CampInv
<1>1. Init => CampInv
  BY InitInv
<1>2. CampInv /\ [Next]_vars => CampInv'
  BY NextInv
<1> QED
  BY <1>1, <1>2, PTL DEF Spec

\* A camper who is still in came after the last POP.
THEOREM PopCorrect == Spec => []PopClosesCamp
<1>1. CampInv => PopClosesCamp
  BY DEF CampInv
<1> QED
  BY <1>1, CampCorrect, PTL
-----------------------------------------------------------------------------
(* Everybody is paid *)

\* Who earned something has been paid or is still to be paid.
CreditLeft ==
  /\ phase = "credit" =>
       \A c \in Camper : Earns(c) => paid[c] # 0 \/ due[c] # {}
  /\ phase = "bonus" => \A c \in Camper : Earns(c) => paid[c] # 0

LEMMA EarnsStays ==
  ASSUME log' = log, lastPop' = lastPop, todStop' = todStop, NEW c
  PROVE  Earns(c)' = Earns(c)
BY DEF Earns, Windows, Credited, Ids

LEMMA CreditStep ==
  ASSUME TypeOK, CreditLeft, [Next]_vars PROVE CreditLeft'
<1>1. ASSUME phase' \in {"idle", "close"} PROVE CreditLeft'
  BY <1>1 DEF CreditLeft
<1>2. ASSUME NEW c \in Camper, Commands(c) PROVE CreditLeft'
  <2>1. phase = "idle" /\ phase' = phase
    BY <1>2 DEF Commands, Start, Stop, RestateStop, CommandTime, Idle
  <2> QED
    BY <1>1, <2>1
<1>3. CASE Tick \/ TodBegin \/ TodPop \/ Crash
  BY <1>1, <1>3 DEF Tick, CommandTime, Idle, TodBegin, TodPop, Crash
<1>4. ASSUME NEW i \in Ids, TodClose(i) PROVE CreditLeft'
  BY <1>1, <1>4 DEF TodClose
<1>5. CASE TodCompute
  <2>1. /\ phase' = "credit" /\ UNCHANGED <<log, lastPop, todStop>>
        /\ due' = [c \in Camper |-> IF Earns(c) THEN Windows(c) ELSE {}]
    BY <1>5 DEF TodCompute
  <2>2. ASSUME NEW c \in Camper, Earns(c)' PROVE due'[c] # {}
    <3>1. Earns(c)
      BY <2>1, <2>2, EarnsStays
    <3>2. due'[c] = Windows(c)
      BY <2>1, <3>1
    <3> QED
      BY <3>1, <3>2 DEF Earns
  <2> QED
    BY <2>1, <2>2 DEF CreditLeft
<1>6. ASSUME NEW c \in Camper, TodCredit(c) PROVE CreditLeft'
  <2>1. /\ phase = "credit" /\ phase' = "credit"
        /\ due' = [due EXCEPT ![c] = {}]
        /\ paid' = [paid EXCEPT ![c] = @ + 1]
        /\ UNCHANGED <<log, lastPop, todStop>>
    BY <1>6 DEF TodCredit
  <2>2. paid'[c] # 0
    BY <2>1 DEF TypeOK
  <2>3. \A k \in Camper \ {c} : paid'[k] = paid[k] /\ due'[k] = due[k]
    BY <2>1 DEF TypeOK
  <2>4. \A k \in Camper : Earns(k)' = Earns(k)
    BY <2>1, EarnsStays
  <2> QED
    BY <2>1, <2>2, <2>3, <2>4 DEF CreditLeft
<1>7. CASE TodCredited
  <2>1. /\ phase = "credit" /\ phase' = "bonus" /\ due = Nobody
        /\ UNCHANGED <<log, lastPop, todStop, paid>>
    BY <1>7 DEF TodCredited, todVars, ledger
  <2>2. \A k \in Camper : Earns(k)' = Earns(k)
    BY <2>1, EarnsStays
  <2>3. \A k \in Camper : due[k] = {}
    BY <2>1 DEF Nobody
  <2> QED
    BY <2>1, <2>2, <2>3 DEF CreditLeft
<1>8. ASSUME UNCHANGED <<log, lastPop, todStop, phase, due, paid>>
      PROVE  CreditLeft'
  <2>1. \A k \in Camper : Earns(k)' = Earns(k)
    BY <1>8, EarnsStays
  <2> QED
    BY <1>8, <2>1 DEF CreditLeft
<1>9. CASE UNCHANGED vars \/ \E i \in Ids : TodBonus(i)
  BY <1>8, <1>9 DEF TodBonus, vars, todVars, ledger
<1> QED
  BY <1>2, <1>3, <1>4, <1>5, <1>6, <1>7, <1>9 DEF Next, Tod

\* A window of one row and the row that closes it is one of the camper's.
LEMMA PairIsWindow ==
  ASSUME TypeOK, PairsMatch, NEW c \in Camper, NEW i \in Ids, NEW j \in Ids,
         log[i].camper = c, log[i].time > lastPop, log[j].start = i
  PROVE  <<log[i].time, log[j].time>> \in Windows(c)
<1>1. i # 0 /\ log[j].event \in {"IN", "OUT"} /\ log[i].event \in {"IN", "OUT"}
  <2>1. log[i] \in Row /\ log[j] \in Row
    BY DEF TypeOK, Ids
  <2> QED
    BY <2>1 DEF Row, Ids
<1>2. log[j].event = "OUT"
  BY <1>1 DEF PairsMatch
<1>3. log[i].event = "IN"
  BY <1>2 DEF PairsMatch
<1>4. log[i].start = 0
  BY <1>3 DEF PairsMatch
<1> QED
  BY <1>4 DEF Windows

(***************************************************************************)
(* A session does not end before everybody whose windows hold a minute of  *)
(* it is paid, for any campers, backdates and bounds, also when tod was    *)
(* cut short and run again (tod stores the POP after the credits).         *)
(***************************************************************************)
THEOREM EverybodyPaidCorrect == Spec => EverybodyPaid
<1> DEFINE Paid == lastPop' # lastPop =>
             \A c \in Camper :
               paid[c] = 0 =>
                 \A i, j \in Ids :
                   /\ log[i].camper = c /\ log[i].time > lastPop
                   /\ log[j].start = i
                   => Credited(<<log[i].time, log[j].time>>) = {}
<1>1. Init => CreditLeft
  BY DEF Init, CreditLeft
<1>2. CampInv /\ CreditLeft /\ [Next]_vars => CreditLeft'
  BY CreditStep DEF CampInv
<1>3. CampInv /\ CreditLeft /\ [Next]_vars => [Paid]_vars
  <2> SUFFICES ASSUME CampInv, CreditLeft, [Next]_vars, lastPop' # lastPop,
                      NEW c \in Camper, paid[c] = 0,
                      NEW i \in Ids, NEW j \in Ids,
                      log[i].camper = c, log[i].time > lastPop, log[j].start = i
               PROVE  Credited(<<log[i].time, log[j].time>>) = {}
    OBVIOUS
  <2>1. TodPop
    BY DEF Next, Tod, Commands, Start, Stop, RestateStop, Tick, TodBegin,
       TodCompute, TodCredited, TodClose, TodBonus, TodCredit, Crash, vars
  <2>2. ~Earns(c)
    BY <2>1 DEF TodPop, CreditLeft
  <2>3. <<log[i].time, log[j].time>> \in Windows(c)
    BY PairIsWindow DEF CampInv
  <2> QED
    BY <2>2, <2>3 DEF Earns
<1> QED
  BY <1>1, <1>2, <1>3, CampCorrect, PTL DEF Spec, EverybodyPaid
-----------------------------------------------------------------------------
(* Without backdates *)

\* Rows are stored as they happen.
RowsArePast == \A i \in Ids : log[i].time < clock

\* tod takes no time, and what it closes began before it.
TodIsNow ==
  /\ phase # "idle" => clock = todStop + 1 /\ lastPop <= todStop
  /\ phase = "close" => \A i \in closing : log[i].time < todStop

\* Nothing is stored for a camper after he came and before he leaves.
ActiveIsLatest ==
  \A i \in Active, j \in Ids :
    j # i /\ log[j].camper = log[i].camper => log[j].time < log[i].time

\* An OUT row of the session is later than its IN row, which is of the session.
OutFollowsIn ==
  \A i \in Ids :
    log[i].start # 0 =>
      /\ log[log[i].start].time < log[i].time
      /\ log[i].time > lastPop => log[log[i].start].time >= lastPop

\* The windows tod pays for lie in the session.
DueInSession ==
  phase = "credit" =>
    \A c \in Camper : \A w \in due[c] :
      lastPop <= w[1] /\ w[1] < w[2] /\ w[2] <= todStop

RowsInOrder == RowsArePast /\ ActiveIsLatest /\ OutFollowsIn

PlainInv == CampInv /\ RowsInOrder /\ TodIsNow /\ DueInSession

LEMMA ActiveOnce == ActiveIsLatest /\ TypeOK => ClockedInOnce
<1> SUFFICES ASSUME ActiveIsLatest, TypeOK,
                    NEW i \in Active, NEW j \in Active,
                    log[i].camper = log[j].camper, i # j
             PROVE  FALSE
  BY DEF ClockedInOnce
<1>1. i \in Ids /\ j \in Ids
  BY DEF Active
<1>2. log[j].time < log[i].time /\ log[i].time < log[j].time
  BY <1>1 DEF ActiveIsLatest
<1> QED
  BY <1>1, <1>2, RowType

\* An OUT row stored at its time keeps the order.
LEMMA CloseOrder ==
  ASSUME TypeOK, PairsMatch, PopClosesCamp, RowsInOrder,
         NEW i \in Active, NEW t \in Int, CloseEvent(i, t),
         log[i].time < t, clock <= t + 1, clock' = t + 1, lastPop' = lastPop
  PROVE  RowsInOrder'
<1> DEFINE n == Len(log)
<1> USE DEF RowsInOrder
<1>1. /\ n \in Nat /\ Ids = 1 .. n /\ i \in Ids
      /\ clock \in Int /\ lastPop \in Int
      /\ \A k \in Ids : log[k].time \in Int
  BY RowType DEF Ids, TypeOK, Active
<1>2. /\ Len(log') = n + 1
      /\ Active' = Active \ {i}
      /\ \A k \in Ids : /\ log'[k].time = log[k].time
                        /\ log'[k].camper = log[k].camper
                        /\ log'[k].start = log[k].start
      /\ log'[n + 1] = Out(i, t)
  BY ClosePairs DEF TypeOK
<1>3. /\ log'[n + 1].time = t
      /\ log'[n + 1].camper = log[i].camper
      /\ log'[n + 1].start = i
  BY <1>2 DEF Out
<1>4. Ids' = 1 .. n + 1 /\ \A k \in 1 .. n + 1 : k \in Ids \/ k = n + 1
  BY <1>1, <1>2 DEF Ids
<1>5. RowsArePast'
  <2> SUFFICES ASSUME NEW k \in 1 .. n + 1 PROVE log'[k].time < t + 1
    BY <1>4 DEF RowsArePast
  <2>1. CASE k \in Ids
    BY <2>1, <1>1, <1>2 DEF RowsArePast
  <2>2. CASE k = n + 1
    BY <2>2, <1>3
  <2> QED
    BY <2>1, <2>2, <1>4
<1>6. ActiveIsLatest'
  <2> SUFFICES ASSUME NEW a \in Active, a # i, NEW j \in 1 .. n + 1, j # a,
                      log'[j].camper = log'[a].camper
               PROVE  log'[j].time < log'[a].time
    BY <1>2, <1>4 DEF ActiveIsLatest
  <2>1. a \in Ids
    BY DEF Active
  <2>2. log[a].camper # log[i].camper
    BY ActiveOnce DEF ClockedInOnce
  <2>3. j \in Ids
    BY <2>1, <2>2, <1>2, <1>3, <1>4
  <2> QED
    BY <2>1, <2>3, <1>2 DEF ActiveIsLatest
<1>7. OutFollowsIn'
  <2> SUFFICES ASSUME NEW k \in 1 .. n + 1, log'[k].start # 0
               PROVE  /\ log'[log'[k].start].time < log'[k].time
                      /\ log'[k].time > lastPop => log'[log'[k].start].time >= lastPop
    BY <1>4 DEF OutFollowsIn
  <2>1. CASE k \in Ids
    <3>1. log[k].start \in Ids
      BY <2>1, <1>2 DEF PairsMatch, Ids
    <3> QED
      BY <2>1, <3>1, <1>2 DEF OutFollowsIn
  <2>2. CASE k = n + 1
    BY <2>2, <1>1, <1>2, <1>3 DEF PopClosesCamp
  <2> QED
    BY <2>1, <2>2, <1>4
<1> QED
  BY <1>5, <1>6, <1>7

\* An IN row of a camper who is out keeps it too.
LEMMA StartOrder ==
  ASSUME TypeOK, PairsMatch, RowsInOrder,
         NEW c \in Camper, StartEvent(c, clock),
         \A i \in Active : log[i].camper # c,
         clock' = clock + 1, lastPop' = lastPop
  PROVE  RowsInOrder'
<1> DEFINE n == Len(log)
<1> USE DEF RowsInOrder
<1>1. /\ n \in Nat /\ Ids = 1 .. n
      /\ clock \in Int /\ lastPop \in Int
      /\ \A k \in Ids : log[k].time \in Int
  BY RowType DEF Ids, TypeOK
<1>2. /\ Len(log') = n + 1
      /\ Active' = Active \cup {n + 1}
      /\ \A k \in Ids : /\ log'[k].time = log[k].time
                        /\ log'[k].camper = log[k].camper
                        /\ log'[k].start = log[k].start
      /\ log'[n + 1].time = clock
      /\ log'[n + 1].camper = c
      /\ log'[n + 1].start = 0
  BY <1>1, StartPairs DEF TypeOK
<1>3. Ids' = 1 .. n + 1 /\ \A k \in 1 .. n + 1 : k \in Ids \/ k = n + 1
  BY <1>1, <1>2 DEF Ids
<1>4. RowsArePast'
  <2> SUFFICES ASSUME NEW k \in 1 .. n + 1 PROVE log'[k].time < clock + 1
    BY <1>3 DEF RowsArePast
  <2>1. CASE k \in Ids
    BY <2>1, <1>1, <1>2 DEF RowsArePast
  <2>2. CASE k = n + 1
    BY <2>2, <1>1, <1>2
  <2> QED
    BY <2>1, <2>2, <1>3
<1>5. ActiveIsLatest'
  <2> SUFFICES ASSUME NEW a \in Active \cup {n + 1}, NEW j \in 1 .. n + 1, j # a,
                      log'[j].camper = log'[a].camper
               PROVE  log'[j].time < log'[a].time
    BY <1>2, <1>3 DEF ActiveIsLatest
  <2>1. CASE a = n + 1
    <3>1. j \in Ids
      BY <2>1, <1>3
    <3> QED
      BY <2>1, <3>1, <1>2 DEF RowsArePast
  <2>2. CASE a \in Active
    <3>1. a \in Ids /\ log'[a].camper # c
      BY <2>2, <1>2 DEF Active
    <3>2. j \in Ids
      BY <3>1, <1>2, <1>3
    <3> QED
      BY <2>2, <3>1, <3>2, <1>2 DEF ActiveIsLatest
  <2> QED
    BY <2>1, <2>2
<1>6. OutFollowsIn'
  <2> SUFFICES ASSUME NEW k \in 1 .. n + 1, log'[k].start # 0
               PROVE  /\ log'[log'[k].start].time < log'[k].time
                      /\ log'[k].time > lastPop => log'[log'[k].start].time >= lastPop
    BY <1>3 DEF OutFollowsIn
  <2>1. k \in Ids
    BY <1>2, <1>3
  <2>2. log[k].start \in Ids
    BY <2>1, <1>2 DEF PairsMatch, Ids
  <2> QED
    BY <2>1, <2>2, <1>2 DEF OutFollowsIn
<1> QED
  BY <1>4, <1>5, <1>6

\* So does the latest row of a camper who is out, an OUT row moved to now.
LEMMA MoveOrder ==
  ASSUME TypeOK, PairsMatch, RowsInOrder,
         NEW i \in Ids, log' = [log EXCEPT ![i].time = clock],
         \A a \in Active : log[a].camper # log[i].camper,
         log[i].start # 0, log[i].time > lastPop,
         clock' = clock + 1, lastPop' = lastPop
  PROVE  RowsInOrder'
<1> USE DEF RowsInOrder
<1>1. /\ clock \in Int /\ lastPop \in Int
      /\ \A k \in Ids : log[k].time \in Int
  BY RowType DEF TypeOK
<1>2. /\ Len(log') = Len(log)
      /\ Active' = Active
      /\ \A k \in Ids : /\ log'[k].time = IF k = i THEN clock ELSE log[k].time
                        /\ log'[k].camper = log[k].camper
                        /\ log'[k].start = log[k].start
  BY <1>1, MovePairs DEF TypeOK
<1>3. Ids' = Ids
  BY <1>2 DEF Ids
<1>4. RowsArePast'
  BY <1>1, <1>2, <1>3 DEF RowsArePast
<1>5. ActiveIsLatest'
  <2>1. \A a \in Active : a \in Ids /\ a # i
    BY DEF Active
  <2> QED
    BY <2>1, <1>2, <1>3 DEF ActiveIsLatest
<1>6. OutFollowsIn'
  <2> SUFFICES ASSUME NEW k \in Ids, log[k].start # 0
               PROVE  /\ log'[log[k].start].time < log'[k].time
                      /\ log'[k].time > lastPop => log'[log[k].start].time >= lastPop
    BY <1>2, <1>3 DEF OutFollowsIn
  <2>1. log[k].start \in Ids /\ log[log[k].start].start = 0
    BY DEF PairsMatch, Ids
  <2>2. log[k].start # i
    BY <2>1
  <2>3. log'[log[k].start].time = log[log[k].start].time
    BY <2>1, <2>2, <1>2
  <2>4. CASE k = i
    BY <2>1, <2>3, <2>4, <1>1, <1>2 DEF OutFollowsIn, RowsArePast
  <2>5. CASE k # i
    BY <2>3, <2>5, <1>2 DEF OutFollowsIn
  <2> QED
    BY <2>4, <2>5
<1> QED
  BY <1>4, <1>5, <1>6

\* Whoever has a row that decides, and it is not active, is out.
LEMMA LatestIsOut ==
  ASSUME TypeOK, ActiveIsLatest, NEW c \in Camper,
         Latest(c) = {} \/ \E i \in Latest(c) : ~log[i].active
  PROVE  \A a \in Active : log[a].camper # c
<1> SUFFICES ASSUME NEW a \in Active, log[a].camper = c PROVE FALSE
  OBVIOUS
<1>1. a \in Ids /\ log[a].active /\ \A k \in Ids : log[k].time \in Int
  BY RowType DEF Active
<1>2. \A k \in Ids : log[k].camper = c => log[k].time <= log[a].time
  BY <1>1 DEF ActiveIsLatest
<1>3. a \in Latest(c)
  BY <1>1, <1>2 DEF Latest
<1>4. PICK i \in Latest(c) : ~log[i].active
  BY <1>3
<1>5. i \in Ids /\ log[i].camper = c /\ i # a /\ log[a].time <= log[i].time
  BY <1>1, <1>4 DEF Latest
<1> QED
  BY <1>1, <1>5 DEF ActiveIsLatest

LEMMA PlainCommand ==
  ASSUME PlainInv, CampInv', Backdates = {}, NEW c \in Camper, Commands(c)
  PROVE  PlainInv'
<1> USE DEF PlainInv, CampInv, RowsInOrder
<1>1. PICK b \in {0} : Start(c, b) \/ Stop(c, b) \/ RestateStop(c, b)
  BY DEF Commands
<1>2. b = 0 /\ clock \in Int /\ lastPop \in Int
  BY DEF TypeOK
<1>3. Backdated(b) = clock
  BY <1>2, CampAssumption DEF Backdated
<1>4. /\ phase = "idle" /\ phase' = "idle"
      /\ clock' = clock + 1 /\ lastPop' = lastPop
  BY <1>1 DEF Start, Stop, RestateStop, CommandTime, Idle
<1>5. TodIsNow' /\ DueInSession'
  BY <1>4 DEF TodIsNow, DueInSession
<1>6. CASE Start(c, b)
  <2>1. StartEvent(c, clock)
        /\ (Latest(c) = {} \/ \E i \in Latest(c) : ~log[i].active)
    BY <1>2, <1>3, <1>6 DEF Start
  <2>2. \A a \in Active : log[a].camper # c
    BY <2>1, LatestIsOut
  <2>3. RowsInOrder'
    BY <1>4, <2>1, <2>2, StartOrder
  <2> QED
    BY <1>5, <2>3
<1>7. CASE Stop(c, b)
  <2>1. PICK i \in Latest(c) : log[i].active /\ CloseEvent(i, clock)
    BY <1>3, <1>7 DEF Stop
  <2>2. i \in Active /\ log[i].time < clock
    BY <2>1, LatestType DEF Active, RowsArePast
  <2>3. clock <= clock + 1
    BY <1>2
  <2>4. RowsInOrder'
    BY <1>2, <1>4, <2>1, <2>2, <2>3, CloseOrder
  <2> QED
    BY <1>5, <2>4
<1>8. CASE RestateStop(c, b)
  <2>1. PICK i \in Latest(c) : /\ ~log[i].active
                               /\ log[i].time > lastPop /\ log[i].start # 0
                               /\ log' = [log EXCEPT ![i].time = clock]
    BY <1>3, <1>8 DEF RestateStop
  <2>2. i \in Ids /\ log[i].camper = c
    BY DEF Latest
  <2>3. \A a \in Active : log[a].camper # log[i].camper
    BY <2>1, <2>2, LatestIsOut
  <2>4. RowsInOrder'
    BY <1>4, <2>1, <2>2, <2>3, MoveOrder
  <2> QED
    BY <1>5, <2>4
<1> QED
  BY <1>1, <1>6, <1>7, <1>8

LEMMA PlainClose ==
  ASSUME PlainInv, CampInv', NEW i \in Ids, TodClose(i)
  PROVE  PlainInv'
<1> USE DEF PlainInv, CampInv
<1>1. /\ phase = "close" /\ i \in closing /\ CloseEvent(i, todStop)
      /\ closing' = closing \ {i}
      /\ UNCHANGED <<lastPop, clock, phase, todStop, due>>
  BY DEF TodClose
<1>2. i \in Active /\ closing \subseteq Ids /\ todStop \in Int
  BY <1>1 DEF TodKnowsTheLog, TypeOK, Active
<1>3. clock = todStop + 1 /\ log[i].time < todStop
  BY <1>1 DEF TodIsNow
<1>4. RowsInOrder'
  <2>1. clock <= todStop + 1 /\ clock' = todStop + 1 /\ lastPop' = lastPop
    BY <1>1, <1>2, <1>3
  <2> QED
    BY <1>1, <1>2, <1>3, <2>1, CloseOrder
<1>5. TodIsNow'
  <2>1. \A k \in Ids : log'[k].time = log[k].time
    BY <1>1, <1>2, ClosePairs DEF TypeOK
  <2> QED
    BY <1>1, <1>2, <2>1 DEF TodIsNow
<1>6. DueInSession'
  BY <1>1 DEF DueInSession
<1> QED
  BY <1>4, <1>5, <1>6

\* What tod computes when it has closed all rows lies in the session.
LEMMA WindowsInSession ==
  ASSUME PlainInv, phase = "close", NEW c \in Camper, NEW w \in Windows(c)
  PROVE  lastPop <= w[1] /\ w[1] < w[2] /\ w[2] <= todStop
<1> USE DEF PlainInv, CampInv, RowsInOrder
<1>1. /\ todStop \in Int /\ lastPop \in Int /\ clock = todStop + 1
      /\ \A k \in Ids : log[k].time \in Int /\ log[k].time < clock
  BY RowType DEF TypeOK, TodIsNow, RowsArePast
<1>2. PICK i \in Ids, j \in Ids :
        /\ log[j].start = i
        /\ log[i].time > lastPop \/ log[j].time > lastPop
        /\ w = <<log[i].time, log[j].time>>
  <2>1. \A k \in Ids : log[k].start # 0 => log[k].start \in Ids
    BY DEF PairsMatch, Ids
  <2> QED
    BY <2>1 DEF Windows
<1>3. i # 0 /\ log[j].start # 0
  BY <1>2 DEF Ids
<1>4. log[i].time < log[j].time
      /\ (log[j].time > lastPop => log[i].time >= lastPop)
  BY <1>2, <1>3 DEF OutFollowsIn
<1> QED
  BY <1>1, <1>2, <1>4

LEMMA PlainRest ==
  ASSUME PlainInv, CampInv',
         \/ Tick \/ TodBegin \/ TodCompute \/ TodCredited \/ TodPop \/ Crash
         \/ \E c \in Camper : TodCredit(c)
         \/ \E i \in Ids : TodBonus(i)
         \/ UNCHANGED vars
  PROVE  PlainInv'
<1> USE DEF PlainInv
<1> SUFFICES RowsInOrder' /\ TodIsNow' /\ DueInSession'
  OBVIOUS
<1>1. log' = log
  BY DEF Tick, TodBegin, TodCompute, TodCredited, TodPop, Crash, TodCredit,
     TodBonus, vars
<1>2. Ids' = Ids /\ Active' = Active
  BY <1>1 DEF Ids, Active
<1>3. clock \in Int /\ lastPop \in Int /\ todStop \in Int
      /\ \A k \in Ids : log[k].time \in Int
  BY RowType DEF CampInv, TypeOK
<1>4. ASSUME clock' \in {clock, clock + 1},
             lastPop' = lastPop \/ (lastPop' = todStop /\ clock = todStop + 1)
      PROVE  RowsInOrder'
  <2>1. RowsArePast'
    BY <1>1, <1>2, <1>3, <1>4 DEF RowsInOrder, RowsArePast
  <2>2. ActiveIsLatest'
    BY <1>1, <1>2 DEF RowsInOrder, ActiveIsLatest
  <2>3. CASE lastPop' = lastPop
    BY <2>1, <2>2, <2>3, <1>1, <1>2 DEF RowsInOrder, OutFollowsIn
  <2>4. CASE lastPop' = todStop /\ clock = todStop + 1
    <3>1. \A k \in Ids : ~(log[k].time > lastPop')
      BY <2>4, <1>3 DEF RowsInOrder, RowsArePast
    <3> QED
      BY <2>1, <2>2, <3>1, <1>1, <1>2 DEF RowsInOrder, OutFollowsIn
  <2> QED
    BY <1>4, <2>3, <2>4
<1>5. CASE Tick
  <2>1. /\ phase = "idle" /\ phase' = "idle"
        /\ clock' = clock + 1 /\ lastPop' = lastPop
    BY <1>5 DEF Tick, CommandTime, Idle
  <2>2. RowsInOrder'
    BY <2>1, <1>4
  <2> QED
    BY <2>1, <2>2 DEF TodIsNow, DueInSession
<1>6. CASE TodBegin
  <2>1. /\ clock' = clock + 1 /\ lastPop' = lastPop /\ phase' = "close"
        /\ todStop' = clock /\ closing' = Active
        /\ TodAllowed
    BY <1>6 DEF TodBegin, CommandTime
  <2>2. \A i \in Active : i \in Ids /\ log[i].time < clock
    BY DEF Active, RowsInOrder, RowsArePast
  <2>3. lastPop <= clock
    BY <2>1, <1>3, CampAssumption DEF TodAllowed
  <2>4. RowsInOrder'
    BY <2>1, <1>4
  <2> QED
    BY <2>1, <2>2, <2>3, <2>4, <1>1 DEF TodIsNow, DueInSession
<1>7. CASE TodCompute
  <2>1. /\ phase = "close" /\ phase' = "credit"
        /\ UNCHANGED <<lastPop, clock, todStop>>
        /\ due' = [c \in Camper |-> IF Earns(c) THEN Windows(c) ELSE {}]
    BY <1>7 DEF TodCompute
  <2>2. \A c \in Camper : due'[c] \subseteq Windows(c)
    BY <2>1
  <2>3. DueInSession'
    BY <2>1, <2>2, WindowsInSession DEF DueInSession
  <2>4. RowsInOrder'
    BY <2>1, <1>4
  <2> QED
    BY <2>1, <2>3, <2>4 DEF TodIsNow
<1>8. CASE \E c \in Camper : TodCredit(c)
  <2>1. PICK c \in Camper : TodCredit(c)
    BY <1>8
  <2>2. /\ phase = "credit" /\ due' = [due EXCEPT ![c] = {}]
        /\ UNCHANGED <<lastPop, clock, phase, todStop>>
    BY <2>1 DEF TodCredit
  <2>3. \A k \in Camper : due'[k] \subseteq due[k]
    BY <2>2 DEF CampInv, TypeOK
  <2>4. DueInSession'
    BY <2>2, <2>3 DEF DueInSession
  <2>5. RowsInOrder'
    BY <2>2, <1>4
  <2> QED
    BY <2>2, <2>4, <2>5 DEF TodIsNow
<1>9. CASE TodCredited \/ \E i \in Ids : TodBonus(i)
  <2>1. /\ phase # "idle" /\ phase' = "bonus"
        /\ UNCHANGED <<lastPop, clock, todStop>>
    BY <1>9 DEF TodCredited, TodBonus, todVars
  <2>2. RowsInOrder'
    BY <2>1, <1>4
  <2> QED
    BY <2>1, <2>2 DEF TodIsNow, DueInSession
<1>10. CASE TodPop
  <2>1. /\ phase = "bonus" /\ phase' = "idle"
        /\ lastPop' = todStop /\ clock' = clock
    BY <1>10 DEF TodPop
  <2>2. clock = todStop + 1
    BY <2>1 DEF TodIsNow
  <2>3. RowsInOrder'
    BY <2>1, <2>2, <1>4
  <2> QED
    BY <2>1, <2>3 DEF TodIsNow, DueInSession
<1>11. CASE Crash
  <2>1. phase' = "idle" /\ lastPop' = lastPop /\ clock' = clock
    BY <1>11 DEF Crash
  <2>2. RowsInOrder'
    BY <2>1, <1>4
  <2> QED
    BY <2>1, <2>2 DEF TodIsNow, DueInSession
<1>12. CASE UNCHANGED vars
  <2>1. UNCHANGED <<lastPop, clock, phase, todStop, closing, due>>
    BY <1>12 DEF vars, todVars
  <2>2. RowsInOrder'
    BY <2>1, <1>4
  <2> QED
    BY <2>1, <2>2, <1>1 DEF TodIsNow, DueInSession
<1> QED
  BY <1>5, <1>6, <1>7, <1>8, <1>9, <1>10, <1>11, <1>12

LEMMA PlainStep == ASSUME Backdates = {} PROVE PlainInv /\ [Next]_vars => PlainInv'
<1> SUFFICES ASSUME PlainInv, [Next]_vars PROVE PlainInv'
  OBVIOUS
<1>1. CampInv'
  BY NextInv DEF PlainInv
<1> QED
  BY <1>1, PlainCommand, PlainClose, PlainRest DEF Next, Tod

LEMMA PlainInit == Init => PlainInv
<1> SUFFICES ASSUME Init PROVE PlainInv
  OBVIOUS
<1>1. Ids = {} /\ Active = {} /\ phase = "idle"
  BY DEF Init, Ids, Active
<1>2. RowsInOrder /\ TodIsNow /\ DueInSession
  BY <1>1 DEF RowsInOrder, RowsArePast, ActiveIsLatest, OutFollowsIn, TodIsNow,
     DueInSession
<1> QED
  BY <1>2, InitInv DEF PlainInv

LEMMA PlainCorrect == Backdates = {} => (Spec => []PlainInv)
<1> SUFFICES ASSUME Backdates = {} PROVE Spec => []PlainInv
  OBVIOUS
<1>1. PlainInv /\ [Next]_vars => PlainInv'
  BY PlainStep
<1> QED
  BY PlainInit, <1>1, PTL DEF Spec

(***************************************************************************)
(* Without backdates nobody has two open windows: start looks at the       *)
(* latest row, and that is the active one of whoever is in (cmd_ds.py:72). *)
(***************************************************************************)
THEOREM ClockedInCorrect == Backdates = {} => (Spec => []ClockedInOnce)
<1> SUFFICES ASSUME Backdates = {} PROVE Spec => []ClockedInOnce
  OBVIOUS
<1>1. PlainInv => ClockedInOnce
  BY ActiveOnce DEF PlainInv, RowsInOrder, CampInv
<1>2. Spec => []PlainInv
  BY PlainCorrect
<1> QED
  BY <1>1, <1>2, PTL

-----------------------------------------------------------------------------
(* Payments *)

\* What tod has given away, it does not hold any more.
PaidIsNotDue ==
  /\ phase \in {"idle", "close"} => \A c \in Camper : paid[c] = 0 /\ bonus[c] = 0
  /\ phase = "credit" =>
       \A c \in Camper : bonus[c] = 0 /\ (paid[c] = 0 \/ (paid[c] = 1 /\ due[c] = {}))
  /\ phase = "bonus" =>
       \A c \in Camper :
         /\ paid[c] \in {0, 1}
         /\ bonus[c] \in {0, 1}
         /\ bonus[c] = 1 => \A i \in quake : log[i].camper # c

\* It grants the bonus for one row of each camper.
QuakeOnce == \A i, j \in quake : log[i].camper = log[j].camper => i = j

LedgerInv == PaidIsNotDue /\ QuakeOnce

LEMMA LedgerStep ==
  ASSUME PlainInv, LedgerInv, Backdates = {}, ~Crashes, [Next]_vars
  PROVE  LedgerInv'
<1> USE DEF LedgerInv
<1>1. TypeOK /\ PairsMatch /\ TodKnowsTheLog /\ ActiveIsLatest
  BY DEF PlainInv, CampInv, RowsInOrder
<1>2. quake \subseteq Ids
  BY <1>1 DEF TodKnowsTheLog
<1>3. ASSUME phase = "idle", phase' = "idle", UNCHANGED <<quake, paid, bonus>>
      PROVE  LedgerInv'
  <2>1. quake = {}
    BY <1>1, <1>3 DEF TodKnowsTheLog
  <2> QED
    BY <1>3, <2>1 DEF PaidIsNotDue, QuakeOnce
<1>4. CASE Tick \/ \E c \in Camper : Commands(c)
  <2>1. phase = "idle" /\ phase' = "idle" /\ UNCHANGED <<quake, paid, bonus>>
    BY <1>4 DEF Tick, Commands, Start, Stop, RestateStop, CommandTime, Idle,
       todVars, ledger
  <2> QED
    BY <1>3, <2>1
<1>5. CASE TodBegin
  <2>1. /\ phase = "idle" /\ phase' = "close" /\ log' = log
        /\ quake' \subseteq Active /\ UNCHANGED <<paid, bonus>>
    BY <1>5 DEF TodBegin, CommandTime, Idle, ledger
  <2>2. ClockedInOnce
    BY <1>1, ActiveOnce
  <2>3. QuakeOnce'
    BY <2>1, <2>2 DEF QuakeOnce, ClockedInOnce
  <2> QED
    BY <2>1, <2>3 DEF PaidIsNotDue
<1>6. ASSUME NEW i \in Ids, TodClose(i) PROVE LedgerInv'
  <2>1. /\ phase = "close" /\ i \in closing /\ CloseEvent(i, todStop)
        /\ UNCHANGED <<phase, quake, paid, bonus>>
    BY <1>6 DEF TodClose, ledger
  <2>2. \A k \in Ids : log'[k].camper = log[k].camper
    <3>1. i \in Active /\ todStop \in Int /\ log \in Seq(Row)
      BY <1>1, <2>1 DEF TodKnowsTheLog, TypeOK
    <3> QED
      BY <1>1, <2>1, <3>1, ClosePairs
  <2> QED
    BY <2>1, <2>2, <1>2 DEF PaidIsNotDue, QuakeOnce
<1>7. CASE TodCompute
  <2>1. /\ phase = "close" /\ phase' = "credit"
        /\ UNCHANGED <<log, quake, paid, bonus>>
    BY <1>7 DEF TodCompute, ledger
  <2> QED
    BY <2>1 DEF PaidIsNotDue, QuakeOnce
<1>8. ASSUME NEW c \in Camper, TodCredit(c) PROVE LedgerInv'
  <2>1. /\ phase = "credit" /\ due[c] # {}
        /\ due' = [due EXCEPT ![c] = {}]
        /\ paid' = [paid EXCEPT ![c] = @ + 1]
        /\ UNCHANGED <<log, phase, quake, bonus>>
    BY <1>8 DEF TodCredit
  <2>2. paid[c] = 0 /\ paid'[c] = 1 /\ due'[c] = {}
    BY <1>1, <2>1 DEF PaidIsNotDue, TypeOK
  <2>3. \A k \in Camper \ {c} : paid'[k] = paid[k] /\ due'[k] = due[k]
    BY <1>1, <2>1 DEF TypeOK
  <2> QED
    BY <2>1, <2>2, <2>3 DEF PaidIsNotDue, QuakeOnce
<1>9. CASE TodCredited
  <2>1. /\ phase = "credit" /\ phase' = "bonus"
        /\ UNCHANGED <<log, quake, paid, bonus>>
    BY <1>9 DEF TodCredited, todVars, ledger
  <2> QED
    BY <2>1 DEF PaidIsNotDue, QuakeOnce
<1>10. ASSUME NEW i \in Ids, TodBonus(i) PROVE LedgerInv'
  <2> DEFINE c == log[i].camper
  <2>1. /\ phase = "bonus" /\ i \in quake
        /\ quake' = quake \ {i}
        /\ bonus' = [bonus EXCEPT ![c] = @ + 1]
        /\ UNCHANGED <<log, phase, paid>>
    BY <1>10 DEF TodBonus
  <2>2. c \in Camper
    BY <1>1, RowType
  <2>3. bonus[c] = 0
    BY <2>1, <2>2 DEF PaidIsNotDue
  <2>4. bonus'[c] = 1 /\ \A k \in Camper \ {c} : bonus'[k] = bonus[k]
    BY <1>1, <2>1, <2>2, <2>3 DEF TypeOK
  <2>5. \A j \in quake' : log[j].camper # c
    BY <2>1 DEF QuakeOnce
  <2> HIDE DEF c
  <2>6. QuakeOnce'
    BY <2>1 DEF QuakeOnce
  <2>7. PaidIsNotDue'
    BY <2>1, <2>4, <2>5 DEF PaidIsNotDue
  <2> QED
    BY <2>6, <2>7
<1>11. CASE TodPop
  <2>1. /\ phase' = "idle" /\ UNCHANGED <<log, quake>>
        /\ \A c \in Camper : paid'[c] = 0 /\ bonus'[c] = 0
    BY <1>11 DEF TodPop, todVars
  <2> QED
    BY <2>1 DEF PaidIsNotDue, QuakeOnce
<1>12. CASE UNCHANGED vars
  BY <1>12 DEF vars, todVars, ledger, PaidIsNotDue, QuakeOnce
<1> QED
  BY <1>4, <1>5, <1>6, <1>7, <1>8, <1>9, <1>10, <1>11, <1>12 DEF Next, Tod, Crash

(***************************************************************************)
(* Without backdates, and if the process does not end inside tod, a        *)
(* session pays each camper once and gives him one bonus (tod).            *)
(***************************************************************************)
THEOREM PaidCorrect == Backdates = {} /\ ~Crashes => (Spec => []PaidOnce)
<1> SUFFICES ASSUME Backdates = {}, ~Crashes PROVE Spec => []PaidOnce
  OBVIOUS
<1>1. Init => LedgerInv
  BY DEF Init, LedgerInv, PaidIsNotDue, QuakeOnce
<1>2. PlainInv /\ LedgerInv /\ [Next]_vars => LedgerInv'
  BY LedgerStep
<1>3. PlainInv /\ LedgerInv => PaidOnce
  <2> SUFFICES ASSUME PlainInv, LedgerInv, NEW c \in Camper
               PROVE  paid[c] <= 1 /\ bonus[c] <= 1
    BY DEF PaidOnce
  <2>1. phase \in {"idle", "close", "credit", "bonus"}
    BY DEF PlainInv, CampInv, TypeOK
  <2>2. paid[c] \in {0, 1} /\ bonus[c] \in {0, 1}
    BY <2>1 DEF LedgerInv, PaidIsNotDue
  <2> QED
    BY <2>2
<1>4. Spec => []PlainInv
  BY PlainCorrect
<1> QED
  BY <1>1, <1>2, <1>3, <1>4, PTL DEF Spec

-----------------------------------------------------------------------------
(* Credit *)

LEMMA Quotient ==
  ASSUME NEW a \in Int, NEW b \in Nat \ {0}
  PROVE  /\ a \div b \in Int
         /\ b * (a \div b) <= a
         /\ a < b * (a \div b) + b
OBVIOUS

\* A time of the session is rounded by half a minute at most.
LEMMA RoundIsNear ==
  ASSUME NEW t \in Nat
  PROVE  /\ Round(t) \in Nat
         /\ 2 * (MinuteTicks * Round(t)) <= 2 * t + MinuteTicks
         /\ 2 * t - MinuteTicks <= 2 * (MinuteTicks * Round(t))
<1> DEFINE M == MinuteTicks
           q == t \div M
           odd == q % 2 = 1
           over == 2 * (t - M * q) > M \/ (2 * (t - M * q) = M /\ odd)
<1>1. M \in Nat \ {0}
  BY CampAssumption
<1>2. /\ q \in Int
      /\ M * q <= t
      /\ t < M * q + M
  BY <1>1, Quotient
<1>3. q >= 0
  <2> SUFFICES ASSUME q <= -1 PROVE FALSE
    BY <1>2
  <2>1. M * q + M <= 0
    BY <1>1, <1>2
  <2> QED
    BY <1>1, <1>2, <2>1
<1>4. Round(t) = IF over THEN q + 1 ELSE q
  BY DEF Round
<1> HIDE DEF q, odd, M
<1>5. M * q \in Int /\ M * (q + 1) = M * q + M
  BY <1>1, <1>2
<1>6. CASE over
  BY <1>1, <1>2, <1>3, <1>4, <1>5, <1>6 DEF M
<1>7. CASE ~over
  BY <1>1, <1>2, <1>3, <1>4, <1>5, <1>7 DEF M
<1> QED
  BY <1>6, <1>7

\* The length of the session is rounded up.
LEMMA CeilIsEnough ==
  ASSUME NEW t \in Nat
  PROVE  Ceil(t) \in Nat /\ t <= MinuteTicks * Ceil(t)
<1> DEFINE M == MinuteTicks
           q == (t + M - 1) \div M
<1>1. M \in Nat \ {0}
  BY CampAssumption
<1>2. /\ q \in Int
      /\ t + M - 1 < M * q + M
  <2>1. t + M - 1 \in Int
    BY <1>1
  <2> QED
    BY <1>1, <2>1, Quotient
<1>3. t <= M * q
  <2>1. M * q \in Int
    BY <1>1, <1>2
  <2> HIDE DEF q
  <2> QED
    BY <1>1, <1>2, <2>1
<1>4. q >= 0
  <2> SUFFICES ASSUME q <= -1 PROVE FALSE
    BY <1>2
  <2>1. M * q < 0
    BY <1>1, <1>2
  <2> QED
    BY <1>1, <1>2, <1>3, <2>1
<1>5. Ceil(t) = q
  BY DEF Ceil
<1> HIDE DEF q
<1> QED
  BY <1>2, <1>3, <1>4, <1>5

\* The minutes of a window of the session, and how many they are.
LEMMA CreditedCount ==
  ASSUME NEW w \in Int \X Int, lastPop \in Nat, todStop \in Nat,
         lastPop <= w[1], w[1] < w[2], w[2] <= todStop
  PROVE  LET first == Round(w[1] - lastPop)
             end == Ceil(todStop - lastPop) - 1
             second == Round(w[2] - lastPop)
             final == IF second <= end THEN second ELSE end
         IN Cardinality(Credited(w)) = IF first > final THEN 0 ELSE final - first + 1
<1> DEFINE first == Round(w[1] - lastPop)
           end == Ceil(todStop - lastPop) - 1
           second == Round(w[2] - lastPop)
           final == IF second <= end THEN second ELSE end
<1>1. w[1] - lastPop \in Nat /\ w[2] - lastPop \in Nat /\ todStop - lastPop \in Nat
  BY DEF Round
<1>2. first \in Nat /\ second \in Nat /\ end \in Int
  BY <1>1, RoundIsNear, CeilIsEnough
<1>3. Credited(w) = {m \in 0 .. end : m >= first /\ m <= second}
  BY DEF Credited
<1> HIDE DEF first, end, second
<1>4. {m \in 0 .. end : m >= first /\ m <= second} = first .. final
  BY <1>2
<1>5. first \in Int /\ final \in Int
  BY <1>2
<1>6. Cardinality(first .. final) = IF first > final THEN 0 ELSE final - first + 1
  BY <1>5, FS_Interval
<1>7. Cardinality(Credited(w)) = IF first > final THEN 0 ELSE final - first + 1
  BY <1>3, <1>4, <1>6
<1> QED
  BY <1>7 DEF first, end, second

LEMMA CreditNearLength ==
  ASSUME NEW w \in Int \X Int, lastPop \in Nat, todStop \in Nat,
         lastPop <= w[1], w[1] < w[2], w[2] <= todStop
  PROVE  LET credit == Cardinality(Credited(w)) * MinuteTicks
         IN /\ 2 * (w[2] - w[1]) - MinuteTicks <= 2 * credit
            /\ credit <= w[2] - w[1] + 2 * MinuteTicks
<1> DEFINE M == MinuteTicks
           a == w[1] - lastPop
           b == w[2] - lastPop
           length == todStop - lastPop
           first == Round(a)
           second == Round(b)
           end == Ceil(length) - 1
           final == IF second <= end THEN second ELSE end
           n == Cardinality(Credited(w))
<1>1. M \in Nat \ {0} /\ a \in Nat /\ b \in Nat /\ length \in Nat
      /\ a < b /\ b <= length /\ b - a = w[2] - w[1]
  BY CampAssumption
<1>2. /\ first \in Nat /\ second \in Nat /\ end \in Int
      /\ 2 * (M * first) <= 2 * a + M
      /\ 2 * a - M <= 2 * (M * first)
      /\ 2 * (M * second) <= 2 * b + M
      /\ 2 * b - M <= 2 * (M * second)
      /\ length <= M * (end + 1)
  <2>1. /\ first \in Nat
        /\ 2 * (M * first) <= 2 * a + M
        /\ 2 * a - M <= 2 * (M * first)
    BY <1>1, RoundIsNear
  <2>2. /\ second \in Nat
        /\ 2 * (M * second) <= 2 * b + M
        /\ 2 * b - M <= 2 * (M * second)
    BY <1>1, RoundIsNear
  <2>3. Ceil(length) \in Nat /\ length <= M * Ceil(length)
    BY <1>1, CeilIsEnough
  <2>4. end \in Int /\ end + 1 = Ceil(length)
    BY <2>3
  <2> QED
    BY <2>1, <2>2, <2>3, <2>4
<1>3. n = IF first > final THEN 0 ELSE final - first + 1
  BY CreditedCount
<1> SUFFICES 2 * (b - a) - M <= 2 * (n * M) /\ n * M <= b - a + 2 * M
  BY <1>1
<1> HIDE DEF a, b, length, first, second, end, n, M
<1> DEFINE F == M * first
           S == M * second
           E == M * end
<1>4. F \in Int /\ S \in Int /\ E \in Int /\ M * (end + 1) = E + M
  BY <1>1, <1>2
<1>5. CASE first > final
  <2>1. n * M = 0
    BY <1>1, <1>3, <1>5
  <2>2. CASE second <= end
    <3>1. second < first
      BY <1>2, <1>5, <2>2
    <3>2. S + M <= F
      <4>1. second + 1 <= first /\ M * (second + 1) = S + M
        BY <1>1, <1>2, <3>1
      <4> QED
        BY <1>1, <1>2, <4>1
    <3> HIDE DEF F, S, E
    <3> QED
      BY <1>1, <1>2, <1>4, <2>1, <3>2 DEF F, S
  <2>3. CASE second > end
    <3>1. end + 1 <= first
      BY <1>2, <1>5, <2>3
    <3>2. E + M <= F
      BY <1>1, <1>2, <1>4, <3>1
    <3> QED
      BY <1>1, <1>2, <1>4, <2>1, <3>2
  <2> QED
    BY <1>2, <2>2, <2>3
<1>6. CASE first <= final
  <2>1. n = final - first + 1
    BY <1>2, <1>3, <1>6
  <2>2. CASE second <= end
    <3>1. n * M = S - F + M
      BY <1>1, <1>2, <2>1, <2>2
    <3> QED
      BY <1>1, <1>2, <1>4, <3>1
  <2>3. CASE second > end
    <3>1. n * M = E - F + M
      BY <1>1, <1>2, <2>1, <2>3
    <3>2. E <= S
      BY <1>1, <1>2, <2>3
    <3> QED
      BY <1>1, <1>2, <1>4, <3>1, <3>2
  <2> QED
    BY <1>2, <2>2, <2>3
<1> QED
  BY <1>2, <1>5, <1>6

(***************************************************************************)
(* Without backdates, whatever the length of a minute in ticks, a window   *)
(* is credited for its length, up to half a minute less and two more       *)
(* (calculate_points_for_session).                                         *)
(***************************************************************************)
THEOREM CreditCorrect == Backdates = {} => (Spec => []CreditIsTime)
<1> SUFFICES ASSUME Backdates = {} PROVE Spec => []CreditIsTime
  OBVIOUS
<1>1. PlainInv => CreditIsTime
  <2> SUFFICES ASSUME PlainInv, phase = "credit",
                      NEW c \in Camper, NEW w \in due[c]
               PROVE  LET length == IF w[2] > w[1] THEN w[2] - w[1] ELSE 0
                          credit == Cardinality(Credited(w)) * MinuteTicks
                      IN /\ 2 * length - MinuteTicks <= 2 * credit
                         /\ credit <= length + 2 * MinuteTicks
    BY DEF CreditIsTime
  <2>1. w \in Int \X Int /\ lastPop \in Nat /\ todStop \in Nat
    BY DEF PlainInv, CampInv, TypeOK
  <2>2. lastPop <= w[1] /\ w[1] < w[2] /\ w[2] <= todStop
    BY DEF PlainInv, DueInSession
  <2>3. w[2] > w[1]
    BY <2>1, <2>2
  <2> QED
    BY <2>1, <2>2, <2>3, CreditNearLength
<1>2. Spec => []PlainInv
  BY PlainCorrect
<1> QED
  BY <1>1, <1>2, PTL
-----------------------------------------------------------------------------
(* The next spawn *)

LEMMA SmallRest ==
  ASSUME NEW a \in Nat, NEW b \in Nat \ {0}
  PROVE  a % b \in Nat /\ a % b <= a /\ (a < b => a % b = a)
OBVIOUS

LEMMA RestOfMore ==
  ASSUME NEW a \in Nat, NEW b \in Nat \ {0}
  PROVE  (a + b) % b <= a
OBVIOUS

LEMMA FirstRunInt == ASSUME NEW d \in Int, clock \in Nat PROVE FirstRun(d) \in Int
<1>1. Period \in Nat \ {0}
  BY SpawnAssumption DEF Period
<1>2. CASE d < 0
  <2>1. -d \in Nat /\ (-d) % Period \in Nat
    BY <1>1, <1>2, SmallRest
  <2> QED
    BY <1>1, <2>1 DEF FirstRun
<1>3. CASE ~(d < 0)
  BY <1>1, <1>3 DEF FirstRun
<1> QED
  BY <1>2, <1>3

\* The timer of a tod is a day from now.
LEMMA TodTimer == ASSUME clock \in Nat PROVE FirstRun(Delay("tod")) - Day = clock
<1>1. Minute \in Nat \ {0} /\ Period \in Nat \ {0} /\ Minute < Period /\ Day \in Nat
      /\ Period = Day + Minute
  BY SpawnAssumption DEF Period
<1>2. Minute % Period = Minute
  BY <1>1, SmallRest
<1>3. Delay("tod") < 0 /\ -Delay("tod") = Minute
  BY <1>1 DEF Delay
<1>4. FirstRun(Delay("tod")) = clock + Period - Minute
  BY <1>1, <1>2, <1>3 DEF FirstRun
<1> QED
  BY <1>1, <1>4

\* That of a set_spawn is at its spawn, unless that is past.
LEMMA SetSpawnTimer ==
  ASSUME clock \in Nat, NEW k \in Command, k # "tod", pop[k] \in Nat
  PROVE  LET t == FirstRun(Delay(k)) - Day
         IN t \in Int /\ pop[k] <= t /\ (InTime(k) => t = pop[k])
<1> DEFINE rest == pop[k] + Day - clock
           d == rest - Period
<1>1. Period \in Nat \ {0} /\ Day \in Nat /\ rest \in Int /\ d \in Int
  BY SpawnAssumption DEF Period
<1>2. Delay(k) = d
  BY <1>1 DEF Delay
<1>3. CASE d >= 0
  <2>1. FirstRun(d) = clock + rest
    BY <1>1, <1>3 DEF FirstRun
  <2> QED
    BY <1>1, <1>2, <2>1
<1>4. CASE d < 0
  <2>1. -d \in Nat /\ FirstRun(d) = clock + Period - ((-d) % Period)
    BY <1>1, <1>4 DEF FirstRun
  <2>2. CASE rest > 0
    <3>1. -d < Period
      BY <1>1, <2>2
    <3>2. (-d) % Period = -d
      BY <1>1, <2>1, <3>1, SmallRest
    <3> QED
      BY <1>1, <1>2, <2>1, <3>2
  <2>3. CASE ~(rest > 0)
    <3>1. -rest \in Nat /\ -d = (-rest) + Period
      BY <1>1, <2>3
    <3>2. (-d) % Period <= -rest
      BY <1>1, <3>1, RestOfMore
    <3>3. (-d) % Period \in Nat
      BY <1>1, <2>1, SmallRest
    <3>4. ~InTime(k)
      BY <1>1, <2>3 DEF InTime
    <3> QED
      BY <1>1, <1>2, <2>1, <3>2, <3>3, <3>4
  <2> QED
    BY <2>2, <2>3
<1> QED
  BY <1>1, <1>3, <1>4

LEMMA SpawnInitInv == SpawnInit => SpawnInv
<1> SUFFICES ASSUME SpawnInit PROVE SpawnInv
  OBVIOUS
<1>1. SpawnTypeOK
  <2>1. clock \in Nat /\ lastPop \in 0 .. clock /\ override \in Int \cup {NoPop}
    BY SpawnAssumption DEF SpawnInit
  <2> QED
    BY <2>1 DEF SpawnInit, SpawnTypeOK, Command
<1>2. TimerTells /\ CommandsKnow /\ DownForgets /\ NeverEarly
  BY SpawnAssumption DEF SpawnInit, TimerTells, CommandsKnow, DownForgets, NeverEarly, Command
<1> QED
  BY <1>1, <1>2 DEF SpawnInv

LEMMA SpawnBeginType ==
  ASSUME SpawnTypeOK, NEW k \in Command, NEW t \in Nat, Begin(k, t)
  PROVE  /\ at' \in [Command -> {"idle", "reply", "stop"}]
         /\ pop' \in [Command -> Nat]
         /\ alone' \in [Command -> BOOLEAN]
         /\ known' = FALSE /\ spawn' = t
         /\ up' = TRUE
         /\ UNCHANGED <<timers, tasks, loaded, listed, started, todo>>
BY DEF SpawnTypeOK, Begin, Quiet, loadVars

LEMMA SpawnNextType == SpawnTypeOK /\ [SpawnNext]_spawnVars => SpawnTypeOK'
<1> SUFFICES ASSUME SpawnTypeOK, [SpawnNext]_spawnVars PROVE SpawnTypeOK'
  OBVIOUS
<1> USE DEF SpawnTypeOK
<1>1. CASE SpawnTod
  <2>1. /\ clock \in Nat /\ clock' = clock + 1 /\ lastPop' = clock
        /\ override' = NoPop /\ Begin("tod", clock)
    BY <1>1 DEF SpawnTod
  <2>2. "tod" \in Command
    BY DEF Command
  <2>3. clock' \in Nat /\ lastPop' \in 0 .. clock'
    BY <2>1
  <2>4. override' \in Int \cup {NoPop}
    BY <2>1
  <2>5. /\ at' \in [Command -> {"idle", "reply", "stop"}]
        /\ pop' \in [Command -> Nat]
        /\ alone' \in [Command -> BOOLEAN]
        /\ known' = FALSE /\ spawn' \in Nat
        /\ up' = TRUE
        /\ UNCHANGED <<timers, tasks, loaded, listed, started, todo>>
    BY <2>1, <2>2, SpawnBeginType
  <2> QED
    BY <2>3, <2>4, <2>5
<1>2. CASE SetSpawn
  <2>1. PICK t \in Chosen : /\ override' = t
                            /\ Begin("set_spawn", t) /\ UNCHANGED <<clock, lastPop>>
    BY <1>2 DEF SetSpawn
  <2>2. t \in Nat
    BY SpawnAssumption
  <2>3. "set_spawn" \in Command
    BY DEF Command
  <2>4. override' \in Int \cup {NoPop}
    BY <2>1, <2>2
  <2>5. /\ at' \in [Command -> {"idle", "reply", "stop"}]
        /\ pop' \in [Command -> Nat]
        /\ alone' \in [Command -> BOOLEAN]
        /\ known' = FALSE /\ spawn' \in Nat
        /\ up' = TRUE
        /\ UNCHANGED <<timers, tasks, loaded, listed, started, todo>>
    BY <2>1, <2>2, <2>3, SpawnBeginType
  <2> QED
    BY <2>1, <2>4, <2>5
<1>3. ASSUME NEW k \in Command,
             StopTimer(k) \/ StopFails(k) \/ StartTimer(k) \/ ReplyFails(k)
      PROVE  SpawnTypeOK'
  <2>1. CASE StopTimer(k)
    BY <1>3, <2>1 DEF StopTimer, Pending, loadVars, history
  <2>2. CASE StopFails(k)
    BY <1>3, <2>2 DEF StopFails, loadVars, history
  <2>3. CASE StartTimer(k)
    <3>1. PICK t : /\ t = [id |-> started, pop |-> FirstRun(Delay(k)) - Day, said |-> pop[k]]
                   /\ timers' = timers \cup {t} /\ tasks' = tasks \cup {t}
      BY <2>3 DEF StartTimer
    <3>2. FirstRun(Delay(k)) - Day \in Int
      <4>1. clock \in Nat /\ pop[k] \in Nat
        BY <1>3
      <4>2. CASE k = "tod"
        BY <4>1, <4>2, TodTimer
      <4>3. CASE k # "tod"
        BY <1>3, <4>1, <4>3, SetSpawnTimer
      <4> QED
        BY <4>2, <4>3
    <3>3. t \in Timer
      BY <1>3, <3>1, <3>2 DEF Timer
    <3>4. known' \in BOOLEAN
      BY <2>3 DEF StartTimer
    <3> QED
      BY <1>3, <2>3, <3>1, <3>3, <3>4 DEF StartTimer, loadVars
  <2>4. CASE ReplyFails(k)
    BY <1>3, <2>4 DEF ReplyFails, loadVars, history
  <2> QED
    BY <1>3, <2>1, <2>2, <2>3, <2>4
<1>4. CASE UserStops
  BY <1>4 DEF UserStops, Disturb, jobVars, loadVars
<1>5. CASE SpawnCrash
  BY <1>5 DEF SpawnCrash, Disturb
<1>6. CASE Ready
  BY <1>6 DEF Ready, Disturb, Restored, Timer, jobVars, loadVars
<1>7. CASE SpawnTick
  BY <1>7 DEF SpawnTick, jobVars, loadVars, history
<1>8. CASE UNCHANGED spawnVars
  BY <1>8 DEF spawnVars, jobVars, loadVars, history
<1>9. CASE LoadBegins \/ LoadFails
  BY <1>9 DEF LoadBegins, LoadFails, jobVars, history
<1>10. CASE LoadTimer
  <2>1. PICK t \in listed : /\ listed' = listed \ {t}
                            /\ timers' = timers \cup {t}
                            /\ tasks' = tasks \cup {t}
                            /\ UNCHANGED history \/ (/\ Disturb /\ known' = FALSE
                                                     /\ UNCHANGED <<up, spawn>>)
    BY <1>10 DEF LoadTimer
  <2>2. alone' \in [Command -> BOOLEAN] /\ known' \in BOOLEAN /\ UNCHANGED <<up, spawn>>
    BY <2>1 DEF Disturb, history
  <2> QED
    BY <1>10, <2>1, <2>2 DEF LoadTimer, jobVars
<1> QED
  BY <1>1, <1>2, <1>3, <1>4, <1>5, <1>6, <1>7, <1>8, <1>9, <1>10 DEF SpawnNext

LEMMA SpawnNextKnows == SpawnInv /\ [SpawnNext]_spawnVars => TimerTells' /\ CommandsKnow'
<1> SUFFICES ASSUME SpawnInv, [SpawnNext]_spawnVars PROVE TimerTells' /\ CommandsKnow'
  OBVIOUS
<1> USE DEF SpawnInv
<1>0. SpawnTypeOK /\ SpawnTypeOK'
  BY SpawnNextType
<1>1. ASSUME NEW k \in Command, NEW t \in Nat, Begin(k, t), Effective' = t,
             k = "tod" => lastPop' = t
      PROVE  TimerTells' /\ CommandsKnow'
  BY <1>0, <1>1 DEF Begin, TimerTells, CommandsKnow, Quiet, SpawnTypeOK, Command
<1>2. CASE SpawnTod
  <2>1. Begin("tod", clock) /\ Effective' = clock /\ clock \in Nat /\ lastPop' = clock
    BY <1>0, <1>2 DEF SpawnTod, Effective, SpawnTypeOK
  <2> QED
    BY <2>1, <1>1 DEF Command
<1>3. CASE SetSpawn
  <2>1. PICK t \in Chosen : override' = t /\ Begin("set_spawn", t)
    BY <1>3 DEF SetSpawn
  <2>2. t \in Nat /\ Effective' = t
    BY <2>1, SpawnAssumption DEF Effective
  <2> QED
    BY <2>1, <2>2, <1>1 DEF Command
<1>4. ASSUME NEW k \in Command, StopTimer(k) PROVE TimerTells' /\ CommandsKnow'
  <2>1. /\ at[k] # "idle" /\ Effective' = Effective
        /\ UNCHANGED <<lastPop, pop, up, alone, known, spawn>>
        /\ at' = [at EXCEPT ![k] = "stop"]
        /\ \E t \in Pending(k) \cap tasks :
             /\ timers' = timers \ {t}
             /\ todo' = [todo EXCEPT ![k] = Pending(k) \ {t}]
    BY <1>4 DEF StopTimer, history, Effective
  <2>2. ~known
    BY <2>1 DEF TimerTells, Quiet
  <2>3. alone[k] => Pending(k) = timers
    BY <1>0, <2>1 DEF Pending, CommandsKnow, SpawnTypeOK
  <2>4. alone[k] => todo'[k] = timers'
    BY <1>0, <2>1, <2>3 DEF SpawnTypeOK
  <2>5. at'[k] = "stop" /\ \A j \in Command : j # k => at'[j] = at[j]
    BY <1>0, <2>1 DEF SpawnTypeOK
  <2>6. \A j \in Command : j # k => ~(alone[j] /\ at[j] # "idle")
    BY <2>1 DEF CommandsKnow
  <2> QED
    BY <2>1, <2>2, <2>4, <2>5, <2>6 DEF TimerTells, CommandsKnow
<1>5. ASSUME NEW k \in Command, StartTimer(k) PROVE TimerTells' /\ CommandsKnow'
  <2>0. PICK p : p = FirstRun(Delay(k)) - Day
    OBVIOUS
  <2>1. /\ at[k] # "idle" /\ Pending(k) = {} /\ Effective' = Effective
        /\ UNCHANGED <<lastPop, override, pop, up, alone, spawn, todo>>
        /\ at' = [at EXCEPT ![k] = "idle"]
        /\ known' = (alone[k] /\ InTime(k))
        /\ timers' = timers \cup {[id |-> started, pop |-> p, said |-> pop[k]]}
    BY <1>5, <2>0 DEF StartTimer, Effective
  <2>2. at'[k] = "idle" /\ \A j \in Command : j # k => at'[j] = at[j]
    BY <1>0, <2>1 DEF SpawnTypeOK
  <2>3. \A j \in Command : j # k => ~(alone[j] /\ at[j] # "idle")
    BY <2>1 DEF CommandsKnow
  <2>4. CommandsKnow'
    BY <2>1, <2>2, <2>3 DEF CommandsKnow
  <2>5. ASSUME alone[k], InTime(k) PROVE TimerTells'
    <3>1. /\ pop[k] = spawn /\ Effective = spawn
          /\ k = "tod" => lastPop = spawn
          /\ \A j \in Command : j # k => at[j] = "idle"
          /\ at[k] = "stop" => todo[k] = timers
      BY <2>1, <2>5 DEF CommandsKnow
    <3>2. timers = {}
      BY <1>0, <2>1, <3>1 DEF Pending, SpawnTypeOK
    <3>3. timers' = {[id |-> started, pop |-> p, said |-> pop[k]]}
      BY <2>1, <3>2
    <3>4. Quiet' /\ Effective' = spawn' /\ spawn' = spawn
      BY <2>1, <2>2, <3>1 DEF Quiet
    <3>5. spawn \in Nat /\ TodGap \in Nat /\ clock \in Nat /\ pop[k] \in Nat
          /\ lastPop \in 0 .. clock
      BY <1>0, SpawnAssumption DEF SpawnTypeOK
    <3>6. Near(Effective', spawn') /\ override' \in {NoPop, spawn'}
      <4>1. Near(Effective', spawn')
        BY <3>4, <3>5 DEF Near
      <4>2. override' = NoPop \/ override' = Effective'
        BY DEF Effective
      <4> QED
        BY <3>4, <4>1, <4>2
    <3>7. p = spawn \/ (lastPop = spawn /\ Near(p, spawn))
      <4>1. CASE k = "tod"
        <5>1. p = clock /\ lastPop = spawn /\ clock - spawn <= TodGap
          BY <2>0, <2>5, <3>1, <3>5, <4>1, TodTimer DEF InTime
        <5> QED
          BY <3>5, <5>1 DEF Near
      <4>2. CASE k # "tod"
        BY <2>0, <2>5, <3>1, <3>5, <4>2, SetSpawnTimer
      <4> QED
        BY <4>1, <4>2
    <3>8. \A t \in timers' : t.pop = spawn' \/ (lastPop' = spawn' /\ Near(t.pop, spawn'))
      BY <2>1, <3>3, <3>7 DEF Near
    <3>9. timers' # {}
      BY <3>3
    <3> QED
      BY <3>4, <3>6, <3>8, <3>9 DEF TimerTells, Near
  <2>6. ASSUME ~(alone[k] /\ InTime(k)) PROVE TimerTells'
    BY <2>1, <2>6 DEF TimerTells
  <2> QED
    BY <2>4, <2>5, <2>6
<1>6. ASSUME NEW k \in Command, StopFails(k) \/ ReplyFails(k)
      PROVE  TimerTells' /\ CommandsKnow'
  <2>1. /\ at[k] # "idle" /\ Effective' = Effective
        /\ UNCHANGED <<lastPop, pop, up, alone, known, spawn>>
        /\ at' = [at EXCEPT ![k] = "idle"]
    BY <1>6 DEF StopFails, ReplyFails, history, Effective
  <2>2. ~known
    BY <2>1 DEF TimerTells, Quiet
  <2>3. at'[k] = "idle" /\ \A j \in Command : j # k => at'[j] = at[j]
    BY <1>0, <2>1 DEF SpawnTypeOK
  <2>4. \A j \in Command : j # k => ~(alone[j] /\ at[j] # "idle")
    BY <2>1 DEF CommandsKnow
  <2> QED
    BY <2>1, <2>2, <2>3, <2>4 DEF TimerTells, CommandsKnow
<1>7. CASE UserStops
  BY <1>7 DEF UserStops, Disturb, TimerTells, CommandsKnow
<1>8. CASE SpawnCrash
  BY <1>8 DEF SpawnCrash, Disturb, TimerTells, CommandsKnow, Quiet, Near
<1>9. CASE Ready
  <2>1. UNCHANGED <<lastPop, timers, at, known, spawn>> /\ override' \in Restored
    BY <1>9 DEF Ready, jobVars
  <2>2. CommandsKnow'
    BY <1>9 DEF Ready, Disturb, CommandsKnow
  <2>3. ASSUME known PROVE Near(Effective', spawn) /\ override' \in {NoPop, spawn}
    <3>1. /\ timers # {}
          /\ \A t \in timers : t.pop = spawn \/ (lastPop = spawn /\ Near(t.pop, spawn))
          /\ override \in {NoPop, spawn}
      BY <2>3 DEF TimerTells
    <3>2. PICK t \in timers :
            override' = IF Near(t.pop, lastPop) THEN override ELSE t.pop
      BY <2>1, <3>1 DEF Restored
    <3>3. spawn \in Nat /\ lastPop \in Nat
      BY <1>0 DEF SpawnTypeOK
    <3>4. t.pop = spawn \/ (lastPop = spawn /\ Near(t.pop, lastPop))
      BY <3>1, <3>2
    <3>5. override' \in {NoPop, spawn}
      BY <3>1, <3>2, <3>4
    <3>6. CASE override' = NoPop
      <4>1. Near(spawn, lastPop)
        <5>1. CASE t.pop = spawn
          BY <3>2, <3>3, <3>6, <5>1, SpawnAssumption
        <5>2. CASE lastPop = spawn
          BY <3>3, <5>2, SpawnAssumption DEF Near
        <5> QED
          BY <3>4, <5>1, <5>2
      <4>2. Effective' = lastPop
        BY <2>1, <3>6 DEF Effective
      <4> QED
        BY <3>3, <3>5, <4>1, <4>2, SpawnAssumption DEF Near
    <3>7. CASE override' = spawn
      <4>1. Effective' = spawn
        BY <3>3, <3>7, SpawnAssumption DEF Effective
      <4> QED
        BY <3>3, <3>5, <4>1, SpawnAssumption DEF Near
    <3> QED
      BY <3>5, <3>6, <3>7
  <2> QED
    BY <2>1, <2>2, <2>3 DEF TimerTells, Quiet, Near
<1>10. CASE SpawnTick \/ UNCHANGED spawnVars
  BY <1>10 DEF SpawnTick, spawnVars, jobVars, history, TimerTells, CommandsKnow, Quiet,
     Effective, Near
<1>11. CASE LoadBegins \/ LoadFails
  BY <1>11 DEF LoadBegins, LoadFails, jobVars, history, TimerTells, CommandsKnow, Quiet,
     Effective, Near
<1>12. CASE LoadTimer
  <2>1. PICK t \in listed :
          /\ timers' = timers \cup {t}
          /\ \/ t \in timers /\ UNCHANGED history
             \/ t \notin timers /\ Disturb /\ known' = FALSE /\ UNCHANGED <<up, spawn>>
    BY <1>12 DEF LoadTimer
  <2>2. UNCHANGED <<lastPop, override, at, todo, pop>> /\ Effective' = Effective
    BY <1>12 DEF LoadTimer, jobVars, Effective
  <2>3. CASE t \in timers
    <3>1. timers' = timers /\ UNCHANGED history
      BY <2>1, <2>3
    <3> QED
      BY <2>2, <3>1 DEF history, TimerTells, CommandsKnow, Quiet, Near
  <2>4. CASE t \notin timers
    BY <2>1, <2>4 DEF Disturb, TimerTells, CommandsKnow
  <2> QED
    BY <2>3, <2>4
<1> QED
  BY <1>2, <1>3, <1>4, <1>5, <1>6, <1>7, <1>8, <1>9, <1>10, <1>11, <1>12 DEF SpawnNext

LEMMA SpawnNextDown == DownForgets /\ [SpawnNext]_spawnVars => DownForgets'
BY DEF DownForgets, SpawnNext, spawnVars, SpawnTod, SetSpawn, Begin, StopTimer, StopFails,
   StartTimer, ReplyFails, UserStops, SpawnCrash, LoadBegins, LoadTimer, LoadFails,
   Ready, SpawnTick, Disturb, loadVars, history

\* A timer is not early when it is started; load_timers brings back those there were.
LEMMA SpawnNextEarly == SpawnTypeOK /\ NeverEarly /\ [SpawnNext]_spawnVars => NeverEarly'
<1> SUFFICES ASSUME SpawnTypeOK, NeverEarly, [SpawnNext]_spawnVars PROVE NeverEarly'
  OBVIOUS
<1> USE "tod" \in Command DEF Command
<1>0. clock \in Nat /\ pop \in [Command -> Nat]
  BY DEF SpawnTypeOK
<1>1. ASSUME timers' \cup listed' \subseteq timers \cup listed,
             clock' \in Nat, clock' >= clock, pop'["tod"] = pop["tod"]
      PROVE  NeverEarly'
  BY <1>0, <1>1 DEF NeverEarly
<1>2. ASSUME NEW k \in Command, StartTimer(k) PROVE NeverEarly'
  <2>1. PICK t : /\ t = [id |-> started, pop |-> FirstRun(Delay(k)) - Day, said |-> pop[k]]
                 /\ timers' = timers \cup {t} /\ listed' = listed
                 /\ UNCHANGED <<clock, pop>>
    BY <1>2 DEF StartTimer, loadVars
  <2>2. pop[k] <= FirstRun(Delay(k)) - Day
    <3>1. CASE k = "tod"
      BY <1>0, <3>1, TodTimer DEF NeverEarly
    <3>2. CASE k # "tod"
      BY <1>0, <3>2, SetSpawnTimer
    <3> QED
      BY <3>1, <3>2
  <2>3. t.said <= t.pop
    BY <2>1, <2>2
  <2> QED
    BY <2>1, <2>3 DEF NeverEarly
<1>3. CASE SpawnTod
  <2>1. /\ UNCHANGED <<timers, listed>> /\ clock' = clock + 1
        /\ pop' = [pop EXCEPT !["tod"] = clock]
    BY <1>3 DEF SpawnTod, Begin, loadVars
  <2>2. pop'["tod"] = clock
    BY <1>0, <2>1
  <2> QED
    BY <1>0, <2>1, <2>2 DEF NeverEarly
<1>4. CASE SetSpawn
  <2>1. /\ UNCHANGED <<timers, listed, clock>>
        /\ \E t \in Chosen : pop' = [pop EXCEPT !["set_spawn"] = t]
    BY <1>4 DEF SetSpawn, Begin, loadVars
  <2>2. pop'["tod"] = pop["tod"]
    BY <1>0, <2>1
  <2> QED
    BY <1>0, <1>1, <2>1, <2>2
<1>5. ASSUME NEW k \in Command, StopTimer(k) \/ StopFails(k) \/ ReplyFails(k)
      PROVE  NeverEarly'
  BY <1>0, <1>1, <1>5 DEF StopTimer, StopFails, ReplyFails, loadVars
<1>6. CASE UserStops \/ SpawnCrash \/ LoadBegins \/ LoadTimer \/ LoadFails \/ Ready
  BY <1>0, <1>1, <1>6 DEF UserStops, SpawnCrash, LoadBegins, LoadTimer, LoadFails, Ready,
     jobVars, loadVars
<1>7. CASE SpawnTick \/ UNCHANGED spawnVars
  BY <1>0, <1>1, <1>7 DEF SpawnTick, spawnVars, jobVars, loadVars
<1> QED
  BY <1>2, <1>3, <1>4, <1>5, <1>6, <1>7 DEF SpawnNext

(***************************************************************************)
(* After a tod or a set_spawn that ran to its end alone and in time, the   *)
(* timer's row and the memory agree to within 300 seconds, through any     *)
(* number of crashes and reconnections (restore_spawn_overrides); no       *)
(* timer, however late, is early.                                          *)
(***************************************************************************)
THEOREM SpawnCorrect == SpawnSpec => []SpawnInv
<1>1. SpawnInit => SpawnInv
  BY SpawnInitInv
<1>2. SpawnInv /\ [SpawnNext]_spawnVars => SpawnInv'
  BY SpawnNextType, SpawnNextKnows, SpawnNextDown, SpawnNextEarly DEF SpawnInv
<1> QED
  BY <1>1, <1>2, PTL DEF SpawnSpec
=============================================================================
