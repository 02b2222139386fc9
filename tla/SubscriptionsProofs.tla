------------------------ MODULE SubscriptionsProofs ------------------------
(* Proofs about Subscriptions: one message per window, and no row brought    *)
(* back, for any subscriptions and windows.                                  *)
EXTENDS Subscriptions, TLAPS

\* One connection of the bot to Discord, and no subscribing over a row.
OneLoop == ~Resubscribe /\ \A k, l \in Loop : k = l

LEMMA InitInv == Init => SubInv
<1> SUFFICES ASSUME Init PROVE SubInv
  OBVIOUS
<1>1. TypeOK
  BY DEF Init, TypeOK
<1>2. ToldIsMarked /\ ReadsAreMarked /\ ToldOnce
  BY DEF Init, ToldIsMarked, ReadsAreMarked, ToldOnce
<1> QED
  BY <1>1, <1>2 DEF SubInv

\* What a round does to the rows and the messages keeps their types.
LEMMA FetchedType ==
  ASSUME TypeOK, NEW l \in Loop, NEW known \in SUBSET Sub, Fetched(l, known)
  PROVE  TypeOK'
<1> DEFINE due == (DueRows(l) \ barred) \cap known
           marked == Marked(l, due)
<1>1. due \in SUBSET Sub
  BY DEF TypeOK, DueRows
<1>2. marked \in [Sub -> Nat \cup {NoRow}]
  BY DEF TypeOK, Marked
<1>3. /\ last' = [s \in Sub |-> IF s \in DueRows(l) \cap barred THEN NoRow ELSE marked[s]]
      /\ pending' = pending \cup {<<s, window, l>> : s \in due}
      /\ told' = [s \in Sub |-> IF s \in due THEN told[s] \cup {window} ELSE told[s]]
      /\ twice' = twice \cup {s \in due : window \in told[s]}
      /\ at' = [at EXCEPT ![l] = "send"]
      /\ UNCHANGED <<userVars, windowVars, rows, got>>
  BY Zenon DEF Fetched
<1> HIDE DEF due, marked
<1>4. last' \in [Sub -> Nat \cup {NoRow}]
  BY <1>2, <1>3
<1>5. pending' \in SUBSET (Sub \X Nat \X Loop)
  BY <1>1, <1>3 DEF TypeOK
<1>6. told' \in [Sub -> SUBSET Nat] /\ twice' \in SUBSET Sub
  BY <1>1, <1>3 DEF TypeOK
<1>7. at' \in [Loop -> {"off", "sleep", "fetch", "send"}]
  BY <1>3 DEF TypeOK
<1> QED
  BY <1>3, <1>4, <1>5, <1>6, <1>7 DEF TypeOK, userVars, windowVars

LEMMA NextType == TypeOK /\ [Next]_vars => TypeOK'
<1> SUFFICES ASSUME TypeOK, [Next]_vars PROVE TypeOK'
  OBVIOUS
<1> USE SubAssumption
<1>1. ASSUME NEW s \in Sub, Users(s) PROVE TypeOK'
  <2>1. last' \in [Sub -> Nat \cup {NoRow}]
    BY <1>1 DEF TypeOK, Users, Subscribe, Unsubscribe, Refresh, Expire, LoseRole, Approach
  <2>2. /\ expired' \in SUBSET Sub /\ barred' \in SUBSET Sub
        /\ near' \in SUBSET Sub
    BY <1>1 DEF TypeOK, Users, Subscribe, Unsubscribe, Refresh, Expire, LoseRole, Approach,
                userVars, windowVars
  <2>3. told' \in [Sub -> SUBSET Nat] /\ got' \in [Sub -> SUBSET Nat]
    BY <1>1 DEF TypeOK, Users, Subscribe, Unsubscribe, Refresh, Expire, LoseRole, Approach,
                history
  <2>4. UNCHANGED <<window, past, at, rows, pending, twice>>
    BY <1>1 DEF Users, Subscribe, Unsubscribe, Refresh, Expire, LoseRole, Approach,
                userVars, windowVars, loopVars, history
  <2> QED
    BY <2>1, <2>2, <2>3, <2>4 DEF TypeOK
<1>2. CASE NewWindow \/ WindowEnds
  <2>1. window' \in Nat /\ near' = {}
    BY <1>2 DEF TypeOK, NewWindow, WindowEnds
  <2>2. UNCHANGED <<last, expired, barred, at, rows, pending, told, twice, got>>
    BY <1>2 DEF NewWindow, WindowEnds, userVars, loopVars, history
  <2>3. past' \in BOOLEAN
    BY <1>2, Zenon DEF NewWindow, WindowEnds
  <2> QED
    BY <2>1, <2>2, <2>3 DEF TypeOK
<1>3. ASSUME NEW l \in Loop, NEW known \in SUBSET Sub, Fetched(l, known) PROVE TypeOK'
  BY <1>3, FetchedType
<1>4. ASSUME NEW l \in Loop, Wake(l) PROVE TypeOK'
  <2>1. last' \in [Sub -> Nat \cup {NoRow}]
    BY <1>4 DEF Wake, TypeOK
  <2>2. rows' \in [Loop -> [Sub -> Nat \cup {NoRow}]]
    BY <1>4, <2>1 DEF Wake, TypeOK
  <2>3. at' \in [Loop -> {"off", "sleep", "fetch", "send"}]
    BY <1>4 DEF Wake, TypeOK
  <2> QED
    BY <1>4, <2>1, <2>2, <2>3 DEF Wake, TypeOK, userVars, windowVars, history
<1>5. ASSUME NEW l \in Loop, OnReady(l) \/ EndRound(l) \/ FetchFails(l) PROVE TypeOK'
  <2>1. at' \in [Loop -> {"off", "sleep", "fetch", "send"}]
    BY <1>5 DEF OnReady, EndRound, FetchFails, TypeOK
  <2> QED
    BY <1>5, <2>1 DEF OnReady, EndRound, FetchFails, TypeOK, userVars, windowVars, history
<1>6. ASSUME NEW m \in pending, Deliver(m) \/ SendFails(m) PROVE TypeOK'
  <2>1. m \in Sub \X Nat \X Loop
    BY DEF TypeOK
  <2>2. m[1] \in Sub /\ m[2] \in Nat /\ m[3] \in Loop
    BY <2>1
  <2>3. at' \in [Loop -> {"off", "sleep", "fetch", "send"}]
    BY <1>6 DEF Deliver, SendFails, TypeOK
  <2>4. got' \in [Sub -> SUBSET Nat]
    BY <1>6, <2>2 DEF Deliver, SendFails, TypeOK, history
  <2> QED
    BY <1>6, <2>3, <2>4 DEF Deliver, SendFails, TypeOK, userVars, windowVars, history
<1>7. CASE Crash
  BY <1>7 DEF Crash, TypeOK, userVars, windowVars, history
<1>8. CASE UNCHANGED vars
  BY <1>8 DEF TypeOK, vars, userVars, windowVars, loopVars, history
<1>9. \A known \in Known : known \in SUBSET Sub
  BY DEF Known
<1> QED
  BY <1>1, <1>2, <1>3, <1>4, <1>5, <1>6, <1>7, <1>8, <1>9 DEF Next, Round

\* A round tells nobody what he was told, and marks what it tells.
LEMMA FetchedTellsOnce ==
  ASSUME SubInv, OneLoop, NEW l \in Loop, NEW known \in SUBSET Sub, Fetched(l, known)
  PROVE  ToldIsMarked' /\ ReadsAreMarked' /\ ToldOnce'
<1> DEFINE due == (DueRows(l) \ barred) \cap known
           marked == Marked(l, due)
<1> USE SubAssumption DEF SubInv, TypeOK
<1>1. /\ at[l] = "fetch"
      /\ last' = [s \in Sub |-> IF s \in DueRows(l) \cap barred THEN NoRow ELSE marked[s]]
      /\ told' = [s \in Sub |-> IF s \in due THEN told[s] \cup {window} ELSE told[s]]
      /\ twice' = twice \cup {s \in due : window \in told[s]}
      /\ at' = [at EXCEPT ![l] = "send"]
      /\ window' = window /\ rows' = rows
  BY Zenon DEF Fetched, windowVars
<1>2. \A s \in due : rows[l][s] # NoRow /\ rows[l][s] # window
  BY DEF DueRows
<1>3. due \in SUBSET Sub
  BY DEF DueRows
<1>4. \A s \in due : window \notin told[s]
  BY <1>1, <1>2, <1>3 DEF ReadsAreMarked
<1>5. ToldOnce'
  BY <1>1, <1>4 DEF ToldOnce
<1>6. \A s \in Sub : marked[s] = IF s \in due /\ Exists(s) THEN window ELSE last[s]
  BY DEF Marked
<1> HIDE DEF due, marked
<1>7. ASSUME NEW s \in Sub
      PROVE  /\ \A w \in told'[s] : w <= window
             /\ Exists(s)' /\ window \in told'[s] => last'[s] = window
  <2>1. last'[s] # NoRow => last'[s] = marked[s] /\ Exists(s)
    BY <1>1, <1>6 DEF Exists
  <2>2. CASE s \in due
    <3>1. told'[s] = told[s] \cup {window}
      BY <1>1, <2>2
    <3>2. window <= window
      OBVIOUS
    <3> QED
      BY <1>6, <2>1, <2>2, <3>1, <3>2 DEF ToldIsMarked, Exists
  <2>3. CASE s \notin due
    BY <1>1, <1>6, <2>1, <2>3 DEF ToldIsMarked, Exists
  <2> QED
    BY <2>2, <2>3
<1>8. ToldIsMarked'
  BY <1>1, <1>7 DEF ToldIsMarked
<1>9. \A k \in Loop : at'[k] # "fetch"
  BY <1>1 DEF OneLoop
<1>10. ReadsAreMarked'
  BY <1>9 DEF ReadsAreMarked
<1> QED
  BY <1>5, <1>8, <1>10

LEMMA NextTellsOnce ==
  ASSUME SubInv, OneLoop, [Next]_vars
  PROVE  ToldIsMarked' /\ ReadsAreMarked' /\ ToldOnce'
<1> USE SubAssumption DEF SubInv
<1>1. ASSUME NEW s \in Sub, Subscribe(s)
      PROVE  ToldIsMarked' /\ ReadsAreMarked' /\ ToldOnce'
  <2>1. /\ last' = [last EXCEPT ![s] = 0]
        /\ told' = [told EXCEPT ![s] = {}]
        /\ UNCHANGED <<window, at, rows, twice>>
    BY <1>1 DEF Subscribe, OneLoop, loopVars
  <2>2. told'[s] = {} /\ \A t \in Sub \ {s} : told'[t] = told[t] /\ last'[t] = last[t]
    BY <2>1 DEF TypeOK
  <2>3. ToldIsMarked'
    BY <2>1, <2>2 DEF ToldIsMarked, Exists
  <2>4. ReadsAreMarked'
    BY <2>1, <2>2 DEF ReadsAreMarked
  <2> QED
    BY <2>1, <2>3, <2>4 DEF ToldOnce
<1>2. ASSUME NEW s \in Sub, Unsubscribe(s)
      PROVE  ToldIsMarked' /\ ReadsAreMarked' /\ ToldOnce'
  <2>1. /\ last' = [last EXCEPT ![s] = NoRow]
        /\ UNCHANGED <<window, at, rows, told, twice>>
    BY <1>2 DEF Unsubscribe, windowVars, loopVars, history
  <2>2. \A t \in Sub : last'[t] # NoRow => last'[t] = last[t]
    BY <2>1 DEF TypeOK
  <2> QED
    BY <2>1, <2>2 DEF ToldIsMarked, ReadsAreMarked, ToldOnce, Exists
<1>3. ASSUME NEW s \in Sub, Refresh(s) \/ Expire(s) \/ LoseRole(s) \/ Approach(s)
      PROVE  ToldIsMarked' /\ ReadsAreMarked' /\ ToldOnce'
  <2>1. UNCHANGED <<last, window, at, rows, told, twice>>
    BY <1>3 DEF Refresh, Expire, LoseRole, Approach, windowVars, loopVars, history
  <2> QED
    BY <2>1 DEF ToldIsMarked, ReadsAreMarked, ToldOnce, Exists
<1>4. CASE NewWindow
  <2>1. window' = window + 1 /\ UNCHANGED <<last, at, rows, told, twice>>
    BY <1>4 DEF NewWindow, loopVars, history
  <2>2. \A s \in Sub : window' \notin told[s] /\ \A w \in told[s] : w <= window'
    BY <2>1 DEF TypeOK, ToldIsMarked
  <2> QED
    BY <2>1, <2>2 DEF ToldIsMarked, ReadsAreMarked, ToldOnce
<1>5. CASE WindowEnds
  <2>1. UNCHANGED <<last, window, at, rows, told, twice>>
    BY <1>5 DEF WindowEnds, loopVars, history
  <2> QED
    BY <2>1 DEF ToldIsMarked, ReadsAreMarked, ToldOnce, Exists
<1>6. ASSUME NEW l \in Loop, Wake(l)
      PROVE  ToldIsMarked' /\ ReadsAreMarked' /\ ToldOnce'
  <2>1. /\ last' = [s \in Sub |-> IF s \in expired THEN NoRow ELSE last[s]]
        /\ rows' = [rows EXCEPT ![l] = last']
        /\ UNCHANGED <<window, told, twice>>
    BY <1>6 DEF Wake, windowVars, history
  <2>2. \A s \in Sub : last'[s] # NoRow => last'[s] = last[s]
    BY <2>1
  <2>3. ToldIsMarked'
    BY <2>1, <2>2 DEF ToldIsMarked, Exists
  <2>4. \A k \in Loop : rows'[k] = last'
    BY <2>1 DEF TypeOK, OneLoop
  <2>5. ReadsAreMarked'
    BY <2>1, <2>3, <2>4 DEF ReadsAreMarked, ToldIsMarked, Exists
  <2> QED
    BY <2>1, <2>3, <2>5 DEF ToldOnce
<1>7. ASSUME NEW l \in Loop, OnReady(l) \/ EndRound(l) \/ FetchFails(l)
      PROVE  ToldIsMarked' /\ ReadsAreMarked' /\ ToldOnce'
  <2>1. /\ at' = [at EXCEPT ![l] = "sleep"]
        /\ UNCHANGED <<last, window, rows, told, twice>>
    BY <1>7 DEF OnReady, EndRound, FetchFails, windowVars, history
  <2>2. \A k \in Loop : at'[k] = "fetch" => at[k] = "fetch"
    BY <2>1 DEF TypeOK
  <2> QED
    BY <2>1, <2>2 DEF ToldIsMarked, ReadsAreMarked, ToldOnce, Exists
<1>8. ASSUME NEW m \in pending, Deliver(m) \/ SendFails(m)
      PROVE  ToldIsMarked' /\ ReadsAreMarked' /\ ToldOnce'
  <2>1. UNCHANGED <<last, window, rows, told, twice>>
    BY <1>8 DEF Deliver, SendFails, windowVars, history
  <2>2. \A k \in Loop : at'[k] = "fetch" => at[k] = "fetch"
    BY <1>8 DEF Deliver, SendFails, TypeOK
  <2> QED
    BY <2>1, <2>2 DEF ToldIsMarked, ReadsAreMarked, ToldOnce, Exists
<1>9. CASE Crash
  <2>1. /\ at' = [l \in Loop |-> "off"]
        /\ UNCHANGED <<last, window, rows, told, twice>>
    BY <1>9 DEF Crash, windowVars, history
  <2> QED
    BY <2>1 DEF ToldIsMarked, ReadsAreMarked, ToldOnce, Exists
<1>10. CASE UNCHANGED vars
  <2>1. UNCHANGED <<last, window, at, rows, told, twice>>
    BY <1>10 DEF vars, windowVars, loopVars, history
  <2> QED
    BY <2>1 DEF ToldIsMarked, ReadsAreMarked, ToldOnce, Exists
<1>11. \A known \in Known : known \in SUBSET Sub
  BY DEF Known
<1> HIDE DEF SubInv
<1> QED
  BY <1>1, <1>2, <1>3, <1>4, <1>5, <1>6, <1>7, <1>8, <1>9, <1>10, <1>11,
     FetchedTellsOnce DEF Next, Users, Round

(***************************************************************************)
(* Every variable keeps its type: the rows, the loops and the messages of  *)
(* announce_subscriptions.                                                 *)
(***************************************************************************)
THEOREM TypeCorrect == Spec => []TypeOK
<1>1. Init => TypeOK
  BY InitInv DEF SubInv
<1> QED
  BY <1>1, NextType, PTL DEF Spec

(***************************************************************************)
(* With one loop, and without subscribing over a row: a window that was    *)
(* announced is marked in the row, and in the rows a round has read        *)
(* (announce_subscriptions).                                               *)
(***************************************************************************)
THEOREM SubInvCorrect == OneLoop => (Spec => []SubInv)
<1> SUFFICES ASSUME OneLoop PROVE Spec => []SubInv
  OBVIOUS
<1>1. SubInv /\ [Next]_vars => SubInv'
  BY NextType, NextTellsOnce DEF SubInv
<1> QED
  BY InitInv, <1>1, PTL DEF Spec

(***************************************************************************)
(* With one loop, and without subscribing over a row, a subscription gets  *)
(* one message per window, whatever is deleted, lost, refreshed, expired   *)
(* or restarted in the meantime (announce_subscriptions).                  *)
(***************************************************************************)
THEOREM OnceCorrect == OneLoop => (Spec => []ToldOnce)
<1> SUFFICES ASSUME OneLoop PROVE Spec => []ToldOnce
  OBVIOUS
<1>1. SubInv => ToldOnce
  BY DEF SubInv
<1>2. Spec => []SubInv
  BY SubInvCorrect
<1> QED
  BY <1>1, <1>2, PTL

\* What a round marks it sends.
LEMMA FetchedSends ==
  ASSUME TypeOK, MarkedIsSent,
         NEW l \in Loop, NEW known \in SUBSET Sub, Fetched(l, known)
  PROVE  MarkedIsSent'
<1> DEFINE due == (DueRows(l) \ barred) \cap known
           marked == Marked(l, due)
<1>1. /\ last' = [s \in Sub |-> IF s \in DueRows(l) \cap barred THEN NoRow ELSE marked[s]]
      /\ pending' = pending \cup {<<s, window, l>> : s \in due}
      /\ got' = got
  BY Zenon DEF Fetched
<1>2. \A s \in Sub : marked[s] = IF s \in due /\ Exists(s) THEN window ELSE last[s]
  BY DEF Marked
<1>3. due \in SUBSET Sub
  BY DEF DueRows, TypeOK
<1> HIDE DEF due, marked
<1> SUFFICES ASSUME NEW s \in Sub, Exists(s)', last'[s] # 0
             PROVE  \/ last'[s] \in got'[s]
                    \/ \E k \in Loop : <<s, last'[s], k>> \in pending'
  BY DEF MarkedIsSent
<1>4. last'[s] = marked[s] /\ Exists(s)
  BY <1>1, <1>2 DEF Exists
<1>5. CASE s \in due
  <2>1. last'[s] = window /\ <<s, window, l>> \in pending'
    BY <1>1, <1>2, <1>4, <1>5
  <2> QED
    BY <2>1
<1>6. CASE s \notin due
  <2>1. last'[s] = last[s]
    BY <1>2, <1>4, <1>6
  <2> QED
    BY <1>1, <1>4, <2>1 DEF MarkedIsSent
<1> QED
  BY <1>5, <1>6

LEMMA NextSends ==
  ASSUME TypeOK, MarkedIsSent, ~Faults, [Next]_vars
  PROVE  MarkedIsSent'
<1>1. ASSUME NEW s \in Sub, Subscribe(s) PROVE MarkedIsSent'
  <2>1. /\ last'[s] = 0
        /\ \A t \in Sub \ {s} : last'[t] = last[t] /\ got'[t] = got[t]
        /\ pending' = pending
    BY <1>1 DEF Subscribe, TypeOK, loopVars
  <2> QED
    BY <2>1 DEF MarkedIsSent, Exists
<1>2. ASSUME UNCHANGED <<pending, got>>,
             \A s \in Sub : last'[s] \in {last[s], NoRow}
      PROVE  MarkedIsSent'
  BY <1>2 DEF MarkedIsSent, Exists
<1>3. ASSUME NEW s \in Sub, Users(s), ~Subscribe(s) PROVE MarkedIsSent'
  <2>1. UNCHANGED <<pending, got>>
    BY <1>3 DEF Users, Unsubscribe, Refresh, Expire, LoseRole, Approach,
                loopVars, history
  <2>2. \A t \in Sub : last'[t] \in {last[t], NoRow}
    BY <1>3 DEF Users, Unsubscribe, Refresh, Expire, LoseRole, Approach, TypeOK
  <2> QED
    BY <1>2, <2>1, <2>2
<1>4. ASSUME NEW l \in Loop, Wake(l) PROVE MarkedIsSent'
  <2>1. UNCHANGED <<pending, got>>
    BY <1>4 DEF Wake, history
  <2>2. \A t \in Sub : last'[t] \in {last[t], NoRow}
    BY <1>4 DEF Wake
  <2> QED
    BY <1>2, <2>1, <2>2
<1>5. ASSUME UNCHANGED <<last, pending, got>> PROVE MarkedIsSent'
  BY <1>5 DEF MarkedIsSent, Exists
<1>6. ASSUME NEW l \in Loop, OnReady(l) \/ EndRound(l) PROVE MarkedIsSent'
  <2>1. UNCHANGED <<last, pending, got>>
    BY <1>6 DEF OnReady, EndRound, history
  <2> QED
    BY <1>5, <2>1
<1>7. ASSUME NEW m \in pending, Deliver(m) PROVE MarkedIsSent'
  <2>1. m[1] \in Sub /\ m = <<m[1], m[2], m[3]>>
    <3>1. m \in Sub \X Nat \X Loop
      BY DEF TypeOK
    <3> QED
      BY <3>1
  <2>2. /\ last' = last
        /\ pending' = pending \ {m}
        /\ got'[m[1]] = got[m[1]] \cup {m[2]}
        /\ \A s \in Sub \ {m[1]} : got'[s] = got[s]
    BY <1>7, <2>1 DEF Deliver, TypeOK
  <2> SUFFICES ASSUME NEW s \in Sub, Exists(s), last[s] # 0, last[s] \notin got'[s]
               PROVE  \E l \in Loop : <<s, last[s], l>> \in pending'
    BY <2>2 DEF MarkedIsSent, Exists
  <2>3. last[s] \notin got[s]
    BY <2>1, <2>2
  <2>4. PICK l \in Loop : <<s, last[s], l>> \in pending
    BY <2>3 DEF MarkedIsSent
  <2>5. <<s, last[s], l>> # m
    <3> SUFFICES ASSUME <<s, last[s], l>> = m PROVE FALSE
      OBVIOUS
    <3>1. m[1] = s /\ m[2] = last[s]
      OBVIOUS
    <3> QED
      BY <2>2, <3>1
  <2> QED
    BY <2>2, <2>4, <2>5
<1>8. CASE NewWindow \/ WindowEnds \/ UNCHANGED vars
  <2>1. UNCHANGED <<last, pending, got>>
    BY <1>8 DEF NewWindow, WindowEnds, vars, loopVars, history
  <2> QED
    BY <1>5, <2>1
<1>9. /\ \A known \in Known : known \in SUBSET Sub
      /\ \A l \in Loop : ~FetchFails(l)
      /\ \A m \in pending : ~SendFails(m)
      /\ ~Crash
  BY DEF Known, FetchFails, SendFails, Crash
<1> QED
  BY <1>1, <1>3, <1>4, <1>6, <1>7, <1>8, <1>9, FetchedSends DEF Next, Round

(***************************************************************************)
(* Where nothing fails, a window that is marked in a row has a message     *)
(* that is on its way or has arrived, with any number of loops and with    *)
(* users who subscribe over their rows (announce_subscriptions).           *)
(***************************************************************************)
THEOREM MarkedCorrect == ~Faults => (Spec => []MarkedIsSent)
<1> SUFFICES ASSUME ~Faults PROVE Spec => []MarkedIsSent
  OBVIOUS
<1>1. Init => MarkedIsSent
  BY DEF Init, MarkedIsSent, Exists
<1>2. TypeOK /\ MarkedIsSent /\ [Next]_vars => MarkedIsSent'
  BY NextSends
<1> QED
  BY <1>1, <1>2, TypeCorrect, PTL DEF Spec

(***************************************************************************)
(* Only its user brings a subscription into being: no round stores a row   *)
(* that was deleted while it was under way (mark_subscription_sent).       *)
(***************************************************************************)
THEOREM RevivalExcluded == Spec => NotRevived
<1>1. ASSUME TypeOK, [Next]_vars, NEW s \in Sub, ~Exists(s), Exists(s)'
      PROVE  Subscribe(s)
  <2> USE DEF Exists
  <2>1. ASSUME NEW t \in Sub, Users(t), ~Subscribe(s) PROVE FALSE
    <3>1. CASE Subscribe(t)
      <4>1. t # s
        BY <2>1, <3>1
      <4>2. last' = [last EXCEPT ![t] = 0]
        BY <3>1 DEF Subscribe
      <4> QED
        BY <1>1, <4>1, <4>2 DEF TypeOK
    <3>2. CASE Unsubscribe(t)
      BY <1>1, <3>2 DEF Unsubscribe, TypeOK
    <3>3. CASE Refresh(t) \/ Expire(t) \/ LoseRole(t) \/ Approach(t)
      BY <1>1, <3>3 DEF Refresh, Expire, LoseRole, Approach
    <3> QED
      BY <2>1, <3>1, <3>2, <3>3 DEF Users
  <2>2. ASSUME NEW l \in Loop, Wake(l) PROVE FALSE
    BY <1>1, <2>2 DEF Wake
  <2>3. ASSUME NEW l \in Loop, NEW known \in Known, Fetched(l, known) PROVE FALSE
    <3> DEFINE due == (DueRows(l) \ barred) \cap known
    <3>1. last' = [t \in Sub |-> IF t \in DueRows(l) \cap barred THEN NoRow
                                                               ELSE Marked(l, due)[t]]
      BY <2>3, Zenon DEF Fetched
    <3>2. Marked(l, due)[s] = last[s]
      BY <1>1 DEF Marked
    <3> QED
      BY <1>1, <3>1, <3>2
  <2>4. CASE UNCHANGED last
    BY <1>1, <2>4
  <2>5. ASSUME NEW l \in Loop, OnReady(l) \/ EndRound(l) \/ FetchFails(l)
        PROVE UNCHANGED last
    BY <2>5 DEF OnReady, EndRound, FetchFails
  <2>6. ASSUME NEW m \in pending, Deliver(m) \/ SendFails(m) PROVE UNCHANGED last
    BY <2>6 DEF Deliver, SendFails
  <2>7. NewWindow \/ WindowEnds \/ Crash \/ UNCHANGED vars => UNCHANGED last
    BY DEF NewWindow, WindowEnds, Crash, vars
  <2> QED
    BY <1>1, <2>1, <2>2, <2>3, <2>4, <2>5, <2>6, <2>7 DEF Next, Round
<1>2. TypeOK /\ [Next]_vars
        => [\A s \in Sub : ~Exists(s) /\ Exists(s)' => Subscribe(s)]_vars
  BY <1>1
<1> QED
  BY TypeCorrect, <1>2, PTL DEF Spec, NotRevived
=============================================================================
