------------------------- MODULE RaidTrackingProofs -------------------------
(* Proofs about RaidTracking: no character tracks or is credited twice, an    *)
(* event credits whom it closes, the lockout, and what EQdkp has paid is      *)
(* recorded, for any handlers, characters, targets and bounds.                *)
EXTENDS RaidTracking, TLAPS

OneOpenIn(d) == \A i, j \in Open(d) : d.track[i].char = d.track[j].char => i = j

OneCreditIn(d) ==
  /\ \A h \in d.here : d.event[h[1]] # NoEvent
  /\ \A r \in d.rows :
        /\ r[2] \in Tracks(d) /\ d.event[r[1]] # NoEvent
        /\ <<r[1], d.track[r[2]].char>> \notin d.here
        /\ \A s \in d.rows :
              r[1] = s[1] /\ d.track[r[2]].char = d.track[s[2]].char => r = s

Good(d) == d \in Database /\ OneOpenIn(d) /\ OneCreditIn(d)

\* What matters to payments, and to events, is as in d.
SamePaid(c, d) == Tracks(c) = Tracks(d) /\ \A i \in Tracks(d) : c.track[i].paid = d.track[i].paid
Keeps(c, d) == c.event = d.event /\ SamePaid(c, d)

-----------------------------------------------------------------------------
(* What the changes to the database do *)

LEMMA Constants ==
  /\ Quake \notin Targets /\ Quake # NoOne /\ NoOne \notin Chars /\ NoOne \notin Events
  /\ Lockout \in Nat /\ MaxTracks \in Nat /\ MaxClock \in Nat /\ MaxCommands \in Nat
  /\ NoOne \notin Flows
  /\ \A t \in Targets \cup {Quake} : Parts[t] \in Nat /\ Parts[t] # 0
BY TrackingConstants, NoFlow

LEMMA TrackIsThere == NoTrack \notin Track
BY Constants DEF NoTrack, Track

LEMMA EventIsThere == NoEvent \notin Event
BY Constants DEF NoEvent, Event

LEMMA Rows ==
  ASSUME NEW d \in Database
  PROVE  /\ d.track \in [Ids -> Track \cup {NoTrack}] /\ d.event \in [Events -> Event \cup {NoEvent}]
         /\ d.rows \subseteq Events \X Ids /\ d.here \subseteq Events \X Chars
         /\ Open(d) \subseteq Tracks(d) /\ Tracks(d) \subseteq Ids
         /\ \A i \in Tracks(d) : d.track[i] \in Track
BY DEF Database, Open, Tracks

LEMMA RowChanges ==
  ASSUME NEW k \in Track, NEW e \in Events \cup {NoOne}
  PROVE  /\ [k EXCEPT !.open = FALSE, !.closer = e] \in Track
         /\ [k EXCEPT !.open = FALSE] \in Track /\ [k EXCEPT !.paid = TRUE] \in Track
         /\ LET c == [k EXCEPT !.open = FALSE, !.closer = e]
            IN ~c.open /\ c.closer = e /\ c.char = k.char /\ c.paid = k.paid
         /\ LET c == [k EXCEPT !.open = FALSE]
            IN ~c.open /\ c.char = k.char /\ c.paid = k.paid
         /\ LET c == [k EXCEPT !.paid = TRUE]
            IN c.paid = TRUE /\ c.char = k.char /\ c.open = k.open
BY DEF Track

EndsTo(c, d, S, e) == c = Ended(d, S, e)

LEMMA EndedIs ==
  ASSUME NEW d, Good(d), NEW S \in SUBSET Tracks(d), NEW e \in Events \cup {NoOne},
         NEW c, EndsTo(c, d, S, e)
  PROVE  /\ Good(c) /\ Keeps(c, d) /\ Open(c) = Open(d) \ S
         /\ c.rows = d.rows /\ c.here = d.here
         /\ \A i \in S : ~c.track[i].open /\ c.track[i].closer = e
         /\ \A i \in Tracks(d) : c.track[i].char = d.track[i].char
         /\ \A i \in Ids \ S : c.track[i] = d.track[i]
<1>1. d \in Database
  BY DEF Good
<1> DEFINE T == [i \in Ids |-> IF i \in S
         THEN [d.track[i] EXCEPT !.open = FALSE, !.closer = e] ELSE d.track[i]]
<1>0. c = [d EXCEPT !.track = T]
  BY <1>1 DEF Database, Ended, EndsTo
<1>a. \A i \in S : d.track[i] \in Track
  BY <1>1, Rows
<1>b. \A i \in S : i \in Ids /\ T[i] \in Track
  BY <1>a, RowChanges DEF Tracks
<1>c. T \in [Ids -> Track \cup {NoTrack}]
  BY <1>1, <1>b, Rows
<1>5. c \in Database
  <2> HIDE DEF T
  <2> QED
    BY <1>0, <1>1, <1>c DEF Database
<1>2. c.event = d.event /\ c.rows = d.rows /\ c.here = d.here /\ c.track = T
  <2> HIDE DEF T
  <2> QED
    BY <1>0, <1>1 DEF Database
<1>3. \A i \in S : /\ c.track[i] \in Track /\ ~c.track[i].open /\ c.track[i].closer = e
                   /\ c.track[i].char = d.track[i].char /\ c.track[i].paid = d.track[i].paid
  <2>1. \A i \in S : c.track[i] = [d.track[i] EXCEPT !.open = FALSE, !.closer = e]
    BY <1>2, <1>b
  <2> HIDE DEF T
  <2> SUFFICES ASSUME NEW i \in S PROVE /\ c.track[i] \in Track /\ ~c.track[i].open /\ c.track[i].closer = e /\ c.track[i].char = d.track[i].char /\ c.track[i].paid = d.track[i].paid
    OBVIOUS
  <2>2. d.track[i] \in Track
    BY <1>a
  <2> QED
    BY <2>1, <2>2 DEF Track
<1>4. \A i \in Ids \ S : c.track[i] = d.track[i]
  BY <1>2
<1> HIDE DEF T
<1>6. Tracks(c) = Tracks(d) /\ Open(c) = Open(d) \ S
  BY <1>1, <1>3, <1>4, Rows, TrackIsThere DEF Tracks, Open
<1>7. \A i \in Tracks(d) : c.track[i].char = d.track[i].char /\ c.track[i].paid = d.track[i].paid
  BY <1>1, <1>3, <1>4, Rows
<1>8. OneOpenIn(c)
  BY <1>1, <1>6, <1>7, Rows DEF Good, OneOpenIn
<1>9. OneCreditIn(c)
  <2>1. \A h \in c.here : c.event[h[1]] # NoEvent
    BY <1>2 DEF Good, OneCreditIn
  <2>2. \A r \in c.rows : r[2] \in Tracks(c) /\ c.track[r[2]].char = d.track[r[2]].char
    BY <1>2, <1>6, <1>7 DEF Good, OneCreditIn
  <2> QED
    BY <1>2, <1>6, <2>1, <2>2 DEF Good, OneCreditIn
<1> QED
  BY <1>2, <1>3, <1>4, <1>5, <1>6, <1>7, <1>8, <1>9 DEF Good, Keeps, SamePaid

\* A tracking that changes in nothing but being open, its closer and being paid.
LEMMA ClosedIs ==
  ASSUME NEW d, Good(d), NEW c \in Database, Tracks(c) = Tracks(d), Open(c) \subseteq Open(d),
         c.event = d.event, c.rows = d.rows, c.here = d.here,
         \A i \in Tracks(d) : c.track[i].char = d.track[i].char
  PROVE  Good(c)
<1>1. d \in Database
  BY DEF Good
<1>2. OneOpenIn(c)
  BY <1>1, Rows DEF Good, OneOpenIn
<1>3. OneCreditIn(c)
  BY DEF Good, OneCreditIn
<1> QED
  BY <1>2, <1>3 DEF Good

LEMMA ClearedIs ==
  ASSUME NEW d, Good(d), NEW S \in SUBSET Tracks(d)
  PROVE  LET c == [d EXCEPT !.track = [i \in Ids |->
                     IF i \in S THEN [@[i] EXCEPT !.open = FALSE] ELSE @[i]]]
         IN Good(c) /\ Keeps(c, d)
<1> DEFINE c == [d EXCEPT !.track = [i \in Ids |->
                     IF i \in S THEN [@[i] EXCEPT !.open = FALSE] ELSE @[i]]]
<1>1. d \in Database
  BY DEF Good
<1> DEFINE T == [i \in Ids |-> IF i \in S THEN [d.track[i] EXCEPT !.open = FALSE] ELSE d.track[i]]
<1>0. c = [d EXCEPT !.track = T]
  BY <1>1 DEF Database
<1>a. \A i \in S : d.track[i] \in Track
  BY <1>1, Rows
<1>b. \A i \in S : i \in Ids /\ T[i] \in Track
  BY <1>a, RowChanges DEF Tracks
<1>c. T \in [Ids -> Track \cup {NoTrack}]
  BY <1>1, <1>b, Rows
<1>5. c \in Database
  <2> HIDE DEF T, c
  <2> QED
    BY <1>0, <1>1, <1>c DEF Database
<1>2. c.event = d.event /\ c.rows = d.rows /\ c.here = d.here /\ c.track = T
  <2> HIDE DEF T, c
  <2> QED
    BY <1>0, <1>1 DEF Database
<1>3. \A i \in S : /\ c.track[i] \in Track /\ ~c.track[i].open
                   /\ c.track[i].char = d.track[i].char /\ c.track[i].paid = d.track[i].paid
  <2> HIDE DEF c
  <2>1. \A i \in S : c.track[i] = [d.track[i] EXCEPT !.open = FALSE]
    BY <1>2, <1>b
  <2> HIDE DEF T
  <2> HIDE DEF c
  <2> SUFFICES ASSUME NEW i \in S PROVE /\ c.track[i] \in Track /\ ~c.track[i].open /\ c.track[i].char = d.track[i].char /\ c.track[i].paid = d.track[i].paid
    OBVIOUS
  <2>2. d.track[i] \in Track
    BY <1>a
  <2> QED
    BY <2>1, <2>2 DEF Track
<1>4. \A i \in Ids \ S : c.track[i] = d.track[i]
  BY <1>2
<1> HIDE DEF c, T
<1>6. Tracks(c) = Tracks(d) /\ Open(c) \subseteq Open(d)
  BY <1>1, <1>3, <1>4, Rows, TrackIsThere DEF Tracks, Open
<1>7. \A i \in Tracks(d) : c.track[i].char = d.track[i].char /\ c.track[i].paid = d.track[i].paid
  BY <1>1, <1>3, <1>4, Rows
<1> QED
  BY <1>2, <1>5, <1>6, <1>7, ClosedIs DEF Keeps, SamePaid, c

LEMMA MarkedIs ==
  ASSUME NEW d, Good(d), NEW S \in SUBSET Tracks(d)
  PROVE  LET c == Marked(d, S) IN
         /\ Good(c) /\ c.event = d.event /\ Tracks(c) = Tracks(d)
         /\ \A i \in Tracks(d) : c.track[i].paid = (i \in S \/ d.track[i].paid)
<1> DEFINE c == Marked(d, S)
<1>1. d \in Database
  BY DEF Good
<1> DEFINE T == [i \in Ids |-> IF i \in S THEN [d.track[i] EXCEPT !.paid = TRUE] ELSE d.track[i]]
<1>0. c = [d EXCEPT !.track = T]
  BY <1>1 DEF Database, Marked
<1>a. \A i \in S : d.track[i] \in Track
  BY <1>1, Rows
<1>b. \A i \in S : i \in Ids /\ T[i] \in Track
  BY <1>a, RowChanges DEF Tracks
<1>c. T \in [Ids -> Track \cup {NoTrack}]
  BY <1>1, <1>b, Rows
<1>5. c \in Database
  <2> HIDE DEF T, c
  <2> QED
    BY <1>0, <1>1, <1>c DEF Database
<1>2. c.event = d.event /\ c.rows = d.rows /\ c.here = d.here /\ c.track = T
  <2> HIDE DEF T, c
  <2> QED
    BY <1>0, <1>1 DEF Database
<1>3. \A i \in S : /\ c.track[i] \in Track /\ c.track[i].open = d.track[i].open
                   /\ c.track[i].char = d.track[i].char /\ c.track[i].paid = TRUE
  <2> HIDE DEF c
  <2>1. \A i \in S : c.track[i] = [d.track[i] EXCEPT !.paid = TRUE]
    BY <1>2, <1>b
  <2> HIDE DEF T
  <2> HIDE DEF c
  <2> SUFFICES ASSUME NEW i \in S PROVE /\ c.track[i] \in Track /\ c.track[i].open = d.track[i].open /\ c.track[i].char = d.track[i].char /\ c.track[i].paid = TRUE
    OBVIOUS
  <2>2. d.track[i] \in Track
    BY <1>a
  <2> QED
    BY <2>1, <2>2 DEF Track
<1>4. \A i \in Ids \ S : c.track[i] = d.track[i]
  BY <1>2
<1> HIDE DEF c, T
<1>6. Tracks(c) = Tracks(d) /\ Open(c) \subseteq Open(d)
  BY <1>1, <1>3, <1>4, Rows, TrackIsThere DEF Tracks, Open
<1>7. \A i \in Tracks(d) : c.track[i].char = d.track[i].char
  BY <1>1, <1>3, <1>4, Rows
<1>8. \A i \in Tracks(d) : c.track[i].paid = (i \in S \/ d.track[i].paid)
  <2>1. \A i \in Tracks(d) : d.track[i].paid \in BOOLEAN /\ i \in Ids
    BY <1>1, Rows DEF Track
  <2> QED
    BY <1>3, <1>4, <2>1
<1> QED
  BY <1>2, <1>5, <1>6, <1>7, <1>8, ClosedIs DEF c

LEMMA DeletedIs ==
  ASSUME NEW d, Good(d), NEW i \in Tracks(d)
  PROVE  LET c == [d EXCEPT !.track[i] = NoTrack, !.rows = {r \in @ : r[2] # i}] IN
         /\ Good(c) /\ c.event = d.event /\ Tracks(c) = Tracks(d) \ {i}
         /\ \A j \in Tracks(c) : c.track[j] = d.track[j]
<1> DEFINE c == [d EXCEPT !.track[i] = NoTrack, !.rows = {r \in @ : r[2] # i}]
<1>1. d \in Database
  BY DEF Good
<1> DEFINE T == [d.track EXCEPT ![i] = NoTrack]
           R == {r \in d.rows : r[2] # i}
<1>a. c = [d EXCEPT !.track = T, !.rows = R]
  BY <1>1 DEF Database
<1>b. T \in [Ids -> Track \cup {NoTrack}] /\ R \subseteq Events \X Ids
  BY <1>1, Rows
<1>3. c \in Database
  <2> HIDE DEF T, R, c
  <2> QED
    BY <1>a, <1>b, <1>1 DEF Database
<1>2. c.event = d.event /\ c.rows = R /\ c.here = d.here /\ c.track = T
  <2> HIDE DEF T, R, c
  <2> QED
    BY <1>a, <1>1 DEF Database
<1> HIDE DEF c
<1>4. /\ Tracks(c) = Tracks(d) \ {i} /\ Open(c) \subseteq Open(d)
      /\ \A j \in Tracks(c) : c.track[j] = d.track[j]
  BY <1>1, <1>2, Rows DEF Tracks, Open
<1>5. OneOpenIn(c)
  BY <1>3, <1>4, Rows DEF Good, OneOpenIn
<1>6. OneCreditIn(c)
  BY <1>2, <1>4 DEF Good, OneCreditIn
<1> QED
  BY <1>2, <1>3, <1>4, <1>5, <1>6 DEF Good, c

LEMMA StartedIs ==
  ASSUME NEW d, Good(d), NEW i \in NextIds(d), NEW k \in Track, Free(d, k.char)
  PROVE  LET c == [d EXCEPT !.track[i] = k] IN
         /\ Good(c) /\ c.event = d.event /\ i \in Ids \ Tracks(d) /\ Tracks(c) = Tracks(d) \cup {i}
         /\ c.track = [d.track EXCEPT ![i] = k]
<1> DEFINE c == [d EXCEPT !.track[i] = k]
           T == [d.track EXCEPT ![i] = k]
<1>1. d \in Database
  BY DEF Good
<1>2. i \in Ids \ Tracks(d)
  <2>1. i \in Ids /\ \A j \in Tracks(d) : j < i
    BY DEF NextIds
  <2>2. ~(i < i)
    BY <2>1, Constants DEF Ids
  <2> QED
    BY <2>1, <2>2
<1>3. c = [d EXCEPT !.track = T]
  BY <1>1 DEF Database
<1>4. T \in [Ids -> Track \cup {NoTrack}]
  BY <1>1, Rows
<1>5. /\ c \in Database
      /\ c.event = d.event /\ c.rows = d.rows /\ c.here = d.here /\ c.track = T
  <2> HIDE DEF T, c
  <2> QED
    BY <1>3, <1>4, <1>1 DEF Database
<1>6. /\ Tracks(c) = Tracks(d) \cup {i} /\ Open(c) \subseteq Open(d) \cup {i}
      /\ \A j \in Tracks(d) : c.track[j] = d.track[j]
      /\ c.track[i] = k
  <2> HIDE DEF c
  <2>1. \A j \in Ids : c.track[j] = IF j = i THEN k ELSE d.track[j]
    BY <1>1, <1>5, <1>2, Rows
  <2> HIDE DEF T
  <2> QED
    BY <1>2, <2>1, TrackIsThere DEF Tracks, Open
<1> HIDE DEF c, T
<1>7. OneOpenIn(c)
  <2>1. \A j \in Open(d) : c.track[j].char # k.char
    BY <1>1, <1>6, Rows DEF Free
  <2> QED
    BY <1>1, <1>6, <2>1, Rows DEF Good, OneOpenIn
<1>8. OneCreditIn(c)
  BY <1>5, <1>6 DEF Good, OneCreditIn
<1> QED
  BY <1>2, <1>5, <1>6, <1>7, <1>8 DEF Good, c, T

LEMMA EventIs ==
  ASSUME NEW d, Good(d), NEW e \in Events, NEW x \in Event
  PROVE  LET c == [d EXCEPT !.event[e] = x] IN
         /\ Good(c) /\ c.event = [d.event EXCEPT ![e] = x]
         /\ c.track = d.track /\ c.rows = d.rows /\ c.here = d.here
         /\ Tracks(c) = Tracks(d) /\ Open(c) = Open(d)
<1> DEFINE c == [d EXCEPT !.event[e] = x]
           T == [d.event EXCEPT ![e] = x]
<1>1. d \in Database
  BY DEF Good
<1>3. c = [d EXCEPT !.event = T]
  BY <1>1 DEF Database
<1>4. T \in [Events -> Event \cup {NoEvent}]
  BY <1>1, Rows
<1>5. /\ c \in Database
      /\ c.event = T /\ c.rows = d.rows /\ c.here = d.here /\ c.track = d.track
  <2> HIDE DEF T, c
  <2> QED
    BY <1>3, <1>4, <1>1 DEF Database
<1>6. \A a \in Events : c.event[a] = NoEvent => d.event[a] = NoEvent
  <2> HIDE DEF c
  <2> QED
    BY <1>1, <1>5, Rows, EventIsThere
<1> HIDE DEF c, T
<1>7. Tracks(c) = Tracks(d) /\ Open(c) = Open(d)
  BY <1>5 DEF Tracks, Open
<1>8. OneOpenIn(c)
  BY <1>5, <1>7 DEF Good, OneOpenIn
<1>9. OneCreditIn(c)
  <2>1. \A r \in d.rows : r[1] \in Events
    BY <1>1, Rows
  <2>2. \A r \in d.here : r[1] \in Events
    BY <1>1, Rows
  <2> QED
    BY <1>5, <1>6, <1>7, <2>1, <2>2 DEF Good, OneCreditIn
<1> QED
  BY <1>5, <1>7, <1>8, <1>9 DEF Good, c, T

\* The rows of an attendance list only.
LEMMA ListIs ==
  ASSUME NEW d, Good(d), NEW c \in Database, c.event = d.event, c.track = d.track
  PROVE  Keeps(c, d) /\ OneOpenIn(c)
<1>1. Tracks(c) = Tracks(d) /\ Open(c) = Open(d)
  BY DEF Tracks, Open
<1> QED
  BY <1>1 DEF Good, OneOpenIn, Keeps, SamePaid

LEMMA AttendIs ==
  ASSUME NEW d, Good(d), NEW e \in Events, NEW c \in Chars,
         d.event[e] # NoEvent, ~Attends(d, e, c)
  PROVE  LET n == [d EXCEPT !.here = @ \cup {<<e, c>>}] IN Good(n) /\ Keeps(n, d)
<1>1. d \in Database
  BY DEF Good
<1> DEFINE H == d.here \cup {<<e, c>>}
           R == d.rows
           n == [d EXCEPT !.rows = R, !.here = H]
<1>2. [d EXCEPT !.here = @ \cup {<<e, c>>}] = n
  BY <1>1 DEF Database
<1>3. R \subseteq Events \X Ids /\ H \subseteq Events \X Chars
  BY <1>1, Rows
<1>4. /\ n \in Database /\ Keeps(n, d) /\ OneOpenIn(n) /\ n.track = d.track
      /\ n.rows = R /\ n.here = H
  <2>1. d \in Database
    BY <1>1 DEF Good
  <2>2. /\ n \in Database /\ n.event = d.event /\ n.track = d.track
        /\ n.rows = R /\ n.here = H
    <3> HIDE DEF R, H
    <3> QED
      BY <1>3, <2>1 DEF Database
  <2> HIDE DEF n, R, H
  <2> QED
    BY <1>1, <2>2, ListIs
<1> HIDE DEF n
<1>5. OneCreditIn(n)
  <2>1. \A h \in n.here : n.event[h[1]] # NoEvent
    BY <1>4 DEF Good, OneCreditIn, Keeps, SamePaid
  <2>2. ASSUME NEW r \in d.rows PROVE <<r[1], d.track[r[2]].char>> \notin H
    <3>1. r = <<r[1], r[2]>> /\ r[2] \in Tracks(d) /\ <<r[1], d.track[r[2]].char>> \notin d.here
      BY <1>1, Rows DEF Good, OneCreditIn
    <3>2. <<r[1], d.track[r[2]].char>> # <<e, c>>
      BY <3>1 DEF Attends
    <3> QED
      BY <3>1, <3>2
  <2> QED
    BY <1>4, <2>1, <2>2 DEF Good, OneCreditIn, Keeps, SamePaid
<1> QED
  BY <1>2, <1>4, <1>5 DEF Good

LEMMA LeaveIs ==
  ASSUME NEW d, Good(d), NEW e \in Events, NEW c \in Chars
  PROVE  LET n == [d EXCEPT !.here = @ \ {<<e, c>>},
                            !.rows = {r \in @ : r[1] = e => d.track[r[2]].char # c}]
         IN Good(n) /\ Keeps(n, d)
<1>1. d \in Database
  BY DEF Good
<1> DEFINE H == d.here \ {<<e, c>>}
           R == {r \in d.rows : r[1] = e => d.track[r[2]].char # c}
           n == [d EXCEPT !.rows = R, !.here = H]
<1>2. [d EXCEPT !.here = @ \ {<<e, c>>},
                !.rows = {r \in @ : r[1] = e => d.track[r[2]].char # c}] = n
  BY <1>1 DEF Database
<1>3. R \subseteq Events \X Ids /\ H \subseteq Events \X Chars
  BY <1>1, Rows
<1>4. /\ n \in Database /\ Keeps(n, d) /\ OneOpenIn(n) /\ n.track = d.track
      /\ n.rows = R /\ n.here = H
  <2>1. d \in Database
    BY <1>1 DEF Good
  <2>2. /\ n \in Database /\ n.event = d.event /\ n.track = d.track
        /\ n.rows = R /\ n.here = H
    <3> HIDE DEF R, H
    <3> QED
      BY <1>3, <2>1 DEF Database
  <2> HIDE DEF n, R, H
  <2> QED
    BY <1>1, <2>2, ListIs
<1> HIDE DEF n
<1>5. OneCreditIn(n)
  BY <1>4 DEF Good, OneCreditIn, Keeps, SamePaid
<1> QED
  BY <1>2, <1>4, <1>5 DEF Good

\* The event that is retargeted loses its attendees by tracking.
LEMMA DroppedIs ==
  ASSUME NEW d, Good(d), NEW e \in Events, d.event[e] # NoEvent
  PROVE  LET c == [d EXCEPT !.event[e].moved = TRUE, !.rows = {r \in @ : r[1] # e}] IN
         /\ Good(c) /\ c.track = d.track
         /\ c.event = [d.event EXCEPT ![e] = [@ EXCEPT !.moved = TRUE]]
<1>1. d \in Database /\ d.event[e] \in Event
  BY Rows DEF Good
<1> DEFINE x == [d.event[e] EXCEPT !.moved = TRUE]
           b == [d EXCEPT !.event[e] = x]
           R == {r \in d.rows : r[1] # e}
           H == d.here
           c == [b EXCEPT !.rows = R, !.here = H]
<1>2. x \in Event
  BY <1>1 DEF Event
<1>3. [d EXCEPT !.event[e].moved = TRUE, !.rows = {r \in @ : r[1] # e}] = c
  BY <1>1 DEF Database
<1>4. /\ Good(b) /\ b.event = [d.event EXCEPT ![e] = x]
      /\ b.track = d.track /\ b.rows = d.rows /\ b.here = d.here
  <2> HIDE DEF x
  <2> QED
    BY <1>2, EventIs
<1>5. R \subseteq Events \X Ids /\ H \subseteq Events \X Chars
  BY <1>1, Rows
<1>6. /\ c \in Database /\ Keeps(c, b) /\ OneOpenIn(c) /\ c.track = b.track
      /\ c.rows = R /\ c.here = H
  <2>1. b \in Database
    BY <1>4 DEF Good
  <2>2. /\ c \in Database /\ c.event = b.event /\ c.track = b.track
        /\ c.rows = R /\ c.here = H
    <3> HIDE DEF R, H
    <3> QED
      BY <1>4, <1>5, <2>1 DEF Database
  <2> HIDE DEF c, R, H
  <2> QED
    BY <1>4, <2>2, ListIs
<1> HIDE DEF c, b
<1>7. OneCreditIn(c)
  BY <1>4, <1>6 DEF Good, OneCreditIn, Keeps, SamePaid
<1> QED
  BY <1>1, <1>3, <1>4, <1>6, <1>7 DEF Good, Keeps, SamePaid

LEMMA CreditedIs ==
  ASSUME NEW d, Good(d), NEW e \in Events, NEW t, NEW pulls, d.event[e] # NoEvent
  PROVE  LET c == Credited(d, e, t, pulls) IN
         /\ Good(c) /\ Keeps(c, d)
         /\ t # Quake => \A i \in On(d, {t}) :
               /\ ~c.track[i].open /\ c.track[i].closer = e
               /\ ~Attends(d, e, d.track[i].char) => <<e, i>> \in c.rows
<1>1. d \in Database
  BY DEF Good
<1> DEFINE b == Ended(d, Closes(d, t), e)
           N == {<<e, i>> : i \in {i \in Credits(d, t, pulls) : ~Attends(d, e, d.track[i].char)}}
           R == d.rows \cup N
           H == d.here
           c == [b EXCEPT !.rows = R, !.here = H]
<1>2. Closes(d, t) \in SUBSET Tracks(d) /\ Credits(d, t, pulls) \subseteq Open(d)
  BY <1>1, Rows DEF Closes, Credits, On
<1>3. /\ Good(b) /\ Keeps(b, d) /\ b.rows = d.rows /\ b.here = d.here
      /\ \A i \in Closes(d, t) : ~b.track[i].open /\ b.track[i].closer = e
      /\ \A i \in Tracks(d) : b.track[i].char = d.track[i].char
  <2>1. Closes(d, t) \in SUBSET Tracks(d) /\ e \in Events \cup {NoOne}
    BY <1>2
  <2>0. EndsTo(b, d, Closes(d, t), e)
    BY DEF EndsTo
  <2> HIDE DEF N, R, H, c
  <2> HIDE DEF b
  <2> QED
    BY <2>0, <2>1, EndedIs
<1>4. Credited(d, e, t, pulls) = c
  <2>1. b \in Database
    BY <1>3 DEF Good
  <2>2. Credited(d, e, t, pulls) = [b EXCEPT !.rows = @ \cup N]
    BY DEF Credited
  <2> HIDE DEF b, N
  <2> QED
    BY <1>3, <2>1, <2>2 DEF Database
<1> HIDE DEF b
<1>5. R \subseteq Events \X Ids /\ H \subseteq Events \X Chars
  BY <1>1, <1>2, Rows
<1>6. /\ c \in Database /\ Keeps(c, b) /\ OneOpenIn(c) /\ c.track = b.track
      /\ c.rows = R /\ c.here = H
  <2>1. b \in Database
    BY <1>3 DEF Good
  <2>2. /\ c \in Database /\ c.event = b.event /\ c.track = b.track
        /\ c.rows = R /\ c.here = H
    <3> HIDE DEF R, H
    <3> QED
      BY <1>3, <1>5, <2>1 DEF Database
  <2> HIDE DEF c, R, H
  <2> QED
    BY <1>3, <2>2, ListIs
<1> HIDE DEF c
<1>7. /\ \A r \in N : r[1] = e /\ r[2] \in Open(d) /\ ~Attends(d, e, d.track[r[2]].char) /\ r = <<e, r[2]>>
      /\ \A r \in d.rows : r = <<r[1], r[2]>> /\ r[2] \in Tracks(d)
  <2>1. ASSUME NEW r \in N
        PROVE  r[1] = e /\ r[2] \in Open(d) /\ ~Attends(d, e, d.track[r[2]].char) /\ r = <<e, r[2]>>
    <3>1. PICK i \in Credits(d, t, pulls) : r = <<e, i>> /\ ~Attends(d, e, d.track[i].char)
      BY <2>1
    <3>2. r[1] = e /\ r[2] = i
      BY <3>1
    <3> QED
      BY <3>1, <3>2, <1>2
  <2> HIDE DEF N
  <2>2. \A r \in d.rows : r = <<r[1], r[2]>>
    BY <1>1, Rows
  <2>3. \A r \in d.rows : r[2] \in Tracks(d)
    BY DEF Good, OneCreditIn
  <2> QED
    BY <2>1, <2>2, <2>3
<1>8. OneCreditIn(c)
  <2> HIDE DEF N
  <2>1. /\ c.event = d.event /\ Tracks(c) = Tracks(d)
        /\ \A i \in Tracks(d) : c.track[i].char = d.track[i].char
    BY <1>3, <1>6 DEF Keeps, SamePaid
  <2>2. \A h \in c.here : c.event[h[1]] # NoEvent
    BY <1>3, <1>6 DEF Good, OneCreditIn, Keeps, SamePaid
  <2>3. ASSUME NEW r \in c.rows
        PROVE  /\ r[2] \in Tracks(c) /\ c.event[r[1]] # NoEvent
               /\ <<r[1], c.track[r[2]].char>> \notin c.here
    <3>1. CASE r \in d.rows
      BY <3>1, <2>1, <1>3, <1>6 DEF Good, OneCreditIn, Keeps, SamePaid
    <3>2. CASE r \in N
      BY <3>2, <2>1, <1>1, <1>3, <1>6, <1>7, Rows DEF Attends, Keeps, SamePaid
    <3> QED
      BY <3>1, <3>2, <1>6
  <2>4. ASSUME NEW r \in c.rows, NEW s \in c.rows, r[1] = s[1], c.track[r[2]].char = c.track[s[2]].char
        PROVE  r = s
    <3>0. d.track[r[2]].char = d.track[s[2]].char
      BY <2>1, <2>3, <2>4
    <3>1. CASE r \in d.rows /\ s \in d.rows
      BY <3>0, <3>1, <2>4 DEF Good, OneCreditIn
    <3>2. CASE r \in N /\ s \in N
      BY <3>0, <3>2, <1>7 DEF Good, OneOpenIn
    <3>3. CASE r \in N /\ s \in d.rows
      BY <3>0, <3>3, <2>4, <1>7 DEF Attends
    <3>4. CASE r \in d.rows /\ s \in N
      BY <3>0, <3>4, <2>4, <1>7 DEF Attends
    <3> QED
      BY <3>1, <3>2, <3>3, <3>4, <1>6
  <2> QED
    BY <2>2, <2>3, <2>4 DEF OneCreditIn
<1>9. ASSUME t # Quake, NEW i \in On(d, {t})
      PROVE  /\ ~c.track[i].open /\ c.track[i].closer = e
             /\ ~Attends(d, e, d.track[i].char) => <<e, i>> \in c.rows
  <2>1. i \in Closes(d, t) /\ i \in Credits(d, t, pulls)
    BY <1>9 DEF Closes, Credits
  <2> QED
    BY <1>3, <1>6, <2>1
<1> QED
  BY <1>3, <1>4, <1>6, <1>8, <1>9 DEF Good, Keeps, SamePaid

-----------------------------------------------------------------------------
(* What a step leaves of the invariant, by what it does to the database *)

Payments == SubmissionKnows /\ PaymentsPending /\ ReadOnce /\ AdjustedOnce

Base == TypeOK /\ LockHeld /\ Good(db) /\ Good(work)

EventsKnow == EventsPending /\ HandlerKnows /\ PostKnows

IInv == Base /\ EventsKnow /\ ClaimsApart /\ Payments

LEMMA IInvIs == IInv <=> TrackInv /\ AdjustedOnce
<1>1. TypeOK => (OneOpen /\ OneCredit <=> Good(db) /\ Good(work))
  BY DEF TypeOK, OneOpen, OneCredit, Good, OneOpenIn, OneCreditIn
<1> QED
  BY <1>1 DEF IInv, Base, TrackInv, Payments, EventsKnow

LEMMA ViewIs ==
  ASSUME NothingPending, NEW f \in Flows, MayWrite(f)
  PROVE  View(f) = work
BY Constants DEF NothingPending, MayWrite, View

LEMMA FlowSet ==
  ASSUME flow \in [Flows -> Handler], NEW f \in Flows, NEW h \in Handler,
         flow' = [flow EXCEPT ![f] = h]
  PROVE  /\ flow' \in [Flows -> Handler] /\ flow'[f] = h
         /\ \A g \in Flows : g # f => flow'[g] = flow[g]
OBVIOUS

LEMMA IdleIs == Idle \in Handler /\ Idle.pc = "idle"
<1>1. [i \in {} |-> NoOne] \in [{} -> Chars \X Rates]
  OBVIOUS
<1>2. {} \in SUBSET Ids
  OBVIOUS
<1>3. [i \in {} |-> NoOne] \in Reading
  BY <1>1, <1>2 DEF Reading
<1> QED
  BY <1>3, Constants DEF Idle, Handler

\* Events: nobody but f has changed anything, and f has not to do with events.
LEMMA EventsStay ==
  ASSUME EventsKnow, TypeOK, LockHeld, LockHeld', NEW f \in Flows,
         \A g \in Flows : g # f => flow'[g] = flow[g],
         flow'[f].pc \notin {"retarget", "post"},
         flow[f].pc \in {"retarget", "post"} => lock # f /\ UNCHANGED session,
         flow'[f].pc = "channel" => flow'[f].target \in Targets \cup {Quake},
         \/ UNCHANGED session
         \/ /\ MayWrite(f)
            /\ \/ db'.event = work.event /\ work' = db'
               \/ db' = db /\ work'.event = work.event /\ lock' = f
               \/ db' = db /\ work' = db
  PROVE  EventsKnow'
<1>1. \A g \in Flows : flow'[g].pc \in {"retarget", "post"} => g # f /\ flow'[g] = flow[g]
  OBVIOUS
<1>0. \A g \in Flows : Creating(g)' => flow'[g].target \in Targets \cup {Quake}
  BY DEF EventsKnow, HandlerKnows, Creating
<1>2. CASE UNCHANGED session
  <2>1. db' = db /\ work' = work /\ lock' = lock
    BY <1>2 DEF session
  <2>2. ASSUME NEW e \in Events, work.event[e] # db.event[e] PROVE lock \in Flows /\ lock # f
    BY <2>2 DEF EventsKnow, EventsPending, LockHeld, NothingPending, TypeOK
  <2>3. ASSUME NEW e \in Events, work.event[e] # db.event[e]
        PROVE  flow'[lock] = flow[lock] /\ Request(lock)' = Request(lock)
    BY <2>1, <2>2, <2>3 DEF Request
  <2>4. EventsPending'
    BY <2>1, <2>3 DEF EventsKnow, EventsPending
  <2>5. HandlerKnows'
    BY <1>0, <1>1, <2>1 DEF EventsKnow, HandlerKnows, Made
  <2>6. PostKnows'
    BY <1>1, <2>1 DEF EventsKnow, PostKnows
  <2> QED
    BY <2>4, <2>5, <2>6 DEF EventsKnow
<1>3. CASE MayWrite(f) /\ ~UNCHANGED session
  <2>1. \A e \in Events : work.event[e] = db.event[e]
    BY <1>3 DEF EventsKnow, EventsPending, LockHeld, NothingPending, MayWrite
  <2>2. \A e \in Events : work'.event[e] = db'.event[e] /\ db'.event[e] = db.event[e]
    BY <1>3, <2>1
  <2>3. \A g \in Flows : flow[g].pc = "post" => g = f
    BY <1>3, Constants DEF LockHeld, MayWrite
  <2>4. \A g \in Flows : flow'[g].pc # "post"
    BY <1>1, <2>3
  <2>5. Made(db') = Made(db)
    BY <2>2 DEF Made
  <2>6. HandlerKnows'
    BY <1>0, <1>1, <2>5 DEF EventsKnow, HandlerKnows
  <2> QED
    BY <2>2, <2>4, <2>6 DEF EventsKnow, EventsPending, PostKnows
<1> QED
  BY <1>2, <1>3

LEMMA EventsAlone ==
  ASSUME EventsKnow, LockHeld, lock = NoOne, flow' = flow, Made(db) \subseteq Made(db'), work' = db'
  PROVE  EventsKnow'
<1>1. \A f \in Flows : flow[f].pc # "post"
  BY Constants DEF LockHeld
<1>2. HandlerKnows'
  BY DEF EventsKnow, HandlerKnows, Creating
<1> QED
  BY <1>1, <1>2 DEF EventsKnow, EventsPending, PostKnows

\* Claims.
LEMMA ClaimIs ==
  ASSUME NEW p
  PROVE  p \in Claims <=> \/ \E e \in Events : db.event[e] # NoEvent /\ p = db.event[e]
                          \/ \E e \in Events : work.event[e] # NoEvent /\ p = work.event[e]
                          \/ \E f \in Flows : Creating(f) /\ p = Request(f)
BY DEF Claims, Made

LEMMA RequestIs ==
  ASSUME NEW f \in Flows
  PROVE  /\ Request(f).target = flow[f].target /\ Request(f).at = flow[f].at
         /\ Request(f).cmd = flow[f].cmd /\ Request(f).rivals = flow[f].rivals
         /\ Request(f).moved = FALSE
BY DEF Request

LEMMA ClaimTypes ==
  ASSUME Base, NEW p \in Claims
  PROVE  p.cmd \in Nat /\ p.at \in 0 .. MaxClock /\ p.rivals \in SUBSET Nat /\ p.moved \in BOOLEAN
<1>1. CASE \E d \in {db, work} : \E e \in Events : d.event[e] # NoEvent /\ p = d.event[e]
  <2>1. p \in Event
    BY <1>1, Rows DEF Base, Good
  <2> QED
    BY <2>1 DEF Event
<1>2. CASE \E f \in Flows : Creating(f) /\ p = Request(f)
  <2>1. PICK f \in Flows : p = Request(f)
    BY <1>2
  <2>2. flow[f] \in Handler
    BY DEF Base, TypeOK
  <2> QED
    BY <2>1, <2>2, RequestIs DEF Handler
<1> QED
  BY <1>1, <1>2, ClaimIs

\* Nothing new, except that events may have moved to another target.
LEMMA ClaimsFrom ==
  ASSUME Base, ClaimsApart, commands' \in Nat, clock' \in Nat, commands <= commands', clock <= clock',
         \A p \in Claims' : \E q \in Claims :
            p.cmd = q.cmd /\ p.at = q.at /\ p.rivals = q.rivals /\ (p = q \/ p.moved),
         \A f \in Flows : Creating(f)' => Creating(f) /\ flow'[f].cmd = flow[f].cmd
  PROVE  ClaimsApart'
<1>1. commands \in Nat /\ clock \in Nat
  BY DEF Base, TypeOK
<1>2. ASSUME NEW p \in Claims' PROVE p.cmd < commands' /\ p.at <= clock'
  <2>1. PICK q \in Claims : p.cmd = q.cmd /\ p.at = q.at
    OBVIOUS
  <2>2. q.cmd \in Nat /\ q.at \in Nat /\ q.cmd < commands /\ q.at <= clock
    BY ClaimTypes, Constants DEF ClaimsApart
  <2> QED
    BY <1>1, <2>1, <2>2
<1>3. ASSUME NEW p \in Claims', NEW q \in Claims' PROVE Apart(p, q)
  <2>1. CASE p \in Claims /\ q \in Claims
    BY <2>1 DEF ClaimsApart
  <2>2. CASE p.moved \/ q.moved
    BY <2>2 DEF Apart
  <2> QED
    BY <2>1, <2>2
<1>4. ASSUME NEW f \in Flows, NEW p \in Claims', Creating(f)', flow'[f].cmd < p.cmd
      PROVE  flow'[f].cmd \in p.rivals
  <2>1. PICK q \in Claims : p.cmd = q.cmd /\ p.rivals = q.rivals
    OBVIOUS
  <2> QED
    BY <1>4, <2>1 DEF ClaimsApart
<1>5. Claims' = Claims'
  OBVIOUS
<1> QED
  BY <1>2, <1>3, <1>4 DEF ClaimsApart, Apart

LEMMA ClaimsStay ==
  ASSUME Base, ClaimsApart, commands' \in Nat, clock' \in Nat, commands <= commands', clock <= clock',
         \A e \in Events : /\ db'.event[e] \in {db.event[e], work.event[e]}
                           /\ work'.event[e] \in {db.event[e], work.event[e]},
         \A f \in Flows : Creating(f)' => Creating(f) /\ flow'[f] = flow[f]
  PROVE  ClaimsApart'
<1>1. \A f \in Flows : Creating(f)' => Request(f)' = Request(f)
  BY DEF Request
<1>2. ASSUME NEW p \in Claims' PROVE p \in Claims
  BY <1>1, <1>2, ClaimIs DEF Claims, Made
<1> QED
  BY <1>2, ClaimsFrom

\* Payments: no submission does anything.
LEMMA PaymentsStay ==
  ASSUME Payments, NothingPending, adjusted' = adjusted, excused' = excused,
         \A f \in Flows : Submitting(f)' <=> Submitting(f),
         \A f \in Flows : Submitting(f) => flow'[f] = flow[f],
         \/ UNCHANGED session
         \/ /\ \A f \in Flows : Submitting(f) => lock # f
            /\ lock \notin Flows => lock = NoOne
            /\ \/ SamePaid(db', work) /\ work' = db'
               \/ db' = db /\ SamePaid(work', work)
               \/ db' = db /\ work' = db
  PROVE  Payments'
<1>1. \A f \in Flows : Submitting(f) => PaidBy(f)' = PaidBy(f)
  BY DEF PaidBy
<1>2. Held' = Held
  <2>1. {f \in Flows : Submitting(f)}' = {f \in Flows : Submitting(f)}
    OBVIOUS
  <2>2. \A f \in {f \in Flows : Submitting(f)} : (DOMAIN flow[f].read)' = DOMAIN flow[f].read
    OBVIOUS
  <2> QED
    BY <2>1, <2>2 DEF Held
<1>3. CASE UNCHANGED session
  <2>1. db' = db /\ work' = work /\ lock' = lock
    BY <1>3 DEF session
  <2>2. SubmissionKnows'
    BY <1>1, <2>1 DEF Payments, SubmissionKnows
  <2>3. ASSUME NEW i \in Tracks(db), work.track[i].paid # db.track[i].paid
        PROVE  \E f \in Flows : lock = f /\ Submitting(f)' /\ i \in PaidBy(f)'
    BY <1>1, <2>3 DEF Payments, PaymentsPending
  <2>4. PaymentsPending'
    BY <1>2, <2>1, <2>3 DEF Payments, PaymentsPending
  <2>5. ReadOnce'
    BY <1>1, <2>1 DEF Payments, ReadOnce
  <2>6. AdjustedOnce'
    BY <1>1, <2>1 DEF Payments, AdjustedOnce
  <2> QED
    BY <2>2, <2>4, <2>5, <2>6 DEF Payments
<1>4. CASE ~UNCHANGED session
  <2>1. \A f \in Flows : Submitting(f) => PaidBy(f) \subseteq flow[f].dirty
    BY <1>4 DEF Payments, SubmissionKnows
  <2>2. /\ Tracks(db) \subseteq Tracks(work)
        /\ \A i \in Tracks(db) : work.track[i].paid = db.track[i].paid
    BY <1>4 DEF Payments, PaymentsPending, NothingPending
  <2>3. SubmissionKnows'
    BY <1>1, <2>1 DEF Payments, SubmissionKnows
  <2>4. /\ Tracks(db') \subseteq Tracks(work') /\ Tracks(work') \subseteq Tracks(work)
        /\ Tracks(db) \subseteq Tracks(db') /\ Tracks(db') \subseteq Tracks(work)
        /\ \A i \in Tracks(db') : /\ db'.track[i].paid = work.track[i].paid
                                 /\ work'.track[i].paid = work.track[i].paid
        /\ \A i \in Tracks(work') : work'.track[i].paid = work.track[i].paid
    BY <1>4, <2>2 DEF Keeps, SamePaid
  <2>5. \A i \in Tracks(work') \ Tracks(db') : i \notin excused =>
            ~work'.track[i].paid /\ adjusted[i] = 0 /\ i \notin Held
    BY <2>4 DEF Payments, PaymentsPending
  <2>6. PaymentsPending'
    BY <1>2, <2>4, <2>5 DEF PaymentsPending
  <2>7. ASSUME NEW i \in Tracks(db'), i \notin Tracks(db), i \notin excused
        PROVE  ~db'.track[i].paid /\ adjusted[i] = 0 /\ i \notin Held
    BY <2>4, <2>7 DEF Payments, PaymentsPending
  <2>8. ReadOnce'
    <3>1. SUFFICES ASSUME NEW i \in Tracks(db') \ excused, NEW f \in Flows, Submitting(f),
                          i \in DOMAIN flow[f].read
                   PROVE  /\ \A g \in Flows : Submitting(g) /\ i \in DOMAIN flow[g].read => f = g
                          /\ ~db'.track[i].paid
                          /\ adjusted[i] = IF i \in PaidBy(f) THEN 1 ELSE 0
      BY <1>1 DEF ReadOnce
    <3>2. i \in Held
      BY <3>1 DEF Held
    <3>3. i \in Tracks(db)
      BY <2>7, <3>2
    <3> QED
      BY <2>2, <2>4, <3>1, <3>3 DEF Payments, ReadOnce
  <2>9. AdjustedOnce'
    <3>1. SUFFICES ASSUME NEW i \in Tracks(db') \ excused,
                          \A f \in Flows : Submitting(f) => i \notin DOMAIN flow[f].read
                   PROVE  adjusted[i] = IF db'.track[i].paid THEN 1 ELSE 0
      BY DEF AdjustedOnce
    <3>2. CASE i \in Tracks(db)
      BY <2>2, <2>4, <3>1, <3>2 DEF Payments, AdjustedOnce
    <3>3. CASE i \notin Tracks(db)
      BY <2>7, <3>3
    <3> QED
      BY <3>2, <3>3
  <2> QED
    BY <2>3, <2>6, <2>8, <2>9 DEF Payments
<1> QED
  BY <1>3, <1>4

-----------------------------------------------------------------------------
(* The invariant: one lemma per action *)

LEMMA CommandKeeps ==
  ASSUME IInv, NEW d, Good(d), Keeps(d, db), Command(d), UNCHANGED clock, commands' = commands + 1
  PROVE  IInv'
<1>1. /\ lock = NoOne /\ lock' = NoOne /\ db' = d /\ work' = d /\ work = db
      /\ flow' = flow /\ adjusted' = adjusted /\ excused' = excused
  BY DEF IInv, Base, LockHeld, NothingPending, Command, Alone, Commit
<1>2. TypeOK'
  BY <1>1 DEF IInv, Base, TypeOK, Good
<1>3. LockHeld'
  BY <1>1, Constants DEF IInv, Base, LockHeld, NothingPending
<1>4. Good(db') /\ Good(work')
  BY <1>1
<1>5. EventsKnow'
  <2>1. Made(db) \subseteq Made(db')
    BY <1>1 DEF Keeps, SamePaid, Made
  <2> QED
    BY <1>1, <2>1, EventsAlone DEF IInv, Base
<1>6. ClaimsApart'
  <2>1. Base /\ commands' \in Nat /\ clock' \in Nat /\ commands <= commands' /\ clock <= clock'
    BY DEF IInv, Base, TypeOK
  <2>2. \A f \in Flows : Creating(f)' => Creating(f) /\ flow'[f] = flow[f]
    BY <1>1 DEF Creating
  <2> QED
    BY <1>1, <2>1, <2>2, ClaimsStay DEF IInv, Keeps, SamePaid
<1>7. Payments'
  <2>1. \A f \in Flows : Submitting(f)' <=> Submitting(f)
    BY <1>1 DEF Submitting
  <2> QED
    BY <1>1, <2>1, Constants, PaymentsStay DEF IInv, Base, LockHeld, Keeps
<1> QED
  BY <1>2, <1>3, <1>4, <1>5, <1>6, <1>7 DEF IInv, Base

LEMMA StopKeeps ==
  ASSUME IInv, NEW c \in Chars, NEW t \in Targets, Stop(c, t), UNCHANGED clock, commands' = commands + 1
  PROVE  IInv'
<1>1. PICK i \in On(db, {t}) : Command(Ended(db, {i}, NoOne))
  BY DEF Stop
<1>2. {i} \in SUBSET Tracks(db)
  BY <1>1, Rows DEF IInv, Base, Good, On
<1>3. Good(Ended(db, {i}, NoOne)) /\ Keeps(Ended(db, {i}, NoOne), db)
  <2>1. EndsTo(Ended(db, {i}, NoOne), db, {i}, NoOne)
    BY DEF EndsTo
  <2> QED
    BY <1>2, <2>1, EndedIs DEF IInv, Base
<1> QED
  BY <1>1, <1>3, CommandKeeps

LEMMA StopButtonKeeps ==
  ASSUME IInv, NEW i \in Ids, StopButton(i), UNCHANGED clock, commands' = commands + 1
  PROVE  IInv'
<1>1. i \in Open(db) /\ Command(Ended(db, {i}, NoOne))
  BY DEF StopButton
<1>2. {i} \in SUBSET Tracks(db)
  BY <1>1, Rows DEF IInv, Base, Good
<1>3. Good(Ended(db, {i}, NoOne)) /\ Keeps(Ended(db, {i}, NoOne), db)
  <2>1. EndsTo(Ended(db, {i}, NoOne), db, {i}, NoOne)
    BY DEF EndsTo
  <2> QED
    BY <1>2, <2>1, EndedIs DEF IInv, Base
<1> QED
  BY <1>1, <1>3, CommandKeeps

LEMMA ClearRteKeeps ==
  ASSUME IInv, NEW t \in Targets, ClearRte(t), UNCHANGED clock, commands' = commands + 1
  PROVE  IInv'
<1> DEFINE S == On(db, {t})
           d == [db EXCEPT !.track = [i \in Ids |-> IF i \in S THEN [@[i] EXCEPT !.open = FALSE] ELSE @[i]]]
<1>1. Command(d)
  BY DEF ClearRte
<1>2. S \in SUBSET Tracks(db)
  BY Rows DEF IInv, Base, Good, On
<1>3. Good(d) /\ Keeps(d, db)
  <2> HIDE DEF S
  <2> QED
    BY <1>2, ClearedIs DEF IInv, Base
<1> HIDE DEF d
<1> QED
  BY <1>1, <1>3, CommandKeeps

LEMMA AttendKeeps ==
  ASSUME IInv, NEW e \in Events, NEW c \in Chars, Attend(e, c), UNCHANGED clock, commands' = commands + 1
  PROVE  IInv'
<1> DEFINE d == [db EXCEPT !.here = @ \cup {<<e, c>>}]
<1>1. Command(d) /\ db.event[e] # NoEvent /\ ~Attends(db, e, c)
  BY DEF Attend
<1>2. Good(d) /\ Keeps(d, db)
  BY <1>1, AttendIs DEF IInv, Base
<1> HIDE DEF d
<1> QED
  BY <1>1, <1>2, CommandKeeps

LEMMA LeaveKeeps ==
  ASSUME IInv, NEW e \in Events, NEW c \in Chars, Leave(e, c), UNCHANGED clock, commands' = commands + 1
  PROVE  IInv'
<1> DEFINE d == [db EXCEPT !.here = @ \ {<<e, c>>},
                           !.rows = {r \in @ : r[1] = e => db.track[r[2]].char # c}]
<1>1. Command(d)
  BY DEF Leave
<1>2. Good(d) /\ Keeps(d, db)
  BY LeaveIs DEF IInv, Base
<1> HIDE DEF d
<1> QED
  BY <1>1, <1>2, CommandKeeps

LEMMA DeleteKeeps ==
  ASSUME IInv, NEW i \in Ids, Delete(i), UNCHANGED clock, commands' = commands + 1
  PROVE  IInv'
<1> DEFINE d == [db EXCEPT !.track[i] = NoTrack, !.rows = {r \in @ : r[2] # i}]
<1>1. /\ lock = NoOne /\ lock' = NoOne /\ db' = d /\ work' = d /\ work = db
      /\ i \in Tracks(db) /\ flow' = flow
      /\ adjusted' = [adjusted EXCEPT ![i] = 0] /\ excused' = excused \ {i}
  BY DEF IInv, Base, LockHeld, NothingPending, Delete, Alone, Commit
<1>2. /\ Good(d) /\ d.event = db.event /\ Tracks(d) = Tracks(db) \ {i}
      /\ \A j \in Tracks(d) : d.track[j] = db.track[j]
  BY <1>1, DeletedIs DEF IInv, Base
<1> HIDE DEF d
<1>3. TypeOK'
  BY <1>1, <1>2 DEF IInv, Base, TypeOK, Good
<1>4. LockHeld'
  BY <1>1, Constants DEF IInv, Base, LockHeld, NothingPending
<1>5. EventsKnow'
  <2>1. Made(db) \subseteq Made(db')
    BY <1>1, <1>2 DEF Made
  <2> QED
    BY <1>1, <2>1, EventsAlone DEF IInv, Base
<1>6. ClaimsApart'
  <2>1. Base /\ commands' \in Nat /\ clock' \in Nat /\ commands <= commands' /\ clock <= clock'
    BY DEF IInv, Base, TypeOK
  <2>2. \A f \in Flows : Creating(f)' => Creating(f) /\ flow'[f] = flow[f]
    BY <1>1 DEF Creating
  <2> QED
    BY <1>1, <1>2, <2>1, <2>2, ClaimsStay DEF IInv
<1>7. Payments'
  <2>1. \A f \in Flows : (Submitting(f)' <=> Submitting(f)) /\ PaidBy(f)' = PaidBy(f)
    BY <1>1 DEF Submitting, PaidBy
  <2>2. SubmissionKnows'
    BY <1>1, <2>1, Constants DEF IInv, Payments, SubmissionKnows
  <2>3. PaymentsPending'
    BY <1>1 DEF PaymentsPending
  <2>4. \A j \in Tracks(db') \ excused' :
           /\ j \in Tracks(db) \ excused /\ db'.track[j] = db.track[j] /\ adjusted'[j] = adjusted[j]
    BY <1>1, <1>2, Rows DEF IInv, Base, TypeOK
  <2>5. ReadOnce' /\ AdjustedOnce'
    BY <1>1, <2>1, <2>4 DEF IInv, Payments, ReadOnce, AdjustedOnce
  <2> QED
    BY <2>2, <2>3, <2>5 DEF Payments
<1> QED
  BY <1>1, <1>2, <1>3, <1>4, <1>5, <1>6, <1>7 DEF IInv, Base

LEMMA SameSubmissions ==
  ASSUME \A f \in Flows : Submitting(f)' <=> Submitting(f),
         \A f \in Flows : Submitting(f) => flow'[f] = flow[f]
  PROVE  /\ Held' = Held
         /\ \A f \in Flows : Submitting(f) => PaidBy(f)' = PaidBy(f)
<1>1. {f \in Flows : Submitting(f)}' = {f \in Flows : Submitting(f)}
  OBVIOUS
<1>2. \A f \in {f \in Flows : Submitting(f)} : (DOMAIN flow[f].read)' = DOMAIN flow[f].read
  OBVIOUS
<1>3. Held' = Held
  BY <1>1, <1>2 DEF Held
<1> QED
  BY <1>3 DEF PaidBy

LEMMA StartKeeps ==
  ASSUME IInv, NEW f \in Flows, NEW c \in Chars, NEW t \in Targets, NEW rate \in Rates,
         Start(f, c, t, rate), UNCHANGED clock, commands' = commands + 1
  PROVE  IInv'
<1> DEFINE k == [char |-> c, target |-> t, rate |-> rate, open |-> TRUE, closer |-> NoOne,
                 paid |-> FALSE]
<1>1. PICK i \in NextIds(db) :
        /\ Write(f, [db EXCEPT !.track[i] = k])
        /\ flow' = [flow EXCEPT ![f] = [Idle EXCEPT !.pc = "announce", !.id = i]]
        /\ adjusted' = [adjusted EXCEPT ![i] = 0]
        /\ excused' = IF i \in Held THEN excused \cup {i} ELSE excused \ {i}
  BY DEF Start
<1> DEFINE d == [db EXCEPT !.track[i] = k]
           h == [Idle EXCEPT !.pc = "announce", !.id = i]
<1>2. k \in Track /\ k.char = c /\ ~k.paid
  BY DEF Track
<1>3. /\ lock = NoOne /\ work = db /\ lock' = f /\ work' = d /\ db' = db
      /\ flow[f].pc = "idle" /\ Free(db, c)
  BY <1>1 DEF IInv, Base, LockHeld, NothingPending, Start, Write
<1>4. /\ Good(d) /\ d.event = db.event /\ i \in Ids \ Tracks(db) /\ Tracks(d) = Tracks(db) \cup {i}
      /\ d.track = [db.track EXCEPT ![i] = k]
  <2> HIDE DEF k
  <2> QED
    BY <1>2, <1>3, StartedIs DEF IInv, Base
<1>5. \A j \in Tracks(db) : d.track[j] = db.track[j] /\ j # i
  BY <1>4, Rows DEF IInv, Base, Good
<1>6. d.track[i] = k
  BY <1>4, Rows DEF IInv, Base, Good
<1>7. h \in Handler /\ h.pc = "announce"
  <2>1. i \in Nat
    BY <1>4, Constants DEF Ids
  <2> QED
    BY <2>1, IdleIs DEF Handler
<1>8. /\ flow' \in [Flows -> Handler] /\ flow'[f].pc = "announce"
      /\ \A g \in Flows : g # f => flow'[g] = flow[g]
  <2>1. flow' = [flow EXCEPT ![f] = h]
    BY <1>1
  <2> HIDE DEF h
  <2> QED
    BY <2>1, <1>7, FlowSet DEF IInv, Base, TypeOK
<1> HIDE DEF h, d, k
<1>9. TypeOK'
  <2>1. adjusted' \in [Ids -> Nat] /\ excused' \subseteq Ids
    BY <1>1, <1>4 DEF IInv, Base, TypeOK
  <2> QED
    BY <1>3, <1>4, <1>8, <2>1 DEF IInv, Base, TypeOK, Good
<1>10. LockHeld'
  BY <1>3, <1>8, Constants DEF IInv, Base, LockHeld, NothingPending
<1>11. EventsKnow'
  BY <1>3, <1>4, <1>8, <1>10, EventsStay DEF IInv, Base, MayWrite
<1>12. ClaimsApart'
  <2>1. Base /\ commands' \in Nat /\ clock' \in Nat /\ commands <= commands' /\ clock <= clock'
    BY DEF IInv, Base, TypeOK
  <2>2. \A g \in Flows : Creating(g)' => Creating(g) /\ flow'[g] = flow[g]
    BY <1>8 DEF Creating
  <2> QED
    BY <1>3, <1>4, <2>1, <2>2, ClaimsStay DEF IInv
<1>13. Payments'
  <2>1. /\ \A g \in Flows : Submitting(g)' <=> Submitting(g)
        /\ \A g \in Flows : Submitting(g) => flow'[g] = flow[g]
    BY <1>3, <1>8 DEF Submitting
  <2>2. /\ Held' = Held
        /\ \A g \in Flows : Submitting(g) => PaidBy(g)' = PaidBy(g)
    BY <2>1, SameSubmissions
  <2>3. SubmissionKnows'
    BY <1>3, <2>1, <2>2, Constants DEF IInv, Payments, SubmissionKnows
  <2>4. adjusted'[i] = 0 /\ \A j \in Tracks(db) : adjusted'[j] = adjusted[j]
    BY <1>1, <1>4, <1>5, Rows DEF IInv, Base, TypeOK, Good
  <2>5. PaymentsPending'
    BY <1>1, <1>2, <1>3, <1>4, <1>5, <1>6, <2>2, <2>4 DEF PaymentsPending
  <2>6. \A j \in Tracks(db) : j \notin excused' => j \notin excused
    BY <1>1, <1>5
  <2>7. ReadOnce'
    BY <1>3, <2>1, <2>2, <2>4, <2>6 DEF IInv, Payments, ReadOnce
  <2>8. AdjustedOnce'
    BY <1>3, <2>1, <2>4, <2>6 DEF IInv, Payments, AdjustedOnce
  <2> QED
    BY <2>3, <2>5, <2>7, <2>8 DEF Payments
<1> QED
  BY <1>3, <1>4, <1>9, <1>10, <1>11, <1>12, <1>13 DEF IInv, Base

\* A handler that was idle or only announced ends.
LEMMA AnnounceKeeps ==
  ASSUME IInv, NEW f \in Flows, flow[f].pc = "announce", Commit(work) \/ Close(f), Ends(f), Quiet,
         UNCHANGED <<clock, commands>>
  PROVE  IInv'
<1>1. /\ lock = f /\ lock' = NoOne
      /\ \/ db' = work /\ work' = work
         \/ db' = db /\ work' = db
  BY DEF IInv, Base, LockHeld, Commit, Close
<1>2. /\ flow' \in [Flows -> Handler] /\ flow'[f] = Idle
      /\ \A g \in Flows : g # f => flow'[g] = flow[g]
  BY IdleIs, FlowSet DEF IInv, Base, TypeOK, Ends
<1>3. TypeOK'
  BY <1>1, <1>2 DEF IInv, Base, TypeOK, Quiet
<1>4. LockHeld'
  BY <1>1, <1>2, IdleIs, Constants DEF IInv, Base, LockHeld, NothingPending
<1>5. EventsKnow'
  BY <1>1, <1>2, <1>4, IdleIs, EventsStay DEF IInv, Base, MayWrite
<1>6. ClaimsApart'
  <2>1. Base /\ commands' \in Nat /\ clock' \in Nat /\ commands <= commands' /\ clock <= clock'
    BY DEF IInv, Base, TypeOK
  <2>2. \A g \in Flows : Creating(g)' => Creating(g) /\ flow'[g] = flow[g]
    BY <1>2, IdleIs DEF Creating
  <2> QED
    BY <1>1, <2>1, <2>2, ClaimsStay DEF IInv
<1>7. Payments'
  <2>1. \A g \in Flows : Submitting(g)' <=> Submitting(g)
    BY <1>2, IdleIs DEF Submitting
  <2>2. \A g \in Flows : Submitting(g) => flow'[g] = flow[g] /\ lock # g
    BY <1>1, <1>2 DEF Submitting
  <2>3. \/ SamePaid(db', work) /\ work' = db'
        \/ db' = db /\ work' = db
    <3>1. SamePaid(work, work)
      BY DEF Keeps, SamePaid
    <3> QED
      BY <1>1, <3>1
  <2> QED
    BY <1>1, <2>1, <2>2, <2>3, PaymentsStay DEF IInv, Base, LockHeld, Quiet
<1> QED
  BY <1>1, <1>3, <1>4, <1>5, <1>6, <1>7 DEF IInv, Base

\* Time goes on, or nothing does.
LEMMA TickKeeps ==
  ASSUME IInv, UNCHANGED <<session, flow, commands, adjusted, excused>>,
         clock' \in 0 .. MaxClock, clock <= clock'
  PROVE  IInv'
<1>1. /\ db' = db /\ work' = work /\ lock' = lock /\ flow' = flow
      /\ adjusted' = adjusted /\ excused' = excused /\ commands' = commands
  BY DEF session
<1>2. TypeOK'
  BY <1>1 DEF IInv, Base, TypeOK
<1>3. LockHeld'
  BY <1>1 DEF IInv, Base, LockHeld, NothingPending
<1>4. EventsKnow'
  BY <1>1 DEF IInv, EventsKnow, EventsPending, HandlerKnows, PostKnows, Request, Creating
<1>5. ClaimsApart'
  <2>1. Base /\ commands' \in Nat /\ clock' \in Nat /\ commands <= commands' /\ clock <= clock'
    BY <1>1, Constants DEF IInv, Base, TypeOK
  <2>2. \A g \in Flows : Creating(g)' => Creating(g) /\ flow'[g] = flow[g]
    BY <1>1 DEF Creating
  <2> QED
    BY <1>1, <2>1, <2>2, ClaimsStay DEF IInv
<1>6. Payments'
  <2>1. \A f \in Flows : (Submitting(f)' <=> Submitting(f)) /\ flow'[f] = flow[f]
    BY <1>1 DEF Submitting
  <2> QED
    BY <1>1, <2>1, PaymentsStay DEF IInv, Base, LockHeld, session
<1> QED
  BY <1>1, <1>2, <1>3, <1>4, <1>5, <1>6 DEF IInv, Base

LEMMA CrashKeeps ==
  ASSUME IInv, Crash
  PROVE  IInv'
<1>1. /\ db' = db /\ work' = db /\ lock' = NoOne /\ \A f \in Flows : flow'[f] = Idle
      /\ adjusted' = adjusted /\ clock' = clock /\ commands' = commands
  BY DEF Crash, Lost
<1>2. \A f \in Flows : ~Submitting(f)' /\ ~Creating(f)' /\ flow'[f].pc = "idle"
  BY <1>1, IdleIs DEF Submitting, Creating
<1>3. excused \subseteq excused' /\ \A f \in Flows : Submitting(f) => PaidBy(f) \cap Tracks(db) \subseteq excused'
  BY DEF Crash
<1>4. TypeOK'
  <2>1. excused' \subseteq Ids
    BY Rows DEF IInv, Base, Good, TypeOK, Crash
  <2>2. flow' \in [Flows -> Handler]
    BY IdleIs DEF Crash
  <2> QED
    BY <1>1, <2>1, <2>2 DEF IInv, Base, TypeOK
<1>5. LockHeld'
  BY <1>1, <1>2 DEF LockHeld, NothingPending
<1>6. EventsKnow'
  BY <1>1, <1>2 DEF EventsKnow, EventsPending, HandlerKnows, PostKnows
<1>7. ClaimsApart'
  <2>1. Base /\ commands' \in Nat /\ clock' \in Nat /\ commands <= commands' /\ clock <= clock'
    BY <1>1 DEF IInv, Base, TypeOK
  <2> QED
    BY <1>1, <1>2, <2>1, ClaimsStay DEF IInv
<1>8. Payments'
  <2>1. SubmissionKnows' /\ ReadOnce'
    BY <1>2 DEF SubmissionKnows, ReadOnce
  <2>2. PaymentsPending'
    BY <1>1 DEF PaymentsPending
  <2>3. ASSUME NEW i \in Tracks(db) \ excused'
        PROVE  adjusted[i] = IF db.track[i].paid THEN 1 ELSE 0
    <3>1. i \in Tracks(db) \ excused
      BY <1>3
    <3>2. CASE \A f \in Flows : Submitting(f) => i \notin DOMAIN flow[f].read
      BY <3>1, <3>2 DEF IInv, Payments, AdjustedOnce
    <3>3. ASSUME NEW f \in Flows, Submitting(f), i \in DOMAIN flow[f].read
          PROVE  ~db.track[i].paid /\ adjusted[i] = 0
      BY <1>3, <3>1, <3>3 DEF IInv, Payments, ReadOnce
    <3> QED
      BY <3>2, <3>3
  <2>4. AdjustedOnce'
    BY <1>1, <2>3 DEF AdjustedOnce
  <2> QED
    BY <2>1, <2>2, <2>4 DEF Payments
<1> QED
  BY <1>1, <1>4, <1>5, <1>6, <1>7, <1>8 DEF IInv, Base

LEMMA InitGives == Init => IInv
<1> SUFFICES ASSUME Init PROVE IInv
  OBVIOUS
<1>1. /\ db \in Database /\ work = db /\ lock = NoOne /\ \A f \in Flows : flow[f] = Idle
      /\ clock = 0 /\ commands = 0 /\ adjusted = [i \in Ids |-> 0] /\ excused = {}
      /\ db.event = [e \in Events |-> NoEvent] /\ db.rows = {} /\ db.here = {}
  BY DEF Init, Sound
<1>2. \A f \in Flows : ~Submitting(f) /\ ~Creating(f) /\ flow[f].pc = "idle"
  BY <1>1, IdleIs DEF Submitting, Creating
<1>3. TypeOK
  <2>1. flow \in [Flows -> Handler]
    BY IdleIs DEF Init
  <2> QED
    BY <1>1, <2>1, Constants DEF TypeOK
<1>4. LockHeld
  BY <1>1, <1>2 DEF LockHeld, NothingPending
<1>5. Good(db)
  BY <1>1 DEF Good, OneOpenIn, OneCreditIn, Init, Sound
<1>6. EventsKnow
  BY <1>1, <1>2 DEF EventsKnow, EventsPending, HandlerKnows, PostKnows
<1>7. ClaimsApart
  BY <1>1, <1>2, ClaimIs DEF ClaimsApart
<1>8. Payments
  <2>1. SubmissionKnows /\ ReadOnce /\ PaymentsPending
    BY <1>1, <1>2 DEF SubmissionKnows, ReadOnce, PaymentsPending
  <2>2. AdjustedOnce
    BY <1>1, Rows DEF AdjustedOnce, Init, Sound
  <2> QED
    BY <2>1, <2>2 DEF Payments
<1> QED
  BY <1>1, <1>3, <1>4, <1>5, <1>6, <1>7, <1>8 DEF IInv, Base

\* Making events.
LEMMA CreateKeeps ==
  ASSUME IInv, NEW f \in Flows, NEW t \in Targets \cup {Quake}, Create(f, t), UNCHANGED clock,
         commands' = commands + 1
  PROVE  IInv'
<1> DEFINE R == {flow[g].cmd : g \in {g \in Flows : Creating(g)}}
           h == [Idle EXCEPT !.pc = "channel", !.target = t, !.parts = Parts[t] - 1,
                             !.at = clock, !.cmd = commands, !.rivals = R]
<1>1. /\ db' = db /\ work' = work /\ lock' = lock /\ adjusted' = adjusted /\ excused' = excused
      /\ flow[f].pc = "idle" /\ ~LockedOut(db, t) /\ flow' = [flow EXCEPT ![f] = h]
  BY DEF Create, session
<1>2. /\ h \in Handler /\ h.pc = "channel" /\ h.target = t /\ h.at = clock /\ h.cmd = commands
      /\ h.rivals = R
  <2>1. R \in SUBSET Nat
    BY DEF IInv, Base, TypeOK, Handler
  <2>2. Parts[t] - 1 \in Nat
    BY Constants
  <2>3. clock \in 0 .. MaxClock /\ commands \in Nat
    BY DEF IInv, Base, TypeOK
  <2> HIDE DEF R
  <2> QED
    BY <2>1, <2>2, <2>3, IdleIs DEF Handler
<1> HIDE DEF h
<1>3. /\ flow' \in [Flows -> Handler] /\ flow'[f] = h
      /\ \A g \in Flows : g # f => flow'[g] = flow[g]
  BY <1>1, <1>2, FlowSet DEF IInv, Base, TypeOK
<1>4. TypeOK'
  BY <1>1, <1>3 DEF IInv, Base, TypeOK
<1>5. LockHeld'
  BY <1>1, <1>2, <1>3 DEF IInv, Base, LockHeld, NothingPending
<1>6. EventsKnow'
  BY <1>1, <1>2, <1>3, <1>5, EventsStay DEF IInv, Base, session
<1>7. ClaimsApart'
  <2> DEFINE q0 == Request(f)'
  <2>1. /\ q0.target = t /\ q0.at = clock /\ q0.cmd = commands /\ q0.rivals = R /\ ~q0.moved
    BY <1>2, <1>3 DEF Request
  <2> HIDE DEF q0
  <2>2. /\ \A g \in Flows \ {f} : Creating(g)' => Creating(g) /\ Request(g)' = Request(g)
        /\ \A g \in Flows \ {f} : flow'[g].cmd = flow[g].cmd
    BY <1>3 DEF Creating, Request
  <2>3. ASSUME NEW p \in Claims' PROVE p = q0 \/ p \in Claims
    BY <1>1, <2>2, <2>3, ClaimIs DEF Claims, Made, q0
  <2>4. ASSUME NEW p \in Claims PROVE p.cmd \in Nat /\ p.cmd < commands /\ p.at <= clock
    BY <2>4, ClaimTypes DEF IInv, ClaimsApart
  <2>5. commands \in Nat /\ clock \in Nat
    BY DEF IInv, Base, TypeOK
  <2>6. ASSUME NEW p \in Claims, p.target = t, t # Quake, ~p.moved
        PROVE  p.at + Lockout < clock \/ p.cmd \in R
    <3>1. CASE \E e \in Events : db.event[e] # NoEvent /\ p = db.event[e]
      <4>1. ~(p.at + Lockout >= clock)
        BY <1>1, <2>6, <3>1 DEF LockedOut
      <4>2. p.at \in Nat
        BY ClaimTypes, Constants DEF IInv
      <4> QED
        BY <4>1, <4>2, <2>5, Constants
    <3>2. ASSUME NEW g \in Flows, Creating(g), p = Request(g) PROVE p.cmd \in R
      BY <3>2, RequestIs
    <3>3. ASSUME NEW e \in Events, p = work.event[e], work.event[e] # db.event[e] PROVE p.cmd \in R
      <4>1. CASE \E u \in Targets : p = [db.event[e] EXCEPT !.target = u, !.moved = TRUE] /\ db.event[e] # NoEvent
        <5>1. db.event[e] \in Event
          BY <4>1, Rows DEF IInv, Base, Good
        <5> QED
          BY <4>1, <5>1, <2>6 DEF Event
      <4>2. CASE flow[lock].pc = "post" /\ p = Request(lock)
        <5>1. lock \in Flows /\ Creating(lock)
          BY <3>3, <4>2 DEF IInv, Base, TypeOK, LockHeld, NothingPending, Creating
        <5> QED
          BY <4>2, <5>1, <3>2
      <4> QED
        BY <3>3, <4>1, <4>2 DEF IInv, EventsKnow, EventsPending
    <3>4. CASE \E e \in Events : work.event[e] # NoEvent /\ p = work.event[e]
      BY <3>1, <3>3, <3>4
    <3> QED
      BY <3>1, <3>2, <3>4, ClaimIs
  <2>7. ASSUME NEW p \in Claims' PROVE p.cmd < commands' /\ p.at <= clock'
    BY <1>1, <2>1, <2>3, <2>4, <2>5
  <2>8. ASSUME NEW p \in Claims', NEW q \in Claims' PROVE Apart(p, q)
    <3>1. CASE p \in Claims /\ q \in Claims
      BY <3>1 DEF IInv, ClaimsApart
    <3>2. CASE p = q0
      <4>1. ~(p.cmd < q.cmd)
        BY <2>1, <2>3, <2>4, <2>5, <3>2
      <4> QED
        BY <4>1 DEF Apart
    <3>3. CASE p \in Claims /\ q = q0
      BY <2>1, <2>6, <3>3 DEF Apart
    <3> QED
      BY <2>3, <3>1, <3>2, <3>3
  <2>9. ASSUME NEW g \in Flows, NEW q \in Claims', Creating(g)', flow'[g].cmd < q.cmd
        PROVE  flow'[g].cmd \in q.rivals
    <3>1. CASE g = f
      BY <1>2, <1>3, <2>1, <2>3, <2>4, <2>5, <2>9, <3>1
    <3>2. CASE g # f /\ q \in Claims
      BY <2>2, <2>9, <3>2 DEF IInv, ClaimsApart
    <3>3. CASE g # f /\ q = q0
      BY <2>1, <2>2, <2>9, <3>3
    <3> QED
      BY <2>3, <3>1, <3>2, <3>3
  <2> QED
    BY <2>7, <2>8, <2>9 DEF ClaimsApart, Apart
<1>8. Payments'
  <2>1. \A g \in Flows : Submitting(g)' <=> Submitting(g)
    BY <1>1, <1>2, <1>3 DEF Submitting
  <2>2. \A g \in Flows : Submitting(g) => flow'[g] = flow[g]
    BY <1>1, <1>3 DEF Submitting
  <2> QED
    BY <1>1, <2>1, <2>2, PaymentsStay DEF IInv, Base, LockHeld, session
<1> QED
  BY <1>1, <1>4, <1>5, <1>6, <1>7, <1>8 DEF IInv, Base

LEMMA RetargetKeeps ==
  ASSUME IInv, NEW f \in Flows, NEW e \in Events, NEW t \in Targets, Retarget(f, e, t),
         UNCHANGED clock, commands' = commands + 1
  PROVE  IInv'
<1> DEFINE h == [Idle EXCEPT !.pc = "retarget", !.event = e, !.target = t]
           x == [db.event[e] EXCEPT !.target = t, !.moved = TRUE]
           d == [db EXCEPT !.event[e] = x]
<1>1. /\ flow[f].pc = "idle" /\ db.event[e] # NoEvent /\ adjusted' = adjusted /\ excused' = excused
      /\ flow' = [flow EXCEPT ![f] = h] /\ lock # f
  BY Constants DEF Retarget, Quiet, IInv, Base, LockHeld
<1>2. h \in Handler /\ h.pc = "retarget" /\ h.event = e
  BY IdleIs DEF Handler
<1>3. db.event[e] \in Event /\ x \in Event /\ x.cmd = db.event[e].cmd /\ x.at = db.event[e].at
      /\ x.rivals = db.event[e].rivals /\ x.moved = TRUE
  <2>1. db.event[e] \in Event
    BY <1>1, Rows DEF IInv, Base, Good
  <2> QED
    BY <2>1 DEF Event
<1>4. \/ db' = db /\ work' = work /\ lock' = lock
      \/ lock = NoOne /\ work = db /\ db' = db /\ work' = d /\ lock' = f
  <2>1. CASE UNCHANGED session
    BY <2>1 DEF session
  <2>2. CASE lock = NoOne /\ Write(f, [db EXCEPT !.event[e].target = t, !.event[e].moved = TRUE])
    <3>1. [db EXCEPT !.event[e].target = t, !.event[e].moved = TRUE] = d
      BY <1>3 DEF Event, Database, IInv, Base, Good
    <3> QED
      BY <2>2, <3>1 DEF Write, IInv, Base, LockHeld, NothingPending
  <2> QED
    BY <2>1, <2>2 DEF Retarget
<1>5. Good(d) /\ d.event = [db.event EXCEPT ![e] = x] /\ SamePaid(d, db) /\ d.event[e] = x
  <2> HIDE DEF x
  <2>1. Good(d) /\ d.event = [db.event EXCEPT ![e] = x] /\ d.track = db.track /\ Tracks(d) = Tracks(db)
    BY <1>3, EventIs DEF IInv, Base
  <2> HIDE DEF d
  <2>2. d.event[e] = x
    BY <2>1, Rows DEF IInv, Base, Good
  <2> QED
    BY <2>1, <2>2 DEF SamePaid
<1>0. x = [db.event[e] EXCEPT !.target = t, !.moved = TRUE]
  OBVIOUS
<1> HIDE DEF h, d, x
<1>6. /\ flow' \in [Flows -> Handler] /\ flow'[f] = h
      /\ \A g \in Flows : g # f => flow'[g] = flow[g]
  BY <1>1, <1>2, FlowSet DEF IInv, Base, TypeOK
<1>7. TypeOK'
  BY <1>1, <1>4, <1>5, <1>6 DEF IInv, Base, TypeOK, Good
<1>8. LockHeld'
  BY <1>1, <1>2, <1>4, <1>6, Constants DEF IInv, Base, LockHeld, NothingPending
<1>9. HandlerKnows'
  BY <1>1, <1>2, <1>4, <1>6 DEF IInv, EventsKnow, HandlerKnows, Made, Creating
<1>10. ASSUME db' = db, work' = work, lock' = lock PROVE EventsKnow'
  <2>1. ASSUME NEW a \in Events, work.event[a] # db.event[a]
        PROVE  flow'[lock] = flow[lock] /\ Request(lock)' = Request(lock)
    <3>1. lock \in Flows /\ lock # f
      BY <1>1, <2>1 DEF IInv, Base, TypeOK, LockHeld, NothingPending
    <3> QED
      BY <1>6, <1>10, <3>1 DEF Request
  <2>2. EventsPending'
    BY <1>10, <2>1 DEF IInv, EventsKnow, EventsPending
  <2>4. \A g \in Flows : flow'[g].pc = "post" => flow'[g] = flow[g]
    BY <1>2, <1>6
  <2>3. PostKnows'
    BY <1>10, <2>4 DEF IInv, EventsKnow, PostKnows
  <2> QED
    BY <1>9, <2>2, <2>3 DEF EventsKnow
<1>11. ASSUME lock = NoOne, work = db, db' = db, work' = d, lock' = f PROVE EventsKnow'
  <2>1. \A a \in Events : work'.event[a] # db'.event[a] => a = e
    BY <1>5, <1>11, Rows DEF IInv, Base, Good
  <2>2. EventsPending'
    <3>1. flow'[lock'].pc = "retarget" /\ db'.event[e] # NoEvent
      BY <1>1, <1>2, <1>6, <1>11
    <3>2. \E u \in Targets : work'.event[e] = [db'.event[e] EXCEPT !.target = u, !.moved = TRUE]
      BY <1>0, <1>5, <1>11
    <3> QED
      BY <2>1, <3>1, <3>2 DEF EventsPending
  <2>3. \A g \in Flows : flow[g].pc # "post"
    BY <1>11, Constants DEF IInv, Base, LockHeld
  <2>4. \A g \in Flows : flow'[g].pc # "post"
    BY <1>2, <1>6, <2>3
  <2>5. PostKnows'
    BY <2>4 DEF PostKnows
  <2> QED
    BY <1>9, <2>2, <2>5 DEF EventsKnow
<1>12. ClaimsApart'
  <2>1. Base /\ commands' \in Nat /\ clock' \in Nat /\ commands <= commands' /\ clock <= clock'
    BY DEF IInv, Base, TypeOK
  <2>2. \A g \in Flows : Creating(g)' => Creating(g) /\ flow'[g] = flow[g]
    BY <1>2, <1>6 DEF Creating
  <2>3. \A a \in Events : work'.event[a] \in {work.event[a], db.event[a]} \/ (a = e /\ work'.event[a] = x)
    BY <1>4, <1>5, Rows DEF IInv, Base, Good
  <2>4. \A g \in Flows : Creating(g)' => Request(g)' = Request(g)
    BY <2>2 DEF Request
  <2>5. ASSUME NEW p \in Claims'
        PROVE  p \in Claims \/ p = x
    BY <1>4, <2>2, <2>3, <2>4, <2>5, ClaimIs DEF Claims, Made
  <2>6. db.event[e] \in Claims
    BY <1>1, ClaimIs
  <2>7. \A p \in Claims' : \E q \in Claims :
            p.cmd = q.cmd /\ p.at = q.at /\ p.rivals = q.rivals /\ (p = q \/ p.moved)
    BY <1>3, <2>5, <2>6
  <2> QED
    BY <2>1, <2>2, <2>7, ClaimsFrom DEF IInv
<1>13. Payments'
  <2>1. \A g \in Flows : Submitting(g)' <=> Submitting(g)
    BY <1>1, <1>2, <1>6 DEF Submitting
  <2>2. \A g \in Flows : Submitting(g) => flow'[g] = flow[g]
    BY <1>1, <1>6 DEF Submitting
  <2>3. CASE db' = db /\ work' = work /\ lock' = lock
    BY <1>1, <2>1, <2>2, <2>3, PaymentsStay DEF IInv, Base, LockHeld, session
  <2>4. CASE lock = NoOne /\ work = db /\ db' = db /\ work' = d /\ lock' = f
    BY <1>1, <1>5, <2>1, <2>2, <2>4, Constants, PaymentsStay DEF IInv, Base, LockHeld
  <2> QED
    BY <1>4, <2>3, <2>4
<1> QED
  BY <1>4, <1>5, <1>7, <1>8, <1>10, <1>11, <1>12, <1>13 DEF IInv, Base

\* The handler ends without having written anything.
LEMMA EndsKeeps ==
  ASSUME IInv, NEW f \in Flows, UNCHANGED session, lock # f, ~Submitting(f), Ends(f), Quiet,
         UNCHANGED <<clock, commands>>
  PROVE  IInv'
<1>1. /\ flow' \in [Flows -> Handler] /\ flow'[f] = Idle
      /\ \A g \in Flows : g # f => flow'[g] = flow[g]
  BY IdleIs, FlowSet DEF IInv, Base, TypeOK, Ends
<1>2. /\ db' = db /\ work' = work /\ lock' = lock
      /\ adjusted' = adjusted /\ excused' = excused
  BY DEF session, Quiet
<1>3. TypeOK'
  BY <1>1, <1>2 DEF IInv, Base, TypeOK
<1>4. LockHeld'
  <2>1. lock # NoOne => flow'[lock] = flow[lock]
    BY <1>1 DEF IInv, Base, TypeOK
  <2>2. \A g \in Flows : flow'[g].pc \in {"announce", "post"} => flow'[g] = flow[g]
    BY <1>1, IdleIs
  <2> QED
    BY <1>2, <2>1, <2>2 DEF IInv, Base, LockHeld, NothingPending
<1>5. EventsKnow'
  BY <1>1, <1>4, IdleIs, EventsStay DEF IInv, Base
<1>6. ClaimsApart'
  <2>1. Base /\ commands' \in Nat /\ clock' \in Nat /\ commands <= commands' /\ clock <= clock'
    BY DEF IInv, Base, TypeOK
  <2>2. \A g \in Flows : Creating(g)' => Creating(g) /\ flow'[g] = flow[g]
    BY <1>1, IdleIs DEF Creating
  <2> QED
    BY <1>2, <2>1, <2>2, ClaimsStay DEF IInv
<1>7. Payments'
  <2>1. /\ \A g \in Flows : Submitting(g)' <=> Submitting(g)
        /\ \A g \in Flows : Submitting(g) => flow'[g] = flow[g]
    BY <1>1, IdleIs DEF Submitting
  <2> QED
    BY <1>2, <2>1, PaymentsStay DEF IInv, Base, LockHeld
<1> QED
  BY <1>2, <1>3, <1>4, <1>5, <1>6, <1>7 DEF IInv, Base

LEMMA ChannelMadeKeeps ==
  ASSUME IInv, NEW f \in Flows, NEW e \in Events, ChannelMade(f, e), UNCHANGED <<clock, commands>>
  PROVE  IInv'
<1>0. OneCreditIn(db)
  BY DEF IInv, Base, Good
<1> DEFINE t == flow[f].target
           x == Request(f)
           d == [db EXCEPT !.event[e] = x]
           c == Credited(d, e, t, Pulls(f))
<1>1. /\ flow[f].pc = "channel" /\ db.event[e] = NoEvent /\ adjusted' = adjusted /\ excused' = excused
      /\ lock # f
  BY Constants DEF ChannelMade, Quiet, IInv, Base, LockHeld
<1>2. CASE ~MayWrite(f) /\ Ends(f) /\ UNCHANGED session
  <2>1. ~Submitting(f)
    BY <1>1 DEF Submitting
  <2> QED
    BY <1>1, <1>2, <2>1, EndsKeeps DEF Quiet
<1>3. CASE /\ MayWrite(f) /\ Write(f, c)
           /\ flow' = [flow EXCEPT ![f].pc = "post", ![f].event = e]
  <2>1. lock = NoOne /\ work = db /\ lock' = f /\ work' = c /\ db' = db
    BY <1>1, <1>3 DEF MayWrite, Write, IInv, Base, LockHeld, NothingPending
  <2>2. flow[f] \in Handler
    BY DEF IInv, Base, TypeOK
  <2> DEFINE h == [flow[f] EXCEPT !.pc = "post", !.event = e]
  <2>3. /\ h \in Handler /\ h.pc = "post" /\ h.event = e /\ h.target = t /\ h.at = flow[f].at
        /\ h.cmd = flow[f].cmd /\ h.rivals = flow[f].rivals
    BY <2>2 DEF Handler
  <2>4. flow' = [flow EXCEPT ![f] = h]
    BY <1>3 DEF IInv, Base, TypeOK
  <2> HIDE DEF h
  <2>5. /\ flow' \in [Flows -> Handler] /\ flow'[f] = h
        /\ \A g \in Flows : g # f => flow'[g] = flow[g]
    BY <2>3, <2>4, FlowSet DEF IInv, Base, TypeOK
  <2>6. x \in Event /\ t \in Targets \cup {Quake}
    <3>1. t \in Targets \cup {Quake}
      BY <1>1 DEF IInv, EventsKnow, HandlerKnows, Creating
    <3> QED
      BY <3>1, <2>2 DEF Request, Event, Handler
  <2>7. Request(f)' = x
    BY <2>3, <2>5 DEF Request
  <2>8. /\ Good(d) /\ d.event = [db.event EXCEPT ![e] = x] /\ d.track = db.track /\ d.rows = db.rows
        /\ d.here = db.here /\ Tracks(d) = Tracks(db) /\ Open(d) = Open(db)
    <3> HIDE DEF x
    <3> QED
      BY <2>6, EventIs DEF IInv, Base
  <2> HIDE DEF d, x
  <2>9. d.event[e] = x /\ x # NoEvent
    BY <2>6, <2>8, Rows, EventIsThere DEF IInv, Base, Good
  <2>10. /\ Good(c) /\ Keeps(c, d)
         /\ t # Quake => \A i \in On(d, {t}) :
               /\ ~c.track[i].open /\ c.track[i].closer = e
               /\ ~Attends(d, e, d.track[i].char) => <<e, i>> \in c.rows
    <3> HIDE DEF t
    <3> QED
      BY <2>8, <2>9, CreditedIs
  <2> HIDE DEF c
  <2>11. \A ch : ~Attends(d, e, ch)
    <3>0. db.event[e] = NoEvent
      BY <1>1
    <3>a. /\ \A r \in db.here : db.event[r[1]] # NoEvent
          /\ \A r \in db.rows : db.event[r[1]] # NoEvent
      BY <1>0 DEF OneCreditIn
    <3>1. ASSUME NEW z PROVE <<e, z>> \notin db.here /\ <<e, z>> \notin db.rows
      <4>1. <<e, z>>[1] = e
        OBVIOUS
      <4> QED
        BY <3>0, <3>a, <4>1
    <3> QED
      BY <3>1, <2>8 DEF Attends
  <2>12. c.event = d.event /\ SamePaid(c, db)
    BY <2>8, <2>10 DEF Keeps, SamePaid
  <2>13. \A a \in Events : c.event[a] = IF a = e THEN x ELSE db.event[a]
    BY <2>8, <2>12, Rows DEF IInv, Base, Good
  <2>14. TypeOK'
    BY <1>1, <2>1, <2>5, <2>10 DEF IInv, Base, TypeOK, Good
  <2>15. LockHeld'
    BY <2>1, <2>3, <2>5, Constants DEF IInv, Base, LockHeld, NothingPending
  <2>16. EventsKnow'
    <3>1. EventsPending'
      BY <2>1, <2>3, <2>5, <2>7, <2>13 DEF EventsPending
    <3>2. HandlerKnows'
      BY <2>1, <2>3, <2>5, <2>6 DEF IInv, EventsKnow, HandlerKnows, Creating
    <3>3. \A g \in Flows : flow'[g].pc = "post" => g = f
      BY <2>1, <2>5, Constants DEF IInv, Base, LockHeld
    <3>4. On(d, {t}) = On(db, {t})
      BY <2>8 DEF On
    <3>5. t # Quake => \A i \in On(db', {t}) :
             ~work'.track[i].open /\ work'.track[i].closer = e /\ <<e, i>> \in work'.rows
      BY <2>1, <2>10, <2>11, <3>4
    <3>6. PostKnows'
      <4> HIDE DEF t
      <4>1. flow'[f].target = t /\ flow'[f].event = e
        BY <2>3, <2>5
      <4> QED
        BY <3>3, <3>5, <4>1 DEF PostKnows
    <3> QED
      BY <3>1, <3>2, <3>6 DEF EventsKnow
  <2>17. ClaimsApart'
    <3>1. Base /\ commands' \in Nat /\ clock' \in Nat /\ commands <= commands' /\ clock <= clock'
      BY DEF IInv, Base, TypeOK
    <3>2. \A g \in Flows : Creating(g)' => Creating(g) /\ flow'[g].cmd = flow[g].cmd
      BY <1>1, <2>3, <2>5 DEF Creating
    <3>3. \A g \in Flows : Creating(g)' => Request(g)' = Request(g)
      <4>1. \A g \in Flows : g # f => Request(g)' = Request(g)
        BY <2>5 DEF Request
      <4> QED
        BY <2>7, <4>1 DEF x
    <3>4. x \in Claims
      BY <1>1, ClaimIs DEF Creating, x
    <3>5. ASSUME NEW p \in Claims' PROVE p \in Claims
      <4>1. CASE \E a \in Events : db'.event[a] # NoEvent /\ p = db'.event[a]
        BY <2>1, <4>1, ClaimIs
      <4>2. CASE \E a \in Events : work'.event[a] # NoEvent /\ p = work'.event[a]
        BY <2>1, <2>13, <3>4, <4>2, ClaimIs
      <4>3. CASE \E g \in Flows : Creating(g)' /\ p = Request(g)'
        BY <3>2, <3>3, <4>3, ClaimIs
      <4> QED
        BY <4>1, <4>2, <4>3 DEF Claims, Made
    <3> QED
      BY <3>1, <3>2, <3>5, ClaimsFrom DEF IInv
  <2>18. Payments'
    <3>1. /\ \A g \in Flows : Submitting(g)' <=> Submitting(g)
          /\ \A g \in Flows : Submitting(g) => flow'[g] = flow[g]
      BY <1>1, <2>3, <2>5 DEF Submitting
    <3> QED
      BY <1>1, <2>1, <2>12, <3>1, Constants, PaymentsStay DEF IInv, Base, LockHeld
  <2> QED
    BY <2>1, <2>10, <2>14, <2>15, <2>16, <2>17, <2>18 DEF IInv, Base
<1> QED
  BY <1>2, <1>3 DEF ChannelMade

\* The next part is asked for under the same command, at a later time.
LEMMA ClaimsNext ==
  ASSUME Base, ClaimsApart, NEW f \in Flows, Creating(f), NextPart(f), UNCHANGED <<clock, commands>>,
         \A e \in Events : /\ db'.event[e] \in {db.event[e], work.event[e]}
                           /\ work'.event[e] \in {db.event[e], work.event[e]}
  PROVE  ClaimsApart'
<1>0. commands \in Nat /\ clock \in Nat
  BY DEF Base, TypeOK
<1>1. CASE flow[f].parts = 0
  <2>1. /\ flow'[f] = Idle
        /\ \A g \in Flows : g # f => flow'[g] = flow[g]
    BY <1>1, IdleIs, FlowSet DEF Base, TypeOK, NextPart
  <2>2. \A g \in Flows : Creating(g)' => Creating(g) /\ flow'[g] = flow[g]
    BY <2>1, IdleIs DEF Creating
  <2> QED
    BY <1>0, <2>2, ClaimsStay
<1>2. CASE flow[f].parts # 0
  <2> DEFINE q0 == Request(f)
             q1 == Request(f)'
  <2>1. /\ \A g \in Flows : g # f => flow'[g] = flow[g]
        /\ flow'[f].target = flow[f].target /\ flow'[f].at = clock /\ flow'[f].cmd = flow[f].cmd
        /\ flow'[f].rivals = flow[f].rivals
    <3>1. flow[f] \in Handler
      BY DEF Base, TypeOK
    <3> DEFINE h == [flow[f] EXCEPT !.pc = "channel", !.parts = @ - 1, !.at = clock, !.event = NoOne]
    <3>2. /\ h.target = flow[f].target /\ h.at = clock /\ h.cmd = flow[f].cmd
          /\ h.rivals = flow[f].rivals
      BY <3>1 DEF Handler
    <3>3. flow' = [flow EXCEPT ![f] = h]
      BY <1>2 DEF NextPart, Base, TypeOK
    <3> HIDE DEF h
    <3> QED
      BY <3>2, <3>3 DEF Base, TypeOK
  <2>2. /\ q1.target = q0.target /\ q1.at = clock /\ q1.cmd = q0.cmd /\ q1.rivals = q0.rivals
        /\ ~q1.moved /\ ~q0.moved /\ q0.cmd = flow[f].cmd
    BY <2>1 DEF Request
  <2>3. q0 \in Claims
    BY ClaimIs
  <2>4. \A g \in Flows : g # f => (Creating(g)' => Creating(g) /\ Request(g)' = Request(g))
    BY <2>1 DEF Creating, Request
  <2> HIDE DEF q0, q1
  <2>5. ASSUME NEW p \in Claims' PROVE p = q1 \/ p \in Claims
    <3>1. CASE \E a \in Events : p = db'.event[a] /\ db'.event[a] # NoEvent
      BY <3>1, ClaimIs
    <3>2. CASE \E a \in Events : p = work'.event[a] /\ work'.event[a] # NoEvent
      BY <3>2, ClaimIs
    <3>3. CASE \E g \in Flows : Creating(g)' /\ p = Request(g)'
      BY <2>4, <3>3, ClaimIs DEF q1
    <3> QED
      BY <3>1, <3>2, <3>3 DEF Claims, Made
  <2>6. \A p \in Claims : p.cmd \in Nat /\ p.at \in Nat /\ p.cmd < commands /\ p.at <= clock
    BY ClaimTypes, Constants DEF ClaimsApart
  <2>7. ASSUME NEW p \in Claims' PROVE p.cmd < commands' /\ p.at <= clock'
    BY <1>0, <2>2, <2>3, <2>5, <2>6
  <2>8. ASSUME NEW p \in Claims', NEW q \in Claims' PROVE Apart(p, q)
    <3>1. CASE p \in Claims /\ q \in Claims
      BY <3>1 DEF ClaimsApart
    <3>2. CASE p = q1 /\ q = q1
      BY <2>2, <2>3, <2>6, <3>2 DEF Apart
    <3>3. CASE p \in Claims /\ q = q1
      <4>1. Apart(p, q0) /\ q0.at <= clock /\ q0.at \in Nat /\ p.at \in Nat
        BY <2>3, <2>6, <3>3 DEF ClaimsApart
      <4> QED
        BY <1>0, <2>2, <3>3, <4>1, Constants DEF Apart
    <3>4. CASE p = q1 /\ q \in Claims
      <4>1. q0.cmd < q.cmd => q0.cmd \in q.rivals
        BY <2>2, <3>4 DEF ClaimsApart
      <4> QED
        BY <2>2, <3>4, <4>1 DEF Apart
    <3> QED
      BY <2>5, <3>1, <3>2, <3>3, <3>4
  <2>9. ASSUME NEW g \in Flows, NEW q \in Claims', Creating(g)', flow'[g].cmd < q.cmd
        PROVE  flow'[g].cmd \in q.rivals
    <3>1. Creating(g) /\ flow'[g].cmd = flow[g].cmd
      BY <2>1, <2>4, <2>9
    <3>2. q \in Claims \/ (q0 \in Claims /\ q.cmd = q0.cmd /\ q.rivals = q0.rivals)
      BY <2>2, <2>3, <2>5
    <3> QED
      BY <2>9, <3>1, <3>2 DEF ClaimsApart
  <2> QED
    BY <2>7, <2>8, <2>9 DEF ClaimsApart, Apart
<1> QED
  BY <1>1, <1>2

LEMMA NextPartIs ==
  ASSUME IInv, NEW f \in Flows, Creating(f), NextPart(f)
  PROVE  /\ flow' \in [Flows -> Handler]
         /\ \A g \in Flows : g # f => flow'[g] = flow[g]
         /\ flow'[f].pc \in {"idle", "channel"}
         /\ flow'[f].pc = "channel" => flow'[f].target \in Targets \cup {Quake}
<1>1. flow[f] \in Handler /\ flow[f].target \in Targets \cup {Quake} /\ clock \in 0 .. MaxClock
  BY DEF IInv, Base, TypeOK, EventsKnow, HandlerKnows
<1>2. CASE flow[f].parts = 0
  <2>1. /\ flow' \in [Flows -> Handler] /\ flow'[f] = Idle
        /\ \A g \in Flows : g # f => flow'[g] = flow[g]
    BY <1>2, IdleIs, FlowSet DEF IInv, Base, TypeOK, NextPart
  <2> QED
    BY <2>1, IdleIs
<1>3. CASE flow[f].parts # 0
  <2> DEFINE h == [flow[f] EXCEPT !.pc = "channel", !.parts = @ - 1, !.at = clock, !.event = NoOne]
  <2>1. flow[f].parts - 1 \in Nat
    BY <1>1, <1>3 DEF Handler
  <2>2. h \in Handler /\ h.pc = "channel" /\ h.target = flow[f].target
    BY <1>1, <2>1 DEF Handler
  <2>3. flow' = [flow EXCEPT ![f] = h]
    BY <1>3 DEF NextPart, IInv, Base, TypeOK
  <2> HIDE DEF h
  <2>4. /\ flow' \in [Flows -> Handler] /\ flow'[f] = h
        /\ \A g \in Flows : g # f => flow'[g] = flow[g]
    BY <2>2, <2>3, FlowSet DEF IInv, Base, TypeOK
  <2> QED
    BY <1>1, <2>2, <2>4
<1> QED
  BY <1>2, <1>3

LEMMA PostedKeeps ==
  ASSUME IInv, NEW f \in Flows, Posted(f), UNCHANGED <<clock, commands>>
  PROVE  IInv'
<1>1. /\ flow[f].pc = "post" /\ lock = f /\ lock' = NoOne /\ db' = work /\ work' = work
      /\ adjusted' = adjusted /\ excused' = excused /\ Creating(f) /\ NextPart(f)
  BY DEF Posted, Commit, Quiet, IInv, Base, LockHeld, Creating
<1>2. /\ flow' \in [Flows -> Handler]
      /\ \A g \in Flows : g # f => flow'[g] = flow[g]
      /\ flow'[f].pc \in {"idle", "channel"}
      /\ flow'[f].pc = "channel" => flow'[f].target \in Targets \cup {Quake}
  BY <1>1, NextPartIs
<1>3. TypeOK'
  BY <1>1, <1>2 DEF IInv, Base, TypeOK
<1>4. LockHeld'
  BY <1>1, <1>2, Constants DEF IInv, Base, LockHeld, NothingPending
<1>5. EventsKnow'
  <2>1. \A g \in Flows : flow'[g].pc # "post"
    BY <1>1, <1>2 DEF IInv, Base, LockHeld
  <2>2. ASSUME NEW e \in Made(db) PROVE e \in Made(work)
    <3>1. CASE work.event[e] = db.event[e]
      BY <3>1 DEF Made
    <3>2. CASE work.event[e] # db.event[e]
      <4>1. work.event[e] = Request(f)
        BY <1>1, <3>2 DEF IInv, EventsKnow, EventsPending, Made
      <4>2. Request(f) # NoEvent
        <5>1. flow[f] \in Handler /\ flow[f].target \in Targets \cup {Quake}
          BY <1>1 DEF IInv, Base, TypeOK, EventsKnow, HandlerKnows
        <5>2. Request(f) \in Event
          BY <5>1 DEF Request, Event, Handler
        <5> QED
          BY <5>2, EventIsThere
      <4> QED
        BY <4>1, <4>2 DEF Made
    <3> QED
      BY <3>1, <3>2
  <2>3. HandlerKnows'
    BY <1>1, <1>2, <2>2 DEF IInv, EventsKnow, HandlerKnows, Creating
  <2> QED
    BY <1>1, <2>1, <2>3 DEF EventsKnow, EventsPending, PostKnows
<1>6. ClaimsApart'
  BY <1>1, ClaimsNext DEF IInv
<1>7. Payments'
  <2>1. \A g \in Flows : Submitting(g)' <=> Submitting(g)
    BY <1>1, <1>2 DEF Submitting
  <2>2. \A g \in Flows : Submitting(g) => flow'[g] = flow[g] /\ lock # g
    BY <1>1, <1>2 DEF Submitting
  <2>3. SamePaid(db', work)
    BY <1>1 DEF SamePaid
  <2> QED
    BY <1>1, <2>1, <2>2, <2>3, PaymentsStay DEF IInv, Base, LockHeld
<1> QED
  BY <1>1, <1>3, <1>4, <1>5, <1>6, <1>7 DEF IInv, Base

LEMMA NoChannelKeeps ==
  ASSUME IInv, NEW f \in Flows, NoChannel(f), UNCHANGED <<clock, commands>>
  PROVE  IInv'
<1>1. /\ flow[f].pc = "channel" /\ lock # f /\ db' = db /\ work' = work /\ lock' = lock
      /\ adjusted' = adjusted /\ excused' = excused /\ Creating(f) /\ NextPart(f)
  BY Constants DEF NoChannel, session, IInv, Base, LockHeld, Creating
<1>2. /\ flow' \in [Flows -> Handler]
      /\ \A g \in Flows : g # f => flow'[g] = flow[g]
      /\ flow'[f].pc \in {"idle", "channel"}
      /\ flow'[f].pc = "channel" => flow'[f].target \in Targets \cup {Quake}
  BY <1>1, NextPartIs
<1>3. TypeOK'
  BY <1>1, <1>2 DEF IInv, Base, TypeOK
<1>4. LockHeld'
  <2>1. lock # NoOne => flow'[lock] = flow[lock]
    BY <1>1, <1>2 DEF IInv, Base, TypeOK
  <2>2. \A g \in Flows : flow'[g].pc \in {"announce", "post"} => flow'[g] = flow[g]
    BY <1>2
  <2> QED
    BY <1>1, <2>1, <2>2 DEF IInv, Base, LockHeld, NothingPending
<1>5. EventsKnow'
  BY <1>1, <1>2, <1>4, EventsStay DEF IInv, Base, session
<1>6. ClaimsApart'
  BY <1>1, ClaimsNext DEF IInv
<1>7. Payments'
  <2>1. /\ \A g \in Flows : Submitting(g)' <=> Submitting(g)
        /\ \A g \in Flows : Submitting(g) => flow'[g] = flow[g]
    BY <1>1, <1>2 DEF Submitting
  <2> QED
    BY <1>1, <2>1, PaymentsStay DEF IInv, Base, LockHeld, session
<1> QED
  BY <1>1, <1>3, <1>4, <1>5, <1>6, <1>7 DEF IInv, Base

LEMMA CreateFailsKeeps ==
  ASSUME IInv, NEW f \in Flows, CreateFails(f), UNCHANGED <<clock, commands>>
  PROVE  IInv'
<1>1. CASE lock # f
  <2>1. UNCHANGED session /\ ~Submitting(f) /\ Ends(f) /\ Quiet
    BY <1>1 DEF CreateFails, Creating, Submitting, Close, session
  <2> QED
    BY <1>1, <2>1, EndsKeeps
<1>2. CASE lock = f
  <2>1. /\ lock' = NoOne /\ db' = db /\ work' = db /\ adjusted' = adjusted /\ excused' = excused
        /\ flow[f].pc \in {"channel", "post"}
    BY <1>2 DEF CreateFails, Creating, Close, Quiet
  <2>2. /\ flow' \in [Flows -> Handler] /\ flow'[f] = Idle
        /\ \A g \in Flows : g # f => flow'[g] = flow[g]
    BY IdleIs, FlowSet DEF IInv, Base, TypeOK, CreateFails, Ends
  <2>3. TypeOK'
    BY <2>1, <2>2 DEF IInv, Base, TypeOK
  <2>4. LockHeld'
    BY <1>2, <2>1, <2>2, IdleIs DEF IInv, Base, LockHeld, NothingPending
  <2>5. EventsKnow'
    <3>1. \A g \in Flows : flow'[g].pc # "post"
      BY <1>2, <2>2, IdleIs DEF IInv, Base, LockHeld
    <3>2. HandlerKnows'
      BY <2>1, <2>2, IdleIs DEF IInv, EventsKnow, HandlerKnows, Creating
    <3> QED
      BY <2>1, <3>1, <3>2 DEF EventsKnow, EventsPending, PostKnows
  <2>6. ClaimsApart'
    <3>1. Base /\ commands' \in Nat /\ clock' \in Nat /\ commands <= commands' /\ clock <= clock'
      BY DEF IInv, Base, TypeOK
    <3>2. \A g \in Flows : Creating(g)' => Creating(g) /\ flow'[g] = flow[g]
      BY <2>2, IdleIs DEF Creating
    <3> QED
      BY <2>1, <3>1, <3>2, ClaimsStay DEF IInv
  <2>7. Payments'
    <3>1. \A g \in Flows : Submitting(g)' <=> Submitting(g)
      BY <2>1, <2>2, IdleIs DEF Submitting
    <3>0. \A g \in Flows : Submitting(g) => g # f
      BY <2>1 DEF Submitting
    <3>2. \A g \in Flows : Submitting(g) => flow'[g] = flow[g] /\ lock # g
      BY <1>2, <2>2, <3>0
    <3> QED
      BY <1>2, <2>1, <3>1, <3>2, PaymentsStay DEF IInv, Base, LockHeld
  <2> QED
    BY <2>1, <2>3, <2>4, <2>5, <2>6, <2>7 DEF IInv, Base
<1> QED
  BY <1>1, <1>2

LEMMA RetargetedKeeps ==
  ASSUME IInv, NEW f \in Flows, Retargeted(f), UNCHANGED <<clock, commands>>
  PROVE  IInv'
<1> DEFINE e == flow[f].event
           t == flow[f].target
           d == [work EXCEPT !.event[e].moved = TRUE, !.rows = {r \in @ : r[1] # e}]
           c == Credited(d, e, t, t \in PullIn)
<1>1. /\ flow[f].pc = "retarget" /\ adjusted' = adjusted /\ excused' = excused /\ Ends(f)
      /\ e \in Events /\ db.event[e] # NoEvent /\ ~Submitting(f)
  BY DEF Retargeted, Quiet, IInv, EventsKnow, HandlerKnows, Made, Submitting
<1>2. CASE ~MayWrite(f)
  <2>1. UNCHANGED session /\ lock # f /\ Quiet
    BY <1>2 DEF Retargeted, MayWrite
  <2> QED
    BY <1>1, <2>1, EndsKeeps
<1>3. CASE MayWrite(f)
  <2>1. View(f) = work
    BY <1>3, ViewIs DEF IInv, Base, LockHeld
  <2>2. lock' = NoOne /\ db' = c /\ work' = c
    BY <1>3, <2>1 DEF Retargeted, Commit
  <2>3. /\ flow' \in [Flows -> Handler] /\ flow'[f] = Idle
        /\ \A g \in Flows : g # f => flow'[g] = flow[g]
    BY <1>1, IdleIs, FlowSet DEF IInv, Base, TypeOK, Ends
  <2>4. ASSUME NEW a \in Made(db) PROVE a \in Made(work)
    <3>1. CASE work.event[a] = db.event[a]
      BY <3>1 DEF Made
    <3>2. CASE work.event[a] # db.event[a]
      <4>1. lock = f
        BY <1>3, <3>2 DEF MayWrite, IInv, Base, LockHeld, NothingPending
      <4>2. PICK u \in Targets : work.event[a] = [db.event[a] EXCEPT !.target = u, !.moved = TRUE]
        BY <1>1, <3>2, <4>1 DEF IInv, EventsKnow, EventsPending, Made
      <4>3. db.event[a] \in Event
        BY Rows DEF IInv, Base, Good, Made
      <4>4. work.event[a] \in Event
        BY <4>2, <4>3 DEF Event
      <4> QED
        BY <4>4, EventIsThere DEF Made
    <3> QED
      BY <3>1, <3>2
  <2>5. work.event[e] # NoEvent /\ work.event[e] \in Event
    <3>1. e \in Made(db)
      BY <1>1 DEF Made
    <3>2. work.event[e] # NoEvent
      BY <2>4, <3>1 DEF Made
    <3> QED
      BY <1>1, <3>2, Rows DEF IInv, Base, Good
  <2> DEFINE x == [work.event[e] EXCEPT !.moved = TRUE]
  <2>6. /\ x \in Event /\ x.cmd = work.event[e].cmd /\ x.at = work.event[e].at
        /\ x.rivals = work.event[e].rivals /\ x.moved = TRUE
    BY <2>5 DEF Event
  <2>7. Good(d) /\ d.track = work.track /\ d.event = [work.event EXCEPT ![e] = x]
    <3> HIDE DEF e
    <3> QED
      BY <1>1, <2>5, DroppedIs DEF IInv, Base
  <2> HIDE DEF d, x
  <2>8. \A a \in Events : d.event[a] = IF a = e THEN x ELSE work.event[a]
    BY <1>1, <2>7, Rows DEF IInv, Base, Good
  <2>9. d.event[e] # NoEvent
    BY <1>1, <2>6, <2>8, EventIsThere
  <2>10. Good(c) /\ Keeps(c, d)
    <3> HIDE DEF t, e
    <3> QED
      BY <1>1, <2>7, <2>9, CreditedIs
  <2> HIDE DEF c
  <2>11. SamePaid(c, work) /\ c.event = d.event
    BY <2>7, <2>10 DEF Keeps, SamePaid, Tracks
  <2>12. TypeOK'
    BY <1>1, <2>2, <2>3, <2>10 DEF IInv, Base, TypeOK, Good
  <2>13. LockHeld'
    BY <1>1, <1>3, <2>2, <2>3, IdleIs, Constants DEF IInv, Base, LockHeld, NothingPending, MayWrite
  <2>14. EventsKnow'
    <3>1. \A g \in Flows : flow'[g].pc # "post"
      BY <1>1, <1>3, <2>3, IdleIs, Constants DEF IInv, Base, LockHeld, MayWrite
    <3>2. Made(db) \subseteq Made(db')
      BY <2>2, <2>4, <2>8, <2>9, <2>11 DEF Made
    <3>3. HandlerKnows'
      BY <2>3, <3>2, IdleIs DEF IInv, EventsKnow, HandlerKnows, Creating
    <3> QED
      BY <2>2, <3>1, <3>3 DEF EventsKnow, EventsPending, PostKnows
  <2>15. ClaimsApart'
    <3>1. Base /\ commands' \in Nat /\ clock' \in Nat /\ commands <= commands' /\ clock <= clock'
      BY DEF IInv, Base, TypeOK
    <3>2. \A g \in Flows : Creating(g)' => Creating(g) /\ flow'[g] = flow[g]
      BY <2>3, IdleIs DEF Creating
    <3>3. \A g \in Flows : Creating(g)' => Request(g)' = Request(g)
      BY <3>2 DEF Request
    <3>4. work.event[e] \in Claims
      BY <1>1, <2>5, ClaimIs
    <3>5. ASSUME NEW p \in Claims' PROVE p \in Claims \/ p = x
      <4>1. CASE \E a \in Events : db'.event[a] # NoEvent /\ p = db'.event[a]
        BY <2>2, <2>8, <2>11, <4>1, ClaimIs
      <4>2. CASE \E a \in Events : work'.event[a] # NoEvent /\ p = work'.event[a]
        BY <2>2, <2>8, <2>11, <4>2, ClaimIs
      <4>3. CASE \E g \in Flows : Creating(g)' /\ p = Request(g)'
        BY <3>2, <3>3, <4>3, ClaimIs
      <4> QED
        BY <4>1, <4>2, <4>3 DEF Claims, Made
    <3>6. \A p \in Claims' : \E q \in Claims :
              p.cmd = q.cmd /\ p.at = q.at /\ p.rivals = q.rivals /\ (p = q \/ p.moved)
      BY <2>6, <3>4, <3>5
    <3> QED
      BY <3>1, <3>2, <3>6, ClaimsFrom DEF IInv
  <2>16. Payments'
    <3>1. \A g \in Flows : Submitting(g)' <=> Submitting(g)
      BY <1>1, <2>3, IdleIs DEF Submitting
    <3>2. \A g \in Flows : Submitting(g) => flow'[g] = flow[g] /\ lock # g
      BY <1>1, <1>3, <2>3, Constants DEF Submitting, MayWrite
    <3> QED
      BY <1>1, <2>2, <2>11, <3>1, <3>2, PaymentsStay DEF IInv, Base, LockHeld, TypeOK
  <2> QED
    BY <2>2, <2>10, <2>12, <2>13, <2>14, <2>15, <2>16 DEF IInv, Base
<1> QED
  BY <1>2, <1>3

-----------------------------------------------------------------------------
(* Submissions *)

LEMMA ReadingIs ==
  ASSUME NEW r \in Reading
  PROVE  DOMAIN r \in SUBSET Ids /\ \A i \in DOMAIN r : r[i] \in Chars \X Rates
BY DEF Reading

LEMMA ReadingOf ==
  ASSUME NEW S \in SUBSET Ids, NEW r \in [S -> Chars \X Rates]
  PROVE  r \in Reading
BY DEF Reading

LEMMA HeldIs == \A i : i \in Held <=> \E f \in Flows : Submitting(f) /\ i \in DOMAIN flow[f].read
BY DEF Held

LEMMA PaidIsRead == \A f \in Flows : PaidBy(f) \subseteq DOMAIN flow[f].read
BY DEF PaidBy

\* A step of a submission, but for what it pays.
LEMMA SubmissionKeeps ==
  ASSUME IInv, NEW f \in Flows, flow' \in [Flows -> Handler], \A g \in Flows : g # f => flow'[g] = flow[g],
         flow[f].pc \in {"idle", "member", "adjust"}, flow'[f].pc \in {"idle", "member", "adjust"},
         adjusted' \in [Ids -> Nat], excused' \subseteq Ids,
         clock' = clock, commands' \in Nat, commands <= commands',
         Good(db'), Good(work'),
         \/ UNCHANGED session /\ (lock = f => flow'[f].pc # "idle")
         \/ /\ MayWrite(f)
            /\ \/ db'.event = work.event /\ work' = db' /\ lock' = NoOne
               \/ db' = db /\ work'.event = work.event /\ lock' = f /\ flow'[f].pc # "idle"
               \/ db' = db /\ work' = db /\ lock' = NoOne,
         Payments'
  PROVE  IInv'
<1>0. lock \in Flows \cup {NoOne} /\ clock \in Nat
  BY Constants DEF IInv, Base, TypeOK
<1>1. TypeOK'
  <2>1. lock' \in Flows \cup {NoOne}
    BY <1>0 DEF session
  <2> QED
    BY <2>1 DEF IInv, Base, TypeOK, Good
<1>2. \A g \in Flows : flow'[g].pc \in {"announce", "post"} => g # f /\ lock = g /\ flow'[g] = flow[g]
  BY DEF IInv, Base, LockHeld
<1>3. LockHeld'
  <2>1. CASE UNCHANGED session /\ (lock = f => flow'[f].pc # "idle")
    <3>1. lock' = lock /\ work' = work /\ db' = db
      BY <2>1 DEF session
    <3>2. lock # NoOne => flow'[lock].pc \notin {"idle", "channel"}
      <4>1. CASE lock = f
        BY <2>1, <4>1
      <4>2. CASE lock # f
        BY <1>0, <4>2 DEF IInv, Base, LockHeld
      <4> QED
        BY <4>1, <4>2
    <3> QED
      BY <1>2, <3>1, <3>2 DEF IInv, Base, LockHeld, NothingPending
  <2>2. CASE /\ MayWrite(f)
             /\ \/ db'.event = work.event /\ work' = db' /\ lock' = NoOne
                \/ db' = db /\ work'.event = work.event /\ lock' = f /\ flow'[f].pc # "idle"
                \/ db' = db /\ work' = db /\ lock' = NoOne
    <3>0. lock = f \/ lock = NoOne
      BY <2>2 DEF MayWrite
    <3>1. \A g \in Flows : flow'[g].pc \notin {"announce", "post"}
      BY <1>2, <3>0, Constants
    <3>2. \/ work' = db' /\ lock' = NoOne
          \/ lock' = f /\ flow'[f].pc \notin {"idle", "channel"}
      BY <2>2
    <3>3. f # NoOne
      BY Constants
    <3> QED
      BY <3>1, <3>2, <3>3 DEF LockHeld, NothingPending
  <2> QED
    BY <2>1, <2>2
<1>4. EventsKnow'
  BY <1>3, EventsStay DEF IInv, Base
<1>5. ClaimsApart'
  <2>1. Base /\ commands' \in Nat /\ clock' \in Nat /\ commands <= commands' /\ clock <= clock'
    BY <1>0 DEF IInv
  <2>2. \A g \in Flows : Creating(g)' => Creating(g) /\ flow'[g] = flow[g]
    BY DEF Creating
  <2>3. \A e \in Events : /\ db'.event[e] \in {db.event[e], work.event[e]}
                         /\ work'.event[e] \in {db.event[e], work.event[e]}
    BY DEF session
  <2> QED
    BY <2>1, <2>2, <2>3, ClaimsStay DEF IInv
<1> QED
  BY <1>1, <1>3, <1>4, <1>5 DEF IInv, Base

LEMMA SubmitKeeps ==
  ASSUME IInv, NEW f \in Flows, NEW t \in Targets, Submit(f, t), UNCHANGED clock, commands' = commands + 1
  PROVE  IInv'
<1> DEFINE due == Due(db, t)
           R == [i \in due |-> Key(db, i)]
           K == {Key(db, i) : i \in due}
           h == [Idle EXCEPT !.pc = "member", !.read = R, !.todo = K]
<1>1. /\ flow[f].pc = "idle" /\ flow' = [flow EXCEPT ![f] = h]
      /\ excused' = excused \cup (due \cap Held)
      /\ db' = db /\ work' = work /\ lock' = lock /\ adjusted' = adjusted
  BY DEF Submit, session
<1>2. due \subseteq Tracks(db) /\ \A i \in due : ~db.track[i].paid
  BY DEF Due
<1>3. /\ R \in Reading /\ K \in SUBSET (Chars \X Rates) /\ DOMAIN R = due
      /\ \A i \in due : R[i] \in K
  <2>1. ASSUME NEW i \in due PROVE i \in Ids /\ Key(db, i) \in Chars \X Rates
    <3>1. i \in Ids /\ db.track[i] \in Track
      BY <1>2, Rows DEF IInv, Base, Good
    <3> QED
      BY <3>1 DEF Key, Track
  <2> HIDE DEF due
  <2>2. due \in SUBSET Ids
    BY <2>1
  <2>3. R \in [due -> Chars \X Rates]
    BY <2>1
  <2>4. K \in SUBSET (Chars \X Rates)
    BY <2>1
  <2>5. DOMAIN R = due /\ \A i \in due : R[i] \in K
    OBVIOUS
  <2> HIDE DEF R, K
  <2> QED
    BY <2>2, <2>3, <2>4, <2>5, ReadingOf
<1> HIDE DEF due, R, K
<1>4. h \in Handler /\ h.pc = "member" /\ h.read = R /\ h.todo = K /\ h.dirty = {}
  <2>1. Idle \in Handler
    BY IdleIs
  <2> QED
    BY <1>3, <2>1 DEF Handler, Idle
<1> HIDE DEF h
<1>5. /\ flow' \in [Flows -> Handler] /\ flow'[f] = h
      /\ \A g \in Flows : g # f => flow'[g] = flow[g]
  BY <1>1, <1>4, FlowSet DEF IInv, Base, TypeOK
<1>6. /\ ~Submitting(f) /\ Submitting(f)' /\ DOMAIN flow'[f].read = due /\ PaidBy(f)' = {}
      /\ flow'[f].dirty = {}
  BY <1>1, <1>3, <1>4, <1>5 DEF Submitting, PaidBy
<1>7. /\ \A g \in Flows : Submitting(g) => g # f /\ Submitting(g)'
      /\ \A g \in Flows : g # f => (Submitting(g)' => Submitting(g)) /\ PaidBy(g)' = PaidBy(g)
  BY <1>5, <1>6 DEF Submitting, PaidBy
<1>8. \A i : i \in Held' => i \in Held \/ i \in due
  <2>1. \A i : i \in Held' <=> \E g \in Flows : Submitting(g)' /\ i \in DOMAIN flow'[g].read
    BY DEF Held
  <2> QED
    BY <1>5, <1>6, <1>7, <2>1, HeldIs
<1>9. Payments'
  <2>1. SubmissionKnows'
    <3>1. ASSUME NEW g \in Flows, Submitting(g)'
          PROVE  /\ flow'[g].pc = "adjust" => flow'[g].group \in flow'[g].todo
                 /\ flow'[g].dirty \subseteq PaidBy(g)'
                 /\ \A i \in PaidBy(g)' \ flow'[g].dirty :
                       lock = g /\ i \in Tracks(work) /\ work.track[i].paid
      <4>1. CASE g = f
        BY <1>4, <1>5, <1>6, <4>1
      <4>2. CASE g # f
        BY <1>5, <1>7, <3>1, <4>2 DEF IInv, Payments, SubmissionKnows
      <4> QED
        BY <4>1, <4>2
    <3> QED
      BY <1>1, <3>1 DEF SubmissionKnows
  <2>2. PaymentsPending'
    <3>1. ASSUME NEW i \in Tracks(db), work.track[i].paid # db.track[i].paid
          PROVE  \E g \in Flows : lock = g /\ Submitting(g)' /\ i \in PaidBy(g)'
      BY <1>7, <3>1 DEF IInv, Payments, PaymentsPending
    <3>2. ASSUME NEW i \in Tracks(work) \ Tracks(db), i \notin excused'
          PROVE  ~work.track[i].paid /\ adjusted[i] = 0 /\ i \notin Held'
      BY <1>1, <1>2, <1>8, <3>2 DEF IInv, Payments, PaymentsPending
    <3>3. Tracks(db) \subseteq Tracks(work)
      BY DEF IInv, Payments, PaymentsPending
    <3> QED
      BY <1>1, <3>1, <3>2, <3>3 DEF PaymentsPending
  <2>3. ASSUME NEW i \in Tracks(db) \ excused', i \in due
        PROVE  /\ \A g \in Flows : Submitting(g) => i \notin DOMAIN flow[g].read
               /\ adjusted[i] = 0
    <3>1. i \notin Held /\ i \notin excused
      BY <1>1, <2>3
    <3>2. \A g \in Flows : Submitting(g) => i \notin DOMAIN flow[g].read
      BY <3>1, HeldIs
    <3> QED
      BY <1>2, <2>3, <3>1, <3>2 DEF IInv, Payments, AdjustedOnce
  <2>4. ReadOnce'
    <3>1. ASSUME NEW i \in Tracks(db) \ excused', NEW g \in Flows, Submitting(g)', i \in DOMAIN flow'[g].read
          PROVE  /\ \A k \in Flows : Submitting(k)' /\ i \in DOMAIN flow'[k].read => g = k
                 /\ ~db.track[i].paid
                 /\ adjusted[i] = IF i \in PaidBy(g)' THEN 1 ELSE 0
      <4>1. CASE g = f
        BY <1>2, <1>5, <1>6, <1>7, <2>3, <3>1, <4>1
      <4>2. CASE g # f
        <5>1. Submitting(g) /\ i \in DOMAIN flow[g].read /\ PaidBy(g)' = PaidBy(g)
          BY <1>5, <1>7, <3>1, <4>2
        <5>2. i \notin due
          BY <2>3, <5>1
        <5>3. i \in Tracks(db) \ excused
          BY <1>1
        <5> QED
          BY <1>5, <1>6, <1>7, <5>1, <5>2, <5>3 DEF IInv, Payments, ReadOnce
      <4> QED
        BY <4>1, <4>2
    <3> QED
      BY <1>1, <3>1 DEF ReadOnce
  <2>5. AdjustedOnce'
    BY <1>1, <1>5, <1>7 DEF IInv, Payments, AdjustedOnce
  <2> QED
    BY <2>1, <2>2, <2>4, <2>5 DEF Payments
<1>10. adjusted' \in [Ids -> Nat] /\ excused' \subseteq Ids /\ commands' \in Nat /\ commands <= commands'
  <2>1. Tracks(db) \subseteq Ids
    BY DEF Tracks
  <2> QED
    BY <1>1, <1>2, <2>1 DEF IInv, Base, TypeOK
<1> QED
  BY <1>1, <1>4, <1>5, <1>9, <1>10, SubmissionKeeps DEF IInv, Base, session

\* A submission goes on with what it has read and paid.
LEMMA MemberKeeps ==
  ASSUME IInv, NEW f \in Flows, NEW g \in Chars \X Rates, flow[f].pc = "member", g \in flow[f].todo,
         flow' = [flow EXCEPT ![f].pc = "adjust", ![f].group = g], UNCHANGED session,
         UNCHANGED <<adjusted, excused, clock, commands>>
  PROVE  IInv'
<1> DEFINE h == [flow[f] EXCEPT !.pc = "adjust", !.group = g]
<1>1. db' = db /\ work' = work /\ lock' = lock /\ flow[f] \in Handler
  BY DEF session, IInv, Base, TypeOK
<1>2. /\ h \in Handler /\ h.pc = "adjust" /\ h.group = g /\ h.todo = flow[f].todo
      /\ h.read = flow[f].read /\ h.dirty = flow[f].dirty
  BY <1>1 DEF Handler
<1>3. flow' = [flow EXCEPT ![f] = h]
  BY DEF IInv, Base, TypeOK
<1> HIDE DEF h
<1>4. /\ flow' \in [Flows -> Handler] /\ flow'[f] = h
      /\ \A k \in Flows : k # f => flow'[k] = flow[k]
  BY <1>2, <1>3, FlowSet DEF IInv, Base, TypeOK
<1>5. \A k \in Flows : /\ Submitting(k)' <=> Submitting(k)
                       /\ flow'[k].read = flow[k].read /\ flow'[k].todo = flow[k].todo
                       /\ flow'[k].dirty = flow[k].dirty
                       /\ PaidBy(k)' = PaidBy(k)
  BY <1>2, <1>4 DEF Submitting, PaidBy
<1>6. Held' = Held
  <2>1. \A i : i \in Held' <=> \E k \in Flows : Submitting(k)' /\ i \in DOMAIN flow'[k].read
    BY DEF Held
  <2>2. \A i : i \in Held' <=> i \in Held
    BY <1>5, <2>1, HeldIs
  <2> QED
    BY <2>2 DEF Held
<1>7. Payments'
  <2>1. SubmissionKnows'
    <3>1. ASSUME NEW k \in Flows, Submitting(k)
          PROVE  /\ flow'[k].pc = "adjust" => flow'[k].group \in flow'[k].todo
                 /\ flow[k].dirty \subseteq PaidBy(k)
                 /\ \A i \in PaidBy(k) \ flow[k].dirty :
                       lock = k /\ i \in Tracks(work) /\ work.track[i].paid
      BY <1>2, <1>4, <3>1 DEF IInv, Payments, SubmissionKnows
    <3>2. ASSUME NEW k \in Flows, Submitting(k)'
          PROVE  /\ flow'[k].pc = "adjust" => flow'[k].group \in flow'[k].todo
                 /\ flow'[k].dirty \subseteq PaidBy(k)'
                 /\ \A i \in PaidBy(k)' \ flow'[k].dirty :
                       lock = k /\ i \in Tracks(work) /\ work.track[i].paid
      <4>1. Submitting(k) /\ flow'[k].dirty = flow[k].dirty /\ PaidBy(k)' = PaidBy(k)
        BY <1>5, <3>2
      <4> QED
        BY <3>1, <4>1
    <3> QED
      BY <1>1, <3>2 DEF SubmissionKnows
  <2>2. ASSUME NEW i \in Tracks(db), work.track[i].paid # db.track[i].paid
        PROVE  \E k \in Flows : lock = k /\ Submitting(k)' /\ i \in PaidBy(k)'
    BY <1>5, <2>2 DEF IInv, Payments, PaymentsPending
  <2>3. PaymentsPending'
    BY <1>1, <1>6, <2>2 DEF IInv, Payments, PaymentsPending
  <2>4. ReadOnce'
    <3>1. ASSUME NEW i \in Tracks(db) \ excused, NEW k \in Flows, Submitting(k), i \in DOMAIN flow[k].read
          PROVE  /\ \A l \in Flows : Submitting(l) /\ i \in DOMAIN flow[l].read => k = l
                 /\ ~db.track[i].paid
                 /\ adjusted[i] = IF i \in PaidBy(k) THEN 1 ELSE 0
      BY <3>1 DEF IInv, Payments, ReadOnce
    <3>2. ASSUME NEW i \in Tracks(db) \ excused, NEW k \in Flows, Submitting(k)', i \in DOMAIN flow'[k].read
          PROVE  /\ \A l \in Flows : Submitting(l)' /\ i \in DOMAIN flow'[l].read => k = l
                 /\ ~db.track[i].paid
                 /\ adjusted[i] = IF i \in PaidBy(k)' THEN 1 ELSE 0
      <4>1. Submitting(k) /\ i \in DOMAIN flow[k].read /\ PaidBy(k)' = PaidBy(k)
        BY <1>5, <3>2
      <4>2. \A l \in Flows : Submitting(l)' /\ i \in DOMAIN flow'[l].read => k = l
        BY <1>5, <3>1, <4>1
      <4>3. ~db.track[i].paid /\ adjusted[i] = IF i \in PaidBy(k) THEN 1 ELSE 0
        BY <3>1, <4>1
      <4>4. i \in PaidBy(k)' <=> i \in PaidBy(k)
        BY <4>1
      <4>5. adjusted[i] = IF i \in PaidBy(k)' THEN 1 ELSE 0
        BY <4>3, <4>4
      <4> QED
        BY <4>2, <4>3, <4>5
    <3>3. adjusted' = adjusted /\ excused' = excused
      OBVIOUS
    <3> QED
      BY <1>1, <3>2, <3>3 DEF ReadOnce
  <2>5. AdjustedOnce'
    BY <1>1, <1>5 DEF IInv, Payments, AdjustedOnce
  <2> QED
    BY <2>1, <2>3, <2>4, <2>5 DEF Payments
<1>8. adjusted' \in [Ids -> Nat] /\ excused' \subseteq Ids /\ commands' \in Nat /\ commands <= commands'
  BY DEF IInv, Base, TypeOK
<1> QED
  BY <1>1, <1>2, <1>4, <1>7, <1>8, SubmissionKeeps DEF IInv, Base, session

LEMMA MemberNoneKeeps ==
  ASSUME IInv, NEW f \in Flows, NEW g \in Chars \X Rates, MemberNone(f, g), UNCHANGED <<clock, commands>>
  PROVE  IInv'
<1> DEFINE S == {i \in DOMAIN flow[f].read : flow[f].read[i] # g}
           R == [i \in S |-> flow[f].read[i]]
           h == [flow[f] EXCEPT !.todo = @ \ {g}, !.read = R]
<1>1. /\ db' = db /\ work' = work /\ lock' = lock /\ adjusted' = adjusted /\ excused' = excused
      /\ flow[f].pc = "member" /\ g \in flow[f].todo /\ flow[f] \in Handler
  BY DEF MemberNone, session, IInv, Base, TypeOK
<1>2. R \in Reading /\ DOMAIN R = S /\ \A i \in S : R[i] = flow[f].read[i]
  <2>1. flow[f].read \in Reading
    BY <1>1 DEF Handler
  <2>2. S \in SUBSET Ids /\ R \in [S -> Chars \X Rates]
    BY <2>1, ReadingIs
  <2>3. DOMAIN R = S /\ \A i \in S : R[i] = flow[f].read[i]
    OBVIOUS
  <2> HIDE DEF R, S
  <2> QED
    BY <2>2, <2>3, ReadingOf
<1>3. flow' = [flow EXCEPT ![f] = h]
  BY DEF MemberNone, IInv, Base, TypeOK
<1>a. \A i : i \in S <=> i \in DOMAIN flow[f].read /\ flow[f].read[i] # g
  OBVIOUS
<1> HIDE DEF R, S
<1>4. /\ h \in Handler /\ h.pc = "member" /\ h.todo = flow[f].todo \ {g}
      /\ h.read = R /\ h.dirty = flow[f].dirty
  BY <1>1, <1>2 DEF Handler
<1> HIDE DEF h
<1>5. /\ flow' \in [Flows -> Handler] /\ flow'[f] = h
      /\ \A k \in Flows : k # f => flow'[k] = flow[k]
  BY <1>3, <1>4, FlowSet DEF IInv, Base, TypeOK
<1>6. PaidBy(f)' = PaidBy(f)
  <2>1. PaidBy(f)' = {i \in DOMAIN R : R[i] \notin flow[f].todo \ {g}}
    BY <1>4, <1>5 DEF PaidBy
  <2>2. \A i : i \in DOMAIN R /\ R[i] \notin flow[f].todo \ {g}
               <=> i \in DOMAIN flow[f].read /\ flow[f].read[i] \notin flow[f].todo
    BY <1>1, <1>2, <1>a
  <2> QED
    BY <2>1, <2>2 DEF PaidBy
<1>7. \A k \in Flows : /\ Submitting(k)' <=> Submitting(k)
                       /\ flow'[k].dirty = flow[k].dirty
                       /\ PaidBy(k)' = PaidBy(k)
                       /\ \A i : i \in DOMAIN flow'[k].read => i \in DOMAIN flow[k].read
  <2>1. \A i : i \in DOMAIN flow'[f].read => i \in DOMAIN flow[f].read
    BY <1>2, <1>4, <1>5, <1>a
  <2>2. \A k \in Flows : k # f => PaidBy(k)' = PaidBy(k)
    BY <1>5 DEF PaidBy
  <2>3. \A k \in Flows : Submitting(k)' <=> Submitting(k)
    BY <1>1, <1>4, <1>5 DEF Submitting
  <2> QED
    BY <1>4, <1>5, <1>6, <2>1, <2>2, <2>3
<1>8. \A i : i \in Held' => i \in Held
  <2>1. \A i : i \in Held' <=> \E k \in Flows : Submitting(k)' /\ i \in DOMAIN flow'[k].read
    BY DEF Held
  <2> QED
    BY <1>7, <2>1, HeldIs
<1>9. Payments'
  <2>1. SubmissionKnows'
    <3>1. \A k \in Flows : Submitting(k) /\ flow'[k].pc = "adjust" => flow'[k].group \in flow'[k].todo
      BY <1>4, <1>5 DEF IInv, Payments, SubmissionKnows
    <3> QED
      BY <1>1, <1>7, <3>1 DEF IInv, Payments, SubmissionKnows
  <2>2. ASSUME NEW i \in Tracks(db), work.track[i].paid # db.track[i].paid
        PROVE  \E k \in Flows : lock = k /\ Submitting(k)' /\ i \in PaidBy(k)'
    BY <1>7, <2>2 DEF IInv, Payments, PaymentsPending
  <2>3. PaymentsPending'
    BY <1>1, <1>8, <2>2 DEF IInv, Payments, PaymentsPending
  <2>4. ReadOnce'
    BY <1>1, <1>7 DEF IInv, Payments, ReadOnce
  <2>5. ASSUME NEW i \in Tracks(db) \ excused, \A k \in Flows : Submitting(k)' => i \notin DOMAIN flow'[k].read
        PROVE  adjusted[i] = IF db.track[i].paid THEN 1 ELSE 0
    <3>1. CASE \A k \in Flows : Submitting(k) => i \notin DOMAIN flow[k].read
      BY <2>5, <3>1 DEF IInv, Payments, AdjustedOnce
    <3>2. ASSUME NEW k \in Flows, Submitting(k), i \in DOMAIN flow[k].read
          PROVE  ~db.track[i].paid /\ adjusted[i] = 0
      <4>1. k = f /\ i \notin S
        BY <1>2, <1>4, <1>5, <1>7, <2>5, <3>2
      <4>2. i \notin PaidBy(f)
        BY <1>1, <1>a, <3>2, <4>1 DEF PaidBy
      <4> QED
        BY <2>5, <3>2, <4>1, <4>2 DEF IInv, Payments, ReadOnce
    <3> QED
      BY <3>1, <3>2
  <2>6. AdjustedOnce'
    BY <1>1, <2>5 DEF AdjustedOnce
  <2> QED
    BY <2>1, <2>3, <2>4, <2>6 DEF Payments
<1>10. adjusted' \in [Ids -> Nat] /\ excused' \subseteq Ids /\ commands' \in Nat /\ commands <= commands'
  BY <1>1 DEF IInv, Base, TypeOK
<1> QED
  BY <1>1, <1>4, <1>5, <1>9, <1>10, SubmissionKeeps DEF IInv, Base, session

LEMMA AdjustedKeeps ==
  ASSUME IInv, NEW f \in Flows, Adjusted(f), UNCHANGED <<clock, commands>>
  PROVE  IInv'
<1> DEFINE g == flow[f].group
           I == Items(f)
           h == [flow[f] EXCEPT !.pc = "member", !.dirty = @ \cup I, !.todo = @ \ {g}, !.group = NoOne]
<1>1. /\ db' = db /\ work' = work /\ lock' = lock /\ excused' = excused
      /\ flow[f].pc = "adjust" /\ flow[f] \in Handler /\ Submitting(f) /\ g \in flow[f].todo
      /\ adjusted' = [i \in Ids |-> IF i \in I \cap Tracks(db) THEN adjusted[i] + 1 ELSE adjusted[i]]
  BY DEF Adjusted, Pays, session, Submitting, IInv, Base, TypeOK, Payments, SubmissionKnows
<1>2. \A i : i \in I <=> i \in DOMAIN flow[f].read /\ flow[f].read[i] = g
  BY DEF Items
<1>3. flow' = [flow EXCEPT ![f] = h]
  BY DEF Adjusted, IInv, Base, TypeOK
<1>4. /\ h \in Handler /\ h.pc = "member" /\ h.todo = flow[f].todo \ {g}
      /\ h.read = flow[f].read /\ h.dirty = flow[f].dirty \cup I
  <2>1. I \subseteq Ids
    <3>1. flow[f].read \in Reading
      BY <1>1 DEF Handler
    <3> QED
      BY <3>1, ReadingIs DEF Items
  <2> HIDE DEF I, g
  <2> QED
    BY <1>1, <2>1 DEF Handler
<1> HIDE DEF h, I
<1>5. /\ flow' \in [Flows -> Handler] /\ flow'[f] = h
      /\ \A k \in Flows : k # f => flow'[k] = flow[k]
  BY <1>3, <1>4, FlowSet DEF IInv, Base, TypeOK
<1>6. PaidBy(f)' = PaidBy(f) \cup I /\ \A i \in I : i \notin PaidBy(f)
  <2>1. PaidBy(f)' = {i \in DOMAIN flow[f].read : flow[f].read[i] \notin flow[f].todo \ {g}}
    BY <1>4, <1>5 DEF PaidBy
  <2>2. \A i : i \in DOMAIN flow[f].read /\ flow[f].read[i] \notin flow[f].todo \ {g}
               <=> \/ i \in DOMAIN flow[f].read /\ flow[f].read[i] \notin flow[f].todo
                   \/ i \in I
    BY <1>2
  <2>3. PaidBy(f) = {i \in DOMAIN flow[f].read : flow[f].read[i] \notin flow[f].todo}
    BY DEF PaidBy
  <2> HIDE DEF g
  <2> QED
    BY <1>1, <1>2, <2>1, <2>2, <2>3
<1>7. \A k \in Flows : /\ Submitting(k)' <=> Submitting(k)
                       /\ flow'[k].read = flow[k].read
                       /\ k # f => PaidBy(k)' = PaidBy(k)
  BY <1>1, <1>4, <1>5 DEF Submitting, PaidBy
<1>8. Held' = Held
  <2>1. \A i : i \in Held' <=> \E k \in Flows : Submitting(k)' /\ i \in DOMAIN flow'[k].read
    BY DEF Held
  <2>2. \A i : i \in Held' <=> i \in Held
    BY <1>7, <2>1, HeldIs
  <2> QED
    BY <2>2 DEF Held
<1>a. \A i \in Ids : adjusted'[i] = IF i \in I /\ i \in Tracks(db) THEN adjusted[i] + 1 ELSE adjusted[i]
  BY <1>1
<1>b. Tracks(db) \subseteq Ids /\ Tracks(work) \subseteq Ids
  BY DEF Tracks
<1>9. Payments'
  <2>1. SubmissionKnows'
    <3>1. ASSUME NEW k \in Flows, Submitting(k)
          PROVE  /\ flow'[k].pc = "adjust" => flow'[k].group \in flow'[k].todo
                 /\ flow'[k].dirty \subseteq PaidBy(k)'
                 /\ \A i \in PaidBy(k)' \ flow'[k].dirty :
                       lock = k /\ i \in Tracks(work) /\ work.track[i].paid
      <4>1. CASE k = f
        BY <1>4, <1>5, <1>6, <3>1, <4>1 DEF IInv, Payments, SubmissionKnows
      <4>2. CASE k # f
        BY <1>5, <1>7, <3>1, <4>2 DEF IInv, Payments, SubmissionKnows
      <4> QED
        BY <4>1, <4>2
    <3> QED
      BY <1>1, <1>7, <3>1 DEF SubmissionKnows
  <2>2. PaymentsPending'
    <3>1. ASSUME NEW i \in Tracks(db), work.track[i].paid # db.track[i].paid
          PROVE  \E k \in Flows : lock = k /\ Submitting(k)' /\ i \in PaidBy(k)'
      <4>1. PICK k \in Flows : lock = k /\ Submitting(k) /\ i \in PaidBy(k)
        BY <3>1 DEF IInv, Payments, PaymentsPending
      <4>2. i \in PaidBy(k)'
        BY <1>6, <1>7, <4>1
      <4> QED
        BY <1>7, <4>1, <4>2
    <3>2. ASSUME NEW i \in Tracks(work) \ Tracks(db), i \notin excused
          PROVE  ~work.track[i].paid /\ adjusted'[i] = 0 /\ i \notin Held'
      BY <1>8, <1>a, <1>b, <3>2 DEF IInv, Payments, PaymentsPending
    <3>3. Tracks(db) \subseteq Tracks(work)
      BY DEF IInv, Payments, PaymentsPending
    <3> QED
      BY <1>1, <3>1, <3>2, <3>3 DEF PaymentsPending
  <2>3. ReadOnce'
    <3>1. ASSUME NEW i \in Tracks(db) \ excused, NEW k \in Flows, Submitting(k), i \in DOMAIN flow[k].read
          PROVE  /\ \A l \in Flows : Submitting(l) /\ i \in DOMAIN flow[l].read => k = l
                 /\ ~db.track[i].paid
                 /\ adjusted'[i] = IF i \in PaidBy(k)' THEN 1 ELSE 0
      <4>1. /\ \A l \in Flows : Submitting(l) /\ i \in DOMAIN flow[l].read => k = l
            /\ ~db.track[i].paid
            /\ adjusted[i] = IF i \in PaidBy(k) THEN 1 ELSE 0
        BY <3>1 DEF IInv, Payments, ReadOnce
      <4>2. CASE k = f
        BY <1>6, <1>a, <1>b, <4>1, <4>2
      <4>3. CASE k # f
        <5>1. i \notin I
          BY <1>1, <1>2, <4>1, <4>3
        <5> QED
          BY <1>7, <1>a, <1>b, <4>1, <4>3, <5>1
      <4> QED
        BY <4>2, <4>3
    <3> QED
      BY <1>1, <1>7, <3>1 DEF ReadOnce
  <2>4. AdjustedOnce'
    <3>1. ASSUME NEW i \in Tracks(db) \ excused, \A k \in Flows : Submitting(k) => i \notin DOMAIN flow[k].read
          PROVE  adjusted'[i] = IF db.track[i].paid THEN 1 ELSE 0
      <4>1. i \notin I
        BY <1>1, <1>2, <3>1
      <4>2. adjusted[i] = IF db.track[i].paid THEN 1 ELSE 0
        BY <3>1 DEF IInv, Payments, AdjustedOnce
      <4> QED
        BY <1>a, <1>b, <4>1, <4>2
    <3> QED
      BY <1>1, <1>7, <3>1 DEF AdjustedOnce
  <2> QED
    BY <2>1, <2>2, <2>3, <2>4 DEF Payments
<1>10. adjusted' \in [Ids -> Nat] /\ excused' \subseteq Ids /\ commands' \in Nat /\ commands <= commands'
  BY <1>1 DEF IInv, Base, TypeOK
<1> QED
  BY <1>1, <1>4, <1>5, <1>9, <1>10, SubmissionKeeps DEF IInv, Base, session

\* A submission ends without a commit.
LEMMA DiesKeeps ==
  ASSUME IInv, NEW f \in Flows, Submitting(f), Close(f), Ends(f), UNCHANGED <<clock, commands>>,
         adjusted' \in [Ids -> Nat], excused \subseteq excused', excused' \subseteq Ids,
         PaidBy(f) \cap Tracks(db) \subseteq excused',
         \A i \in Tracks(db) \ excused' : adjusted'[i] = adjusted[i],
         \A i \in Ids \ Tracks(db) : adjusted'[i] = adjusted[i]
  PROVE  IInv'
<1>1. /\ flow' \in [Flows -> Handler] /\ flow'[f] = Idle
      /\ \A k \in Flows : k # f => flow'[k] = flow[k]
  BY IdleIs, FlowSet DEF IInv, Base, TypeOK, Ends
<1>2. /\ db' = db
      /\ \/ lock # f /\ work' = work /\ lock' = lock
         \/ lock = f /\ work' = db /\ lock' = NoOne
  BY DEF Close, session
<1>3. \A k \in Flows : /\ Submitting(k)' <=> Submitting(k) /\ k # f
                       /\ k # f => flow'[k] = flow[k] /\ PaidBy(k)' = PaidBy(k)
  BY <1>1, IdleIs DEF Submitting, PaidBy
<1>4. \A i : i \in Held' => i \in Held
  <2>1. \A i : i \in Held' <=> \E k \in Flows : Submitting(k)' /\ i \in DOMAIN flow'[k].read
    BY DEF Held
  <2> QED
    BY <1>3, <2>1, HeldIs
<1>5. Tracks(db) \subseteq Ids /\ Tracks(work) \subseteq Ids
  BY DEF Tracks
<1>6. SubmissionKnows'
  <2>1. ASSUME NEW k \in Flows, Submitting(k), k # f
        PROVE  /\ flow[k].pc = "adjust" => flow[k].group \in flow[k].todo
               /\ flow[k].dirty \subseteq PaidBy(k)
               /\ \A i \in PaidBy(k) \ flow[k].dirty :
                     lock' = k /\ i \in Tracks(work') /\ work'.track[i].paid
    BY <1>2, <2>1 DEF IInv, Payments, SubmissionKnows
  <2> QED
    BY <1>3, <2>1 DEF SubmissionKnows
<1>7. PaymentsPending'
  <2>1. Tracks(db) \subseteq Tracks(work')
    BY <1>2 DEF IInv, Payments, PaymentsPending
  <2>2. ASSUME NEW i \in Tracks(db), work'.track[i].paid # db.track[i].paid
        PROVE  \E k \in Flows : lock' = k /\ Submitting(k)' /\ i \in PaidBy(k)'
    BY <1>2, <1>3, <2>2 DEF IInv, Payments, PaymentsPending
  <2>3. ASSUME NEW i \in Tracks(work') \ Tracks(db), i \notin excused'
        PROVE  ~work'.track[i].paid /\ adjusted'[i] = 0 /\ i \notin Held'
    <3>1. lock # f /\ work' = work /\ i \in Tracks(work) /\ i \notin excused
      BY <1>2, <2>3
    <3>2. ~work.track[i].paid /\ adjusted[i] = 0 /\ i \notin Held
      BY <2>3, <3>1 DEF IInv, Payments, PaymentsPending
    <3> QED
      BY <1>4, <1>5, <2>3, <3>1, <3>2
  <2> QED
    BY <1>2, <2>1, <2>2, <2>3 DEF PaymentsPending
<1>8. ReadOnce'
  <2>1. ASSUME NEW i \in Tracks(db) \ excused', NEW k \in Flows, Submitting(k), k # f, i \in DOMAIN flow[k].read
        PROVE  /\ \A l \in Flows : Submitting(l) /\ i \in DOMAIN flow[l].read => k = l
               /\ ~db.track[i].paid
               /\ adjusted'[i] = IF i \in PaidBy(k) THEN 1 ELSE 0
    BY <2>1 DEF IInv, Payments, ReadOnce
  <2> QED
    BY <1>2, <1>3, <2>1 DEF ReadOnce
<1>9. AdjustedOnce'
  <2>1. ASSUME NEW i \in Tracks(db) \ excused',
               \A k \in Flows : Submitting(k)' => i \notin DOMAIN flow'[k].read
        PROVE  adjusted'[i] = IF db.track[i].paid THEN 1 ELSE 0
    <3>1. i \in Tracks(db) \ excused /\ adjusted'[i] = adjusted[i] /\ i \notin PaidBy(f)
      OBVIOUS
    <3>2. \A k \in Flows : Submitting(k) /\ k # f => i \notin DOMAIN flow[k].read
      BY <1>3, <2>1
    <3>3. CASE i \in DOMAIN flow[f].read
      BY <3>1, <3>3 DEF IInv, Payments, ReadOnce
    <3>4. CASE i \notin DOMAIN flow[f].read
      BY <3>1, <3>2, <3>4 DEF IInv, Payments, AdjustedOnce
    <3> QED
      BY <3>3, <3>4
  <2> QED
    BY <1>2, <2>1 DEF AdjustedOnce
<1>10. Payments'
  BY <1>6, <1>7, <1>8, <1>9 DEF Payments
<1>11. /\ flow[f].pc \in {"idle", "member", "adjust"} /\ flow'[f].pc = "idle"
       /\ clock' = clock /\ commands' \in Nat /\ commands <= commands' /\ Good(db') /\ Good(db)
  BY <1>1, <1>2, IdleIs DEF Submitting, IInv, Base, TypeOK
<1>12. CASE lock # f
  BY <1>1, <1>2, <1>10, <1>11, <1>12, SubmissionKeeps DEF IInv, Base, session
<1>13. CASE lock = f
  BY <1>1, <1>2, <1>10, <1>11, <1>13, SubmissionKeeps DEF MayWrite
<1> QED
  BY <1>12, <1>13

LEMMA SubmitDiesKeeps ==
  ASSUME IInv, NEW f \in Flows, Submitting(f), SubmitDies(f), UNCHANGED <<adjusted, clock, commands>>
  PROVE  IInv'
<1>1. Tracks(db) \subseteq Ids /\ excused \subseteq Ids
  BY DEF Tracks, IInv, Base, TypeOK
<1>2. /\ adjusted' \in [Ids -> Nat] /\ adjusted' = adjusted
      /\ excused \subseteq excused' /\ excused' \subseteq Ids
      /\ PaidBy(f) \cap Tracks(db) \subseteq excused'
  BY <1>1 DEF SubmitDies, IInv, Base, TypeOK
<1> QED
  BY <1>2, DiesKeeps DEF SubmitDies

LEMMA AdjustLostKeeps ==
  ASSUME IInv, NEW f \in Flows, AdjustLost(f), UNCHANGED <<clock, commands>>
  PROVE  IInv'
<1> DEFINE I == Items(f) \cap Tracks(db)
<1>1. Tracks(db) \subseteq Ids /\ excused \subseteq Ids /\ adjusted \in [Ids -> Nat]
  BY DEF Tracks, IInv, Base, TypeOK
<1>2. \A i : i \in I <=> i \in Items(f) /\ i \in Tracks(db)
  OBVIOUS
<1>3. adjusted' = [i \in Ids |-> IF i \in I THEN adjusted[i] + 1 ELSE adjusted[i]]
  BY DEF AdjustLost, Pays
<1> HIDE DEF I
<1>4. adjusted' \in [Ids -> Nat] /\ \A i \in Ids : i \notin I => adjusted'[i] = adjusted[i]
  BY <1>1, <1>3
<1>5. /\ excused \subseteq excused' /\ excused' \subseteq Ids
      /\ PaidBy(f) \cap Tracks(db) \subseteq excused'
      /\ \A i \in I : i \in excused'
  BY <1>1, <1>2 DEF AdjustLost
<1>6. /\ \A i \in Tracks(db) \ excused' : adjusted'[i] = adjusted[i]
      /\ \A i \in Ids \ Tracks(db) : adjusted'[i] = adjusted[i]
  BY <1>1, <1>2, <1>4, <1>5
<1>7. Submitting(f) /\ Close(f) /\ Ends(f)
  BY DEF AdjustLost, Submitting
<1> QED
  BY <1>4, <1>5, <1>6, <1>7, DiesKeeps

LEMMA MemberKeptKeeps ==
  ASSUME IInv, NEW f \in Flows, NEW g \in Chars \X Rates, MemberKept(f, g), UNCHANGED <<clock, commands>>
  PROVE  IInv'
<1>1. /\ flow[f].pc = "member" /\ g \in flow[f].todo
      /\ flow' = [flow EXCEPT ![f].pc = "adjust", ![f].group = g]
      /\ UNCHANGED session /\ UNCHANGED <<adjusted, excused, clock, commands>>
  BY DEF MemberKept
<1> QED
  BY <1>1, MemberKeeps

\* A submission writes what it has paid and goes on.
LEMMA FlushKeeps ==
  ASSUME IInv, NEW f \in Flows, NEW g \in Chars \X Rates, flow[f].pc = "member", g \in flow[f].todo,
         CanMark(f), Write(f, Marked(View(f), flow[f].dirty)),
         flow' = [flow EXCEPT ![f].pc = "adjust", ![f].group = g, ![f].dirty = {}],
         UNCHANGED <<adjusted, excused, clock, commands>>
  PROVE  IInv'
<1> DEFINE h == [flow[f] EXCEPT !.pc = "adjust", !.group = g, !.dirty = {}]
           D == flow[f].dirty
           d == Marked(work, D)
<1>1. /\ MayWrite(f) /\ D \in SUBSET Tracks(work) /\ db' = db /\ work' = d /\ lock' = f
      /\ flow[f] \in Handler /\ adjusted' = adjusted /\ excused' = excused
      /\ Good(work) /\ Submitting(f)
  <2>1. MayWrite(f) /\ View(f) = work
    BY ViewIs DEF CanMark, IInv, Base, LockHeld
  <2> QED
    BY <2>1 DEF CanMark, Write, IInv, Base, TypeOK, Submitting
<1>2. /\ Good(d) /\ d.event = work.event /\ Tracks(d) = Tracks(work)
      /\ \A i \in Tracks(work) : d.track[i].paid = (i \in D \/ work.track[i].paid)
  BY <1>1, MarkedIs
<1>3. /\ h \in Handler /\ h.pc = "adjust" /\ h.group = g /\ h.todo = flow[f].todo
      /\ h.read = flow[f].read /\ h.dirty = {}
  BY <1>1 DEF Handler
<1>4. flow' = [flow EXCEPT ![f] = h]
  BY DEF IInv, Base, TypeOK
<1>d. D = flow[f].dirty
  OBVIOUS
<1> HIDE DEF h, d, D
<1>5. /\ flow' \in [Flows -> Handler] /\ flow'[f] = h
      /\ \A k \in Flows : k # f => flow'[k] = flow[k]
  BY <1>3, <1>4, FlowSet DEF IInv, Base, TypeOK
<1>6. \A k \in Flows : /\ Submitting(k)' <=> Submitting(k)
                       /\ flow'[k].read = flow[k].read
                       /\ PaidBy(k)' = PaidBy(k)
                       /\ k # f => flow'[k] = flow[k]
  BY <1>1, <1>3, <1>5 DEF Submitting, PaidBy
<1>7. Held' = Held
  <2>1. \A i : i \in Held' <=> \E k \in Flows : Submitting(k)' /\ i \in DOMAIN flow'[k].read
    BY DEF Held
  <2>2. \A i : i \in Held' <=> i \in Held
    BY <1>6, <2>1, HeldIs
  <2> QED
    BY <2>2 DEF Held
<1>8. D \subseteq PaidBy(f) /\ PaidBy(f) \subseteq Held
  <2>1. D \subseteq PaidBy(f)
    BY <1>1, <1>d DEF IInv, Payments, SubmissionKnows
  <2> QED
    BY <1>1, <2>1, PaidIsRead, HeldIs
<1>9. \A k \in Flows : k # f => lock # k
  BY <1>1, Constants DEF MayWrite
<1>10. SubmissionKnows'
  <2>1. ASSUME NEW k \in Flows, Submitting(k)'
        PROVE  /\ flow'[k].pc = "adjust" => flow'[k].group \in flow'[k].todo
               /\ flow'[k].dirty \subseteq PaidBy(k)'
               /\ \A i \in PaidBy(k)' \ flow'[k].dirty :
                     lock' = k /\ i \in Tracks(work') /\ work'.track[i].paid
    <3>1. CASE k = f
      <4>1. \A i \in PaidBy(f) : i \in D \/ (i \in Tracks(work) /\ work.track[i].paid)
        BY <1>1, <1>d DEF IInv, Payments, SubmissionKnows
      <4>2. \A i \in PaidBy(f) : i \in Tracks(d) /\ d.track[i].paid
        BY <1>1, <1>2, <4>1
      <4> QED
        BY <1>1, <1>3, <1>5, <1>6, <3>1, <4>2
    <3>2. CASE k # f
      <4>1. Submitting(k) /\ flow'[k] = flow[k] /\ PaidBy(k)' = PaidBy(k) /\ lock # k
        BY <1>6, <1>9, <2>1, <3>2
      <4> QED
        BY <4>1 DEF IInv, Payments, SubmissionKnows
    <3> QED
      BY <3>1, <3>2
  <2> QED
    BY <2>1 DEF SubmissionKnows
<1>11. PaymentsPending'
  <2>1. Tracks(db) \subseteq Tracks(d)
    BY <1>2 DEF IInv, Payments, PaymentsPending
  <2>2. ASSUME NEW i \in Tracks(db), d.track[i].paid # db.track[i].paid
        PROVE  \E k \in Flows : f = k /\ Submitting(k)' /\ i \in PaidBy(k)'
    <3>1. CASE i \in D
      BY <1>1, <1>6, <1>8, <3>1
    <3>2. CASE i \notin D
      <4>1. i \in Tracks(work) /\ work.track[i].paid \in BOOLEAN
        <5>1. i \in Tracks(work)
          BY <1>2, <2>1
        <5>2. work.track[i] \in Track
          BY <5>1, Rows DEF IInv, Base, Good
        <5> QED
          BY <5>1, <5>2 DEF Track
      <4>2. work.track[i].paid # db.track[i].paid
        BY <1>2, <2>2, <3>2, <4>1
      <4>3. PICK k \in Flows : lock = k /\ Submitting(k) /\ i \in PaidBy(k)
        BY <4>2 DEF IInv, Payments, PaymentsPending
      <4> QED
        BY <1>6, <1>9, <4>3
    <3> QED
      BY <3>1, <3>2
  <2>3. ASSUME NEW i \in Tracks(d) \ Tracks(db), i \notin excused
        PROVE  ~d.track[i].paid /\ adjusted[i] = 0 /\ i \notin Held
    <3>1. ~work.track[i].paid /\ adjusted[i] = 0 /\ i \notin Held
      BY <1>2, <2>3 DEF IInv, Payments, PaymentsPending
    <3> QED
      BY <1>2, <1>8, <2>3, <3>1
  <2> QED
    BY <1>1, <1>7, <2>1, <2>2, <2>3 DEF PaymentsPending
<1>12. ReadOnce'
  <2>1. ASSUME NEW i \in Tracks(db) \ excused, NEW k \in Flows, Submitting(k), i \in DOMAIN flow[k].read
        PROVE  /\ \A l \in Flows : Submitting(l) /\ i \in DOMAIN flow[l].read => k = l
               /\ ~db.track[i].paid
               /\ adjusted[i] = IF i \in PaidBy(k) THEN 1 ELSE 0
    BY <2>1 DEF IInv, Payments, ReadOnce
  <2>2. ASSUME NEW i \in Tracks(db) \ excused, NEW k \in Flows, Submitting(k)', i \in DOMAIN flow'[k].read
        PROVE  /\ \A l \in Flows : Submitting(l)' /\ i \in DOMAIN flow'[l].read => k = l
               /\ ~db.track[i].paid
               /\ adjusted[i] = IF i \in PaidBy(k)' THEN 1 ELSE 0
    <3>1. Submitting(k) /\ i \in DOMAIN flow[k].read /\ PaidBy(k)' = PaidBy(k)
      BY <1>6, <2>2
    <3>2. \A l \in Flows : Submitting(l)' /\ i \in DOMAIN flow'[l].read => k = l
      BY <1>6, <2>1, <3>1
    <3>3. ~db.track[i].paid /\ adjusted[i] = IF i \in PaidBy(k) THEN 1 ELSE 0
      BY <2>1, <3>1
    <3>4. i \in PaidBy(k)' <=> i \in PaidBy(k)
      BY <3>1
    <3>5. adjusted[i] = IF i \in PaidBy(k)' THEN 1 ELSE 0
      BY <3>3, <3>4
    <3> QED
      BY <3>2, <3>3, <3>5
  <2> QED
    BY <1>1, <2>2 DEF ReadOnce
<1>13. AdjustedOnce'
  <2>1. ASSUME NEW i \in Tracks(db) \ excused, \A k \in Flows : Submitting(k)' => i \notin DOMAIN flow'[k].read
        PROVE  adjusted[i] = IF db.track[i].paid THEN 1 ELSE 0
    BY <1>6, <2>1 DEF IInv, Payments, AdjustedOnce
  <2> QED
    BY <1>1, <2>1 DEF AdjustedOnce
<1>14. Payments'
  BY <1>10, <1>11, <1>12, <1>13 DEF Payments
<1>15. /\ flow[f].pc \in {"idle", "member", "adjust"} /\ flow'[f].pc = "adjust"
       /\ clock' = clock /\ commands' \in Nat /\ commands <= commands' /\ Good(db') /\ Good(work')
       /\ adjusted' \in [Ids -> Nat] /\ excused' \subseteq Ids
  BY <1>1, <1>2, <1>3, <1>5 DEF IInv, Base, TypeOK
<1> QED
  BY <1>1, <1>2, <1>5, <1>14, <1>15, SubmissionKeeps

LEMMA MemberFoundKeeps ==
  ASSUME IInv, NEW f \in Flows, NEW g \in Chars \X Rates, NEW changed \in BOOLEAN,
         MemberFound(f, g, changed), UNCHANGED <<clock, commands>>
  PROVE  IInv'
<1>1. flow[f].pc = "member" /\ g \in flow[f].todo /\ UNCHANGED adjusted /\ Submitting(f)
  BY DEF MemberFound, Submitting
<1>2. CASE /\ UNCHANGED session /\ UNCHANGED excused
           /\ flow' = [flow EXCEPT ![f].pc = "adjust", ![f].group = g]
  BY <1>1, <1>2, MemberKeeps
<1>3. CASE /\ CanMark(f) /\ Write(f, Marked(View(f), flow[f].dirty)) /\ UNCHANGED excused
           /\ flow' = [flow EXCEPT ![f].pc = "adjust", ![f].group = g, ![f].dirty = {}]
  BY <1>1, <1>3, FlushKeeps
<1>4. CASE SubmitDies(f)
  BY <1>1, <1>4, SubmitDiesKeeps
<1> QED
  BY <1>2, <1>3, <1>4 DEF MemberFound

LEMMA SubmitFailsKeeps ==
  ASSUME IInv, NEW f \in Flows, SubmitFails(f), UNCHANGED <<clock, commands>>
  PROVE  IInv'
<1>1. Submitting(f) /\ SubmitDies(f) /\ UNCHANGED <<adjusted, clock, commands>>
  BY DEF SubmitFails
<1> QED
  BY <1>1, SubmitDiesKeeps

\* A submission commits that it has paid.
LEMMA CommitKeeps ==
  ASSUME IInv, NEW f \in Flows, flow[f].pc = "member", flow[f].todo = {}, CanMark(f),
         Commit(Marked(View(f), flow[f].dirty)), Ends(f), UNCHANGED <<adjusted, excused, clock, commands>>
  PROVE  IInv'
<1> DEFINE D == flow[f].dirty
           d == Marked(work, D)
<1>1. /\ MayWrite(f) /\ D \in SUBSET Tracks(work) /\ db' = d /\ work' = d /\ lock' = NoOne
      /\ adjusted' = adjusted /\ excused' = excused
      /\ Good(work) /\ Submitting(f) /\ (lock = f \/ lock = NoOne)
  <2>1. MayWrite(f) /\ View(f) = work
    BY ViewIs DEF CanMark, IInv, Base, LockHeld
  <2> QED
    BY <2>1 DEF CanMark, Commit, MayWrite, IInv, Base, Submitting
<1>2. /\ Good(d) /\ d.event = work.event /\ Tracks(d) = Tracks(work)
      /\ \A i \in Tracks(work) : d.track[i].paid = (i \in D \/ work.track[i].paid)
  BY <1>1, MarkedIs
<1>d. D = flow[f].dirty
  OBVIOUS
<1> HIDE DEF d, D
<1>3. /\ flow' \in [Flows -> Handler] /\ flow'[f] = Idle
      /\ \A k \in Flows : k # f => flow'[k] = flow[k]
  BY IdleIs, FlowSet DEF IInv, Base, TypeOK, Ends
<1>4. \A k \in Flows : /\ Submitting(k)' <=> Submitting(k) /\ k # f
                       /\ k # f => flow'[k] = flow[k] /\ PaidBy(k)' = PaidBy(k) /\ lock # k
  BY <1>1, <1>3, IdleIs, Constants DEF Submitting, PaidBy
<1>5. /\ \A i : i \in PaidBy(f) <=> i \in DOMAIN flow[f].read
      /\ D \subseteq PaidBy(f)
      /\ \A i \in PaidBy(f) : i \in D \/ (i \in Tracks(work) /\ work.track[i].paid)
  <2>1. \A i : i \in PaidBy(f) <=> i \in DOMAIN flow[f].read
    BY DEF PaidBy
  <2> QED
    BY <1>1, <1>d, <2>1 DEF IInv, Payments, SubmissionKnows
\* What is new was read by nobody; what is not read by f is as it was.
<1>6. ASSUME NEW i \in Tracks(work) \ excused
      PROVE  /\ i \notin Tracks(db) => i \notin Held /\ ~work.track[i].paid /\ adjusted[i] = 0
             /\ i \in Tracks(db) /\ i \notin DOMAIN flow[f].read => work.track[i].paid = db.track[i].paid
  <2>1. i \notin Tracks(db) => i \notin Held /\ ~work.track[i].paid /\ adjusted[i] = 0
    BY <1>6 DEF IInv, Payments, PaymentsPending
  <2>2. ASSUME i \in Tracks(db), i \notin DOMAIN flow[f].read, work.track[i].paid # db.track[i].paid
        PROVE  FALSE
    <3>1. PICK k \in Flows : lock = k /\ Submitting(k) /\ i \in PaidBy(k)
      BY <2>2 DEF IInv, Payments, PaymentsPending
    <3> QED
      BY <1>4, <1>5, <2>2, <3>1
  <2> QED
    BY <2>1, <2>2
<1>7. SubmissionKnows'
  <2>1. ASSUME NEW k \in Flows, Submitting(k), k # f
        PROVE  /\ flow[k].pc = "adjust" => flow[k].group \in flow[k].todo
               /\ flow[k].dirty \subseteq PaidBy(k)
               /\ \A i \in PaidBy(k) : i \in flow[k].dirty
    BY <1>4, <2>1 DEF IInv, Payments, SubmissionKnows
  <2> QED
    BY <1>4, <2>1 DEF SubmissionKnows
<1>8. PaymentsPending'
  BY <1>1 DEF PaymentsPending
<1>9. ReadOnce'
  <2>1. ASSUME NEW i \in Tracks(d) \ excused, NEW k \in Flows, Submitting(k), k # f, i \in DOMAIN flow[k].read
        PROVE  /\ \A l \in Flows : Submitting(l) /\ i \in DOMAIN flow[l].read => k = l
               /\ ~d.track[i].paid
               /\ adjusted[i] = IF i \in PaidBy(k) THEN 1 ELSE 0
    <3>1. i \in Tracks(work) /\ i \in Held
      BY <1>2, <2>1, HeldIs
    <3>2. i \in Tracks(db) \ excused
      BY <1>6, <2>1, <3>1
    <3>3. /\ \A l \in Flows : Submitting(l) /\ i \in DOMAIN flow[l].read => k = l
          /\ ~db.track[i].paid
          /\ adjusted[i] = IF i \in PaidBy(k) THEN 1 ELSE 0
      BY <2>1, <3>2 DEF IInv, Payments, ReadOnce
    <3>4. i \notin DOMAIN flow[f].read
      BY <1>1, <2>1, <3>3
    <3>5. i \notin D /\ ~work.track[i].paid
      BY <1>5, <1>6, <3>1, <3>2, <3>3, <3>4
    <3>6. ~d.track[i].paid
      BY <1>2, <3>1, <3>5
    <3> QED
      BY <3>3, <3>6
  <2>2. ASSUME NEW i \in Tracks(d) \ excused, NEW k \in Flows, Submitting(k)', i \in DOMAIN flow'[k].read
        PROVE  /\ \A l \in Flows : Submitting(l)' /\ i \in DOMAIN flow'[l].read => k = l
               /\ ~d.track[i].paid
               /\ adjusted[i] = IF i \in PaidBy(k)' THEN 1 ELSE 0
    <3>1. Submitting(k) /\ k # f /\ i \in DOMAIN flow[k].read
      BY <1>4, <2>2
    <3>2. i \in PaidBy(k)' <=> i \in PaidBy(k)
      BY <1>4, <3>1
    <3>3. \A l \in Flows : Submitting(l)' /\ i \in DOMAIN flow'[l].read => k = l
      BY <1>4, <2>1, <3>1
    <3>4. ~d.track[i].paid /\ adjusted[i] = IF i \in PaidBy(k) THEN 1 ELSE 0
      BY <2>1, <3>1
    <3>5. adjusted[i] = IF i \in PaidBy(k)' THEN 1 ELSE 0
      BY <3>2, <3>4
    <3> QED
      BY <3>3, <3>4, <3>5
  <2> QED
    BY <1>1, <2>2 DEF ReadOnce
<1>10. AdjustedOnce'
  <2>1. ASSUME NEW i \in Tracks(d) \ excused,
               \A k \in Flows : Submitting(k)' => i \notin DOMAIN flow'[k].read
        PROVE  adjusted[i] = IF d.track[i].paid THEN 1 ELSE 0
    <3>1. i \in Tracks(work) \ excused
      BY <1>2, <2>1
    <3>2. \A k \in Flows : Submitting(k) /\ k # f => i \notin DOMAIN flow[k].read
      BY <1>4, <2>1
    <3>3. CASE i \in DOMAIN flow[f].read
      <4>1. i \in Held /\ i \in PaidBy(f)
        BY <1>1, <1>5, <3>3, HeldIs
      <4>2. i \in Tracks(db) \ excused
        BY <1>6, <3>1, <4>1
      <4>3. adjusted[i] = 1
        BY <1>1, <3>3, <4>1, <4>2 DEF IInv, Payments, ReadOnce
      <4>4. d.track[i].paid
        BY <1>2, <1>5, <3>1, <4>1
      <4> QED
        BY <4>3, <4>4
    <3>4. CASE i \notin DOMAIN flow[f].read
      <4>0. i \notin D
        BY <1>5, <3>4
      <4>a. work.track[i].paid \in BOOLEAN
        <5>1. work.track[i] \in Track
          BY <1>1, <3>1, Rows DEF Good
        <5> QED
          BY <5>1 DEF Track
      <4>1. d.track[i].paid = work.track[i].paid
        BY <1>2, <3>1, <4>0, <4>a
      <4>2. CASE i \in Tracks(db)
        <5>1. \A k \in Flows : Submitting(k) => i \notin DOMAIN flow[k].read
          BY <3>2, <3>4
        <5>2. adjusted[i] = IF db.track[i].paid THEN 1 ELSE 0
          BY <3>1, <4>2, <5>1 DEF IInv, Payments, AdjustedOnce
        <5> QED
          BY <1>6, <3>1, <3>4, <4>1, <4>2, <5>2
      <4>3. CASE i \notin Tracks(db)
        BY <1>6, <3>1, <4>1, <4>3
      <4> QED
        BY <4>2, <4>3
    <3> QED
      BY <3>3, <3>4
  <2> QED
    BY <1>1, <2>1 DEF AdjustedOnce
<1>11. Payments'
  BY <1>7, <1>8, <1>9, <1>10 DEF Payments
<1>12. /\ flow[f].pc \in {"idle", "member", "adjust"} /\ flow'[f].pc = "idle"
       /\ clock' = clock /\ commands' \in Nat /\ commands <= commands' /\ Good(db') /\ Good(work')
       /\ adjusted' \in [Ids -> Nat] /\ excused' \subseteq Ids
  BY <1>1, <1>2, <1>3, IdleIs DEF IInv, Base, TypeOK
<1> QED
  BY <1>1, <1>2, <1>3, <1>11, <1>12, SubmissionKeeps

\* It has read nothing that is left, or nothing that it wrote.
LEMMA NothingKeeps ==
  ASSUME IInv, NEW f \in Flows, flow[f].pc = "member", flow[f].todo = {}, flow[f].dirty = {}, lock # f,
         UNCHANGED session, Ends(f), UNCHANGED <<adjusted, excused, clock, commands>>
  PROVE  IInv'
<1>1. Submitting(f) /\ Close(f)
  BY DEF Submitting, Close
<1>2. PaidBy(f) = {}
  <2>1. \A i \in PaidBy(f) : FALSE
    BY <1>1 DEF IInv, Payments, SubmissionKnows
  <2> QED
    BY <2>1
<1>3. /\ adjusted' \in [Ids -> Nat] /\ adjusted' = adjusted
      /\ excused \subseteq excused' /\ excused' \subseteq Ids
      /\ PaidBy(f) \cap Tracks(db) \subseteq excused'
  BY <1>2 DEF IInv, Base, TypeOK
<1> QED
  BY <1>1, <1>3, DiesKeeps

LEMMA SubmitEndsKeeps ==
  ASSUME IInv, NEW f \in Flows, SubmitEnds(f), UNCHANGED <<clock, commands>>
  PROVE  IInv'
<1>1. flow[f].pc = "member" /\ flow[f].todo = {} /\ UNCHANGED adjusted /\ Submitting(f)
  BY DEF SubmitEnds, Submitting
<1>2. CASE flow[f].dirty = {} /\ lock # f /\ UNCHANGED <<session, excused>> /\ Ends(f)
  BY <1>1, <1>2, NothingKeeps
<1>3. CASE /\ CanMark(f) /\ Commit(Marked(View(f), flow[f].dirty)) /\ Ends(f)
           /\ UNCHANGED excused
  BY <1>1, <1>3, CommitKeeps
<1>4. CASE SubmitDies(f)
  BY <1>1, <1>4, SubmitDiesKeeps
<1> QED
  BY <1>2, <1>3, <1>4 DEF SubmitEnds

-----------------------------------------------------------------------------
(* All steps *)

LEMMA BatphoneKeeps ==
  ASSUME IInv, NEW f \in Flows, NEW t \in Targets \cup {Quake}, Batphone(f, t), UNCHANGED clock,
         commands' = commands + 1
  PROVE  IInv'
BY CreateKeeps DEF Batphone

LEMMA SingleKeeps ==
  ASSUME IInv, Single, UNCHANGED clock, commands' = commands + 1
  PROVE  IInv'
<1>1. CASE \E c \in Chars, t \in Targets : Stop(c, t)
  BY <1>1, StopKeeps
<1>2. CASE \E i \in Ids : StopButton(i) \/ Delete(i)
  BY <1>2, StopButtonKeeps, DeleteKeeps
<1>3. CASE \E t \in Targets : ClearRte(t)
  BY <1>3, ClearRteKeeps
<1>4. CASE \E e \in Events, c \in Chars : Attend(e, c) \/ Leave(e, c)
  BY <1>4, AttendKeeps, LeaveKeeps
<1> QED
  BY <1>1, <1>2, <1>3, <1>4 DEF Single

LEMMA BeginKeeps ==
  ASSUME IInv, NEW f \in Flows, Begin(f), UNCHANGED clock, commands' = commands + 1
  PROVE  IInv'
<1>1. CASE \E c \in Chars, t \in Targets, rate \in Rates : Start(f, c, t, rate)
  BY <1>1, StartKeeps
<1>2. CASE \E t \in Targets \cup {Quake} : Create(f, t) \/ Batphone(f, t)
  BY <1>2, CreateKeeps, BatphoneKeeps
<1>3. CASE \E e \in Events, t \in Targets : Retarget(f, e, t)
  BY <1>3, RetargetKeeps
<1>4. CASE \E t \in Targets : Submit(f, t)
  BY <1>4, SubmitKeeps
<1> QED
  BY <1>1, <1>2, <1>3, <1>4 DEF Begin

LEMMA StepKeeps ==
  ASSUME IInv, NEW f \in Flows, Continues(f), UNCHANGED <<clock, commands>>
  PROVE  IInv'
<1>1. CASE Announced(f)
  BY <1>1, AnnounceKeeps DEF Announced
<1>2. CASE AnnounceFails(f)
  BY <1>2, AnnounceKeeps DEF AnnounceFails
<1>3. CASE \E e \in Events : ChannelMade(f, e)
  BY <1>3, ChannelMadeKeeps
<1>4. CASE Posted(f)
  BY <1>4, PostedKeeps
<1>5. CASE NoChannel(f)
  BY <1>5, NoChannelKeeps
<1>6. CASE CreateFails(f)
  BY <1>6, CreateFailsKeeps
<1>7. CASE Retargeted(f)
  BY <1>7, RetargetedKeeps
<1>8. ASSUME NEW g \in Chars \X Rates,
             MemberKept(f, g) \/ MemberNone(f, g) \/ \E changed \in BOOLEAN : MemberFound(f, g, changed)
      PROVE  IInv'
  BY <1>8, MemberKeptKeeps, MemberNoneKeeps, MemberFoundKeeps
<1>9. CASE Adjusted(f)
  BY <1>9, AdjustedKeeps
<1>10. CASE AdjustLost(f)
  BY <1>10, AdjustLostKeeps
<1>11. CASE SubmitFails(f)
  BY <1>11, SubmitFailsKeeps
<1>12. CASE SubmitEnds(f)
  BY <1>12, SubmitEndsKeeps
<1> QED
  BY <1>1, <1>2, <1>3, <1>4, <1>5, <1>6, <1>7, <1>8, <1>9, <1>10, <1>11, <1>12 DEF Continues

LEMMA NextKeeps == IInv /\ [Next]_vars => IInv'
<1> SUFFICES ASSUME IInv, [Next]_vars PROVE IInv'
  OBVIOUS
<1>0. clock \in 0 .. MaxClock /\ MaxClock \in Nat
  BY Constants DEF IInv, Base, TypeOK
<1>1. CASE Arrives
  BY <1>1, SingleKeeps, BeginKeeps DEF Arrives
<1>2. CASE \E f \in Flows : Step(f)
  BY <1>2, StepKeeps DEF Step
<1>3. CASE Crash
  BY <1>3, CrashKeeps
<1>4. CASE Tick
  <2>1. clock' \in 0 .. MaxClock /\ clock <= clock'
    BY <1>0, <1>4 DEF Tick
  <2> QED
    BY <1>4, <2>1, TickKeeps DEF Tick
<1>5. CASE UNCHANGED vars
  <2>1. clock' \in 0 .. MaxClock /\ clock <= clock'
    BY <1>0, <1>5 DEF vars
  <2>2. UNCHANGED <<session, flow, commands, adjusted, excused>>
    BY <1>5 DEF vars, session
  <2> QED
    BY <2>1, <2>2, TickKeeps
<1> QED
  BY <1>1, <1>2, <1>3, <1>4, <1>5 DEF Next

-----------------------------------------------------------------------------
(* Where events come from *)

LEMMA NoneNew ==
  ASSUME IInv, NEW f \in Flows, MayWrite(f), flow[f].pc # "post",
         NEW e \in Events, work.event[e] # NoEvent
  PROVE  db.event[e] # NoEvent
<1>1. CASE work.event[e] = db.event[e]
  BY <1>1
<1>2. CASE work.event[e] # db.event[e]
  <2>1. lock = f
    BY <1>2 DEF IInv, Base, LockHeld, NothingPending, MayWrite
  <2> QED
    BY <1>2, <2>1 DEF IInv, EventsKnow, EventsPending
<1> QED
  BY <1>1, <1>2

LEMMA SingleMakesNone ==
  ASSUME IInv, Single
  PROVE  db'.event = db.event
<1>0. db \in Database /\ Good(db)
  BY DEF IInv, Base, TypeOK
<1>e. ASSUME NEW S \in SUBSET Tracks(db), db' = Ended(db, S, NoOne) PROVE db'.event = db.event
  <2>1. EndsTo(Ended(db, S, NoOne), db, S, NoOne)
    BY DEF EndsTo
  <2>2. Keeps(Ended(db, S, NoOne), db)
    BY <1>0, <2>1, EndedIs
  <2> QED
    BY <1>e, <2>2 DEF Keeps
<1>1. CASE \E c \in Chars, t \in Targets : Stop(c, t)
  <2>1. PICK c \in Chars, t \in Targets : Stop(c, t)
    BY <1>1
  <2>2. PICK i \in On(db, {t}) : db' = Ended(db, {i}, NoOne)
    BY <2>1 DEF Stop, Command, Alone, Commit
  <2>3. {i} \in SUBSET Tracks(db)
    BY <1>0, <2>2, Rows DEF On
  <2> QED
    BY <1>e, <2>2, <2>3
<1>2. CASE \E i \in Ids : StopButton(i)
  <2>1. PICK i \in Open(db) : db' = Ended(db, {i}, NoOne)
    BY <1>2 DEF StopButton, Command, Alone, Commit
  <2>2. {i} \in SUBSET Tracks(db)
    BY <1>0, <2>1, Rows
  <2> QED
    BY <1>e, <2>1, <2>2
<1>3. CASE \E i \in Ids : Delete(i)
  <2>1. PICK i \in Ids : Delete(i)
    BY <1>3
  <2> DEFINE d == [db EXCEPT !.track[i] = NoTrack, !.rows = {r \in @ : r[2] # i}]
  <2>2. db' = d /\ i \in Tracks(db)
    BY <2>1 DEF Delete, Alone, Commit
  <2>3. d.event = db.event
    BY <1>0, <2>2, DeletedIs
  <2> HIDE DEF d
  <2> QED
    BY <2>2, <2>3
<1>4. CASE \E t \in Targets : ClearRte(t)
  <2>1. PICK t \in Targets : ClearRte(t)
    BY <1>4
  <2> DEFINE S == On(db, {t})
             d == [db EXCEPT !.track = [i \in Ids |-> IF i \in S THEN [@[i] EXCEPT !.open = FALSE] ELSE @[i]]]
  <2>2. db' = d /\ S \in SUBSET Tracks(db)
    BY <1>0, <2>1, Rows DEF ClearRte, Command, Alone, Commit, On
  <2>3. Keeps(d, db)
    <3> HIDE DEF S
    <3> QED
      BY <1>0, <2>2, ClearedIs
  <2> HIDE DEF d
  <2> QED
    BY <2>2, <2>3 DEF Keeps
<1>5. CASE \E e \in Events, c \in Chars : Attend(e, c)
  <2>1. PICK e \in Events, c \in Chars : Attend(e, c)
    BY <1>5
  <2> DEFINE d == [db EXCEPT !.here = @ \cup {<<e, c>>}]
  <2>2. db' = d /\ db.event[e] # NoEvent /\ ~Attends(db, e, c)
    BY <2>1 DEF Attend, Command, Alone, Commit
  <2>3. Keeps(d, db)
    BY <1>0, <2>2, AttendIs
  <2> HIDE DEF d
  <2> QED
    BY <2>2, <2>3 DEF Keeps
<1>6. CASE \E e \in Events, c \in Chars : Leave(e, c)
  <2>1. PICK e \in Events, c \in Chars : Leave(e, c)
    BY <1>6
  <2> DEFINE d == [db EXCEPT !.here = @ \ {<<e, c>>},
                             !.rows = {r \in @ : r[1] = e => db.track[r[2]].char # c}]
  <2>2. db' = d
    BY <2>1 DEF Leave, Command, Alone, Commit
  <2>3. Keeps(d, db)
    BY <1>0, LeaveIs
  <2> HIDE DEF d
  <2> QED
    BY <2>2, <2>3 DEF Keeps
<1> QED
  BY <1>1, <1>2, <1>3, <1>4, <1>5, <1>6 DEF Single

LEMMA BeginMakesNone ==
  ASSUME NEW f \in Flows, Begin(f)
  PROVE  db' = db
<1>1. CASE \E c \in Chars, t \in Targets, rate \in Rates : Start(f, c, t, rate)
  BY <1>1 DEF Start, Write
<1>2. CASE \E t \in Targets \cup {Quake} : Create(f, t) \/ Batphone(f, t)
  BY <1>2 DEF Create, Batphone, session
<1>3. CASE \E e \in Events, t \in Targets : Retarget(f, e, t)
  BY <1>3 DEF Retarget, session, Write
<1>4. CASE \E t \in Targets : Submit(f, t)
  BY <1>4 DEF Submit, session
<1> QED
  BY <1>1, <1>2, <1>3, <1>4 DEF Begin

LEMMA RetargetedMakesNone ==
  ASSUME IInv, NEW f \in Flows, Retargeted(f), NEW a \in Events, db'.event[a] # NoEvent
  PROVE  db.event[a] # NoEvent
<1> DEFINE e == flow[f].event
           t == flow[f].target
           d == [work EXCEPT !.event[e].moved = TRUE, !.rows = {r \in @ : r[1] # e}]
<1>1. CASE ~MayWrite(f)
  BY <1>1 DEF Retargeted, session
<1>2. CASE MayWrite(f)
  <2>1. /\ View(f) = work /\ flow[f].pc = "retarget" /\ Good(work)
        /\ e \in Events /\ db.event[e] # NoEvent
    BY <1>2, ViewIs DEF Retargeted, IInv, Base, LockHeld, EventsKnow, HandlerKnows, Made
  <2>2. work.event[e] # NoEvent
    <3>1. CASE work.event[e] = db.event[e]
      BY <2>1, <3>1
    <3>2. CASE work.event[e] # db.event[e]
      <4>1. lock = f
        BY <1>2, <3>2, <2>1 DEF IInv, Base, LockHeld, NothingPending, MayWrite
      <4>2. PICK s \in Targets : work.event[e] = [db.event[e] EXCEPT !.target = s, !.moved = TRUE]
        BY <2>1, <3>2, <4>1 DEF IInv, EventsKnow, EventsPending
      <4>3. db.event[e] \in Event
        BY <2>1, Rows DEF IInv, Base, TypeOK
      <4>4. work.event[e] \in Event
        BY <4>2, <4>3 DEF Event
      <4> QED
        BY <4>4, EventIsThere
    <3> QED
      BY <3>1, <3>2
  <2>3. db' = Credited(d, e, t, t \in PullIn)
    BY <1>2, <2>1 DEF Retargeted, Commit
  <2> DEFINE x == [work.event[e] EXCEPT !.moved = TRUE]
  <2>a. work \in Database /\ work.event[e] \in Event
    BY <2>1, <2>2, Rows DEF Good
  <2>b. x \in Event
    BY <2>a DEF Event
  <2>4. Good(d) /\ d.track = work.track /\ d.event = [work.event EXCEPT ![e] = x]
    <3>1. Good(work) /\ e \in Events /\ work.event[e] # NoEvent
      BY <2>1, <2>2
    <3> HIDE DEF e
    <3> QED
      BY <3>1, DroppedIs
  <2> HIDE DEF d, x
  <2>c. \A b \in Events : d.event[b] = IF b = e THEN x ELSE work.event[b]
    BY <2>1, <2>4, <2>a, Rows
  <2>5. d.event[e] # NoEvent /\ \A b \in Events : b # e => d.event[b] = work.event[b]
    BY <2>1, <2>b, <2>c, EventIsThere
  <2> DEFINE c == Credited(d, e, t, t \in PullIn)
  <2>6. db' = c /\ c.event = d.event
    <3>1. Keeps(c, d)
      <4> HIDE DEF d, e, t
      <4> QED
        BY <2>1, <2>4, <2>5, CreditedIs
    <3>2. db' = c
      BY <2>3
    <3> HIDE DEF c, d
    <3> QED
      BY <3>1, <3>2 DEF Keeps
  <2> HIDE DEF c, d, e, t
  <2> QED
    BY <1>2, <2>1, <2>5, <2>6, NoneNew
<1> QED
  BY <1>1, <1>2

LEMMA ContinuesMakesNone ==
  ASSUME IInv, NEW f \in Flows, Continues(f), ~Posted(f), NEW e \in Events, db'.event[e] # NoEvent
  PROVE  db.event[e] # NoEvent
<1>0. db' = db => db.event[e] # NoEvent
  OBVIOUS
<1>1. CASE Announced(f)
  <2>1. flow[f].pc = "announce" /\ lock = f /\ db' = work
    BY <1>1 DEF Announced, Commit, IInv, Base, LockHeld
  <2> QED
    BY <2>1, NoneNew DEF MayWrite
<1>2. CASE AnnounceFails(f) \/ CreateFails(f) \/ SubmitFails(f) \/ AdjustLost(f)
  BY <1>0, <1>2 DEF AnnounceFails, CreateFails, SubmitFails, SubmitDies, AdjustLost, Close, session
<1>3. CASE \E a \in Events : ChannelMade(f, a)
  BY <1>0, <1>3 DEF ChannelMade, Write, session
<1>4. CASE NoChannel(f) \/ Adjusted(f)
  BY <1>0, <1>4 DEF NoChannel, Adjusted, session
<1>5. CASE Retargeted(f)
  BY <1>5, RetargetedMakesNone
<1>6. ASSUME NEW g \in Chars \X Rates,
             MemberKept(f, g) \/ MemberNone(f, g) \/ \E changed \in BOOLEAN : MemberFound(f, g, changed)
      PROVE  db' = db
  BY <1>6 DEF MemberKept, MemberNone, MemberFound, SubmitDies, Close, Write, session
<1>7. CASE SubmitEnds(f)
  <2>1. CASE CanMark(f) /\ Commit(Marked(View(f), flow[f].dirty))
    <3>1. MayWrite(f) /\ View(f) = work /\ flow[f].pc = "member" /\ Good(work)
      BY <1>7, <2>1, ViewIs DEF SubmitEnds, CanMark, IInv, Base, LockHeld
    <3>2. flow[f].dirty \in SUBSET Tracks(work) /\ db' = Marked(work, flow[f].dirty)
      BY <2>1, <3>1 DEF CanMark, Commit
    <3>3. db'.event = work.event
      BY <3>1, <3>2, MarkedIs
    <3> QED
      BY <3>1, <3>3, NoneNew
  <2>2. CASE db' = db
    BY <2>2
  <2> QED
    BY <1>7, <2>1, <2>2 DEF SubmitEnds, SubmitDies, Close, session
<1> QED
  BY <1>0, <1>1, <1>2, <1>3, <1>4, <1>5, <1>6, <1>7 DEF Continues

LEMMA PostedCredits ==
  ASSUME IInv, NEW f \in Flows, Posted(f), NEW e \in Events,
         db.event[e] = NoEvent, db'.event[e] # NoEvent, db'.event[e].target # Quake,
         NEW i \in On(db, {db'.event[e].target})
  PROVE  /\ ~db'.track[i].open /\ db'.track[i].closer = e
         /\ <<e, i>> \in db'.rows
<1>1. flow[f].pc = "post" /\ lock = f /\ db' = work
  BY DEF Posted, Commit, IInv, Base, LockHeld
<1>2. flow[f].event = e /\ work.event[e] = Request(f)
  BY <1>1 DEF IInv, EventsKnow, EventsPending
<1>3. db'.event[e].target = flow[f].target
  BY <1>1, <1>2, RequestIs
<1> QED
  BY <1>1, <1>2, <1>3 DEF IInv, EventsKnow, PostKnows

LEMMA NextCredits ==
  ASSUME IInv, [Next]_vars, NEW e \in Events,
         db.event[e] = NoEvent, db'.event[e] # NoEvent, db'.event[e].target # Quake,
         NEW i \in On(db, {db'.event[e].target})
  PROVE  /\ ~db'.track[i].open /\ db'.track[i].closer = e
         /\ <<e, i>> \in db'.rows
<1>1. CASE Arrives
  BY <1>1, SingleMakesNone, BeginMakesNone DEF Arrives
<1>2. CASE \E f \in Flows : Step(f)
  BY <1>2, PostedCredits, ContinuesMakesNone DEF Step
<1>3. CASE Crash \/ Tick \/ UNCHANGED vars
  BY <1>3 DEF Crash, Lost, Tick, session, vars
<1> QED
  BY <1>1, <1>2, <1>3 DEF Next

-----------------------------------------------------------------------------
(* Theorems *)

\* The rows of an event, a tracking and an attendance list have the form the
\* handlers rely on: a character has one open tracking and one credit in an event,
\* nobody holds the write lock who is not waiting for something, and what each
\* handler knows of the rows it works on stays true while it waits.
THEOREM InvCorrect == Spec => []TrackInv
<1>1. Spec => []IInv
  BY InitGives, NextKeeps, PTL DEF Spec
<1>2. IInv => TrackInv
  BY IInvIs
<1> QED
  BY <1>1, <1>2, PTL

\* What EQdkp has paid once is recorded as paid and nothing else is, except for the
\* trackings whose submission failed or was not alone (/rte submit).
THEOREM AdjustedCorrect == Spec => []AdjustedOnce
<1>1. Spec => []IInv
  BY InitGives, NextKeeps, PTL DEF Spec
<1>2. IInv => AdjustedOnce
  BY IInvIs
<1> QED
  BY <1>1, <1>2, PTL

\* Two events for a target are further apart than its lockout, unless one command
\* made both or the second checked while the first was under way (_is_locked_out).
THEOREM LockoutCorrect == Spec => []LockoutHolds
<1>1. Spec => []IInv
  BY InitGives, NextKeeps, PTL DEF Spec
<1>2. IInv => LockoutHolds
  <2>1. SUFFICES ASSUME IInv, NEW d \in Events, NEW e \in Events,
                        db.event[d] # NoEvent, db.event[e] # NoEvent,
                        db.event[d].target = db.event[e].target, db.event[e].target # Quake,
                        ~db.event[d].moved, ~db.event[e].moved,
                        db.event[d].cmd < db.event[e].cmd
                 PROVE  \/ db.event[d].at + Lockout < db.event[e].at
                        \/ db.event[d].cmd \in db.event[e].rivals
    BY DEF LockoutHolds
  <2>2. db.event[d] \in Claims /\ db.event[e] \in Claims
    BY <2>1 DEF Claims, Made
  <2>3. Apart(db.event[d], db.event[e])
    BY <2>1, <2>2 DEF IInv, ClaimsApart
  <2> QED
    BY <2>1, <2>3 DEF Apart
<1> QED
  BY <1>1, <1>2, PTL

\* An event that is committed has closed every tracking of its target and made each
\* an attendee (rte_tracking_creator), whatever else runs while it is announced.
THEOREM CreditCorrect == Spec => CreditGiven
<1>1. IInv /\ [Next]_vars =>
        [\A e \in Events :
            db.event[e] = NoEvent /\ db'.event[e] # NoEvent /\ db'.event[e].target # Quake =>
                \A i \in On(db, {db'.event[e].target}) :
                    /\ ~db'.track[i].open /\ db'.track[i].closer = e
                    /\ <<e, i>> \in db'.rows]_vars
  BY NextCredits
<1> QED
  BY <1>1, InitGives, NextKeeps, PTL DEF Spec, CreditGiven
=============================================================================
