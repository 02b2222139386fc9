-------------------------- MODULE RaidEventProofs --------------------------
(* Proofs about RaidEvent: nobody attends, is paid or is charged twice, and   *)
(* what the server has of an upload is what is committed with it, for any     *)
(* handlers, characters, rows, loot, raids, prices and bounds.                *)
EXTENDS RaidEvent, TLAPS

OneRowIn(d) == \A i, j \in Used(d) : d.rows[i].char = d.rows[j].char => i = j

Good(d) == d \in Database /\ OneRowIn(d)

\* What no change but an upload or its reset may do to what is committed.
Grows(c, d) == c.raid = d.raid /\ d.billed \subseteq c.billed /\ Linked(d) \subseteq Linked(c)

\* Who is a member of the raid, as the upload has decided it: one character for
\* each user, who attends, or if the raid is worth nothing may have bought or
\* engaged; and of each user with a known member who attends.
Roster(w, d, M, value) ==
    /\ \A b, c \in M : UserOf[b[1]] = UserOf[c[1]] => b = c
    /\ \A c \in M : \/ c \in Attending(w) \cap Linked(w)
                    \/ value = 0 /\ c \in Buyers(w) \cup w.ftes
    /\ UsersOf(Attending(w) \cap Linked(d)) \subseteq UsersOf(M)

\* Who has been paid when the trackings in T have had their turn.
PaidFor(w, d, T, paid) ==
    /\ \A u \in Users : paid[u] > 0 =>
          \E i \in T : w.rows[i].char \in Linked(w) /\ UserOf[w.rows[i].char[1]] = u
    /\ \A i \in T : w.rows[i].char \in Linked(d) /\ OnlyRow(w, i)
                        => paid[UserOf[w.rows[i].char[1]]] > 0

\* The trackings that have had their turn.
Turned(f) == IF flow[f].pc = "adjust" THEN Tracked(work) \ flow[f].todo ELSE Tracked(work)

\* A handler knows a raid from create_raid to its end, and a name while it asks.
HandlerKnows ==
    \A f \in Flows :
        /\ flow[f].raid # NoOne <=> Charging(f)
        /\ flow[f].pc = "lookup" => flow[f].left > 0 /\ flow[f].name \in Names

\* The raid in the event row is as it was until an upload puts its own there.
RaidHeld ==
    \A f \in Flows : Uploading(f) => work.raid = IF Charging(f) THEN flow[f].raid ELSE db.raid

\* Billed items and linked members are never taken back.
Pending ==
    /\ db.billed \subseteq work.billed /\ Linked(db) \subseteq Linked(work)
    /\ (\A f \in Flows : ~Uploading(f)) => work.raid = db.raid

\* What the server has charged for a raid is in the database.
Billed ==
    \A r \in RaidIds :
        /\ raids[r].state = "open" => raids[r].items \subseteq work.billed
        /\ raids[r].state \notin {"open", "failed"} => raids[r].items \subseteq db.billed

\* An upload that began with the EQdkp event known uploads what the row says.
NothingChanged ==
    \A f \in Flows :
        Uploading(f) /\ ~flow[f].window =>
            db.raid = NoOne /\ flow[f].mark = work.killed /\ flow[f].price = work.price

RosterKept ==
    \A f \in Flows :
        /\ flow[f].pc = "raid" =>
              Roster(work, db, flow[f].members, IF flow[f].fte THEN 0 ELSE Worth(f))
        /\ Charging(f) =>
              LET raid == raids[flow[f].raid] IN
              /\ raid.value \in {0, Worth(f)}
              /\ Roster(work, db, raid.members, raid.value)
              /\ PaidFor(work, db, Turned(f), raid.paid)

TodoLeft ==
    \A f \in Flows :
        /\ flow[f].pc = "adjust" => flow[f].todo \subseteq Tracked(work)
        /\ flow[f].pc = "items" => flow[f].todo \subseteq Unbilled(work)

Base == TypeOK /\ LockHeld /\ Good(db) /\ Good(work) /\ HandlerKnows

Money == Recorded /\ PaidOnce /\ ChargedOnce /\ Billed

Uploads == Pending /\ RaidHeld /\ NothingChanged /\ RosterKept /\ TodoLeft

IInv == Base /\ Money /\ Uploads

-----------------------------------------------------------------------------
(* What the changes to the database do *)

LEMMA Constants ==
  /\ NoOne \notin Names /\ NoOne \notin Chars /\ NoOne \notin RaidIds
  /\ Gone \notin Chars /\ Gone # NoOne /\ Ids \cap Loots = {} /\ NoOne \notin Flows
  /\ MaxLines \in Nat /\ Prices \subseteq [kill : Nat, nokill : Nat]
BY RaidConstants, NoFlow

LEMMA CharIs ==
  /\ \A n \in Names : <<n, 1>> \in Chars /\ <<n, 2>> \in Chars
  /\ \A c \in Chars : c[1] \in Names /\ UserOf[c[1]] \in Users
BY DEF Chars, Users

LEMMA RowIsThere == NoRow \notin Row /\ NoRow.char = NoOne /\ NoRow.tracked = FALSE
BY Constants DEF NoRow, Row

LEMMA Fields ==
  ASSUME NEW d \in Database
  PROVE  /\ d.rows \in [Ids -> Row \cup {NoRow}]
         /\ d.known \in [Chars -> {"unknown", "named", "linked"}]
         /\ d.killed \in Marks /\ d.price \in Prices /\ d.raid \in RaidIds \cup {NoOne}
         /\ d.named \in BOOLEAN /\ d.loot \in [Loots -> Chars \cup {NoOne, Gone}]
         /\ d.billed \subseteq Loots /\ d.ftes \subseteq Chars
BY DEF Database

LEMMA RowOf ==
  ASSUME NEW d \in Database
  PROVE  /\ Used(d) \subseteq Ids /\ Tracked(d) \subseteq Used(d)
         /\ \A i \in Used(d) : d.rows[i] \in Row /\ d.rows[i].char \in Chars
         /\ \A i \in Ids, c \in Chars : d.rows[i].char = c => i \in Used(d)
         /\ Attending(d) \subseteq Chars /\ Buyers(d) \subseteq Chars /\ Linked(d) \subseteq Chars
         /\ Unbilled(d) \subseteq Loots
<1>1. \A i \in Used(d) : i \in Ids /\ d.rows[i] \in Row
  BY Fields DEF Used
<1>2. \A i \in Used(d) : d.rows[i].char \in Chars
  BY <1>1 DEF Row
<1>3. \A i \in Ids, c \in Chars : d.rows[i].char = c => i \in Used(d)
  BY Constants, RowIsThere DEF Used
<1> QED
  BY <1>1, <1>2, <1>3 DEF Tracked, Attending, Buyers, Linked, Unbilled, Used

LEMMA RowsSet ==
  ASSUME NEW d \in Database, NEW T \in [Ids -> Row \cup {NoRow}], NEW c, c = [d EXCEPT !.rows = T]
  PROVE  /\ c \in Database /\ c.rows = T
         /\ c.known = d.known /\ c.killed = d.killed /\ c.price = d.price /\ c.raid = d.raid
         /\ c.named = d.named /\ c.loot = d.loot /\ c.billed = d.billed /\ c.ftes = d.ftes
BY DEF Database

LEMMA KnownSet ==
  ASSUME NEW d \in Database, NEW T \in [Chars -> {"unknown", "named", "linked"}],
         NEW c, c = [d EXCEPT !.known = T]
  PROVE  /\ c \in Database /\ c.known = T
         /\ c.rows = d.rows /\ c.killed = d.killed /\ c.price = d.price /\ c.raid = d.raid
         /\ c.named = d.named /\ c.loot = d.loot /\ c.billed = d.billed /\ c.ftes = d.ftes
BY DEF Database

LEMMA KilledSet ==
  ASSUME NEW d \in Database, NEW k \in Marks, NEW c, c = [d EXCEPT !.killed = k]
  PROVE  /\ c \in Database /\ c.killed = k
         /\ c.rows = d.rows /\ c.known = d.known /\ c.raid = d.raid /\ c.billed = d.billed
BY DEF Database

LEMMA PriceSet ==
  ASSUME NEW d \in Database, NEW p \in Prices, NEW c, c = [d EXCEPT !.price = p]
  PROVE  /\ c \in Database /\ c.price = p
         /\ c.rows = d.rows /\ c.known = d.known /\ c.raid = d.raid /\ c.billed = d.billed
BY DEF Database

LEMMA RaidSet ==
  ASSUME NEW d \in Database, NEW r \in RaidIds \cup {NoOne}, NEW c, c = [d EXCEPT !.raid = r]
  PROVE  /\ c \in Database /\ c.raid = r
         /\ c.rows = d.rows /\ c.known = d.known /\ c.killed = d.killed /\ c.price = d.price
         /\ c.named = d.named /\ c.loot = d.loot /\ c.billed = d.billed /\ c.ftes = d.ftes
BY DEF Database

LEMMA NamedSet ==
  ASSUME NEW d \in Database, NEW c, c = [d EXCEPT !.named = TRUE]
  PROVE  /\ c \in Database
         /\ c.rows = d.rows /\ c.known = d.known /\ c.raid = d.raid /\ c.billed = d.billed
BY DEF Database

LEMMA LootSet ==
  ASSUME NEW d \in Database, NEW T \in [Loots -> Chars \cup {NoOne, Gone}],
         NEW c, c = [d EXCEPT !.loot = T]
  PROVE  /\ c \in Database
         /\ c.rows = d.rows /\ c.known = d.known /\ c.raid = d.raid /\ c.billed = d.billed
BY DEF Database

LEMMA FtesSet ==
  ASSUME NEW d \in Database, NEW S \in SUBSET Chars, NEW c, c = [d EXCEPT !.ftes = S]
  PROVE  /\ c \in Database
         /\ c.rows = d.rows /\ c.known = d.known /\ c.raid = d.raid /\ c.billed = d.billed
BY DEF Database

LEMMA BilledSet ==
  ASSUME NEW d \in Database, NEW S \in SUBSET Loots, NEW c, c = [d EXCEPT !.billed = S]
  PROVE  /\ c \in Database /\ c.billed = S
         /\ c.rows = d.rows /\ c.known = d.known /\ c.killed = d.killed /\ c.price = d.price
         /\ c.raid = d.raid /\ c.named = d.named /\ c.loot = d.loot /\ c.ftes = d.ftes
BY DEF Database

\* A change that leaves the rows, the raid and what is billed as they are.
LEMMA GoodStays ==
  ASSUME NEW d, Good(d), NEW c \in Database, c.rows = d.rows, c.raid = d.raid,
         c.billed = d.billed, Linked(d) \subseteq Linked(c)
  PROVE  Good(c) /\ Grows(c, d)
BY DEF Good, OneRowIn, Used, Grows

LEMMA LinkIs ==
  ASSUME NEW d, Good(d), NEW S \in SUBSET Chars, NEW c, c = Link(d, S)
  PROVE  /\ Good(c) /\ Grows(c, d) /\ Linked(c) = Linked(d) \cup S
         /\ c.rows = d.rows /\ c.killed = d.killed /\ c.price = d.price /\ c.raid = d.raid
         /\ c.loot = d.loot /\ c.billed = d.billed /\ c.ftes = d.ftes
<1> DEFINE T == [x \in Chars |-> IF x \in S THEN "linked" ELSE d.known[x]]
<1>1. d \in Database
  BY DEF Good
<1>2. T \in [Chars -> {"unknown", "named", "linked"}]
  BY <1>1, Fields
<1>3. c = [d EXCEPT !.known = T]
  BY <1>1 DEF Link, Database
<1>4. \A x \in Chars : T[x] = "linked" <=> x \in S \/ d.known[x] = "linked"
  OBVIOUS
<1> HIDE DEF T
<1>5. /\ c \in Database /\ c.known = T
      /\ c.rows = d.rows /\ c.killed = d.killed /\ c.price = d.price /\ c.raid = d.raid
      /\ c.named = d.named /\ c.loot = d.loot /\ c.billed = d.billed /\ c.ftes = d.ftes
  BY <1>1, <1>2, <1>3, KnownSet
<1>6. Linked(c) = Linked(d) \cup S
  BY <1>4, <1>5 DEF Linked
<1> QED
  BY <1>5, <1>6, GoodStays

\* A character is stored that has no row yet.
Named(d, n) == [d EXCEPT !.known[NewRow(d, n)] = "named"]

LEMMA NamedIs ==
  ASSUME NEW d, Good(d), NEW n \in Names, Stored(d, n) = {},
         NEW c, c = Named(d, n)
  PROVE  Good(c) /\ Grows(c, d)
<1> DEFINE T == [d.known EXCEPT ![<<n, 1>>] = "named"]
<1>1. d \in Database
  BY DEF Good
<1>2. T \in [Chars -> {"unknown", "named", "linked"}]
  BY <1>1, Fields, CharIs
<1>3. c = [d EXCEPT !.known = T]
  BY DEF NewRow, Named
<1>4. <<n, 1>> \in Chars /\ d.known[<<n, 1>>] = "unknown"
  BY CharIs DEF Stored
<1>5. \A x \in Chars : d.known[x] = "linked" => T[x] = "linked"
  BY <1>1, <1>4, Fields
<1> HIDE DEF T
<1>6. /\ c \in Database /\ c.known = T
      /\ c.rows = d.rows /\ c.raid = d.raid /\ c.billed = d.billed
  BY <1>1, <1>2, <1>3, KnownSet
<1>7. Linked(d) \subseteq Linked(c)
  BY <1>5, <1>6 DEF Linked
<1> QED
  BY <1>6, <1>7, GoodStays

\* The rows change so that no character has two.
LEMMA RowsGood ==
  ASSUME NEW d, Good(d), NEW T \in [Ids -> Row \cup {NoRow}], NEW c, c = [d EXCEPT !.rows = T],
         \A i, j \in Ids : T[i] # NoRow /\ T[j] # NoRow /\ T[i].char = T[j].char => i = j
  PROVE  Good(c) /\ Grows(c, d)
<1>1. d \in Database
  BY DEF Good
<1>2. c \in Database /\ c.rows = T /\ c.known = d.known /\ c.raid = d.raid /\ c.billed = d.billed
  BY <1>1, RowsSet
<1>3. OneRowIn(c)
  BY <1>2 DEF OneRowIn, Used
<1> QED
  BY <1>2, <1>3 DEF Good, Grows, Linked

\* Rows are taken away.
LEMMA FewerRows ==
  ASSUME NEW d, Good(d), NEW T, T = [i \in Ids |-> T[i]], \A i \in Ids : T[i] \in {d.rows[i], NoRow},
         NEW c, c = [d EXCEPT !.rows = T]
  PROVE  Good(c) /\ Grows(c, d)
<1>1. d \in Database
  BY DEF Good
<1>2. \A i \in Ids : T[i] \in Row \cup {NoRow}
  BY <1>1, Fields
<1>3. T \in [Ids -> Row \cup {NoRow}]
  BY <1>2
<1>4. \A i, j \in Ids : T[i] # NoRow /\ T[j] # NoRow /\ T[i].char = T[j].char => i = j
  BY DEF Good, OneRowIn, Used
<1> QED
  BY <1>3, <1>4, RowsGood

Removed(d, i) == [d EXCEPT !.rows[i] = NoRow]

LEMMA RemovedIs ==
  ASSUME NEW d, Good(d), NEW i \in Ids, NEW c, c = Removed(d, i)
  PROVE  Good(c) /\ Grows(c, d)
<1> DEFINE T == [d.rows EXCEPT ![i] = NoRow]
<1>1. d \in Database
  BY DEF Good
<1>2. T = [j \in Ids |-> T[j]] /\ \A j \in Ids : T[j] \in {d.rows[j], NoRow}
  BY <1>1, Fields
<1>3. c = [d EXCEPT !.rows = T]
  BY DEF Removed
<1> HIDE DEF T
<1> QED
  BY <1>2, <1>3, FewerRows

Cleared(d) == [d EXCEPT !.rows = [i \in Ids |-> NoRow]]

LEMMA ClearedIs ==
  ASSUME NEW d, Good(d), NEW c, c = Cleared(d)
  PROVE  Good(c) /\ Grows(c, d)
<1> DEFINE T == [i \in Ids |-> NoRow]
<1>2. T = [j \in Ids |-> T[j]] /\ \A j \in Ids : T[j] \in {d.rows[j], NoRow}
  OBVIOUS
<1>3. c = [d EXCEPT !.rows = T]
  BY DEF Cleared
<1> HIDE DEF T
<1> QED
  BY <1>2, <1>3, FewerRows

LEMMA UntrackedIs ==
  ASSUME NEW d, Good(d), NEW c, c = Untracked(d)
  PROVE  Good(c) /\ Grows(c, d) /\ c.known = d.known
<1> DEFINE T == [i \in Ids |-> IF d.rows[i].tracked THEN NoRow ELSE d.rows[i]]
<1>1. d \in Database
  BY DEF Good
<1>2. T = [j \in Ids |-> T[j]] /\ \A j \in Ids : T[j] \in {d.rows[j], NoRow}
  OBVIOUS
<1>3. c = [d EXCEPT !.rows = T]
  BY <1>1 DEF Untracked, Database
<1>4. T \in [Ids -> Row \cup {NoRow}]
  BY <1>1, Fields
<1> HIDE DEF T
<1>5. c.known = d.known
  BY <1>1, <1>3, <1>4, RowsSet
<1> QED
  BY <1>2, <1>3, <1>5, FewerRows

\* A row is added for a character that had none; the row of the one it boxes goes.
LEMMA InsertedIs ==
  ASSUME NEW d, Good(d), NEW i \in Ids \ Used(d), NEW x \in Chars, RowsOf(d, x) = {},
         NEW on \in Chars \cup {NoOne}, NEW c, c = Inserted(d, i, x, on)
  PROVE  Good(c) /\ Grows(c, d)
<1> DEFINE R == [char |-> x, on |-> on, tracked |-> FALSE]
           T == [j \in Ids |-> IF j = i THEN R ELSE IF j \in OwnRows(d, on) THEN NoRow ELSE d.rows[j]]
<1>1. d \in Database
  BY DEF Good
<1>2. R \in Row /\ R.char = x
  BY DEF Row
<1>3. c = [d EXCEPT !.rows = T]
  BY DEF Inserted
<1>4. T[i] = R /\ \A j \in Ids : j # i => T[j] \in {d.rows[j], NoRow}
  OBVIOUS
<1>5. \A j \in Ids : T[j] \in Row \cup {NoRow}
  BY <1>1, <1>2, <1>4, Fields
<1>6. T \in [Ids -> Row \cup {NoRow}]
  BY <1>5
<1>7. \A j \in Ids : d.rows[j].char # x
  BY DEF RowsOf
<1> HIDE DEF T, R
<1>8. \A j, k \in Ids : T[j] # NoRow /\ T[k] # NoRow /\ T[j].char = T[k].char => j = k
  BY <1>2, <1>4, <1>7 DEF Good, OneRowIn, Used
<1> QED
  BY <1>3, <1>6, <1>8, RowsGood

\* Trackers get rows of their own, each a free one, and none has one already.
Tracks(d, S, new) ==
  [d EXCEPT !.rows = [i \in Ids |->
     IF {c \in S : new[c].id = i} = {} THEN @[i]
     ELSE LET c == CHOOSE c \in {c \in S : new[c].id = i} : TRUE
          IN [char |-> c, on |-> new[c].on, tracked |-> TRUE]]]

LEMMA TracksIs ==
  ASSUME NEW d, Good(d), NEW S \in SUBSET Chars, NEW new \in [S -> [id : Ids, on : Chars \cup {NoOne}]],
         \A x \in S : RowsOf(d, x) = {} /\ new[x].id \notin Used(d),
         \A x, y \in S : new[x].id = new[y].id => x = y,
         NEW c, c = Tracks(d, S, new)
  PROVE  Good(c) /\ Grows(c, d)
<1> DEFINE W(i) == {x \in S : new[x].id = i}
           R(x) == [char |-> x, on |-> new[x].on, tracked |-> TRUE]
           C(i) == CHOOSE x \in W(i) : TRUE
           T == [i \in Ids |-> IF W(i) = {} THEN d.rows[i] ELSE R(C(i))]
<1>1. d \in Database
  BY DEF Good
<1>2. \A x \in S : R(x) \in Row /\ R(x).char = x
  BY DEF Row
<1>3. c = [d EXCEPT !.rows = T]
  BY <1>1 DEF Tracks, Database
<1>4. \A i \in Ids : W(i) # {} => C(i) \in W(i)
  OBVIOUS
<1>5. \A i \in Ids : T[i] = IF W(i) = {} THEN d.rows[i] ELSE R(C(i))
  OBVIOUS
<1>6. \A i \in Ids : \/ T[i] = d.rows[i] /\ W(i) = {}
                     \/ C(i) \in S /\ new[C(i)].id = i /\ T[i] = R(C(i))
  BY <1>4, <1>5
<1>7. \A i \in Ids : T[i] \in Row \cup {NoRow}
  <2> HIDE DEF R, C, T, W
  <2> QED
    BY <1>1, <1>2, <1>6, Fields
<1>8. T \in [Ids -> Row \cup {NoRow}]
  BY <1>7
<1>9. \A i \in Ids, x \in S : d.rows[i].char # x
  BY DEF RowsOf
<1> HIDE DEF T, R, C, W
<1>10. \A j, k \in Ids : T[j] # NoRow /\ T[k] # NoRow /\ T[j].char = T[k].char => j = k
  <2> SUFFICES ASSUME NEW j \in Ids, NEW k \in Ids, T[j] # NoRow, T[k] # NoRow, T[j].char = T[k].char
               PROVE  j = k
    OBVIOUS
  <2>1. CASE T[j] = d.rows[j] /\ T[k] = d.rows[k]
    BY <2>1 DEF Good, OneRowIn, Used
  <2>2. CASE T[j] = d.rows[j] /\ C(k) \in S /\ T[k] = R(C(k))
    BY <2>2, <1>2, <1>9
  <2>3. CASE T[k] = d.rows[k] /\ C(j) \in S /\ T[j] = R(C(j))
    BY <2>3, <1>2, <1>9
  <2>4. CASE /\ C(j) \in S /\ T[j] = R(C(j)) /\ new[C(j)].id = j
             /\ C(k) \in S /\ T[k] = R(C(k)) /\ new[C(k)].id = k
    <3>1. R(C(j)).char = C(j) /\ R(C(k)).char = C(k)
      BY <2>4, <1>2
    <3> QED
      BY <2>4, <3>1
  <2> QED
    BY <1>6, <2>1, <2>2, <2>3, <2>4
<1> QED
  BY <1>3, <1>8, <1>10, RowsGood

-----------------------------------------------------------------------------
(* What a step leaves of the invariant, by what it does to the session *)

LEMMA FlowSet ==
  ASSUME flow \in [Flows -> Handler], NEW f \in Flows, NEW h \in Handler,
         flow' = [flow EXCEPT ![f] = h]
  PROVE  /\ flow' \in [Flows -> Handler] /\ flow'[f] = h
         /\ \A g \in Flows : g # f => flow'[g] = flow[g]
OBVIOUS

LEMMA IdleIs == Idle \in Handler /\ Idle.pc = "idle" /\ Idle.raid = NoOne
BY Constants DEF Idle, Handler, Kinds, Marks

LEMMA ViewIs ==
  ASSUME LockHeld, NEW f \in Flows, MayWrite(f)
  PROVE  View(f) = work
BY Constants DEF LockHeld, NothingPending, MayWrite, View

LEMMA GrowsOn ==
  ASSUME NEW b, NEW c, NEW d, Grows(c, b), Grows(d, c)
  PROVE  Grows(d, b)
BY DEF Grows

LEMMA GrowsItself ==
  ASSUME NEW d
  PROVE  Grows(d, d)
BY DEF Grows

LEMMA NobodyUploads ==
  ASSUME LockHeld, NEW f \in Flows, ~Uploading(f), MayWrite(f)
  PROVE  \A g \in Flows : ~Uploading(g)
BY Constants DEF LockHeld, MayWrite

LEMMA WorkGrows ==
  ASSUME Pending, \A g \in Flows : ~Uploading(g)
  PROVE  Grows(work, db)
BY DEF Pending, Grows

\* Nobody uploads and the raids stay: the rest of the invariant follows.
LEMMA NoUpload ==
  ASSUME IInv, Base', raids' = raids, \A g \in Flows : ~Uploading(g) /\ ~Uploading(g)',
         Grows(db', db), Grows(work', db')
  PROVE  IInv'
<1>1. \A g \in Flows : flow[g].raid = NoOne /\ flow'[g].raid = NoOne
  BY DEF IInv, Base, HandlerKnows, Uploading, Charging
<1>2. Recorded'
  BY <1>1 DEF IInv, Money, Recorded, Grows
<1>3. PaidOnce' /\ ChargedOnce'
  BY DEF IInv, Money, PaidOnce, ChargedOnce
<1>4. \A r \in RaidIds : raids[r].state # "open"
  BY <1>1, Constants DEF IInv, Money, Recorded
<1>5. Billed'
  BY <1>4 DEF IInv, Money, Billed, Grows
<1>6. Pending'
  BY DEF Pending, Grows
<1>7. RaidHeld' /\ NothingChanged'
  BY DEF RaidHeld, NothingChanged
<1>8. RosterKept' /\ TodoLeft'
  BY DEF RosterKept, TodoLeft, Uploading, Charging
<1> QED
  BY <1>2, <1>3, <1>5, <1>6, <1>7, <1>8 DEF IInv, Money, Uploads

\* Only a handler that does not upload has gone on, without its session.
LEMMA SessionStays ==
  ASSUME IInv, Base', raids' = raids, UNCHANGED session, NEW f \in Flows,
         ~Uploading(f), ~Uploading(f)', \A g \in Flows : g # f => flow'[g] = flow[g]
  PROVE  IInv'
<1>0. db' = db /\ work' = work /\ lock' = lock
  BY DEF session
<1>1. flow[f].raid = NoOne /\ flow'[f].raid = NoOne
  BY DEF IInv, Base, HandlerKnows, Uploading, Charging
<1>2. \A g \in Flows : /\ Uploading(g) \/ Uploading(g)' => g # f /\ flow'[g] = flow[g]
                       /\ Charging(g) \/ Charging(g)' => g # f /\ flow'[g] = flow[g]
                       /\ flow'[g].raid = flow[g].raid
  BY <1>1 DEF Uploading, Charging
<1>3. Money'
  BY <1>0, <1>2 DEF IInv, Money, Recorded, PaidOnce, ChargedOnce, Billed
<1>4. Pending'
  <2>1. \A g \in Flows : Uploading(g) <=> Uploading(g)'
    BY <1>2 DEF Uploading
  <2> QED
    BY <1>0, <2>1 DEF IInv, Uploads, Pending
<1>5. RaidHeld' /\ NothingChanged'
  BY <1>0, <1>2 DEF IInv, Uploads, RaidHeld, NothingChanged, Uploading, Charging
<1>6. TodoLeft'
  BY <1>0, <1>2 DEF IInv, Uploads, TodoLeft, Tracked, Used, Unbilled, Charging
<1>7. RosterKept'
  <2> SUFFICES ASSUME NEW g \in Flows
               PROVE  /\ flow'[g].pc = "raid" =>
                            Roster(work', db', flow'[g].members, IF flow'[g].fte THEN 0 ELSE Worth(g)')
                      /\ Charging(g)' => LET raid == raids'[flow'[g].raid] IN
                            /\ raid.value \in {0, Worth(g)'}
                            /\ Roster(work', db', raid.members, raid.value)
                            /\ PaidFor(work', db', Turned(g)', raid.paid)
    BY DEF RosterKept
  <2>1. CASE Uploading(g)'
    <3>1. flow'[g] = flow[g]
      BY <1>2, <2>1
    <3>2. Worth(g)' = Worth(g) /\ Turned(g)' = Turned(g) /\ (Charging(g)' <=> Charging(g))
      BY <3>1, <1>0 DEF Worth, Turned, Charging
    <3> QED
      BY <1>0, <3>1, <3>2 DEF IInv, Uploads, RosterKept
  <2>2. CASE ~Uploading(g)'
    BY <2>2 DEF Uploading, Charging
  <2> QED
    BY <2>1, <2>2
<1> QED
  BY <1>3, <1>4, <1>5, <1>6, <1>7 DEF IInv, Uploads

Lines == {"idle", "lines", "lookup", "retarget", "event"}

\* Where a handler that does not upload may go on.
GoesOn(h) ==
  /\ h \in Handler /\ h.pc \in Lines /\ h.raid = NoOne
  /\ h.pc = "lookup" => h.left > 0 /\ h.name \in Names

LEMMA IdleGoesOn == GoesOn(Idle)
BY IdleIs DEF GoesOn, Lines

\* A handler that does not upload goes on: it leaves its session as it is, writes,
\* commits or closes.
LEMMA HandlerStep ==
  ASSUME IInv, NEW f \in Flows, ~Uploading(f), NEW h, GoesOn(h), flow' = [flow EXCEPT ![f] = h],
         raids' = raids, commands' \in Nat,
         \/ UNCHANGED session /\ (lock = f => h.pc \notin {"idle", "event"})
         \/ MayWrite(f) /\ \E d : /\ Good(d) /\ Grows(d, View(f))
                                  /\ \/ Write(f, d) /\ h.pc \notin {"idle", "event"}
                                     \/ Commit(d)
         \/ Close(f)
  PROVE  IInv'
<1>1. TypeOK /\ LockHeld /\ HandlerKnows /\ Good(db) /\ Good(work) /\ Pending
  BY DEF IInv, Base, Uploads
<1>2. /\ flow' \in [Flows -> Handler] /\ flow'[f] = h
      /\ \A g \in Flows : g # f => flow'[g] = flow[g]
  BY <1>1, FlowSet DEF TypeOK, GoesOn
<1>3. ~Uploading(f)' /\ ~Charging(f) /\ ~Charging(f)'
  BY <1>2 DEF GoesOn, Lines, Uploading, Charging
<1>4. HandlerKnows'
  <2>1. \A g \in Flows : g # f => (Charging(g)' <=> Charging(g))
    BY <1>2 DEF Charging
  <2> QED
    BY <1>1, <1>2, <1>3, <2>1 DEF HandlerKnows, GoesOn
<1>5. ASSUME Good(db'), Good(work'), lock' \in Flows \cup {NoOne} PROVE TypeOK'
  BY <1>1, <1>2, <1>5 DEF TypeOK, Good
<1>6. CASE UNCHANGED session /\ (lock = f => h.pc \notin {"idle", "event"})
  <2>1. db' = db /\ work' = work /\ lock' = lock
    BY <1>6 DEF session
  <2>2. TypeOK'
    BY <1>1, <1>5, <2>1 DEF TypeOK
  <2>3. LockHeld'
    BY <1>1, <1>2, <1>3, <1>6, <2>1 DEF LockHeld, NothingPending, Uploading, TypeOK
  <2>4. Base'
    BY <1>1, <1>4, <2>1, <2>2, <2>3 DEF Base
  <2> QED
    BY <1>2, <1>3, <1>6, <2>4, SessionStays
<1>7. CASE MayWrite(f) /\ \E d : /\ Good(d) /\ Grows(d, View(f))
                                  /\ \/ Write(f, d) /\ h.pc \notin {"idle", "event"}
                                     \/ Commit(d)
  <2>1. PICK d : /\ Good(d) /\ Grows(d, View(f))
                 /\ \/ Write(f, d) /\ h.pc \notin {"idle", "event"}
                    \/ Commit(d)
    BY <1>7
  <2>2. \A g \in Flows : ~Uploading(g)
    BY <1>1, <1>7, NobodyUploads
  <2>3. \A g \in Flows : ~Uploading(g)'
    BY <1>2, <1>3, <2>2 DEF Uploading
  <2>4. Grows(d, db)
    BY <1>1, <1>7, <2>1, <2>2, ViewIs, WorkGrows, GrowsOn
  <2>5. Good(db') /\ Good(work') /\ Grows(db', db) /\ Grows(work', db') /\ lock' \in Flows \cup {NoOne}
    BY <1>1, <2>1, <2>4, GrowsItself DEF Write, Commit
  <2>6. LockHeld'
    BY <1>2, <2>1, <2>3, Constants DEF LockHeld, NothingPending, Write, Commit
  <2>7. Base'
    BY <1>4, <1>5, <2>5, <2>6 DEF Base
  <2> QED
    BY <2>2, <2>3, <2>5, <2>7, NoUpload
<1>8. CASE Close(f)
  <2>1. CASE lock = f
    <3>1. lock' = NoOne /\ work' = db /\ db' = db
      BY <1>8, <2>1 DEF Close
    <3>2. \A g \in Flows : ~Uploading(g)
      BY <1>1, <2>1, NobodyUploads DEF MayWrite
    <3>3. \A g \in Flows : ~Uploading(g)'
      BY <1>2, <1>3, <3>2 DEF Uploading
    <3>4. LockHeld'
      BY <3>1, <3>3 DEF LockHeld, NothingPending
    <3>5. Base'
      BY <1>1, <1>4, <1>5, <3>1, <3>4 DEF Base
    <3> QED
      BY <3>1, <3>2, <3>3, <3>5, NoUpload, GrowsItself
  <2>2. CASE lock # f
    <3>1. db' = db /\ work' = work /\ lock' = lock
      BY <1>8, <2>2 DEF Close, session
    <3>2. TypeOK'
      BY <1>1, <1>5, <3>1 DEF TypeOK
    <3>3. LockHeld'
      BY <1>1, <1>2, <1>3, <2>2, <3>1 DEF LockHeld, NothingPending, Uploading, TypeOK
    <3>4. Base'
      BY <1>1, <1>4, <3>1, <3>2, <3>3 DEF Base
    <3> QED
      BY <1>2, <1>3, <3>1, <3>4, SessionStays DEF session
  <2> QED
    BY <2>1, <2>2
<1> QED
  BY <1>6, <1>7, <1>8

\* A command that commits before it awaits anything.
LEMMA CommandStep ==
  ASSUME IInv, NEW d, Good(d), Grows(d, db), Command(d), commands' \in Nat
  PROVE  IInv'
<1>1. TypeOK /\ LockHeld /\ HandlerKnows
  BY DEF IInv, Base
<1>2. lock = NoOne /\ lock' = NoOne /\ db' = d /\ work' = d /\ flow' = flow /\ raids' = raids
  BY DEF Command, Alone, Commit
<1>3. \A g \in Flows : ~Uploading(g) /\ ~Uploading(g)'
  BY <1>1, <1>2, Constants DEF LockHeld, Uploading
<1>4. TypeOK'
  BY <1>1, <1>2 DEF TypeOK, Good
<1>5. LockHeld' /\ HandlerKnows'
  BY <1>1, <1>2, <1>3 DEF LockHeld, NothingPending, HandlerKnows, Charging
<1>6. Base'
  BY <1>2, <1>4, <1>5 DEF Base
<1> QED
  BY <1>2, <1>3, <1>6, NoUpload, GrowsItself

-----------------------------------------------------------------------------
(* Attendance and retargeting *)

LEMMA ViewGood ==
  ASSUME IInv, NEW f \in Flows
  PROVE  Good(View(f))
BY DEF IInv, Base, View

LEMMA FirstIs ==
  ASSUME NEW d, NEW n \in Names
  PROVE  First(d, n) \in Chars \cup {NoOne} /\ NewRow(d, n) \in Chars
BY CharIs DEF First, NewRow

LEMMA BoxedIs ==
  ASSUME NEW d, NEW on \in Names \cup {NoOne}
  PROVE  Boxed(d, on) \in Chars \cup {NoOne}
BY FirstIs DEF Boxed

\* A handler that does not upload knows no raid.
LEMMA NoRaidYet ==
  ASSUME IInv, NEW f \in Flows, flow[f].pc \in Lines
  PROVE  /\ flow \in [Flows -> Handler] /\ flow[f] \in Handler /\ flow[f].raid = NoOne
         /\ ~Uploading(f)
BY DEF IInv, Base, TypeOK, HandlerKnows, Charging, Uploading, Lines

LEMMA LineNext ==
  ASSUME NEW k \in Handler, k.raid = NoOne, k.left > 0,
         NEW h, h = [k EXCEPT !.pc = "lines", !.left = @ - 1, !.name = NoOne, !.on = NoOne, !.char = NoOne]
  PROVE  GoesOn(h) /\ h.pc = "lines"
<1>1. k.left - 1 \in Nat
  BY DEF Handler
<1>2. h = [pc |-> "lines", kind |-> k.kind, left |-> k.left - 1, name |-> NoOne,
           char |-> NoOne, on |-> NoOne, want |-> k.want, mark |-> k.mark,
           price |-> k.price, window |-> k.window, members |-> k.members,
           fte |-> k.fte, raid |-> k.raid, todo |-> k.todo]
  BY DEF Handler
<1>3. h \in Handler
  BY <1>1, <1>2 DEF Handler
<1> QED
  BY <1>2, <1>3 DEF GoesOn, Lines

LEMMA LineIsDone ==
  ASSUME IInv, NEW f \in Flows, flow[f].pc \in {"lines", "lookup"}, flow[f].left > 0,
         NEW d, Good(d), Grows(d, View(f)), NEW changed \in BOOLEAN,
         NEW c \in Chars, NEW on \in Chars \cup {NoOne},
         LineDone(f, d, changed, c, on), raids' = raids, commands' \in Nat
  PROVE  IInv'
<1> DEFINE h == [flow[f] EXCEPT !.pc = "lines", !.left = @ - 1, !.name = NoOne,
                                !.on = NoOne, !.char = NoOne]
           next == [flow EXCEPT ![f] = h]
<1>1. flow \in [Flows -> Handler] /\ flow[f] \in Handler /\ flow[f].raid = NoOne /\ ~Uploading(f)
  BY NoRaidYet DEF Lines
<1>2. GoesOn(h) /\ h.pc = "lines"
  BY <1>1, LineNext
<1>3. next = [flow EXCEPT ![f].pc = "lines", ![f].left = @ - 1, ![f].name = NoOne,
                          ![f].on = NoOne, ![f].char = NoOne]
  BY <1>1
<1>4. \/ UNCHANGED session /\ flow' = next
      \/ MayWrite(f) /\ Write(f, d) /\ flow' = next
      \/ /\ MayWrite(f) /\ ~Refused(d, flow[f].kind, c, on)
         /\ \E i \in Ids \ Used(d) : Write(f, Inserted(d, i, c, on))
         /\ flow' = next
      \/ Close(f) /\ Ends(f)
  <2> HIDE DEF next
  <2> QED
    BY <1>3 DEF LineDone
<1> HIDE DEF h
<1>5. CASE UNCHANGED session /\ flow' = next
  BY <1>1, <1>2, <1>5, HandlerStep
<1>6. CASE MayWrite(f) /\ Write(f, d) /\ flow' = next
  BY <1>1, <1>2, <1>6, HandlerStep
<1>7. CASE /\ MayWrite(f) /\ ~Refused(d, flow[f].kind, c, on)
           /\ \E i \in Ids \ Used(d) : Write(f, Inserted(d, i, c, on))
           /\ flow' = next
  <2>1. PICK i \in Ids \ Used(d) : Write(f, Inserted(d, i, c, on))
    BY <1>7
  <2>2. RowsOf(d, c) = {}
    BY <1>7 DEF Refused
  <2>3. Good(Inserted(d, i, c, on)) /\ Grows(Inserted(d, i, c, on), d)
    BY <2>2, InsertedIs
  <2>4. Grows(Inserted(d, i, c, on), View(f))
    BY <2>3, GrowsOn
  <2> QED
    BY <1>1, <1>2, <1>7, <2>1, <2>3, <2>4, HandlerStep
<1>8. CASE Close(f) /\ Ends(f)
  BY <1>1, <1>8, IdleGoesOn, HandlerStep DEF Ends
<1> QED
  BY <1>4, <1>5, <1>6, <1>7, <1>8

LEMMA MessageStep ==
  ASSUME IInv, NEW f \in Flows, NEW kind \in Kinds, NEW n \in Nat, NEW want \in Marks,
         Message(f, kind, n, want), commands' \in Nat
  PROVE  IInv'
<1> DEFINE h == [Idle EXCEPT !.pc = "lines", !.kind = kind, !.left = n, !.want = want, !.mark = db.killed]
<1>1. flow[f].pc = "idle" /\ flow' = [flow EXCEPT ![f] = h] /\ UNCHANGED session /\ raids' = raids
  BY DEF Message
<1>2. ~Uploading(f)
  BY <1>1 DEF Uploading
<1>3. db.killed \in Marks
  BY Fields DEF IInv, Base, Good
<1>4. h \in Handler /\ h.pc = "lines" /\ h.raid = NoOne
  BY <1>3, IdleIs DEF Handler
<1>5. GoesOn(h)
  BY <1>4 DEF GoesOn, Lines
<1> HIDE DEF h
<1> QED
  BY <1>1, <1>2, <1>4, <1>5, HandlerStep

LEMMA LineKnownStep ==
  ASSUME IInv, NEW f \in Flows, NEW n \in Names, NEW on \in Names \cup {NoOne},
         LineKnown(f, n, on), commands' \in Nat
  PROVE  IInv'
<1>1. /\ flow[f].pc = "lines" /\ flow[f].left > 0 /\ raids' = raids
      /\ First(View(f), n) \in Linked(View(f))
      /\ LineDone(f, View(f), FALSE, First(View(f), n), Boxed(View(f), on))
  BY DEF LineKnown, NextLine
<1>2. First(View(f), n) \in Chars
  BY <1>1 DEF Linked
<1> QED
  BY <1>1, <1>2, ViewGood, BoxedIs, GrowsItself, LineIsDone

LEMMA LineAsksStep ==
  ASSUME IInv, NEW f \in Flows, NEW n \in Names, NEW on \in Names \cup {NoOne},
         LineAsks(f, n, on), commands' \in Nat
  PROVE  IInv'
<1> DEFINE v == View(f)
           stores == Stored(v, n) = {} /\ flow[f].kind # "log"
           ch == IF stores THEN NewRow(v, n) ELSE First(v, n)
           h == [flow[f] EXCEPT !.pc = "lookup", !.name = n, !.on = on, !.char = ch]
           asks == flow' = [flow EXCEPT ![f] = h]
<1>1. flow[f].pc = "lines" /\ flow[f].left > 0 /\ raids' = raids
  BY DEF LineAsks, NextLine
<1>2. flow \in [Flows -> Handler] /\ flow[f] \in Handler /\ flow[f].raid = NoOne /\ ~Uploading(f)
  BY <1>1, NoRaidYet DEF Lines
<1>3. \/ stores /\ MayWrite(f) /\ Write(f, Named(v, n)) /\ asks
      \/ Close(f) /\ Ends(f)
      \/ UNCHANGED session /\ asks
  BY <1>2 DEF LineAsks, Named
<1>4. ch \in Chars \cup {NoOne}
  BY FirstIs
<1> HIDE DEF ch
<1>5. h \in Handler /\ h.pc = "lookup" /\ h.raid = NoOne /\ h.left > 0 /\ h.name = n
  BY <1>1, <1>2, <1>4 DEF Handler
<1> HIDE DEF h
<1>6. GoesOn(h)
  BY <1>5 DEF GoesOn, Lines
<1>7. CASE stores /\ MayWrite(f) /\ Write(f, Named(v, n)) /\ asks
  <2>1. Good(Named(v, n)) /\ Grows(Named(v, n), v)
    BY <1>7, ViewGood, NamedIs
  <2> QED
    BY <1>1, <1>2, <1>5, <1>6, <1>7, <2>1, HandlerStep
<1>8. CASE Close(f) /\ Ends(f)
  BY <1>1, <1>2, <1>8, IdleGoesOn, HandlerStep DEF Ends
<1>9. CASE UNCHANGED session /\ asks
  BY <1>1, <1>2, <1>5, <1>6, <1>9, HandlerStep
<1> QED
  BY <1>3, <1>7, <1>8, <1>9

LEMMA LookupFindsStep ==
  ASSUME IInv, NEW f \in Flows, LookupFinds(f), commands' \in Nat
  PROVE  IInv'
<1> DEFINE v == View(f)
           c == IF flow[f].char = NoOne THEN NewRow(v, flow[f].name) ELSE flow[f].char
           d == Link(v, {c})
<1>1. flow[f].pc = "lookup" /\ raids' = raids /\ LineDone(f, d, TRUE, c, Boxed(d, flow[f].on))
  BY DEF LookupFinds
<1>2. flow[f].left > 0 /\ flow[f].name \in Names /\ flow[f] \in Handler
  BY <1>1, NoRaidYet DEF IInv, Base, HandlerKnows, Lines
<1>3. flow[f].char \in Chars \cup {NoOne} /\ flow[f].on \in Names \cup {NoOne}
  BY <1>2 DEF Handler
<1>4. c \in Chars
  BY <1>2, <1>3, FirstIs
<1> HIDE DEF c
<1>5. Good(d) /\ Grows(d, v)
  BY <1>4, ViewGood, LinkIs
<1> HIDE DEF d
<1> QED
  BY <1>1, <1>2, <1>3, <1>4, <1>5, BoxedIs, LineIsDone

LEMMA LookupFailsStep ==
  ASSUME IInv, NEW f \in Flows, LookupFails(f), commands' \in Nat
  PROVE  IInv'
<1> DEFINE h == [flow[f] EXCEPT !.pc = "lines", !.left = @ - 1, !.name = NoOne,
                                !.on = NoOne, !.char = NoOne]
<1>0. flow[f].pc = "lookup" /\ raids' = raids /\ UNCHANGED session
  BY DEF LookupFails
<1>1. flow \in [Flows -> Handler] /\ flow[f] \in Handler /\ flow[f].raid = NoOne /\ ~Uploading(f)
  BY <1>0, NoRaidYet DEF Lines
<1>2. GoesOn(h) /\ h.pc = "lines"
  BY <1>0, <1>1, LineNext DEF IInv, Base, HandlerKnows
<1>3. flow' = [flow EXCEPT ![f] = h]
  BY <1>1 DEF LookupFails
<1> HIDE DEF h
<1> QED
  BY <1>0, <1>1, <1>2, <1>3, HandlerStep

LEMMA LinesEndStep ==
  ASSUME IInv, NEW f \in Flows, LinesEnd(f), commands' \in Nat
  PROVE  IInv'
<1> DEFINE marks == flow[f].want \notin {"unset", flow[f].mark}
           d == [View(f) EXCEPT !.killed = flow[f].want]
<1>1. flow[f].pc = "lines" /\ raids' = raids /\ flow' = [flow EXCEPT ![f] = Idle]
  BY DEF LinesEnd, Ends
<1>2. flow[f] \in Handler /\ ~Uploading(f)
  BY <1>1, NoRaidYet DEF Lines
<1>3. Good(View(f))
  BY ViewGood
<1>4. Good(d) /\ Grows(d, View(f))
  <2>1. flow[f].want \in Marks
    BY <1>2 DEF Handler
  <2>2. d \in Database /\ d.rows = View(f).rows /\ d.known = View(f).known
        /\ d.raid = View(f).raid /\ d.billed = View(f).billed
    BY <1>3, <2>1, KilledSet DEF Good
  <2> HIDE DEF d
  <2> QED
    BY <1>3, <2>2, GoodStays DEF Linked
<1>5. \/ MayWrite(f) /\ Commit(d)
      \/ Close(f)
      \/ lock = f /\ Commit(work)
      \/ lock # f /\ UNCHANGED session
  BY DEF LinesEnd
<1> HIDE DEF d
<1>6. CASE MayWrite(f) /\ Commit(d)
  BY <1>1, <1>2, <1>4, <1>6, IdleGoesOn, HandlerStep
<1>7. CASE Close(f)
  BY <1>1, <1>2, <1>7, IdleGoesOn, HandlerStep
<1>8. CASE lock = f /\ Commit(work)
  <2>1. MayWrite(f) /\ View(f) = work
    BY <1>8 DEF MayWrite, View
  <2> QED
    BY <1>1, <1>2, <1>3, <1>8, <2>1, IdleGoesOn, GrowsItself, HandlerStep
<1>9. CASE lock # f /\ UNCHANGED session
  BY <1>1, <1>2, <1>9, IdleGoesOn, HandlerStep
<1> QED
  BY <1>5, <1>6, <1>7, <1>8, <1>9

LEMMA RetargetStep ==
  ASSUME IInv, NEW f \in Flows, NEW p \in Prices, NEW same \in BOOLEAN,
         Retarget(f, p, same), commands' \in Nat
  PROVE  IInv'
<1>0. PICK n \in BOOLEAN :
        /\ flow[f].pc = "idle" /\ raids' = raids
        /\ \/ UNCHANGED session
           \/ lock = NoOne /\ Write(f, [db EXCEPT !.price = p, !.named = n])
  BY DEF Retarget
<1> DEFINE h == [flow[f] EXCEPT !.pc = "retarget"]
           d == [db EXCEPT !.price = p, !.named = n]
<1>1. /\ flow[f].pc = "idle" /\ raids' = raids
      /\ UNCHANGED session \/ (lock = NoOne /\ Write(f, d))
  BY <1>0
<1>2. flow \in [Flows -> Handler] /\ flow[f] \in Handler /\ flow[f].raid = NoOne /\ ~Uploading(f)
  BY <1>1, NoRaidYet DEF Lines
<1>3. flow' = [flow EXCEPT ![f] = h]
  BY <1>2 DEF Retarget, Goes
<1>4. h \in Handler /\ h.pc = "retarget" /\ h.raid = NoOne
  BY <1>2 DEF Handler
<1>5. GoesOn(h)
  BY <1>4 DEF GoesOn, Lines
<1>6. Good(d) /\ Grows(d, db)
  <2>1. Good(db)
    BY DEF IInv, Base
  <2>2. d \in Database /\ d.rows = db.rows /\ d.known = db.known /\ d.raid = db.raid /\ d.billed = db.billed
    <3>1. db \in Database
      BY <2>1 DEF Good
    <3> QED
      BY <3>1 DEF Database
  <2> HIDE DEF d
  <2> QED
    BY <2>1, <2>2, GoodStays DEF Linked
<1> HIDE DEF h, d
<1>7. CASE UNCHANGED session
  BY <1>1, <1>2, <1>3, <1>4, <1>5, <1>7, HandlerStep
<1>8. CASE lock = NoOne /\ Write(f, d)
  <2>1. MayWrite(f) /\ View(f) = db
    BY <1>8, Constants DEF MayWrite, View
  <2> QED
    BY <1>1, <1>2, <1>3, <1>4, <1>5, <1>6, <1>8, <2>1, HandlerStep
<1> QED
  BY <1>1, <1>7, <1>8

LEMMA RetargetedStep ==
  ASSUME IInv, NEW f \in Flows, flow[f].pc = "retarget",
         NEW S \in SUBSET {c \in Chars : View(f).known[c] # "unknown"},
         NEW new \in [S -> [id : Ids, on : Chars \cup {NoOne}]],
         Retargeted(f, S, new), commands' \in Nat
  PROVE  IInv'
<1> DEFINE v == View(f)
           d == Untracked(v)
<1>1. ~Uploading(f) /\ raids' = raids /\ flow' = [flow EXCEPT ![f] = Idle] /\ MayWrite(f)
  BY DEF Uploading, Retargeted, Ends
<1>2. Good(d) /\ Grows(d, v)
  BY ViewGood, UntrackedIs
<1>3. /\ \A x \in S : RowsOf(d, x) = {} /\ new[x].id \notin Used(d)
      /\ \A x, y \in S : new[x].id = new[y].id => x = y
      /\ Commit(Tracks(d, S, new))
  BY DEF Retargeted, Tracks
<1> HIDE DEF d
<1>4. Good(Tracks(d, S, new)) /\ Grows(Tracks(d, S, new), d)
  BY <1>2, <1>3, TracksIs
<1>5. Grows(Tracks(d, S, new), v)
  BY <1>2, <1>4, GrowsOn
<1> QED
  BY <1>1, <1>3, <1>4, <1>5, IdleGoesOn, HandlerStep

LEMMA RetargetFailsStep ==
  ASSUME IInv, NEW f \in Flows, flow[f].pc = "retarget", RetargetFails(f), commands' \in Nat
  PROVE  IInv'
<1>1. ~Uploading(f) /\ raids' = raids /\ flow' = [flow EXCEPT ![f] = Idle] /\ UNCHANGED session
      /\ lock # f
  BY DEF Uploading, RetargetFails, Ends, MayWrite
<1> QED
  BY <1>1, IdleGoesOn, HandlerStep

-----------------------------------------------------------------------------
(* Commands that commit at once *)

LEMMA RemoveStep ==
  ASSUME IInv, NEW i \in Ids, Remove(i), commands' \in Nat
  PROVE  IInv'
<1>1. Command(Removed(db, i)) /\ Good(db)
  BY DEF Remove, Removed, IInv, Base
<1> QED
  BY <1>1, RemovedIs, CommandStep

LEMMA ClearAttendeesStep ==
  ASSUME IInv, ClearAttendees, commands' \in Nat
  PROVE  IInv'
<1>1. Command(Cleared(db)) /\ Good(db)
  BY DEF ClearAttendees, Cleared, IInv, Base
<1> QED
  BY <1>1, ClearedIs, CommandStep

\* A command that touches neither rows nor characters, nor the raid and its bill.
LEMMA PlainStep ==
  ASSUME IInv, NEW d \in Database, d.rows = db.rows, d.known = db.known, d.raid = db.raid,
         d.billed = db.billed, Command(d), commands' \in Nat
  PROVE  IInv'
<1>1. Good(d) /\ Grows(d, db)
  BY GoodStays DEF IInv, Base, Linked
<1> QED
  BY <1>1, CommandStep

LEMMA MarkStep ==
  ASSUME IInv, NEW mark \in Marks, Mark(mark), commands' \in Nat
  PROVE  IInv'
<1> DEFINE d == [db EXCEPT !.killed = mark]
<1>1. Command(d) /\ db \in Database
  BY DEF Mark, IInv, Base, Good
<1>2. d \in Database /\ d.rows = db.rows /\ d.known = db.known /\ d.raid = db.raid /\ d.billed = db.billed
  BY <1>1, KilledSet
<1> HIDE DEF d
<1> QED
  BY <1>1, <1>2, PlainStep

LEMMA SetPriceStep ==
  ASSUME IInv, NEW p \in Prices, SetPrice(p), commands' \in Nat
  PROVE  IInv'
<1> DEFINE d == [db EXCEPT !.price = p]
<1>1. Command(d) /\ db \in Database
  BY DEF SetPrice, IInv, Base, Good
<1>2. d \in Database /\ d.rows = db.rows /\ d.known = db.known /\ d.raid = db.raid /\ d.billed = db.billed
  BY <1>1, PriceSet
<1> HIDE DEF d
<1> QED
  BY <1>1, <1>2, PlainStep

LEMMA LootStep ==
  ASSUME IInv, NEW T \in [Loots -> Chars \cup {NoOne, Gone}], Command([db EXCEPT !.loot = T]),
         commands' \in Nat
  PROVE  IInv'
<1> DEFINE d == [db EXCEPT !.loot = T]
<1>1. Command(d) /\ db \in Database
  BY DEF IInv, Base, Good
<1>2. d \in Database /\ d.rows = db.rows /\ d.known = db.known /\ d.raid = db.raid /\ d.billed = db.billed
  BY <1>1, LootSet
<1> HIDE DEF d
<1> QED
  BY <1>1, <1>2, PlainStep

LEMMA AwardStep ==
  ASSUME IInv, NEW l \in Loots, NEW n \in Names, Award(l, n), commands' \in Nat
  PROVE  IInv'
<1> DEFINE T == [db.loot EXCEPT ![l] = First(db, n)]
<1>1. db \in Database /\ Command([db EXCEPT !.loot = T])
  BY DEF Award, IInv, Base, Good
<1>2. T \in [Loots -> Chars \cup {NoOne, Gone}]
  BY <1>1, Fields, FirstIs
<1> HIDE DEF T
<1> QED
  BY <1>1, <1>2, LootStep

LEMMA UnlootStep ==
  ASSUME IInv, NEW l \in Loots, Unloot(l), commands' \in Nat
  PROVE  IInv'
<1> DEFINE T == [db.loot EXCEPT ![l] = Gone]
<1>1. db \in Database /\ Command([db EXCEPT !.loot = T])
  BY DEF Unloot, IInv, Base, Good
<1>2. T \in [Loots -> Chars \cup {NoOne, Gone}]
  BY <1>1, Fields
<1> HIDE DEF T
<1> QED
  BY <1>1, <1>2, LootStep

LEMMA ClearLootStep ==
  ASSUME IInv, ClearLoot, commands' \in Nat
  PROVE  IInv'
<1> DEFINE T == [l \in Loots |-> IF db.loot[l] \in Chars THEN Gone ELSE db.loot[l]]
<1>0. db \in Database
  BY DEF IInv, Base, Good
<1>1. Command([db EXCEPT !.loot = T])
  BY <1>0 DEF ClearLoot, Database
<1>2. T \in [Loots -> Chars \cup {NoOne, Gone}]
  BY <1>0, Fields
<1> HIDE DEF T
<1> QED
  BY <1>1, <1>2, LootStep

LEMMA FtesStep ==
  ASSUME IInv, NEW S \in SUBSET Chars, Command([db EXCEPT !.ftes = S]), commands' \in Nat
  PROVE  IInv'
<1> DEFINE d == [db EXCEPT !.ftes = S]
<1>1. Command(d) /\ db \in Database
  BY DEF IInv, Base, Good
<1>2. d \in Database /\ d.rows = db.rows /\ d.known = db.known /\ d.raid = db.raid /\ d.billed = db.billed
  BY <1>1, FtesSet
<1> HIDE DEF d
<1> QED
  BY <1>1, <1>2, PlainStep

LEMMA FteSteps ==
  ASSUME IInv, (\E n \in Names : Fte(n)) \/ (\E c \in Chars : Unfte(c)), commands' \in Nat
  PROVE  IInv'
<1>1. db \in Database /\ db.ftes \subseteq Chars
  BY Fields DEF IInv, Base, Good
<1>2. ASSUME NEW n \in Names, Fte(n) PROVE IInv'
  <2>1. First(db, n) \in Chars
    BY <1>2, CharIs DEF Fte, First
  <2>2. Command([db EXCEPT !.ftes = db.ftes \cup {First(db, n)}])
    BY <1>2 DEF Fte
  <2> QED
    BY <1>1, <2>1, <2>2, FtesStep
<1>3. ASSUME NEW c \in Chars, Unfte(c) PROVE IInv'
  <2>1. Command([db EXCEPT !.ftes = db.ftes \ {c}])
    BY <1>3 DEF Unfte
  <2> QED
    BY <1>1, <2>1, FtesStep
<1> QED
  BY <1>2, <1>3

-----------------------------------------------------------------------------
(* What an upload has to keep: there is one at a time *)

OnePaid(raid) ==
  /\ \A b, c \in raid.members : UserOf[b[1]] = UserOf[c[1]] => b = c
  /\ \A u \in Users : raid.paid[u] <= 1
  /\ raid.value # 0 => \A u \in UsersOf(raid.members) : raid.paid[u] = 0

LEMMA PaidOnceIs == PaidOnce <=> \A r \in RaidIds : OnePaid(raids[r])
BY DEF PaidOnce, OnePaid

OnlyUpload(f) == \A g \in Flows : g # f => ~Uploading(g)

LEMMA UploadsAlone ==
  ASSUME IInv, NEW f \in Flows, Uploading(f)
  PROVE  OnlyUpload(f) /\ lock = f
BY DEF IInv, Base, LockHeld, OnlyUpload

\* Where an upload may go on, and what is committed when it ends.
GoesTo(f, h) ==
  /\ h \in Handler /\ flow' = [flow EXCEPT ![f] = h]
  /\ h.pc # "lookup" /\ (h.raid # NoOne <=> h.pc \in {"adjust", "items"})
  /\ \/ h.pc \in {"members", "raid", "adjust", "items"} /\ lock' = f
     \/ h.pc = "idle" /\ lock' = NoOne /\ work' = db'

LEMMA UploadBase ==
  ASSUME IInv, NEW f \in Flows, OnlyUpload(f), NEW h, GoesTo(f, h), Good(db'), Good(work'),
         raids' \in [RaidIds -> Raid], commands' \in Nat
  PROVE  /\ Base' /\ OnlyUpload(f)' /\ flow'[f] = h
         /\ \A g \in Flows : g # f => flow'[g] = flow[g] /\ flow'[g].raid = NoOne /\ flow[g].raid = NoOne
<1>1. /\ flow' \in [Flows -> Handler] /\ flow'[f] = h
      /\ \A g \in Flows : g # f => flow'[g] = flow[g]
  BY FlowSet DEF IInv, Base, TypeOK, GoesTo
<1>2. OnlyUpload(f)'
  BY <1>1 DEF OnlyUpload, Uploading
<1>3. TypeOK'
  BY <1>1 DEF TypeOK, Good, GoesTo
<1>4. LockHeld'
  BY <1>1, <1>2, Constants DEF LockHeld, NothingPending, GoesTo, OnlyUpload, Uploading
<1>5. HandlerKnows'
  BY <1>1 DEF IInv, Base, HandlerKnows, GoesTo, Charging
<1>6. \A g \in Flows : g # f => flow[g].raid = NoOne
  BY DEF IInv, Base, HandlerKnows, OnlyUpload, Uploading, Charging
<1> QED
  BY <1>1, <1>2, <1>3, <1>4, <1>5, <1>6 DEF Base

\* The upload has ended.
LEMMA UploadEnded ==
  ASSUME Base', Money', \A g \in Flows : ~Uploading(g)', work' = db'
  PROVE  IInv'
<1>1. Pending'
  BY DEF Pending
<1>2. RaidHeld' /\ NothingChanged' /\ RosterKept' /\ TodoLeft'
  BY DEF RaidHeld, NothingChanged, RosterKept, TodoLeft, Uploading, Charging
<1> QED
  BY <1>1, <1>2 DEF IInv, Uploads

\* What is to be kept of the handler of an upload.
UploadKeeps(f) ==
  /\ work.raid = IF Charging(f) THEN flow[f].raid ELSE db.raid
  /\ ~flow[f].window =>
        db.raid = NoOne /\ flow[f].mark = work.killed /\ flow[f].price = work.price
  /\ flow[f].pc = "raid" =>
        Roster(work, db, flow[f].members, IF flow[f].fte THEN 0 ELSE Worth(f))
  /\ Charging(f) =>
        LET raid == raids[flow[f].raid] IN
        /\ raid.value \in {0, Worth(f)}
        /\ Roster(work, db, raid.members, raid.value)
        /\ PaidFor(work, db, Turned(f), raid.paid)
  /\ flow[f].pc = "adjust" => flow[f].todo \subseteq Tracked(work)
  /\ flow[f].pc = "items" => flow[f].todo \subseteq Unbilled(work)

LEMMA KeepsIs ==
  ASSUME Uploads, NEW f \in Flows, Uploading(f)
  PROVE  UploadKeeps(f)
BY DEF Uploads, UploadKeeps, RaidHeld, NothingChanged, RosterKept, TodoLeft, Uploading, Charging

LEMMA KeepsAll ==
  ASSUME NEW f \in Flows, OnlyUpload(f)', Uploading(f)', UploadKeeps(f)',
         db'.billed \subseteq work'.billed, Linked(db') \subseteq Linked(work')
  PROVE  Uploads'
<1>1. \A g \in Flows : Uploading(g)' => g = f
  BY DEF OnlyUpload
<1>2. Pending'
  BY DEF Pending
<1>3. RaidHeld' /\ NothingChanged'
  BY <1>1 DEF UploadKeeps, RaidHeld, NothingChanged
<1>4. RosterKept' /\ TodoLeft'
  BY <1>1 DEF UploadKeeps, RosterKept, TodoLeft, Uploading, Charging
<1> QED
  BY <1>2, <1>3, <1>4 DEF Uploads

\* The raids stay as they are, but for one that is open or has just been made.
LEMMA RaidSetIs ==
  ASSUME raids \in [RaidIds -> Raid], NEW r \in RaidIds, NEW R \in Raid, raids' = [raids EXCEPT ![r] = R]
  PROVE  /\ raids' \in [RaidIds -> Raid] /\ raids'[r] = R
         /\ \A s \in RaidIds : s # r => raids'[s] = raids[s]
OBVIOUS

\* An upload fails, and with it the raid it made.
LEMMA UploadFailed ==
  ASSUME IInv, NEW f \in Flows, Uploading(f), Close(f), Ends(f), commands' \in Nat,
         NEW r \in RaidIds, NEW R \in Raid, raids' = [raids EXCEPT ![r] = R],
         raids[r].state \in {"none", "open"}, flow[f].raid \in {r, NoOne},
         R.state = "failed", OnePaid(R)
  PROVE  IInv'
<1>1. OnlyUpload(f) /\ lock = f
  BY UploadsAlone
<1>2. lock' = NoOne /\ work' = db /\ db' = db
  BY <1>1 DEF Close
<1>3. /\ raids \in [RaidIds -> Raid] /\ Good(db)
  BY DEF IInv, Base, TypeOK
<1>4. /\ raids' \in [RaidIds -> Raid] /\ raids'[r] = R
      /\ \A s \in RaidIds : s # r => raids'[s] = raids[s]
  BY <1>3, RaidSetIs
<1>5. GoesTo(f, Idle)
  BY <1>2, IdleIs DEF GoesTo, Ends
<1>6. /\ Base' /\ OnlyUpload(f)' /\ flow'[f] = Idle
      /\ \A g \in Flows : g # f => flow'[g] = flow[g] /\ flow'[g].raid = NoOne /\ flow[g].raid = NoOne
  BY <1>1, <1>2, <1>3, <1>4, <1>5, UploadBase
<1>7. \A g \in Flows : ~Uploading(g)' /\ flow'[g].raid = NoOne
  BY <1>6, IdleIs DEF OnlyUpload, Uploading
<1>8. \A s \in RaidIds : s # r => raids[s].state # "open"
  BY <1>6, Constants DEF IInv, Money, Recorded
<1>9. Recorded'
  BY <1>2, <1>4, <1>7, <1>8, Constants DEF IInv, Money, Recorded
<1>10. PaidOnce'
  BY <1>4, PaidOnceIs DEF IInv, Money, PaidOnce, OnePaid
<1>11. ChargedOnce'
  BY <1>4 DEF IInv, Money, ChargedOnce
<1>12. Billed'
  BY <1>2, <1>4, <1>8 DEF IInv, Money, Billed
<1> QED
  BY <1>2, <1>6, <1>7, <1>9, <1>10, <1>11, <1>12, UploadEnded DEF Money

\* An upload fails before there is a raid.
LEMMA UploadGivenUp ==
  ASSUME IInv, NEW f \in Flows, Uploading(f), ~Charging(f), Close(f), Ends(f), raids' = raids,
         commands' \in Nat
  PROVE  IInv'
<1>1. OnlyUpload(f) /\ lock = f
  BY UploadsAlone
<1>2. lock' = NoOne /\ work' = db /\ db' = db
  BY <1>1 DEF Close
<1>3. /\ raids \in [RaidIds -> Raid] /\ Good(db) /\ flow[f].raid = NoOne
  BY DEF IInv, Base, TypeOK, HandlerKnows
<1>5. GoesTo(f, Idle)
  BY <1>2, IdleIs DEF GoesTo, Ends
<1>6. /\ Base' /\ OnlyUpload(f)' /\ flow'[f] = Idle
      /\ \A g \in Flows : g # f => flow'[g] = flow[g] /\ flow'[g].raid = NoOne /\ flow[g].raid = NoOne
  BY <1>1, <1>2, <1>3, <1>5, UploadBase
<1>7. \A g \in Flows : ~Uploading(g)' /\ flow'[g].raid = NoOne
  BY <1>6, IdleIs DEF OnlyUpload, Uploading
<1>8. \A s \in RaidIds : raids[s].state # "open"
  BY <1>3, <1>6, Constants DEF IInv, Money, Recorded
<1>9. Recorded'
  BY <1>2, <1>7, <1>8, Constants DEF IInv, Money, Recorded
<1>10. PaidOnce' /\ ChargedOnce'
  BY DEF IInv, Money, PaidOnce, ChargedOnce
<1>11. Billed'
  BY <1>2, <1>8 DEF IInv, Money, Billed
<1> QED
  BY <1>2, <1>6, <1>7, <1>9, <1>10, <1>11, UploadEnded DEF Money

\* The raids are as they were.
LEMMA MoneyStays ==
  ASSUME Money, raids' = raids, \A g \in Flows : flow'[g].raid = flow[g].raid,
         db'.raid = db.raid, db'.billed = db.billed, work.billed \subseteq work'.billed
  PROVE  Money'
BY DEF Money, Recorded, PaidOnce, ChargedOnce, Billed

-----------------------------------------------------------------------------
(* The steps of an upload *)

LEMMA SubmitStep ==
  ASSUME IInv, NEW f \in Flows, NEW force \in BOOLEAN, Submit(f, force), commands' \in Nat
  PROVE  IInv'
<1> DEFINE h == [Idle EXCEPT !.pc = IF db.named THEN "members" ELSE "event",
                             !.mark = db.killed, !.price = db.price]
<1>1. /\ flow[f].pc = "idle" /\ db.raid = NoOne /\ raids' = raids /\ flow' = [flow EXCEPT ![f] = h]
      /\ IF db.named THEN lock = NoOne /\ Write(f, db) ELSE UNCHANGED session
  BY DEF Submit, MaySubmit
<1>2. /\ TypeOK /\ LockHeld /\ HandlerKnows /\ Good(db) /\ Money /\ Pending
  BY DEF IInv, Base, Uploads
<1>3. flow \in [Flows -> Handler] /\ ~Uploading(f) /\ flow[f].raid = NoOne
  BY <1>1, NoRaidYet DEF Lines
<1>4. db.killed \in Marks /\ db.price \in [kill : Nat, nokill : Nat]
  BY <1>2, Fields, Constants DEF Good
<1>5. /\ h \in Handler /\ h.raid = NoOne /\ h.mark = db.killed /\ h.price = db.price /\ h.window = FALSE
      /\ h.pc = IF db.named THEN "members" ELSE "event"
  BY <1>4, Constants DEF Handler, Idle, Kinds, Marks
<1> HIDE DEF h
<1>6. CASE ~db.named
  <2>1. GoesOn(h) /\ h.pc = "event"
    BY <1>5, <1>6 DEF GoesOn, Lines
  <2>2. UNCHANGED session /\ (lock = f => h.pc \notin {"idle", "event"})
    BY <1>1, <1>2, <1>6, Constants DEF LockHeld
  <2> QED
    BY <1>1, <1>3, <2>1, <2>2, HandlerStep
<1>7. CASE db.named
  <2>1. lock = NoOne /\ lock' = f /\ work' = db /\ db' = db /\ work = db
    BY <1>1, <1>2, <1>7 DEF Write, LockHeld, NothingPending
  <2>2. OnlyUpload(f)
    BY <1>2, <2>1, Constants DEF LockHeld, OnlyUpload
  <2>3. GoesTo(f, h) /\ h.pc = "members"
    BY <1>1, <1>5, <1>7, <2>1 DEF GoesTo
  <2>4. /\ Base' /\ OnlyUpload(f)' /\ flow'[f] = h
        /\ \A g \in Flows : g # f => flow'[g] = flow[g] /\ flow'[g].raid = NoOne /\ flow[g].raid = NoOne
    BY <1>1, <1>2, <2>1, <2>2, <2>3, UploadBase DEF TypeOK
  <2>5. \A g \in Flows : flow'[g].raid = flow[g].raid
    BY <1>3, <1>5, <2>4
  <2>6. Money'
    BY <1>1, <1>2, <2>1, <2>5, MoneyStays
  <2>7. Uploading(f)' /\ UploadKeeps(f)'
    BY <1>1, <1>5, <2>1, <2>3, <2>4 DEF Uploading, Charging, UploadKeeps
  <2> QED
    BY <2>1, <2>4, <2>6, <2>7, KeepsAll DEF IInv
<1> QED
  BY <1>6, <1>7

LEMMA EventMadeStep ==
  ASSUME IInv, NEW f \in Flows, EventMade(f), commands' \in Nat
  PROVE  IInv'
<1> DEFINE d == [db EXCEPT !.named = TRUE]
           h == [flow[f] EXCEPT !.pc = "members", !.window = TRUE]
<1>1. flow[f].pc = "event" /\ raids' = raids
  BY DEF EventMade
<1>2. /\ TypeOK /\ LockHeld /\ Good(db) /\ Money
  BY DEF IInv, Base
<1>3. flow \in [Flows -> Handler] /\ flow[f] \in Handler /\ ~Uploading(f) /\ flow[f].raid = NoOne
  BY <1>1, NoRaidYet DEF Lines
<1>4. \/ MayWrite(f) /\ Write(f, d) /\ flow' = [flow EXCEPT ![f] = h]
      \/ ~MayWrite(f) /\ Ends(f) /\ UNCHANGED session
  BY <1>3 DEF EventMade
<1>5. CASE ~MayWrite(f) /\ Ends(f) /\ UNCHANGED session
  BY <1>1, <1>3, <1>5, IdleGoesOn, HandlerStep DEF Ends, MayWrite
<1>6. CASE MayWrite(f) /\ Write(f, d) /\ flow' = [flow EXCEPT ![f] = h]
  <2>1. lock = NoOne /\ lock' = f /\ work' = d /\ db' = db /\ work = db
    BY <1>1, <1>2, <1>6, Constants DEF Write, MayWrite, LockHeld, NothingPending
  <2>2. OnlyUpload(f)
    BY <1>2, <2>1, Constants DEF LockHeld, OnlyUpload
  <2>3. d \in Database /\ d.rows = db.rows /\ d.known = db.known /\ d.raid = db.raid /\ d.billed = db.billed
    BY <1>2, NamedSet DEF Good
  <2>4. h \in Handler /\ h.pc = "members" /\ h.window = TRUE /\ h.raid = NoOne
    BY <1>3 DEF Handler
  <2> HIDE DEF d, h
  <2>5. Good(d)
    BY <1>2, <2>3, GoodStays DEF Linked
  <2>6. GoesTo(f, h)
    BY <1>6, <2>1, <2>4 DEF GoesTo
  <2>7. /\ Base' /\ OnlyUpload(f)' /\ flow'[f] = h
        /\ \A g \in Flows : g # f => flow'[g] = flow[g] /\ flow'[g].raid = NoOne /\ flow[g].raid = NoOne
    BY <1>1, <1>2, <2>1, <2>2, <2>5, <2>6, UploadBase DEF TypeOK
  <2>8. \A g \in Flows : flow'[g].raid = flow[g].raid
    BY <1>3, <2>4, <2>7
  <2>9. Money'
    BY <1>1, <1>2, <2>1, <2>3, <2>8, MoneyStays
  <2>10. Uploading(f)' /\ UploadKeeps(f)'
    BY <2>1, <2>3, <2>4, <2>7 DEF Uploading, Charging, UploadKeeps
  <2>11. db'.billed \subseteq work'.billed /\ Linked(db') \subseteq Linked(work')
    BY <2>1, <2>3 DEF Linked
  <2> QED
    BY <2>7, <2>9, <2>10, <2>11, KeepsAll DEF IInv
<1> QED
  BY <1>4, <1>5, <1>6

LEMMA SameRows ==
  ASSUME NEW c, NEW d, c.rows = d.rows
  PROVE  Used(c) = Used(d) /\ Tracked(c) = Tracked(d) /\ Attending(c) = Attending(d)
BY DEF Used, Tracked, Attending

\* The members that are found are a roster of what is committed and written.
LEMMA RosterIs ==
  ASSUME NEW d \in Database, NEW w \in Database, Linked(w) \subseteq Linked(d), NEW worth,
         NEW buy, buy = (IF Attending(d) \cap Linked(d) = {} /\ worth = 0 THEN Buyers(d) ELSE {}),
         NEW came, came = (Attending(d) \cap Linked(d)) \cup (buy \cap Linked(d)),
         NEW asked, asked = Attending(d) \cup buy \cup (IF came = {} THEN d.ftes ELSE {}),
         NEW M \in OnePerUser(asked \cap Linked(d))
  PROVE  Roster(d, w, M, IF came = {} THEN 0 ELSE worth)
<1>1. /\ M \subseteq asked \cap Linked(d) /\ UsersOf(M) = UsersOf(asked \cap Linked(d))
      /\ \A b, c \in M : UserOf[b[1]] = UserOf[c[1]] => b = c
  BY DEF OnePerUser
<1>2. UsersOf(Attending(d) \cap Linked(w)) \subseteq UsersOf(asked \cap Linked(d))
  BY DEF UsersOf
<1>3. ASSUME NEW c \in M
      PROVE  \/ c \in Attending(d) \cap Linked(d)
             \/ (IF came = {} THEN 0 ELSE worth) = 0 /\ c \in Buyers(d) \cup d.ftes
  <2>1. c \in Linked(d) /\ (c \in Attending(d) \/ c \in buy \/ (came = {} /\ c \in d.ftes))
    BY <1>1
  <2>2. CASE c \in buy
    BY <2>1, <2>2
  <2> QED
    BY <2>1, <2>2
<1> QED
  BY <1>1, <1>2, <1>3 DEF Roster

\* The handler once its members are found.
ToRaid(k, M, fte) == [k EXCEPT !.pc = "raid", !.members = M, !.fte = fte]

LEMMA MembersSet ==
  ASSUME NEW k \in Handler, NEW M \in SUBSET Chars, NEW b \in BOOLEAN,
         NEW h, h = ToRaid(k, M, b)
  PROVE  /\ h \in Handler /\ h.pc = "raid" /\ h.members = M /\ h.fte = b
         /\ h.raid = k.raid /\ h.window = k.window /\ h.mark = k.mark
         /\ h.price = k.price
<1>1. h = [pc |-> "raid", kind |-> k.kind, left |-> k.left, name |-> k.name,
           char |-> k.char, on |-> k.on, want |-> k.want, mark |-> k.mark,
           price |-> k.price, window |-> k.window, members |-> M,
           fte |-> b, raid |-> k.raid, todo |-> k.todo]
  BY DEF Handler, ToRaid
<1>2. h \in Handler
  BY <1>1 DEF Handler
<1> QED
  BY <1>1, <1>2

LEMMA MembersFoundStep ==
  ASSUME IInv, NEW f \in Flows, NEW S \in SUBSET Chars, MembersFound(f, S), commands' \in Nat
  PROVE  IInv'
<1> DEFINE d == Link(work, S)
           attend == Attending(d) \cap Linked(d)
           buy == IF attend = {} /\ Worth(f) = 0 THEN Buyers(d) ELSE {}
           came == attend \cup (buy \cap Linked(d))
           asked == Attending(d) \cup buy \cup (IF came = {} THEN d.ftes ELSE {})
           found == asked \cap Linked(d)
           h(M) == ToRaid(flow[f], M, came = {})
<1>0. /\ TypeOK /\ HandlerKnows /\ Good(db) /\ Good(work) /\ Money /\ Uploads /\ Pending
  BY DEF IInv, Base, Uploads
<1>1. flow[f].pc = "members" /\ raids' = raids /\ Uploading(f) /\ ~Charging(f)
  BY DEF MembersFound, Uploading, Charging
<1>2. flow \in [Flows -> Handler] /\ flow[f] \in Handler /\ flow[f].raid = NoOne
  BY <1>0, <1>1 DEF TypeOK, HandlerKnows
<1>3. OnlyUpload(f) /\ lock = f /\ UploadKeeps(f)
  BY <1>0, <1>1, UploadsAlone, KeepsIs
<1>4. \/ Close(f) /\ Ends(f)
      \/ Write(f, d) /\ \E M \in OnePerUser(found) : flow' = [flow EXCEPT ![f] = h(M)]
  <2>1. \A M : [flow EXCEPT ![f].pc = "raid", ![f].members = M, ![f].fte = (came = {})] = [flow EXCEPT ![f] = h(M)]
    BY <1>2 DEF ToRaid
  <2> HIDE DEF h
  <2> QED
    BY <2>1 DEF MembersFound
<1>5. CASE Close(f) /\ Ends(f)
  BY <1>1, <1>5, UploadGivenUp
<1>6. CASE Write(f, d) /\ \E M \in OnePerUser(found) : flow' = [flow EXCEPT ![f] = h(M)]
  <2>1. PICK M \in OnePerUser(found) : flow' = [flow EXCEPT ![f] = h(M)]
    BY <1>6
  <2>2. lock' = f /\ work' = d /\ db' = db
    BY <1>6 DEF Write
  <2>3. /\ Good(d) /\ Grows(d, work) /\ Linked(d) = Linked(work) \cup S /\ d.raid = work.raid
        /\ d.killed = work.killed /\ d.price = work.price /\ d.billed = work.billed
    BY <1>0, LinkIs
  <2> HIDE DEF d
  <2>4. d \in Database /\ db \in Database
    BY <1>0, <2>3 DEF Good
  <2>5. Linked(db) \subseteq Linked(d) /\ db.billed \subseteq d.billed
    BY <1>0, <2>3 DEF Pending
  <2>6. Roster(d, db, M, IF came = {} THEN 0 ELSE Worth(f))
    BY <2>1, <2>4, <2>5, RosterIs
  <2>7. M \subseteq Chars
    BY <2>1 DEF OnePerUser, Linked
  <2> HIDE DEF came, found
  <2>8. /\ h(M) \in Handler /\ h(M).pc = "raid" /\ h(M).members = M /\ h(M).fte = (came = {})
        /\ h(M).raid = NoOne /\ h(M).window = flow[f].window /\ h(M).mark = flow[f].mark
        /\ h(M).price = flow[f].price
    <3> DEFINE fte == came = {}
    <3>1. fte \in BOOLEAN /\ h(M) = ToRaid(flow[f], M, fte)
      OBVIOUS
    <3> HIDE DEF fte, h
    <3>2. PICK k \in Handler, b \in BOOLEAN, H \in {h(M)} :
            k = flow[f] /\ b = fte /\ H = ToRaid(k, M, b)
      BY <1>2, <3>1
    <3>3. /\ H \in Handler /\ H.pc = "raid" /\ H.members = M /\ H.fte = b
          /\ H.raid = k.raid /\ H.window = k.window /\ H.mark = k.mark
          /\ H.price = k.price
      BY <2>7, <3>2, MembersSet
    <3> QED
      BY <1>2, <3>2, <3>3 DEF fte
  <2> HIDE DEF h
  <2>9. GoesTo(f, h(M))
    BY <2>1, <2>2, <2>8 DEF GoesTo
  <2>10. /\ Base' /\ OnlyUpload(f)' /\ flow'[f] = h(M)
         /\ \A g \in Flows : g # f => flow'[g] = flow[g] /\ flow'[g].raid = NoOne /\ flow[g].raid = NoOne
    BY <1>0, <1>1, <1>3, <2>2, <2>3, <2>9, UploadBase DEF TypeOK
  <2>11. \A g \in Flows : flow'[g].raid = flow[g].raid
    BY <1>2, <2>8, <2>10
  <2>12. Money'
    BY <1>0, <1>1, <2>2, <2>3, <2>11, MoneyStays
  <2>13. Worth(f)' = Worth(f)
    BY <2>8, <2>10 DEF Worth
  <2>14. Uploading(f)' /\ ~Charging(f)'
    BY <2>8, <2>10 DEF Uploading, Charging
  <2>15. Roster(work', db', flow'[f].members, IF flow'[f].fte THEN 0 ELSE Worth(f)')
    BY <2>2, <2>6, <2>8, <2>10, <2>13
  <2>16. UploadKeeps(f)'
    BY <1>1, <1>3, <2>2, <2>3, <2>8, <2>10, <2>14, <2>15 DEF UploadKeeps
  <2> QED
    BY <2>2, <2>5, <2>10, <2>12, <2>14, <2>16, KeepsAll DEF IInv
<1> QED
  BY <1>4, <1>5, <1>6

LEMMA WorthIs ==
  ASSUME NEW f \in Flows, flow[f] \in Handler
  PROVE  Worth(f) \in Nat
BY DEF Handler, Worth, Value

LEMMA NewRaidIs ==
  ASSUME IInv, NEW f \in Flows, flow[f].pc = "raid", NEW state \in {"open", "failed"},
         NEW R, R = NewRaid(f, state)
  PROVE  /\ R \in Raid /\ OnePaid(R) /\ R.state = state /\ R.members = flow[f].members
         /\ R.value = (IF flow[f].fte THEN 0 ELSE Worth(f)) /\ R.items = {}
         /\ \A u \in Users : R.paid[u] = 0
<1>1. flow[f] \in Handler /\ Uploading(f)
  BY DEF IInv, Base, TypeOK, Uploading
<1>2. Roster(work, db, flow[f].members, IF flow[f].fte THEN 0 ELSE Worth(f))
  BY DEF IInv, Uploads, RosterKept
<1>3. flow[f].members \in SUBSET Chars /\ Worth(f) \in Nat
  BY <1>1, WorthIs DEF Handler
<1>4. /\ R.state = state /\ R.members = flow[f].members
      /\ R.value = (IF flow[f].fte THEN 0 ELSE Worth(f)) /\ R.items = {}
      /\ R.paid = [u \in Users |-> 0]
  BY DEF NewRaid
<1>5. R \in Raid
  BY <1>3 DEF Raid, NewRaid
<1>6. \A u \in UsersOf(R.members) : u \in Users
  BY <1>3, <1>4, CharIs DEF UsersOf
<1>7. OnePaid(R)
  BY <1>2, <1>4, <1>6 DEF OnePaid, Roster
<1> QED
  BY <1>4, <1>5, <1>7

LEMMA NoRaidIs == NoRaid.state = "none" /\ NoRaid.items = {}
BY DEF NoRaid

LEMMA RaidMadeStep ==
  ASSUME IInv, NEW f \in Flows, NEW r \in RaidIds, RaidMade(f, r), commands' \in Nat
  PROVE  IInv'
<1> DEFINE R == NewRaid(f, "open")
           d == [work EXCEPT !.raid = r]
           h == [flow[f] EXCEPT !.pc = "adjust", !.raid = r, !.todo = Tracked(work)]
<1>0. /\ TypeOK /\ HandlerKnows /\ Good(db) /\ Good(work) /\ Money /\ Uploads /\ Pending
  BY DEF IInv, Base, Uploads
<1>1. /\ flow[f].pc = "raid" /\ raids[r] = NoRaid /\ raids' = [raids EXCEPT ![r] = R] /\ Write(f, d)
      /\ Uploading(f) /\ ~Charging(f)
  BY DEF RaidMade, Uploading, Charging
<1>2. flow \in [Flows -> Handler] /\ flow[f] \in Handler /\ flow[f].raid = NoOne
  BY <1>0, <1>1 DEF TypeOK, HandlerKnows
<1>3. OnlyUpload(f) /\ lock = f /\ UploadKeeps(f)
  BY <1>0, <1>1, UploadsAlone, KeepsIs
<1>4. flow' = [flow EXCEPT ![f] = h]
  BY <1>2 DEF RaidMade
<1>5. /\ R \in Raid /\ OnePaid(R) /\ R.state = "open" /\ R.members = flow[f].members
      /\ R.value = (IF flow[f].fte THEN 0 ELSE Worth(f)) /\ R.items = {}
      /\ \A u \in Users : R.paid[u] = 0
  BY <1>1, NewRaidIs
<1>6. /\ d \in Database /\ d.raid = r
      /\ d.rows = work.rows /\ d.known = work.known /\ d.killed = work.killed /\ d.price = work.price
      /\ d.named = work.named /\ d.loot = work.loot /\ d.billed = work.billed /\ d.ftes = work.ftes
  BY <1>0, RaidSet DEF Good
<1>7. Tracked(work) \in SUBSET (Ids \cup Loots)
  BY <1>0, RowOf DEF Good
<1>8. /\ h \in Handler /\ h.pc = "adjust" /\ h.raid = r /\ h.todo = Tracked(work)
      /\ h.window = flow[f].window /\ h.mark = flow[f].mark /\ h.price = flow[f].price
  BY <1>2, <1>7 DEF Handler
<1> HIDE DEF R, d, h
<1>9. lock' = f /\ work' = d /\ db' = db
  BY <1>1 DEF Write
<1>10. GoesTo(f, h)
  BY <1>4, <1>8, <1>9, Constants DEF GoesTo
<1>11. raids' \in [RaidIds -> Raid] /\ raids'[r] = R /\ \A s \in RaidIds : s # r => raids'[s] = raids[s]
  BY <1>0, <1>1, <1>5, RaidSetIs DEF TypeOK
<1>12. Good(d) /\ Linked(d) = Linked(work)
  BY <1>0, <1>6 DEF Good, OneRowIn, Used, Linked
<1>13. /\ Base' /\ OnlyUpload(f)' /\ flow'[f] = h
       /\ \A g \in Flows : g # f => flow'[g] = flow[g] /\ flow'[g].raid = NoOne /\ flow[g].raid = NoOne
  BY <1>0, <1>3, <1>9, <1>10, <1>11, <1>12, UploadBase
<1>14. Uploading(f)' /\ Charging(f)' /\ Worth(f)' = Worth(f)
  BY <1>8, <1>13 DEF Uploading, Charging, Worth
<1>15. raids[r].state = "none"
  BY <1>1, NoRaidIs
<1>16. \A s \in RaidIds : raids[s].state # "open"
  BY <1>0, <1>2, <1>13, Constants DEF Money, Recorded
<1>17. Recorded'
  <2>1. \A s \in RaidIds : raids'[s].state = "recorded" <=> db'.raid = s
    BY <1>0, <1>5, <1>9, <1>11, <1>15 DEF Money, Recorded
  <2>2. \A s \in RaidIds : (\E g \in Flows : flow'[g].raid = s) <=> s = r
    BY <1>8, <1>13, Constants
  <2> QED
    BY <1>5, <1>11, <1>16, <2>1, <2>2 DEF Recorded
<1>18. PaidOnce'
  BY <1>0, <1>5, <1>11 DEF Money, PaidOnce, OnePaid
<1>19. ChargedOnce' /\ Billed'
  BY <1>0, <1>5, <1>6, <1>9, <1>11, <1>16 DEF Money, ChargedOnce, Billed
<1>20. Roster(work', db', R.members, R.value)
  <2>1. Roster(work, db, R.members, R.value)
    BY <1>1, <1>3, <1>5 DEF UploadKeeps
  <2> QED
    BY <1>6, <1>9, <1>12, <2>1 DEF Roster, Attending, Buyers
<1>21. Turned(f)' = {}
  BY <1>6, <1>8, <1>9, <1>13, SameRows DEF Turned
<1>22. PaidFor(work', db', Turned(f)', R.paid)
  BY <1>5, <1>21 DEF PaidFor
<1>23. UploadKeeps(f)'
  <2>1. work'.raid = flow'[f].raid /\ raids'[flow'[f].raid] = R
    BY <1>6, <1>8, <1>9, <1>11, <1>13
  <2>2. ~flow'[f].window => db'.raid = NoOne /\ flow'[f].mark = work'.killed /\ flow'[f].price = work'.price
    BY <1>3, <1>6, <1>8, <1>9, <1>13 DEF UploadKeeps
  <2>3. flow'[f].pc = "adjust" /\ flow'[f].todo \subseteq Tracked(work')
    BY <1>6, <1>8, <1>9, <1>13, SameRows
  <2>4. R.value \in {0, Worth(f)'}
    BY <1>5, <1>14
  <2> QED
    BY <1>14, <1>20, <1>22, <2>1, <2>2, <2>3, <2>4 DEF UploadKeeps
<1>24. db'.billed \subseteq work'.billed /\ Linked(db') \subseteq Linked(work')
  BY <1>0, <1>6, <1>9, <1>12 DEF Pending
<1> QED
  BY <1>13, <1>14, <1>17, <1>18, <1>19, <1>23, <1>24, KeepsAll DEF IInv, Money

LEMMA RaidLostStep ==
  ASSUME IInv, NEW f \in Flows, NEW r \in RaidIds, RaidLost(f, r), commands' \in Nat
  PROVE  IInv'
<1> DEFINE R == NewRaid(f, "failed")
<1>1. /\ flow[f].pc = "raid" /\ raids[r] = NoRaid /\ raids' = [raids EXCEPT ![r] = R]
      /\ Close(f) /\ Ends(f) /\ Uploading(f) /\ ~Charging(f)
  BY DEF RaidLost, Uploading, Charging
<1>2. flow[f].raid = NoOne
  BY <1>1 DEF IInv, Base, HandlerKnows
<1>3. R \in Raid /\ OnePaid(R) /\ R.state = "failed"
  BY <1>1, NewRaidIs
<1>4. raids[r].state = "none"
  BY <1>1, NoRaidIs
<1> HIDE DEF R
<1> QED
  BY <1>1, <1>2, <1>3, <1>4, UploadFailed

UserAt(d, i) == UserOf[d.rows[i].char[1]]
Credited(raid, u) == [raid EXCEPT !.paid[u] = @ + 1]
Turn(raid, d, i) == IF Pays(d, i) THEN Credited(raid, UserAt(d, i)) ELSE raid

LEMMA CreditedIs ==
  ASSUME NEW R \in Raid, NEW u \in Users, NEW c, c = Credited(R, u)
  PROVE  /\ c \in Raid /\ c.state = R.state /\ c.members = R.members /\ c.value = R.value
         /\ c.items = R.items /\ c.paid \in [Users -> Nat] /\ R.paid \in [Users -> Nat]
         /\ c.paid[u] = R.paid[u] + 1
         /\ \A v \in Users : v # u => c.paid[v] = R.paid[v]
<1> DEFINE p == [R.paid EXCEPT ![u] = @ + 1]
<1>1. R.paid \in [Users -> Nat]
  BY DEF Raid
<1>2. p \in [Users -> Nat] /\ p[u] = R.paid[u] + 1 /\ \A v \in Users : v # u => p[v] = R.paid[v]
  BY <1>1
<1>3. c = [R EXCEPT !.paid = p]
  BY DEF Credited
<1> HIDE DEF p
<1>4. /\ c \in Raid /\ c.state = R.state /\ c.members = R.members /\ c.value = R.value
      /\ c.items = R.items /\ c.paid = p
  <2>1. c = [R EXCEPT !.paid = p] /\ R \in Raid /\ p \in [Users -> Nat]
    BY <1>2, <1>3
  <2> QED
    BY <2>1 DEF Raid
<1> QED
  BY <1>1, <1>2, <1>4

\* A tracker has his turn: he is paid when no other row is of his user, and then
\* nobody has paid that user yet, as a member or as a tracker.
LEMMA TurnIs ==
  ASSUME NEW w \in Database, NEW d \in Database, NEW e \in Database,
         d.rows = w.rows, Linked(w) \subseteq Linked(d), Linked(e) \subseteq Linked(w),
         NEW T \in SUBSET Tracked(w), NEW i \in Tracked(w) \ T,
         NEW R \in Raid, OnePaid(R), Roster(w, e, R.members, R.value), PaidFor(w, e, T, R.paid),
         NEW c, c = Turn(R, d, i)
  PROVE  /\ c \in Raid /\ OnePaid(c) /\ PaidFor(d, e, T \cup {i}, c.paid)
         /\ c.state = R.state /\ c.members = R.members /\ c.value = R.value /\ c.items = R.items
<1> DEFINE u == UserAt(d, i)
<1>1. /\ Used(d) = Used(w) /\ Tracked(d) = Tracked(w) /\ i \in Used(d) /\ T \subseteq Used(d)
  BY SameRows, RowOf
<1>2. \A j \in Used(d) : d.rows[j].char \in Chars /\ UserAt(d, j) \in Users
  BY RowOf, CharIs DEF UserAt
<1>3. \A j \in T : OnlyRow(d, j) => OnlyRow(w, j)
  BY <1>1 DEF OnlyRow
<1>4. /\ \A v \in Users : R.paid[v] > 0 =>
            \E j \in T : w.rows[j].char \in Linked(w) /\ UserAt(w, j) = v
      /\ \A j \in T : w.rows[j].char \in Linked(e) /\ OnlyRow(w, j) => R.paid[UserAt(w, j)] > 0
  BY DEF PaidFor, UserAt
<1>5. UserAt(d, i) = UserAt(w, i) /\ \A j \in T : UserAt(d, j) = UserAt(w, j)
  BY DEF UserAt
<1>6. R.paid \in [Users -> Nat]
  BY DEF Raid
<1>7. CASE ~Pays(d, i)
  <2>1. c = R
    BY <1>7 DEF Turn
  <2>2. \A v \in Users : c.paid[v] > 0 =>
            \E j \in T \cup {i} : d.rows[j].char \in Linked(d) /\ UserAt(d, j) = v
    BY <1>4, <1>5, <2>1
  <2>3. ASSUME NEW j \in T \cup {i}, d.rows[j].char \in Linked(e), OnlyRow(d, j)
        PROVE  c.paid[UserAt(d, j)] > 0
    <3>1. CASE j = i
      BY <1>7, <2>3, <3>1 DEF Pays
    <3>2. CASE j \in T
      BY <1>3, <1>4, <1>5, <2>1, <2>3, <3>2
    <3> QED
      BY <3>1, <3>2
  <2>4. PaidFor(d, e, T \cup {i}, c.paid)
    BY <2>2, <2>3 DEF PaidFor, UserAt
  <2> QED
    BY <2>1, <2>4
<1>8. CASE Pays(d, i)
  <2>0. u \in Users
    BY <1>1, <1>2
  <2>1. /\ c \in Raid /\ c.state = R.state /\ c.members = R.members /\ c.value = R.value
        /\ c.items = R.items /\ c.paid[u] = R.paid[u] + 1
        /\ \A v \in Users : v # u => c.paid[v] = R.paid[v]
    <3>1. c = Credited(R, u)
      BY <1>8 DEF Turn
    <3> QED
      BY <2>0, <3>1, CreditedIs
  <2>2. d.rows[i].char \in Linked(d) /\ OnlyRow(d, i)
    BY <1>8 DEF Pays
  <2>3. R.paid[u] = 0
    <3>1. SUFFICES ASSUME R.paid[u] > 0 PROVE FALSE
      BY <1>6, <2>0
    <3>2. PICK j \in T : w.rows[j].char \in Linked(w) /\ UserAt(w, j) = u
      BY <1>4, <2>0, <3>1
    <3>3. j \in Used(d) \ {i} /\ d.rows[j].char \in Linked(d) /\ UserAt(d, j) = u
      BY <1>1, <1>5, <3>2
    <3> QED
      BY <2>2, <3>3 DEF OnlyRow, UserAt
  <2>4. R.value # 0 => u \notin UsersOf(R.members)
    <3>1. SUFFICES ASSUME R.value # 0, NEW x \in R.members, UserOf[x[1]] = u PROVE FALSE
      BY DEF UsersOf
    <3>2. x \in Attending(w) /\ x \in Linked(w)
      BY <3>1 DEF Roster
    <3>3. PICK j \in Ids : w.rows[j].char = x /\ ~w.rows[j].tracked
      BY <3>2 DEF Attending
    <3>4. j \in Used(w) /\ j # i
      BY <3>2, <3>3, RowOf DEF Tracked
    <3>5. j \in Used(d) \ {i} /\ d.rows[j].char = x /\ x \in Linked(d)
      BY <1>1, <3>2, <3>3, <3>4
    <3> QED
      BY <2>2, <3>1, <3>5 DEF OnlyRow, UserAt
  <2>5. OnePaid(c)
    <3>1. \A v \in Users : c.paid[v] <= 1
      BY <1>6, <2>0, <2>1, <2>3 DEF OnePaid
    <3>2. \A v \in UsersOf(R.members) : v \in Users
      BY CharIs DEF UsersOf, Raid
    <3>3. c.value # 0 => \A v \in UsersOf(c.members) : c.paid[v] = 0
      BY <2>1, <2>4, <3>2 DEF OnePaid
    <3> QED
      BY <2>1, <3>1, <3>3 DEF OnePaid
  <2>6. \A v \in Users : c.paid[v] > 0 =>
            \E j \in T \cup {i} : d.rows[j].char \in Linked(d) /\ UserAt(d, j) = v
    BY <1>4, <1>5, <2>1, <2>2
  <2>7. ASSUME NEW j \in T \cup {i}, d.rows[j].char \in Linked(e), OnlyRow(d, j)
        PROVE  c.paid[UserAt(d, j)] > 0
    <3>1. CASE j = i
      BY <2>1, <2>3, <3>1
    <3>2. CASE j \in T
      <4>1. R.paid[UserAt(d, j)] > 0 /\ UserAt(d, j) \in Users
        BY <1>1, <1>2, <1>3, <1>4, <1>5, <2>7, <3>2
      <4> QED
        BY <2>1, <2>3, <4>1
    <3> QED
      BY <3>1, <3>2
  <2>8. PaidFor(d, e, T \cup {i}, c.paid)
    BY <2>6, <2>7 DEF PaidFor, UserAt
  <2> QED
    BY <2>1, <2>5, <2>8
<1> QED
  BY <1>7, <1>8

LEMMA RosterStays ==
  ASSUME NEW w, NEW d, NEW e, NEW M, NEW v, Roster(w, e, M, v),
         d.rows = w.rows, d.loot = w.loot, d.ftes = w.ftes, Linked(w) \subseteq Linked(d)
  PROVE  Roster(d, e, M, v)
<1>1. Attending(d) = Attending(w) /\ Buyers(d) = Buyers(w)
  BY DEF Attending, Buyers
<1> QED
  BY <1>1 DEF Roster

\* An upload that charges has one raid, which is open, and no other is.
LEMMA ChargingIs ==
  ASSUME IInv, NEW f \in Flows, Charging(f)
  PROVE  /\ Uploading(f) /\ OnlyUpload(f) /\ lock = f /\ UploadKeeps(f)
         /\ flow \in [Flows -> Handler] /\ flow[f] \in Handler /\ raids \in [RaidIds -> Raid]
         /\ flow[f].raid \in RaidIds /\ raids[flow[f].raid] \in Raid
         /\ raids[flow[f].raid].state = "open" /\ work.raid = flow[f].raid
         /\ OnePaid(raids[flow[f].raid])
         /\ \A s \in RaidIds : s # flow[f].raid => raids[s].state # "open"
         /\ \A g \in Flows : g # f => flow[g].raid = NoOne
<1>1. Uploading(f)
  BY DEF Uploading, Charging
<1>2. OnlyUpload(f) /\ lock = f /\ UploadKeeps(f)
  BY <1>1, UploadsAlone, KeepsIs DEF IInv
<1>3. flow \in [Flows -> Handler] /\ flow[f] \in Handler /\ raids \in [RaidIds -> Raid]
  BY DEF IInv, Base, TypeOK
<1>4. flow[f].raid \in RaidIds
  BY <1>3 DEF IInv, Base, HandlerKnows, Handler
<1>5. \A g \in Flows : g # f => flow[g].raid = NoOne
  BY <1>2 DEF IInv, Base, HandlerKnows, OnlyUpload, Uploading, Charging
<1>6. \A s \in RaidIds : raids[s].state = "open" <=> s = flow[f].raid
  BY <1>4, <1>5, Constants DEF IInv, Money, Recorded
<1>7. OnePaid(raids[flow[f].raid])
  BY <1>4, PaidOnceIs DEF IInv, Money
<1> QED
  BY <1>1, <1>2, <1>3, <1>4, <1>5, <1>6, <1>7 DEF UploadKeeps

\* The raid of an upload changes, and stays open.
LEMMA MoneyGoesOn ==
  ASSUME IInv, NEW f \in Flows, Charging(f), NEW r \in RaidIds, r = flow[f].raid,
         NEW R \in Raid, raids' = [raids EXCEPT ![r] = R], R.state = "open", OnePaid(R),
         R.items \subseteq work'.billed, db' = db,
         \A s \in RaidIds : s # r /\ raids[s].state # "failed" => R.items \cap raids[s].items = {},
         \A g \in Flows : flow'[g].raid = flow[g].raid
  PROVE  Money'
<1>1. /\ raids' \in [RaidIds -> Raid] /\ raids'[r] = R
      /\ \A s \in RaidIds : s # r => raids'[s] = raids[s]
  BY ChargingIs, RaidSetIs
<1>2. raids[r].state = "open" /\ \A s \in RaidIds : s # r => raids[s].state # "open"
  BY ChargingIs
<1>3. Recorded'
  BY <1>1, <1>2 DEF IInv, Money, Recorded
<1>4. PaidOnce'
  BY <1>1, PaidOnceIs DEF IInv, Money, PaidOnce, OnePaid
<1>5. ChargedOnce'
  BY <1>1 DEF IInv, Money, ChargedOnce
<1>6. Billed'
  BY <1>1, <1>2 DEF IInv, Money, Billed
<1> QED
  BY <1>3, <1>4, <1>5, <1>6 DEF Money

\* The turn of a tracker in an upload, with the database as it is after the call.
LEMMA AdjustTurn ==
  ASSUME IInv, NEW f \in Flows, flow[f].pc = "adjust", NEW i \in flow[f].todo,
         NEW d \in Database, d.rows = work.rows, Linked(work) \subseteq Linked(d),
         NEW R, R = raids[flow[f].raid], NEW c, c = Turn(R, d, i)
  PROVE  /\ c \in Raid /\ OnePaid(c) /\ PaidFor(d, db, Tracked(work) \ (flow[f].todo \ {i}), c.paid)
         /\ c.state = "open" /\ c.members = R.members /\ c.value = R.value
         /\ c.items = R.items
<1> DEFINE T == Tracked(work) \ flow[f].todo
<1>1. /\ work \in Database /\ db \in Database /\ Linked(db) \subseteq Linked(work)
  BY DEF IInv, Base, Good, Uploads, Pending
<1>2. Charging(f)
  BY DEF Charging
<1>3. /\ R \in Raid /\ R.state = "open" /\ OnePaid(R) /\ UploadKeeps(f)
  BY <1>2, ChargingIs
<1>4. /\ Roster(work, db, R.members, R.value) /\ PaidFor(work, db, T, R.paid)
      /\ flow[f].todo \subseteq Tracked(work)
  BY <1>2, <1>3 DEF UploadKeeps, Turned
<1>5. T \in SUBSET Tracked(work) /\ i \in Tracked(work) \ T
      /\ Tracked(work) \ (flow[f].todo \ {i}) = T \cup {i}
  BY <1>4
<1> HIDE DEF T
<1>6. /\ c \in Raid /\ OnePaid(c) /\ PaidFor(d, db, T \cup {i}, c.paid)
      /\ c.state = R.state /\ c.members = R.members /\ c.value = R.value
      /\ c.items = R.items
  BY <1>1, <1>3, <1>4, <1>5, TurnIs
<1> QED
  BY <1>3, <1>5, <1>6

LEMMA PaidIs ==
  ASSUME raids \in [RaidIds -> Raid], NEW r \in RaidIds, NEW d, NEW i
  PROVE  Paid(r, d, i) = [raids EXCEPT ![r] = Credited(raids[r], UserAt(d, i))]
BY DEF Paid, Credited, UserAt

LEMMA AdjustStep ==
  ASSUME IInv, NEW f \in Flows, NEW i \in Ids, NEW found \in BOOLEAN, Adjust(f, i, found), commands' \in Nat
  PROVE  IInv'
<1> DEFINE d == IF found THEN Link(work, {work.rows[i].char}) ELSE work
           r == flow[f].raid
           c == Turn(raids[r], d, i)
           h == [flow[f] EXCEPT !.todo = @ \ {i}]
<1>0. /\ TypeOK /\ Good(db) /\ Good(work) /\ Money /\ Pending
  BY DEF IInv, Base, Uploads
<1>1. /\ flow[f].pc = "adjust" /\ i \in flow[f].todo /\ Write(f, d) /\ Charging(f)
  BY DEF Adjust, Charging
<1>2. /\ Uploading(f) /\ OnlyUpload(f) /\ lock = f /\ UploadKeeps(f)
      /\ flow \in [Flows -> Handler] /\ flow[f] \in Handler /\ raids \in [RaidIds -> Raid]
      /\ r \in RaidIds /\ work.raid = r /\ raids[r] \in Raid
  BY <1>1, ChargingIs
<1>3. flow' = [flow EXCEPT ![f] = h]
  BY <1>2 DEF Adjust
<1>4. raids' = [raids EXCEPT ![r] = c]
  <2>1. raids = [raids EXCEPT ![r] = raids[r]]
    BY <1>2
  <2>2. raids' = IF Pays(d, i) THEN Paid(r, d, i) ELSE raids
    BY DEF Adjust
  <2> HIDE DEF d, r
  <2>3. CASE Pays(d, i)
    BY <1>2, <2>2, <2>3, PaidIs DEF Turn
  <2>4. CASE ~Pays(d, i)
    BY <2>1, <2>2, <2>4 DEF Turn
  <2> QED
    BY <2>3, <2>4
<1>5. /\ Good(d) /\ Grows(d, work) /\ d.rows = work.rows /\ d.killed = work.killed /\ d.price = work.price
      /\ d.raid = work.raid /\ d.loot = work.loot /\ d.billed = work.billed /\ d.ftes = work.ftes
  <2>1. i \in Tracked(work)
    BY <1>1, <1>2 DEF UploadKeeps
  <2>2. work.rows[i].char \in Chars
    BY <1>0, <2>1, RowOf DEF Good
  <2>3. {work.rows[i].char} \in SUBSET Chars
    BY <2>2
  <2>4. CASE found
    <3>1. d = Link(work, {work.rows[i].char})
      BY <2>4
    <3> QED
      BY <1>0, <2>3, <3>1, LinkIs
  <2>5. CASE ~found
    <3>1. d = work
      BY <2>5
    <3> QED
      BY <1>0, <3>1, GrowsItself
  <2> QED
    BY <2>4, <2>5
<1>6. /\ h \in Handler /\ h.pc = "adjust" /\ h.raid = r /\ h.todo = flow[f].todo \ {i}
      /\ h.window = flow[f].window /\ h.mark = flow[f].mark /\ h.price = flow[f].price
  BY <1>1, <1>2 DEF Handler
<1> HIDE DEF d, h
<1>7. d \in Database /\ Linked(work) \subseteq Linked(d)
  BY <1>5 DEF Good, Grows
<1>8. /\ c \in Raid /\ OnePaid(c) /\ PaidFor(d, db, Tracked(work) \ (flow[f].todo \ {i}), c.paid)
      /\ c.state = "open" /\ c.members = raids[r].members /\ c.value = raids[r].value
      /\ c.items = raids[r].items
  <2>1. PICK D, R, C : D = d /\ R = raids[flow[f].raid] /\ C = c
    OBVIOUS
  <2>2. C = Turn(R, D, i)
    BY <2>1
  <2>3. flow[f].pc = "adjust" /\ i \in flow[f].todo /\ D.rows = work.rows
    BY <1>1, <1>5, <2>1
  <2>4. D \in Database /\ Linked(work) \subseteq Linked(D)
    BY <1>7, <2>1
  <2>5. /\ C \in Raid /\ OnePaid(C) /\ PaidFor(D, db, Tracked(work) \ (flow[f].todo \ {i}), C.paid)
        /\ C.state = "open" /\ C.members = R.members /\ C.value = R.value /\ C.items = R.items
    <3> HIDE DEF c, d
    <3> QED
      BY <2>1, <2>2, <2>3, <2>4, AdjustTurn
  <2> HIDE DEF c, d
  <2> QED
    BY <2>1, <2>5
<1> HIDE DEF c
<1>9. lock' = f /\ work' = d /\ db' = db
  BY <1>1 DEF Write
<1>10. GoesTo(f, h)
  BY <1>2, <1>3, <1>6, <1>9, Constants DEF GoesTo
<1>11. raids' \in [RaidIds -> Raid] /\ raids'[r] = c /\ \A s \in RaidIds : s # r => raids'[s] = raids[s]
  BY <1>2, <1>4, <1>8, RaidSetIs
<1>13. /\ Base' /\ OnlyUpload(f)' /\ flow'[f] = h
       /\ \A g \in Flows : g # f => flow'[g] = flow[g] /\ flow'[g].raid = NoOne /\ flow[g].raid = NoOne
  BY <1>0, <1>2, <1>5, <1>9, <1>10, <1>11, UploadBase
<1>14. Uploading(f)' /\ Charging(f)' /\ Worth(f)' = Worth(f)
  BY <1>6, <1>13 DEF Uploading, Charging, Worth
<1>15. \A g \in Flows : flow'[g].raid = flow[g].raid
  BY <1>6, <1>13
<1>16. Money'
  <2>1. c.items \subseteq work'.billed
    BY <1>0, <1>1, <1>2, <1>5, <1>8, <1>9, ChargingIs DEF Money, Billed
  <2>2. \A s \in RaidIds : s # r /\ raids[s].state # "failed" => c.items \cap raids[s].items = {}
    BY <1>0, <1>1, <1>2, <1>8, ChargingIs DEF Money, ChargedOnce
  <2> QED
    BY <1>1, <1>2, <1>4, <1>8, <1>9, <1>15, <2>1, <2>2, MoneyGoesOn
<1>17. UploadKeeps(f)'
  <2>1. work'.raid = flow'[f].raid /\ raids'[flow'[f].raid] = c
    BY <1>2, <1>5, <1>6, <1>9, <1>11, <1>13
  <2>2. ~flow'[f].window => db'.raid = NoOne /\ flow'[f].mark = work'.killed /\ flow'[f].price = work'.price
    BY <1>2, <1>5, <1>6, <1>9, <1>13 DEF UploadKeeps
  <2>3. Tracked(work') = Tracked(work)
    BY <1>5, <1>9, SameRows
  <2>4. flow'[f].pc = "adjust" /\ flow'[f].todo = flow[f].todo \ {i}
    BY <1>6, <1>13
  <2>5. flow'[f].todo \subseteq Tracked(work')
    BY <1>1, <1>2, <2>3, <2>4 DEF UploadKeeps
  <2>6. Turned(f)' = Tracked(work) \ (flow[f].todo \ {i})
    BY <2>3, <2>4 DEF Turned
  <2>7. c.value \in {0, Worth(f)'}
    BY <1>1, <1>2, <1>8, <1>14 DEF UploadKeeps
  <2>8. Roster(work', db', c.members, c.value)
    <3>1. Roster(work, db, raids[r].members, raids[r].value)
      BY <1>1, <1>2 DEF UploadKeeps
    <3> QED
      BY <1>5, <1>7, <1>8, <1>9, <3>1, RosterStays
  <2>9. PaidFor(work', db', Turned(f)', c.paid)
    BY <1>8, <1>9, <2>6
  <2> QED
    BY <1>14, <2>1, <2>2, <2>4, <2>5, <2>7, <2>8, <2>9 DEF UploadKeeps
<1>18. db'.billed \subseteq work'.billed /\ Linked(db') \subseteq Linked(work')
  BY <1>0, <1>5, <1>7, <1>9 DEF Pending
<1> QED
  BY <1>13, <1>14, <1>16, <1>17, <1>18, KeepsAll DEF IInv

LEMMA FailedIs ==
  ASSUME NEW R \in Raid, NEW c, c = [R EXCEPT !.state = "failed"]
  PROVE  /\ c \in Raid /\ c.state = "failed" /\ c.members = R.members /\ c.value = R.value
         /\ c.items = R.items /\ c.paid = R.paid /\ (OnePaid(R) => OnePaid(c))
<1>1. /\ c \in Raid /\ c.state = "failed" /\ c.members = R.members /\ c.value = R.value
      /\ c.items = R.items /\ c.paid = R.paid
  BY DEF Raid
<1> QED
  BY <1>1 DEF OnePaid

\* The raid of an upload is left as a failed one, charged or paid for or not.
LEMMA ChargeFailed ==
  ASSUME IInv, NEW f \in Flows, Charging(f), Close(f), Ends(f), commands' \in Nat,
         NEW R \in Raid, OnePaid(R), raids' = [raids EXCEPT ![flow[f].raid] = [R EXCEPT !.state = "failed"]]
  PROVE  IInv'
<1> DEFINE c == [R EXCEPT !.state = "failed"]
<1>1. /\ Uploading(f) /\ flow[f].raid \in RaidIds /\ raids[flow[f].raid].state = "open"
  BY ChargingIs
<1>2. c \in Raid /\ c.state = "failed" /\ OnePaid(c)
  BY FailedIs
<1>3. raids' = [raids EXCEPT ![flow[f].raid] = c]
  OBVIOUS
<1> HIDE DEF c
<1> QED
  BY <1>1, <1>2, <1>3, UploadFailed

LEMMA AdjustLostStep ==
  ASSUME IInv, NEW f \in Flows, NEW i \in Ids, AdjustLost(f, i), commands' \in Nat
  PROVE  IInv'
<1> DEFINE r == flow[f].raid
           c == Credited(raids[r], UserAt(work, i))
<1>1. /\ flow[f].pc = "adjust" /\ i \in flow[f].todo /\ Pays(work, i) /\ Close(f) /\ Ends(f) /\ Charging(f)
  BY DEF AdjustLost, Charging
<1>2. /\ raids \in [RaidIds -> Raid] /\ r \in RaidIds /\ work \in Database
  BY <1>1, ChargingIs DEF IInv, Base, Good
<1>3. c \in Raid /\ OnePaid(c)
  <2>1. c = Turn(raids[r], work, i)
    BY <1>1 DEF Turn
  <2> HIDE DEF c
  <2> QED
    BY <1>1, <1>2, <2>1, AdjustTurn
<1>4. raids' = Failed([raids EXCEPT ![r] = c], f)
  BY <1>2, PaidIs DEF AdjustLost
<1> HIDE DEF c
<1>5. raids' = [raids EXCEPT ![r] = [c EXCEPT !.state = "failed"]]
  BY <1>2, <1>4, Constants DEF Failed
<1> QED
  BY <1>1, <1>3, <1>5, ChargeFailed

LEMMA CallFailsStep ==
  ASSUME IInv, NEW f \in Flows, CallFails(f), commands' \in Nat
  PROVE  IInv'
<1>1. flow[f].pc \in {"event", "members", "raid", "adjust", "items"} /\ Close(f) /\ Ends(f)
      /\ raids' = Failed(raids, f)
  BY DEF CallFails
<1>2. CASE Charging(f)
  <2>1. /\ raids \in [RaidIds -> Raid] /\ flow[f].raid \in RaidIds /\ raids[flow[f].raid] \in Raid
        /\ OnePaid(raids[flow[f].raid])
    BY <1>2, ChargingIs
  <2>2. raids' = [raids EXCEPT ![flow[f].raid] = [raids[flow[f].raid] EXCEPT !.state = "failed"]]
    BY <1>1, <2>1, Constants DEF Failed
  <2> QED
    BY <1>1, <1>2, <2>1, <2>2, ChargeFailed
<1>3. CASE ~Charging(f)
  <2>1. flow[f].raid = NoOne /\ raids' = raids
    BY <1>1, <1>3 DEF Failed, IInv, Base, HandlerKnows
  <2>2. CASE flow[f].pc = "event"
    <3>1. ~Uploading(f)
      BY <2>2 DEF Uploading
    <3> QED
      BY <1>1, <2>1, <3>1, IdleGoesOn, HandlerStep DEF Ends
  <2>3. CASE flow[f].pc # "event"
    <3>1. Uploading(f)
      BY <1>1, <2>3 DEF Uploading
    <3> QED
      BY <1>1, <1>3, <2>1, <3>1, UploadGivenUp
  <2> QED
    BY <2>2, <2>3
<1> QED
  BY <1>2, <1>3

LEMMA AdjustsDoneStep ==
  ASSUME IInv, NEW f \in Flows, AdjustsDone(f), commands' \in Nat
  PROVE  IInv'
<1> DEFINE r == flow[f].raid
           h == [flow[f] EXCEPT !.pc = "items", !.todo = Unbilled(work)]
<1>0. /\ Good(db) /\ Good(work) /\ Money /\ Pending
  BY DEF IInv, Base, Uploads
<1>1. /\ flow[f].pc = "adjust" /\ flow[f].todo = {} /\ Charging(f) /\ raids' = raids
      /\ db' = db /\ work' = work /\ lock' = lock
  BY DEF AdjustsDone, Charging, session
<1>2. /\ Uploading(f) /\ OnlyUpload(f) /\ lock = f /\ UploadKeeps(f)
      /\ flow \in [Flows -> Handler] /\ flow[f] \in Handler /\ raids \in [RaidIds -> Raid]
      /\ r \in RaidIds
  BY <1>1, ChargingIs
<1>3. flow' = [flow EXCEPT ![f] = h]
  BY <1>2 DEF AdjustsDone
<1>4. Unbilled(work) \in SUBSET (Ids \cup Loots)
  BY DEF Unbilled
<1>6. /\ h \in Handler /\ h.pc = "items" /\ h.raid = r /\ h.todo = Unbilled(work)
      /\ h.window = flow[f].window /\ h.mark = flow[f].mark /\ h.price = flow[f].price
  BY <1>1, <1>2, <1>4 DEF Handler
<1> HIDE DEF h
<1>10. GoesTo(f, h)
  BY <1>1, <1>2, <1>3, <1>6, Constants DEF GoesTo
<1>13. /\ Base' /\ OnlyUpload(f)' /\ flow'[f] = h
       /\ \A g \in Flows : g # f => flow'[g] = flow[g] /\ flow'[g].raid = NoOne /\ flow[g].raid = NoOne
  BY <1>0, <1>1, <1>2, <1>10, UploadBase
<1>14. Uploading(f)' /\ Charging(f)' /\ Worth(f)' = Worth(f)
  BY <1>6, <1>13 DEF Uploading, Charging, Worth
<1>15. \A g \in Flows : flow'[g].raid = flow[g].raid
  BY <1>6, <1>13
<1>16. Money'
  BY <1>0, <1>1, <1>15, MoneyStays
<1>17. UploadKeeps(f)'
  <2>1. work'.raid = flow'[f].raid /\ flow'[f].raid = r /\ flow'[f].pc = "items"
    BY <1>1, <1>2, <1>6, <1>13 DEF UploadKeeps
  <2>2. ~flow'[f].window => db'.raid = NoOne /\ flow'[f].mark = work'.killed /\ flow'[f].price = work'.price
    BY <1>1, <1>2, <1>6, <1>13 DEF UploadKeeps
  <2>3. Turned(f) = Tracked(work) /\ Turned(f)' = Tracked(work')
    BY <1>1, <2>1 DEF Turned
  <2>4. flow'[f].todo \subseteq Unbilled(work')
    BY <1>1, <1>6, <1>13
  <2>5. /\ raids'[r].value \in {0, Worth(f)'}
        /\ Roster(work', db', raids'[r].members, raids'[r].value)
        /\ PaidFor(work', db', Turned(f)', raids'[r].paid)
    BY <1>1, <1>2, <1>14, <2>3 DEF UploadKeeps
  <2> QED
    BY <1>14, <2>1, <2>2, <2>4, <2>5 DEF UploadKeeps
<1>18. db'.billed \subseteq work'.billed /\ Linked(db') \subseteq Linked(work')
  BY <1>0, <1>1 DEF Pending
<1> QED
  BY <1>13, <1>14, <1>16, <1>17, <1>18, KeepsAll DEF IInv

LEMMA PaidStays ==
  ASSUME NEW w, NEW d, NEW e, NEW T, NEW p, PaidFor(w, e, T, p),
         d.rows = w.rows, Linked(w) \subseteq Linked(d)
  PROVE  PaidFor(d, e, T, p)
<1>1. Used(d) = Used(w)
  BY SameRows
<1>2. \A i \in T : OnlyRow(d, i) => OnlyRow(w, i)
  BY <1>1 DEF OnlyRow
<1> QED
  BY <1>2 DEF PaidFor

LEMMA ChargedIs ==
  ASSUME NEW R \in Raid, NEW l \in Loots, NEW c, c = [R EXCEPT !.items = @ \cup {l}]
  PROVE  /\ c \in Raid /\ c.state = R.state /\ c.members = R.members /\ c.value = R.value
         /\ c.items = R.items \cup {l} /\ c.paid = R.paid /\ (OnePaid(R) => OnePaid(c))
<1>1. R.items \cup {l} \in SUBSET Loots
  BY DEF Raid
<1>2. /\ c \in Raid /\ c.state = R.state /\ c.members = R.members /\ c.value = R.value
      /\ c.items = R.items \cup {l} /\ c.paid = R.paid
  BY <1>1 DEF Raid
<1> QED
  BY <1>2 DEF OnePaid

Bills(d, l) == [d EXCEPT !.billed = @ \cup {l}]

LEMMA BillsIs ==
  ASSUME NEW d, Good(d), NEW l \in Loots, NEW c, c = Bills(d, l)
  PROVE  /\ Good(c) /\ c.billed = d.billed \cup {l} /\ Linked(c) = Linked(d)
         /\ c.rows = d.rows /\ c.killed = d.killed /\ c.price = d.price
         /\ c.raid = d.raid /\ c.loot = d.loot /\ c.ftes = d.ftes
<1> DEFINE S == d.billed \cup {l}
<1>1. d \in Database
  BY DEF Good
<1>2. S \in SUBSET Loots /\ c = [d EXCEPT !.billed = S]
  BY <1>1, Fields DEF Bills
<1> HIDE DEF S
<1>3. /\ c \in Database /\ c.billed = S
      /\ c.rows = d.rows /\ c.known = d.known /\ c.killed = d.killed /\ c.price = d.price
      /\ c.raid = d.raid /\ c.named = d.named /\ c.loot = d.loot /\ c.ftes = d.ftes
  BY <1>1, <1>2, BilledSet
<1>4. Linked(c) = Linked(d)
  BY <1>3 DEF Linked
<1>5. OneRowIn(c)
  BY <1>3 DEF Good, OneRowIn, Used
<1> USE DEF S
<1> QED
  BY <1>3, <1>4, <1>5 DEF Good

\* What the database is when a member has been asked for, and after an item.
Asks(w, x, found) == IF found THEN Link(w, {x}) ELSE w
BillOf(d, l, charged) == IF charged THEN Bills(d, l) ELSE d

LEMMA AsksIs ==
  ASSUME NEW w, Good(w), NEW x \in Chars, NEW found \in BOOLEAN, NEW d, d = Asks(w, x, found)
  PROVE  /\ Good(d) /\ Grows(d, w) /\ d.rows = w.rows /\ d.killed = w.killed /\ d.price = w.price
         /\ d.raid = w.raid /\ d.loot = w.loot /\ d.billed = w.billed /\ d.ftes = w.ftes
         /\ Linked(w) \subseteq Linked(d)
<1>1. {x} \in SUBSET Chars
  OBVIOUS
<1>2. CASE found
  <2>1. d = Link(w, {x})
    BY <1>2 DEF Asks
  <2> QED
    BY <1>1, <2>1, LinkIs
<1>3. CASE ~found
  BY <1>3, GrowsItself DEF Asks
<1> QED
  BY <1>2, <1>3

LEMMA BillOfIs ==
  ASSUME NEW d, Good(d), NEW l \in Loots, NEW charged \in BOOLEAN, NEW c, c = BillOf(d, l, charged)
  PROVE  /\ Good(c) /\ c.billed = (IF charged THEN d.billed \cup {l} ELSE d.billed)
         /\ Linked(c) = Linked(d)
         /\ c.rows = d.rows /\ c.killed = d.killed /\ c.price = d.price
         /\ c.raid = d.raid /\ c.loot = d.loot /\ c.ftes = d.ftes
<1>1. CASE charged
  <2>1. c = Bills(d, l)
    BY <1>1 DEF BillOf
  <2>2. /\ Good(c) /\ c.billed = d.billed \cup {l} /\ Linked(c) = Linked(d)
        /\ c.rows = d.rows /\ c.killed = d.killed /\ c.price = d.price
        /\ c.raid = d.raid /\ c.loot = d.loot /\ c.ftes = d.ftes
    BY <2>1, BillsIs
  <2> QED
    BY <1>1, <2>2
<1>2. CASE ~charged
  BY <1>2 DEF BillOf
<1> QED
  BY <1>1, <1>2

LEMMA BillStep ==
  ASSUME IInv, NEW f \in Flows, NEW l \in Loots, NEW found \in BOOLEAN, Bill(f, l, found), commands' \in Nat
  PROVE  IInv'
<1> DEFINE r == flow[f].raid
           R == raids[r]
           d == Asks(work, work.loot[l], found)
           charged == work.loot[l] \in Linked(d)
           w == BillOf(d, l, charged)
           c == IF charged THEN [R EXCEPT !.items = @ \cup {l}] ELSE R
           h == [flow[f] EXCEPT !.todo = @ \ {l}]
<1>0. /\ Good(db) /\ Good(work) /\ Money /\ Pending /\ db \in Database /\ work \in Database
  BY DEF IInv, Base, Uploads, Good
<1>1. /\ flow[f].pc = "items" /\ l \in flow[f].todo /\ Write(f, w) /\ Charging(f)
  BY DEF Bill, Charging, Asks, BillOf, Bills
<1>2. /\ Uploading(f) /\ OnlyUpload(f) /\ lock = f /\ UploadKeeps(f)
      /\ flow \in [Flows -> Handler] /\ flow[f] \in Handler /\ raids \in [RaidIds -> Raid]
      /\ r \in RaidIds /\ work.raid = r /\ R \in Raid /\ R.state = "open" /\ OnePaid(R)
      /\ \A s \in RaidIds : s # r => raids[s].state # "open"
  BY <1>1, ChargingIs
<1>3. flow' = [flow EXCEPT ![f] = h]
  BY <1>2 DEF Bill
<1>4. raids' = [raids EXCEPT ![r] = c]
  <2>1. raids = [raids EXCEPT ![r] = raids[r]]
    BY <1>2
  <2>2. raids' = IF charged THEN [raids EXCEPT ![r].items = @ \cup {l}] ELSE raids
    BY DEF Bill, Asks
  <2> HIDE DEF charged
  <2>3. CASE charged
    BY <1>2, <2>2, <2>3
  <2>4. CASE ~charged
    BY <2>1, <2>2, <2>4
  <2> QED
    BY <2>3, <2>4
<1>5. l \in Unbilled(work) /\ work.loot[l] \in Chars /\ l \notin work.billed
  BY <1>1, <1>2 DEF UploadKeeps, Unbilled
<1>6. /\ h \in Handler /\ h.pc = "items" /\ h.raid = r /\ h.todo = flow[f].todo \ {l}
      /\ h.window = flow[f].window /\ h.mark = flow[f].mark /\ h.price = flow[f].price
  BY <1>1, <1>2 DEF Handler
<1>7. /\ Good(d) /\ d.rows = work.rows /\ d.killed = work.killed /\ d.price = work.price
      /\ d.raid = work.raid /\ d.loot = work.loot /\ d.billed = work.billed /\ d.ftes = work.ftes
      /\ Linked(work) \subseteq Linked(d)
  BY <1>0, <1>5, AsksIs
<1>8. charged \in BOOLEAN
  OBVIOUS
<1>9. c \in Raid /\ c.state = "open" /\ c.members = R.members /\ c.value = R.value /\ c.paid = R.paid
      /\ c.items = (IF charged THEN R.items \cup {l} ELSE R.items) /\ OnePaid(c)
  <2> HIDE DEF charged, R
  <2>1. CASE charged
    <3>1. c = [R EXCEPT !.items = @ \cup {l}]
      BY <2>1
    <3> HIDE DEF c
    <3> QED
      BY <1>2, <2>1, <3>1, ChargedIs
  <2>2. CASE ~charged
    BY <1>2, <2>2
  <2> QED
    BY <2>1, <2>2
<1> HIDE DEF h, d, charged, c
<1>10. /\ Good(w) /\ w.billed = (IF charged THEN d.billed \cup {l} ELSE d.billed)
       /\ Linked(w) = Linked(d)
       /\ w.rows = d.rows /\ w.killed = d.killed /\ w.price = d.price
       /\ w.raid = d.raid /\ w.loot = d.loot /\ w.ftes = d.ftes
  <2>1. PICK x, y : x = d /\ y = charged
    OBVIOUS
  <2>2. Good(x) /\ y \in BOOLEAN /\ w = BillOf(x, l, y)
    BY <1>7, <1>8, <2>1
  <2> HIDE DEF w
  <2>3. /\ Good(w) /\ w.billed = (IF y THEN x.billed \cup {l} ELSE x.billed)
        /\ Linked(w) = Linked(x)
        /\ w.rows = x.rows /\ w.killed = x.killed /\ w.price = x.price
        /\ w.raid = x.raid /\ w.loot = x.loot /\ w.ftes = x.ftes
    BY <2>2, BillOfIs
  <2> QED
    BY <2>1, <2>3
<1> HIDE DEF w
<1>11. /\ w.rows = work.rows /\ w.killed = work.killed /\ w.price = work.price /\ w.raid = work.raid
       /\ w.loot = work.loot /\ w.ftes = work.ftes /\ Linked(work) \subseteq Linked(w)
       /\ w.billed = (IF charged THEN work.billed \cup {l} ELSE work.billed)
  BY <1>7, <1>10
<1>12. lock' = f /\ work' = w /\ db' = db
  BY <1>1 DEF Write
<1>13. GoesTo(f, h)
  BY <1>2, <1>3, <1>6, <1>12, Constants DEF GoesTo
<1>14. raids' \in [RaidIds -> Raid] /\ raids'[r] = c /\ \A s \in RaidIds : s # r => raids'[s] = raids[s]
  BY <1>2, <1>4, <1>9, RaidSetIs
<1>15. /\ Base' /\ OnlyUpload(f)' /\ flow'[f] = h
       /\ \A g \in Flows : g # f => flow'[g] = flow[g] /\ flow'[g].raid = NoOne /\ flow[g].raid = NoOne
  BY <1>0, <1>2, <1>10, <1>12, <1>13, <1>14, UploadBase
<1>16. Uploading(f)' /\ Charging(f)' /\ Worth(f)' = Worth(f)
  BY <1>6, <1>15 DEF Uploading, Charging, Worth
<1>17. \A g \in Flows : flow'[g].raid = flow[g].raid
  BY <1>6, <1>15
<1>18. Money'
  <2>1. R.items \subseteq work.billed
    BY <1>0, <1>2 DEF Money, Billed
  <2>2. c.items \subseteq work'.billed
    BY <1>9, <1>11, <1>12, <2>1
  <2>3. \A s \in RaidIds : s # r /\ raids[s].state # "failed" => R.items \cap raids[s].items = {}
    BY <1>0, <1>2 DEF Money, ChargedOnce
  <2>4. \A s \in RaidIds : s # r /\ raids[s].state # "failed" => l \notin raids[s].items
    BY <1>0, <1>2, <1>5 DEF Money, Billed, Pending
  <2>5. \A s \in RaidIds : s # r /\ raids[s].state # "failed" => c.items \cap raids[s].items = {}
    BY <1>9, <2>3, <2>4
  <2> QED
    BY <1>1, <1>2, <1>4, <1>9, <1>12, <1>17, <2>2, <2>5, MoneyGoesOn
<1>19. UploadKeeps(f)'
  <2>1. work'.raid = flow'[f].raid /\ raids'[flow'[f].raid] = c
    BY <1>2, <1>6, <1>11, <1>12, <1>14, <1>15
  <2>2. ~flow'[f].window => db'.raid = NoOne /\ flow'[f].mark = work'.killed /\ flow'[f].price = work'.price
    BY <1>2, <1>6, <1>11, <1>12, <1>15 DEF UploadKeeps
  <2>3. Tracked(work') = Tracked(work)
    BY <1>11, <1>12, SameRows
  <2>4. flow'[f].pc = "items" /\ flow'[f].todo = flow[f].todo \ {l}
    BY <1>6, <1>15
  <2>5. flow'[f].todo \subseteq Unbilled(work')
    <3>1. flow[f].todo \subseteq Unbilled(work)
      BY <1>1, <1>2 DEF UploadKeeps
    <3> QED
      BY <1>11, <1>12, <2>4, <3>1 DEF Unbilled
  <2>6. Turned(f)' = Turned(f)
    BY <1>1, <2>3, <2>4 DEF Turned
  <2>7. /\ R.value \in {0, Worth(f)} /\ Roster(work, db, R.members, R.value)
        /\ PaidFor(work, db, Turned(f), R.paid)
    BY <1>1, <1>2 DEF UploadKeeps
  <2>8. Roster(work', db', c.members, c.value)
    <3>1. Roster(w, db, R.members, R.value)
      BY <1>11, <2>7, RosterStays
    <3> QED
      BY <1>9, <1>12, <3>1
  <2>9. PaidFor(work', db', Turned(f)', c.paid)
    <3>1. PaidFor(w, db, Turned(f), R.paid)
      BY <1>11, <2>7, PaidStays
    <3> QED
      BY <1>9, <1>12, <2>6, <3>1
  <2>10. c.value \in {0, Worth(f)'}
    BY <1>9, <1>16, <2>7
  <2> QED
    BY <1>16, <2>1, <2>2, <2>4, <2>5, <2>8, <2>9, <2>10 DEF UploadKeeps
<1>20. db'.billed \subseteq work'.billed /\ Linked(db') \subseteq Linked(work')
  BY <1>0, <1>11, <1>12 DEF Pending
<1> QED
  BY <1>15, <1>16, <1>18, <1>19, <1>20, KeepsAll DEF IInv

LEMMA BillLostStep ==
  ASSUME IInv, NEW f \in Flows, NEW l \in Loots, BillLost(f, l), commands' \in Nat
  PROVE  IInv'
<1> DEFINE r == flow[f].raid
           R == raids[r]
           c == [R EXCEPT !.items = @ \cup {l}]
<1>1. /\ flow[f].pc = "items" /\ Close(f) /\ Ends(f) /\ Charging(f)
      /\ raids' = Failed([raids EXCEPT ![r].items = @ \cup {l}], f)
  BY DEF BillLost, Charging
<1>2. raids \in [RaidIds -> Raid] /\ r \in RaidIds /\ R \in Raid /\ OnePaid(R)
  BY <1>1, ChargingIs
<1>3. c \in Raid /\ OnePaid(c)
  <2> HIDE DEF R
  <2> QED
    BY <1>2, ChargedIs
<1>4. [raids EXCEPT ![r].items = @ \cup {l}] = [raids EXCEPT ![r] = c]
  BY <1>2
<1> HIDE DEF c
<1>5. raids' = [raids EXCEPT ![r] = [c EXCEPT !.state = "failed"]]
  BY <1>1, <1>2, <1>4, Constants DEF Failed
<1> QED
  BY <1>1, <1>3, <1>5, ChargeFailed

\* A raid in another state.
Becomes(raid, state) == [raid EXCEPT !.state = state]

LEMMA BecomesIs ==
  ASSUME NEW R \in Raid, NEW state \in {"recorded", "reset", "replaced", "failed"},
         NEW c, c = Becomes(R, state)
  PROVE  /\ c \in Raid /\ c.state = state /\ c.members = R.members /\ c.value = R.value
         /\ c.items = R.items /\ c.paid = R.paid /\ (OnePaid(R) => OnePaid(c))
<1>1. /\ c \in Raid /\ c.state = state /\ c.members = R.members /\ c.value = R.value
      /\ c.items = R.items /\ c.paid = R.paid
  BY DEF Raid, Becomes
<1> QED
  BY <1>1 DEF OnePaid

\* Only states of raids change, and none that failed is anything else again.
LEMMA StatesChange ==
  ASSUME Money, raids \in [RaidIds -> Raid], raids' \in [RaidIds -> Raid],
         \A s \in RaidIds : /\ raids'[s].items = raids[s].items
                            /\ OnePaid(raids[s]) => OnePaid(raids'[s])
                            /\ raids[s].state = "failed" => raids'[s].state = "failed",
         Recorded', \A s \in RaidIds : raids'[s].state # "open",
         \A s \in RaidIds : raids'[s].state # "failed" => raids[s].items \subseteq db'.billed
  PROVE  Money'
<1>1. PaidOnce'
  BY PaidOnceIs DEF Money, PaidOnce, OnePaid
<1>2. ChargedOnce'
  BY DEF Money, ChargedOnce
<1>3. Billed'
  BY DEF Billed
<1> QED
  BY <1>1, <1>2, <1>3 DEF Money

LEMMA SubmitEndsIs ==
  ASSUME IInv, NEW f \in Flows, SubmitEnds(f)
  PROVE  /\ Charging(f) /\ lock' = NoOne /\ db' = work /\ work' = work /\ flow' = [flow EXCEPT ![f] = Idle]
         /\ raids' \in [RaidIds -> Raid]
         /\ LET r == work.raid IN
            /\ r \in RaidIds /\ flow[f].raid = r /\ raids'[r] = Becomes(raids[r], "recorded")
            /\ \A s \in RaidIds : s = db.raid => s # r /\ raids'[s] = Becomes(raids[s], "replaced")
            /\ \A s \in RaidIds : s # r /\ s # db.raid => raids'[s] = raids[s]
<1> DEFINE r == work.raid
<1>1. flow[f].pc = "items" /\ Commit(work) /\ Ends(f) /\ Charging(f)
  BY DEF SubmitEnds, Charging
<1>2. raids \in [RaidIds -> Raid] /\ r \in RaidIds /\ flow[f].raid = r /\ raids[r].state = "open"
  BY <1>1, ChargingIs
<1>3. db.raid # r
  BY <1>2 DEF IInv, Money, Recorded
<1>4. raids' = [s \in RaidIds |->
           IF s = r THEN Becomes(raids[s], "recorded")
           ELSE IF s = db.raid THEN Becomes(raids[s], "replaced")
           ELSE raids[s]]
  BY DEF SubmitEnds, Becomes
<1>5. \A s \in RaidIds : /\ Becomes(raids[s], "recorded") \in Raid /\ Becomes(raids[s], "replaced") \in Raid
                         /\ raids[s] \in Raid
  BY <1>2, BecomesIs
<1>6. raids' \in [RaidIds -> Raid]
  BY <1>4, <1>5
<1> QED
  BY <1>1, <1>2, <1>3, <1>4, <1>6 DEF Commit, Ends

LEMMA SubmitEndsStep ==
  ASSUME IInv, NEW f \in Flows, SubmitEnds(f), commands' \in Nat
  PROVE  IInv'
<1> DEFINE r == work.raid
<1>0. /\ Good(work) /\ Money /\ Pending
  BY DEF IInv, Base, Uploads
<1>1. /\ Charging(f) /\ lock' = NoOne /\ db' = work /\ work' = work /\ flow' = [flow EXCEPT ![f] = Idle]
      /\ raids' \in [RaidIds -> Raid]
      /\ r \in RaidIds /\ flow[f].raid = r /\ raids'[r] = Becomes(raids[r], "recorded")
      /\ \A s \in RaidIds : s = db.raid => s # r /\ raids'[s] = Becomes(raids[s], "replaced")
      /\ \A s \in RaidIds : s # r /\ s # db.raid => raids'[s] = raids[s]
  BY SubmitEndsIs
<1>2. /\ OnlyUpload(f) /\ raids \in [RaidIds -> Raid] /\ raids[r].state = "open"
      /\ \A s \in RaidIds : s # r => raids[s].state # "open"
  BY <1>1, ChargingIs
<1>3. GoesTo(f, Idle)
  BY <1>1, IdleIs DEF GoesTo
<1>4. /\ Base' /\ OnlyUpload(f)' /\ flow'[f] = Idle
      /\ \A g \in Flows : g # f => flow'[g] = flow[g] /\ flow'[g].raid = NoOne /\ flow[g].raid = NoOne
  BY <1>0, <1>1, <1>2, <1>3, UploadBase
<1>5. \A g \in Flows : ~Uploading(g)' /\ flow'[g].raid = NoOne
  BY <1>4, IdleIs DEF OnlyUpload, Uploading
<1>6. /\ raids'[r].state = "recorded" /\ raids'[r].items = raids[r].items
      /\ (OnePaid(raids[r]) => OnePaid(raids'[r]))
  BY <1>1, <1>2, BecomesIs
<1>7. \A s \in RaidIds : s = db.raid =>
          /\ raids'[s].state = "replaced" /\ raids'[s].items = raids[s].items
          /\ (OnePaid(raids[s]) => OnePaid(raids'[s]))
  BY <1>1, <1>2, BecomesIs
<1>8. \A s \in RaidIds : s # r => raids'[s].state \notin {"open", "recorded"}
  BY <1>0, <1>1, <1>2, <1>7 DEF Money, Recorded
<1>9. Recorded'
  BY <1>1, <1>5, <1>6, <1>8, Constants DEF Recorded
<1>10. \A s \in RaidIds : /\ raids'[s].items = raids[s].items
                          /\ OnePaid(raids[s]) => OnePaid(raids'[s])
                          /\ raids[s].state = "failed" => raids'[s].state = "failed"
  BY <1>0, <1>1, <1>2, <1>6, <1>7 DEF Money, Recorded
<1>11. \A s \in RaidIds : raids'[s].state # "failed" => raids[s].items \subseteq db'.billed
  <2>1. \A s \in RaidIds : raids[s].state = "failed" => raids'[s].state = "failed"
    BY <1>10
  <2> QED
    BY <1>0, <1>1, <1>2, <2>1 DEF Money, Billed, Pending
<1>12. Money'
  BY <1>0, <1>1, <1>2, <1>6, <1>8, <1>9, <1>10, <1>11, StatesChange
<1> QED
  BY <1>1, <1>4, <1>5, <1>12, UploadEnded

LEMMA ResetStep ==
  ASSUME IInv, Reset, commands' \in Nat
  PROVE  IInv'
<1> DEFINE d == [db EXCEPT !.raid = NoOne]
           r == db.raid
<1>0. /\ TypeOK /\ LockHeld /\ HandlerKnows /\ Good(db) /\ Money /\ raids \in [RaidIds -> Raid]
  BY DEF IInv, Base, TypeOK
<1>1. /\ lock = NoOne /\ Commit(d) /\ flow' = flow
      /\ raids' = IF r = NoOne THEN raids ELSE [raids EXCEPT ![r].state = "reset"]
  BY DEF Reset
<1>2. d \in Database /\ d.raid = NoOne /\ d.rows = db.rows /\ d.billed = db.billed
  BY <1>0, RaidSet DEF Good
<1> HIDE DEF d
<1>3. lock' = NoOne /\ db' = d /\ work' = d
  BY <1>1 DEF Commit
<1>4. Good(d)
  BY <1>0, <1>2 DEF Good, OneRowIn, Used
<1>5. \A g \in Flows : ~Uploading(g) /\ ~Uploading(g)' /\ flow[g].raid = NoOne /\ flow'[g].raid = NoOne
  BY <1>0, <1>1, Constants DEF LockHeld, HandlerKnows, Uploading, Charging
<1>6. r \in RaidIds \cup {NoOne}
  BY <1>0, Fields DEF Good
<1>7. \A s \in RaidIds : raids[s].state # "open"
  BY <1>0, <1>5, Constants DEF Money, Recorded
<1>8. /\ raids' \in [RaidIds -> Raid]
      /\ \A s \in RaidIds : s # r => raids'[s] = raids[s]
      /\ r \in RaidIds => raids'[r] = Becomes(raids[r], "reset")
  <2>1. CASE r = NoOne
    BY <1>0, <1>1, <2>1, Constants
  <2>2. CASE r \in RaidIds
    <3>1. raids' = [raids EXCEPT ![r] = Becomes(raids[r], "reset")]
      BY <1>0, <1>1, <2>2, Constants DEF Becomes
    <3>2. Becomes(raids[r], "reset") \in Raid
      BY <1>0, <2>2, BecomesIs
    <3> QED
      BY <1>0, <2>2, <3>1, <3>2, RaidSetIs
  <2> QED
    BY <1>6, <2>1, <2>2
<1>9. r \in RaidIds => /\ raids'[r].state = "reset" /\ raids'[r].items = raids[r].items
                       /\ (OnePaid(raids[r]) => OnePaid(raids'[r])) /\ raids[r].state = "recorded"
  BY <1>0, <1>8, BecomesIs DEF Money, Recorded
<1>10. Recorded'
  <2>1. \A s \in RaidIds : raids'[s].state # "recorded" /\ raids'[s].state # "open"
    BY <1>0, <1>7, <1>8, <1>9 DEF Money, Recorded
  <2> QED
    BY <1>2, <1>3, <1>5, <2>1, Constants DEF Recorded
<1>11. \A s \in RaidIds : /\ raids'[s].items = raids[s].items
                          /\ OnePaid(raids[s]) => OnePaid(raids'[s])
                          /\ raids[s].state = "failed" => raids'[s].state = "failed"
                          /\ raids'[s].state # "open"
  BY <1>7, <1>8, <1>9
<1>12. \A s \in RaidIds : raids'[s].state # "failed" => raids[s].items \subseteq db'.billed
  BY <1>0, <1>2, <1>3, <1>7, <1>11 DEF Money, Billed
<1>13. Money'
  BY <1>0, <1>8, <1>10, <1>11, <1>12, StatesChange
<1>14. TypeOK'
  BY <1>0, <1>1, <1>2, <1>3, <1>8 DEF TypeOK
<1>15. LockHeld' /\ HandlerKnows'
  BY <1>0, <1>1, <1>3, <1>5 DEF LockHeld, NothingPending, HandlerKnows, Charging
<1>16. Base'
  BY <1>3, <1>4, <1>14, <1>15 DEF Base
<1> QED
  BY <1>3, <1>5, <1>13, <1>16, UploadEnded

LEMMA CrashStep ==
  ASSUME IInv, Crash, commands' \in Nat
  PROVE  IInv'
<1>0. /\ TypeOK /\ Good(db) /\ Money /\ raids \in [RaidIds -> Raid]
  BY DEF IInv, Base, TypeOK
<1>1. /\ flow' = [f \in Flows |-> Idle] /\ lock' = NoOne /\ work' = db /\ db' = db
      /\ raids' = [r \in RaidIds |-> IF raids[r].state = "open" THEN Becomes(raids[r], "failed") ELSE raids[r]]
  BY DEF Crash, Lost, Becomes
<1>2. \A g \in Flows : flow'[g] = Idle /\ ~Uploading(g)' /\ flow'[g].raid = NoOne
  BY <1>1, IdleIs DEF Uploading
<1>3. \A s \in RaidIds : /\ raids[s] \in Raid
                         /\ raids[s].state = "open" => raids'[s] = Becomes(raids[s], "failed")
                         /\ raids[s].state # "open" => raids'[s] = raids[s]
  BY <1>0, <1>1
<1>4. \A s \in RaidIds : raids[s].state = "open" =>
         /\ raids'[s] \in Raid /\ raids'[s].state = "failed" /\ raids'[s].items = raids[s].items
         /\ (OnePaid(raids[s]) => OnePaid(raids'[s]))
  BY <1>3, BecomesIs
<1>5. raids' \in [RaidIds -> Raid]
  <2>1. \A s \in RaidIds : raids'[s] \in Raid
    BY <1>3, <1>4
  <2>2. raids' = [s \in RaidIds |-> raids'[s]]
    BY <1>1
  <2> QED
    BY <2>1, <2>2
<1>6. Recorded'
  BY <1>0, <1>1, <1>2, <1>3, <1>4, Constants DEF Money, Recorded
<1>7. \A s \in RaidIds : /\ raids'[s].items = raids[s].items
                         /\ OnePaid(raids[s]) => OnePaid(raids'[s])
                         /\ raids[s].state = "failed" => raids'[s].state = "failed"
                         /\ raids'[s].state # "open"
  BY <1>3, <1>4
<1>8. \A s \in RaidIds : raids'[s].state # "failed" => raids[s].items \subseteq db'.billed
  BY <1>0, <1>1, <1>3, <1>4 DEF Money, Billed
<1>9. Money'
  BY <1>0, <1>5, <1>6, <1>7, <1>8, StatesChange
<1>10. TypeOK'
  BY <1>0, <1>1, <1>5, IdleIs DEF TypeOK
<1>11. LockHeld' /\ HandlerKnows'
  BY <1>1, <1>2, IdleIs DEF LockHeld, NothingPending, HandlerKnows, Uploading, Charging
<1>12. Base'
  BY <1>0, <1>1, <1>10, <1>11 DEF Base
<1> QED
  BY <1>1, <1>2, <1>9, <1>12, UploadEnded

-----------------------------------------------------------------------------
(* The invariant *)

LEMMA InitInv == Init => IInv
<1> SUFFICES ASSUME Init PROVE IInv
  OBVIOUS
<1>1. /\ db \in Database /\ Sound(db) /\ work = db /\ lock = NoOne /\ flow = [f \in Flows |-> Idle]
      /\ raids = [r \in RaidIds |-> NoRaid] /\ commands = 0
  BY DEF Init
<1>2. \A f \in Flows : flow[f] = Idle /\ ~Uploading(f) /\ ~Charging(f)
  BY <1>1, IdleIs DEF Uploading, Charging
<1>3. [u \in Users |-> 0] \in [Users -> Nat]
  OBVIOUS
<1>4. /\ NoRaid \in Raid /\ NoRaid.state = "none" /\ NoRaid.items = {} /\ OnePaid(NoRaid)
  BY <1>3 DEF NoRaid, Raid, OnePaid
<1>5. \A r \in RaidIds : raids[r] = NoRaid
  BY <1>1
<1>6. TypeOK
  BY <1>1, <1>4, IdleIs DEF TypeOK
<1>7. Good(db) /\ db.raid = NoOne
  BY <1>1 DEF Good, OneRowIn, Sound
<1>8. LockHeld /\ HandlerKnows
  BY <1>1, <1>2, IdleIs DEF LockHeld, NothingPending, HandlerKnows
<1>9. Recorded
  BY <1>2, <1>4, <1>5, <1>7, IdleIs, Constants DEF Recorded
<1>10. PaidOnce /\ ChargedOnce /\ Billed
  BY <1>4, <1>5, PaidOnceIs DEF ChargedOnce, Billed
<1>11. Pending /\ RaidHeld /\ NothingChanged
  BY <1>1, <1>2 DEF Pending, RaidHeld, NothingChanged
<1>12. RosterKept /\ TodoLeft
  BY <1>2, IdleIs DEF RosterKept, TodoLeft
<1> QED
  BY <1>1, <1>6, <1>7, <1>8, <1>9, <1>10, <1>11, <1>12 DEF IInv, Base, Money, Uploads

LEMMA SingleStep ==
  ASSUME IInv, Single, commands' \in Nat
  PROVE  IInv'
<1>1. ASSUME NEW i \in Ids, Remove(i) PROVE IInv'
  BY <1>1, RemoveStep
<1>2. CASE ClearAttendees
  BY <1>2, ClearAttendeesStep
<1>3. CASE Kill \/ NoKill
  <2>1. "kill" \in Marks /\ "nokill" \in Marks
    BY DEF Marks
  <2> QED
    BY <1>3, <2>1, MarkStep DEF Kill, NoKill
<1>4. ASSUME NEW p \in Prices, SetPrice(p) PROVE IInv'
  BY <1>4, SetPriceStep
<1>5. ASSUME NEW l \in Loots, Unloot(l) \/ \E n \in Names : Award(l, n) PROVE IInv'
  BY <1>5, UnlootStep, AwardStep
<1>6. CASE ClearLoot
  BY <1>6, ClearLootStep
<1>7. CASE (\E n \in Names : Fte(n)) \/ (\E c \in Chars : Unfte(c))
  BY <1>7, FteSteps
<1>8. CASE Reset
  BY <1>8, ResetStep
<1> QED
  BY <1>1, <1>2, <1>3, <1>4, <1>5, <1>6, <1>7, <1>8 DEF Single

LEMMA BeginStep ==
  ASSUME IInv, NEW f \in Flows, Begin(f), commands' \in Nat
  PROVE  IInv'
<1>0. {"add", "log", "button"} \subseteq Kinds /\ "unset" \in Marks /\ 0 .. MaxLines \subseteq Nat
  BY Constants DEF Kinds, Marks
<1>1. ASSUME NEW n \in 0 .. MaxLines, AddPlayer(f, n) PROVE IInv'
  BY <1>0, <1>1, MessageStep DEF AddPlayer
<1>2. ASSUME NEW n \in 0 .. MaxLines, LogParse(f, n) PROVE IInv'
  BY <1>0, <1>2, MessageStep DEF LogParse
<1>3. ASSUME NEW n \in 0 .. MaxLines, NEW want \in Marks, AutoAttButton(f, n, want) PROVE IInv'
  BY <1>0, <1>3, MessageStep DEF AutoAttButton
<1>4. ASSUME NEW force \in BOOLEAN, Submit(f, force) PROVE IInv'
  BY <1>4, SubmitStep
<1>5. ASSUME NEW p \in Prices, NEW same \in BOOLEAN, Retarget(f, p, same) PROVE IInv'
  BY <1>5, RetargetStep
<1> QED
  BY <1>1, <1>2, <1>3, <1>4, <1>5 DEF Begin

LEMMA LineStep ==
  ASSUME IInv, NEW f \in Flows, Line(f), commands' \in Nat
  PROVE  IInv'
<1>1. ASSUME NEW n \in Names, NEW on \in Names \cup {NoOne}, LineKnown(f, n, on) \/ LineAsks(f, n, on)
      PROVE  IInv'
  BY <1>1, LineKnownStep, LineAsksStep
<1>2. CASE LookupFinds(f) \/ LookupFails(f) \/ LinesEnd(f)
  BY <1>2, LookupFindsStep, LookupFailsStep, LinesEndStep
<1> QED
  BY <1>1, <1>2 DEF Line

LEMMA UploadStep ==
  ASSUME IInv, NEW f \in Flows, Upload(f), commands' \in Nat
  PROVE  IInv'
<1>1. ASSUME NEW S \in SUBSET Chars, MembersFound(f, S) PROVE IInv'
  BY <1>1, MembersFoundStep
<1>2. ASSUME NEW r \in RaidIds, RaidMade(f, r) \/ RaidLost(f, r) PROVE IInv'
  BY <1>2, RaidMadeStep, RaidLostStep
<1>3. ASSUME NEW i \in Ids, AdjustLost(f, i) PROVE IInv'
  BY <1>3, AdjustLostStep
<1>4. ASSUME NEW i \in Ids, NEW found \in BOOLEAN, Adjust(f, i, found) PROVE IInv'
  BY <1>4, AdjustStep
<1>5. ASSUME NEW l \in Loots, NEW found \in BOOLEAN, Bill(f, l, found) \/ BillLost(f, l) PROVE IInv'
  BY <1>5, BillStep, BillLostStep
<1>6. CASE EventMade(f) \/ AdjustsDone(f) \/ SubmitEnds(f) \/ CallFails(f)
  BY <1>6, EventMadeStep, AdjustsDoneStep, SubmitEndsStep, CallFailsStep
<1> QED
  BY <1>1, <1>2, <1>3, <1>4, <1>5, <1>6 DEF Upload

LEMMA ReplaceStep ==
  ASSUME IInv, NEW f \in Flows, Replace(f), commands' \in Nat
  PROVE  IInv'
<1>1. flow[f].pc = "retarget"
  BY DEF Replace
<1>2. ASSUME NEW S \in SUBSET {c \in Chars : View(f).known[c] # "unknown"},
             NEW new \in [S -> [id : Ids, on : Chars \cup {NoOne}]], Retargeted(f, S, new)
      PROVE  IInv'
  BY <1>1, <1>2, RetargetedStep
<1>3. CASE RetargetFails(f)
  BY <1>1, <1>3, RetargetFailsStep
<1> QED
  BY <1>2, <1>3 DEF Replace

LEMMA NextInv == IInv /\ [Next]_vars => IInv'
<1> SUFFICES ASSUME IInv, [Next]_vars PROVE IInv'
  OBVIOUS
<1>0. commands \in Nat
  BY DEF IInv, Base, TypeOK
<1>1. CASE Arrives
  <2>1. commands' \in Nat
    BY <1>0, <1>1 DEF Arrives
  <2> QED
    BY <1>1, <2>1, SingleStep, BeginStep DEF Arrives
<1>2. ASSUME NEW f \in Flows, Step(f) PROVE IInv'
  <2>1. commands' \in Nat /\ (Line(f) \/ Upload(f) \/ Replace(f))
    BY <1>0, <1>2 DEF Step
  <2> QED
    BY <2>1, LineStep, UploadStep, ReplaceStep
<1>3. CASE Crash /\ UNCHANGED commands
  BY <1>0, <1>3, CrashStep
<1>4. CASE UNCHANGED vars
  <2>1. /\ db' = db /\ work' = work /\ lock' = lock /\ flow' = flow /\ raids' = raids
        /\ commands' = commands
    BY <1>4 DEF vars
  <2>2. Base'
    BY <2>1 DEF IInv, Base, TypeOK, LockHeld, NothingPending, HandlerKnows, Uploading, Charging
  <2>3. Money'
    BY <2>1 DEF IInv, Money, Recorded, PaidOnce, ChargedOnce, Billed
  <2>4. Uploads'
    BY <2>1 DEF IInv, Uploads, Pending, RaidHeld, NothingChanged, RosterKept, TodoLeft, Uploading, Charging, Worth, Turned
  <2> QED
    BY <2>2, <2>3, <2>4 DEF IInv
<1> QED
  BY <1>1, <1>2, <1>3, <1>4 DEF Next

LEMMA Inductive == Spec => []IInv
<1> QED
  BY InitInv, NextInv, PTL DEF Spec

\* RaidInv, for every value of the constants: the write lock has an owner, the
\* raid in the event row is the one raid that stands for it, no character
\* attends twice, nobody gets the value of the event twice in one raid, and no
\* item is charged in two raids that did not fail ($submit, the attendance
\* handlers, /event target, get_raid_session).
THEOREM RaidCorrect == Spec => []RaidInv
<1>1. IInv => RaidInv
  BY DEF IInv, Base, Money, RaidInv, Good, OneRowIn, OneRowEach
<1> QED
  BY <1>1, Inductive, PTL

-----------------------------------------------------------------------------
(* What is committed with a raid *)

\* One raid is changed, and not into one that stands for the event.
LEMMA NotCommitted ==
  ASSUME raids \in [RaidIds -> Raid], NEW r \in RaidIds, NEW R, raids' = [raids EXCEPT ![r] = R],
         R.state # "recorded", NEW s \in RaidIds
  PROVE  ~Commits(s)
BY DEF Commits

LEMMA FailedState ==
  ASSUME IInv, NEW f \in Flows, Charging(f), NEW R \in Raid, NEW s \in RaidIds,
         raids' = Failed([raids EXCEPT ![flow[f].raid] = R], f)
  PROVE  ~Commits(s)
<1> DEFINE r == flow[f].raid
           c == Becomes(R, "failed")
<1>1. raids \in [RaidIds -> Raid] /\ r \in RaidIds
  BY ChargingIs
<1>2. raids' = [raids EXCEPT ![r] = c]
  BY <1>1, Constants DEF Failed, Becomes
<1>3. c.state = "failed"
  BY BecomesIs
<1> HIDE DEF c
<1> QED
  BY <1>1, <1>2, <1>3, NotCommitted

LEMMA UploadCommits ==
  ASSUME IInv, NEW f \in Flows, Upload(f), ~SubmitEnds(f), NEW s \in RaidIds
  PROVE  ~Commits(s)
<1>0. raids \in [RaidIds -> Raid]
  BY DEF IInv, Base, TypeOK
<1>1. CASE raids' = raids
  BY <1>1 DEF Commits
<1>2. ASSUME NEW r \in RaidIds, RaidMade(f, r) \/ RaidLost(f, r) PROVE ~Commits(s)
  <2>1. PICK state \in {"open", "failed"} : raids' = [raids EXCEPT ![r] = NewRaid(f, state)]
    BY <1>2 DEF RaidMade, RaidLost
  <2>2. NewRaid(f, state).state = state
    BY DEF NewRaid
  <2> QED
    BY <1>0, <2>1, <2>2, NotCommitted
<1>3. ASSUME NEW i \in Ids, AdjustLost(f, i) PROVE ~Commits(s)
  <2> DEFINE c == Credited(raids[flow[f].raid], UserAt(work, i))
  <2>1. Charging(f) /\ flow[f].pc = "adjust" /\ i \in flow[f].todo
    BY <1>3 DEF AdjustLost, Charging
  <2>2. flow[f].raid \in RaidIds /\ raids[flow[f].raid] \in Raid /\ UploadKeeps(f)
    BY <2>1, ChargingIs
  <2>3. work \in Database /\ i \in Used(work)
    BY <2>1, <2>2, RowOf DEF UploadKeeps, IInv, Base, Good
  <2>4. UserAt(work, i) \in Users
    BY <2>3, RowOf, CharIs DEF UserAt
  <2>5. c \in Raid
    BY <2>2, <2>4, CreditedIs
  <2>6. raids' = Failed([raids EXCEPT ![flow[f].raid] = c], f)
    BY <1>0, <1>3, <2>2, PaidIs DEF AdjustLost
  <2> HIDE DEF c
  <2> QED
    BY <2>1, <2>5, <2>6, FailedState
<1>4. ASSUME NEW i \in Ids, NEW found \in BOOLEAN, Adjust(f, i, found) PROVE ~Commits(s)
  <2> DEFINE r == flow[f].raid
             d == IF found THEN Link(work, {work.rows[i].char}) ELSE work
             c == [raids[r] EXCEPT !.paid[UserAt(d, i)] = @ + 1]
  <2>1. Charging(f)
    BY <1>4 DEF Adjust, Charging
  <2>2. r \in RaidIds /\ raids[r] \in Raid /\ raids[r].state = "open"
    BY <2>1, ChargingIs
  <2>3. raids' = raids \/ raids' = [raids EXCEPT ![r] = c]
    <3>1. raids' = IF Pays(d, i) THEN Paid(r, d, i) ELSE raids
      BY <1>4 DEF Adjust
    <3> HIDE DEF d, r
    <3>2. Paid(r, d, i) = [raids EXCEPT ![r] = c]
      BY <1>0, <2>2, PaidIs DEF Credited
    <3> QED
      BY <3>1, <3>2
  <2>4. c.state = raids[r].state
    BY <2>2 DEF Raid
  <2> HIDE DEF c
  <2> QED
    BY <1>0, <1>1, <2>2, <2>3, <2>4, NotCommitted
<1>5. ASSUME NEW l \in Loots, NEW found \in BOOLEAN, Bill(f, l, found) PROVE ~Commits(s)
  <2> DEFINE r == flow[f].raid
             c == [raids[r] EXCEPT !.items = @ \cup {l}]
  <2>1. Charging(f)
    BY <1>5 DEF Bill, Charging
  <2>2. r \in RaidIds /\ raids[r] \in Raid /\ raids[r].state = "open"
    BY <2>1, ChargingIs
  <2>3. raids' = raids \/ raids' = [raids EXCEPT ![r] = c]
    BY <1>0, <1>5, <2>2 DEF Bill
  <2>4. c.state = raids[r].state
    BY <2>2 DEF Raid
  <2> HIDE DEF c
  <2> QED
    BY <1>0, <1>1, <2>2, <2>3, <2>4, NotCommitted
<1>6. ASSUME NEW l \in Loots, BillLost(f, l) PROVE ~Commits(s)
  <2> DEFINE R == raids[flow[f].raid]
             c == [R EXCEPT !.items = @ \cup {l}]
  <2>1. Charging(f)
    BY <1>6 DEF BillLost, Charging
  <2>2. flow[f].raid \in RaidIds /\ R \in Raid
    BY <2>1, ChargingIs
  <2>3. c \in Raid
    <3> HIDE DEF R
    <3> QED
      BY <2>2, ChargedIs
  <2>4. raids' = Failed([raids EXCEPT ![flow[f].raid] = c], f)
    BY <1>0, <1>6, <2>2 DEF BillLost
  <2> HIDE DEF c
  <2> QED
    BY <2>1, <2>3, <2>4, FailedState
<1>7. CASE CallFails(f)
  <2>1. CASE Charging(f)
    <3>1. flow[f].raid \in RaidIds /\ raids[flow[f].raid] \in Raid
      BY <2>1, ChargingIs
    <3>2. raids' = Failed([raids EXCEPT ![flow[f].raid] = raids[flow[f].raid]], f)
      BY <1>0, <1>7, <3>1 DEF CallFails
    <3> QED
      BY <2>1, <3>1, <3>2, FailedState
  <2>2. CASE ~Charging(f)
    <3>1. raids' = raids
      BY <1>7, <2>2 DEF CallFails, Failed, IInv, Base, HandlerKnows
    <3> QED
      BY <1>1, <3>1
  <2> QED
    BY <2>1, <2>2
<1>8. CASE EventMade(f) \/ AdjustsDone(f) \/ \E S \in SUBSET Chars : MembersFound(f, S)
  <2>1. raids' = raids
    BY <1>8 DEF EventMade, AdjustsDone, MembersFound
  <2> QED
    BY <1>1, <2>1
<1> QED
  BY <1>2, <1>3, <1>4, <1>5, <1>6, <1>7, <1>8 DEF Upload

\* A raid comes into the event row at the end of its upload and nowhere else.
LEMMA CommitIs ==
  ASSUME IInv, [Next]_vars, NEW r \in RaidIds, Commits(r)
  PROVE  \E f \in Flows : SubmitEnds(f) /\ r = work.raid
<1>0. raids \in [RaidIds -> Raid]
  BY DEF IInv, Base, TypeOK
<1>1. raids' # raids
  BY DEF Commits
<1>2. ASSUME NEW f \in Flows, SubmitEnds(f) PROVE r = work.raid
  <2>1. /\ work.raid \in RaidIds
        /\ \A s \in RaidIds : s = db.raid => raids'[s] = Becomes(raids[s], "replaced")
        /\ \A s \in RaidIds : s # work.raid /\ s # db.raid => raids'[s] = raids[s]
    BY <1>2, SubmitEndsIs
  <2>2. Becomes(raids[r], "replaced").state = "replaced"
    BY <1>0, BecomesIs
  <2> QED
    BY <2>1, <2>2 DEF Commits
<1>3. ASSUME NEW f \in Flows, Line(f) \/ Replace(f) PROVE FALSE
  <2>1. raids' = raids
    BY <1>3 DEF Line, Replace, LineKnown, LineAsks, NextLine, LookupFinds, LookupFails, LinesEnd, Retargeted, RetargetFails
  <2> QED
    BY <1>1, <2>1
<1>4. ASSUME NEW f \in Flows, Begin(f) PROVE FALSE
  <2>1. raids' = raids
    BY <1>4 DEF Begin, AddPlayer, LogParse, AutoAttButton, Message, Submit, Retarget
  <2> QED
    BY <1>1, <2>1
<1>5. CASE Single
  <2>1. CASE Reset
    <3>1. /\ raids' = raids \/ raids' = [raids EXCEPT ![db.raid].state = "reset"]
          /\ db.raid \in RaidIds \cup {NoOne}
      BY <2>1, Fields DEF Reset, IInv, Base, Good
    <3>2. raids[r] \in Raid /\ raids[r].state # "recorded" /\ raids'[r].state = "recorded"
      BY <1>0 DEF Commits
    <3>3. db.raid # r
      BY <3>2 DEF IInv, Money, Recorded
    <3> QED
      BY <1>0, <1>1, <3>1, <3>2, <3>3
  <2>2. CASE ~Reset
    <3>1. raids' = raids
      BY <1>5, <2>2 DEF Single, Remove, ClearAttendees, Kill, NoKill, Mark, SetPrice, Unloot, Award, ClearLoot, Fte, Unfte, Command
    <3> QED
      BY <1>1, <3>1
  <2> QED
    BY <2>1, <2>2
<1>6. CASE Crash
  <2>1. raids' = [s \in RaidIds |-> IF raids[s].state = "open" THEN Becomes(raids[s], "failed") ELSE raids[s]]
    BY <1>6 DEF Crash, Becomes
  <2>2. Becomes(raids[r], "failed").state = "failed"
    BY <1>0, BecomesIs
  <2> QED
    BY <2>1, <2>2 DEF Commits
<1>7. CASE UNCHANGED vars
  BY <1>1, <1>7 DEF vars
<1>8. ASSUME NEW f \in Flows, Upload(f) PROVE SubmitEnds(f)
  BY <1>8, UploadCommits
<1> QED
  BY <1>2, <1>3, <1>4, <1>5, <1>6, <1>7, <1>8 DEF Next, Arrives, Step

\* What the server has of an upload is what is committed with it (RosterUploaded):
\* members attend, everybody attending with a known member is one, whoever was
\* paid has tracked and each tracker who was due is paid ($submit).
THEOREM RosterCorrect == Spec => RosterUploaded
<1>1. IInv /\ [Next]_vars =>
        [\A r \in RaidIds : Commits(r) =>
           LET raid == raids'[r] IN
           /\ \A c \in raid.members :
                 \/ c \in Attending(db')
                 \/ raid.value = 0 /\ c \in Buyers(db') \cup db'.ftes
           /\ UsersOf(Attending(db') \cap Linked(db)) \subseteq UsersOf(raid.members)
           /\ \A u \in Users : raid.paid[u] > 0 =>
                 \E i \in Tracked(db') : UserOf[db'.rows[i].char[1]] = u
           /\ \A i \in Tracked(db') :
                 db'.rows[i].char \in Linked(db) /\ OnlyRow(db', i)
                     => raid.paid[UserOf[db'.rows[i].char[1]]] > 0]_vars
  <2> SUFFICES ASSUME IInv, [Next]_vars, NEW r \in RaidIds, Commits(r)
               PROVE  LET raid == raids'[r] IN
                      /\ \A c \in raid.members :
                            \/ c \in Attending(db')
                            \/ raid.value = 0 /\ c \in Buyers(db') \cup db'.ftes
                      /\ UsersOf(Attending(db') \cap Linked(db)) \subseteq UsersOf(raid.members)
                      /\ \A u \in Users : raid.paid[u] > 0 =>
                            \E i \in Tracked(db') : UserOf[db'.rows[i].char[1]] = u
                      /\ \A i \in Tracked(db') :
                            db'.rows[i].char \in Linked(db) /\ OnlyRow(db', i)
                                => raid.paid[UserOf[db'.rows[i].char[1]]] > 0
    OBVIOUS
  <2>1. PICK f \in Flows : SubmitEnds(f) /\ r = work.raid
    BY CommitIs
  <2>2. Charging(f) /\ db' = work /\ flow[f].raid = r /\ raids'[r] = Becomes(raids[r], "recorded")
    BY <2>1, SubmitEndsIs
  <2>3. UploadKeeps(f) /\ raids[r] \in Raid
    BY <2>2, ChargingIs
  <2>4. flow[f].pc = "items"
    BY <2>1 DEF SubmitEnds
  <2>5. /\ Roster(work, db, raids[r].members, raids[r].value)
        /\ PaidFor(work, db, Tracked(work), raids[r].paid)
    BY <2>2, <2>3, <2>4 DEF UploadKeeps, Turned
  <2>6. /\ raids'[r].members = raids[r].members /\ raids'[r].value = raids[r].value
        /\ raids'[r].paid = raids[r].paid
    BY <2>2, <2>3, BecomesIs
  <2> HIDE DEF Roster
  <2>7. /\ \A c \in raids[r].members :
              \/ c \in Attending(work)
              \/ raids[r].value = 0 /\ c \in Buyers(work) \cup work.ftes
        /\ UsersOf(Attending(work) \cap Linked(db)) \subseteq UsersOf(raids[r].members)
    BY <2>5 DEF Roster
  <2>8. /\ \A u \in Users : raids[r].paid[u] > 0 =>
              \E i \in Tracked(work) : UserOf[work.rows[i].char[1]] = u
        /\ \A i \in Tracked(work) :
              work.rows[i].char \in Linked(db) /\ OnlyRow(work, i)
                  => raids[r].paid[UserOf[work.rows[i].char[1]]] > 0
    BY <2>5 DEF PaidFor
  <2> QED
    BY <2>2, <2>6, <2>7, <2>8
<1> QED
  BY <1>1, Inductive, PTL DEF Spec, RosterUploaded

\* An upload that did not have to create the EQdkp event replaces no raid, and
\* its raid is worth what the event row says (UploadedOnce): the row is locked
\* from the checks to the commit ($submit).
THEOREM UploadedCorrect == Spec => UploadedOnce
<1>1. IInv /\ [Next]_vars =>
        [\A r \in RaidIds, f \in Flows :
           Commits(r) /\ flow[f].raid = r /\ ~flow[f].window =>
             /\ \A s \in RaidIds : raids'[s].state = "replaced" => raids[s].state = "replaced"
             /\ raids'[r].value \in {0, Value(db'.killed, db'.price)}]_vars
  <2> SUFFICES ASSUME IInv, [Next]_vars, NEW r \in RaidIds, NEW f \in Flows,
                      Commits(r), flow[f].raid = r, ~flow[f].window
               PROVE  /\ \A s \in RaidIds : raids'[s].state = "replaced" => raids[s].state = "replaced"
                      /\ raids'[r].value \in {0, Value(db'.killed, db'.price)}
    OBVIOUS
  <2>1. PICK g \in Flows : SubmitEnds(g) /\ r = work.raid
    BY CommitIs
  <2>2. /\ Charging(g) /\ db' = work /\ flow[g].raid = r /\ raids'[r] = Becomes(raids[r], "recorded")
        /\ \A s \in RaidIds : s # r /\ s # db.raid => raids'[s] = raids[s]
    BY <2>1, SubmitEndsIs
  <2>3. UploadKeeps(g) /\ raids[r] \in Raid /\ \A k \in Flows : k # g => flow[k].raid = NoOne
    BY <2>2, ChargingIs
  <2>4. f = g
    BY <2>3, Constants
  <2>5. db.raid = NoOne /\ flow[g].mark = work.killed /\ flow[g].price = work.price
    BY <2>3, <2>4 DEF UploadKeeps
  <2>6. raids'[r].state = "recorded" /\ raids'[r].value = raids[r].value
    BY <2>2, <2>3, BecomesIs
  <2>7. \A s \in RaidIds : raids'[s].state = "replaced" => raids[s].state = "replaced"
    BY <2>2, <2>5, <2>6, Constants
  <2>8. raids[r].value \in {0, Worth(g)}
    BY <2>2, <2>3 DEF UploadKeeps
  <2> QED
    BY <2>2, <2>5, <2>6, <2>7, <2>8 DEF Worth
<1> QED
  BY <1>1, Inductive, PTL DEF Spec, UploadedOnce
=============================================================================
