----------------------------- MODULE RaidEvent -----------------------------
(***************************************************************************)
(* One raid event of a guild: the attendance list, the kill mark, the loot *)
(* and the upload to the EQdkp server, with the sessions and the write     *)
(* lock of RaidSession.                                                    *)
(***************************************************************************)
EXTENDS Naturals, FiniteSets, RaidSession

CONSTANTS
    Names,      \* names of the characters of the guild
    UserOf,     \* the EQdkp user each name belongs to (eqdkp_user_id)
    Ids,        \* ids of attendee rows; bounds their number
    Loots,      \* ids of loot rows
    RaidIds,    \* ids of raids on the EQdkp server; bounds the uploads
    Prices,     \* what /event target and $dkp may set
    Gone,       \* the buyer of a loot row that has been deleted
    MaxLines,   \* lines of a message with attendees; a bound
    MaxCommands \* commands and messages of a run; a bound

\* Rows of the table of characters.  No constraint keeps a name unique, so two
\* handlers may each store it; a third row of a name is beyond the bound.
Chars == Names \X {1, 2}

ASSUME RaidConstants ==
    /\ MaxLines \in Nat /\ MaxCommands \in Nat
    /\ NoOne \notin Names \cup Chars \cup RaidIds
    /\ Gone \notin Chars \cup {NoOne}
    /\ Ids \cap Loots = {}
    /\ Prices \subseteq [kill : Nat, nokill : Nat]

VARIABLES
    flow,       \* the suspended handlers
    raids,      \* the raids on the EQdkp server
    commands    \* how many commands there were

vars == <<db, work, lock, flow, raids, commands>>

-----------------------------------------------------------------------------
(* Rows and what is derived from them. *)

Row == [char : Chars, on : Chars \cup {NoOne}, tracked : BOOLEAN]
NoRow == [char |-> NoOne, on |-> NoOne, tracked |-> FALSE]

Marks == {"unset", "kill", "nokill"}

Database ==
    [rows : [Ids -> Row \cup {NoRow}], known : [Chars -> {"unknown", "named", "linked"}],
     killed : Marks, price : Prices, raid : RaidIds \cup {NoOne}, named : BOOLEAN,
     loot : [Loots -> Chars \cup {NoOne, Gone}], billed : SUBSET Loots,
     ftes : SUBSET Chars]

Kinds == {"add", "log", "button"}

Idle == [pc |-> "idle", kind |-> "add", left |-> 0, name |-> NoOne,
         char |-> NoOne, on |-> NoOne, want |-> "unset", mark |-> "unset",
         price |-> [kill |-> 0, nokill |-> 0], window |-> FALSE,
         members |-> {}, fte |-> FALSE, raid |-> NoOne, todo |-> {}]

Users == {UserOf[n] : n \in Names}
NoRaid == [state |-> "none", members |-> {}, paid |-> [u \in Users |-> 0],
           value |-> 0, items |-> {}]

\* The ids in use, and the rows of one character.
Used(d) == {i \in Ids : d.rows[i] # NoRow}
RowsOf(d, c) == {i \in Ids : d.rows[i].char = c}
BoxesOf(d, c) == {i \in Ids : d.rows[i].on = c /\ d.rows[i] # NoRow}

\* The row a query for a name returns first, if there is one, and a new row.
Stored(d, n) == {c \in Chars : c[1] = n /\ d.known[c] # "unknown"}
First(d, n) == IF Stored(d, n) = {} THEN NoOne ELSE <<n, 1>>
NewRow(d, n) == IF Stored(d, n) = {} THEN <<n, 1>> ELSE <<n, 2>>

Linked(d) == {c \in Chars : d.known[c] = "linked"}
Link(d, S) == [d EXCEPT !.known = [c \in Chars |-> IF c \in S THEN "linked" ELSE @[c]]]

\* Characters that came to the raid, as opposed to those that tracked it.
Attending(d) == {c \in Chars : \E i \in Ids : d.rows[i].char = c /\ ~d.rows[i].tracked}
Buyers(d) == {c \in Chars : \E l \in Loots : d.loot[l] = c}
UsersOf(S) == {UserOf[c[1]] : c \in S}

Tracked(d) == {i \in Used(d) : d.rows[i].tracked}
Unbilled(d) == {l \in Loots : d.loot[l] \in Chars /\ l \notin d.billed}

\* Event.dkp_value
Value(mark, price) == IF mark = "nokill" THEN price.nokill ELSE price.kill

-----------------------------------------------------------------------------
(* Handlers. *)

Ends(f) == flow' = [flow EXCEPT ![f] = Idle]
Goes(f, pc) == flow' = [flow EXCEPT ![f].pc = pc]

Command(d) == Alone(d) /\ UNCHANGED <<flow, raids>>

-----------------------------------------------------------------------------
(* Attendance: +Player lines, pasted logs, the buttons of a proposal. *)

MutRefused(d, kind, c, on) ==
    \/ kind = "log" /\ BoxesOf(d, c) # {}
    \/ on # NoOne /\ BoxesOf(d, on) # {}

\* The checks of +Player and the buttons, and the row they add: nobody else is
\* on the character it boxes, it has no row yet; the boxed character's own row
\* goes.  A pasted log adds a character without a row and without a box on it.
Refused(d, kind, c, on) ==
    \/ RowsOf(d, c) # {}
    \/ kind = "log" /\ BoxesOf(d, c) # {}
    \/ on # NoOne /\ BoxesOf(d, on) # {}

OwnRows(d, c) == {i \in RowsOf(d, c) : c # NoOne /\ d.rows[i].on = NoOne}

Inserted(d, i, c, on) ==
    [d EXCEPT !.rows = [j \in Ids |->
        IF j = i THEN [char |-> c, on |-> on, tracked |-> FALSE]
        ELSE IF j \in OwnRows(d, on) THEN NoRow
        ELSE d.rows[j]]]

\* A line is done: the row is added, or the checks refuse it.  A session that
\* has to write and finds the lock taken fails, and its handler with it.
LineDone(f, d, changed, c, on) ==
    LET next == [flow EXCEPT ![f].pc = "lines", ![f].left = @ - 1,
                             ![f].name = NoOne, ![f].on = NoOne,
                             ![f].char = NoOne]
        refused == Refused(d, flow[f].kind, c, on)
    IN \/ /\ refused /\ ~changed
          /\ UNCHANGED session /\ flow' = next
       \/ /\ refused /\ changed /\ MayWrite(f)
          /\ Write(f, d) /\ flow' = next
       \/ /\ ~refused /\ MayWrite(f)
          /\ \E i \in Ids \ Used(d) : Write(f, Inserted(d, i, c, on))
          /\ flow' = next
       \/ /\ ~refused \/ changed
          /\ ~MayWrite(f)
          /\ Close(f) /\ Ends(f)

\* A handler starts with n names to go through.  The event row is read here and
\* not again.
Message(f, kind, n, want) ==
    /\ flow[f].pc = "idle"
    /\ flow' = [flow EXCEPT ![f] = [Idle EXCEPT !.pc = "lines", !.kind = kind,
                        !.left = n, !.want = want, !.mark = db.killed]]
    /\ UNCHANGED <<session, raids>>

\* +Player lines, a pasted log with players in it, the buttons of a proposal:
\* Apply needs names, Kill and No Kill do not.
AddPlayer(f, n) == Message(f, "add", n, "unset")
LogParse(f, n) == n > 0 /\ Message(f, "log", n, "unset")
AutoAttButton(f, n, want) == (n > 0 \/ want # "unset") /\ Message(f, "button", n, want)

\* The next line of a message, a name that may box another; logs name no boxes.
NextLine(f, on) ==
    /\ flow[f].pc = "lines" /\ flow[f].left > 0
    /\ flow[f].kind = "log" => on = NoOne
    /\ UNCHANGED raids

Boxed(d, on) == IF on = NoOne THEN NoOne ELSE First(d, on)

\* A character with a member id is checked and added at once.
LineKnown(f, n, on) ==
    LET v == View(f)
        c == First(v, n)
    IN /\ NextLine(f, on)
       /\ c \in Linked(v)
       /\ LineDone(f, v, FALSE, c, Boxed(v, on))

\* For any other EQdkp is asked first.  +Player and the buttons store a name that
\* has no row before they ask, a pasted log after.
LineAsks(f, n, on) ==
    LET v == View(f)
        stores == Stored(v, n) = {} /\ flow[f].kind # "log"
        asks == flow' = [flow EXCEPT ![f].pc = "lookup", ![f].name = n, ![f].on = on,
                                     ![f].char = IF stores THEN NewRow(v, n) ELSE First(v, n)]
    IN /\ NextLine(f, on)
       /\ First(v, n) \notin Linked(v)
       /\ \/ /\ stores /\ MayWrite(f)
             /\ Write(f, [v EXCEPT !.known[NewRow(v, n)] = "named"])
             /\ asks
          \/ stores /\ ~MayWrite(f) /\ Close(f) /\ Ends(f)
          \/ ~stores /\ UNCHANGED session /\ asks

\* find_character returned a member: its ids are stored with the row that was
\* found before the look-up, or with a new one when there was none then.
LookupFinds(f) ==
    LET v == View(f)
        c == IF flow[f].char = NoOne THEN NewRow(v, flow[f].name) ELSE flow[f].char
        d == Link(v, {c})
    IN /\ flow[f].pc = "lookup"
       /\ flow[f].char = NoOne => Cardinality(Stored(v, flow[f].name)) < 2
       /\ LineDone(f, d, TRUE, c, Boxed(d, flow[f].on))
       /\ UNCHANGED raids

\* It raised, or returned nobody: the line is skipped.
LookupFails(f) ==
    /\ flow[f].pc = "lookup"
    /\ flow' = [flow EXCEPT ![f].pc = "lines", ![f].left = @ - 1, ![f].name = NoOne,
                            ![f].on = NoOne, ![f].char = NoOne]
    /\ UNCHANGED <<session, raids>>

\* After the last line a button applies its kill state to the event row it read
\* at the start, and the session commits.
LinesEnd(f) ==
    LET marks == flow[f].want \notin {"unset", flow[f].mark}
    IN /\ flow[f].pc = "lines" /\ flow[f].left = 0
       /\ \/ marks /\ MayWrite(f) /\ Commit([View(f) EXCEPT !.killed = flow[f].want])
          \/ marks /\ ~MayWrite(f) /\ Close(f)
          \/ ~marks /\ lock = f /\ Commit(work)
          \/ ~marks /\ lock # f /\ UNCHANGED session
       /\ Ends(f)
       /\ UNCHANGED raids

-----------------------------------------------------------------------------
(* Commands that commit before they await. *)

\* -Player, and a tracking deleted with its attendee rows.
Remove(i) ==
    /\ db.rows[i] # NoRow
    /\ Command([db EXCEPT !.rows[i] = NoRow])

ClearAttendees == Command([db EXCEPT !.rows = [i \in Ids |-> NoRow]])

\* $kill, $nokill; $dkp.
Mark(mark) ==
    /\ db.killed # mark
    /\ Command([db EXCEPT !.killed = mark])

Kill == Mark("kill")
NoKill == Mark("nokill")

SetPrice(p) == Command([db EXCEPT !.price = p])

\* $loot needs a character, attending or not; $unloot; $clear loot.
Award(l, n) ==
    /\ db.loot[l] = NoOne
    /\ Stored(db, n) # {}
    /\ Command([db EXCEPT !.loot[l] = First(db, n)])

Unloot(l) ==
    /\ db.loot[l] \in Chars
    /\ Command([db EXCEPT !.loot[l] = Gone])

ClearLoot ==
    Command([db EXCEPT !.loot = [l \in Loots |-> IF @[l] \in Chars THEN Gone ELSE @[l]]])

\* $fte; $unfte.
Fte(n) ==
    /\ Stored(db, n) # {}
    /\ Command([db EXCEPT !.ftes = @ \cup {First(db, n)}])

Unfte(c) ==
    /\ c \in db.ftes
    /\ Command([db EXCEPT !.ftes = @ \ {c}])

\* $submit reset forgets the raid, not the items billed with it.
Reset ==
    /\ lock = NoOne
    /\ Commit([db EXCEPT !.raid = NoOne])
    /\ raids' = IF db.raid = NoOne THEN raids ELSE [raids EXCEPT ![db.raid].state = "reset"]
    /\ UNCHANGED flow

\* /event target and $target: new values are flushed, unless the event has them
\* already (whether EQdkp has the new target is left open), the first message of the
\* channel is fetched and edited, then the rows of trackers are replaced.
Retarget(f, p, same) ==
    /\ flow[f].pc = "idle"
    /\ Goes(f, "retarget")
    /\ IF same /\ p = db.price THEN UNCHANGED session
       ELSE /\ lock = NoOne
            /\ \E named \in BOOLEAN : Write(f, [db EXCEPT !.price = p, !.named = named])
    /\ UNCHANGED raids

Untracked(d) == [d EXCEPT !.rows = [i \in Ids |-> IF @[i].tracked THEN NoRow ELSE @[i]]]

\* One row for each open tracking whose character has none.
Retargeted(f, S, new) ==
    LET v == View(f)
        d == Untracked(v)
        row(i) == {c \in S : new[c].id = i}
    IN /\ MayWrite(f)
       /\ \A c \in S : /\ RowsOf(d, c) = {}
                       /\ new[c].id \notin Used(d)
                       /\ new[c].on # NoOne => v.known[new[c].on] # "unknown"
       /\ \A b, c \in S : new[b].id = new[c].id => b = c
       /\ Commit([d EXCEPT !.rows = [i \in Ids |->
              IF row(i) = {} THEN @[i]
              ELSE LET c == CHOOSE c \in row(i) : TRUE
                   IN [char |-> c, on |-> new[c].on, tracked |-> TRUE]]])
       /\ Ends(f)
       /\ UNCHANGED raids

RetargetFails(f) ==
    /\ ~MayWrite(f)
    /\ Ends(f) /\ UNCHANGED <<session, raids>>

-----------------------------------------------------------------------------
(* $submit: awaits EQdkp for the event, the members, the raid, each          *)
(* adjustment and each item.  Any of these calls may raise.                  *)

MutMaySubmit(force) ==
    /\ db.killed # "unset"
    /\ db.killed = "kill" /\ ~force => db.price.kill # 0

\* The checks read the event row, whose kill mark and values are kept.  Without
\* a row that names the EQdkp event, that event is created before anything is
\* written.  Otherwise its id goes into the event row, and the next query
\* flushes it: from then to the commit the session holds the lock.
MaySubmit(force) ==
    /\ db.raid = NoOne
    /\ db.killed # "unset"
    /\ db.killed = "kill" /\ ~force => db.price.kill # 0

Submit(f, force) ==
    /\ flow[f].pc = "idle"
    /\ MaySubmit(force)
    /\ flow' = [flow EXCEPT ![f] = [Idle EXCEPT
           !.pc = IF db.named THEN "members" ELSE "event",
           !.mark = db.killed, !.price = db.price]]
    /\ IF db.named THEN lock = NoOne /\ Write(f, db) ELSE UNCHANGED session
    /\ UNCHANGED raids

\* create_event returned: its id is stored, if the lock can be had.
EventMade(f) ==
    /\ flow[f].pc = "event"
    /\ \/ /\ MayWrite(f)
          /\ Write(f, [db EXCEPT !.named = TRUE])
          /\ flow' = [flow EXCEPT ![f].pc = "members", ![f].window = TRUE]
       \/ /\ ~MayWrite(f)
          /\ Ends(f) /\ UNCHANGED session
    /\ UNCHANGED raids

\* create_member has found or made a member for the characters in S, and for no
\* other that had none.  The raid gets one member for each user: of those who
\* attend, or if nobody does and the event is worth nothing of those who bought
\* loot, or if nobody did of those first to engage.
Worth(f) == Value(flow[f].mark, flow[f].price)

OnePerUser(S) ==
    {M \in SUBSET S : /\ UsersOf(M) = UsersOf(S)
                      /\ \A b, c \in M : UserOf[b[1]] = UserOf[c[1]] => b = c}

MembersFound(f, S) ==
    LET d == Link(work, S)
        attend == Attending(d) \cap Linked(d)
        buy == IF attend = {} /\ Worth(f) = 0 THEN Buyers(d) ELSE {}
        came == attend \cup (buy \cap Linked(d))
        asked == Attending(d) \cup buy \cup (IF came = {} THEN d.ftes ELSE {})
        found == asked \cap Linked(d)
    IN /\ flow[f].pc = "members"
       /\ S \subseteq asked \ Linked(work)
       /\ \/ /\ found = {}
             /\ Close(f) /\ Ends(f)
          \/ /\ found # {}
             /\ Write(f, d)
             /\ \E M \in OnePerUser(found) :
                   flow' = [flow EXCEPT ![f].pc = "raid", ![f].members = M,
                                        ![f].fte = (came = {})]
       /\ UNCHANGED raids

\* create_raid: the raid exists once the server has handled the call, whether or
\* not its answer arrives.
NewRaid(f, state) ==
    [state |-> state, members |-> flow[f].members, paid |-> [u \in Users |-> 0],
     value |-> IF flow[f].fte THEN 0 ELSE Worth(f), items |-> {}]

RaidMade(f, r) ==
    /\ flow[f].pc = "raid"
    /\ raids[r] = NoRaid
    /\ raids' = [raids EXCEPT ![r] = NewRaid(f, "open")]
    /\ Write(f, [work EXCEPT !.raid = r])
    /\ flow' = [flow EXCEPT ![f].pc = "adjust", ![f].raid = r, ![f].todo = Tracked(work)]

RaidLost(f, r) ==
    /\ flow[f].pc = "raid"
    /\ raids[r] = NoRaid
    /\ raids' = [raids EXCEPT ![r] = NewRaid(f, "failed")]
    /\ Close(f) /\ Ends(f)

\* One tracker after another: his member is found or made, and he gets the value
\* of the event unless another row of the event belongs to the same user.
OnlyRow(d, i) ==
    \A j \in Used(d) \ {i} : d.rows[j].char \in Linked(d) =>
        UserOf[d.rows[j].char[1]] # UserOf[d.rows[i].char[1]]

Pays(d, i) == d.rows[i].char \in Linked(d) /\ OnlyRow(d, i)

Paid(r, d, i) ==
    [raids EXCEPT ![r].paid[UserOf[d.rows[i].char[1]]] = @ + 1]

Adjust(f, i, found) ==
    LET d == IF found THEN Link(work, {work.rows[i].char}) ELSE work
    IN /\ flow[f].pc = "adjust" /\ i \in flow[f].todo
       /\ Write(f, d)
       /\ flow' = [flow EXCEPT ![f].todo = @ \ {i}]
       /\ raids' = IF Pays(d, i) THEN Paid(flow[f].raid, d, i) ELSE raids

\* First to engage: an adjustment each; then the items nobody was charged for.
AdjustsDone(f) ==
    /\ flow[f].pc = "adjust" /\ flow[f].todo = {}
    /\ flow' = [flow EXCEPT ![f].pc = "items", ![f].todo = Unbilled(work)]
    /\ UNCHANGED <<session, raids>>

Bill(f, l, found) ==
    LET d == IF found THEN Link(work, {work.loot[l]}) ELSE work
        charged == work.loot[l] \in Linked(d)
    IN /\ flow[f].pc = "items" /\ l \in flow[f].todo
       /\ Write(f, IF charged THEN [d EXCEPT !.billed = @ \cup {l}] ELSE d)
       /\ flow' = [flow EXCEPT ![f].todo = @ \ {l}]
       /\ raids' = IF charged THEN [raids EXCEPT ![flow[f].raid].items = @ \cup {l}]
                              ELSE raids

\* The commit.  A raid the event row named until now is forgotten.
SubmitEnds(f) ==
    /\ flow[f].pc = "items" /\ flow[f].todo = {}
    /\ Commit(work)
    /\ raids' = [r \in RaidIds |->
           IF r = work.raid THEN [raids[r] EXCEPT !.state = "recorded"]
           ELSE IF r = db.raid THEN [raids[r] EXCEPT !.state = "replaced"]
           ELSE raids[r]]
    /\ Ends(f)

\* A call raises: the session closes without a commit, the raid stays.  The
\* server may have made the adjustment or the item nevertheless.
Failed(rs, f) ==
    IF flow[f].raid = NoOne THEN rs ELSE [rs EXCEPT ![flow[f].raid].state = "failed"]

CallFails(f) ==
    /\ flow[f].pc \in {"event", "members", "raid", "adjust", "items"}
    /\ flow[f].pc \in {"adjust", "items"} => flow[f].todo # {}
    /\ Close(f) /\ Ends(f)
    /\ raids' = Failed(raids, f)

BillLost(f, l) ==
    /\ flow[f].pc = "items" /\ l \in flow[f].todo
    /\ work.loot[l] \in Linked(work)
    /\ Close(f) /\ Ends(f)
    /\ raids' = Failed([raids EXCEPT ![flow[f].raid].items = @ \cup {l}], f)

AdjustLost(f, i) ==
    /\ flow[f].pc = "adjust" /\ i \in flow[f].todo
    /\ Pays(work, i)
    /\ Close(f) /\ Ends(f)
    /\ raids' = Failed(Paid(flow[f].raid, work, i), f)

-----------------------------------------------------------------------------
(* The process may end at any time; what is not committed is lost. *)

Crash ==
    /\ flow' = [f \in Flows |-> Idle]
    /\ Lost
    /\ raids' = [r \in RaidIds |-> IF raids[r].state = "open"
                                   THEN [raids[r] EXCEPT !.state = "failed"] ELSE raids[r]]

\* The process starts with an event that has not been uploaded, whatever earlier
\* commands have committed to it.
Sound(d) ==
    /\ d.raid = NoOne
    /\ \A i, j \in Used(d) : d.rows[i].char = d.rows[j].char => i = j
    /\ \A n \in Names : d.known[<<n, 1>>] = "unknown" => d.known[<<n, 2>>] = "unknown"

Init ==
    /\ db \in Database
    /\ Sound(db)
    /\ work = db
    /\ lock = NoOne
    /\ flow = [f \in Flows |-> Idle]
    /\ raids = [r \in RaidIds |-> NoRaid]
    /\ commands = 0

Line(f) ==
    \/ \E n \in Names, on \in Names \cup {NoOne} : LineKnown(f, n, on) \/ LineAsks(f, n, on)
    \/ LookupFinds(f) \/ LookupFails(f) \/ LinesEnd(f)

Upload(f) ==
    \/ EventMade(f)
    \/ \E S \in SUBSET Chars : MembersFound(f, S)
    \/ \E r \in RaidIds : RaidMade(f, r) \/ RaidLost(f, r)
    \/ \E i \in Ids : AdjustLost(f, i) \/ \E found \in BOOLEAN : Adjust(f, i, found)
    \/ AdjustsDone(f)
    \/ \E l \in Loots, found \in BOOLEAN : Bill(f, l, found) \/ BillLost(f, l)
    \/ SubmitEnds(f)
    \/ CallFails(f)

Replace(f) ==
    /\ flow[f].pc = "retarget"
    /\ \/ \E S \in SUBSET {c \in Chars : View(f).known[c] # "unknown"} :
             \E new \in [S -> [id : Ids, on : Chars \cup {NoOne}]] : Retargeted(f, S, new)
       \/ RetargetFails(f)

Single ==
    \/ \E i \in Ids : Remove(i)
    \/ ClearAttendees
    \/ Kill \/ NoKill
    \/ \E p \in Prices : SetPrice(p)
    \/ \E l \in Loots : Unloot(l) \/ \E n \in Names : Award(l, n)
    \/ ClearLoot
    \/ \E n \in Names : Fte(n)
    \/ \E c \in Chars : Unfte(c)
    \/ Reset

Begin(f) ==
    \/ \E n \in 0 .. MaxLines :
          AddPlayer(f, n) \/ LogParse(f, n) \/ \E want \in Marks : AutoAttButton(f, n, want)
    \/ \E force \in BOOLEAN : Submit(f, force)
    \/ \E p \in Prices, same \in BOOLEAN : Retarget(f, p, same)

Arrives ==
    /\ commands < MaxCommands
    /\ commands' = commands + 1
    /\ Single \/ \E f \in Flows : Begin(f)

Step(f) == (Line(f) \/ Upload(f) \/ Replace(f)) /\ UNCHANGED commands

Next ==
    \/ Arrives
    \/ \E f \in Flows : Step(f)
    \/ Crash /\ UNCHANGED commands

Spec == Init /\ [][Next]_vars

-----------------------------------------------------------------------------
(* Properties. *)

Handler ==
    [pc : {"idle", "lines", "lookup", "retarget", "event", "members", "raid", "adjust", "items"},
     kind : Kinds, left : Nat, name : Names \cup {NoOne}, char : Chars \cup {NoOne},
     on : Names \cup {NoOne}, want : Marks, mark : Marks,
     price : [kill : Nat, nokill : Nat], window : BOOLEAN, members : SUBSET Chars,
     fte : BOOLEAN, raid : RaidIds \cup {NoOne}, todo : SUBSET (Ids \cup Loots)]

Raid ==
    [state : {"none", "open", "recorded", "reset", "replaced", "failed"},
     members : SUBSET Chars, paid : [Users -> Nat], value : Nat, items : SUBSET Loots]

TypeOK ==
    /\ db \in Database
    /\ work \in Database
    /\ lock \in Flows \cup {NoOne}
    /\ flow \in [Flows -> Handler]
    /\ raids \in [RaidIds -> Raid]
    /\ commands \in Nat

Uploading(f) == flow[f].pc \in {"members", "raid", "adjust", "items"}
Charging(f) == flow[f].pc \in {"adjust", "items"}

\* The write lock is held by a handler that is still running, by every upload
\* from the assignment of the event's id on, and by nobody when nothing is
\* pending: no path, failed or finished, leaves it behind (get_raid_session).
LockHeld ==
    /\ \A f \in Flows : Uploading(f) => lock = f
    /\ lock # NoOne => flow[lock].pc \notin {"idle", "event"}
    /\ NothingPending

\* The raid in the event row is the one raid of the server that stands for it.
Recorded ==
    /\ \A r \in RaidIds : raids[r].state = "recorded" <=> db.raid = r
    /\ \A r \in RaidIds : raids[r].state = "open" <=> \E f \in Flows : flow[f].raid = r

\* No character row attends twice, neither in what is committed nor in what the
\* holder of the lock sees, whatever handlers were suspended between their
\* checks (_handle_add_player, _handle_log_parse, on_auto_att_button).
OneRowEach ==
    \A d \in {db, work} : \A i, j \in Used(d) : d.rows[i].char = d.rows[j].char => i = j

\* In one raid nobody gets the value of the event twice, as a member, as the
\* owner of two characters, or as a member and a tracker ($submit).
PaidOnce ==
    \A r \in RaidIds :
        /\ \A b, c \in raids[r].members : UserOf[b[1]] = UserOf[c[1]] => b = c
        /\ \A u \in Users : raids[r].paid[u] <= 1
        /\ raids[r].value # 0 => \A u \in UsersOf(raids[r].members) : raids[r].paid[u] = 0

\* No item is charged in two raids, reset, overtaken or repeated, other than
\* those of an upload that failed.
ChargedOnce ==
    \A r, s \in RaidIds :
        r # s /\ "failed" \notin {raids[r].state, raids[s].state}
            => raids[r].items \cap raids[s].items = {}

RaidInv == TypeOK /\ LockHeld /\ Recorded /\ OneRowEach /\ PaidOnce /\ ChargedOnce

\* The raid r comes into the event row.
Commits(r) == raids[r].state # "recorded" /\ raids'[r].state = "recorded"

\* What is on the server is what is committed with the raid: each member still
\* attends (or bought or engaged, when nobody did); everybody attending whose
\* member was known is a member; whoever was paid has tracked; each tracker
\* whose member was known and whose user has no other row is paid.
RosterUploaded ==
    [][\A r \in RaidIds : Commits(r) =>
        LET raid == raids'[r] IN
        /\ \A c \in raid.members :
              \/ c \in Attending(db')
              \/ raid.value = 0 /\ c \in Buyers(db') \cup db'.ftes
        /\ UsersOf(Attending(db') \cap Linked(db)) \subseteq UsersOf(raid.members)
        /\ \A u \in Users : raid.paid[u] > 0 =>
              \E i \in Tracked(db') : UserOf[db'.rows[i].char[1]] = u
        /\ \A i \in Tracked(db') :
              db'.rows[i].char \in Linked(db) /\ OnlyRow(db', i)
                  => raid.paid[UserOf[db'.rows[i].char[1]]] > 0]_vars

\* A raid that stands for the event loses its place to another upload only if
\* that one had to create the EQdkp event, and was overtaken while it waited;
\* but for such an upload the raid is worth what the event row says.
UploadedOnce ==
    [][\A r \in RaidIds, f \in Flows :
        Commits(r) /\ flow[f].raid = r /\ ~flow[f].window =>
            /\ \A s \in RaidIds : raids'[s].state = "replaced" => raids[s].state = "replaced"
            /\ raids'[r].value \in {0, Value(db'.killed, db'.price)}]_vars
=============================================================================
