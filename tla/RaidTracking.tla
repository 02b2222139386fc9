---------------------------- MODULE RaidTracking ----------------------------
(***************************************************************************)
(* Trackings (RTE) and the events that close them: members track a target  *)
(* until they stop or an event for it is created, which makes them         *)
(* attendees; their time is then submitted to EQdkp as adjustments.        *)
(* cmd_rte.py, the creation and retargeting of events in cmd_event.py and  *)
(* rte_tracking_creator, with the sessions and the write lock of           *)
(* RaidSession.                                                            *)
(***************************************************************************)
EXTENDS Naturals, FiniteSets, RaidSession

CONSTANTS
    Chars,      \* characters that track
    Targets,    \* targets of trackings and events
    Quake,      \* the target of an event that has none and is named after a quake
    OnQuake,    \* targets with close_on_quake
    PullIn,     \* targets with pull_other_rte_in
    ChildPulls, \* parts of targets with it: <<target, how many parts come after>>
    Exempt,     \* targets whose rte_attendence is off
    Parts,      \* how many events a target needs: its children, or one
    Rates,      \* what a role earns per hour
    Lockout,    \* lockout_hrs of every target, positive, in whole ticks
    Events,     \* ids of events; bounds their number
    MaxTracks,  \* bound of the ids of trackings
    MaxClock,   \* bound of the clock
    MaxCommands \* commands of a run; a bound

ASSUME TrackingConstants ==
    /\ Quake \notin Targets \cup {NoOne}
    /\ OnQuake \subseteq Targets /\ PullIn \subseteq Targets /\ Exempt \subseteq Targets
    /\ ChildPulls \subseteq Targets \X Nat
    /\ Parts \in [Targets \cup {Quake} -> Nat \ {0}]
    /\ NoOne \notin Chars \cup Events
    /\ Lockout \in Nat /\ MaxTracks \in Nat /\ MaxClock \in Nat /\ MaxCommands \in Nat

VARIABLES
    flow,       \* the suspended handlers
    clock,      \* the time
    commands,   \* how many commands there were; numbers them
    adjusted,   \* how often EQdkp has paid each tracking; history
    excused     \* trackings in a submission that failed, was not alone, or began
                \* before an earlier tracking of that id was deleted; history

vars == <<db, work, lock, flow, clock, commands, adjusted, excused>>

-----------------------------------------------------------------------------
(* Rows. *)

Ids == 1 .. MaxTracks

NoTrack == [char |-> NoOne]
Track == [char : Chars, target : Targets, rate : Rates, open : BOOLEAN,
          closer : Events \cup {NoOne}, paid : BOOLEAN]

NoEvent == [at |-> MaxClock + 1]
Event == [target : Targets \cup {Quake}, at : 0 .. MaxClock, cmd : Nat,
          rivals : SUBSET Nat, moved : BOOLEAN]

\* rows: attendees by a tracking; here: attendees in their own right.
Database ==
    [track : [Ids -> Track \cup {NoTrack}], event : [Events -> Event \cup {NoEvent}],
     rows : SUBSET (Events \X Ids), here : SUBSET (Events \X Chars)]

Made(d) == {e \in Events : d.event[e] # NoEvent}
Tracks(d) == {i \in Ids : d.track[i] # NoTrack}
Open(d) == {i \in Tracks(d) : d.track[i].open}
On(d, T) == {i \in Open(d) : d.track[i].target \in T}

\* The id SQLite gives to a new row, if it is within the bound.
NextIds(d) == {i \in Ids : i - 1 \in Tracks(d) \cup {0} /\ \A j \in Tracks(d) : j < i}

Ended(d, S, e) ==
    [d EXCEPT !.track = [i \in Ids |-> IF i \in S
        THEN [@[i] EXCEPT !.open = FALSE, !.closer = e] ELSE @[i]]]

Attends(d, e, c) ==
    <<e, c>> \in d.here \/ \E i \in Tracks(d) : <<e, i>> \in d.rows /\ d.track[i].char = c

Idle == [pc |-> "idle", id |-> 0, target |-> NoOne, parts |-> 0, at |-> 0, cmd |-> 0,
         rivals |-> {}, event |-> NoOne, read |-> [i \in {} |-> NoOne], todo |-> {}, group |-> NoOne, dirty |-> {}]

Ends(f) == flow' = [flow EXCEPT ![f] = Idle]
Goes(f, pc) == flow' = [flow EXCEPT ![f].pc = pc]

Command(d) == Alone(d) /\ UNCHANGED <<flow, adjusted, excused>>

Quiet == UNCHANGED <<adjusted, excused>>

-----------------------------------------------------------------------------
(* /rte start and the ways to end or delete a tracking. *)

\* Trackings that a submission has read.
Submitting(f) == flow[f].pc \in {"member", "adjust"}
Held == UNION {DOMAIN flow[f].read : f \in {f \in Flows : Submitting(f)}}

\* A character tracks one thing at a time.  The row is flushed, then announced in
\* the channel and to the user, and committed last.
MutFree(d, c) == TRUE
Free(d, c) == \A i \in Open(d) : d.track[i].char # c

Start(f, c, t, rate) ==
    /\ flow[f].pc = "idle" /\ lock = NoOne
    /\ Free(db, c)
    /\ \E i \in NextIds(db) :
          /\ Write(f, [db EXCEPT !.track[i] =
                [char |-> c, target |-> t, rate |-> rate, open |-> TRUE, closer |-> NoOne,
                 paid |-> FALSE]])
          /\ flow' = [flow EXCEPT ![f] = [Idle EXCEPT !.pc = "announce", !.id = i]]
          /\ adjusted' = [adjusted EXCEPT ![i] = 0]
          /\ excused' = IF i \in Held THEN excused \cup {i} ELSE excused \ {i}

\* The channel and the follow-up may refuse the message, which ends the command;
\* the user may refuse his, which does not.
Announced(f) == flow[f].pc = "announce" /\ Commit(work) /\ Ends(f) /\ Quiet
AnnounceFails(f) == flow[f].pc = "announce" /\ Close(f) /\ Ends(f) /\ Quiet

\* /rte stop; the button in the message to the user.
Stop(c, t) ==
    \E i \in On(db, {t}) : db.track[i].char = c /\ Command(Ended(db, {i}, NoOne))

StopButton(i) == i \in Open(db) /\ Command(Ended(db, {i}, NoOne))

\* $clear rte in the channel of an event for t.
ClearRte(t) ==
    /\ \E e \in Events : db.event[e] # NoEvent /\ db.event[e].target = t
    /\ Command([db EXCEPT !.track = [i \in Ids |->
           IF i \in On(db, {t}) THEN [@[i] EXCEPT !.open = FALSE] ELSE @[i]]])

\* A message -<id> in the tracking channel deletes the tracking and its attendees.
Delete(i) ==
    /\ i \in Tracks(db)
    /\ Alone([db EXCEPT !.track[i] = NoTrack,
                        !.rows = {r \in @ : r[2] # i}])
    /\ adjusted' = [adjusted EXCEPT ![i] = 0]
    /\ excused' = excused \ {i}
    /\ UNCHANGED flow

\* Somebody is added to an event, or removed from it.
Attend(e, c) ==
    /\ db.event[e] # NoEvent /\ ~Attends(db, e, c)
    /\ Command([db EXCEPT !.here = @ \cup {<<e, c>>}])

Leave(e, c) ==
    /\ Attends(db, e, c)
    /\ Command([db EXCEPT !.here = @ \ {<<e, c>>},
                          !.rows = {r \in @ : r[1] = e => db.track[r[2]].char # c}])

-----------------------------------------------------------------------------
(* /event create, a message in the batphone channel, /event target. *)

MutLockedOut(d, t) ==
    /\ t # Quake
    /\ \E e \in Events : /\ d.event[e] # NoEvent /\ d.event[e].target = t
                         /\ d.event[e].at + Lockout > clock

\* _is_locked_out
LockedOut(d, t) ==
    /\ t # Quake
    /\ \E e \in Events : /\ d.event[e] # NoEvent /\ d.event[e].target = t
                         /\ d.event[e].at + Lockout >= clock

Creating(f) == flow[f].pc \in {"channel", "post"}

\* The event a handler is about to make.
Request(f) == [target |-> flow[f].target, at |-> flow[f].at, cmd |-> flow[f].cmd,
               rivals |-> flow[f].rivals, moved |-> FALSE]

\* The lockout is checked once, then a channel is made for each part of the target.
Create(f, t) ==
    /\ flow[f].pc = "idle"
    /\ ~LockedOut(db, t)
    /\ flow' = [flow EXCEPT ![f] = [Idle EXCEPT !.pc = "channel", !.target = t,
           !.parts = Parts[t] - 1, !.at = clock, !.cmd = commands,
           !.rivals = {flow[g].cmd : g \in {g \in Flows : Creating(g)}}]]
    /\ UNCHANGED <<session, adjusted, excused>>

\* The batphone first commits when it was last heard, and dies if it cannot.
Batphone(f, t) == lock = NoOne /\ Create(f, t)

\* rte_tracking_creator: the open trackings of the target, or of every target a
\* quake closes, are closed by the event.  Those of the target become attendees of
\* it, and so does whoever tracks something else if the target, or the part of it
\* the event is for, pulls others in; each character once.
Closes(d, t) == On(d, IF t = Quake THEN OnQuake ELSE {t})

Pulls(f) ==
    flow[f].target \in PullIn \/ <<flow[f].target, flow[f].parts>> \in ChildPulls

Credits(d, t, pulls) ==
    (IF t = Quake THEN {} ELSE On(d, {t})) \cup
    (IF pulls THEN {i \in Open(d) : d.track[i].target \notin Exempt \cup {t}} ELSE {})

MutCredited(d, e, t, pulls) ==
    LET c == Ended(d, Closes(d, t), e)
    IN [c EXCEPT !.rows = @ \cup {<<e, i>> : i \in
           {i \in Credits(c, t, pulls) : ~Attends(d, e, d.track[i].char)}}]

Credited(d, e, t, pulls) ==
    LET c == Ended(d, Closes(d, t), e)
    IN [c EXCEPT !.rows = @ \cup {<<e, i>> : i \in
           {i \in Credits(d, t, pulls) : ~Attends(d, e, d.track[i].char)}}]

\* create_text_channel returned: the event is flushed with all that goes with it,
\* and its first message is sent.
ChannelMade(f, e) ==
    LET t == flow[f].target
        d == [db EXCEPT !.event[e] = Request(f)]
    IN /\ flow[f].pc = "channel"
       /\ db.event[e] = NoEvent
       /\ \/ /\ MayWrite(f)
             /\ Write(f, Credited(d, e, t, Pulls(f)))
             /\ flow' = [flow EXCEPT ![f].pc = "post", ![f].event = e]
          \/ /\ ~MayWrite(f)
             /\ Ends(f) /\ UNCHANGED session
       /\ Quiet

\* The next part of the target, if there is one, gets the time it starts at.
NextPart(f) ==
    flow' = IF flow[f].parts = 0 THEN [flow EXCEPT ![f] = Idle]
            ELSE [flow EXCEPT ![f].pc = "channel", ![f].parts = @ - 1, ![f].at = clock,
                              ![f].event = NoOne]

Posted(f) ==
    /\ flow[f].pc = "post"
    /\ Commit(work)
    /\ NextPart(f)
    /\ Quiet

\* All categories are full: the part is left out.  Any other error ends the handler.
NoChannel(f) ==
    /\ flow[f].pc = "channel"
    /\ NextPart(f)
    /\ UNCHANGED <<session, adjusted, excused>>

CreateFails(f) == Creating(f) /\ Close(f) /\ Ends(f) /\ Quiet

\* New values are flushed (unless the event has them), a message is fetched, then
\* the attendees by tracking are replaced.
Retarget(f, e, t) ==
    /\ flow[f].pc = "idle" /\ db.event[e] # NoEvent
    /\ flow' = [flow EXCEPT ![f] = [Idle EXCEPT !.pc = "retarget", !.event = e, !.target = t]]
    /\ IF db.event[e].target = t THEN UNCHANGED session
       ELSE lock = NoOne /\ Write(f, [db EXCEPT !.event[e].target = t, !.event[e].moved = TRUE])
    /\ Quiet

Retargeted(f) ==
    LET e == flow[f].event
        v == View(f)
        d == [v EXCEPT !.event[e].moved = TRUE, !.rows = {r \in @ : r[1] # e}]
    IN /\ flow[f].pc = "retarget"
       /\ IF MayWrite(f)
          THEN LET t == flow[f].target IN Commit(Credited(d, e, t, t \in PullIn))
          ELSE UNCHANGED session
       /\ Ends(f)
       /\ Quiet

-----------------------------------------------------------------------------
(* /rte submit *)

\* One adjustment for each character and rate.
Key(d, i) == <<d.track[i].char, d.track[i].rate>>
MutDue(d, t) == {i \in Tracks(d) \ Open(d) : d.track[i].target = t}
Due(d, t) == {i \in Tracks(d) \ Open(d) : d.track[i].target = t /\ ~d.track[i].paid}

Submit(f, t) ==
    LET due == Due(db, t)
    IN /\ flow[f].pc = "idle"
       /\ due # {}
       /\ flow' = [flow EXCEPT ![f] = [Idle EXCEPT !.pc = "member",
                      !.read = [i \in due |-> Key(db, i)], !.todo = {Key(db, i) : i \in due}]]
       /\ excused' = excused \cup (due \cap Held)
       /\ UNCHANGED <<session, adjusted>>

Items(f) == {i \in DOMAIN flow[f].read : flow[f].read[i] = flow[f].group}

\* What was paid is written with the next flush; a row that is gone fails it.
Marked(d, S) ==
    [d EXCEPT !.track = [i \in Ids |-> IF i \in S THEN [@[i] EXCEPT !.paid = TRUE] ELSE @[i]]]
CanMark(f) == MayWrite(f) /\ flow[f].dirty \subseteq Tracks(View(f))

\* A submission that ends without a commit leaves what it has paid unpaid here.
PaidBy(f) == {i \in DOMAIN flow[f].read : flow[f].read[i] \notin flow[f].todo}

SubmitDies(f) ==
    /\ Close(f) /\ Ends(f)
    /\ excused' = excused \cup (PaidBy(f) \cap Tracks(db))

\* create_member found a member for the group and flushes; it found none, but the
\* character has had one; it found none.
MemberFound(f, g, changed) ==
    LET flushes == changed \/ flow[f].dirty # {}
    IN /\ flow[f].pc = "member" /\ g \in flow[f].todo
       /\ \/ /\ ~flushes
             /\ UNCHANGED session
             /\ flow' = [flow EXCEPT ![f].pc = "adjust", ![f].group = g]
             /\ UNCHANGED excused
          \/ /\ flushes /\ CanMark(f)
             /\ Write(f, Marked(View(f), flow[f].dirty))
             /\ flow' = [flow EXCEPT ![f].pc = "adjust", ![f].group = g, ![f].dirty = {}]
             /\ UNCHANGED excused
          \/ /\ flushes /\ ~CanMark(f)
             /\ SubmitDies(f)
       /\ UNCHANGED adjusted

MemberKept(f, g) ==
    /\ flow[f].pc = "member" /\ g \in flow[f].todo
    /\ flow' = [flow EXCEPT ![f].pc = "adjust", ![f].group = g]
    /\ UNCHANGED <<session, adjusted, excused>>

MemberNone(f, g) ==
    /\ flow[f].pc = "member" /\ g \in flow[f].todo
    /\ flow' = [flow EXCEPT ![f].todo = @ \ {g},
                            ![f].read = [i \in {i \in DOMAIN @ : @[i] # g} |-> @[i]]]
    /\ UNCHANGED <<session, adjusted, excused>>

\* EQdkp pays the time of the group.
Pays(S) == adjusted' = [i \in Ids |-> IF i \in S THEN adjusted[i] + 1 ELSE adjusted[i]]

Adjusted(f) ==
    /\ flow[f].pc = "adjust"
    /\ Pays(Items(f) \cap Tracks(db))
    /\ flow' = [flow EXCEPT ![f].pc = "member", ![f].dirty = @ \cup Items(f),
                            ![f].todo = @ \ {flow[f].group}, ![f].group = NoOne]
    /\ UNCHANGED <<session, excused>>

\* Its answer gets lost; or a call fails.
AdjustLost(f) ==
    /\ flow[f].pc = "adjust"
    /\ Pays(Items(f) \cap Tracks(db))
    /\ Close(f) /\ Ends(f)
    /\ excused' = excused \cup ((PaidBy(f) \cup Items(f)) \cap Tracks(db))

SubmitFails(f) == Submitting(f) /\ SubmitDies(f) /\ UNCHANGED adjusted

SubmitEnds(f) ==
    /\ flow[f].pc = "member" /\ flow[f].todo = {}
    /\ \/ /\ flow[f].dirty = {} /\ lock # f
          /\ UNCHANGED <<session, excused>> /\ Ends(f)
       \/ /\ flow[f].dirty # {} \/ lock = f
          /\ CanMark(f)
          /\ Commit(Marked(View(f), flow[f].dirty)) /\ Ends(f)
          /\ UNCHANGED excused
       \/ /\ flow[f].dirty # {} /\ ~CanMark(f)
          /\ SubmitDies(f)
    /\ UNCHANGED adjusted

-----------------------------------------------------------------------------
(* The process may end at any time. *)

Crash ==
    /\ Lost
    /\ flow' = [f \in Flows |-> Idle]
    /\ excused' = excused \cup
           ((UNION {PaidBy(f) : f \in {f \in Flows : Submitting(f)}}) \cap Tracks(db))
    /\ UNCHANGED <<clock, commands, adjusted>>

Tick == clock < MaxClock /\ clock' = clock + 1
        /\ UNCHANGED <<session, flow, commands, adjusted, excused>>

\* Trackings that earlier commands have left; no event yet.
Sound(d) ==
    /\ \A i, j \in Open(d) : d.track[i].char = d.track[j].char => i = j
    /\ \A i \in Tracks(d) : d.track[i].closer = NoOne /\ ~d.track[i].paid
    /\ d.event = [e \in Events |-> NoEvent] /\ d.rows = {} /\ d.here = {}

Init ==
    /\ db \in Database /\ Sound(db)
    /\ work = db /\ lock = NoOne
    /\ flow = [f \in Flows |-> Idle]
    /\ clock = 0 /\ commands = 0
    /\ adjusted = [i \in Ids |-> 0] /\ excused = {}

Single ==
    \/ \E c \in Chars, t \in Targets : Stop(c, t)
    \/ \E i \in Ids : StopButton(i) \/ Delete(i)
    \/ \E t \in Targets : ClearRte(t)
    \/ \E e \in Events, c \in Chars : Attend(e, c) \/ Leave(e, c)

Begin(f) ==
    \/ \E c \in Chars, t \in Targets, rate \in Rates : Start(f, c, t, rate)
    \/ \E t \in Targets \cup {Quake} : Create(f, t) \/ Batphone(f, t)
    \/ \E e \in Events, t \in Targets : Retarget(f, e, t)
    \/ \E t \in Targets : Submit(f, t)

Arrives ==
    /\ commands < MaxCommands
    /\ commands' = commands + 1
    /\ Single \/ \E f \in Flows : Begin(f)
    /\ UNCHANGED clock

Continues(f) ==
    \/ Announced(f) \/ AnnounceFails(f)
    \/ \E e \in Events : ChannelMade(f, e)
    \/ Posted(f) \/ NoChannel(f) \/ CreateFails(f)
    \/ Retargeted(f)
    \/ \E g \in Chars \X Rates :
          MemberKept(f, g) \/ MemberNone(f, g) \/ \E changed \in BOOLEAN : MemberFound(f, g, changed)
    \/ Adjusted(f) \/ AdjustLost(f) \/ SubmitFails(f) \/ SubmitEnds(f)

Step(f) == Continues(f) /\ UNCHANGED <<clock, commands>>

Next == Arrives \/ (\E f \in Flows : Step(f)) \/ Crash \/ Tick

Spec == Init /\ [][Next]_vars

-----------------------------------------------------------------------------
(* Properties. *)

Reading == UNION {[S -> Chars \X Rates] : S \in SUBSET Ids}

Handler ==
    [pc : {"idle", "announce", "channel", "post", "retarget", "member", "adjust"},
     id : Nat, target : Targets \cup {Quake, NoOne}, parts : Nat, at : 0 .. MaxClock,
     cmd : Nat, rivals : SUBSET Nat, event : Events \cup {NoOne},
     read : Reading,
     todo : SUBSET (Chars \X Rates), group : (Chars \X Rates) \cup {NoOne},
     dirty : SUBSET Ids]

TypeOK ==
    /\ db \in Database /\ work \in Database
    /\ lock \in Flows \cup {NoOne}
    /\ clock \in 0 .. MaxClock /\ commands \in Nat
    /\ adjusted \in [Ids -> Nat] /\ excused \subseteq Ids
    /\ flow \in [Flows -> Handler]

\* The write lock belongs to a handler that is waiting for something, and to every
\* one whose row others must not see yet (get_raid_session).
LockHeld ==
    /\ lock # NoOne => flow[lock].pc \notin {"idle", "channel"}
    /\ \A f \in Flows : flow[f].pc \in {"announce", "post"} => lock = f
    /\ NothingPending

\* No character has two open trackings, neither in what is committed nor in what
\* the holder of the lock sees (start, cmd_rte.py).
OneOpen ==
    \A d \in {db, work} : \A i, j \in Open(d) : d.track[i].char = d.track[j].char => i = j

\* Whoever is an attendee by tracking has a tracking, and is one once in an event:
\* by one tracking, and not in his own right as well (rte_tracking_creator).
OneCredit ==
    \A d \in {db, work} :
        /\ \A h \in d.here : d.event[h[1]] # NoEvent
        /\ \A r \in d.rows :
              /\ r[2] \in Tracks(d) /\ d.event[r[1]] # NoEvent
              /\ <<r[1], d.track[r[2]].char>> \notin d.here
              /\ \A s \in d.rows :
                    r[1] = s[1] /\ d.track[r[2]].char = d.track[s[2]].char => r = s

\* What the holder of the lock has done to events: it has moved one to another
\* target, or made the one that was asked for.
EventsPending ==
    \A e \in Events : work.event[e] # db.event[e] =>
        \/ /\ flow[lock].pc = "retarget" /\ db.event[e] # NoEvent
           /\ \E t \in Targets :
                 work.event[e] = [db.event[e] EXCEPT !.target = t, !.moved = TRUE]
        \/ /\ flow[lock].pc = "post" /\ flow[lock].event = e
           /\ work.event[e] = Request(lock)

\* A handler makes events for a target, and retargets one that is there; an event
\* that was just made has closed and credited what there was to close.
HandlerKnows ==
    \A f \in Flows :
        /\ flow[f].pc = "retarget" => flow[f].event \in Made(db)
        /\ Creating(f) => flow[f].target \in Targets \cup {Quake}

PostKnows ==
    \A f \in Flows : flow[f].pc = "post" /\ flow[f].target # Quake =>
        \A i \in On(db, {flow[f].target}) :
            /\ ~work.track[i].open /\ work.track[i].closer = flow[f].event
            /\ <<flow[f].event, i>> \in work.rows

\* Every event there is, or that somebody is about to make.
Claims ==
    {db.event[e] : e \in Made(db)} \cup {work.event[e] : e \in Made(work)}
        \cup {Request(f) : f \in {f \in Flows : Creating(f)}}

\* The first of two that are for the same target is further back than the lockout,
\* or was under way when the second checked.
Apart(p, q) ==
    p.target = q.target /\ p.target # Quake /\ ~p.moved /\ ~q.moved /\ p.cmd < q.cmd
        => p.at + Lockout < q.at \/ p.cmd \in q.rivals

ClaimsApart ==
    /\ \A p \in Claims : p.cmd < commands /\ p.at <= clock
    /\ \A p, q \in Claims : Apart(p, q)
    /\ \A f \in Flows, q \in Claims :
          Creating(f) /\ flow[f].cmd < q.cmd => flow[f].cmd \in q.rivals

\* What a submission has paid is what it has still to write or has written.
SubmissionKnows ==
    \A f \in Flows : Submitting(f) =>
        /\ flow[f].pc = "adjust" => flow[f].group \in flow[f].todo
        /\ flow[f].dirty \subseteq PaidBy(f)
        /\ \A i \in PaidBy(f) \ flow[f].dirty :
              lock = f /\ i \in Tracks(work) /\ work.track[i].paid

\* Nobody else changes what is paid, or has a new tracking that was paid or read.
PaymentsPending ==
    /\ Tracks(db) \subseteq Tracks(work)
    /\ \A i \in Tracks(db) : work.track[i].paid # db.track[i].paid =>
          \E f \in Flows : lock = f /\ Submitting(f) /\ i \in PaidBy(f)
    /\ \A i \in Tracks(work) \ Tracks(db) : i \notin excused =>
          ~work.track[i].paid /\ adjusted[i] = 0 /\ i \notin Held

\* Of a tracking that is not excused there is one submission, which knows whether
\* it was paid.
ReadOnce ==
    \A i \in Tracks(db) \ excused :
        \A f \in Flows : Submitting(f) /\ i \in DOMAIN flow[f].read =>
            /\ \A g \in Flows : Submitting(g) /\ i \in DOMAIN flow[g].read => f = g
            /\ ~db.track[i].paid
            /\ adjusted[i] = IF i \in PaidBy(f) THEN 1 ELSE 0

\* What EQdkp has paid once is recorded as paid, and nothing else is, except for
\* trackings in a submission that failed or was not alone, or that has read a
\* tracking whose id SQLite has since given to another (submit, cmd_rte.py).
AdjustedOnce ==
    \A i \in Tracks(db) \ excused :
        (\A f \in Flows : Submitting(f) => i \notin DOMAIN flow[f].read)
            => adjusted[i] = IF db.track[i].paid THEN 1 ELSE 0

TrackInv ==
    /\ TypeOK /\ LockHeld /\ OneOpen /\ OneCredit
    /\ EventsPending /\ HandlerKnows /\ PostKnows /\ ClaimsApart
    /\ SubmissionKnows /\ PaymentsPending /\ ReadOnce

\* Two events created for a target are further apart than its lockout, unless one
\* command created both or the second checked while the first was under way.
LockoutHolds ==
    \A d, e \in Events :
        /\ NoEvent \notin {db.event[d], db.event[e]}
        /\ db.event[d].target = db.event[e].target /\ db.event[e].target # Quake
        /\ ~db.event[d].moved /\ ~db.event[e].moved
        /\ db.event[d].cmd < db.event[e].cmd
        => \/ db.event[d].at + Lockout < db.event[e].at
           \/ db.event[d].cmd \in db.event[e].rivals

\* An event that is committed has closed every tracking of its target and made each
\* an attendee: none stays open, none is closed and forgotten.
CreditGiven ==
    [][\A e \in Events :
        db.event[e] = NoEvent /\ db'.event[e] # NoEvent /\ db'.event[e].target # Quake =>
            \A i \in On(db, {db'.event[e].target}) :
                /\ ~db'.track[i].open /\ db'.track[i].closer = e
                /\ <<e, i>> \in db'.rows]_vars
=============================================================================
