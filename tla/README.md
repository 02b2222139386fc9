# roboToald in TLA+

roboToald is a Discord bot for an EverQuest guild with an HTTP/WebSocket API
beside it.  This directory holds TLA+ models of its stateful parts, TLC
configurations that check them on small instances, and proofs that TLAPS checks
for every instance.  All paths below are relative to the repository root.

## How the program runs

`batphone.py` initialises the databases, starts the API (FastAPI on uvicorn) on
a daemon thread with an event loop of its own, and runs the Discord client on
the main thread's loop.  So there are

* two event loops, each of which switches between its handlers only at an
  `await`;
* the executor threads of `asyncio.to_thread`, which read the databases for a
  loop while other handlers run;
* two kinds of SQLite database (the global one and one raid database per guild);
  every operation opens a session, and its commit is atomic;
* module globals that both loops use without a lock (the caches of
  `db/models/sso.py`, `ConnectionManager._connections`);
* state of the process that a restart loses (`SPAWN_OVERRIDE`, running timers,
  tasks, caches) beside rows that it does not.

## Inventory

| Component | State | Operations | What is hard | What makes it correct |
|---|---|---|---|---|
| WebSocket account updates: `api/websocket.py`, `api/server.py` | list of connections, `last_sent_state` of each, debounce handle per guild | register, unregister, notify (debounced, immediate), push, delta, full state | reads on executor threads, overlapping pushes, sends that fail, a handle that is cancelled and replaced | each delta meets the copy it was computed from; no notified change is lost; a finished connection is forgotten |
| Authentication and revocation: `api/server.py`, `db/models/sso.py`, `discord_client/commands/cmd_sso.py` | access keys, revocations, one cache of each in memory | load, revoke, unrevoke, reset key, authenticate (HTTP, WebSocket), disconnect | two threads share the caches; authentication awaits Discord between its checks | a cache that differs from its table is on its way to be dropped; a revoked user loses the connections he has |
| Login resolution: `find_account_by_username`, `_perform_login_auth` | accounts, tags, groups, failures in the audit log | resolve name, character, alias, tag, dynamic tag; check groups; give credentials; count failures per address | a query per kind of name and a transaction per step, commands in between; the window of failures | a handler answers what the tables say; an account in use is not given away; failures stay within the limit |
| Character sessions: `record_heartbeat_session` and others | sessions, characters, their keys | heartbeat, location, expiry of other sessions | one user on several accounts, two users on one character, characters that move and accounts that are deleted while played | a user is shown on one account; what is shown as played counts as in use |
| SSO administration: `cmd_sso.py` | accounts, groups, tags, aliases, characters | create, update, delete, reconcile with Discord roles | commit, reply and notification are three steps | nothing names an account that is gone; each committed change is notified |
| DS camp points: `cmd_ds.py`, `points.py` | IN/OUT/POP events, earned points, spawn override | start, stop, tod, urn, adjust | backdating, a time of death that closes everybody, restart | IN and OUT alternate, no minute is credited twice |
| Timers: `cmd_timer.py`, `timer.py`, `db/base.py` | timer rows, timers in memory | start, stop, repeat, load | quota on every store, load during stop, restart | a stopped timer stays stopped, a running one is stored |
| Raid target subscriptions: `cmd_raidtarget.py`, `subscription.py` | subscriptions with expiry and last window | subscribe, refresh, unsubscribe, announce | mark before send, `on_ready` that fires again | one message per window and subscriber |
| Raid events: `cmd_event.py`, `raid/event_*.py`, `batphone` of `base.py` | events, attendees, kill marks, loot, EQdkp ids; the write lock of the guild's raid database | create, retarget, register, kill, loot, first to engage, submit, reset | dozens of awaits between check and commit of submit, under a lock on which everybody else fails | a raid is uploaded once and is what is committed with it; nobody attends or is paid twice; the lock is given back |
| Automatic attendance: `raid/auto_attendance.py` and `/raidtarget/tod` | proposals in Discord | propose, apply, kill | the button acts on what it read before its look-ups | as for events |
| RTE tracking: `cmd_rte.py`, `rte_tracking_creator` | trackings, attendees by tracking | start, stop, submit, delete; closed by events | a submission is a sequence of calls recorded at the end; an event credits trackings when its channel is there | one open tracking each; every tracking credited by the event that closes it, and paid once |
| Batphone alerts | alerts per channel | register, match, notify | - | - |
| Lookup, loot text, dashboard, wakeup, migrations, configuration | - | reads and I/O | - | - |

## Plan

The order is by how much of the program depends on the behaviour and by how
badly tests reach it.

1. `StateFeed` (what the account WebSocket promises) and `AccountSync` (how it
   keeps the promise), with proofs.  Done.
2. `SsoAccess`: the caches shared by two threads, the stages of WebSocket
   authentication, revocation and disconnection; an inductive invariant that
   says when a cache may differ from its table, with proofs.  Done.
3. `SsoLogin`: what a name stands for, who gets credentials and who is shown as
   playing, with the commands of administrators; proofs.  Done.
4. `DsCamp`: the event log of the camp, credit, time of death, restart;
   `DsSpawn`: the override of the next spawn and the timer it is restored from.
   Done; left is the rate per minute (pure).
5. `Timers`: rows, tasks, quota, restart, with proofs.  Done.
6. `Subscriptions`: the notifier loop(s), mark and send, re-subscription.  Done.
7. `RaidSession` (one SQLite file, one write lock), `RaidEvent` (one event and
   its upload) and `RaidTracking` (trackings and the events that close them), with
   proofs about both.  Done.
8. Left: small pure parts (the value of a camp minute, clock skew of reports,
   differences of account trees).

Runs use two of each thing that can race and the fewest commits that separate
"before", "between" and "after".  Theorems: type correctness and the main
safety invariant of each state machine, and each refinement.

## AccountSync

### What is modelled

One guild.  `db` abstracts the two groups of tables a push reads: "accounts"
(`list_accounts`: accounts, groups, tags, aliases, characters) and "sessions"
(`get_active_characters`), each to the number of commits it has seen.  An
account tree is the pair of versions it was built from, so "the client's copy"
and "what the database holds" can be compared without their content.

| Code | Model |
|---|---|
| `_ws_handle_heartbeat` | `HeartbeatLogin`, `RecordSession`, `DebounceSchedule`: two commits and a notification during which the loop runs nothing else (`busy`) |
| `_ws_handle_update_location` | `LocationLogin`, `RecordSession`, `UpdateCharacter` (ends here when the character did not change), `DebounceSchedule` |
| `_perform_login_auth` | `LoginAuth` |
| admin commands of `cmd_sso.py` | `AdminCommit`, then `AdminNotify` or `AdminReplyFails`, on the Discord thread |
| `_notify_guild_entry`, `_debounce_schedule` | `DebounceSchedule`, `Tick`, `Fire`, `StartTask`, `RunImmediate` |
| `_notify_guild_async` | `BeginPush` (snapshot of the connections), `ReadAccounts`, `ReadSessions`, one `Deliver` per connection |
| `_push_delta`, `_safe_push` | `PushDelta`, `PushNoChange`, `PushToLost`, `PushToClosed` |
| `websocket_accounts` | `Authenticate`, `BuildRead` (the reads of `build_full_state`), `Register`, `HandlerSeesDrop`, `Unregister` |
| the client | `Receive`: replaces its copy, or changes what the delta names |

`owed` and `shown` are history: the newest version notified since a connection
registered and whether its copy has reached it.

Not modelled: more than one guild (guilds share nothing here but the loop),
which accounts a client may see (`_push_delta` filters per client; the versions
stand for the filtered tree of each client), ping frames.

### What the runs show

| Run | Bounds | Shows |
|---|---|---|
| `sync_safety` | 2 clients, 2 pushes in flight, 2 commits; heartbeats, location updates, admin commands | the inductive invariant; each delta meets the copy it was computed from; no notification is lost; the connection list is right; the refinement of `StateFeed` |
| `sync_liveness` | 1 client, 2 pushes, 2 commits; heartbeats, logins, admin commands | a notified change is shown at some moment |

Two clients show that a push serves each of them separately; two pushes are
the smallest number that can overlap, and more add no new pair.  Two commits
give a state before, between and after.  `MaxQueued` bounds the immediate
notifications waiting on the loop; each is consumed by its own push, so one at a
time meets every race with the handle.  `DebounceTicks` is 0 where time plays
no part (a handle may then fire at once or any time later) and 1 in
`sync_liveness`, where a heartbeat may come before it.

"Covered" does not mean "ends up": `NotifiedChangeCovered` says something is on
its way that will show the client the change, at some moment.  Four things the code
does not promise, and no property states:

* of two pushes that overlap the one that read first may be delivered last: the
  client is shown the older accounts again, until the next push;
* heartbeats that keep coming less than 3 seconds apart restart the debounce
  each time and postpone the push for ever (`MaxVersion` makes them finite here);
* a change between the reads of `build_full_state` and the registration of a
  client reaches it with the next push only;
* an admin command whose reply fails is not notified (`AdminReplyFails`).

### Fairness

The event loop runs what is ready (weak fairness for the continuation of a
handler and for reads), and collects every due timer and queued callback in
each round, so a callback that is ready again and again while other handlers run
is not postponed for ever (strong fairness for `Fire`, `RunImmediate`,
`StartTask`, `Deliver`).  The network delivers while the connection holds.
Nobody has to send a heartbeat, log in, connect or drop, and a debounce handle
that is replaced is a new one: fairness promises nothing to the old.

### What is proved

`AccountSyncProofs` proves for any sets of connections and pushes and any
bounds, from `SyncAssumption` alone (bounds are natural numbers, `MaxQueued` is
positive):

* `TypeCorrect`, `ForgottenCorrect`: inductive as they stand.
* `InStepCorrect`: the messages on the wire lead from the client's copy to
  `last_sent_state`.  A push appends one more message that starts at
  `last_sent_state` (`AppendInStep`); applying the first leaves a shorter
  chain (`TailInStep`).
* `CoveredCorrect`.  On its own it is not inductive: a push that serves a client and
  finds nothing to send must be known to have nothing to add.  `SyncInv` therefore
  adds that what is owed has been committed (`OnlyCommitted`, so a read always
  reaches it), that a client that holds what it is owed has been shown it
  (`ShownWhenHeld`), that nothing is owed before registration
  (`NothingOwedYet`) and the chain on the wire.
* `FeedImplemented`: `Spec => RefinesFeed`.  A commit maps to `Commit`,
  `Register` to `Open`, `PushDelta` to `Publish`, `Receive` to `Apply`, `PeerDrop`
  to `Close`, everything else to a stutter.

Liveness stays with TLC.

## SsoAccess

### What is modelled

Access keys and revocations of one guild: two tables, the cache each has in a
module global, the API thread that fills and reads the caches, the Discord thread
that commits and drops them, and `disconnect_user`, which hands a closure to the
API loop.  A user's key is a number (how many he has been given), a revocation
the day on which it ends.  Functions that run without an `await` are split where
the *other thread* can see the difference: a load is a test, a read and an
assignment, a command is a commit and a drop.

| Code | Model |
|---|---|
| `get_access_key_by_key`, `_load_access_key_cache` | `PresentKey` (tests the global), `ReadKeys`, `AssignKeys`, `UseKeys` (reads the global again) |
| `is_user_access_revoked`, `_load_revocation_cache` | `CheckRevocation`, `ReadRevocations`, `AssignRevocations`, `UseRevocations` |
| `get_access_key_by_user`, `reset_access_key` | `GiveKey`, `InvalidateKeys` |
| `revoke_user_access`, `remove_access_revocation` | `Revoke`, `RemoveRevocation`, `InvalidateRevocations` |
| `revocation_add` of `cmd_sso.py` | `Revoke`, `InvalidateRevocations`, then `Disconnect` or `ReplyRefused` |
| `websocket_accounts` | stages "new", "keyed", "checked", "open", "closing"; `DiscordNotReady`, `Judge`, `Register`, `HandlerEnds` |
| `_disconnect_user_async` | `StartKick` (the snapshot), one `Kick` per connection |

"refused" ends an authentication that was answered with an error, "failed" one
that raised.  `keyRaced` and `revRaced` are history: the last drop of the cache
fell between the two halves of a load.

Not modelled: the rate limit, client version and settings (a refusal by
`Judge`), and the second user of another guild.

### What the runs show

| Run | Bounds | Shows |
|---|---|---|
| `access` | 1 user, 2 connections, 2 keys, 2 days, replies that fail | the inductive invariant; outside the two windows keys and revocations are honoured; a disconnection unregisters every connection it was scheduled for |

The API thread is in one lookup at a time and the Discord thread in one command,
so the races are between one reader and one writer; a second connection adds a
lookup that finds the cache full, and a disconnection that meets a closed socket.
Two keys give an old and a new one, two days a revocation that has ended.

What the invariant leaves open is what the code does not promise: after a drop
that met a load (`keyRaced`, `revRaced`) the cache is not its table until the
next command; a lookup that finds the global `None` at its second reading raises
(stage "failed"); a connection that has passed its revocation check and awaits
its account tree is not registered yet, and a disconnection then misses it.

Fairness: the API thread finishes the lookup it is in (weak), and its loop comes
back to each ready task although others run in between (strong, for `StartKick`
and `Kick`).  Nobody has to connect, leave or give a command.

### What is proved

`SsoAccessProofs`, for any users, connections, owners and bounds
(`AccessAssumption`).  That a cache is its table outside the windows is not
inductive: an assignment puts there what was read earlier.  `LoadsCurrent` says
the same of the rows read, and that a cache stays empty from the test of a load to
its assignment (only the API thread fills it), so a commit that comes between
is followed by a drop that either still precedes the read or is recorded by the
history variable.  `CachesCorrect` is that invariant; `KeysCorrect` and
`RevocationsCorrect` follow from it step by step.

## DsCamp

### What is modelled

The rows of one guild in `points_audit`, as a sequence whose index is the row's id
(POP rows only by the time of the last one).  Commands run on the Discord loop and
await nothing before their commit, so `/ds start` and `/ds stop` are single steps.
`/ds tod` awaits nothing either, but commits row by row; nothing runs between its
steps except the end of the process (`Crash`).

| Code | Model |
|---|---|
| `get_last_event` | `Latest`: the latest row by time; SQL does not order ties |
| `start` | `Start`: a new IN row, or a new time for the one that is active |
| `stop` | `Stop` closes the active row, `RestateStop` moves the last OUT row |
| `close_event`, `start_event` | `CloseEvent`, `StartEvent` |
| `get_event_pairs_since_last_pop` | `Windows` |
| `calculate_points_for_session` | `Credited` (minutes of one window), `Earns` (who gets a minute, and so appears in the result) |
| `tod` | `TodBegin`, `TodClose`, `TodCompute`, `TodCredit`, `TodBonus`, `TodPop` |

Time is an integer; a tick is shorter than a minute (`MinuteTicks`), since the
code rounds the length of the session up and the ends of a window to the nearest
minute, half a minute to the even one as Python's `round` does (`Round`).  Four ticks
to the minute have such halves.
Two rows of a camper never have the same time (`Fresh`): the code's times are
microseconds.  Refused commands change nothing and are no steps.

Not modelled: a second guild (`get_last_pop_time` does not filter by guild), the
value of a minute, `urn` and `adjust` (a check and a store without an await).

### What the runs show

| Run | Bounds | Shows |
|---|---|---|
| `camp_plain` | 2 campers, 3 windows, clock 14, 4 ticks to the minute, no backdates | one open window per camper; one payment and one bonus per session; credit falls short by half a minute at most and exceeds by two minutes at most |
| `camp_backdated` | 2 campers, 3 windows, clock 9, backdates of 1 and 3, crashes | the inductive invariant; a session does not end before everybody is paid |

Three windows let a window of one session, one of the next and one of another
camper meet; a backdate of 3 reaches behind an earlier row of the same session
and one of 1 does not.  `TodGap` stands for the five minutes in which a second
tod is refused, and `TodBlind` for the three seconds in which it is not, because the
time since the last one, rounded to a tenth of a minute, is 0 and taken for none
(`TodAllowed`, in `DsSession`, which `DsSpawn` shares).  Their lengths matter only
against the ticks of a run, where one tick is less and two are not.

A camper who backdates may have two open windows: a stop that reaches behind the
start of the window it closes leaves a later IN row active. `ClockedInOnce` is
therefore checked without backdates. Three more oddities are in the model and
contradict no property: a minute in which a member stops and starts again is
credited for both windows; a window of one minute from half a minute to one and a
half is credited three, because the halves round to 0 and 2 and both ends count (both
bounds of `CreditIsTime` are reached); and a backdated stop may put the OUT row before its
IN row (only `RestateStop` compares them).

### What is proved

`DsProofs` holds the proofs about both modules of `/ds`: `CampCorrect`, for any
campers, backdates and bounds, crashes included. `PairsMatch` and
`PopClosesCamp` need `TodKnowsTheLog`: while tod closes rows, the rows it has
not closed are those that are active, so the POP that follows leaves none.
`ClosePairs`, `StartPairs` and `MovePairs` say what the three ways of changing
the log do to the pairing; the steps cite them.

`EverybodyPaidCorrect` needs no more than that, backdates and crashes included.
`CreditLeft`: while tod credits, whoever has a minute in the session is paid or due, and
when it grants bonuses he is paid; only `TodPop` ends a session, from there.
`PairIsWindow` turns a row and the row that closes it into a window tod has seen, for
which it needs `PairsMatch`: a row that is closed is no OUT row.

Without backdates (`Backdates = {}`) more is proved, from `PlainInv`: every row is
earlier than now (`RowsArePast`, and `TodIsNow` for the clock inside tod), the
active row of a camper is the latest of his rows (`ActiveIsLatest`), and an OUT row of
the session follows an IN row of the session (`OutFollowsIn`).

- `ClockedInCorrect`: `start` and `stop` look at the latest row, so they see
  the active one if there is one; crashes included.
- `PaidCorrect`, where the process does not end inside tod: what was paid is no
  longer due, and what was granted no longer in `quake` (`PaidIsNotDue`); the rows of
  `quake` are of different campers (`QuakeOnce`), which is `ClockedInOnce` at the
  time of the tod.  A crash between a credit and the POP row does pay twice.
- `CreditCorrect`, for any `MinuteTicks`: the windows lie in the session
  (`DueInSession`), each rounding is off by half a minute at most, halves included
  (`RoundIsNear`), the length of the session is not rounded below itself
  (`CeilIsEnough`), and the minutes of a window are an interval
  (`CreditedCount`).

## DsSpawn

The next spawn is kept in three places: the last POP row, `SPAWN_OVERRIDE`, and
the "DS Spawn" timer from which `restore_spawn_overrides` derives the override
at each `on_ready`. A pop stands for the spawn a day later; times within 300
seconds of each other are taken for the same (`Near`). Names that `DsCamp` has
too are prefixed here, because `DsProofs` extends both. `SpawnTod` and
`SetSpawn` take their effect in one step and await the reply; `StopTimer` and
`StartTimer` are what they run between two later awaits. A process that starts
has the rows but no tasks: `load_timers` reads the rows (`LoadBegins`) and awaits
a channel for each before it gives the row its task (`LoadTimer`), or never does
if a channel cannot be fetched (`LoadFails`). Commands run meanwhile. One that
stops a timer without a task, because it is stopped already or not loaded yet,
deletes the row and ends there (`StopFails`): the message of `_stop` for it takes
arguments a channel refuses. A row deleted while `load_timers` holds it is stored
again.

The new timer is computed from the clock when the awaits are over, as in the code.
`Delay` is what the command asks of `_start` and `FirstRun` what `_start` makes of it:
a negative delay is brought below one period, which is a day and a minute.  If the
time an admin chose passes while `set_spawn` awaits its reply or the stops, the delay is
a whole period or more and the timer is for about a day later; a tod that is kept
waiting has a timer that is late by as much, and beyond 300 seconds a restart takes it
for an override.  Both are what the code does.  `InTime` says when neither has happened,
and the history variable `known` demands it; of a late command only `NeverEarly` is
stated.

| Run | Bounds | Shows |
|---|---|---|
| `spawn_restart` | clock 6, 3 timers, 2 chosen spawns, a day of 4 ticks, a period of 5, 300 seconds of 2 ticks, all faults | the inductive invariant |

Two commands of different kinds are the fewest that overlap; three timers are one
for each and one from before. The chosen spawns are one that is within 300 seconds
of a pop the run can have and one that is not (of the first, at 0).  A day of 4 ticks
passes within the run, so that a chosen spawn may go by while its command waits.

`DsProofs` proves `SpawnCorrect`, for any chosen times and lengths of the day and of the
period: after a command that ran to its end alone and in time (`known`), the timer says
what the command said (that of a tod to within 300 seconds), no other override is in
memory, and what the process takes for the next spawn is within 300 seconds of
what the command said, through any number of crashes and reconnections. While it
runs, `CommandsKnow` says what is left to be done, and `DownForgets` that a new
process has no override before `on_ready` or a command. `NeverEarly` holds of every
timer and every row a start-up has read: it is not for a time before the one its
command gave, since the modulo only ever adds periods to what has passed (`SmallRest`).
Three cases are not covered by `known`, and there timer and memory may end apart: a
late command, as above; of two commands at once the last to
restart the timer need not be the last to set the override, and an `on_ready`
between the POP row of tod and its restart of the timer takes the previous spawn
for an override.

## Subscriptions

### What is modelled

One guild and one raid target; a subscription is a user's row.  Windows are
numbered as the guild's server publishes them, and `near` holds the
subscriptions whose lead time has begun.  A round of the notifier has the atomic
steps its awaits leave it:

| Code | Model |
|---|---|
| `announce_subscriptions`, up to the fetch | `Wake`: expired rows go, the others are read |
| from the fetch to `asyncio.gather` | `Fetched`: rows that are due are marked and their messages made; a user without the role loses his row, one the client does not know is left |
| `asyncio.gather(*messages)` | `Deliver`, `SendFails` in any order; the round ends with the first error (`SendFails`) or the last message (`EndRound`) |
| `ensure_loaded` when the server fails | `FetchFails`: no targets, nothing to do |
| `announce_subscriptions_task`, `on_ready` | one loop per `OnReady`, none is ever stopped |
| `subscribe`, `unsubscribe`, the buttons | `Subscribe`, `Unsubscribe`, `Refresh` |
| `mark_subscription_sent` | `Marked`: reads the row again, and does nothing if it is gone |

`told`, `twice` and `got` are history: for which windows a message was made,
who got two for one window, and what arrived.

### What the runs show

| Run | Bounds | Shows |
|---|---|---|
| `subs_once` | 2 subscriptions, 1 loop, 2 windows, all faults | the inductive invariant; one message per window; no round brings a deleted row back |
| `subs_due` | 1 subscription, 2 loops, 2 windows, no faults, subscribing again allowed | what is marked is sent; whoever is due is told before the window ends |

Two subscriptions are the fewest of which one send can fail while the other goes
on; two windows are one announced and one not.  Faults are off in `subs_due`
because the code sends at most once: a row is marked before its message is
sent, and a message lost to an error or a crash is not sent again.

Fairness: the bot connects, a loop goes on from round to round (its task catches
every exception), and Discord accepts what is sent.

### What is proved

`SubscriptionsProofs`, for any subscriptions and windows.  `SubInvCorrect` and
`OnceCorrect`, which follows from it, need one loop and no subscribing over a row
(`OneLoop`), and so does the code: a second `on_ready` starts a second loop, and two loops that read a row before either
has marked it both announce it; `subscribe` stores `last_window_start = 0` over
what was announced.  The invariant adds that an announced window is marked
(`ToldIsMarked`) and that the rows of a round that awaits its fetch know it
(`ReadsAreMarked`); the latter holds even for a row that was deleted
and made again during the fetch, whose subscriber is then told once, by this
round or by the next.  `RevivalExcluded` holds for any number of loops, and so does
`MarkedCorrect`, where nothing fails (`~Faults`): a round that marks a row makes its
message in the same step, so that only a failed send or a crash loses it.

## Timers

### What is modelled

The timers of one user, since the quota counts a user's rows; all have the
same period.  A row is its `next_run`, and a timer may have two tasks: the one
`_start` made and the one `load_timers` made.  `DsSpawn` keeps of all this a row
and whether it has a task; here it is the subject.

| Code | Model |
|---|---|
| `_start` | `Start`: one step up to `create_task`, with a new id; over the quota `store` raises and nothing happened |
| `_stop` | `Stop`: deletes the row, cancels the task `TIMERS` holds |
| `repeat_every_x_seconds` | `FireRepeating`, `FireOneShot` (from the end of the sleep to the send), `FireFails` (the row is gone, or its store is over the quota), then `Sleep`, `End` or `SendFails` |
| `MyBase.store` | `OverQuota`, for updates as for new rows |
| `load_timers` | `Load` reads the rows; after each await of a channel `LoadMissed`, `LoadTimer` or `LoadFails`; `LoadEnds` |
| the process | `Crash`, `Boot`; `load_timers` does its work in the first `on_ready` only |

The code fetches channels in the order of the rows; the model takes the rows in
any order.  `early`, `stopped`, `raced` and `fired` are history: what was started
before `load_timers`, what was stopped, what was stopped while `load_timers` held
its row, and what fired.  Not modelled: the arguments of `/timer start` (only
the time that comes of them), `list` and `show`, which read.

### What the run shows

| Run | Bounds | Shows |
|---|---|---|
| `timers_inv` | 1 repeating and 1 one-shot timer, period 2, clock 4, quota 1, all faults | the inductive invariant; each run is whole periods after the first; a one-shot timer fires once |

Two timers are over a quota of one, as six are over the five of the code, and one is
not.  A clock of two periods lets a process that was down miss a run, or two.

What the code does not promise is in the invariant as an exception.  A timer
stopped while `load_timers` awaits its channel is stored again and runs (`raced`).
A timer started before `load_timers` has read the rows gets a second task, and
`TIMERS` forgets the first (`early`).  A send that raises, and a store over the
quota, end a repeating task whose row stays (`SendFails`, `FireFails`): the timer is
listed and can be stopped, and runs again with the next process.  No liveness is
therefore checked.

### What is proved

`TimersProofs`, for any timers, period, quota and clock (`TimerAssumption`):

* `InvCorrect` and `StopIsFinalCorrect`.  That a stopped timer is gone for good
  needs more than itself: a task writes its row again at each run, so `Held` says
  that the task `_stop` cancels is the only one, except for an `early` timer, whose
  other task finds no row; and `ListedWhenLoading` that only a `load_timers` under
  way can hold a row.
* `OneShotOnceCorrect`.  `OneShotsKeepTime`: a timer that fired has no row, and
  what `load_timers` still holds of it is past, so that it is not stored again.
* `OnGridCorrect`.  Whole periods are kept by `load_timers` because it adds them
  (`CaughtUpInStep`) and by a task because it counts from the time it was due,
  not from the clock (`InStepPlus`).

## RaidSession and RaidEvent

### What is modelled

`RaidSession` is what the handlers of `cmd_event.py` and `cmd_rte.py` share: the
raid database of a guild (`db`), what the holder of the file's write lock sees
(`work`) and who holds it (`lock`).  `get_raid_session` gives a handler one session
for all it does, the awaits included.  Its first flush takes the lock; the lock
goes with the commit or when the session closes.  The Discord loop is the only
writer, so a second writer would wait for a handler that cannot run while it
waits: it always ends with SQLite's "database is locked", and that is how
the model treats it.

`RaidEvent` is one event channel.

| Code | Model |
|---|---|
| `_handle_add_player`, `_handle_log_parse`, `on_auto_att_button` | `AddPlayer`, `LogParse`, `AutoAttButton`; a line is `LineKnown`, or `LineAsks` and then `LookupFinds` or `LookupFails`; `LinesEnd` |
| `_handle_remove_player`, `$clear`, `$kill`, `$nokill`, `$dkp` | `Remove`, `ClearAttendees`, `ClearLoot`, `Kill`, `NoKill`, `SetPrice` |
| `$loot`, `$unloot`, `$fte`, `$unfte` | `Award`, `Unloot`, `Fte`, `Unfte` |
| `/event target`, `$target` | `Retarget`, then `Retargeted` or `RetargetFails` |
| `_cmd_submit` | `Submit`, `EventMade`, `MembersFound`, `RaidMade`, `Adjust`, `AdjustsDone`, `Bill`, `SubmitEnds`; `CallFails`, `RaidLost`, `AdjustLost`, `BillLost` when a call fails, whether or not the server did what it was asked |
| `_cmd_submit_reset` | `Reset` |
| the EQdkp server | `raids`: each raid with its members, what was paid and charged in it, and what became of it |

A name may have two rows in the table of characters, since nothing keeps it
unique and a pasted log looks it up before it stores it.  The look-ups of the members of one upload
are one step: the lock is held, and nothing they read can change.  Messages of
errors that a handler sends while it holds the lock are left out, as is the
text of the channel.

### What the run shows

| Run | Bounds | Shows |
|---|---|---|
| `raid_event` | 2 handlers, 2 names of one user, 2 rows, 1 item, 2 raids, 1 price, messages of 1 line, 3 commands | the lock is held by whoever writes and is given back; no character row attends twice; nobody is paid, and nothing charged, twice; what is uploaded is what is committed; one raid stands for the event |

Both names belong to one user because credit can only double within a user.
Three commands are what the hazards need: something that was there, an upload,
and something that falls into it; the start already has attendees, trackers and
an awarded item in every combination.

What the code does not promise, and the properties leave open:

* An upload that has to create the EQdkp event awaits that call before it has the
  lock (`window`).  A price, a mark or a second upload gets in between; the raid
  then is worth what the event said before, and replaces the other one.
* A raid whose upload failed stays on the server (`failed`).  The next upload makes
  another, with the same items and adjustments.
* `$submit reset` forgets the raid but not that its items were charged: they are
  not in the next one.
* A button applies its kill state if it differs from what the event row said when
  the button was pressed, not from what it says at the end.

### What is proved

`RaidEventProofs`, for any handlers, names, users, rows, items, raids, prices and
bounds, about `Spec` (the run only adds where it starts and what it leaves
out): `RaidCorrect`, `RosterCorrect` and `UploadedCorrect`, from one
inductive invariant, `IInv`.

* `RaidHeld`, `HandlerKnows`: from the assignment of the EQdkp event's id until it
  ends, an upload holds the write lock, so there is one at a time (`OnlyUpload`), and
  the raid it has opened is the only one that is open.
* `Pending`: what the holder sees names the committed raid, unless the holder is an
  upload, and takes back no billed item and no member; `NothingChanged`: what an
  upload that did not wait for its event took from the event row stays there, since
  nobody else writes while it waits for a call.
* `RosterKept` says of an upload between two calls what `RosterUploaded` says of its
  end: the members it has put in the raid (`Roster`), whom it has paid (`PaidFor`)
  and which trackings it has left (`TodoLeft`).  A user is paid once because a
  tracking whose member is known and whose user has another row is passed
  over (`OnlyRow`): the row that was paid is such another row for all that follow.
* `Billed`: what was charged in a raid that did not fail is marked in the database
  (in what the holder sees while the raid is open), so that no later upload finds
  it among what is left to charge.

Only `SubmitEnds` commits a raid (`CommitIs`).  `UploadedOnce` then follows because
an upload that did not wait for its event (`window`) has held the lock since it read
price and mark, and was refused if the event row already named a raid.

## RaidTracking

### What is modelled

Trackings, and the events that close them, on the same sessions.

| Code | Model |
|---|---|
| `start` of `cmd_rte.py` | `Start` (to the flush), `Announced` or `AnnounceFails` |
| `stop`, `on_stop_rte_button`, `$clear rte`, `-<id>` in the channel | `Stop`, `StopButton`, `ClearRte`, `Delete` |
| `create`, `_handle_batphone`, `_perform_create_event` | `Create`, `Batphone`; for each part of the target `ChannelMade` and `Posted`, or `NoChannel`, or `CreateFails` |
| `rte_tracking_creator` | `Credited`, in `ChannelMade` and `Retargeted` |
| `/event target` | `Retarget`, `Retargeted` |
| `submit` of `cmd_rte.py` | `Submit` (what is due is read), for each character and rate `MemberFound`, `MemberKept` or `MemberNone`, then `Adjusted`; `SubmitEnds`; `AdjustLost` and `SubmitFails` |
| attendance otherwise | `Attend`, `Leave` |

A submission keeps what it has paid in memory (`dirty`) until its next flush.  A
row it paid may be deleted in the meantime, which fails that flush (`CanMark`), and
SQLite gives the largest id that was deleted to the next tracking.  `adjusted`,
`excused` and the `cmd` and `rivals` of an event are history.

### What the run shows

| Run | Bounds | Shows |
|---|---|---|
| `raid_tracking` | 2 handlers, 2 characters, 2 targets and a quake, 2 trackings, 2 events, clock 1, lockout of less than a tick, 3 commands | one open tracking each; one credit in each event; an event credits every tracking it closes; paid once; the lockout |

Target `t1` has two parts, so one command makes both events; `t2` is closed by a
quake and pulls in whoever tracks something else, and so does the second part of `t1`
(`ChildPulls`).  A lockout of 0 whole ticks
still locks out the rest of the tick, which is what a clock of two values can tell.

The properties except what the code lets happen: two events for one target
whose commands overlapped (`rivals`; the lockout is checked before the channel is
awaited); trackings of a submission that failed, met another one or was
interrupted (`excused`; the next one pays them again).  A quake closes trackings
and credits none of them.

### What is proved

`RaidTrackingProofs`, for any handlers, characters, targets, trackings, events and
bounds, from `TrackingConstants` and `NoFlow`.  One inductive invariant (`IInv`:
`TrackInv` and `AdjustedOnce`) carries all four theorems.  Its parts say what a
handler knows while it waits, and each is preserved because of the write lock:

* Rows (`InvCorrect`).  What each change does to the tables is a lemma about one
  database (`EndedIs`, `StartedIs`, `CreditedIs` and others): it leaves a
  character one open tracking and one credit in an event.  The rest of the proof
  uses the changes through these lemmas only.
* Events (`CreditCorrect`).  What is flushed and not committed must be what
  the holder of the lock has flushed (`EventsPending`), and what it closed must stay
  closed until its message is sent (`PostKnows`): nobody else writes meanwhile.
  Only `Posted` then makes an event visible, with its credits.
* The lockout (`LockoutCorrect`).  An event that is there says nothing of one that a
  handler has yet to make.  `Claims` puts both in one set, and `ClaimsApart` compares
  any two of them; a command that starts while another is creating has it among
  its rivals, and one that starts later meets its event in the table.
* Payments (`AdjustedCorrect`).  `SubmissionKnows`: what a submission has paid is
  in its memory, or written under its lock.  `PaymentsPending`: nobody else changes what
  is paid, and a tracking that was just started was neither read nor paid.
  `ReadOnce`: a tracking that is not excused is in one submission, which knows
  whether it was paid.  When the submission ends without a commit what it paid
  becomes excused, and when it commits all of it is recorded.

## SsoLogin

### What is modelled

The shared accounts of one guild and the API's handlers about them.  A handler
of the API does not await between its transactions, so one runs at a time; each of
its transactions is a step, and an administrator's command (one transaction on
the Discord thread) or a tick may fall in between.

| Code | Model |
|---|---|
| `find_account_by_username` | `Find` (user name, character, alias), `FindTag`, `FindDynamic`, `Fetch`; in one look: `Resolve` |
| `_login_sort_key` | `First`, `Tagged`, `Matched` |
| `authenticate`, `_ws_handle_login_auth`, `_perform_login_auth` | `Authenticate`, `LoginAuth`; then `Allow` and `Load`, the two queries of `user_has_access_to_accounts`, and `Grant` or `Refuse`; `Answer` |
| `is_ip_rate_limited`, `count_failed_attempts` | `Limited`, `Fails`, `BadKey`; `Tick` lets failures leave the window |
| `_ws_handle_heartbeat`, `_ws_handle_update_location` | `Hear`, `Check` and `Present` (the same two queries), `Touch`, `Record`, `Expire`; a location goes on with `Update` and `Mark` |
| commands of `cmd_sso.py` on accounts, groups, tags, aliases, characters | one action each, from `CreateAccount` to `ClearFailures` |

Time is the number of ticks since something happened.  A tick is a bucket of
`_login_sort_key`, and a handler meets one at most.  Ended sessions and the audit
log (except for failures of the one address) are left out.  `raced`, `given` and
`renewed` are history: what fell into the handler, when credentials of an account were
last given, and which rowids SQLite gave to a new account while a session of the old
one went on.  Access keys and revocations are in `SsoAccess`; roles come from Discord
and do not change.

### What the run shows

| Run | Bounds | Shows |
|---|---|---|
| `sso_login` | 2 users, 2 accounts, 2 characters, 1 tag that is dynamic too, an account's name that may also be an alias or a tag, `InUse` 1, `Cold` 2, 1 failure, 1 command | nothing names an account that is gone; a user is shown on one account; who is shown counts as in use; a tag gives no account away twice; an undisturbed login answers what the tables say; the limit of failures |

Two users and two characters take over from each other and disagree on an account.
The tables start as after a deletion whose sessions go on, and as after a
character moved while it was played (`Starts`), so the one command that
falls into a handler comes on top of what earlier ones did.  Both users have the same
roles and are symmetric.

What the code does not promise:

* A handler that a command falls into answers with what it read: an old password, or
  an account that has since left its group (`raced`).
* Only a login through `/auth` and a new WebSocket have a limit; one that is open
  counts its failures and goes on.
* Sessions name accounts by rowid and outlive them.  A new account with that rowid
  is shown as played by who played the old one (`renewed`).

### What is proved

`SsoLoginProofs`, for any accounts, names, users, reports and bounds, from
`LoginAssumption`: numbers are numbers, `NoRow` is no row, and every set of tables
in `Start` is `Sound`.

* `InvCorrect`.  `HandlerKnows` says what `found`, `who` and `report` are at each
  stage, without which the next transaction cannot be typed.
* `OneAccountCorrect` and `PlayedCorrect`.  `Record` may leave a user on two
  accounts until `Expire`, the next transaction; so the exception names that stage.
  That a session is not older than the last use of its account needs
  `JustTouched`: `Record` makes a session young after `Touch` made the account so,
  with a tick in between at most.
* `FailuresCorrect`.  `RoomForFailure`: a request that passed the limit still has
  room for its failure when it is denied, for handlers run one at a time.
* `PoolCorrect`.  The account was idle some transactions before it is given.
  `PooledIsIdle` carries this to `Grant`: commands do not play, and other handlers
  do not run.  `GivenIsUsed` and `PlayedIsInUse` turn "idle" into "neither given nor
  played".
* `AnswersCorrect`.  `LookedUp` says what the queries so far have found out: while
  nothing falls in, a name that reaches the third has no meaning for the first two,
  and so what the rest finds is what one look would.

## What is only model-checked

Liveness (`NotifiedChangeShown`, `KickedAreDropped`, `DueAreTold`), which is out of
the prover's reach.

## Not modelled

Reading commands, text parsing and embeds (`cmd_loot.py`, `cmd_lookup.py`,
`cmd_history.py`, `cmd_random.py`, `dashboard.py`): they keep no state.  Alerts on a
batphone: one HTTP call for each that matches.  Database engines, migrations, the
configuration and the start of the process: each model takes a transaction as
one step, and only one thread writes each raid database.  More than one guild, except
where a section says so: guilds share the loop and no rows.  The point value of a
camp minute and clock skew of reports are arithmetic that no other state depends on.
