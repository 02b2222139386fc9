---------------------------- MODULE AccountSync ----------------------------
(***************************************************************************)
(* Real-time account updates over the WebSocket: roboToald/api/websocket.py *)
(* (ConnectionManager) together with the handlers of api/server.py that     *)
(* change account data and ask it to notify a guild.                        *)
(*                                                                         *)
(* Two threads meet here.  The API event loop runs the WebSocket handlers, *)
(* the queued notifications, the debounce timer and the pushes; it switches *)
(* between them only at an await.  The Discord thread runs the admin        *)
(* commands.  Database reads of a push run on executor threads, so they can *)
(* fall anywhere, between two commits of a running handler too.             *)
(*                                                                         *)
(* The data of the (one) guild are two tables, each abstracted to the       *)
(* number of commits it has seen: "accounts" (accounts, groups, tags,       *)
(* aliases, characters) and "sessions" (heartbeat sessions).  An account    *)
(* tree is the pair of versions it was built from.                          *)
(***************************************************************************)
EXTENDS Integers, Sequences

CONSTANTS
  Conn,           \* WebSocket connections; each one is used once
  Push,           \* runs of _notify_guild_async that may be in flight at once
  Sources,        \* which kinds of change occur (a subset of ChangeSource)
  MaxVersion,     \* bound: commits of the accounts table
  MaxQueued,      \* bound: immediate notifications queued on the loop
  DebounceTicks   \* WS_NOTIFY_DEBOUNCE_SEC, in ticks

ChangeSource == {"heartbeat", "location", "login", "admin"}

ASSUME SyncAssumption ==
  /\ Sources \subseteq ChangeSource
  /\ MaxVersion \in Nat
  /\ MaxQueued \in Nat \ {0}
  /\ DebounceTicks \in Nat

VARIABLES
  db,      \* db[t]: committed version of table t
  busy,    \* where the handler that occupies the event loop is, or "free"
  admin,   \* admin commands that have committed and not yet notified
  inbox,   \* immediate notifications scheduled on the loop, not yet run
  timer,   \* _pending_guild_handles: ticks left, or NoTimer
  pstage,  \* pstage[p]: progress of push p
  ptodo,   \* ptodo[p]: connections push p has still to serve
  pread,   \* pread[p]: the versions push p has read
  stage,   \* stage[c]: life cycle of connection c
  conns,   \* ConnectionManager._connections
  built,   \* built[c]: versions build_full_state has read for c
  bdone,   \* bdone[c]: which of its two reads have returned
  sent,    \* sent[c]: ClientConnection.last_sent_state
  wire,    \* wire[c]: messages sent to c and not yet applied by the client
  view,    \* view[c]: the client's copy of the account tree
  owed,    \* history: newest version notified since c registered
  shown    \* history: c's copy has reached owed[c] at some moment

dataVars == <<db, busy, admin, inbox, timer>>
pushVars == <<pstage, ptodo, pread>>
buildVars == <<built, bdone>>
connVars == <<stage, conns, buildVars, sent, wire, view>>
debtVars == <<owed, shown>>
vars == <<dataVars, pushVars, connVars, debtVars>>

-----------------------------------------------------------------------------
Table == {"accounts", "sessions"}
Tree == [Table -> Nat]
NoTimer == -1

Delta == [kind : {"full", "delta"}, base : Tree, tree : Tree]

AtLeast(t, u) == \A f \in Table : t[f] >= u[f]

Zero == [t \in Table |-> 0]

\* One more commit of table t; saturates at the bound.
Bump(t) == [db EXCEPT ![t] = IF @ < MaxVersion THEN @ + 1 ELSE @]

(***************************************************************************)
(* What a client does with a message: replace its copy, or change in it    *)
(* only what differs between the two trees the server compared.            *)
(***************************************************************************)
Patch(v, m) ==
  IF m.kind = "full" THEN m.tree
  ELSE [t \in Table |-> IF m.base[t] # m.tree[t] THEN m.tree[t] ELSE v[t]]

LoopFree == busy = "free"

TypeOK ==
  /\ db \in Tree
  /\ busy \in {"free", "hbSession", "locSession", "locCharacter", "notify"}
  /\ admin \in Nat
  /\ inbox \in Nat
  /\ timer \in {NoTimer} \cup Nat
  /\ pstage \in [Push -> {"idle", "created", "accounts", "sessions", "deliver"}]
  /\ ptodo \in [Push -> SUBSET Conn]
  /\ pread \in [Push -> Tree]
  /\ stage \in [Conn -> {"new", "building", "open", "lost", "down", "gone"}]
  /\ conns \in SUBSET Conn
  /\ built \in [Conn -> Tree]
  /\ bdone \in [Conn -> SUBSET Table]
  /\ sent \in [Conn -> Tree]
  /\ wire \in [Conn -> Seq(Delta)]
  /\ view \in [Conn -> Tree]
  /\ owed \in [Conn -> Tree]
  /\ shown \in [Conn -> BOOLEAN]

Init ==
  /\ db = Zero
  /\ busy = "free"
  /\ admin = 0
  /\ inbox = 0
  /\ timer = NoTimer
  /\ pstage = [p \in Push |-> "idle"]
  /\ ptodo = [p \in Push |-> {}]
  /\ pread = [p \in Push |-> Zero]
  /\ stage = [c \in Conn |-> "new"]
  /\ conns = {}
  /\ built = [c \in Conn |-> Zero]
  /\ bdone = [c \in Conn |-> {}]
  /\ sent = [c \in Conn |-> Zero]
  /\ wire = [c \in Conn |-> <<>>]
  /\ view = [c \in Conn |-> Zero]
  /\ owed = [c \in Conn |-> Zero]
  /\ shown = [c \in Conn |-> TRUE]

(***************************************************************************)
(* A call of notify_guild promises every registered client the data as it  *)
(* stands (history variables only).                                        *)
(***************************************************************************)
Promise(v) ==
  /\ owed' = [c \in Conn |-> IF c \in conns THEN v ELSE owed[c]]
  /\ shown' = [c \in Conn |-> IF c \in conns THEN AtLeast(view[c], v)
                                             ELSE shown[c]]

-----------------------------------------------------------------------------
(* Handlers that change data.  A heartbeat commits the login time, then     *)
(* the session rows, then schedules a debounced push; nothing else runs on  *)
(* the loop meanwhile.                                                      *)

HeartbeatLogin ==
  /\ "heartbeat" \in Sources
  /\ LoopFree
  /\ \E c \in Conn : stage[c] = "open"
  /\ db["accounts"] < MaxVersion
  /\ db' = Bump("accounts")
  /\ busy' = "hbSession"
  /\ UNCHANGED <<admin, inbox, timer, pushVars, connVars, debtVars>>

LocationLogin ==
  /\ "location" \in Sources
  /\ LoopFree
  /\ \E c \in Conn : stage[c] = "open"
  /\ db["accounts"] + 1 < MaxVersion
  /\ db' = Bump("accounts")
  /\ busy' = "locSession"
  /\ UNCHANGED <<admin, inbox, timer, pushVars, connVars, debtVars>>

\* record_heartbeat_session and expire_other_sessions.
RecordSession ==
  /\ busy \in {"hbSession", "locSession"}
  /\ db' = Bump("sessions")
  /\ busy' = IF busy = "hbSession" THEN "notify" ELSE "locCharacter"
  /\ UNCHANGED <<admin, inbox, timer, pushVars, connVars, debtVars>>

\* update_account_character and mark_key_from_park_zone: when neither
\* changes the character, the handler ends without notifying.
UpdateCharacter ==
  /\ busy = "locCharacter"
  /\ \/ db' = Bump("accounts") /\ busy' = "notify"
     \/ db' = db /\ busy' = "free"
  /\ UNCHANGED <<admin, inbox, timer, pushVars, connVars, debtVars>>

\* _notify_guild_entry(immediate=False): cancel the handle, set a new one.
DebounceSchedule ==
  /\ busy = "notify"
  /\ busy' = "free"
  /\ timer' = DebounceTicks
  /\ Promise(db)
  /\ UNCHANGED <<db, admin, inbox, pushVars, connVars>>

\* A successful login (HTTP or WebSocket) commits and queues a push.
LoginAuth ==
  /\ "login" \in Sources
  /\ LoopFree
  /\ db["accounts"] < MaxVersion
  /\ inbox < MaxQueued
  /\ db' = Bump("accounts")
  /\ inbox' = inbox + 1
  /\ Promise(db')
  /\ UNCHANGED <<busy, admin, timer, pushVars, connVars>>

(***************************************************************************)
(* An admin command of the Discord thread commits, awaits its reply to     *)
(* Discord, then notifies; a reply that fails skips the notification.      *)
(***************************************************************************)
AdminCommit ==
  /\ "admin" \in Sources
  /\ db["accounts"] < MaxVersion
  /\ admin = 0
  /\ db' = Bump("accounts")
  /\ admin' = admin + 1
  /\ UNCHANGED <<busy, inbox, timer, pushVars, connVars, debtVars>>

AdminNotify ==
  /\ admin > 0
  /\ inbox < MaxQueued
  /\ admin' = admin - 1
  /\ inbox' = inbox + 1
  /\ Promise(db)
  /\ UNCHANGED <<db, busy, timer, pushVars, connVars>>

AdminReplyFails ==
  /\ admin > 0
  /\ admin' = admin - 1
  /\ UNCHANGED <<db, busy, inbox, timer, pushVars, connVars, debtVars>>

-----------------------------------------------------------------------------
(* Pushes *)

\* _notify_guild_async up to its first await: snapshot the connections.
BeginPush(p) ==
  /\ pstage' = [pstage EXCEPT ![p] = IF conns = {} THEN "idle" ELSE "accounts"]
  /\ ptodo' = [ptodo EXCEPT ![p] = conns]
  /\ pread' = pread

\* Mutant: a push that is already in flight is taken to cover the new one.
MutRunImmediate(p) ==
  /\ LoopFree
  /\ inbox > 0
  /\ pstage[p] = "idle"
  /\ inbox' = inbox - 1
  /\ timer' = NoTimer
  /\ IF \E q \in Push : pstage[q] # "idle" THEN UNCHANGED pushVars
                                           ELSE BeginPush(p)
  /\ UNCHANGED <<db, busy, admin, connVars, debtVars>>

\* _notify_guild_entry(immediate=True): cancel the debounce and push now.
RunImmediate(p) ==
  /\ LoopFree
  /\ inbox > 0
  /\ pstage[p] = "idle"
  /\ inbox' = inbox - 1
  /\ timer' = NoTimer
  /\ BeginPush(p)
  /\ UNCHANGED <<db, busy, admin, connVars, debtVars>>

Tick ==
  /\ timer > 0
  /\ timer' = timer - 1
  /\ UNCHANGED <<db, busy, admin, inbox, pushVars, connVars, debtVars>>

\* Mutant: the handle is popped and no task created.
MutFire(p) ==
  /\ LoopFree
  /\ timer = 0
  /\ pstage[p] = "idle"
  /\ timer' = NoTimer
  /\ UNCHANGED <<db, busy, admin, inbox, pushVars, connVars, debtVars>>

\* fire(): drop the handle and create the task that will push.
Fire(p) ==
  /\ LoopFree
  /\ timer = 0
  /\ pstage[p] = "idle"
  /\ timer' = NoTimer
  /\ pstage' = [pstage EXCEPT ![p] = "created"]
  /\ UNCHANGED <<db, busy, admin, inbox, ptodo, pread, connVars, debtVars>>

StartTask(p) ==
  /\ LoopFree
  /\ pstage[p] = "created"
  /\ BeginPush(p)
  /\ UNCHANGED <<dataVars, connVars, debtVars>>

\* The two asyncio.to_thread reads, one after the other.
ReadAccounts(p) ==
  /\ pstage[p] = "accounts"
  /\ pread' = [pread EXCEPT ![p]["accounts"] = db["accounts"]]
  /\ pstage' = [pstage EXCEPT ![p] = "sessions"]
  /\ UNCHANGED <<dataVars, ptodo, connVars, debtVars>>

ReadSessions(p) ==
  /\ pstage[p] = "sessions"
  /\ pread' = [pread EXCEPT ![p]["sessions"] = db["sessions"]]
  /\ pstage' = [pstage EXCEPT ![p] = "deliver"]
  /\ UNCHANGED <<dataVars, ptodo, connVars, debtVars>>

(***************************************************************************)
(* One _safe_push of the gather.  last_sent_state is replaced before the   *)
(* send; a send that raises unregisters the connection.  "lost": the peer  *)
(* is gone and the handler has not noticed; "down": client_state is no     *)
(* longer CONNECTED.                                                       *)
(***************************************************************************)
Served(p, c) ==
  /\ LoopFree
  /\ pstage[p] = "deliver"
  /\ c \in ptodo[p]
  /\ ptodo' = [ptodo EXCEPT ![p] = @ \ {c}]
  /\ pstage' = [pstage EXCEPT ![p] = IF ptodo[p] = {c} THEN "idle" ELSE @]
  /\ pread' = pread

\* Mutant: the delta is sent and last_sent_state left as it was.
MutPushDelta(p, c) ==
  /\ Served(p, c)
  /\ stage[c] = "open"
  /\ pread[p] # sent[c]
  /\ wire' = [wire EXCEPT ![c] =
       Append(@, [kind |-> "delta", base |-> sent[c], tree |-> pread[p]])]
  /\ UNCHANGED <<dataVars, stage, conns, buildVars, sent, view, debtVars>>

\* Mutant: the difference is taken from the full state sent at the start.
MutDeltaFromFull(p, c) ==
  /\ Served(p, c)
  /\ stage[c] = "open"
  /\ pread[p] # sent[c]
  /\ sent' = [sent EXCEPT ![c] = pread[p]]
  /\ wire' = [wire EXCEPT ![c] =
       Append(@, [kind |-> "delta", base |-> built[c], tree |-> pread[p]])]
  /\ UNCHANGED <<dataVars, stage, conns, buildVars, view, debtVars>>

PushDelta(p, c) ==
  /\ Served(p, c)
  /\ stage[c] = "open"
  /\ pread[p] # sent[c]
  /\ sent' = [sent EXCEPT ![c] = pread[p]]
  /\ wire' = [wire EXCEPT ![c] =
       Append(@, [kind |-> "delta", base |-> sent[c], tree |-> pread[p]])]
  /\ UNCHANGED <<dataVars, stage, conns, buildVars, view, debtVars>>

PushNoChange(p, c) ==
  /\ Served(p, c)
  /\ stage[c] \in {"open", "lost"}
  /\ pread[p] = sent[c]
  /\ UNCHANGED <<dataVars, connVars, debtVars>>

PushToLost(p, c) ==
  /\ Served(p, c)
  /\ stage[c] = "lost"
  /\ pread[p] # sent[c]
  /\ sent' = [sent EXCEPT ![c] = pread[p]]
  /\ conns' \in {conns, conns \ {c}}
  /\ UNCHANGED <<dataVars, stage, buildVars, wire, view, debtVars>>

PushToClosed(p, c) ==
  /\ Served(p, c)
  /\ stage[c] \in {"down", "gone"}
  /\ conns' = conns \ {c}
  /\ UNCHANGED <<dataVars, stage, buildVars, sent, wire, view, debtVars>>

-----------------------------------------------------------------------------
(* Connections *)

\* The auth message has been accepted; build_full_state starts its reads.
Authenticate(c) ==
  /\ LoopFree
  /\ stage[c] = "new"
  /\ stage' = [stage EXCEPT ![c] = "building"]
  /\ UNCHANGED <<dataVars, pushVars, conns, buildVars, sent, wire, view,
                 debtVars>>

BuildRead(c, t) ==
  /\ stage[c] = "building"
  /\ t \notin bdone[c]
  /\ built' = [built EXCEPT ![c][t] = db[t]]
  /\ bdone' = [bdone EXCEPT ![c] = @ \cup {t}]
  /\ UNCHANGED <<dataVars, pushVars, stage, conns, sent, wire, view, debtVars>>

\* register(conn), then the full_state message, with no await in between.
Register(c) ==
  /\ LoopFree
  /\ stage[c] = "building"
  /\ bdone[c] = Table
  /\ stage' = [stage EXCEPT ![c] = "open"]
  /\ conns' = conns \cup {c}
  /\ sent' = [sent EXCEPT ![c] = built[c]]
  /\ wire' = [wire EXCEPT ![c] =
       <<[kind |-> "full", base |-> built[c], tree |-> built[c]]>>]
  /\ UNCHANGED <<dataVars, pushVars, buildVars, view, debtVars>>

\* The client applies the next message of the (ordered, reliable) stream.
Receive(c) ==
  /\ stage[c] = "open"
  /\ wire[c] # <<>>
  /\ view' = [view EXCEPT ![c] = Patch(@, Head(wire[c]))]
  /\ wire' = [wire EXCEPT ![c] = Tail(@)]
  /\ shown' = [shown EXCEPT ![c] = @ \/ AtLeast(view'[c], owed[c])]
  /\ UNCHANGED <<dataVars, pushVars, stage, conns, buildVars, sent, owed>>

\* The connection breaks; what was on the way is lost with it.
PeerDrop(c) ==
  /\ stage[c] = "open"
  /\ stage' = [stage EXCEPT ![c] = "lost"]
  /\ wire' = [wire EXCEPT ![c] = <<>>]
  /\ UNCHANGED <<dataVars, pushVars, conns, buildVars, sent, view, debtVars>>

\* receive_text raises; the handler then awaits its ping task and cleans up.
HandlerSeesDrop(c) ==
  /\ LoopFree
  /\ stage[c] = "lost"
  /\ stage' = [stage EXCEPT ![c] = "down"]
  /\ UNCHANGED <<dataVars, pushVars, conns, buildVars, sent, wire, view,
                 debtVars>>

\* Mutant: the handler ends without unregistering.
MutUnregister(c) ==
  /\ LoopFree
  /\ stage[c] = "down"
  /\ stage' = [stage EXCEPT ![c] = "gone"]
  /\ UNCHANGED <<dataVars, pushVars, conns, buildVars, sent, wire, view,
                 debtVars>>

Unregister(c) ==
  /\ LoopFree
  /\ stage[c] = "down"
  /\ stage' = [stage EXCEPT ![c] = "gone"]
  /\ conns' = conns \ {c}
  /\ UNCHANGED <<dataVars, pushVars, buildVars, sent, wire, view, debtVars>>

-----------------------------------------------------------------------------
Handlers ==
  \/ HeartbeatLogin \/ LocationLogin \/ RecordSession \/ UpdateCharacter
  \/ DebounceSchedule \/ LoginAuth

Admin == AdminCommit \/ AdminNotify \/ AdminReplyFails

Deliver(p, c) ==
  PushDelta(p, c) \/ PushNoChange(p, c) \/ PushToLost(p, c) \/ PushToClosed(p, c)

Pushing(p) ==
  \/ RunImmediate(p) \/ Fire(p) \/ StartTask(p)
  \/ ReadAccounts(p) \/ ReadSessions(p)
  \/ \E c \in Conn : Deliver(p, c)

Connection(c) ==
  \/ Authenticate(c) \/ Register(c) \/ Receive(c) \/ PeerDrop(c)
  \/ HandlerSeesDrop(c) \/ Unregister(c)
  \/ \E t \in Table : BuildRead(c, t)

Next ==
  \/ Handlers
  \/ Admin
  \/ Tick
  \/ \E p \in Push : Pushing(p)
  \/ \E c \in Conn : Connection(c)

Spec == Init /\ [][Next]_vars

(***************************************************************************)
(* The event loop runs what is ready, executor reads return, time passes   *)
(* and the network delivers.  Nobody has to send, connect or drop.  The    *)
(* loop collects every due timer and every queued callback in each round,  *)
(* so the ones it competes with cannot postpone a due one forever: strong  *)
(* fairness for Fire and RunImmediate, which also wait for the loop.       *)
(***************************************************************************)
Fairness ==
  /\ WF_vars(Tick)
  /\ WF_vars(RecordSession)
  /\ WF_vars(UpdateCharacter)
  /\ WF_vars(DebounceSchedule)
  /\ SF_vars(\E p \in Push : Fire(p))
  /\ SF_vars(\E p \in Push : RunImmediate(p))
  /\ \A p \in Push :
       /\ SF_vars(StartTask(p))
       /\ WF_vars(ReadAccounts(p))
       /\ WF_vars(ReadSessions(p))
       /\ \A c \in Conn : SF_vars(Deliver(p, c))
  /\ \A c \in Conn :
       /\ WF_vars(Receive(c))
       /\ SF_vars(HandlerSeesDrop(c))
       /\ SF_vars(Unregister(c))

FairSpec == Spec /\ Fairness

-----------------------------------------------------------------------------
(* Properties *)

\* Messages w lead a client that holds v to s, each delta starting from the
\* tree the message before it leaves.
InStep(w, v, s) ==
  /\ w = <<>> => v = s
  /\ w # <<>> => /\ w[1].kind = "full" \/ w[1].base = v
                 /\ w[Len(w)].tree = s
  /\ \A i \in 1 .. Len(w) - 1 :
       w[i + 1].kind = "delta" /\ w[i + 1].base = w[i].tree

(***************************************************************************)
(* Deltas are computed against last_sent_state and never name the state    *)
(* they change: each must find the client's copy equal to the tree it was  *)
(* computed from, whatever pushes overlap and whenever the full state is   *)
(* sent (_push_delta, websocket_accounts).                                 *)
(***************************************************************************)
ClientInStep ==
  \A c \in Conn : stage[c] = "open" => InStep(wire[c], view[c], sent[c])

\* Push p will still hand c a tree that is at least owed[c].
PushCovers(p, c) ==
  \/ pstage[p] = "created"
  \/ /\ c \in ptodo[p]
     /\ \/ pstage[p] = "accounts"
        \/ /\ pstage[p] = "sessions"
           /\ pread[p]["accounts"] >= owed[c]["accounts"]
        \/ pstage[p] = "deliver" /\ AtLeast(pread[p], owed[c])

\* Something is on its way that will bring c what it is owed.
OnItsWay(c) ==
  \/ inbox > 0
  \/ timer # NoTimer
  \/ \E p \in Push : PushCovers(p, c)
  \/ \E i \in DOMAIN wire[c] : AtLeast(wire[c][i].tree, owed[c])

(***************************************************************************)
(* No notification is lost between the debounce handle, its cancellation   *)
(* by an immediate push, the snapshot of the connections and the two       *)
(* reads: while a client has not seen what was notified after it           *)
(* registered, something is on its way that will bring it.                 *)
(***************************************************************************)
NotifiedChangeCovered ==
  \A c \in conns : stage[c] = "open" /\ ~shown[c] => OnItsWay(c)

\* A client that stays connected does see every notified change (or a later
\* state) at some moment.
NotifiedChangeShown ==
  \A c \in Conn :
    (c \in conns /\ ~shown[c]) ~> (shown[c] \/ stage[c] # "open")

(***************************************************************************)
(* A connection whose handler has finished is no longer in the manager's   *)
(* list, even when a push that started earlier still holds it, and one     *)
(* that is open is always in it, so that every push serves it (register    *)
(* and unregister in _safe_push, websocket_accounts).                      *)
(***************************************************************************)
GoneIsForgotten ==
  /\ \A c \in conns : stage[c] \in {"open", "lost", "down"}
  /\ \A c \in Conn : stage[c] = "open" => c \in conns

(***************************************************************************)
(* What NotifiedChangeCovered rests on: nobody is owed or has read what    *)
(* was never committed, a client that has not been shown what it is owed   *)
(* does not hold it, and nothing is owed before the first registration.    *)
(***************************************************************************)
OnlyCommitted ==
  /\ \A c \in Conn : AtLeast(db, owed[c]) /\ AtLeast(db, built[c])
  /\ \A p \in Push : AtLeast(db, pread[p])

ShownWhenHeld ==
  \A c \in Conn : AtLeast(view[c], owed[c]) => shown[c]

NothingOwedYet ==
  \A c \in Conn : stage[c] \in {"new", "building"} => shown[c]

SyncInv ==
  /\ TypeOK
  /\ ClientInStep
  /\ GoneIsForgotten
  /\ OnlyCommitted
  /\ ShownWhenHeld
  /\ NothingOwedYet
  /\ NotifiedChangeCovered

-----------------------------------------------------------------------------
(***************************************************************************)
(* AccountSync implements StateFeed: what is in flight stands for the tree *)
(* it leads to, and last_sent_state for the last tree published, as long   *)
(* as the connection is open (a failed send changes it afterwards).        *)
(***************************************************************************)
FeedOf(c) ==
  CASE stage[c] \in {"new", "building"} -> "unopened"
    [] stage[c] = "open" -> "open"
    [] OTHER -> "closed"

Trees(w) == [i \in 1 .. Len(w) |-> w[i].tree]

feedBar == [c \in Conn |-> FeedOf(c)]
lastBar == [c \in Conn |-> IF stage[c] = "open" THEN sent[c] ELSE Zero]
queueBar == [c \in Conn |-> Trees(wire[c])]

Feed == INSTANCE StateFeed WITH
          feed <- feedBar, last <- lastBar, queue <- queueBar, view <- view

(***************************************************************************)
(* Every step of the delta protocol is a step of the full-state feed:      *)
(* applying a delta always leaves the client with exactly the tree the     *)
(* server built (compute_diff, _push_delta), in publication order.         *)
(***************************************************************************)
RefinesFeed == Feed!Spec
=============================================================================
