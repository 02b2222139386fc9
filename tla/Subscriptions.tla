--------------------------- MODULE Subscriptions ---------------------------
(***************************************************************************)
(* Raid target subscriptions of roboToald: the rows of                     *)
(* db/models/subscription.py, the commands and buttons of                  *)
(* discord_client/commands/cmd_raidtarget.py that change them, and the     *)
(* notifier loop (announce_subscriptions, started by on_ready) that sends  *)
(* one direct message per subscription and window.                         *)
(*                                                                         *)
(* A round of the loop reads the rows, awaits the guild's raid targets,    *)
(* then marks and collects messages without an await, then awaits the      *)
(* sends.  One guild and one target: others are treated alike and share    *)
(* nothing but the loop.  Windows are numbered in the order in which the   *)
(* guild's server publishes them.                                          *)
(***************************************************************************)
EXTENDS Integers, FiniteSets

CONSTANTS
  Sub,          \* user, target and guild: the key of a subscription
  Loop,         \* notifier loops; each on_ready starts one
  NoRow,        \* the subscription does not exist
  Resubscribe,  \* TRUE: users subscribe to what they are subscribed to
  Faults,       \* TRUE: crashes, fetches and sends that fail
  MaxWindow     \* bound: windows published

ASSUME SubAssumption ==
  /\ NoRow \notin Nat
  /\ Resubscribe \in BOOLEAN
  /\ Faults \in BOOLEAN
  /\ MaxWindow \in Nat

VARIABLES
  last,      \* last_window_start of each row, 0 at first
  expired,   \* subscriptions whose expiry has passed
  barred,    \* subscriptions whose user has lost the member role
  window,    \* the window the server publishes, 0: none
  past,      \* TRUE: that window has ended
  near,      \* subscriptions whose lead time has begun
  at,        \* where each loop is
  rows,      \* the rows each loop has read
  pending,   \* messages being sent: subscription, window and loop
  told,      \* history: windows for which a message was made, since subscribing
  twice,     \* history: subscriptions with two messages for a window
  got        \* history: windows whose message was delivered, since subscribing

userVars == <<expired, barred>>
windowVars == <<window, past, near>>
loopVars == <<at, rows, pending>>
history == <<told, twice, got>>
vars == <<last, userVars, windowVars, loopVars, history>>

TypeOK ==
  /\ last \in [Sub -> Nat \cup {NoRow}]
  /\ expired \in SUBSET Sub
  /\ barred \in SUBSET Sub
  /\ window \in Nat
  /\ past \in BOOLEAN
  /\ near \in SUBSET Sub
  /\ at \in [Loop -> {"off", "sleep", "fetch", "send"}]
  /\ rows \in [Loop -> [Sub -> Nat \cup {NoRow}]]
  /\ pending \in SUBSET (Sub \X Nat \X Loop)
  /\ told \in [Sub -> SUBSET Nat]
  /\ twice \in SUBSET Sub
  /\ got \in [Sub -> SUBSET Nat]

Init ==
  /\ last = [s \in Sub |-> NoRow]
  /\ expired = {}
  /\ barred = {}
  /\ window = 0
  /\ past = FALSE
  /\ near = {}
  /\ at = [l \in Loop |-> "off"]
  /\ rows = [l \in Loop |-> last]
  /\ pending = {}
  /\ told = [s \in Sub |-> {}]
  /\ twice = {}
  /\ got = [s \in Sub |-> {}]

Exists(s) == last[s] # NoRow

-----------------------------------------------------------------------------
(* Users *)

\* Mutant: the new row counts the window that is published as announced.
MutSubscribe(s) ==
  /\ s \notin barred
  /\ Resubscribe \/ ~Exists(s)
  /\ last' = [last EXCEPT ![s] = window]
  /\ expired' = expired \ {s}
  /\ IF Exists(s)
     THEN UNCHANGED <<told, got>>
     ELSE /\ told' = [told EXCEPT ![s] = {}]
          /\ got' = [got EXCEPT ![s] = {}]
  /\ near' \in {near, near \ {s}}
  /\ UNCHANGED <<barred, window, past, loopVars, twice>>

\* subscribe stores a new row over the one there may be; its lead time is
\* chosen anew.
Subscribe(s) ==
  /\ s \notin barred
  /\ Resubscribe \/ ~Exists(s)
  /\ last' = [last EXCEPT ![s] = 0]
  /\ expired' = expired \ {s}
  /\ IF Exists(s)
     THEN UNCHANGED <<told, got>>
     ELSE /\ told' = [told EXCEPT ![s] = {}]
          /\ got' = [got EXCEPT ![s] = {}]
  /\ near' \in {near, near \ {s}}
  /\ UNCHANGED <<barred, window, past, loopVars, twice>>

\* unsubscribe and the button of that name: delete_subscription.
Unsubscribe(s) ==
  /\ Exists(s)
  /\ last' = [last EXCEPT ![s] = NoRow]
  /\ UNCHANGED <<userVars, windowVars, loopVars, history>>

\* The refresh button: a row that is gone stays gone.
Refresh(s) ==
  /\ Exists(s)
  /\ expired' = expired \ {s}
  /\ UNCHANGED <<last, barred, windowVars, loopVars, history>>

Expire(s) ==
  /\ Exists(s)
  /\ expired' = expired \cup {s}
  /\ UNCHANGED <<last, barred, windowVars, loopVars, history>>

LoseRole(s) ==
  /\ barred' = barred \cup {s}
  /\ UNCHANGED <<last, expired, windowVars, loopVars, history>>

-----------------------------------------------------------------------------
(* Time and the guild's server *)

NewWindow ==
  /\ window < MaxWindow
  /\ window' = window + 1
  /\ past' = FALSE
  /\ near' = {}
  /\ UNCHANGED <<last, userVars, loopVars, history>>

Approach(s) ==
  /\ window # 0 /\ ~past
  /\ near' = near \cup {s}
  /\ UNCHANGED <<last, userVars, window, past, loopVars, history>>

WindowEnds ==
  /\ window # 0 /\ ~past
  /\ past' = TRUE
  /\ near' = {}
  /\ UNCHANGED <<last, userVars, window, loopVars, history>>

-----------------------------------------------------------------------------
(* The notifier *)

\* on_ready starts a loop, whether or not one is running.
OnReady(l) ==
  /\ at[l] = "off"
  /\ at' = [at EXCEPT ![l] = "sleep"]
  /\ UNCHANGED <<last, userVars, windowVars, rows, pending, history>>

\* clean_expired_subscriptions, get_subscriptions_for_notification.
Wake(l) ==
  /\ at[l] = "sleep"
  /\ last' = [s \in Sub |-> IF s \in expired THEN NoRow ELSE last[s]]
  /\ rows' = [rows EXCEPT ![l] = last']
  /\ at' = [at EXCEPT ![l] = "fetch"]
  /\ UNCHANGED <<userVars, windowVars, pending, history>>

\* Mutant: whoever was told of a window is not told of the next.
MutDueRows(l) ==
  {s \in near : rows[l][s] = 0}

\* The rows the loop has read that are due for a message.
DueRows(l) ==
  {s \in near : rows[l][s] # NoRow /\ rows[l][s] # window}

\* Mutant: mark_subscription_sent stores the row that was read before the fetch.
MutMarked(l, due) ==
  [s \in Sub |-> IF s \in due THEN window ELSE last[s]]

\* mark_subscription_sent reads the row again; one that is gone stays gone.
Marked(l, due) ==
  [s \in Sub |-> IF s \in due /\ Exists(s) THEN window ELSE last[s]]

\* Mutant: the row is not marked.
MutFetched(l, known) ==
  LET due == (DueRows(l) \ barred) \cap known
  IN /\ at[l] = "fetch"
     /\ last' = [s \in Sub |-> IF s \in DueRows(l) \cap barred THEN NoRow ELSE last[s]]
     /\ pending' = pending \cup {<<s, window, l>> : s \in due}
     /\ told' = [s \in Sub |-> IF s \in due THEN told[s] \cup {window} ELSE told[s]]
     /\ twice' = twice \cup {s \in due : window \in told[s]}
     /\ at' = [at EXCEPT ![l] = "send"]
     /\ UNCHANGED <<userVars, windowVars, rows, got>>

\* The targets have come: mark and make the messages; whoever has lost the role
\* loses the subscription, whom the client does not know is left for later.
\* (Lead times are compared with the time of Wake; the model takes the fetch as
\* short.)
Fetched(l, known) ==
  LET due == (DueRows(l) \ barred) \cap known
      marked == Marked(l, due)
  IN /\ at[l] = "fetch"
     /\ last' = [s \in Sub |-> IF s \in DueRows(l) \cap barred THEN NoRow ELSE marked[s]]
     /\ pending' = pending \cup {<<s, window, l>> : s \in due}
     /\ told' = [s \in Sub |-> IF s \in due THEN told[s] \cup {window} ELSE told[s]]
     /\ twice' = twice \cup {s \in due : window \in told[s]}
     /\ at' = [at EXCEPT ![l] = "send"]
     /\ UNCHANGED <<userVars, windowVars, rows, got>>

\* A fetch that fails leaves no targets, and the round has nothing to do.
FetchFails(l) ==
  /\ Faults
  /\ at[l] = "fetch"
  /\ at' = [at EXCEPT ![l] = "sleep"]
  /\ UNCHANGED <<last, userVars, windowVars, rows, pending, history>>

Deliver(m) ==
  /\ m \in pending
  /\ pending' = pending \ {m}
  /\ got' = [got EXCEPT ![m[1]] = @ \cup {m[2]}]
  /\ UNCHANGED <<last, userVars, windowVars, at, rows, told, twice>>

\* A send raises: gather raises, the round ends, the other sends go on.
SendFails(m) ==
  /\ Faults
  /\ m \in pending
  /\ pending' = pending \ {m}
  /\ at' = [at EXCEPT ![m[3]] = IF @ = "send" THEN "sleep" ELSE @]
  /\ UNCHANGED <<last, userVars, windowVars, rows, history>>

EndRound(l) ==
  /\ at[l] = "send"
  /\ \A m \in pending : m[3] # l
  /\ at' = [at EXCEPT ![l] = "sleep"]
  /\ UNCHANGED <<last, userVars, windowVars, rows, pending, history>>

Crash ==
  /\ Faults
  /\ at' = [l \in Loop |-> "off"]
  /\ pending' = {}
  /\ UNCHANGED <<last, userVars, windowVars, rows, history>>

-----------------------------------------------------------------------------
Users(s) ==
  \/ Subscribe(s) \/ Unsubscribe(s) \/ Refresh(s)
  \/ Expire(s) \/ LoseRole(s) \/ Approach(s)

\* The users that get_user finds.
Known == IF Faults THEN SUBSET Sub ELSE {Sub}

Round(l) ==
  \/ Wake(l)
  \/ \E known \in Known : Fetched(l, known)
  \/ EndRound(l)

Next ==
  \/ \E s \in Sub : Users(s)
  \/ NewWindow \/ WindowEnds
  \/ \E l \in Loop : OnReady(l) \/ Round(l) \/ FetchFails(l)
  \/ \E m \in pending : Deliver(m) \/ SendFails(m)
  \/ Crash

Spec == Init /\ [][Next]_vars

(***************************************************************************)
(* The bot connects, a loop that has started runs round after round (its   *)
(* task catches every exception), and Discord accepts messages.            *)
(***************************************************************************)
Fairness ==
  /\ \A l \in Loop : WF_vars(OnReady(l)) /\ WF_vars(Round(l))
  /\ \A s \in Sub, w \in 1 .. MaxWindow, l \in Loop : WF_vars(Deliver(<<s, w, l>>))

FairSpec == Spec /\ Fairness

-----------------------------------------------------------------------------
(* Properties *)

(***************************************************************************)
(* What the notifier marks is on its way or has arrived, as long as sends  *)
(* and the process do not fail: marking comes before sending.              *)
(***************************************************************************)
MarkedIsSent ==
  \A s \in Sub : Exists(s) /\ last[s] # 0 =>
    last[s] \in got[s] \/ \E l \in Loop : <<s, last[s], l>> \in pending

(***************************************************************************)
(* A window that was announced is never forgotten while it is the one the  *)
(* server publishes: this is why one loop does not tell twice.             *)
(***************************************************************************)
ToldIsMarked ==
  \A s \in Sub :
    /\ \A w \in told[s] : w <= window
    /\ Exists(s) /\ window \in told[s] => last[s] = window

\* A row that a loop has read, and that was announced, says so.
ReadsAreMarked ==
  \A l \in Loop, s \in Sub :
    at[l] = "fetch" /\ rows[l][s] # NoRow /\ window \in told[s]
      => rows[l][s] = window

(***************************************************************************)
(* A subscription gets one message per window, whatever happens to loop,   *)
(* row and window in the meantime (announce_subscriptions).                *)
(***************************************************************************)
ToldOnce == twice = {}

\* The inductive invariant, for one loop and no subscribing over a row.
SubInv == TypeOK /\ ToldIsMarked /\ ReadsAreMarked /\ ToldOnce

(***************************************************************************)
(* A subscription that was ended while a round was under way is not        *)
(* brought back by it: only its user subscribes (mark_subscription_sent).  *)
(***************************************************************************)
NotRevived ==
  [][\A s \in Sub : ~Exists(s) /\ Exists(s)' => Subscribe(s)]_vars

(***************************************************************************)
(* Whoever is subscribed when his lead time has begun is told, unless he   *)
(* leaves or the window ends or is replaced (announce_subscriptions_task). *)
(***************************************************************************)
Waiting(s, w) ==
  /\ Exists(s) /\ s \in near \ (barred \cup expired)
  /\ window = w /\ w \notin got[s]

DueAreTold ==
  \A s \in Sub : \A w \in 1 .. MaxWindow : Waiting(s, w) ~> ~Waiting(s, w)
=============================================================================
