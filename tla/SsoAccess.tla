----------------------------- MODULE SsoAccess -----------------------------
(***************************************************************************)
(* Access keys and revocations: the tables of roboToald/db/models/sso.py,  *)
(* the two caches it keeps of them in module globals, the authentication   *)
(* of api/server.py that reads the caches, and the commands of cmd_sso.py  *)
(* that change the tables, drop the caches and disconnect a user           *)
(* (ConnectionManager.disconnect_user).                                    *)
(*                                                                         *)
(* The API thread alone fills a cache: it tests it, reads the rows and     *)
(* assigns what it read, three steps; the Discord thread commits and drops *)
(* the cache, two.  No lock orders them.  Within each thread such a        *)
(* function runs without an await, so there is one reader and one writer.  *)
(*                                                                         *)
(* A user's key is abstracted to how many he has been given, a revocation  *)
(* to the moment it ends.  POST /auth looks up a key and checks            *)
(* revocations as a WebSocket does, only without an await in between.      *)
(***************************************************************************)
EXTENDS Integers, FiniteSets

CONSTANTS
  User,
  Conn,        \* WebSocket connections; each one is used once
  Owner,       \* Owner[c]: the user whose key c presents
  NoCache,     \* None, as the value of a cache
  MaxKeys,     \* bound: keys given to one user
  MaxClock,    \* bound: days that pass
  ReplyFails   \* TRUE: Discord may refuse the reply of a command

ASSUME AccessAssumption ==
  /\ Owner \in [Conn -> User]
  /\ MaxKeys \in Nat
  /\ MaxClock \in Nat
  /\ ReplyFails \in BOOLEAN
  /\ NoCache \notin [User -> Nat]
  /\ NoCache \notin [User -> SUBSET Nat]

VARIABLES
  keyRow,     \* sso_access_key: the number of the key of each user, 0: none
  keyCache,   \* _access_key_cache
  keyTmp,     \* the rows _load_access_key_cache has read
  revRow,     \* sso_revocations that are active: when each one ends
  revCache,   \* _revocation_cache
  revTmp,     \* the rows _load_revocation_cache has read
  keyRaced,   \* history: the last drop of the key cache fell into a load
  revRaced,   \* history: the same for the revocation cache
  clock,      \* datetime.now(), in days
  pc,         \* where the API thread is in a lookup
  cur,        \* the connection it serves
  writer,     \* the table the Discord thread has committed and not dropped
  target,     \* the user whose command that is, and whether it disconnects
  replies,    \* users whose revocation awaits the reply to the command
  kicks,      \* users whose disconnection is scheduled on the API loop
  ktodo,      \* connections that running disconnections have still to close
  stage,      \* life cycle of each connection
  given,      \* the key a connection has presented, until it is looked up
  conns       \* ConnectionManager._connections

keyVars == <<keyRow, keyCache, keyTmp, keyRaced>>
revVars == <<revRow, revCache, revTmp, revRaced>>
apiVars == <<pc, cur>>
cmdVars == <<writer, target, replies>>
kickVars == <<kicks, ktodo>>
sessionVars == <<stage, given, conns>>
vars == <<keyVars, revVars, clock, apiVars, cmdVars, kickVars, sessionVars>>

-----------------------------------------------------------------------------
Never == 0    \* expiry_days = 0: the revocation has no end

\* is_user_access_revoked, on given entries.
Revoked(entries) == \E e \in entries : e = Never \/ clock < e

Idle == pc = "idle"

TypeOK ==
  /\ keyRow \in [User -> Nat]
  /\ keyCache \in [User -> Nat] \cup {NoCache}
  /\ keyTmp \in [User -> Nat]
  /\ revRow \in [User -> SUBSET Nat]
  /\ revCache \in [User -> SUBSET Nat] \cup {NoCache}
  /\ revTmp \in [User -> SUBSET Nat]
  /\ keyRaced \in BOOLEAN
  /\ revRaced \in BOOLEAN
  /\ clock \in Nat
  /\ pc \in {"idle", "keyUse", "keyRead", "keyAssign", "keyReturn",
             "revUse", "revRead", "revAssign"}
  /\ cur \in Conn
  /\ writer \in {"free", "keys", "revocations"}
  /\ target \in [user : User, kick : BOOLEAN]
  /\ replies \in SUBSET User
  /\ kicks \in SUBSET User
  /\ ktodo \in SUBSET Conn
  /\ stage \in [Conn -> {"new", "keyed", "checked", "open", "closing",
                         "refused", "failed", "gone"}]
  /\ given \in [Conn -> Nat]
  /\ conns \in SUBSET Conn

Init ==
  /\ keyRow = [u \in User |-> 0]
  /\ keyCache = NoCache
  /\ keyTmp = [u \in User |-> 0]
  /\ revRow = [u \in User |-> {}]
  /\ revCache = NoCache
  /\ revTmp = [u \in User |-> {}]
  /\ keyRaced = FALSE
  /\ revRaced = FALSE
  /\ clock = 1
  /\ pc = "idle"
  /\ cur \in Conn
  /\ writer = "free"
  /\ target \in [user : User, kick : {FALSE}]
  /\ replies = {}
  /\ kicks = {}
  /\ ktodo = {}
  /\ stage = [c \in Conn |-> "new"]
  /\ given = [c \in Conn |-> 0]
  /\ conns = {}

-----------------------------------------------------------------------------
(* The Discord thread *)

\* Mutant: the new key is committed and the cache kept.
MutGiveKey(u) ==
  /\ writer = "free"
  /\ keyRow[u] < MaxKeys
  /\ keyRow' = [keyRow EXCEPT ![u] = @ + 1]
  /\ UNCHANGED <<keyCache, keyTmp, keyRaced, revVars, clock, apiVars, cmdVars,
                 kickVars, sessionVars>>

\* get_access_key_by_user for a user without a key, and reset_access_key: the
\* commit.  (For a user with a key the former only reads.)
GiveKey(u) ==
  /\ writer = "free"
  /\ keyRow[u] < MaxKeys
  /\ keyRow' = [keyRow EXCEPT ![u] = @ + 1]
  /\ writer' = "keys"
  /\ target' = [user |-> u, kick |-> FALSE]
  /\ UNCHANGED <<keyCache, keyTmp, keyRaced, revVars, clock, apiVars, replies,
                 kickVars, sessionVars>>

InvalidateKeys ==
  /\ writer = "keys"
  /\ writer' = "free"
  /\ keyCache' = NoCache
  /\ keyRaced' = (pc = "keyAssign")
  /\ UNCHANGED <<keyRow, keyTmp, revVars, clock, apiVars, target, replies,
                 kickVars, sessionVars>>

\* revoke_user_access: the commit.
Revoke(u) ==
  /\ writer = "free"
  /\ u \notin replies \cup kicks
  /\ \E days \in {0, 1} :
       revRow' = [revRow EXCEPT ![u] =
         @ \cup {IF days = 0 THEN Never ELSE clock + days}]
  /\ writer' = "revocations"
  /\ target' = [user |-> u, kick |-> TRUE]
  /\ UNCHANGED <<keyVars, revCache, revTmp, revRaced, clock, apiVars, replies,
                 kickVars, sessionVars>>

\* remove_access_revocation: the commit deactivates all rows of the user.
RemoveRevocation(u) ==
  /\ writer = "free"
  /\ revRow[u] # {}
  /\ revRow' = [revRow EXCEPT ![u] = {}]
  /\ writer' = "revocations"
  /\ target' = [user |-> u, kick |-> FALSE]
  /\ UNCHANGED <<keyVars, revCache, revTmp, revRaced, clock, apiVars, replies,
                 kickVars, sessionVars>>

\* Mutant: the revocation cache is left in place.
MutInvalidateRevocations ==
  /\ writer = "revocations"
  /\ writer' = "free"
  /\ revRaced' = (pc = "revAssign")
  /\ replies' = IF target.kick THEN replies \cup {target.user} ELSE replies
  /\ target' = [target EXCEPT !.kick = FALSE]
  /\ UNCHANGED <<keyVars, revRow, revCache, revTmp, clock, apiVars, kickVars,
                 sessionVars>>

InvalidateRevocations ==
  /\ writer = "revocations"
  /\ writer' = "free"
  /\ revCache' = NoCache
  /\ revRaced' = (pc = "revAssign")
  /\ replies' = IF target.kick THEN replies \cup {target.user} ELSE replies
  /\ target' = [target EXCEPT !.kick = FALSE]
  /\ UNCHANGED <<keyVars, revRow, revTmp, clock, apiVars, kickVars,
                 sessionVars>>

\* The reply to the command arrives: disconnect_user.
Disconnect(u) ==
  /\ u \in replies
  /\ replies' = replies \ {u}
  /\ kicks' = kicks \cup {u}
  /\ UNCHANGED <<keyVars, revVars, clock, apiVars, writer, target, ktodo,
                 sessionVars>>

\* inter.send raises: the handler reports a failure and disconnects nobody.
ReplyRefused(u) ==
  /\ ReplyFails
  /\ u \in replies
  /\ replies' = replies \ {u}
  /\ UNCHANGED <<keyVars, revVars, clock, apiVars, writer, target, kickVars,
                 sessionVars>>

-----------------------------------------------------------------------------
(* The API thread: the key *)

\* The auth message arrives; get_access_key_by_key tests its cache.
PresentKey(c) ==
  /\ Idle
  /\ stage[c] = "new"
  /\ cur' = c
  /\ \E k \in 1 .. keyRow[Owner[c]] : given' = [given EXCEPT ![c] = k]
  /\ pc' = IF keyCache = NoCache THEN "keyRead" ELSE "keyUse"
  /\ UNCHANGED <<keyVars, revVars, clock, cmdVars, kickVars, stage, conns>>

ReadKeys ==
  /\ pc = "keyRead"
  /\ keyTmp' = keyRow
  /\ keyRaced' = FALSE
  /\ pc' = "keyAssign"
  /\ UNCHANGED <<keyRow, keyCache, revVars, clock, cur, cmdVars, kickVars,
                 sessionVars>>

\* (The local of the load ends with it.)
AssignKeys ==
  /\ pc = "keyAssign"
  /\ keyCache' = keyTmp
  /\ keyTmp' = [u \in User |-> 0]
  /\ pc' = "keyReturn"
  /\ UNCHANGED <<keyRow, keyRaced, revVars, clock, cur, cmdVars,
                 kickVars, sessionVars>>

\* Mutant: any key the user was ever given opens the door.
MutUseKeys ==
  /\ pc \in {"keyUse", "keyReturn"}
  /\ stage' = [stage EXCEPT ![cur] =
       IF keyCache = NoCache THEN "failed"
       ELSE IF keyCache[Owner[cur]] >= given[cur] THEN "keyed" ELSE "refused"]
  /\ given' = [given EXCEPT ![cur] = 0]
  /\ pc' = "idle"
  /\ UNCHANGED <<keyVars, revVars, clock, cur, cmdVars, kickVars, conns>>

\* The global is read again, after the test or by the return of the load: if
\* it has become None the lookup raises.
UseKeys ==
  /\ pc \in {"keyUse", "keyReturn"}
  /\ stage' = [stage EXCEPT ![cur] =
       IF keyCache = NoCache THEN "failed"
       ELSE IF keyCache[Owner[cur]] = given[cur] THEN "keyed" ELSE "refused"]
  /\ given' = [given EXCEPT ![cur] = 0]
  /\ pc' = "idle"
  /\ UNCHANGED <<keyVars, revVars, clock, cur, cmdVars, kickVars, conns>>

-----------------------------------------------------------------------------
(* The API thread: revocations *)

\* After the wait for Discord; is_user_access_revoked tests its cache.
CheckRevocation(c) ==
  /\ Idle
  /\ stage[c] = "keyed"
  /\ cur' = c
  /\ pc' = IF revCache = NoCache THEN "revRead" ELSE "revUse"
  /\ UNCHANGED <<keyVars, revVars, clock, cmdVars, kickVars, sessionVars>>

\* The wait for Discord takes 30 seconds: the connection is closed.
DiscordNotReady(c) ==
  /\ Idle
  /\ stage[c] = "keyed"
  /\ stage' = [stage EXCEPT ![c] = "refused"]
  /\ UNCHANGED <<keyVars, revVars, clock, apiVars, cmdVars, kickVars, given,
                 conns>>

\* Client version and settings, checked after the revocation, may refuse too.
Judge(entries) ==
  \/ stage' = [stage EXCEPT ![cur] = "refused"]
  \/ ~Revoked(entries) /\ stage' = [stage EXCEPT ![cur] = "checked"]

UseRevocations ==
  /\ pc = "revUse"
  /\ IF revCache = NoCache THEN stage' = [stage EXCEPT ![cur] = "failed"]
                           ELSE Judge(revCache[Owner[cur]])
  /\ pc' = "idle"
  /\ UNCHANGED <<keyVars, revVars, clock, cur, cmdVars, kickVars, given, conns>>

ReadRevocations ==
  /\ pc = "revRead"
  /\ revTmp' = revRow
  /\ revRaced' = FALSE
  /\ pc' = "revAssign"
  /\ UNCHANGED <<keyVars, revRow, revCache, clock, cur, cmdVars, kickVars,
                 sessionVars>>

\* This load returns its local variable.
AssignRevocations ==
  /\ pc = "revAssign"
  /\ revCache' = revTmp
  /\ Judge(revTmp[Owner[cur]])
  /\ revTmp' = [u \in User |-> {}]
  /\ pc' = "idle"
  /\ UNCHANGED <<keyVars, revRow, revRaced, clock, cur, cmdVars,
                 kickVars, given, conns>>

-----------------------------------------------------------------------------
(* The API thread: sessions *)

\* build_full_state has returned: register.
Register(c) ==
  /\ Idle
  /\ stage[c] = "checked"
  /\ stage' = [stage EXCEPT ![c] = "open"]
  /\ conns' = conns \cup {c}
  /\ UNCHANGED <<keyVars, revVars, clock, apiVars, cmdVars, kickVars, given>>

\* The client closes the connection.
Leave(c) ==
  /\ stage[c] = "open"
  /\ stage' = [stage EXCEPT ![c] = "closing"]
  /\ UNCHANGED <<keyVars, revVars, clock, apiVars, cmdVars, kickVars, given,
                 conns>>

HandlerEnds(c) ==
  /\ Idle
  /\ stage[c] = "closing"
  /\ stage' = [stage EXCEPT ![c] = "gone"]
  /\ conns' = conns \ {c}
  /\ UNCHANGED <<keyVars, revVars, clock, apiVars, cmdVars, kickVars, given>>

\* _disconnect_user_async up to its first await: snapshot the connections.
StartKick(u) ==
  /\ Idle
  /\ u \in kicks
  /\ kicks' = kicks \ {u}
  /\ ktodo' = ktodo \cup {c \in conns : Owner[c] = u}
  /\ UNCHANGED <<keyVars, revVars, clock, apiVars, cmdVars, sessionVars>>

\* Mutant: a send that raises ends the whole disconnection.
MutKick(c) ==
  /\ Idle
  /\ c \in ktodo
  /\ IF stage[c] = "open"
     THEN /\ ktodo' = ktodo \ {c}
          /\ stage' = [stage EXCEPT ![c] = "closing"]
          /\ conns' = conns \ {c}
     ELSE /\ ktodo' = {}
          /\ UNCHANGED <<stage, conns>>
  /\ UNCHANGED <<keyVars, revVars, clock, apiVars, cmdVars, kicks, given>>

\* Send the error, close, unregister; a closed socket raises, and is passed.
Kick(c) ==
  /\ Idle
  /\ c \in ktodo
  /\ ktodo' = ktodo \ {c}
  /\ stage' = [stage EXCEPT ![c] = IF @ = "open" THEN "closing" ELSE @]
  /\ conns' = conns \ {c}
  /\ UNCHANGED <<keyVars, revVars, clock, apiVars, cmdVars, kicks, given>>

DayPasses ==
  /\ clock < MaxClock
  /\ clock' = clock + 1
  /\ UNCHANGED <<keyVars, revVars, apiVars, cmdVars, kickVars, sessionVars>>

-----------------------------------------------------------------------------
Commands(u) ==
  \/ GiveKey(u) \/ Revoke(u) \/ RemoveRevocation(u)
  \/ Disconnect(u) \/ ReplyRefused(u)

Lookup ==
  \/ ReadKeys \/ AssignKeys \/ UseKeys
  \/ UseRevocations \/ ReadRevocations \/ AssignRevocations

Session(c) ==
  \/ PresentKey(c) \/ CheckRevocation(c) \/ DiscordNotReady(c)
  \/ Register(c) \/ Leave(c) \/ HandlerEnds(c) \/ Kick(c)

Next ==
  \/ InvalidateKeys
  \/ InvalidateRevocations
  \/ Lookup
  \/ DayPasses
  \/ \E u \in User : Commands(u) \/ StartKick(u)
  \/ \E c \in Conn : Session(c)

Spec == Init /\ [][Next]_vars

(***************************************************************************)
(* The API thread does not stop inside a lookup, and its loop comes back   *)
(* to the tasks of a disconnection, though others run in between.          *)
(***************************************************************************)
Fairness ==
  /\ WF_vars(Lookup)
  /\ \A u \in User : SF_vars(StartKick(u))
  /\ \A c \in Conn : SF_vars(Kick(c))

FairSpec == Spec /\ Fairness

-----------------------------------------------------------------------------
(* Properties *)

(***************************************************************************)
(* A cache differs from its table only while the thread that changed the   *)
(* table has yet to drop it, or if the drop came between the two halves of *)
(* a load (_load_access_key_cache, invalidate_access_key_cache).           *)
(***************************************************************************)
KeyCacheCurrent ==
  keyCache # NoCache => keyCache = keyRow \/ writer = "keys" \/ keyRaced

\* The same for _load_revocation_cache and invalidate_revocation_cache.
RevCacheCurrent ==
  revCache # NoCache => revCache = revRow \/ writer = "revocations" \/ revRaced

(***************************************************************************)
(* Why that holds: the same is true of rows that are read and not assigned, *)
(* and a cache stays empty from the test of a load to its assignment.      *)
(***************************************************************************)
LoadsCurrent ==
  /\ pc = "keyAssign" => keyTmp = keyRow \/ writer = "keys" \/ keyRaced
  /\ pc = "revAssign" => revTmp = revRow \/ writer = "revocations" \/ revRaced
  /\ pc \in {"keyRead", "keyAssign"} => keyCache = NoCache
  /\ pc \in {"revRead", "revAssign"} => revCache = NoCache

AccessInv == TypeOK /\ KeyCacheCurrent /\ RevCacheCurrent /\ LoadsCurrent

(***************************************************************************)
(* Outside those windows a key is accepted only if it is the one the table *)
(* holds at that moment: once a reset has returned, the old key is dead    *)
(* (get_access_key_by_key).                                                *)
(***************************************************************************)
KeyHonoured ==
  [][\A c \in Conn : stage[c] = "new" /\ stage'[c] = "keyed" =>
       given[c] = keyRow[Owner[c]] \/ writer = "keys" \/ keyRaced]_vars

(***************************************************************************)
(* Outside those windows nobody passes whose revocation the table holds    *)
(* and time has not ended: once a revocation has returned, and as long as  *)
(* it lasts, no new session begins its last stage (is_user_access_revoked).*)
(***************************************************************************)
RevocationHonoured ==
  [][\A c \in Conn : stage[c] = "keyed" /\ stage'[c] = "checked" =>
       ~Revoked(revRow[Owner[c]]) \/ writer = "revocations" \/ revRaced]_vars

(***************************************************************************)
(* Whoever is registered when a disconnection of his user is scheduled is  *)
(* unregistered, even if other sockets of the user are already closed      *)
(* (_disconnect_user_async).                                               *)
(***************************************************************************)
KickedAreDropped ==
  \A c \in Conn :
    (Owner[c] \in kicks /\ c \in conns) ~> c \notin conns
=============================================================================
