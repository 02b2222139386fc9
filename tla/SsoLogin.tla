------------------------------ MODULE SsoLogin ------------------------------
(***************************************************************************)
(* Shared accounts: what a name stands for, who gets its credentials, and   *)
(* who is playing (db/models/sso.py, api/server.py; the administrators'     *)
(* commands of discord_client/commands/cmd_sso.py).                         *)
(*                                                                         *)
(* The handlers of the API do not await between their transactions, so one  *)
(* runs at a time, but each is several transactions (a lookup is a query    *)
(* per kind of name), and the commands of the Discord thread, one           *)
(* transaction each, fall in between.                                      *)
(*                                                                         *)
(* One guild.  Time is counted in ticks since something happened, up to the *)
(* number after which the code no longer tells.  Sessions that have ended   *)
(* only matter to reports and are left out; so is the audit log, except for *)
(* the failures that count against an address, of which there is one.       *)
(***************************************************************************)
EXTENDS Integers, Sequences, FiniteSetsExt

CONSTANTS
  Id,           \* rowids of accounts, 1 .. n
  AccountName,  \* sso_account.real_user
  Char,         \* names of characters
  Alias,
  Tag,          \* names of tags that are given to accounts
  Dynamic,      \* names of dynamic tags: a zone and a class
  Group,
  User,
  Roles,        \* Roles[u]: the groups whose role u has
  Password,
  Report,       \* what a client tells of its character: level, zone, key
  Start,        \* the tables as earlier commands left them
  NoRow,
  InUse,        \* SSO_INACTIVITY_SECONDS, in whole ticks
  Cold,         \* the 20 minutes of _login_sort_key, in ticks
  MaxFailures,  \* RATE_LIMIT_MAX_ATTEMPTS
  MaxOpen,      \* bound: failures over connections that are open
  MaxCommands   \* bound: commands of administrators

Level == {r.level : r \in Report} \cup {0}
Name == AccountName \cup Char \cup Alias \cup Tag \cup Dynamic
Account == [user : AccountName, pass : Password, age : 0 .. Cold]
Character == [acct : Id, level : Level, zone : BOOLEAN, key : BOOLEAN]
Session == [char : Char, acct : Id, user : User, age : 0 .. InUse]
Found == [id : Id, user : AccountName, pass : Password, tag : BOOLEAN]

Maybe(S) == S \cup {NoRow}

\* Tables that commands leave behind: whatever names an account names one that is
\* there, sessions apart; a character has one session, a user's agree on the
\* account, and an account that is played counts as in use.
Sound(t) ==
  /\ t.row \in [Id -> Maybe(Account)] /\ t.chars \in [Char -> Maybe(Character)]
  /\ t.alias \in [Alias -> Maybe(Id)] /\ t.sessions \subseteq Session
  /\ t.groups \subseteq Group /\ t.mapping \subseteq t.groups \X Id /\ t.tags \subseteq Tag \X Id
  /\ \A c \in Char : t.chars[c] # NoRow => t.row[t.chars[c].acct] # NoRow
  /\ \A h \in Alias : t.alias[h] # NoRow => t.row[t.alias[h]] # NoRow
  /\ \A x \in t.tags \cup t.mapping : t.row[x[2]] # NoRow
  /\ \A r, s \in t.sessions : r.char = s.char => r = s
  /\ \A r, s \in t.sessions : r.user = s.user => r.acct = s.acct
  /\ \A s \in t.sessions :
        t.row[s.acct] # NoRow => t.row[s.acct].age <= s.age + 1

ASSUME LoginAssumption ==
  /\ InUse \in Nat /\ Cold \in Nat /\ MaxFailures \in Nat
  /\ MaxOpen \in Nat /\ MaxCommands \in Nat
  /\ Id \subseteq Nat \ {0}
  /\ Report \subseteq [level : Nat, zone : BOOLEAN, key : {"yes", "no", "unsaid"}]
  /\ NoRow \notin Account \cup Character \cup Found \cup Id
  /\ \A t \in Start : Sound(t)

\* The steps of find_account_by_username, in order.
Kinds == <<"user", "character", "alias", "tag", "dynamic">>

Stages == {"idle", "user", "character", "alias", "tag", "dynamic", "fetch",
           "allow", "load", "login", "granted", "refused", "denied", "missing", "empty",
           "failed", "check", "present", "touch", "record", "expire", "update", "mark"}

VARIABLES
  row,       \* sso_account
  groups,    \* sso_account_group
  mapping,   \* sso_account_group_mapping
  chars,     \* sso_account_character
  alias,     \* sso_account_alias
  tags,      \* sso_tag
  sessions,  \* sso_character_session: the rows that have not ended
  failures,  \* sso_audit_log: failures that count, by the door they came through
  stage,     \* the handler that runs, and the transaction it comes to next
  who,       \* its user
  asked,     \* the name it was given
  found,     \* the account it has read
  report,    \* the location it was told
  door,      \* whether a login came through a door with a limit
  commands,  \* commands given so far
  raced,     \* history: what fell into the handler, a command or a tick
  given,     \* history: ticks since the credentials of an account were given
  renewed    \* history: rowids used again while a session still named them

tables == <<row, groups, mapping, chars, alias, tags>>
handler == <<stage, who, asked, found, report, door>>
history == <<raced, given, renewed>>
vars == <<tables, sessions, failures, handler, commands, history>>

-----------------------------------------------------------------------------
(* Names *)

Accounts == {a \in Id : row[a] # NoRow}
Characters == {c \in Char : chars[c] # NoRow}
Aliases == {h \in Alias : alias[h] # NoRow}

\* In the zone of a dynamic tag, with its key (and of its class).
Suits(c) == chars[c].zone /\ chars[c].key
Matching(n) == {c \in Characters : n \in Dynamic /\ Suits(c)}

Idle(a) == row[a].age > InUse

\* user_has_access_to_accounts
Usable(u) == {a \in Id : \E g \in Roles[u] \cap groups : <<g, a>> \in mapping}

\* The accounts a name stands for, by kind.
Means(kind, n) ==
  CASE kind = "user" -> {a \in Accounts : row[a].user = n}
    [] kind = "character" -> {chars[c].acct : c \in Characters \cap {n}}
    [] kind = "alias" -> {alias[h] : h \in Aliases \cap {n}}
    [] kind = "tag" -> {a \in Accounts : <<n, a>> \in tags}
    [] kind = "dynamic" -> {chars[c].acct : c \in Matching(n)}

\* _login_sort_key: the longest unused first, and among those the highest
\* level.  (A tick is a bucket; whatever is Cold shares one.)
First(as, level) ==
  {a \in as : \A b \in as :
     /\ row[b].age <= row[a].age
     /\ row[b].age = row[a].age => level[b] <= level[a]}

\* _max_character_level
MaxLevel ==
  [a \in Id |->
     Max({chars[c].level : c \in {c \in Characters : chars[c].acct = a}} \cup {0})]

\* The choice among the accounts of a tag.
Tagged(n, as) == First(as, MaxLevel)

\* Among those of a dynamic tag each counts with the level of one character.
Matched(n, as) ==
  LET levels(a) == {chars[c].level : c \in {c \in Matching(n) : chars[c].acct = a}}
      choices == {l \in [as -> Level] : \A a \in as : l[a] \in levels(a)}
  IN UNION {First(as, l) : l \in choices}

\* find_account_by_username in one look: what the first kind that knows the
\* name makes of it.
Standing(n) == {k \in 1 .. Len(Kinds) : Means(Kinds[k], n) # {}}

Resolve(n, idleOnly) ==
  IF Standing(n) = {} THEN {}
  ELSE LET kind == Kinds[Min(Standing(n))]
           as == Means(kind, n)
           idle == {a \in as : Idle(a)}
       IN CASE kind = "tag" -> Tagged(n, IF idleOnly THEN idle ELSE as)
            [] kind = "dynamic" -> Matched(n, idle)
            [] OTHER -> as

-----------------------------------------------------------------------------
(* Commands of administrators: one transaction each *)

\* Every command counts, and a handler that runs has met it.
Command ==
  /\ commands < MaxCommands
  /\ commands' = commands + 1
  /\ raced' = IF stage = "idle" THEN raced ELSE raced \cup {"command"}
  /\ UNCHANGED <<handler, sessions, failures>>

\* The handler that runs has read account a.
Holds(a) == found # NoRow /\ found.id = a

\* The rowid SQLite gives: one more than the largest in use.
NewId == 1 + Max(Accounts \cup {0})

CreateAccount(n, p, gs) ==
  /\ Command
  /\ NewId \in Id
  /\ \A a \in Accounts : row[a].user # n
  /\ row' = [row EXCEPT ![NewId] = [user |-> n, pass |-> p, age |-> Cold]]
  /\ mapping' = mapping \cup {<<g, NewId>> : g \in gs}
  /\ given' = [given EXCEPT ![NewId] = InUse + 1]
  /\ renewed' = IF \/ \E s \in sessions : s.acct = NewId
                   \/ Holds(NewId)
                THEN renewed \cup {NewId} ELSE renewed
  /\ UNCHANGED <<groups, chars, alias, tags>>

ChangePassword(a, p) ==
  /\ Command
  /\ row' = [row EXCEPT ![a].pass = p]
  /\ UNCHANGED <<groups, mapping, chars, alias, tags, given, renewed>>

\* delete_account: its groups, tags, aliases and characters go with it, its
\* sessions stay.
DeleteAccount(a) ==
  /\ Command
  /\ row' = [row EXCEPT ![a] = NoRow]
  /\ mapping' = {m \in mapping : m[2] # a}
  /\ tags' = {t \in tags : t[2] # a}
  /\ alias' = [h \in Alias |-> IF alias[h] = a THEN NoRow ELSE alias[h]]
  /\ chars' = [c \in Char |->
                 IF c \in Characters /\ chars[c].acct = a THEN NoRow ELSE chars[c]]
  /\ UNCHANGED <<groups, given, renewed>>

CreateGroup(g) ==
  /\ Command
  /\ g \notin groups
  /\ groups' = groups \cup {g}
  /\ UNCHANGED <<row, mapping, chars, alias, tags, given, renewed>>

DeleteGroup(g) ==
  /\ Command
  /\ g \in groups
  /\ groups' = groups \ {g}
  /\ mapping' = {m \in mapping : m[1] # g}
  /\ UNCHANGED <<row, chars, alias, tags, given, renewed>>

AddToGroup(g, a) ==
  /\ Command
  /\ g \in groups
  /\ <<g, a>> \notin mapping
  /\ mapping' = mapping \cup {<<g, a>>}
  /\ UNCHANGED <<row, groups, chars, alias, tags, given, renewed>>

RemoveFromGroup(g, a) ==
  /\ Command
  /\ <<g, a>> \in mapping
  /\ mapping' = mapping \ {<<g, a>>}
  /\ UNCHANGED <<row, groups, chars, alias, tags, given, renewed>>

TagAccount(a, t) ==
  /\ Command
  /\ <<t, a>> \notin tags
  /\ tags' = tags \cup {<<t, a>>}
  /\ UNCHANGED <<row, groups, mapping, chars, alias, given, renewed>>

UntagAccount(a, t) ==
  /\ Command
  /\ <<t, a>> \in tags
  /\ tags' = tags \ {<<t, a>>}
  /\ UNCHANGED <<row, groups, mapping, chars, alias, given, renewed>>

\* The command refuses a new name that is in use.
RenameTag(t, new) ==
  /\ Command
  /\ \E a \in Id : <<t, a>> \in tags
  /\ \A a \in Id : <<new, a>> \notin tags
  /\ tags' = {IF x[1] = t THEN <<new, x[2]>> ELSE x : x \in tags}
  /\ UNCHANGED <<row, groups, mapping, chars, alias, given, renewed>>

CreateAlias(a, h) ==
  /\ Command
  /\ alias[h] = NoRow
  /\ alias' = [alias EXCEPT ![h] = a]
  /\ UNCHANGED <<row, groups, mapping, chars, tags, given, renewed>>

DeleteAlias(h) ==
  /\ Command
  /\ alias[h] # NoRow
  /\ alias' = [alias EXCEPT ![h] = NoRow]
  /\ UNCHANGED <<row, groups, mapping, chars, tags, given, renewed>>

\* The account may be named in any way a login may name it.
AddCharacter(n, c) ==
  /\ Command
  /\ chars[c] = NoRow
  /\ \E a \in Resolve(n, FALSE) :
       chars' = [chars EXCEPT ![c] =
                   [acct |-> a, level |-> 0, zone |-> FALSE, key |-> FALSE]]
  /\ UNCHANGED <<row, groups, mapping, alias, tags, given, renewed>>

RemoveCharacter(c) ==
  /\ Command
  /\ c \in Characters
  /\ chars' = [chars EXCEPT ![c] = NoRow]
  /\ UNCHANGED <<row, groups, mapping, alias, tags, given, renewed>>

SetKey(c, has) ==
  /\ Command
  /\ c \in Characters
  /\ chars' = [chars EXCEPT ![c].key = has]
  /\ UNCHANGED <<row, groups, mapping, alias, tags, given, renewed>>

\* reset_rate_limit
ClearFailures ==
  /\ commands < MaxCommands
  /\ commands' = commands + 1
  /\ failures' = [d \in DOMAIN failures |-> 0]
  /\ UNCHANGED <<tables, sessions, handler, history>>

-----------------------------------------------------------------------------
(* Logging in *)

\* Mutant: one failure more than the limit.
MutLimited == failures.limited + failures.open > MaxFailures

\* is_ip_rate_limited
Limited == failures.limited + failures.open >= MaxFailures

Fails(d) == failures' = [failures EXCEPT ![d] = @ + 1]

\* A wrong key or a revoked one, at /auth or when a WebSocket opens.
BadKey ==
  /\ stage = "idle"
  /\ ~Limited
  /\ Fails("limited")
  /\ UNCHANGED <<tables, sessions, handler, commands, history>>

Begin(u, n, first) ==
  /\ stage = "idle"
  /\ stage' = first
  /\ who' = u
  /\ asked' = n

\* authenticate: a request to /auth that passes the limit, its key and the
\* checks of the client.
Authenticate(u, n) ==
  /\ Begin(u, n, "user")
  /\ ~Limited
  /\ door' = "limited"
  /\ UNCHANGED <<tables, sessions, failures, found, report, commands, history>>

\* _ws_handle_login_auth: no limit on a WebSocket that is open.
LoginAuth(u, n) ==
  /\ Begin(u, n, "user")
  /\ failures.open < MaxOpen
  /\ door' = "open"
  /\ UNCHANGED <<tables, sessions, failures, found, report, commands, history>>

Read(a, byTag) ==
  found' = [id |-> a, user |-> row[a].user, pass |-> row[a].pass, tag |-> byTag]

\* What the handler knew is gone.
End ==
  /\ stage' = "idle"
  /\ who' = NoRow
  /\ asked' = NoRow
  /\ found' = NoRow
  /\ report' = NoRow
  /\ door' = NoRow
  /\ raced' = {}

HandlerOnly ==
  UNCHANGED <<tables, sessions, who, asked, report, door, commands, history>>

\* The first three queries: one row or none.
Find(k) ==
  /\ k \in 1 .. 3
  /\ stage = Kinds[k]
  /\ IF Means(stage, asked) = {}
     THEN stage' = Kinds[k + 1] /\ UNCHANGED found
     ELSE stage' = "allow" /\ \E a \in Means(stage, asked) : Read(a, FALSE)
  /\ UNCHANGED failures
  /\ HandlerOnly

\* Mutant: the accounts in use are not passed over.
MutFindTag ==
  /\ stage = "tag"
  /\ LET as == Means("tag", asked) IN
       IF as = {} THEN stage' = "dynamic" /\ UNCHANGED found
       ELSE stage' = "allow" /\ \E a \in Tagged(asked, as) : Read(a, TRUE)
  /\ UNCHANGED failures
  /\ HandlerOnly

FindTag ==
  /\ stage = "tag"
  /\ LET as == Means("tag", asked)
         idle == {a \in as : Idle(a)}
     IN CASE as = {} -> stage' = "dynamic" /\ UNCHANGED found
          [] as # {} /\ idle = {} -> stage' = "empty" /\ UNCHANGED found
          [] OTHER -> stage' = "allow" /\ \E a \in Tagged(asked, idle) : Read(a, TRUE)
  /\ UNCHANGED failures
  /\ HandlerOnly

\* Characters first, and then their account by its rowid.
FindDynamic ==
  /\ stage = "dynamic"
  /\ LET idle == {a \in Means("dynamic", asked) : Idle(a)}
     IN CASE asked \notin Dynamic -> stage' = "missing" /\ UNCHANGED found
          [] asked \in Dynamic /\ idle = {} -> stage' = "empty" /\ UNCHANGED found
          [] OTHER -> stage' = "fetch" /\ \E a \in Matched(asked, idle) : Read(a, TRUE)
  /\ UNCHANGED failures
  /\ HandlerOnly

Fetch ==
  /\ stage = "fetch"
  /\ IF found.id \in Accounts
     THEN stage' = "allow" /\ Read(found.id, TRUE)
     ELSE stage' = "failed" /\ UNCHANGED found
  /\ UNCHANGED failures
  /\ HandlerOnly

\* Mutant: whoever has a key gets the account.
MutAllow ==
  /\ stage = "allow"
  /\ stage' = "load"
  /\ UNCHANGED <<failures, found>>
  /\ HandlerOnly

\* user_has_access_to_accounts: the first of its queries.
Allow ==
  /\ stage = "allow"
  /\ IF found.id \in Usable(who)
     THEN stage' = "load"
     ELSE stage' = "refused"
  /\ UNCHANGED <<failures, found>>
  /\ HandlerOnly

\* Its second query: the account may be gone.
Load ==
  /\ stage = "load"
  /\ stage' = IF found.id \in Accounts THEN "login" ELSE "refused"
  /\ UNCHANGED <<failures, found>>
  /\ HandlerOnly

\* The refusal is recorded, and counts.
Refuse ==
  /\ stage = "refused"
  /\ stage' = "denied"
  /\ Fails(door)
  /\ UNCHANGED found
  /\ HandlerOnly

\* The row of the account, if it is there, is used now.
Used(a) ==
  row' = IF a \in Accounts THEN [row EXCEPT ![a].age = 0] ELSE row

\* update_last_login_and_log, and the credentials read at the beginning leave.
Grant ==
  /\ stage = "login"
  /\ Used(found.id)
  /\ stage' = "granted"
  /\ given' = [given EXCEPT ![found.id] = 0]
  /\ UNCHANGED <<groups, mapping, chars, alias, tags, sessions, failures, who,
                 asked, found, report, door, commands, raced, renewed>>

\* The answer is sent, and the handler ends.
Answer ==
  /\ stage \in {"granted", "missing", "empty", "denied", "failed"}
  /\ End
  /\ UNCHANGED <<tables, sessions, failures, commands, given, renewed>>

-----------------------------------------------------------------------------
(* Playing: heartbeats and locations of clients *)

Hear(u, c) ==
  /\ Begin(u, c, "check")
  /\ c \in Characters
  /\ Read(chars[c].acct, FALSE)
  /\ UNCHANGED <<tables, sessions, failures, report, door, commands, history>>

\* The two queries of user_has_access_to_accounts again; a refusal is not recorded.
Check ==
  /\ stage = "check"
  /\ IF found.id \in Usable(who)
     THEN stage' = "present" /\ UNCHANGED <<who, asked, found, report, door, raced>>
     ELSE End
  /\ UNCHANGED <<tables, sessions, failures, commands, given, renewed>>

Present ==
  /\ stage = "present"
  /\ IF found.id \in Accounts
     THEN stage' = "touch" /\ UNCHANGED <<who, asked, found, report, door, raced>>
     ELSE End
  /\ UNCHANGED <<tables, sessions, failures, commands, given, renewed>>

\* Mutant: a heartbeat leaves last_login as it is.
MutTouch ==
  /\ stage = "touch"
  /\ stage' = "record"
  /\ UNCHANGED <<failures, found>>
  /\ HandlerOnly

\* update_last_login
Touch ==
  /\ stage = "touch"
  /\ Used(found.id)
  /\ stage' = "record"
  /\ UNCHANGED <<groups, mapping, chars, alias, tags, sessions, failures, who,
                 asked, found, report, door, commands, history>>

\* Mutant: the session of another user is not found.
MutRecord ==
  /\ stage = "record"
  /\ LET active == {s \in sessions : s.char = asked /\ s.user = who}
         new == [char |-> asked, acct |-> found.id, user |-> who, age |-> 0]
     IN IF active = {} THEN sessions' = sessions \cup {new}
        ELSE \E s \in active : sessions' = (sessions \ {s}) \cup {[s EXCEPT !.age = 0]}
  /\ stage' = "expire"
  /\ UNCHANGED <<tables, failures, who, asked, found, report, door, commands, history>>

\* record_heartbeat_session: the session of the character goes on, under the
\* account it began with, or a new one begins.
Record ==
  /\ stage = "record"
  /\ LET active == {s \in sessions : s.char = asked}
         new == [char |-> asked, acct |-> found.id, user |-> who, age |-> 0]
     IN IF active = {} THEN sessions' = sessions \cup {new}
        ELSE \E s \in active :
               sessions' = (sessions \ {s}) \cup {[s EXCEPT !.user = who, !.age = 0]}
  /\ stage' = "expire"
  /\ UNCHANGED <<tables, failures, who, asked, found, report, door, commands, history>>

\* A heartbeat ends here.  A location goes on with what it tells (which is
\* chosen here, where it begins to matter).
Shared ==
  /\ \/ End
     \/ /\ stage' = "update"
        /\ report' \in Report
        /\ UNCHANGED <<who, asked, found, door, raced>>
  /\ UNCHANGED <<tables, failures, commands, given, renewed>>

\* Mutant: the other characters of the same account end instead.
MutExpire ==
  /\ stage = "expire"
  /\ sessions' = {s \in sessions : s.user = who => s.acct # found.id \/ s.char = asked}
  /\ Shared

\* expire_other_sessions
Expire ==
  /\ stage = "expire"
  /\ sessions' = {s \in sessions : s.user = who => s.acct = found.id}
  /\ Shared

\* merge_keys_and_items_message: what the client does not tell stays.
Told(had) ==
  CASE report.key = "yes" -> TRUE
    [] report.key = "no" -> FALSE
    [] OTHER -> had

\* update_account_character, by the name of the character.
Update ==
  /\ stage = "update"
  /\ stage' = "mark"
  /\ chars' = IF asked \notin Characters THEN chars
              ELSE [chars EXCEPT ![asked] =
                      [@ EXCEPT !.level = report.level, !.zone = report.zone,
                                !.key = Told(chars[asked].key)]]
  /\ UNCHANGED <<row, groups, mapping, alias, tags, sessions, failures, who,
                 asked, found, report, door, commands, history>>

\* mark_key_from_park_zone: who is in the zone has its key.  (One keyed zone: of a
\* location, report.zone keeps whether it is the one in KEY_ZONE_TO_COLUMN.)
Mark ==
  /\ stage = "mark"
  /\ chars' = IF asked \in Characters /\ report.zone
              THEN [chars EXCEPT ![asked].key = TRUE] ELSE chars
  /\ End
  /\ UNCHANGED <<row, groups, mapping, alias, tags, sessions, failures, commands,
                 given, renewed>>

-----------------------------------------------------------------------------
(* Time *)

Older(n, cap) == Min({n + 1, cap})

\* A tick: ages grow, sessions end, and failures, the oldest first, leave the
\* window of the limit (which ones is left open).  A
\* handler takes less than a tick.
Tick ==
  /\ "tick" \notin raced
  /\ row' = [a \in Id |->
               IF a \in Accounts THEN [row[a] EXCEPT !.age = Older(@, Cold)] ELSE NoRow]
  /\ sessions' = {[s EXCEPT !.age = @ + 1] : s \in {s \in sessions : s.age < InUse}}
  /\ failures' \in {f \in [DOMAIN failures -> 0 .. MaxFailures + MaxOpen] :
                      \A d \in DOMAIN failures : f[d] <= failures[d]}
  /\ given' = [a \in Id |-> Older(given[a], InUse + 1)]
  /\ renewed' = {a \in renewed : \/ \E s \in sessions' : s.acct = a
                                 \/ Holds(a)}
  /\ raced' = IF stage = "idle" THEN raced ELSE raced \cup {"tick"}
  /\ UNCHANGED <<groups, mapping, chars, alias, tags, handler, commands>>

-----------------------------------------------------------------------------
(* The commands of administrators, and the handlers *)

AccountCommands ==
  \/ \E n \in AccountName, p \in Password :
       \E gs \in {{}} \cup {{g} : g \in groups} : CreateAccount(n, p, gs)
  \/ \E a \in Accounts, p \in Password : ChangePassword(a, p)
  \/ \E a \in Accounts : DeleteAccount(a)

GroupCommands ==
  \/ \E g \in Group : CreateGroup(g) \/ DeleteGroup(g)
  \/ \E g \in Group, a \in Accounts : AddToGroup(g, a) \/ RemoveFromGroup(g, a)

TagCommands ==
  \/ \E a \in Accounts, t \in Tag : TagAccount(a, t) \/ UntagAccount(a, t)
  \/ \E t, new \in Tag : RenameTag(t, new)

AliasCommands ==
  \/ \E a \in Accounts, h \in Alias : CreateAlias(a, h)
  \/ \E h \in Alias : DeleteAlias(h)

CharacterCommands ==
  \/ \E n \in Name, c \in Char : AddCharacter(n, c)
  \/ \E c \in Char : RemoveCharacter(c)
  \/ \E c \in Char, has \in BOOLEAN : SetKey(c, has)

Administer ==
  \/ AccountCommands \/ GroupCommands \/ TagCommands \/ AliasCommands
  \/ CharacterCommands \/ ClearFailures

LogIn ==
  \/ BadKey
  \/ \E u \in User, n \in Name : Authenticate(u, n) \/ LoginAuth(u, n)
  \/ \E k \in 1 .. 3 : Find(k)
  \/ FindTag \/ FindDynamic \/ Fetch \/ Allow \/ Load \/ Refuse \/ Grant \/ Answer

Play ==
  \/ \E u \in User, c \in Char : Hear(u, c)
  \/ Check \/ Present \/ Touch \/ Record \/ Expire \/ Update \/ Mark

Init ==
  /\ \E t \in Start :
       /\ row = t.row
       /\ groups = t.groups
       /\ mapping = t.mapping
       /\ chars = t.chars
       /\ alias = t.alias
       /\ tags = t.tags
       /\ sessions = t.sessions
  /\ failures = [d \in {"limited", "open"} |-> 0]
  /\ stage = "idle"
  /\ who = NoRow
  /\ asked = NoRow
  /\ found = NoRow
  /\ report = NoRow
  /\ door = NoRow
  /\ commands = 0
  /\ raced = {}
  /\ given = [a \in Id |-> InUse + 1]
  /\ renewed = {}

Next == Administer \/ LogIn \/ Play \/ Tick

Spec == Init /\ [][Next]_vars

-----------------------------------------------------------------------------
(* Properties *)

TypeOK ==
  /\ row \in [Id -> Maybe(Account)]
  /\ groups \subseteq Group
  /\ mapping \subseteq Group \X Id
  /\ chars \in [Char -> Maybe(Character)]
  /\ alias \in [Alias -> Maybe(Id)]
  /\ tags \subseteq Tag \X Id
  /\ sessions \subseteq Session
  /\ failures \in [{"limited", "open"} -> Nat]
  /\ stage \in Stages
  /\ who \in Maybe(User)
  /\ asked \in Maybe(Name)
  /\ found \in Maybe(Found)
  /\ report \in Maybe(Report)
  /\ door \in Maybe({"limited", "open"})
  /\ commands \in 0 .. MaxCommands
  /\ raced \subseteq {"command", "tick"}
  /\ given \in [Id -> 0 .. InUse + 1]
  /\ renewed \subseteq Id

\* Whatever names an account names one that is there.  SQLite does not see to
\* it, the relationships of SSOAccount do.
NothingDangles ==
  /\ \A c \in Characters : chars[c].acct \in Accounts
  /\ \A h \in Aliases : alias[h] \in Accounts
  /\ \A t \in tags : t[2] \in Accounts
  /\ \A m \in mapping : m[1] \in groups /\ m[2] \in Accounts

\* A character has one session, whoever plays it and under whatever account.
OneSessionEach == \A s, t \in sessions : s.char = t.char => s = t

\* What a handler knows at the transaction it comes to.
HandlerKnows ==
  /\ stage = "idle" => found = NoRow /\ raced = {}
  /\ stage = "fetch" => found.tag
  /\ stage \in {"fetch", "allow", "load", "login", "granted", "refused", "denied",
               "check", "present", "touch", "record", "expire", "update", "mark"} => found # NoRow
  /\ stage \in {"check", "present", "touch", "record", "expire", "update", "mark"} =>
        who \in User /\ asked \in Char
  /\ stage \in {"update", "mark"} => report \in Report

\* Whom a handler records as playing an account, it has just marked the account
\* as used for; whoever got credentials, too.
JustTouched ==
  stage \in {"record", "expire"} /\ found.id \in Accounts \ renewed =>
    row[found.id].age <= (IF "tick" \in raced THEN 1 ELSE 0)

GivenIsUsed ==
  \A a \in Accounts : given[a] <= InUse => row[a].age <= given[a]

\* Nobody has or plays an account that a tag is about to give away.
Unplayed(a) == a \in renewed \/ \A s \in sessions : s.acct = a => s.age = InUse

PooledIsIdle ==
  stage \in {"fetch", "allow", "load", "login"} /\ found.tag =>
    given[found.id] > InUse /\ Unplayed(found.id)

\* A request behind a door with a limit has room for one failure more.
RoomForFailure ==
  door = "limited" /\ stage \in {"user", "character", "alias", "tag", "dynamic", "fetch",
                                "allow", "load", "refused"} =>
    failures.limited < MaxFailures

LoginInv ==
  /\ TypeOK /\ NothingDangles /\ OneSessionEach
  /\ HandlerKnows /\ JustTouched /\ GivenIsUsed /\ PooledIsIdle /\ RoomForFailure

(***************************************************************************)
(* A user is shown on one account: outside the two transactions of a       *)
(* heartbeat his sessions agree, though characters move between accounts   *)
(* and users take characters over from each other.                         *)
(***************************************************************************)
OneAccountEach ==
  \A s, t \in sessions :
    s.user = t.user => s.acct = t.acct \/ (stage = "expire" /\ s.user = who)

(***************************************************************************)
(* An account that somebody is shown to play counts as in use, so that no   *)
(* tag gives it away: its last use is as recent as the last sign of the     *)
(* session, but for a tick between the two transactions of a heartbeat.     *)
(* (A rowid that a new account took over from one whose sessions go on is   *)
(* another matter.)                                                        *)
(***************************************************************************)
PlayedIsInUse ==
  \A s \in sessions :
    s.acct \in Accounts \ renewed =>
      \/ row[s.acct].age <= s.age + 1
      \/ stage = "expire" /\ s.user = who /\ s.acct # found.id

\* What a handler has read is what the table says; what one look would find; what
\* it has found out so far.
Current ==
  /\ found.id \in Accounts
  /\ row[found.id].user = found.user
  /\ row[found.id].pass = found.pass

Offered == Resolve(asked, TRUE)

LookedUp ==
  raced = {} =>
    /\ \A k \in 1 .. 5 :
         stage = Kinds[k] => \A j \in 1 .. k - 1 : Means(Kinds[j], asked) = {}
    /\ stage = "fetch" => Current /\ found.id \in Offered
    /\ stage = "refused" => found.id \notin Usable(who)
    /\ stage \in {"load", "login"} => Current /\ found.id \in Usable(who)

(***************************************************************************)
(* A handler that no command and no tick fell into answers as one look at   *)
(* the tables would, and lets those in that a group lets in.               *)
(***************************************************************************)
AnswersTheTables ==
  raced = {} =>
    /\ stage = "allow" => Current /\ found.id \in Offered
    /\ stage = "missing" => Standing(asked) = {} /\ asked \notin Dynamic
    /\ stage = "empty" =>
         /\ Offered = {}
         /\ Standing(asked) # {} \/ asked \in Dynamic
    /\ stage = "granted" => Current /\ found.id \in Usable(who)
    /\ stage = "denied" => found.id \notin Usable(who)
    /\ stage # "failed"

\* The failures through doors with a limit never exceed it, whatever comes
\* through the connections that are open.
FailuresBounded == failures.limited <= MaxFailures

(***************************************************************************)
(* A tag never gives away an account whose credentials somebody got, or     *)
(* that somebody played, within the time that it counts as in use (up to    *)
(* the same tick).                                                         *)
(***************************************************************************)
PoolExclusive ==
  [][stage = "login" /\ stage' = "granted" /\ found.tag =>
       given[found.id] > InUse /\ Unplayed(found.id)]_vars
=============================================================================
