--------------------------- MODULE SsoLoginProofs ---------------------------
(* Proofs about SsoLogin: who is shown on which account, which accounts a    *)
(* tag gives away, and how many failures an address has, for any tables,     *)
(* users, names and bounds.                                                  *)
EXTENDS SsoLogin, TLAPS

IInv == LoginInv /\ OneAccountEach /\ PlayedIsInUse /\ FailuresBounded

-----------------------------------------------------------------------------
(* What the helpers return *)

LEMMA Bounds ==
  /\ InUse \in Nat /\ Cold \in Nat /\ MaxFailures \in Nat /\ MaxOpen \in Nat
  /\ 0 \in 0 .. InUse
BY LoginAssumption

LEMMA OlderIs ==
  ASSUME NEW n \in Nat, NEW cap \in Nat
  PROVE  Older(n, cap) = IF n + 1 <= cap THEN n + 1 ELSE cap
<1> DEFINE m == IF n + 1 <= cap THEN n + 1 ELSE cap
<1>1. m \in {n + 1, cap} /\ \A y \in {n + 1, cap} : m <= y
  OBVIOUS
<1>2. \A x \in {n + 1, cap} : (\A y \in {n + 1, cap} : x <= y) => x = m
  OBVIOUS
<1> QED
  BY <1>1, <1>2 DEF Older, Min

\* What a name means is an account that is there.
LEMMA MeansIsThere ==
  ASSUME TypeOK, NothingDangles, NEW n, NEW kind \in {"user", "character", "alias", "tag", "dynamic"}
  PROVE  Means(kind, n) \subseteq Accounts
BY DEF Means, NothingDangles, TypeOK, Accounts, Characters, Aliases, Matching, Maybe, Character

LEMMA TaggedIsAmong == ASSUME NEW n, NEW as PROVE Tagged(n, as) \subseteq as
BY DEF Tagged, First

LEMMA MatchedIsAmong == ASSUME NEW n, NEW as PROVE Matched(n, as) \subseteq as
BY DEF Matched, First

LEMMA MinStanding ==
  ASSUME NEW n, Standing(n) # {}
  PROVE  /\ Min(Standing(n)) \in Standing(n) /\ Min(Standing(n)) \in 1 .. 5
         /\ \A j \in Standing(n) : Min(Standing(n)) <= j
<1>1. Standing(n) \subseteq 1 .. 5
  BY DEF Standing, Kinds
<1>2. \E x \in Standing(n) : \A y \in Standing(n) : x <= y
  BY <1>1
<1> QED
  BY <1>1, <1>2 DEF Min

LEMMA ResolvedIsThere ==
  ASSUME TypeOK, NothingDangles, NEW n, NEW idleOnly \in BOOLEAN
  PROVE  Resolve(n, idleOnly) \subseteq Accounts
<1> SUFFICES ASSUME Standing(n) # {} PROVE Resolve(n, idleOnly) \subseteq Accounts
  BY DEF Resolve
<1> DEFINE k == Min(Standing(n))
<1>2. k \in 1 .. 5
  BY MinStanding
<1>3. Kinds[k] \in {"user", "character", "alias", "tag", "dynamic"}
  BY <1>2 DEF Kinds
<1> DEFINE as == Means(Kinds[k], n)
           idle == {a \in as : Idle(a)}
<1>4. as \subseteq Accounts
  BY <1>3, MeansIsThere
<1>5. Resolve(n, idleOnly) =
        CASE Kinds[k] = "tag" -> Tagged(n, IF idleOnly THEN idle ELSE as)
          [] Kinds[k] = "dynamic" -> Matched(n, idle)
          [] OTHER -> as
  BY DEF Resolve
<1> HIDE DEF k
<1>6. /\ Tagged(n, as) \subseteq as /\ Tagged(n, idle) \subseteq idle
      /\ Matched(n, idle) \subseteq idle
  BY TaggedIsAmong, MatchedIsAmong
<1> QED
  BY <1>3, <1>4, <1>5, <1>6

LEMMA ReadIs ==
  ASSUME TypeOK, NEW a \in Accounts, NEW byTag \in BOOLEAN, Read(a, byTag)
  PROVE  found' \in Found /\ found' # NoRow /\ found'.id = a /\ found'.tag = byTag
<1>1. a \in Id /\ row[a] \in Account
  BY DEF TypeOK, Accounts, Maybe
<1>2. row[a].user \in AccountName /\ row[a].pass \in Password
  BY <1>1 DEF Account
<1> QED
  BY <1>1, <1>2, LoginAssumption DEF Read, Found

LEMMA IdleIsUnplayed ==
  ASSUME TypeOK, GivenIsUsed, PlayedIsInUse, stage # "expire", NEW a \in Accounts, Idle(a)
  PROVE  given[a] > InUse /\ Unplayed(a)
<1> USE Bounds
<1>1. a \in Id /\ row[a] \in Account /\ row[a].age \in Nat /\ row[a].age > InUse
  BY DEF TypeOK, Accounts, Maybe, Account, Idle
<1>2. given[a] \in Nat
  BY <1>1 DEF TypeOK
<1>3. given[a] > InUse
  BY <1>1, <1>2 DEF GivenIsUsed
<1>4. ASSUME NEW s \in sessions, s.acct = a, a \notin renewed PROVE s.age = InUse
  <2>1. s.age \in 0 .. InUse
    BY DEF TypeOK, Session
  <2>2. row[a].age <= s.age + 1
    BY <1>4 DEF PlayedIsInUse
  <2> QED
    BY <1>1, <2>1, <2>2
<1> QED
  BY <1>3, <1>4 DEF Unplayed

-----------------------------------------------------------------------------
(* The invariant: one lemma per action *)

LEMMA InitKeeps == Init => IInv
<1> SUFFICES ASSUME Init PROVE IInv
  OBVIOUS
<1> USE LoginAssumption
<1> USE DEF Accounts
<1>1. PICK t \in Start :
        /\ row = t.row /\ groups = t.groups /\ mapping = t.mapping /\ chars = t.chars
        /\ alias = t.alias /\ tags = t.tags /\ sessions = t.sessions
  BY DEF Init
<1>2. Sound(t)
  OBVIOUS
<1>3. TypeOK
  BY <1>1, <1>2 DEF Init, Sound, TypeOK, Maybe, Stages
<1>4. NothingDangles
  <2>1. \A c \in Characters : chars[c].acct \in Accounts
    BY <1>1, <1>2 DEF Sound, Characters, Maybe, Character
  <2>2. \A h \in Aliases : alias[h] \in Accounts
    BY <1>1, <1>2 DEF Sound, Aliases, Maybe
  <2>3. (\A x \in tags : x[2] \in Accounts) /\ \A m \in mapping : m[1] \in groups /\ m[2] \in Accounts
    <3>1. tags \subseteq Tag \X Id /\ mapping \subseteq groups \X Id
      BY <1>1, <1>2 DEF Sound
    <3>2. \A x \in tags \cup mapping : row[x[2]] # NoRow
      BY <1>1, <1>2 DEF Sound
    <3> QED
      BY <3>1, <3>2
  <2> QED
    BY <2>1, <2>2, <2>3 DEF NothingDangles
<1>8. OneSessionEach
  BY <1>1, <1>2 DEF Sound, OneSessionEach
<1>9. OneAccountEach
  BY <1>1, <1>2 DEF Init, Sound, OneAccountEach
<1>5. PlayedIsInUse
  BY <1>1, <1>2 DEF Init, Sound, PlayedIsInUse
<1>6. HandlerKnows /\ JustTouched /\ GivenIsUsed /\ PooledIsIdle
  BY <1>3 DEF Init, HandlerKnows, JustTouched, GivenIsUsed, PooledIsIdle, TypeOK
<1>7. RoomForFailure /\ FailuresBounded
  BY DEF Init, RoomForFailure, FailuresBounded
<1> QED
  BY <1>3, <1>4, <1>5, <1>6, <1>7, <1>8, <1>9 DEF IInv, LoginInv

LEMMA CreateAccountKeeps ==
  ASSUME IInv, NEW n \in AccountName, NEW p \in Password, NEW gs \in SUBSET groups, CreateAccount(n, p, gs)
  PROVE  IInv'
<1> USE LoginAssumption
<1> USE DEF IInv, LoginInv, Accounts, CreateAccount, Command, Holds, handler, history
<1>1. TypeOK'
  <2>1. NewId \in Id /\ [user |-> n, pass |-> p, age |-> Cold] \in Account
    BY DEF Account
  <2>2. row' \in [Id -> Maybe(Account)]
    BY <2>1 DEF TypeOK, Maybe
  <2>3. mapping' \subseteq Group \X Id
    BY <2>1 DEF TypeOK
  <2>4. given' \in [Id -> 0 .. InUse + 1] /\ renewed' \subseteq Id
    BY <2>1 DEF TypeOK
  <2>5. commands' \in 0 .. MaxCommands /\ raced' \subseteq {"command", "tick"}
    BY DEF TypeOK
  <2> QED
    BY <2>2, <2>3, <2>4, <2>5 DEF TypeOK
<1>2. NothingDangles'
  BY DEF TypeOK, NothingDangles, Characters, Aliases, Maybe, Account, Character
<1>3. OneSessionEach'
  BY DEF OneSessionEach, TypeOK, Session
<1>4. HandlerKnows'
  BY DEF HandlerKnows, TypeOK, Stages, Found, Maybe
<1>5. JustTouched'
  BY DEF JustTouched, HandlerKnows, TypeOK, Account, Maybe, Found
<1>6. GivenIsUsed'
  BY DEF GivenIsUsed, TypeOK, Account, Maybe, Found, HandlerKnows
<1>7. PooledIsIdle'
  BY DEF PooledIsIdle, Unplayed, HandlerKnows, TypeOK, Found, Session, Maybe
<1>8. RoomForFailure'
  BY DEF RoomForFailure, HandlerKnows, TypeOK
<1>9. OneAccountEach'
  BY DEF OneAccountEach, OneSessionEach, TypeOK, Session, HandlerKnows
<1>10. PlayedIsInUse'
  BY DEF PlayedIsInUse, TypeOK, Session, Account, Maybe, HandlerKnows
<1>11. FailuresBounded'
  BY DEF FailuresBounded, RoomForFailure, TypeOK
<1> QED
  BY <1>1, <1>2, <1>3, <1>4, <1>5, <1>6, <1>7, <1>8, <1>9, <1>10, <1>11

LEMMA ChangePasswordKeeps ==
  ASSUME IInv, NEW a \in Accounts, NEW p \in Password, ChangePassword(a, p)
  PROVE  IInv'
<1> USE LoginAssumption
<1> USE DEF IInv, LoginInv, Accounts, ChangePassword, Command, handler, history
<1>1. TypeOK'
  BY DEF TypeOK, Maybe, Account, Character, Session, Found, Stages, Characters, Aliases
<1>2. NothingDangles'
  BY DEF TypeOK, NothingDangles, Characters, Aliases, Maybe, Account, Character
<1>3. OneSessionEach'
  BY DEF OneSessionEach, TypeOK, Session
<1>4. HandlerKnows'
  BY DEF HandlerKnows, TypeOK, Stages, Found, Maybe
<1>5. JustTouched'
  BY DEF JustTouched, HandlerKnows, TypeOK, Account, Maybe, Found
<1>6. GivenIsUsed'
  BY DEF GivenIsUsed, TypeOK, Account, Maybe, Found, HandlerKnows
<1>7. PooledIsIdle'
  BY DEF PooledIsIdle, Unplayed, HandlerKnows, TypeOK, Found, Session, Maybe
<1>8. RoomForFailure'
  BY DEF RoomForFailure, HandlerKnows, TypeOK
<1>9. OneAccountEach'
  BY DEF OneAccountEach, OneSessionEach, TypeOK, Session, HandlerKnows
<1>10. PlayedIsInUse'
  BY DEF PlayedIsInUse, TypeOK, Session, Account, Maybe, HandlerKnows
<1>11. FailuresBounded'
  BY DEF FailuresBounded, RoomForFailure, TypeOK
<1> QED
  BY <1>1, <1>2, <1>3, <1>4, <1>5, <1>6, <1>7, <1>8, <1>9, <1>10, <1>11

LEMMA DeleteAccountKeeps ==
  ASSUME IInv, NEW a \in Accounts, DeleteAccount(a)
  PROVE  IInv'
<1> USE LoginAssumption
<1> USE DEF IInv, LoginInv, Accounts, DeleteAccount, Command, handler, history
<1>1. TypeOK'
  BY DEF TypeOK, Maybe, Account, Character, Session, Found, Stages, Characters, Aliases
<1>2. NothingDangles'
  BY DEF TypeOK, NothingDangles, Characters, Aliases, Maybe, Account, Character
<1>3. OneSessionEach'
  BY DEF OneSessionEach, TypeOK, Session
<1>4. HandlerKnows'
  BY DEF HandlerKnows, TypeOK, Stages, Found, Maybe
<1>5. JustTouched'
  BY DEF JustTouched, HandlerKnows, TypeOK, Account, Maybe, Found
<1>6. GivenIsUsed'
  BY DEF GivenIsUsed
<1>7. PooledIsIdle'
  BY DEF PooledIsIdle, Unplayed, HandlerKnows, TypeOK, Found, Session, Maybe
<1>8. RoomForFailure'
  BY DEF RoomForFailure, HandlerKnows, TypeOK
<1>9. OneAccountEach'
  BY DEF OneAccountEach, OneSessionEach, TypeOK, Session, HandlerKnows
<1>10. PlayedIsInUse'
  BY DEF PlayedIsInUse, TypeOK, Session, Account, Maybe, HandlerKnows
<1>11. FailuresBounded'
  BY DEF FailuresBounded, RoomForFailure, TypeOK
<1> QED
  BY <1>1, <1>2, <1>3, <1>4, <1>5, <1>6, <1>7, <1>8, <1>9, <1>10, <1>11

LEMMA CreateGroupKeeps ==
  ASSUME IInv, NEW g \in Group, CreateGroup(g)
  PROVE  IInv'
<1> USE LoginAssumption
<1> USE DEF IInv, LoginInv, Accounts, CreateGroup, Command, handler, history
<1>1. TypeOK'
  BY DEF TypeOK, Maybe, Account, Character, Session, Found, Stages, Characters, Aliases
<1>2. NothingDangles'
  BY DEF TypeOK, NothingDangles, Characters, Aliases, Maybe, Account, Character
<1>3. OneSessionEach'
  BY DEF OneSessionEach, TypeOK, Session
<1>4. HandlerKnows'
  BY DEF HandlerKnows, TypeOK, Stages, Found, Maybe
<1>5. JustTouched'
  BY DEF JustTouched, HandlerKnows, TypeOK, Account, Maybe, Found
<1>6. GivenIsUsed'
  BY DEF GivenIsUsed
<1>7. PooledIsIdle'
  BY DEF PooledIsIdle, Unplayed, HandlerKnows, TypeOK, Found, Session, Maybe
<1>8. RoomForFailure'
  BY DEF RoomForFailure, HandlerKnows, TypeOK
<1>9. OneAccountEach'
  BY DEF OneAccountEach, OneSessionEach, TypeOK, Session, HandlerKnows
<1>10. PlayedIsInUse'
  BY DEF PlayedIsInUse, TypeOK, Session, Account, Maybe, HandlerKnows
<1>11. FailuresBounded'
  BY DEF FailuresBounded, RoomForFailure, TypeOK
<1> QED
  BY <1>1, <1>2, <1>3, <1>4, <1>5, <1>6, <1>7, <1>8, <1>9, <1>10, <1>11

LEMMA DeleteGroupKeeps ==
  ASSUME IInv, NEW g \in Group, DeleteGroup(g)
  PROVE  IInv'
<1> USE LoginAssumption
<1> USE DEF IInv, LoginInv, Accounts, DeleteGroup, Command, handler, history
<1>1. TypeOK'
  BY DEF TypeOK, Maybe, Account, Character, Session, Found, Stages, Characters, Aliases
<1>2. NothingDangles'
  BY DEF TypeOK, NothingDangles, Characters, Aliases, Maybe, Account, Character
<1>3. OneSessionEach'
  BY DEF OneSessionEach, TypeOK, Session
<1>4. HandlerKnows'
  BY DEF HandlerKnows, TypeOK, Stages, Found, Maybe
<1>5. JustTouched'
  BY DEF JustTouched, HandlerKnows, TypeOK, Account, Maybe, Found
<1>6. GivenIsUsed'
  BY DEF GivenIsUsed
<1>7. PooledIsIdle'
  BY DEF PooledIsIdle, Unplayed, HandlerKnows, TypeOK, Found, Session, Maybe
<1>8. RoomForFailure'
  BY DEF RoomForFailure, HandlerKnows, TypeOK
<1>9. OneAccountEach'
  BY DEF OneAccountEach, OneSessionEach, TypeOK, Session, HandlerKnows
<1>10. PlayedIsInUse'
  BY DEF PlayedIsInUse, TypeOK, Session, Account, Maybe, HandlerKnows
<1>11. FailuresBounded'
  BY DEF FailuresBounded, RoomForFailure, TypeOK
<1> QED
  BY <1>1, <1>2, <1>3, <1>4, <1>5, <1>6, <1>7, <1>8, <1>9, <1>10, <1>11

LEMMA AddToGroupKeeps ==
  ASSUME IInv, NEW g \in Group, NEW a \in Accounts, AddToGroup(g, a)
  PROVE  IInv'
<1> USE LoginAssumption
<1> USE DEF IInv, LoginInv, Accounts, AddToGroup, Command, handler, history
<1>1. TypeOK'
  BY DEF TypeOK, Maybe, Account, Character, Session, Found, Stages, Characters, Aliases
<1>2. NothingDangles'
  BY DEF TypeOK, NothingDangles, Characters, Aliases, Maybe, Account, Character
<1>3. OneSessionEach'
  BY DEF OneSessionEach, TypeOK, Session
<1>4. HandlerKnows'
  BY DEF HandlerKnows, TypeOK, Stages, Found, Maybe
<1>5. JustTouched'
  BY DEF JustTouched, HandlerKnows, TypeOK, Account, Maybe, Found
<1>6. GivenIsUsed'
  BY DEF GivenIsUsed
<1>7. PooledIsIdle'
  BY DEF PooledIsIdle, Unplayed, HandlerKnows, TypeOK, Found, Session, Maybe
<1>8. RoomForFailure'
  BY DEF RoomForFailure, HandlerKnows, TypeOK
<1>9. OneAccountEach'
  BY DEF OneAccountEach, OneSessionEach, TypeOK, Session, HandlerKnows
<1>10. PlayedIsInUse'
  BY DEF PlayedIsInUse, TypeOK, Session, Account, Maybe, HandlerKnows
<1>11. FailuresBounded'
  BY DEF FailuresBounded, RoomForFailure, TypeOK
<1> QED
  BY <1>1, <1>2, <1>3, <1>4, <1>5, <1>6, <1>7, <1>8, <1>9, <1>10, <1>11

LEMMA RemoveFromGroupKeeps ==
  ASSUME IInv, NEW g \in Group, NEW a \in Accounts, RemoveFromGroup(g, a)
  PROVE  IInv'
<1> USE LoginAssumption
<1> USE DEF IInv, LoginInv, Accounts, RemoveFromGroup, Command, handler, history
<1>1. TypeOK'
  BY DEF TypeOK, Maybe, Account, Character, Session, Found, Stages, Characters, Aliases
<1>2. NothingDangles'
  BY DEF TypeOK, NothingDangles, Characters, Aliases, Maybe, Account, Character
<1>3. OneSessionEach'
  BY DEF OneSessionEach, TypeOK, Session
<1>4. HandlerKnows'
  BY DEF HandlerKnows, TypeOK, Stages, Found, Maybe
<1>5. JustTouched'
  BY DEF JustTouched, HandlerKnows, TypeOK, Account, Maybe, Found
<1>6. GivenIsUsed'
  BY DEF GivenIsUsed
<1>7. PooledIsIdle'
  BY DEF PooledIsIdle, Unplayed, HandlerKnows, TypeOK, Found, Session, Maybe
<1>8. RoomForFailure'
  BY DEF RoomForFailure, HandlerKnows, TypeOK
<1>9. OneAccountEach'
  BY DEF OneAccountEach, OneSessionEach, TypeOK, Session, HandlerKnows
<1>10. PlayedIsInUse'
  BY DEF PlayedIsInUse, TypeOK, Session, Account, Maybe, HandlerKnows
<1>11. FailuresBounded'
  BY DEF FailuresBounded, RoomForFailure, TypeOK
<1> QED
  BY <1>1, <1>2, <1>3, <1>4, <1>5, <1>6, <1>7, <1>8, <1>9, <1>10, <1>11

LEMMA TagAccountKeeps ==
  ASSUME IInv, NEW a \in Accounts, NEW t \in Tag, TagAccount(a, t)
  PROVE  IInv'
<1> USE LoginAssumption
<1> USE DEF IInv, LoginInv, Accounts, TagAccount, Command, handler, history
<1>1. TypeOK'
  BY DEF TypeOK, Maybe, Account, Character, Session, Found, Stages, Characters, Aliases
<1>2. NothingDangles'
  BY DEF TypeOK, NothingDangles, Characters, Aliases, Maybe, Account, Character
<1>3. OneSessionEach'
  BY DEF OneSessionEach, TypeOK, Session
<1>4. HandlerKnows'
  BY DEF HandlerKnows, TypeOK, Stages, Found, Maybe
<1>5. JustTouched'
  BY DEF JustTouched, HandlerKnows, TypeOK, Account, Maybe, Found
<1>6. GivenIsUsed'
  BY DEF GivenIsUsed
<1>7. PooledIsIdle'
  BY DEF PooledIsIdle, Unplayed, HandlerKnows, TypeOK, Found, Session, Maybe
<1>8. RoomForFailure'
  BY DEF RoomForFailure, HandlerKnows, TypeOK
<1>9. OneAccountEach'
  BY DEF OneAccountEach, OneSessionEach, TypeOK, Session, HandlerKnows
<1>10. PlayedIsInUse'
  BY DEF PlayedIsInUse, TypeOK, Session, Account, Maybe, HandlerKnows
<1>11. FailuresBounded'
  BY DEF FailuresBounded, RoomForFailure, TypeOK
<1> QED
  BY <1>1, <1>2, <1>3, <1>4, <1>5, <1>6, <1>7, <1>8, <1>9, <1>10, <1>11

LEMMA UntagAccountKeeps ==
  ASSUME IInv, NEW a \in Accounts, NEW t \in Tag, UntagAccount(a, t)
  PROVE  IInv'
<1> USE LoginAssumption
<1> USE DEF IInv, LoginInv, Accounts, UntagAccount, Command, handler, history
<1>1. TypeOK'
  BY DEF TypeOK, Maybe, Account, Character, Session, Found, Stages, Characters, Aliases
<1>2. NothingDangles'
  BY DEF TypeOK, NothingDangles, Characters, Aliases, Maybe, Account, Character
<1>3. OneSessionEach'
  BY DEF OneSessionEach, TypeOK, Session
<1>4. HandlerKnows'
  BY DEF HandlerKnows, TypeOK, Stages, Found, Maybe
<1>5. JustTouched'
  BY DEF JustTouched, HandlerKnows, TypeOK, Account, Maybe, Found
<1>6. GivenIsUsed'
  BY DEF GivenIsUsed
<1>7. PooledIsIdle'
  BY DEF PooledIsIdle, Unplayed, HandlerKnows, TypeOK, Found, Session, Maybe
<1>8. RoomForFailure'
  BY DEF RoomForFailure, HandlerKnows, TypeOK
<1>9. OneAccountEach'
  BY DEF OneAccountEach, OneSessionEach, TypeOK, Session, HandlerKnows
<1>10. PlayedIsInUse'
  BY DEF PlayedIsInUse, TypeOK, Session, Account, Maybe, HandlerKnows
<1>11. FailuresBounded'
  BY DEF FailuresBounded, RoomForFailure, TypeOK
<1> QED
  BY <1>1, <1>2, <1>3, <1>4, <1>5, <1>6, <1>7, <1>8, <1>9, <1>10, <1>11

LEMMA RenameTagKeeps ==
  ASSUME IInv, NEW t \in Tag, NEW new \in Tag, RenameTag(t, new)
  PROVE  IInv'
<1> USE LoginAssumption
<1> USE DEF IInv, LoginInv, Accounts, RenameTag, Command, handler, history
<1>1. TypeOK'
  BY DEF TypeOK, Maybe, Account, Character, Session, Found, Stages, Characters, Aliases
<1>2. NothingDangles'
  BY DEF TypeOK, NothingDangles, Characters, Aliases, Maybe, Account, Character
<1>3. OneSessionEach'
  BY DEF OneSessionEach, TypeOK, Session
<1>4. HandlerKnows'
  BY DEF HandlerKnows, TypeOK, Stages, Found, Maybe
<1>5. JustTouched'
  BY DEF JustTouched, HandlerKnows, TypeOK, Account, Maybe, Found
<1>6. GivenIsUsed'
  BY DEF GivenIsUsed
<1>7. PooledIsIdle'
  BY DEF PooledIsIdle, Unplayed, HandlerKnows, TypeOK, Found, Session, Maybe
<1>8. RoomForFailure'
  BY DEF RoomForFailure, HandlerKnows, TypeOK
<1>9. OneAccountEach'
  BY DEF OneAccountEach, OneSessionEach, TypeOK, Session, HandlerKnows
<1>10. PlayedIsInUse'
  BY DEF PlayedIsInUse, TypeOK, Session, Account, Maybe, HandlerKnows
<1>11. FailuresBounded'
  BY DEF FailuresBounded, RoomForFailure, TypeOK
<1> QED
  BY <1>1, <1>2, <1>3, <1>4, <1>5, <1>6, <1>7, <1>8, <1>9, <1>10, <1>11

LEMMA CreateAliasKeeps ==
  ASSUME IInv, NEW a \in Accounts, NEW h \in Alias, CreateAlias(a, h)
  PROVE  IInv'
<1> USE LoginAssumption
<1> USE DEF IInv, LoginInv, Accounts, CreateAlias, Command, handler, history
<1>1. TypeOK'
  BY DEF TypeOK, Maybe, Account, Character, Session, Found, Stages, Characters, Aliases
<1>2. NothingDangles'
  BY DEF TypeOK, NothingDangles, Characters, Aliases, Maybe, Account, Character
<1>3. OneSessionEach'
  BY DEF OneSessionEach, TypeOK, Session
<1>4. HandlerKnows'
  BY DEF HandlerKnows, TypeOK, Stages, Found, Maybe
<1>5. JustTouched'
  BY DEF JustTouched, HandlerKnows, TypeOK, Account, Maybe, Found
<1>6. GivenIsUsed'
  BY DEF GivenIsUsed
<1>7. PooledIsIdle'
  BY DEF PooledIsIdle, Unplayed, HandlerKnows, TypeOK, Found, Session, Maybe
<1>8. RoomForFailure'
  BY DEF RoomForFailure, HandlerKnows, TypeOK
<1>9. OneAccountEach'
  BY DEF OneAccountEach, OneSessionEach, TypeOK, Session, HandlerKnows
<1>10. PlayedIsInUse'
  BY DEF PlayedIsInUse, TypeOK, Session, Account, Maybe, HandlerKnows
<1>11. FailuresBounded'
  BY DEF FailuresBounded, RoomForFailure, TypeOK
<1> QED
  BY <1>1, <1>2, <1>3, <1>4, <1>5, <1>6, <1>7, <1>8, <1>9, <1>10, <1>11

LEMMA DeleteAliasKeeps ==
  ASSUME IInv, NEW h \in Alias, DeleteAlias(h)
  PROVE  IInv'
<1> USE LoginAssumption
<1> USE DEF IInv, LoginInv, Accounts, DeleteAlias, Command, handler, history
<1>1. TypeOK'
  BY DEF TypeOK, Maybe, Account, Character, Session, Found, Stages, Characters, Aliases
<1>2. NothingDangles'
  BY DEF TypeOK, NothingDangles, Characters, Aliases, Maybe, Account, Character
<1>3. OneSessionEach'
  BY DEF OneSessionEach, TypeOK, Session
<1>4. HandlerKnows'
  BY DEF HandlerKnows, TypeOK, Stages, Found, Maybe
<1>5. JustTouched'
  BY DEF JustTouched, HandlerKnows, TypeOK, Account, Maybe, Found
<1>6. GivenIsUsed'
  BY DEF GivenIsUsed
<1>7. PooledIsIdle'
  BY DEF PooledIsIdle, Unplayed, HandlerKnows, TypeOK, Found, Session, Maybe
<1>8. RoomForFailure'
  BY DEF RoomForFailure, HandlerKnows, TypeOK
<1>9. OneAccountEach'
  BY DEF OneAccountEach, OneSessionEach, TypeOK, Session, HandlerKnows
<1>10. PlayedIsInUse'
  BY DEF PlayedIsInUse, TypeOK, Session, Account, Maybe, HandlerKnows
<1>11. FailuresBounded'
  BY DEF FailuresBounded, RoomForFailure, TypeOK
<1> QED
  BY <1>1, <1>2, <1>3, <1>4, <1>5, <1>6, <1>7, <1>8, <1>9, <1>10, <1>11

LEMMA AddCharacterKeeps ==
  ASSUME IInv, NEW n \in Name, NEW c \in Char, AddCharacter(n, c)
  PROVE  IInv'
<1> USE LoginAssumption
<1> USE DEF IInv, LoginInv, Accounts, AddCharacter, Command, handler, history
<1>a. PICK a \in Accounts :
        chars' = [chars EXCEPT ![c] = [acct |-> a, level |-> 0, zone |-> FALSE, key |-> FALSE]]
  BY ResolvedIsThere DEF Accounts
<1>b. a \in Id /\ row[a] # NoRow
  BY DEF Accounts
<1>c. /\ commands < MaxCommands /\ commands' = commands + 1
      /\ raced' = IF stage = "idle" THEN raced ELSE raced \cup {"command"}
      /\ UNCHANGED <<row, groups, mapping, alias, tags, given, renewed, sessions, failures,
                     stage, who, asked, found, report, door>>
  OBVIOUS
<1> HIDE DEF AddCharacter, Command, handler
<1>1. TypeOK'
  <2>1. 0 \in Level
    BY DEF Level
  <2>2. [acct |-> a, level |-> 0, zone |-> FALSE, key |-> FALSE] \in Character
    BY <1>b, <2>1 DEF Character
  <2>3. chars' \in [Char -> Maybe(Character)]
    BY <1>a, <2>2 DEF TypeOK, Maybe
  <2>4. raced' \subseteq {"command", "tick"} /\ commands' \in 0 .. MaxCommands
    BY <1>c DEF TypeOK
  <2> QED
    BY <1>c, <2>3, <2>4 DEF TypeOK
<1>2. NothingDangles'
  BY <1>a, <1>b, <1>c DEF TypeOK, NothingDangles, Characters, Aliases, Maybe, Account, Character
<1>3. OneSessionEach'
  BY <1>a, <1>b, <1>c DEF OneSessionEach, TypeOK, Session
<1>4. HandlerKnows'
  BY <1>a, <1>b, <1>c DEF HandlerKnows, TypeOK, Stages, Found, Maybe
<1>5. JustTouched'
  BY <1>a, <1>b, <1>c DEF JustTouched, HandlerKnows, TypeOK, Account, Maybe, Found
<1>6. GivenIsUsed'
  BY <1>a, <1>b, <1>c DEF GivenIsUsed
<1>7. PooledIsIdle'
  BY <1>a, <1>b, <1>c DEF PooledIsIdle, Unplayed, HandlerKnows, TypeOK, Found, Session, Maybe
<1>8. RoomForFailure'
  BY <1>a, <1>b, <1>c DEF RoomForFailure, HandlerKnows, TypeOK
<1>9. OneAccountEach'
  BY <1>a, <1>b, <1>c DEF OneAccountEach, OneSessionEach, TypeOK, Session, HandlerKnows
<1>10. PlayedIsInUse'
  BY <1>a, <1>b, <1>c DEF PlayedIsInUse, TypeOK, Session, Account, Maybe, HandlerKnows
<1>11. FailuresBounded'
  BY <1>a, <1>b, <1>c DEF FailuresBounded, RoomForFailure, TypeOK
<1> QED
  BY <1>1, <1>2, <1>3, <1>4, <1>5, <1>6, <1>7, <1>8, <1>9, <1>10, <1>11

LEMMA RemoveCharacterKeeps ==
  ASSUME IInv, NEW c \in Char, RemoveCharacter(c)
  PROVE  IInv'
<1> USE LoginAssumption
<1> USE DEF IInv, LoginInv, Accounts, RemoveCharacter, Command, handler, history
<1>1. TypeOK'
  BY DEF TypeOK, Maybe, Account, Character, Session, Found, Stages, Characters, Aliases
<1>2. NothingDangles'
  BY DEF TypeOK, NothingDangles, Characters, Aliases, Maybe, Account, Character
<1>3. OneSessionEach'
  BY DEF OneSessionEach, TypeOK, Session
<1>4. HandlerKnows'
  BY DEF HandlerKnows, TypeOK, Stages, Found, Maybe
<1>5. JustTouched'
  BY DEF JustTouched, HandlerKnows, TypeOK, Account, Maybe, Found
<1>6. GivenIsUsed'
  BY DEF GivenIsUsed
<1>7. PooledIsIdle'
  BY DEF PooledIsIdle, Unplayed, HandlerKnows, TypeOK, Found, Session, Maybe
<1>8. RoomForFailure'
  BY DEF RoomForFailure, HandlerKnows, TypeOK
<1>9. OneAccountEach'
  BY DEF OneAccountEach, OneSessionEach, TypeOK, Session, HandlerKnows
<1>10. PlayedIsInUse'
  BY DEF PlayedIsInUse, TypeOK, Session, Account, Maybe, HandlerKnows
<1>11. FailuresBounded'
  BY DEF FailuresBounded, RoomForFailure, TypeOK
<1> QED
  BY <1>1, <1>2, <1>3, <1>4, <1>5, <1>6, <1>7, <1>8, <1>9, <1>10, <1>11

LEMMA SetKeyKeeps ==
  ASSUME IInv, NEW c \in Char, NEW has \in BOOLEAN, SetKey(c, has)
  PROVE  IInv'
<1> USE LoginAssumption
<1> USE DEF IInv, LoginInv, Accounts, SetKey, Command, handler, history
<1>1. TypeOK'
  BY DEF TypeOK, Maybe, Account, Character, Session, Found, Stages, Characters, Aliases
<1>2. NothingDangles'
  BY DEF TypeOK, NothingDangles, Characters, Aliases, Maybe, Account, Character
<1>3. OneSessionEach'
  BY DEF OneSessionEach, TypeOK, Session
<1>4. HandlerKnows'
  BY DEF HandlerKnows, TypeOK, Stages, Found, Maybe
<1>5. JustTouched'
  BY DEF JustTouched, HandlerKnows, TypeOK, Account, Maybe, Found
<1>6. GivenIsUsed'
  BY DEF GivenIsUsed
<1>7. PooledIsIdle'
  BY DEF PooledIsIdle, Unplayed, HandlerKnows, TypeOK, Found, Session, Maybe
<1>8. RoomForFailure'
  BY DEF RoomForFailure, HandlerKnows, TypeOK
<1>9. OneAccountEach'
  BY DEF OneAccountEach, OneSessionEach, TypeOK, Session, HandlerKnows
<1>10. PlayedIsInUse'
  BY DEF PlayedIsInUse, TypeOK, Session, Account, Maybe, HandlerKnows
<1>11. FailuresBounded'
  BY DEF FailuresBounded, RoomForFailure, TypeOK
<1> QED
  BY <1>1, <1>2, <1>3, <1>4, <1>5, <1>6, <1>7, <1>8, <1>9, <1>10, <1>11

LEMMA ClearFailuresKeeps ==
  ASSUME IInv, ClearFailures
  PROVE  IInv'
<1> USE LoginAssumption
<1> USE DEF IInv, LoginInv, Accounts, ClearFailures, tables, handler, history
<1>1. TypeOK'
  BY DEF TypeOK, Maybe, Account, Character, Session, Found, Stages, Characters, Aliases
<1>2. NothingDangles'
  BY DEF TypeOK, NothingDangles, Characters, Aliases, Maybe, Account, Character
<1>3. OneSessionEach'
  BY DEF OneSessionEach, TypeOK, Session
<1>4. HandlerKnows'
  BY DEF HandlerKnows, TypeOK, Stages, Found, Maybe
<1>5. JustTouched'
  BY DEF JustTouched, HandlerKnows, TypeOK, Account, Maybe, Found
<1>6. GivenIsUsed'
  BY DEF GivenIsUsed
<1>7. PooledIsIdle'
  BY DEF PooledIsIdle, Unplayed, HandlerKnows, TypeOK, Found, Session, Maybe
<1>8. RoomForFailure'
  BY DEF RoomForFailure, HandlerKnows, TypeOK
<1>9. OneAccountEach'
  BY DEF OneAccountEach, OneSessionEach, TypeOK, Session, HandlerKnows
<1>10. PlayedIsInUse'
  BY DEF PlayedIsInUse, TypeOK, Session, Account, Maybe, HandlerKnows
<1>11. FailuresBounded'
  BY DEF FailuresBounded, RoomForFailure, TypeOK
<1> QED
  BY <1>1, <1>2, <1>3, <1>4, <1>5, <1>6, <1>7, <1>8, <1>9, <1>10, <1>11

LEMMA BadKeyKeeps ==
  ASSUME IInv, BadKey
  PROVE  IInv'
<1> USE LoginAssumption
<1> USE DEF IInv, LoginInv, Accounts, BadKey, Fails, Limited, tables, handler, history
<1>1. TypeOK'
  BY DEF TypeOK, Maybe, Account, Character, Session, Found, Stages, Characters, Aliases
<1>2. NothingDangles'
  BY DEF TypeOK, NothingDangles, Characters, Aliases, Maybe, Account, Character
<1>3. OneSessionEach'
  BY DEF OneSessionEach, TypeOK, Session
<1>4. HandlerKnows'
  BY DEF HandlerKnows, TypeOK, Stages, Found, Maybe
<1>5. JustTouched'
  BY DEF JustTouched, HandlerKnows, TypeOK, Account, Maybe, Found
<1>6. GivenIsUsed'
  BY DEF GivenIsUsed
<1>7. PooledIsIdle'
  BY DEF PooledIsIdle, Unplayed, HandlerKnows, TypeOK, Found, Session, Maybe
<1>8. RoomForFailure'
  BY DEF RoomForFailure, HandlerKnows, TypeOK
<1>9. OneAccountEach'
  BY DEF OneAccountEach, OneSessionEach, TypeOK, Session, HandlerKnows
<1>10. PlayedIsInUse'
  BY DEF PlayedIsInUse, TypeOK, Session, Account, Maybe, HandlerKnows
<1>11. FailuresBounded'
  BY DEF FailuresBounded, RoomForFailure, TypeOK
<1> QED
  BY <1>1, <1>2, <1>3, <1>4, <1>5, <1>6, <1>7, <1>8, <1>9, <1>10, <1>11

LEMMA AuthenticateKeeps ==
  ASSUME IInv, NEW u \in User, NEW n \in Name, Authenticate(u, n)
  PROVE  IInv'
<1> USE LoginAssumption
<1> USE DEF IInv, LoginInv, Accounts, Authenticate, Begin, Limited, tables, handler, history
<1>1. TypeOK'
  BY DEF TypeOK, Maybe, Account, Character, Session, Found, Stages, Characters, Aliases
<1>2. NothingDangles'
  BY DEF TypeOK, NothingDangles, Characters, Aliases, Maybe, Account, Character
<1>3. OneSessionEach'
  BY DEF OneSessionEach, TypeOK, Session
<1>4. HandlerKnows'
  BY DEF HandlerKnows, TypeOK, Stages, Found, Maybe
<1>5. JustTouched'
  BY DEF JustTouched, HandlerKnows, TypeOK, Account, Maybe, Found
<1>6. GivenIsUsed'
  BY DEF GivenIsUsed
<1>7. PooledIsIdle'
  BY DEF PooledIsIdle, Unplayed, HandlerKnows, TypeOK, Found, Session, Maybe
<1>8. RoomForFailure'
  BY DEF RoomForFailure, HandlerKnows, TypeOK
<1>9. OneAccountEach'
  BY DEF OneAccountEach, OneSessionEach, TypeOK, Session, HandlerKnows
<1>10. PlayedIsInUse'
  BY DEF PlayedIsInUse, TypeOK, Session, Account, Maybe, HandlerKnows
<1>11. FailuresBounded'
  BY DEF FailuresBounded, RoomForFailure, TypeOK
<1> QED
  BY <1>1, <1>2, <1>3, <1>4, <1>5, <1>6, <1>7, <1>8, <1>9, <1>10, <1>11

LEMMA LoginAuthKeeps ==
  ASSUME IInv, NEW u \in User, NEW n \in Name, LoginAuth(u, n)
  PROVE  IInv'
<1> USE LoginAssumption
<1> USE DEF IInv, LoginInv, Accounts, LoginAuth, Begin, tables, handler, history
<1>1. TypeOK'
  BY DEF TypeOK, Maybe, Account, Character, Session, Found, Stages, Characters, Aliases
<1>2. NothingDangles'
  BY DEF TypeOK, NothingDangles, Characters, Aliases, Maybe, Account, Character
<1>3. OneSessionEach'
  BY DEF OneSessionEach, TypeOK, Session
<1>4. HandlerKnows'
  BY DEF HandlerKnows, TypeOK, Stages, Found, Maybe
<1>5. JustTouched'
  BY DEF JustTouched, HandlerKnows, TypeOK, Account, Maybe, Found
<1>6. GivenIsUsed'
  BY DEF GivenIsUsed
<1>7. PooledIsIdle'
  BY DEF PooledIsIdle, Unplayed, HandlerKnows, TypeOK, Found, Session, Maybe
<1>8. RoomForFailure'
  BY DEF RoomForFailure, HandlerKnows, TypeOK
<1>9. OneAccountEach'
  BY DEF OneAccountEach, OneSessionEach, TypeOK, Session, HandlerKnows
<1>10. PlayedIsInUse'
  BY DEF PlayedIsInUse, TypeOK, Session, Account, Maybe, HandlerKnows
<1>11. FailuresBounded'
  BY DEF FailuresBounded, RoomForFailure, TypeOK
<1> QED
  BY <1>1, <1>2, <1>3, <1>4, <1>5, <1>6, <1>7, <1>8, <1>9, <1>10, <1>11

LEMMA FindKeeps ==
  ASSUME IInv, NEW k \in 1 .. 3, Find(k)
  PROVE  IInv'
<1> USE LoginAssumption
<1> USE DEF IInv, LoginInv, Accounts, Find, HandlerOnly, Read, tables, handler, history
<1>a. /\ stage \in {"user", "character", "alias"}
      /\ \/ stage' \in {"character", "alias", "tag"} /\ UNCHANGED found
         \/ stage' = "allow" /\ found' \in Found /\ found' # NoRow /\ ~found'.tag
      /\ UNCHANGED <<row, groups, mapping, chars, alias, tags, sessions, failures, who,
                     asked, report, door, commands, raced, given, renewed>>
  <2>1. stage \in {"user", "character", "alias"} /\ Kinds[k + 1] \in {"character", "alias", "tag"}
    BY DEF Kinds
  <2>2. Means(stage, asked) \subseteq Accounts
    BY <2>1, MeansIsThere DEF Accounts
  <2>3. ASSUME NEW a \in Means(stage, asked), Read(a, FALSE)
        PROVE  found' \in Found /\ found' # NoRow /\ ~found'.tag
    <3>1. a \in Accounts
      BY <2>2 DEF Accounts
    <3> HIDE DEF Read
    <3> QED
      BY <2>3, <3>1, ReadIs
  <2> HIDE DEF Read
  <2> QED
    BY <2>1, <2>3
<1> HIDE DEF Find, HandlerOnly, Read, tables, history
<1>1. TypeOK'
  BY <1>a DEF TypeOK, Maybe, Account, Character, Session, Found, Stages, Characters, Aliases
<1>2. NothingDangles'
  BY <1>a DEF TypeOK, NothingDangles, Characters, Aliases, Maybe, Account, Character
<1>3. OneSessionEach'
  BY <1>a DEF OneSessionEach, TypeOK, Session
<1>4. HandlerKnows'
  BY <1>a DEF HandlerKnows, TypeOK, Stages, Found, Maybe
<1>5. JustTouched'
  BY <1>a DEF JustTouched, HandlerKnows, TypeOK, Account, Maybe, Found
<1>6. GivenIsUsed'
  BY <1>a DEF GivenIsUsed
<1>7. PooledIsIdle'
  BY <1>a DEF PooledIsIdle, Unplayed, HandlerKnows, TypeOK, Found, Session, Maybe
<1>8. RoomForFailure'
  BY <1>a DEF RoomForFailure, HandlerKnows, TypeOK
<1>9. OneAccountEach'
  BY <1>a DEF OneAccountEach, OneSessionEach, TypeOK, Session, HandlerKnows
<1>10. PlayedIsInUse'
  BY <1>a DEF PlayedIsInUse, TypeOK, Session, Account, Maybe, HandlerKnows
<1>11. FailuresBounded'
  BY <1>a DEF FailuresBounded, RoomForFailure, TypeOK
<1> QED
  BY <1>1, <1>2, <1>3, <1>4, <1>5, <1>6, <1>7, <1>8, <1>9, <1>10, <1>11

LEMMA FindTagKeeps ==
  ASSUME IInv, FindTag
  PROVE  IInv'
<1> USE LoginAssumption
<1> USE DEF IInv, LoginInv, Accounts, FindTag, HandlerOnly, Read, tables, handler, history
<1>a. /\ stage = "tag"
      /\ \/ stage' \in {"dynamic", "empty"} /\ UNCHANGED found
         \/ /\ stage' = "allow" /\ found' \in Found /\ found' # NoRow
            /\ given[found'.id] > InUse /\ Unplayed(found'.id)
      /\ UNCHANGED <<row, groups, mapping, chars, alias, tags, sessions, failures, who,
                     asked, report, door, commands, raced, given, renewed>>
  <2> DEFINE as == Means("tag", asked)
             idle == {a \in as : Idle(a)}
  <2>1. stage = "tag"
    OBVIOUS
  <2>2. as \subseteq Accounts
    BY MeansIsThere DEF Accounts
  <2>3. ASSUME NEW a \in Tagged(asked, idle), Read(a, TRUE)
        PROVE  /\ found' \in Found /\ found' # NoRow
               /\ given[found'.id] > InUse /\ Unplayed(found'.id)
    <3>1. a \in Accounts /\ Idle(a)
      BY <2>2, TaggedIsAmong DEF Accounts
    <3> HIDE DEF Read
    <3>2. found' \in Found /\ found' # NoRow /\ found'.id = a
      BY <2>3, <3>1, ReadIs
    <3>3. given[a] > InUse /\ Unplayed(a)
      BY <2>1, <3>1, IdleIsUnplayed
    <3> QED
      BY <3>2, <3>3
  <2> HIDE DEF Read, idle, as
  <2>4. \/ stage' \in {"dynamic", "empty"} /\ UNCHANGED found
        \/ stage' = "allow" /\ \E a \in Tagged(asked, idle) : Read(a, TRUE)
    BY DEF idle, as
  <2> QED
    BY <2>1, <2>3, <2>4
<1> HIDE DEF FindTag, HandlerOnly, Read, tables, history
<1>1. TypeOK'
  BY <1>a DEF TypeOK, Maybe, Account, Character, Session, Found, Stages, Characters, Aliases
<1>2. NothingDangles'
  BY <1>a DEF TypeOK, NothingDangles, Characters, Aliases, Maybe, Account, Character
<1>3. OneSessionEach'
  BY <1>a DEF OneSessionEach, TypeOK, Session
<1>4. HandlerKnows'
  BY <1>a DEF HandlerKnows, TypeOK, Stages, Found, Maybe
<1>5. JustTouched'
  BY <1>a DEF JustTouched, HandlerKnows, TypeOK, Account, Maybe, Found
<1>6. GivenIsUsed'
  BY <1>a DEF GivenIsUsed
<1>7. PooledIsIdle'
  BY <1>a DEF PooledIsIdle, Unplayed, HandlerKnows, TypeOK, Found, Session, Maybe
<1>8. RoomForFailure'
  BY <1>a DEF RoomForFailure, HandlerKnows, TypeOK
<1>9. OneAccountEach'
  BY <1>a DEF OneAccountEach, OneSessionEach, TypeOK, Session, HandlerKnows
<1>10. PlayedIsInUse'
  BY <1>a DEF PlayedIsInUse, TypeOK, Session, Account, Maybe, HandlerKnows
<1>11. FailuresBounded'
  BY <1>a DEF FailuresBounded, RoomForFailure, TypeOK
<1> QED
  BY <1>1, <1>2, <1>3, <1>4, <1>5, <1>6, <1>7, <1>8, <1>9, <1>10, <1>11

LEMMA FindDynamicKeeps ==
  ASSUME IInv, FindDynamic
  PROVE  IInv'
<1> USE LoginAssumption
<1> USE DEF IInv, LoginInv, Accounts, FindDynamic, HandlerOnly, Read, tables, handler, history
<1>a. /\ stage = "dynamic"
      /\ \/ stage' \in {"missing", "empty"} /\ UNCHANGED found
         \/ /\ stage' = "fetch" /\ found' \in Found /\ found' # NoRow /\ found'.tag
            /\ given[found'.id] > InUse /\ Unplayed(found'.id)
      /\ UNCHANGED <<row, groups, mapping, chars, alias, tags, sessions, failures, who,
                     asked, report, door, commands, raced, given, renewed>>
  <2> DEFINE idle == {a \in Means("dynamic", asked) : Idle(a)}
  <2>1. stage = "dynamic"
    OBVIOUS
  <2>2. Means("dynamic", asked) \subseteq Accounts
    BY MeansIsThere DEF Accounts
  <2>3. ASSUME NEW a \in Matched(asked, idle), Read(a, TRUE)
        PROVE  /\ found' \in Found /\ found' # NoRow /\ found'.tag
               /\ given[found'.id] > InUse /\ Unplayed(found'.id)
    <3>1. a \in Accounts /\ Idle(a)
      BY <2>2, MatchedIsAmong DEF Accounts
    <3> HIDE DEF Read
    <3>2. found' \in Found /\ found' # NoRow /\ found'.id = a /\ found'.tag
      BY <2>3, <3>1, ReadIs
    <3>3. given[a] > InUse /\ Unplayed(a)
      BY <2>1, <3>1, IdleIsUnplayed
    <3> QED
      BY <3>2, <3>3
  <2> HIDE DEF Read, idle
  <2>4. \/ stage' \in {"missing", "empty"} /\ UNCHANGED found
        \/ stage' = "fetch" /\ \E a \in Matched(asked, idle) : Read(a, TRUE)
    BY DEF idle
  <2> QED
    BY <2>1, <2>3, <2>4
<1> HIDE DEF FindDynamic, HandlerOnly, Read, tables, history
<1>1. TypeOK'
  BY <1>a DEF TypeOK, Maybe, Account, Character, Session, Found, Stages, Characters, Aliases
<1>2. NothingDangles'
  BY <1>a DEF TypeOK, NothingDangles, Characters, Aliases, Maybe, Account, Character
<1>3. OneSessionEach'
  BY <1>a DEF OneSessionEach, TypeOK, Session
<1>4. HandlerKnows'
  BY <1>a DEF HandlerKnows, TypeOK, Stages, Found, Maybe
<1>5. JustTouched'
  BY <1>a DEF JustTouched, HandlerKnows, TypeOK, Account, Maybe, Found
<1>6. GivenIsUsed'
  BY <1>a DEF GivenIsUsed
<1>7. PooledIsIdle'
  BY <1>a DEF PooledIsIdle, Unplayed, HandlerKnows, TypeOK, Found, Session, Maybe
<1>8. RoomForFailure'
  BY <1>a DEF RoomForFailure, HandlerKnows, TypeOK
<1>9. OneAccountEach'
  BY <1>a DEF OneAccountEach, OneSessionEach, TypeOK, Session, HandlerKnows
<1>10. PlayedIsInUse'
  BY <1>a DEF PlayedIsInUse, TypeOK, Session, Account, Maybe, HandlerKnows
<1>11. FailuresBounded'
  BY <1>a DEF FailuresBounded, RoomForFailure, TypeOK
<1> QED
  BY <1>1, <1>2, <1>3, <1>4, <1>5, <1>6, <1>7, <1>8, <1>9, <1>10, <1>11

LEMMA FetchKeeps ==
  ASSUME IInv, Fetch
  PROVE  IInv'
<1> USE LoginAssumption
<1> USE DEF IInv, LoginInv, Accounts, Fetch, HandlerOnly, Read, tables, handler, history
<1>a. /\ stage = "fetch" /\ found # NoRow
      /\ \/ stage' = "failed" /\ UNCHANGED found
         \/ /\ stage' = "allow" /\ found' \in Found /\ found' # NoRow
            /\ found'.id = found.id /\ found.tag
      /\ UNCHANGED <<row, groups, mapping, chars, alias, tags, sessions, failures, who,
                     asked, report, door, commands, raced, given, renewed>>
  <2>1. stage = "fetch" /\ found # NoRow /\ found \in Found /\ found.tag
    BY DEF HandlerKnows, TypeOK, Maybe
  <2>2. CASE found.id \in Accounts
    <3> HIDE DEF Read
    <3>2. Read(found.id, TRUE) /\ stage' = "allow"
      BY <2>2
    <3>3. found' \in Found /\ found' # NoRow /\ found'.id = found.id /\ found'.tag
      BY <2>2, <3>2, ReadIs
    <3> QED
      BY <2>1, <3>2, <3>3
  <2>3. CASE found.id \notin Accounts
    BY <2>1, <2>3
  <2> QED
    BY <2>2, <2>3
<1> HIDE DEF Fetch, HandlerOnly, Read, tables, history
<1>1. TypeOK'
  BY <1>a DEF TypeOK, Maybe, Account, Character, Session, Found, Stages, Characters, Aliases
<1>2. NothingDangles'
  BY <1>a DEF TypeOK, NothingDangles, Characters, Aliases, Maybe, Account, Character
<1>3. OneSessionEach'
  BY <1>a DEF OneSessionEach, TypeOK, Session
<1>4. HandlerKnows'
  BY <1>a DEF HandlerKnows, TypeOK, Stages, Found, Maybe
<1>5. JustTouched'
  BY <1>a DEF JustTouched, HandlerKnows, TypeOK, Account, Maybe, Found
<1>6. GivenIsUsed'
  BY <1>a DEF GivenIsUsed
<1>7. PooledIsIdle'
  BY <1>a DEF PooledIsIdle, Unplayed, HandlerKnows, TypeOK, Found, Session, Maybe
<1>8. RoomForFailure'
  BY <1>a DEF RoomForFailure, HandlerKnows, TypeOK
<1>9. OneAccountEach'
  BY <1>a DEF OneAccountEach, OneSessionEach, TypeOK, Session, HandlerKnows
<1>10. PlayedIsInUse'
  BY <1>a DEF PlayedIsInUse, TypeOK, Session, Account, Maybe, HandlerKnows
<1>11. FailuresBounded'
  BY <1>a DEF FailuresBounded, RoomForFailure, TypeOK
<1> QED
  BY <1>1, <1>2, <1>3, <1>4, <1>5, <1>6, <1>7, <1>8, <1>9, <1>10, <1>11

LEMMA AllowKeeps ==
  ASSUME IInv, Allow
  PROVE  IInv'
<1> USE LoginAssumption
<1> USE DEF IInv, LoginInv, Accounts, Allow, HandlerOnly, Fails, tables, handler, history
<1>1. TypeOK'
  BY DEF TypeOK, Maybe, Account, Character, Session, Found, Stages, Characters, Aliases
<1>2. NothingDangles'
  BY DEF TypeOK, NothingDangles, Characters, Aliases, Maybe, Account, Character
<1>3. OneSessionEach'
  BY DEF OneSessionEach, TypeOK, Session
<1>4. HandlerKnows'
  BY DEF HandlerKnows, TypeOK, Stages, Found, Maybe
<1>5. JustTouched'
  BY DEF JustTouched, HandlerKnows, TypeOK, Account, Maybe, Found
<1>6. GivenIsUsed'
  BY DEF GivenIsUsed
<1>7. PooledIsIdle'
  BY DEF PooledIsIdle, Unplayed, HandlerKnows, TypeOK, Found, Session, Maybe
<1>8. RoomForFailure'
  BY DEF RoomForFailure, HandlerKnows, TypeOK
<1>9. OneAccountEach'
  BY DEF OneAccountEach, OneSessionEach, TypeOK, Session, HandlerKnows
<1>10. PlayedIsInUse'
  BY DEF PlayedIsInUse, TypeOK, Session, Account, Maybe, HandlerKnows
<1>11. FailuresBounded'
  BY DEF FailuresBounded, RoomForFailure, TypeOK
<1> QED
  BY <1>1, <1>2, <1>3, <1>4, <1>5, <1>6, <1>7, <1>8, <1>9, <1>10, <1>11

LEMMA LoadKeeps ==
  ASSUME IInv, Load
  PROVE  IInv'
<1> USE LoginAssumption
<1> USE DEF IInv, LoginInv, Accounts, Load, HandlerOnly, Fails, tables, handler, history
<1>1. TypeOK'
  BY DEF TypeOK, Maybe, Account, Character, Session, Found, Stages, Characters, Aliases
<1>2. NothingDangles'
  BY DEF TypeOK, NothingDangles, Characters, Aliases, Maybe, Account, Character
<1>3. OneSessionEach'
  BY DEF OneSessionEach, TypeOK, Session
<1>4. HandlerKnows'
  BY DEF HandlerKnows, TypeOK, Stages, Found, Maybe
<1>5. JustTouched'
  BY DEF JustTouched, HandlerKnows, TypeOK, Account, Maybe, Found
<1>6. GivenIsUsed'
  BY DEF GivenIsUsed
<1>7. PooledIsIdle'
  BY DEF PooledIsIdle, Unplayed, HandlerKnows, TypeOK, Found, Session, Maybe
<1>8. RoomForFailure'
  BY DEF RoomForFailure, HandlerKnows, TypeOK
<1>9. OneAccountEach'
  BY DEF OneAccountEach, OneSessionEach, TypeOK, Session, HandlerKnows
<1>10. PlayedIsInUse'
  BY DEF PlayedIsInUse, TypeOK, Session, Account, Maybe, HandlerKnows
<1>11. FailuresBounded'
  BY DEF FailuresBounded, RoomForFailure, TypeOK
<1> QED
  BY <1>1, <1>2, <1>3, <1>4, <1>5, <1>6, <1>7, <1>8, <1>9, <1>10, <1>11

LEMMA RefuseKeeps ==
  ASSUME IInv, Refuse
  PROVE  IInv'
<1> USE LoginAssumption
<1> USE DEF IInv, LoginInv, Accounts, Refuse, HandlerOnly, Fails, tables, handler, history
<1>a. failures' \in [{"limited", "open"} -> Nat]
  <2> HIDE DEF IInv, LoginInv, tables, handler, history
  <2>1. failures' = [failures EXCEPT ![door] = @ + 1]
    OBVIOUS
  <2>2. failures \in [{"limited", "open"} -> Nat]
    BY DEF IInv, LoginInv, TypeOK
  <2> HIDE DEF Refuse, Fails, HandlerOnly, Accounts
  <2>3. CASE door \in {"limited", "open"}
    BY <2>1, <2>2, <2>3
  <2>4. CASE door \notin {"limited", "open"}
    BY <2>1, <2>2, <2>4
  <2> QED
    BY <2>3, <2>4
<1>b. /\ stage' \in Stages
      /\ UNCHANGED <<row, groups, mapping, chars, alias, tags, sessions, found, who, asked,
                     report, door, commands, raced, given, renewed>>
  BY DEF Stages
<1>1. TypeOK'
  <2> HIDE DEF Refuse, HandlerOnly, Fails, tables, history
  <2> QED
    BY <1>a, <1>b DEF TypeOK, Characters, Aliases
<1>2. NothingDangles'
  BY DEF TypeOK, NothingDangles, Characters, Aliases, Maybe, Account, Character
<1>3. OneSessionEach'
  BY DEF OneSessionEach, TypeOK, Session
<1>4. HandlerKnows'
  BY DEF HandlerKnows, TypeOK, Stages, Found, Maybe
<1>5. JustTouched'
  BY DEF JustTouched, HandlerKnows, TypeOK, Account, Maybe, Found
<1>6. GivenIsUsed'
  BY DEF GivenIsUsed
<1>7. PooledIsIdle'
  BY DEF PooledIsIdle, Unplayed, HandlerKnows, TypeOK, Found, Session, Maybe
<1>8. RoomForFailure'
  BY DEF RoomForFailure, HandlerKnows, TypeOK
<1>9. OneAccountEach'
  BY DEF OneAccountEach, OneSessionEach, TypeOK, Session, HandlerKnows
<1>10. PlayedIsInUse'
  BY DEF PlayedIsInUse, TypeOK, Session, Account, Maybe, HandlerKnows
<1>11. FailuresBounded'
  BY DEF FailuresBounded, RoomForFailure, TypeOK
<1> QED
  BY <1>1, <1>2, <1>3, <1>4, <1>5, <1>6, <1>7, <1>8, <1>9, <1>10, <1>11

LEMMA GrantKeeps ==
  ASSUME IInv, Grant
  PROVE  IInv'
<1> USE LoginAssumption
<1> USE DEF IInv, LoginInv, Accounts, Grant, Used
<1>a. found \in Found /\ found.id \in Id
  BY DEF HandlerKnows, TypeOK, Maybe, Found
<1>b. /\ row' \in [Id -> Maybe(Account)] /\ given' \in [Id -> 0 .. InUse + 1]
      /\ given' = [given EXCEPT ![found.id] = 0]
      /\ Accounts' = Accounts
      /\ \A a \in Accounts : row'[a].age = IF a = found.id THEN 0 ELSE row[a].age
  BY <1>a DEF TypeOK, Maybe, Account
<1>c. /\ stage = "login" /\ stage' = "granted"
      /\ UNCHANGED <<groups, mapping, chars, alias, tags, sessions, failures, who,
                     asked, found, report, door, commands, raced, renewed>>
  OBVIOUS
<1> HIDE DEF Grant, Used, Accounts
<1>1. TypeOK'
  BY <1>a, <1>b, <1>c DEF TypeOK, Maybe, Account, Character, Session, Found, Stages, Characters, Aliases
<1>2. NothingDangles'
  BY <1>a, <1>b, <1>c DEF TypeOK, NothingDangles, Characters, Aliases, Maybe, Account, Character
<1>3. OneSessionEach'
  BY <1>a, <1>b, <1>c DEF OneSessionEach, TypeOK, Session
<1>4. HandlerKnows'
  BY <1>a, <1>b, <1>c DEF HandlerKnows, TypeOK, Stages, Found, Maybe
<1>5. JustTouched'
  BY <1>a, <1>b, <1>c DEF JustTouched, HandlerKnows, TypeOK, Account, Maybe, Found
<1>6. GivenIsUsed'
  BY <1>a, <1>b, <1>c DEF GivenIsUsed, TypeOK, Account, Maybe, Found, HandlerKnows
<1>7. PooledIsIdle'
  BY <1>a, <1>b, <1>c DEF PooledIsIdle, Unplayed, HandlerKnows, TypeOK, Found, Session, Maybe
<1>8. RoomForFailure'
  BY <1>a, <1>b, <1>c DEF RoomForFailure, HandlerKnows, TypeOK
<1>9. OneAccountEach'
  BY <1>a, <1>b, <1>c DEF OneAccountEach, OneSessionEach, TypeOK, Session, HandlerKnows
<1>10. PlayedIsInUse'
  BY <1>a, <1>b, <1>c DEF PlayedIsInUse, TypeOK, Session, Account, Maybe, HandlerKnows
<1>11. FailuresBounded'
  BY <1>a, <1>b, <1>c DEF FailuresBounded, RoomForFailure, TypeOK
<1> QED
  BY <1>1, <1>2, <1>3, <1>4, <1>5, <1>6, <1>7, <1>8, <1>9, <1>10, <1>11

LEMMA AnswerKeeps ==
  ASSUME IInv, Answer
  PROVE  IInv'
<1> USE LoginAssumption
<1> USE DEF IInv, LoginInv, Accounts, Answer, End, tables, handler, history
<1>1. TypeOK'
  BY DEF TypeOK, Maybe, Account, Character, Session, Found, Stages, Characters, Aliases
<1>2. NothingDangles'
  BY DEF TypeOK, NothingDangles, Characters, Aliases, Maybe, Account, Character
<1>3. OneSessionEach'
  BY DEF OneSessionEach, TypeOK, Session
<1>4. HandlerKnows'
  BY DEF HandlerKnows, TypeOK, Stages, Found, Maybe
<1>5. JustTouched'
  BY DEF JustTouched, HandlerKnows, TypeOK, Account, Maybe, Found
<1>6. GivenIsUsed'
  BY DEF GivenIsUsed
<1>7. PooledIsIdle'
  BY DEF PooledIsIdle, Unplayed, HandlerKnows, TypeOK, Found, Session, Maybe
<1>8. RoomForFailure'
  BY DEF RoomForFailure, HandlerKnows, TypeOK
<1>9. OneAccountEach'
  BY DEF OneAccountEach, OneSessionEach, TypeOK, Session, HandlerKnows
<1>10. PlayedIsInUse'
  BY DEF PlayedIsInUse, TypeOK, Session, Account, Maybe, HandlerKnows
<1>11. FailuresBounded'
  BY DEF FailuresBounded, RoomForFailure, TypeOK
<1> QED
  BY <1>1, <1>2, <1>3, <1>4, <1>5, <1>6, <1>7, <1>8, <1>9, <1>10, <1>11

LEMMA HearKeeps ==
  ASSUME IInv, NEW u \in User, NEW c \in Char, Hear(u, c)
  PROVE  IInv'
<1> USE LoginAssumption
<1> USE DEF IInv, LoginInv, Accounts, Hear, Begin, Read, tables, handler, history
<1>a. /\ stage = "idle" /\ stage' = "check" /\ who' = u /\ asked' = c
      /\ found' \in Found /\ found' # NoRow
      /\ UNCHANGED <<row, groups, mapping, chars, alias, tags, sessions, failures, report,
                     door, commands, raced, given, renewed>>
  <2>1. chars[c].acct \in Accounts
    BY DEF NothingDangles, TypeOK, Accounts, Characters, Maybe, Character
  <2>2. Read(chars[c].acct, FALSE)
    OBVIOUS
  <2> HIDE DEF Read
  <2>3. found' \in Found /\ found' # NoRow
    BY <2>1, <2>2, ReadIs
  <2> QED
    BY <2>3
<1> HIDE DEF Hear, Begin, Read, tables, history
<1>1. TypeOK'
  BY <1>a DEF TypeOK, Maybe, Stages, Name
<1>2. NothingDangles'
  BY <1>a DEF TypeOK, NothingDangles, Characters, Aliases, Maybe, Account, Character
<1>3. OneSessionEach'
  BY <1>a DEF OneSessionEach, TypeOK, Session
<1>4. HandlerKnows'
  BY <1>a DEF HandlerKnows, TypeOK, Stages, Found, Maybe
<1>5. JustTouched'
  BY <1>a DEF JustTouched, HandlerKnows, TypeOK, Account, Maybe, Found
<1>6. GivenIsUsed'
  BY <1>a DEF GivenIsUsed
<1>7. PooledIsIdle'
  BY <1>a DEF PooledIsIdle, Unplayed, HandlerKnows, TypeOK, Found, Session, Maybe
<1>8. RoomForFailure'
  BY <1>a DEF RoomForFailure, HandlerKnows, TypeOK
<1>9. OneAccountEach'
  BY <1>a DEF OneAccountEach, OneSessionEach, TypeOK, Session, HandlerKnows
<1>10. PlayedIsInUse'
  BY <1>a DEF PlayedIsInUse, TypeOK, Session, Account, Maybe, HandlerKnows
<1>11. FailuresBounded'
  BY <1>a DEF FailuresBounded, RoomForFailure, TypeOK
<1> QED
  BY <1>1, <1>2, <1>3, <1>4, <1>5, <1>6, <1>7, <1>8, <1>9, <1>10, <1>11

LEMMA CheckKeeps ==
  ASSUME IInv, Check
  PROVE  IInv'
<1> USE LoginAssumption
<1> USE DEF IInv, LoginInv, Accounts, Check, End, tables, handler, history
<1>a. /\ stage = "check"
      /\ \/ /\ stage' = "present" /\ UNCHANGED <<who, asked, found, report, door, raced>>
         \/ /\ stage' = "idle" /\ who' = NoRow /\ asked' = NoRow /\ found' = NoRow
            /\ report' = NoRow /\ door' = NoRow /\ raced' = {}
      /\ UNCHANGED <<row, groups, mapping, chars, alias, tags, sessions, failures, commands,
                     given, renewed>>
  OBVIOUS
<1> HIDE DEF Check, End, tables
<1>1. TypeOK'
  BY <1>a DEF TypeOK, Maybe, Stages
<1>2. NothingDangles'
  BY <1>a DEF TypeOK, NothingDangles, Characters, Aliases, Maybe, Account, Character
<1>3. OneSessionEach'
  BY <1>a DEF OneSessionEach, TypeOK, Session
<1>4. HandlerKnows'
  BY <1>a DEF HandlerKnows, TypeOK, Stages, Found, Maybe
<1>5. JustTouched'
  BY <1>a DEF JustTouched, HandlerKnows, TypeOK, Account, Maybe, Found
<1>6. GivenIsUsed'
  BY <1>a DEF GivenIsUsed
<1>7. PooledIsIdle'
  BY <1>a DEF PooledIsIdle, Unplayed, HandlerKnows, TypeOK, Found, Session, Maybe
<1>8. RoomForFailure'
  BY <1>a DEF RoomForFailure, HandlerKnows, TypeOK
<1>9. OneAccountEach'
  BY <1>a DEF OneAccountEach, OneSessionEach, TypeOK, Session, HandlerKnows
<1>10. PlayedIsInUse'
  BY <1>a DEF PlayedIsInUse, TypeOK, Session, Account, Maybe, HandlerKnows
<1>11. FailuresBounded'
  BY <1>a DEF FailuresBounded, RoomForFailure, TypeOK
<1> QED
  BY <1>1, <1>2, <1>3, <1>4, <1>5, <1>6, <1>7, <1>8, <1>9, <1>10, <1>11

LEMMA PresentKeeps ==
  ASSUME IInv, Present
  PROVE  IInv'
<1> USE LoginAssumption
<1> USE DEF IInv, LoginInv, Accounts, Present, End, tables, handler, history
<1>a. /\ stage = "present"
      /\ \/ /\ stage' = "touch" /\ UNCHANGED <<who, asked, found, report, door, raced>>
         \/ /\ stage' = "idle" /\ who' = NoRow /\ asked' = NoRow /\ found' = NoRow
            /\ report' = NoRow /\ door' = NoRow /\ raced' = {}
      /\ UNCHANGED <<row, groups, mapping, chars, alias, tags, sessions, failures, commands,
                     given, renewed>>
  OBVIOUS
<1> HIDE DEF Present, End, tables
<1>1. TypeOK'
  BY <1>a DEF TypeOK, Maybe, Stages
<1>2. NothingDangles'
  BY <1>a DEF TypeOK, NothingDangles, Characters, Aliases, Maybe, Account, Character
<1>3. OneSessionEach'
  BY <1>a DEF OneSessionEach, TypeOK, Session
<1>4. HandlerKnows'
  BY <1>a DEF HandlerKnows, TypeOK, Stages, Found, Maybe
<1>5. JustTouched'
  BY <1>a DEF JustTouched, HandlerKnows, TypeOK, Account, Maybe, Found
<1>6. GivenIsUsed'
  BY <1>a DEF GivenIsUsed
<1>7. PooledIsIdle'
  BY <1>a DEF PooledIsIdle, Unplayed, HandlerKnows, TypeOK, Found, Session, Maybe
<1>8. RoomForFailure'
  BY <1>a DEF RoomForFailure, HandlerKnows, TypeOK
<1>9. OneAccountEach'
  BY <1>a DEF OneAccountEach, OneSessionEach, TypeOK, Session, HandlerKnows
<1>10. PlayedIsInUse'
  BY <1>a DEF PlayedIsInUse, TypeOK, Session, Account, Maybe, HandlerKnows
<1>11. FailuresBounded'
  BY <1>a DEF FailuresBounded, RoomForFailure, TypeOK
<1> QED
  BY <1>1, <1>2, <1>3, <1>4, <1>5, <1>6, <1>7, <1>8, <1>9, <1>10, <1>11

LEMMA TouchKeeps ==
  ASSUME IInv, Touch
  PROVE  IInv'
<1> USE LoginAssumption
<1> USE DEF IInv, LoginInv, Accounts, Touch, Used, history
<1>1. TypeOK'
  BY DEF TypeOK, Maybe, Account, Character, Session, Found, Stages, Characters, Aliases
<1>2. NothingDangles'
  BY DEF TypeOK, NothingDangles, Characters, Aliases, Maybe, Account, Character
<1>3. OneSessionEach'
  BY DEF OneSessionEach, TypeOK, Session
<1>4. HandlerKnows'
  BY DEF HandlerKnows, TypeOK, Stages, Found, Maybe
<1>5. JustTouched'
  BY DEF JustTouched, HandlerKnows, TypeOK, Account, Maybe, Found
<1>6. GivenIsUsed'
  BY DEF GivenIsUsed, TypeOK, Account, Maybe, Found, HandlerKnows
<1>7. PooledIsIdle'
  BY DEF PooledIsIdle, Unplayed, HandlerKnows, TypeOK, Found, Session, Maybe
<1>8. RoomForFailure'
  BY DEF RoomForFailure, HandlerKnows, TypeOK
<1>9. OneAccountEach'
  BY DEF OneAccountEach, OneSessionEach, TypeOK, Session, HandlerKnows
<1>10. PlayedIsInUse'
  BY DEF PlayedIsInUse, TypeOK, Session, Account, Maybe, HandlerKnows
<1>11. FailuresBounded'
  BY DEF FailuresBounded, RoomForFailure, TypeOK
<1> QED
  BY <1>1, <1>2, <1>3, <1>4, <1>5, <1>6, <1>7, <1>8, <1>9, <1>10, <1>11

LEMMA RecordKeeps ==
  ASSUME IInv, Record
  PROVE  IInv'
<1> USE LoginAssumption
<1> USE DEF IInv, LoginInv, Accounts, Record, tables, handler, history
<1>a. stage = "record" /\ asked \in Char /\ who \in User /\ found \in Found
  BY DEF HandlerKnows, TypeOK, Maybe
<1>b. PICK x \in Session :
        /\ x.char = asked /\ x.user = who /\ x.age = 0
        /\ sessions' = {s \in sessions : s.char # asked} \cup {x}
  <2> DEFINE active == {s \in sessions : s.char = asked}
             new == [char |-> asked, acct |-> found.id, user |-> who, age |-> 0]
  <2>1. CASE active = {}
    <3>1. new \in Session
      <4>1. 0 \in 0 .. InUse /\ found.id \in Id
        BY <1>a, Bounds DEF Found
      <4> QED
        BY <1>a, <4>1 DEF Session
    <3>2. sessions' = sessions \cup {new}
      BY <2>1
    <3> QED
      BY <2>1, <3>1, <3>2
  <2>2. CASE active # {}
    <3>1. PICK s \in active :
            sessions' = (sessions \ {s}) \cup {[s EXCEPT !.user = who, !.age = 0]}
      BY <2>2
    <3>2. s \in Session
      BY DEF TypeOK
    <3> DEFINE y == [s EXCEPT !.user = who, !.age = 0]
    <3>3. y \in Session /\ y.char = asked /\ y.user = who /\ y.age = 0
      <4>1. 0 \in 0 .. InUse
        BY Bounds
      <4> QED
        BY <1>a, <3>2, <4>1 DEF Session
    <3>4. sessions \ {s} = {r \in sessions : r.char # asked}
      BY DEF OneSessionEach
    <3> QED
      BY <3>1, <3>3, <3>4
  <2> QED
    BY <2>1, <2>2
<1>c. /\ stage' = "expire"
      /\ UNCHANGED <<row, groups, mapping, chars, alias, tags, failures, who, asked, found,
                     report, door, commands, raced, given, renewed>>
  OBVIOUS
<1> HIDE DEF Record, tables, history
<1>1. TypeOK'
  BY <1>a, <1>b, <1>c DEF TypeOK, Maybe, Account, Character, Session, Found, Stages, Characters, Aliases
<1>2. NothingDangles'
  BY <1>a, <1>b, <1>c DEF TypeOK, NothingDangles, Characters, Aliases, Maybe, Account, Character
<1>3. OneSessionEach'
  BY <1>a, <1>b, <1>c DEF OneSessionEach, TypeOK, Session
<1>4. HandlerKnows'
  BY <1>a, <1>b, <1>c DEF HandlerKnows, TypeOK, Stages, Found, Maybe
<1>5. JustTouched'
  BY <1>a, <1>b, <1>c DEF JustTouched, HandlerKnows, TypeOK, Account, Maybe, Found
<1>6. GivenIsUsed'
  BY <1>a, <1>b, <1>c DEF GivenIsUsed
<1>7. PooledIsIdle'
  BY <1>a, <1>b, <1>c DEF PooledIsIdle, Unplayed, HandlerKnows, TypeOK, Found, Session, Maybe
<1>8. RoomForFailure'
  BY <1>a, <1>b, <1>c DEF RoomForFailure, HandlerKnows, TypeOK
<1>9. OneAccountEach'
  BY <1>a, <1>b, <1>c DEF OneAccountEach, OneSessionEach, TypeOK, Session, HandlerKnows
<1>10. PlayedIsInUse'
  <2>1. found.id \in Accounts \ renewed => row[found.id].age <= 1
    <3>1. SUFFICES ASSUME found.id \in Accounts \ renewed PROVE row[found.id].age <= 1
      OBVIOUS
    <3>2. row[found.id].age <= (IF "tick" \in raced THEN 1 ELSE 0)
      BY <1>a, <3>1 DEF JustTouched
    <3>3. row[found.id] \in Account
      BY <3>1 DEF TypeOK, Maybe
    <3>4. row[found.id].age \in Int
      BY <3>3 DEF Account
    <3> QED
      BY <3>2, <3>4
  <2>2. ASSUME NEW s \in sessions', s.acct \in Accounts \ renewed
        PROVE  row[s.acct].age <= s.age + 1 \/ (s.user = who /\ s.acct # found.id)
    <3>1. CASE s = x
      BY <1>b, <2>1, <2>2, <3>1
    <3>2. CASE s # x
      BY <1>a, <1>b, <2>2, <3>2 DEF PlayedIsInUse
    <3> QED
      BY <3>1, <3>2
  <2>3. stage' = "expire" /\ Accounts' = Accounts
    BY <1>c
  <2> QED
    BY <1>c, <2>2, <2>3 DEF PlayedIsInUse
<1>11. FailuresBounded'
  BY <1>a, <1>b, <1>c DEF FailuresBounded, RoomForFailure, TypeOK
<1> QED
  BY <1>1, <1>2, <1>3, <1>4, <1>5, <1>6, <1>7, <1>8, <1>9, <1>10, <1>11

LEMMA ExpireKeeps ==
  ASSUME IInv, Expire
  PROVE  IInv'
<1> USE LoginAssumption
<1> USE DEF IInv, LoginInv, Accounts, Expire, Shared, tables, handler, history
<1>a. /\ stage = "expire" /\ sessions' \subseteq sessions
      /\ \A s \in sessions' : s.user = who => s.acct = found.id
      /\ UNCHANGED <<row, groups, mapping, chars, alias, tags, failures, commands, given, renewed>>
  OBVIOUS
<1>b. \/ /\ stage' = "idle" /\ who' = NoRow /\ asked' = NoRow /\ found' = NoRow
         /\ report' = NoRow /\ door' = NoRow /\ raced' = {}
      \/ /\ stage' = "update" /\ report' \in Report
         /\ UNCHANGED <<who, asked, found, door, raced>>
  BY DEF End, Shared
<1> HIDE DEF Expire, Shared, End, tables, handler, history
<1>1. TypeOK'
  BY <1>a, <1>b DEF TypeOK, Maybe, Stages
<1>2. NothingDangles'
  BY <1>a, <1>b DEF TypeOK, NothingDangles, Characters, Aliases, Maybe, Account, Character
<1>3. OneSessionEach'
  BY <1>a, <1>b DEF OneSessionEach, TypeOK, Session
<1>4. HandlerKnows'
  BY <1>a, <1>b DEF HandlerKnows, TypeOK, Stages, Found, Maybe
<1>5. JustTouched'
  BY <1>a, <1>b DEF JustTouched, HandlerKnows, TypeOK, Account, Maybe, Found
<1>6. GivenIsUsed'
  BY <1>a, <1>b DEF GivenIsUsed
<1>7. PooledIsIdle'
  BY <1>a, <1>b DEF PooledIsIdle, Unplayed, HandlerKnows, TypeOK, Found, Session, Maybe
<1>8. RoomForFailure'
  BY <1>a, <1>b DEF RoomForFailure, HandlerKnows, TypeOK
<1>9. OneAccountEach'
  BY <1>a, <1>b DEF OneAccountEach, OneSessionEach, TypeOK, Session, HandlerKnows
<1>10. PlayedIsInUse'
  BY <1>a, <1>b DEF PlayedIsInUse, TypeOK, Session, Account, Maybe, HandlerKnows
<1>11. FailuresBounded'
  BY <1>a, <1>b DEF FailuresBounded, RoomForFailure, TypeOK
<1> QED
  BY <1>1, <1>2, <1>3, <1>4, <1>5, <1>6, <1>7, <1>8, <1>9, <1>10, <1>11

LEMMA UpdateKeeps ==
  ASSUME IInv, Update
  PROVE  IInv'
<1> USE LoginAssumption
<1> USE DEF IInv, LoginInv, Accounts, Update, history
<1>a. asked \in Char /\ report \in Report /\ stage = "update"
  BY DEF HandlerKnows
<1>b. /\ chars' \in [Char -> Maybe(Character)]
      /\ \A c \in Char : /\ chars'[c] = NoRow <=> chars[c] = NoRow
                         /\ chars[c] # NoRow => chars'[c].acct = chars[c].acct
  <2>1. CASE asked \notin Characters
    BY <2>1 DEF TypeOK
  <2>2. CASE asked \in Characters
    <3>1. chars[asked] \in Character
      BY <2>2 DEF TypeOK, Characters, Maybe
    <3>2. report.level \in Level /\ report.zone \in BOOLEAN
      BY <1>a DEF Level
    <3> DEFINE key == Told(chars[asked].key)
    <3>3. key \in BOOLEAN
      BY <3>1 DEF Told, Character
    <3> DEFINE new == [chars[asked] EXCEPT !.level = report.level, !.zone = report.zone, !.key = key]
    <3>4. new \in Character /\ new.acct = chars[asked].acct
      BY <3>1, <3>2, <3>3 DEF Character
    <3>5. chars' = [chars EXCEPT ![asked] = new]
      BY <2>2
    <3> HIDE DEF new
    <3> QED
      BY <1>a, <2>2, <3>4, <3>5 DEF TypeOK, Characters, Maybe
  <2> QED
    BY <2>1, <2>2
<1>c. /\ stage' = "mark"
      /\ UNCHANGED <<row, groups, mapping, alias, tags, sessions, failures, who, asked, found,
                     report, door, commands, raced, given, renewed>>
  OBVIOUS
<1> HIDE DEF Update, history
<1>1. TypeOK'
  BY <1>a, <1>b, <1>c DEF TypeOK, Maybe, Account, Character, Session, Found, Stages, Characters, Aliases
<1>2. NothingDangles'
  BY <1>a, <1>b, <1>c DEF TypeOK, NothingDangles, Characters, Aliases, Maybe, Account, Character
<1>3. OneSessionEach'
  BY <1>a, <1>b, <1>c DEF OneSessionEach, TypeOK, Session
<1>4. HandlerKnows'
  BY <1>a, <1>b, <1>c DEF HandlerKnows, TypeOK, Stages, Found, Maybe
<1>5. JustTouched'
  BY <1>a, <1>b, <1>c DEF JustTouched, HandlerKnows, TypeOK, Account, Maybe, Found
<1>6. GivenIsUsed'
  BY <1>a, <1>b, <1>c DEF GivenIsUsed
<1>7. PooledIsIdle'
  BY <1>a, <1>b, <1>c DEF PooledIsIdle, Unplayed, HandlerKnows, TypeOK, Found, Session, Maybe
<1>8. RoomForFailure'
  BY <1>a, <1>b, <1>c DEF RoomForFailure, HandlerKnows, TypeOK
<1>9. OneAccountEach'
  BY <1>a, <1>b, <1>c DEF OneAccountEach, OneSessionEach, TypeOK, Session, HandlerKnows
<1>10. PlayedIsInUse'
  BY <1>a, <1>b, <1>c DEF PlayedIsInUse, TypeOK, Session, Account, Maybe, HandlerKnows
<1>11. FailuresBounded'
  BY <1>a, <1>b, <1>c DEF FailuresBounded, RoomForFailure, TypeOK
<1> QED
  BY <1>1, <1>2, <1>3, <1>4, <1>5, <1>6, <1>7, <1>8, <1>9, <1>10, <1>11

LEMMA MarkKeeps ==
  ASSUME IInv, Mark
  PROVE  IInv'
<1> USE LoginAssumption
<1> USE DEF IInv, LoginInv, Accounts, Mark, End
<1>a. asked \in Char /\ stage = "mark"
  BY DEF HandlerKnows
<1>b. /\ chars' \in [Char -> Maybe(Character)]
      /\ \A c \in Char : /\ chars'[c] = NoRow <=> chars[c] = NoRow
                         /\ chars[c] # NoRow => chars'[c].acct = chars[c].acct
  <2>1. CASE asked \notin Characters
    BY <2>1 DEF TypeOK
  <2>2. CASE asked \in Characters
    <3>1. chars[asked] \in Character
      BY <2>2 DEF TypeOK, Characters, Maybe
    <3> DEFINE new == [chars[asked] EXCEPT !.key = TRUE]
    <3>4. new \in Character /\ new.acct = chars[asked].acct
      BY <3>1 DEF Character
    <3>5. chars' = [chars EXCEPT ![asked] = new] \/ UNCHANGED chars
      BY <2>2
    <3> HIDE DEF new
    <3> QED
      BY <1>a, <2>2, <3>4, <3>5 DEF TypeOK, Characters, Maybe
  <2> QED
    BY <2>1, <2>2
<1>c. /\ stage' = "idle" /\ who' = NoRow /\ asked' = NoRow /\ found' = NoRow
      /\ report' = NoRow /\ door' = NoRow /\ raced' = {}
      /\ UNCHANGED <<row, groups, mapping, alias, tags, sessions, failures, commands, given, renewed>>
  BY DEF End
<1> HIDE DEF Mark, End
<1>1. TypeOK'
  BY <1>a, <1>b, <1>c DEF TypeOK, Maybe, Account, Character, Session, Found, Stages, Characters, Aliases
<1>2. NothingDangles'
  BY <1>a, <1>b, <1>c DEF TypeOK, NothingDangles, Characters, Aliases, Maybe, Account, Character
<1>3. OneSessionEach'
  BY <1>a, <1>b, <1>c DEF OneSessionEach, TypeOK, Session
<1>4. HandlerKnows'
  BY <1>a, <1>b, <1>c DEF HandlerKnows, TypeOK, Stages, Found, Maybe
<1>5. JustTouched'
  BY <1>a, <1>b, <1>c DEF JustTouched, HandlerKnows, TypeOK, Account, Maybe, Found
<1>6. GivenIsUsed'
  BY <1>a, <1>b, <1>c DEF GivenIsUsed
<1>7. PooledIsIdle'
  BY <1>a, <1>b, <1>c DEF PooledIsIdle, Unplayed, HandlerKnows, TypeOK, Found, Session, Maybe
<1>8. RoomForFailure'
  BY <1>a, <1>b, <1>c DEF RoomForFailure, HandlerKnows, TypeOK
<1>9. OneAccountEach'
  BY <1>a, <1>b, <1>c DEF OneAccountEach, OneSessionEach, TypeOK, Session, HandlerKnows
<1>10. PlayedIsInUse'
  BY <1>a, <1>b, <1>c DEF PlayedIsInUse, TypeOK, Session, Account, Maybe, HandlerKnows
<1>11. FailuresBounded'
  BY <1>a, <1>b, <1>c DEF FailuresBounded, RoomForFailure, TypeOK
<1> QED
  BY <1>1, <1>2, <1>3, <1>4, <1>5, <1>6, <1>7, <1>8, <1>9, <1>10, <1>11

LEMMA TickKeeps ==
  ASSUME IInv, Tick
  PROVE  IInv'
<1> USE Bounds
<1> USE DEF IInv, LoginInv, Accounts, Tick, Holds, handler, history
<1>a. /\ Accounts' = Accounts
      /\ row' \in [Id -> Maybe(Account)]
      /\ \A a \in Accounts : row'[a].age <= row[a].age + 1 /\ row'[a].age \in Nat
  <2>1. ASSUME NEW a \in Accounts
        PROVE  /\ row'[a] \in Account
               /\ row'[a].age <= row[a].age + 1 /\ row'[a].age \in Nat
    <3>1. a \in Id /\ row[a] \in Account /\ row[a].age \in 0 .. Cold
      BY DEF TypeOK, Maybe, Account
    <3>2. row'[a] = [row[a] EXCEPT !.age = Older(row[a].age, Cold)]
      BY <3>1 DEF Accounts
    <3>3. /\ Older(row[a].age, Cold) \in 0 .. Cold
          /\ Older(row[a].age, Cold) <= row[a].age + 1
      BY <3>1, OlderIs
    <3>4. row'[a].age = Older(row[a].age, Cold)
      BY <3>1, <3>2 DEF Account
    <3>5. row'[a] \in Account
      BY <3>1, <3>2, <3>3 DEF Account
    <3> QED
      BY <3>1, <3>3, <3>4, <3>5
  <2>2. \A a \in Id \ Accounts : row'[a] = NoRow
    BY DEF Accounts
  <2>3. row' = [a \in Id |-> row'[a]]
    OBVIOUS
  <2>4. row' \in [Id -> Maybe(Account)]
    BY <2>1, <2>2, <2>3 DEF Maybe
  <2>5. NoRow \notin Account
    BY LoginAssumption
  <2>6. \A a \in Id : row'[a] # NoRow <=> a \in Accounts
    BY <2>1, <2>2, <2>5
  <2>7. Accounts' = Accounts
    BY <2>6 DEF Accounts
  <2> QED
    BY <2>1, <2>4, <2>7
<1>b. /\ given' \in [Id -> 0 .. InUse + 1]
      /\ \A a \in Id : /\ given[a] > InUse => given'[a] > InUse
                       /\ given'[a] <= InUse => given'[a] = given[a] + 1
  <2>1. \A a \in Id : given[a] \in 0 .. InUse + 1
    BY DEF TypeOK
  <2>2. \A a \in Id : given'[a] = IF given[a] + 1 <= InUse + 1 THEN given[a] + 1 ELSE InUse + 1
    BY <2>1, OlderIs
  <2>3. given' = [a \in Id |-> given'[a]]
    OBVIOUS
  <2> QED
    BY <2>1, <2>2, <2>3
<1>c. /\ sessions' \subseteq Session
      /\ \A x \in sessions' : \E s \in sessions :
            /\ s.age < InUse /\ x.char = s.char /\ x.acct = s.acct /\ x.user = s.user
            /\ x.age = s.age + 1
      /\ \A s, t \in sessions : s.char = t.char => s = t
  BY DEF TypeOK, Session, OneSessionEach
<1>h. \A x, y \in sessions' : x.char = y.char => x = y
  BY <1>c DEF Session
<1>d. /\ failures' \in [{"limited", "open"} -> Nat]
      /\ failures'.limited <= failures.limited
  BY DEF TypeOK
<1>e. /\ "tick" \notin raced
      /\ renewed' \subseteq renewed
      /\ \A a \in renewed \ renewed' : found = NoRow \/ found.id # a
      /\ \A a \in renewed \ renewed' : \A x \in sessions' : x.acct # a
      /\ raced' = IF stage = "idle" THEN raced ELSE raced \cup {"tick"}
      /\ UNCHANGED <<groups, mapping, chars, alias, tags, commands, stage, who, asked, found,
                     report, door>>
  OBVIOUS
<1>f. row \in [Id -> Maybe(Account)] /\ \A a \in Accounts : row[a].age \in Nat
  BY DEF TypeOK, Maybe, Account
<1>g. \A a \in Accounts : a \in Id /\ row[a] # NoRow
  OBVIOUS
<1> HIDE DEF Tick, tables, handler, history, Holds, Accounts
<1>1. TypeOK'
  BY <1>a, <1>b, <1>c, <1>h, <1>d, <1>e, <1>f, <1>g DEF TypeOK, Maybe, Account, Character, Session, Found, Stages, Characters, Aliases
<1>2. NothingDangles'
  BY <1>a, <1>b, <1>c, <1>h, <1>d, <1>e, <1>f, <1>g DEF TypeOK, NothingDangles, Characters, Aliases, Maybe, Account, Character
<1>3. OneSessionEach'
  BY <1>a, <1>b, <1>c, <1>h, <1>d, <1>e, <1>f, <1>g DEF OneSessionEach
<1>4. HandlerKnows'
  BY <1>a, <1>b, <1>c, <1>h, <1>d, <1>e, <1>f, <1>g DEF HandlerKnows, TypeOK, Stages, Found, Maybe
<1>5. JustTouched'
  BY <1>a, <1>b, <1>c, <1>h, <1>d, <1>e, <1>f, <1>g DEF JustTouched, HandlerKnows, TypeOK, Account, Maybe, Found
<1>6. GivenIsUsed'
  BY <1>a, <1>b, <1>c, <1>h, <1>d, <1>e, <1>f, <1>g DEF GivenIsUsed, TypeOK, Account, Maybe, Found, HandlerKnows
<1>7. PooledIsIdle'
  BY <1>a, <1>b, <1>c, <1>h, <1>d, <1>e, <1>f, <1>g DEF PooledIsIdle, Unplayed, HandlerKnows, TypeOK, Found, Session, Maybe
<1>8. RoomForFailure'
  BY <1>a, <1>b, <1>c, <1>h, <1>d, <1>e, <1>f, <1>g DEF RoomForFailure, HandlerKnows, TypeOK
<1>9. OneAccountEach'
  BY <1>a, <1>b, <1>c, <1>h, <1>d, <1>e, <1>f, <1>g DEF OneAccountEach, OneSessionEach, TypeOK, Session, HandlerKnows
<1>10. PlayedIsInUse'
  BY <1>a, <1>b, <1>c, <1>h, <1>d, <1>e, <1>f, <1>g DEF PlayedIsInUse, Session, TypeOK
<1>11. FailuresBounded'
  BY <1>a, <1>b, <1>c, <1>h, <1>d, <1>e, <1>f, <1>g DEF FailuresBounded, RoomForFailure, TypeOK
<1> QED
  BY <1>1, <1>2, <1>3, <1>4, <1>5, <1>6, <1>7, <1>8, <1>9, <1>10, <1>11

LEMMA AdministerKeeps == ASSUME IInv, Administer PROVE IInv'
<1>1. CASE AccountCommands
  <2>1. ASSUME NEW n \in AccountName, NEW p \in Password,
               NEW gs \in {{}} \cup {{g} : g \in groups}, CreateAccount(n, p, gs)
        PROVE  IInv'
    <3>1. gs \in SUBSET groups
      OBVIOUS
    <3> QED
      BY <2>1, <3>1, CreateAccountKeeps
  <2> QED
    BY <1>1, <2>1, ChangePasswordKeeps, DeleteAccountKeeps DEF AccountCommands
<1>2. CASE GroupCommands
  BY <1>2, CreateGroupKeeps, DeleteGroupKeeps, AddToGroupKeeps, RemoveFromGroupKeeps DEF GroupCommands
<1>3. CASE TagCommands
  BY <1>3, TagAccountKeeps, UntagAccountKeeps, RenameTagKeeps DEF TagCommands
<1>4. CASE AliasCommands
  BY <1>4, CreateAliasKeeps, DeleteAliasKeeps DEF AliasCommands
<1>5. CASE CharacterCommands
  BY <1>5, AddCharacterKeeps, RemoveCharacterKeeps, SetKeyKeeps DEF CharacterCommands
<1>6. CASE ClearFailures
  BY <1>6, ClearFailuresKeeps
<1> QED
  BY <1>1, <1>2, <1>3, <1>4, <1>5, <1>6 DEF Administer

LEMMA LogInKeeps == ASSUME IInv, LogIn PROVE IInv'
BY BadKeyKeeps, AuthenticateKeeps, LoginAuthKeeps, FindKeeps, FindTagKeeps, FindDynamicKeeps,
   FetchKeeps, AllowKeeps, LoadKeeps, RefuseKeeps, GrantKeeps, AnswerKeeps DEF LogIn

LEMMA PlayKeeps == ASSUME IInv, Play PROVE IInv'
BY HearKeeps, CheckKeeps, PresentKeeps, TouchKeeps, RecordKeeps, ExpireKeeps, UpdateKeeps,
   MarkKeeps DEF Play

LEMMA StutterKeeps == ASSUME IInv, UNCHANGED vars PROVE IInv'
<1> USE DEF IInv, LoginInv, vars, tables, handler, history, Accounts
<1>1. TypeOK' /\ NothingDangles'
  BY DEF TypeOK, NothingDangles, Characters, Aliases
<1>2. OneSessionEach' /\ OneAccountEach' /\ PlayedIsInUse' /\ FailuresBounded'
  BY DEF OneSessionEach, OneAccountEach, PlayedIsInUse, FailuresBounded
<1>3. HandlerKnows' /\ JustTouched'
  BY DEF HandlerKnows, JustTouched
<1>4. GivenIsUsed'
  BY DEF GivenIsUsed
<1>5. PooledIsIdle' /\ RoomForFailure'
  BY DEF PooledIsIdle, Unplayed, RoomForFailure
<1> QED
  BY <1>1, <1>2, <1>3, <1>4, <1>5

LEMMA StepKeeps == ASSUME IInv, [Next]_vars PROVE IInv'
BY AdministerKeeps, LogInKeeps, PlayKeeps, TickKeeps, StutterKeeps DEF Next

-----------------------------------------------------------------------------
(* Answers: one lemma per query of a lookup *)

\* Of tables that stay the same the same is found.
LEMMA SameMeans ==
  ASSUME UNCHANGED <<row, chars, alias, tags, asked>>, NEW kind \in {"user", "character", "alias", "tag", "dynamic"}
  PROVE  Means(kind, asked)' = Means(kind, asked)
<1>0. Accounts' = Accounts /\ Characters' = Characters /\ Aliases' = Aliases
  BY DEF Accounts, Characters, Aliases
<1>1. Matching(asked)' = Matching(asked)
  BY <1>0 DEF Matching, Suits
<1> QED
  BY <1>0, <1>1 DEF Means

LEMMA SameFirst ==
  ASSUME UNCHANGED row, NEW as, NEW level
  PROVE  First(as, level)' = First(as, level)
BY DEF First

LEMMA SameLevel ==
  ASSUME UNCHANGED <<row, chars, alias, tags, asked>>
  PROVE  MaxLevel' = MaxLevel
<1>0. Characters' = Characters
  BY DEF Characters
<1> QED
  BY <1>0 DEF MaxLevel

LEMMA SameResolve ==
  ASSUME UNCHANGED <<row, chars, alias, tags, asked>>
  PROVE  Offered' = Offered /\ Standing(asked)' = Standing(asked)
<1>0. Characters' = Characters
  BY DEF Characters
<1>1. Matching(asked)' = Matching(asked)
  BY <1>0 DEF Matching, Suits
<1>2. ASSUME NEW k \in 1 .. 5 PROVE Means(Kinds[k], asked)' = Means(Kinds[k], asked)
  BY SameMeans DEF Kinds
<1>3. Standing(asked)' = Standing(asked)
  BY <1>2 DEF Standing, Kinds
<1>9. \A as : Matched(asked, as)' = Matched(asked, as)
  BY <1>0, <1>1 DEF Matched, First
<1>10. \A as : Tagged(asked, as)' = Tagged(asked, as)
  BY SameLevel DEF Tagged, First
<1>4. CASE Standing(asked) = {}
  BY <1>3, <1>4 DEF Resolve, Offered
<1>5. CASE Standing(asked) # {}
  <2> DEFINE k == Min(Standing(asked))
             as == Means(Kinds[k], asked)
             idle == {a \in as : Idle(a)}
  <2>1. k \in 1 .. 5 /\ k' = k
    BY <1>3, <1>5, MinStanding
  <2>2. Means(Kinds[k], asked)' = as
    <3> HIDE DEF k
    <3> QED
        BY <1>2, <2>1
  <2>3. {a \in Means(Kinds[k], asked) : Idle(a)}' = idle
    <3> HIDE DEF k
    <3> QED
        BY <2>2 DEF Idle
  <2>4. Offered =
        CASE Kinds[k] = "tag" -> Tagged(asked, idle)
          [] Kinds[k] = "dynamic" -> Matched(asked, idle)
          [] OTHER -> as
    BY <1>5 DEF Resolve, Offered
  <2>5. Offered' =
        CASE Kinds[k] = "tag" -> Tagged(asked, idle)'
          [] Kinds[k] = "dynamic" -> Matched(asked, idle)'
          [] OTHER -> as
    <3>1. Offered' =
        (CASE Kinds[k] = "tag" -> Tagged(asked, idle)
          [] Kinds[k] = "dynamic" -> Matched(asked, idle)
          [] OTHER -> as)'
      BY <1>3, <1>5 DEF Resolve, Offered
    <3> HIDE DEF k, idle
    <3> QED
      BY <2>1, <2>2, <3>1
  <2>6. idle' = idle
    BY <2>3
  <2> HIDE DEF k, idle, as
  <2> QED
    BY <1>3, <1>9, <1>10, <2>4, <2>5, <2>6
<1> QED
  BY <1>3, <1>4, <1>5

LEMMA FirstKind ==
  ASSUME NEW k \in 1 .. 5, Means(Kinds[k], asked) # {},
         \A j \in 1 .. k - 1 : Means(Kinds[j], asked) = {}
  PROVE  /\ Standing(asked) # {}
         /\ Offered =
              CASE Kinds[k] = "tag" -> Tagged(asked, {a \in Means(Kinds[k], asked) : Idle(a)})
                [] Kinds[k] = "dynamic" -> Matched(asked, {a \in Means(Kinds[k], asked) : Idle(a)})
                [] OTHER -> Means(Kinds[k], asked)
<1>1. k \in Standing(asked) /\ \A j \in Standing(asked) : j \in 1 .. 5 /\ k <= j
  BY DEF Standing, Kinds
<1>2. Min(Standing(asked)) = k
  BY <1>1, MinStanding
<1> QED
  BY <1>1, <1>2 DEF Resolve, Offered

LEMMA SameTables ==
  ASSUME UNCHANGED <<row, groups, mapping, chars, alias, tags, asked, who>>
  PROVE  /\ Offered' = Offered /\ Standing(asked)' = Standing(asked)
         /\ \A j \in 1 .. 5 : Means(Kinds[j], asked)' = Means(Kinds[j], asked)
         /\ Usable(who)' = Usable(who) /\ Accounts' = Accounts
<1>1. \A j \in 1 .. 5 : Kinds[j] \in {"user", "character", "alias", "tag", "dynamic"} /\ Kinds' = Kinds
  BY DEF Kinds
<1>2. \A j \in 1 .. 5 : Means(Kinds[j], asked)' = Means(Kinds[j], asked)
  BY <1>1, SameMeans
<1>3. Usable(who)' = Usable(who) /\ Accounts' = Accounts
  BY DEF Usable, Accounts
<1> QED
  BY <1>2, <1>3, SameResolve

Settled == LookedUp /\ AnswersTheTables

\* Nothing is claimed of a handler that something fell into, that has not looked
\* anything up yet, or that looks up nothing.
LEMMA NothingClaimed ==
  ASSUME raced' # {} \/ stage' \in {"idle", "user", "check", "present", "touch", "record", "expire", "update", "mark"}
  PROVE  Settled'
<1>1. CASE raced' # {}
  BY <1>1 DEF Settled, LookedUp, AnswersTheTables
<1>2. CASE stage' \in {"idle", "user", "check", "present", "touch", "record", "expire", "update", "mark"}
  <2>1. \A k \in 1 .. 5 : stage' = Kinds[k] => k = 1
    BY <1>2 DEF Kinds
  <2>2. LookedUp'
    BY <1>2, <2>1 DEF LookedUp
  <2>3. AnswersTheTables'
    BY <1>2 DEF AnswersTheTables
  <2> QED
    BY <2>2, <2>3 DEF Settled
<1> QED
  BY <1>1, <1>2

LEMMA SameSettled ==
  ASSUME Settled, UNCHANGED <<row, groups, mapping, chars, alias, tags, asked, who, stage, found, raced>>
  PROVE  Settled'
<1> USE SameTables
<1>1. Current' = Current
  BY DEF Current
<1>2. LookedUp'
  <2>1. ASSUME NEW k \in 1 .. 5, NEW j \in 1 .. k - 1, raced = {}, stage = Kinds[k]
        PROVE  Means(Kinds[j], asked)' = {}
    BY <2>1 DEF Settled, LookedUp
  <2>2. Kinds' = Kinds
    BY DEF Kinds
  <2> QED
    BY <1>1, <2>1, <2>2 DEF Settled, LookedUp
<1>3. AnswersTheTables'
  BY <1>1 DEF Settled, AnswersTheTables
<1> QED
  BY <1>2, <1>3 DEF Settled

\* The account a lookup reads is told as it is.
LEMMA ReadIsCurrent ==
  ASSUME NEW a \in Accounts, NEW byTag, Read(a, byTag), UNCHANGED row
  PROVE  Current' /\ found'.id = a
BY DEF Read, Current, Accounts

LEMMA FindSettles ==
  ASSUME TypeOK, NothingDangles, Settled, NEW k \in 1 .. 3, Find(k)
  PROVE  Settled'
<1> SUFFICES ASSUME raced = {} PROVE Settled'
  BY NothingClaimed DEF Find, HandlerOnly, history, Settled, LookedUp, AnswersTheTables
<1>1. /\ stage = Kinds[k] /\ k \in 1 .. 5 /\ k + 1 \in 1 .. 5
      /\ UNCHANGED <<row, groups, mapping, chars, alias, tags, asked, who, raced>>
  BY DEF Find, HandlerOnly, tables, history
<1>2. \A j \in 1 .. k - 1 : Means(Kinds[j], asked) = {}
  BY <1>1 DEF Settled, LookedUp
<1>3. CASE Means(stage, asked) = {}
  <2>1. \A j \in 1 .. k : Means(Kinds[j], asked)' = {}
    BY <1>1, <1>2, <1>3, SameTables
  <2>2. stage' = Kinds[k + 1]
    BY <1>3 DEF Find
  <2>3. \A i \in 1 .. 5 : stage' = Kinds[i] => i = k + 1
    BY <2>2 DEF Kinds
  <2>4. stage' \in {"character", "alias", "tag"}
    BY <2>2 DEF Kinds
  <2>5. LookedUp'
    <3>1. \A i \in 1 .. 5 :
            stage' = Kinds'[i] => \A j \in 1 .. i - 1 : Means(Kinds[j], asked)' = {}
      BY <2>1, <2>3 DEF Kinds
    <3>2. stage' \notin {"fetch", "refused", "load", "login"}
      BY <2>4
    <3> QED
      BY <3>1, <3>2 DEF LookedUp
  <2>6. AnswersTheTables'
    BY <2>4 DEF AnswersTheTables
  <2> QED
    BY <2>5, <2>6 DEF Settled
<1>4. CASE Means(stage, asked) # {}
  <2>1. PICK a \in Means(stage, asked) : Read(a, FALSE)
    BY <1>4 DEF Find
  <2>2. stage \in {"user", "character", "alias"} /\ stage' = "allow"
    <3>1. Kinds[k] \in {"user", "character", "alias"}
      BY DEF Kinds
    <3> QED
      BY <1>1, <1>4, <3>1 DEF Find
  <2>3. a \in Accounts
    BY <2>1, <2>2, MeansIsThere
  <2>4. Current' /\ found'.id = a
    BY <1>1, <2>1, <2>3, ReadIsCurrent
  <2>5. Offered = Means(stage, asked)
    BY <1>1, <1>2, <1>4, <2>2, FirstKind
  <2>6. found'.id \in Offered'
    BY <1>1, <2>1, <2>4, <2>5, SameTables
  <2> QED
    BY <2>2, <2>4, <2>6 DEF Settled, LookedUp, AnswersTheTables, Kinds
<1> QED
  BY <1>3, <1>4

LEMMA FindTagSettles ==
  ASSUME TypeOK, NothingDangles, Settled, FindTag
  PROVE  Settled'
<1> SUFFICES ASSUME raced = {} PROVE Settled'
  BY NothingClaimed DEF FindTag, HandlerOnly, history, Settled, LookedUp, AnswersTheTables
<1> DEFINE as == Means("tag", asked)
           idle == {a \in as : Idle(a)}
<1>1. /\ stage = "tag" /\ Kinds[4] = "tag" /\ 4 \in 1 .. 5
      /\ UNCHANGED <<row, groups, mapping, chars, alias, tags, asked, who, raced>>
  BY DEF FindTag, HandlerOnly, tables, history, Kinds
<1>2. \A j \in 1 .. 3 : Means(Kinds[j], asked) = {}
  BY <1>1 DEF Settled, LookedUp
<1>3. CASE as = {}
  <2>1. \A j \in 1 .. 4 : Means(Kinds[j], asked)' = {}
    BY <1>1, <1>2, <1>3, SameTables
  <2>2. stage' = "dynamic"
    BY <1>3 DEF FindTag
  <2>3. \A i \in 1 .. 5 : stage' = Kinds[i] => i = 5
    BY <2>2 DEF Kinds
  <2>5. LookedUp'
    BY <2>1, <2>2, <2>3 DEF LookedUp
  <2>6. AnswersTheTables'
    BY <2>2 DEF AnswersTheTables
  <2> QED
    BY <2>5, <2>6 DEF Settled
<1>4. CASE as # {}
  <2>1. Standing(asked) # {} /\ Offered = Tagged(asked, idle)
    BY <1>1, <1>2, <1>4, FirstKind
  <2>2. CASE idle = {}
    <3>1. stage' = "empty"
      BY <1>4, <2>2 DEF FindTag
    <3>2. Offered' = {} /\ Standing(asked)' # {}
      BY <1>1, <2>1, <2>2, TaggedIsAmong, SameTables
    <3> QED
      BY <3>1, <3>2 DEF Settled, LookedUp, AnswersTheTables, Kinds
  <2>3. CASE idle # {}
    <3>1. stage' = "allow" /\ \E a \in Tagged(asked, idle) : Read(a, TRUE)
      BY <1>4, <2>3 DEF FindTag
    <3>2. PICK a \in Tagged(asked, idle) : Read(a, TRUE)
      BY <3>1
    <3>3. a \in Accounts
      BY <3>2, MeansIsThere, TaggedIsAmong
    <3>4. Current' /\ found'.id = a
      BY <1>1, <3>2, <3>3, ReadIsCurrent
    <3>5. found'.id \in Offered'
      BY <1>1, <2>1, <3>2, <3>4, SameTables
    <3> QED
      BY <3>1, <3>4, <3>5 DEF Settled, LookedUp, AnswersTheTables, Kinds
  <2> QED
    BY <2>2, <2>3
<1> QED
  BY <1>3, <1>4

LEMMA FindDynamicSettles ==
  ASSUME TypeOK, NothingDangles, Settled, FindDynamic
  PROVE  Settled'
<1> SUFFICES ASSUME raced = {} PROVE Settled'
  BY NothingClaimed DEF FindDynamic, HandlerOnly, history, Settled, LookedUp, AnswersTheTables
<1> DEFINE as == Means("dynamic", asked)
           idle == {a \in as : Idle(a)}
<1>1. /\ stage = "dynamic" /\ Kinds[5] = "dynamic" /\ 5 \in 1 .. 5
      /\ UNCHANGED <<row, groups, mapping, chars, alias, tags, asked, who, raced>>
  BY DEF FindDynamic, HandlerOnly, tables, history, Kinds
<1>2. \A j \in 1 .. 4 : Means(Kinds[j], asked) = {}
  BY <1>1 DEF Settled, LookedUp
<1>3. as = {} => Standing(asked) = {} /\ Offered = {}
  <2>1. as = {} => Standing(asked) = {}
    BY <1>1, <1>2 DEF Standing, Kinds
  <2> QED
    BY <2>1 DEF Resolve, Offered
<1>4. as # {} => Standing(asked) # {} /\ Offered = Matched(asked, idle)
  BY <1>1, <1>2, FirstKind
<1>5. CASE asked \notin Dynamic
  <2>1. stage' = "missing"
    BY <1>5 DEF FindDynamic
  <2>2. as = {}
    BY <1>5 DEF Means, Matching
  <2>3. Standing(asked)' = {}
    BY <1>1, <1>3, <2>2, SameTables
  <2> QED
    BY <1>1, <1>5, <2>1, <2>3 DEF Settled, LookedUp, AnswersTheTables, Kinds
<1>6. CASE asked \in Dynamic /\ idle = {}
  <2>1. stage' = "empty"
    BY <1>6 DEF FindDynamic
  <2>2. Offered = {}
    BY <1>3, <1>4, <1>6, MatchedIsAmong
  <2>3. Offered' = {}
    BY <1>1, <2>2, SameTables
  <2> QED
    BY <1>1, <1>6, <2>1, <2>3 DEF Settled, LookedUp, AnswersTheTables, Kinds
<1>7. CASE asked \in Dynamic /\ idle # {}
  <2>1. stage' = "fetch" /\ \E a \in Matched(asked, idle) : Read(a, TRUE)
    BY <1>7 DEF FindDynamic
  <2>2. PICK a \in Matched(asked, idle) : Read(a, TRUE)
    BY <2>1
  <2>3. a \in Accounts
    BY <2>2, MeansIsThere, MatchedIsAmong
  <2>4. Current' /\ found'.id = a
    BY <1>1, <2>2, <2>3, ReadIsCurrent
  <2>5. found'.id \in Offered'
    BY <1>1, <1>4, <1>7, <2>2, <2>4, SameTables
  <2> QED
    BY <2>1, <2>4, <2>5 DEF Settled, LookedUp, AnswersTheTables, Kinds
<1> QED
  BY <1>5, <1>6, <1>7

LEMMA FetchSettles ==
  ASSUME Settled, Fetch
  PROVE  Settled'
<1> SUFFICES ASSUME raced = {} PROVE Settled'
  BY NothingClaimed DEF Fetch, HandlerOnly, history, Settled, LookedUp, AnswersTheTables
<1>1. /\ stage = "fetch"
      /\ UNCHANGED <<row, groups, mapping, chars, alias, tags, asked, who, raced>>
  BY DEF Fetch, HandlerOnly, tables, history
<1>2. Current /\ found.id \in Offered
  BY <1>1 DEF Settled, LookedUp
<1>3. stage' = "allow" /\ Read(found.id, TRUE) /\ found.id \in Accounts
  BY <1>2 DEF Fetch, Current
<1>4. Current' /\ found'.id = found.id
  BY <1>1, <1>3, ReadIsCurrent
<1>5. found'.id \in Offered'
  BY <1>1, <1>2, <1>4, SameTables
<1> QED
  BY <1>3, <1>4, <1>5 DEF Settled, LookedUp, AnswersTheTables, Kinds

LEMMA AllowSettles ==
  ASSUME Settled, Allow
  PROVE  Settled'
<1> SUFFICES ASSUME raced = {} PROVE Settled'
  BY NothingClaimed DEF Allow, HandlerOnly, history, Settled, LookedUp, AnswersTheTables
<1>1. /\ stage = "allow"
      /\ UNCHANGED <<row, groups, mapping, chars, alias, tags, asked, who, raced, found>>
  BY DEF Allow, HandlerOnly, tables, history
<1>2. Current
  BY <1>1 DEF Settled, AnswersTheTables
<1>3. Current' /\ found'.id = found.id
  BY <1>1, <1>2, SameTables DEF Current
<1>4. CASE found.id \in Usable(who)
  <2>1. stage' = "load" /\ found'.id \in Usable(who)'
    BY <1>1, <1>4, SameTables DEF Allow
  <2> QED
    BY <1>3, <2>1 DEF Settled, LookedUp, AnswersTheTables, Kinds
<1>5. CASE found.id \notin Usable(who)
  <2>1. stage' = "refused" /\ found'.id \notin Usable(who)'
    BY <1>1, <1>5, SameTables DEF Allow
  <2> QED
    BY <1>3, <2>1 DEF Settled, LookedUp, AnswersTheTables, Kinds
<1> QED
  BY <1>4, <1>5

LEMMA LoadSettles ==
  ASSUME Settled, Load
  PROVE  Settled'
<1> SUFFICES ASSUME raced = {} PROVE Settled'
  BY NothingClaimed DEF Load, HandlerOnly, history, Settled, LookedUp, AnswersTheTables
<1>1. /\ stage = "load"
      /\ UNCHANGED <<row, groups, mapping, chars, alias, tags, asked, who, raced, found>>
  BY DEF Load, HandlerOnly, tables, history
<1>2. Current /\ found.id \in Usable(who)
  BY <1>1 DEF Settled, LookedUp
<1>3. Current' /\ found'.id \in Usable(who)'
  BY <1>1, <1>2, SameTables DEF Current
<1>4. stage' = "login"
  BY <1>2 DEF Load, Current
<1> QED
  BY <1>3, <1>4 DEF Settled, LookedUp, AnswersTheTables, Kinds

LEMMA RefuseSettles ==
  ASSUME Settled, Refuse
  PROVE  Settled'
<1> SUFFICES ASSUME raced = {} PROVE Settled'
  BY NothingClaimed DEF Refuse, HandlerOnly, history, Settled, LookedUp, AnswersTheTables
<1>1. /\ stage = "refused" /\ stage' = "denied"
      /\ UNCHANGED <<row, groups, mapping, chars, alias, tags, asked, who, raced, found>>
  BY DEF Refuse, HandlerOnly, tables, history
<1>2. found.id \notin Usable(who)
  BY <1>1 DEF Settled, LookedUp
<1>3. found'.id \notin Usable(who)'
  BY <1>1, <1>2, SameTables
<1> QED
  BY <1>1, <1>3 DEF Settled, LookedUp, AnswersTheTables, Kinds

LEMMA GrantSettles ==
  ASSUME TypeOK, Settled, Grant
  PROVE  Settled'
<1> SUFFICES ASSUME raced = {} PROVE Settled'
  BY NothingClaimed DEF Grant, Settled, LookedUp, AnswersTheTables
<1>1. /\ stage = "login" /\ stage' = "granted"
      /\ UNCHANGED <<groups, mapping, asked, who, raced, found>>
  BY DEF Grant
<1>2. Current /\ found.id \in Usable(who)
  BY <1>1 DEF Settled, LookedUp
<1>3. row[found.id] \in Account /\ found.id \in Id /\ found.id \in Accounts
  BY <1>2 DEF Current, TypeOK, Accounts, Maybe
<1>4. row' = [row EXCEPT ![found.id].age = 0]
  BY <1>3 DEF Grant, Used
<1>5. /\ row'[found.id].user = row[found.id].user
      /\ row'[found.id].pass = row[found.id].pass
      /\ row'[found.id] \in Account
  BY <1>3, <1>4, Bounds DEF TypeOK, Account
<1>6. row'[found.id] # NoRow
  BY <1>5, LoginAssumption
<1>7. Current'
  BY <1>1, <1>2, <1>3, <1>5, <1>6 DEF Current, Accounts
<1>8. found'.id \in Usable(who)'
  BY <1>1, <1>2 DEF Usable
<1> QED
  BY <1>1, <1>7, <1>8 DEF Settled, LookedUp, AnswersTheTables, Kinds

LEMMA CommandSettles ==
  ASSUME Settled, HandlerKnows, Administer
  PROVE  Settled'
<1>1. CASE ClearFailures
  BY <1>1, SameSettled DEF ClearFailures, tables, handler, history
<1>2. CASE Command
  <2>1. stage' = stage /\ (stage # "idle" => "command" \in raced')
    BY <1>2 DEF Command, handler
  <2>2. raced' # {} \/ stage' = "idle"
    BY <2>1
  <2> QED
    BY <2>2, NothingClaimed
<1>3. Command \/ ClearFailures
  BY DEF Administer, AccountCommands, GroupCommands, TagCommands, AliasCommands,
     CharacterCommands, CreateAccount, ChangePassword, DeleteAccount, CreateGroup,
     DeleteGroup, AddToGroup, RemoveFromGroup, TagAccount, UntagAccount, RenameTag,
     CreateAlias, DeleteAlias, AddCharacter, RemoveCharacter, SetKey
<1> QED
  BY <1>1, <1>2, <1>3

LEMMA OthersSettle ==
  ASSUME Settled,
         \/ BadKey \/ Answer \/ Play \/ Tick
         \/ \E u \in User, n \in Name : Authenticate(u, n) \/ LoginAuth(u, n)
  PROVE  Settled'
<1>1. \/ raced' # {}
      \/ stage' \in {"idle", "user", "check", "present", "touch", "record", "expire", "update", "mark"}
  <2>1. CASE BadKey \/ Answer
    BY <2>1 DEF BadKey, Answer, End, handler
  <2>2. CASE \E u \in User, n \in Name : Authenticate(u, n) \/ LoginAuth(u, n)
    BY <2>2 DEF Authenticate, LoginAuth, Begin
  <2>3. CASE Tick
    BY <2>3 DEF Tick, handler
  <2>4. CASE Play
    <3>1. CASE \E u \in User, c \in Char : Hear(u, c)
      BY <3>1 DEF Hear, Begin
    <3>2. CASE Check \/ Present \/ Touch
      BY <3>2 DEF Check, Present, Touch, End
    <3>3. CASE Record
      BY <3>3 DEF Record
    <3>4. CASE Expire
      BY <3>4 DEF Expire, Shared, End
    <3>5. CASE Update \/ Mark
      BY <3>5 DEF Update, Mark, End
    <3> QED
      BY <2>4, <3>1, <3>2, <3>3, <3>4, <3>5 DEF Play
  <2> QED
    BY <2>1, <2>2, <2>3, <2>4
<1> QED
  BY <1>1, NothingClaimed

LEMMA StepSettles == ASSUME IInv, Settled, [Next]_vars PROVE Settled'
<1>1. TypeOK /\ NothingDangles /\ HandlerKnows
  BY DEF IInv, LoginInv
<1>2. CASE Administer
  BY <1>1, <1>2, CommandSettles
<1>3. CASE LogIn
  BY <1>1, <1>3, FindSettles, FindTagSettles, FindDynamicSettles, FetchSettles, AllowSettles,
     LoadSettles, RefuseSettles, GrantSettles, OthersSettle DEF LogIn
<1>4. CASE Play \/ Tick
  BY <1>4, OthersSettle
<1>5. CASE UNCHANGED vars
  BY <1>5, SameSettled DEF vars, tables, handler, history
<1> QED
  BY <1>2, <1>3, <1>4, <1>5 DEF Next

-----------------------------------------------------------------------------
(* Theorems *)

\* Types; nothing names an account that is gone; a character has one session;
\* what a handler knows, between any two of its transactions.
THEOREM InvCorrect == Spec => []LoginInv
<1>1. Spec => []IInv
  BY InitKeeps, StepKeeps, PTL DEF Spec
<1>2. IInv => LoginInv
  BY DEF IInv
<1> QED
  BY <1>1, <1>2, PTL

\* The sessions of a user agree on his account (expire_other_sessions), whoever's
\* character he took over and wherever it was moved.
THEOREM OneAccountCorrect == Spec => []OneAccountEach
<1>1. Spec => []IInv
  BY InitKeeps, StepKeeps, PTL DEF Spec
<1>2. IInv => OneAccountEach
  BY DEF IInv
<1> QED
  BY <1>1, <1>2, PTL

\* An account on which somebody is shown counts as in use (update_last_login and
\* record_heartbeat_session agree).
THEOREM PlayedCorrect == Spec => []PlayedIsInUse
<1>1. Spec => []IInv
  BY InitKeeps, StepKeeps, PTL DEF Spec
<1>2. IInv => PlayedIsInUse
  BY DEF IInv
<1> QED
  BY <1>1, <1>2, PTL

\* The failures through the doors that have a limit stay within it
\* (is_ip_rate_limited).
THEOREM FailuresCorrect == Spec => []FailuresBounded
<1>1. Spec => []IInv
  BY InitKeeps, StepKeeps, PTL DEF Spec
<1>2. IInv => FailuresBounded
  BY DEF IInv
<1> QED
  BY <1>1, <1>2, PTL

\* A tag gives away no account that somebody got or plays
\* (find_account_by_username, update_last_login_and_log).
THEOREM PoolCorrect == Spec => PoolExclusive
<1>1. ASSUME IInv, [Next]_vars
      PROVE  [stage = "login" /\ stage' = "granted" /\ found.tag =>
                given[found.id] > InUse /\ Unplayed(found.id)]_vars
  BY <1>1 DEF IInv, LoginInv, PooledIsIdle
<1>2. Spec => []IInv
  BY InitKeeps, StepKeeps, PTL DEF Spec
<1> QED
  BY <1>1, <1>2, PTL DEF Spec, PoolExclusive

\* A handler that nothing fell into answers as one look at the tables would
\* (find_account_by_username, _perform_login_auth).
THEOREM AnswersCorrect == Spec => []AnswersTheTables
<1>1. Init => Settled
  <2> SUFFICES ASSUME Init PROVE Settled
    OBVIOUS
  <2>1. stage = "idle"
    BY DEF Init
  <2>2. \A k \in 1 .. 5 : stage # Kinds[k]
    BY <2>1 DEF Kinds
  <2> QED
    BY <2>1, <2>2 DEF Settled, LookedUp, AnswersTheTables
<1>2. Spec => [](IInv /\ Settled)
  BY <1>1, InitKeeps, StepKeeps, StepSettles, PTL DEF Spec
<1>3. Settled => AnswersTheTables
  BY DEF Settled
<1> QED
  BY <1>2, <1>3, PTL
=============================================================================
