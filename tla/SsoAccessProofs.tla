-------------------------- MODULE SsoAccessProofs --------------------------
(***************************************************************************)
(* Proofs about SsoAccess, for any users, connections and bounds.          *)
(***************************************************************************)
EXTENDS SsoAccess, TLAPS

LEMMA InitAccess == Init => AccessInv
<1>. SUFFICES ASSUME Init PROVE AccessInv
  OBVIOUS
<1>1. TypeOK
  BY DEF Init, TypeOK
<1>. QED
  BY <1>1 DEF Init, AccessInv, KeyCacheCurrent, RevCacheCurrent, LoadsCurrent

\* The steps of the Discord thread.
LEMMA WriterStep ==
  ASSUME AccessInv, NEW u \in User,
         Commands(u) \/ InvalidateKeys \/ InvalidateRevocations
  PROVE  AccessInv'
<1>. USE DEF AccessInv, TypeOK, KeyCacheCurrent, RevCacheCurrent, LoadsCurrent
<1>1. CASE GiveKey(u)
  BY <1>1 DEF GiveKey, revVars, apiVars, kickVars, sessionVars
<1>2. CASE Revoke(u)
  <2>1. revRow' \in [User -> SUBSET Nat]
    BY <1>2 DEF Revoke, Never
  <2>. QED
    BY <1>2, <2>1 DEF Revoke, keyVars, apiVars, kickVars, sessionVars
<1>3. CASE RemoveRevocation(u)
  BY <1>3 DEF RemoveRevocation, keyVars, apiVars, kickVars, sessionVars
<1>4. CASE Disconnect(u)
  BY <1>4 DEF Disconnect, keyVars, revVars, apiVars, sessionVars
<1>5. CASE ReplyRefused(u)
  BY <1>5 DEF ReplyRefused, keyVars, revVars, apiVars, kickVars, sessionVars
<1>6. CASE InvalidateKeys
  BY <1>6 DEF InvalidateKeys, revVars, apiVars, kickVars, sessionVars
<1>7. CASE InvalidateRevocations
  BY <1>7 DEF InvalidateRevocations, keyVars, apiVars, kickVars, sessionVars
<1>. QED
  BY <1>1, <1>2, <1>3, <1>4, <1>5, <1>6, <1>7 DEF Commands

\* What a revocation check can do to the connection it is made for.
LEMMA JudgeStep ==
  ASSUME TypeOK, NEW entries, Judge(entries)
  PROVE  /\ stage' \in [Conn -> {"new", "keyed", "checked", "open", "closing",
                                 "refused", "failed", "gone"}]
         /\ \A c \in Conn : stage'[c] = "checked" =>
              stage[c] = "checked" \/ (c = cur /\ ~Revoked(entries))
BY DEF TypeOK, Judge

\* The steps of a lookup.
LEMMA LookupStep == AccessInv /\ Lookup => AccessInv'
<1>. SUFFICES ASSUME AccessInv, Lookup PROVE AccessInv'
  OBVIOUS
<1>. USE DEF AccessInv, TypeOK, KeyCacheCurrent, RevCacheCurrent, LoadsCurrent
<1>1. CASE ReadKeys
  BY <1>1 DEF ReadKeys, revVars, cmdVars, kickVars, sessionVars
<1>2. CASE AssignKeys
  BY <1>2 DEF AssignKeys, revVars, cmdVars, kickVars, sessionVars
<1>3. CASE UseKeys
  BY <1>3 DEF UseKeys, keyVars, revVars, cmdVars, kickVars
<1>4. CASE UseRevocations
  <2>1. stage' \in [Conn -> {"new", "keyed", "checked", "open", "closing",
                             "refused", "failed", "gone"}]
    BY <1>4, JudgeStep DEF UseRevocations
  <2>. QED
    BY <1>4, <2>1 DEF UseRevocations, keyVars, revVars, cmdVars, kickVars
<1>5. CASE ReadRevocations
  BY <1>5 DEF ReadRevocations, keyVars, cmdVars, kickVars, sessionVars
<1>6. CASE AssignRevocations
  <2>1. stage' \in [Conn -> {"new", "keyed", "checked", "open", "closing",
                             "refused", "failed", "gone"}]
    BY <1>6, JudgeStep DEF AssignRevocations
  <2>. QED
    BY <1>6, <2>1 DEF AssignRevocations, keyVars, cmdVars, kickVars
<1>. QED
  BY <1>1, <1>2, <1>3, <1>4, <1>5, <1>6 DEF Lookup

\* The steps of sessions and of the clock touch neither table nor cache.
LEMMA SessionStep ==
  ASSUME AccessInv, NEW u \in User, NEW c \in Conn,
         Session(c) \/ StartKick(u) \/ DayPasses
  PROVE  AccessInv'
<1>. USE DEF AccessInv, TypeOK, KeyCacheCurrent, RevCacheCurrent, LoadsCurrent
<1>1. CASE PresentKey(c)
  <2>1. given' \in [Conn -> Nat]
    BY <1>1, AccessAssumption DEF PresentKey
  <2>. QED
    BY <1>1, <2>1 DEF PresentKey, Idle, keyVars, revVars, cmdVars, kickVars
<1>2. CASE CheckRevocation(c)
  BY <1>2 DEF CheckRevocation, Idle, keyVars, revVars, cmdVars, kickVars, sessionVars
<1>3. CASE DiscordNotReady(c)
  BY <1>3 DEF DiscordNotReady, keyVars, revVars, apiVars, cmdVars, kickVars
<1>4. CASE Register(c)
  BY <1>4 DEF Register, keyVars, revVars, apiVars, cmdVars, kickVars
<1>5. CASE Leave(c)
  BY <1>5 DEF Leave, keyVars, revVars, apiVars, cmdVars, kickVars
<1>6. CASE HandlerEnds(c)
  BY <1>6 DEF HandlerEnds, keyVars, revVars, apiVars, cmdVars, kickVars
<1>7. CASE Kick(c)
  BY <1>7 DEF Kick, keyVars, revVars, apiVars, cmdVars
<1>8. CASE StartKick(u)
  BY <1>8 DEF StartKick, keyVars, revVars, apiVars, cmdVars, sessionVars
<1>9. CASE DayPasses
  BY <1>9 DEF DayPasses, keyVars, revVars, apiVars, cmdVars, kickVars, sessionVars
<1>. QED
  BY <1>1, <1>2, <1>3, <1>4, <1>5, <1>6, <1>7, <1>8, <1>9 DEF Session

LEMMA NextAccess == AccessInv /\ [Next]_vars => AccessInv'
<1>. SUFFICES ASSUME AccessInv, [Next]_vars PROVE AccessInv'
  OBVIOUS
<1>1. PICK c0 \in Conn, u0 \in User : TRUE
  BY AccessAssumption DEF AccessInv, TypeOK
<1>2. CASE UNCHANGED vars
  BY <1>2 DEF vars, keyVars, revVars, apiVars, cmdVars, kickVars, sessionVars,
     AccessInv, TypeOK, KeyCacheCurrent, RevCacheCurrent, LoadsCurrent
<1>. QED
  BY <1>1, <1>2, WriterStep, LookupStep, SessionStep DEF Next

(***************************************************************************)
(* In every instance the caches differ from their tables only in the two   *)
(* windows named: before the drop, and after a drop that met a load.       *)
(***************************************************************************)
THEOREM CachesCorrect == Spec => []AccessInv
BY InitAccess, NextAccess, PTL DEF Spec

\* A connection gets past its key only in UseKeys.
LEMMA KeyedStep ==
  ASSUME AccessInv, [Next]_vars, NEW c \in Conn,
         stage[c] = "new", stage'[c] = "keyed"
  PROVE  given[c] = keyRow[Owner[c]] \/ writer = "keys" \/ keyRaced
<1>. USE DEF AccessInv, TypeOK
<1>1. UseKeys
  <2>1. ASSUME NEW u \in User, Commands(u) PROVE stage' = stage
    BY <2>1 DEF Commands, GiveKey, Revoke, RemoveRevocation, Disconnect,
       ReplyRefused, sessionVars
  <2>2. ASSUME NEW u \in User, StartKick(u) PROVE stage' = stage
    BY <2>2 DEF StartKick, sessionVars
  <2>3. CASE InvalidateKeys \/ InvalidateRevocations \/ DayPasses \/ ReadKeys
             \/ AssignKeys \/ ReadRevocations \/ UNCHANGED vars
    BY <2>3 DEF InvalidateKeys, InvalidateRevocations, DayPasses, ReadKeys,
       AssignKeys, ReadRevocations, vars, sessionVars
  <2>4. CASE UseRevocations \/ AssignRevocations
    BY <2>4 DEF UseRevocations, AssignRevocations, Judge
  <2>5. ASSUME NEW d \in Conn, Session(d) PROVE FALSE
    BY <2>5 DEF Session, PresentKey, CheckRevocation, DiscordNotReady, Register,
       Leave, HandlerEnds, Kick, sessionVars
  <2>. QED
    BY <2>1, <2>2, <2>3, <2>4, <2>5 DEF Next, Lookup
<1>2. c = cur /\ keyCache # NoCache /\ keyCache[Owner[c]] = given[c]
  BY <1>1 DEF UseKeys
<1>. QED
  BY <1>2 DEF KeyCacheCurrent

\* A connection gets past the revocations only on a judgement of the cache or
\* of the rows just read.
LEMMA CheckedStep ==
  ASSUME AccessInv, [Next]_vars, NEW c \in Conn,
         stage[c] = "keyed", stage'[c] = "checked"
  PROVE  ~Revoked(revRow[Owner[c]]) \/ writer = "revocations" \/ revRaced
<1>. USE DEF AccessInv
<1>1. UseRevocations \/ AssignRevocations
  <2>. USE DEF TypeOK
  <2>1. ASSUME NEW u \in User, Commands(u) PROVE stage' = stage
    BY <2>1 DEF Commands, GiveKey, Revoke, RemoveRevocation, Disconnect,
       ReplyRefused, sessionVars
  <2>2. ASSUME NEW u \in User, StartKick(u) PROVE stage' = stage
    BY <2>2 DEF StartKick, sessionVars
  <2>3. CASE InvalidateKeys \/ InvalidateRevocations \/ DayPasses \/ ReadKeys
             \/ AssignKeys \/ ReadRevocations \/ UNCHANGED vars
    BY <2>3 DEF InvalidateKeys, InvalidateRevocations, DayPasses, ReadKeys,
       AssignKeys, ReadRevocations, vars, sessionVars
  <2>4. CASE UseKeys
    BY <2>4 DEF UseKeys
  <2>5. ASSUME NEW d \in Conn, Session(d) PROVE FALSE
    BY <2>5 DEF Session, PresentKey, CheckRevocation, DiscordNotReady, Register,
       Leave, HandlerEnds, Kick, sessionVars
  <2>. QED
    BY <2>1, <2>2, <2>3, <2>4, <2>5 DEF Next, Lookup
<1>2. CASE UseRevocations
  <2>1. revCache # NoCache /\ Judge(revCache[Owner[cur]])
    BY <1>2 DEF UseRevocations, Judge, TypeOK
  <2>2. c = cur /\ ~Revoked(revCache[Owner[c]])
    BY <2>1, JudgeStep
  <2>. QED
    BY <2>1, <2>2 DEF RevCacheCurrent
<1>3. CASE AssignRevocations
  <2>1. c = cur /\ ~Revoked(revTmp[Owner[c]]) /\ pc = "revAssign"
    BY <1>3, JudgeStep DEF AssignRevocations
  <2>. QED
    BY <2>1 DEF LoadsCurrent
<1>. QED
  BY <1>1, <1>2, <1>3

(***************************************************************************)
(* Outside the windows of CachesCorrect, a key that gets through is the    *)
(* one the table holds.                                                    *)
(***************************************************************************)
THEOREM KeysCorrect == Spec => KeyHonoured
<1>1. AccessInv /\ [Next]_vars =>
        [\A c \in Conn : stage[c] = "new" /\ stage'[c] = "keyed" =>
           given[c] = keyRow[Owner[c]] \/ writer = "keys" \/ keyRaced]_vars
  BY KeyedStep
<1>. QED
  BY <1>1, CachesCorrect, PTL DEF Spec, KeyHonoured

(***************************************************************************)
(* Outside the windows of CachesCorrect, nobody gets through whose         *)
(* revocation the table holds and time has not ended.                      *)
(***************************************************************************)
THEOREM RevocationsCorrect == Spec => RevocationHonoured
<1>1. AccessInv /\ [Next]_vars =>
        [\A c \in Conn : stage[c] = "keyed" /\ stage'[c] = "checked" =>
           ~Revoked(revRow[Owner[c]]) \/ writer = "revocations" \/ revRaced]_vars
  BY CheckedStep
<1>. QED
  BY <1>1, CachesCorrect, PTL DEF Spec, RevocationHonoured
=============================================================================
