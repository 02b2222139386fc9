------------------------- MODULE AccountSyncProofs -------------------------
(***************************************************************************)
(* Proofs about AccountSync, for any sets of connections and pushes and    *)
(* any bounds.                                                             *)
(***************************************************************************)
EXTENDS AccountSync, SequenceTheorems, TLAPS

-----------------------------------------------------------------------------
(* Type correctness *)

LEMMA ZeroTree == Zero \in Tree
BY DEF Zero, Tree

LEMMA BumpTree ==
  ASSUME db \in Tree, NEW t \in Table
  PROVE  /\ Bump(t) \in Tree
         /\ AtLeast(Bump(t), db)
BY DEF Bump, Tree, AtLeast

LEMMA PatchTree ==
  ASSUME NEW v \in Tree, NEW m \in Delta
  PROVE  Patch(v, m) \in Tree
BY DEF Patch, Delta, Tree

LEMMA PromiseType ==
  ASSUME TypeOK, NEW v \in Tree, Promise(v)
  PROVE  owed' \in [Conn -> Tree] /\ shown' \in [Conn -> BOOLEAN]
<1>1. \A c \in Conn : AtLeast(view[c], v) \in BOOLEAN
  BY DEF AtLeast
<1>. QED
  BY <1>1 DEF TypeOK, Promise

LEMMA InitType == Init => TypeOK
BY ZeroTree DEF Init, TypeOK, NoTimer

LEMMA HandlersType == TypeOK /\ Handlers => TypeOK'
<1>. SUFFICES ASSUME TypeOK, Handlers PROVE TypeOK'
  OBVIOUS
<1>a. db \in Tree
  BY DEF TypeOK
<1>b. Bump("accounts") \in Tree /\ Bump("sessions") \in Tree
  BY <1>a, BumpTree DEF Table
<1>1. CASE HeartbeatLogin
  BY <1>1, <1>b DEF TypeOK, HeartbeatLogin, pushVars, connVars, buildVars, debtVars
<1>2. CASE LocationLogin
  BY <1>2, <1>b DEF TypeOK, LocationLogin, pushVars, connVars, buildVars, debtVars
<1>3. CASE RecordSession
  BY <1>3, <1>b DEF TypeOK, RecordSession, pushVars, connVars, buildVars, debtVars
<1>4. CASE UpdateCharacter
  BY <1>4, <1>b DEF TypeOK, UpdateCharacter, pushVars, connVars, buildVars, debtVars
<1>5. CASE DebounceSchedule
  <2>1. owed' \in [Conn -> Tree] /\ shown' \in [Conn -> BOOLEAN]
    BY <1>5, <1>a, PromiseType DEF DebounceSchedule
  <2>. QED
    BY <1>5, <2>1, SyncAssumption
       DEF TypeOK, DebounceSchedule, pushVars, connVars, buildVars
<1>6. CASE LoginAuth
  <2>1. db' \in Tree
    BY <1>6, <1>b DEF LoginAuth
  <2>2. owed' \in [Conn -> Tree] /\ shown' \in [Conn -> BOOLEAN]
    BY <1>6, <2>1, PromiseType DEF LoginAuth
  <2>. QED
    BY <1>6, <2>1, <2>2 DEF TypeOK, LoginAuth, pushVars, connVars, buildVars
<1>. QED
  BY <1>1, <1>2, <1>3, <1>4, <1>5, <1>6 DEF Handlers

LEMMA AdminType == TypeOK /\ Admin => TypeOK'
<1>. SUFFICES ASSUME TypeOK, Admin PROVE TypeOK'
  OBVIOUS
<1>a. db \in Tree
  BY DEF TypeOK
<1>1. CASE AdminCommit
  BY <1>1, <1>a, BumpTree
     DEF TypeOK, AdminCommit, Table, pushVars, connVars, buildVars, debtVars
<1>2. CASE AdminNotify
  <2>1. owed' \in [Conn -> Tree] /\ shown' \in [Conn -> BOOLEAN]
    BY <1>2, <1>a, PromiseType DEF AdminNotify
  <2>. QED
    BY <1>2, <2>1 DEF TypeOK, AdminNotify, pushVars, connVars, buildVars
<1>3. CASE AdminReplyFails
  BY <1>3 DEF TypeOK, AdminReplyFails, pushVars, connVars, buildVars, debtVars
<1>. QED
  BY <1>1, <1>2, <1>3 DEF Admin

LEMMA PushingType ==
  ASSUME TypeOK, NEW p \in Push, Pushing(p)
  PROVE  TypeOK'
<1>1. CASE RunImmediate(p)
  BY <1>1 DEF TypeOK, RunImmediate, BeginPush, NoTimer, connVars, buildVars, debtVars
<1>2. CASE Fire(p)
  BY <1>2 DEF TypeOK, Fire, NoTimer, connVars, buildVars, debtVars
<1>3. CASE StartTask(p)
  BY <1>3 DEF TypeOK, StartTask, BeginPush, dataVars, connVars, buildVars, debtVars
<1>4. CASE ReadAccounts(p)
  BY <1>4 DEF TypeOK, ReadAccounts, Tree, Table, dataVars, connVars, buildVars, debtVars
<1>5. CASE ReadSessions(p)
  BY <1>5 DEF TypeOK, ReadSessions, Tree, Table, dataVars, connVars, buildVars, debtVars
<1>6. ASSUME NEW c \in Conn, Deliver(p, c) PROVE TypeOK'
  <2>1. CASE PushDelta(p, c)
    <3>1. [kind |-> "delta", base |-> sent[c], tree |-> pread[p]] \in Delta
      BY DEF TypeOK, Delta
    <3>2. wire' \in [Conn -> Seq(Delta)]
      BY <2>1, <3>1 DEF TypeOK, PushDelta
    <3>. QED
      BY <2>1, <3>2 DEF TypeOK, PushDelta, Served, dataVars, buildVars, debtVars
  <2>2. CASE PushNoChange(p, c)
    BY <2>2 DEF TypeOK, PushNoChange, Served, dataVars, connVars, buildVars, debtVars
  <2>3. CASE PushToLost(p, c)
    BY <2>3 DEF TypeOK, PushToLost, Served, dataVars, buildVars, debtVars
  <2>4. CASE PushToClosed(p, c)
    BY <2>4 DEF TypeOK, PushToClosed, Served, dataVars, buildVars, debtVars
  <2>. QED
    BY <1>6, <2>1, <2>2, <2>3, <2>4 DEF Deliver
<1>. QED
  BY <1>1, <1>2, <1>3, <1>4, <1>5, <1>6 DEF Pushing

LEMMA ConnectionType ==
  ASSUME TypeOK, NEW c \in Conn, Connection(c)
  PROVE  TypeOK'
<1>1. CASE Authenticate(c)
  BY <1>1 DEF TypeOK, Authenticate, dataVars, pushVars, buildVars, debtVars
<1>2. CASE Register(c)
  <2>1. [kind |-> "full", base |-> built[c], tree |-> built[c]] \in Delta
    BY DEF TypeOK, Delta
  <2>2. wire' \in [Conn -> Seq(Delta)]
    BY <1>2, <2>1 DEF TypeOK, Register
  <2>. QED
    BY <1>2, <2>2 DEF TypeOK, Register, dataVars, pushVars, buildVars, debtVars
<1>3. CASE Receive(c)
  <2>1. Head(wire[c]) \in Delta /\ Tail(wire[c]) \in Seq(Delta)
    BY <1>3 DEF TypeOK, Receive
  <2>2. Patch(view[c], Head(wire[c])) \in Tree
    BY <2>1, PatchTree DEF TypeOK
  <2>3. (shown[c] \/ AtLeast(view'[c], owed[c])) \in BOOLEAN
    BY DEF AtLeast
  <2>4. shown' \in [Conn -> BOOLEAN]
    BY <1>3, <2>3 DEF TypeOK, Receive
  <2>. QED
    BY <1>3, <2>1, <2>2, <2>4 DEF TypeOK, Receive, dataVars, pushVars, buildVars
<1>4. CASE PeerDrop(c)
  BY <1>4 DEF TypeOK, PeerDrop, dataVars, pushVars, buildVars, debtVars
<1>5. CASE HandlerSeesDrop(c)
  BY <1>5 DEF TypeOK, HandlerSeesDrop, dataVars, pushVars, buildVars, debtVars
<1>6. CASE Unregister(c)
  BY <1>6 DEF TypeOK, Unregister, dataVars, pushVars, buildVars, debtVars
<1>7. ASSUME NEW t \in Table, BuildRead(c, t) PROVE TypeOK'
  BY <1>7 DEF TypeOK, BuildRead, Tree, dataVars, pushVars, debtVars
<1>. QED
  BY <1>1, <1>2, <1>3, <1>4, <1>5, <1>6, <1>7 DEF Connection

LEMMA NextType == TypeOK /\ [Next]_vars => TypeOK'
<1>. SUFFICES ASSUME TypeOK, [Next]_vars PROVE TypeOK'
  OBVIOUS
<1>1. CASE Tick
  BY <1>1 DEF TypeOK, Tick, NoTimer, pushVars, connVars, buildVars, debtVars
<1>2. CASE UNCHANGED vars
  BY <1>2 DEF TypeOK, vars, dataVars, pushVars, connVars, buildVars, debtVars
<1>. QED
  BY <1>1, <1>2, HandlersType, AdminType, PushingType, ConnectionType DEF Next

(***************************************************************************)
(* The variables of the model always have their types: in particular no    *)
(* count goes negative and no message mixes a tree with something else.    *)
(***************************************************************************)
THEOREM TypeCorrect == Spec => []TypeOK
BY InitType, NextType, PTL DEF Spec

-----------------------------------------------------------------------------
(* The client's copy *)

LEMMA PatchExact ==
  ASSUME NEW v \in Tree, NEW m \in Delta, m.kind = "full" \/ m.base = v
  PROVE  Patch(v, m) = m.tree
BY DEF Patch, Delta, Tree

LEMMA AppendInStep ==
  ASSUME NEW w \in Seq(Delta), NEW v \in Tree, NEW s \in Tree, NEW t \in Tree,
         InStep(w, v, s)
  PROVE  InStep(Append(w, [kind |-> "delta", base |-> s, tree |-> t]), v, t)
<1>. DEFINE m == [kind |-> "delta", base |-> s, tree |-> t]
            u == Append(w, m)
<1>1. /\ m \in Delta /\ u \in Seq(Delta) /\ u # <<>>
      /\ Len(u) = Len(w) + 1 /\ u[Len(u)] = m
      /\ \A i \in 1 .. Len(w) : u[i] = w[i]
  BY DEF Delta
<1>2. u[1].kind = "full" \/ u[1].base = v
  BY <1>1 DEF InStep
<1>3. ASSUME NEW i \in 1 .. Len(u) - 1
      PROVE  u[i + 1].kind = "delta" /\ u[i + 1].base = u[i].tree
  <2>1. CASE i = Len(w)
    <3>1. w # <<>> /\ u[i] = w[Len(w)] /\ u[i + 1] = m
      BY <1>1, <2>1
    <3>. QED
      BY <3>1 DEF InStep
  <2>2. CASE i # Len(w)
    <3>1. i \in 1 .. Len(w) - 1 /\ u[i] = w[i] /\ u[i + 1] = w[i + 1]
      BY <1>1, <2>2
    <3>. QED
      BY <3>1 DEF InStep
  <2>. QED
    BY <2>1, <2>2
<1>. QED
  BY <1>1, <1>2, <1>3 DEF InStep

LEMMA TailInStep ==
  ASSUME NEW w \in Seq(Delta), NEW v \in Tree, NEW s \in Tree,
         w # <<>>, InStep(w, v, s)
  PROVE  /\ Patch(v, Head(w)) = Head(w).tree
         /\ InStep(Tail(w), Patch(v, Head(w)), s)
<1>0. Len(w) \in Nat /\ Len(w) >= 1
  OBVIOUS
<1>1. Head(w) = w[1] /\ w[1] \in Delta /\ Len(w) >= 1
  BY <1>0
<1>2. Patch(v, Head(w)) = w[1].tree
  BY <1>1, PatchExact DEF InStep
<1>3. /\ Tail(w) \in Seq(Delta) /\ Len(Tail(w)) = Len(w) - 1
      /\ \A i \in 1 .. Len(w) - 1 : Tail(w)[i] = w[i + 1]
  OBVIOUS
<1>4. CASE Len(w) = 1
  <2>1. Tail(w) = <<>>
    <3>1. Len(Tail(w)) = 0
      BY <1>0, <1>3, <1>4
    <3>. QED
      BY <3>1, <1>3
  <2>2. w[Len(w)].tree = s
    BY DEF InStep
  <2>3. Patch(v, Head(w)) = s
    BY <1>2, <2>2, <1>4
  <2>. QED
    BY <1>1, <1>2, <2>1, <2>3 DEF InStep
<1>5. CASE Len(w) > 1
  <2>. DEFINE u == Tail(w)
  <2>. HIDE DEF u
  <2>a. Len(w) \in Nat /\ Len(u) = Len(w) - 1 /\ Len(u) >= 1
    BY <1>3, <1>5 DEF u
  <2>b. \A i \in 1 .. Len(u) : u[i] = w[i + 1]
    BY <1>3, <2>a DEF u
  <2>1. u # <<>>
    BY <2>a
  <2>2. u[1] = w[2]
    BY <2>a, <2>b
  <2>3. u[Len(u)] = w[Len(w)]
    BY <2>a, <2>b
  <2>4. w[2].kind = "delta" /\ w[2].base = w[1].tree
    <3>1. 1 \in 1 .. Len(w) - 1
      BY <1>5, <2>a
    <3>. QED
      BY <3>1 DEF InStep
  <2>5. ASSUME NEW i \in 1 .. Len(u) - 1
        PROVE  u[i + 1].kind = "delta" /\ u[i + 1].base = u[i].tree
    <3>1. i + 1 \in 1 .. Len(w) - 1 /\ i \in 1 .. Len(u) /\ i + 1 \in 1 .. Len(u)
      BY <2>a
    <3>. QED
      BY <2>b, <3>1 DEF InStep
  <2>6. w[Len(w)].tree = s
    BY DEF InStep
  <2>7. InStep(u, w[1].tree, s)
    BY <2>1, <2>2, <2>3, <2>4, <2>5, <2>6 DEF InStep
  <2>. QED
    BY <1>1, <1>2, <2>7 DEF u
<1>6. Len(w) = 1 \/ Len(w) > 1
  <2>1. \A n \in Nat : n >= 1 => n = 1 \/ n > 1
    OBVIOUS
  <2>. QED
    BY <1>0, <2>1
<1>. QED
  BY <1>4, <1>5, <1>6

-----------------------------------------------------------------------------
(* The steps by what they can disturb *)

\* Every step but those of Connection and of Deliver leaves the connections
\* alone.
LEMMA OtherSteps ==
  ASSUME [Next]_vars
  PROVE  \/ UNCHANGED connVars
         \/ \E p \in Push, c \in Conn : Deliver(p, c)
         \/ \E c \in Conn : Connection(c)
<1>1. CASE Handlers \/ Admin \/ Tick
  BY <1>1 DEF Handlers, Admin, HeartbeatLogin, LocationLogin, RecordSession,
     UpdateCharacter, DebounceSchedule, LoginAuth, AdminCommit, AdminNotify,
     AdminReplyFails, Tick
<1>2. ASSUME NEW p \in Push, Pushing(p), ~(\E c \in Conn : Deliver(p, c))
      PROVE  UNCHANGED connVars
  BY <1>2 DEF Pushing, RunImmediate, Fire, StartTask, ReadAccounts, ReadSessions
<1>3. CASE UNCHANGED vars
  BY <1>3 DEF vars
<1>. QED
  BY <1>1, <1>2, <1>3 DEF Next

LEMMA InitForgotten == Init => GoneIsForgotten
BY DEF Init, GoneIsForgotten

LEMMA NextForgotten == TypeOK /\ GoneIsForgotten /\ [Next]_vars => GoneIsForgotten'
<1>. SUFFICES ASSUME TypeOK, GoneIsForgotten, [Next]_vars PROVE GoneIsForgotten'
  OBVIOUS
<1>. USE DEF GoneIsForgotten, TypeOK
<1>1. CASE UNCHANGED connVars
  BY <1>1 DEF connVars
<1>2. ASSUME NEW p \in Push, NEW c \in Conn, Deliver(p, c) PROVE GoneIsForgotten'
  <2>1. CASE PushDelta(p, c)
    BY <2>1 DEF PushDelta
  <2>2. CASE PushNoChange(p, c)
    BY <2>2 DEF PushNoChange, connVars
  <2>3. CASE PushToLost(p, c)
    BY <2>3 DEF PushToLost
  <2>4. CASE PushToClosed(p, c)
    BY <2>4 DEF PushToClosed
  <2>. QED
    BY <1>2, <2>1, <2>2, <2>3, <2>4 DEF Deliver
<1>3. ASSUME NEW c \in Conn, Connection(c) PROVE GoneIsForgotten'
  <2>1. CASE Authenticate(c)
    BY <2>1 DEF Authenticate
  <2>2. CASE Register(c)
    BY <2>2 DEF Register
  <2>3. CASE Receive(c)
    BY <2>3 DEF Receive
  <2>4. CASE PeerDrop(c)
    BY <2>4 DEF PeerDrop
  <2>5. CASE HandlerSeesDrop(c)
    BY <2>5 DEF HandlerSeesDrop
  <2>6. CASE Unregister(c)
    BY <2>6 DEF Unregister
  <2>7. ASSUME NEW t \in Table, BuildRead(c, t) PROVE GoneIsForgotten'
    BY <2>7 DEF BuildRead
  <2>. QED
    BY <1>3, <2>1, <2>2, <2>3, <2>4, <2>5, <2>6, <2>7 DEF Connection
<1>. QED
  BY <1>1, <1>2, <1>3, OtherSteps

(***************************************************************************)
(* No connection is registered once its handler has finished, and an open  *)
(* one always is: a push that removes a broken connection and the handler  *)
(* that ends may come in any order.                                        *)
(***************************************************************************)
THEOREM ForgottenCorrect == Spec => []GoneIsForgotten
BY InitType, NextType, InitForgotten, NextForgotten, PTL DEF Spec

-----------------------------------------------------------------------------
(* Every delta meets the copy it was computed from *)

LEMMA InitInStep == Init => ClientInStep
BY DEF Init, ClientInStep

LEMMA NextInStep == TypeOK /\ ClientInStep /\ [Next]_vars => ClientInStep'
<1>. SUFFICES ASSUME TypeOK, ClientInStep, [Next]_vars PROVE ClientInStep'
  OBVIOUS
<1>1. CASE UNCHANGED connVars
  BY <1>1 DEF connVars, ClientInStep
<1>2. ASSUME NEW p \in Push, NEW c \in Conn, Deliver(p, c) PROVE ClientInStep'
  <2>1. CASE PushDelta(p, c)
    <3>. SUFFICES ASSUME NEW d \in Conn, stage'[d] = "open"
                  PROVE  InStep(wire'[d], view'[d], sent'[d])
      BY DEF ClientInStep
    <3>0. stage' = stage /\ view' = view
      BY <2>1 DEF PushDelta
    <3>1. InStep(wire[d], view[d], sent[d])
      BY <3>0 DEF ClientInStep
    <3>2. CASE d = c
      <4>1. /\ wire'[c] = Append(wire[c], [kind |-> "delta", base |-> sent[c],
                                           tree |-> pread[p]])
            /\ sent'[c] = pread[p]
        BY <2>1 DEF PushDelta, TypeOK
      <4>2. /\ wire[c] \in Seq(Delta) /\ view[c] \in Tree
            /\ sent[c] \in Tree /\ pread[p] \in Tree
        BY DEF TypeOK
      <4>. QED
        BY <3>0, <3>1, <3>2, <4>1, <4>2, AppendInStep
    <3>3. CASE d # c
      BY <3>0, <3>1, <3>3, <2>1 DEF PushDelta, TypeOK
    <3>. QED
      BY <3>2, <3>3
  <2>2. CASE PushNoChange(p, c)
    BY <2>2 DEF PushNoChange, connVars, ClientInStep
  <2>3. CASE PushToLost(p, c)
    BY <2>3 DEF PushToLost, ClientInStep, TypeOK
  <2>4. CASE PushToClosed(p, c)
    BY <2>4 DEF PushToClosed, ClientInStep
  <2>. QED
    BY <1>2, <2>1, <2>2, <2>3, <2>4 DEF Deliver
<1>3. ASSUME NEW c \in Conn, Connection(c) PROVE ClientInStep'
  <2>. SUFFICES ASSUME NEW d \in Conn, stage'[d] = "open"
                PROVE  InStep(wire'[d], view'[d], sent'[d])
    BY DEF ClientInStep
  <2>1. CASE Authenticate(c)
    BY <2>1 DEF Authenticate, ClientInStep, TypeOK
  <2>2. CASE Register(c)
    <3>1. CASE d = c
      <4>. DEFINE m == [kind |-> "full", base |-> built[c], tree |-> built[c]]
      <4>1. wire'[c] = <<m>> /\ sent'[c] = built[c]
        BY <2>2 DEF Register, TypeOK
      <4>2. Len(<<m>>) = 1 /\ <<m>>[1] = m /\ <<m>> # <<>>
        OBVIOUS
      <4>3. InStep(<<m>>, view'[c], built[c])
        BY <4>2 DEF InStep
      <4>. QED
        BY <3>1, <4>1, <4>3
    <3>2. CASE d # c
      BY <2>2, <3>2 DEF Register, ClientInStep, TypeOK
    <3>. QED
      BY <3>1, <3>2
  <2>3. CASE Receive(c)
    <3>0. stage' = stage /\ sent' = sent
      BY <2>3 DEF Receive
    <3>1. InStep(wire[d], view[d], sent[d])
      BY <3>0 DEF ClientInStep
    <3>2. CASE d = c
      <4>1. /\ wire'[c] = Tail(wire[c]) /\ wire[c] # <<>>
            /\ view'[c] = Patch(view[c], Head(wire[c]))
        BY <2>3 DEF Receive, TypeOK
      <4>2. /\ wire[c] \in Seq(Delta) /\ view[c] \in Tree /\ sent[c] \in Tree
        BY DEF TypeOK
      <4>. QED
        BY <3>0, <3>1, <3>2, <4>1, <4>2, TailInStep
    <3>3. CASE d # c
      BY <3>0, <3>1, <3>3, <2>3 DEF Receive, TypeOK
    <3>. QED
      BY <3>2, <3>3
  <2>4. CASE PeerDrop(c)
    BY <2>4 DEF PeerDrop, ClientInStep, TypeOK
  <2>5. CASE HandlerSeesDrop(c)
    BY <2>5 DEF HandlerSeesDrop, ClientInStep, TypeOK
  <2>6. CASE Unregister(c)
    BY <2>6 DEF Unregister, ClientInStep, TypeOK
  <2>7. ASSUME NEW t \in Table, BuildRead(c, t)
        PROVE  InStep(wire'[d], view'[d], sent'[d])
    BY <2>7 DEF BuildRead, ClientInStep
  <2>. QED
    BY <1>3, <2>1, <2>2, <2>3, <2>4, <2>5, <2>6, <2>7 DEF Connection
<1>. QED
  BY <1>1, <1>2, <1>3, OtherSteps

(***************************************************************************)
(* Whatever pushes overlap and whenever connections open or break, each    *)
(* delta a client applies was computed from exactly the copy it holds.     *)
(***************************************************************************)
THEOREM InStepCorrect == Spec => []ClientInStep
BY InitType, NextType, InitInStep, NextInStep, PTL DEF Spec

-----------------------------------------------------------------------------
(* What is owed has been committed *)

LEMMA AtLeastRefl == ASSUME NEW t \in Tree PROVE AtLeast(t, t)
BY DEF AtLeast, Tree

LEMMA AtLeastTrans ==
  ASSUME NEW t \in Tree, NEW u \in Tree, NEW v \in Tree,
         AtLeast(t, u), AtLeast(u, v)
  PROVE  AtLeast(t, v)
<1>1. \A f \in Table : t[f] \in Nat /\ u[f] \in Nat /\ v[f] \in Nat
  BY DEF Tree
<1>. QED
  BY <1>1 DEF AtLeast

\* The database only moves forward.
LEMMA DbGrows == TypeOK /\ [Next]_vars => db' \in Tree /\ AtLeast(db', db)
<1>. SUFFICES ASSUME TypeOK, [Next]_vars PROVE db' \in Tree /\ AtLeast(db', db)
  OBVIOUS
<1>a. db \in Tree
  BY DEF TypeOK
<1>b. CASE db' = db
  BY <1>a, <1>b, AtLeastRefl
<1>c. ASSUME NEW t \in Table, db' = Bump(t) PROVE db' \in Tree /\ AtLeast(db', db)
  BY <1>a, <1>c, BumpTree
<1>1. CASE Handlers \/ Admin \/ Tick
  BY <1>1, <1>b, <1>c DEF Handlers, Admin, HeartbeatLogin, LocationLogin,
     RecordSession, UpdateCharacter, DebounceSchedule, LoginAuth, AdminCommit,
     AdminNotify, AdminReplyFails, Tick, Table
<1>2. ASSUME NEW p \in Push, Pushing(p) PROVE db' = db
  BY <1>2 DEF Pushing, RunImmediate, Fire, StartTask, ReadAccounts, ReadSessions,
     Deliver, PushDelta, PushNoChange, PushToLost, PushToClosed, dataVars
<1>3. ASSUME NEW c \in Conn, Connection(c) PROVE db' = db
  BY <1>3 DEF Connection, Authenticate, Register, Receive, PeerDrop,
     HandlerSeesDrop, Unregister, BuildRead, dataVars
<1>4. CASE UNCHANGED vars
  BY <1>4, <1>b DEF vars, dataVars
<1>. QED
  BY <1>b, <1>1, <1>2, <1>3, <1>4 DEF Next

\* What clients are owed, hold and have been shown changes only with a
\* promise of the data as committed by then, which leaves something queued,
\* or with a message applied.
LEMMA DebtSteps ==
  ASSUME TypeOK, [Next]_vars
  PROVE  \/ UNCHANGED <<view, owed, shown>>
         \/ Promise(db') /\ UNCHANGED connVars /\ (inbox' > 0 \/ timer' # NoTimer)
         \/ \E c \in Conn : Receive(c)
<1>. DEFINE Still == UNCHANGED <<view, owed, shown>>
            Promised == /\ Promise(db') /\ UNCHANGED connVars
                        /\ inbox' > 0 \/ timer' # NoTimer
<1>1. CASE HeartbeatLogin \/ LocationLogin \/ RecordSession \/ UpdateCharacter
           \/ AdminCommit \/ AdminReplyFails \/ Tick
  <2>1. Still
    BY <1>1 DEF HeartbeatLogin, LocationLogin, RecordSession, UpdateCharacter,
       AdminCommit, AdminReplyFails, Tick, connVars, debtVars
  <2>. QED
    BY <2>1
<1>2. CASE DebounceSchedule
  <2>1. DebounceTicks # NoTimer
    BY SyncAssumption DEF NoTimer
  <2>2. Promised
    BY <1>2, <2>1 DEF DebounceSchedule
  <2>. QED
    BY <2>2
<1>3. CASE LoginAuth \/ AdminNotify
  <2>1. inbox \in Nat
    BY DEF TypeOK
  <2>2. inbox' > 0
    BY <1>3, <2>1 DEF LoginAuth, AdminNotify
  <2>3. Promise(db') /\ UNCHANGED connVars
    <3>1. CASE LoginAuth
      BY <3>1 DEF LoginAuth
    <3>2. CASE AdminNotify
      BY <3>2 DEF AdminNotify
    <3>. QED
      BY <1>3, <3>1, <3>2
  <2>. QED
    BY <2>2, <2>3
<1>4. ASSUME NEW p \in Push, Pushing(p) PROVE Still
  BY <1>4 DEF Pushing, RunImmediate, Fire, StartTask, ReadAccounts, ReadSessions,
     Deliver, PushDelta, PushNoChange, PushToLost, PushToClosed, connVars, debtVars
<1>5. ASSUME NEW c \in Conn, Connection(c), ~Receive(c) PROVE Still
  BY <1>5 DEF Connection, Authenticate, Register, PeerDrop, HandlerSeesDrop,
     Unregister, BuildRead, debtVars
<1>6. CASE UNCHANGED vars
  BY <1>6 DEF vars, connVars, debtVars
<1>. QED
  BY <1>1, <1>2, <1>3, <1>4, <1>5, <1>6 DEF Next, Handlers, Admin

LEMMA InitCommitted == Init => OnlyCommitted
<1>. SUFFICES ASSUME Init PROVE OnlyCommitted
  OBVIOUS
<1>1. AtLeast(Zero, Zero)
  BY ZeroTree, AtLeastRefl
<1>. QED
  BY <1>1 DEF Init, OnlyCommitted

LEMMA NextCommitted == TypeOK /\ OnlyCommitted /\ [Next]_vars => OnlyCommitted'
<1>. SUFFICES ASSUME TypeOK, OnlyCommitted, [Next]_vars PROVE OnlyCommitted'
  OBVIOUS
<1>0. /\ TypeOK' /\ db' \in Tree /\ AtLeast(db', db) /\ db \in Tree
  BY NextType, DbGrows DEF TypeOK
<1>a. ASSUME NEW t \in Tree, AtLeast(db, t) PROVE AtLeast(db', t)
  BY <1>0, <1>a, AtLeastTrans
<1>1. ASSUME NEW c \in Conn PROVE AtLeast(db', owed'[c])
  <2>1. owed[c] \in Tree /\ AtLeast(db, owed[c])
    BY DEF TypeOK, OnlyCommitted
  <2>2. owed'[c] = owed[c] \/ owed'[c] = db'
    BY DebtSteps DEF Promise, Receive
  <2>. QED
    BY <1>0, <1>a, <2>1, <2>2, AtLeastRefl
<1>2. ASSUME NEW c \in Conn PROVE AtLeast(db', built'[c])
  <2>1. built[c] \in Tree /\ AtLeast(db, built[c])
    BY DEF TypeOK, OnlyCommitted
  <2>2. CASE built' = built
    BY <1>a, <2>1, <2>2
  <2>3. ASSUME NEW d \in Conn, NEW t \in Table, BuildRead(d, t)
        PROVE  AtLeast(db', built'[c])
    <3>1. /\ db' = db
          /\ \A f \in Table : built'[c][f] = built[c][f] \/ built'[c][f] = db[f]
      BY <2>1, <2>3 DEF BuildRead, dataVars, TypeOK, Tree
    <3>2. \A f \in Table : db[f] \in Nat
      BY <1>0 DEF Tree
    <3>. QED
      BY <2>1, <3>1, <3>2 DEF AtLeast
  <2>4. ASSUME built' # built
        PROVE  \E d \in Conn, t \in Table : BuildRead(d, t)
    BY <2>4, OtherSteps DEF Deliver, PushDelta, PushNoChange, PushToLost,
       PushToClosed, Connection, Authenticate, Register, Receive, PeerDrop,
       HandlerSeesDrop, Unregister, connVars, buildVars
  <2>. QED
    BY <2>2, <2>3, <2>4
<1>3. ASSUME NEW p \in Push PROVE AtLeast(db', pread'[p])
  <2>1. pread[p] \in Tree /\ AtLeast(db, pread[p])
    BY DEF TypeOK, OnlyCommitted
  <2>2. CASE pread' = pread
    BY <1>a, <2>1, <2>2
  <2>3. ASSUME NEW q \in Push, ReadAccounts(q) \/ ReadSessions(q)
        PROVE  AtLeast(db', pread'[p])
    <3>0. pread \in [Push -> Tree] /\ db' = db
      BY <2>3 DEF TypeOK, ReadAccounts, ReadSessions, dataVars
    <3>1. \A f \in Table : pread'[p][f] = pread[p][f] \/ pread'[p][f] = db[f]
      <4>1. CASE ReadAccounts(q)
        BY <3>0, <4>1 DEF ReadAccounts, Tree, Table
      <4>2. CASE ReadSessions(q)
        BY <3>0, <4>2 DEF ReadSessions, Tree, Table
      <4>. QED
        BY <2>3, <4>1, <4>2
    <3>2. \A f \in Table : db[f] \in Nat
      BY <1>0 DEF Tree
    <3>. QED
      BY <2>1, <3>0, <3>1, <3>2 DEF AtLeast
  <2>4. ASSUME pread' # pread
        PROVE  \E q \in Push : ReadAccounts(q) \/ ReadSessions(q)
    <3>1. CASE Handlers \/ Admin \/ Tick
      BY <2>4, <3>1 DEF Handlers, Admin, HeartbeatLogin, LocationLogin,
         RecordSession, UpdateCharacter, DebounceSchedule, LoginAuth,
         AdminCommit, AdminNotify, AdminReplyFails, Tick, pushVars
    <3>2. ASSUME NEW q \in Push, Pushing(q) PROVE ReadAccounts(q) \/ ReadSessions(q)
      BY <2>4, <3>2 DEF Pushing, RunImmediate, Fire, StartTask, BeginPush, Deliver,
         PushDelta, PushNoChange, PushToLost, PushToClosed, Served
    <3>3. ASSUME NEW c \in Conn, Connection(c) PROVE pread' = pread
      BY <3>3 DEF Connection, Authenticate, Register, Receive, PeerDrop,
         HandlerSeesDrop, Unregister, BuildRead, pushVars
    <3>4. CASE UNCHANGED vars
      BY <2>4, <3>4 DEF vars, pushVars
    <3>. QED
      BY <2>4, <3>1, <3>2, <3>3, <3>4 DEF Next
  <2>. QED
    BY <2>2, <2>3, <2>4
<1>. QED
  BY <1>1, <1>2, <1>3 DEF OnlyCommitted

-----------------------------------------------------------------------------
(* What the history variables record *)

LEMMA InitShown == Init => ShownWhenHeld /\ NothingOwedYet
BY DEF Init, ShownWhenHeld, NothingOwedYet

LEMMA NextShown == TypeOK /\ ShownWhenHeld /\ [Next]_vars => ShownWhenHeld'
<1>. SUFFICES ASSUME TypeOK, ShownWhenHeld, [Next]_vars, NEW c \in Conn,
                     AtLeast(view'[c], owed'[c])
              PROVE  shown'[c]
  BY DEF ShownWhenHeld
<1>1. CASE UNCHANGED <<view, owed, shown>>
  BY <1>1 DEF ShownWhenHeld
<1>2. CASE Promise(db') /\ UNCHANGED connVars
  BY <1>2 DEF Promise, ShownWhenHeld, connVars
<1>3. ASSUME NEW d \in Conn, Receive(d) PROVE shown'[c]
  BY <1>3 DEF Receive, ShownWhenHeld, TypeOK
<1>. QED
  BY <1>1, <1>2, <1>3, DebtSteps

LEMMA NextNothingOwed ==
  TypeOK /\ GoneIsForgotten /\ NothingOwedYet /\ [Next]_vars => NothingOwedYet'
<1>. SUFFICES ASSUME TypeOK, GoneIsForgotten, NothingOwedYet, [Next]_vars,
                     NEW c \in Conn, stage'[c] \in {"new", "building"}
              PROVE  shown'[c]
  BY DEF NothingOwedYet
<1>1. stage[c] \in {"new", "building"}
  <2>1. CASE UNCHANGED connVars
    BY <2>1 DEF connVars
  <2>2. ASSUME NEW p \in Push, NEW d \in Conn, Deliver(p, d) PROVE stage' = stage
    BY <2>2 DEF Deliver, PushDelta, PushNoChange, PushToLost, PushToClosed, connVars
  <2>3. ASSUME NEW d \in Conn, Connection(d)
        PROVE  stage'[c] = stage[c] \/ stage[c] \in {"new", "building"}
               \/ stage'[c] \notin {"new", "building"}
    BY <2>3 DEF Connection, Authenticate, Register, Receive, PeerDrop,
       HandlerSeesDrop, Unregister, BuildRead, TypeOK
  <2>. QED
    BY <2>1, <2>2, <2>3, OtherSteps
<1>2. shown[c] /\ c \notin conns
  BY <1>1 DEF NothingOwedYet, GoneIsForgotten
<1>3. CASE UNCHANGED <<view, owed, shown>>
  BY <1>2, <1>3
<1>4. CASE Promise(db')
  BY <1>2, <1>4 DEF Promise
<1>5. ASSUME NEW d \in Conn, Receive(d) PROVE shown'[c]
  BY <1>2, <1>5 DEF Receive, TypeOK
<1>. QED
  BY <1>3, <1>4, <1>5, DebtSteps

-----------------------------------------------------------------------------
(* No notification is lost *)

\* A delivery by p to c leaves what p owes to every other connection.
LEMMA ServedOthers ==
  ASSUME TypeOK, NEW p \in Push, NEW c \in Conn, Served(p, c), UNCHANGED owed,
         NEW q \in Push, NEW d \in Conn, PushCovers(q, d), q # p \/ d # c
  PROVE  PushCovers(q, d)'
BY DEF TypeOK, Served, PushCovers

\* A push that begins covers every registered connection.
LEMMA BeginCovers ==
  ASSUME TypeOK, NEW p \in Push, BeginPush(p), NEW c \in conns
  PROVE  pstage'[p] = "accounts" /\ c \in ptodo'[p]
BY DEF TypeOK, BeginPush

\* A push that still covers c when it serves c carries what c is owed.
LEMMA ServedCarries ==
  ASSUME TypeOK, NEW p \in Push, NEW c \in Conn, Served(p, c), PushCovers(p, c)
  PROVE  AtLeast(pread[p], owed[c])
BY DEF Served, PushCovers

\* The steps that touch none of the means by which a client is served.
LEMMA CoverKept ==
  ASSUME NotifiedChangeCovered, conns' \subseteq conns,
         UNCHANGED <<inbox, timer, pushVars, wire, owed, shown>>,
         \A c \in conns' : stage'[c] = "open" => stage[c] = "open"
  PROVE  NotifiedChangeCovered'
BY DEF NotifiedChangeCovered, OnItsWay, PushCovers, pushVars

LEMMA PushingCovered ==
  ASSUME TypeOK, ClientInStep, OnlyCommitted, ShownWhenHeld,
         NotifiedChangeCovered, NEW p \in Push, Pushing(p)
  PROVE  NotifiedChangeCovered'
<1>1. CASE RunImmediate(p)
  <2>1. conns' = conns /\ owed' = owed /\ BeginPush(p)
    BY <1>1 DEF RunImmediate, connVars, debtVars
  <2>2. \A c \in conns' : PushCovers(p, c)'
    BY <2>1, BeginCovers DEF PushCovers
  <2>. QED
    BY <2>2 DEF NotifiedChangeCovered, OnItsWay
<1>2. CASE Fire(p)
  <2>1. \A c \in conns' : PushCovers(p, c)'
    BY <1>2 DEF Fire, PushCovers, TypeOK
  <2>. QED
    BY <2>1 DEF NotifiedChangeCovered, OnItsWay
<1>3. CASE StartTask(p)
  <2>1. conns' = conns /\ owed' = owed /\ BeginPush(p)
    BY <1>3 DEF StartTask, connVars, debtVars
  <2>2. \A c \in conns' : PushCovers(p, c)'
    BY <2>1, BeginCovers DEF PushCovers
  <2>. QED
    BY <2>2 DEF NotifiedChangeCovered, OnItsWay
<1>4. CASE ReadAccounts(p) \/ ReadSessions(p)
  <2>0. UNCHANGED <<dataVars, ptodo, connVars, debtVars>>
    BY <1>4 DEF ReadAccounts, ReadSessions
  <2>1. ASSUME NEW c \in Conn, NEW q \in Push, PushCovers(q, c)
        PROVE  PushCovers(q, c)'
    <3>0. /\ AtLeast(db, owed[c]) /\ db \in Tree /\ owed[c] \in Tree
          /\ pread[q] \in Tree /\ ptodo' = ptodo /\ owed' = owed
      BY <2>0 DEF OnlyCommitted, TypeOK, debtVars
    <3>1. CASE q # p
      <4>1. pstage'[q] = pstage[q] /\ pread'[q] = pread[q]
        BY <1>4, <3>1 DEF ReadAccounts, ReadSessions, TypeOK
      <4>. QED
        BY <2>1, <3>0, <4>1 DEF PushCovers
    <3>2. CASE q = p /\ ReadAccounts(p)
      <4>1. pstage'[p] = "sessions" /\ pread'[p]["accounts"] = db["accounts"]
        BY <3>2 DEF ReadAccounts, TypeOK, Tree, Table
      <4>2. c \in ptodo[p]
        BY <2>1, <3>2 DEF PushCovers, ReadAccounts
      <4>. QED
        BY <3>0, <3>2, <4>1, <4>2 DEF PushCovers, AtLeast, Table
    <3>3. CASE q = p /\ ReadSessions(p)
      <4>1. /\ pstage'[p] = "deliver" /\ pread'[p]["sessions"] = db["sessions"]
            /\ pread'[p]["accounts"] = pread[p]["accounts"]
        BY <3>3 DEF ReadSessions, TypeOK, Tree, Table
      <4>2. c \in ptodo[p] /\ pread[p]["accounts"] >= owed[c]["accounts"]
        BY <2>1, <3>3 DEF PushCovers, ReadSessions
      <4>. QED
        BY <3>0, <3>3, <4>1, <4>2 DEF PushCovers, AtLeast, Table
    <3>. QED
      BY <1>4, <3>1, <3>2, <3>3
  <2>. QED
    BY <2>0, <2>1 DEF NotifiedChangeCovered, OnItsWay, dataVars, connVars,
       debtVars, TypeOK
<1>5. ASSUME NEW d \in Conn, Deliver(p, d) PROVE NotifiedChangeCovered'
  <2>0. /\ Served(p, d) /\ UNCHANGED <<inbox, timer, stage, owed, shown, view>>
        /\ conns' \subseteq conns
    BY <1>5 DEF Deliver, PushDelta, PushNoChange, PushToLost, PushToClosed,
       connVars, debtVars, dataVars
  <2>. SUFFICES ASSUME NEW c \in conns', stage'[c] = "open", ~shown'[c]
                PROVE  OnItsWay(c)'
    BY DEF NotifiedChangeCovered
  <2>1. c \in Conn /\ stage[c] = "open" /\ ~shown[c] /\ OnItsWay(c)
    BY <2>0 DEF NotifiedChangeCovered, TypeOK
  <2>2. /\ wire[c] \in Seq(Delta) /\ sent[c] \in Tree /\ pread[p] \in Tree
        /\ view[c] \in Tree /\ owed[c] \in Tree
    BY <2>1 DEF TypeOK
  <2>3. CASE inbox > 0 \/ timer # NoTimer
    BY <2>0, <2>3 DEF OnItsWay
  <2>4. ASSUME NEW i \in DOMAIN wire[c], AtLeast(wire[c][i].tree, owed[c])
        PROVE  OnItsWay(c)'
    <3>1. i \in DOMAIN wire'[c] /\ wire'[c][i] = wire[c][i]
      <4>1. CASE PushDelta(p, d) /\ c = d
        <5>1. wire'[c] = Append(wire[c], [kind |-> "delta", base |-> sent[c],
                                          tree |-> pread[p]])
          BY <2>1, <4>1 DEF PushDelta, TypeOK
        <5>2. [kind |-> "delta", base |-> sent[c], tree |-> pread[p]] \in Delta
          BY <2>2 DEF Delta
        <5>. QED
          BY <2>2, <2>4, <5>1, <5>2
      <4>2. CASE ~(PushDelta(p, d) /\ c = d)
        <5>1. wire'[c] = wire[c]
          BY <1>5, <2>1, <4>2 DEF Deliver, PushDelta, PushNoChange, PushToLost,
             PushToClosed, connVars, TypeOK
        <5>. QED
          BY <2>4, <5>1
      <4>. QED
        BY <4>1, <4>2
    <3>. QED
      BY <2>0, <2>4, <3>1 DEF OnItsWay
  <2>5. ASSUME NEW q \in Push, PushCovers(q, c), q # p \/ c # d PROVE OnItsWay(c)'
    BY <2>0, <2>1, <2>5, ServedOthers DEF OnItsWay
  <2>6. CASE c = d /\ PushCovers(p, c)
    <3>1. AtLeast(pread[p], owed[c])
      BY <2>0, <2>1, <2>6, ServedCarries
    <3>2. CASE PushDelta(p, c)
      <4>. DEFINE m == [kind |-> "delta", base |-> sent[c], tree |-> pread[p]]
      <4>1. wire'[c] = Append(wire[c], m)
        BY <2>1, <3>2 DEF PushDelta, TypeOK
      <4>2. m \in Delta
        BY <2>2 DEF Delta
      <4>3. Len(wire[c]) + 1 \in DOMAIN wire'[c] /\ wire'[c][Len(wire[c]) + 1] = m
        BY <2>2, <4>1, <4>2
      <4>. QED
        BY <2>0, <3>1, <4>3 DEF OnItsWay
    <3>3. CASE PushNoChange(p, c)
      <4>1. AtLeast(sent[c], owed[c]) /\ wire' = wire
        BY <3>1, <3>3 DEF PushNoChange, connVars
      <4>2. InStep(wire[c], view[c], sent[c])
        BY <2>1 DEF ClientInStep
      <4>3. CASE wire[c] = <<>>
        <5>1. view[c] = sent[c]
          BY <4>2, <4>3 DEF InStep
        <5>. QED
          BY <2>1, <4>1, <5>1 DEF ShownWhenHeld
      <4>4. CASE wire[c] # <<>>
        <5>1. wire[c][Len(wire[c])].tree = sent[c]
          BY <4>2, <4>4 DEF InStep
        <5>2. Len(wire[c]) \in DOMAIN wire[c]
          BY <2>2, <4>4
        <5>. QED
          BY <2>4, <4>1, <5>1, <5>2
      <4>. QED
        BY <4>3, <4>4
    <3>4. ~PushToLost(p, c) /\ ~PushToClosed(p, c)
      BY <2>1 DEF PushToLost, PushToClosed
    <3>. QED
      BY <1>5, <2>6, <3>2, <3>3, <3>4 DEF Deliver
  <2>. QED
    BY <2>1, <2>3, <2>4, <2>5, <2>6 DEF OnItsWay
<1>. QED
  BY <1>1, <1>2, <1>3, <1>4, <1>5 DEF Pushing

LEMMA ConnectionCovered ==
  ASSUME TypeOK, ClientInStep, NothingOwedYet, NotifiedChangeCovered,
         NEW c \in Conn, Connection(c)
  PROVE  NotifiedChangeCovered'
<1>1. CASE Authenticate(c)
  BY <1>1, CoverKept DEF Authenticate, dataVars, debtVars, TypeOK
<1>2. CASE Register(c)
  <2>. SUFFICES ASSUME NEW d \in conns', stage'[d] = "open", ~shown'[d]
                PROVE  OnItsWay(d)'
    BY DEF NotifiedChangeCovered
  <2>1. UNCHANGED <<inbox, timer, pushVars, owed, shown>>
    BY <1>2 DEF Register, dataVars, debtVars
  <2>2. d # c
    BY <1>2, <2>1 DEF Register, NothingOwedYet
  <2>3. d \in conns /\ stage[d] = "open" /\ wire'[d] = wire[d]
    BY <1>2, <2>2 DEF Register, TypeOK
  <2>. QED
    BY <2>1, <2>3 DEF NotifiedChangeCovered, OnItsWay, PushCovers, pushVars
<1>3. CASE Receive(c)
  <2>. SUFFICES ASSUME NEW d \in conns', stage'[d] = "open", ~shown'[d]
                PROVE  OnItsWay(d)'
    BY DEF NotifiedChangeCovered
  <2>1. UNCHANGED <<inbox, timer, pushVars, owed, stage, conns>>
    BY <1>3 DEF Receive, dataVars
  <2>2. d \in Conn /\ ~shown[d]
    BY <1>3, <2>1 DEF Receive, TypeOK
  <2>3. OnItsWay(d)
    BY <2>1, <2>2 DEF NotifiedChangeCovered
  <2>4. CASE d # c
    <3>1. wire'[d] = wire[d]
      BY <1>3, <2>2, <2>4 DEF Receive, TypeOK
    <3>. QED
      BY <2>1, <2>3, <3>1 DEF OnItsWay, PushCovers, pushVars
  <2>5. CASE d = c
    <3>0. /\ wire[c] \in Seq(Delta) /\ wire[c] # <<>> /\ view[c] \in Tree
          /\ sent[c] \in Tree /\ InStep(wire[c], view[c], sent[c])
      BY <1>3 DEF Receive, TypeOK, ClientInStep
    <3>1. /\ wire'[c] = Tail(wire[c])
          /\ view'[c] = Patch(view[c], Head(wire[c]))
          /\ shown'[c] = (shown[c] \/ AtLeast(view'[c], owed[c]))
      BY <1>3 DEF Receive, TypeOK
    <3>2. view'[c] = wire[c][1].tree
      BY <3>0, <3>1, TailInStep
    <3>3. ~AtLeast(wire[c][1].tree, owed[c])
      BY <2>5, <3>1, <3>2
    <3>4. ASSUME NEW i \in DOMAIN wire[c], AtLeast(wire[c][i].tree, owed[c])
          PROVE  i - 1 \in DOMAIN wire'[c] /\ wire'[c][i - 1] = wire[c][i]
      <4>1. i \in Nat /\ i # 1 /\ i >= 1 /\ i <= Len(wire[c]) /\ Len(wire[c]) \in Nat
        BY <3>0, <3>3, <3>4
      <4>2. /\ DOMAIN Tail(wire[c]) = 1 .. Len(wire[c]) - 1
            /\ \A j \in 1 .. Len(wire[c]) - 1 : Tail(wire[c])[j] = wire[c][j + 1]
        BY <3>0
      <4>3. i - 1 \in 1 .. Len(wire[c]) - 1 /\ (i - 1) + 1 = i
        BY <4>1
      <4>. QED
        BY <3>1, <4>2, <4>3
    <3>. QED
      BY <2>1, <2>3, <2>5, <3>4 DEF OnItsWay, PushCovers, pushVars
  <2>. QED
    BY <2>4, <2>5
<1>4. CASE PeerDrop(c)
  <2>. SUFFICES ASSUME NEW d \in conns', stage'[d] = "open", ~shown'[d]
                PROVE  OnItsWay(d)'
    BY DEF NotifiedChangeCovered
  <2>1. d \in conns /\ stage[d] = "open" /\ ~shown[d] /\ wire'[d] = wire[d]
    BY <1>4 DEF PeerDrop, debtVars, TypeOK
  <2>. QED
    BY <1>4, <2>1 DEF NotifiedChangeCovered, OnItsWay, PushCovers, PeerDrop,
       dataVars, pushVars, debtVars
<1>5. CASE HandlerSeesDrop(c)
  BY <1>5, CoverKept DEF HandlerSeesDrop, dataVars, debtVars, TypeOK
<1>6. CASE Unregister(c)
  BY <1>6, CoverKept DEF Unregister, dataVars, debtVars, TypeOK
<1>7. ASSUME NEW t \in Table, BuildRead(c, t) PROVE NotifiedChangeCovered'
  BY <1>7, CoverKept DEF BuildRead, dataVars, debtVars
<1>. QED
  BY <1>1, <1>2, <1>3, <1>4, <1>5, <1>6, <1>7 DEF Connection

LEMMA NextCovered == SyncInv /\ [Next]_vars => NotifiedChangeCovered'
<1>. SUFFICES ASSUME SyncInv, [Next]_vars PROVE NotifiedChangeCovered'
  OBVIOUS
<1>. USE DEF SyncInv
<1>1. CASE HeartbeatLogin \/ LocationLogin \/ RecordSession \/ UpdateCharacter
           \/ AdminCommit \/ AdminReplyFails
  <2>1. UNCHANGED <<inbox, timer, pushVars, connVars, debtVars>>
    BY <1>1 DEF HeartbeatLogin, LocationLogin, RecordSession, UpdateCharacter,
       AdminCommit, AdminReplyFails
  <2>. QED
    BY <2>1, CoverKept DEF connVars, debtVars
<1>2. CASE DebounceSchedule
  <2>1. timer' # NoTimer
    BY <1>2, SyncAssumption DEF DebounceSchedule, NoTimer
  <2>. QED
    BY <2>1 DEF NotifiedChangeCovered, OnItsWay
<1>3. CASE LoginAuth \/ AdminNotify
  <2>1. inbox' > 0
    BY <1>3 DEF LoginAuth, AdminNotify, TypeOK
  <2>. QED
    BY <2>1 DEF NotifiedChangeCovered, OnItsWay
<1>4. CASE Tick
  <2>1. timer' # NoTimer
    BY <1>4 DEF Tick, NoTimer, TypeOK
  <2>. QED
    BY <2>1 DEF NotifiedChangeCovered, OnItsWay
<1>5. CASE UNCHANGED vars
  BY <1>5, CoverKept DEF vars, dataVars, connVars, debtVars
<1>. QED
  BY <1>1, <1>2, <1>3, <1>4, <1>5, PushingCovered, ConnectionCovered
     DEF Next, Handlers, Admin

LEMMA InitInv == Init => SyncInv
<1>1. Init => NotifiedChangeCovered
  BY DEF Init, NotifiedChangeCovered
<1>. QED
  BY <1>1, InitType, InitForgotten, InitInStep, InitCommitted, InitShown DEF SyncInv

LEMMA NextInv == SyncInv /\ [Next]_vars => SyncInv'
BY NextType, NextForgotten, NextInStep, NextCommitted, NextShown,
   NextNothingOwed, NextCovered DEF SyncInv

(***************************************************************************)
(* The inductive invariant: what clients hold, what is on the wire, what   *)
(* pushes have read and what was notified, related at every step.          *)
(***************************************************************************)
THEOREM InvCorrect == Spec => []SyncInv
BY InitInv, NextInv, PTL DEF Spec

(***************************************************************************)
(* No notification is lost: however handlers, the debounce timer, queued   *)
(* notifications, pushes and connections interleave, a connected client    *)
(* that has not seen what was notified still has it coming.                *)
(***************************************************************************)
THEOREM CoveredCorrect == Spec => []NotifiedChangeCovered
<1>1. SyncInv => NotifiedChangeCovered
  BY DEF SyncInv
<1>. QED
  BY <1>1, InvCorrect, PTL

-----------------------------------------------------------------------------
(* AccountSync implements StateFeed *)

LEMMA TreesSeq ==
  ASSUME NEW w \in Seq(Delta)
  PROVE  /\ Trees(w) \in Seq(Tree)
         /\ Len(Trees(w)) = Len(w)
         /\ \A i \in 1 .. Len(w) : Trees(w)[i] = w[i].tree
<1>1. Len(w) \in Nat
  OBVIOUS
<1>2. \A i \in 1 .. Len(w) : w[i] \in Delta
  OBVIOUS
<1>3. \A m \in Delta : m.tree \in Tree
  BY DEF Delta
<1>4. Trees(w) \in [1 .. Len(w) -> Tree]
  BY <1>2, <1>3 DEF Trees
<1>. QED
  BY <1>1, <1>4 DEF Trees

LEMMA TreesAppend ==
  ASSUME NEW w \in Seq(Delta), NEW m \in Delta
  PROVE  Trees(Append(w, m)) = Append(Trees(w), m.tree)
<1>. DEFINE u == Append(w, m)
            t == Append(Trees(w), m.tree)
<1>1. m.tree \in Tree
  BY DEF Delta
<1>2. /\ u \in Seq(Delta) /\ Len(u) = Len(w) + 1 /\ u[Len(w) + 1] = m
      /\ \A i \in 1 .. Len(w) : u[i] = w[i]
  OBVIOUS
<1>3. /\ t \in Seq(Tree) /\ Len(t) = Len(w) + 1 /\ t[Len(w) + 1] = m.tree
      /\ \A i \in 1 .. Len(w) : t[i] = w[i].tree
  BY <1>1, TreesSeq
<1>4. /\ Trees(u) \in Seq(Tree) /\ Len(Trees(u)) = Len(w) + 1
      /\ \A i \in 1 .. Len(w) + 1 : Trees(u)[i] = u[i].tree
  BY <1>2, TreesSeq
<1>. HIDE DEF u, t
<1>5. \A i \in 1 .. Len(w) + 1 : Trees(u)[i] = t[i]
  <2>1. Len(w) \in Nat
    OBVIOUS
  <2>2. \A i \in 1 .. Len(w) + 1 : i \in 1 .. Len(w) \/ i = Len(w) + 1
    BY <2>1
  <2>. QED
    BY <1>2, <1>3, <1>4, <2>2
<1>6. Trees(u) = t
  BY <1>3, <1>4, <1>5, SeqEqual
<1>. QED
  BY <1>6 DEF u, t

LEMMA TreesTail ==
  ASSUME NEW w \in Seq(Delta), w # <<>>
  PROVE  /\ Trees(w) # <<>>
         /\ Head(Trees(w)) = w[1].tree
         /\ Trees(Tail(w)) = Tail(Trees(w))
<1>. DEFINE u == Tail(w)
            t == Tail(Trees(w))
<1>1. /\ Trees(w) \in Seq(Tree) /\ Len(Trees(w)) = Len(w)
      /\ \A i \in 1 .. Len(w) : Trees(w)[i] = w[i].tree
  BY TreesSeq
<1>2. Len(w) \in Nat /\ Len(w) >= 1
  OBVIOUS
<1>3. Trees(w) # <<>>
  BY <1>1, <1>2
<1>4. Head(Trees(w)) = w[1].tree
  BY <1>1, <1>2, <1>3
<1>5. /\ u \in Seq(Delta) /\ Len(u) = Len(w) - 1
      /\ \A i \in 1 .. Len(w) - 1 : u[i] = w[i + 1]
  OBVIOUS
<1>6. /\ Trees(u) \in Seq(Tree) /\ Len(Trees(u)) = Len(w) - 1
      /\ \A i \in 1 .. Len(w) - 1 : Trees(u)[i] = u[i].tree
  BY <1>5, TreesSeq
<1>7. /\ t \in Seq(Tree) /\ Len(t) = Len(w) - 1
      /\ \A i \in 1 .. Len(w) - 1 : t[i] = Trees(w)[i + 1]
  BY <1>1, <1>2, <1>3
<1>. HIDE DEF u, t
<1>8. \A i \in 1 .. Len(w) - 1 : Trees(u)[i] = t[i]
  <2>1. \A i \in 1 .. Len(w) - 1 : i + 1 \in 1 .. Len(w)
    BY <1>2
  <2>. QED
    BY <1>1, <1>5, <1>6, <1>7, <2>1
<1>9. Trees(u) = t
  BY <1>6, <1>7, <1>8, SeqEqual
<1>. QED
  BY <1>3, <1>4, <1>9 DEF u, t

LEMMA CommittedTree ==
  ASSUME db \in Tree, NEW t \in Tree, AtLeast(db, t)
  PROVE  t \in Feed!Committed
<1>1. /\ t["accounts"] \in 0 .. db["accounts"]
      /\ t["sessions"] \in 0 .. db["sessions"]
  BY DEF Tree, Table, AtLeast
<1>2. t = [f \in Feed!Table |->
             IF f = "accounts" THEN t["accounts"] ELSE t["sessions"]]
  BY DEF Tree, Table, Feed!Table
<1>. QED
  BY <1>1, <1>2 DEF Feed!Committed

LEMMA FeedInit == Init => Feed!Init
<1>. SUFFICES ASSUME Init PROVE Feed!Init
  OBVIOUS
<1>1. Trees(<<>>) = <<>>
  BY DEF Trees
<1>2. Zero = Feed!Zero
  BY DEF Zero, Feed!Zero, Table, Feed!Table
<1>. QED
  BY <1>1, <1>2 DEF Init, Feed!Init, feedBar, lastBar, queueBar, FeedOf

\* A step that leaves the connections alone is a commit or a stutter.
LEMMA FeedCommit ==
  ASSUME TypeOK, [Next]_vars, UNCHANGED connVars
  PROVE  Feed!Commit
<1>1. db' \in Tree /\ AtLeast(db', db)
  BY DbGrows
<1>2. UNCHANGED <<feedBar, lastBar, queueBar, view>>
  BY DEF connVars, feedBar, FeedOf, lastBar, queueBar
<1>. QED
  BY <1>1, <1>2 DEF Feed!Commit, Feed!Tree, Feed!Table, Tree, Table, AtLeast

LEMMA FeedPush ==
  ASSUME TypeOK, OnlyCommitted, NEW p \in Push, NEW c \in Conn, Deliver(p, c)
  PROVE  [Feed!Next]_Feed!vars
<1>0. db' = db
  BY DEF Deliver, PushDelta, PushNoChange, PushToLost, PushToClosed, dataVars
<1>1. CASE PushDelta(p, c)
  <2>1. /\ stage' = stage /\ view' = view /\ stage[c] = "open"
        /\ pread[p] # sent[c] /\ sent' = [sent EXCEPT ![c] = pread[p]]
    BY <1>1 DEF PushDelta
  <2>2. feedBar' = feedBar /\ feedBar[c] = "open"
    BY <2>1 DEF feedBar, FeedOf
  <2>3. lastBar' = [lastBar EXCEPT ![c] = pread[p]] /\ pread[p] # lastBar[c]
    BY <2>1 DEF lastBar, TypeOK
  <2>4. queueBar' = [queueBar EXCEPT ![c] = Append(@, pread[p])]
    <3>. DEFINE m == [kind |-> "delta", base |-> sent[c], tree |-> pread[p]]
    <3>1. m \in Delta /\ wire[c] \in Seq(Delta) /\ m.tree = pread[p]
      BY DEF TypeOK, Delta
    <3>2. wire' = [wire EXCEPT ![c] = Append(@, m)] /\ wire \in [Conn -> Seq(Delta)]
      BY <1>1 DEF PushDelta, TypeOK
    <3>3. Trees(wire'[c]) = Append(Trees(wire[c]), pread[p])
      BY <3>1, <3>2, TreesAppend
    <3>. QED
      BY <3>2, <3>3 DEF queueBar
  <2>5. pread[p] \in Feed!Committed
    BY CommittedTree DEF TypeOK, OnlyCommitted
  <2>6. Feed!Publish(c, pread[p])
    BY <1>0, <2>1, <2>2, <2>3, <2>4 DEF Feed!Publish
  <2>. QED
    BY <2>5, <2>6 DEF Feed!Next
<1>2. CASE PushNoChange(p, c) \/ PushToClosed(p, c)
  <2>1. UNCHANGED <<stage, sent, wire, view>>
    BY <1>2 DEF PushNoChange, PushToClosed, connVars
  <2>. QED
    BY <1>0, <2>1 DEF Feed!vars, feedBar, FeedOf, lastBar, queueBar
<1>3. CASE PushToLost(p, c)
  <2>1. UNCHANGED <<stage, wire, view>> /\ stage[c] = "lost"
        /\ \A d \in Conn : d # c => sent'[d] = sent[d]
    BY <1>3 DEF PushToLost, TypeOK
  <2>2. lastBar' = lastBar
    BY <2>1 DEF lastBar
  <2>. QED
    BY <1>0, <2>1, <2>2 DEF Feed!vars, feedBar, FeedOf, queueBar
<1>. QED
  BY <1>1, <1>2, <1>3 DEF Deliver

LEMMA FeedConnection ==
  ASSUME TypeOK, ClientInStep, OnlyCommitted, NEW c \in Conn, Connection(c)
  PROVE  [Feed!Next]_Feed!vars
<1>0. db' = db
  BY DEF Connection, Authenticate, Register, Receive, PeerDrop, HandlerSeesDrop,
     Unregister, BuildRead, dataVars
<1>1. CASE Authenticate(c) \/ HandlerSeesDrop(c) \/ Unregister(c)
  <2>1. UNCHANGED <<sent, wire, view>>
    BY <1>1 DEF Authenticate, HandlerSeesDrop, Unregister
  <2>2. \A d \in Conn : FeedOf(d)' = FeedOf(d) /\ (stage'[d] = "open" <=> stage[d] = "open")
    BY <1>1 DEF Authenticate, HandlerSeesDrop, Unregister, FeedOf, TypeOK
  <2>. QED
    BY <1>0, <2>1, <2>2 DEF Feed!vars, feedBar, lastBar, queueBar
<1>2. CASE Register(c)
  <2>. DEFINE m == [kind |-> "full", base |-> built[c], tree |-> built[c]]
  <2>1. /\ stage' = [stage EXCEPT ![c] = "open"] /\ stage[c] = "building"
        /\ sent' = [sent EXCEPT ![c] = built[c]] /\ view' = view
        /\ wire' = [wire EXCEPT ![c] = <<m>>]
    BY <1>2 DEF Register
  <2>2. feedBar' = [feedBar EXCEPT ![c] = "open"] /\ feedBar[c] = "unopened"
    BY <2>1 DEF feedBar, FeedOf, TypeOK
  <2>3. lastBar' = [lastBar EXCEPT ![c] = built[c]]
    BY <2>1 DEF lastBar, TypeOK
  <2>4. Trees(<<m>>) = <<built[c]>>
    BY DEF Trees
  <2>5. queueBar' = [queueBar EXCEPT ![c] = <<built[c]>>]
    BY <2>1, <2>4 DEF queueBar, TypeOK
  <2>6. built[c] \in Feed!Committed
    BY CommittedTree DEF TypeOK, OnlyCommitted
  <2>7. Feed!Open(c, built[c])
    BY <1>0, <2>1, <2>2, <2>3, <2>5 DEF Feed!Open
  <2>. QED
    BY <2>6, <2>7 DEF Feed!Next
<1>3. CASE Receive(c)
  <2>1. /\ stage' = stage /\ sent' = sent /\ stage[c] = "open" /\ wire[c] # <<>>
        /\ view' = [view EXCEPT ![c] = Patch(@, Head(wire[c]))]
        /\ wire' = [wire EXCEPT ![c] = Tail(@)]
    BY <1>3 DEF Receive
  <2>2. /\ wire[c] \in Seq(Delta) /\ view[c] \in Tree /\ sent[c] \in Tree
        /\ InStep(wire[c], view[c], sent[c]) /\ wire \in [Conn -> Seq(Delta)]
    BY <2>1 DEF TypeOK, ClientInStep
  <2>3. /\ Patch(view[c], Head(wire[c])) = Head(Trees(wire[c]))
        /\ Trees(wire[c]) # <<>> /\ Trees(Tail(wire[c])) = Tail(Trees(wire[c]))
    <3>1. Head(wire[c]) = wire[c][1]
      BY <2>1, <2>2
    <3>. QED
      BY <2>1, <2>2, <3>1, TailInStep, TreesTail
  <2>4. feedBar' = feedBar /\ lastBar' = lastBar /\ feedBar[c] = "open"
    BY <2>1 DEF feedBar, FeedOf, lastBar
  <2>5. queueBar' = [queueBar EXCEPT ![c] = Tail(@)] /\ queueBar[c] = Trees(wire[c])
    BY <2>1, <2>2, <2>3 DEF queueBar
  <2>6. Feed!Apply(c)
    BY <1>0, <2>1, <2>3, <2>4, <2>5 DEF Feed!Apply
  <2>. QED
    BY <2>6 DEF Feed!Next
<1>4. CASE PeerDrop(c)
  <2>1. /\ stage' = [stage EXCEPT ![c] = "lost"] /\ stage[c] = "open"
        /\ sent' = sent /\ view' = view /\ wire' = [wire EXCEPT ![c] = <<>>]
    BY <1>4 DEF PeerDrop
  <2>2. feedBar' = [feedBar EXCEPT ![c] = "closed"] /\ feedBar[c] = "open"
    BY <2>1 DEF feedBar, FeedOf, TypeOK
  <2>3. Zero = Feed!Zero
    BY DEF Zero, Feed!Zero, Table, Feed!Table
  <2>4. lastBar' = [lastBar EXCEPT ![c] = Feed!Zero]
    BY <2>1, <2>3 DEF lastBar, TypeOK
  <2>5. Trees(<<>>) = <<>>
    BY DEF Trees
  <2>6. queueBar' = [queueBar EXCEPT ![c] = <<>>]
    BY <2>1, <2>5 DEF queueBar, TypeOK
  <2>7. Feed!Close(c)
    BY <1>0, <2>1, <2>2, <2>4, <2>6 DEF Feed!Close
  <2>. QED
    BY <2>7 DEF Feed!Next
<1>5. ASSUME NEW t \in Table, BuildRead(c, t) PROVE UNCHANGED Feed!vars
  <2>1. UNCHANGED <<stage, sent, wire, view>>
    BY <1>5 DEF BuildRead
  <2>. QED
    BY <1>0, <2>1 DEF Feed!vars, feedBar, FeedOf, lastBar, queueBar
<1>. QED
  BY <1>1, <1>2, <1>3, <1>4, <1>5 DEF Connection

LEMMA FeedNext == SyncInv /\ [Next]_vars => [Feed!Next]_Feed!vars
<1>. SUFFICES ASSUME SyncInv, [Next]_vars PROVE [Feed!Next]_Feed!vars
  OBVIOUS
<1>1. TypeOK /\ ClientInStep /\ OnlyCommitted
  BY DEF SyncInv
<1>2. CASE UNCHANGED connVars
  BY <1>1, <1>2, FeedCommit DEF Feed!Next
<1>. QED
  BY <1>1, <1>2, OtherSteps, FeedPush, FeedConnection

(***************************************************************************)
(* Sending differences is sending states: what clients hold is always a    *)
(* tree the server built from committed data, in publication order, none   *)
(* skipped, exactly as if each push had sent the whole tree.               *)
(***************************************************************************)
THEOREM FeedImplemented == Spec => RefinesFeed
BY InvCorrect, FeedInit, FeedNext, PTL DEF Spec, RefinesFeed, Feed!Spec
=============================================================================
