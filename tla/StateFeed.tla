----------------------------- MODULE StateFeed -----------------------------
(***************************************************************************)
(* What the account WebSocket promises its clients, with no word of how:   *)
(* each connection is a stream of whole account trees, every one of which  *)
(* the database has held table by table, opened by the full state, applied *)
(* by the client in the order they were published, none twice in a row,    *)
(* none skipped.  AccountSync sends differences instead and implements     *)
(* this (README_API.md, "Delta Computation").                              *)
(***************************************************************************)
EXTENDS Integers, Sequences

CONSTANT Conn

VARIABLES
  db,      \* committed version of each table
  feed,    \* feed[c]: "unopened", "open" or "closed"
  last,    \* last[c]: the tree published to c last
  queue,   \* queue[c]: trees published to c and not yet applied
  view     \* view[c]: the copy of client c

vars == <<db, feed, last, queue, view>>

Table == {"accounts", "sessions"}
Tree == [Table -> Nat]

Zero == [t \in Table |-> 0]

\* Table by table, states the database has been in.
Committed ==
  {[t \in Table |-> IF t = "accounts" THEN a ELSE s] :
     a \in 0 .. db["accounts"], s \in 0 .. db["sessions"]}

TypeOK ==
  /\ db \in Tree
  /\ feed \in [Conn -> {"unopened", "open", "closed"}]
  /\ last \in [Conn -> Tree]
  /\ queue \in [Conn -> Seq(Tree)]
  /\ view \in [Conn -> Tree]

Init ==
  /\ db = Zero
  /\ feed = [c \in Conn |-> "unopened"]
  /\ last = [c \in Conn |-> Zero]
  /\ queue = [c \in Conn |-> <<>>]
  /\ view = [c \in Conn |-> Zero]

Commit ==
  /\ db' \in Tree
  /\ \A t \in Table : db'[t] >= db[t]
  /\ UNCHANGED <<feed, last, queue, view>>

Open(c, t) ==
  /\ feed[c] = "unopened"
  /\ feed' = [feed EXCEPT ![c] = "open"]
  /\ last' = [last EXCEPT ![c] = t]
  /\ queue' = [queue EXCEPT ![c] = <<t>>]
  /\ UNCHANGED <<db, view>>

Publish(c, t) ==
  /\ feed[c] = "open"
  /\ t # last[c]
  /\ last' = [last EXCEPT ![c] = t]
  /\ queue' = [queue EXCEPT ![c] = Append(@, t)]
  /\ UNCHANGED <<db, feed, view>>

Apply(c) ==
  /\ feed[c] = "open"
  /\ queue[c] # <<>>
  /\ view' = [view EXCEPT ![c] = Head(queue[c])]
  /\ queue' = [queue EXCEPT ![c] = Tail(@)]
  /\ UNCHANGED <<db, feed, last>>

Close(c) ==
  /\ feed[c] = "open"
  /\ feed' = [feed EXCEPT ![c] = "closed"]
  /\ last' = [last EXCEPT ![c] = Zero]
  /\ queue' = [queue EXCEPT ![c] = <<>>]
  /\ UNCHANGED <<db, view>>

Next ==
  \/ Commit
  \/ \E c \in Conn :
       \/ \E t \in Committed : Open(c, t) \/ Publish(c, t)
       \/ Apply(c)
       \/ Close(c)

Spec == Init /\ [][Next]_vars
=============================================================================
