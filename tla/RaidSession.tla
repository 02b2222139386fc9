---------------------------- MODULE RaidSession ----------------------------
(***************************************************************************)
(* Sessions on the raid database of a guild (db/raid_base.py), one SQLite   *)
(* file.  The handlers of the Discord client run on one event loop and      *)
(* interleave only where they await: a look-up, an upload, a message.  The  *)
(* first change a session flushes takes the write lock of the file, which   *)
(* the session keeps, across its awaits, until it commits or closes; what   *)
(* it wrote is visible to itself only until then.  A second writer waits    *)
(* for the lock without giving the loop back to the holder, so it always    *)
(* fails, and its handler with it.                                          *)
(***************************************************************************)

CONSTANTS
    Flows,      \* handlers that may be suspended at the same time
    NoOne       \* no flow; the modules that extend this one use it for more

ASSUME NoFlow == NoOne \notin Flows

VARIABLES
    db,         \* what is committed
    work,       \* what the holder of the lock sees; db when nobody holds it
    lock        \* the flow whose session holds the write lock

session == <<db, work, lock>>

\* What the session of f sees, and whether it can write.
View(f) == IF lock = f THEN work ELSE db
MayWrite(f) == lock \in {f, NoOne}

\* The session flushes and goes on; it commits; it closes without a commit.
Write(f, d) == lock' = f /\ work' = d /\ UNCHANGED db
Commit(d) == lock' = NoOne /\ db' = d /\ work' = d

Close(f) == IF lock = f THEN lock' = NoOne /\ work' = db /\ UNCHANGED db
                        ELSE UNCHANGED session

\* A handler that reads, writes and commits before it awaits anything.  When
\* the lock is taken it dies and changes nothing.
MutAlone(d) == Commit(d)

Alone(d) == lock = NoOne /\ Commit(d)

\* The process ends: what is not committed is lost.
Lost == lock' = NoOne /\ work' = db /\ UNCHANGED db

\* What nobody has written is what is committed.
NothingPending == lock = NoOne => work = db
=============================================================================
