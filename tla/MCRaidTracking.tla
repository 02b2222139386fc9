---------------------------- MODULE MCRaidTracking ----------------------------
(* Small instances of RaidTracking for TLC. *)
EXTENDS RaidTracking, TLC

CONSTANTS t1, t2, a, b, e1, e2, e3

\* t1 has two parts, the second of which pulls in who tracks something else, and so
\* does t2; a quake closes t2.
MCParts == t1 :> 2 @@ t2 :> 1 @@ Quake :> 1
OnlyT2 == {t2}
LastOfT1 == {<<t1, 0>>}
None == {}

\* Where the run starts: a character tracks something or his tracking has ended
\* and waits for a submission; there may be a second tracking of t1.
MCTrack == {NoTrack} \cup
    [char : Chars, target : Targets, rate : Rates, open : BOOLEAN, closer : {NoOne}, paid : {FALSE}]

MCInit ==
    /\ db \in [track : {k \in [Ids -> MCTrack] : k[1] # NoTrack /\ \A i \in Ids \ {1} : k[i] # NoTrack => k[i].target = t1},
               event : {[e \in Events |-> NoEvent]}, rows : {{}}, here : {{}}]
    /\ Sound(db)
    /\ work = db /\ lock = NoOne
    /\ flow = [f \in Flows |-> Idle]
    /\ clock = 0 /\ commands = 0
    /\ adjusted = [i \in Ids |-> 0] /\ excused = {}

MCSpec == MCInit /\ [][Next]_vars

Symmetric == Permutations(Flows) \cup Permutations(Chars) \cup Permutations(Events)
=============================================================================
