----------------------------- MODULE MCRaidEvent -----------------------------
(* Small instances of RaidEvent for TLC. *)
EXTENDS RaidEvent, TLC

CONSTANTS a, b, owner

\* Both characters belong to one user, the case in which credit could double.
OneOwner == a :> owner @@ b :> owner

Price == [kill |-> 2, nokill |-> 1]
Free == [kill |-> 0, nokill |-> 0]
OnePrice == {Price}
TwoPrices == {Price, Free}

\* Where the runs start: each character attends, tracks or does neither and may
\* still be unknown; the item is awarded or not; the event is marked as killed.
Buyer == IF b \in Names THEN b ELSE a

MCRow == {NoRow} \cup
    [char : Names \X {1}, on : {NoOne}, tracked : BOOLEAN]

MCDatabase ==
    [rows : {r \in [Ids -> MCRow] : \A i, j \in Ids : r[i] # NoRow /\ i # j => r[i].char # r[j].char},
     known : {k \in [Chars -> {"unknown", "linked"}] : \A n \in Names : k[<<n, 2>>] = "unknown"},
     killed : {"kill"}, price : Prices, raid : {NoOne}, named : BOOLEAN,
     loot : [Loots -> {NoOne, <<Buyer, 1>>}], billed : {{}}, ftes : {{}}]

MCInit ==
    /\ db \in {d \in MCDatabase :
                 /\ \A i \in Ids : d.rows[i] # NoRow => d.known[d.rows[i].char] = "linked"
                 /\ \A l \in Loots : d.loot[l] # NoOne => d.known[d.loot[l]] = "linked"}
    /\ Sound(db)
    /\ work = db
    /\ lock = NoOne
    /\ flow = [f \in Flows |-> Idle]
    /\ raids = [r \in RaidIds |-> NoRaid]
    /\ commands = 0

MCSpec == MCInit /\ [][Next]_vars

Symmetric == Permutations(Flows) \cup Permutations(Ids) \cup Permutations(RaidIds)
=============================================================================
