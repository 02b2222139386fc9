----------------------------- MODULE MCSsoLogin -----------------------------
(* A small instance of SsoLogin for TLC. *)
EXTENDS SsoLogin, TLC

CONSTANTS a1, a2, c1, c2, n, g, h, p

\* The second account was deleted while its character was played; its name is an
\* alias of the first.
Deleted(u) ==
  [row |-> 1 :> [user |-> a1, pass |-> p, age |-> Cold] @@ 2 :> NoRow,
   groups |-> {g}, mapping |-> {<<g, 1>>},
   chars |-> c1 :> [acct |-> 1, level |-> 0, zone |-> FALSE, key |-> FALSE]
             @@ c2 :> NoRow,
   alias |-> [x \in Alias |-> IF x = a2 THEN 1 ELSE NoRow],
   tags |-> {<<n, 1>>},
   sessions |-> {[char |-> c2, acct |-> 2, user |-> u, age |-> 0]}]

\* The first character was moved to the second account while it was played.
\* Both accounts are tagged.
Moved(u) ==
  [row |-> 1 :> [user |-> a1, pass |-> p, age |-> 0]
           @@ 2 :> [user |-> a2, pass |-> p, age |-> Cold],
   groups |-> {g}, mapping |-> {<<g, 1>>, <<g, 2>>},
   chars |-> c1 :> [acct |-> 2, level |-> 1, zone |-> TRUE, key |-> TRUE]
             @@ c2 :> NoRow,
   alias |-> [x \in Alias |-> NoRow],
   tags |-> {<<n, 1>>, <<n, 2>>},
   sessions |-> {[char |-> c1, acct |-> 1, user |-> u, age |-> 0]}]

Starts == {Deleted(u) : u \in User} \cup {Moved(u) : u \in User}
AllRoles == [u \in User |-> Group]
Reports == {[level |-> 1, zone |-> TRUE, key |-> "unsaid"]}
\* Users hold the same roles.
UserSymmetry == Permutations(User)
=============================================================================
