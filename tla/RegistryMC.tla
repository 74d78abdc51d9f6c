----------------------------- MODULE RegistryMC -----------------------------
(* Instances of Registry for TLC. *)
EXTENDS Registry, TLC

CONSTANTS q1, q2

Symmetry == Permutations(Requests)

Server(n, on) == [id |-> n, port |-> n, tracking |-> on, spawn |-> on, limit |-> 1]

MCSaved == {<<>>, <<Server(1, TRUE)>>, <<Server(1, FALSE), Server(2, TRUE)>>}

\* The cells a pointer or the slice leads to: no other is read before it is
\* written, and no property looks at one.
Pointers ==
    {instances[id] : id \in Ids}
    \cup {requests[q].pointer : q \in {r \in Requests : "pointer" \in DOMAIN requests[r]}}

Seen ==
    [a \in DOMAIN heap |-> [i \in DOMAIN heap[a] |->
        IF <<a, i>> \in Pointers \/ (a = slice.arr /\ i <= slice.len)
        THEN heap[a][i] ELSE Blank]]

View == <<Seen, slice, instances, private \cap {id \in Ids : instances[id] # NoPointer},
          disk, requests, asked, frozen>>
=============================================================================
