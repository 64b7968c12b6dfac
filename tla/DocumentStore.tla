--------------------------- MODULE DocumentStore ---------------------------
(***************************************************************************)
(* What a collection's storage promises of documents that are written once *)
(* under a fresh id: a map that only grows, that a client sees whole       *)
(* whenever the process runs, and that no crash changes.                   *)
(***************************************************************************)
CONSTANTS Ids, Versions, None, Offline

VARIABLES store, view

Init ==
    /\ store = [id \in Ids |-> None]
    /\ view = Offline

Put(id, v) ==
    /\ view # Offline
    /\ store[id] \in {None, v}
    /\ store' = [store EXCEPT ![id] = v]
    /\ view' = store'

Stop == view' = Offline /\ UNCHANGED store

Start == view' = store /\ UNCHANGED store

Next == (\E id \in Ids, v \in Versions : Put(id, v)) \/ Stop \/ Start

Spec == Init /\ [][Next]_<<store, view>>
=============================================================================
