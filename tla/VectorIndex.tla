---------------------------- MODULE VectorIndex -----------------------------
(***************************************************************************)
(* What the trait VectorIndex promises (crates/openvec-core/src/index/     *)
(* mod.rs), whichever the index: a map from ids to vectors, which can be   *)
(* serialised and replaced by what was serialised.                         *)
(***************************************************************************)
CONSTANTS Ids, Vectors, None

VARIABLES
    held,       \* the live vector of each id
    saved       \* the map in the bytes last serialised

Maps == [Ids -> Vectors \cup {None}]
Empty == [id \in Ids |-> None]

Insert(id, v) == held' = [held EXCEPT ![id] = v] /\ UNCHANGED saved
Delete(id) == held' = [held EXCEPT ![id] = None] /\ UNCHANGED saved
Serialize == saved' = held /\ UNCHANGED held
Deserialize == held' = saved /\ UNCHANGED saved

\* Other contents take the place of the index's own.
Replace(map) == held' = map /\ UNCHANGED saved

\* The index is dropped, or created anew.
New == held' = Empty /\ UNCHANGED saved

Init == held = Empty /\ saved = Empty

Next ==
    \/ \E id \in Ids : Delete(id) \/ \E v \in Vectors : Insert(id, v)
    \/ Serialize \/ Deserialize \/ New

Spec == Init /\ [][Next]_<<held, saved>>
=============================================================================
