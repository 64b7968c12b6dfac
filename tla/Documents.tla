----------------------------- MODULE Documents ------------------------------
(***************************************************************************)
(* The documents that the indexes, the filters and the searches are about  *)
(* (crates/openvec-core/src/types/mod.rs).                                 *)
(***************************************************************************)
CONSTANTS
    Ids,        \* document ids
    Bodies,     \* what a document has besides its id: vectors and payload
    None        \* no document, or a field that a document does not have
=============================================================================
