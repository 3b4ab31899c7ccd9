----------------------------- MODULE MCDatastore -----------------------------
(***************************************************************************)
(* Small instances of Datastore.  Songs are interchangeable, and so are    *)
(* devices when all of them may add songs.                                 *)
(***************************************************************************)
EXTENDS Datastore, TLC

FullSymmetry == Permutations(Songs) \cup Permutations(Devices)
=============================================================================
