-------------------------- MODULE MCCollectionWalk --------------------------
(* A small instance of CollectionWalk for TLC.                             *)
EXTENDS CollectionWalk

MCItems == 1..5
MCSizes == -1..3
MCFirstPages == {0, 1, 2, 12}
=============================================================================
