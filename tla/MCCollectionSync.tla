-------------------------- MODULE MCCollectionSync --------------------------
(* Instances of CollectionSync: two items and a subcollection.              *)
EXTENDS CollectionSync

CONSTANTS i1, i2, sub

=============================================================================
