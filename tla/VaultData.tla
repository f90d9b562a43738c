----------------------------- MODULE VaultData -----------------------------
(***************************************************************************)
(* What every part of the store talks about: objects, the uploads that are *)
(* their versions, the bytes uploaded, and the storage nodes.              *)
(***************************************************************************)
EXTENDS Naturals, FiniteSets

CONSTANTS
    Keys,       \* object names: a bucket together with a key in it
    Versions,   \* version ids, one for every upload there is
    KeyOf,      \* KeyOf[v]: the object that v is a version of
    ContentOf,  \* ContentOf[v]: the bytes uploaded, and so their SHA-256
    Nodes       \* storage nodes that are ever registered

ASSUME NodesAssumption == IsFiniteSet(Nodes)

ASSUME VersionAssumption ==
    /\ KeyOf \in [Versions -> Keys]
    /\ DOMAIN ContentOf = Versions

Contents == {ContentOf[v] : v \in Versions}
=============================================================================
