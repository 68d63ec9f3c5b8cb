--------------------------- MODULE MCKMeshStatus ---------------------------
(***************************************************************************)
(* Instances of KMeshStatus for TLC: one or two bindings of a mesh, each    *)
(* with a class of its own.                                                 *)
(***************************************************************************)
EXTENDS KMeshStatus

CONSTANTS b1, b2, x, y

MCClassOrder == SetToSeq(Class)

\* The alphabetical order of the classes is any order.
MCListOf == [S \in SUBSET Class |-> SelectSeq(MCClassOrder, LAMBDA c : c \in S)]

OneEach == [b \in Binding |-> IF b = b1 THEN <<x>> ELSE <<y>>]
=============================================================================
