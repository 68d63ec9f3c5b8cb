--------------------------- MODULE ClassRegister ---------------------------
(***************************************************************************)
(* What a KMesh promises of broker classes, whoever writes its status: the *)
(* classes of its bindings get registered, only registered classes are     *)
(* ever published, and in the end all of them are, for good, though        *)
(* meanwhile what was published may be lost.                               *)
(***************************************************************************)
CONSTANT Class

VARIABLES registered, published

vars == <<registered, published>>

Init == registered = {} /\ published = {}

\* Nothing registered is ever taken back.
Register ==
    /\ registered' \in SUBSET Class /\ registered \subseteq registered'
    /\ UNCHANGED published

Publish ==
    /\ published' \in SUBSET registered
    /\ UNCHANGED registered

Next == Register \/ Publish

Complete == published = registered

Spec == Init /\ [][Next]_vars /\ <>[]Complete
=============================================================================
