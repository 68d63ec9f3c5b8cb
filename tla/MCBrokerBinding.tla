-------------------------- MODULE MCBrokerBinding --------------------------
(***************************************************************************)
(* Instances of BrokerBinding for TLC: small clusters, each with the kinds *)
(* of change that make one question interesting.                           *)
(***************************************************************************)
EXTENDS BrokerBinding

CONSTANTS m1, m2, k1, k2, t1, t2, x, y, b1, b2

MCClassOrder == SetToSeq(Class)

\* The alphabetical order of the classes is any order: x is before y.
MCListOf == [S \in SUBSET Class |-> SelectSeq(MCClassOrder, LAMBDA c : c \in S)]

OnlyX     == [k \in Broker |-> {x}]
OnlyK1    == [t \in Trigger |-> {k1}]
BindX     == [kmesh |-> m1, classes |-> <<x>>]
BindY     == [kmesh |-> m1, classes |-> <<y>>]
BindElsewhere == [kmesh |-> m2, classes |-> <<x>>]
NoMesh    == [kmesh |-> None, classes |-> <<x>>]

BrokersNone  == [k \in Broker |-> None]
TriggersNone == [t \in Trigger |-> None]
KMeshesNone  == [m \in KMesh |-> None]
BindingsNone == [b \in Binding |-> None]

\* A mesh the kmesh reconciler has seen; a broker of class x that is ready.
FreshKMeshes == [m \in KMesh |-> [uid |-> 1, init |-> TRUE, status |-> NoStatus]]
ReadyBrokers0  == [k \in Broker |-> [uid |-> 1, class |-> x, ready |-> TRUE]]
BindingsX    == [b \in Binding |-> NewBinding(BindX)]
BindingsXY   == [b \in Binding |-> NewBinding(IF b = b1 THEN BindX ELSE BindY)]

SpecsX    == {BindX}
SpecsXY   == {BindX, BindY}
SpecsMesh == {BindX, BindElsewhere}
SpecsNone == {NoMesh}

BindingsNoMesh == [b \in Binding |-> NewBinding(NoMesh)]

\* Two bindings that start alike may be exchanged.
BindingSymmetry == Permutations(Binding)

NoChange     == {}
ClusterLife  == {"createBroker", "readyBroker", "deleteBroker",
                 "createTrigger", "readyTrigger", "deleteTrigger"}
MeshLife     == {"createKMesh", "deleteKMesh",
                 "createBinding", "updateBinding", "deleteBinding", "loseCall"}
BindingLife  == {"updateBinding", "deleteBinding"}
=============================================================================
