--------------------------- MODULE MCCommandLine ---------------------------
(***************************************************************************)
(* Instances of CommandLine for TLC.                                       *)
(***************************************************************************)
EXTENDS CommandLine, TLC

CONSTANTS t1, t2

Charts == {"mtbroker", "kafkabroker"}

At(namespace, name) == [namespace |-> namespace, name |-> name]

\* All charts of the repository make the same BrokerBinding.
Bindings == {At("eventing", "mtbroker"), At("dev", "own"), At("test", "own")}

Templates1 == [c \in Charts |-> At("eventing", "mtbroker")]

Column(n, egress) == [name |-> "mesh-kne-ingress", egresses |-> [e \in 1..n |-> egress]]

\* No ingress, as many as classes, more, fewer; from no egress to five.
MeshStatuses ==
    {Empty,
     [classes |-> <<"A", "B">>, ingresses |-> <<>>],
     [classes |-> <<"A", "B", "C">>, ingresses |-> <<Column(1, "ref"), Column(2, "ref")>>],
     [classes |-> <<"A">>,
      ingresses |-> <<Column(0, "ref"), Column(3, "ref"), Column(4, "ref")>>],
     [classes |-> <<>>, ingresses |-> <<Column(5, "ref")>>],
     [classes |-> <<"A">>, ingresses |-> <<Column(1, "uri")>>]}

Symmetry == Permutations({t1, t2})
=============================================================================
