---------------------------- MODULE CommandLine ----------------------------
(***************************************************************************)
(* The command-line tool (magefile.go): terminals that install the system  *)
(* and its brokers and show its state, in a cluster that goes on changing. *)
(*                                                                         *)
(* A command is cut where it calls kubectl, helm or the API server: these  *)
(* may fail, having done all, part or nothing of what they were asked for. *)
(* Of the cluster there is what the tool looks at: what is applied, the    *)
(* mesh of the namespace knative-mesh, and the BrokerBindings.             *)
(*                                                                         *)
(* Abstractions.  The tables are their rows; an ingress is its name and    *)
(* its egresses, of which the tool distinguishes those with a reference    *)
(* to a subscriber ("ref") from those with a URI only ("uri").             *)
(***************************************************************************)
EXTENDS Drawing, FiniteSets

CONSTANTS
    Terminal,
    Chart,            \* directories of artifacts/brokers
    Binding,          \* namespace and name of the BrokerBindings there may be
    ChartBinding,     \* the one in the template of each chart
    MeshStatus,       \* statuses the controllers may give the mesh
    None,
    MaxCommands, MaxChanges, MaxFaults

ASSUME Templates == ChartBinding \in [Chart -> Binding]

Ingress == [name : STRING, egresses : Seq({"ref", "uri"})]

\* The status of a mesh that was just created.
Empty == [classes |-> <<>>, ingresses |-> <<>>]

ASSUME Statuses ==
    \A s \in MeshStatus : s.classes \in Seq(STRING) /\ s.ingresses \in Seq(Ingress)

VARIABLES
    applied,          \* what kubectl has applied of the three manifests
    mesh,             \* status of the mesh "default", or None
    bindings,         \* the Ready condition of each BrokerBinding, or None
    releases,         \* the names helm has in use
    at,               \* what a terminal is about to do
    chart,            \* the argument of brokers:install
    info,             \* what getBrokersInfo read last
    shown,            \* the status of the mesh read last
    exit,             \* how the last command of a terminal ended
    commands, changes, faults

clusterVars == <<applied, mesh, bindings, releases>>
viewVars    == <<chart, info, shown>>
bounds      == <<commands, changes>>
vars == <<clusterVars, at, viewVars, exit, bounds, faults>>

Manifest ==
    [eventing |-> {"eventing-core"},
     channel  |-> {"in-memory-channel"},
     operator |-> {"mesh-crds", "mesh-operator"}]

Ready == {"True", "False", "Unknown", "absent"}

ComponentState == {"Available", "Managed", "ManagedNotReady", "Bound"}

Names == Chart \cup {b.name : b \in Binding}

Exits == {"none", "ok", "error", "not found", "already installed", "panic"}

TypeOK ==
    /\ applied \subseteq UNION {Manifest[m] : m \in DOMAIN Manifest}
    /\ mesh \in MeshStatus \cup {Empty, None}
    /\ bindings \in [Binding -> Ready \cup {None}]
    /\ releases \subseteq Chart
    /\ at \in [Terminal -> {"idle", "eventing", "channel", "operator", "start", "meshes", "mesh",
                            "brokers", "read", "helm"}]
    /\ chart \in [Terminal -> Names \cup {"unknown", None}]
    /\ \A t \in Terminal : at[t] = "helm" => chart[t] \in Chart
    /\ \A t \in Terminal : info[t] # None =>
          /\ DOMAIN info[t].rows \subseteq Names
          /\ \A n \in DOMAIN info[t].rows : info[t].rows[n].state \in ComponentState
    /\ shown \in [Terminal -> MeshStatus \cup {Empty, None}]
    /\ exit \in [Terminal -> Exits]

Init ==
    /\ applied = {}
    /\ mesh = None
    /\ bindings = [b \in Binding |-> None]
    /\ releases = {}
    /\ at = [t \in Terminal |-> "idle"]
    /\ chart = [t \in Terminal |-> None]
    /\ info = [t \in Terminal |-> None]
    /\ shown = [t \in Terminal |-> None]
    /\ exit = [t \in Terminal |-> "none"]
    /\ commands = 0 /\ changes = 0 /\ faults = 0

---------------------------------------------------------------------------
(* The tables                                                               *)

\* Mutant: the cursor goes one past the last.
CursorPast(length, steps) ==
    LET c[r \in 1..steps] == IF r = 1 THEN 1
                             ELSE IF c[r - 1] <= length THEN c[r - 1] + 1 ELSE c[r - 1]
    IN  c

\* A cursor in a list of that length as a loop goes on: it stops at the last.
Cursor(length, steps) ==
    LET c[r \in 1..steps] == IF r = 1 THEN 1
                             ELSE IF c[r - 1] < length THEN c[r - 1] + 1 ELSE c[r - 1]
    IN  c

getIngressEntries(ingresses) ==
    IF ingresses = <<>> THEN <<"-">>
    ELSE [i \in DOMAIN ingresses |->
            [name |-> ingresses[i].name, topology |-> SPPrint(Len(ingresses[i].egresses))]]

\* Mutant: a row for each class, be there more ingresses or not.
newMeshTableRowClasses(classes, ingresses) ==
    LET i == Cursor(Len(ingresses), Len(classes))
    IN  [r \in 1..Len(classes) |-> <<r, i[r]>>]

\* The class and the ingress of each row, as indices: the longer list sets the
\* number of rows, and the shorter one repeats its last entry.
newMeshTableRow(classes, ingresses) ==
    IF Len(ingresses) > Len(classes)
    THEN LET c == Cursor(Len(classes), Len(ingresses))
         IN  [r \in 1..Len(ingresses) |-> <<c[r], r>>]
    ELSE LET i == Cursor(Len(ingresses), Len(classes))
         IN  [r \in 1..Len(classes) |-> <<r, i[r]>>]

ClassEntries(status) == IF status.classes = <<>> THEN <<"-">> ELSE status.classes

MeshRows(status) ==
    newMeshTableRow(ClassEntries(status), getIngressEntries(status.ingresses))

\* An egress without a reference is dereferenced; a row indexes beyond a list.
MeshPanics(status) ==
    \/ \E i \in DOMAIN status.ingresses :
          \E e \in DOMAIN status.ingresses[i].egresses : status.ingresses[i].egresses[e] = "uri"
    \/ \E r \in DOMAIN MeshRows(status) :
          \/ MeshRows(status)[r][1] \notin DOMAIN ClassEntries(status)
          \/ MeshRows(status)[r][2] \notin DOMAIN getIngressEntries(status.ingresses)

\* Charts are known by the name of their directory, bindings by theirs, without the
\* namespace: the one listed last, in the order of kubectl, sets the row.
chartInfo == [c \in Chart |-> [state |-> "Available", namespace |-> None]]

\* Mutant: a condition that is not False is as good as True.
bindingInfoNotFalse(b, ready) ==
    [namespace |-> b.namespace,
     state     |-> IF b.name \notin Chart THEN "Bound"
                   ELSE IF ready # "False" THEN "Managed" ELSE "ManagedNotReady"]

bindingInfo(b, ready) ==
    [namespace |-> b.namespace,
     state     |-> IF b.name \notin Chart THEN "Bound"
                   ELSE IF ready = "True" THEN "Managed" ELSE "ManagedNotReady"]

Listed == {b \in Binding : bindings[b] # None}

\* last[n]: the binding listed last among those of name n.  The second of two
\* bindings of a name no chart has finds the row of the first.
getBrokersInfo(last) ==
    [n \in Chart \cup DOMAIN last |->
       IF n \notin DOMAIN last THEN chartInfo[n]
       ELSE LET b == last[n]
            IN  IF n \notin Chart /\ Cardinality({o \in Listed : o.name = n}) > 1
                THEN [bindingInfo(b, bindings[b]) EXCEPT
                         !.state = IF bindings[b] = "True" THEN "Managed" ELSE "ManagedNotReady"]
                ELSE bindingInfo(b, bindings[b])]

Lasts ==
    {last \in [{b.name : b \in Listed} -> Listed] : \A n \in DOMAIN last : last[n].name = n}

\* A line of kubectl without the condition has three fields, not four.
ShortLine == \E b \in Listed : bindings[b] = "absent"

---------------------------------------------------------------------------
(* Commands                                                                 *)

Goto(t, step) == at' = [at EXCEPT ![t] = step]

Return(t, how) == Goto(t, "idle") /\ exit' = [exit EXCEPT ![t] = how]

Command(t, step) ==
    /\ at[t] = "idle" /\ commands < MaxCommands
    /\ commands' = commands + 1
    /\ Goto(t, step)
    /\ info' = [info EXCEPT ![t] = None]
    /\ shown' = [shown EXCEPT ![t] = None]
    /\ exit' = [exit EXCEPT ![t] = "none"]
    /\ UNCHANGED <<clusterVars, changes, faults>>

RunInstall(t)       == Command(t, "eventing") /\ UNCHANGED chart
RunMeshStart(t)     == Command(t, "start") /\ UNCHANGED chart
RunStatus(t)        == Command(t, "meshes") /\ UNCHANGED chart
RunMeshStatus(t)    == Command(t, "mesh") /\ UNCHANGED chart
RunBrokersStatus(t) == Command(t, "brokers") /\ UNCHANGED chart

RunBrokersInstall(t) ==
    \E c \in Names \cup {"unknown"} : Command(t, "read") /\ chart' = [chart EXCEPT ![t] = c]

\* A process kubectl or helm that ends with an error.
Fault == faults < MaxFaults /\ faults' = faults + 1

\* Mutant: Install goes on after an error.
InstallGoesOn(t, next) ==
    IF next = "done" THEN Return(t, "error") ELSE Goto(t, next) /\ UNCHANGED exit

InstallFails(t, next) == Return(t, "error")

ApplyManifest(t, m, next) ==
    /\ at[t] = m
    /\ \/ /\ applied' = applied \cup Manifest[m]
          /\ IF next = "done" THEN Return(t, "ok") ELSE Goto(t, next) /\ UNCHANGED exit
          /\ UNCHANGED faults
       \/ /\ Fault
          /\ \E part \in SUBSET Manifest[m] : applied' = applied \cup part
          /\ InstallFails(t, next)
    /\ UNCHANGED <<mesh, bindings, releases, viewVars, bounds>>

Install(t) ==
    \/ ApplyManifest(t, "eventing", "channel")
    \/ ApplyManifest(t, "channel", "operator")
    \/ ApplyManifest(t, "operator", "done")

\* Without the CRD, or the network, there is an error.
MeshStart(t) ==
    /\ at[t] = "start"
    /\ \/ /\ "mesh-crds" \in applied
          /\ mesh' = IF mesh = None THEN Empty ELSE mesh
          /\ Return(t, "ok")
          /\ UNCHANGED faults
       \/ "mesh-crds" \notin applied /\ Return(t, "error") /\ UNCHANGED <<mesh, faults>>
       \/ Fault /\ Return(t, "error") /\ UNCHANGED mesh
    /\ UNCHANGED <<applied, bindings, releases, viewVars, bounds>>

\* status goes on to the brokers whatever kmeshStatus returns.
kmeshStatus(t) ==
    /\ at[t] \in {"meshes", "mesh"}
    /\ \/ /\ "mesh-crds" \in applied
          /\ IF mesh # None /\ MeshPanics(mesh) THEN Return(t, "panic")
             ELSE IF at[t] = "mesh" THEN Return(t, "ok")
             ELSE Goto(t, "brokers") /\ UNCHANGED exit
          /\ shown' = [shown EXCEPT ![t] = mesh]
          /\ UNCHANGED faults
       \/ /\ IF "mesh-crds" \in applied THEN Fault ELSE UNCHANGED faults
          /\ IF at[t] = "mesh" THEN Return(t, "error") ELSE Goto(t, "brokers") /\ UNCHANGED exit
          /\ UNCHANGED shown
    /\ UNCHANGED <<clusterVars, chart, info, bounds>>

\* What getBrokersInfo finds, with the cluster it saw; no rows if kubectl fails.
ReadBrokers(t) ==
    \/ /\ "mesh-crds" \in applied
       /\ \E last \in Lasts :
             info' = [info EXCEPT ![t] = [rows |-> getBrokersInfo(last), saw |-> bindings]]
       /\ UNCHANGED faults
    \/ /\ IF "mesh-crds" \in applied THEN Fault ELSE UNCHANGED faults
       /\ info' = [info EXCEPT ![t] = None]

brokersStatus(t) ==
    /\ at[t] = "brokers"
    /\ ReadBrokers(t)
    /\ Return(t, IF info'[t] # None /\ ShortLine THEN "panic" ELSE "ok")
    /\ UNCHANGED <<clusterVars, chart, shown, bounds>>

\* Mutant: what is bound already is installed again.
BrokersInstallAgain(t) ==
    /\ at[t] = "read"
    /\ ReadBrokers(t)
    /\ IF info'[t] = None THEN Return(t, "not found")
       ELSE IF ShortLine THEN Return(t, "panic")
       ELSE IF chart[t] \notin DOMAIN info'[t].rows THEN Return(t, "not found")
       ELSE Goto(t, "helm") /\ UNCHANGED exit
    /\ UNCHANGED <<clusterVars, chart, shown, bounds>>

BrokersInstall(t) ==
    /\ at[t] = "read"
    /\ ReadBrokers(t)
    /\ IF info'[t] = None THEN Return(t, "not found")
       ELSE IF ShortLine THEN Return(t, "panic")
       ELSE IF chart[t] \notin DOMAIN info'[t].rows THEN Return(t, "not found")
       ELSE IF info'[t].rows[chart[t]].state # "Available" THEN Return(t, "already installed")
       ELSE Goto(t, "helm") /\ UNCHANGED exit
    /\ UNCHANGED <<clusterVars, chart, shown, bounds>>

\* helm refuses a release or a resource that exists; one that fails later leaves
\* the release, with or without the binding.
HelmInstall(t) ==
    LET c == chart[t]  b == ChartBinding[c]  free == c \notin releases /\ bindings[b] = None
    IN  /\ at[t] = "helm"
        /\ \/ free /\ Return(t, "ok") /\ UNCHANGED faults
              /\ releases' = releases \cup {c}
              /\ bindings' = [bindings EXCEPT ![b] = "absent"]
           \/ ~free /\ Return(t, "error") /\ UNCHANGED <<releases, bindings, faults>>
           \/ free /\ Fault /\ Return(t, "error")
              /\ releases' \in {releases, releases \cup {c}}
              /\ bindings' \in {bindings, IF c \in releases' THEN [bindings EXCEPT ![b] = "absent"]
                                          ELSE bindings}
        /\ UNCHANGED <<applied, mesh, viewVars, bounds>>

---------------------------------------------------------------------------
(* The cluster goes on                                                      *)

Change ==
    /\ changes < MaxChanges /\ changes' = changes + 1
    /\ UNCHANGED <<applied, releases, at, viewVars, exit, commands, faults>>

\* Users apply and delete BrokerBindings of their own.
Users ==
    /\ Change /\ "mesh-crds" \in applied
    /\ \E b \in Binding :
          bindings' = [bindings EXCEPT ![b] = IF bindings[b] = None THEN "absent" ELSE None]
    /\ UNCHANGED mesh

Controllers ==
    /\ Change /\ "mesh-operator" \in applied
    /\ \/ \E b \in Listed, ready \in Ready \ {"absent"} :
             bindings' = [bindings EXCEPT ![b] = ready] /\ UNCHANGED mesh
       \/ mesh # None /\ mesh' \in MeshStatus /\ UNCHANGED bindings

Next ==
    \/ \E t \in Terminal :
          \/ RunInstall(t) \/ RunMeshStart(t) \/ RunStatus(t) \/ RunMeshStatus(t)
          \/ RunBrokersStatus(t) \/ RunBrokersInstall(t)
          \/ Install(t) \/ MeshStart(t) \/ kmeshStatus(t) \/ brokersStatus(t)
          \/ BrokersInstall(t) \/ HelmInstall(t)
    \/ Users \/ Controllers

Spec == Init /\ [][Next]_vars

---------------------------------------------------------------------------
(* Properties                                                               *)

\* However often install was tried, and in how many terminals, and whatever failed,
\* nothing of K-Mesh is there before all of the eventing it needs (magefile.go 77-88).
OperatorLast ==
    applied \cap Manifest.operator # {} => Manifest.eventing \cup Manifest.channel \subseteq applied

\* A command panics only on an egress whose subscriber is a URI (magefile.go 261),
\* or a BrokerBinding no controller has marked yet (349): no pairing of classes
\* and ingresses runs past the end of the shorter list (231, 240).
OnlyKnownPanics ==
    \A t \in Terminal : exit[t] = "panic" =>
        \/ /\ shown[t] # None
           /\ \E i \in DOMAIN shown[t].ingresses :
                 "uri" \in {shown[t].ingresses[i].egresses[e] :
                              e \in DOMAIN shown[t].ingresses[i].egresses}
        \/ info[t] # None /\ \E b \in Binding : info[t].saw[b] = "absent"

\* The rows of a mesh leave out none of its classes and none of its ingresses,
\* whichever there are more of, and keep both in their order (magefile.go 214-247).
RowsComplete ==
    \A t \in Terminal : shown[t] # None =>
        LET rows == MeshRows(shown[t])
        IN  /\ {rows[r][1] : r \in DOMAIN rows} = DOMAIN ClassEntries(shown[t])
            /\ {rows[r][2] : r \in DOMAIN rows} = DOMAIN getIngressEntries(shown[t].ingresses)
            /\ \A r, s \in DOMAIN rows : r < s =>
                  rows[r][1] <= rows[s][1] /\ rows[r][2] <= rows[s][2] /\ rows[r] # rows[s]

\* The lines drawn between an ingress and its egresses join all of them, and end
\* nowhere else, for any number of egresses a mesh shows (draw.go 63-112).
DrawingConnected ==
    \A t \in Terminal : shown[t] # None =>
        \A i \in DOMAIN shown[t].ingresses :
            Connected(getIngressEntries(shown[t].ingresses)[i].topology)

\* Every BrokerBinding kubectl listed has a row, by its name, that is not "Ready to
\* install", and "Managed" only if one of that name is Ready (magefile.go 343-370).
BindingsShown ==
    \A t \in Terminal : info[t] # None =>
        LET rows == info[t].rows
            Conditions(n) == {info[t].saw[b] : b \in {o \in Binding : o.name = n}}
        IN  /\ \A b \in Binding : info[t].saw[b] # None =>
                  b.name \in DOMAIN rows /\ rows[b.name].state # "Available"
            /\ \A n \in DOMAIN rows : rows[n].state = "Managed" => "True" \in Conditions(n)
=============================================================================
