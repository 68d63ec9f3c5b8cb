------------------------- MODULE CommandLineProofs -------------------------
(***************************************************************************)
(* Proofs about the command-line tool, for any number of terminals, charts *)
(* and bindings: what is drawn for an ingress is connected, the operator   *)
(* comes after its eventing, tables leave out no binding and no row, and   *)
(* a command panics on the two known shapes of data only.                  *)
(***************************************************************************)
EXTENDS CommandLine, FiniteSetTheorems, SequenceTheorems, WellFoundedInduction, TLAPS

---------------------------------------------------------------------------
(* The drawing                                                              *)

Column == {"top", "text", "lower", "blank"}

Stroke == SUBSET {"left", "right", "up", "down"}

LEMMA LineType ==
    ASSUME NEW n \in Nat, NEW i \in 0..n - 1, NEW j \in 1..3
    PROVE  Line(n, i, j) \in [left : Column, mid : Stroke, right : Column]
<1>1. toAscii[j] \in Column
  BY DEF toAscii, Column
<1>2. \A k \in 0..n - 1 : Connector(n, k) \in [mid : Stroke, vertical : Stroke]
  BY DEF Connector, Stroke
<1>3. i > 0 => i - 1 \in 0..n - 1
  OBVIOUS
<1>4. Mid(n, i, j) \in Stroke
  BY <1>2, <1>3 DEF Mid, Stroke
<1> QED
  BY <1>1, <1>4 DEF Line, Column

LEMMA SPPrintType ==
    ASSUME NEW n \in Nat
    PROVE  /\ SPPrint(n) \in Seq([left : Column, mid : Stroke, right : Column])
           /\ Len(SPPrint(n)) = 3 * n
<1>1. 3 * n \in Nat
  OBVIOUS
<1>2. ASSUME NEW l \in 1..3 * n
      PROVE  (l - 1) \div 3 \in 0..n - 1 /\ ((l - 1) % 3) + 1 \in 1..3
  OBVIOUS
<1>3. SPPrint(n) \in [1..3 * n -> [left : Column, mid : Stroke, right : Column]]
  BY <1>2, LineType DEF SPPrint
<1>4. SPPrint(n) \in Seq([left : Column, mid : Stroke, right : Column])
  BY <1>1, <1>3, SeqDef
<1>5. DOMAIN SPPrint(n) = 1..3 * n
  BY <1>3
<1> QED
  BY <1>1, <1>4, <1>5, LenProperties

\* The three lines of child i, and of what joins them.
LEMMA LinesOfChild ==
    ASSUME NEW n \in Nat, NEW i \in 0..n - 1, NEW j \in 1..3
    PROVE  /\ 3 * i + j \in 1..3 * n
           /\ SPPrint(n)[3 * i + j] = Line(n, i, j)
<1>1. 3 * i + j \in 1..3 * n
  OBVIOUS
<1>2. (3 * i + j - 1) \div 3 = i /\ ((3 * i + j - 1) % 3) + 1 = j
  OBVIOUS
<1> QED
  BY <1>1, <1>2 DEF SPPrint

\* The parent stands beside its only child, or beside one that has a child above;
\* with more than two, one below too.
LEMMA MiddleChild ==
    ASSUME NEW n \in Nat, n > 0
    PROVE  /\ Middle(n) \in 0..n - 1
           /\ Middle(n) = 0 <=> n = 1
           /\ n > 2 => Middle(n) < n - 1
  BY DEF Middle

\* Every child but the last has a bar below it, down to the next one.
LEMMA Bars ==
    ASSUME NEW n \in Nat, NEW i \in 0..n - 1
    PROVE  /\ Connector(n, i).vertical = IF i < n - 1 THEN {"up", "down"} ELSE {}
           /\ "down" \in Connector(n, i).mid <=> i < n - 1
           /\ "up" \in Connector(n, i).mid <=> i > 0
           /\ "right" \in Connector(n, i).mid
           /\ "left" \in Connector(n, i).mid <=> i = Middle(n)
<1>0. n > 0 /\ i >= 0 /\ i \in Int
  OBVIOUS
<1>1. CASE n = 1
  <2>1. i = 0 /\ Middle(n) = 0
    BY <1>1, MiddleChild
  <2>2. Connector(n, i) = [mid |-> {"left", "right"}, vertical |-> {}]
    BY <1>1, <2>1 DEF Connector
  <2> QED
    BY <1>1, <2>1, <2>2
<1>2. CASE n > 1 /\ i = 0
  <2>1. Middle(n) # 0
    BY <1>2, MiddleChild
  <2>2. Connector(n, i) = [mid |-> {"down", "right"}, vertical |-> {"up", "down"}]
    BY <1>2 DEF Connector
  <2> QED
    BY <1>2, <2>1, <2>2
<1>3. CASE n = 2 /\ i = 1
  <2>1. Middle(n) = 1
    BY <1>3, MiddleChild
  <2>2. Connector(n, i) = [mid |-> {"left", "up", "right"}, vertical |-> {}]
    BY <1>3 DEF Connector
  <2> QED
    BY <1>3, <2>1, <2>2
<1>4. CASE n > 2 /\ i > 0 /\ i = Middle(n)
  <2>1. i < n - 1
    BY <1>4, MiddleChild
  <2>2. Connector(n, i) = [mid |-> {"left", "up", "down", "right"}, vertical |-> {"up", "down"}]
    BY <1>4 DEF Connector
  <2> QED
    BY <1>4, <2>1, <2>2
<1>5. CASE n > 2 /\ i > 0 /\ i # Middle(n) /\ i < n - 1
  <2>1. Connector(n, i) = [mid |-> {"up", "down", "right"}, vertical |-> {"up", "down"}]
    BY <1>5 DEF Connector
  <2> QED
    BY <1>5, <2>1
<1>6. CASE n > 2 /\ i > 0 /\ i = n - 1
  <2>1. i # Middle(n)
    BY <1>0, <1>6, MiddleChild
  <2>2. Connector(n, i) = [mid |-> {"up", "right"}, vertical |-> {}]
    BY <1>6, <2>1 DEF Connector
  <2> QED
    BY <1>6, <2>1, <2>2
<1> QED
  BY <1>1, <1>2, <1>3, <1>4, <1>5, <1>6

\* For every number of egresses the lines join them to the ingress, and end nowhere
\* else (draw.go 63-112).
THEOREM DrawingAlwaysConnected ==
    ASSUME NEW n \in Nat
    PROVE  Connected(SPPrint(n))
<1> DEFINE lines == SPPrint(n)
<1>1. Len(lines) = 3 * n
  BY SPPrintType
<1>2. ASSUME NEW l \in 1..3 * n
      PROVE  \E i \in 0..n - 1, j \in 1..3 : l = 3 * i + j
  <2>1. (l - 1) \div 3 \in 0..n - 1 /\ ((l - 1) % 3) + 1 \in 1..3
    OBVIOUS
  <2>2. l = 3 * ((l - 1) \div 3) + (((l - 1) % 3) + 1)
    OBVIOUS
  <2> QED
    BY <2>1, <2>2
<1>3. ASSUME NEW i \in 0..n - 1, NEW j \in 1..3
      PROVE  /\ lines[3 * i + j].left = "text" <=> i = Middle(n) /\ j = 2
             /\ lines[3 * i + j].right = "text" <=> j = 2
             /\ lines[3 * i + j].mid = Mid(n, i, j)
  <2>1. lines[3 * i + j] = Line(n, i, j)
    BY LinesOfChild
  <2>2. toAscii[j] = "text" <=> j = 2
    BY DEF toAscii
  <2> HIDE DEF lines
  <2> QED
    BY <2>1, <2>2 DEF Line
<1>4. ASSUME NEW i \in 0..n - 1, NEW j \in 1..3
      PROVE  /\ "down" \in Mid(n, i, j) <=> (j = 1 /\ i > 0) \/ (j > 1 /\ i < n - 1)
             /\ "up" \in Mid(n, i, j) <=> (j < 3 /\ i > 0) \/ (j = 3 /\ i < n - 1)
             /\ "left" \in Mid(n, i, j) <=> i = Middle(n) /\ j = 2
             /\ "right" \in Mid(n, i, j) <=> j = 2
  <2>1. CASE j = 1
    <3>1. i > 0 => i - 1 \in 0..n - 1 /\ i - 1 < n - 1
      OBVIOUS
    <3>2. Mid(n, i, j) = IF i > 0 THEN {"up", "down"} ELSE {}
      BY <2>1, <3>1, Bars DEF Mid
    <3> QED
      BY <2>1, <3>2
  <2>2. CASE j = 2
    <3>1. Mid(n, i, j) = Connector(n, i).mid
      BY <2>2 DEF Mid
    <3> QED
      BY <2>2, <3>1, Bars
  <2>3. CASE j = 3
    <3>1. Mid(n, i, j) = IF i < n - 1 THEN {"up", "down"} ELSE {}
      BY <2>3, Bars DEF Mid
    <3> QED
      BY <2>3, <3>1
  <2> QED
    BY <2>1, <2>2, <2>3
<1>5. n > 0 => Middle(n) \in 0..n - 1
  BY MiddleChild
<1> HIDE DEF lines
<1>6. ASSUME NEW l \in 1..3 * n
      PROVE  /\ "up" \in lines[l].mid <=> l > 1 /\ "down" \in lines[l - 1].mid
             /\ "down" \in lines[l].mid => l < 3 * n
             /\ "left" \in lines[l].mid <=> lines[l].left = "text"
             /\ "right" \in lines[l].mid <=> lines[l].right = "text"
  <2>1. PICK i \in 0..n - 1, j \in 1..3 : l = 3 * i + j
    BY <1>2
  <2>2. "down" \in lines[l].mid => l < 3 * n
    <3>1. "down" \in lines[l].mid <=> (j = 1 /\ i > 0) \/ (j > 1 /\ i < n - 1)
      BY <1>3, <1>4, <2>1
    <3>2. (j = 1 /\ i > 0) \/ (j > 1 /\ i < n - 1) => l < 3 * n
      BY <2>1
    <3> QED
      BY <3>1, <3>2
  <2>3. "left" \in lines[l].mid <=> lines[l].left = "text"
    BY <1>3, <1>4, <2>1
  <2>4. "right" \in lines[l].mid <=> lines[l].right = "text"
    BY <1>3, <1>4, <2>1
  <2>5. "up" \in lines[l].mid <=> l > 1 /\ "down" \in lines[l - 1].mid
    <3>1. "up" \in lines[l].mid <=> (j < 3 /\ i > 0) \/ (j = 3 /\ i < n - 1)
      BY <1>3, <1>4, <2>1
    <3>2. CASE j > 1
      <4>1. j - 1 \in 1..3 /\ l - 1 = 3 * i + (j - 1) /\ l > 1
        BY <2>1, <3>2
      <4>2. PICK k \in 1..3 : k = j - 1
        BY <4>1
      <4>3. lines[l - 1].mid = Mid(n, i, k)
        BY <1>3, <4>1, <4>2
      <4>4. "down" \in Mid(n, i, k) <=> (k = 1 /\ i > 0) \/ (k > 1 /\ i < n - 1)
        BY <1>4
      <4> QED
        BY <3>1, <3>2, <4>1, <4>2, <4>3, <4>4
    <3>3. CASE j = 1 /\ i > 0
      <4>1. i - 1 \in 0..n - 1 /\ 3 \in 1..3 /\ l - 1 = 3 * (i - 1) + 3 /\ l > 1
        BY <2>1, <3>3
      <4>2. PICK k \in 0..n - 1 : k = i - 1
        BY <4>1
      <4>3. lines[l - 1].mid = Mid(n, k, 3)
        BY <1>3, <4>1, <4>2
      <4>4. "down" \in Mid(n, k, 3) <=> k < n - 1
        BY <1>4, <4>1
      <4> QED
        BY <3>1, <3>3, <4>1, <4>2, <4>3, <4>4
    <3>4. CASE j = 1 /\ i = 0
      BY <2>1, <3>1, <3>4
    <3> QED
      BY <3>2, <3>3, <3>4
  <2> QED
    BY <2>2, <2>3, <2>4, <2>5
<1>7. 3 * n > 0 => \E l \in 1..3 * n : lines[l].left = "text"
  <2> SUFFICES ASSUME n > 0
               PROVE  \E l \in 1..3 * n : lines[l].left = "text"
    OBVIOUS
  <2>1. 3 * Middle(n) + 2 \in 1..3 * n
    BY <1>5
  <2>2. lines[3 * Middle(n) + 2].left = "text"
    BY <1>3, <1>5
  <2> QED
    BY <2>1, <2>2
<1>8. Connected(lines)
  BY <1>1, <1>6, <1>7 DEF Connected
<1> QED
  BY <1>8 DEF lines

---------------------------------------------------------------------------
(* The tables and the installs                                              *)

\* Mesh statuses a terminal has are those of the controllers, or the empty one.
Seen ==
    /\ mesh \in MeshStatus \cup {Empty, None}
    /\ shown \in [Terminal -> MeshStatus \cup {Empty, None}]

LEMMA SeenInit == Init => Seen
  BY DEF Init, Seen

LEMMA SeenNext ==
    ASSUME Seen, [Next]_vars
    PROVE  Seen'
<1> USE DEF Seen
<1>1. ASSUME NEW t \in Terminal, NEW step, Command(t, step)
      PROVE  Seen'
  BY <1>1 DEF Command, clusterVars
<1>2. ASSUME NEW t \in Terminal, Install(t)
      PROVE  Seen'
  BY <1>2 DEF Install, ApplyManifest, viewVars
<1>3. ASSUME NEW t \in Terminal, MeshStart(t)
      PROVE  Seen'
  BY <1>3 DEF MeshStart, viewVars
<1>4. ASSUME NEW t \in Terminal, kmeshStatus(t)
      PROVE  Seen'
  BY <1>4 DEF kmeshStatus, clusterVars
<1>5. ASSUME NEW t \in Terminal, brokersStatus(t) \/ BrokersInstall(t)
      PROVE  Seen'
  BY <1>5 DEF brokersStatus, BrokersInstall, clusterVars
<1>6. ASSUME NEW t \in Terminal, HelmInstall(t)
      PROVE  Seen'
  BY <1>6 DEF HelmInstall, viewVars
<1>7. CASE Users \/ Controllers
  BY <1>7 DEF Users, Controllers, Change, viewVars
<1>8. CASE UNCHANGED vars
  BY <1>8 DEF vars, clusterVars, viewVars
<1> QED
  BY <1>1, <1>2, <1>3, <1>4, <1>5, <1>6, <1>7, <1>8
     DEF Next, RunInstall, RunMeshStart, RunStatus, RunMeshStatus, RunBrokersStatus,
         RunBrokersInstall

\* Whatever the mesh, its ingresses and how many egresses they have, the lines the
\* status commands draw are connected (magefile.go 252-270, draw.go 63-112).
THEOREM DrawingsConnected == Spec => []DrawingConnected
<1>1. Spec => []Seen
  BY SeenInit, SeenNext, PTL DEF Spec
<1>2. ASSUME Seen
      PROVE  DrawingConnected
  <2> SUFFICES ASSUME NEW t \in Terminal, shown[t] # None,
                      NEW i \in DOMAIN shown[t].ingresses
               PROVE  Connected(getIngressEntries(shown[t].ingresses)[i].topology)
    BY DEF DrawingConnected
  <2>1. CASE shown[t] = Empty
    BY <2>1 DEF Empty
  <2>2. CASE shown[t] \in MeshStatus
    <3>1. shown[t].ingresses # <<>>
      OBVIOUS
    <3>2. Len(shown[t].ingresses[i].egresses) \in Nat
      BY <2>2, Statuses, LenProperties DEF Ingress
    <3>3. getIngressEntries(shown[t].ingresses)[i].topology
             = SPPrint(Len(shown[t].ingresses[i].egresses))
      BY <3>1 DEF getIngressEntries
    <3> QED
      BY <3>2, <3>3, DrawingAlwaysConnected
  <2> QED
    BY <1>2, <2>1, <2>2 DEF Seen
<1> QED
  BY <1>1, <1>2, PTL

Steps ==
    {"idle", "eventing", "channel", "operator", "start", "meshes", "mesh", "brokers", "read", "helm"}

\* What a terminal is about to apply, it has applied the manifests before.
InOrder ==
    /\ at \in [Terminal -> Steps]
    /\ \A t \in Terminal :
          /\ at[t] = "channel"  => Manifest.eventing \subseteq applied
          /\ at[t] = "operator" => Manifest.eventing \cup Manifest.channel \subseteq applied
    /\ OperatorLast

LEMMA InOrderInit == Init => InOrder
  BY DEF Init, InOrder, OperatorLast, Steps

LEMMA InOrderNext ==
    ASSUME InOrder, [Next]_vars
    PROVE  InOrder'
<1> USE DEF InOrder, OperatorLast, Steps
\* A step that applies nothing and sends no terminal on with an install.
<1>a. ASSUME UNCHANGED applied, NEW t \in Terminal, NEW step \in Steps,
             at' = [at EXCEPT ![t] = step], step \notin {"channel", "operator"}
      PROVE  InOrder'
  BY <1>a
<1>1. ASSUME NEW t \in Terminal, NEW step \in Steps, step \notin {"channel", "operator"},
             Command(t, step)
      PROVE  InOrder'
  BY <1>1, <1>a DEF Command, Goto, clusterVars
<1>2. ASSUME NEW t \in Terminal, Install(t)
      PROVE  InOrder'
  <2>1. ASSUME NEW m \in {"eventing", "channel", "operator"},
               NEW next \in {"channel", "operator", "done"},
               ApplyManifest(t, m, next),
               next = "channel" => m = "eventing", next = "operator" => m = "channel"
        PROVE  InOrder'
    <3>1. PICK part \in SUBSET Manifest[m] :
             /\ applied' = applied \cup part
             /\ \/ part = Manifest[m] /\ \E s \in {next, "idle"} \ {"done"} :
                      at' = [at EXCEPT ![t] = s]
                \/ at' = [at EXCEPT ![t] = "idle"]
      BY <2>1 DEF ApplyManifest, Goto, Return, InstallFails
    <3>2. at[t] = m
      BY <2>1 DEF ApplyManifest
    <3>3. OperatorLast'
      <4>1. CASE m = "operator"
        BY <3>1, <3>2, <4>1 DEF Manifest
      <4>2. CASE m # "operator"
        BY <2>1, <3>1, <4>2 DEF Manifest
      <4> QED
        BY <4>1, <4>2
    <3>4. at' \in [Terminal -> Steps]
      BY <3>1
    <3>5. \A u \in Terminal :
             /\ at[u]' = "channel"  => Manifest.eventing \subseteq applied'
             /\ at[u]' = "operator" => Manifest.eventing \cup Manifest.channel \subseteq applied'
      BY <2>1, <3>1, <3>2 DEF Manifest
    <3> QED
      BY <3>3, <3>4, <3>5
  <2> QED
    BY <1>2, <2>1 DEF Install
<1>3. ASSUME NEW t \in Terminal, MeshStart(t)
      PROVE  InOrder'
  BY <1>3, <1>a DEF MeshStart, Return, Goto
<1>4. ASSUME NEW t \in Terminal, kmeshStatus(t)
      PROVE  InOrder'
  BY <1>4, <1>a DEF kmeshStatus, Return, Goto, clusterVars
<1>5. ASSUME NEW t \in Terminal, brokersStatus(t)
      PROVE  InOrder'
  BY <1>5, <1>a DEF brokersStatus, Return, Goto, clusterVars
<1>6. ASSUME NEW t \in Terminal, BrokersInstall(t)
      PROVE  InOrder'
  BY <1>6, <1>a DEF BrokersInstall, Return, Goto, clusterVars
<1>7. ASSUME NEW t \in Terminal, HelmInstall(t)
      PROVE  InOrder'
  BY <1>7, <1>a DEF HelmInstall, Return, Goto
<1>8. CASE Users \/ Controllers
  BY <1>8 DEF Users, Controllers, Change
<1>9. CASE UNCHANGED vars
  BY <1>9 DEF vars, clusterVars
<1> QED
  BY <1>1, <1>2, <1>3, <1>4, <1>5, <1>6, <1>7, <1>8, <1>9
     DEF Next, RunInstall, RunMeshStart, RunStatus, RunMeshStatus, RunBrokersStatus,
         RunBrokersInstall

\* However many terminals install at once, and whatever fails half-way, nothing of
\* K-Mesh is applied before all of its eventing (magefile.go 77-88).
THEOREM OperatorComesLast == Spec => []OperatorLast
<1>1. Spec => []InOrder
  BY InOrderInit, InOrderNext, PTL DEF Spec
<1> QED
  BY <1>1, PTL DEF InOrder

\* A table of the brokers, and what it was made from.
TableOf(r) ==
    \A n \in DOMAIN r.rows :
        /\ r.rows[n].state = "Managed" => \E b \in Binding : b.name = n /\ r.saw[b] = "True"
        /\ r.rows[n].state = "Available" =>
              \A b \in Binding : b.name = n => r.saw[b] = None

Tables ==
    /\ info = [t \in Terminal |-> info[t]]
    /\ \A t \in Terminal : info[t] # None =>
          /\ \A b \in Binding : info[t].saw[b] # None => b.name \in DOMAIN info[t].rows
          /\ TableOf(info[t])

LEMMA TablesInit == Init => Tables
  BY DEF Init, Tables

LEMMA TableRead ==
    ASSUME NEW last \in Lasts
    PROVE  LET rows == getBrokersInfo(last)
           IN  /\ \A b \in Binding : bindings[b] # None => b.name \in DOMAIN rows
               /\ TableOf([rows |-> rows, saw |-> bindings])
<1> DEFINE rows == getBrokersInfo(last)
<1>1. /\ DOMAIN last = {b.name : b \in Listed}
      /\ \A n \in DOMAIN last : last[n] \in Listed /\ last[n].name = n
  BY DEF Lasts
<1>2. DOMAIN rows = Chart \cup DOMAIN last
  BY DEF getBrokersInfo
<1>3. \A b \in Binding : bindings[b] # None => b.name \in DOMAIN last
  BY <1>1 DEF Listed
<1>4. ASSUME NEW n \in Chart \cup DOMAIN last, n \notin DOMAIN last
      PROVE  rows[n].state = "Available"
  BY <1>4 DEF getBrokersInfo, chartInfo
<1>5. ASSUME NEW n \in DOMAIN last
      PROVE  /\ rows[n].state # "Available"
             /\ rows[n].state = "Managed" => bindings[last[n]] = "True"
  <2>1. rows[n] \in {bindingInfo(last[n], bindings[last[n]]),
                     [bindingInfo(last[n], bindings[last[n]]) EXCEPT
                         !.state = IF bindings[last[n]] = "True" THEN "Managed"
                                   ELSE "ManagedNotReady"]}
    BY <1>5 DEF getBrokersInfo
  <2> HIDE DEF rows
  <2> QED
    BY <2>1 DEF bindingInfo
<1> HIDE DEF rows
<1>6. ASSUME NEW n \in DOMAIN rows
      PROVE  /\ rows[n].state = "Managed" => \E b \in Binding : b.name = n /\ bindings[b] = "True"
             /\ rows[n].state = "Available" => \A b \in Binding : b.name = n => bindings[b] = None
  BY <1>1, <1>2, <1>3, <1>4, <1>5, <1>6 DEF Listed
<1> QED
  BY <1>2, <1>3, <1>6 DEF TableOf, rows

LEMMA TablesNext ==
    ASSUME Tables, [Next]_vars
    PROVE  Tables'
<1>1. ASSUME NEW t \in Terminal, NEW step, Command(t, step)
      PROVE  Tables'
  BY <1>1 DEF Command, Tables, TableOf
<1>2. ASSUME NEW t \in Terminal, ReadBrokers(t)
      PROVE  Tables'
  <2>1. CASE info' = [info EXCEPT ![t] = None]
    <3>1. \A u \in Terminal : info'[u] = IF u = t THEN None ELSE info[u]
      BY <2>1 DEF Tables
    <3>2. info' = [u \in Terminal |-> info'[u]]
      BY <2>1 DEF Tables
    <3>3. \A u \in Terminal : info'[u] # None => info'[u] = info[u]
      BY <3>1
    <3> QED
      BY <3>2, <3>3 DEF Tables, TableOf
  <2>2. ASSUME NEW last \in Lasts,
               info' = [info EXCEPT ![t] = [rows |-> getBrokersInfo(last), saw |-> bindings]]
        PROVE  Tables'
    <3> DEFINE r == [rows |-> getBrokersInfo(last), saw |-> bindings]
    <3>1. /\ \A b \in Binding : r.saw[b] # None => b.name \in DOMAIN r.rows
          /\ TableOf(r)
      BY <2>2, TableRead
    <3>2. info' = [info EXCEPT ![t] = r]
      BY <2>2
    <3> HIDE DEF r
    <3>3. \A u \in Terminal : info'[u] = IF u = t THEN r ELSE info[u]
      BY <3>2 DEF Tables
    <3> QED
      BY <3>1, <3>2, <3>3 DEF Tables, TableOf
  <2> QED
    BY <1>2, <2>1, <2>2 DEF ReadBrokers
<1>3. CASE UNCHANGED info
  BY <1>3 DEF Tables, TableOf
<1>4. ASSUME NEW t \in Terminal,
             Install(t) \/ MeshStart(t) \/ kmeshStatus(t) \/ HelmInstall(t)
      PROVE  UNCHANGED info
  BY <1>4 DEF Install, ApplyManifest, MeshStart, kmeshStatus, HelmInstall, viewVars
<1>5. ASSUME Users \/ Controllers \/ UNCHANGED vars
      PROVE  UNCHANGED info
  BY <1>5 DEF Users, Controllers, Change, vars, viewVars
<1>6. ASSUME NEW t \in Terminal, brokersStatus(t) \/ BrokersInstall(t)
      PROVE  ReadBrokers(t)
  BY <1>6 DEF brokersStatus, BrokersInstall
<1> QED
  BY <1>1, <1>2, <1>3, <1>4, <1>5, <1>6
     DEF Next, RunInstall, RunMeshStart, RunStatus, RunMeshStatus, RunBrokersStatus,
         RunBrokersInstall

\* Whatever charts and bindings there are, each binding that kubectl listed has its
\* name in the table, never as ready to install, and as managed only if one of that
\* name is Ready (magefile.go 343-370).
THEOREM BindingsAlwaysShown == Spec => []BindingsShown
<1>1. Spec => []Tables
  BY TablesInit, TablesNext, PTL DEF Spec
<1>2. Tables => BindingsShown
  BY DEF Tables, TableOf, BindingsShown
<1> QED
  BY <1>1, <1>2, PTL

---------------------------------------------------------------------------
(* The cursors                                                              *)

\* The least element of a set of positive numbers.
LEMMA Least ==
    ASSUME NEW n \in Nat, NEW T \in SUBSET (1..n), T # {}
    PROVE  \E m \in T : \A k \in T : ~(k < m)
<1> DEFINE R == OpToRel(<, Nat)
<1>1. T \subseteq Nat
  OBVIOUS
<1>2. PICK m \in T : \A k \in T : <<k, m>> \notin R
  <2>1. IsWellFoundedOn(R, Nat)
    BY NatLessThanWellFounded
  <2> HIDE DEF R
  <2> QED
    BY <1>1, <2>1, WFMin
<1>3. ASSUME NEW k \in T, k < m
      PROVE  <<k, m>> \in R
  BY <1>1, <1>3 DEF OpToRel
<1> QED
  BY <1>2, <1>3

\* A cursor advances with the rows up to the end of its list, and stays there.
LEMMA CursorValue ==
    ASSUME NEW length \in Nat, length > 0, NEW steps \in Nat
    PROVE  /\ DOMAIN Cursor(length, steps) = 1..steps
           /\ \A r \in 1..steps : Cursor(length, steps)[r] = IF r <= length THEN r ELSE length
<1> DEFINE Step(c) == [r \in 1..steps |-> IF r = 1 THEN 1
                                          ELSE IF c[r - 1] < length THEN c[r - 1] + 1 ELSE c[r - 1]]
           w == [r \in 1..steps |-> IF r <= length THEN r ELSE length]
           cursor == Cursor(length, steps)
<1>1. cursor = CHOOSE c : c = Step(c)
  BY Zenon DEF Cursor
<1>2. w = Step(w)
  OBVIOUS
<1>3. cursor = Step(cursor)
  <2> HIDE DEF Step, w, cursor
  <2> QED
    BY <1>1, <1>2
<1> HIDE DEF cursor
<1>4. DOMAIN cursor = 1..steps
  BY <1>3
<1> DEFINE T == {r \in 1..steps : cursor[r] # w[r]}
<1>5. T = {}
  <2> SUFFICES ASSUME T # {}
               PROVE  FALSE
    OBVIOUS
  <2>1. PICK m \in T : \A k \in T : ~(k < m)
    BY Least
  <2>2. cursor[m] = IF m = 1 THEN 1 ELSE IF cursor[m - 1] < length THEN cursor[m - 1] + 1
                                         ELSE cursor[m - 1]
    BY <1>3
  <2>3. CASE m = 1
    BY <2>2, <2>3
  <2>4. CASE m > 1
    <3>1. m - 1 \in 1..steps /\ m - 1 \notin T
      BY <2>1, <2>4
    <3>2. cursor[m - 1] = w[m - 1]
      BY <3>1
    <3> QED
      BY <2>2, <2>4, <3>1, <3>2
  <2> QED
    BY <2>3, <2>4
<1> QED
  BY <1>4, <1>5 DEF cursor

\* Row r pairs two indices, each the least of r and the length of its list.
LEMMA RowsPaired ==
    ASSUME NEW classes, NEW ingresses, NEW c \in Nat \ {0}, NEW i \in Nat \ {0},
           Len(classes) = c, Len(ingresses) = i
    PROVE  LET rows == newMeshTableRow(classes, ingresses)
               long == IF i > c THEN i ELSE c
           IN  /\ DOMAIN rows = 1..long
               /\ \A r \in 1..long : rows[r] = <<IF r <= c THEN r ELSE c, IF r <= i THEN r ELSE i>>
<1>1. CASE i > c
  <2>1. newMeshTableRow(classes, ingresses) = [r \in 1..i |-> <<Cursor(c, i)[r], r>>]
    BY <1>1 DEF newMeshTableRow
  <2>2. \A r \in 1..i : Cursor(c, i)[r] = IF r <= c THEN r ELSE c
    BY CursorValue
  <2> QED
    BY <1>1, <2>1, <2>2
<1>2. CASE ~(i > c)
  <2>1. newMeshTableRow(classes, ingresses) = [r \in 1..c |-> <<r, Cursor(i, c)[r]>>]
    BY <1>2 DEF newMeshTableRow
  <2>2. \A r \in 1..c : Cursor(i, c)[r] = IF r <= i THEN r ELSE i
    BY CursorValue
  <2> QED
    BY <1>2, <2>1, <2>2
<1> QED
  BY <1>1, <1>2

\* The lists of a mesh a terminal shows, with the entry "-" of an empty one.
LEMMA Entries ==
    ASSUME NEW s \in MeshStatus \cup {Empty}
    PROVE  /\ Len(ClassEntries(s)) \in Nat \ {0}
           /\ DOMAIN ClassEntries(s) = 1..Len(ClassEntries(s))
           /\ Len(getIngressEntries(s.ingresses)) \in Nat \ {0}
           /\ DOMAIN getIngressEntries(s.ingresses) = 1..Len(getIngressEntries(s.ingresses))
<1>1. s.classes \in Seq(STRING) /\ s.ingresses \in Seq(Ingress)
  <2>1. CASE s \in MeshStatus
    BY <2>1, Statuses
  <2>2. CASE s = Empty
    <3>1. s.classes = <<>> /\ s.ingresses = <<>>
      BY <2>2 DEF Empty
    <3> QED
      BY <3>1
  <2> QED
    BY <2>1, <2>2
<1>2. /\ Len(ClassEntries(s)) \in Nat \ {0}
      /\ DOMAIN ClassEntries(s) = 1..Len(ClassEntries(s))
  <2>1. CASE s.classes = <<>>
    BY <2>1 DEF ClassEntries
  <2>2. CASE s.classes # <<>>
    <3>1. Len(s.classes) \in Nat \ {0} /\ DOMAIN s.classes = 1..Len(s.classes)
      BY <1>1, <2>2
    <3> QED
      BY <2>2, <3>1 DEF ClassEntries
  <2> QED
    BY <2>1, <2>2
<1>3. CASE s.ingresses = <<>>
  BY <1>2, <1>3 DEF getIngressEntries
<1>4. CASE s.ingresses # <<>>
  <2> DEFINE n == Len(s.ingresses)
             e == getIngressEntries(s.ingresses)
  <2>1. n \in Nat \ {0} /\ DOMAIN s.ingresses = 1..n
    BY <1>1, <1>4
  <2>2. e = [k \in 1..n |-> [name |-> s.ingresses[k].name,
                             topology |-> SPPrint(Len(s.ingresses[k].egresses))]]
    BY <1>4, <2>1 DEF getIngressEntries
  <2> HIDE DEF n
  <2>3. Len(e) = n /\ DOMAIN e = 1..n
    BY <2>1, <2>2
  <2> QED
    BY <1>2, <2>1, <2>3
<1> QED
  BY <1>3, <1>4

\* Whatever classes and ingresses a mesh has, its rows leave none out and keep
\* both in their order (magefile.go 214-247).
THEOREM NoRowIsMissing == Spec => []RowsComplete
<1>1. Spec => []Seen
  BY SeenInit, SeenNext, PTL DEF Spec
<1>2. ASSUME Seen
      PROVE  RowsComplete
  <2> SUFFICES ASSUME NEW t \in Terminal, shown[t] # None
               PROVE  LET rows == MeshRows(shown[t])
                      IN  /\ {rows[r][1] : r \in DOMAIN rows} = DOMAIN ClassEntries(shown[t])
                          /\ {rows[r][2] : r \in DOMAIN rows}
                                = DOMAIN getIngressEntries(shown[t].ingresses)
                          /\ \A r, s \in DOMAIN rows : r < s =>
                                rows[r][1] <= rows[s][1] /\ rows[r][2] <= rows[s][2] /\ rows[r] # rows[s]
    BY DEF RowsComplete
  <2> DEFINE classes == ClassEntries(shown[t])
             ingresses == getIngressEntries(shown[t].ingresses)
             c == Len(classes)
             i == Len(ingresses)
             rows == MeshRows(shown[t])
             long == IF i > c THEN i ELSE c
  <2>1. shown[t] \in MeshStatus \cup {Empty}
    BY <1>2 DEF Seen
  <2>2. c \in Nat \ {0} /\ i \in Nat \ {0} /\ DOMAIN classes = 1..c /\ DOMAIN ingresses = 1..i
    BY <2>1, Entries
  <2>3. rows = newMeshTableRow(classes, ingresses)
    BY DEF MeshRows
  <2> HIDE DEF classes, ingresses, rows
  <2>4. /\ DOMAIN rows = 1..long
        /\ \A r \in 1..long : rows[r] = <<IF r <= c THEN r ELSE c, IF r <= i THEN r ELSE i>>
    BY <2>2, <2>3, RowsPaired
  <2> HIDE DEF c, i
  <2>5. \A r \in 1..long : /\ rows[r][1] = IF r <= c THEN r ELSE c
                           /\ rows[r][2] = IF r <= i THEN r ELSE i
    BY <2>4
  <2>6. {rows[r][1] : r \in DOMAIN rows} = 1..c
    BY <2>2, <2>4, <2>5
  <2>7. {rows[r][2] : r \in DOMAIN rows} = 1..i
    BY <2>2, <2>4, <2>5
  <2>8. ASSUME NEW r \in DOMAIN rows, NEW s \in DOMAIN rows, r < s
        PROVE  rows[r][1] <= rows[s][1] /\ rows[r][2] <= rows[s][2] /\ rows[r] # rows[s]
    BY <2>2, <2>4, <2>5, <2>8
  <2> QED
    BY <2>2, <2>6, <2>7, <2>8 DEF classes, ingresses, rows
<1> QED
  BY <1>1, <1>2, PTL

\* A panicked command had read one of the two shapes of data.
KnownPanic(t) ==
    \/ /\ shown[t] # None
       /\ \E i \in DOMAIN shown[t].ingresses :
             "uri" \in {shown[t].ingresses[i].egresses[e] :
                          e \in DOMAIN shown[t].ingresses[i].egresses}
    \/ info[t] # None /\ \E b \in Binding : info[t].saw[b] = "absent"

Panics ==
    /\ exit = [t \in Terminal |-> exit[t]]
    /\ info = [t \in Terminal |-> info[t]]
    /\ at \in [Terminal -> Steps]
    /\ \A t \in Terminal : at[t] # "idle" => exit[t] = "none"
    /\ \A t \in Terminal : exit[t] = "panic" => KnownPanic(t)

LEMMA PanicsInit == Init => Panics
  BY DEF Init, Panics, Steps

\* Where no index runs past a list, an egress without a reference is the cause.
LEMMA MeshPanicKnown ==
    ASSUME Seen, mesh # None, MeshPanics(mesh)
    PROVE  \E i \in DOMAIN mesh.ingresses :
              "uri" \in {mesh.ingresses[i].egresses[e] : e \in DOMAIN mesh.ingresses[i].egresses}
<1> DEFINE classes == ClassEntries(mesh)
           ingresses == getIngressEntries(mesh.ingresses)
           c == Len(classes)
           i == Len(ingresses)
           rows == MeshRows(mesh)
           long == IF i > c THEN i ELSE c
<1>1. mesh \in MeshStatus \cup {Empty}
  BY DEF Seen
<1>2. c \in Nat \ {0} /\ i \in Nat \ {0} /\ DOMAIN classes = 1..c /\ DOMAIN ingresses = 1..i
  BY <1>1, Entries
<1>3. rows = newMeshTableRow(classes, ingresses)
  BY DEF MeshRows
<1> HIDE DEF classes, ingresses, rows
<1>4. /\ DOMAIN rows = 1..long
      /\ \A r \in 1..long : rows[r] = <<IF r <= c THEN r ELSE c, IF r <= i THEN r ELSE i>>
  BY <1>2, <1>3, RowsPaired
<1> HIDE DEF c, i
<1>5. \A r \in DOMAIN rows : rows[r][1] \in DOMAIN classes /\ rows[r][2] \in DOMAIN ingresses
  BY <1>2, <1>4
<1> QED
  BY <1>5 DEF MeshPanics, classes, ingresses, rows

LEMMA PanicsNext ==
    ASSUME Seen, Panics, [Next]_vars
    PROVE  Panics'
<1> USE DEF Panics, Steps
<1>b. ASSUME UNCHANGED <<info, shown>>
      PROVE  \A u \in Terminal : KnownPanic(u) => KnownPanic(u)'
  BY <1>b DEF KnownPanic
\* What a terminal has read stays, until it runs another command.
<1>a. ASSUME NEW t \in Terminal, NEW step \in Steps, at' = [at EXCEPT ![t] = step],
             NEW how, exit' = [exit EXCEPT ![t] = how], step # "idle" => how = "none",
             \A u \in Terminal \ {t} : info'[u] = info[u] /\ shown'[u] = shown[u],
             info' = [u \in Terminal |-> info'[u]],
             how = "panic" => KnownPanic(t)'
      PROVE  Panics'
  <2>1. exit' = [u \in Terminal |-> IF u = t THEN how ELSE exit[u]]
    BY <1>a
  <2>2. at' \in [Terminal -> Steps]
    BY <1>a
  <2>3. \A u \in Terminal \ {t} : KnownPanic(u) => KnownPanic(u)'
    BY <1>a DEF KnownPanic
  <2>4. at' = [u \in Terminal |-> IF u = t THEN step ELSE at[u]]
    BY <1>a
  <2> QED
    BY <1>a, <2>1, <2>2, <2>3, <2>4
<1>1. ASSUME NEW t \in Terminal, NEW step \in Steps, Command(t, step)
      PROVE  Panics'
  BY <1>1, <1>a DEF Command, Goto, Seen
<1>2. ASSUME UNCHANGED <<info, shown>>, NEW t \in Terminal,
             \/ at[t] # "idle" /\ UNCHANGED exit /\ \E step \in Steps : Goto(t, step)
             \/ \E how : how # "panic" /\ Return(t, how)
      PROVE  Panics'
  <2>1. ASSUME NEW step \in Steps, at[t] # "idle", UNCHANGED exit, Goto(t, step)
        PROVE  Panics'
    BY <1>2, <1>b, <2>1 DEF Goto
  <2>2. ASSUME NEW how, how # "panic", Return(t, how)
        PROVE  Panics'
    <3>1. /\ \A u \in Terminal \ {t} : info'[u] = info[u] /\ shown'[u] = shown[u]
          /\ info' = [u \in Terminal |-> info'[u]]
      BY <1>2
    <3>2. at' = [at EXCEPT ![t] = "idle"] /\ exit' = [exit EXCEPT ![t] = how]
      BY <2>2 DEF Return, Goto
    <3> QED
      BY <1>a, <2>2, <3>1, <3>2
  <2> QED
    BY <1>2, <2>1, <2>2
<1>3. ASSUME NEW t \in Terminal, Install(t)
      PROVE  Panics'
  BY <1>2, <1>3 DEF Install, ApplyManifest, InstallFails, viewVars
<1>4. ASSUME NEW t \in Terminal, MeshStart(t) \/ HelmInstall(t)
      PROVE  Panics'
  BY <1>2, <1>4 DEF MeshStart, HelmInstall, viewVars
<1>5. ASSUME NEW t \in Terminal, kmeshStatus(t)
      PROVE  Panics'
  <2>1. shown' = [shown EXCEPT ![t] = mesh] \/ UNCHANGED shown
    BY <1>5 DEF kmeshStatus
  <2>2. UNCHANGED info
    BY <1>5 DEF kmeshStatus
  <2>3. CASE /\ mesh # None /\ MeshPanics(mesh) /\ Return(t, "panic")
             /\ shown' = [shown EXCEPT ![t] = mesh]
    <3>1. shown'[t] = mesh /\ \A u \in Terminal \ {t} : shown'[u] = shown[u]
      BY <2>3 DEF Seen
    <3>2. \E i \in DOMAIN mesh.ingresses :
             "uri" \in {mesh.ingresses[i].egresses[e] : e \in DOMAIN mesh.ingresses[i].egresses}
      BY <2>3, MeshPanicKnown
    <3>3. KnownPanic(t)'
      BY <2>3, <3>1, <3>2 DEF KnownPanic
    <3> QED
      BY <1>a, <2>2, <2>3, <3>1, <3>3 DEF Return, Goto
  <2>4. ASSUME NEW how, how # "panic", Return(t, how)
        PROVE  Panics'
    <3>1. \A u \in Terminal \ {t} : shown'[u] = shown[u]
      BY <2>1 DEF Seen
    <3> QED
      BY <1>a, <2>2, <2>4, <3>1 DEF Return, Goto
  <2>5. CASE Goto(t, "brokers") /\ UNCHANGED exit
    <3>1. \A u \in Terminal \ {t} : shown'[u] = shown[u]
      BY <2>1 DEF Seen
    <3>2. exit[t] = "none" /\ exit' = [exit EXCEPT ![t] = "none"]
      BY <1>5, <2>5 DEF kmeshStatus
    <3>3. /\ \A u \in Terminal \ {t} : info'[u] = info[u] /\ shown'[u] = shown[u]
          /\ info' = [u \in Terminal |-> info'[u]]
          /\ at' = [at EXCEPT ![t] = "brokers"]
      BY <2>2, <2>5, <3>1 DEF Goto
    <3> QED
      BY <1>a, <3>2, <3>3
  <2> QED
    BY <1>5, <2>3, <2>4, <2>5 DEF kmeshStatus
<1>6. ASSUME NEW t \in Terminal, brokersStatus(t) \/ BrokersInstall(t)
      PROVE  Panics'
  <2>1. /\ UNCHANGED shown
        /\ info' = [u \in Terminal |-> info'[u]]
        /\ \A u \in Terminal \ {t} : info'[u] = info[u]
        /\ info'[t] # None => info'[t].saw = bindings
    <3>1. UNCHANGED shown /\ ReadBrokers(t)
      BY <1>6 DEF brokersStatus, BrokersInstall
    <3>2. PICK r : info' = [info EXCEPT ![t] = r] /\ (r # None => r.saw = bindings)
      BY <3>1 DEF ReadBrokers
    <3> QED
      BY <3>1, <3>2
  <2>2. ASSUME info'[t] # None, ShortLine
        PROVE  KnownPanic(t)'
    BY <2>1, <2>2 DEF ShortLine, Listed, KnownPanic
  <2>3. ASSUME NEW how, Return(t, how), how = "panic" => info'[t] # None /\ ShortLine
        PROVE  Panics'
    BY <1>a, <2>1, <2>2, <2>3 DEF Return, Goto
  <2>4. CASE Goto(t, "helm") /\ UNCHANGED exit /\ at[t] # "idle"
    <3>1. exit' = [exit EXCEPT ![t] = "none"]
      BY <2>4
    <3> QED
      BY <1>a, <2>1, <2>4, <3>1 DEF Goto
  <2>5. CASE brokersStatus(t)
    <3>1. Return(t, IF info'[t] # None /\ ShortLine THEN "panic" ELSE "ok")
      BY <2>5 DEF brokersStatus
    <3> QED
      BY <2>3, <3>1
  <2>6. CASE BrokersInstall(t)
    <3>1. \/ \E how \in {"not found", "already installed"} : Return(t, how)
          \/ info'[t] # None /\ ShortLine /\ Return(t, "panic")
          \/ Goto(t, "helm") /\ UNCHANGED exit /\ at[t] # "idle"
      BY <2>6 DEF BrokersInstall
    <3> QED
      BY <2>3, <2>4, <3>1
  <2> QED
    BY <1>6, <2>5, <2>6
<1>7. CASE Users \/ Controllers \/ UNCHANGED vars
  <2>1. UNCHANGED <<at, exit, info, shown>>
    BY <1>7 DEF Users, Controllers, Change, vars, viewVars
  <2> QED
    BY <1>b, <2>1
<1> QED
  BY <1>1, <1>3, <1>4, <1>5, <1>6, <1>7
     DEF Next, RunInstall, RunMeshStart, RunStatus, RunMeshStatus, RunBrokersStatus,
         RunBrokersInstall

\* Whatever mesh and bindings the cluster has, a command panics only on the two
\* known shapes of data, never on an index past a list (magefile.go 231, 240, 261, 349).
THEOREM PanicsAreKnown == Spec => []OnlyKnownPanics
<1>1. Spec => []Seen
  BY SeenInit, SeenNext, PTL DEF Spec
<1>2. Spec => []Panics
  BY <1>1, PanicsInit, PanicsNext, PTL DEF Spec
<1> QED
  <2>1. Panics => OnlyKnownPanics
    BY DEF Panics, KnownPanic, OnlyKnownPanics
  <2> QED
    BY <1>2, <2>1, PTL

---------------------------------------------------------------------------
(* Types                                                                    *)

Typed ==
    /\ TypeOK
    /\ info = [t \in Terminal |-> info[t]]

RowsTyped(r) ==
    /\ DOMAIN r.rows \subseteq Names
    /\ \A n \in DOMAIN r.rows : r.rows[n].state \in ComponentState

ProgramSteps == {"idle", "eventing", "channel", "operator", "start", "meshes", "mesh",
                 "brokers", "read", "helm"}

\* What is ready to install is a chart.
LEMMA RowsRead ==
    ASSUME NEW last \in Lasts
    PROVE  /\ RowsTyped([rows |-> getBrokersInfo(last), saw |-> bindings])
           /\ \A n \in DOMAIN getBrokersInfo(last) :
                 getBrokersInfo(last)[n].state = "Available" => n \in Chart
<1> DEFINE rows == getBrokersInfo(last)
<1>1. /\ DOMAIN last = {b.name : b \in Listed}
      /\ \A n \in DOMAIN last : last[n] \in Listed
  BY DEF Lasts
<1>2. DOMAIN rows = Chart \cup DOMAIN last /\ DOMAIN rows \subseteq Names
  BY <1>1 DEF getBrokersInfo, Names, Listed
<1>3. ASSUME NEW n \in Chart \cup DOMAIN last, n \notin DOMAIN last
      PROVE  rows[n].state = "Available" /\ n \in Chart
  BY <1>3 DEF getBrokersInfo, chartInfo
<1>4. ASSUME NEW n \in DOMAIN last
      PROVE  rows[n].state \in {"Managed", "ManagedNotReady", "Bound"}
  <2>1. rows[n] \in {bindingInfo(last[n], bindings[last[n]]),
                     [bindingInfo(last[n], bindings[last[n]]) EXCEPT
                         !.state = IF bindings[last[n]] = "True" THEN "Managed"
                                   ELSE "ManagedNotReady"]}
    BY <1>4 DEF getBrokersInfo
  <2> HIDE DEF rows
  <2> QED
    BY <2>1 DEF bindingInfo
<1> HIDE DEF rows
<1>5. \A n \in DOMAIN rows :
         rows[n].state \in ComponentState /\ (rows[n].state = "Available" => n \in Chart)
  BY <1>2, <1>3, <1>4 DEF ComponentState
<1> QED
  BY <1>2, <1>5 DEF RowsTyped, rows

LEMMA TypedInit == Init => Typed
  BY DEF Init, Typed, TypeOK, Exits

\* A terminal goes on, to an end or to a step that is not the call of helm.
LEMMA TypedGoto ==
    ASSUME Typed, NEW t \in Terminal, NEW step \in ProgramSteps, Goto(t, step),
           step = "helm" => chart[t] \in Chart
    PROVE  /\ at' \in [Terminal -> ProgramSteps]
           /\ \A u \in Terminal : at'[u] = "helm" => chart[u] \in Chart
  BY DEF Typed, TypeOK, Goto, ProgramSteps

LEMMA TypedExit ==
    ASSUME Typed, NEW t \in Terminal, NEW how \in Exits
    PROVE  [exit EXCEPT ![t] = how] \in [Terminal -> Exits]
  BY DEF Typed, TypeOK

LEMMA TypedCommand ==
    ASSUME Typed, NEW t \in Terminal, NEW step \in ProgramSteps \ {"helm"}, Command(t, step),
           NEW c \in Names \cup {"unknown"}, chart' \in {chart, [chart EXCEPT ![t] = c]}
    PROVE  Typed'
<1>1. at' = [u \in Terminal |-> IF u = t THEN step ELSE at[u]]
  BY DEF Command, Goto, Typed, TypeOK
<1>2. chart' \in [Terminal -> Names \cup {"unknown", None}] /\ \A u \in Terminal \ {t} : chart'[u] = chart[u]
  BY DEF Typed, TypeOK
<1>3. \A u \in Terminal : at'[u] = "helm" => chart'[u] \in Chart
  BY <1>1, <1>2 DEF Typed, TypeOK
<1>4. at' \in [Terminal -> ProgramSteps]
  BY <1>1 DEF Typed, TypeOK, ProgramSteps
<1>5. exit' \in [Terminal -> Exits] /\ shown' \in [Terminal -> MeshStatus \cup {Empty, None}]
  BY TypedExit DEF Command, Typed, TypeOK, Exits
<1>6. /\ info' = [u \in Terminal |-> info'[u]]
      /\ \A u \in Terminal : info'[u] # None => info'[u] = info[u]
  BY DEF Command, Typed
<1>7. UNCHANGED clusterVars
  BY DEF Command
<1> QED
  BY <1>2, <1>3, <1>4, <1>5, <1>6, <1>7
     DEF Typed, TypeOK, clusterVars, ProgramSteps, Names, Exits, ComponentState, Manifest, Ready, Empty

LEMMA TypedReturn ==
    ASSUME Typed, NEW t \in Terminal, NEW how \in Exits, Return(t, how)
    PROVE  /\ at' \in [Terminal -> ProgramSteps] /\ exit' \in [Terminal -> Exits]
           /\ \A u \in Terminal : at'[u] = "helm" => chart[u] \in Chart
  BY TypedGoto, TypedExit DEF Return, ProgramSteps

\* A step of a terminal that leaves the table of the brokers and the argument alone.
LEMMA TypedStep ==
    ASSUME Typed, NEW t \in Terminal, UNCHANGED <<chart, info>>,
           \/ \E how \in Exits : Return(t, how)
           \/ \E step \in ProgramSteps \ {"helm"} : Goto(t, step) /\ UNCHANGED exit,
           applied' \subseteq UNION {Manifest[m] : m \in DOMAIN Manifest},
           mesh' \in MeshStatus \cup {Empty, None}, bindings' \in [Binding -> Ready \cup {None}],
           releases' \subseteq Chart, shown' \in [Terminal -> MeshStatus \cup {Empty, None}]
    PROVE  Typed'
<1>1. /\ at' \in [Terminal -> ProgramSteps] /\ exit' \in [Terminal -> Exits]
      /\ \A u \in Terminal : at'[u] = "helm" => chart[u] \in Chart
  BY TypedGoto, TypedReturn DEF Typed, TypeOK
<1> QED
  BY <1>1
     DEF Typed, TypeOK, ProgramSteps, Names, Exits, ComponentState, Manifest, Ready, Empty

LEMMA TypedRead ==
    ASSUME Typed, NEW t \in Terminal, ReadBrokers(t)
    PROVE  /\ info' = [u \in Terminal |-> info'[u]]
           /\ \A u \in Terminal : info'[u] # None => RowsTyped(info'[u])
           /\ info'[t] # None =>
                 \A n \in DOMAIN info'[t].rows :
                    info'[t].rows[n].state = "Available" => n \in Chart
<1>0. \A u \in Terminal : info[u] # None => RowsTyped(info[u])
  BY DEF Typed, TypeOK, RowsTyped
<1>1. CASE info' = [info EXCEPT ![t] = None]
  BY <1>0, <1>1 DEF Typed
<1>2. ASSUME NEW last \in Lasts,
             info' = [info EXCEPT ![t] = [rows |-> getBrokersInfo(last), saw |-> bindings]]
      PROVE  /\ info' = [u \in Terminal |-> info'[u]]
             /\ \A u \in Terminal : info'[u] # None => RowsTyped(info'[u])
             /\ \A n \in DOMAIN info'[t].rows :
                   info'[t].rows[n].state = "Available" => n \in Chart
  <2> DEFINE r == [rows |-> getBrokersInfo(last), saw |-> bindings]
  <2>1. /\ RowsTyped(r)
        /\ \A n \in DOMAIN r.rows : r.rows[n].state = "Available" => n \in Chart
    BY RowsRead
  <2>2. info' = [info EXCEPT ![t] = r]
    BY <1>2
  <2> HIDE DEF r
  <2>3. info' = [u \in Terminal |-> IF u = t THEN r ELSE info[u]]
    BY <2>2 DEF Typed
  <2> QED
    BY <1>0, <2>1, <2>3
<1> QED
  BY <1>1, <1>2 DEF ReadBrokers

LEMMA TypedBrokers ==
    ASSUME Typed, NEW t \in Terminal, brokersStatus(t) \/ BrokersInstall(t)
    PROVE  Typed'
<1>1. ReadBrokers(t) /\ UNCHANGED <<clusterVars, chart, shown>>
  BY DEF brokersStatus, BrokersInstall
<1>2. /\ info' = [u \in Terminal |-> info'[u]]
      /\ \A u \in Terminal : info'[u] # None => RowsTyped(info'[u])
  BY <1>1, TypedRead
<1>3. /\ at' \in [Terminal -> ProgramSteps] /\ exit' \in [Terminal -> Exits]
      /\ \A u \in Terminal : at'[u] = "helm" => chart[u] \in Chart
  <2>1. CASE \E how \in Exits : Return(t, how)
    BY <2>1, TypedReturn
  <2>2. CASE Goto(t, "helm") /\ UNCHANGED exit /\ chart[t] \in Chart
    BY <2>2, TypedGoto DEF ProgramSteps, Typed, TypeOK
  <2>3. CASE brokersStatus(t)
    BY <2>1, <2>3 DEF brokersStatus, Exits
  <2>4. CASE BrokersInstall(t)
    <3>1. info'[t] # None /\ chart[t] \in DOMAIN info'[t].rows
             /\ info'[t].rows[chart[t]].state = "Available" => chart[t] \in Chart
      BY <1>1, TypedRead
    <3> QED
      BY <2>1, <2>2, <2>4, <3>1 DEF BrokersInstall, Exits
  <2> QED
    BY <2>3, <2>4
<1> QED
  BY <1>1, <1>2, <1>3
     DEF Typed, TypeOK, RowsTyped, clusterVars, ProgramSteps, Names, Exits, ComponentState,
         Manifest, Ready, Empty

LEMMA TypedInstall ==
    ASSUME Typed, NEW t \in Terminal, Install(t)
    PROVE  Typed'
<1>1. PICK m \in {"eventing", "channel", "operator"}, next \in {"channel", "operator", "done"} :
         ApplyManifest(t, m, next)
  BY DEF Install
<1>2. \A part \in SUBSET Manifest[m] :
         applied \cup part \subseteq UNION {Manifest[o] : o \in DOMAIN Manifest}
  BY DEF Typed, TypeOK, Manifest
<1>3. applied' \subseteq UNION {Manifest[o] : o \in DOMAIN Manifest}
  BY <1>1, <1>2 DEF ApplyManifest
<1>4. \/ \E how \in Exits : Return(t, how)
      \/ \E step \in ProgramSteps \ {"helm"} : Goto(t, step) /\ UNCHANGED exit
  BY <1>1 DEF ApplyManifest, InstallFails, Exits, ProgramSteps
<1>5. UNCHANGED <<mesh, bindings, releases, viewVars>>
  BY <1>1 DEF ApplyManifest
<1> QED
  BY <1>3, <1>4, <1>5, TypedStep DEF viewVars, Typed, TypeOK

LEMMA TypedMesh ==
    ASSUME Typed, NEW t \in Terminal, MeshStart(t) \/ kmeshStatus(t)
    PROVE  Typed'
<1>1. \/ \E how \in Exits : Return(t, how)
      \/ \E step \in ProgramSteps \ {"helm"} : Goto(t, step) /\ UNCHANGED exit
  BY DEF MeshStart, kmeshStatus, Exits, ProgramSteps
<1>2. /\ UNCHANGED <<applied, bindings, releases, chart, info>>
      /\ mesh' \in {mesh, Empty} /\ shown' \in {shown, [shown EXCEPT ![t] = mesh]}
  BY DEF MeshStart, kmeshStatus, viewVars, clusterVars
<1>3. mesh' \in MeshStatus \cup {Empty, None} /\ shown' \in [Terminal -> MeshStatus \cup {Empty, None}]
  BY <1>2 DEF Typed, TypeOK
<1> QED
  BY <1>1, <1>2, <1>3, TypedStep DEF Typed, TypeOK

LEMMA TypedHelm ==
    ASSUME Typed, NEW t \in Terminal, HelmInstall(t)
    PROVE  Typed'
<1>1. chart[t] \in Chart
  BY DEF HelmInstall, Typed, TypeOK
<1>2. ChartBinding[chart[t]] \in Binding
  BY <1>1, Templates
<1>3. /\ releases' \in {releases, releases \cup {chart[t]}}
      /\ bindings' \in {bindings, [bindings EXCEPT ![ChartBinding[chart[t]]] = "absent"]}
      /\ UNCHANGED <<applied, mesh, viewVars>>
  BY DEF HelmInstall
<1>4. bindings' \in [Binding -> Ready \cup {None}] /\ releases' \subseteq Chart
  BY <1>1, <1>2, <1>3 DEF Typed, TypeOK, Ready
<1>5. \E how \in Exits : Return(t, how)
  BY DEF HelmInstall, Exits
<1> QED
  BY <1>3, <1>4, <1>5, TypedStep DEF viewVars, Typed, TypeOK

LEMMA TypedCluster ==
    ASSUME Typed, Users \/ Controllers
    PROVE  Typed'
<1>1. bindings' \in [Binding -> Ready \cup {None}] /\ mesh' \in MeshStatus \cup {Empty, None}
  BY DEF Users, Controllers, Listed, Typed, TypeOK, Ready
<1>2. UNCHANGED <<applied, releases, at, viewVars, exit>>
  BY DEF Users, Controllers, Change
<1> QED
  BY <1>1, <1>2
     DEF Typed, TypeOK, viewVars, ProgramSteps, Names, Exits, ComponentState, Manifest, Ready, Empty

LEMMA TypedNext ==
    ASSUME Typed, [Next]_vars
    PROVE  Typed'
<1>1. ASSUME NEW t \in Terminal,
             \/ RunInstall(t) \/ RunMeshStart(t) \/ RunStatus(t) \/ RunMeshStatus(t)
             \/ RunBrokersStatus(t)
      PROVE  Typed'
  <2>1. PICK step \in ProgramSteps \ {"helm"} : Command(t, step) /\ UNCHANGED chart
    BY <1>1 DEF RunInstall, RunMeshStart, RunStatus, RunMeshStatus, RunBrokersStatus, ProgramSteps
  <2>2. "unknown" \in Names \cup {"unknown"}
    OBVIOUS
  <2> QED
    BY <2>1, <2>2, TypedCommand
<1>2. ASSUME NEW t \in Terminal, RunBrokersInstall(t)
      PROVE  Typed'
  <2>1. "read" \in ProgramSteps \ {"helm"}
    BY DEF ProgramSteps
  <2> QED
    BY <1>2, <2>1, TypedCommand DEF RunBrokersInstall
<1>3. CASE UNCHANGED vars
  BY <1>3 DEF vars, clusterVars, viewVars, Typed, TypeOK, Names, Exits, ComponentState, Manifest,
              Ready, Empty
<1> QED
  BY <1>1, <1>2, <1>3, TypedInstall, TypedMesh, TypedBrokers, TypedHelm, TypedCluster DEF Next

\* helm is only ever called for a chart of the repository, whatever the name it was
\* given and whatever bindings share it; a table has states the tool knows of
\* (magefile.go 151-168, 306-370).
THEOREM TypeCorrect == Spec => []TypeOK
<1>1. Spec => []Typed
  BY TypedInit, TypedNext, PTL DEF Spec
<1> QED
  BY <1>1, PTL DEF Typed
=============================================================================
