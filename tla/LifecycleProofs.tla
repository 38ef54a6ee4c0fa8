-------------------------- MODULE LifecycleProofs --------------------------
(***************************************************************************)
(* What Lifecycle.tla says of a process from start to end, for any number  *)
(* of NIC queues, namespaces and runs, and any worker and route files.     *)
(***************************************************************************)
EXTENDS Lifecycle, TablesProofs

(* The stages of main, as far as the resources tell them apart.            *)
NoProcess == {"down", "ended", "failed", "killed"}
Starting == {"attach", "pool", "ports", "nic map", "veth maps", "tables"}
Reading == {"workers", "routes"}
Working == {"create", "forward", "join"}
Ending == {"free ports", "free pool", "detach nic", "detach veths", "free tables"}

Stages == NoProcess \cup Starting \cup Reading \cup Working \cup Ending \cup {"destroy queues"}

(* The bounds of main's loops. *)
Loop(at) == CASE at = "attach" -> Programs
              [] at \in {"ports", "free ports"} -> Ports
              [] at = "nic map" -> 0 .. NNic - 1
              [] at \in {"veth maps", "detach veths"} -> Veths
              [] at = "routes" -> 1 .. RouteLines + 1
              [] at \in {"create", "join"} -> Threads
              [] at \in {"pool", "tables", "free tables"} -> 0 .. NNic + NVeth
              [] OTHER -> {0}

(* Where main is, and its loop variable within the bounds of the loop.     *)
ControlOK == /\ pc \in Stages /\ k \in Loop(pc)
             /\ runs \in 0..MaxRuns /\ (pc = "attach" => runs >= 1)

(* Which ports, whether the pool and the queues exist.                     *)
MemoryOK ==
  /\ pool \in BOOLEAN /\ queues \in BOOLEAN
  /\ pool <=> pc \in {"ports", "nic map", "veth maps", "tables", "free ports", "free pool"}
                     \cup Reading \cup Working
  /\ queues <=> pc \in Working \cup Ending \cup {"destroy queues"}
  /\ ports \subseteq Ports
  /\ pc \in NoProcess \cup {"attach", "pool"} => ports = {}
  /\ pc = "ports" => ports = 0 .. k - 1
  /\ pc \in {"nic map", "veth maps", "tables"} \cup Reading \cup Working => ports = Ports
  /\ pc = "free ports" => ports = k .. NNic + NVeth - 1
  /\ pc \in (Ending \ {"free ports"}) \cup {"destroy queues"} => ports = {}

(* Threads run from their creation on; main has joined the first k.        *)
ThreadsOK ==
  /\ thread \in [Threads -> {"none", "running", "waiting", "done"}]
  /\ quit \in [Threads -> BOOLEAN]
  /\ pc \in NoProcess \cup Starting \cup Reading => \A t \in Threads : thread[t] = "none"
  /\ pc = "create" => \A t \in Threads : t >= k => thread[t] = "none"
  /\ pc = "join" => \A t \in Threads : t < k => thread[t] = "done"
  /\ pc \in Ending \cup {"destroy queues"} => \A t \in Threads : thread[t] = "done"

(* What leads to a port leads to one that exists, by its own queue.        *)
SocketsOK ==
  /\ socketOf \in [Programs -> [0 .. NNic - 1 -> Ports \cup {None}]]
  /\ RedirectsToOwnPort

(* Programs are detached one after the other.                              *)
AttachedOK ==
  /\ attached \in [Programs -> SUBSET (1..runs)]
  /\ pc = "detach veths" => attached[0] = {} /\ \A x \in Veths : x < k => attached[x] = {}
  /\ pc \in {"free tables", "destroy queues", "ended"} =>
       \A x \in Programs : attached[x] = {}

(* The files are read line by line, and the tables are right from then on. *)
TablesOK ==
  /\ MapsOK /\ LinesOK
  /\ pc \in NoProcess \cup Starting => workers = <<>>
  /\ pc \in NoProcess \cup Starting \cup {"workers", "destroy queues"} => matrix = <<>>
  /\ pc \in Reading \cup Working \cup Ending =>
       ipData = "live" /\ macData = "live" /\ LinesFound
  /\ pc = "routes" => RowsRead(k)
  /\ pc \in Working \cup Ending => RowsRead(1) \/ RowsRead(RouteLines + 1)

Inv == ControlOK /\ MemoryOK /\ ThreadsOK /\ SocketsOK /\ AttachedOK /\ TablesOK

(* What the assumptions say of the numbers. *)
LEMMA Constants ==
  NNic \in Nat \ {0} /\ NVeth \in Nat /\ MaxRuns \in Nat /\ Len(RouteFile) \in Nat
BY LifecycleAssumption, TablesAssumption

(* The ports are an interval. *)
LEMMA PortRange == \E m \in Nat : m = NNic + NVeth - 1 /\ Ports = 0 .. m
<1>1. NNic + NVeth - 1 \in Nat BY Constants
<1> QED BY <1>1 DEF Ports

(* A loop over an interval, one turn on. *)
LEMMA Peeled ==
  ASSUME NEW m \in Nat, NEW i \in 0 .. m
  PROVE (i .. m) \ {i} = i + 1 .. m /\ (i + 1 \notin 0 .. m => i + 1 .. m = {})
OBVIOUS

(* A step of a loop over the threads, and over the namespaces.             *)
LEMMA NextThread ==
  /\ \A t \in Threads : ~ t < 0
  /\ \A i \in Threads :
       /\ \A t \in Threads : (t >= i + 1 => t # i /\ t >= i) /\ (t < i + 1 => t < i \/ t = i)
       /\ i + 1 \notin Threads => \A t \in Threads : t < i + 1
BY Constants DEF Threads

(* A loop over the namespaces, one turn on. *)
LEMMA NextVeth ==
  /\ \A x \in Veths : ~ x < NNic
  /\ \A i \in Veths :
       /\ \A x \in Veths : x < i + 1 => x < i \/ x = i
       /\ i + 1 \notin Veths => \A x \in Veths : x < i + 1
BY Constants DEF Veths

(* One program for the NIC, one per namespace. *)
LEMMA ProgramsAre ==
  0 \in Programs /\ Veths \subseteq Programs /\ Programs = {0} \cup Veths
  /\ (NVeth = 0 => Programs = {0})
BY Constants DEF Programs, Veths

(* A run that attaches has a number. *)
LEMMA RunNumbers ==
  ControlOK => /\ runs \in Nat /\ (1..runs) \subseteq (1..runs + 1)
               /\ pc = "attach" => runs \in 1..runs
BY Constants DEF ControlOK

(* What each loop of main runs over. *)
LEMMA LoopIs ==
  /\ Loop("attach") = Programs /\ Loop("pool") = 0 .. NNic + NVeth
  /\ Loop("ports") = Ports /\ Loop("nic map") = 0 .. NNic - 1
  /\ Loop("veth maps") = Veths /\ Loop("tables") = 0 .. NNic + NVeth
  /\ Loop("workers") = {0} /\ Loop("routes") = 1 .. RouteLines + 1
  /\ Loop("create") = Threads /\ Loop("forward") = {0} /\ Loop("join") = Threads
  /\ Loop("free ports") = Ports /\ Loop("free pool") = {0} /\ Loop("detach nic") = {0}
  /\ Loop("detach veths") = Veths /\ Loop("free tables") = 0 .. NNic + NVeth
  /\ Loop("destroy queues") = {0}
  /\ \A at \in NoProcess : Loop(at) = {0}
BY DEF Loop, NoProcess

(* main enters a loop where it begins. *)
LEMMA ControlAt ==
  ASSUME NEW at \in Stages, NEW i \in Loop(at), pc' = at, k' = i,
         runs' \in 0..MaxRuns, at = "attach" => runs' >= 1
  PROVE ControlOK'
BY DEF ControlOK, Stages, NoProcess, Starting, Reading, Working, Ending, Loop, Programs,
       Ports, Veths, Threads, RouteLines

(* main moves on within the bounds of its loops.                           *)
LEMMA ControlStep ==
  ASSUME ControlOK, [Next]_vars
  PROVE ControlOK'
<1> USE DEF Stages, NoProcess, Starting, Reading, Working, Ending
<1>0. runs \in 0..MaxRuns /\ (pc = "attach" => runs >= 1) /\ k \in Loop(pc) /\ pc \in Stages
  BY DEF ControlOK
<1>1. CASE UNCHANGED <<pc, k, runs>>
  BY <1>0, <1>1 DEF ControlOK, Loop, Programs, Ports, Veths, Threads, RouteLines
<1>2. CASE Start
  <2>1. pc' = "attach" /\ k' = 0 /\ runs' = runs + 1 /\ runs < MaxRuns BY <1>2 DEF Start, Goto
  <2>2. 0 \in Loop("attach")
    <3>1. 0 \in Programs BY LoopIs DEF Programs
    <3> QED BY <3>1, LoopIs, Zenon
  <2>3. runs' \in 0..MaxRuns /\ runs' >= 1
    <3>1. runs \in 0..MaxRuns BY <1>0
    <3> QED BY <2>1, <3>1, Constants
  <2> QED BY <2>1, <2>2, <2>3, ControlAt
<1>3. CASE Attach
  <2>1. pc = "attach" /\ k \in Programs /\ runs' = runs /\ k' = NextProgram(k)
    BY <1>3 DEF Attach
  <2>2. CASE NextProgram(k) \in Programs
    <3>1. pc' = "attach" BY <1>3, <2>1, <2>2 DEF Attach
    <3> QED BY <1>0, <2>1, <2>2, <3>1, LoopIs, ControlAt
  <2>3. CASE NextProgram(k) \notin Programs
    <3>1. pc' = "pool" BY <1>3, <2>1, <2>3 DEF Attach
    <3>2. NextProgram(k) \in 0 .. NNic + NVeth
      BY <2>1, Constants DEF NextProgram, Programs, Veths
    <3> QED BY <1>0, <2>1, <3>1, <3>2, LoopIs, ControlAt
  <2> QED BY <2>2, <2>3
<1>4. CASE Down
  <2>1. pc' = "down" /\ k' = 0 /\ runs' = runs BY <1>4 DEF Down
  <2>2. 0 \in Loop("down") BY LoopIs, Constants
  <2> QED BY <1>0, <2>1, <2>2, ControlAt
<1>5. CASE Kill
  <2>1. pc' = "killed" /\ k' = 0 /\ runs' = runs BY <1>5 DEF Kill, Gone
  <2>2. 0 \in Loop("killed") BY LoopIs, Constants
  <2> QED BY <1>0, <2>1, <2>2, ControlAt
<1>6. CASE Fail
  <2>1. pc' = "failed" /\ k' = 0 /\ runs' = runs BY <1>6 DEF Fail, Gone
  <2>2. 0 \in Loop("failed") BY LoopIs, Constants
  <2> QED BY <1>0, <2>1, <2>2, ControlAt
<1>7. CASE AttachedAll
  <2>1. pc' = "ports" /\ k' = 0 /\ runs' = runs BY <1>7 DEF AttachedAll, Goto
  <2>2. 0 \in Loop("ports")
    <3>1. 0 \in Ports BY Constants DEF Ports
    <3> QED BY <3>1, LoopIs, Zenon
  <2> QED BY <1>0, <2>1, <2>2, ControlAt
<1>8. CASE PortInit
  <2>1. pc = "ports" /\ runs' = runs BY <1>8 DEF PortInit
  <2>2. k \in Ports BY <1>0, <2>1, LoopIs
  <2>3. CASE k + 1 \in Ports
    <3>1. pc' = "ports" /\ k' = k + 1 BY <1>8, <2>1, <2>3 DEF PortInit
    <3>2. k + 1 \in Loop("ports")
      <4>1. k + 1 \in Ports BY <2>2, <2>3, Constants DEF Ports
      <4> QED BY <4>1, LoopIs, Zenon
    <3> QED BY <1>0, <2>1, <3>1, <3>2, ControlAt
  <2>4. CASE k + 1 \notin Ports
    <3>1. pc' = "nic map" /\ k' = 0 BY <1>8, <2>1, <2>4 DEF PortInit
    <3>2. 0 \in Loop("nic map")
      <4>1. 0 \in 0 .. NNic - 1 BY <2>2, <2>4, Constants DEF Ports
      <4> QED BY <4>1, LoopIs, Zenon
    <3> QED BY <1>0, <2>1, <3>1, <3>2, ControlAt
  <2> QED BY <2>3, <2>4
<1>9. CASE EnterNic
  <2>1. pc = "nic map" /\ runs' = runs BY <1>9 DEF EnterNic
  <2>2. k \in 0 .. NNic - 1 BY <1>0, <2>1, LoopIs
  <2>3. CASE k + 1 < NNic
    <3>1. pc' = "nic map" /\ k' = k + 1 BY <1>9, <2>1, <2>3 DEF EnterNic
    <3>2. k + 1 \in Loop("nic map")
      <4>1. k + 1 \in 0 .. NNic - 1 BY <2>2, <2>3, Constants DEF Veths
      <4> QED BY <4>1, LoopIs, Zenon
    <3> QED BY <1>0, <2>1, <3>1, <3>2, ControlAt
  <2>4. CASE ~ k + 1 < NNic /\ NVeth = 0
    <3>1. pc' = "tables" /\ k' = k + 1 BY <1>9, <2>1, <2>4 DEF EnterNic
    <3>2. k + 1 \in Loop("tables")
      <4>1. k + 1 \in 0 .. NNic + NVeth BY <2>2, <2>4, Constants DEF Veths
      <4> QED BY <4>1, LoopIs, Zenon
    <3> QED BY <1>0, <2>1, <3>1, <3>2, ControlAt
  <2>5. CASE ~ k + 1 < NNic /\ NVeth # 0
    <3>1. pc' = "veth maps" /\ k' = k + 1 BY <1>9, <2>1, <2>5 DEF EnterNic
    <3>2. k + 1 \in Loop("veth maps")
      <4>1. k + 1 \in Veths BY <2>2, <2>5, Constants DEF Veths
      <4> QED BY <4>1, LoopIs, Zenon
    <3> QED BY <1>0, <2>1, <3>1, <3>2, ControlAt
  <2> QED BY <2>3, <2>4, <2>5
<1>10. CASE EnterVeth
  <2>1. pc = "veth maps" /\ runs' = runs BY <1>10 DEF EnterVeth
  <2>2. k \in Veths BY <1>0, <2>1, LoopIs
  <2>3. CASE k + 1 \in Veths
    <3>1. pc' = "veth maps" /\ k' = k + 1 BY <1>10, <2>1, <2>3 DEF EnterVeth
    <3>2. k + 1 \in Loop("veth maps")
      <4>1. k + 1 \in Veths BY <2>2, <2>3, Constants DEF Veths
      <4> QED BY <4>1, LoopIs, Zenon
    <3> QED BY <1>0, <2>1, <3>1, <3>2, ControlAt
  <2>4. CASE k + 1 \notin Veths
    <3>1. pc' = "tables" /\ k' = k + 1 BY <1>10, <2>1, <2>4 DEF EnterVeth
    <3>2. k + 1 \in Loop("tables")
      <4>1. k + 1 \in 0 .. NNic + NVeth BY <2>2, <2>4, Constants DEF Veths
      <4> QED BY <4>1, LoopIs, Zenon
    <3> QED BY <1>0, <2>1, <3>1, <3>2, ControlAt
  <2> QED BY <2>3, <2>4
<1>11. CASE Maps
  <2>1. pc' = "workers" /\ k' = 0 /\ runs' = runs BY <1>11 DEF Maps, Goto
  <2>2. 0 \in Loop("workers") BY LoopIs, Constants
  <2> QED BY <1>0, <2>1, <2>2, ControlAt
<1>12. CASE WorkerLine
  <2>1. UNCHANGED <<pc, k, runs>> BY <1>12 DEF WorkerLine
  <2> QED BY <1>1, <2>1
<1>13. CASE EndOfWorkers
  <2>1. pc' = "routes" /\ k' = 1 /\ runs' = runs BY <1>13 DEF EndOfWorkers, Goto
  <2>2. 1 \in Loop("routes")
    <3>1. 1 \in 1 .. RouteLines + 1 BY Constants DEF RouteLines
    <3> QED BY <3>1, LoopIs, Zenon
  <2> QED BY <1>0, <2>1, <2>2, ControlAt
<1>14. CASE RouteLine
  <2>1. pc' = "routes" /\ k' = k + 1 /\ runs' = runs /\ pc = "routes" /\ k <= RouteLines BY <1>14 DEF RouteLine
  <2>2. k + 1 \in Loop("routes")
    <3>1. k \in 1 .. RouteLines + 1 BY <1>0, <2>1, LoopIs
    <3>2. k + 1 \in 1 .. RouteLines + 1 BY <2>1, <3>1, Constants DEF RouteLines
    <3> QED BY <3>2, LoopIs, Zenon
  <2> QED BY <1>0, <2>1, <2>2, ControlAt
<1>15. CASE EndOfRoutes
  <2>1. pc' = "create" /\ k' = 0 /\ runs' = runs BY <1>15 DEF EndOfRoutes
  <2>2. 0 \in Loop("create")
    <3>1. 0 \in Threads BY Constants DEF Threads
    <3> QED BY <3>1, LoopIs, Zenon
  <2> QED BY <1>0, <2>1, <2>2, ControlAt
<1>16. CASE Create
  <2>1. pc = "create" /\ runs' = runs BY <1>16 DEF Create
  <2>2. k \in Threads BY <1>0, <2>1, LoopIs
  <2>3. CASE k + 1 \in Threads
    <3>1. pc' = "create" /\ k' = k + 1 BY <1>16, <2>1, <2>3 DEF Create
    <3>2. k + 1 \in Loop("create")
      <4>1. k + 1 \in Threads BY <2>2, <2>3, Constants DEF Threads
      <4> QED BY <4>1, LoopIs, Zenon
    <3> QED BY <1>0, <2>1, <3>1, <3>2, ControlAt
  <2>4. CASE k + 1 \notin Threads
    <3>1. pc' = "forward" /\ k' = 0 BY <1>16, <2>1, <2>4 DEF Create
    <3>2. 0 \in Loop("forward") BY <2>2, <2>4, LoopIs, Constants DEF Threads
    <3> QED BY <1>0, <2>1, <3>1, <3>2, ControlAt
  <2> QED BY <2>3, <2>4
<1>17. CASE Quit
  <2>1. pc' = "join" /\ k' = 0 /\ runs' = runs BY <1>17 DEF Quit, Goto
  <2>2. 0 \in Loop("join")
    <3>1. 0 \in Threads BY Constants DEF Threads
    <3> QED BY <3>1, LoopIs, Zenon
  <2> QED BY <1>0, <2>1, <2>2, ControlAt
<1>18. CASE Join
  <2>1. pc = "join" /\ runs' = runs BY <1>18 DEF Join
  <2>2. k \in Threads BY <1>0, <2>1, LoopIs
  <2>3. CASE k + 1 \in Threads
    <3>1. pc' = "join" /\ k' = k + 1 BY <1>18, <2>1, <2>3 DEF Join
    <3>2. k + 1 \in Loop("join")
      <4>1. k + 1 \in Threads BY <2>2, <2>3, Constants DEF Threads, Ports
      <4> QED BY <4>1, LoopIs, Zenon
    <3> QED BY <1>0, <2>1, <3>1, <3>2, ControlAt
  <2>4. CASE k + 1 \notin Threads
    <3>1. pc' = "free ports" /\ k' = 0 BY <1>18, <2>1, <2>4 DEF Join
    <3>2. 0 \in Loop("free ports")
      <4>1. 0 \in Ports BY <2>2, <2>4, Constants DEF Threads, Ports
      <4> QED BY <4>1, LoopIs, Zenon
    <3> QED BY <1>0, <2>1, <3>1, <3>2, ControlAt
  <2> QED BY <2>3, <2>4
<1>19. CASE JoinNothing
  <2>1. pc' = "failed" /\ k' = 0 /\ runs' = runs BY <1>19 DEF JoinNothing, Gone
  <2>2. 0 \in Loop("failed") BY LoopIs, Constants
  <2> QED BY <1>0, <2>1, <2>2, ControlAt
<1>20. CASE FreePort
  <2>1. pc = "free ports" /\ runs' = runs BY <1>20 DEF FreePort
  <2>2. k \in Ports BY <1>0, <2>1, LoopIs
  <2>3. CASE k + 1 \in Ports
    <3>1. pc' = "free ports" /\ k' = k + 1 BY <1>20, <2>1, <2>3 DEF FreePort
    <3>2. k + 1 \in Loop("free ports")
      <4>1. k + 1 \in Ports BY <2>2, <2>3, Constants DEF Ports
      <4> QED BY <4>1, LoopIs, Zenon
    <3> QED BY <1>0, <2>1, <3>1, <3>2, ControlAt
  <2>4. CASE k + 1 \notin Ports
    <3>1. pc' = "free pool" /\ k' = 0 BY <1>20, <2>1, <2>4 DEF FreePort
    <3>2. 0 \in Loop("free pool") BY <2>2, <2>4, LoopIs, Constants DEF Ports
    <3> QED BY <1>0, <2>1, <3>1, <3>2, ControlAt
  <2> QED BY <2>3, <2>4
<1>21. CASE FreePool
  <2>1. pc' = "detach nic" /\ k' = 0 /\ runs' = runs BY <1>21 DEF FreePool, Goto
  <2>2. 0 \in Loop("detach nic") BY LoopIs, Constants
  <2> QED BY <1>0, <2>1, <2>2, ControlAt
<1>22. CASE DetachNic
  <2>1. pc = "detach nic" /\ runs' = runs BY <1>22 DEF DetachNic
  <2>2. k \in {0} BY <1>0, <2>1, LoopIs
  <2>3. CASE NVeth = 0
    <3>1. pc' = "free tables" /\ k' = NNic BY <1>22, <2>1, <2>3 DEF DetachNic
    <3>2. NNic \in Loop("free tables")
      <4>1. NNic \in 0 .. NNic + NVeth BY <2>2, <2>3, Constants DEF Veths
      <4> QED BY <4>1, LoopIs, Zenon
    <3> QED BY <1>0, <2>1, <3>1, <3>2, ControlAt
  <2>4. CASE NVeth # 0
    <3>1. pc' = "detach veths" /\ k' = NNic BY <1>22, <2>1, <2>4 DEF DetachNic
    <3>2. NNic \in Loop("detach veths")
      <4>1. NNic \in Veths BY <2>2, <2>4, Constants DEF Veths
      <4> QED BY <4>1, LoopIs, Zenon
    <3> QED BY <1>0, <2>1, <3>1, <3>2, ControlAt
  <2> QED BY <2>3, <2>4
<1>23. CASE DetachVeth
  <2>1. pc = "detach veths" /\ runs' = runs BY <1>23 DEF DetachVeth
  <2>2. k \in Veths BY <1>0, <2>1, LoopIs
  <2>3. CASE k + 1 \in Veths
    <3>1. pc' = "detach veths" /\ k' = k + 1 BY <1>23, <2>1, <2>3 DEF DetachVeth
    <3>2. k + 1 \in Loop("detach veths")
      <4>1. k + 1 \in Veths BY <2>2, <2>3, Constants DEF Veths
      <4> QED BY <4>1, LoopIs, Zenon
    <3> QED BY <1>0, <2>1, <3>1, <3>2, ControlAt
  <2>4. CASE k + 1 \notin Veths
    <3>1. pc' = "free tables" /\ k' = k + 1 BY <1>23, <2>1, <2>4 DEF DetachVeth
    <3>2. k + 1 \in Loop("free tables")
      <4>1. k + 1 \in 0 .. NNic + NVeth BY <2>2, <2>4, Constants DEF Veths
      <4> QED BY <4>1, LoopIs, Zenon
    <3> QED BY <1>0, <2>1, <3>1, <3>2, ControlAt
  <2> QED BY <2>3, <2>4
<1>24. CASE Free
  <2>1. pc' = "destroy queues" /\ k' = 0 /\ runs' = runs BY <1>24 DEF Free, Goto
  <2>2. 0 \in Loop("destroy queues") BY LoopIs, Constants
  <2> QED BY <1>0, <2>1, <2>2, ControlAt
<1>25. CASE End
  <2>1. pc' = "ended" /\ k' = 0 /\ runs' = runs BY <1>25 DEF End, Gone
  <2>2. 0 \in Loop("ended") BY LoopIs, Constants
  <2> QED BY <1>0, <2>1, <2>2, ControlAt
<1>26. ASSUME NEW t \in Threads, ThreadStep(t) PROVE ControlOK'
  <2>1. UNCHANGED <<pc, k, runs>> BY <1>26 DEF ThreadStep, Wait, Room, ThreadEnds
  <2> QED BY <1>1, <2>1
<1>27. CASE UNCHANGED vars BY <1>1, <1>27 DEF vars
<1> QED
  BY <1>2, <1>3, <1>4, <1>5, <1>6, <1>7, <1>8, <1>9, <1>10, <1>11, <1>12, <1>13, <1>14, <1>15, <1>16, <1>17, <1>18, <1>19, <1>20, <1>21, <1>22, <1>23, <1>24, <1>25, <1>26, <1>27 DEF Next, MainStep

(* Ports, the pool and the queues are made and freed in order.             *)
LEMMA MemoryStep ==
  ASSUME ControlOK, MemoryOK, [Next]_vars
  PROVE MemoryOK'
<1> USE DEF MemoryOK, NoProcess, Starting, Reading, Working, Ending
<1>0. k \in Loop(pc) BY DEF ControlOK
<1>1. CASE UNCHANGED vars BY <1>1 DEF vars, processVars, tableVars
<1>2. CASE Start BY <1>2 DEF Start, Goto, processVars
<1>3. CASE Down BY <1>3 DEF Down, processVars
<1>4. CASE Kill BY <1>4 DEF Kill, Gone, processVars
<1>5. CASE Fail BY <1>5 DEF Fail, Gone, processVars
<1>6. CASE Attach BY <1>6 DEF Attach, NextProgram, processVars
<1>7. CASE AttachedAll BY <1>7 DEF AttachedAll, Goto, processVars
<1>8. CASE PortInit
  <2>1. pc = "ports" /\ ports = 0 .. k - 1 /\ k \in Ports /\ ports' = ports \cup {k}
    BY <1>8 DEF PortInit
  <2>2. k \in Nat /\ ports' = 0 .. k BY <2>1 DEF Ports
  <2>3. pool' = pool /\ queues' = queues BY <1>8 DEF PortInit
  <2>4. CASE k + 1 \in Ports
    <3>1. k' = k + 1 /\ pc' = "ports" BY <1>8, <2>1, <2>4 DEF PortInit
    <3> QED BY <2>1, <2>2, <2>3, <3>1
  <2>5. CASE k + 1 \notin Ports
    <3>1. pc' = "nic map" BY <1>8, <2>5 DEF PortInit
    <3>2. ports' = Ports BY <2>1, <2>2, <2>5, Constants DEF Ports
    <3> QED BY <2>1, <2>3, <3>1, <3>2
  <2> QED BY <2>4, <2>5
<1>9. CASE EnterNic BY <1>9 DEF EnterNic, processVars
<1>10. CASE EnterVeth BY <1>10 DEF EnterVeth, processVars
<1>11. CASE Maps BY <1>11 DEF Maps, Goto, processVars
<1>12. CASE WorkerLine BY <1>12 DEF WorkerLine, processVars
<1>13. CASE EndOfWorkers BY <1>13 DEF EndOfWorkers, Goto, processVars
<1>14. CASE RouteLine BY <1>14 DEF RouteLine, processVars
<1>15. CASE EndOfRoutes BY <1>15 DEF EndOfRoutes, processVars
<1>16. CASE Create BY <1>16 DEF Create, processVars
<1>17. CASE Quit BY <1>17 DEF Quit, Goto, processVars
<1>18. CASE Join
  <2>1. /\ pc = "join" /\ pc' \in {"join", "free ports"} /\ UNCHANGED <<pool, queues, ports>>
        /\ pc' = "free ports" => k' = 0
    BY <1>18 DEF Join, processVars
  <2>2. Ports = 0 .. NNic + NVeth - 1 BY DEF Ports
  <2> QED BY <2>1, <2>2
<1>19. CASE JoinNothing BY <1>19 DEF JoinNothing, Gone, processVars
<1>20. CASE FreePort
  <2>1. pc = "free ports" /\ ports' = ports \ {k} BY <1>20 DEF FreePort
  <2>2. PICK m \in Nat : /\ m = NNic + NVeth - 1 /\ Ports = 0 .. m
                         /\ k \in 0 .. m /\ ports' = k + 1 .. m
    <3>1. PICK m \in Nat : m = NNic + NVeth - 1 /\ Ports = 0 .. m BY PortRange
    <3>2. ports = k .. m BY <2>1, <3>1
    <3>3. k \in 0 .. m BY <1>0, <2>1, <3>1, LoopIs
    <3>4. (k .. m) \ {k} = k + 1 .. m BY <3>3, Peeled, Zenon
    <3> QED BY <2>1, <3>1, <3>2, <3>3, <3>4
  <2>3. pool' = pool /\ queues' = queues BY <1>20 DEF FreePort
  <2>4. CASE k + 1 \in Ports
    <3>1. k' = k + 1 /\ pc' = "free ports" BY <1>20, <2>1, <2>4 DEF FreePort
    <3> QED BY <2>1, <2>2, <2>3, <3>1
  <2>5. CASE k + 1 \notin Ports
    <3>1. pc' = "free pool" BY <1>20, <2>5 DEF FreePort
    <3>3. k + 1 .. m = {} BY <2>2, <2>5, Peeled, Zenon
    <3>4. ports' = {} BY <2>2, <3>3
    <3> QED BY <2>1, <2>3, <3>1, <3>4
  <2> QED BY <2>4, <2>5
<1>21. CASE FreePool BY <1>21 DEF FreePool, Goto, processVars
<1>22. CASE DetachNic BY <1>22 DEF DetachNic, Detached, processVars
<1>23. CASE DetachVeth BY <1>23 DEF DetachVeth, Detached, processVars
<1>24. CASE Free BY <1>24 DEF Free, Goto, processVars
<1>25. CASE End BY <1>25 DEF End, Gone, processVars
<1>26. ASSUME NEW t \in Threads, ThreadStep(t) PROVE MemoryOK'
  <2>1. UNCHANGED <<pc, k, pool, ports, queues>>
    BY <1>26 DEF ThreadStep, Wait, Room, ThreadEnds
  <2> QED BY <2>1
<1> QED
  BY <1>1, <1>2, <1>3, <1>4, <1>5, <1>6, <1>7, <1>8, <1>9, <1>10, <1>11, <1>12, <1>13, <1>14, <1>15, <1>16, <1>17, <1>18, <1>19, <1>20, <1>21, <1>22, <1>23, <1>24, <1>25, <1>26 DEF Next, MainStep

(* Threads are created one by one, and joined one by one.                  *)
LEMMA ThreadsStep ==
  ASSUME ControlOK, ThreadsOK, [Next]_vars
  PROVE ThreadsOK'
<1> USE DEF ThreadsOK, NoProcess, Starting, Reading, Working, Ending
<1>0. k \in Loop(pc) BY DEF ControlOK
<1>1. CASE UNCHANGED vars BY <1>1 DEF vars, processVars, tableVars
<1>2. CASE Start BY <1>2 DEF Start, Goto, processVars
<1>3. CASE Down BY <1>3 DEF Down, processVars
<1>4. CASE Kill BY <1>4 DEF Kill, Gone, processVars
<1>5. CASE Fail BY <1>5 DEF Fail, Gone, processVars
<1>6. CASE Attach BY <1>6 DEF Attach, NextProgram, processVars
<1>7. CASE AttachedAll BY <1>7 DEF AttachedAll, Goto, processVars
<1>8. CASE PortInit BY <1>8 DEF PortInit, processVars
<1>9. CASE EnterNic BY <1>9 DEF EnterNic, processVars
<1>10. CASE EnterVeth BY <1>10 DEF EnterVeth, processVars
<1>11. CASE Maps BY <1>11 DEF Maps, Goto, processVars
<1>12. CASE WorkerLine BY <1>12 DEF WorkerLine, processVars
<1>13. CASE EndOfWorkers BY <1>13 DEF EndOfWorkers, Goto, processVars
<1>14. CASE RouteLine BY <1>14 DEF RouteLine, processVars
<1>15. CASE EndOfRoutes BY <1>15 DEF EndOfRoutes, processVars
<1>16. CASE Create
  <2>1. /\ pc = "create" /\ k \in Threads /\ quit' = quit
        /\ thread' \in {thread, [thread EXCEPT ![k] = "running"]}
        /\ (pc' = "create" /\ k' = k + 1) \/ pc' = "forward"
    BY <1>16 DEF Create
  <2>2. /\ thread' \in [Threads -> {"none", "running", "waiting", "done"}]
        /\ \A t \in Threads : t # k => thread'[t] = thread[t]
    BY <2>1
  <2>3. \A t \in Threads : t >= k + 1 => t # k /\ t >= k BY <2>1, NextThread
  <2>4. \A t \in Threads : t >= k + 1 => thread'[t] = "none" BY <2>1, <2>2, <2>3
  <2> QED BY <2>1, <2>2, <2>4
<1>17. CASE Quit
  <2>1. pc' = "join" /\ k' = 0 /\ quit' = [t \in Threads |-> TRUE] /\ thread' = thread
    BY <1>17 DEF Quit, Goto
  <2>2. \A t \in Threads : ~ t < 0 BY NextThread
  <2> QED BY <2>1, <2>2
<1>18. CASE Join
  <2>1. /\ pc = "join" /\ k \in Threads /\ thread[k] = "done" /\ UNCHANGED <<thread, quit>>
        /\ \/ pc' = "join" /\ k' = k + 1
           \/ pc' = "free ports" /\ k + 1 \notin Threads
    BY <1>18 DEF Join, processVars
  <2>2. \A t \in Threads : t < k + 1 => t < k \/ t = k BY <2>1, NextThread
  <2>3. k + 1 \notin Threads => \A t \in Threads : t < k + 1 BY <2>1, NextThread
  <2>4. \A t \in Threads : t < k + 1 => thread[t] = "done" BY <2>1, <2>2
  <2> QED BY <2>1, <2>3, <2>4
<1>19. CASE JoinNothing BY <1>19 DEF JoinNothing, Gone, processVars
<1>20. CASE FreePort BY <1>20 DEF FreePort, processVars
<1>21. CASE FreePool BY <1>21 DEF FreePool, Goto, processVars
<1>22. CASE DetachNic BY <1>22 DEF DetachNic, Detached, processVars
<1>23. CASE DetachVeth BY <1>23 DEF DetachVeth, Detached, processVars
<1>24. CASE Free BY <1>24 DEF Free, Goto, processVars
<1>25. CASE End BY <1>25 DEF End, Gone, processVars
<1>26. ASSUME NEW t \in Threads, ThreadStep(t) PROVE ThreadsOK' BY <1>26 DEF ThreadStep, Wait, Room, ThreadEnds
<1> QED
  BY <1>1, <1>2, <1>3, <1>4, <1>5, <1>6, <1>7, <1>8, <1>9, <1>10, <1>11, <1>12, <1>13, <1>14, <1>15, <1>16, <1>17, <1>18, <1>19, <1>20, <1>21, <1>22, <1>23, <1>24, <1>25, <1>26 DEF Next, MainStep

(* Programs are attached in the present run, and all detached at its end.   *)
LEMMA AttachedStep ==
  ASSUME ControlOK, AttachedOK, [Next]_vars
  PROVE AttachedOK'
<1> USE DEF AttachedOK, NoProcess, Starting, Reading, Working, Ending
<1>0. k \in Loop(pc) BY DEF ControlOK
<1>1. CASE UNCHANGED vars BY <1>1 DEF vars, processVars, tableVars
<1>2. CASE Start
  <2>1. pc' = "attach" /\ runs' = runs + 1 /\ attached' = attached BY <1>2 DEF Start, Goto
  <2>2. (1..runs) \subseteq (1..runs + 1) BY RunNumbers
  <2>3. attached \in [Programs -> SUBSET (1..runs)] OBVIOUS
  <2>4. attached \in [Programs -> SUBSET (1..runs + 1)]
    <3> DEFINE old == 1..runs
               new == 1..runs + 1
    <3>1. old \subseteq new /\ attached \in [Programs -> SUBSET old] BY <2>2, <2>3
    <3> HIDE DEF old, new
    <3>2. attached \in [Programs -> SUBSET new] BY <3>1
    <3> QED BY <3>2 DEF new
  <2> QED BY <2>1, <2>4
<1>3. CASE Down BY <1>3 DEF Down, processVars
<1>4. CASE Kill BY <1>4 DEF Kill, Gone, processVars
<1>5. CASE Fail BY <1>5 DEF Fail, Gone, processVars
<1>6. CASE Attach
  <2>1. /\ pc = "attach" /\ k \in Programs /\ pc' \in {"attach", "pool"} /\ runs' = runs
        /\ attached' = [attached EXCEPT ![k] = @ \cup {runs}]
    BY <1>6 DEF Attach
  <2>2. runs \in 1..runs BY <2>1, RunNumbers
  <2>3. attached' \in [Programs -> SUBSET (1..runs)] BY <2>1, <2>2
  <2> QED BY <2>1, <2>3
<1>7. CASE AttachedAll BY <1>7 DEF AttachedAll, Goto, processVars
<1>8. CASE PortInit BY <1>8 DEF PortInit, processVars
<1>9. CASE EnterNic BY <1>9 DEF EnterNic, processVars
<1>10. CASE EnterVeth BY <1>10 DEF EnterVeth, processVars
<1>11. CASE Maps BY <1>11 DEF Maps, Goto, processVars
<1>12. CASE WorkerLine BY <1>12 DEF WorkerLine, processVars
<1>13. CASE EndOfWorkers BY <1>13 DEF EndOfWorkers, Goto, processVars
<1>14. CASE RouteLine BY <1>14 DEF RouteLine, processVars
<1>15. CASE EndOfRoutes BY <1>15 DEF EndOfRoutes, processVars
<1>16. CASE Create BY <1>16 DEF Create, processVars
<1>17. CASE Quit BY <1>17 DEF Quit, Goto, processVars
<1>18. CASE Join BY <1>18 DEF Join, processVars
<1>19. CASE JoinNothing BY <1>19 DEF JoinNothing, Gone, processVars
<1>20. CASE FreePort BY <1>20 DEF FreePort, processVars
<1>21. CASE FreePool BY <1>21 DEF FreePool, Goto, processVars
<1>22. CASE DetachNic
  <2>1. /\ pc = "detach nic" /\ attached' = [attached EXCEPT ![0] = {}] /\ runs' = runs
        /\ k' = NNic /\ pc' = IF NVeth = 0 THEN "free tables" ELSE "detach veths"
    BY <1>22 DEF DetachNic, Detached
  <2>2. 0 \in Programs /\ (NVeth = 0 => Programs = {0}) /\ \A x \in Veths : ~ x < NNic
    BY NextVeth, ProgramsAre
  <2>3. attached' \in [Programs -> SUBSET (1..runs)] /\ attached'[0] = {} BY <2>1, <2>2
  <2> QED BY <2>1, <2>2, <2>3
<1>23. CASE DetachVeth
  <2>1. /\ pc = "detach veths" /\ k \in Veths /\ runs' = runs
        /\ attached' = [attached EXCEPT ![k] = {}] /\ k' = k + 1
        /\ pc' = IF k + 1 \in Veths THEN "detach veths" ELSE "free tables"
    BY <1>23 DEF DetachVeth, Detached
  <2>2. /\ k \in Programs /\ Programs = {0} \cup Veths
        /\ \A x \in Veths : x < k + 1 => x < k \/ x = k
        /\ k + 1 \notin Veths => \A x \in Veths : x < k + 1
    BY <2>1, NextVeth, ProgramsAre
  <2>3. /\ attached' \in [Programs -> SUBSET (1..runs)]
        /\ attached'[k] = {} /\ \A x \in Programs : x # k => attached'[x] = attached[x]
    BY <2>1, <2>2
  <2>4. attached'[0] = {} /\ \A x \in Veths : x < k + 1 => attached'[x] = {}
    BY <2>1, <2>2, <2>3
  <2> QED BY <2>1, <2>2, <2>3, <2>4
<1>24. CASE Free BY <1>24 DEF Free, Goto, processVars
<1>25. CASE End BY <1>25 DEF End, Gone, processVars
<1>26. ASSUME NEW t \in Threads, ThreadStep(t) PROVE AttachedOK' BY <1>26 DEF ThreadStep, Wait, Room, ThreadEnds
<1> QED
  BY <1>1, <1>2, <1>3, <1>4, <1>5, <1>6, <1>7, <1>8, <1>9, <1>10, <1>11, <1>12, <1>13, <1>14, <1>15, <1>16, <1>17, <1>18, <1>19, <1>20, <1>21, <1>22, <1>23, <1>24, <1>25, <1>26 DEF Next, MainStep

(* An entry of an xsks_map is written. *)
LEMMA SocketSet ==
  ASSUME socketOf \in [Programs -> [0 .. NNic - 1 -> Ports \cup {None}]],
         NEW x \in Programs, NEW q \in 0 .. NNic - 1, NEW v \in Ports \cup {None},
         socketOf' = [socketOf EXCEPT ![x][q] = v]
  PROVE /\ socketOf' \in [Programs -> [0 .. NNic - 1 -> Ports \cup {None}]]
        /\ socketOf'[x][q] = v
        /\ \A y \in Programs, r \in 0 .. NNic - 1 :
             y # x \/ r # q => socketOf'[y][r] = socketOf[y][r]
OBVIOUS

(* Where a port is bound is a place of the xsks_maps. *)
LEMMA Bound ==
  \A x \in Ports : /\ Iface(x) \in Programs /\ IfaceQueue(x) \in 0 .. NNic - 1
                   /\ x < NNic => Iface(x) = 0 /\ IfaceQueue(x) = x
                   /\ x \in Veths => Iface(x) = x /\ IfaceQueue(x) = 0
BY Constants DEF Ports, Iface, IfaceQueue, Programs, Veths

(* An ended process has no sockets. *)
LEMMA SocketsGone ==
  ASSUME socketOf' = NoSockets
  PROVE SocketsOK'
BY DEF NoSockets, SocketsOK, RedirectsToOwnPort

(* Sockets stay right while ports are added. *)
LEMMA SocketsKept ==
  ASSUME SocketsOK, UNCHANGED socketOf, ports \subseteq ports'
  PROVE SocketsOK'
BY DEF SocketsOK, RedirectsToOwnPort

(* An interface's queue leads to the port bound to it.                     *)
LEMMA SocketEntered ==
  ASSUME SocketsOK, NEW x \in ports, ports \subseteq Ports, UNCHANGED ports,
         socketOf' = [socketOf EXCEPT ![Iface(x)][IfaceQueue(x)] = x]
  PROVE SocketsOK'
<1>1. Iface(x) \in Programs /\ IfaceQueue(x) \in 0 .. NNic - 1 /\ x \in Ports BY Bound
<1>2. /\ socketOf' \in [Programs -> [0 .. NNic - 1 -> Ports \cup {None}]]
      /\ socketOf'[Iface(x)][IfaceQueue(x)] = x
      /\ \A y \in Programs, r \in 0 .. NNic - 1 :
           y # Iface(x) \/ r # IfaceQueue(x) => socketOf'[y][r] = socketOf[y][r]
  BY <1>1, SocketSet DEF SocketsOK
<1>3. ASSUME NEW y \in Programs, NEW r \in 0 .. NNic - 1, socketOf'[y][r] # None
      PROVE /\ socketOf'[y][r] \in ports
            /\ Iface(socketOf'[y][r]) = y /\ IfaceQueue(socketOf'[y][r]) = r
  <2>1. CASE y = Iface(x) /\ r = IfaceQueue(x) BY <1>2, <2>1
  <2>2. CASE y # Iface(x) \/ r # IfaceQueue(x)
    BY <1>2, <1>3, <2>2 DEF SocketsOK, RedirectsToOwnPort
  <2> QED BY <2>1, <2>2
<1> QED BY <1>2, <1>3 DEF SocketsOK, RedirectsToOwnPort, Iface, IfaceQueue

(* The kernel takes out a socket that is closed, the only one of its port. *)
LEMMA SocketClosed ==
  ASSUME SocketsOK, NEW x \in Ports, ports' = ports \ {x},
         socketOf' = [socketOf EXCEPT ![Iface(x)][IfaceQueue(x)] = None]
  PROVE SocketsOK'
<1>1. Iface(x) \in Programs /\ IfaceQueue(x) \in 0 .. NNic - 1 BY Bound
<1>2. /\ socketOf' \in [Programs -> [0 .. NNic - 1 -> Ports \cup {None}]]
      /\ socketOf'[Iface(x)][IfaceQueue(x)] = None
      /\ \A y \in Programs, r \in 0 .. NNic - 1 :
           y # Iface(x) \/ r # IfaceQueue(x) => socketOf'[y][r] = socketOf[y][r]
  BY <1>1, SocketSet DEF SocketsOK
<1>3. ASSUME NEW y \in Programs, NEW r \in 0 .. NNic - 1, socketOf'[y][r] # None
      PROVE /\ socketOf'[y][r] \in ports'
            /\ Iface(socketOf'[y][r]) = y /\ IfaceQueue(socketOf'[y][r]) = r
  <2>1. y # Iface(x) \/ r # IfaceQueue(x) BY <1>2, <1>3
  <2>2. /\ socketOf'[y][r] = socketOf[y][r] /\ socketOf[y][r] \in ports
        /\ Iface(socketOf[y][r]) = y /\ IfaceQueue(socketOf[y][r]) = r
    BY <1>2, <1>3, <2>1 DEF SocketsOK, RedirectsToOwnPort
  <2> QED BY <2>1, <2>2
<1> QED BY <1>2, <1>3 DEF SocketsOK, RedirectsToOwnPort, Iface, IfaceQueue

(* A queue of the NIC and a namespace have a port.                         *)
LEMMA QueuesArePorts == (\A i \in 0 .. NNic - 1 : i \in Ports) /\ (\A i \in Veths : i \in Ports)
BY Constants DEF Ports, Veths

(* What is entered belongs there, and goes when its port goes.             *)
LEMMA SocketsStep ==
  ASSUME ControlOK, MemoryOK, SocketsOK, [Next]_vars
  PROVE SocketsOK'
<1>1. CASE UNCHANGED vars BY <1>1, SocketsKept DEF vars, processVars
<1>2. CASE Start BY <1>2, SocketsKept DEF Start, Goto, processVars
<1>3. CASE Down BY <1>3, SocketsKept DEF Down, processVars
<1>4. CASE Kill BY <1>4, SocketsGone DEF Kill, Gone
<1>5. CASE Fail BY <1>5, SocketsGone DEF Fail, Gone
<1>6. CASE Attach BY <1>6, SocketsKept DEF Attach, NextProgram, processVars
<1>7. CASE AttachedAll BY <1>7, SocketsKept DEF AttachedAll, Goto, processVars
<1>8. CASE PortInit BY <1>8, SocketsKept DEF PortInit, processVars
<1>9. CASE EnterNic
  <2>1. /\ pc = "nic map" /\ k < NNic /\ UNCHANGED ports
        /\ socketOf' = [socketOf EXCEPT ![0][k] = k]
    BY <1>9 DEF EnterNic
  <2>2. ports = Ports BY <2>1 DEF MemoryOK
  <2>3. k \in Ports
    <3>1. k \in Loop(pc) BY DEF ControlOK
    <3>2. k \in Loop("nic map") BY <2>1, <3>1, Zenon
    <3>3. k \in 0 .. NNic - 1 BY <3>2, LoopIs, Zenon
    <3> QED BY <3>3, QueuesArePorts
  <2> QED BY <2>1, <2>2, <2>3, Bound, SocketEntered
<1>10. CASE EnterVeth
  <2>1. /\ pc = "veth maps" /\ k \in Veths /\ UNCHANGED ports
        /\ socketOf' = [socketOf EXCEPT ![k][0] = k]
    BY <1>10 DEF EnterVeth
  <2>2. ports = Ports BY <2>1 DEF MemoryOK
  <2>3. k \in Ports BY <2>1, QueuesArePorts
  <2> QED BY <2>1, <2>2, <2>3, Bound, SocketEntered
<1>11. CASE Maps BY <1>11, SocketsKept DEF Maps, Goto, processVars
<1>12. CASE WorkerLine BY <1>12, SocketsKept DEF WorkerLine, processVars
<1>13. CASE EndOfWorkers BY <1>13, SocketsKept DEF EndOfWorkers, Goto, processVars
<1>14. CASE RouteLine BY <1>14, SocketsKept DEF RouteLine, processVars
<1>15. CASE EndOfRoutes BY <1>15, SocketsKept DEF EndOfRoutes, processVars
<1>16. CASE Create BY <1>16, SocketsKept DEF Create, processVars
<1>17. CASE Quit BY <1>17, SocketsKept DEF Quit, Goto, processVars
<1>18. CASE Join BY <1>18, SocketsKept DEF Join, processVars
<1>19. CASE JoinNothing BY <1>19, SocketsGone DEF JoinNothing, Gone
<1>20. CASE FreePort BY <1>20, SocketClosed DEF FreePort
<1>21. CASE FreePool BY <1>21, SocketsKept DEF FreePool, Goto, processVars
<1>22. CASE DetachNic BY <1>22, SocketsKept DEF DetachNic, Detached, processVars
<1>23. CASE DetachVeth BY <1>23, SocketsKept DEF DetachVeth, Detached, processVars
<1>24. CASE Free BY <1>24, SocketsKept DEF Free, Goto, processVars
<1>25. CASE End BY <1>25, SocketsGone DEF End, Gone
<1>26. ASSUME NEW t \in Threads, ThreadStep(t) PROVE SocketsOK'
  BY <1>26, SocketsKept DEF ThreadStep, Wait, Room, ThreadEnds
<1> QED
  BY <1>1, <1>2, <1>3, <1>4, <1>5, <1>6, <1>7, <1>8, <1>9, <1>10, <1>11, <1>12, <1>13, <1>14, <1>15, <1>16, <1>17, <1>18, <1>19, <1>20, <1>21, <1>22, <1>23, <1>24, <1>25, <1>26 DEF Next, MainStep

(* The rows that are read stay read.                                       *)
LEMMA RowsKept ==
  ASSUME UNCHANGED matrix, NEW n
  PROVE RowsRead(n) => RowsRead(n)'
BY DEF RowsRead, NoRoutes, Elem

(* Where main is, and what must be true of the tables there.               *)
LEMMA TablesAt ==
  ASSUME MapsOK', LinesOK',
         pc' \in NoProcess \cup Starting => workers' = <<>>,
         pc' \in NoProcess \cup Starting \cup {"workers", "destroy queues"} => matrix' = <<>>,
         pc' \in Reading \cup Working \cup Ending =>
           ipData' = "live" /\ macData' = "live" /\ LinesFound',
         pc' = "routes" => RowsRead(k)',
         pc' \in Working \cup Ending => RowsRead(1)' \/ RowsRead(RouteLines + 1)'
  PROVE TablesOK'
BY DEF TablesOK

(* A step that leaves the tables alone goes on within a stage, or to one   *)
(* that asks no more of them.                                              *)
LEMMA TablesKept ==
  ASSUME TablesOK, UNCHANGED tableVars,
         pc' \in NoProcess \cup Starting => pc \in NoProcess \cup Starting,
         pc' \in NoProcess \cup Starting \cup {"workers", "destroy queues"} =>
           pc \in NoProcess \cup Starting \cup {"workers", "destroy queues"},
         pc' \in Reading \cup Working \cup Ending => pc \in Reading \cup Working \cup Ending,
         pc' = "routes" => pc = "routes" /\ UNCHANGED k,
         pc' \in Working \cup Ending =>
           pc \in Working \cup Ending \/ (pc = "routes" /\ k \in {1, RouteLines + 1})
  PROVE TablesOK'
<1>1. MapsOK' /\ LinesOK' /\ (LinesFound => LinesFound')
  BY MapsKept DEF TablesOK, tableVars
<1>2. UNCHANGED <<ipData, macData, workers, matrix>> BY DEF tableVars
<1>3. ASSUME pc' = "routes" PROVE RowsRead(k)'
  <2>1. PICK n : n = k /\ n = k' BY <1>3
  <2>2. RowsRead(n) BY <1>3, <2>1 DEF TablesOK
  <2>3. RowsRead(n)' BY <1>2, <2>2, RowsKept
  <2> QED BY <2>1, <2>3
<1>4. ASSUME pc' \in Working \cup Ending PROVE RowsRead(1)' \/ RowsRead(RouteLines + 1)'
  <2>1. RowsRead(1) \/ RowsRead(RouteLines + 1) BY <1>4 DEF TablesOK
  <2> QED BY <1>2, <2>1, RowsKept DEF RouteLines
<1>5. pc' \in NoProcess \cup Starting => workers' = <<>> BY <1>2 DEF TablesOK
<1>6. pc' \in NoProcess \cup Starting \cup {"workers", "destroy queues"} => matrix' = <<>>
  BY <1>2 DEF TablesOK
<1>7. pc' \in Reading \cup Working \cup Ending =>
        ipData' = "live" /\ macData' = "live" /\ LinesFound'
  BY <1>1, <1>2 DEF TablesOK
<1> QED BY <1>1, <1>3, <1>4, <1>5, <1>6, <1>7, TablesAt

(* They are lost with the process.                                         *)
LEMMA TablesGone ==
  ASSUME LoseTables, pc' \in NoProcess
  PROVE TablesOK'
<1>1. MapsOK' /\ LinesOK' /\ workers' = <<>> /\ matrix' = <<>> BY MapsLost
<1>2. pc' \notin Reading \cup Working \cup Ending /\ pc' # "routes"
  BY DEF NoProcess, Reading, Working, Ending
<1> QED BY <1>1, <1>2, TablesAt

(* The files are read in order, once, and before any thread looks.         *)
LEMMA TablesStep ==
  ASSUME ControlOK, TablesOK, [Next]_vars
  PROVE TablesOK'
<1>0. MapsOK /\ LinesOK BY DEF TablesOK
<1>1. CASE UNCHANGED vars
  <2>1. UNCHANGED tableVars /\ pc' = pc /\ k' = k BY <1>1 DEF vars
  <2> QED BY <2>1, TablesKept
<1>2. CASE Start
  <2>1. UNCHANGED tableVars /\ pc = "down" /\ pc' = "attach"
    BY <1>2 DEF Start, Goto
  <2> QED BY <2>1, TablesKept DEF NoProcess, Starting, Reading, Working, Ending
<1>3. CASE Down
  <2>1. UNCHANGED tableVars /\ pc \in NoProcess /\ pc' = "down"
    BY <1>3 DEF Down, NoProcess
  <2> QED BY <2>1, TablesKept DEF NoProcess, Starting, Reading, Working, Ending
<1>4. CASE Attach
  <2>1. UNCHANGED tableVars /\ pc = "attach" /\ pc' \in {"attach", "pool"}
    BY <1>4 DEF Attach
  <2> QED BY <2>1, TablesKept DEF NoProcess, Starting, Reading, Working, Ending
<1>5. CASE AttachedAll
  <2>1. UNCHANGED tableVars /\ pc = "pool" /\ pc' = "ports"
    BY <1>5 DEF AttachedAll, Goto
  <2> QED BY <2>1, TablesKept DEF NoProcess, Starting, Reading, Working, Ending
<1>6. CASE PortInit
  <2>1. UNCHANGED tableVars /\ pc = "ports" /\ pc' \in {"ports", "nic map"}
    BY <1>6 DEF PortInit
  <2> QED BY <2>1, TablesKept DEF NoProcess, Starting, Reading, Working, Ending
<1>7. CASE EnterNic
  <2>1. UNCHANGED tableVars /\ pc = "nic map" /\ pc' \in {"nic map", "veth maps", "tables"}
    BY <1>7 DEF EnterNic
  <2> QED BY <2>1, TablesKept DEF NoProcess, Starting, Reading, Working, Ending
<1>8. CASE EnterVeth
  <2>1. UNCHANGED tableVars /\ pc = "veth maps" /\ pc' \in {"veth maps", "tables"}
    BY <1>8 DEF EnterVeth
  <2> QED BY <2>1, TablesKept DEF NoProcess, Starting, Reading, Working, Ending
<1>9. CASE Create
  <2>1. UNCHANGED tableVars /\ pc = "create" /\ pc' \in {"create", "forward"}
    BY <1>9 DEF Create
  <2> QED BY <2>1, TablesKept DEF NoProcess, Starting, Reading, Working, Ending
<1>10. CASE Quit
  <2>1. UNCHANGED tableVars /\ pc = "forward" /\ pc' = "join"
    BY <1>10 DEF Quit, Goto
  <2> QED BY <2>1, TablesKept DEF NoProcess, Starting, Reading, Working, Ending
<1>11. CASE Join
  <2>1. UNCHANGED tableVars /\ pc = "join" /\ pc' \in {"join", "free ports"}
    BY <1>11 DEF Join
  <2> QED BY <2>1, TablesKept DEF NoProcess, Starting, Reading, Working, Ending
<1>12. CASE FreePort
  <2>1. UNCHANGED tableVars /\ pc = "free ports" /\ pc' \in {"free ports", "free pool"}
    BY <1>12 DEF FreePort
  <2> QED BY <2>1, TablesKept DEF NoProcess, Starting, Reading, Working, Ending
<1>13. CASE FreePool
  <2>1. UNCHANGED tableVars /\ pc = "free pool" /\ pc' = "detach nic"
    BY <1>13 DEF FreePool, Goto
  <2> QED BY <2>1, TablesKept DEF NoProcess, Starting, Reading, Working, Ending
<1>14. CASE DetachNic
  <2>1. UNCHANGED tableVars /\ pc = "detach nic" /\ pc' \in {"detach veths", "free tables"}
    BY <1>14 DEF DetachNic
  <2> QED BY <2>1, TablesKept DEF NoProcess, Starting, Reading, Working, Ending
<1>15. CASE DetachVeth
  <2>1. UNCHANGED tableVars /\ pc = "detach veths" /\ pc' \in {"detach veths", "free tables"}
    BY <1>15 DEF DetachVeth
  <2> QED BY <2>1, TablesKept DEF NoProcess, Starting, Reading, Working, Ending
<1>16. CASE EndOfRoutes
  <2>1. UNCHANGED tableVars /\ pc = "routes" /\ pc' = "create" /\ k \in {1, RouteLines + 1}
    BY <1>16 DEF EndOfRoutes
  <2> QED BY <2>1, TablesKept DEF NoProcess, Starting, Reading, Working, Ending
<1>17. CASE Kill
  <2>1. LoseTables /\ pc' = "killed" BY <1>17 DEF Kill, Gone
  <2> QED BY <2>1, TablesGone DEF NoProcess
<1>18. CASE Fail
  <2>1. LoseTables /\ pc' = "failed" BY <1>18 DEF Fail, Gone
  <2> QED BY <2>1, TablesGone DEF NoProcess
<1>19. CASE JoinNothing
  <2>1. LoseTables /\ pc' = "failed" BY <1>19 DEF JoinNothing, Gone
  <2> QED BY <2>1, TablesGone DEF NoProcess
<1>20. CASE End
  <2>1. LoseTables /\ pc' = "ended" BY <1>20 DEF End, Gone
  <2> QED BY <2>1, TablesGone DEF NoProcess
<1>21. CASE Maps
  <2>1. pc = "tables" /\ pc' = "workers" /\ InitMaps BY <1>21 DEF Maps, Goto
  <2>2. workers = <<>> /\ matrix = <<>> BY <2>1 DEF TablesOK, Starting
  <2>3. MapsOK' /\ LinesFound' /\ workers' = <<>> /\ ipData' = "live" /\ macData' = "live"
    BY <1>0, <2>1, <2>2, MapsMade
  <2>4. matrix' = <<>> BY <2>1, <2>2 DEF InitMaps
  <2>5. LinesOK' BY <1>0, <2>2, <2>3 DEF LinesOK
  <2> QED BY <2>1, <2>3, <2>4, <2>5, TablesAt DEF NoProcess, Starting, Reading, Working, Ending
<1>22. CASE WorkerLine
  <2>1. pc = "workers" /\ pc' = "workers" BY <1>22 DEF WorkerLine
  <2>2. PICK ip \in Ips, mac \in Macs : ReadWorker(ip, mac) BY <1>22 DEF WorkerLine
  <2>3. matrix = <<>> /\ LinesFound BY <2>1 DEF TablesOK, Reading
  <2>4. /\ MapsOK' /\ LinesOK' /\ LinesFound'
        /\ ipData' = "live" /\ macData' = "live" /\ matrix' = matrix
    BY <1>0, <2>2, <2>3, LineAdded
  <2> QED BY <2>1, <2>3, <2>4, TablesAt DEF NoProcess, Starting, Reading, Working, Ending
<1>23. CASE EndOfWorkers
  <2>1. pc = "workers" /\ pc' = "routes" /\ k' = 1 /\ NewMatrix
    BY <1>23 DEF EndOfWorkers, Goto
  <2>2. LinesFound /\ ipData = "live" /\ macData = "live" BY <2>1 DEF TablesOK, Reading
  <2>3. UNCHANGED <<ipData, ipCells, macData, macCells, workers>> BY <2>1 DEF NewMatrix
  <2>4. MapsOK' /\ LinesOK' /\ LinesFound' BY <1>0, <2>2, <2>3, MapsKept
  <2>5. RowsRead(1)' BY <2>1, MatrixMade
  <2>6. RowsRead(k)' BY <2>1, <2>5
  <2> QED BY <2>1, <2>2, <2>3, <2>4, <2>6, TablesAt DEF NoProcess, Starting, Reading, Working, Ending
<1>24. CASE RouteLine
  <2>1. pc = "routes" /\ pc' = "routes" /\ k <= RouteLines /\ ReadRoute(k) /\ k' = k + 1
    BY <1>24 DEF RouteLine
  <2>2. LinesFound /\ ipData = "live" /\ macData = "live" /\ RowsRead(k)
    BY <2>1 DEF TablesOK, Reading
  <2>3. UNCHANGED <<ipData, ipCells, macData, macCells, workers>> BY <2>1 DEF ReadRoute
  <2>4. MapsOK' /\ LinesOK' /\ LinesFound' BY <1>0, <2>2, <2>3, MapsKept
  <2>5. k \in 1 .. RouteLines + 1
    <3>1. k \in Loop("routes") BY <2>1 DEF ControlOK
    <3> QED BY <3>1, LoopIs, Zenon
  <2>6. PICK n \in 1 .. Len(RouteFile) : n = k /\ n + 1 = k'
    BY <2>1, <2>5, Constants DEF RouteLines
  <2>7. RowsRead(n + 1)' BY <2>1, <2>2, <2>6, RowAdded
  <2>8. RowsRead(k)' BY <2>6, <2>7
  <2> QED BY <2>1, <2>2, <2>3, <2>4, <2>8, TablesAt DEF NoProcess, Starting, Reading, Working, Ending
<1>25. CASE Free
  <2>1. pc' = "destroy queues" /\ FreeTables BY <1>25 DEF Free, Goto
  <2>2. MapsOK' /\ LinesOK' /\ matrix' = <<>> BY <1>0, <2>1, MapsFreed
  <2> QED BY <2>1, <2>2, TablesAt DEF NoProcess, Starting, Reading, Working, Ending
<1>26. ASSUME NEW t \in Threads, ThreadStep(t) PROVE TablesOK'
  <2>1. UNCHANGED tableVars /\ pc' = pc /\ k' = k BY <1>26 DEF ThreadStep, Wait, Room, ThreadEnds
  <2> QED BY <2>1, TablesKept
<1> QED
  BY <1>1, <1>2, <1>3, <1>4, <1>5, <1>6, <1>7, <1>8, <1>9, <1>10, <1>11, <1>12, <1>13, <1>14, <1>15, <1>16, <1>17, <1>18, <1>19, <1>20, <1>21, <1>22, <1>23, <1>24, <1>25, <1>26 DEF Next, MainStep
-----------------------------------------------------------------------------
(* The emulator is down at first. *)
LEMMA InvInit == Init => Inv
<1> SUFFICES ASSUME Init PROVE Inv OBVIOUS
<1>1. ControlOK
  <2>1. 0 \in Loop("down") BY LoopIs DEF NoProcess
  <2>2. 0 \in 0..MaxRuns BY Constants
  <2> QED BY <2>1, <2>2 DEF Init, ControlOK, Stages, NoProcess
<1>2. MemoryOK BY DEF Init, MemoryOK, NoProcess, Reading, Working, Ending
<1>3. ThreadsOK BY DEF Init, ThreadsOK, NoProcess, Starting, Reading, Working, Ending
<1>4. SocketsOK BY DEF Init, NoSockets, SocketsOK, RedirectsToOwnPort
<1>5. AttachedOK BY DEF Init, AttachedOK
<1>6. TablesOK
  <2>1. MapsOK /\ LinesOK /\ workers = <<>> /\ matrix = <<>> BY NoMaps DEF Init
  <2>2. pc = "down" BY DEF Init
  <2> QED BY <2>1, <2>2 DEF TablesOK, NoProcess, Starting, Reading, Working, Ending
<1> QED BY <1>1, <1>2, <1>3, <1>4, <1>5, <1>6 DEF Inv

(* Every state the emulator comes to has what main has made by then, and   *)
(* nothing that it has not made yet or has freed.                          *)
LEMMA LifecycleInvariant == Spec => []Inv
<1>1. Inv /\ [Next]_vars => Inv'
  <2> SUFFICES ASSUME Inv, [Next]_vars PROVE Inv' OBVIOUS
  <2>1. ControlOK' BY ControlStep DEF Inv
  <2>2. MemoryOK' BY MemoryStep DEF Inv
  <2>3. ThreadsOK' BY ThreadsStep DEF Inv
  <2>4. SocketsOK' BY SocketsStep DEF Inv
  <2>5. AttachedOK' BY AttachedStep DEF Inv
  <2>6. TablesOK' BY TablesStep DEF Inv
  <2> QED BY <2>1, <2>2, <2>3, <2>4, <2>5, <2>6 DEF Inv
<1> QED BY InvInit, <1>1, PTL DEF Spec

-----------------------------------------------------------------------------
(* What follows from it in each state. *)

(* The loop variable stays below the number of threads and lines.          *)
LEMMA LoopsBounded ==
  \A at, i : i \in Loop(at) => i \in 0 .. 2 * NNic + 2 * NVeth + RouteLines
<1> DEFINE Bounds == 0 .. 2 * NNic + 2 * NVeth + RouteLines
<1>1. Programs \subseteq Bounds BY Constants DEF Programs, Veths, RouteLines
<1>2. Ports \subseteq Bounds BY Constants DEF Ports, RouteLines
<1>3. Veths \subseteq Bounds BY Constants DEF Veths, RouteLines
<1>4. 0 .. NNic - 1 \subseteq Bounds BY Constants DEF RouteLines
<1>5. 1 .. RouteLines + 1 \subseteq Bounds BY Constants DEF RouteLines
<1>6. Threads \subseteq Bounds BY Constants DEF Threads, RouteLines
<1>7. 0 .. NNic + NVeth \subseteq Bounds BY Constants DEF RouteLines
<1>8. {0} \subseteq Bounds BY <1>1 DEF Programs
<1> HIDE DEF Bounds
<1>9. \A at : Loop(at) \subseteq Bounds
  BY <1>1, <1>2, <1>3, <1>4, <1>5, <1>6, <1>7, <1>8 DEF Loop
<1> QED BY <1>9 DEF Bounds

(* A matrix read so far is one. *)
LEMMA MatrixTyped ==
  ASSUME NEW n, RowsRead(n)
  PROVE matrix \in Seq(Nat \cup {Garbage}) /\ matrix # <<>>
<1>1. 1 \in 1..Rows /\ 1 \in 1..Cols BY TablesAssumption
<1>2. Rows * Cols # 0 /\ Rows * Cols \in Nat
  <2>1. Elem(1, 1) \in 1 .. Rows * Cols BY <1>1, ElemInside
  <2>2. Rows * Cols \in Nat BY TablesAssumption
  <2> QED BY <2>1, <2>2
<1> QED BY <1>2 DEF RowsRead

(* The matrix is there while threads run. *)
LEMMA MatrixOK ==
  ASSUME ControlOK, TablesOK
  PROVE /\ matrix \in Seq(Nat \cup {Garbage})
        /\ pc \in Working \cup Ending => matrix # <<>>
<1>1. CASE pc \in NoProcess \cup Starting \cup {"workers", "destroy queues"}
  <2>1. matrix = <<>> BY <1>1 DEF TablesOK
  <2>2. pc \notin Working \cup Ending BY <1>1 DEF NoProcess, Starting, Working, Ending
  <2> QED BY <2>1, <2>2
<1>2. CASE pc = "routes" BY <1>2, MatrixTyped DEF TablesOK, Working, Ending
<1>3. CASE pc \in Working \cup Ending BY <1>3, MatrixTyped DEF TablesOK
<1> QED BY <1>1, <1>2, <1>3 DEF ControlOK, Stages, Reading

(* The tables have their types. *)
LEMMA TablesTyped ==
  ASSUME ControlOK, TablesOK
  PROVE TablesTypeOK
<1>1. IpFacts!MapTypeOK /\ MacFacts!MapTypeOK
  BY DEF TablesOK, MapsOK, IpFacts!MapInv, MacFacts!MapInv
<1> QED BY <1>1, IpSame, MacSame, MatrixOK DEF TablesTypeOK, TablesOK, LinesOK, Lines

(* Each thread has a port. *)
LEMMA ThreadsHavePorts == \A t \in Threads : PortOf(t) \in Ports
BY Constants DEF Threads, PortOf, Ports

(* Two threads on the same side of a port are one.                         *)
LEMMA SidesApart ==
  \A t, u \in Threads : Side(t) = Side(u) /\ PortOf(t) = PortOf(u) => t = u
BY Constants DEF Threads, PortOf, Side

(* Each side of each port has a thread. *)
LEMMA SidesServed ==
  \A x \in Ports, side \in {"send", "receive"} : \E t \in Threads : Side(t) = side /\ PortOf(t) = x
<1> SUFFICES ASSUME NEW x \in Ports, NEW side \in {"send", "receive"}
             PROVE \E t \in Threads : Side(t) = side /\ PortOf(t) = x
  OBVIOUS
<1>1. CASE side = "receive"
  <2>1. NNic + x \in Threads /\ PortOf(NNic + x) = x /\ Side(NNic + x) = "receive"
    BY Constants DEF Threads, Ports, PortOf, Side
  <2> QED BY <1>1, <2>1
<1>2. CASE side = "send" /\ x < NNic
  <2>1. x \in Threads /\ PortOf(x) = x /\ Side(x) = "send"
    BY <1>2, Constants DEF Threads, Ports, PortOf, Side
  <2> QED BY <1>2, <2>1
<1>3. CASE side = "send" /\ ~ x < NNic
  <2>1. /\ NNic + NVeth + x \in Threads /\ PortOf(NNic + NVeth + x) = x
        /\ Side(NNic + NVeth + x) = "send"
    BY <1>3, Constants DEF Threads, Ports, PortOf, Side
  <2> QED BY <1>3, <2>1
<1> QED BY <1>1, <1>2, <1>3

-----------------------------------------------------------------------------
(* The types hold for any sizes and files. *)
THEOREM LifecycleTyped == Spec => []LifecycleTypeOK
<1>1. Inv => LifecycleTypeOK
  <2> SUFFICES ASSUME Inv PROVE LifecycleTypeOK OBVIOUS
  <2>1. TablesTypeOK BY TablesTyped DEF Inv
  <2>2. k \in 0 .. 2 * NNic + 2 * NVeth + RouteLines BY LoopsBounded DEF Inv, ControlOK
  <2> QED BY <2>1, <2>2
       DEF Inv, ControlOK, MemoryOK, ThreadsOK, SocketsOK, AttachedOK, LifecycleTypeOK
<1> QED BY <1>1, LifecycleInvariant, PTL

(* No thread outlives its port, the pool, the queues or the tables.        *)
THEOREM NoneDangling == Spec => []NothingDangling
<1>1. Inv => NothingDangling
  <2> SUFFICES ASSUME Inv PROVE NothingDangling OBVIOUS
  <2>1. ports # {} => pool
    BY DEF Inv, ControlOK, MemoryOK, Stages, NoProcess, Starting, Reading, Working, Ending
  <2>2. ASSUME NEW t \in Running
        PROVE PortOf(t) \in ports /\ pool /\ queues /\ TablesLive
    <3>1. pc \in Working
      BY <2>2 DEF Inv, ControlOK, ThreadsOK, Stages, Running
    <3>2. ports = Ports /\ pool /\ queues BY <3>1 DEF Inv, MemoryOK
    <3>3. TablesLive BY <3>1, MatrixOK DEF Inv, TablesOK, TablesLive
    <3> QED BY <2>2, <3>2, <3>3, ThreadsHavePorts DEF Running
  <2> QED BY <2>1, <2>2 DEF NothingDangling
<1> QED BY <1>1, LifecycleInvariant, PTL

(* A queue of an interface leads to the one port bound to it.              *)
THEOREM RedirectsRight == Spec => []RedirectsToOwnPort
<1>1. Inv => RedirectsToOwnPort BY DEF Inv, SocketsOK
<1> QED BY <1>1, LifecycleInvariant, PTL

(* Each side of a port has one thread, whatever the numbers of ports.      *)
THEOREM SidesHaveOneThread == Spec => []OneThreadPerSide
<1>1. OneThreadPerSide BY SidesApart, SidesServed DEF OneThreadPerSide, Running
<1> QED BY <1>1, PTL

(* A run that ends has detached the programs of all runs before it.        *)
THEOREM EndsClean == Spec => []EndLeavesNothing
<1>1. Inv => EndLeavesNothing BY DEF Inv, AttachedOK, EndLeavesNothing
<1> QED BY <1>1, LifecycleInvariant, PTL

(* The three tables agree on every packet while threads run.               *)
THEOREM TablesAgree == Spec => []TablesRight
<1>1. Inv => TablesRight
  <2> SUFFICES ASSUME Inv, pc \in {"create", "forward", "join"} PROVE LookupsRight
    BY DEF TablesRight
  <2>1. MapsOK /\ LinesOK /\ LinesFound /\ (RowsRead(1) \/ RowsRead(Len(RouteFile) + 1))
    BY DEF Inv, TablesOK, Working, RouteLines
  <2> QED BY <2>1, RightLookups
<1> QED BY <1>1, LifecycleInvariant, PTL
=============================================================================
