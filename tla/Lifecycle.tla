----------------------------- MODULE Lifecycle -----------------------------
(***************************************************************************)
(* The emulator's process from start to end: main of emu_nic.c with        *)
(* plumbing.h and the ends of mempool.h.  Any step of the start may fail,  *)
(* the process may be killed at any time (kill_opera.sh), and it is        *)
(* started again.  What belongs to the process goes with it; the XDP       *)
(* programs stay attached to their interfaces.                             *)
(***************************************************************************)
EXTENDS Tables

CONSTANTS NNic,    \* n_nic_ports
          NVeth,   \* num_of_nses
          MaxRuns  \* bound: starts of the emulator

ASSUME LifecycleAssumption == NNic \in Nat \ {0} /\ NVeth \in Nat /\ MaxRuns \in Nat

Ports == 0 .. NNic + NVeth - 1
Veths == NNic .. NNic + NVeth - 1  \* the ports on namespaces
Programs == {0} \cup Veths         \* xdp_prog: one serves all NIC queues
Threads == 0 .. 2 * NNic + 2 * NVeth - 1
RouteLines == Len(RouteFile)

(* port_params: interface, named by its program, and queue.                *)
Iface(x) == IF x < NNic THEN 0 ELSE x
IfaceQueue(x) == IF x < NNic THEN x ELSE 0

(* The order of thread_data: NIC senders, NIC receivers, then those of the *)
(* namespaces, receivers first.                                            *)
Side(t) == IF t < NNic \/ t >= 2 * NNic + NVeth THEN "send" ELSE "receive"

(* A slip: the ports are not counted from the first namespace again.       *)
PortOfOnward(t) == IF t < NNic THEN t ELSE (t - NNic) % (NNic + NVeth)
PortOf(t) == IF t < NNic THEN t
             ELSE IF t < 2 * NNic + NVeth THEN t - NNic
             ELSE t - NNic - NVeth

VARIABLES pc, k,     \* where main is, and its loop variable
          runs,      \* starts so far
          attached,  \* program -> the runs that attached it
          socketOf,  \* program -> queue -> port in this run's xsks_map
          pool,      \* whether the buffer pool exists
          ports,     \* the ports that exist
          queues,    \* whether the packet queues exist
          thread,    \* thread -> "none", "running", "waiting" or "done"
          quit       \* thread -> its flag

processVars == <<socketOf, pool, ports, queues, thread, quit>>
vars == <<pc, k, runs, attached, processVars, tableVars>>

NoSockets == [x \in Programs |-> [q \in 0 .. NNic - 1 |-> None]]

Init == /\ pc = "down" /\ k = 0 /\ runs = 0
        /\ attached = [x \in Programs |-> {}]
        /\ socketOf = NoSockets /\ pool = FALSE /\ ports = {} /\ queues = FALSE
        /\ thread = [t \in Threads |-> "none"]
        /\ quit = [t \in Threads |-> FALSE]
        /\ NoTables

Goto(from, to, i) == pc = from /\ pc' = to /\ k' = i

(* The process is gone with its memory, threads and sockets; the kernel    *)
(* takes a closed socket out of the xsks_map.                              *)
Gone(how) == /\ pc' = how /\ k' = 0
             /\ socketOf' = NoSockets /\ pool' = FALSE /\ ports' = {} /\ queues' = FALSE
             /\ thread' = [t \in Threads |-> "none"]
             /\ quit' = [t \in Threads |-> FALSE]
             /\ LoseTables
             /\ UNCHANGED <<runs, attached>>

(* start_opera.sh *)
Start == /\ Goto("down", "attach", 0)
         /\ runs < MaxRuns /\ runs' = runs + 1
         /\ UNCHANGED <<attached, processVars, tableVars>>

Down == /\ pc \in {"ended", "failed", "killed"}
        /\ pc' = "down" /\ k' = 0
        /\ UNCHANGED <<runs, attached, processVars, tableVars>>

(* kill_opera.sh sends SIGKILL; so do SIGINT and SIGTERM end the process   *)
(* until main has installed the handler that only sets a flag.             *)
Kill == pc \notin {"down", "ended", "failed", "killed"} /\ Gone("killed")
-----------------------------------------------------------------------------
(* Start: each step goes on to the next, or fails and ends the process     *)
(* where it stands, by exit in load_xdp_program and enter_xsks_into_map,   *)
(* by return in main.                                                      *)

Fail == pc \in {"attach", "pool", "ports", "nic map", "veth maps"} /\ Gone("failed")

NextProgram(x) == IF x = 0 THEN NNic ELSE x + 1

(* load_xdp_program *)
Attach == /\ pc = "attach" /\ k \in Programs
          /\ attached' = [attached EXCEPT ![k] = @ \cup {runs}]
          /\ k' = NextProgram(k)
          /\ pc' = IF k' \in Programs THEN pc ELSE "pool"
          /\ UNCHANGED <<runs, processVars, tableVars>>

AttachedAll == /\ Goto("pool", "ports", 0)
               /\ pool' = TRUE
               /\ UNCHANGED <<runs, attached, socketOf, ports, queues, thread, quit, tableVars>>

PortInit == /\ pc = "ports" /\ k \in Ports
            /\ ports' = ports \cup {k}
            /\ IF k + 1 \in Ports THEN k' = k + 1 /\ UNCHANGED pc ELSE k' = 0 /\ pc' = "nic map"
            /\ UNCHANGED <<runs, attached, socketOf, pool, queues, thread, quit, tableVars>>

(* A slip: all queues of the NIC lead to the first port. *)
EnterNicFirst == /\ pc = "nic map" /\ k < NNic
                 /\ socketOf' = [socketOf EXCEPT ![0][k] = 0]
                 /\ k' = k + 1
                 /\ pc' = IF k' < NNic THEN pc ELSE IF NVeth = 0 THEN "tables" ELSE "veth maps"
                 /\ UNCHANGED <<runs, attached, pool, ports, queues, thread, quit, tableVars>>

(* enter_xsks_into_map_for_nic: queue y of the NIC leads to the y-th port. *)
EnterNic == /\ pc = "nic map" /\ k < NNic
            /\ socketOf' = [socketOf EXCEPT ![0][k] = k]
            /\ k' = k + 1
            /\ pc' = IF k' < NNic THEN pc ELSE IF NVeth = 0 THEN "tables" ELSE "veth maps"
            /\ UNCHANGED <<runs, attached, pool, ports, queues, thread, quit, tableVars>>

(* enter_xsks_into_map *)
EnterVeth == /\ pc = "veth maps" /\ k \in Veths
             /\ socketOf' = [socketOf EXCEPT ![k][0] = k]
             /\ k' = k + 1
             /\ pc' = IF k' \in Veths THEN pc ELSE "tables"
             /\ UNCHANGED <<runs, attached, pool, ports, queues, thread, quit, tableVars>>

(* The files; one that cannot be opened is taken as empty.                 *)
Maps == Goto("tables", "workers", 0) /\ InitMaps /\ UNCHANGED <<runs, attached, processVars>>

WorkerLine == /\ pc = "workers"
              /\ \E ip \in Ips, mac \in Macs : ReadWorker(ip, mac)
              /\ UNCHANGED <<pc, k, runs, attached, processVars>>

EndOfWorkers == /\ Goto("workers", "routes", 1)
                /\ NewMatrix /\ UNCHANGED <<runs, attached, processVars>>

RouteLine == /\ pc = "routes" /\ k <= RouteLines
             /\ ReadRoute(k)
             /\ k' = k + 1
             /\ UNCHANGED <<pc, runs, attached, processVars>>

EndOfRoutes == /\ pc = "routes" /\ k \in {1, RouteLines + 1}
               /\ pc' = "create" /\ k' = 0
               /\ queues' = TRUE
               /\ UNCHANGED <<runs, attached, socketOf, pool, ports, thread, quit, tableVars>>

(* pthread_create; nobody looks at its status.                             *)
Create == /\ pc = "create" /\ k \in Threads
          /\ thread' \in {thread, [thread EXCEPT ![k] = "running"]}
          /\ IF k + 1 \in Threads THEN k' = k + 1 /\ UNCHANGED pc ELSE k' = 0 /\ pc' = "forward"
          /\ UNCHANGED <<runs, attached, socketOf, pool, ports, queues, quit, tableVars>>
-----------------------------------------------------------------------------
(* The end *)

(* The running time is over: thread_data[i].quit = 1 for each.  A slip:    *)
(* for each port.                                                          *)
QuitByPort == /\ Goto("forward", "join", 0)
              /\ quit' = [t \in Threads |-> t \in Ports]
              /\ UNCHANGED <<runs, attached, socketOf, pool, ports, queues, thread, tableVars>>

Quit == /\ Goto("forward", "join", 0)
        /\ quit' = [t \in Threads |-> TRUE]
        /\ UNCHANGED <<runs, attached, socketOf, pool, ports, queues, thread, tableVars>>

(* A sending thread finds no room in the TX ring: the loop it waits in     *)
(* (port_tx_burst_collector) does not read quit.                           *)
Wait(t) == /\ thread[t] = "running" /\ Side(t) = "send"
           /\ thread' = [thread EXCEPT ![t] = "waiting"]
           /\ UNCHANGED <<pc, k, runs, attached, socketOf, pool, ports, queues, quit, tableVars>>

(* The kernel has made room.                                               *)
Room(t) == /\ thread[t] = "waiting"
           /\ thread' = [thread EXCEPT ![t] = "running"]
           /\ UNCHANGED <<pc, k, runs, attached, socketOf, pool, ports, queues, quit, tableVars>>

(* A thread comes to the head of its loop.                                 *)
ThreadEnds(t) == /\ thread[t] = "running" /\ quit[t]
                 /\ thread' = [thread EXCEPT ![t] = "done"]
                 /\ UNCHANGED <<pc, k, runs, attached, socketOf, pool, ports, queues, quit, tableVars>>

(* A slip: main does not wait for the threads.                             *)
JoinWithoutWaiting ==
  /\ pc = "join" /\ k \in Threads /\ thread[k] # "none"
  /\ IF k + 1 \in Threads THEN k' = k + 1 /\ UNCHANGED pc ELSE k' = 0 /\ pc' = "free ports"
  /\ UNCHANGED <<runs, attached, processVars, tableVars>>

Join == /\ pc = "join" /\ k \in Threads /\ thread[k] = "done"
        /\ IF k + 1 \in Threads THEN k' = k + 1 /\ UNCHANGED pc ELSE k' = 0 /\ pc' = "free ports"
        /\ UNCHANGED <<runs, attached, processVars, tableVars>>

(* pthread_join of a thread that was never created reads through a null    *)
(* handle.                                                                 *)
JoinNothing == pc = "join" /\ thread[k] = "none" /\ Gone("failed")

(* port_free closes the socket and returns the port's cache to the pool.   *)
FreePort == /\ pc = "free ports" /\ k \in Ports
            /\ ports' = ports \ {k}
            /\ socketOf' = [socketOf EXCEPT ![Iface(k)][IfaceQueue(k)] = None]
            /\ IF k + 1 \in Ports THEN k' = k + 1 /\ UNCHANGED pc ELSE k' = 0 /\ pc' = "free pool"
            /\ UNCHANGED <<runs, attached, pool, queues, thread, quit, tableVars>>

FreePool == /\ Goto("free pool", "detach nic", 0)
            /\ pool' = FALSE
            /\ UNCHANGED <<runs, attached, socketOf, ports, queues, thread, quit, tableVars>>

(* xdp_multiprog__detach removes every program of the interface, those of  *)
(* earlier runs as well.  A slip: only this run's.                         *)
DetachedOwn(x) == attached' = [attached EXCEPT ![x] = @ \ {runs}]
Detached(x) == attached' = [attached EXCEPT ![x] = {}]

DetachNic == /\ pc = "detach nic"
             /\ Detached(0)
             /\ k' = NNic
             /\ pc' = IF NVeth = 0 THEN "free tables" ELSE "detach veths"
             /\ UNCHANGED <<runs, processVars, tableVars>>

DetachVeth == /\ pc = "detach veths" /\ k \in Veths
              /\ Detached(k)
              /\ k' = k + 1
              /\ pc' = IF k' \in Veths THEN pc ELSE "free tables"
              /\ UNCHANGED <<runs, processVars, tableVars>>

Free == /\ Goto("free tables", "destroy queues", 0)
        /\ FreeTables /\ UNCHANGED <<runs, attached, processVars>>

(* mpmc_queue_destroy of all, and main returns.                            *)
End == pc = "destroy queues" /\ Gone("ended")
-----------------------------------------------------------------------------
MainStep == \/ Attach \/ AttachedAll \/ PortInit \/ EnterNic \/ EnterVeth
            \/ Maps \/ WorkerLine \/ EndOfWorkers \/ RouteLine \/ EndOfRoutes
            \/ Create \/ Quit \/ Join \/ JoinNothing
            \/ FreePort \/ FreePool \/ DetachNic \/ DetachVeth \/ Free \/ End

ThreadStep(t) == Wait(t) \/ Room(t) \/ ThreadEnds(t)

Next == Start \/ Down \/ Kill \/ Fail \/ MainStep \/ \E t \in Threads : ThreadStep(t)

Spec == Init /\ [][Next]_vars

(* main runs on, and its running time passes.  A round of a thread has a   *)
(* bounded number of bursts, so that the thread main waits for comes back  *)
(* to the head of its loop if it is again and again out of the wait for    *)
(* room: nothing makes the kernel give room.                               *)
Awaited == pc = "join" /\ ThreadEnds(k)

FairSpec == Spec /\ WF_vars(MainStep) /\ SF_vars(Awaited)
-----------------------------------------------------------------------------
(* Correctness *)

LifecycleTypeOK ==
  /\ TablesTypeOK
  /\ k \in 0 .. 2 * NNic + 2 * NVeth + RouteLines
  /\ runs \in 0..MaxRuns /\ attached \in [Programs -> SUBSET (1..runs)]
  /\ socketOf \in [Programs -> [0 .. NNic - 1 -> Ports \cup {None}]]
  /\ pool \in BOOLEAN /\ ports \subseteq Ports /\ queues \in BOOLEAN
  /\ thread \in [Threads -> {"none", "running", "waiting", "done"}]
  /\ quit \in [Threads -> BOOLEAN]

Running == {t \in Threads : thread[t] \in {"running", "waiting"}}

(***************************************************************************)
(* No thread outlives what it works on: while it runs, its port, the pool, *)
(* the packet queues and the tables are there.  Main frees them in another *)
(* order than it made them, and only the joins keep them apart.            *)
(***************************************************************************)
NothingDangling ==
  /\ ports # {} => pool
  /\ \A t \in Running : PortOf(t) \in ports /\ pool /\ queues /\ TablesLive

(***************************************************************************)
(* What a program's xsks_map holds for a queue is a socket bound to that   *)
(* interface and that queue, the only one the kernel will redirect to.     *)
(***************************************************************************)
RedirectsToOwnPort ==
  \A x \in Programs, q \in 0 .. NNic - 1 : socketOf[x][q] # None =>
    LET port == socketOf[x][q]
    IN port \in ports /\ Iface(port) = x /\ IfaceQueue(port) = q

(***************************************************************************)
(* The rings and the caches of a port take no locks: of the threads that   *)
(* run, no two receive from one port and no two send on one.  While all    *)
(* run, every port has both.                                               *)
(***************************************************************************)
OneThreadPerSide ==
  /\ \A t, u \in Running : t # u /\ Side(t) = Side(u) => PortOf(t) # PortOf(u)
  /\ Running = Threads => \A x \in Ports, side \in {"send", "receive"} :
                            \E t \in Threads : Side(t) = side /\ PortOf(t) = x

(***************************************************************************)
(* A run that ends by itself leaves no program on an interface, not even   *)
(* those of runs that were killed or failed before it.                     *)
(***************************************************************************)
EndLeavesNothing == pc = "ended" => \A x \in Programs : attached[x] = {}

(***************************************************************************)
(* The tables are right while threads may look things up in them.          *)
(***************************************************************************)
TablesRight == pc \in {"create", "forward", "join"} => LookupsRight

(***************************************************************************)
(* When the running time is over the process ends, or main joins a thread  *)
(* for ever that waits for ever for room in its TX ring (PortRings has the *)
(* condition under which none does): each thread that main waits for has   *)
(* been told to stop, and a thread that does not exist ends the process.   *)
(***************************************************************************)
Stuck == pc = "join" /\ thread[k] = "waiting"

RunEnds == pc = "forward" ~> (pc \in {"ended", "failed", "killed"} \/ []Stuck)
=============================================================================
