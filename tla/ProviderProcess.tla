-------------------------- MODULE ProviderProcess --------------------------
(***************************************************************************)
(* The life of the provider's process on a node (main.go,                  *)
(* server/healthz.go): it replaces the socket at which the CSI driver      *)
(* finds it, serves Mount, answers the kubelet's health checks, and stops  *)
(* when it is told to.  Two processes can overlap when a pod is deleted by *)
(* force: they share the path of the socket, which lies on the host, and   *)
(* the port, since the pod uses the host's network.                        *)
(***************************************************************************)
EXTENDS Naturals

CONSTANTS
  Procs,     \* processes
  NoProc,    \* no process
  Program,   \* another program of the node that may hold the port
  Calls,     \* Mount calls the driver may have open
  Threshold, \* health checks that fail before the kubelet restarts
  MaxFaults  \* bound: faults, deletions and requests to stop

ASSUME ProcsAssumption == NoProc \notin Procs /\ Program \notin Procs /\ Program # NoProc
ASSUME BoundAssumption == Threshold \in Nat \ {0} /\ MaxFaults \in Nat

VARIABLES
  pc,      \* what main does in each process
  grpc,    \* the goroutine that serves the socket
  health,  \* the goroutine of the health server
  signal,  \* a signal is in the channel
  asked,   \* the kubelet has told the process to stop
  socket,  \* the process whose listener made the socket file, dead or alive
  port,    \* who holds the health port
  current, \* the process of the pod that the kubelet runs
  conn,    \* the process the driver is connected to
  calls,   \* the process that works on each call
  misses,  \* health checks failed in a row
  faults   \* faults so far

process == <<pc, grpc, health, signal, asked>>
driver == <<conn, calls>>
vars == <<process, socket, port, current, driver, misses, faults>>

\* The types of the variables: no goroutine runs before its process listens or
\* after its end.
TypeOK ==
  /\ pc \in [Procs -> {"off", "remove", "listen", "launch", "wait", "close", "unlink"}]
  /\ grpc \in [Procs -> {"none", "starting", "serving"}]
  /\ health \in [Procs -> {"none", "starting", "serving", "failed"}]
  /\ signal \in [Procs -> BOOLEAN]
  /\ asked \in [Procs -> BOOLEAN]
  /\ socket \in Procs \cup {NoProc}
  /\ port \in Procs \cup {NoProc, Program}
  /\ current \in Procs
  /\ conn \in Procs \cup {NoProc}
  /\ calls \in [Calls -> Procs \cup {NoProc}]
  /\ misses \in 0 .. Threshold
  /\ faults \in 0 .. MaxFaults
  /\ \A p \in Procs : pc[p] \in {"off", "remove", "listen", "launch"} =>
       grpc[p] = "none" /\ health[p] = "none"

Init ==
  /\ pc = [p \in Procs |-> "off"]
  /\ grpc = [p \in Procs |-> "none"]
  /\ health = [p \in Procs |-> "none"]
  /\ signal = [p \in Procs |-> FALSE]
  /\ asked = [p \in Procs |-> FALSE]
  /\ socket = NoProc
  /\ port = NoProc
  /\ current \in Procs
  /\ conn = NoProc
  /\ calls = [c \in Calls |-> NoProc]
  /\ misses = 0
  /\ faults = 0

-----------------------------------------------------------------------------
(* The process.                                                            *)

Goto(p, l) == pc' = [pc EXCEPT ![p] = l]

\* The process is gone, with its goroutines, its port and its connections.
\* The socket file is not.
Exit(p) ==
  /\ Goto(p, "off")
  /\ grpc' = [grpc EXCEPT ![p] = "none"]
  /\ health' = [health EXCEPT ![p] = "none"]
  /\ signal' = [signal EXCEPT ![p] = FALSE]
  /\ asked' = [asked EXCEPT ![p] = FALSE]
  /\ port' = IF port = p THEN NoProc ELSE port
  /\ conn' = IF conn = p THEN NoProc ELSE conn
  /\ calls' = [c \in Calls |-> IF calls[c] = p THEN NoProc ELSE calls[c]]
  /\ UNCHANGED current

\* Mutated RemoveStale: the socket of a process that crashed is left there.
RemoveStale_Keep(p) ==
  /\ pc[p] = "remove"
  /\ Goto(p, "listen")
  /\ UNCHANGED <<grpc, health, signal, asked, socket, port, current, driver, misses, faults>>

\* Whatever is at the path of the socket is removed.
RemoveStale(p) ==
  /\ pc[p] = "remove"
  /\ socket' = NoProc
  /\ Goto(p, "listen")
  /\ UNCHANGED <<grpc, health, signal, asked, port, current, driver, misses, faults>>

\* net.Listen fails if the path is there, and the process with it.
Listen(p) ==
  /\ pc[p] = "listen"
  /\ IF socket = NoProc
     THEN /\ socket' = p
          /\ Goto(p, "launch")
          /\ UNCHANGED <<grpc, health, signal, asked, port, current, driver>>
     ELSE Exit(p) /\ UNCHANGED socket
  /\ UNCHANGED <<misses, faults>>

\* Mutated Launch: the health server is started without waiting for the socket.
Launch_Early(p) ==
  /\ pc[p] \in {"listen", "launch"}
  /\ Goto(p, IF pc[p] = "launch" THEN "wait" ELSE "listen")
  /\ grpc' = [grpc EXCEPT ![p] = IF pc[p] = "launch" THEN "starting" ELSE @]
  /\ health' = [health EXCEPT ![p] = "starting"]
  /\ UNCHANGED <<signal, asked, socket, port, current, driver, misses, faults>>

\* The server and the health server get a goroutine each.
Launch(p) ==
  /\ pc[p] = "launch"
  /\ Goto(p, "wait")
  /\ grpc' = [grpc EXCEPT ![p] = "starting"]
  /\ health' = [health EXCEPT ![p] = "starting"]
  /\ UNCHANGED <<signal, asked, socket, port, current, driver, misses, faults>>

Serve(p) ==
  /\ grpc[p] = "starting"
  /\ pc[p] # "unlink"
  /\ grpc' = [grpc EXCEPT ![p] = "serving"]
  /\ UNCHANGED <<pc, health, signal, asked, socket, port, current, driver, misses, faults>>

\* Accept fails once the listener is closed, and the goroutine ends the process.
ServeFails(p) ==
  /\ grpc[p] # "none"
  /\ pc[p] = "unlink"
  /\ Exit(p)
  /\ UNCHANGED <<socket, misses, faults>>

\* If the port is taken the goroutine ends, and only it: the error that it
\* looks for is another one.
ServeHealth(p) ==
  /\ health[p] = "starting"
  /\ IF port = NoProc
     THEN port' = p /\ health' = [health EXCEPT ![p] = "serving"]
     ELSE health' = [health EXCEPT ![p] = "failed"] /\ UNCHANGED port
  /\ UNCHANGED <<pc, grpc, signal, asked, socket, current, driver, misses, faults>>

\* GracefulStop is called on a server that was never set, and panics; what
\* main has deferred runs.
Shutdown(p) ==
  /\ pc[p] = "wait"
  /\ signal[p]
  /\ Goto(p, "close")
  /\ UNCHANGED <<grpc, health, signal, asked, socket, port, current, driver, misses, faults>>

\* Closing the listener unlinks the path, whosever socket is there now.
CloseListener(p) ==
  /\ pc[p] = "close"
  /\ socket' = NoProc
  /\ Goto(p, "unlink")
  /\ UNCHANGED <<grpc, health, signal, asked, port, current, driver, misses, faults>>

\* The path is removed once more, and the panic ends the process.
Unlink(p) ==
  /\ pc[p] = "unlink"
  /\ socket' = NoProc
  /\ Exit(p)
  /\ UNCHANGED <<misses, faults>>

Main(p) ==
  RemoveStale(p) \/ Listen(p) \/ Launch(p) \/ Shutdown(p) \/ CloseListener(p) \/ Unlink(p)

-----------------------------------------------------------------------------
(* The health check, and the kubelet (external).                           *)

\* Whoever dials the path gets an answer.
Reachable == socket # NoProc /\ grpc[socket] = "serving" /\ pc[socket] # "unlink"

\* Mutated CheckRPC: a health check waits behind the calls, and times out.
CheckRPC_Queued == Reachable /\ \A c \in Calls : calls[c] = NoProc

\* ServeHTTP dials the path of the socket, and Check says SERVING.
CheckRPC == Reachable

\* The kubelet starts the process of its pod, which asks for signals first.
Start(p) ==
  /\ current = p
  /\ pc[p] = "off"
  /\ Goto(p, "remove")
  /\ misses' = 0
  /\ UNCHANGED <<grpc, health, signal, asked, socket, port, current, driver, faults>>

\* Mutated Deliver: the channel has no room, the signal waits for its reader.
Deliver_Unbuffered(p) == pc[p] = "wait"

\* The channel has room for a signal that main does not wait for yet.
Deliver(p) == TRUE

Stop(p) ==
  /\ pc[p] # "off"
  /\ ~asked[p]
  /\ asked' = [asked EXCEPT ![p] = TRUE]
  /\ signal' = [signal EXCEPT ![p] = Deliver(p)]
  /\ UNCHANGED <<pc, grpc, health, socket, port, driver>>

\* The kubelet asks the port of the node, once the process has had its time to
\* start.  Another program that holds the port knows nothing of the path.
Probe ==
  /\ pc[current] = "wait"
  /\ ~asked[current]
  /\ grpc[current] = "serving" /\ health[current] # "starting"
  /\ misses < Threshold
  /\ misses' = IF port \in Procs /\ CheckRPC THEN 0 ELSE misses + 1
  /\ UNCHANGED <<process, socket, port, current, driver, faults>>

RestartUnhealthy ==
  /\ misses = Threshold
  /\ Stop(current)
  /\ UNCHANGED <<current, misses, faults>>

Fault == faults < MaxFaults /\ faults' = faults + 1

\* The pod is updated, drained or deleted.
Terminate == Fault /\ Stop(current) /\ UNCHANGED <<current, misses>>

\* The pod is deleted by force: another is started beside it.
Replace(p) ==
  /\ Fault
  /\ pc[p] = "off" /\ p # current
  /\ Stop(current)
  /\ current' = p
  /\ UNCHANGED misses

\* SIGKILL, out of memory: nothing that was deferred runs.
Kill(p) ==
  /\ Fault
  /\ pc[p] # "off"
  /\ Exit(p)
  /\ UNCHANGED <<socket, misses>>

\* The grace period is over.
KillAfterGrace(p) == asked[p] /\ Exit(p) /\ UNCHANGED <<socket, misses, faults>>

ProgramTakesPort ==
  /\ Fault
  /\ port = NoProc
  /\ port' = Program
  /\ UNCHANGED <<process, socket, current, driver, misses>>

ProgramFreesPort ==
  /\ port = Program
  /\ port' = NoProc
  /\ UNCHANGED <<process, socket, current, driver, misses, faults>>

-----------------------------------------------------------------------------
(* The driver (external).                                                  *)

\* A call goes over the connection there is, or over a new one to the socket.
Mount(c) ==
  /\ calls[c] = NoProc
  /\ \/ conn # NoProc /\ UNCHANGED conn
     \/ conn = NoProc /\ Reachable /\ conn' = socket
  /\ calls' = [calls EXCEPT ![c] = conn']
  /\ UNCHANGED <<process, socket, port, current, misses, faults>>

Return(c) ==
  /\ calls[c] # NoProc
  /\ calls' = [calls EXCEPT ![c] = NoProc]
  /\ UNCHANGED <<process, socket, port, current, conn, misses, faults>>

\* A handler panics, as it does when an entry of the object list is empty:
\* nothing recovers, and main's deferred functions are not those that run.
HandlerPanics(c) ==
  /\ Fault
  /\ calls[c] # NoProc
  /\ Exit(calls[c])
  /\ UNCHANGED <<socket, misses>>

Next ==
  \/ \E p \in Procs : \/ Main(p) \/ Serve(p) \/ ServeFails(p) \/ ServeHealth(p)
                      \/ Start(p) \/ Replace(p) \/ Kill(p) \/ KillAfterGrace(p)
  \/ Probe \/ RestartUnhealthy \/ Terminate \/ ProgramTakesPort \/ ProgramFreesPort
  \/ \E c \in Calls : Mount(c) \/ Return(c) \/ HandlerPanics(c)

Spec == Init /\ [][Next]_vars

\* Goroutines are scheduled, and the kubelet starts, probes and restarts.
FairSpec ==
  /\ Spec
  /\ \A p \in Procs : /\ WF_vars(Main(p)) /\ WF_vars(Start(p))
                      /\ WF_vars(Serve(p)) /\ WF_vars(ServeHealth(p))
  /\ WF_vars(Probe) /\ WF_vars(RestartUnhealthy)

-----------------------------------------------------------------------------
(* Properties.                                                             *)

\* The driver finds the process of the pod, and the kubelet its health server.
Ready ==
  /\ pc[current] = "wait" /\ ~asked[current]
  /\ socket = current /\ grpc[current] = "serving"
  /\ conn \in {NoProc, current}
  /\ port = current

\* Nothing is left of the processes before it: of those that ended late, nor of
\* those that were killed.
Alone == \A p \in Procs \ {current} : pc[p] = "off"

\* A provider that is ready and alone stays ready until something goes wrong: no
\* goroutine of its own and no health check takes the socket, the port or the
\* connection from it, and the kubelet does not restart it.
StaysReady == [][Ready /\ Alone /\ faults' = faults => Ready']_vars

\* After crashes at any point, pods that overlap and a port that was taken, the
\* provider comes back for good, unless the port is never free.
Recovers == <>[](port # Program) => <>[]Ready

\* A process that is told to stop stops by itself, even if it is told before it
\* waits for signals.
StopsWhenAsked == \A p \in Procs : asked[p] ~> pc[p] = "off"

\* "gracefully stop the grpc server" (main.go): when a process that was told to
\* stop comes to its deferred cleanup, it has no call open any more.
StopsGracefully ==
  \A p \in Procs : pc[p] \in {"close", "unlink"} => \A c \in Calls : calls[c] # p
=============================================================================
