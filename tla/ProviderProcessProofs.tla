------------------------ MODULE ProviderProcessProofs ------------------------
(***************************************************************************)
(* What holds of ProviderProcess for any number of processes and calls: its *)
(* types, and that a provider that is ready stays so.                      *)
(***************************************************************************)
EXTENDS ProviderProcess, TLAPS

\* Ending a process keeps the types.
LEMMA ExitTypes ==
  ASSUME TypeOK, NEW p \in Procs, Exit(p),
         socket' \in Procs \cup {NoProc}, misses' \in 0 .. Threshold,
         faults' \in 0 .. MaxFaults
  PROVE  TypeOK'
<1>1. /\ pc' = [pc EXCEPT ![p] = "off"]
      /\ grpc' = [grpc EXCEPT ![p] = "none"]
      /\ health' = [health EXCEPT ![p] = "none"]
      /\ signal' = [signal EXCEPT ![p] = FALSE]
      /\ asked' = [asked EXCEPT ![p] = FALSE]
      /\ port' = IF port = p THEN NoProc ELSE port
      /\ conn' = IF conn = p THEN NoProc ELSE conn
      /\ calls' = [c \in Calls |-> IF calls[c] = p THEN NoProc ELSE calls[c]]
      /\ current' = current
  BY DEF Exit, Goto
<1>2. /\ pc' \in [Procs -> {"off", "remove", "listen", "launch", "wait", "close", "unlink"}]
      /\ grpc' \in [Procs -> {"none", "starting", "serving"}]
      /\ health' \in [Procs -> {"none", "starting", "serving", "failed"}]
  BY <1>1 DEF TypeOK
<1>3. signal' \in [Procs -> BOOLEAN] /\ asked' \in [Procs -> BOOLEAN]
  BY <1>1 DEF TypeOK
<1>4. /\ port' \in Procs \cup {NoProc, Program} /\ conn' \in Procs \cup {NoProc}
      /\ current' \in Procs
  BY <1>1 DEF TypeOK
<1>5. calls' \in [Calls -> Procs \cup {NoProc}]
  BY <1>1 DEF TypeOK
<1>6. \A q \in Procs : pc'[q] \in {"off", "remove", "listen", "launch"} =>
        grpc'[q] = "none" /\ health'[q] = "none"
  BY <1>1 DEF TypeOK
<1> QED
  BY <1>2, <1>3, <1>4, <1>5, <1>6 DEF TypeOK

\* So does asking one to stop, which changes only what is in its channel.
LEMMA StopTypes ==
  ASSUME TypeOK, NEW p \in Procs, Stop(p), current' \in Procs,
         misses' \in 0 .. Threshold, faults' \in 0 .. MaxFaults
  PROVE  TypeOK'
<1>1. signal' \in [Procs -> BOOLEAN] /\ asked' \in [Procs -> BOOLEAN]
  BY DEF Stop, Deliver, TypeOK
<1> QED
  BY <1>1 DEF Stop, TypeOK, driver

\* A fault is one more of those that are allowed.
LEMMA FaultCounts ==
  ASSUME TypeOK, Fault
  PROVE  faults' \in 0 .. MaxFaults
<1> QED
  BY BoundAssumption DEF Fault, TypeOK

\* The steps of main and of the goroutines.
LEMMA ProcessTypes ==
  ASSUME TypeOK, NEW p \in Procs, Main(p) \/ Serve(p) \/ ServeFails(p) \/ ServeHealth(p)
  PROVE  TypeOK'
<1>1. CASE RemoveStale(p)
  BY <1>1 DEF RemoveStale, Goto, TypeOK, driver
<1>2. CASE Listen(p)
  <2>1. CASE socket = NoProc
    BY <1>2, <2>1 DEF Listen, Goto, TypeOK, driver
  <2>2. CASE socket # NoProc
    BY <1>2, <2>2, ExitTypes DEF Listen, TypeOK
  <2> QED
    BY <2>1, <2>2
<1>3. CASE Launch(p)
  BY <1>3 DEF Launch, Goto, TypeOK, driver
<1>4. CASE Shutdown(p)
  BY <1>4 DEF Shutdown, Goto, TypeOK, driver
<1>5. CASE CloseListener(p)
  BY <1>5 DEF CloseListener, Goto, TypeOK, driver
<1>6. CASE Unlink(p)
  BY <1>6, ExitTypes DEF Unlink, TypeOK
<1>7. CASE Serve(p)
  BY <1>7 DEF Serve, TypeOK, driver
<1>8. CASE ServeFails(p)
  BY <1>8, ExitTypes DEF ServeFails, TypeOK
<1>9. CASE ServeHealth(p)
  BY <1>9 DEF ServeHealth, TypeOK, driver
<1> QED
  BY <1>1, <1>2, <1>3, <1>4, <1>5, <1>6, <1>7, <1>8, <1>9 DEF Main

\* The steps of the kubelet and of another program.
LEMMA KubeletTypes ==
  ASSUME TypeOK,
         \/ \E p \in Procs : Start(p) \/ Replace(p) \/ Kill(p) \/ KillAfterGrace(p)
         \/ Probe \/ RestartUnhealthy \/ Terminate \/ ProgramTakesPort \/ ProgramFreesPort
  PROVE  TypeOK'
<1>1. ASSUME NEW p \in Procs, Start(p) PROVE TypeOK'
  BY <1>1, BoundAssumption DEF Start, Goto, TypeOK, driver
<1>2. ASSUME NEW p \in Procs, Replace(p) PROVE TypeOK'
  <2>1. faults' \in 0 .. MaxFaults
    BY <1>2, FaultCounts DEF Replace
  <2>2. PICK q \in Procs : Stop(q)
    BY <1>2 DEF Replace, TypeOK
  <2> QED
    BY <1>2, <2>1, <2>2, StopTypes DEF Replace, TypeOK
<1>3. ASSUME NEW p \in Procs, Kill(p) PROVE TypeOK'
  BY <1>3, ExitTypes, FaultCounts DEF Kill, TypeOK
<1>4. ASSUME NEW p \in Procs, KillAfterGrace(p) PROVE TypeOK'
  BY <1>4, ExitTypes DEF KillAfterGrace, TypeOK
<1>5. CASE Probe
  BY <1>5, BoundAssumption DEF Probe, TypeOK, process, driver
<1>6. CASE RestartUnhealthy
  <2>1. PICK q \in Procs : Stop(q)
    BY <1>6 DEF RestartUnhealthy, TypeOK
  <2> QED
    BY <1>6, <2>1, StopTypes DEF RestartUnhealthy, TypeOK
<1>7. CASE Terminate
  <2>1. faults' \in 0 .. MaxFaults
    BY <1>7, FaultCounts DEF Terminate
  <2>2. PICK q \in Procs : Stop(q)
    BY <1>7 DEF Terminate, TypeOK
  <2> QED
    BY <1>7, <2>1, <2>2, StopTypes DEF Terminate, TypeOK
<1>8. CASE ProgramTakesPort
  BY <1>8, FaultCounts DEF ProgramTakesPort, TypeOK, process, driver
<1>9. CASE ProgramFreesPort
  BY <1>9 DEF ProgramFreesPort, TypeOK, process, driver
<1> QED
  BY <1>1, <1>2, <1>3, <1>4, <1>5, <1>6, <1>7, <1>8, <1>9

\* The steps of the driver, and of a handler that panics.
LEMMA DriverTypes ==
  ASSUME TypeOK, NEW c \in Calls, Mount(c) \/ Return(c) \/ HandlerPanics(c)
  PROVE  TypeOK'
<1>1. CASE Mount(c)
  <2>1. conn' \in Procs \cup {NoProc}
    BY <1>1 DEF Mount, TypeOK
  <2> QED
    BY <1>1, <2>1 DEF Mount, TypeOK, process
<1>2. CASE Return(c)
  BY <1>2 DEF Return, TypeOK, process
<1>3. CASE HandlerPanics(c)
  <2>1. faults' \in 0 .. MaxFaults
    BY <1>3, FaultCounts DEF HandlerPanics
  <2>2. PICK p \in Procs : Exit(p)
    BY <1>3 DEF HandlerPanics, TypeOK
  <2> QED
    BY <1>3, <2>1, <2>2, ExitTypes DEF HandlerPanics, TypeOK
<1> QED
  BY <1>1, <1>2, <1>3

\* The types of the variables: in particular, no goroutine serves in a process
\* that does not listen or is gone.
THEOREM TypeCorrect == Spec => []TypeOK
<1>1. Init => TypeOK
  BY BoundAssumption DEF Init, TypeOK
<1>2. TypeOK /\ [Next]_vars => TypeOK'
  <2> SUFFICES ASSUME TypeOK, [Next]_vars PROVE TypeOK'
    OBVIOUS
  <2>1. CASE Next
    BY <2>1, ProcessTypes, KubeletTypes, DriverTypes DEF Next
  <2>2. CASE UNCHANGED vars
    BY <2>2 DEF vars, process, driver, TypeOK
  <2> QED
    BY <2>1, <2>2
<1> QED
  BY <1>1, <1>2, PTL DEF Spec

-----------------------------------------------------------------------------
(* A provider that is ready.                                               *)

\* Why a provider that is ready is not disturbed: nobody has a signal who was not
\* told to stop, the port is held by a health server that runs, and the kubelet
\* counts no failure before that server had its chance, nor after it got the port
\* while the socket is there.
ReadyInv ==
  /\ \A p \in Procs : /\ signal[p] => asked[p]
                      /\ port = p => health[p] = "serving"
                      /\ pc[p] = "wait" => health[p] # "none"
  /\ pc[current] # "off" /\ health[current] \in {"none", "starting"} => misses = 0
  /\ pc[current] = "wait" /\ port = current /\ socket = current => misses = 0

\* Nothing runs at first.
LEMMA ReadyInit == Init => ReadyInv
  BY ProcsAssumption DEF Init, ReadyInv

\* The end of a process disturbs nothing of the others.
LEMMA ExitReady ==
  ASSUME TypeOK, ReadyInv, NEW p \in Procs, Exit(p),
         socket' \in {socket, NoProc}, UNCHANGED misses
  PROVE  ReadyInv'
<1>1. /\ pc' = [pc EXCEPT ![p] = "off"] /\ health' = [health EXCEPT ![p] = "none"]
      /\ signal' = [signal EXCEPT ![p] = FALSE] /\ asked' = [asked EXCEPT ![p] = FALSE]
      /\ port' = IF port = p THEN NoProc ELSE port
      /\ current' = current
  BY DEF Exit, Goto
<1>2. \A q \in Procs : /\ signal'[q] => asked'[q]
                       /\ port' = q => health'[q] = "serving"
                       /\ pc'[q] = "wait" => health'[q] # "none"
  BY <1>1, ProcsAssumption DEF TypeOK, ReadyInv
<1>3. pc'[current'] # "off" => current # p
  BY <1>1 DEF TypeOK
<1>4. current # p => /\ pc'[current'] = pc[current] /\ health'[current'] = health[current]
                     /\ port' = current' => port = current
                     /\ socket' = current' => socket = current
  BY <1>1, ProcsAssumption DEF TypeOK
<1> QED
  BY <1>2, <1>3, <1>4 DEF ReadyInv

\* Nor does a request to stop.
LEMMA StopReady ==
  ASSUME TypeOK, ReadyInv, NEW p \in Procs, Stop(p),
         \/ current' = current /\ misses' = misses
         \/ current' \in Procs /\ pc[current'] = "off"
  PROVE  ReadyInv'
<1>1. /\ asked' = [asked EXCEPT ![p] = TRUE] /\ signal' = [signal EXCEPT ![p] = TRUE]
      /\ UNCHANGED <<pc, health, port, socket>>
  BY DEF Stop, Deliver
<1>2. \A q \in Procs : signal'[q] => asked'[q]
  BY <1>1 DEF TypeOK, ReadyInv
<1> QED
  BY <1>1, <1>2 DEF ReadyInv

\* Every step of the process keeps it.
LEMMA ProcessReady ==
  ASSUME TypeOK, ReadyInv, NEW p \in Procs, Main(p) \/ Serve(p) \/ ServeFails(p) \/ ServeHealth(p)
  PROVE  ReadyInv'
<1> USE ProcsAssumption DEF TypeOK
<1>1. CASE RemoveStale(p)
  BY <1>1 DEF RemoveStale, Goto, ReadyInv, driver
<1>2. CASE Listen(p)
  <2>1. CASE socket = NoProc
    BY <1>2, <2>1 DEF Listen, Goto, ReadyInv, driver
  <2>2. CASE socket # NoProc
    BY <1>2, <2>2, ExitReady DEF Listen
  <2> QED
    BY <2>1, <2>2
<1>3. CASE Launch(p)
  BY <1>3 DEF Launch, Goto, ReadyInv, driver
<1>4. CASE Shutdown(p)
  BY <1>4 DEF Shutdown, Goto, ReadyInv, driver
<1>5. CASE CloseListener(p)
  BY <1>5 DEF CloseListener, Goto, ReadyInv, driver
<1>6. CASE Unlink(p)
  BY <1>6, ExitReady DEF Unlink
<1>7. CASE Serve(p)
  BY <1>7 DEF Serve, ReadyInv, driver
<1>8. CASE ServeFails(p)
  BY <1>8, ExitReady DEF ServeFails
<1>9. CASE ServeHealth(p)
  BY <1>9 DEF ServeHealth, ReadyInv, driver
<1> QED
  BY <1>1, <1>2, <1>3, <1>4, <1>5, <1>6, <1>7, <1>8, <1>9 DEF Main

\* So does every step of the kubelet and of another program.
LEMMA KubeletReady ==
  ASSUME TypeOK, ReadyInv,
         \/ \E p \in Procs : Start(p) \/ Replace(p) \/ Kill(p) \/ KillAfterGrace(p)
         \/ Probe \/ RestartUnhealthy \/ Terminate \/ ProgramTakesPort \/ ProgramFreesPort
  PROVE  ReadyInv'
<1> USE ProcsAssumption DEF TypeOK
<1>1. ASSUME NEW p \in Procs, Start(p) PROVE ReadyInv'
  BY <1>1 DEF Start, Goto, ReadyInv, driver
<1>2. ASSUME NEW p \in Procs, Replace(p) PROVE ReadyInv'
  BY <1>2, StopReady DEF Replace
<1>3. ASSUME NEW p \in Procs, Kill(p) PROVE ReadyInv'
  BY <1>3, ExitReady DEF Kill
<1>4. ASSUME NEW p \in Procs, KillAfterGrace(p) PROVE ReadyInv'
  BY <1>4, ExitReady DEF KillAfterGrace
<1>5. CASE Probe
  BY <1>5 DEF Probe, CheckRPC, Reachable, ReadyInv, process, driver
<1>6. CASE RestartUnhealthy \/ Terminate
  BY <1>6, StopReady DEF RestartUnhealthy, Terminate
<1>7. CASE ProgramTakesPort \/ ProgramFreesPort
  BY <1>7 DEF ProgramTakesPort, ProgramFreesPort, ReadyInv, process, driver
<1> QED
  BY <1>1, <1>2, <1>3, <1>4, <1>5, <1>6, <1>7

\* The driver changes nothing of it, and a handler that panics ends its process.
LEMMA DriverReady ==
  ASSUME TypeOK, ReadyInv, NEW c \in Calls, Mount(c) \/ Return(c) \/ HandlerPanics(c)
  PROVE  ReadyInv'
<1>1. CASE Mount(c) \/ Return(c)
  BY <1>1 DEF Mount, Return, ReadyInv, process
<1>2. CASE HandlerPanics(c)
  <2>1. calls[c] \in Procs
    BY <1>2 DEF HandlerPanics, TypeOK
  <2> QED
    BY <1>2, <2>1, ExitReady DEF HandlerPanics
<1> QED
  BY <1>1, <1>2

\* Signals, ports and failed health checks are as they should be at all times.
THEOREM HealthKept == Spec => []ReadyInv
<1>1. TypeOK /\ ReadyInv /\ [Next]_vars => ReadyInv'
  <2> SUFFICES ASSUME TypeOK, ReadyInv, [Next]_vars PROVE ReadyInv'
    OBVIOUS
  <2>1. CASE Next
    BY <2>1, ProcessReady, KubeletReady, DriverReady DEF Next
  <2>2. CASE UNCHANGED vars
    BY <2>2 DEF vars, process, driver, ReadyInv
  <2> QED
    BY <2>1, <2>2
<1> QED
  BY <1>1, ReadyInit, TypeCorrect, PTL DEF Spec

\* A provider that is ready and alone stays ready until something goes wrong.
THEOREM ReadyForGood == Spec => StaysReady
<1> DEFINE Stays == Ready /\ Alone /\ faults' = faults => Ready'
<1>1. TypeOK /\ ReadyInv /\ [Next]_vars => [Stays]_vars
  <2> SUFFICES ASSUME TypeOK, ReadyInv, Next, Ready, Alone, faults' = faults PROVE Ready'
    OBVIOUS
  <2> USE ProcsAssumption DEF TypeOK, Ready
  <2>1. ~Fault
    BY BoundAssumption DEF Fault
  <2>2. ~signal[current] /\ misses = 0 /\ health[current] = "serving"
    BY DEF ReadyInv
  <2>3. ASSUME NEW p \in Procs, Main(p) \/ Serve(p) \/ ServeFails(p) \/ ServeHealth(p) \/ Start(p)
        PROVE  FALSE
    <3>1. CASE p = current
      BY <2>2, <2>3, <3>1
      DEF Main, RemoveStale, Listen, Launch, Shutdown, CloseListener, Unlink, Serve,
          ServeFails, ServeHealth, Start
    <3>2. CASE p # current
      BY <2>3, <3>2
      DEF Alone, Main, RemoveStale, Listen, Launch, Shutdown, CloseListener, Unlink, Serve,
          ServeFails, ServeHealth, Start
    <3> QED
      BY <3>1, <3>2
  <2>4. ASSUME NEW p \in Procs, KillAfterGrace(p) PROVE Ready'
    BY <2>4 DEF KillAfterGrace, Exit, Goto
  <2>5. CASE Probe \/ ProgramFreesPort
    BY <2>5 DEF Probe, ProgramFreesPort, process, driver
  <2>6. ~RestartUnhealthy
    BY <2>2, BoundAssumption DEF RestartUnhealthy
  <2>7. ASSUME NEW c \in Calls, Mount(c) \/ Return(c) PROVE Ready'
    BY <2>7 DEF Mount, Return, process
  <2> QED
    BY <2>1, <2>3, <2>4, <2>5, <2>6, <2>7
    DEF Next, Replace, Kill, Terminate, ProgramTakesPort, HandlerPanics
<1> QED
  BY <1>1, TypeCorrect, HealthKept, PTL DEF Spec, StaysReady
=============================================================================
