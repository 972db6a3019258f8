---------------------------- MODULE DeviceProofs -----------------------------
(***************************************************************************)
(* Proofs about what Late holds of a device: its serial port (SerialPort,  *)
(* for every set of nodes, links and handles and every number of attempts) *)
(* its packet captures (PacketCapture, for any captures, stops and         *)
(* platforms) and the capture files it analyses (PcapDecode, for any       *)
(* frames and caps).  They share nothing; each part is about its own       *)
(* variables, and Init, Next, Spec, TypeOK and Inv are those of the serial *)
(* ports.                                                                  *)
(***************************************************************************)
EXTENDS SerialPort, PacketCapture, FiniteSetTheorems, FunctionTheorems, TLAPS

(************************** Serial ports ***********************************)
(* The inductive invariant adds to the type invariant and HeldHasOneHolder *)
(* where device handles may be open.                                       *)


\* The device is open only between a successful open and the drop.
FdPhases == {"cloning", "top", "recloning", "running", "unwinding"}

FdInv == \A h \in Handles : fd[h] # NoNode => pc[h] \in FdPhases

Inv == TypeOK /\ HeldHasOneHolder /\ FdInv

(* Without links the reserved path is the node the worker opens.           *)
NodeInv ==
    \A h \in Handles : path[h] = key[h] /\ (fd[h] # NoNode => fd[h] = key[h])

-----------------------------------------------------------------------------
\* The type invariant of SerialPort.
THEOREM TypeCorrect == Spec => []TypeOK
<1>1. Init => TypeOK
  BY NodesAssumption, AttemptsAssumption DEF Init, TypeOK, Phases, Paths
<1>2. TypeOK /\ [Next]_portVars => TypeOK'
  <2> SUFFICES ASSUME TypeOK, [Next]_portVars PROVE TypeOK'
    OBVIOUS
  <2> USE NodesAssumption, AttemptsAssumption DEF TypeOK, Phases, Paths, Enter, Drop
  <2>1. ASSUME NEW h \in Handles, NEW p \in Paths, Reserve(h, p) PROVE TypeOK'
    BY <2>1 DEF Reserve, NormalizePath, Resolve
  <2>2. ASSUME NEW h \in Handles, OpenStep(h) PROVE TypeOK'
    <3>1. CASE OpenOk(h)   BY <3>1 DEF OpenOk, Resolve
    <3>2. CASE OpenBusy(h) BY <3>2 DEF OpenBusy
    <3>3. CASE OpenErr(h)  BY <3>3 DEF OpenErr
    <3>4. CASE CloneOk(h)  BY <3>4 DEF CloneOk
    <3>5. CASE CloneErr(h) BY <3>5 DEF CloneErr
    <3>6. CASE Abort(h)    BY <3>6 DEF Abort
    <3> QED BY <2>2, <3>1, <3>2, <3>3, <3>4, <3>5, <3>6 DEF OpenStep
  <2>3. ASSUME NEW h \in Handles, PortWorkerStep(h) PROVE TypeOK'
    BY <2>3 DEF PortWorkerStep, TopClose, TopGo, RunClose, RunLost, DropHandles, ReleaseHeld
  <2>4. ASSUME NEW h \in Handles, SignalClose(h) \/ Reuse(h) PROVE TypeOK'
    BY ZenonT(60), <2>4 DEF SignalClose, Reuse
  <2>5. ASSUME NEW n \in Nodes, Unplug(n) \/ Plug(n) PROVE TypeOK'
    BY <2>5 DEF Unplug, Plug
  <2>6. CASE UNCHANGED portVars
    BY <2>6 DEF portVars
  <2> QED BY <2>1, <2>2, <2>3, <2>4, <2>5, <2>6 DEF Next
<1> QED BY <1>1, <1>2, PTL DEF Spec

-----------------------------------------------------------------------------
\* The invariant is inductive: every step keeps one holder per held path.
LEMMA InvInit == Init => Inv
BY NodesAssumption, AttemptsAssumption
   DEF Init, Inv, TypeOK, HeldHasOneHolder, FdInv, Holding, Phases, Paths

LEMMA InvNext ==
    ASSUME TypeOK, TypeOK', HeldHasOneHolder, FdInv, [Next]_portVars
    PROVE  HeldHasOneHolder' /\ FdInv'
<1> USE DEF TypeOK, HeldHasOneHolder, FdInv, FdPhases, Holding, Enter, Drop
<1>1. ASSUME NEW h \in Handles, NEW p \in Paths, Reserve(h, p)
      PROVE  HeldHasOneHolder' /\ FdInv'
  BY <1>1 DEF Reserve
<1>2. ASSUME NEW h \in Handles, OpenStep(h) PROVE HeldHasOneHolder' /\ FdInv'
  <2>1. CASE OpenOk(h)   BY <2>1 DEF OpenOk
  <2>2. CASE OpenBusy(h) BY <2>2 DEF OpenBusy
  <2>3. CASE OpenErr(h)  BY <2>3 DEF OpenErr
  <2>4. CASE CloneOk(h)  BY <2>4 DEF CloneOk
  <2>5. CASE CloneErr(h) BY <2>5 DEF CloneErr
  <2>6. CASE Abort(h)    BY <2>6 DEF Abort
  <2> QED BY <1>2, <2>1, <2>2, <2>3, <2>4, <2>5, <2>6 DEF OpenStep
<1>3. ASSUME NEW h \in Handles, PortWorkerStep(h) PROVE HeldHasOneHolder' /\ FdInv'
  <2>1. CASE TopClose(h)    BY <2>1 DEF TopClose
  <2>2. CASE TopGo(h)       BY <2>2 DEF TopGo
  <2>3. CASE RunClose(h)    BY <2>3 DEF RunClose
  <2>4. CASE RunLost(h)     BY <2>4 DEF RunLost
  <2>5. CASE DropHandles(h) BY <2>5 DEF DropHandles
  <2>6. CASE ReleaseHeld(h) BY <2>6 DEF ReleaseHeld
  <2> QED BY <1>3, <2>1, <2>2, <2>3, <2>4, <2>5, <2>6 DEF PortWorkerStep
<1>4. ASSUME NEW h \in Handles, SignalClose(h) \/ Reuse(h)
      PROVE  HeldHasOneHolder' /\ FdInv'
  BY <1>4 DEF SignalClose, Reuse
<1>5. ASSUME NEW n \in Nodes, Unplug(n) \/ Plug(n)
      PROVE  HeldHasOneHolder' /\ FdInv'
  BY <1>5 DEF Unplug, Plug
<1>6. CASE UNCHANGED portVars
  BY <1>6 DEF portVars
<1> QED BY <1>1, <1>2, <1>3, <1>4, <1>5, <1>6 DEF Next

\* A held path has exactly one holder, and only holders have devices open.
THEOREM InvHolds == Spec => []Inv
<1>1. Inv /\ TypeOK' /\ [Next]_portVars => Inv'
  BY InvNext DEF Inv
<1> QED BY <1>1, InvInit, TypeCorrect, PTL DEF Spec

(* No reservation leaks and none is shared, for any number of calls, nodes
   and links (the property HeldHasOneHolder of the runs).                   *)
THEOREM NoLeakedReservation == Spec => []HeldHasOneHolder
BY InvHolds, PTL DEF Inv

-----------------------------------------------------------------------------
(* Where every path is a device node, the held set covers the open devices
   and no device is open twice (held_ports, open_serial, serial.rs:9).      *)
THEOREM DevicesExclusive ==
    ASSUME Links = {}
    PROVE  Spec => []DevicesHeld
<1>1. Init => NodeInv
  BY DEF Init, NodeInv
<1>2. Inv /\ NodeInv /\ [Next]_portVars => NodeInv'
  <2> SUFFICES ASSUME TypeOK, FdInv, NodeInv, [Next]_portVars PROVE NodeInv'
    BY DEF Inv
  <2> USE Links = {} DEF TypeOK, NodeInv, Enter, Drop, Resolve, Paths
  <2>1. ASSUME NEW h \in Handles, NEW p \in Paths, Reserve(h, p) PROVE NodeInv'
    <3>1. NormalizePath(p) = p
      BY DEF NormalizePath
    <3>2. fd[h] = NoNode
      BY <2>1 DEF Reserve, FdInv, FdPhases
    <3> QED BY <2>1, <3>1, <3>2 DEF Reserve
  <2>2. ASSUME NEW h \in Handles, OpenStep(h) PROVE NodeInv'
    BY <2>2 DEF OpenStep, OpenOk, OpenBusy, OpenErr, CloneOk, CloneErr, Abort
  <2>3. ASSUME NEW h \in Handles, PortWorkerStep(h) PROVE NodeInv'
    BY <2>3 DEF PortWorkerStep, TopClose, TopGo, RunClose, RunLost, DropHandles, ReleaseHeld
  <2>4. ASSUME NEW h \in Handles, SignalClose(h) \/ Reuse(h) PROVE NodeInv'
    BY <2>4 DEF SignalClose, Reuse
  <2>5. ASSUME NEW n \in Nodes, Unplug(n) \/ Plug(n) PROVE NodeInv'
    BY <2>5 DEF Unplug, Plug
  <2>6. CASE UNCHANGED portVars
    BY <2>6 DEF portVars
  <2> QED BY <2>1, <2>2, <2>3, <2>4, <2>5, <2>6 DEF Next
<1>3. Inv /\ NodeInv => HeldCoversOpen /\ OneHandlePerDevice
  BY DEF Inv, HeldHasOneHolder, FdInv, FdPhases, NodeInv, Holding,
         HeldCoversOpen, OneHandlePerDevice
<1>4. TypeOK /\ HeldCoversOpen /\ OneHandlePerDevice => DevicesHeld
  BY DEF DevicesHeld
<1> QED BY <1>1, <1>2, <1>3, <1>4, InvHolds, TypeCorrect, PTL DEF Spec

-----------------------------------------------------------------------------
(* The refinement to PortLease.                                            *)

\* ownerBar names the one holder of a path.
OwnerFact ==
    \A k \in Paths :
        /\ \A h \in Handles : Holding(h) /\ key[h] = k => ownerBar[k] = h
        /\ (\A h \in Handles : ~(Holding(h) /\ key[h] = k)) => ownerBar[k] = NoNode

LEMMA OwnerIsHolder == HeldHasOneHolder => OwnerFact
<1> SUFFICES ASSUME HeldHasOneHolder, NEW k \in Paths
             PROVE  /\ \A h \in Handles : Holding(h) /\ key[h] = k => ownerBar[k] = h
                    /\ (\A h \in Handles : ~(Holding(h) /\ key[h] = k)) => ownerBar[k] = NoNode
  BY DEF OwnerFact
<1> QED BY DEF ownerBar, HeldHasOneHolder

LEMMA OwnerIsHolderNext == HeldHasOneHolder' => OwnerFact'
BY OwnerIsHolder, PTL

\* A step that changes neither who holds a path nor the paths keeps the owners.
LEMMA SameOwners ==
    ASSUME key' = key, \A h \in Handles : Holding(h)' <=> Holding(h)
    PROVE  ownerBar' = ownerBar
<1>1. ASSUME NEW k
      PROVE  (\E h \in Handles : Holding(h) /\ key[h] = k)'
              <=> \E h \in Handles : Holding(h) /\ key[h] = k
  OBVIOUS
<1>2. ASSUME NEW k
      PROVE  (CHOOSE h \in Handles : (Holding(h) /\ key[h] = k)')
              = CHOOSE h \in Handles : Holding(h) /\ key[h] = k
  OBVIOUS
<1> QED BY <1>1, <1>2 DEF ownerBar

(* serial.rs implements the lease: the reservation is the lease, the device
   handles are its use (the property ImplementsLease of the runs).          *)
THEOREM SerialPortImplementsLease == Spec => ImplementsLease
<1>1. Init => Lease!LeaseInit
  BY DEF Init, Lease!LeaseInit, ownerBar, usingBar, Holding
<1>2. ASSUME Inv, Inv', [Next]_portVars PROVE [Lease!LeaseNext]_(Lease!leaseVars)
  <2> USE DEF Enter, Drop
  <2>a. OwnerFact /\ OwnerFact' /\ TypeOK /\ TypeOK' /\ HeldHasOneHolder /\ FdInv
    BY <1>2, OwnerIsHolder, OwnerIsHolderNext DEF Inv
  <2>e. /\ ownerBar = [k \in Paths |-> ownerBar[k]]
        /\ ownerBar' = [k \in Paths |-> ownerBar'[k]]
    BY DEF ownerBar
  <2>b. ASSUME NEW h \in Handles, Abort(h) \/ ReleaseHeld(h)
        PROVE  Lease!Release(h, key[h])
    <3>1. key[h] \in Paths /\ key' = key /\ fd' = fd
      BY <2>a, <2>b DEF TypeOK, Abort, ReleaseHeld
    <3>2. Holding(h) /\ ~Holding(h)' /\ h \notin usingBar
      BY <2>a, <2>b DEF TypeOK, Abort, ReleaseHeld, Holding, FdInv, FdPhases, usingBar
    <3>3. ownerBar[key[h]] = h
      BY <2>a, <3>1, <3>2 DEF OwnerFact
    <3>4. \A g \in Handles : g # h => (Holding(g)' <=> Holding(g))
      BY <2>a, <2>b DEF TypeOK, Abort, ReleaseHeld, Holding
    <3>5. ASSUME NEW k \in Paths
          PROVE  ownerBar'[k] = IF k = key[h] THEN NoNode ELSE ownerBar[k]
      <4>1. CASE k = key[h]
        <5>1. \A g \in Handles : ~(Holding(g)' /\ key'[g] = k)
          BY <2>a, <3>1, <3>2, <3>4, <4>1 DEF HeldHasOneHolder
        <5> QED BY <2>a, <4>1, <5>1 DEF OwnerFact
      <4>2. CASE k # key[h] /\ \E g \in Handles : Holding(g) /\ key[g] = k
        BY <2>a, <3>1, <3>4, <4>2 DEF OwnerFact
      <4>3. CASE k # key[h] /\ \A g \in Handles : ~(Holding(g) /\ key[g] = k)
        BY <2>a, <3>1, <3>2, <3>4, <4>3 DEF OwnerFact
      <4> QED BY <4>1, <4>2, <4>3
    <3>6. ownerBar' = [ownerBar EXCEPT ![key[h]] = NoNode]
      BY <2>e, <3>1, <3>5
    <3>7. usingBar' = usingBar
      BY <3>1 DEF usingBar
    <3> QED BY <3>2, <3>3, <3>6, <3>7 DEF Lease!Release
  <2>c. ASSUME key' = key, \A g \in Handles : Holding(g)' <=> Holding(g), fd' = fd
        PROVE  UNCHANGED Lease!leaseVars
    BY <2>c, SameOwners DEF Lease!leaseVars, usingBar
  <2>d. ASSUME key' = key, \A g \in Handles : Holding(g)' <=> Holding(g),
               NEW h \in Handles, fd' = [fd EXCEPT ![h] = NoNode]
        PROVE  Lease!StopUse(h)
    <3>1. usingBar' = usingBar \ {h}
      BY <2>a, <2>d DEF usingBar, TypeOK
    <3> QED BY <2>d, <3>1, SameOwners DEF Lease!StopUse
  <2>1. ASSUME NEW h \in Handles, NEW p \in Paths, Reserve(h, p)
        PROVE  Lease!Acquire(h, NormalizePath(p))
    <3> DEFINE n == NormalizePath(p)
    <3>1. n \in Paths /\ n \notin held /\ pc[h] = "idle" /\ fd' = fd
          /\ key' = [key EXCEPT ![h] = n] /\ pc' = [pc EXCEPT ![h] = "reserved"]
      BY <2>1, <2>a DEF Reserve, NormalizePath, Resolve, Paths, TypeOK
    <3> HIDE DEF n
    <3>2. ~Holding(h) /\ Holding(h)' /\ key'[h] = n
      BY <2>a, <3>1 DEF TypeOK, Holding
    <3>3. \A g \in Handles : g # h => (Holding(g)' <=> Holding(g)) /\ key'[g] = key[g]
      BY <2>a, <3>1 DEF TypeOK, Holding
    <3>4. \A g \in Handles : ~(Holding(g) /\ key[g] = n)
      BY <2>a, <3>1 DEF HeldHasOneHolder
    <3>5. ownerBar[n] = NoNode
      BY <2>a, <3>1, <3>4 DEF OwnerFact
    <3>6. ASSUME NEW k \in Paths
          PROVE  ownerBar[k] # h /\ ownerBar'[k] = IF k = n THEN h ELSE ownerBar[k]
      <4>1. CASE k = n
        BY <2>a, <3>2, <3>5, <4>1, NodesAssumption DEF OwnerFact
      <4>2. CASE k # n /\ \E g \in Handles : Holding(g) /\ key[g] = k
        BY <2>a, <3>2, <3>3, <4>2 DEF OwnerFact
      <4>3. CASE k # n /\ \A g \in Handles : ~(Holding(g) /\ key[g] = k)
        BY <2>a, <3>2, <3>3, <4>3, NodesAssumption DEF OwnerFact
      <4> QED BY <4>1, <4>2, <4>3
    <3>7. ownerBar' = [ownerBar EXCEPT ![n] = h]
      BY <2>e, <3>1, <3>6
    <3>8. usingBar' = usingBar
      BY <3>1 DEF usingBar
    <3>9. ~Lease!Leases(h)
      BY <3>6 DEF Lease!Leases
    <3> QED BY <3>5, <3>7, <3>8, <3>9 DEF Lease!Acquire, n
  <2>2. ASSUME NEW h \in Handles, OpenStep(h) PROVE [Lease!LeaseNext]_(Lease!leaseVars)
    <3>1. CASE OpenOk(h)
      <4>1. key' = key /\ \A g \in Handles : Holding(g)' <=> Holding(g)
        BY <2>a, <3>1 DEF OpenOk, Holding, TypeOK
      <4>2. key[h] \in Paths /\ Holding(h)
        BY <2>a, <3>1 DEF OpenOk, Holding, TypeOK
      <4>3. Lease!Leases(h)
        BY <2>a, <4>2 DEF Lease!Leases, OwnerFact
      <4>4. usingBar' = usingBar \cup {h}
        BY <2>a, <3>1, NodesAssumption DEF OpenOk, usingBar, TypeOK, Resolve
      <4>5. Lease!StartUse(h)
        BY <4>1, <4>3, <4>4, SameOwners DEF Lease!StartUse
      <4> QED BY <4>5 DEF Lease!LeaseNext
    <3>2. CASE OpenBusy(h) \/ OpenErr(h) \/ CloneOk(h)
      BY <2>a, <2>c, <3>2 DEF OpenBusy, OpenErr, CloneOk, Holding, TypeOK
    <3>3. CASE CloneErr(h)
      <4>1. key' = key /\ fd' = [fd EXCEPT ![h] = NoNode]
            /\ \A g \in Handles : Holding(g)' <=> Holding(g)
        BY <2>a, <3>3 DEF CloneErr, Holding, TypeOK
      <4>2. Lease!StopUse(h)
        BY <2>d, <4>1
      <4> QED BY <4>2 DEF Lease!LeaseNext
    <3>4. CASE Abort(h)
      <4>1. Lease!Release(h, key[h]) /\ key[h] \in Paths
        BY <2>a, <2>b, <3>4 DEF TypeOK
      <4> QED BY <4>1 DEF Lease!LeaseNext
    <3> QED BY <2>2, <3>1, <3>2, <3>3, <3>4 DEF OpenStep
  <2>3. ASSUME NEW h \in Handles, PortWorkerStep(h) PROVE [Lease!LeaseNext]_(Lease!leaseVars)
    <3>1. CASE TopClose(h) \/ TopGo(h)
      BY <2>a, <2>c, <3>1 DEF TopClose, TopGo, Holding, TypeOK
    <3>2. CASE RunClose(h) \/ RunLost(h) \/ DropHandles(h)
      <4>1. key' = key /\ fd' = [fd EXCEPT ![h] = NoNode]
            /\ \A g \in Handles : Holding(g)' <=> Holding(g)
        BY <2>a, <3>2 DEF RunClose, RunLost, DropHandles, Holding, TypeOK
      <4>2. Lease!StopUse(h)
        BY <2>d, <4>1
      <4> QED BY <4>2 DEF Lease!LeaseNext
    <3>3. CASE ReleaseHeld(h)
      <4>1. Lease!Release(h, key[h]) /\ key[h] \in Paths
        BY <2>a, <2>b, <3>3 DEF TypeOK
      <4> QED BY <4>1 DEF Lease!LeaseNext
    <3> QED BY <2>3, <3>1, <3>2, <3>3 DEF PortWorkerStep
  <2>4. ASSUME NEW h \in Handles, SignalClose(h) \/ Reuse(h) PROVE UNCHANGED Lease!leaseVars
    BY <2>a, <2>c, <2>4 DEF SignalClose, Reuse, Holding, TypeOK
  <2>5. ASSUME NEW n \in Nodes, Unplug(n) \/ Plug(n) PROVE UNCHANGED Lease!leaseVars
    BY <2>a, <2>c, <2>5 DEF Unplug, Plug, Holding, TypeOK
  <2>6. CASE UNCHANGED portVars
    BY <2>a, <2>c, <2>6 DEF portVars, Holding, TypeOK
  <2>7. ASSUME NEW h \in Handles, NEW p \in Paths, Reserve(h, p)
        PROVE  Lease!LeaseNext
    <3>1. NormalizePath(p) \in Paths
      BY <2>a, <2>7 DEF NormalizePath, Resolve, Paths, TypeOK
    <3> QED BY <2>1, <2>7, <3>1 DEF Lease!LeaseNext
  <2> QED BY <1>2, <2>2, <2>3, <2>4, <2>5, <2>6, <2>7 DEF Next
<1> QED BY <1>1, <1>2, InvHolds, PTL DEF Spec, ImplementsLease, Lease!LeaseSpec

(************************* Packet captures *********************************)
(* HeldInv says where each start stands: which process and thread it has   *)
(* at each step, and that what a handler stops has been in the table.      *)
(* ApartInv says that captures of the device that run at the same time     *)
(* know of each other, so that one that met nobody owns what the device    *)
(* has written since it started.                                           *)


Steps == {"idle", "try", "kill", "checked", "stream", "worker", "late",
          "insert", "live", "cli", "device", "fetch", "open", "failed", "done"}
Starts == [pc : Steps, kind : {"none", "local", "ssh", "once"},
           tool : {"none", "dumpcap", "sudo", "ssh", "cli"}]
Recording == {"opening", "capturing", "exporting", "fetching"}

(* What a start that drives the command line has. *)
Drives(c) == /\ cap[c].kind = "ssh" /\ cap[c].tool = "cli"
             /\ child[c] # "running" /\ worker[c] # "none" /\ file[c].st # "stub"

(* What a start that has a process of its own has. *)
RecordsLocally(c) == /\ cap[c].kind = "local" /\ cap[c].tool \in {"dumpcap", "sudo"}
                     /\ worker[c] = "none"
Streams(c) == cap[c].kind = "ssh" /\ cap[c].tool = "ssh" /\ worker[c] = "none"

(* A start that has nothing yet, or runs in its handler alone. *)
HasNothing(c) == child[c] = "none" /\ worker[c] = "none" /\ file[c] = NoFile

Fits(c) ==
  /\ At(c, "idle") => HasNothing(c) /\ cap[c].kind = "none" /\ cap[c].tool = "none"
  /\ cap[c].pc \in {"try", "kill"} => RecordsLocally(c)
  /\ At(c, "checked") => HasNothing(c) /\ cap[c].kind = "ssh" /\ cap[c].tool = "none"
  /\ At(c, "stream") => Streams(c)
  /\ cap[c].pc \in {"worker", "late"} => Drives(c)
  /\ cap[c].pc \in {"insert", "live"} => RecordsLocally(c) \/ Streams(c) \/ Drives(c)
  /\ cap[c].pc \in {"cli", "device", "fetch"} =>
       HasNothing(c) /\ cap[c].kind = "once" /\ cap[c].tool = "cli"
  /\ At(c, "open") => /\ child[c] = "none" /\ worker[c] = "none"
                      /\ cap[c].kind = "once" /\ file[c].st = "pcap"
  /\ At(c, "failed") => /\ child[c] # "running" /\ worker[c] \notin Recording
                        /\ cap[c].kind # "local" => file[c] = NoFile
                        /\ cap[c].tool = "cli" => file[c].st # "stub"
  /\ At(c, "done") => /\ child[c] # "running" /\ worker[c] \notin Recording
                      /\ cap[c].tool = "cli" => file[c].st # "stub"

StopsRun == \A t \in Stoppers : stop[t] # NoCap => cap[stop[t]].pc \in {"live", "done"}

HeldInv == CaptureTypeOK /\ StopsRun /\ \A c \in Caps : Fits(c)

(* The captures but c stay as they are. *)
OthersStay(c) ==
  \A d \in Caps \ {c} : /\ cap'[d] = cap[d] /\ child'[d] = child[d]
                        /\ worker'[d] = worker[d] /\ file'[d] = file[d]

TypesStay == /\ cap' \in [Caps -> Starts]
             /\ child' \in [Caps -> {"none", "running", "ended"}]
             /\ worker' \in [Caps -> {"none", "opening", "capturing", "exporting",
                                      "fetching", "ok", "err"}]
             /\ file' \in [Caps -> [st : {"none", "stub", "pcap"}, of : Origins]]
             /\ flash' \in [{"live", "once"} -> Origins]
             /\ told' \subseteq Caps /\ refused' \subseteq Caps

-----------------------------------------------------------------------------
(* What the assignments of the actions do to their functions.              *)

LEMMA OriginTypes ==
  /\ \A c \in Caps, n \in {"live", "once"} : [by |-> c, how |-> n] \in Origins
  /\ Nothing \in Origins /\ NoFile \in [st : {"none", "stub", "pcap"}, of : Origins]
  /\ NoFile.st = "none"
  BY DEF Origins, Nothing, NoFile

LEMMA GotoSets ==
  ASSUME cap \in [Caps -> Starts], NEW c \in Caps, NEW at \in Steps, Goto(c, at)
  PROVE  /\ cap' \in [Caps -> Starts]
         /\ cap'[c].pc = at /\ cap'[c].kind = cap[c].kind /\ cap'[c].tool = cap[c].tool
         /\ \A d \in Caps \ {c} : cap'[d] = cap[d]
  BY DEF Goto, Starts

LEMMA KilledSets ==
  ASSUME child \in [Caps -> {"none", "running", "ended"}], NEW c \in Caps, child' = Killed(c)
  PROVE  /\ child' \in [Caps -> {"none", "running", "ended"}]
         /\ child'[c] \in {child[c], "ended"}
         /\ child[c] # "running" => child'[c] = child[c]
         /\ cap[c].tool # "sudo" => child'[c] # "running"
         /\ \A d \in Caps \ {c} : child'[d] = child[d]
  BY DEF Killed

(* A step of one start that leaves the table and the stops alone. *)
LEMMA StartKeeps ==
  ASSUME HeldInv, NEW c \in Caps, OthersStay(c), TypesStay, Fits(c)',
         UNCHANGED <<live, stop>>,
         ~At(c, "live"), cap'[c].pc # "live", ~At(c, "done")
  PROVE  HeldInv'
<1>1. CaptureTypeOK'
  <2>1. \A d \in Caps : At(d, "live")' <=> At(d, "live")
    BY DEF At, OthersStay
  <2> QED BY <2>1 DEF HeldInv, CaptureTypeOK, TypesStay, Starts, Steps
<1>2. StopsRun'
  BY CaptureAssumption DEF HeldInv, StopsRun, CaptureTypeOK, OthersStay, At
<1>3. \A d \in Caps : Fits(d)'
  <2> SUFFICES ASSUME NEW d \in Caps \ {c} PROVE Fits(d)'
    OBVIOUS
  <2>1. Fits(d)
    BY DEF HeldInv
  <2> QED BY <2>1 DEF OthersStay, Fits, At, HasNothing, RecordsLocally, Streams, Drives
<1> QED BY <1>1, <1>2, <1>3 DEF HeldInv

(* A step of the processes and threads: no start moves. *)
LEMMA ProcessKeeps ==
  ASSUME HeldInv, NEW c \in Caps, OthersStay(c), TypesStay, Fits(c)',
         UNCHANGED <<cap, live, stop>>
  PROVE  HeldInv'
<1>1. CaptureTypeOK'
  BY DEF HeldInv, CaptureTypeOK, TypesStay, Starts, Steps, At
<1>2. StopsRun'
  BY DEF HeldInv, StopsRun
<1>3. \A d \in Caps : Fits(d)'
  <2> SUFFICES ASSUME NEW d \in Caps \ {c} PROVE Fits(d)'
    OBVIOUS
  <2>1. Fits(d)
    BY DEF HeldInv
  <2> QED BY <2>1 DEF OthersStay, Fits, At, HasNothing, RecordsLocally, Streams, Drives
<1> QED BY <1>1, <1>2, <1>3 DEF HeldInv

LEMMA HeldTypes ==
  HeldInv => /\ cap \in [Caps -> Starts]
             /\ child \in [Caps -> {"none", "running", "ended"}]
             /\ worker \in [Caps -> {"none", "opening", "capturing", "exporting",
                                     "fetching", "ok", "err"}]
             /\ file \in [Caps -> [st : {"none", "stub", "pcap"}, of : Origins]]
             /\ flash \in [{"live", "once"} -> Origins]
             /\ told \subseteq Caps /\ live \subseteq Caps /\ refused \subseteq Caps
             /\ stop \in [Stoppers -> Caps \cup {NoCap}]
             /\ live = {c \in Caps : At(c, "live")} \ {stop[t] : t \in Stoppers}
             /\ \A c \in Caps : Fits(c)
  BY DEF HeldInv, CaptureTypeOK, Starts, Steps

-----------------------------------------------------------------------------
(* Initially nothing is asked for. *)
LEMMA HeldInit == CaptureInit => HeldInv
<1> SUFFICES ASSUME CaptureInit PROVE HeldInv
  OBVIOUS
<1>1. CaptureTypeOK
  BY OriginTypes DEF CaptureInit, CaptureTypeOK, At
<1>2. StopsRun
  BY DEF CaptureInit, StopsRun
<1>3. \A c \in Caps : Fits(c)
  BY DEF CaptureInit, Fits, At, HasNothing
<1> QED BY <1>1, <1>2, <1>3 DEF HeldInv

(* The processes of the recorders. *)
LEMMA RecorderKeeps ==
  ASSUME HeldInv, NEW c \in Caps, RecorderWrites(c) \/ RecorderEnds(c)
  PROVE  HeldInv'
<1>1. Fits(c) /\ child[c] = "running"
  BY DEF HeldInv, RecorderWrites, RecorderEnds
<1>2. CASE RecorderWrites(c)
  <2>1. file' \in [Caps -> [st : {"none", "stub", "pcap"}, of : Origins]]
    BY <1>2, HeldTypes, OriginTypes DEF RecorderWrites, Wrote, NoFile
  <2>2. TypesStay /\ OthersStay(c)
    BY <1>2, <2>1, HeldTypes DEF RecorderWrites, TypesStay, OthersStay, procVars, histVars
  <2>3. Fits(c)'
    BY <1>1, <1>2, HeldTypes
    DEF RecorderWrites, Fits, At, HasNothing, RecordsLocally, Streams, Drives, procVars, Starts
  <2> QED BY <1>2, <2>2, <2>3, ProcessKeeps DEF RecorderWrites
<1>3. CASE RecorderEnds(c)
  <2>1. TypesStay /\ OthersStay(c) /\ child'[c] = "ended"
    BY <1>3, HeldTypes DEF RecorderEnds, TypesStay, OthersStay, histVars
  <2>2. Fits(c)'
    BY <1>1, <1>3, <2>1
    DEF RecorderEnds, Fits, At, HasNothing, RecordsLocally, Streams, Drives
  <2> QED BY <1>3, <2>1, <2>2, ProcessKeeps DEF RecorderEnds
<1> QED BY <1>2, <1>3

-----------------------------------------------------------------------------
(* A recorder of the next tool is tried. *)
LEMMA TryKeeps ==
  ASSUME HeldInv, NEW c \in Caps, NEW tool \in {"dumpcap", "sudo"}, Try(c, tool),
         cap[c].pc \in {"idle", "try", "kill"},
         UNCHANGED <<worker, told, live, stop, flash, refused>>
  PROVE  HeldInv'
<1>1. Fits(c) /\ worker[c] = "none"
  BY HeldTypes DEF Fits, At, HasNothing, RecordsLocally
<1>2. cap'[c] = [pc |-> "try", kind |-> "local", tool |-> tool] /\ cap' \in [Caps -> Starts]
  BY HeldTypes DEF Try, Starts, Steps
<1>3. /\ child' \in [Caps -> {"none", "running", "ended"}]
      /\ \A d \in Caps \ {c} : child'[d] = child[d]
  BY HeldTypes DEF Try
<1>4. TypesStay /\ OthersStay(c)
  BY <1>2, <1>3, HeldTypes, OriginTypes DEF Try, TypesStay, OthersStay
<1>5. Fits(c)'
  BY <1>1, <1>2 DEF Fits, At, RecordsLocally
<1> QED BY <1>2, <1>4, <1>5, StartKeeps DEF At

LEMMA StartLocalKeeps ==
  ASSUME HeldInv, NEW c \in Caps, StartLocal(c)
  PROVE  HeldInv'
  BY TryKeeps DEF StartLocal, At

(* The tool is dropped: its process has ended. *)
LEMMA NextToolKeeps ==
  ASSUME HeldInv, NEW c \in Caps, TryFails(c) \/ KillWaits(c)
  PROVE  HeldInv'
<1>1. cap[c].pc \in {"try", "kill"} /\ child[c] = "ended" /\ NextTool(c)
  BY DEF TryFails, KillWaits, At
<1>2. Fits(c) /\ RecordsLocally(c)
  BY <1>1, HeldTypes DEF Fits, At
<1>3. CASE cap[c].tool = "dumpcap" /\ Try(c, "sudo")
  BY <1>1, <1>3, TryKeeps DEF NextTool, histVars
<1>4. CASE Goto(c, "failed") /\ UNCHANGED <<child, file>>
  <2>1. /\ cap' \in [Caps -> Starts] /\ cap'[c].pc = "failed"
        /\ cap'[c].kind = cap[c].kind /\ cap'[c].tool = cap[c].tool
        /\ \A d \in Caps \ {c} : cap'[d] = cap[d]
    BY <1>4, HeldTypes, GotoSets DEF Steps
  <2>2. TypesStay /\ OthersStay(c)
    BY <1>1, <1>4, <2>1, HeldTypes DEF NextTool, TypesStay, OthersStay, histVars
  <2>3. Fits(c)'
    BY <1>1, <1>2, <1>4, <2>1 DEF NextTool, Fits, At, RecordsLocally, Recording
  <2> QED BY <1>1, <2>1, <2>2, <2>3, StartKeeps DEF At, NextTool
<1> QED BY <1>1, <1>3, <1>4 DEF NextTool

(* A step that only moves the start on: its processes and its file stay. *)
LEMMA MoveKeeps ==
  ASSUME HeldInv, NEW c \in Caps, NEW at \in Steps \ {"live"}, Goto(c, at),
         UNCHANGED <<child, worker, file, live, stop>>,
         told' \subseteq Caps, flash' \in [{"live", "once"} -> Origins], refused' \subseteq Caps,
         ~At(c, "live"), ~At(c, "done"),
         at = "insert" => RecordsLocally(c) \/ Streams(c) \/ Drives(c),
         at = "late" => Drives(c),
         at = "kill" => RecordsLocally(c),
         at = "done" => child[c] # "running" /\ worker[c] \notin Recording
                        /\ (cap[c].tool = "cli" => file[c].st # "stub"),
         at = "failed" => /\ child[c] # "running" /\ worker[c] \notin Recording
                          /\ cap[c].kind # "local" => file[c] = NoFile
                          /\ cap[c].tool = "cli" => file[c].st # "stub",
         at \in {"device", "fetch"} => HasNothing(c) /\ cap[c].kind = "once" /\ cap[c].tool = "cli",
         at \notin {"idle", "try", "checked", "stream", "worker", "cli", "open"}
  PROVE  HeldInv'
<1>1. /\ cap' \in [Caps -> Starts] /\ cap'[c].pc = at
      /\ cap'[c].kind = cap[c].kind /\ cap'[c].tool = cap[c].tool
      /\ \A d \in Caps \ {c} : cap'[d] = cap[d]
  BY HeldTypes, GotoSets
<1>2. TypesStay /\ OthersStay(c)
  BY <1>1, HeldTypes DEF TypesStay, OthersStay
<1>3. Fits(c)'
  BY <1>1 DEF Fits, At, RecordsLocally, Streams, Drives, HasNothing
<1> QED BY <1>1, <1>2, <1>3, StartKeeps

LEMMA TryRecordsKeeps ==
  ASSUME HeldInv, NEW c \in Caps, TryRecords(c)
  PROVE  HeldInv'
<1>1. RecordsLocally(c)
  BY HeldTypes DEF TryRecords, Fits, At
<1> QED BY <1>1, HeldTypes, MoveKeeps DEF TryRecords, At, Steps, procVars, histVars

LEMMA TryTimesOutKeeps ==
  ASSUME HeldInv, NEW c \in Caps, TryTimesOut(c)
  PROVE  HeldInv'
<1>1. Fits(c) /\ RecordsLocally(c)
  BY HeldTypes DEF TryTimesOut, Fits, At
<1>2. /\ cap' \in [Caps -> Starts] /\ cap'[c].pc = "kill"
      /\ cap'[c].kind = cap[c].kind /\ cap'[c].tool = cap[c].tool
      /\ \A d \in Caps \ {c} : cap'[d] = cap[d]
  BY HeldTypes, GotoSets DEF TryTimesOut, Steps
<1>3. TypesStay /\ OthersStay(c)
  BY <1>2, HeldTypes, KilledSets DEF TryTimesOut, TypesStay, OthersStay, histVars
<1>4. Fits(c)'
  BY <1>1, <1>2 DEF TryTimesOut, Fits, At, RecordsLocally
<1> QED BY <1>2, <1>3, <1>4, StartKeeps DEF TryTimesOut, At

-----------------------------------------------------------------------------
LEMMA StartSshKeeps ==
  ASSUME HeldInv, NEW c \in Caps, StartSsh(c)
  PROVE  HeldInv'
<1>1. Fits(c) /\ HasNothing(c)
  BY HeldTypes DEF StartSsh, Fits, At
<1>2. /\ cap' \in [Caps -> Starts] /\ cap'[c].pc \in {"checked", "failed"}
      /\ cap'[c].kind = "ssh" /\ cap'[c].tool = "none"
      /\ \A d \in Caps \ {c} : cap'[d] = cap[d]
  BY HeldTypes DEF StartSsh, Starts, Steps
<1>3. TypesStay /\ OthersStay(c)
  BY <1>2, HeldTypes DEF StartSsh, TypesStay, OthersStay, procVars
<1>4. Fits(c)'
  BY <1>1, <1>2 DEF StartSsh, procVars, Fits, At, HasNothing, Recording
<1> QED BY <1>2, <1>3, <1>4, StartKeeps DEF StartSsh, At

LEMMA ResolveKeeps ==
  ASSUME HeldInv, NEW c \in Caps, ResolveSshDevice(c)
  PROVE  HeldInv'
<1>1. HasNothing(c) /\ cap[c].kind = "ssh" /\ cap[c].tool = "none" /\ At(c, "checked")
  BY HeldTypes DEF ResolveSshDevice, Fits, At
<1>2. CASE Goto(c, "failed") /\ UNCHANGED <<child, file>>
  <2>1. child[c] # "running" /\ worker[c] \notin Recording /\ file[c] = NoFile
    BY <1>1 DEF HasNothing, Recording
  <2> QED BY <1>1, <1>2, <2>1, HeldTypes, MoveKeeps
          DEF ResolveSshDevice, At, Steps, histVars
<1>3. CASE ~(Goto(c, "failed") /\ UNCHANGED <<child, file>>)
  <2>1. /\ cap' \in [Caps -> Starts] /\ cap'[c].pc = "stream"
        /\ cap'[c].kind = "ssh" /\ cap'[c].tool = "ssh"
        /\ \A d \in Caps \ {c} : cap'[d] = cap[d]
    BY <1>1, <1>3, HeldTypes DEF ResolveSshDevice, Starts, Steps
  <2>2. file' \in [Caps -> [st : {"none", "stub", "pcap"}, of : Origins]]
    BY SMTT(40), <1>3, HeldTypes, OriginTypes DEF ResolveSshDevice, NoFile
  <2>3. TypesStay /\ OthersStay(c)
    <3>1. /\ child' \in [Caps -> {"none", "running", "ended"}]
          /\ \A d \in Caps \ {c} : child'[d] = child[d] /\ file'[d] = file[d]
      BY <1>3, HeldTypes DEF ResolveSshDevice
    <3>2. UNCHANGED <<worker, told, flash, refused>>
      BY DEF ResolveSshDevice, histVars
    <3> QED BY <2>1, <2>2, <3>1, <3>2, HeldTypes DEF TypesStay, OthersStay
  <2>4. Fits(c)'
    BY <1>1, <2>1 DEF ResolveSshDevice, Fits, At, HasNothing, Streams
  <2> QED BY <1>1, <2>1, <2>3, <2>4, StartKeeps DEF ResolveSshDevice, At
<1> QED BY <1>2, <1>3 DEF ResolveSshDevice

LEMMA StreamIsPcapKeeps ==
  ASSUME HeldInv, NEW c \in Caps, StreamIsPcap(c)
  PROVE  HeldInv'
<1>1. Streams(c)
  BY HeldTypes DEF StreamIsPcap, Fits, At
<1> QED BY <1>1, HeldTypes, MoveKeeps DEF StreamIsPcap, At, Steps, procVars, histVars

LEMMA StreamFailsKeeps ==
  ASSUME HeldInv, NEW c \in Caps, StreamFails(c)
  PROVE  HeldInv'
<1>1. Streams(c)
  BY HeldTypes DEF StreamFails, Fits, At
<1>2. /\ cap' \in [Caps -> Starts] /\ cap'[c].pc = "worker"
      /\ cap'[c].kind = "ssh" /\ cap'[c].tool = "cli"
      /\ \A d \in Caps \ {c} : cap'[d] = cap[d]
  BY <1>1, HeldTypes DEF StreamFails, Starts, Steps, Streams
<1>3. /\ child' \in [Caps -> {"none", "running", "ended"}] /\ child'[c] # "running"
      /\ \A d \in Caps \ {c} : child'[d] = child[d]
  BY <1>1, HeldTypes, KilledSets DEF StreamFails, DropStream, Streams
<1>4. /\ file' \in [Caps -> [st : {"none", "stub", "pcap"}, of : Origins]]
      /\ file'[c] = NoFile /\ \A d \in Caps \ {c} : file'[d] = file[d]
  BY HeldTypes, OriginTypes DEF StreamFails, DropStream
<1>5. TypesStay /\ OthersStay(c) /\ worker'[c] = "opening"
  BY <1>2, <1>3, <1>4, HeldTypes DEF StreamFails, TypesStay, OthersStay, histVars
<1>6. Fits(c)'
  BY <1>2, <1>3, <1>4, <1>5, OriginTypes DEF Fits, At, Drives
<1> QED BY <1>2, <1>5, <1>6, StartKeeps DEF StreamFails, At

LEMMA WorkerReadyKeeps ==
  ASSUME HeldInv, NEW c \in Caps, WorkerReady(c)
  PROVE  HeldInv'
<1>1. Drives(c)
  BY HeldTypes DEF WorkerReady, Fits, At
<1> QED BY <1>1, HeldTypes, MoveKeeps DEF WorkerReady, At, Steps, procVars, histVars

LEMMA WorkerIsLateKeeps ==
  ASSUME HeldInv, NEW c \in Caps, WorkerIsLate(c)
  PROVE  HeldInv'
<1>1. Drives(c)
  BY HeldTypes DEF WorkerIsLate, Fits, At
<1> QED BY <1>1, HeldTypes, MoveKeeps DEF WorkerIsLate, At, Steps, Tell, histVars

(* A start over the command line that fails removes its file. *)
LEMMA CleanUpKeeps ==
  ASSUME HeldInv, NEW c \in Caps, CleanUp(c), cap[c].pc \in {"worker", "late"},
         worker[c] \in {"ok", "err"}, UNCHANGED <<procVars, live, stop, flash, histVars>>
  PROVE  HeldInv'
<1>1. Drives(c)
  BY HeldTypes DEF Fits, At
<1>2. /\ cap' \in [Caps -> Starts] /\ cap'[c].pc = "failed"
      /\ cap'[c].kind = "ssh" /\ cap'[c].tool = "cli"
      /\ \A d \in Caps \ {c} : cap'[d] = cap[d]
  BY <1>1, HeldTypes, GotoSets DEF CleanUp, Steps, Drives
<1>3. /\ file' \in [Caps -> [st : {"none", "stub", "pcap"}, of : Origins]]
      /\ file'[c] = NoFile /\ \A d \in Caps \ {c} : file'[d] = file[d]
  BY HeldTypes, OriginTypes DEF CleanUp
<1>4. TypesStay /\ OthersStay(c)
  BY <1>2, <1>3, HeldTypes DEF TypesStay, OthersStay, procVars, histVars
<1>5. Fits(c)'
  BY <1>1, <1>2, <1>3, OriginTypes DEF Fits, At, Drives, Recording, procVars
<1> QED BY <1>2, <1>4, <1>5, StartKeeps DEF At

LEMMA WorkerFailsKeeps ==
  ASSUME HeldInv, NEW c \in Caps, WorkerFails(c)
  PROVE  HeldInv'
  BY CleanUpKeeps DEF WorkerFails, At

LEMMA LateJoinKeeps ==
  ASSUME HeldInv, NEW c \in Caps, LateJoin(c)
  PROVE  HeldInv'
<1>1. CASE CleanUp(c)
  BY <1>1, CleanUpKeeps DEF LateJoin, LateEnd, Finished, At
<1>2. CASE Goto(c, "insert") /\ UNCHANGED file
  <2>1. Drives(c)
    BY HeldTypes DEF LateJoin, Fits, At
  <2> QED BY SMTT(40), <1>2, <2>1, HeldTypes, MoveKeeps DEF LateJoin, At, Steps, procVars, histVars
<1> QED BY <1>1, <1>2 DEF LateJoin

-----------------------------------------------------------------------------
(* What a step does that enters or leaves the table, or stops. *)
LEMMA TableKeeps ==
  ASSUME HeldInv, NEW c \in Caps, OthersStay(c), TypesStay, Fits(c)',
         stop' \in [Stoppers -> Caps \cup {NoCap}], StopsRun',
         live' = {d \in Caps : At(d, "live")'} \ {stop'[t] : t \in Stoppers}
  PROVE  HeldInv'
<1>1. CaptureTypeOK'
  BY DEF CaptureTypeOK, TypesStay, Starts, Steps
<1>2. \A d \in Caps : Fits(d)'
  <2> SUFFICES ASSUME NEW d \in Caps \ {c} PROVE Fits(d)'
    OBVIOUS
  <2>1. Fits(d)
    BY DEF HeldInv
  <2> QED BY <2>1 DEF OthersStay, Fits, At, HasNothing, RecordsLocally, Streams, Drives
<1> QED BY <1>1, <1>2 DEF HeldInv

LEMMA InsertKeeps ==
  ASSUME HeldInv, NEW c \in Caps, InsertCapture(c)
  PROVE  HeldInv'
<1>1. RecordsLocally(c) \/ Streams(c) \/ Drives(c)
  BY HeldTypes DEF InsertCapture, Fits, At
<1>2. /\ cap' \in [Caps -> Starts] /\ cap'[c].pc = "live"
      /\ cap'[c].kind = cap[c].kind /\ cap'[c].tool = cap[c].tool
      /\ \A d \in Caps \ {c} : cap'[d] = cap[d]
  BY HeldTypes, GotoSets DEF InsertCapture, Steps
<1>3. TypesStay /\ OthersStay(c)
  BY <1>2, HeldTypes DEF InsertCapture, TypesStay, OthersStay, procVars, histVars
<1>4. Fits(c)'
  BY <1>1, <1>2 DEF InsertCapture, procVars, Fits, At, RecordsLocally, Streams, Drives
<1>5. \A t \in Stoppers : stop[t] # c
  BY CaptureAssumption DEF HeldInv, StopsRun, InsertCapture, At
<1>6. live' = {d \in Caps : At(d, "live")'} \ {stop'[t] : t \in Stoppers}
  BY <1>2, <1>5, HeldTypes DEF InsertCapture, At
<1>7. StopsRun'
  BY <1>2, <1>5, HeldTypes DEF HeldInv, StopsRun, InsertCapture
<1>8. stop' \in [Stoppers -> Caps \cup {NoCap}]
  BY HeldTypes DEF InsertCapture
<1> QED BY <1>3, <1>4, <1>6, <1>7, <1>8, TableKeeps

LEMMA StopPcapKeeps ==
  ASSUME HeldInv, NEW t \in Stoppers, StopPcap(t)
  PROVE  HeldInv'
<1>1. PICK c \in live : /\ stop' = [stop EXCEPT ![t] = c] /\ live' = live \ {c}
                        /\ told' = IF worker[c] # "none" THEN Tell(c) ELSE told
                        /\ child' = Killed(c)
  BY DEF StopPcap, Key, Removed
<1>2. c \in Caps /\ At(c, "live") /\ stop[t] = NoCap
  BY HeldTypes DEF StopPcap
<1>3. Fits(c) /\ (RecordsLocally(c) \/ Streams(c) \/ Drives(c))
  BY <1>2, HeldTypes DEF Fits, At
<1>4. TypesStay /\ OthersStay(c)
  BY <1>1, <1>2, HeldTypes, KilledSets DEF StopPcap, TypesStay, OthersStay, histVars, Tell
<1>5. child'[c] # "running" \/ child'[c] = child[c]
  BY <1>1, <1>2, HeldTypes, KilledSets
<1>6. Fits(c)'
  BY <1>2, <1>3, <1>5 DEF StopPcap, Fits, At, RecordsLocally, Streams, Drives
<1>7. stop' \in [Stoppers -> Caps \cup {NoCap}] /\ stop'[t] = c
      /\ \A u \in Stoppers \ {t} : stop'[u] = stop[u]
  BY <1>1, <1>2, HeldTypes
<1>8. StopsRun'
  BY <1>2, <1>7 DEF HeldInv, StopsRun, StopPcap, At
<1>9. live' = {d \in Caps : At(d, "live")'} \ {stop'[u] : u \in Stoppers}
  <2>1. {stop'[u] : u \in Stoppers} \cap Caps
          = ({stop[u] : u \in Stoppers} \cup {c}) \cap Caps
    BY <1>2, <1>7, CaptureAssumption
  <2> QED BY <1>1, <2>1, HeldTypes DEF StopPcap, At
<1> QED BY <1>2, <1>4, <1>6, <1>7, <1>8, <1>9, TableKeeps

LEMMA StopJoinsKeeps ==
  ASSUME HeldInv, NEW t \in Stoppers, StopJoins(t)
  PROVE  HeldInv'
<1>0. PICK c \in Caps : stop[t] = c
  BY HeldTypes DEF StopJoins
<1>1. c # NoCap /\ cap[c].pc \in {"live", "done"}
  BY <1>0 DEF StopJoins, HeldInv, StopsRun
<1>2. /\ cap' \in [Caps -> Starts] /\ cap'[c].pc = "done"
      /\ cap'[c].kind = cap[c].kind /\ cap'[c].tool = cap[c].tool
      /\ \A d \in Caps \ {c} : cap'[d] = cap[d]
  BY <1>0, HeldTypes, GotoSets DEF StopJoins, OpenPcap, Steps
<1>3. TypesStay /\ OthersStay(c)
  BY <1>2, HeldTypes DEF StopJoins, TypesStay, OthersStay, procVars, histVars
<1>4. Fits(c)'
  <2>1. child[c] # "running" /\ worker[c] \notin Recording
    BY <1>0 DEF StopJoins, StopEnd, Finished, Recording
  <2>2. cap[c].tool = "cli" => file[c].st # "stub"
    <3>1. Fits(c)
      BY HeldTypes
    <3> QED BY <1>1, <3>1 DEF Fits, At, RecordsLocally, Streams, Drives
  <2>3. UNCHANGED <<child, worker, file>>
    BY DEF StopJoins, procVars
  <2> QED BY <1>2, <2>1, <2>2, <2>3 DEF Fits, At
<1>5. stop' \in [Stoppers -> Caps \cup {NoCap}] /\ stop'[t] = NoCap
      /\ \A u \in Stoppers \ {t} : stop'[u] = stop[u]
  BY HeldTypes DEF StopJoins
<1>6. StopsRun'
  BY <1>2, <1>5, HeldTypes DEF HeldInv, StopsRun
<1>7. live' = {d \in Caps : At(d, "live")'} \ {stop'[u] : u \in Stoppers}
  <2>1. \A d \in Caps \ {c} : /\ At(d, "live")' <=> At(d, "live")
                              /\ d \in {stop'[u] : u \in Stoppers}
                                   <=> d \in {stop[u] : u \in Stoppers}
    BY <1>0, <1>2, <1>5, CaptureAssumption DEF At
  <2>2. c \notin live /\ ~At(c, "live")'
    BY <1>0, <1>2, HeldTypes DEF At
  <2>3. live' = live
    BY DEF StopJoins
  <2> QED BY <2>1, <2>2, <2>3, HeldTypes
<1> QED BY <1>1, <1>3, <1>4, <1>5, <1>6, <1>7, TableKeeps

-----------------------------------------------------------------------------
(* A command to the device. *)
LEMMA CommandTypes ==
  ASSUME HeldInv, NEW c \in Caps, NEW name \in {"live", "once"}, CaptureCommand(c, name)
  PROVE  flash' \in [{"live", "once"} -> Origins] /\ refused' \subseteq Caps
<1>1. [by |-> c, how |-> name] \in Origins
  BY OriginTypes
<1>2. flash \in [{"live", "once"} -> Origins] /\ refused \subseteq Caps
  BY HeldTypes
<1>3. CASE flash' = [flash EXCEPT ![name] = [by |-> c, how |-> name]] /\ UNCHANGED refused
  <2> DEFINE o == [by |-> c, how |-> name]
  <2>1. o \in Origins /\ flash' = [flash EXCEPT ![name] = o]
    BY <1>1, <1>3
  <2> HIDE DEF o
  <2> QED BY <1>2, <1>3, <2>1
<1>4. CASE refused' = refused \cup {c} /\ UNCHANGED flash
  BY <1>2, <1>4
<1> QED BY <1>3, <1>4 DEF CaptureCommand

(* The thread of one capture. *)
LEMMA WorkerKeeps ==
  ASSUME HeldInv, NEW c \in Caps, WorkerStep(c)
  PROVE  HeldInv'
<1>1. worker[c] \in Recording
  BY DEF WorkerStep, WorkerOpens, WaitStop, WorkerFetches, WorkerExports, Recording
<1>2. Fits(c) /\ Drives(c)
  BY <1>1, HeldTypes
  DEF Fits, At, Starts, Steps, HasNothing, RecordsLocally, Streams, Recording
<1>3. UNCHANGED <<cap, child, told, live, stop>>
  BY DEF WorkerStep, WorkerOpens, WaitStop, WorkerFetches, WorkerExports
<1>4. /\ worker' \in [Caps -> {"none", "opening", "capturing", "exporting",
                               "fetching", "ok", "err"}]
      /\ worker'[c] # "none" /\ \A d \in Caps \ {c} : worker'[d] = worker[d]
  BY SMTT(40), HeldTypes DEF WorkerStep, WorkerOpens, WaitStop, WorkerFetches, WorkerExports
<1>5. /\ file' \in [Caps -> [st : {"none", "stub", "pcap"}, of : Origins]]
      /\ file'[c].st # "stub" /\ \A d \in Caps \ {c} : file'[d] = file[d]
  <2>1. CASE WorkerExports(c)
    <3>1. flash[ExportName] \in Origins
      BY HeldTypes DEF ExportName
    <3> QED BY <1>2, <2>1, <3>1, HeldTypes DEF WorkerExports, ExportFetches, Drives
  <2>2. CASE ~WorkerExports(c)
    BY <1>2, <2>2, HeldTypes DEF WorkerStep, WorkerOpens, WaitStop, WorkerFetches, Drives
  <2> QED BY <2>1, <2>2
<1>6. flash' \in [{"live", "once"} -> Origins] /\ refused' \subseteq Caps
  <2> QED BY CommandTypes, HeldTypes
          DEF WorkerStep, WorkerOpens, WaitStop, WorkerFetches, WorkerExports, histVars
<1>7. TypesStay /\ OthersStay(c)
  BY <1>3, <1>4, <1>5, <1>6, HeldTypes DEF TypesStay, OthersStay
<1>8. Fits(c)'
  <2>1. ~At(c, "idle") /\ cap[c].pc \in {"worker", "late", "insert", "live"}
    BY <1>1, <1>2, HeldTypes
    DEF Fits, At, Starts, Steps, HasNothing, Drives, RecordsLocally, Streams, Recording
  <2> QED BY <1>2, <1>3, <1>4, <1>5, <2>1 DEF Fits, At, Drives
<1> QED BY <1>3, <1>7, <1>8, ProcessKeeps

-----------------------------------------------------------------------------
(* Captures of a given length. *)
LEMMA CaptureOnceKeeps ==
  ASSUME HeldInv, NEW c \in Caps, CaptureOnce(c)
  PROVE  HeldInv'
<1>1. Fits(c) /\ HasNothing(c)
  BY HeldTypes DEF CaptureOnce, Fits, At
<1>2. /\ cap' \in [Caps -> Starts] /\ cap'[c].pc \in {"open", "cli"}
      /\ cap'[c].kind = "once" /\ cap'[c].pc = "cli" => cap'[c].tool = "cli"
      /\ \A d \in Caps \ {c} : cap'[d] = cap[d]
  BY SMTT(40), HeldTypes DEF CaptureOnce, Starts, Steps
<1>3. /\ file' \in [Caps -> [st : {"none", "stub", "pcap"}, of : Origins]]
      /\ cap'[c].pc = "open" => file'[c].st = "pcap"
      /\ cap'[c].pc = "cli" => file'[c] = NoFile
      /\ \A d \in Caps \ {c} : file'[d] = file[d]
  <2>1. CASE UNCHANGED file
    BY <1>1, <1>2, <2>1, HeldTypes DEF CaptureOnce, HasNothing
  <2>2. CASE ~UNCHANGED file
    <3> DEFINE o == [by |-> c, how |-> "once"]
    <3>1. o \in Origins
      BY OriginTypes
    <3>2. /\ file' = [file EXCEPT ![c] = [st |-> "pcap", of |-> o]]
          /\ cap' = [cap EXCEPT ![c] = [pc |-> "open", kind |-> "once", tool |-> "ssh"]]
      BY <2>2, Zenon DEF CaptureOnce
    <3>3. cap'[c].pc = "open"
      BY <3>2, HeldTypes
    <3> HIDE DEF o
    <3> QED BY <3>1, <3>2, <3>3, HeldTypes
  <2> QED BY <2>1, <2>2
<1>4. TypesStay /\ OthersStay(c)
  BY <1>2, <1>3, HeldTypes DEF CaptureOnce, TypesStay, OthersStay, procVars
<1>5. Fits(c)'
  BY <1>1, <1>2, <1>3 DEF CaptureOnce, procVars, Fits, At, HasNothing
<1> QED BY <1>2, <1>4, <1>5, StartKeeps DEF CaptureOnce, At

LEMMA CliCaptureKeeps ==
  ASSUME HeldInv, NEW c \in Caps, CliCapture(c) \/ DeviceCapture(c)
  PROVE  HeldInv'
<1>1. /\ HasNothing(c) /\ cap[c].kind = "once" /\ cap[c].tool = "cli"
      /\ cap[c].pc \in {"cli", "device"}
  BY HeldTypes DEF CliCapture, DeviceCapture, Fits, At
<1>2. PICK at \in {"failed", "device", "fetch"} : Goto(c, at)
  BY DEF CliCapture, DeviceCapture
<1>3. /\ flash' \in [{"live", "once"} -> Origins] /\ refused' \subseteq Caps
      /\ UNCHANGED <<child, worker, told, file, live, stop>>
  BY HeldTypes, CommandTypes DEF CliCapture, DeviceCapture, procVars
<1>4. child[c] # "running" /\ worker[c] \notin Recording /\ file[c] = NoFile
  BY <1>1 DEF HasNothing, Recording
<1> QED BY <1>1, <1>2, <1>3, <1>4, HeldTypes, OriginTypes, MoveKeeps DEF At, Steps

LEMMA CliFetchesKeeps ==
  ASSUME HeldInv, NEW c \in Caps, CliFetches(c)
  PROVE  HeldInv'
<1>1. /\ HasNothing(c) /\ cap[c].kind = "once" /\ cap[c].tool = "cli"
      /\ At(c, "fetch")
  BY HeldTypes DEF CliFetches, Fits, At
<1>2. CASE Goto(c, "failed") /\ UNCHANGED file
  <2>1. child[c] # "running" /\ worker[c] \notin Recording /\ file[c] = NoFile
    BY <1>1 DEF HasNothing, Recording
  <2> QED BY <1>1, <1>2, <2>1, HeldTypes, OriginTypes, MoveKeeps
          DEF CliFetches, At, Steps, procVars, histVars
<1>3. CASE /\ Goto(c, "open")
           /\ file' = [file EXCEPT ![c] = [st |-> "pcap", of |-> flash["once"]]]
  <2>1. /\ cap' \in [Caps -> Starts] /\ cap'[c].pc = "open"
        /\ cap'[c].kind = "once" /\ cap'[c].tool = "cli"
        /\ \A d \in Caps \ {c} : cap'[d] = cap[d]
    BY <1>1, <1>3, HeldTypes, GotoSets DEF Steps
  <2>2. TypesStay /\ OthersStay(c)
    BY <1>3, <2>1, HeldTypes DEF CliFetches, TypesStay, OthersStay, procVars, histVars
  <2>3. Fits(c)'
    BY <1>1, <1>3, <2>1, HeldTypes DEF CliFetches, procVars, Fits, At, HasNothing
  <2> QED BY <1>1, <2>1, <2>2, <2>3, StartKeeps DEF CliFetches, At
<1> QED BY <1>2, <1>3 DEF CliFetches

LEMMA OnceOpensKeeps ==
  ASSUME HeldInv, NEW c \in Caps, OnceOpens(c)
  PROVE  HeldInv'
<1>1. /\ child[c] # "running" /\ worker[c] \notin Recording /\ At(c, "open")
      /\ cap[c].tool = "cli" => file[c].st # "stub"
  BY HeldTypes DEF OnceOpens, Fits, At, Recording
<1> QED BY <1>1, HeldTypes, MoveKeeps DEF OnceOpens, OpenPcap, At, Steps, procVars, histVars

-----------------------------------------------------------------------------
(* Every step of the daemon keeps HeldInv, and so does reading a file. *)
LEMMA HandlerKeeps ==
  ASSUME HeldInv, NEW c \in Caps, HandlerStep(c)
  PROVE  HeldInv'
  BY NextToolKeeps, TryRecordsKeeps, TryTimesOutKeeps, ResolveKeeps, StreamIsPcapKeeps,
     StreamFailsKeeps, WorkerReadyKeeps, WorkerFailsKeeps, WorkerIsLateKeeps, LateJoinKeeps,
     InsertKeeps, CliCaptureKeeps, CliFetchesKeeps, OnceOpensKeeps
  DEF HandlerStep

LEMMA HeldStutters == HeldInv /\ UNCHANGED captureVars => HeldInv'
  BY DEF captureVars, procVars, histVars, HeldInv, CaptureTypeOK, StopsRun, Fits, At,
         HasNothing, RecordsLocally, Streams, Drives

LEMMA HeldStep == HeldInv /\ [CaptureNext]_vars => HeldInv'
<1> SUFFICES ASSUME HeldInv, [CaptureNext]_vars PROVE HeldInv'
  OBVIOUS
<1>1. CASE CaptureStep
  BY <1>1, StartLocalKeeps, StartSshKeeps, CaptureOnceKeeps, RecorderKeeps, HandlerKeeps,
     WorkerKeeps, StopPcapKeeps, StopJoinsKeeps
  DEF CaptureStep
<1>2. CASE UNCHANGED captureVars
  BY <1>2, HeldStutters
<1>3. CASE UNCHANGED vars
  BY <1>3, HeldStutters DEF vars, captureVars, procVars, histVars
<1> QED BY <1>1, <1>2, <1>3 DEF CaptureNext

LEMMA HeldAlways == CaptureSpec => []HeldInv
  BY HeldInit, HeldStep, PTL DEF CaptureSpec

(* Every process and thread that records can be stopped, the table holds   *)
(* what has been entered and not stopped, and a start over ssh that failed *)
(* leaves no file (pcap.rs and session.rs).                                *)
THEOREM RecordersAlwaysHeld == CaptureSpec => []RecordersHeld
<1>1. HeldInv => RecordersHeld
  <2> SUFFICES ASSUME HeldInv PROVE RecordersHeld
    OBVIOUS
  <2>1. RecordersAreHeld
    BY HeldTypes DEF RecordersAreHeld, Fits, At, HasNothing, RecordsLocally, Streams,
       Drives, Recording, Ended, Starts, Steps
  <2>2. FailedLeavesNoFile
    BY HeldTypes, OriginTypes DEF FailedLeavesNoFile, Fits, At, HasNothing, RecordsLocally,
       Streams, Drives, Starts, Steps
  <2> QED BY <2>1, <2>2 DEF RecordersHeld, HeldInv
<1> QED BY <1>1, HeldAlways, PTL

-----------------------------------------------------------------------------
(* Captures that meet nobody.                                              *)

Under(c) == cap[c].pc \notin Ended /\ cap[c].kind \in {"ssh", "once"}
Lone(c) == beside[c] = {} /\ c \notin refused
Own(c, name) == flash[name] = [by |-> c, how |-> name]
Way(c) == IF cap[c].kind = "once" \/ (platform = "nxos" /\ cap[c].tool = "cli")
          THEN "once" ELSE "live"

(* Captures of the device that are under way at the same time have met. *)
MetInv ==
  /\ beside \in [Caps -> SUBSET Caps]
  /\ \A c, d \in Caps : c # d /\ Under(c) /\ Under(d) => d \in beside[c]

(* What a capture that met nobody left on the device is its own still. *)
OwnInv(c) ==
  Lone(c) =>
    /\ worker[c] \in {"capturing", "exporting"} => Own(c, "live")
    /\ worker[c] = "fetching" => Own(c, "once") /\ platform = "nxos"
    /\ At(c, "fetch") => Own(c, "once")
    /\ file[c].st = "pcap" => file[c].of = [by |-> c, how |-> Way(c)]

OpenedInv == /\ opened \subseteq Caps
             /\ \A c \in opened : At(c, "done") /\ file[c].st = "pcap"

ApartInv == MetInv /\ OpenedInv /\ \A c \in Caps : OwnInv(c)

(* A thread that records, or a fetch, is of a capture under way. *)
LEMMA UsersAreUnder ==
  ASSUME HeldInv, NEW c \in Caps, worker[c] \in Recording \/ cap[c].pc \in {"cli", "device", "fetch"}
  PROVE  Under(c)
<1>1. Fits(c) /\ cap[c].pc \in Steps
  BY HeldTypes DEF Starts
<1> QED BY <1>1 DEF Under, Ended, Steps, Fits, At, HasNothing, RecordsLocally, Streams, Drives, Recording

(* The other captures keep what is theirs when c takes a step. *)
LEMMA OthersOwn ==
  ASSUME HeldInv, ApartInv, NEW c \in Caps, OthersStay(c), platform' = platform,
         refused \subseteq refused', flash' = flash \/ Under(c),
         NEW d \in Caps \ {c}, beside[d] \subseteq beside'[d]
  PROVE  OwnInv(d)'
<1> SUFFICES ASSUME Lone(d)' PROVE OwnInv(d)'
  BY DEF OwnInv
<1>1. Lone(d) /\ OwnInv(d)
  BY DEF Lone, ApartInv
<1>2. cap'[d] = cap[d] /\ worker'[d] = worker[d] /\ file'[d] = file[d]
  BY DEF OthersStay
<1>3. CASE flash' = flash
  BY <1>1, <1>2, <1>3 DEF OwnInv, Own, Way, At
<1>4. CASE Under(c)
  <2>1. ~Under(d)
    BY <1>1, <1>4 DEF ApartInv, MetInv, Lone
  <2>2. worker[d] \notin Recording /\ ~At(d, "fetch")
    BY <2>1, UsersAreUnder DEF At
  <2> QED BY <1>1, <1>2, <2>2 DEF OwnInv, Way, At, Recording
<1> QED BY <1>3, <1>4

(* A step of a capture that is not a start, and what it must show. *)
LEMMA StepApart ==
  ASSUME HeldInv, ApartInv, NEW c \in Caps, OthersStay(c), platform' = platform,
         beside' = beside, refused \subseteq refused', flash' = flash \/ Under(c),
         Under(c)' => Under(c), OwnInv(c)',
         \/ opened' = opened
         \/ opened' = opened \cup {c} /\ At(c, "done")' /\ file'[c].st = "pcap",
         c \in opened => At(c, "done")' /\ file'[c].st = "pcap"
  PROVE  ApartInv'
<1>1. MetInv'
  BY DEF ApartInv, MetInv, Under, OthersStay
<1>2. OpenedInv'
  BY DEF ApartInv, OpenedInv, OthersStay, At
<1>3. \A d \in Caps : OwnInv(d)'
  BY OthersOwn
<1> QED BY <1>1, <1>2, <1>3 DEF ApartInv

(* A step that moves a capture on and leaves its thread and its file. *)
LEMMA MoveApart ==
  ASSUME HeldInv, ApartInv, NEW c \in Caps, NEW at \in Steps, Goto(c, at), at # "fetch",
         cap[c].pc \notin Ended, OthersStay(c),
         UNCHANGED <<platform, worker, file, flash, opened, beside, refused>>
  PROVE  ApartInv'
<1>1. cap'[c].pc = at /\ cap'[c].kind = cap[c].kind /\ cap'[c].tool = cap[c].tool
  BY HeldTypes, GotoSets
<1>2. OwnInv(c)'
  BY <1>1 DEF ApartInv, OwnInv, Lone, Own, Way, At
<1>3. c \notin opened
  BY DEF ApartInv, OpenedInv, Ended, At
<1>4. Under(c)' => Under(c)
  BY <1>1 DEF Under
<1> QED BY <1>2, <1>3, <1>4, StepApart

(* A step that leaves everything but processes and stops. *)
LEMMA StaysApart ==
  ASSUME ApartInv, UNCHANGED <<platform, cap, worker, file, flash, opened, beside, refused>>
  PROVE  ApartInv'
  BY DEF ApartInv, MetInv, OpenedInv, OwnInv, Under, Lone, Own, Way, At

(* A capture starts: it meets who is under way. *)
LEMMA StartApart ==
  ASSUME HeldInv, ApartInv, NEW c \in Caps, At(c, "idle"), OthersStay(c), Meets(c, cap'[c].kind),
         UNCHANGED <<platform, live, flash, opened, refused>>,
         cap'[c].kind = "ssh" /\ Under(c)' => live = {}, OwnInv(c)'
  PROVE  ApartInv'
<1> DEFINE met == {d \in Caps \ {c} :
                     /\ cap[d].pc \notin Ended
                     /\ "once" \in {cap'[c].kind, cap[d].kind} \/ d \notin live}
<1>1. /\ beside' \in [Caps -> SUBSET Caps] /\ beside'[c] = met
      /\ \A d \in Caps \ {c} : /\ beside[d] \subseteq beside'[d]
                               /\ d \in met => c \in beside'[d]
  BY DEF Meets, ApartInv, MetInv
<1>2. MetInv'
  <2>1. \A d \in Caps \ {c} : Under(d)' <=> Under(d)
    BY DEF OthersStay, Under
  <2>2. ASSUME NEW d \in Caps \ {c}, Under(d), Under(c)' PROVE d \in met
    BY <2>2 DEF Under
  <2> HIDE DEF met
  <2>3. ASSUME NEW x \in Caps, NEW y \in Caps, x # y, Under(x)', Under(y)'
        PROVE  y \in beside'[x]
    BY <1>1, <2>1, <2>2, <2>3 DEF ApartInv, MetInv
  <2> QED BY <1>1, <2>3 DEF MetInv
<1>3. OpenedInv'
  BY DEF ApartInv, OpenedInv, OthersStay, At
<1>4. \A d \in Caps : OwnInv(d)'
  BY <1>1, OthersOwn
<1> QED BY <1>2, <1>3, <1>4 DEF ApartInv

(* A start has no thread, and its file holds nothing or its own packets. *)
LEMMA OwnAtStart ==
  ASSUME NEW c \in Caps, worker'[c] = "none", ~At(c, "fetch")',
         file'[c].st # "pcap" \/ file'[c].of = ([by |-> c, how |-> Way(c)])'
  PROVE  OwnInv(c)'
  BY DEF OwnInv

LEMMA StartsApart ==
  ASSUME HeldInv, ApartInv, NEW c \in Caps, StartLocal(c) \/ StartSsh(c) \/ CaptureOnce(c)
  PROVE  ApartInv'
<1>1. HasNothing(c) /\ At(c, "idle")
  BY HeldTypes DEF StartLocal, StartSsh, CaptureOnce, Fits, At
<1>2. worker'[c] = "none"
  BY <1>1 DEF StartLocal, StartSsh, CaptureOnce, procVars, HasNothing
<1>3. CASE StartLocal(c)
  <2>1. /\ cap'[c].kind = "local" /\ cap'[c].pc = "try" /\ file'[c].st = "none"
        /\ OthersStay(c)
    BY <1>3, HeldTypes, OriginTypes DEF StartLocal, Try, OthersStay
  <2>2. OwnInv(c)'
    BY <1>2, <2>1, OwnAtStart DEF At
  <2> QED BY <1>1, <1>3, <2>1, <2>2, StartApart DEF StartLocal
<1>4. CASE StartSsh(c)
  <2>1. /\ cap'[c].kind = "ssh" /\ cap'[c].pc \in {"checked", "failed"}
        /\ cap'[c].pc = "checked" => live = {}
        /\ file'[c].st = "none" /\ OthersStay(c)
    BY <1>1, <1>4, HeldTypes, OriginTypes DEF StartSsh, NoneLive, OthersStay, procVars, HasNothing
  <2>2. OwnInv(c)'
    BY <1>2, <2>1, OwnAtStart DEF At
  <2>3. Under(c)' => live = {}
    BY <2>1 DEF Under, Ended
  <2> QED BY <1>1, <1>4, <2>1, <2>2, <2>3, StartApart DEF StartSsh
<1>5. CASE CaptureOnce(c)
  <2>1. cap'[c].kind = "once" /\ cap'[c].pc \in {"open", "cli"} /\ OthersStay(c)
    BY <1>5, HeldTypes DEF CaptureOnce, OthersStay, procVars
  <2>2. file'[c].st # "pcap" \/ file'[c].of = [by |-> c, how |-> "once"]
    BY <1>1, <1>5, HeldTypes, OriginTypes DEF CaptureOnce, HasNothing
  <2>3. Way(c)' = "once"
    BY <2>1 DEF Way
  <2>4. OwnInv(c)'
    BY <1>2, <2>1, <2>2, <2>3, OwnAtStart DEF At
  <2> QED BY <1>1, <1>5, <2>1, <2>4, StartApart DEF CaptureOnce
<1> QED BY <1>3, <1>4, <1>5

-----------------------------------------------------------------------------
(* A step under way after which the file is gone. *)
LEMMA DropsApart ==
  ASSUME HeldInv, ApartInv, NEW c \in Caps, OthersStay(c), cap[c].pc \notin Ended,
         cap'[c].pc # "fetch", Under(c)' => Under(c), file'[c].st # "pcap",
         worker'[c] \in {"none", "opening", "ok", "err"},
         UNCHANGED <<platform, flash, opened, beside, refused>>
  PROVE  ApartInv'
<1>1. OwnInv(c)'
  BY DEF OwnInv, At
<1>2. c \notin opened
  BY DEF ApartInv, OpenedInv, Ended, At
<1> QED BY <1>1, <1>2, StepApart

LEMMA LocalApart ==
  ASSUME HeldInv, ApartInv, NEW c \in Caps, TryFails(c) \/ KillWaits(c)
  PROVE  ApartInv'
<1>1. /\ NextTool(c) /\ RecordsLocally(c) /\ cap[c].pc \in {"try", "kill"}
      /\ UNCHANGED <<platform, worker, flash, opened, beside, refused>>
  BY HeldTypes DEF TryFails, KillWaits, NextTool, Fits, At, histVars
<1>2. CASE Try(c, "sudo")
  <2>1. /\ cap'[c].kind = "local" /\ cap'[c].pc = "try" /\ file'[c].st = "none"
        /\ OthersStay(c)
    BY <1>1, <1>2, HeldTypes, OriginTypes DEF Try, OthersStay
  <2> QED BY <1>1, <2>1, DropsApart DEF Under, Ended, RecordsLocally
<1>3. CASE Goto(c, "failed") /\ UNCHANGED <<child, file>>
  <2>1. OthersStay(c)
    BY <1>1, <1>3, HeldTypes, GotoSets DEF OthersStay, Steps
  <2> QED BY <1>1, <1>3, <2>1, MoveApart DEF Steps, Ended
<1> QED BY <1>1, <1>2, <1>3 DEF NextTool

LEMMA MovesApart ==
  ASSUME HeldInv, ApartInv, NEW c \in Caps,
         \/ TryRecords(c) \/ TryTimesOut(c) \/ StreamIsPcap(c) \/ WorkerReady(c)
         \/ WorkerIsLate(c) \/ InsertCapture(c)
  PROVE  ApartInv'
<1>1. PICK at \in {"insert", "kill", "late", "live"} : Goto(c, at)
  BY DEF TryRecords, TryTimesOut, StreamIsPcap, WorkerReady, WorkerIsLate, InsertCapture
<1>2. UNCHANGED <<platform, worker, file, flash, opened, beside, refused>>
  BY DEF TryRecords, TryTimesOut, StreamIsPcap, WorkerReady, WorkerIsLate, InsertCapture,
         procVars, histVars
<1>3. cap[c].pc \notin Ended
  BY DEF TryRecords, TryTimesOut, StreamIsPcap, WorkerReady, WorkerIsLate, InsertCapture, At, Ended
<1>4. \A d \in Caps \ {c} : child'[d] = child[d]
  BY HeldTypes, KilledSets
  DEF TryRecords, TryTimesOut, StreamIsPcap, WorkerReady, WorkerIsLate, InsertCapture, procVars
<1>5. OthersStay(c)
  BY <1>1, <1>2, <1>4, HeldTypes, GotoSets DEF OthersStay, Steps
<1> QED BY <1>1, <1>2, <1>3, <1>5, MoveApart DEF Steps

LEMMA ResolveApart ==
  ASSUME HeldInv, ApartInv, NEW c \in Caps, ResolveSshDevice(c)
  PROVE  ApartInv'
<1>1. HasNothing(c) /\ cap[c].kind = "ssh" /\ At(c, "checked")
  BY HeldTypes DEF ResolveSshDevice, Fits, At
<1>2. /\ cap'[c].pc \in {"failed", "stream"} /\ \A d \in Caps \ {c} : cap'[d] = cap[d]
  <2>1. CASE Goto(c, "failed")
    BY <2>1, HeldTypes, GotoSets DEF Steps
  <2>2. CASE cap' = [cap EXCEPT ![c].pc = "stream", ![c].tool = "ssh"]
    BY <2>2, HeldTypes DEF Starts, Steps
  <2> QED BY <2>1, <2>2 DEF ResolveSshDevice
<1>3. file'[c].st # "pcap" /\ \A d \in Caps \ {c} : file'[d] = file[d] /\ child'[d] = child[d]
  BY <1>1, HeldTypes, OriginTypes DEF ResolveSshDevice, HasNothing, NoFile
<1>4. /\ OthersStay(c) /\ worker'[c] = "none"
      /\ UNCHANGED <<platform, flash, opened, beside, refused>>
  BY <1>1, <1>2, <1>3 DEF ResolveSshDevice, OthersStay, histVars, HasNothing
<1> QED BY <1>1, <1>2, <1>3, <1>4, DropsApart DEF Under, Ended, At

LEMMA StreamFailsApart ==
  ASSUME HeldInv, ApartInv, NEW c \in Caps, StreamFails(c)
  PROVE  ApartInv'
<1>1. Streams(c) /\ At(c, "stream")
  BY HeldTypes DEF StreamFails, Fits, At
<1>2. cap'[c].pc = "worker" /\ \A d \in Caps \ {c} : cap'[d] = cap[d]
  BY HeldTypes DEF StreamFails, Starts, Steps
<1>3. /\ file'[c].st # "pcap" /\ worker'[c] = "opening"
      /\ \A d \in Caps \ {c} : file'[d] = file[d] /\ worker'[d] = worker[d]
  BY HeldTypes, OriginTypes DEF StreamFails, DropStream
<1>4. \A d \in Caps \ {c} : child'[d] = child[d]
  BY HeldTypes, KilledSets DEF StreamFails, DropStream
<1>5. OthersStay(c) /\ UNCHANGED <<platform, flash, opened, beside, refused>>
  BY <1>2, <1>3, <1>4 DEF StreamFails, OthersStay, histVars
<1> QED BY <1>1, <1>2, <1>3, <1>5, DropsApart DEF Under, Ended, At, Streams

LEMMA CleanUpApart ==
  ASSUME HeldInv, ApartInv, NEW c \in Caps, CleanUp(c), cap[c].pc \in {"worker", "late"},
         worker[c] \in {"ok", "err"}, UNCHANGED <<platform, procVars, flash, opened, histVars>>
  PROVE  ApartInv'
<1>1. cap'[c].pc = "failed" /\ \A d \in Caps \ {c} : cap'[d] = cap[d]
  BY HeldTypes, GotoSets DEF CleanUp, Steps
<1>2. file'[c].st # "pcap" /\ \A d \in Caps \ {c} : file'[d] = file[d]
  BY HeldTypes, OriginTypes DEF CleanUp
<1>3. OthersStay(c)
  BY <1>1, <1>2 DEF OthersStay, procVars
<1> QED BY <1>1, <1>2, <1>3, DropsApart DEF Under, Ended, procVars, histVars

LEMMA LateApart ==
  ASSUME HeldInv, ApartInv, NEW c \in Caps, WorkerFails(c) \/ LateJoin(c)
  PROVE  ApartInv'
<1>1. CASE CleanUp(c)
  BY <1>1, CleanUpApart DEF WorkerFails, LateJoin, LateEnd, Finished, At
<1>2. CASE LateJoin(c) /\ Goto(c, "insert") /\ UNCHANGED file
  <2>1. OthersStay(c)
    BY <1>2, HeldTypes, GotoSets DEF LateJoin, OthersStay, procVars, Steps
  <2> QED BY <1>2, <2>1, MoveApart DEF LateJoin, At, Ended, Steps, procVars, histVars
<1> QED BY <1>1, <1>2 DEF WorkerFails, LateJoin

(* The recorder of a capture writes what is its own. *)
LEMMA WritesApart ==
  ASSUME HeldInv, ApartInv, NEW c \in Caps, RecorderWrites(c)
  PROVE  ApartInv'
<1>1. child[c] = "running" /\ Fits(c) /\ cap[c] \in Starts
  BY HeldTypes DEF RecorderWrites
<1>2. (RecordsLocally(c) \/ Streams(c)) /\ ~At(c, "done") /\ ~At(c, "fetch")
  BY <1>1 DEF Fits, At, HasNothing, RecordsLocally, Streams, Drives, Starts, Steps
<1>3. Way(c) = "live" /\ worker[c] = "none"
  BY <1>2 DEF Way, RecordsLocally, Streams
<1>4. OthersStay(c)
  BY HeldTypes DEF RecorderWrites, OthersStay, procVars
<1>5. file'[c].st # "pcap" \/ file'[c].of = [by |-> c, how |-> "live"]
  BY HeldTypes DEF RecorderWrites, Wrote, NoFile
<1>6. OwnInv(c)'
  BY <1>2, <1>3, <1>5 DEF RecorderWrites, OwnInv, Way, At, procVars
<1>7. c \notin opened
  BY <1>2 DEF ApartInv, OpenedInv
<1> QED BY <1>4, <1>6, <1>7, StepApart DEF RecorderWrites, Under, histVars

(* A command puts a file of this capture on the device, or it is refused. *)
LEMMA CommandOwns ==
  ASSUME HeldInv, NEW c \in Caps, NEW name \in {"live", "once"}, CaptureCommand(c, name)
  PROVE  refused \subseteq refused' /\ (c \in refused' \/ Own(c, name)')
  BY HeldTypes DEF CaptureCommand, Own

(* The thread of a capture. *)
LEMMA WorkerApart ==
  ASSUME HeldInv, ApartInv, NEW c \in Caps, WorkerStep(c)
  PROVE  ApartInv'
<1>1. worker[c] \in Recording
  BY DEF WorkerStep, WorkerOpens, WaitStop, WorkerFetches, WorkerExports, Recording
<1>2. Under(c) /\ Drives(c) /\ ~At(c, "done") /\ ~At(c, "fetch")
  BY <1>1, UsersAreUnder, HeldTypes
  DEF Fits, At, Starts, Steps, HasNothing, RecordsLocally, Streams, Drives, Recording
<1>3. UNCHANGED <<cap, child, platform, opened, beside>>
  BY DEF WorkerStep, WorkerOpens, WaitStop, WorkerFetches, WorkerExports, histVars
<1>4. \A d \in Caps \ {c} : worker'[d] = worker[d] /\ file'[d] = file[d]
  BY HeldTypes DEF WorkerStep, WorkerOpens, WaitStop, WorkerFetches, WorkerExports
<1>5. OthersStay(c)
  BY <1>3, <1>4 DEF OthersStay
<1>6. c \notin opened
  BY <1>2 DEF ApartInv, OpenedInv
<1>7. OwnInv(c) /\ Way(c)' = Way(c) /\ (platform = "nxos" <=> Way(c) = "once")
      /\ ~At(c, "fetch")'
  BY <1>2, <1>3 DEF ApartInv, Way, Drives, At
<1>8. refused \subseteq refused'
  BY CommandOwns
  DEF WorkerStep, WorkerOpens, WaitStop, WorkerFetches, WorkerExports, histVars
<1>9. OwnInv(c)'
  <2> SUFFICES ASSUME Lone(c)' PROVE OwnInv(c)'
    BY DEF OwnInv
  <2>1. Lone(c)
    BY <1>3, <1>8 DEF Lone
  <2>2. CASE WorkerOpens(c)
    <3>1. CASE worker'[c] = "err" /\ file' = file
      BY <1>7, <2>1, <3>1 DEF OwnInv
    <3>2. CASE worker'[c] = "capturing" /\ CaptureCommand(c, "live") /\ file' = file
      BY <1>7, <2>1, <3>2, CommandOwns DEF OwnInv, Lone
    <3> QED BY <2>2, <3>1, <3>2, HeldTypes DEF WorkerOpens
  <2>3. CASE WaitStop(c)
    BY <1>7, <2>1, <2>3, HeldTypes DEF WaitStop, OwnInv, Own
  <2>4. CASE WorkerFetches(c)
    <3>1. worker'[c] = "fetching" /\ CaptureCommand(c, "once") /\ file' = file
          /\ platform' = "nxos"
      BY <2>4, HeldTypes DEF WorkerFetches
    <3> QED BY <1>7, <2>1, <3>1, CommandOwns DEF OwnInv, Lone
  <2>5. CASE WorkerExports(c)
    <3>1. CASE worker'[c] = "err" /\ file' = file
      BY <1>7, <2>1, <3>1 DEF OwnInv
    <3>2. CASE worker'[c] = "ok" /\ file'[c] = [st |-> "pcap", of |-> flash[ExportName]]
      <4>1. flash[ExportName] = [by |-> c, how |-> Way(c)]
        <5>1. worker[c] = (IF platform = "nxos" THEN "fetching" ELSE "exporting")
          BY <2>5 DEF WorkerExports
        <5>2. Way(c) = (IF platform = "nxos" THEN "once" ELSE "live")
          BY <1>2 DEF Way, Drives
        <5> QED BY <1>7, <2>1, <5>1, <5>2 DEF OwnInv, Own, ExportName
      <4> QED BY <1>7, <3>2, <4>1 DEF OwnInv
    <3> QED BY <2>5, <3>1, <3>2, HeldTypes DEF WorkerExports, ExportFetches
  <2> QED BY <2>2, <2>3, <2>4, <2>5 DEF WorkerStep
<1> QED BY <1>2, <1>3, <1>5, <1>6, <1>8, <1>9, StepApart

(* Captures of a given length. *)
LEMMA OnceApart ==
  ASSUME HeldInv, ApartInv, NEW c \in Caps, CliCapture(c) \/ DeviceCapture(c)
  PROVE  ApartInv'
<1>1. /\ HasNothing(c) /\ cap[c].kind = "once" /\ cap[c].tool = "cli"
      /\ cap[c].pc \in {"cli", "device"}
  BY HeldTypes DEF CliCapture, DeviceCapture, Fits, At
<1>2. PICK at \in {"failed", "device", "fetch"} : Goto(c, at)
  BY DEF CliCapture, DeviceCapture
<1>3. /\ cap'[c].pc = at /\ cap'[c].kind = "once"
      /\ \A d \in Caps \ {c} : cap'[d] = cap[d]
  BY <1>1, <1>2, HeldTypes, GotoSets DEF Steps
<1>4. /\ UNCHANGED <<platform, child, worker, file, opened, beside>>
  BY DEF CliCapture, DeviceCapture, procVars
<1>5. OthersStay(c) /\ Under(c) /\ c \notin opened
  BY <1>1, <1>3, <1>4 DEF OthersStay, Under, Ended, ApartInv, OpenedInv, At
<1>6. refused \subseteq refused' /\ (at = "fetch" => c \in refused' \/ Own(c, "once")')
  <2>1. CASE CaptureCommand(c, "once")
    BY <2>1, CommandOwns
  <2>2. CASE UNCHANGED refused /\ at # "fetch"
    BY <2>2
  <2> QED BY <1>2, <1>3, <2>1, <2>2, HeldTypes, GotoSets DEF CliCapture, DeviceCapture, Steps
<1>7. OwnInv(c)'
  BY <1>1, <1>3, <1>4, <1>6, OriginTypes DEF OwnInv, Lone, At, HasNothing
<1> QED BY <1>4, <1>5, <1>6, <1>7, StepApart

LEMMA FetchApart ==
  ASSUME HeldInv, ApartInv, NEW c \in Caps, CliFetches(c)
  PROVE  ApartInv'
<1>1. HasNothing(c) /\ cap[c].kind = "once" /\ At(c, "fetch")
  BY HeldTypes DEF CliFetches, Fits, At
<1>2. /\ cap'[c].pc \in {"failed", "open"} /\ cap'[c].kind = "once"
      /\ \A d \in Caps \ {c} : cap'[d] = cap[d]
  <2>1. PICK at \in {"failed", "open"} : Goto(c, at)
    BY DEF CliFetches
  <2> QED BY <1>1, <2>1, HeldTypes, GotoSets DEF Steps
<1>3. /\ UNCHANGED <<platform, child, worker, flash, opened, beside, refused>>
      /\ \A d \in Caps \ {c} : file'[d] = file[d]
  BY HeldTypes DEF CliFetches, procVars, histVars
<1>4. OthersStay(c) /\ Under(c) /\ c \notin opened
  BY <1>1, <1>2, <1>3 DEF OthersStay, Under, Ended, ApartInv, OpenedInv, At
<1>5. OwnInv(c)'
  <2>1. Lone(c)' => Own(c, "once")
    BY <1>1, <1>3 DEF ApartInv, OwnInv, Lone
  <2>2. file'[c].st # "pcap" \/ file'[c].of = flash["once"]
    BY <1>1, HeldTypes, OriginTypes DEF CliFetches, HasNothing
  <2>3. Way(c)' = "once" /\ worker'[c] = "none" /\ ~At(c, "fetch")'
    BY <1>1, <1>2, <1>3 DEF Way, HasNothing, At
  <2> QED BY <2>1, <2>2, <2>3 DEF OwnInv, Own
<1> QED BY <1>3, <1>4, <1>5, StepApart

(* What is opened is a file that holds packets. *)
LEMMA OpensApart ==
  ASSUME HeldInv, ApartInv, NEW c \in Caps, OpenPcap(c), cap[c].pc \in {"live", "done", "open"},
         UNCHANGED <<platform, procVars, file, flash, histVars>>
  PROVE  ApartInv'
<1>1. /\ cap'[c].pc = "done" /\ cap'[c].kind = cap[c].kind /\ cap'[c].tool = cap[c].tool
      /\ \A d \in Caps \ {c} : cap'[d] = cap[d]
  BY HeldTypes, GotoSets DEF OpenPcap, Steps
<1>2. OthersStay(c)
  BY <1>1 DEF OthersStay, procVars
<1>3. OwnInv(c)'
  BY <1>1 DEF ApartInv, OwnInv, Lone, Own, Way, At, procVars, histVars
<1>4. \/ opened' = opened
      \/ opened' = opened \cup {c} /\ At(c, "done")' /\ file'[c].st = "pcap"
  BY <1>1 DEF OpenPcap, At
<1>5. c \in opened => At(c, "done")' /\ file'[c].st = "pcap"
  BY <1>1 DEF ApartInv, OpenedInv, At
<1>6. ~(Under(c)')
  BY <1>1 DEF Under, Ended
<1> QED BY <1>2, <1>3, <1>4, <1>5, <1>6, StepApart DEF histVars

-----------------------------------------------------------------------------
LEMMA ApartInit == CaptureInit => ApartInv
<1> SUFFICES ASSUME CaptureInit PROVE ApartInv
  OBVIOUS
<1>1. MetInv
  BY DEF CaptureInit, MetInv, Under
<1>2. OpenedInv
  BY DEF CaptureInit, OpenedInv
<1>3. \A c \in Caps : OwnInv(c)
  BY OriginTypes DEF CaptureInit, OwnInv, At
<1> QED BY <1>1, <1>2, <1>3 DEF ApartInv

LEMMA ApartStep == HeldInv /\ ApartInv /\ [CaptureNext]_vars => ApartInv'
<1> SUFFICES ASSUME HeldInv, ApartInv, [CaptureNext]_vars PROVE ApartInv'
  OBVIOUS
<1>1. ASSUME NEW c \in Caps, HandlerStep(c) PROVE ApartInv'
  <2>1. CASE OnceOpens(c)
    BY <2>1, OpensApart DEF OnceOpens, At
  <2> QED BY <1>1, <2>1, LocalApart, MovesApart, ResolveApart, StreamFailsApart, LateApart,
             OnceApart, FetchApart
          DEF HandlerStep
<1>2. ASSUME NEW c \in Caps, RecorderEnds(c) PROVE ApartInv'
  BY <1>2, StaysApart DEF RecorderEnds, histVars
<1>3. ASSUME NEW t \in Stoppers, StopPcap(t) PROVE ApartInv'
  BY <1>3, StaysApart DEF StopPcap, histVars
<1>4. ASSUME NEW t \in Stoppers, StopJoins(t) PROVE ApartInv'
  <2>1. stop[t] \in Caps /\ cap[stop[t]].pc \in {"live", "done"}
    BY <1>4, HeldTypes DEF StopJoins, HeldInv, StopsRun
  <2> QED BY <1>4, <2>1, OpensApart DEF StopJoins
<1>5. CASE CaptureStep
  BY <1>1, <1>2, <1>3, <1>4, <1>5, StartsApart, WritesApart, WorkerApart DEF CaptureStep
<1>6. CASE UNCHANGED captureVars \/ UNCHANGED vars
  BY <1>6, StaysApart DEF captureVars, vars, procVars, histVars
<1> QED BY <1>5, <1>6 DEF CaptureNext

(* Two captures over ssh are in the table together only when their starts  *)
(* overlapped, and a capture that met nobody and was not refused opens the *)
(* packets it recorded itself (session.rs, pcap.rs).                       *)
THEOREM CapturesAlwaysApart == CaptureSpec => []CapturesApart
<1>1. HeldInv /\ ApartInv => CapturesApart
  <2> SUFFICES ASSUME HeldInv, ApartInv PROVE CapturesApart
    OBVIOUS
  <2>1. SshAloneUnlessRaced
    BY HeldTypes DEF SshAloneUnlessRaced, ApartInv, MetInv, Under, At, Ended
  <2>2. OpenedIsOwn
    <3> SUFFICES ASSUME NEW c \in opened, Lone(c)
                 PROVE  file[c].of.by = c /\ file[c].of.how = Way(c)
      BY DEF OpenedIsOwn, Lone, Way
    <3>1. file[c].of = [by |-> c, how |-> Way(c)]
      BY DEF ApartInv, OpenedInv, OwnInv
    <3> QED BY <3>1
  <2> QED BY <2>1, <2>2 DEF CapturesApart
<1> QED BY <1>1, HeldAlways, ApartInit, ApartStep, PTL DEF CaptureSpec

-----------------------------------------------------------------------------
(************************** The analysis of a capture file *****************)
(* Places in order.                                                        *)

\* Nth puts a finite set of numbers in order.
LEMMA NthIs ==
  ASSUME NEW at \in SUBSET Nat, IsFiniteSet(at)
  PROVE  /\ Cardinality(at) \in Nat
         /\ \A n \in 1 .. Cardinality(at) :
              Nth(at, n) \in at /\ Cardinality({j \in at : j <= Nth(at, n)}) = n
         /\ \A i \in at : \E n \in 1 .. Cardinality(at) : Nth(at, n) = i
<1> DEFINE Upto(i) == {j \in at : j <= i}
           rank == [i \in at |-> Cardinality(Upto(i))]
           size == Cardinality(at)
<1>1. size \in Nat
  BY FS_CardinalityType
<1>2. ASSUME NEW i \in at PROVE IsFiniteSet(Upto(i)) /\ rank[i] \in 1 .. size
  <2>1. Upto(i) \in SUBSET at /\ i \in Upto(i)
    BY DEF Upto
  <2>2. rank[i] = Cardinality(Upto(i))
    BY <1>2
  <2> HIDE DEF Upto, rank
  <2>3. IsFiniteSet(Upto(i)) /\ Cardinality(Upto(i)) <= size
    BY <2>1, FS_Subset
  <2>4. Cardinality(Upto(i)) \in Nat /\ Cardinality(Upto(i)) # 0
    BY <2>1, <2>3, FS_CardinalityType, FS_EmptySet
  <2> QED BY <1>1, <2>2, <2>3, <2>4
<1>3. ASSUME NEW i \in at, NEW k \in at, rank[i] = rank[k] PROVE i = k
  <2>1. ASSUME NEW x \in at, NEW y \in at, x <= y PROVE Upto(x) \in SUBSET Upto(y)
    <3>1. \A j \in at : j <= x => j <= y
      BY <2>1
    <3> QED BY <3>1 DEF Upto
  <2>2a. \A x \in at : rank[x] = Cardinality(Upto(x)) /\ x \in Upto(x)
    BY DEF Upto
  <2> HIDE DEF rank, Upto
  <2>2. \A x \in at : rank[x] = Cardinality(Upto(x)) /\ IsFiniteSet(Upto(x)) /\ x \in Upto(x)
    BY <1>2, <2>2a
  <2>3. Upto(i) = Upto(k)
    <3>1. CASE i <= k
      BY <1>3, <2>1, <2>2, <3>1, FS_Subset
    <3>2. CASE k <= i
      BY <1>3, <2>1, <2>2, <3>2, FS_Subset
    <3> QED BY <3>1, <3>2
  <2>4. i \in Upto(k) /\ k \in Upto(i)
    BY <2>2, <2>3
  <2> QED BY <2>4 DEF Upto
<1>4. \A n \in 1 .. size : \E i \in at : rank[i] = n
  <2>1. rank \in Injection(at, 1 .. size)
    <3>1. rank \in [at -> 1 .. size]
      BY <1>2
    <3> HIDE DEF rank
    <3> QED BY <1>3, <3>1 DEF Injection, IsInjective
  <2>2. IsFiniteSet(1 .. size) /\ Cardinality(1 .. size) = size
    BY <1>1, FS_Interval
  <2>3. rank \in Surjection(at, 1 .. size)
    BY <2>1, <2>2, FS_Injection
  <2> HIDE DEF rank
  <2> QED BY <2>3 DEF Surjection
<1>5. ASSUME NEW n \in 1 .. size PROVE Nth(at, n) \in at /\ rank[Nth(at, n)] = n
  <2>1. PICK i \in at : rank[i] = n
    BY <1>4
  <2>2. \E k \in at : Cardinality({j \in at : j <= k}) = n
    BY <2>1
  <2> QED BY <2>2 DEF Nth
<1>6. ASSUME NEW i \in at PROVE \E n \in 1 .. size : Nth(at, n) = i
  <2>1. rank[i] \in 1 .. size
    BY <1>2
  <2> HIDE DEF rank
  <2>2. Nth(at, rank[i]) \in at /\ rank[Nth(at, rank[i])] = rank[i]
    BY <1>5, <2>1
  <2> QED BY <1>3, <2>1, <2>2
<1> QED BY <1>1, <1>5, <1>6

LEMMA CountUpTo ==
  ASSUME NEW n \in Nat
  PROVE  IsFiniteSet(1 .. n) /\ Cardinality(1 .. n) = n
  BY FS_Interval

\* What is sifted from a sequence is what stands at the places, in order.
LEMMA SiftedIs ==
  ASSUME NEW S, NEW s \in Seq(S), NEW at \in SUBSET (DOMAIN s)
  PROVE  LET r == Sifted(s, at)
         IN  /\ IsFiniteSet(at) /\ Cardinality(at) \in 0 .. Len(s)
             /\ r \in Seq(S) /\ Len(r) = Cardinality(at)
             /\ \A n \in DOMAIN r : \E i \in at : r[n] = s[i]
             /\ \A i \in at : \E n \in DOMAIN r : r[n] = s[i]
             /\ \A m, n \in DOMAIN r :
                  m < n => \E i, j \in at : i < j /\ r[m] = s[i] /\ r[n] = s[j]
<1> DEFINE r == Sifted(s, at)
           size == Cardinality(at)
<1>1. DOMAIN s = 1 .. Len(s) /\ Len(s) \in Nat
  OBVIOUS
<1>2. at \in SUBSET Nat /\ IsFiniteSet(at) /\ size \in 0 .. Len(s)
  <2>1. IsFiniteSet(1 .. Len(s)) /\ Cardinality(1 .. Len(s)) = Len(s)
    BY <1>1, CountUpTo
  <2>2. IsFiniteSet(at) /\ size <= Len(s) /\ size \in Nat
    BY <1>1, <2>1, FS_Subset, FS_CardinalityType
  <2> QED BY <1>1, <2>2
<1>3. \A n \in 1 .. size :
        Nth(at, n) \in at /\ Cardinality({j \in at : j <= Nth(at, n)}) = n
  BY <1>2, NthIs
<1>4. r = [n \in 1 .. size |-> s[Nth(at, n)]]
  BY DEF Sifted
<1> HIDE DEF r
<1>5. \A n \in 1 .. size : r[n] = s[Nth(at, n)] /\ s[Nth(at, n)] \in S
  <2>1. \A i \in at : s[i] \in S
    BY <1>1
  <2> HIDE DEF size
  <2> QED BY <1>3, <1>4, <2>1
<1>6. r \in Seq(S) /\ Len(r) = size /\ DOMAIN r = 1 .. size
  BY <1>2, <1>4, <1>5
<1>7. \A i \in at : \E n \in 1 .. size : Nth(at, n) = i
  BY <1>2, NthIs
<1>8. ASSUME NEW m \in 1 .. size, NEW n \in 1 .. size, m < n
      PROVE  Nth(at, m) < Nth(at, n)
  <2> DEFINE Upto(i) == {j \in at : j <= i}
  <2>1. Nth(at, m) \in Nat /\ Nth(at, n) \in Nat /\ Nth(at, m) \in at /\ Nth(at, n) \in at
    BY <1>2, <1>3
  <2>2. Cardinality(Upto(Nth(at, m))) = m /\ Cardinality(Upto(Nth(at, n))) = n
    BY <1>3
  <2>3. ASSUME Nth(at, n) <= Nth(at, m) PROVE FALSE
    <3>1. Upto(Nth(at, n)) \in SUBSET Upto(Nth(at, m)) /\ Upto(Nth(at, m)) \in SUBSET at
      BY <1>2, <2>1, <2>3
    <3> HIDE DEF Upto
    <3>2. n <= m
      BY <1>2, <2>2, <3>1, FS_Subset
    <3> QED BY <1>8, <3>2
  <2> QED BY <2>1, <2>3
<1> HIDE DEF r, size
<1>9. \A m, n \in DOMAIN r : m < n => \E i, j \in at : i < j /\ r[m] = s[i] /\ r[n] = s[j]
  BY <1>3, <1>5, <1>6, <1>8
<1>10. \A i \in at : \E n \in DOMAIN r : r[n] = s[i]
  BY <1>5, <1>6, <1>7
<1>11. \A n \in DOMAIN r : \E i \in at : r[n] = s[i]
  BY <1>3, <1>5, <1>6
<1> QED BY <1>2, <1>6, <1>9, <1>10, <1>11 DEF r, size

\* What is taken is the front, all of it when there is room.
LEMMA TakeIs ==
  ASSUME NEW S, NEW s \in Seq(S), NEW n \in Nat
  PROVE  /\ Take(s, n) \in Seq(S) /\ Len(Take(s, n)) <= Len(s)
         /\ DOMAIN Take(s, n) \subseteq DOMAIN s
         /\ \A i \in DOMAIN Take(s, n) : Take(s, n)[i] = s[i]
         /\ Len(s) <= n => Take(s, n) = s
         /\ Len(Take(s, n)) < Len(s) => Len(s) > n
  BY DEF Take

-----------------------------------------------------------------------------
(* The inductive invariant says what the analyzer knows after the frames   *)
(* it looked at, the first ones in number ScanCap.                         *)

Claims == {<<f.src, f.mac>> : f \in Frames}
Packets == {Summary(f, i) : f \in Frames, i \in Nat}
Analyses == [seen : SUBSET {Flow(f) : f \in Frames}, arp : SUBSET Claims,
             hits : [ToSet(Kinds) -> Seq(Nat)], packets : Seq(Packets)]

ReaderTyped == reader \in [pc : {"closed", "reading", "read"}, frames : Seq(Frames), a : Analyses]

\* Frame k was looked at; a segment is what a later one may repeat.
Looked(fr, k) == k \in DOMAIN fr /\ k <= ScanCap
IsSegment(fr, k) == Looked(fr, k) /\ Dissected(fr[k]) = "tcp" /\ Carries(fr[k])

\* A packet stands for the frame with its index, until there is no room.
PacketsInv(fr, packets) ==
  /\ Len(packets) <= Len(fr) /\ Len(packets) <= ScanCap /\ Len(packets) <= StoreCap
  /\ Len(packets) \in {Len(fr), ScanCap, StoreCap}
  /\ \A m \in DOMAIN packets : packets[m] = Summary(fr[m], m - 1)

\* The flows seen are those of the segments.
SeenInv(fr, seen) == seen = {Flow(fr[k]) : k \in {j \in DOMAIN fr : IsSegment(fr, j)}}

\* A claim was made by an ARP frame.
ArpInv(fr, arp) ==
  \A w \in arp : \E k \in DOMAIN fr :
    Looked(fr, k) /\ Dissected(fr[k]) = "arp" /\ w = <<fr[k].src, fr[k].mac>>

\* Hits are of frames that were looked at, in order, of a protocol that can have one.
HitsInv(fr, hits) ==
  \A kind \in ToSet(Kinds) :
    /\ \A i \in Range(hits[kind]) :
         Looked(fr, i + 1) /\ Dissected(fr[i + 1]) \in {"tcp", "dns", "icmp", "arp"}
    /\ \A m, n \in DOMAIN hits[kind] : m < n => hits[kind][m] < hits[kind][n]

RepeatsAt(fr, m) ==
  IsSegment(fr, m) /\ \E k \in 1 .. (m - 1) : IsSegment(fr, k) /\ Flow(fr[k]) = Flow(fr[m])

\* The retransmissions are the segments whose flow had been seen.
RepeatsInv(fr, hits) ==
  \A m \in DOMAIN fr : RepeatsAt(fr, m) <=> m - 1 \in Range(hits["retransmit"])

ConflictAt(fr, m) ==
  \E k \in 1 .. (m - 1) :
    Dissected(fr[k]) = "arp" /\ fr[k].src = fr[m].src /\ fr[k].mac # fr[m].mac

\* The conflicts are claims that differ from an earlier one.
ConflictsInv(fr, hits) == \A i \in Range(hits["arp_conflict"]) : ConflictAt(fr, i + 1)

AnalysisOf(fr, a) ==
  /\ PacketsInv(fr, a.packets) /\ SeenInv(fr, a.seen) /\ ArpInv(fr, a.arp)
  /\ HitsInv(fr, a.hits) /\ RepeatsInv(fr, a.hits) /\ ConflictsInv(fr, a.hits)

ReadInv == ReaderTyped /\ AnalysisOf(reader.frames, reader.a)

-----------------------------------------------------------------------------
LEMMA KindsAre ==
  /\ ToSet(Kinds) = {"retransmit", "zero_window", "dns_failure", "tls_alert", "refused",
                     "icmp_unreach", "arp_conflict", "cleartext_creds"}
  /\ Range(Kinds) = ToSet(Kinds) /\ DOMAIN Kinds = 1 .. 8
  /\ \A kind \in ToSet(Kinds) : \E n \in DOMAIN Kinds : Kinds[n] = kind
  /\ \A n \in DOMAIN Kinds : Kinds[n] \in ToSet(Kinds)
<1>1. DOMAIN Kinds = 1 .. 8
  BY DEF Kinds
<1>2. ToSet(Kinds) = {Kinds[n] : n \in 1 .. 8} /\ Range(Kinds) = {Kinds[n] : n \in 1 .. 8}
  BY <1>1 DEF ToSet, Range
<1>3. {Kinds[n] : n \in 1 .. 8}
        = {Kinds[1], Kinds[2], Kinds[3], Kinds[4], Kinds[5], Kinds[6], Kinds[7], Kinds[8]}
  <2>1. 1 .. 8 = {1, 2, 3, 4, 5, 6, 7, 8}
    OBVIOUS
  <2> QED BY <2>1
<1>4. /\ Kinds[1] = "retransmit" /\ Kinds[2] = "zero_window" /\ Kinds[3] = "dns_failure"
      /\ Kinds[4] = "tls_alert" /\ Kinds[5] = "refused" /\ Kinds[6] = "icmp_unreach"
      /\ Kinds[7] = "arp_conflict" /\ Kinds[8] = "cleartext_creds"
  BY DEF Kinds
<1> QED BY <1>1, <1>2, <1>3, <1>4

LEMMA CapsAreNat ==
  /\ StoreCap \in Nat /\ ScanCap \in Nat /\ UiCap \in Nat /\ HitCap \in Nat
  /\ AgentCap \in Nat /\ SampleCap \in Nat
  BY DecodeAssumption

\* Nothing is in a finding but what the protocol of the frame can be.
LEMMA HitsAre ==
  ASSUME NEW a, NEW f, NEW kind \in HitsOf(a, f)
  PROVE  /\ Dissected(f) \in {"tcp", "dns", "icmp", "arp"}
         /\ kind = "retransmit" => Dissected(f) = "tcp" /\ Repeats(a, f)
         /\ kind = "arp_conflict" => Dissected(f) = "arp" /\ Conflicts(a, f)
  BY DEF HitsOf, TcpHits

\* A later hit keeps the list in order.
LEMMA AddHit ==
  ASSUME NEW h \in Seq(Nat), NEW n \in Nat, \A i \in Range(h) : i < n,
         \A l, m \in DOMAIN h : l < m => h[l] < h[m]
  PROVE  /\ Range(Append(h, n)) = Range(h) \cup {n}
         /\ \A l, m \in DOMAIN Append(h, n) : l < m => Append(h, n)[l] < Append(h, n)[m]
<1> DEFINE more == Append(h, n)
<1>1. /\ DOMAIN more = 1 .. (Len(h) + 1) /\ DOMAIN h = 1 .. Len(h) /\ Len(h) \in Nat
      /\ more[Len(h) + 1] = n /\ \A m \in DOMAIN h : more[m] = h[m]
  OBVIOUS
<1> HIDE DEF more
<1>2. \A m \in DOMAIN more : m \in DOMAIN h \/ m = Len(h) + 1
  BY <1>1
<1>3. \A m \in DOMAIN h : m \in DOMAIN more /\ m < Len(h) + 1 /\ h[m] < n
  BY <1>1 DEF Range
<1>4. Range(more) = Range(h) \cup {n}
  BY <1>1, <1>2, <1>3 DEF Range
<1>5. ASSUME NEW l \in DOMAIN more, NEW m \in DOMAIN more, l < m PROVE more[l] < more[m]
  BY SMTT(40), <1>1, <1>2, <1>3, <1>5
<1> QED BY <1>4, <1>5 DEF more

LEMMA RepeatIsHit ==
  ASSUME NEW a, NEW f, Dissected(f) = "tcp", Repeats(a, f)
  PROVE  "retransmit" \in HitsOf(a, f)
  BY DEF HitsOf, TcpHits

LEMMA DissectTyped ==
  ASSUME NEW a \in Analyses, NEW f \in Frames, NEW i \in Nat
  PROVE  Dissect(a, f, i) \in Analyses
<1> DEFINE d == Dissect(a, f, i)
<1>1. d.seen \in SUBSET {Flow(g) : g \in Frames}
  BY DEF Dissect, Analyses
<1>2. d.arp \in SUBSET Claims
  BY DEF Dissect, Analyses, Claims
<1>3. d.hits \in [ToSet(Kinds) -> Seq(Nat)]
  BY DEF Dissect, Analyses
<1>4. d.packets \in Seq(Packets)
  BY DEF Dissect, Analyses, Packets
<1>5. d = [seen |-> d.seen, arp |-> d.arp, hits |-> d.hits, packets |-> d.packets]
  BY DEF Dissect
<1> HIDE DEF d
<1>6. d \in Analyses
  BY <1>1, <1>2, <1>3, <1>4, <1>5 DEF Analyses
<1> QED BY <1>6 DEF d

LEMMA ReadInit == CaptureInit => ReadInv
<1> SUFFICES ASSUME CaptureInit PROVE ReadInv
  OBVIOUS
<1> DEFINE none == [k \in ToSet(Kinds) |-> <<>>]
<1>1. none \in [ToSet(Kinds) -> Seq(Nat)] /\ \A k \in ToSet(Kinds) : none[k] = <<>>
  OBVIOUS
<1>2. reader = [pc |-> "closed", frames |-> <<>>,
                a |-> [seen |-> {}, arp |-> {}, hits |-> none, packets |-> <<>>]]
  BY DEF CaptureInit, Closed, Analyzer
<1> HIDE DEF none
<1>3. [seen |-> {}, arp |-> {}, hits |-> none, packets |-> <<>>] \in Analyses
  BY <1>1 DEF Analyses
<1>4. ReaderTyped
  BY <1>2, <1>3 DEF ReaderTyped
<1>5. PacketsInv(<<>>, <<>>) /\ SeenInv(<<>>, {}) /\ ArpInv(<<>>, {})
  BY CapsAreNat DEF PacketsInv, SeenInv, ArpInv
<1>6. HitsInv(<<>>, none)
  BY <1>1 DEF HitsInv, Range
<1>7. RepeatsInv(<<>>, none) /\ ConflictsInv(<<>>, none)
  BY <1>1, KindsAre DEF RepeatsInv, ConflictsInv, Range
<1> QED BY <1>2, <1>4, <1>5, <1>6, <1>7 DEF ReadInv, AnalysisOf

-----------------------------------------------------------------------------
(* One more frame.                                                         *)

LEMMA OneMore ==
  ASSUME NEW fr \in Seq(Frames), NEW f \in Frames
  PROVE  LET more == Append(fr, f)
         IN  /\ Len(fr) \in Nat /\ DOMAIN fr = 1 .. Len(fr) /\ Len(more) = Len(fr) + 1
             /\ DOMAIN more = 1 .. (Len(fr) + 1) /\ more[Len(fr) + 1] = f
             /\ \A k \in DOMAIN fr : more[k] = fr[k] /\ k \in DOMAIN more
             /\ \A k \in DOMAIN fr : Looked(more, k) <=> Looked(fr, k)
             /\ \A k \in DOMAIN fr : IsSegment(more, k) <=> IsSegment(fr, k)
             /\ Looked(more, Len(fr) + 1) <=> Len(fr) < ScanCap
<1> DEFINE more == Append(fr, f)
<1>1. /\ Len(fr) \in Nat /\ DOMAIN fr = 1 .. Len(fr) /\ Len(more) = Len(fr) + 1
      /\ DOMAIN more = 1 .. (Len(fr) + 1) /\ more[Len(fr) + 1] = f
      /\ \A k \in DOMAIN fr : more[k] = fr[k] /\ k \in DOMAIN more
  OBVIOUS
<1> HIDE DEF more
<1>2. \A k \in DOMAIN fr : Looked(more, k) <=> Looked(fr, k)
  BY <1>1 DEF Looked
<1>3. \A k \in DOMAIN fr : IsSegment(more, k) <=> IsSegment(fr, k)
  BY <1>1, <1>2 DEF IsSegment
<1>4. Looked(more, Len(fr) + 1) <=> Len(fr) < ScanCap
  BY <1>1, CapsAreNat DEF Looked
<1> QED BY <1>1, <1>2, <1>3, <1>4 DEF more

\* What is not looked at changes nothing.
LEMMA NotLooked ==
  ASSUME NEW fr \in Seq(Frames), NEW f \in Frames, NEW a \in Analyses,
         AnalysisOf(fr, a), ~(Len(fr) < ScanCap)
  PROVE  AnalysisOf(Append(fr, f), a)
<1> DEFINE more == Append(fr, f)
<1>1. /\ Len(fr) \in Nat /\ DOMAIN fr = 1 .. Len(fr) /\ Len(more) = Len(fr) + 1
      /\ DOMAIN more = 1 .. (Len(fr) + 1)
      /\ \A k \in DOMAIN fr : more[k] = fr[k]
      /\ \A k \in DOMAIN more : Looked(more, k) <=> Looked(fr, k)
      /\ \A k \in DOMAIN more : Looked(more, k) => k \in DOMAIN fr
      /\ \A k \in DOMAIN more : IsSegment(more, k) <=> IsSegment(fr, k)
  <2>1. \A k \in DOMAIN fr : (Looked(more, k) <=> Looked(fr, k)) /\ (IsSegment(more, k) <=> IsSegment(fr, k))
    BY OneMore
  <2>2. ~Looked(more, Len(fr) + 1) /\ ~Looked(fr, Len(fr) + 1)
    BY OneMore DEF Looked
  <2>3. \A k \in DOMAIN more : k \in DOMAIN fr \/ k = Len(fr) + 1
    BY OneMore
  <2> QED BY <2>1, <2>2, <2>3, OneMore DEF IsSegment
<1> HIDE DEF more
<1>2. PacketsInv(more, a.packets)
  <2>1. a.packets \in Seq(Packets)
    BY DEF Analyses
  <2>2. Len(a.packets) \in {ScanCap, StoreCap}
    BY <1>1, <2>1, CapsAreNat DEF AnalysisOf, PacketsInv
  <2>3. \A m \in DOMAIN a.packets : m \in DOMAIN fr
    BY <1>1, <2>1 DEF AnalysisOf, PacketsInv
  <2> QED BY <1>1, <2>1, <2>2, <2>3 DEF AnalysisOf, PacketsInv
<1>3. SeenInv(more, a.seen)
  <2>1. {j \in DOMAIN fr : IsSegment(fr, j)} = {j \in DOMAIN more : IsSegment(more, j)}
    BY <1>1 DEF IsSegment
  <2>2. \A k \in DOMAIN fr : Flow(more[k]) = Flow(fr[k])
    BY <1>1
  <2> QED BY <2>1, <2>2 DEF AnalysisOf, SeenInv
<1>4. ArpInv(more, a.arp)
  BY <1>1 DEF AnalysisOf, ArpInv
<1>5. HitsInv(more, a.hits)
  BY <1>1 DEF AnalysisOf, HitsInv, Looked
<1>6. /\ \A i \in Range(a.hits["retransmit"]) : Looked(fr, i + 1)
      /\ \A i \in Range(a.hits["arp_conflict"]) : Looked(fr, i + 1)
  BY KindsAre DEF AnalysisOf, HitsInv, Range
<1>7. RepeatsInv(more, a.hits)
  <2>1. \A m \in DOMAIN fr : RepeatsAt(more, m) <=> RepeatsAt(fr, m)
    BY SMTT(40), <1>1 DEF RepeatsAt, IsSegment, Looked
  <2>2. ~RepeatsAt(more, Len(fr) + 1) /\ Len(fr) \notin Range(a.hits["retransmit"])
    BY <1>1, <1>6 DEF RepeatsAt, IsSegment, Looked
  <2>3. \A m \in DOMAIN more : m \in DOMAIN fr \/ (m = Len(fr) + 1 /\ m - 1 = Len(fr))
    BY <1>1
  <2> QED BY <2>1, <2>2, <2>3 DEF AnalysisOf, RepeatsInv
<1>8. ConflictsInv(more, a.hits)
  <2>1. ASSUME NEW i \in Range(a.hits["arp_conflict"]) PROVE ConflictAt(more, i + 1)
    <3>1. ConflictAt(fr, i + 1) /\ i + 1 \in 1 .. Len(fr)
      BY <1>1, <1>6 DEF AnalysisOf, ConflictsInv, Looked
    <3>2. \A k \in 1 .. ((i + 1) - 1) : k \in DOMAIN fr
      BY <1>1, <3>1
    <3> QED BY <1>1, <3>1, <3>2 DEF ConflictAt
  <2> QED BY <2>1 DEF ConflictsInv
<1> QED BY <1>2, <1>3, <1>4, <1>5, <1>7, <1>8 DEF AnalysisOf, more

\* What is looked at is dissected.
LEMMA OneLooked ==
  ASSUME NEW fr \in Seq(Frames), NEW f \in Frames, NEW a \in Analyses,
         AnalysisOf(fr, a), Len(fr) < ScanCap
  PROVE  AnalysisOf(Append(fr, f), Dissect(a, f, Len(fr)))
<1> DEFINE more == Append(fr, f)
           n == Len(fr)
           d == Dissect(a, f, n)
<1>1. /\ n \in Nat /\ DOMAIN fr = 1 .. n /\ Len(more) = n + 1
      /\ DOMAIN more = 1 .. (n + 1) /\ more[n + 1] = f
      /\ \A k \in DOMAIN fr : more[k] = fr[k] /\ k \in DOMAIN more
      /\ \A k \in DOMAIN fr : IsSegment(more, k) <=> IsSegment(fr, k)
      /\ \A k \in DOMAIN more : Looked(more, k)
      /\ \A k \in DOMAIN fr : Looked(fr, k)
      /\ \A k \in DOMAIN more : k \in DOMAIN fr \/ k = n + 1
  BY OneMore, CapsAreNat DEF Looked
<1>2. IsSegment(more, n + 1) <=> Dissected(f) = "tcp" /\ Carries(f)
  BY <1>1 DEF IsSegment
<1>3. /\ d.seen = IF Dissected(f) = "tcp" /\ Carries(f) THEN a.seen \cup {Flow(f)} ELSE a.seen
      /\ d.arp = IF Dissected(f) = "arp" /\ ~\E p \in a.arp : p[1] = f.src
                 THEN a.arp \cup {<<f.src, f.mac>>} ELSE a.arp
      /\ d.hits = [k \in DOMAIN a.hits |->
                     IF k \in HitsOf(a, f) THEN Append(a.hits[k], n) ELSE a.hits[k]]
      /\ d.packets = IF Len(a.packets) < StoreCap
                     THEN Append(a.packets, Summary(f, n)) ELSE a.packets
  BY DEF Dissect
<1>4. a.packets \in Seq(Packets) /\ a.hits \in [ToSet(Kinds) -> Seq(Nat)]
  BY DEF Analyses
<1>5. \A k \in ToSet(Kinds) :
        /\ a.hits[k] \in Seq(Nat)
        /\ d.hits[k] = IF k \in HitsOf(a, f) THEN Append(a.hits[k], n) ELSE a.hits[k]
  BY <1>3, <1>4
<1> HIDE DEF more, n, d
<1>6. PacketsInv(more, d.packets)
  <2>1. CASE Len(a.packets) < StoreCap
    <3>1. /\ Len(a.packets) = n /\ \A m \in DOMAIN a.packets : a.packets[m] = Summary(fr[m], m - 1)
      BY <1>1, <2>1, <1>4, CapsAreNat DEF AnalysisOf, PacketsInv, n
    <3>2. d.packets = Append(a.packets, Summary(f, n))
      BY <1>3, <2>1
    <3>3. /\ Len(d.packets) = n + 1 /\ DOMAIN d.packets = 1 .. (n + 1) /\ DOMAIN a.packets = 1 .. n
          /\ d.packets[n + 1] = Summary(f, n) /\ \A m \in 1 .. n : d.packets[m] = a.packets[m]
      <4>1. Summary(f, n) \in Packets
        BY <1>1 DEF Packets
      <4> QED BY <1>1, <1>4, <3>1, <3>2, <4>1
    <3>4. \A m \in DOMAIN d.packets : d.packets[m] = Summary(more[m], m - 1)
      BY SMTT(40), <1>1, <3>1, <3>3
    <3> QED BY <1>1, <2>1, <3>1, <3>3, <3>4, CapsAreNat DEF PacketsInv, n
  <2>2. CASE ~(Len(a.packets) < StoreCap)
    <3>1. d.packets = a.packets /\ Len(a.packets) = StoreCap
      BY <1>3, <1>4, <2>2, CapsAreNat DEF AnalysisOf, PacketsInv
    <3>2. \A m \in DOMAIN a.packets : m \in DOMAIN fr
      BY <1>1, <1>4 DEF AnalysisOf, PacketsInv, n
    <3> QED BY <1>1, <1>4, <3>1, <3>2, CapsAreNat DEF AnalysisOf, PacketsInv, n
  <2> QED BY <2>1, <2>2
<1>7. SeenInv(more, d.seen)
  <2> DEFINE old == {j \in DOMAIN fr : IsSegment(fr, j)}
             now == {j \in DOMAIN more : IsSegment(more, j)}
  <2>1. now = IF Dissected(f) = "tcp" /\ Carries(f) THEN old \cup {n + 1} ELSE old
    BY <1>1, <1>2
  <2>2. \A k \in old : more[k] = fr[k]
    BY <1>1
  <2>3. a.seen = {Flow(fr[k]) : k \in old}
    BY DEF AnalysisOf, SeenInv
  <2> HIDE DEF old, now
  <2>4. {Flow(more[k]) : k \in now} = d.seen
    BY <1>1, <1>3, <2>1, <2>2, <2>3
  <2> QED BY <2>4 DEF SeenInv, now
<1>8. ArpInv(more, d.arp)
  <2>1. \A w \in d.arp : w \in a.arp \/ (Dissected(f) = "arp" /\ w = <<f.src, f.mac>>)
    BY <1>3
  <2> QED BY <1>1, <2>1 DEF AnalysisOf, ArpInv
<1>9. \A kind \in ToSet(Kinds) :
         /\ \A i \in Range(a.hits[kind]) :
              /\ i \in Nat /\ i + 1 \in DOMAIN fr /\ i < n
              /\ Dissected(fr[i + 1]) \in {"tcp", "dns", "icmp", "arp"}
         /\ \A l, m \in DOMAIN a.hits[kind] : l < m => a.hits[kind][l] < a.hits[kind][m]
  <2>1. \A kind \in ToSet(Kinds) : \A i \in Range(a.hits[kind]) : i \in Nat
    BY <1>5 DEF Range
  <2>2. \A kind \in ToSet(Kinds) :
          /\ \A i \in Range(a.hits[kind]) :
               i + 1 \in DOMAIN fr /\ Dissected(fr[i + 1]) \in {"tcp", "dns", "icmp", "arp"}
          /\ \A l, m \in DOMAIN a.hits[kind] : l < m => a.hits[kind][l] < a.hits[kind][m]
    BY DEF AnalysisOf, HitsInv, Looked
  <2>3. \A i \in Nat : i + 1 \in DOMAIN fr => i < n
    BY <1>1
  <2> QED BY <2>1, <2>2, <2>3
<1>10. \A kind \in HitsOf(a, f) \cap ToSet(Kinds) :
         LET h == Append(a.hits[kind], n)
         IN  Range(h) = Range(a.hits[kind]) \cup {n} /\ \A l, m \in DOMAIN h : l < m => h[l] < h[m]
  BY <1>1, <1>5, <1>9, AddHit
<1>11. \A kind \in ToSet(Kinds) :
         /\ Range(d.hits[kind]) = Range(a.hits[kind]) \cup (IF kind \in HitsOf(a, f) THEN {n} ELSE {})
         /\ \A l, m \in DOMAIN d.hits[kind] : l < m => d.hits[kind][l] < d.hits[kind][m]
  BY <1>5, <1>9, <1>10
<1>12. HitsInv(more, d.hits)
  <2>1. ASSUME NEW kind \in ToSet(Kinds), NEW i \in Range(d.hits[kind])
        PROVE  Looked(more, i + 1) /\ Dissected(more[i + 1]) \in {"tcp", "dns", "icmp", "arp"}
    <3>1. CASE i = n /\ kind \in HitsOf(a, f)
      BY <1>1, <3>1, HitsAre
    <3>2. CASE i \in Range(a.hits[kind])
      BY <1>1, <1>9, <3>2
    <3> QED BY <1>11, <2>1, <3>1, <3>2
  <2> QED BY <1>11, <2>1 DEF HitsInv
<1>13. RepeatsInv(more, d.hits)
  <2>1. \A m \in DOMAIN fr : RepeatsAt(more, m) <=> RepeatsAt(fr, m)
    BY <1>1 DEF RepeatsAt, IsSegment, Looked
  <2>2. Flow(f) \in a.seen <=> \E k \in DOMAIN fr : IsSegment(fr, k) /\ Flow(fr[k]) = Flow(f)
    BY DEF AnalysisOf, SeenInv
  <2>3. RepeatsAt(more, n + 1) <=> Dissected(f) = "tcp" /\ Carries(f) /\ Flow(f) \in a.seen
    <3>1. (n + 1) - 1 = n /\ 1 .. n = DOMAIN fr
      BY <1>1
    <3>2. RepeatsAt(more, n + 1) <=>
            IsSegment(more, n + 1) /\ \E k \in DOMAIN fr : IsSegment(more, k) /\ Flow(more[k]) = Flow(f)
      BY <1>1, <3>1 DEF RepeatsAt
    <3> QED BY <1>1, <1>2, <2>2, <3>2
  <2>4. "retransmit" \in HitsOf(a, f) <=> RepeatsAt(more, n + 1)
    BY <2>3, HitsAre, RepeatIsHit DEF Repeats
  <2>5. Range(d.hits["retransmit"]) = Range(a.hits["retransmit"])
          \cup (IF RepeatsAt(more, n + 1) THEN {n} ELSE {})
    BY <1>11, <2>4, KindsAre
  <2>6. \A i \in Range(a.hits["retransmit"]) : i \in Nat /\ i < n
    BY <1>9, KindsAre
  <2>7. \A m \in DOMAIN fr : RepeatsAt(fr, m) <=> m - 1 \in Range(a.hits["retransmit"])
    BY DEF AnalysisOf, RepeatsInv
  <2>8. ASSUME NEW m \in DOMAIN more
        PROVE  RepeatsAt(more, m) <=> m - 1 \in Range(d.hits["retransmit"])
    <3>1. CASE m \in DOMAIN fr
      <4>1. m - 1 # n
        BY <1>1, <3>1
      <4> QED BY <2>1, <2>5, <2>7, <3>1, <4>1
    <3>2. CASE m = n + 1
      <4>1. m - 1 = n /\ n \notin Range(a.hits["retransmit"])
        BY <1>1, <2>6, <3>2
      <4> QED BY <2>5, <3>2, <4>1
    <3> QED BY <1>1, <3>1, <3>2
  <2> QED BY <2>8 DEF RepeatsInv
<1>14. ConflictsInv(more, d.hits)
  <2>1. ASSUME NEW i \in Range(d.hits["arp_conflict"]) PROVE ConflictAt(more, i + 1)
    <3>1. CASE i \in Range(a.hits["arp_conflict"])
      <4>1. ConflictAt(fr, i + 1) /\ i + 1 \in 1 .. n
        BY <1>1, <1>9, <3>1, KindsAre DEF AnalysisOf, ConflictsInv
      <4>2. \A k \in 1 .. ((i + 1) - 1) : k \in DOMAIN fr
        BY <1>1, <4>1
      <4> QED BY SMTT(40), <1>1, <4>1, <4>2 DEF ConflictAt
    <3>2. CASE i = n /\ "arp_conflict" \in HitsOf(a, f)
      <4>1. PICK p \in a.arp : p[1] = f.src /\ p[2] # f.mac
        BY <3>2, HitsAre DEF Conflicts
      <4>2. PICK k \in DOMAIN fr : Dissected(fr[k]) = "arp" /\ p = <<fr[k].src, fr[k].mac>>
        BY DEF AnalysisOf, ArpInv
      <4>3. k \in 1 .. ((n + 1) - 1) /\ more[k] = fr[k] /\ more[n + 1] = f
        BY <1>1
      <4>4. fr[k].src = f.src /\ fr[k].mac # f.mac
        BY <4>1, <4>2
      <4> QED BY <3>2, <4>2, <4>3, <4>4 DEF ConflictAt
    <3> QED BY <1>11, <2>1, <3>1, <3>2, KindsAre
  <2> QED BY <2>1 DEF ConflictsInv
<1> QED BY <1>6, <1>7, <1>8, <1>12, <1>13, <1>14 DEF AnalysisOf, more, n, d

LEMMA ReadStep == ReadInv /\ [CaptureNext]_vars => ReadInv'
<1> SUFFICES ASSUME ReadInv, [CaptureNext]_vars PROVE ReadInv'
  OBVIOUS
<1>1. /\ reader \in [pc : {"closed", "reading", "read"}, frames : Seq(Frames), a : Analyses]
      /\ AnalysisOf(reader.frames, reader.a)
  BY DEF ReadInv, ReaderTyped
<1>2. ASSUME NEW f \in Frames, ReadFrame(f) PROVE ReadInv'
  <2> DEFINE a == IF Len(reader.frames) < ScanCap
                  THEN Dissect(reader.a, f, Len(reader.frames)) ELSE reader.a
  <2>1. reader.frames \in Seq(Frames) /\ reader.a \in Analyses /\ Len(reader.frames) \in Nat
    BY <1>1
  <2>2. a \in Analyses /\ AnalysisOf(Append(reader.frames, f), a)
    BY <1>1, <1>2, <2>1, DissectTyped, OneLooked, NotLooked
  <2>3. reader' = [reader EXCEPT !.frames = Append(reader.frames, f), !.a = a]
    BY <1>2 DEF ReadFrame
  <2> HIDE DEF a
  <2>4. reader'.frames = Append(reader.frames, f) /\ reader'.a = a
    BY <1>1, <2>3
  <2>5. Append(reader.frames, f) \in Seq(Frames)
    BY <1>2, <2>1
  <2>6. ReaderTyped'
    BY <1>1, <2>2, <2>3, <2>5 DEF ReaderTyped
  <2> QED BY <2>2, <2>4, <2>6 DEF ReadInv
<1>3. CASE OpenFile \/ EndOfFile
  <2>1. /\ reader'.frames = reader.frames /\ reader'.a = reader.a
        /\ reader' \in [pc : {"closed", "reading", "read"}, frames : Seq(Frames), a : Analyses]
    BY <1>1, <1>3 DEF OpenFile, EndOfFile
  <2> QED BY <1>1, <2>1 DEF ReadInv, ReaderTyped
<1>4. CASE UNCHANGED reader
  BY <1>1, <1>4 DEF ReadInv, ReaderTyped
<1> QED BY <1>2, <1>3, <1>4 DEF CaptureNext, ReaderNext, vars

LEMMA ReadAlways == CaptureSpec => []ReadInv
  BY ReadInit, ReadStep, PTL DEF CaptureSpec

-----------------------------------------------------------------------------
(* What the findings list.                                                 *)

Stored(hits) == {n \in DOMAIN hits : hits[n] < StoreCap}

LEMMA PushIs ==
  ASSUME NEW hits \in Seq(Nat), NEW kind
  PROVE  LET listed == PushFinding(kind, hits).indexes
         IN  /\ listed \in Seq(Nat)
             /\ \A i \in Range(listed) : i \in Range(hits) /\ i < StoreCap
             /\ Cardinality(Stored(hits)) <= HitCap
                  => \A i \in Range(hits) : i < StoreCap => i \in Range(listed)
<1> DEFINE kept == Sifted(hits, Stored(hits))
           listed == PushFinding(kind, hits).indexes
<1>1. listed = Take(kept, HitCap)
  BY DEF PushFinding, Stored
<1>2. Stored(hits) \in SUBSET (DOMAIN hits)
  BY DEF Stored
<1>3. /\ kept \in Seq(Nat) /\ Len(kept) = Cardinality(Stored(hits))
      /\ \A n \in DOMAIN kept : \E m \in Stored(hits) : kept[n] = hits[m]
      /\ \A m \in Stored(hits) : \E n \in DOMAIN kept : kept[n] = hits[m]
  BY <1>2, SiftedIs
<1> HIDE DEF kept, listed
<1>4. /\ listed \in Seq(Nat) /\ \A n \in DOMAIN listed : n \in DOMAIN kept /\ listed[n] = kept[n]
      /\ Len(kept) <= HitCap => listed = kept
  BY SMTT(40), <1>1, <1>3, CapsAreNat, TakeIs
<1>5. ASSUME NEW i \in Range(listed) PROVE i \in Range(hits) /\ i < StoreCap
  <2>1. PICK n \in DOMAIN listed : i = listed[n]
    BY DEF Range
  <2>2. PICK m \in Stored(hits) : i = hits[m]
    BY SMTT(40), <1>3, <1>4, <2>1
  <2> QED BY <2>2 DEF Range, Stored
<1>6. ASSUME Cardinality(Stored(hits)) <= HitCap, NEW i \in Range(hits), i < StoreCap
      PROVE  i \in Range(listed)
  <2>1. PICK m \in DOMAIN hits : i = hits[m]
    BY <1>6 DEF Range
  <2>2. PICK n \in DOMAIN kept : i = kept[n]
    BY <1>3, <1>6, <2>1 DEF Stored
  <2>3. listed = kept
    BY <1>3, <1>4, <1>6
  <2> QED BY <2>2, <2>3 DEF Range
<1> QED BY <1>4, <1>5, <1>6 DEF listed

\* The findings of an analysis list, under a kind, what is pushed for it.
LEMMA FindingsAre ==
  ASSUME NEW a \in Analyses
  PROVE  /\ Findings(a) \in Seq({PushFinding(kind, a.hits[kind]) : kind \in ToSet(Kinds)})
         /\ \A kind \in ToSet(Kinds) :
              IndexesOf(Findings(a), kind) = Range(PushFinding(kind, a.hits[kind]).indexes)
<1> DEFINE F == {PushFinding(kind, a.hits[kind]) : kind \in ToSet(Kinds)}
           all == [n \in DOMAIN Kinds |-> PushFinding(Kinds[n], a.hits[Kinds[n]])]
           at == {n \in DOMAIN Kinds : a.hits[Kinds[n]] # <<>>}
           fs == Sifted(all, at)
<1>1. all \in Seq(F) /\ DOMAIN all = DOMAIN Kinds
  BY KindsAre
<1>2. \A n \in DOMAIN Kinds : all[n] = PushFinding(Kinds[n], a.hits[Kinds[n]])
  OBVIOUS
<1>3. at \in SUBSET (DOMAIN all)
  BY <1>1
<1>4. Findings(a) = fs
  BY DEF Findings
<1> HIDE DEF all, F
<1>5. /\ fs \in Seq(F)
      /\ \A n \in DOMAIN fs : \E i \in at : fs[n] = all[i]
      /\ \A i \in at : \E n \in DOMAIN fs : fs[n] = all[i]
  <2> HIDE DEF at
  <2> QED BY <1>1, <1>3, SiftedIs
<1> HIDE DEF fs
<1>6. ASSUME NEW kind \in ToSet(Kinds)
      PROVE  IndexesOf(fs, kind) = Range(PushFinding(kind, a.hits[kind]).indexes)
  <2> DEFINE listed == PushFinding(kind, a.hits[kind]).indexes
  <2>1. \A k \in ToSet(Kinds) : PushFinding(k, a.hits[k]).kind = k
    BY DEF PushFinding
  <2>2. \A i \in at : all[i].kind = Kinds[i] /\ all[i] = PushFinding(Kinds[i], a.hits[Kinds[i]])
    BY <1>2, <2>1, KindsAre
  <2>3. ASSUME NEW n \in DOMAIN fs, fs[n].kind = kind PROVE fs[n].indexes = listed
    <3>1. PICK i \in at : fs[n] = all[i]
      BY <1>5
    <3>2. Kinds[i] = kind
      BY <2>2, <2>3, <3>1
    <3> QED BY <2>2, <3>1, <3>2
  <2>4. ASSUME a.hits[kind] # <<>> PROVE \E n \in DOMAIN fs : fs[n].kind = kind
    <3>1. PICK i \in DOMAIN Kinds : Kinds[i] = kind
      BY <1>6, KindsAre
    <3>2. i \in at
      BY <2>4, <3>1
    <3>3. PICK n \in DOMAIN fs : fs[n] = all[i]
      BY <1>5, <3>2
    <3>4. all[i].kind = kind
      BY <2>2, <3>1, <3>2
    <3> QED BY <3>3, <3>4
  <2>5. ASSUME a.hits[kind] = <<>> PROVE Range(listed) = {}
    <3>1. \A i \in Range(listed) : i \in Range(<<>>)
      <4>1. <<>> \in Seq(Nat)
        OBVIOUS
      <4> QED BY <2>5, <4>1, PushIs
    <3> QED BY <3>1 DEF Range
  <2> HIDE DEF listed
  <2>6. \A x : x \in IndexesOf(fs, kind)
               <=> \E n \in DOMAIN fs : fs[n].kind = kind /\ x \in Range(fs[n].indexes)
    BY DEF IndexesOf
  <2>7. \A x : x \in IndexesOf(fs, kind) <=> x \in Range(listed)
    BY <2>3, <2>4, <2>5, <2>6
  <2> QED BY <2>7 DEF listed
<1> QED BY <1>4, <1>5, <1>6 DEF F

\* A step of what follows: what the invariant says of one state of the reader.
LEMMA ReadFacts ==
  ASSUME ReadInv
  PROVE  /\ reader.frames \in Seq(Frames) /\ reader.a \in Analyses
         /\ reader.a.packets \in Seq(Packets)
         /\ \A kind \in ToSet(Kinds) : reader.a.hits[kind] \in Seq(Nat)
         /\ AnalyzeFrames.packets = reader.a.packets /\ AnalyzeFrames.total = Total
         /\ AnalyzeFrames.findings = Findings(reader.a)
         /\ \A kind \in ToSet(Kinds) : Listed(kind) = Range(PushFinding(kind, reader.a.hits[kind]).indexes)
<1>1. reader.frames \in Seq(Frames) /\ reader.a \in Analyses
  BY DEF ReadInv, ReaderTyped
<1>2. reader.a.packets \in Seq(Packets) /\ reader.a.hits \in [ToSet(Kinds) -> Seq(Nat)]
  BY <1>1 DEF Analyses
<1>3. AnalyzeFrames.packets = reader.a.packets /\ AnalyzeFrames.total = Total
      /\ AnalyzeFrames.findings = Findings(reader.a)
  BY DEF AnalyzeFrames
<1>4. \A kind \in ToSet(Kinds) : Listed(kind) = Range(PushFinding(kind, reader.a.hits[kind]).indexes)
  BY <1>1, <1>3, FindingsAre DEF Listed
<1> QED BY <1>1, <1>2, <1>3, <1>4

\* An index of a hit is one of a frame that was looked at, and of a packet if one was stored.
LEMMA HitsLooked ==
  ASSUME ReadInv, NEW kind \in ToSet(Kinds), NEW i \in Range(reader.a.hits[kind])
  PROVE  /\ i \in Nat /\ Looked(reader.frames, i + 1)
         /\ Dissected(reader.frames[i + 1]) \in {"tcp", "dns", "icmp", "arp"}
         /\ i < StoreCap => i + 1 \in DOMAIN reader.a.packets
<1>1. i \in Nat
  BY ReadFacts DEF Range
<1>2. /\ Looked(reader.frames, i + 1)
      /\ Dissected(reader.frames[i + 1]) \in {"tcp", "dns", "icmp", "arp"}
  BY DEF ReadInv, AnalysisOf, HitsInv
<1>3. i + 1 \in 1 .. Len(reader.frames) /\ i + 1 <= ScanCap
  BY <1>2, ReadFacts DEF Looked
<1>4. Len(reader.a.packets) \in {Len(reader.frames), ScanCap, StoreCap}
  BY DEF ReadInv, AnalysisOf, PacketsInv
<1>5. ASSUME i < StoreCap PROVE i + 1 \in DOMAIN reader.a.packets
  <2>1. i + 1 <= Len(reader.a.packets) /\ DOMAIN reader.a.packets = 1 .. Len(reader.a.packets)
        /\ Len(reader.a.packets) \in Nat
    BY <1>1, <1>3, <1>4, <1>5, CapsAreNat, ReadFacts
  <2> QED BY <1>1, <2>1
<1> QED BY <1>1, <1>2, <1>5

\* What is listed is a hit.
LEMMA ListedIs ==
  ASSUME ReadInv, NEW kind \in ToSet(Kinds)
  PROVE  \A i \in Listed(kind) : i \in Nat /\ i < StoreCap /\ i \in Range(reader.a.hits[kind])
<1>1. /\ reader.a.hits[kind] \in Seq(Nat)
      /\ Listed(kind) = Range(PushFinding(kind, reader.a.hits[kind]).indexes)
  BY ReadFacts
<1>2. \A i \in Listed(kind) : i < StoreCap /\ i \in Range(reader.a.hits[kind])
  BY <1>1, PushIs
<1> QED BY <1>2, HitsLooked

LEMMA CutsTold == ReadInv => CutsAreTold
<1> SUFFICES ASSUME ReadInv
             PROVE  /\ ~AnalyzeFrames.truncated => /\ Len(AnalyzeFrames.packets) = Len(reader.frames)
                                                   /\ AnalyzeFrames.total = Len(reader.frames)
                    /\ \A n \in DOMAIN AnalyzeFrames.packets : AnalyzeFrames.packets[n].index = n - 1
                    /\ AnalyzeFrames.total >= Len(AnalyzeFrames.packets)
  BY DEF CutsAreTold
<1>1. PacketsInv(reader.frames, reader.a.packets)
  BY DEF ReadInv, AnalysisOf
<1>2. Len(reader.frames) \in Nat /\ Len(reader.a.packets) \in Nat
  BY ReadFacts
<1>3. Total = IF Len(reader.frames) > ScanCap THEN ScanCap ELSE Len(reader.frames)
  BY DEF Total
<1>4. AnalyzeFrames.truncated = (Total >= ScanCap \/ Total > Len(reader.a.packets))
  BY DEF AnalyzeFrames
<1>5. Total >= Len(reader.a.packets)
  BY <1>1, <1>2, <1>3, CapsAreNat DEF PacketsInv
<1>6. ASSUME ~AnalyzeFrames.truncated
      PROVE  Len(reader.a.packets) = Len(reader.frames) /\ Total = Len(reader.frames)
  <2>1. ~(Total >= ScanCap) /\ ~(Total > Len(reader.a.packets))
    BY Zenon, <1>4, <1>6
  <2> QED BY <1>1, <1>2, <1>3, <2>1, CapsAreNat DEF PacketsInv
<1>7. \A f, i : Summary(f, i).index = i
  BY DEF Summary
<1>8. \A n \in DOMAIN reader.a.packets : reader.a.packets[n].index = n - 1
  BY <1>1, <1>7 DEF PacketsInv
<1>9. AnalyzeFrames.packets = reader.a.packets /\ AnalyzeFrames.total = Total
  BY DEF AnalyzeFrames
<1> QED BY <1>5, <1>6, <1>8, <1>9

LEMMA FindingsPoint == ReadInv => FindingsPointAtPackets
<1> SUFFICES ASSUME ReadInv PROVE FindingsPointAtPackets
  OBVIOUS
<1> DEFINE fs == Findings(reader.a)
           short == FindingsForAgent(fs)
<1>1. fs \in Seq({PushFinding(kind, reader.a.hits[kind]) : kind \in ToSet(Kinds)})
  BY ReadFacts, FindingsAre
<1>2. short = [n \in DOMAIN fs |-> [fs[n] EXCEPT !.indexes = Take(@, AgentCap)]]
  BY DEF FindingsForAgent
<1>3. AnalyzeFrames.findings = fs /\ QueryAnalysis(AnalyzeFrames, "summary").findings = short
      /\ AnalyzeFrames.packets = reader.a.packets
  BY ReadFacts DEF QueryAnalysis
<1> HIDE DEF fs, short
<1>4. ASSUME NEW n \in DOMAIN fs
      PROVE  /\ \A i \in Range(fs[n].indexes) : i + 1 \in DOMAIN reader.a.packets
             /\ \A i \in Range(short[n].indexes) : i + 1 \in DOMAIN reader.a.packets
  <2>1. PICK kind \in ToSet(Kinds) : fs[n] = PushFinding(kind, reader.a.hits[kind])
    BY <1>1
  <2>2. reader.a.hits[kind] \in Seq(Nat)
    BY ReadFacts
  <2>3. fs[n].indexes \in Seq(Nat)
        /\ \A i \in Range(fs[n].indexes) : i \in Range(reader.a.hits[kind]) /\ i < StoreCap
    BY <2>1, <2>2, PushIs
  <2>4. \A i \in Range(fs[n].indexes) : i + 1 \in DOMAIN reader.a.packets
    BY <2>3, HitsLooked
  <2>5. short[n].indexes = Take(fs[n].indexes, AgentCap)
    <3>1. fs[n] = [kind |-> kind, count |-> fs[n].count, indexes |-> fs[n].indexes]
      BY <2>1 DEF PushFinding
    <3> QED BY <1>2, <3>1
  <2>6. \A i \in Range(short[n].indexes) : i \in Range(fs[n].indexes)
    BY <2>3, <2>5, TakeIs, CapsAreNat DEF Range
  <2> QED BY <2>4, <2>6
<1>5. DOMAIN short = DOMAIN fs
  BY <1>2
<1> QED BY <1>3, <1>4, <1>5 DEF FindingsPointAtPackets

LEMMA Conflicted == ReadInv => ConflictsDiffer
<1> SUFFICES ASSUME ReadInv, NEW i \in Listed("arp_conflict")
             PROVE  \E k \in 1 .. i :
                      /\ Dissected(reader.frames[k]) = "arp"
                      /\ reader.frames[k].src = reader.frames[i + 1].src
                      /\ reader.frames[k].mac # reader.frames[i + 1].mac
  BY DEF ConflictsDiffer
<1>1. i \in Range(reader.a.hits["arp_conflict"]) /\ i \in Nat
  BY ListedIs, KindsAre
<1>2. ConflictAt(reader.frames, i + 1) /\ (i + 1) - 1 = i
  BY <1>1 DEF ReadInv, AnalysisOf, ConflictsInv
<1> QED BY <1>2 DEF ConflictAt

LEMMA FragmentsSilent == ReadInv => FragmentsAreSilent
<1> SUFFICES ASSUME ReadInv, NEW n \in DOMAIN reader.frames,
                    L3Offset(reader.frames[n]) = "ip4" /\ reader.frames[n].later,
                    NEW k \in Range(Kinds), n - 1 \in Listed(k)
             PROVE  FALSE
  BY DEF FragmentsAreSilent
<1>1. Dissected(reader.frames[n]) \in {"ipv4", "other"}
  BY DEF Dissected, Fragment
<1>2. n - 1 \in Range(reader.a.hits[k]) /\ k \in ToSet(Kinds)
  BY ListedIs, KindsAre
<1>3. (n - 1) + 1 = n
  BY ReadFacts
<1> QED BY <1>1, <1>2, <1>3, HitsLooked

LEMMA Repeated == ReadInv => RetransmitsRepeat
<1> SUFFICES ASSUME ReadInv PROVE RetransmitsRepeat
  OBVIOUS
<1> DEFINE fr == reader.frames
           hits == reader.a.hits["retransmit"]
           Segment(n) == n <= ScanCap /\ Dissected(fr[n]) = "tcp" /\ Carries(fr[n])
           ms == {m \in DOMAIN fr :
                    Segment(m) /\ \E k \in 1 .. (m - 1) : Segment(k) /\ Flow(fr[k]) = Flow(fr[m])}
           repeats == {n - 1 : n \in ms}
<1>1. /\ fr \in Seq(Frames) /\ hits \in Seq(Nat) /\ "retransmit" \in ToSet(Kinds)
      /\ Listed("retransmit") = Range(PushFinding("retransmit", hits).indexes)
  BY ReadFacts, KindsAre
<1>2. DOMAIN fr = 1 .. Len(fr) /\ Len(fr) \in Nat
  BY <1>1
<1>3. /\ \A m \in DOMAIN fr : RepeatsAt(fr, m) <=> m - 1 \in Range(hits)
      /\ \A m, n \in DOMAIN hits : m < n => hits[m] < hits[n]
  BY <1>1 DEF ReadInv, AnalysisOf, RepeatsInv, HitsInv
<1>4. \A i \in Range(hits) : i \in Nat /\ i + 1 \in DOMAIN fr
  BY <1>1, HitsLooked DEF Looked
<1>5. \A m \in DOMAIN fr : m \in ms <=> RepeatsAt(fr, m)
  BY <1>2, CapsAreNat DEF RepeatsAt, IsSegment, Looked
<1>6. repeats = Range(hits)
  <2> HIDE DEF ms, hits, fr
  <2>1. \A m \in ms : m \in DOMAIN fr
    BY DEF ms
  <2>2. \A i \in Range(hits) : (i + 1) - 1 = i /\ i + 1 \in ms
    BY <1>2, <1>3, <1>4, <1>5
  <2>3. \A m \in ms : m - 1 \in Range(hits)
    BY <1>3, <1>5, <2>1
  <2> QED BY <2>2, <2>3
<1> HIDE DEF ms, repeats
<1>7. \A i \in Listed("retransmit") : i < StoreCap /\ i \in Range(hits)
  BY <1>1, ListedIs
<1>8. ASSUME Cardinality(repeats) <= HitCap
      PROVE  \A i \in Range(hits) : i < StoreCap => i \in Listed("retransmit")
  <2> HIDE DEF hits
  <2>1. IsFiniteSet(repeats)
    <3>1. IsFiniteSet(1 .. Len(fr)) /\ IsFiniteSet(0 .. Len(fr))
      BY <1>2, FS_Interval
    <3>2. repeats \in SUBSET (0 .. Len(fr))
      BY <1>2, <1>4, <1>6
    <3> QED BY <3>1, <3>2, FS_Subset
  <2>2. Stored(hits) \in SUBSET (DOMAIN hits)
    BY DEF Stored
  <2> DEFINE inj == [n \in Stored(hits) |-> hits[n]]
  <2>3. inj \in Injection(Stored(hits), repeats)
    <3>1. inj \in [Stored(hits) -> repeats]
      BY <1>6, <2>2 DEF Range
    <3>2. ASSUME NEW m \in Stored(hits), NEW n \in Stored(hits), inj[m] = inj[n] PROVE m = n
      <4>1. m \in Nat /\ n \in Nat /\ m \in DOMAIN hits /\ n \in DOMAIN hits
            /\ hits[m] \in Nat /\ hits[n] \in Nat /\ hits[m] = hits[n]
        BY <1>1, <2>2, <3>2
      <4> QED BY <1>3, <4>1
    <3> HIDE DEF inj
    <3> QED BY <3>1, <3>2 DEF Injection, IsInjective
  <2>4. Cardinality(Stored(hits)) <= Cardinality(repeats) /\ IsFiniteSet(Stored(hits))
    <3> HIDE DEF inj
    <3> QED BY <2>1, <2>3, FS_Injection
  <2>5. Cardinality(Stored(hits)) \in Nat /\ Cardinality(repeats) \in Nat
    BY <2>1, <2>4, FS_CardinalityType
  <2>6. Cardinality(Stored(hits)) <= HitCap
    BY <1>8, <2>4, <2>5, CapsAreNat
  <2> QED BY <1>1, <2>6, PushIs
<1>9. Listed("retransmit") \subseteq repeats
  BY <1>6, <1>7
<1>10. Cardinality(repeats) <= HitCap => Listed("retransmit") = {i \in repeats : i < StoreCap}
  BY <1>6, <1>7, <1>8
<1> QED BY <1>9, <1>10 DEF RetransmitsRepeat, repeats, ms

LEMMA FiltersSplitIt == ReadInv => FiltersSplit
<1> SUFFICES ASSUME ReadInv PROVE FiltersSplit
  OBVIOUS
<1> DEFINE p == reader.a.packets
           Part(op) == [op |-> op, value |-> "A", quoted |-> FALSE]
           Of(op) == FilterPackets(p, <<Part(op)>>)
           at(op) == {i \in DOMAIN p : Matches(p[i], Part(op))}
<1>1. p \in Seq(Packets) /\ AnalyzeFrames.packets = p
  BY ReadFacts
<1>2. ASSUME NEW op \in {"==", "!="}
      PROVE  Of(op) = Take(Sifted(p, at(op)), UiCap)
  <2>1. DOMAIN <<Part(op)>> = {1} /\ <<Part(op)>>[1] = Part(op) /\ <<Part(op)>> # <<>>
    OBVIOUS
  <2>2. {i \in DOMAIN p : \A n \in DOMAIN <<Part(op)>> : Matches(p[i], <<Part(op)>>[n])} = at(op)
    BY <2>1
  <2> QED BY <2>1, <2>2 DEF FilterPackets
<1>3. FilterPackets(p, <<>>) = Take(p, UiCap)
  BY DEF FilterPackets, UiPackets
<1>4. \A i \in DOMAIN p : i \in at("==") \/ i \in at("!=")
  BY DEF Matches, Differs
<1>5. \A op \in {"==", "!="} : at(op) \in SUBSET (DOMAIN p)
  OBVIOUS
<1>6. \A i \in DOMAIN p : p[i].index = i - 1
  <2>1. \A f, i : Summary(f, i).index = i
    BY DEF Summary
  <2> QED BY <2>1 DEF ReadInv, AnalysisOf, PacketsInv
<1> HIDE DEF p, at, Of
<1>7. ASSUME NEW op \in {"==", "!="}
      PROVE  LET s == Sifted(p, at(op))
             IN  /\ s \in Seq(Packets) /\ Len(s) <= Len(p) /\ Len(s) \in Nat
                 /\ \A n \in DOMAIN s : \E i \in at(op) : s[n] = p[i]
                 /\ \A i \in at(op) : \E n \in DOMAIN s : s[n] = p[i]
                 /\ \A m, n \in DOMAIN s :
                      m < n => \E i, j \in at(op) : i < j /\ s[m] = p[i] /\ s[n] = p[j]
  <2>1. Cardinality(at(op)) \in 0 .. Len(p) /\ Len(p) \in Nat
    BY <1>1, <1>5, SiftedIs
  <2> QED BY <1>1, <1>5, <2>1, SiftedIs
<1>8. ASSUME NEW op \in {"==", "!="}, NEW m \in DOMAIN Of(op), NEW n \in DOMAIN Of(op), m < n
      PROVE  Of(op)[m].index < Of(op)[n].index
  <2> DEFINE s == Sifted(p, at(op))
  <2>1. m \in DOMAIN s /\ n \in DOMAIN s /\ Of(op)[m] = s[m] /\ Of(op)[n] = s[n]
    BY <1>2, <1>7, <1>8, TakeIs, CapsAreNat
  <2>2. PICK i, j \in at(op) : i < j /\ s[m] = p[i] /\ s[n] = p[j]
    BY ZenonT(60), <1>7, <1>8, <2>1
  <2>3. i \in Nat /\ j \in Nat /\ p[i].index = i - 1 /\ p[j].index = j - 1
    BY <1>1, <1>5, <1>6
  <2> QED BY <2>1, <2>2, <2>3
<1>9. ASSUME Len(FilterPackets(p, <<>>)) = Len(p)
      PROVE  Range(Of("==")) \cup Range(Of("!=")) = Range(p)
  <2>1. Len(p) <= UiCap /\ Len(p) \in Nat
    BY <1>1, <1>3, <1>9, CapsAreNat DEF Take
  <2>2. ASSUME NEW op \in {"==", "!="} PROVE Of(op) = Sifted(p, at(op))
    BY SMTT(40), <1>2, <1>7, <2>1, TakeIs, CapsAreNat
  <2>3. \A x : x \in Range(Of("==")) \cup Range(Of("!=")) => x \in Range(p)
    BY <1>5, <1>7, <2>2 DEF Range
  <2>4. \A x \in Range(p) : x \in Range(Of("==")) \cup Range(Of("!="))
    BY <1>4, <1>7, <2>2 DEF Range
  <2> QED BY <2>3, <2>4
<1> QED BY <1>1, <1>8, <1>9 DEF FiltersSplit, Of, p

-----------------------------------------------------------------------------
(* What the analyzer says of a capture file is true of it, whatever frames *)
(* it has and whatever the caps on packets, scans, hits and views are.     *)
THEOREM FindingsAlwaysTrue == CaptureSpec => []FindingsTrue
<1>1. ReadInv => FindingsTrue
  BY CutsTold, FindingsPoint, Repeated, Conflicted, FragmentsSilent, FiltersSplitIt DEF FindingsTrue
<1> QED BY <1>1, ReadAlways, PTL
=============================================================================
