----------------------------- MODULE SerialPort ------------------------------
(***************************************************************************)
(* crates/late-core/src/serial.rs: opening a serial port and the worker    *)
(* thread that owns it.  A handle stands for one call of open_serial and   *)
(* the SerialIo it returns.  held is the process-wide set held_ports(): a  *)
(* path is reserved in it before the operating system is asked to open the *)
(* device, and removed after the worker dropped its device handles.        *)
(*                                                                         *)
(* A device path is a node (/dev/ttyUSB0) or a link (/dev/serial/by-id/..) *)
(* that udev points at a node; an adapter that is plugged in again may get *)
(* another node.  The operating system's own exclusive lock is not relied  *)
(* on: an open of a present device may succeed, be busy or fail.           *)
(***************************************************************************)
EXTENDS Naturals

CONSTANTS
    Nodes,      \* device nodes
    Links,      \* symbolic links to device nodes
    Handles,    \* calls of open_serial
    Attempts,   \* ATTEMPTS of open_port: tries while the OS reports busy
    NoNode      \* no device handle / a link that resolves to nothing

Paths == Nodes \cup Links

ASSUME NodesAssumption == NoNode \notin Paths \cup Handles /\ Nodes \cap Links = {}
ASSUME AttemptsAssumption == Attempts \in Nat \ {0}

VARIABLES
    held,       \* held_ports(): the reserved canonical paths
    pc,         \* pc[h]: where open_serial or the worker of h is
    path,       \* path[h]: the path given to open_serial (path_owned)
    key,        \* key[h]: normalize_path(path) at the time of the call
    fd,         \* fd[h]: the node the writer/reader handles are open on
    tries,      \* tries[h]: the attempt number in open_port
    closeSig,   \* closeSig[h]: close sent, or every sender dropped
    present,    \* the nodes that exist now
    link        \* link[l]: the node that link l points at

portVars == <<held, pc, path, key, fd, tries, closeSig, present, link>>

Phases == {"idle", "reserved", "cloning", "abort",
           "top", "reopening", "recloning", "running",
           "unwinding", "releasing", "ended"}

\* The worker thread exists.
Worker(h) == pc[h] \in {"top", "reopening", "recloning", "running",
                        "unwinding", "releasing"}

\* The call or the worker of h has key[h] reserved.
Holding(h) == pc[h] \notin {"idle", "ended"}

TypeOK ==
    /\ held \subseteq Paths
    /\ pc \in [Handles -> Phases]
    /\ path \in [Handles -> Paths]
    /\ key \in [Handles -> Paths]
    /\ fd \in [Handles -> Nodes \cup {NoNode}]
    /\ tries \in [Handles -> 0 .. Attempts - 1]
    /\ closeSig \in [Handles -> BOOLEAN]
    /\ present \subseteq Nodes
    /\ link \in [Links -> Nodes]

Resolve(p) ==
    LET n == IF p \in Links THEN link[p] ELSE p
    IN  IF n \in present THEN n ELSE NoNode

\* std::fs::canonicalize, falling back to the path as it was given.
NormalizePath(p) == IF Resolve(p) = NoNode THEN p ELSE Resolve(p)

Init ==
    /\ held = {}
    /\ pc = [h \in Handles |-> "idle"]
    /\ path \in [Handles -> Paths]
    /\ key = path
    /\ fd = [h \in Handles |-> NoNode]
    /\ tries = [h \in Handles |-> 0]
    /\ closeSig = [h \in Handles |-> FALSE]
    /\ present = Nodes
    /\ link \in [Links -> Nodes]

Enter(h, phase) == pc' = [pc EXCEPT ![h] = phase]

Drop(h) == fd' = [fd EXCEPT ![h] = NoNode]

-----------------------------------------------------------------------------
(* Mutants: actions with one mistake each, which the runs must notice.      *)

\* Reserve without looking whether the path is held.
ReserveUnchecked(h, p) ==
    LET k == NormalizePath(p)
    IN  /\ pc[h] = "idle"
        /\ held' = held \cup {k}
        /\ Enter(h, "reserved")
        /\ path' = [path EXCEPT ![h] = p]
        /\ key' = [key EXCEPT ![h] = k]
        /\ tries' = [tries EXCEPT ![h] = 0]
        /\ UNCHANGED <<fd, closeSig, present, link>>

\* Busy retries that do not count towards ATTEMPTS.
OpenBusyForever(h) ==
    /\ pc[h] \in {"reserved", "reopening"}
    /\ Resolve(path[h]) # NoNode
    /\ tries' = [tries EXCEPT ![h] = (@ + 1) % Attempts]
    /\ UNCHANGED <<held, pc, path, key, fd, closeSig, present, link>>

\* One retry too many.
OpenBusyOnceMore(h) ==
    /\ pc[h] \in {"reserved", "reopening"}
    /\ Resolve(path[h]) # NoNode
    /\ tries[h] < Attempts
    /\ tries' = [tries EXCEPT ![h] = @ + 1]
    /\ UNCHANGED <<held, pc, path, key, fd, closeSig, present, link>>

\* An error path of open_serial that keeps the reservation.
AbortForgets(h) ==
    /\ pc[h] = "abort"
    /\ Enter(h, "ended")
    /\ UNCHANGED <<held, path, key, fd, tries, closeSig, present, link>>

\* run_port does not look for close.
RunCloseNever(h) == FALSE /\ pc[h] = "running" /\ UNCHANGED portVars

\* The held set is cleared before the device handles are dropped.
DropHandlesLate(h) ==
    /\ pc[h] = "unwinding"
    /\ held' = held \ {key[h]}
    /\ Enter(h, "releasing")
    /\ UNCHANGED <<path, key, fd, tries, closeSig, present, link>>

-----------------------------------------------------------------------------
(* open_serial, on the caller's thread.                                    *)

\* An open of a path that is held returns an error and changes nothing: it
\* is the disabled case of this action.
Reserve(h, p) ==
    LET k == NormalizePath(p)
    IN  /\ pc[h] = "idle"
        /\ k \notin held
        /\ held' = held \cup {k}
        /\ Enter(h, "reserved")
        /\ path' = [path EXCEPT ![h] = p]
        /\ key' = [key EXCEPT ![h] = k]
        /\ tries' = [tries EXCEPT ![h] = 0]
        /\ UNCHANGED <<fd, closeSig, present, link>>

\* open_port succeeds: the first open goes on to try_clone, so does a reopen.
OpenOk(h) ==
    /\ pc[h] \in {"reserved", "reopening"}
    /\ Resolve(path[h]) # NoNode
    /\ fd' = [fd EXCEPT ![h] = Resolve(path[h])]
    /\ Enter(h, IF pc[h] = "reserved" THEN "cloning" ELSE "recloning")
    /\ UNCHANGED <<held, path, key, tries, closeSig, present, link>>

\* os_reports_busy: sleep and try again while attempts remain.
OpenBusy(h) ==
    /\ pc[h] \in {"reserved", "reopening"}
    /\ Resolve(path[h]) # NoNode
    /\ tries[h] + 1 < Attempts
    /\ tries' = [tries EXCEPT ![h] = @ + 1]
    /\ UNCHANGED <<held, pc, path, key, fd, closeSig, present, link>>

\* Any other error, or busy on the last attempt.  open_serial removes the
\* reservation; the worker checks for close, sleeps 200 ms and goes round.
OpenErr(h) ==
    /\ \/ pc[h] = "reserved" /\ Enter(h, "abort")
       \/ /\ pc[h] = "reopening"
          /\ Enter(h, IF closeSig[h] THEN "unwinding" ELSE "top")
    /\ UNCHANGED <<held, path, key, fd, tries, closeSig, present, link>>

\* try_clone works: open_serial spawns the worker, the worker resumes.
CloneOk(h) ==
    /\ \/ pc[h] = "cloning" /\ Enter(h, "top")
       \/ pc[h] = "recloning" /\ Enter(h, "running")
    /\ UNCHANGED <<held, path, key, fd, tries, closeSig, present, link>>

CloneErr(h) ==
    /\ \/ pc[h] = "cloning" /\ Enter(h, "abort")
       \/ pc[h] = "recloning" /\ Enter(h, "top")
    /\ Drop(h)
    /\ UNCHANGED <<held, path, key, tries, closeSig, present, link>>

\* open_serial failed after it reserved the path: undo and return the error.
Abort(h) ==
    /\ pc[h] = "abort"
    /\ held' = held \ {key[h]}
    /\ Enter(h, "ended")
    /\ UNCHANGED <<path, key, fd, tries, closeSig, present, link>>

-----------------------------------------------------------------------------
(* The worker thread.                                                      *)

TopClose(h) ==
    /\ pc[h] = "top"
    /\ closeSig[h]
    /\ Enter(h, "unwinding")
    /\ UNCHANGED <<held, path, key, fd, tries, closeSig, present, link>>

\* Take the handles and run, or reopen the device when they are gone.
TopGo(h) ==
    /\ pc[h] = "top"
    /\ ~closeSig[h]
    /\ Enter(h, IF fd[h] = NoNode THEN "reopening" ELSE "running")
    /\ tries' = [tries EXCEPT ![h] = 0]
    /\ UNCHANGED <<held, path, key, fd, closeSig, present, link>>

\* run_port returns true: the handles are dropped before it returns.
RunClose(h) ==
    /\ pc[h] = "running"
    /\ closeSig[h]
    /\ Drop(h)
    /\ Enter(h, "unwinding")
    /\ UNCHANGED <<held, path, key, tries, closeSig, present, link>>

\* run_port returns false: a read or a write failed, end of file.
RunLost(h) ==
    /\ pc[h] = "running"
    /\ Drop(h)
    /\ Enter(h, "top")
    /\ UNCHANGED <<held, path, key, tries, closeSig, present, link>>

\* After the loop: drop what is left of the handles ...
DropHandles(h) ==
    /\ pc[h] = "unwinding"
    /\ Drop(h)
    /\ Enter(h, "releasing")
    /\ UNCHANGED <<held, path, key, tries, closeSig, present, link>>

\* ... and only then clear the held set.
ReleaseHeld(h) ==
    /\ pc[h] = "releasing"
    /\ held' = held \ {key[h]}
    /\ Enter(h, "ended")
    /\ UNCHANGED <<path, key, fd, tries, closeSig, present, link>>

-----------------------------------------------------------------------------
(* The owner of the SerialIo and the machine around the process.           *)

\* SerialIo::release, or close_session sending close and dropping senders.
SignalClose(h) ==
    /\ Worker(h)
    /\ closeSig' = [closeSig EXCEPT ![h] = TRUE]
    /\ UNCHANGED <<held, pc, path, key, fd, tries, present, link>>

\* The handle may stand for another call once its worker ended.
Reuse(h) ==
    /\ pc[h] = "ended"
    /\ Enter(h, "idle")
    /\ closeSig' = [closeSig EXCEPT ![h] = FALSE]
    /\ UNCHANGED <<held, path, key, fd, tries, present, link>>

Unplug(n) ==
    /\ present' = present \ {n}
    /\ UNCHANGED <<held, pc, path, key, fd, tries, closeSig, link>>

\* A plugged adapter appears on node n; links follow the adapters.
Plug(n) ==
    /\ n \notin present
    /\ present' = present \cup {n}
    /\ link' \in [Links -> Nodes]
    /\ UNCHANGED <<held, pc, path, key, fd, tries, closeSig>>

OpenStep(h) == OpenOk(h) \/ OpenBusy(h) \/ OpenErr(h) \/ CloneOk(h) \/ CloneErr(h) \/ Abort(h)

PortWorkerStep(h) ==
    \/ TopClose(h) \/ TopGo(h)
    \/ RunClose(h) \/ RunLost(h)
    \/ DropHandles(h) \/ ReleaseHeld(h)

Next ==
    \/ \E h \in Handles :
          \/ \E p \in Paths : Reserve(h, p)
          \/ OpenStep(h) \/ PortWorkerStep(h)
          \/ SignalClose(h) \/ Reuse(h)
    \/ \E n \in Nodes : Unplug(n) \/ Plug(n)

Spec == Init /\ [][Next]_portVars

\* The caller's and the worker's threads are scheduled; run_port reads with a
\* 50 ms timeout and looks for close on every turn, so it cannot stay in the
\* port when close is signalled, whatever the device does.
Fairness ==
    \A h \in Handles : WF_portVars(OpenStep(h) \/ TopClose(h) \/ TopGo(h) \/ RunClose(h)
                                \/ DropHandles(h) \/ ReleaseHeld(h))

FairSpec == Spec /\ Fairness

-----------------------------------------------------------------------------
(* Properties.                                                             *)

(* The device handles are never open on a node that is not in the held set:
   it is cleared only after the reader thread drops them (serial.rs:9).     *)
HeldCoversOpen == \A h \in Handles : fd[h] # NoNode => fd[h] \in held

(* Late never has one device open twice: two concurrent opens of a path
   fail closed because the path is reserved before the open (serial.rs:193). *)
OneHandlePerDevice ==
    \A h, g \in Handles : fd[h] # NoNode /\ fd[h] = fd[g] => h = g

(* A path is held by exactly one call or worker: no error path of open_serial
   and no exit of the worker leaves a reservation that nobody will remove
   (the port would be "already open in Late" until the daemon restarts).    *)
HeldHasOneHolder ==
    /\ \A h \in Handles : Holding(h) => key[h] \in held
    /\ \A h, g \in Handles : Holding(h) /\ Holding(g) /\ key[h] = key[g] => h = g
    /\ \A k \in held : \E h \in Handles : Holding(h) /\ key[h] = k

(* Every variable keeps its type, and devices are open once and only while
   they are held.                                                           *)
DevicesHeld == TypeOK /\ HeldCoversOpen /\ OneHandlePerDevice

(* Once close is signalled the worker ends, with the device unplugged, busy
   or silent: close_session, which joins it, returns (session.rs:489).      *)
CloseEndsWorker == \A h \in Handles : closeSig[h] /\ Worker(h) ~> ~Worker(h)

(* A call of open_serial returns: it reaches the worker or undoes itself.   *)
OpenReturns == \A h \in Handles : pc[h] = "reserved" ~> Worker(h) \/ pc[h] = "ended"

(* Neither thread of a port waits for ever: close ends the worker and an
   open returns.                                                            *)
CallsEnd == CloseEndsWorker /\ OpenReturns

\* The reservation set and the device handles implement PortLease.
ownerBar ==
    [k \in Paths |-> IF \E h \in Handles : Holding(h) /\ key[h] = k
                     THEN CHOOSE h \in Handles : Holding(h) /\ key[h] = k
                     ELSE NoNode]

usingBar == {h \in Handles : fd[h] # NoNode}

Lease == INSTANCE PortLease WITH Clients <- Handles, Ports <- Paths, Nobody <- NoNode,
                                 owner <- ownerBar, using <- usingBar

(* Every step of serial.rs is a step of the lease or leaves it unchanged.   *)
ImplementsLease == Lease!LeaseSpec
==============================================================================
