-------------------------- MODULE SessionLifecycle ---------------------------
(***************************************************************************)
(* crates/late-core/src/session.rs: the terminal sessions of the daemon.   *)
(*                                                                         *)
(* Four kinds of threads meet here.  Callers (RPC handlers of several      *)
(* connections) open, close and reconnect sessions in several steps, with  *)
(* the session map locked inside a step and not between steps.  The worker *)
(* of a session (the ssh child and its reader and writer threads, or the   *)
(* serial thread) fills a bounded broadcast channel and ends by itself or  *)
(* after close.  The ingest task spawned by attach reads the channel,      *)
(* keeps scrollback, coalesces output into session.data events and, when   *)
(* the loop ends, decides whether to announce the session as dropped.      *)
(* Serial ports are leased as PortLease says, which SerialPort implements. *)
(*                                                                         *)
(* Chunks of output are numbered 1 .. MaxChunks (the bound of the worker). *)
(***************************************************************************)
EXTENDS Naturals, Sequences

CONSTANTS
    Sids,           \* session ids (v4 UUIDs: never used twice)
    Ports,          \* serial ports
    Callers,        \* RPC handlers that run at the same time
    RingCap,        \* capacity of the worker's broadcast channel
    MaxChunks,      \* bound: chunks a worker may send
    InteractiveMax, \* OUTPUT_INTERACTIVE_MAX, in chunks
    CoalesceMax,    \* OUTPUT_COALESCE_MAX, in chunks
    NoSid           \* no session / a port nobody leases

ASSUME SidsAssumption == NoSid \notin Sids
ASSUME RingAssumption == RingCap \in Nat \ {0} /\ MaxChunks \in Nat
ASSUME CoalesceAssumption ==
    InteractiveMax \in Nat /\ CoalesceMax \in Nat /\ InteractiveMax < CoalesceMax

VARIABLES
    sessions,   \* Inner.sessions: the ids that are mapped
    kind,       \* kind[s]: "none" until an open picked the id
    join,       \* join[s]: LiveSession.serial_join is set
    worker,     \* worker[s]: the threads behind the session
    closeSig,   \* closeSig[s]: close sent and the senders dropped
    owner,      \* PortLease: which session leases a port
    using,      \* PortLease: the sessions with the device open
    sent,       \* sent[s]: chunks sent into the broadcast channel
    pos,        \* pos[s]: chunks the receiver is past
    pending,    \* pending[s]: ingested, not yet announced
    shown,      \* shown[s]: announced as session.data, in order
    task,       \* task[s]: where the ingest task is
    told,       \* told[s]: the reasons of its session.closed events, in order
    cpc,        \* cpc[c]: where caller c is
    csid,       \* csid[c]: the session it works on
    cjoins,     \* cjoins[c]: it took a serial_join out of the map
    creopen     \* creopen[c]: the close is the first half of a reconnect

workerVars == <<worker, sent>>
leaseVars == <<owner, using>>
taskVars == <<pos, pending, shown, task>>
callVars == <<cpc, csid, cjoins, creopen>>
vars == <<sessions, kind, join, worker, closeSig, owner, using,
          sent, pos, pending, shown, task, told, cpc, csid, cjoins, creopen>>

Lease == INSTANCE PortLease WITH Clients <- Sids, Nobody <- NoSid

Kinds == {"pty", "serial", "quiet"}     \* quiet: sftp, api and pcap sessions
Terminal(s) == kind[s] \in {"pty", "serial"}
Reasons == {"closed", "dropped"}

TypeOK ==
    /\ sessions \subseteq Sids
    /\ kind \in [Sids -> Kinds \cup {"none"}]
    /\ join \in [Sids -> BOOLEAN]
    /\ worker \in [Sids -> {"none", "opening", "running", "releasing", "ended"}]
    /\ closeSig \in [Sids -> BOOLEAN]
    /\ owner \in [Ports -> Sids \cup {NoSid}]
    /\ using \subseteq Sids
    /\ sent \in [Sids -> 0 .. MaxChunks]
    /\ pos \in [Sids -> 0 .. MaxChunks]
    /\ pending \in [Sids -> Seq(1 .. MaxChunks)]
    /\ shown \in [Sids -> Seq(1 .. MaxChunks)]
    /\ task \in [Sids -> {"none", "loop", "drain", "final", "decide", "tell", "done"}]
    /\ told \in [Sids -> Seq(Reasons)]
    /\ cpc \in [Callers -> {"idle", "device", "attach", "setjoin", "unmap",
                            "signal", "join", "returned", "open"}]
    /\ csid \in [Callers -> Sids \cup {NoSid}]
    /\ cjoins \in [Callers -> BOOLEAN]
    /\ creopen \in [Callers -> BOOLEAN]

Init ==
    /\ sessions = {}
    /\ kind = [s \in Sids |-> "none"]
    /\ join = [s \in Sids |-> FALSE]
    /\ worker = [s \in Sids |-> "none"]
    /\ closeSig = [s \in Sids |-> FALSE]
    /\ Lease!LeaseInit
    /\ sent = [s \in Sids |-> 0]
    /\ pos = [s \in Sids |-> 0]
    /\ pending = [s \in Sids |-> << >>]
    /\ shown = [s \in Sids |-> << >>]
    /\ task = [s \in Sids |-> "none"]
    /\ told = [s \in Sids |-> << >>]
    /\ cpc = [c \in Callers |-> "idle"]
    /\ csid = [c \in Callers |-> NoSid]
    /\ cjoins = [c \in Callers |-> FALSE]
    /\ creopen = [c \in Callers |-> FALSE]

Goto(c, l) == cpc' = [cpc EXCEPT ![c] = l]

\* The RPC of caller c is answered.
Answer(c) ==
    /\ Goto(c, "idle")
    /\ csid' = [csid EXCEPT ![c] = NoSid]
    /\ cjoins' = [cjoins EXCEPT ![c] = FALSE]
    /\ creopen' = [creopen EXCEPT ![c] = FALSE]

\* Where a close goes when it is done.
AfterClose(c) == IF creopen[c] THEN "open" ELSE "returned"

-----------------------------------------------------------------------------
(* Mutants: actions with one mistake each, which the runs must notice.      *)

\* close_session of an unmapped id sends session.closed again.
UnmapNothingTells(c) ==
    /\ cpc[c] = "unmap"
    /\ csid[c] \notin sessions
    /\ told' = [told EXCEPT ![csid[c]] = Append(@, "closed")]
    /\ Goto(c, AfterClose(c))
    /\ UNCHANGED <<sessions, kind, join, closeSig, workerVars, leaseVars, taskVars,
                   csid, cjoins, creopen>>

\* Only sessions with a join handle are signalled.
UnmapJoinOnly(c) ==
    LET s == csid[c]
    IN  /\ cpc[c] = "unmap"
        /\ s \in sessions
        /\ sessions' = sessions \ {s}
        /\ told' = [told EXCEPT ![s] = Append(@, "closed")]
        /\ cjoins' = [cjoins EXCEPT ![c] = join[s]]
        /\ Goto(c, IF join[s] THEN "signal" ELSE AfterClose(c))
        /\ UNCHANGED <<kind, join, closeSig, workerVars, leaseVars, taskVars, csid, creopen>>

\* close is not sent and a sender is kept alive.
SignalNotSent(c) ==
    /\ cpc[c] = "signal"
    /\ Goto(c, IF cjoins[c] THEN "join" ELSE AfterClose(c))
    /\ UNCHANGED <<sessions, kind, join, closeSig, workerVars, leaseVars, taskVars, told,
                   csid, cjoins, creopen>>

\* The join handle is dropped instead of joined.
JoinSkipped(c) ==
    /\ cpc[c] = "join"
    /\ Goto(c, AfterClose(c))
    /\ UNCHANGED <<sessions, kind, join, closeSig, workerVars, leaseVars, taskVars,
                   told, csid, cjoins, creopen>>

\* A flush that copies the buffer and does not take it.
FlushCopies(s) ==
    /\ shown' = [shown EXCEPT ![s] = @ \o pending[s]]
    /\ UNCHANGED pending

\* try_recv skips to the last chunks of the channel whether it lagged or not.
DrainEndSkips(s) ==
    /\ task[s] = "drain"
    /\ pos' = [pos EXCEPT ![s] = sent[s] - RingCap]
    /\ shown' = [shown EXCEPT ![s] = @ \o pending[s]]
    /\ pending' = [pending EXCEPT ![s] = << >>]
    /\ task' = [task EXCEPT ![s] = "loop"]
    /\ UNCHANGED <<sessions, kind, join, closeSig, workerVars, leaseVars, told, callVars>>

\* What is pending when the loop ends is forgotten.
FinalFlushSkipped(s) ==
    /\ task[s] = "final"
    /\ task' = [task EXCEPT ![s] = "decide"]
    /\ UNCHANGED <<sessions, kind, join, closeSig, workerVars, leaseVars, pos, pending,
                   shown, told, callVars>>

\* Only serial sessions are announced as dropped.
DecideSerialOnly(s) ==
    /\ task[s] = "decide"
    /\ task' = [task EXCEPT ![s] = IF s \in sessions /\ kind[s] = "serial" THEN "tell" ELSE "done"]
    /\ UNCHANGED <<sessions, kind, join, closeSig, workerVars, leaseVars, pos, pending,
                   shown, told, callVars>>

-----------------------------------------------------------------------------
(* open_session.                                                           *)

\* Caller c may open: a request of its own, or the second half of reconnect,
\* which uses the kind the reconnect spec names.
MayOpen(c, k) ==
    \/ cpc[c] = "idle"
    \/ cpc[c] = "open" /\ kind[csid[c]] = k

\* A fresh id, bound to the caller that will attach it.
Begin(c, s, k, w, l) ==
    /\ MayOpen(c, k)
    /\ kind[s] = "none"
    /\ kind' = [kind EXCEPT ![s] = k]
    /\ worker' = [worker EXCEPT ![s] = w]
    /\ Goto(c, l)
    /\ csid' = [csid EXCEPT ![c] = s]
    /\ cjoins' = [cjoins EXCEPT ![c] = FALSE]
    /\ creopen' = [creopen EXCEPT ![c] = FALSE]
    /\ UNCHANGED <<sessions, join, closeSig, sent, taskVars, told>>

\* ssh::open_ssh or local_pty::open_local returned: child and threads run.
OpenPty(c, s) == Begin(c, s, "pty", "running", "attach") /\ UNCHANGED leaseVars

\* sftp, api and capture sessions have no worker; their channel is closed.
OpenQuiet(c, s) == Begin(c, s, "quiet", "ended", "attach") /\ UNCHANGED leaseVars

\* serial::open_serial reserves the port ...
OpenSerial(c, s, p) ==
    /\ Begin(c, s, "serial", "opening", "device")
    /\ Lease!Acquire(s, p)

\* ... opens the device and spawns the worker ...
DeviceOpens(c) ==
    LET s == csid[c]
    IN  /\ cpc[c] = "device"
        /\ Lease!StartUse(s)
        /\ worker' = [worker EXCEPT ![s] = "running"]
        /\ Goto(c, "attach")
        /\ UNCHANGED <<sessions, kind, join, closeSig, sent, taskVars, told,
                       csid, cjoins, creopen>>

\* ... or undoes the reservation; no session exists.
DeviceFails(c) ==
    LET s == csid[c]
    IN  /\ cpc[c] = "device"
        /\ \E p \in Ports : Lease!Release(s, p)
        /\ worker' = [worker EXCEPT ![s] = "none"]
        /\ kind' = [kind EXCEPT ![s] = "none"]
        /\ Answer(c)
        /\ UNCHANGED <<sessions, join, closeSig, sent, taskVars, told>>

\* The open of a reconnect fails (host gone, port busy, device deleted): the
\* caller gets the error, and the old session is closed already.
ReopenFails(c) ==
    /\ cpc[c] = "open"
    /\ Answer(c)
    /\ UNCHANGED <<sessions, kind, join, closeSig, workerVars, leaseVars, taskVars, told>>

\* attach: insert the live session and spawn the ingest task.
Attach(c) ==
    LET s == csid[c]
    IN  /\ cpc[c] = "attach"
        /\ sessions' = sessions \cup {s}
        /\ task' = [task EXCEPT ![s] = "loop"]
        /\ IF kind[s] = "serial"
           THEN Goto(c, "setjoin") /\ UNCHANGED <<csid, cjoins, creopen>>
           ELSE Answer(c)
        /\ UNCHANGED <<kind, join, closeSig, workerVars, leaseVars, pos, pending, shown, told>>

\* open_serial stores the join handle after attach, if the id is still mapped.
SetJoin(c) ==
    /\ cpc[c] = "setjoin"
    /\ join' = [join EXCEPT ![csid[c]] = csid[c] \in sessions]
    /\ Answer(c)
    /\ UNCHANGED <<sessions, kind, closeSig, workerVars, leaseVars, taskVars, told>>

-----------------------------------------------------------------------------
(* close_session and reconnect.                                            *)

\* session.close for any id a client has seen, mapped or not.
Close(c, s) ==
    /\ cpc[c] = "idle"
    /\ task[s] # "none"
    /\ Goto(c, "unmap")
    /\ csid' = [csid EXCEPT ![c] = s]
    /\ UNCHANGED <<sessions, kind, join, closeSig, workerVars, leaseVars, taskVars, told,
                   cjoins, creopen>>

\* session.reconnect: clone the spec under the lock, then close.
Reconnect(c, s) ==
    /\ cpc[c] = "idle"
    /\ s \in sessions
    /\ Goto(c, "unmap")
    /\ csid' = [csid EXCEPT ![c] = s]
    /\ creopen' = [creopen EXCEPT ![c] = TRUE]
    /\ UNCHANGED <<sessions, kind, join, closeSig, workerVars, leaseVars, taskVars, told, cjoins>>

\* Under the lock: remove the session and send session.closed "closed".
Unmap(c) ==
    LET s == csid[c]
    IN  /\ cpc[c] = "unmap"
        /\ s \in sessions
        /\ sessions' = sessions \ {s}
        /\ told' = [told EXCEPT ![s] = Append(@, "closed")]
        /\ cjoins' = [cjoins EXCEPT ![c] = join[s]]
        /\ Goto(c, "signal")
        /\ UNCHANGED <<kind, join, closeSig, workerVars, leaseVars, taskVars, csid, creopen>>

\* The id is not mapped (another caller closed it): Ok at once.
UnmapNothing(c) ==
    /\ cpc[c] = "unmap"
    /\ csid[c] \notin sessions
    /\ Goto(c, AfterClose(c))
    /\ UNCHANGED <<sessions, kind, join, closeSig, workerVars, leaseVars, taskVars,
                   told, csid, cjoins, creopen>>

\* Outside the lock: send close and drop the senders.
Signal(c) ==
    /\ cpc[c] = "signal"
    /\ closeSig' = [closeSig EXCEPT ![csid[c]] = TRUE]
    /\ Goto(c, IF cjoins[c] THEN "join" ELSE AfterClose(c))
    /\ UNCHANGED <<sessions, kind, join, workerVars, leaseVars, taskVars, told,
                   csid, cjoins, creopen>>

JoinWorker(c) ==
    /\ cpc[c] = "join"
    /\ worker[csid[c]] = "ended"
    /\ Goto(c, AfterClose(c))
    /\ UNCHANGED <<sessions, kind, join, closeSig, workerVars, leaseVars, taskVars,
                   told, csid, cjoins, creopen>>

Return(c) ==
    /\ cpc[c] = "returned"
    /\ Answer(c)
    /\ UNCHANGED <<sessions, kind, join, closeSig, workerVars, leaseVars, taskVars, told>>

-----------------------------------------------------------------------------
(* The worker.                                                             *)

Produce(s) ==
    /\ worker[s] = "running"
    /\ sent[s] < MaxChunks
    /\ sent' = [sent EXCEPT ![s] = @ + 1]
    /\ UNCHANGED <<sessions, kind, join, worker, closeSig, leaseVars, taskVars, told, callVars>>

\* The shell or ssh exits, or the connection breaks.  The serial thread does
\* not end by itself: it waits for a lost port to come back.
PtyEof(s) ==
    /\ worker[s] = "running"
    /\ kind[s] = "pty"
    /\ worker' = [worker EXCEPT ![s] = "ended"]
    /\ UNCHANGED <<sessions, kind, join, closeSig, sent, leaseVars, taskVars, told, callVars>>

\* The writer thread sees close and kills the child; the reader meets EOF.
\* The serial thread leaves run_port and drops the device handles first.
WorkerStops(s) ==
    /\ worker[s] = "running"
    /\ closeSig[s]
    /\ worker' = [worker EXCEPT ![s] = IF kind[s] = "serial" THEN "releasing" ELSE "ended"]
    /\ Lease!StopUse(s)
    /\ UNCHANGED <<sessions, kind, join, closeSig, sent, taskVars, told, callVars>>

\* The serial thread gives the port back, and ends.
WorkerReleases(s) ==
    /\ worker[s] = "releasing"
    /\ worker' = [worker EXCEPT ![s] = "ended"]
    /\ \E p \in Ports : Lease!Release(s, p)
    /\ UNCHANGED <<sessions, kind, join, closeSig, sent, taskVars, told, callVars>>

-----------------------------------------------------------------------------
(* The ingest task.                                                        *)

TaskGoto(s, l) == task' = [task EXCEPT ![s] = l]

TaskOnly == UNCHANGED <<sessions, kind, join, closeSig, workerVars, leaseVars, callVars>>

\* The receiver fell behind: the oldest chunks are overwritten.
Lagged(s) == sent[s] > pos[s] + RingCap

\* flush_session_output: what is pending becomes one session.data event.
Flush(s) ==
    /\ shown' = [shown EXCEPT ![s] = @ \o pending[s]]
    /\ pending' = [pending EXCEPT ![s] = << >>]

KeepOutput == UNCHANGED <<shown, pending>>

\* ingest_pty_chunk on the next chunk: false when the id is not mapped.
Ingest(s, next) ==
    /\ pos' = [pos EXCEPT ![s] = @ + 1]
    /\ IF s \in sessions
       THEN /\ pending' = [pending EXCEPT ![s] = Append(@, pos[s] + 1)]
            /\ TaskGoto(s, next)
       ELSE TaskGoto(s, "final") /\ UNCHANGED pending
    /\ UNCHANGED <<shown, told>>
    /\ TaskOnly

\* rx.recv() gives a chunk.
Recv(s) ==
    /\ task[s] = "loop"
    /\ pos[s] < sent[s] /\ ~Lagged(s)
    /\ Ingest(s, "drain")

\* rx.recv() gives Lagged or Closed: both end the loop.
RecvErr(s) ==
    /\ task[s] = "loop"
    /\ Lagged(s) \/ (pos[s] = sent[s] /\ worker[s] = "ended")
    /\ TaskGoto(s, "final")
    /\ KeepOutput
    /\ UNCHANGED <<pos, told>>
    /\ TaskOnly

\* rx.try_recv() gives a chunk and pending is below OUTPUT_COALESCE_MAX.
Drain(s) ==
    /\ task[s] = "drain"
    /\ Len(pending[s]) < CoalesceMax
    /\ pos[s] < sent[s] /\ ~Lagged(s)
    /\ Ingest(s, "drain")

\* Short output and full buffers are flushed before the next recv.
FlushOrKeep(s) ==
    IF pending[s] # << >>
       /\ (Len(pending[s]) <= InteractiveMax \/ Len(pending[s]) >= CoalesceMax)
    THEN Flush(s)
    ELSE KeepOutput

\* The drain ends: the buffer is full, the channel is empty or closed, or
\* try_recv gives Lagged, which moves the receiver to the oldest chunk left.
DrainEnd(s) ==
    /\ task[s] = "drain"
    /\ \/ Len(pending[s]) >= CoalesceMax /\ UNCHANGED pos
       \/ pos[s] = sent[s] /\ UNCHANGED pos
       \/ /\ Len(pending[s]) < CoalesceMax
          /\ Lagged(s)
          /\ pos' = [pos EXCEPT ![s] = sent[s] - RingCap]
    /\ FlushOrKeep(s)
    /\ TaskGoto(s, "loop")
    /\ UNCHANGED told
    /\ TaskOnly

\* The coalescing ticker.
Tick(s) ==
    /\ task[s] = "loop"
    /\ pending[s] # << >>
    /\ Flush(s)
    /\ UNCHANGED <<pos, task, told>>
    /\ TaskOnly

\* After the loop: flush what is left ...
FinalFlush(s) ==
    /\ task[s] = "final"
    /\ Flush(s)
    /\ TaskGoto(s, "decide")
    /\ UNCHANGED <<pos, told>>
    /\ TaskOnly

\* ... look under the lock whether a terminal session is still mapped ...
DecideDropped(s) ==
    /\ task[s] = "decide"
    /\ TaskGoto(s, IF s \in sessions /\ Terminal(s) THEN "tell" ELSE "done")
    /\ KeepOutput
    /\ UNCHANGED <<pos, told>>
    /\ TaskOnly

\* ... and announce it without the lock.
TellDropped(s) ==
    /\ task[s] = "tell"
    /\ told' = [told EXCEPT ![s] = Append(@, "dropped")]
    /\ TaskGoto(s, "done")
    /\ KeepOutput
    /\ UNCHANGED pos
    /\ TaskOnly

-----------------------------------------------------------------------------
CallerStep(c) ==
    \/ DeviceOpens(c) \/ DeviceFails(c) \/ Attach(c) \/ SetJoin(c) \/ Unmap(c) \/ UnmapNothing(c)
    \/ Signal(c) \/ JoinWorker(c) \/ Return(c)

Request(c) ==
    \/ \E s \in Sids : OpenPty(c, s) \/ OpenQuiet(c, s) \/ Close(c, s) \/ Reconnect(c, s)
    \/ \E s \in Sids, p \in Ports : OpenSerial(c, s, p)
    \/ ReopenFails(c)

TaskStep(s) ==
    \/ Recv(s) \/ RecvErr(s) \/ Drain(s) \/ DrainEnd(s) \/ Tick(s)
    \/ FinalFlush(s) \/ DecideDropped(s) \/ TellDropped(s)

WorkerStep(s) == Produce(s) \/ PtyEof(s) \/ WorkerStops(s) \/ WorkerReleases(s)

Next ==
    \/ \E c \in Callers : CallerStep(c) \/ Request(c)
    \/ \E s \in Sids : TaskStep(s) \/ WorkerStep(s)

Spec == Init /\ [][Next]_vars

\* Handlers, ingest tasks and worker threads are scheduled; nothing obliges a
\* client to call, a device to print or a remote end to hang up.
Fairness ==
    /\ \A c \in Callers : WF_vars(CallerStep(c))
    /\ \A s \in Sids : WF_vars(TaskStep(s)) /\ WF_vars(WorkerStops(s) \/ WorkerReleases(s))

FairSpec == Spec /\ Fairness

-----------------------------------------------------------------------------
(* Properties.                                                             *)

(* What a client is told agrees with the map, whoever closes or reconnects
   at the same time: "closed" is said once, when the session leaves the map,
   and "dropped" at most once (session.rs:465, session.rs:2107).            *)
Said(s, r) == \E i \in 1 .. Len(told[s]) : told[s][i] = r

ToldOnce ==
    \A s \in Sids :
        /\ \A i, j \in 1 .. Len(told[s]) : told[s][i] = told[s][j] => i = j
        /\ Said(s, "closed") <=> (task[s] # "none" /\ s \notin sessions)

(* Output reaches the clients in the order the device sent it, no chunk twice,
   through two buffers and four places that flush them (session.rs:2051).   *)
OutputOrdered ==
    \A s \in Sids :
        LET out == shown[s] \o pending[s]
        IN  \A i, j \in 1 .. Len(out) : i < j => out[i] < out[j]

(* A leased port belongs to a worker that runs and that somebody can still
   stop: its session is mapped, being opened, or being closed.  Otherwise the
   port would stay "already open in Late" with no session to close.         *)
LeaseHasKeeper ==
    \A p \in Ports, s \in Sids :
        owner[p] = s =>
            /\ worker[s] \in {"opening", "running", "releasing"}
            /\ \/ s \in sessions
               \/ closeSig[s]
               \/ \E c \in Callers : csid[c] = s /\ cpc[c] \in {"device", "attach", "signal"}

(* A close or reconnect that took the join handle out of the map goes on only
   when the port is free: the reconnect cannot collide with its own old
   session (serial_join, session.rs:267; the join, session.rs:490).         *)
JoinFreesPort ==
    \A c \in Callers :
        cjoins[c] /\ cpc[c] \in {"open", "returned"} =>
            \A p \in Ports : owner[p] # csid[c]

(* Every variable keeps its type, and clients are told what is in the map.  *)
EventsAgree == TypeOK /\ ToldOnce

(* A serial port is never lost: while it is leased somebody can stop its
   worker, and after a join it is free.                                     *)
PortsAreKept == LeaseHasKeeper /\ JoinFreesPort

(* A session whose process ended is announced, as dropped or as closed.     *)
EndIsTold ==
    \A s \in Sids :
        worker[s] = "ended" /\ Terminal(s) /\ task[s] # "none" ~> told[s] # << >>

(* A closed session's worker ends and its port is freed, also when the close
   came between attach and SetJoin and nobody joins the worker.             *)
ClosedIsReaped ==
    \A s \in Sids : Said(s, "closed") ~>
        worker[s] = "ended" /\ \A p \in Ports : owner[p] # s

(* What is ingested is announced, also when the session is closed meanwhile. *)
PendingIsShown == \A s \in Sids : pending[s] # << >> ~> pending[s] = << >>

(* What a session printed and that it ended reaches those who listen.        *)
NothingStaysBehind == PendingIsShown /\ EndIsTold

(* A close returns, or goes on to reopen: the join cannot hang.             *)
CloseReturns == \A c \in Callers : cpc[c] = "unmap" ~> cpc[c] \in {"returned", "open"}

(* A close comes to its end, for its caller and for the worker it closes.   *)
ClosesEnd == CloseReturns /\ ClosedIsReaped
==============================================================================
