---------------------------- MODULE PacketCapture ----------------------------
(***************************************************************************)
(* Packet captures of the daemon: recorders that run until they are        *)
(* stopped (a local dumpcap or tcpdump, an ssh that streams, a thread that *)
(* drives the command line of a device), captures of a given length, and   *)
(* the files that are opened for analysis.  Handlers run on threads of     *)
(* their own and interleave.  All captures over ssh are of one device.     *)
(***************************************************************************)
EXTENDS PcapDecode

CONSTANTS Caps,       \* captures a client asks for, each once
          AskFor,     \* the ways it asks: "local", "ssh", "once"
          Stoppers,   \* handlers of a stop
          NoCap,
          Platforms   \* what the device may turn out to be

ASSUME CaptureAssumption == NoCap \notin Caps

VARIABLES platform,\* fixed: the device
          cap,     \* [Caps -> the handler that starts it: its step, kind and tool]
          child,   \* [Caps -> the local process that records]
          worker,  \* [Caps -> the thread that drives the device]
          told,    \* captures whose worker was sent a stop
          file,    \* [Caps -> the local file: how much it holds, and of what]
          live,    \* the table of running captures
          stop,    \* [Stoppers -> the capture this handler stops]
          flash,   \* ["live", "once" -> the file of that name on the device]
          opened,  \* captures whose file was opened for analysis
          beside,  \* history: [Caps -> captures that were starting or stopping meanwhile]
          refused  \* history: captures whose command the device refused

vars == <<platform, cap, child, worker, told, file, live, stop, flash, opened, beside, refused, reader>>
procVars == <<child, worker, told>>
histVars == <<beside, refused>>

Nothing == [by |-> NoCap, how |-> "live"]
NoFile == [st |-> "none", of |-> Nothing]

CaptureInit ==
  /\ platform \in Platforms
  /\ cap = [c \in Caps |-> [pc |-> "idle", kind |-> "none", tool |-> "none"]]
  /\ child = [c \in Caps |-> "none"] /\ worker = [c \in Caps |-> "none"] /\ told = {}
  /\ file = [c \in Caps |-> NoFile]
  /\ live = {} /\ stop = [t \in Stoppers |-> NoCap]
  /\ flash = [n \in {"live", "once"} |-> Nothing]
  /\ opened = {} /\ beside = [c \in Caps |-> {}] /\ refused = {}
  /\ reader = Closed

At(c, pc) == cap[c].pc = pc
Goto(c, pc) == cap' = [cap EXCEPT ![c].pc = pc]

Ended == {"idle", "failed", "done"}

(* History: two captures met unless one was in the table all along.        *)
Meets(c, kind) ==
  LET met == {d \in Caps \ {c} : /\ cap[d].pc \notin Ended
                                 /\ "once" \in {kind, cap[d].kind} \/ d \notin live}
  IN beside' = [d \in Caps |-> IF d = c THEN met
                               ELSE IF d \in met THEN beside[d] \cup {c} ELSE beside[d]]

-----------------------------------------------------------------------------
(* Processes of the system.                                                *)

Wrote(c) == [st |-> "pcap", of |-> [by |-> c, how |-> "live"]]

RecorderWrites(c) ==
  /\ child[c] = "running" /\ file[c].st # "pcap"
  /\ file' = [file EXCEPT ![c] = IF @.st = "none" THEN [NoFile EXCEPT !.st = "stub"] ELSE Wrote(c)]
  /\ UNCHANGED <<platform, cap, live, stop, flash, opened, procVars, histVars>>

(* It has its number of packets, it may not capture, or its link is down.  *)
RecorderEnds(c) ==
  /\ child[c] = "running"
  /\ child' = [child EXCEPT ![c] = "ended"]
  /\ UNCHANGED <<platform, cap, worker, told, file, live, stop, flash, opened, histVars>>

(* A process of sudo runs as root: the daemon may not kill it.             *)
Killed(c) == IF cap[c].tool = "sudo" THEN child
             ELSE [child EXCEPT ![c] = IF @ = "running" THEN "ended" ELSE @]

-----------------------------------------------------------------------------
(* A local capture: dumpcap, then tcpdump.                                 *)

Try(c, tool) ==
  /\ cap' = [cap EXCEPT ![c] = [pc |-> "try", kind |-> "local", tool |-> tool]]
  /\ child' \in {[child EXCEPT ![c] = st] : st \in {"running", "ended"}}
  /\ file' = [file EXCEPT ![c] = NoFile]

StartLocal(c) ==
  /\ At(c, "idle") /\ "local" \in AskFor
  /\ Try(c, "dumpcap") /\ Meets(c, "local")
  /\ UNCHANGED <<platform, worker, told, live, stop, flash, opened, refused>>

NextTool(c) ==
  /\ \/ cap[c].tool = "dumpcap" /\ Try(c, "sudo")
     \/ cap[c].tool = "sudo" /\ Goto(c, "failed") /\ UNCHANGED <<child, file>>
  /\ UNCHANGED <<platform, worker, told, live, stop, flash, opened, histVars>>

(* An end is looked at before the file is.                                 *)
TryFails(c) == At(c, "try") /\ child[c] = "ended" /\ NextTool(c)

TryRecords(c) ==
  /\ At(c, "try") /\ child[c] = "running" /\ file[c].st = "pcap"
  /\ Goto(c, "insert")
  /\ UNCHANGED <<platform, procVars, file, live, stop, flash, opened, histVars>>

TryTimesOut(c) ==
  /\ At(c, "try") /\ child[c] = "running" /\ file[c].st # "pcap"
  /\ Goto(c, "kill") /\ child' = Killed(c)
  /\ UNCHANGED <<platform, worker, told, file, live, stop, flash, opened, histVars>>

KillWaits(c) == At(c, "kill") /\ child[c] = "ended" /\ NextTool(c)

-----------------------------------------------------------------------------
(* A capture over ssh: a stream, else the command line of the device.      *)

(* A mutant of NoneLive: a running capture is not looked for.              *)
AnyLive == TRUE

NoneLive == live = {}

StartSsh(c) ==
  /\ At(c, "idle") /\ "ssh" \in AskFor
  /\ cap' = [cap EXCEPT ![c] = [pc |-> IF NoneLive THEN "checked" ELSE "failed",
                                kind |-> "ssh", tool |-> "none"]]
  /\ Meets(c, "ssh")
  /\ UNCHANGED <<platform, procVars, file, live, stop, flash, opened, refused>>

(* The device or its login may be gone.                                    *)
ResolveSshDevice(c) ==
  /\ At(c, "checked")
  /\ \/ Goto(c, "failed") /\ UNCHANGED <<child, file>>
     \/ /\ cap' = [cap EXCEPT ![c].pc = "stream", ![c].tool = "ssh"]
        /\ child' = [child EXCEPT ![c] = "running"]
        /\ file' = [file EXCEPT ![c] = [NoFile EXCEPT !.st = "stub"]]
  /\ UNCHANGED <<platform, worker, told, live, stop, flash, opened, histVars>>

StreamIsPcap(c) ==
  /\ At(c, "stream") /\ file[c].st = "pcap"
  /\ Goto(c, "insert")
  /\ UNCHANGED <<platform, procVars, file, live, stop, flash, opened, histVars>>

(* A mutant of DropStream: the process of the stream is left running.      *)
ForgetStream(c) == child' = child /\ file' = [file EXCEPT ![c] = NoFile]

(* A mutant of DropStream: its empty file stays.                           *)
LeaveStub(c) == child' = Killed(c) /\ file' = file

DropStream(c) == child' = Killed(c) /\ file' = [file EXCEPT ![c] = NoFile]

StreamFails(c) ==
  /\ At(c, "stream") /\ file[c].st # "pcap"
  /\ DropStream(c)
  /\ worker' = [worker EXCEPT ![c] = "opening"]
  /\ cap' = [cap EXCEPT ![c].pc = "worker", ![c].tool = "cli"]
  /\ UNCHANGED <<platform, told, live, stop, flash, opened, histVars>>

Running(c) == worker[c] \notin {"none", "opening"}

Finished(c) == worker[c] \in {"ok", "err"}

WorkerReady(c) ==
  /\ At(c, "worker") /\ Running(c) /\ worker[c] # "err"
  /\ Goto(c, "insert")
  /\ UNCHANGED <<platform, procVars, file, live, stop, flash, opened, histVars>>

CleanUp(c) == Goto(c, "failed") /\ file' = [file EXCEPT ![c] = NoFile]

WorkerFails(c) ==
  /\ At(c, "worker") /\ worker[c] = "err"
  /\ CleanUp(c)
  /\ UNCHANGED <<platform, procVars, live, stop, flash, opened, histVars>>

(* A mutant of Tell: the stop is not sent.                                 *)
TellNobody(c) == told

Tell(c) == told \cup {c}

WorkerIsLate(c) ==
  /\ At(c, "worker") /\ worker[c] = "opening"
  /\ Goto(c, "late") /\ told' = Tell(c)
  /\ UNCHANGED <<platform, child, worker, file, live, stop, flash, opened, histVars>>

LateEnd(c) == Finished(c)

(* It may have become ready, and stopped, in the meantime.                 *)
LateJoin(c) ==
  /\ At(c, "late") /\ LateEnd(c)
  /\ IF file[c].st = "pcap" THEN Goto(c, "insert") /\ UNCHANGED file ELSE CleanUp(c)
  /\ UNCHANGED <<platform, procVars, live, stop, flash, opened, histVars>>

InsertCapture(c) ==
  /\ At(c, "insert")
  /\ Goto(c, "live") /\ live' = live \cup {c}
  /\ UNCHANGED <<platform, procVars, file, stop, flash, opened, histVars>>

-----------------------------------------------------------------------------
(* The thread that drives the device.                                      *)

(* A capture command of c that writes the file `name` of the device, or    *)
(* that the device refuses; the daemon does not look which.                *)
CaptureCommand(c, name) ==
  \/ /\ flash' = [flash EXCEPT ![name] = [by |-> c, how |-> name]]
     /\ UNCHANGED refused
  \/ refused' = refused \cup {c} /\ UNCHANGED flash

WorkerOpens(c) ==
  /\ worker[c] = "opening"
  /\ \/ worker' = [worker EXCEPT ![c] = "err"] /\ UNCHANGED <<flash, refused>>
     \/ worker' = [worker EXCEPT ![c] = "capturing"] /\ CaptureCommand(c, "live")
  /\ UNCHANGED <<platform, cap, child, told, file, live, stop, opened, beside>>

WaitStop(c) ==
  /\ worker[c] = "capturing" /\ c \in told
  /\ worker' = [worker EXCEPT ![c] = "exporting"]
  /\ UNCHANGED <<platform, cap, child, told, file, live, stop, flash, opened, histVars>>

(* NX-OS has its recording on bootflash; what is fetched is a new capture  *)
(* of the shell.                                                           *)
ExportName == IF platform = "nxos" THEN "once" ELSE "live"

(* A mutant of ExportFetches: it fetches the file of the other command.    *)
ExportOther(c) == flash[IF ExportName = "live" THEN "once" ELSE "live"]

ExportFetches(c) == flash[ExportName]

WorkerFetches(c) ==
  /\ worker[c] = "exporting" /\ platform = "nxos"
  /\ worker' = [worker EXCEPT ![c] = "fetching"] /\ CaptureCommand(c, "once")
  /\ UNCHANGED <<platform, cap, child, told, file, live, stop, opened, beside>>

WorkerExports(c) ==
  /\ worker[c] = (IF platform = "nxos" THEN "fetching" ELSE "exporting")
  /\ \/ worker' = [worker EXCEPT ![c] = "err"] /\ UNCHANGED file
     \/ /\ ExportFetches(c) # Nothing
        /\ worker' = [worker EXCEPT ![c] = "ok"]
        /\ file' = [file EXCEPT ![c] = [st |-> "pcap", of |-> ExportFetches(c)]]
  /\ UNCHANGED <<platform, cap, child, told, live, stop, flash, opened, histVars>>

-----------------------------------------------------------------------------
(* A capture of a number of packets, start to end in one handler.          *)

(* One ssh command, which writes a file of its own.                        *)
CaptureOnce(c) ==
  /\ At(c, "idle") /\ "once" \in AskFor
  /\ \/ /\ cap' = [cap EXCEPT ![c] = [pc |-> "open", kind |-> "once", tool |-> "ssh"]]
        /\ file' = [file EXCEPT ![c] = [st |-> "pcap", of |-> [by |-> c, how |-> "once"]]]
     \/ /\ cap' = [cap EXCEPT ![c] = [pc |-> "cli", kind |-> "once", tool |-> "cli"]]
        /\ UNCHANGED file
  /\ Meets(c, "once")
  /\ UNCHANGED <<platform, procVars, live, stop, flash, opened, refused>>

(* In a shell of the device, if it gives one.                              *)
CliCapture(c) ==
  /\ At(c, "cli")
  /\ \/ \E pc \in {"failed", "device"} : Goto(c, pc) /\ UNCHANGED <<flash, refused>>
     \/ Goto(c, "fetch") /\ CaptureCommand(c, "once")
  /\ UNCHANGED <<platform, procVars, file, live, stop, opened, beside>>

(* With the capture command of the device; some cannot export its file and *)
(* record once more in a shell.                                            *)
DeviceCapture(c) ==
  /\ At(c, "device")
  /\ \/ Goto(c, "failed") /\ UNCHANGED <<flash, refused>>
     \/ Goto(c, "fetch") /\ CaptureCommand(c, "once")
  /\ UNCHANGED <<platform, procVars, file, live, stop, opened, beside>>

CliFetches(c) ==
  /\ At(c, "fetch")
  /\ \/ Goto(c, "failed") /\ UNCHANGED file
     \/ /\ flash["once"] # Nothing
        /\ Goto(c, "open")
        /\ file' = [file EXCEPT ![c] = [st |-> "pcap", of |-> flash["once"]]]
  /\ UNCHANGED <<platform, procVars, live, stop, flash, opened, histVars>>

-----------------------------------------------------------------------------
(* Stop, and what is opened.                                               *)

(* The named capture, or the only one.                                     *)
Key(id) == IF id \in live THEN {id} ELSE IF Cardinality(live) = 1 THEN live ELSE {}

WasLive(c) == cap[c].kind # "once" /\ cap[c].pc \in {"live", "done"}

(* A mutant of Removed: the capture stays in the table until it ended.     *)
RemovedLater(c) == live

Removed(c) == live \ {c}

StopPcap(t) ==
  /\ stop[t] = NoCap
  /\ \E id \in {c \in Caps : WasLive(c)} : \E c \in Key(id) :
       /\ stop' = [stop EXCEPT ![t] = c]
       /\ live' = Removed(c)
       /\ told' = IF worker[c] # "none" THEN Tell(c) ELSE told
       /\ child' = Killed(c)
  /\ UNCHANGED <<platform, cap, worker, file, flash, opened, histVars>>

(* What does not parse is an error; the file stays.                        *)
OpenPcap(c) ==
  /\ Goto(c, "done")
  /\ \/ UNCHANGED opened
     \/ file[c].st = "pcap" /\ opened' = opened \cup {c}

StopEnd(c) == child[c] # "running" /\ (worker[c] = "none" \/ Finished(c))

StopJoins(t) ==
  /\ stop[t] # NoCap /\ StopEnd(stop[t])
  /\ OpenPcap(stop[t])
  /\ stop' = [stop EXCEPT ![t] = NoCap]
  /\ UNCHANGED <<platform, procVars, file, live, flash, histVars>>

OnceOpens(c) ==
  /\ At(c, "open") /\ OpenPcap(c)
  /\ UNCHANGED <<platform, procVars, file, live, stop, flash, histVars>>

-----------------------------------------------------------------------------
HandlerStep(c) ==
  \/ TryFails(c) \/ TryRecords(c) \/ TryTimesOut(c) \/ KillWaits(c)
  \/ ResolveSshDevice(c) \/ StreamIsPcap(c) \/ StreamFails(c)
  \/ WorkerReady(c) \/ WorkerFails(c) \/ WorkerIsLate(c) \/ LateJoin(c) \/ InsertCapture(c)
  \/ CliCapture(c) \/ DeviceCapture(c) \/ CliFetches(c) \/ OnceOpens(c)

WorkerStep(c) == WorkerOpens(c) \/ WaitStop(c) \/ WorkerFetches(c) \/ WorkerExports(c)

CaptureStep ==
  \/ \E c \in Caps : \/ StartLocal(c) \/ StartSsh(c) \/ CaptureOnce(c)
                     \/ RecorderWrites(c) \/ RecorderEnds(c) \/ HandlerStep(c) \/ WorkerStep(c)
  \/ \E t \in Stoppers : StopPcap(t) \/ StopJoins(t)

captureVars == <<platform, cap, procVars, file, live, stop, flash, opened, histVars>>

(* Reading shares nothing with captures: a behaviour looks at one of them. *)
CaptureNext ==
  \/ reader.pc = "closed" /\ CaptureStep /\ UNCHANGED reader
  \/ (\A c \in Caps : At(c, "idle")) /\ ReaderNext /\ UNCHANGED captureVars

(* Handlers and threads run: every wait of theirs has a deadline, but the  *)
(* waits for a process and for a stop.                                     *)
CaptureSpec == /\ CaptureInit /\ [][CaptureNext]_vars
               /\ \A c \in Caps : WF_vars(HandlerStep(c) /\ UNCHANGED reader)
                                /\ WF_vars(WorkerStep(c) /\ UNCHANGED reader)
               /\ \A t \in Stoppers : WF_vars(StopJoins(t) /\ UNCHANGED reader)

-----------------------------------------------------------------------------
Origins == [by : Caps \cup {NoCap}, how : {"live", "once"}]

(* Types, and the table holds what has been entered and not stopped.       *)
CaptureTypeOK ==
  /\ cap \in [Caps -> [pc : {"idle", "try", "kill", "checked", "stream", "worker", "late",
                             "insert", "live", "cli", "device", "fetch", "open", "failed", "done"},
                       kind : {"none", "local", "ssh", "once"},
                       tool : {"none", "dumpcap", "sudo", "ssh", "cli"}]]
  /\ child \in [Caps -> {"none", "running", "ended"}]
  /\ worker \in [Caps -> {"none", "opening", "capturing", "exporting", "fetching", "ok", "err"}]
  /\ file \in [Caps -> [st : {"none", "stub", "pcap"}, of : Origins]]
  /\ stop \in [Stoppers -> Caps \cup {NoCap}] /\ flash \in [{"live", "once"} -> Origins]
  /\ told \subseteq Caps /\ live \subseteq Caps /\ refused \subseteq Caps
  /\ live = {c \in Caps : At(c, "live")} \ {stop[t] : t \in Stoppers}

(* No recorder outlives what could stop it: a process or a thread that     *)
(* records belongs to a start under way, to the table or to a stop.        *)
RecordersAreHeld ==
  \A c \in Caps :
    (child[c] = "running" \/ worker[c] \in {"opening", "capturing", "exporting", "fetching"})
      => /\ cap[c].pc \notin Ended
         /\ cap[c].tool = "cli" => child[c] # "running"

(* A start over ssh that failed leaves no file in the list of captures,    *)
(* and the command line is driven with no empty file of the stream around. *)
FailedLeavesNoFile ==
  \A c \in Caps : /\ At(c, "failed") /\ cap[c].kind # "local" => file[c] = NoFile
                  /\ cap[c].tool = "cli" => file[c].st # "stub"

(* The state is of its type, every recorder can be stopped, and a start    *)
(* that failed leaves nothing behind.                                      *)
RecordersHeld == CaptureTypeOK /\ RecordersAreHeld /\ FailedLeavesNoFile

(* Two captures over ssh are in the table together only when their starts  *)
(* overlapped: the check and the insertion are two critical sections.      *)
SshAloneUnlessRaced ==
  \A c, d \in live :
    c # d /\ cap[c].kind = "ssh" /\ cap[d].kind = "ssh" => d \in beside[c]

(* The packets that open after Stop are the ones this capture recorded,    *)
(* unless the device refused its command (an older file is then fetched)   *)
(* or another capture was starting or stopping meanwhile; of NX-OS they    *)
(* are of the capture at least.                                            *)
OpenedIsOwn ==
  \A c \in opened :
    beside[c] = {} /\ c \notin refused =>
      /\ file[c].of.by = c
      /\ file[c].of.how = (IF cap[c].kind = "once" \/ (platform = "nxos" /\ cap[c].tool = "cli")
                           THEN "once" ELSE "live")

(* Captures that did not overlap are alone and open their own packets.     *)
CapturesApart == SshAloneUnlessRaced /\ OpenedIsOwn

(* A start comes to an end, but for a recorder of root that does not.      *)
StartsEnd ==
  \A c \in Caps : cap[c].pc \notin (Ended \cup {"live"})
                    ~> (cap[c].pc \in (Ended \cup {"live"}) \/ cap[c].tool = "sudo")

(* A stop comes to an end, but for a recorder of root that does not.       *)
StopsEnd ==
  \A t \in Stoppers : stop[t] # NoCap
                        ~> (stop[t] = NoCap \/ cap[stop[t]].tool = "sudo")

(* Starts and stops come to an end.                                        *)
CapturesEnd == StartsEnd /\ StopsEnd
=============================================================================
