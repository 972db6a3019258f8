----------------------------- MODULE EngineJobs -----------------------------
(***************************************************************************)
(* The model servers the daemon starts, watches, stops and downloads for:  *)
(* llama-server, ollama and vLLM in a container.  Each has one job record  *)
(* behind a mutex; its handlers run side by side, one per connection, and  *)
(* start threads of their own.  The three share no state: a behaviour      *)
(* follows one of them.                                                    *)
(***************************************************************************)
EXTENDS GpuPlan, GgufFiles, TLC

CONSTANTS Callers,   \* connections; each keeps a thread of the runtime busy
          Engines,   \* the engines looked at
          Machines,  \* what the tools say of the cards of this computer
          Pids, NoPid, Nobody,
          Specs,     \* models as a client names them
          HubFiles,  \* [repo -> the files Hugging Face lists for it]
          HubCache,  \* files of the Hugging Face cache of this computer
          Hosts,     \* where a download is sent on to
          StartDisks,\* what Late's own folder holds when the behaviour begins
          VllmIds,   \* ids for vLLM
          MaxCalls, MaxFaults, MaxBirths \* bounds on calls, on faults, on processes

ASSUME EngineAssumption ==
  /\ MaxCalls \in Nat /\ MaxFaults \in Nat /\ MaxBirths \in Nat
  /\ NoPid \notin Pids \cup [pid : Pids, birth : Nat]
  /\ Nobody \notin Callers \cup {"thread"} /\ "thread" \notin Callers

(* Memory and cards are counted.                                           *)
ASSUME CardsAssumption ==
  Machines # {} /\ \A m \in Machines : Probe(m).vram \in Nat /\ Probe(m).count \in Nat

(* Names are texts.  What the user has put in Late's folder are whole GGUF *)
(* files, and the hub lists the repositories that are asked for.           *)
FileNames == [parts : Seq(STRING), ending : STRING]

Places == Seq(STRING) \X FileNames

ASSUME FilesAssumption ==
  /\ NoTag \notin FileNames
  /\ HubCache \subseteq Places
  /\ \A d \in StartDisks :
       /\ IsFiniteSet(DOMAIN d) /\ DOMAIN d \subseteq Places
       /\ \A at \in DOMAIN d : d[at] = [whole |-> TRUE, magic |-> TRUE]
  /\ \A spec \in Specs : ParseHubSpec(spec) # Nothing =>
       FolderOf(spec.repo) \in Seq(STRING) /\ HubFiles[spec.repo] \in Seq(FileNames)

VARIABLES engine, gpu, useAll, \* fixed: the engine, the cards, the setting
          job,      \* the job record, without the texts of errors and progress
          holder,   \* who holds its mutex for longer than a step
          call,     \* [Callers -> the handler: its step and what it holds]
          procs,    \* [Pids -> processes of this computer]
          pidfile,  \* the recorded process
          disk,     \* [<<folder, file>> -> [whole, magic]]: Late's own folder
          leftover, \* places with bytes of a download that was cut off
          fetch,    \* the download thread
          snapshot, \* [VllmIds -> files of the snapshot that have arrived]
          up,       \* [Callers -> the compose thread that caller started]
          box,      \* the container
          births, calls, faults,
          word,     \* history: the last of "start" and "stop" that was called
          excused,  \* history: calls overlapped, or a step failed unseen
          launched  \* history: what the container was started with

vars == <<engine, gpu, useAll, job, holder, call, procs, pidfile, disk, leftover, fetch,
          snapshot, up, box, births, calls, faults, word, excused, launched>>

fixedVars == <<engine, gpu, useAll>>
hostVars == <<procs, pidfile, births>>
fileVars == <<disk, leftover, fetch>>
boxVars == <<snapshot, up, box, launched>>
histVars == <<word, excused>>

NoJob == [starting |-> FALSE, stopping |-> FALSE, downloading |-> FALSE,
          child |-> NoPid]

Idle == [pc |-> "idle", op |-> "none", spec |-> NoTag, pid |-> NoPid]

NoFetch == [pc |-> "none", spec |-> NoTag, at |-> <<>>, whole |-> TRUE, magic |-> TRUE]

Gone == [st |-> "free", birth |-> 0, by |-> "none"]

SnapshotFiles == {"config", "shard1", "shard2"}

EngineInit ==
  /\ engine \in Engines
  /\ gpu \in (IF engine = "vllm" THEN {Probe(m) : m \in Machines}
              ELSE {Probe(CHOOSE m \in Machines : TRUE)})
  /\ useAll \in (IF engine = "vllm" THEN BOOLEAN ELSE {TRUE})
  /\ job = NoJob /\ holder = Nobody
  /\ call = [c \in Callers |-> Idle]
  /\ procs = [p \in Pids |-> Gone] /\ pidfile = NoPid
  /\ disk \in (IF engine = "llama" THEN StartDisks ELSE {<<>>}) /\ leftover = {} /\ fetch = NoFetch
  /\ snapshot = [i \in VllmIds |-> {}]
  /\ up = [c \in Callers |-> [pc |-> "none", spec |-> NoTag]]
  /\ box = "none" /\ launched = NoTag
  /\ births = 0 /\ calls = 0 /\ faults = 0
  /\ word = "none" /\ excused = FALSE

At(c, pc) == call[c].pc = pc

Free == holder = Nobody

Goto(c, pc) == call' = [call EXCEPT ![c].pc = pc]

End(c) == call' = [call EXCEPT ![c] = Idle]

(* A pull that had to start ollama first goes on with the download.        *)
Return(c) == IF call[c].op = "pull" THEN Goto(c, "download") ELSE End(c)

(* An early return that asks for the status while it holds the mutex the   *)
(* status takes: the handler waits for itself.                             *)
ReturnStatusLocked(c) == Goto(c, "hung") /\ holder' = c

InFlight == \E c \in Callers : call[c].pc \in {"spawn", "record", "keep"}

Fault == faults < MaxFaults /\ faults' = faults + 1

Own == DOMAIN disk

(***************************************************************************)
(* Processes.  A child that has exited keeps its pid until it is waited    *)
(* for; the pid of anything else is free again at once.                    *)
(***************************************************************************)
Running(p) == procs[p].st \in {"up", "serving"}

Serving == \E p \in Pids : procs[p].st = "serving"

Exit(p) ==
  procs' = [procs EXCEPT ![p] = IF @.by = "child" THEN [@ EXCEPT !.st = "exited"] ELSE Gone]

(* A mutant of MatchesLive: the pid alone.                                 *)
MatchesPid(rec) == rec # NoPid /\ procs[rec.pid].st # "free"

(* OwnedPid::matches_live_with: the same pid, the same start time and the  *)
(* name of an engine.                                                      *)
MatchesLive(rec) ==
  /\ rec # NoPid
  /\ procs[rec.pid].st # "free"
  /\ procs[rec.pid].birth = rec.birth
  /\ procs[rec.pid].by # "other"

OwnedRunning == MatchesLive(pidfile)

(* The server binds its port, or finds it taken and exits; it may exit at  *)
(* any time, and anyone may start a server or another program.             *)
Bind(p) ==
  /\ procs[p].st = "up"
  /\ IF Serving THEN Exit(p) ELSE procs' = [procs EXCEPT ![p].st = "serving"]
  /\ UNCHANGED <<fixedVars, job, holder, call, pidfile, births, fileVars, boxVars, histVars,
                 calls, faults>>

Quit(p) ==
  /\ Running(p)
  /\ Exit(p)
  /\ UNCHANGED <<fixedVars, job, holder, call, pidfile, births, fileVars, boxVars, histVars,
                 calls, faults>>

Terminated(p) ==
  /\ procs[p].st = "ending"
  /\ Exit(p)
  /\ UNCHANGED <<fixedVars, job, holder, call, pidfile, births, fileVars, boxVars, histVars,
                 calls, faults>>

OthersStart(p) ==
  /\ procs[p].st = "free" /\ births < MaxBirths /\ engine # "vllm"
  /\ births' = births + 1
  /\ \E by \in {"user", "other"} :
       procs' = [procs EXCEPT ![p] = [st |-> "up", birth |-> births + 1, by |-> by]]
  /\ UNCHANGED <<fixedVars, job, holder, call, pidfile, fileVars, boxVars, histVars, calls,
                 faults>>

(***************************************************************************)
(* llama-server and ollama.                                                *)
(***************************************************************************)
Native == engine \in {"llama", "ollama"}

Ask(c, op, spec, pc) ==
  /\ At(c, "idle") /\ calls < MaxCalls
  /\ calls' = calls + 1
  /\ call' = [call EXCEPT ![c] = [Idle EXCEPT !.op = op, !.spec = spec, !.pc = pc]]
  /\ UNCHANGED <<fixedVars, job, holder, hostVars, fileVars, boxVars, histVars, faults>>

(* start_llama_server needs the file; start_ollama_serve leaves a server   *)
(* that answers alone.                                                     *)
CanStart(spec) ==
  IF engine = "llama"
    THEN /\ ParseHubSpec(spec) # Nothing
         /\ ResolveGgufFile(ParseHubSpec(spec), Own, HubCache) # {}
    ELSE ~Serving

AskStart(c) ==
  /\ Native /\ At(c, "idle")
  /\ \E spec \in Specs : CanStart(spec) /\ Ask(c, "start", NoTag, "claim")

Claim(c) ==
  /\ Native /\ At(c, "claim") /\ Free
  /\ IF job.child # NoPid \/ OwnedRunning
       THEN ReturnStatusLocked(c) /\ UNCHANGED <<job, histVars>>
       ELSE /\ job' = [job EXCEPT !.starting = TRUE]
            /\ Goto(c, "spawn")
            /\ word' = "start"
            /\ excused' = (excused \/ InFlight)
            /\ UNCHANGED holder
  /\ UNCHANGED <<fixedVars, hostVars, fileVars, boxVars, calls, faults>>

Spawn(c) ==
  /\ At(c, "spawn") /\ births < MaxBirths
  /\ \E p \in Pids :
       /\ procs[p].st = "free"
       /\ procs' = [procs EXCEPT ![p] = [st |-> "up", birth |-> births + 1, by |-> "child"]]
       /\ call' = [call EXCEPT ![c].pc = "record", ![c].pid = p]
  /\ births' = births + 1
  /\ UNCHANGED <<fixedVars, job, holder, pidfile, fileVars, boxVars, histVars, calls, faults>>

SpawnFails(c) ==
  /\ At(c, "spawn") /\ Free /\ (Fault \/ (births = MaxBirths /\ UNCHANGED faults))
  /\ job' = [job EXCEPT !.starting = FALSE]
  /\ End(c)
  /\ UNCHANGED <<fixedVars, holder, hostVars, fileVars, boxVars, histVars, calls>>

(* write_owned_pid; that it failed is not looked at.                       *)
Record(c) ==
  /\ At(c, "record")
  /\ \/ pidfile' = [pid |-> call[c].pid, birth |-> procs[call[c].pid].birth] /\ UNCHANGED faults
     \/ Fault /\ UNCHANGED pidfile
  /\ Goto(c, "keep")
  /\ UNCHANGED <<fixedVars, job, holder, procs, births, fileVars, boxVars, histVars, calls>>

Keep(c) ==
  /\ At(c, "keep") /\ Free
  /\ job' = [job EXCEPT !.child = call[c].pid, !.starting = TRUE]
  /\ Goto(c, "reap")
  /\ UNCHANGED <<fixedVars, holder, hostVars, fileVars, boxVars, histVars, calls, faults>>

AskStatus(c) == Ask(c, "status", NoTag, "reap")

(* status: a child that has exited is waited for under the mutex; whether  *)
(* the server answers is asked without it, and written down with it.       *)
Reap(c) ==
  /\ Native /\ At(c, "reap") /\ Free
  /\ Goto(c, "probe")
  /\ IF job.child # NoPid /\ procs[job.child].st = "exited"
       THEN /\ procs' = [procs EXCEPT ![job.child] = Gone]
            /\ pidfile' = NoPid
            /\ job' = [job EXCEPT !.child = NoPid, !.starting = @ /\ engine = "llama"]
       ELSE UNCHANGED <<procs, pidfile, job>>
  /\ UNCHANGED <<fixedVars, holder, births, fileVars, boxVars, histVars, calls, faults>>

ProbeServer(c) ==
  /\ At(c, "probe")
  /\ IF Serving THEN Goto(c, "answers") ELSE Return(c)
  /\ UNCHANGED <<fixedVars, job, holder, hostVars, fileVars, boxVars, histVars, calls, faults>>

Answers(c) ==
  /\ At(c, "answers") /\ Free
  /\ job' = [job EXCEPT !.starting = FALSE]
  /\ Return(c)
  /\ UNCHANGED <<fixedVars, holder, hostVars, fileVars, boxVars, histVars, calls, faults>>

(* A mutant of KillOwned: only the child.                                  *)
KillChildOnly(p) == FALSE

(* What a stop signals: the child, which it waits for, and the recorded    *)
(* process if it still is the one recorded.                                *)
KillOwned(p) == MatchesLive(pidfile) /\ pidfile.pid = p /\ Running(p)


Stop(c) ==
  /\ Native /\ At(c, "stop") /\ Free
  /\ job' = [job EXCEPT !.starting = FALSE, !.child = NoPid]
  /\ procs' = [p \in Pids |->
                 IF p = job.child THEN Gone
                 ELSE IF KillOwned(p) THEN [procs[p] EXCEPT !.st = "ending"] ELSE procs[p]]
  /\ pidfile' = NoPid
  /\ word' = "stop"
  /\ excused' = (excused \/ InFlight)
  /\ Goto(c, "reap")
  /\ UNCHANGED <<fixedVars, holder, births, fileVars, boxVars, calls, faults>>

AskStop(c) == Ask(c, "stop", NoTag, "stop")

(***************************************************************************)
(* Downloads.  One thread per job; a broken one leaves a ".part" behind.   *)
(***************************************************************************)
AskDownload(c) ==
  \/ \E spec \in Specs :
       /\ engine = "llama" /\ ParseHubSpec(spec) # Nothing
       /\ Ask(c, "status", ParseHubSpec(spec), "download")
  \/ /\ engine = "ollama" /\ \E spec \in Specs : OllamaPullName(spec) # Nothing
     /\ Ask(c, "pull", NoTag, IF Serving THEN "download" ELSE "claim")
  \/ \E id \in VllmIds :
       engine = "vllm" /\ AllowIntelXpuCompose(gpu) /\ Ask(c, "status", id, "download")

Download(c) ==
  /\ At(c, "download") /\ Free
  /\ IF job.downloading
       THEN ReturnStatusLocked(c) /\ UNCHANGED <<job, fetch, faults>>
       ELSE \/ /\ job' = [job EXCEPT !.downloading = TRUE]
               /\ fetch' = [NoFetch EXCEPT !.pc = "list", !.spec = call[c].spec]
               /\ call' = [call EXCEPT ![c].pc = "reap", ![c].op = "status"]
               /\ UNCHANGED <<holder, faults>>
            \/ /\ Fault  \* no thread: the vLLM job is not set back
               /\ job' = [job EXCEPT !.downloading = (engine = "vllm")]
               /\ End(c)
               /\ UNCHANGED <<fetch, holder>>
  /\ UNCHANGED <<fixedVars, hostVars, disk, leftover, boxVars, histVars, calls>>

FetchFrame == UNCHANGED <<fixedVars, holder, call, hostVars, up, box, launched, histVars, calls>>

FetchTo(pc) == fetch' = [fetch EXCEPT !.pc = pc]

FetchFails(step) ==
  /\ fetch.pc = step /\ Fault
  /\ FetchTo("failed")
  /\ UNCHANGED <<job, disk, leftover, snapshot>> /\ FetchFrame

(* List, pick, and take what is on the disk already if it is a GGUF.       *)
FetchList ==
  /\ engine = "llama" /\ fetch.pc = "list"
  /\ LET pick == PickGgufFile(HubFiles[fetch.spec.repo], fetch.spec.tag)
         at == <<FolderOf(fetch.spec.repo), pick>>
     IN  IF pick = Nothing THEN FetchTo("failed")
         ELSE IF ~SafeGgufName(pick) THEN FetchTo("failed")
         ELSE fetch' = [fetch EXCEPT !.at = at,
                          !.pc = IF at \notin Own THEN "get"
                                 ELSE IF disk[at].magic THEN "done" ELSE "failed"]
  /\ UNCHANGED <<job, disk, leftover, snapshot, faults>> /\ FetchFrame

(* The request is sent on from host to host, and only within the hub.      *)
FetchGet ==
  /\ fetch.pc = "get"
  /\ \E host \in Hosts : FetchTo(IF HfRedirect(1, host) THEN "open" ELSE "failed")
  /\ UNCHANGED <<job, disk, leftover, snapshot, faults>> /\ FetchFrame

(* A mutant of OpenPart: it goes on with what is there.                    *)
AppendPart(at) == at \notin leftover

(* The ".part" is opened truncated: what it will hold is this download.    *)
OpenPart(at) == TRUE

FetchOpen ==
  /\ fetch.pc = "open"
  /\ fetch' = [fetch EXCEPT !.pc = "bytes", !.whole = OpenPart(fetch.at)]
  /\ leftover' = leftover \cup {fetch.at}
  /\ UNCHANGED <<job, disk, snapshot, faults>> /\ FetchFrame

(* The body ends, or it breaks off or grows past 80 GB (the part is        *)
(* removed), or the disk refuses a write (the part stays).  What comes     *)
(* need not be a GGUF.                                                     *)
FetchBytes ==
  /\ fetch.pc = "bytes"
  /\ \/ /\ \E magic \in BOOLEAN :
              fetch' = [fetch EXCEPT !.pc = "rename", !.magic = magic]
        /\ UNCHANGED <<leftover, faults>>
     \/ Fault /\ FetchTo("failed") /\ leftover' = leftover \ {fetch.at}
     \/ Fault /\ FetchTo("failed") /\ UNCHANGED leftover
  /\ UNCHANGED <<job, disk, snapshot>> /\ FetchFrame

FetchRename ==
  /\ fetch.pc = "rename"
  /\ disk' = [at \in Own \cup {fetch.at} |->
                IF at = fetch.at THEN [whole |-> fetch.whole, magic |-> fetch.magic]
                ELSE disk[at]]
  /\ leftover' = leftover \ {fetch.at}
  /\ FetchTo("verify")
  /\ UNCHANGED <<job, snapshot, faults>> /\ FetchFrame

(* A mutant of FetchVerify: it leaves the file where it is.                *)
VerifyKeeps ==
  /\ fetch.pc = "verify"
  /\ FetchTo(IF fetch.magic THEN "done" ELSE "failed")
  /\ UNCHANGED <<job, disk, leftover, snapshot, faults>> /\ FetchFrame

FetchVerify ==
  /\ fetch.pc = "verify"
  /\ IF fetch.magic THEN FetchTo("done") /\ UNCHANGED disk
     ELSE FetchTo("failed") /\ disk' = [a \in Own \ {fetch.at} |-> disk[a]]
  /\ UNCHANGED <<job, leftover, snapshot, faults>> /\ FetchFrame

(* ollama pulls by itself; a stream that just ends is a success.           *)
FetchPull ==
  /\ engine = "ollama" /\ fetch.pc = "list"
  /\ FetchTo("done")
  /\ UNCHANGED <<job, disk, leftover, snapshot, faults>> /\ FetchFrame

(* hf in a container: the files of the snapshot arrive one by one.         *)
FetchSnapshot ==
  /\ engine = "vllm" /\ fetch.pc = "list"
  /\ \/ \E f \in SnapshotFiles \ snapshot[fetch.spec] :
           snapshot' = [snapshot EXCEPT ![fetch.spec] = @ \cup {f}] /\ UNCHANGED fetch
     \/ snapshot[fetch.spec] = SnapshotFiles /\ FetchTo("done") /\ UNCHANGED snapshot
  /\ UNCHANGED <<job, disk, leftover, faults>> /\ FetchFrame

(* The thread gives the job back, well or badly.                           *)
FetchEnd ==
  /\ fetch.pc \in {"done", "failed"} /\ Free
  /\ job' = [job EXCEPT !.downloading = FALSE]
  /\ FetchTo(IF fetch.pc = "done" THEN "ended" ELSE "none")
  /\ UNCHANGED <<disk, leftover, snapshot, faults>> /\ FetchFrame

Fetch == \/ FetchList \/ FetchGet \/ FetchOpen \/ FetchBytes \/ FetchRename \/ FetchVerify
         \/ FetchPull \/ FetchSnapshot \/ FetchEnd
         \/ \E step \in {"list", "get", "open", "rename"} : FetchFails(step)

(***************************************************************************)
(* vLLM.  Threads run docker compose; the one that started the container   *)
(* waits 8 seconds for a crash with the mutex in its hands.                *)
(***************************************************************************)
Snapshot(id) == IF id \in VllmIds THEN snapshot[id] ELSE {}

SnapshotComplete(files) == "config" \in files /\ files \cap {"shard1", "shard2"} # {}

RequireCompleteModel(id) ==
  (Snapshot(id) # {} \/ EstimateWeightGb(id) # {}) => SnapshotComplete(Snapshot(id))

(* A client names a model, or leaves it to the daemon.                     *)
AskStartVllm(c) ==
  /\ engine = "vllm" /\ up[c].pc = "none" /\ At(c, "idle") /\ calls < MaxCalls
  /\ AllowIntelXpuCompose(gpu)
  /\ \E id \in VllmIds \cup
            {PickDefaultModel(gpu, {i \in VllmIds : SnapshotComplete(snapshot[i])})} :
    /\ Fits(id, ServingProfile(gpu, useAll))
    /\ RequireCompleteModel(id)
    /\ Ask(c, "start", id, "claimbox")

ThreadTo(c, pc, id) == up' = [up EXCEPT ![c] = [pc |-> pc, spec |-> id]]

BoxFrame == UNCHANGED <<fixedVars, hostVars, fileVars, snapshot, calls>>

ClaimBox(c) ==
  /\ At(c, "claimbox") /\ Free
  /\ IF job.starting
       THEN ReturnStatusLocked(c) /\ UNCHANGED <<job, up, faults, histVars>>
       ELSE /\ job' = [job EXCEPT !.starting = TRUE, !.stopping = FALSE]
            /\ word' = "start"
            /\ \/ ThreadTo(c, "up", call[c].spec) /\ Goto(c, "read") /\ UNCHANGED faults
               \/ Fault /\ End(c) /\ UNCHANGED up   \* no thread: starting stays
            /\ excused' = (excused \/ \E o \in Callers : up[o].pc = "down")
            /\ UNCHANGED holder
  /\ UNCHANGED <<box, launched>> /\ BoxFrame

(* docker compose up -d --force-recreate.                                  *)
UpRuns(c) ==
  /\ up[c].pc = "up"
  /\ \/ /\ box' = "running"
        /\ launched' = [id |-> up[c].spec, tp |-> LaunchPlan(gpu, useAll).tp,
                        files |-> Snapshot(up[c].spec)]
        /\ ThreadTo(c, "ran", up[c].spec)
        /\ UNCHANGED faults
     \/ Fault /\ ThreadTo(c, "failed", up[c].spec) /\ UNCHANGED <<box, launched>>
  /\ UNCHANGED <<job, holder, call, histVars>> /\ BoxFrame

UpPosts(c) ==
  /\ up[c].pc \in {"ran", "failed"} /\ Free
  /\ job' = [job EXCEPT !.starting = FALSE]
  /\ IF up[c].pc = "ran" THEN holder' = "thread" /\ ThreadTo(c, "settle", up[c].spec)
     ELSE ThreadTo(c, "none", NoTag) /\ UNCHANGED holder
  /\ UNCHANGED <<box, launched, call, histVars, faults>> /\ BoxFrame

(* A mutant of UpSettles: the mutex is not given back.                     *)
UpSettlesKeeping(c) ==
  /\ up[c].pc = "settle"
  /\ ThreadTo(c, "none", NoTag)
  /\ UNCHANGED <<job, holder, box, launched, call, histVars, faults>> /\ BoxFrame

UpSettles(c) ==
  /\ up[c].pc = "settle"
  /\ holder' = Nobody
  /\ ThreadTo(c, "none", NoTag)
  /\ UNCHANGED <<job, box, launched, call, histVars, faults>> /\ BoxFrame

AskStopVllm(c) ==
  engine = "vllm" /\ up[c].pc = "none" /\ Ask(c, "stop", NoTag, "stopbox")

StopBox(c) ==
  /\ At(c, "stopbox") /\ Free
  /\ job' = [job EXCEPT !.stopping = TRUE, !.starting = FALSE]
  /\ \/ ThreadTo(c, "down", NoTag) /\ Goto(c, "read") /\ UNCHANGED faults
        /\ excused' = (excused \/ \E o \in Callers : up[o].pc = "up")
     \/ Fault /\ End(c) /\ UNCHANGED up /\ excused' = TRUE  \* no thread: stopping stays
  /\ word' = "stop"
  /\ UNCHANGED <<box, launched, holder>> /\ BoxFrame

(* A mutant of DownRuns: the container is stopped but comes back.          *)
DownStopsOnly(c) ==
  /\ up[c].pc = "down"
  /\ ThreadTo(c, "downed", NoTag)
  /\ UNCHANGED <<box, faults, excused, job, holder, call, word, launched>> /\ BoxFrame

(* docker compose down; that it failed is not looked at.                   *)
DownRuns(c) ==
  /\ up[c].pc = "down"
  /\ \/ box' = "none" /\ UNCHANGED <<faults, excused>>
     \/ Fault /\ excused' = TRUE /\ UNCHANGED box
  /\ ThreadTo(c, "downed", NoTag)
  /\ UNCHANGED <<job, holder, call, word, launched>> /\ BoxFrame

DownPosts(c) ==
  /\ up[c].pc = "downed" /\ Free
  /\ job' = [job EXCEPT !.stopping = FALSE]
  /\ ThreadTo(c, "none", NoTag)
  /\ UNCHANGED <<box, launched, holder, call, histVars, faults>> /\ BoxFrame

(* status_with takes the mutex once, to read.                              *)
ReadBox(c) ==
  /\ engine = "vllm" /\ (At(c, "read") \/ At(c, "reap")) /\ Free
  /\ End(c)
  /\ UNCHANGED <<job, up, box, launched, holder, histVars, faults>> /\ BoxFrame

BoxExits ==
  /\ box = "running" /\ Fault
  /\ box' = "exited"
  /\ UNCHANGED <<job, up, launched, holder, call, histVars>> /\ BoxFrame

(***************************************************************************)
(* The daemon stops and starts again: its servers go on without it.        *)
(***************************************************************************)
Unrecorded == job.child # NoPid /\ ~(MatchesLive(pidfile) /\ pidfile.pid = job.child)

Restart ==
  /\ Fault
  /\ job' = NoJob /\ holder' = Nobody
  /\ call' = [c \in Callers |-> Idle]
  /\ procs' = [p \in Pids |->
                 IF procs[p].st = "exited" THEN Gone
                 ELSE IF procs[p].by = "child" THEN [procs[p] EXCEPT !.by = "orphan"]
                 ELSE procs[p]]
  /\ fetch' = NoFetch
  /\ up' = [c \in Callers |-> [pc |-> "none", spec |-> NoTag]]
  /\ box' \in {box} \cup {"running" : c \in {x \in Callers : up[x].pc = "up"}}
  /\ excused' = (excused \/ InFlight \/ Unrecorded \/ \E c \in Callers : up[c].pc # "none")
  /\ UNCHANGED <<fixedVars, pidfile, births, disk, leftover, snapshot, launched, word, calls>>

HandlerStep(c) ==
  \/ Claim(c) \/ Spawn(c) \/ SpawnFails(c) \/ Record(c) \/ Keep(c)
  \/ Reap(c) \/ ProbeServer(c) \/ Answers(c) \/ Stop(c) \/ Download(c)
  \/ ClaimBox(c) \/ StopBox(c) \/ ReadBox(c)

ThreadStep(c) == UpRuns(c) \/ UpPosts(c) \/ UpSettles(c) \/ DownRuns(c) \/ DownPosts(c)

EngineNext ==
  \/ \E c \in Callers :
       \/ AskStart(c) \/ AskStatus(c) \/ AskStop(c) \/ AskDownload(c)
       \/ AskStartVllm(c) \/ AskStopVllm(c)
       \/ HandlerStep(c) \/ ThreadStep(c)
  \/ \E p \in Pids : Bind(p) \/ Quit(p) \/ Terminated(p) \/ OthersStart(p)
  \/ Fetch \/ BoxExits \/ Restart

EngineSpec == EngineInit /\ [][EngineNext]_vars

(***************************************************************************)
(* Properties.                                                             *)
(***************************************************************************)
(* Every place holds what its name says, and the mutex is only kept over a *)
(* step by a handler that hangs or by a thread that waits for the          *)
(* container.                                                              *)
EngineTypeOK ==
  /\ engine \in Engines
  /\ job.child \in Pids \cup {NoPid}
  /\ procs \in [Pids -> [st : {"free", "up", "serving", "exited", "ending"},
                         birth : 0..MaxBirths,
                         by : {"none", "child", "orphan", "user", "other"}]]
  /\ holder \in Callers \cup {Nobody, "thread"}
  /\ holder \in Callers => At(holder, "hung")
  /\ holder = "thread" <=> \E c \in Callers : up[c].pc = "settle"
  /\ box \in {"none", "running", "exited"}
  /\ snapshot \in [VllmIds -> SUBSET SnapshotFiles]

(* A stop signals nothing but a server Late started: the recorded pid may  *)
(* belong to another program by then, or to a server the user runs.        *)
KillsOnlyOwn ==
  \A p \in Pids : procs[p].st = "ending" => procs[p].by \in {"child", "orphan"}

(* A server Late started can be found again, as the child, in the pid file *)
(* or by the handler that is about to write it down; one gets out of reach *)
(* only where calls overlap, a pid is not written, or the daemon dies      *)
(* before it is.                                                           *)
NoneEscapes ==
  \A p \in Pids :
    Running(p) /\ procs[p].by \in {"child", "orphan"} =>
      \/ job.child = p
      \/ pidfile # NoPid /\ pidfile.pid = p /\ pidfile.birth = procs[p].birth
      \/ \E c \in Callers : call[c].pid = p /\ call[c].pc \in {"record", "keep"}
      \/ excused

(* When the last word was Stop and no thread is at work, the container is  *)
(* down, unless a start was in compose while it was stopped, or docker     *)
(* failed.                                                                 *)
StoppedStaysDown ==
  engine = "vllm" /\ word = "stop" /\ (\A c \in Callers : up[c].pc = "none") =>
    box # "running" \/ excused

(* The servers Late started, and no others, are within reach of Stop, and  *)
(* Stop holds.                                                             *)
ServersOwned == EngineTypeOK /\ KillsOnlyOwn /\ NoneEscapes /\ StoppedStaysDown

(* A file a start may take has every byte of its download: what a broken   *)
(* download left is never part of a later one.                             *)
OnDiskIsWhole == \A at \in Own : disk[at].whole

(* A file that is not a GGUF is on the disk only until the download that   *)
(* brought it has looked, or for good if the daemon dies in between.       *)
NoForeignFile ==
  \A at \in Own : disk[at].magic \/ fetch.at = at \/ faults > 0

(* What a finished download brought is among what a start of the same name *)
(* takes, unless the name says no file and the user has put one in the     *)
(* folder that the repository does not list.                               *)
StartFindsDownload ==
  engine = "llama" /\ fetch.pc = "ended" =>
    \/ fetch.at[2] \in ResolveGgufFile(fetch.spec, Own, HubCache)
    \/ /\ fetch.spec.tag = NoTag
       /\ \E at \in Own :
            at[1] = fetch.at[1] /\ at[2] \notin ToSet(HubFiles[fetch.spec.repo])

(* What the list of models shows as on the disk can be started, and a file *)
(* of Late's own folder that is shown by its name is one a start may take, *)
(* as long as no "--" is in the names.  A file of the hub's cache cannot,  *)
(* once Late's own folder has several of its repository.                   *)
ListedCanStart ==
  /\ \A e \in ScanGgufDir(Own) :
       Len(e.repo) = 2 =>
         LET found == ResolveGgufFile([repo |-> e.repo, tag |-> e.tag], Own, HubCache)
         IN  found # {} /\ (e.tag # NoTag => e.tag \in found)
  /\ \A e \in ScanHfGgufCache(HubCache) :
       Len(e.repo) = 2 =>
         \/ ResolveGgufFile([repo |-> e.repo, tag |-> e.tag], Own, HubCache) # {}
         \/ Cardinality({at \in Own : at[1] = FolderOf(e.repo) /\ Servable(at[2])}) > 1

(* Files on the disk are whole GGUF files, and download, list and start    *)
(* mean the same file by the same name.                                    *)
DownloadsWhole == OnDiskIsWhole /\ NoForeignFile /\ StartFindsDownload /\ ListedCanStart

(* A model of the library that the container was started with fits the     *)
(* cards it was given.                                                     *)
LaunchFits ==
  launched # NoTag =>
    \A gb \in EstimateWeightGb(launched.id) : gb <= gpu.vram * launched.tp

(* llama-server is never told to spread over more cards than it may see.   *)
SplitSeesCards ==
  LlamaGpuEnv(gpu, useAll) > 0 => LlamaGpuArgs(gpu, useAll) <= LlamaGpuEnv(gpu, useAll)

(* An engine is started on cards that it may see and that can hold it.     *)
LaunchSound == LaunchFits /\ SplitSeesCards

(* inference.rs: "Docker compose runs on a background thread so serial/SSH *)
(* stay live."  While a thread of the runtime is left, they do.            *)
Blocked(c) ==
  At(c, "hung") \/ (holder \in Callers /\ call[c].pc \in {"claimbox", "stopbox", "read", "reap",
                                                          "download", "claim", "stop"})

SerialStaysLive == \E c \in Callers : ~Blocked(c)
=============================================================================
