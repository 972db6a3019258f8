-------------------------- MODULE EngineJobsProofs --------------------------
(***************************************************************************)
(* Theorems about EngineJobs, for any connections, processes, machines,    *)
(* repositories and models.                                                *)
(*                                                                         *)
(* A start that met no other call finds nothing of Late's running and is   *)
(* the only one to start something, so that what it starts is in its hands *)
(* until it is the recorded child.  A model is looked at before the call   *)
(* that starts it, and what calls and threads carry is what was looked at. *)
(* A file that is not a GGUF is on the disk only between the rename and    *)
(* the look of its download.                                               *)
(***************************************************************************)
EXTENDS EngineJobs, FiniteSetTheorems, SequenceTheorems, WellFoundedInduction, TLAPS

Flight == {"spawn", "record", "keep"}
Holding == {"record", "keep"}

(***************************************************************************)
(* The invariant.                                                          *)
(***************************************************************************)
CallShape(r) == r = [pc |-> r.pc, op |-> r.op, spec |-> r.spec, pid |-> r.pid]
UpShape(r) == r = [pc |-> r.pc, spec |-> r.spec]
Process(r) ==
  /\ r = [st |-> r.st, birth |-> r.birth, by |-> r.by]
  /\ r.st \in {"free", "up", "serving", "exited", "ending"}
  /\ r.by \in {"none", "child", "orphan", "user", "other"}
  /\ r.birth \in 0..births
  /\ r.st = "exited" => r.by = "child"

Shapes ==
  /\ DOMAIN call = Callers /\ \A c \in Callers : CallShape(call[c])
  /\ DOMAIN up = Callers /\ \A c \in Callers : UpShape(up[c])
  /\ job = [starting |-> job.starting, stopping |-> job.stopping,
            downloading |-> job.downloading, child |-> job.child]
  /\ fetch = [pc |-> fetch.pc, spec |-> fetch.spec, at |-> fetch.at, whole |-> fetch.whole,
              magic |-> fetch.magic]
  /\ engine \in Engines
  /\ births \in 0..MaxBirths /\ faults \in Nat
  /\ box \in {"none", "running", "exited"}
  /\ snapshot \in [VllmIds -> SUBSET SnapshotFiles]
  /\ procs = [p \in Pids |-> procs[p]]

\* Over a step the mutex is kept by one that hangs or one that settles.
HolderInv ==
  /\ holder \in Callers \cup {Nobody, "thread"}
  /\ holder \in Callers => At(holder, "hung")
  /\ holder = "thread" <=> \E c \in Callers : up[c].pc = "settle"
  /\ \A c, d \in Callers : up[c].pc = "settle" /\ up[d].pc = "settle" => c = d

\* The child and what a start has in its hands are different children.
PidsInv ==
  /\ DOMAIN procs = Pids /\ \A p \in Pids : Process(procs[p])
  /\ job.child \in Pids \cup {NoPid}
  /\ job.child # NoPid => procs[job.child].st # "free" /\ procs[job.child].by = "child"
  /\ \A c \in Callers : call[c].pc \in Holding =>
       /\ call[c].pid \in Pids /\ call[c].pid # job.child
       /\ procs[call[c].pid].st # "free" /\ procs[call[c].pid].by = "child"
       /\ \A d \in Callers : call[d].pc \in Holding /\ call[d].pid = call[c].pid => d = c

\* A process the pid file means is one that Late started.
RecordInv ==
  pidfile # NoPid =>
    /\ pidfile \in [pid : Pids, birth : 0..births]
    /\ LET proc == procs[pidfile.pid]
       IN  proc.st # "free" /\ proc.birth = pidfile.birth => proc.by \in {"child", "orphan"}

\* A server of Late's runs.
Ours(p) == Running(p) /\ procs[p].by \in {"child", "orphan"}

\* Where no calls overlapped, at most one start is under way, and then
\* nothing of Late's runs but what it has in its hands.
AloneInv ==
  ~excused =>
    /\ \A c, d \in Callers : call[c].pc \in Flight /\ call[d].pc \in Flight => c = d
    /\ \A c \in Callers : call[c].pc \in Flight =>
         /\ job.child = NoPid
         /\ \A p \in Pids : Ours(p) => call[c].pc \in Holding /\ call[c].pid = p
    /\ job.child # NoPid => \A p \in Pids : Ours(p) => p = job.child

ServerInv == PidsInv /\ RecordInv /\ KillsOnlyOwn /\ AloneInv /\ NoneEscapes

\* After a stop no thread starts the container, and one stops it.
DownInv ==
  ~excused /\ engine = "vllm" /\ word = "stop" =>
    /\ \A c \in Callers : up[c].pc # "up"
    /\ box = "running" => \E c \in Callers : up[c].pc = "down"

IInv == Shapes /\ HolderInv /\ ServerInv /\ DownInv

---------------------------------------------------------------------------
(* A call that begins.                                                     *)
Begins(c) ==
  /\ At(c, "idle")
  /\ \E op, spec : \E pc \in {"claim", "reap", "stop", "download", "claimbox", "stopbox"} :
       call' = [call EXCEPT ![c] = [pc |-> pc, op |-> op, spec |-> spec, pid |-> NoPid]]
  /\ UNCHANGED <<fixedVars, job, holder, hostVars, fileVars, boxVars, histVars, faults>>

Asks(c) == AskStart(c) \/ AskStatus(c) \/ AskStop(c) \/ AskDownload(c)
           \/ AskStartVllm(c) \/ AskStopVllm(c)

LEMMA NewCall ==
  ASSUME NEW op, NEW spec, NEW pc
  PROVE  [Idle EXCEPT !.op = op, !.spec = spec, !.pc = pc]
         = [pc |-> pc, op |-> op, spec |-> spec, pid |-> NoPid]
<1>1. PICK q : q = [Idle EXCEPT !.op = op]
  OBVIOUS
<1>2. q = [pc |-> "idle", op |-> op, spec |-> NoTag, pid |-> NoPid]
  BY <1>1 DEF Idle
<1>3. PICK r : r = [q EXCEPT !.spec = spec]
  OBVIOUS
<1>4. r = [pc |-> "idle", op |-> op, spec |-> spec, pid |-> NoPid]
  BY <1>2, <1>3
<1>5. [r EXCEPT !.pc = pc] = [pc |-> pc, op |-> op, spec |-> spec, pid |-> NoPid]
  BY <1>4
<1> QED BY <1>1, <1>3, <1>5

LEMMA AsksBegin ==
  ASSUME NEW c \in Callers, Asks(c) PROVE Begins(c)
<1>1. ASSUME NEW op, NEW spec, NEW pc, Ask(c, op, spec, pc),
             pc \in {"claim", "reap", "stop", "download", "claimbox", "stopbox"}
      PROVE  Begins(c)
  <2>1. PICK r : r = [Idle EXCEPT !.op = op, !.spec = spec, !.pc = pc]
    OBVIOUS
  <2>2. call' = [call EXCEPT ![c] = r]
    BY <1>1, <2>1 DEF Ask
  <2>3. r = [pc |-> pc, op |-> op, spec |-> spec, pid |-> NoPid]
    BY <2>1, NewCall
  <2>4. call' = [call EXCEPT ![c] = [pc |-> pc, op |-> op, spec |-> spec, pid |-> NoPid]]
    BY <2>2, <2>3
  <2>5. /\ At(c, "idle")
        /\ UNCHANGED <<fixedVars, job, holder, hostVars, fileVars, boxVars, histVars, faults>>
    BY <1>1 DEF Ask
  <2> QED BY <1>1, <2>4, <2>5, Zenon DEF Begins
<1>2. CASE AskStart(c)
  BY <1>1, <1>2 DEF AskStart
<1>3. CASE AskStatus(c)
  BY <1>1, <1>3 DEF AskStatus
<1>4. CASE AskStop(c)
  BY <1>1, <1>4 DEF AskStop
<1>5. CASE AskDownload(c)
  <2>1. ASSUME NEW spec, Ask(c, "pull", spec, IF Serving THEN "download" ELSE "claim")
        PROVE  Begins(c)
    BY <1>1, <2>1
  <2> QED BY <1>1, <1>5, <2>1 DEF AskDownload
<1>6. CASE AskStartVllm(c)
  BY <1>1, <1>6 DEF AskStartVllm
<1>7. CASE AskStopVllm(c)
  BY <1>1, <1>7 DEF AskStopVllm
<1> QED BY <1>2, <1>3, <1>4, <1>5, <1>6, <1>7 DEF Asks

---------------------------------------------------------------------------
(* Shapes.                                                                 *)

LEMMA InitShapes == EngineInit => Shapes
BY EngineAssumption DEF EngineInit, Shapes, CallShape, UpShape, Idle, NoJob, NoFetch

\* A handler moves its own call.
Moves(c) == /\ DOMAIN call' = Callers /\ CallShape(call'[c])
            /\ \A d \in Callers \ {c} : call'[d] = call[d]

LEMMA HandlerMoves ==
  ASSUME NEW c \in Callers, Shapes, HandlerStep(c) PROVE Moves(c)
<1> USE DEF Goto, End, Return, ReturnStatusLocked, Moves, Shapes, CallShape, Idle
<1>1. CASE Claim(c)
  BY <1>1 DEF Claim
<1>2. CASE Spawn(c)
  BY ZenonT(60), <1>2 DEF Spawn
<1>3. CASE SpawnFails(c)
  BY <1>3 DEF SpawnFails
<1>4. CASE Record(c)
  BY <1>4 DEF Record
<1>5. CASE Keep(c)
  BY <1>5 DEF Keep
<1>6. CASE Reap(c)
  BY <1>6 DEF Reap
<1>7. CASE ProbeServer(c)
  BY <1>7 DEF ProbeServer
<1>8. CASE Answers(c)
  BY <1>8 DEF Answers
<1>9. CASE Stop(c)
  BY <1>9 DEF Stop
<1>10. CASE Download(c)
  BY <1>10 DEF Download
<1>11. CASE ClaimBox(c)
  BY <1>11 DEF ClaimBox
<1>12. CASE StopBox(c)
  BY <1>12 DEF StopBox
<1>13. CASE ReadBox(c)
  BY <1>13 DEF ReadBox
<1> QED BY <1>1, <1>2, <1>3, <1>4, <1>5, <1>6, <1>7, <1>8, <1>9, <1>10, <1>11, <1>12, <1>13 DEF HandlerStep

LEMMA ThreadMoves ==
  ASSUME NEW c \in Callers, Shapes, ThreadStep(c)
  PROVE  /\ DOMAIN up' = Callers /\ UpShape(up'[c])
         /\ \A d \in Callers \ {c} : up'[d] = up[d]
         /\ UNCHANGED call
BY DEF ThreadStep, UpRuns, UpPosts, UpSettles, DownRuns, DownPosts, ThreadTo, Shapes, UpShape

LEMMA UpMoves ==
  ASSUME NEW c \in Callers, Shapes, ClaimBox(c) \/ StopBox(c)
  PROVE  /\ DOMAIN up' = Callers /\ UpShape(up'[c])
         /\ \A d \in Callers \ {c} : up'[d] = up[d]
BY DEF ClaimBox, StopBox, ThreadTo, Shapes, UpShape, ReturnStatusLocked

LEMMA BirthsGrow ==
  ASSUME Shapes, [EngineNext]_vars
  PROVE  /\ births' \in births..MaxBirths /\ births' \in 0..MaxBirths
         /\ faults' \in Nat /\ faults' >= faults
         /\ UNCHANGED fixedVars
<1> USE DEF Shapes, Fault, hostVars, fixedVars
<1> SUFFICES ASSUME births \in 0..MaxBirths, MaxBirths \in Nat, faults \in Nat, EngineNext
             PROVE  /\ births' = births \/ (births < MaxBirths /\ births' = births + 1)
                    /\ faults' = faults \/ faults' = faults + 1
                    /\ UNCHANGED fixedVars
  BY EngineAssumption DEF vars
<1>1. ASSUME NEW c \in Callers, Asks(c)
      PROVE  UNCHANGED <<fixedVars, births, faults>>
  BY <1>1, AsksBegin DEF Begins
<1>2. ASSUME NEW c \in Callers, HandlerStep(c)
      PROVE  /\ births' = births \/ (births < MaxBirths /\ births' = births + 1)
             /\ faults' = faults \/ faults' = faults + 1
             /\ UNCHANGED fixedVars
  BY <1>2 DEF HandlerStep, Claim, Spawn, SpawnFails, Record, Keep, Reap, ProbeServer, Answers,
     Stop, Download, ClaimBox, StopBox, ReadBox, BoxFrame
<1>3. ASSUME NEW c \in Callers, ThreadStep(c)
      PROVE  /\ births' = births /\ faults' \in {faults, faults + 1} /\ UNCHANGED fixedVars
  BY <1>3 DEF ThreadStep, UpRuns, UpPosts, UpSettles, DownRuns, DownPosts, BoxFrame
<1>4. ASSUME NEW p \in Pids, Bind(p) \/ Quit(p) \/ Terminated(p) \/ OthersStart(p)
      PROVE  /\ births' = births \/ (births < MaxBirths /\ births' = births + 1)
             /\ UNCHANGED <<fixedVars, faults>>
  BY SMTT(40), <1>4 DEF Bind, Quit, Terminated, OthersStart
<1>5. CASE Fetch
  BY <1>5 DEF Fetch, FetchList, FetchGet, FetchOpen, FetchBytes, FetchRename, FetchVerify,
     FetchPull, FetchSnapshot, FetchEnd, FetchFails, FetchFrame
<1>6. CASE BoxExits \/ Restart
  BY <1>6 DEF BoxExits, Restart, BoxFrame
<1> QED BY <1>1, <1>2, <1>3, <1>4, <1>5, <1>6 DEF EngineNext, Asks

JobShape == job = [starting |-> job.starting, stopping |-> job.stopping,
                   downloading |-> job.downloading, child |-> job.child]
FetchShape == fetch = [pc |-> fetch.pc, spec |-> fetch.spec, at |-> fetch.at,
                       whole |-> fetch.whole, magic |-> fetch.magic]

LEMMA JobKeepsShape ==
  ASSUME JobShape, EngineNext PROVE JobShape'
<1> USE DEF JobShape
<1>1. ASSUME NEW c \in Callers, Asks(c) PROVE JobShape'
  BY <1>1, AsksBegin DEF Begins
<1>2. ASSUME NEW c \in Callers, HandlerStep(c) PROVE JobShape'
  BY <1>2 DEF HandlerStep, Claim, Spawn, SpawnFails, Record, Keep, Reap, ProbeServer, Answers,
     Stop, Download, ClaimBox, StopBox, ReadBox, BoxFrame
<1>3. ASSUME NEW c \in Callers, ThreadStep(c) PROVE JobShape'
  BY <1>3 DEF ThreadStep, UpRuns, UpPosts, UpSettles, DownRuns, DownPosts
<1>4. ASSUME NEW p \in Pids, Bind(p) \/ Quit(p) \/ Terminated(p) \/ OthersStart(p)
      PROVE JobShape'
  BY <1>4 DEF Bind, Quit, Terminated, OthersStart
<1>5. CASE Fetch
  BY <1>5 DEF Fetch, FetchList, FetchGet, FetchOpen, FetchBytes, FetchRename, FetchVerify,
     FetchPull, FetchSnapshot, FetchEnd, FetchFails
<1>6. CASE BoxExits \/ Restart
  BY <1>6 DEF BoxExits, Restart, NoJob
<1> QED BY <1>1, <1>2, <1>3, <1>4, <1>5, <1>6 DEF EngineNext, Asks

LEMMA FetchKeepsShape ==
  ASSUME FetchShape, EngineNext PROVE FetchShape'
<1> USE DEF FetchShape
<1>1. ASSUME NEW c \in Callers, Asks(c) PROVE FetchShape'
  BY <1>1, AsksBegin DEF Begins, fileVars
<1>2. ASSUME NEW c \in Callers, HandlerStep(c) PROVE FetchShape'
  BY <1>2 DEF HandlerStep, Claim, Spawn, SpawnFails, Record, Keep, Reap, ProbeServer, Answers,
     Stop, Download, ClaimBox, StopBox, ReadBox, BoxFrame, fileVars, NoFetch
<1>3. ASSUME NEW c \in Callers, ThreadStep(c) PROVE FetchShape'
  BY <1>3 DEF ThreadStep, UpRuns, UpPosts, UpSettles, DownRuns, DownPosts, BoxFrame, fileVars
<1>4. ASSUME NEW p \in Pids, Bind(p) \/ Quit(p) \/ Terminated(p) \/ OthersStart(p)
      PROVE FetchShape'
  BY <1>4 DEF Bind, Quit, Terminated, OthersStart, fileVars
<1>5. CASE Fetch
  BY <1>5 DEF Fetch, FetchList, FetchGet, FetchOpen, FetchBytes, FetchRename, FetchVerify,
     FetchPull, FetchSnapshot, FetchEnd, FetchFails, FetchTo
<1>6. CASE BoxExits \/ Restart
  BY <1>6 DEF BoxExits, Restart, NoFetch, BoxFrame, fileVars
<1> QED BY <1>1, <1>2, <1>3, <1>4, <1>5, <1>6 DEF EngineNext, Asks

BoxShape == /\ box \in {"none", "running", "exited"}
            /\ snapshot \in [VllmIds -> SUBSET SnapshotFiles]

LEMMA BoxKeepsShape ==
  ASSUME BoxShape, EngineNext PROVE BoxShape'
<1> USE DEF BoxShape
<1>1. ASSUME NEW c \in Callers, Asks(c) PROVE BoxShape'
  BY <1>1, AsksBegin DEF Begins, boxVars
<1>2. ASSUME NEW c \in Callers, HandlerStep(c) PROVE BoxShape'
  BY <1>2 DEF HandlerStep, Claim, Spawn, SpawnFails, Record, Keep, Reap, ProbeServer, Answers,
     Stop, Download, ClaimBox, StopBox, ReadBox, BoxFrame, boxVars
<1>3. ASSUME NEW c \in Callers, ThreadStep(c) PROVE BoxShape'
  BY <1>3 DEF ThreadStep, UpRuns, UpPosts, UpSettles, DownRuns, DownPosts, BoxFrame
<1>4. ASSUME NEW p \in Pids, Bind(p) \/ Quit(p) \/ Terminated(p) \/ OthersStart(p)
      PROVE BoxShape'
  BY SMTT(40), <1>4 DEF Bind, Quit, Terminated, OthersStart, boxVars
<1>5. CASE Fetch
  <2>1. CASE FetchSnapshot
    BY <2>1 DEF FetchSnapshot, FetchFrame
  <2> QED BY <1>5, <2>1 DEF Fetch, FetchList, FetchGet, FetchOpen, FetchBytes, FetchRename,
          FetchVerify, FetchPull, FetchEnd, FetchFails, FetchFrame
<1>6. CASE BoxExits \/ Restart
  BY <1>6 DEF BoxExits, Restart, BoxFrame
<1> QED BY <1>1, <1>2, <1>3, <1>4, <1>5, <1>6 DEF EngineNext, Asks

LEMMA CallsKeepShape ==
  ASSUME Shapes, EngineNext
  PROVE  /\ DOMAIN call' = Callers /\ \A d \in Callers : CallShape(call'[d])
         /\ DOMAIN up' = Callers /\ \A d \in Callers : UpShape(up'[d])
<1> DEFINE Kept == /\ DOMAIN call' = Callers /\ \A d \in Callers : CallShape(call'[d])
                   /\ DOMAIN up' = Callers /\ \A d \in Callers : UpShape(up'[d])
<1>1. ASSUME NEW c \in Callers, Asks(c) PROVE Kept
  <2>1. PICK op, spec, pc : call' = [call EXCEPT ![c] =
                              [pc |-> pc, op |-> op, spec |-> spec, pid |-> NoPid]]
    BY <1>1, AsksBegin DEF Begins
  <2>2. up' = up
    BY <1>1, AsksBegin DEF Begins, boxVars
  <2> QED BY <2>1, <2>2 DEF Shapes, CallShape
<1>2. ASSUME NEW c \in Callers, HandlerStep(c) PROVE Kept
  <2>1. DOMAIN call' = Callers /\ \A d \in Callers : CallShape(call'[d])
    BY <1>2, HandlerMoves DEF Moves, Shapes
  <2>2. CASE ClaimBox(c) \/ StopBox(c)
    BY <2>1, <2>2, UpMoves DEF Shapes
  <2>3. CASE ~(ClaimBox(c) \/ StopBox(c))
    <3> up' = up
      BY <1>2, <2>3 DEF HandlerStep, Claim, Spawn, SpawnFails, Record, Keep, Reap, ProbeServer,
         Answers, Stop, Download, ReadBox, BoxFrame, boxVars
    <3> QED BY <2>1 DEF Shapes
  <2> QED BY <2>2, <2>3
<1>3. ASSUME NEW c \in Callers, ThreadStep(c) PROVE Kept
  BY <1>3, ThreadMoves DEF Shapes
<1>4. ASSUME NEW p \in Pids, Bind(p) \/ Quit(p) \/ Terminated(p) \/ OthersStart(p)
      PROVE Kept
  BY <1>4 DEF Bind, Quit, Terminated, OthersStart, boxVars, Shapes
<1>5. CASE Fetch
  <2> UNCHANGED <<call, up>>
    BY <1>5 DEF Fetch, FetchList, FetchGet, FetchOpen, FetchBytes, FetchRename, FetchVerify,
       FetchPull, FetchSnapshot, FetchEnd, FetchFails, FetchFrame
  <2> QED BY SMTT(40) DEF Shapes
<1>6. CASE BoxExits
  BY <1>6 DEF BoxExits, Shapes
<1>7. CASE Restart
  BY <1>7 DEF Restart, CallShape, UpShape, Idle
<1> QED BY <1>1, <1>2, <1>3, <1>4, <1>5, <1>6, <1>7 DEF EngineNext, Asks

ProcsShape == procs = [p \in Pids |-> procs[p]]

LEMMA ProcsKeepShape ==
  ASSUME ProcsShape, EngineNext PROVE ProcsShape'
<1> USE DEF ProcsShape
<1>0. CASE procs' = procs
  BY <1>0
<1>1. ASSUME NEW c \in Callers, Asks(c) PROVE ProcsShape'
  BY <1>0, <1>1, AsksBegin DEF Begins, hostVars
<1>2. ASSUME NEW c \in Callers, HandlerStep(c) PROVE ProcsShape'
  BY <1>0, <1>2 DEF HandlerStep, Claim, Spawn, SpawnFails, Record, Keep, Reap, ProbeServer,
     Answers, Stop, Download, ClaimBox, StopBox, ReadBox, BoxFrame, hostVars
<1>3. ASSUME NEW c \in Callers, ThreadStep(c) PROVE ProcsShape'
  BY <1>0, <1>3 DEF ThreadStep, UpRuns, UpPosts, UpSettles, DownRuns, DownPosts, BoxFrame,
     hostVars
<1>4. ASSUME NEW p \in Pids, Bind(p) \/ Quit(p) \/ Terminated(p) \/ OthersStart(p)
      PROVE ProcsShape'
  BY SMTT(40), <1>4 DEF Bind, Quit, Terminated, OthersStart, Exit
<1>5. CASE Fetch
  BY <1>0, <1>5 DEF Fetch, FetchList, FetchGet, FetchOpen, FetchBytes, FetchRename, FetchVerify,
     FetchPull, FetchSnapshot, FetchEnd, FetchFails, FetchFrame, hostVars
<1>6. CASE BoxExits \/ Restart
  BY <1>0, <1>6 DEF BoxExits, Restart, BoxFrame, hostVars
<1> QED BY <1>1, <1>2, <1>3, <1>4, <1>5, <1>6 DEF EngineNext, Asks

LEMMA ShapesNext ==
  ASSUME Shapes, [EngineNext]_vars PROVE Shapes'
<1>1. CASE EngineNext
  BY <1>1, BirthsGrow, JobKeepsShape, FetchKeepsShape, BoxKeepsShape, CallsKeepShape, ProcsKeepShape
  DEF Shapes, JobShape, FetchShape, BoxShape, ProcsShape, fixedVars, CallShape, UpShape
<1>2. CASE UNCHANGED vars
  BY <1>2 DEF vars, Shapes, CallShape, UpShape
<1> QED BY <1>1, <1>2

---------------------------------------------------------------------------
(* The mutex.                                                              *)

LEMMA HolderNext ==
  ASSUME Shapes, HolderInv, [EngineNext]_vars PROVE HolderInv'
<1>0. Nobody \notin Callers /\ Nobody # "thread" /\ "thread" \notin Callers
  BY EngineAssumption
<1>1. ASSUME NEW c \in Callers, Asks(c) PROVE HolderInv'
  <2>1. /\ UNCHANGED <<holder, up>> /\ At(c, "idle")
        /\ \A d \in Callers \ {c} : call'[d] = call[d]
    BY <1>1, AsksBegin DEF Begins, boxVars, Shapes
  <2> QED BY <2>1 DEF HolderInv, At
<1>2. ASSUME NEW c \in Callers, HandlerStep(c) PROVE HolderInv'
  <2>1. \A d \in Callers \ {c} : call'[d] = call[d]
    BY <1>2, HandlerMoves DEF Moves
  <2>2. ~At(c, "hung")
    BY <1>2 DEF HandlerStep, Claim, Spawn, SpawnFails, Record, Keep, Reap, ProbeServer, Answers,
       Stop, Download, ClaimBox, StopBox, ReadBox, At
  <2>3. CASE ReturnStatusLocked(c) /\ Free /\ up' = up
    <3>1. At(c, "hung")' /\ holder' = c
      BY <2>3 DEF ReturnStatusLocked, Goto, Shapes, At, CallShape
    <3> QED BY <1>0, <2>3, <3>1 DEF HolderInv, Free
  <2>4. CASE holder' = holder /\ up' = up
    BY <2>1, <2>2, <2>4 DEF HolderInv, At
  <2>5. CASE /\ holder' = holder /\ Free /\ up'[c].pc # "settle"
             /\ \A d \in Callers \ {c} : up'[d] = up[d]
    BY <1>0, <2>1, <2>2, <2>5 DEF HolderInv, At, Free
  <2>6. CASE ClaimBox(c) \/ StopBox(c)
    <3>1. \A d \in Callers \ {c} : up'[d] = up[d]
      BY <2>6, UpMoves
    <3>2. CASE ClaimBox(c) /\ job.starting
      BY <2>3, <3>2 DEF ClaimBox
    <3>3. CASE ~(ClaimBox(c) /\ job.starting)
      <4>1. holder' = holder /\ Free
        BY <2>6, <3>3 DEF ClaimBox, StopBox
      <4>2. up' = up \/ ThreadTo(c, "up", call[c].spec) \/ ThreadTo(c, "down", NoTag)
        BY <2>6, <3>3 DEF ClaimBox, StopBox
      <4>3. up' = up \/ up'[c].pc \in {"up", "down"}
        BY <4>2 DEF ThreadTo, Shapes
      <4> QED BY <2>4, <2>5, <3>1, <4>1, <4>3
    <3> QED BY <3>2, <3>3
  <2>7. CASE ~(ClaimBox(c) \/ StopBox(c))
    BY <1>2, <2>3, <2>4, <2>7 DEF HandlerStep, Claim, Spawn, SpawnFails, Record, Keep, Reap,
       ProbeServer, Answers, Stop, Download, ReadBox, BoxFrame, boxVars
  <2> QED BY <2>6, <2>7
<1>3. ASSUME NEW c \in Callers, ThreadStep(c) PROVE HolderInv'
  <2>1. /\ UNCHANGED call /\ \A d \in Callers \ {c} : up'[d] = up[d]
    BY <1>3, ThreadMoves
  <2>2. CASE UpPosts(c)
    BY <1>0, <2>1, <2>2 DEF UpPosts, ThreadTo, Shapes, UpShape, HolderInv, Free, At
  <2>3. CASE UpSettles(c)
    BY <1>0, <2>1, <2>3 DEF UpSettles, ThreadTo, Shapes, UpShape, HolderInv, At
  <2>4. CASE UpRuns(c) \/ DownRuns(c) \/ DownPosts(c)
    BY SMTT(40), <1>0, <2>1, <2>4 DEF UpRuns, DownRuns, DownPosts, ThreadTo, Shapes, UpShape, HolderInv, At
  <2> QED BY <1>3, <2>2, <2>3, <2>4 DEF ThreadStep
<1>4. ASSUME NEW p \in Pids, Bind(p) \/ Quit(p) \/ Terminated(p) \/ OthersStart(p)
      PROVE HolderInv'
  BY <1>4 DEF Bind, Quit, Terminated, OthersStart, boxVars, HolderInv, At
<1>5. CASE Fetch
  <2> UNCHANGED <<call, up, holder>>
    BY <1>5 DEF Fetch, FetchList, FetchGet, FetchOpen, FetchBytes, FetchRename, FetchVerify,
       FetchPull, FetchSnapshot, FetchEnd, FetchFails, FetchFrame
  <2> QED BY DEF HolderInv, At
<1>6. CASE BoxExits
  BY <1>6 DEF BoxExits, HolderInv, At
<1>7. CASE Restart
  BY <1>0, <1>7 DEF Restart, HolderInv, At
<1>8. CASE UNCHANGED vars
  BY <1>8 DEF vars, HolderInv, At
<1> QED BY <1>1, <1>2, <1>3, <1>4, <1>5, <1>6, <1>7, <1>8 DEF EngineNext, Asks

---------------------------------------------------------------------------
(* Servers.                                                                *)

\* A step that starts, ends and records nothing.
Quiet ==
  /\ UNCHANGED <<procs, pidfile, births>>
  /\ job'.child = job.child
  /\ excused => excused'
  /\ \A c \in Callers :
       /\ call'[c].pc \in Flight \/ call[c].pc \in Flight =>
            call'[c].pc = call[c].pc /\ call'[c].pid = call[c].pid

LEMMA QuietKeeps ==
  ASSUME ServerInv, Quiet PROVE ServerInv'
<1> USE DEF Flight, Holding
<1>1. \A c \in Callers :
        /\ call'[c].pc \in Flight <=> call[c].pc \in Flight
        /\ call'[c].pc \in Holding <=> call[c].pc \in Holding
        /\ call[c].pc \in Holding => call'[c].pid = call[c].pid
  BY DEF Quiet
<1>2. \A p : (Running(p)' <=> Running(p)) /\ (Ours(p)' <=> Ours(p))
  BY DEF Quiet, Running, Ours
<1>3. PidsInv'
  BY <1>1 DEF ServerInv, PidsInv, Quiet, Process
<1>4. RecordInv' /\ KillsOnlyOwn'
  BY DEF ServerInv, RecordInv, KillsOnlyOwn, Quiet
<1>5. AloneInv'
  BY <1>1, <1>2 DEF ServerInv, AloneInv, Quiet
<1>6. NoneEscapes'
  BY <1>1, <1>2 DEF ServerInv, NoneEscapes, Quiet
<1> QED BY <1>3, <1>4, <1>5, <1>6 DEF ServerInv

LEMMA NoPidIsNone == \A p \in Pids : p # NoPid
BY EngineAssumption, Zenon

LEMMA NoPidIsNoRecord == \A p \in Pids, b \in Nat : [pid |-> p, birth |-> b] # NoPid
<1> SUFFICES ASSUME NEW p \in Pids, NEW b \in Nat PROVE [pid |-> p, birth |-> b] # NoPid
  OBVIOUS
<1>1. [pid |-> p, birth |-> b] \in [pid : Pids, birth : Nat]
  OBVIOUS
<1> QED BY <1>1, EngineAssumption, Zenon

LEMMA AsksAreQuiet ==
  ASSUME NEW c \in Callers, Shapes, Asks(c) PROVE Quiet
<1>1. PICK op, spec :
        \E pc \in {"claim", "reap", "stop", "download", "claimbox", "stopbox"} :
          call' = [call EXCEPT ![c] = [pc |-> pc, op |-> op, spec |-> spec, pid |-> NoPid]]
  BY AsksBegin DEF Begins
<1>2. /\ call'[c].pc \notin Flight /\ call[c].pc \notin Flight
      /\ \A d \in Callers \ {c} : call'[d] = call[d]
  BY <1>1, AsksBegin DEF Begins, At, Flight, Shapes
<1> QED BY <1>2, AsksBegin DEF Begins, Quiet, hostVars, histVars

LEMMA HandlersAreQuiet ==
  ASSUME NEW c \in Callers, Shapes,
         \/ ProbeServer(c) \/ Answers(c) \/ Download(c) \/ ClaimBox(c) \/ StopBox(c) \/ ReadBox(c)
  PROVE  Quiet
<1>1. HandlerStep(c)
  BY DEF HandlerStep
<1>2. \A d \in Callers \ {c} : call'[d] = call[d]
  BY <1>1, HandlerMoves DEF Moves
<1>3. call[c].pc \notin Flight
  BY DEF ProbeServer, Answers, Download, ClaimBox, StopBox, ReadBox, At, Flight
<1>4. call'[c].pc \notin Flight
  BY DEF ProbeServer, Answers, Download, ClaimBox, StopBox, ReadBox, Goto, Return, End, Idle,
     ReturnStatusLocked, Flight, Shapes, CallShape
<1>5. UNCHANGED <<procs, pidfile, births>>
  BY DEF ProbeServer, Answers, Download, ClaimBox, StopBox, ReadBox, hostVars, BoxFrame
<1>7. excused => excused'
  BY DEF ProbeServer, Answers, Download, ClaimBox, StopBox, ReadBox, hostVars, histVars, BoxFrame
<1>6. job'.child = job.child
  BY DEF ProbeServer, Answers, Download, ClaimBox, StopBox, ReadBox, Shapes
<1> QED BY <1>2, <1>3, <1>4, <1>5, <1>6, <1>7 DEF Quiet

LEMMA OthersAreQuiet ==
  ASSUME Shapes, \/ Fetch \/ BoxExits \/ UNCHANGED vars
                 \/ \E c \in Callers : ThreadStep(c)
  PROVE  Quiet
<1>1. UNCHANGED <<procs, pidfile, births>>
  BY ZenonT(60) DEF Fetch, FetchList, FetchGet, FetchOpen, FetchBytes, FetchRename, FetchVerify, FetchPull,
     FetchSnapshot, FetchEnd, FetchFails, FetchFrame, BoxExits, BoxFrame, hostVars,
     vars, ThreadStep, UpRuns, UpPosts, UpSettles, DownRuns, DownPosts
<1>4. excused => excused'
  BY ZenonT(60) DEF Fetch, FetchList, FetchGet, FetchOpen, FetchBytes, FetchRename, FetchVerify, FetchPull,
     FetchSnapshot, FetchEnd, FetchFails, FetchFrame, BoxExits, histVars,
     vars, ThreadStep, UpRuns, UpPosts, UpSettles, DownRuns, DownPosts
<1>2. UNCHANGED call
  BY ZenonT(60) DEF Fetch, FetchList, FetchGet, FetchOpen, FetchBytes, FetchRename, FetchVerify, FetchPull,
     FetchSnapshot, FetchEnd, FetchFails, FetchFrame, BoxExits, vars, ThreadStep, UpRuns,
     UpPosts, UpSettles, DownRuns, DownPosts
<1>3. job'.child = job.child
  BY DEF Fetch, FetchList, FetchGet, FetchOpen, FetchBytes, FetchRename, FetchVerify, FetchPull,
     FetchSnapshot, FetchEnd, FetchFails, BoxExits, vars, ThreadStep, UpRuns, UpPosts,
     UpSettles, DownRuns, DownPosts, Shapes
<1> QED BY <1>1, <1>2, <1>3, <1>4 DEF Quiet

LEMMA ClaimKeeps ==
  ASSUME NEW c \in Callers, Shapes, ServerInv, Claim(c) PROVE ServerInv'
<1>1. /\ UNCHANGED <<procs, pidfile, births>> /\ At(c, "claim")
      /\ \A d \in Callers \ {c} : call'[d] = call[d]
  <2> HandlerStep(c)
    BY DEF HandlerStep
  <2> QED BY HandlerMoves DEF Claim, hostVars, Moves
<1>2. CASE job.child # NoPid \/ OwnedRunning
  <2>1. call'[c].pc = "hung" /\ job' = job /\ excused' = excused
    BY <1>2 DEF Claim, ReturnStatusLocked, Goto, histVars, Shapes, CallShape
  <2> Quiet
    BY <1>1, <2>1 DEF Quiet, Flight, At
  <2> QED BY QuietKeeps
<1>3. CASE ~(job.child # NoPid \/ OwnedRunning)
  <2>1. /\ call'[c].pc = "spawn" /\ job'.child = NoPid
        /\ excused' = (excused \/ InFlight)
    BY <1>3 DEF Claim, Goto, Shapes, CallShape
  <2>2. \A p : (Running(p)' <=> Running(p)) /\ (Ours(p)' <=> Ours(p))
    BY <1>1 DEF Running, Ours
  <2>3. \A d \in Callers : /\ call'[d].pc \in Holding <=> call[d].pc \in Holding
                           /\ call[d].pc \in Holding => call'[d].pid = call[d].pid
    BY <1>1, <2>1 DEF At, Holding
  <2>4. PidsInv'
    BY <1>1, <1>3, <2>1, <2>3 DEF ServerInv, PidsInv, Process
  <2>5. RecordInv' /\ KillsOnlyOwn'
    BY <1>1 DEF ServerInv, RecordInv, KillsOnlyOwn
  <2>6. ~excused' => \A d \in Callers : call[d].pc \notin Flight
    BY <2>1 DEF InFlight, Flight
  <2>7. ~excused' => \A p \in Pids : ~Ours(p)
    <3> SUFFICES ASSUME ~excused', NEW p \in Pids, Ours(p) PROVE FALSE
      OBVIOUS
    <3>1. pidfile # NoPid /\ pidfile.pid = p /\ pidfile.birth = procs[p].birth
      <4> job.child # p
        BY <1>3, NoPidIsNone
      <4> QED BY <2>1, <2>6 DEF ServerInv, NoneEscapes, Ours, Flight
    <3>2. MatchesLive(pidfile)
      BY <3>1 DEF MatchesLive, Ours, Running
    <3> QED BY <1>3, <3>2 DEF OwnedRunning
  <2>8. AloneInv'
    BY <1>1, <2>1, <2>2, <2>6, <2>7 DEF AloneInv
  <2>9. NoneEscapes'
    BY <2>2, <2>7 DEF NoneEscapes, Ours
  <2> QED BY <2>4, <2>5, <2>8, <2>9 DEF ServerInv
<1> QED BY <1>2, <1>3

LEMMA SpawnKeeps ==
  ASSUME NEW c \in Callers, Shapes, ServerInv, Spawn(c) PROVE ServerInv'
<1>1. PICK p \in Pids :
        /\ procs[p].st = "free"
        /\ procs' = [procs EXCEPT ![p] = [st |-> "up", birth |-> births + 1, by |-> "child"]]
        /\ call' = [call EXCEPT ![c].pc = "record", ![c].pid = p]
  BY DEF Spawn
<1>2. /\ UNCHANGED <<job, pidfile, excused>> /\ births' = births + 1
      /\ call[c].pc = "spawn"
  BY DEF Spawn, histVars, At
<1>3. /\ call'[c].pc = "record" /\ call'[c].pid = p
      /\ \A d \in Callers \ {c} : call'[d] = call[d]
  BY <1>1 DEF Shapes, CallShape
<1>4. /\ procs'[p] = [st |-> "up", birth |-> births + 1, by |-> "child"]
      /\ \A q \in Pids \ {p} : procs'[q] = procs[q]
      /\ DOMAIN procs' = Pids
  BY <1>1 DEF ServerInv, PidsInv
<1>5. births \in Nat
  BY EngineAssumption DEF Shapes
<1>6. PidsInv'
  <2>1. \A q \in Pids : Process(procs[q])'
    BY <1>2, <1>4, <1>5 DEF ServerInv, PidsInv, Process
  <2>2. job.child # p
    BY <1>1, NoPidIsNone DEF ServerInv, PidsInv
  <2>3. job'.child # NoPid => procs'[job'.child].st # "free" /\ procs'[job'.child].by = "child"
    BY <1>2, <1>4, <2>2 DEF ServerInv, PidsInv
  <2>4. \A d \in Callers : call[d].pc \in Holding => call[d].pid # p
    BY <1>1 DEF ServerInv, PidsInv
  <2>5. ASSUME NEW d \in Callers, call'[d].pc \in Holding
        PROVE  /\ call'[d].pid \in Pids /\ call'[d].pid # job'.child
               /\ procs'[call'[d].pid].st # "free" /\ procs'[call'[d].pid].by = "child"
               /\ \A e \in Callers : call'[e].pc \in Holding /\ call'[e].pid = call'[d].pid
                                     => e = d
    <3>1. CASE d = c
      BY <1>2, <1>3, <1>4, <2>2, <2>4, <3>1 DEF Holding
    <3>2. CASE d # c
      BY <1>2, <1>3, <1>4, <2>2, <2>4, <2>5, <3>2 DEF Holding, ServerInv, PidsInv
    <3> QED BY <3>1, <3>2
  <2> QED BY <1>2, <1>4, <2>1, <2>3, <2>5 DEF PidsInv, ServerInv
<1>7. RecordInv'
  BY <1>2, <1>4, <1>5 DEF ServerInv, RecordInv
<1>8. KillsOnlyOwn'
  BY <1>4 DEF ServerInv, KillsOnlyOwn
<1>9. \A q \in Pids \ {p} : Ours(q)' <=> Ours(q)
  BY <1>4 DEF Ours, Running
<1>10. AloneInv'
  BY <1>2, <1>3, <1>9 DEF ServerInv, AloneInv, Flight, Holding
<1>11. NoneEscapes'
  <2> SUFFICES ASSUME NEW q \in Pids, Ours(q)', ~excused'
               PROVE  \E d \in Callers : call'[d].pid = q /\ call'[d].pc \in {"record", "keep"}
    BY DEF NoneEscapes, Ours
  <2> q = p
    BY <1>2, <1>9 DEF ServerInv, AloneInv, Flight, Holding
  <2> QED BY <1>3
<1> QED BY <1>6, <1>7, <1>8, <1>10, <1>11 DEF ServerInv

LEMMA SpawnFailsKeeps ==
  ASSUME NEW c \in Callers, Shapes, ServerInv, SpawnFails(c) PROVE ServerInv'
<1>1. /\ UNCHANGED <<procs, pidfile, births, excused>> /\ job'.child = job.child
      /\ call[c].pc = "spawn" /\ call'[c].pc = "idle"
      /\ \A d \in Callers \ {c} : call'[d] = call[d]
  BY DEF SpawnFails, hostVars, histVars, End, Idle, Shapes, At
<1>2. \A p : (Running(p)' <=> Running(p)) /\ (Ours(p)' <=> Ours(p))
  BY <1>1 DEF Running, Ours
<1>3. PidsInv'
  BY <1>1 DEF ServerInv, PidsInv, Process, Holding
<1>4. RecordInv' /\ KillsOnlyOwn'
  BY <1>1 DEF ServerInv, RecordInv, KillsOnlyOwn
<1>5. AloneInv'
  BY <1>1, <1>2 DEF ServerInv, AloneInv, Flight, Holding
<1>6. NoneEscapes'
  BY <1>1, <1>2 DEF ServerInv, NoneEscapes
<1> QED BY <1>3, <1>4, <1>5, <1>6 DEF ServerInv

LEMMA RecordKeeps ==
  ASSUME NEW c \in Callers, Shapes, ServerInv, Record(c) PROVE ServerInv'
<1>1. /\ UNCHANGED <<procs, births, job, excused>>
      /\ call[c].pc = "record" /\ call'[c].pc = "keep" /\ call'[c].pid = call[c].pid
      /\ \A d \in Callers \ {c} : call'[d] = call[d]
  BY DEF Record, histVars, Goto, Shapes, CallShape, At
<1>2. call[c].pid \in Pids /\ procs[call[c].pid].by = "child"
  BY <1>1 DEF ServerInv, PidsInv, Holding
<1>3. \A p : (Running(p)' <=> Running(p)) /\ (Ours(p)' <=> Ours(p))
  BY <1>1 DEF Running, Ours
<1>4. \A d \in Callers : /\ call'[d].pc \in Holding <=> call[d].pc \in Holding
                         /\ call'[d].pc \in Flight <=> call[d].pc \in Flight
                         /\ call'[d].pid = call[d].pid
  BY <1>1 DEF Holding, Flight
<1>5. PidsInv'
  BY <1>1, <1>4 DEF ServerInv, PidsInv, Process
<1>6. KillsOnlyOwn'
  BY <1>1 DEF ServerInv, KillsOnlyOwn
<1>7. AloneInv'
  BY <1>1, <1>3, <1>4 DEF ServerInv, AloneInv
<1>8. NoneEscapes'
  <2> SUFFICES ASSUME NEW p \in Pids, Ours(p), ~excused
               PROVE  \E d \in Callers : call'[d].pid = p /\ call'[d].pc \in {"record", "keep"}
    BY <1>1, <1>3 DEF NoneEscapes, Ours
  <2> p = call[c].pid
    BY <1>1 DEF ServerInv, AloneInv, Flight
  <2> QED BY <1>1
<1>9. RecordInv'
  <2>1. CASE pidfile' = pidfile
    BY <1>1, <2>1 DEF ServerInv, RecordInv
  <2>2. CASE pidfile' = [pid |-> call[c].pid, birth |-> procs[call[c].pid].birth]
    BY <1>1, <1>2, <2>2 DEF RecordInv, ServerInv, PidsInv, Process
  <2> QED BY <2>1, <2>2 DEF Record
<1> QED BY <1>5, <1>6, <1>7, <1>8, <1>9 DEF ServerInv

LEMMA KeepKeeps ==
  ASSUME NEW c \in Callers, Shapes, ServerInv, Keep(c) PROVE ServerInv'
<1>1. /\ UNCHANGED <<procs, pidfile, births, excused>> /\ job'.child = call[c].pid
      /\ call[c].pc = "keep" /\ call'[c].pc = "reap"
      /\ \A d \in Callers \ {c} : call'[d] = call[d]
  BY DEF Keep, hostVars, histVars, Goto, Shapes, CallShape, At
<1>2. \A p : (Running(p)' <=> Running(p)) /\ (Ours(p)' <=> Ours(p))
  BY <1>1 DEF Running, Ours
<1>3. /\ call[c].pid \in Pids
      /\ procs[call[c].pid].st # "free" /\ procs[call[c].pid].by = "child"
      /\ \A d \in Callers : call[d].pc \in Holding /\ call[d].pid = call[c].pid => d = c
  BY <1>1 DEF ServerInv, PidsInv, Holding
<1>4. PidsInv'
  BY <1>1, <1>3 DEF ServerInv, PidsInv, Process, Holding
<1>5. RecordInv' /\ KillsOnlyOwn'
  BY <1>1 DEF ServerInv, RecordInv, KillsOnlyOwn
<1>6. ~excused => \A p \in Pids : Ours(p) => p = call[c].pid
  BY <1>1 DEF ServerInv, AloneInv, Flight
<1>7. AloneInv'
  BY <1>1, <1>2, <1>6 DEF ServerInv, AloneInv, Flight
<1>8. NoneEscapes'
  BY <1>1, <1>2, <1>6 DEF NoneEscapes, Ours
<1> QED BY <1>4, <1>5, <1>7, <1>8 DEF ServerInv

LEMMA ReapKeeps ==
  ASSUME NEW c \in Callers, Shapes, ServerInv, Reap(c) PROVE ServerInv'
<1>1. /\ UNCHANGED <<births, excused>> /\ call[c].pc = "reap" /\ call'[c].pc = "probe"
      /\ \A d \in Callers \ {c} : call'[d] = call[d]
  BY DEF Reap, histVars, Goto, Shapes, CallShape, At
<1>2. CASE ~(job.child # NoPid /\ procs[job.child].st = "exited")
  <2> Quiet
    BY <1>1, <1>2 DEF Reap, Quiet, Flight
  <2> QED BY QuietKeeps
<1>3. CASE job.child # NoPid /\ procs[job.child].st = "exited"
  <2> DEFINE p == job.child
  <2>1. /\ p \in Pids /\ procs' = [procs EXCEPT ![p] = Gone]
        /\ pidfile' = NoPid /\ job'.child = NoPid
    BY <1>3 DEF Reap, Shapes, ServerInv, PidsInv
  <2> HIDE DEF p
  <2>2. /\ procs'[p] = [st |-> "free", birth |-> 0, by |-> "none"]
        /\ \A q \in Pids \ {p} : procs'[q] = procs[q]
        /\ DOMAIN procs' = Pids
    BY <2>1 DEF ServerInv, PidsInv, Gone
  <2>3. \A q \in Pids : Ours(q)' => Ours(q) /\ q # p
    BY <2>2 DEF Ours, Running
  <2>4. \A d \in Callers : /\ call'[d].pc \in Holding <=> call[d].pc \in Holding
                           /\ call'[d].pc \in Flight <=> call[d].pc \in Flight
                           /\ call[d].pc \in Holding => call'[d].pid = call[d].pid
                           /\ call[d].pc \in Holding => call[d].pid # p
    BY <1>1 DEF Holding, Flight, ServerInv, PidsInv, p
  <2>5. PidsInv'
    <3>1. \A q \in Pids : Process(procs[q])'
      BY <1>1, <2>2, EngineAssumption DEF ServerInv, PidsInv, Process, Shapes
    <3>2. ASSUME NEW d \in Callers, call'[d].pc \in Holding
          PROVE  /\ call'[d].pid \in Pids /\ call'[d].pid # job'.child
                 /\ procs'[call'[d].pid].st # "free" /\ procs'[call'[d].pid].by = "child"
                 /\ \A e \in Callers : call'[e].pc \in Holding /\ call'[e].pid = call'[d].pid
                                       => e = d
      BY <2>1, <2>2, <2>4, <3>2, NoPidIsNone DEF ServerInv, PidsInv
    <3> QED BY <2>1, <2>2, <3>1, <3>2 DEF PidsInv
  <2>6. RecordInv'
    BY <2>1 DEF RecordInv
  <2>7. KillsOnlyOwn'
    BY <2>2 DEF ServerInv, KillsOnlyOwn
  <2>8. ~excused => \A q \in Pids : ~Ours(q)'
    BY <1>3, <2>3 DEF ServerInv, AloneInv, p
  <2>9. AloneInv'
    BY <1>1, <2>1, <2>4, <2>8 DEF ServerInv, AloneInv
  <2>10. NoneEscapes'
    BY <1>1, <2>8 DEF NoneEscapes, Ours
  <2> QED BY <2>5, <2>6, <2>7, <2>9, <2>10 DEF ServerInv
<1> QED BY <1>2, <1>3

LEMMA StopKeeps ==
  ASSUME NEW c \in Callers, Shapes, ServerInv, Stop(c) PROVE ServerInv'
<1>1. /\ UNCHANGED births /\ call[c].pc = "stop" /\ call'[c].pc = "reap"
      /\ \A d \in Callers \ {c} : call'[d] = call[d]
      /\ job'.child = NoPid /\ pidfile' = NoPid
      /\ excused' = (excused \/ InFlight)
  BY DEF Stop, Goto, Shapes, CallShape, At
<1>2. /\ DOMAIN procs' = Pids
      /\ \A p \in Pids :
           procs'[p] = IF p = job.child THEN [st |-> "free", birth |-> 0, by |-> "none"]
                       ELSE IF KillOwned(p) THEN [procs[p] EXCEPT !.st = "ending"]
                       ELSE procs[p]
  BY DEF Stop, Gone
<1>3. \A p \in Pids : KillOwned(p) => /\ procs[p].by \in {"child", "orphan"}
                                      /\ procs[p].st \in {"up", "serving"}
                                      /\ pidfile.pid = p
  BY DEF KillOwned, MatchesLive, Running, ServerInv, RecordInv
<1>4. \A p \in Pids : Process(procs[p])
  BY DEF ServerInv, PidsInv
<1>14. \A p \in Pids : p # job.child /\ KillOwned(p) =>
         procs'[p] = [st |-> "ending", birth |-> procs[p].birth, by |-> procs[p].by]
  <2> SUFFICES ASSUME NEW p \in Pids, p # job.child, KillOwned(p)
               PROVE  procs'[p] = [st |-> "ending", birth |-> procs[p].birth, by |-> procs[p].by]
    OBVIOUS
  <2>1. PICK r : r = procs[p]
    OBVIOUS
  <2>2. procs'[p] = [r EXCEPT !.st = "ending"]
    BY <1>2, <2>1
  <2>3. r = [st |-> r.st, birth |-> r.birth, by |-> r.by]
    BY <1>4, <2>1 DEF Process
  <2> QED BY <2>1, <2>2, <2>3
<1>5. \A p \in Pids : \/ p = job.child /\ procs'[p].st = "free" /\ procs'[p].by = "none"
                      \/ p # job.child /\ procs'[p].st = "ending" /\ procs'[p].by = procs[p].by
                           /\ KillOwned(p)
                      \/ p # job.child /\ procs'[p] = procs[p] /\ ~KillOwned(p)
  BY <1>2, <1>14
<1>6. \A p \in Pids : Process(procs[p])'
  <2> SUFFICES ASSUME NEW p \in Pids PROVE Process(procs[p])'
    OBVIOUS
  <2>1. CASE p = job.child
    BY <1>1, <1>2, <2>1, EngineAssumption DEF Process, Shapes
  <2>2. CASE p # job.child /\ KillOwned(p)
    <3>1. PICK r : r = procs'[p]
      OBVIOUS
    <3>2. PICK b, by : b = procs[p].birth /\ by = procs[p].by
      OBVIOUS
    <3>3. r = [st |-> "ending", birth |-> b, by |-> by]
      BY <1>14, <2>2, <3>1, <3>2
    <3>4. b \in 0..births' /\ by \in {"none", "child", "orphan", "user", "other"}
      BY <1>1, <1>4, <3>2 DEF Process
    <3> QED BY <3>1, <3>3, <3>4 DEF Process
  <2>3. CASE p # job.child /\ ~KillOwned(p)
    BY ZenonT(60), <1>1, <1>2, <1>4, <2>3 DEF Process
  <2> QED BY <2>1, <2>2, <2>3
<1>7. \A d \in Callers : /\ call'[d].pc \in Holding <=> call[d].pc \in Holding
                         /\ call'[d].pc \in Flight <=> call[d].pc \in Flight
                         /\ call[d].pc \in Holding => call'[d].pid = call[d].pid
  BY <1>1 DEF Holding, Flight
<1>8. PidsInv'
  <2>1. ASSUME NEW d \in Callers, call'[d].pc \in Holding
        PROVE  /\ call'[d].pid \in Pids /\ call'[d].pid # job'.child
               /\ procs'[call'[d].pid].st # "free" /\ procs'[call'[d].pid].by = "child"
               /\ \A e \in Callers : call'[e].pc \in Holding /\ call'[e].pid = call'[d].pid
                                     => e = d
    <3>1. /\ call[d].pc \in Holding /\ call'[d].pid = call[d].pid
          /\ call[d].pid \in Pids /\ call[d].pid # job.child
          /\ procs[call[d].pid].st # "free" /\ procs[call[d].pid].by = "child"
      BY <1>7, <2>1 DEF ServerInv, PidsInv
    <3>2. procs'[call[d].pid].st # "free" /\ procs'[call[d].pid].by = "child"
      BY <1>5, <3>1
    <3>3. \A e \in Callers : call'[e].pc \in Holding /\ call'[e].pid = call'[d].pid => e = d
      BY <1>7, <2>1 DEF ServerInv, PidsInv
    <3> QED BY <1>1, <3>1, <3>2, <3>3, NoPidIsNone
  <2> QED BY <1>1, <1>2, <1>6, <2>1 DEF PidsInv
<1>9. RecordInv'
  BY <1>1 DEF RecordInv
<1>10. KillsOnlyOwn'
  BY <1>3, <1>5 DEF ServerInv, KillsOnlyOwn
<1>11. ~excused' => \A d \in Callers : call[d].pc \notin Flight
  BY <1>1 DEF InFlight, Flight
<1>12. ~excused' => \A p \in Pids : ~Ours(p)'
  <2> SUFFICES ASSUME ~excused', NEW p \in Pids, Ours(p)' PROVE FALSE
    OBVIOUS
  <2>1. p # job.child /\ procs'[p] = procs[p] /\ ~KillOwned(p)
    BY <1>5 DEF Ours, Running
  <2>2. Ours(p)
    BY <2>1 DEF Ours, Running
  <2>3. pidfile # NoPid /\ pidfile.pid = p /\ pidfile.birth = procs[p].birth
    BY <1>1, <1>11, <2>1, <2>2 DEF ServerInv, NoneEscapes, Ours, Flight
  <2> QED BY <2>1, <2>2, <2>3 DEF KillOwned, MatchesLive, Ours, Running
<1>13. AloneInv' /\ NoneEscapes'
  BY <1>1, <1>7, <1>11, <1>12 DEF AloneInv, NoneEscapes, Ours
<1> QED BY <1>8, <1>9, <1>10, <1>13 DEF ServerInv

\* A process that ends, or that binds its port, was there before.
Settles(p) ==
  /\ p \in Pids /\ procs[p].st # "free"
  /\ UNCHANGED <<pidfile, births, job, call, excused>>
  /\ DOMAIN procs' = Pids /\ \A q \in Pids \ {p} : procs'[q] = procs[q]
  /\ \/ procs[p].by = "child" /\ procs'[p] = [procs[p] EXCEPT !.st = "exited"]
     \/ procs[p].by # "child" /\ procs'[p] = Gone
     \/ procs[p].st = "up" /\ procs'[p] = [procs[p] EXCEPT !.st = "serving"]

LEMMA ProcessesSettle ==
  ASSUME NEW p \in Pids, ServerInv, Bind(p) \/ Quit(p) \/ Terminated(p) PROVE Settles(p)
<1>1. procs[p].st # "free" /\ UNCHANGED <<pidfile, births, job, call, excused>>
  BY DEF Bind, Quit, Terminated, Running, histVars
<1>2. Exit(p) \/ (procs[p].st = "up" /\ procs' = [procs EXCEPT ![p].st = "serving"])
  BY DEF Bind, Quit, Terminated
<1> QED BY <1>1, <1>2 DEF Exit, Settles, ServerInv, PidsInv

LEMMA SettlesKeeps ==
  ASSUME NEW p \in Pids, Shapes, ServerInv, Settles(p) PROVE ServerInv'
<1>1. Process(procs[p])
  BY DEF ServerInv, PidsInv
<1>2. \/ procs'[p] = [st |-> "exited", birth |-> procs[p].birth, by |-> "child"]
           /\ procs[p].by = "child"
      \/ procs'[p] = [st |-> "free", birth |-> 0, by |-> "none"] /\ procs[p].by # "child"
      \/ procs'[p] = [st |-> "serving", birth |-> procs[p].birth, by |-> procs[p].by]
           /\ procs[p].st = "up"
  BY <1>1 DEF Settles, Process, Gone
<1>3. \A q \in Pids : Process(procs[q])'
  <2> SUFFICES ASSUME NEW q \in Pids PROVE Process(procs[q])'
    OBVIOUS
  <2>1. CASE q = p
    BY <1>1, <1>2, <2>1, EngineAssumption DEF Settles, Process, Shapes
  <2>2. CASE q # p
    BY <2>2 DEF Settles, ServerInv, PidsInv, Process
  <2> QED BY <2>1, <2>2
<1>4. \A q \in Pids : procs[q].st # "free" /\ procs[q].by = "child" =>
        procs'[q].st # "free" /\ procs'[q].by = "child"
  BY <1>2 DEF Settles
<1>5. PidsInv'
  BY <1>3, <1>4 DEF Settles, ServerInv, PidsInv
<1>6. RecordInv'
  <2> SUFFICES ASSUME pidfile # NoPid, procs'[pidfile.pid].st # "free",
                      procs'[pidfile.pid].birth = pidfile.birth
               PROVE  procs'[pidfile.pid].by \in {"child", "orphan"}
    BY DEF ServerInv, RecordInv, Settles
  <2> pidfile.pid \in Pids
    BY DEF ServerInv, RecordInv
  <2>1. CASE pidfile.pid = p
    BY <1>2, <2>1 DEF ServerInv, RecordInv, Settles
  <2>2. CASE pidfile.pid # p
    BY <2>2 DEF ServerInv, RecordInv, Settles
  <2> QED BY <2>1, <2>2
<1>7. KillsOnlyOwn'
  BY <1>2 DEF Settles, ServerInv, KillsOnlyOwn
<1>8. \A q \in Pids : Ours(q)' => Ours(q) /\ procs'[q].birth = procs[q].birth
  BY <1>2 DEF Settles, Ours, Running
<1>9. AloneInv'
  BY <1>8 DEF Settles, ServerInv, AloneInv
<1>10. NoneEscapes'
  BY <1>8 DEF Settles, ServerInv, NoneEscapes, Ours
<1> QED BY <1>5, <1>6, <1>7, <1>9, <1>10 DEF ServerInv

LEMMA OthersStartKeeps ==
  ASSUME NEW p \in Pids, Shapes, ServerInv, OthersStart(p) PROVE ServerInv'
<1>1. PICK by \in {"user", "other"} :
        procs' = [procs EXCEPT ![p] = [st |-> "up", birth |-> births + 1, by |-> by]]
  BY DEF OthersStart
<1>2. /\ procs[p].st = "free" /\ births' = births + 1
      /\ UNCHANGED <<job, call, pidfile, excused>>
  BY DEF OthersStart, histVars
<1>3. births \in Nat
  BY EngineAssumption DEF Shapes
<1>4. /\ procs'[p] = [st |-> "up", birth |-> births + 1, by |-> by]
      /\ \A q \in Pids \ {p} : procs'[q] = procs[q]
      /\ DOMAIN procs' = Pids
  BY <1>1 DEF ServerInv, PidsInv
<1>5. \A q \in Pids : Process(procs[q])'
  BY <1>2, <1>3, <1>4 DEF ServerInv, PidsInv, Process
<1>6. \A q \in Pids : procs[q].st # "free" /\ procs[q].by = "child" =>
        procs'[q].st # "free" /\ procs'[q].by = "child"
  BY <1>2, <1>4
<1>7. PidsInv'
  BY <1>2, <1>4, <1>5, <1>6 DEF ServerInv, PidsInv
<1>8. RecordInv'
  BY <1>2, <1>3, <1>4 DEF ServerInv, RecordInv
<1>9. KillsOnlyOwn'
  BY <1>4 DEF ServerInv, KillsOnlyOwn
<1>10. \A q \in Pids : Ours(q)' => Ours(q) /\ procs'[q].birth = procs[q].birth
  BY <1>4 DEF Ours, Running
<1>11. AloneInv' /\ NoneEscapes'
  BY <1>2, <1>10 DEF ServerInv, AloneInv, NoneEscapes, Ours
<1> QED BY <1>7, <1>8, <1>9, <1>11 DEF ServerInv

LEMMA RestartKeeps ==
  ASSUME Shapes, ServerInv, Restart PROVE ServerInv'
<1>1. /\ UNCHANGED <<pidfile, births>> /\ job'.child = NoPid
      /\ \A c \in Callers : call'[c].pc = "idle"
      /\ excused' = (excused \/ InFlight \/ Unrecorded \/ \E c \in Callers : up[c].pc # "none")
  BY DEF Restart, NoJob, Idle
<1>2. /\ DOMAIN procs' = Pids
      /\ \A p \in Pids :
           procs'[p] = IF procs[p].st = "exited" THEN Gone
                       ELSE IF procs[p].by = "child" THEN [procs[p] EXCEPT !.by = "orphan"]
                       ELSE procs[p]
  BY DEF Restart
<1>3. \A p \in Pids :
        \/ /\ procs[p].st = "exited" /\ procs'[p] = [st |-> "free", birth |-> 0, by |-> "none"]
        \/ /\ procs[p].st # "exited" /\ procs[p].by = "child"
           /\ procs'[p] = [st |-> procs[p].st, birth |-> procs[p].birth, by |-> "orphan"]
        \/ /\ procs[p].st # "exited" /\ procs[p].by # "child"
           /\ procs'[p] = procs[p]
  <2> SUFFICES ASSUME NEW p \in Pids, procs[p].st # "exited", procs[p].by = "child"
               PROVE  procs'[p] = [st |-> procs[p].st, birth |-> procs[p].birth, by |-> "orphan"]
    BY <1>2 DEF Gone
  <2>1. PICK r : r = procs[p]
    OBVIOUS
  <2>2. procs'[p] = [r EXCEPT !.by = "orphan"]
    BY <1>2, <2>1
  <2>3. r = [st |-> r.st, birth |-> r.birth, by |-> r.by]
    BY <2>1 DEF ServerInv, PidsInv, Process
  <2> QED BY <2>1, <2>2, <2>3
<1>4. \A p \in Pids : Process(procs[p])'
  <2> SUFFICES ASSUME NEW p \in Pids PROVE Process(procs[p])'
    OBVIOUS
  <2>1. PICK r : r = procs[p]
    OBVIOUS
  <2>2. Process(r)
    BY <2>1 DEF ServerInv, PidsInv
  <2>3. PICK q : q = procs'[p]
    OBVIOUS
  <2>4. \/ q = [st |-> "free", birth |-> 0, by |-> "none"]
        \/ q = [st |-> r.st, birth |-> r.birth, by |-> "orphan"] /\ r.st # "exited"
        \/ q = r
    BY <1>3, <2>1, <2>3
  <2>5. 0 \in 0..births
    BY EngineAssumption DEF Shapes
  <2> QED BY <1>1, <2>2, <2>3, <2>4, <2>5 DEF Process
<1>5. PidsInv'
  BY <1>1, <1>2, <1>4 DEF PidsInv, Holding
<1>6. \A p \in Pids : procs'[p].st # "free" =>
        /\ procs'[p].st = procs[p].st /\ procs'[p].birth = procs[p].birth
        /\ procs[p].by \in {"child", "orphan"} <=> procs'[p].by \in {"child", "orphan"}
  <2> SUFFICES ASSUME NEW p \in Pids, procs'[p].st # "free"
               PROVE  /\ procs'[p].st = procs[p].st /\ procs'[p].birth = procs[p].birth
                      /\ procs[p].by \in {"child", "orphan"}
                           <=> procs'[p].by \in {"child", "orphan"}
    OBVIOUS
  <2>1. PICK r, q : r = procs[p] /\ q = procs'[p]
    OBVIOUS
  <2>2. \/ q = [st |-> "free", birth |-> 0, by |-> "none"]
        \/ q = [st |-> r.st, birth |-> r.birth, by |-> "orphan"] /\ r.by = "child"
        \/ q = r
    BY <1>3, <2>1
  <2> QED BY <2>1, <2>2
<1>7. RecordInv'
  BY <1>1, <1>6 DEF ServerInv, RecordInv
<1>8. KillsOnlyOwn'
  BY <1>6 DEF ServerInv, KillsOnlyOwn
<1>9. AloneInv'
  BY <1>1 DEF AloneInv, Flight
<1>10. NoneEscapes'
  <2> SUFFICES ASSUME NEW p \in Pids, Ours(p)', ~excused'
               PROVE  pidfile # NoPid /\ pidfile.pid = p /\ pidfile.birth = procs'[p].birth
    BY <1>1 DEF NoneEscapes, Ours
  <2>1. Ours(p) /\ procs'[p].birth = procs[p].birth
    BY <1>6 DEF Ours, Running
  <2>2. CASE job.child = p
    <3> MatchesLive(pidfile) /\ pidfile.pid = p
      BY <1>1, <2>2, NoPidIsNone DEF Unrecorded
    <3> QED BY <2>1 DEF MatchesLive
  <2>3. CASE job.child # p
    BY <1>1, <2>1, <2>3 DEF ServerInv, NoneEscapes, InFlight, Ours
  <2> QED BY <2>2, <2>3
<1> QED BY <1>5, <1>7, <1>8, <1>9, <1>10 DEF ServerInv

LEMMA ServerNext ==
  ASSUME Shapes, ServerInv, [EngineNext]_vars PROVE ServerInv'
<1>1. ASSUME NEW c \in Callers, Asks(c) PROVE ServerInv'
  BY <1>1, AsksAreQuiet, QuietKeeps
<1>2. ASSUME NEW c \in Callers, HandlerStep(c) PROVE ServerInv'
  BY <1>2, ClaimKeeps, SpawnKeeps, SpawnFailsKeeps, RecordKeeps, KeepKeeps, ReapKeeps, StopKeeps,
     HandlersAreQuiet, QuietKeeps DEF HandlerStep
<1>3. CASE \/ Fetch \/ BoxExits \/ UNCHANGED vars \/ \E c \in Callers : ThreadStep(c)
  BY <1>3, OthersAreQuiet, QuietKeeps
<1>4. ASSUME NEW p \in Pids, Bind(p) \/ Quit(p) \/ Terminated(p) PROVE ServerInv'
  BY <1>4, ProcessesSettle, SettlesKeeps
<1>5. ASSUME NEW p \in Pids, OthersStart(p) PROVE ServerInv'
  BY <1>5, OthersStartKeeps
<1>6. CASE Restart
  BY <1>6, RestartKeeps
<1> QED BY <1>1, <1>2, <1>3, <1>4, <1>5, <1>6 DEF EngineNext, Asks

---------------------------------------------------------------------------
(* The container.                                                          *)

\* A step after which no thread is new in compose, unless that was the last
\* word, and the container runs only if it did, or a thread stops it still.
LEMMA DownNext ==
  ASSUME Shapes, DownInv, [EngineNext]_vars PROVE DownInv'
<1>0. UNCHANGED engine
  BY BirthsGrow DEF fixedVars
<1>1. CASE UNCHANGED <<up, box, word, excused>>
  BY <1>0, <1>1 DEF DownInv
<1>2. ASSUME NEW c \in Callers, Asks(c) PROVE DownInv'
  BY <1>1, <1>2, AsksBegin DEF Begins, boxVars, histVars
<1>3. ASSUME NEW c \in Callers, HandlerStep(c) PROVE DownInv'
  <2>1. CASE Claim(c) \/ Stop(c)
    <3> engine # "vllm"
      BY <2>1 DEF Claim, Stop, Native
    <3> QED BY <1>0 DEF DownInv
  <2>2. CASE Spawn(c) \/ SpawnFails(c) \/ Record(c) \/ Keep(c) \/ Reap(c) \/ ProbeServer(c)
             \/ Answers(c) \/ Download(c) \/ ReadBox(c)
    BY <1>1, <2>2 DEF Spawn, SpawnFails, Record, Keep, Reap, ProbeServer, Answers, Download,
       ReadBox, boxVars, histVars, BoxFrame
  <2>3. CASE ClaimBox(c)
    <3>1. CASE job.starting
      BY <1>1, <2>3, <3>1 DEF ClaimBox, histVars
    <3>2. CASE ~job.starting
      BY <2>3, <3>2 DEF ClaimBox, DownInv
    <3> QED BY <3>1, <3>2
  <2>4. CASE StopBox(c)
    <3>1. CASE excused'
      BY <3>1 DEF DownInv
    <3>2. CASE ~excused'
      <4>1. ThreadTo(c, "down", NoTag) /\ \A o \in Callers : up[o].pc # "up"
        BY <2>4, <3>2 DEF StopBox
      <4>2. up'[c].pc = "down" /\ \A o \in Callers \ {c} : up'[o] = up[o]
        BY <4>1 DEF ThreadTo, Shapes
      <4> QED BY <4>1, <4>2 DEF DownInv
    <3> QED BY <3>1, <3>2
  <2> QED BY <1>3, <2>1, <2>2, <2>3, <2>4 DEF HandlerStep
<1>4. ASSUME NEW c \in Callers, ThreadStep(c) PROVE DownInv'
  <2>1. \A d \in Callers \ {c} : up'[d] = up[d]
    BY <1>4, ThreadMoves
  <2>2. CASE UpRuns(c)
    BY <1>0, <2>1, <2>2 DEF UpRuns, histVars, ThreadTo, Shapes, DownInv
  <2>3. CASE UpPosts(c) \/ UpSettles(c) \/ DownPosts(c)
    <3>1. /\ UNCHANGED <<box, word, excused>> /\ up[c].pc # "down"
      BY <2>3 DEF UpPosts, UpSettles, DownPosts, histVars
    <3>2. up'[c].pc \notin {"up", "down"}
      BY <2>3 DEF UpPosts, UpSettles, DownPosts, ThreadTo, Shapes
    <3> QED BY <1>0, <2>1, <3>1, <3>2 DEF DownInv
  <2>4. CASE DownRuns(c)
    <3>1. word' = word /\ up'[c].pc = "downed" /\ (box' = "none" \/ excused')
      BY <2>4 DEF DownRuns, ThreadTo, Shapes
    <3>2. excused => excused'
      BY <2>4 DEF DownRuns
    <3> QED BY <1>0, <2>1, <3>1, <3>2 DEF DownInv
  <2> QED BY <1>4, <2>2, <2>3, <2>4 DEF ThreadStep
<1>5. ASSUME NEW p \in Pids, Bind(p) \/ Quit(p) \/ Terminated(p) \/ OthersStart(p)
      PROVE DownInv'
  BY <1>1, <1>5 DEF Bind, Quit, Terminated, OthersStart, boxVars, histVars
<1>6. CASE Fetch
  <2> UNCHANGED <<up, box, word, excused>>
    BY <1>6 DEF Fetch, FetchList, FetchGet, FetchOpen, FetchBytes, FetchRename, FetchVerify,
       FetchPull, FetchSnapshot, FetchEnd, FetchFails, FetchFrame, histVars
  <2> QED BY <1>1
<1>7. CASE BoxExits
  BY <1>0, <1>7 DEF BoxExits, histVars, DownInv
<1>8. CASE Restart
  <2>1. word' = word /\ \A d \in Callers : up'[d].pc = "none"
    BY <1>8 DEF Restart
  <2>2. excused' \/ (~excused /\ \A d \in Callers : up[d].pc = "none")
    BY <1>8 DEF Restart
  <2>3. box' = box \/ \E d \in Callers : up[d].pc = "up"
    BY <1>8 DEF Restart
  <2> QED BY <1>0, <2>1, <2>2, <2>3 DEF DownInv
<1>9. CASE UNCHANGED vars
  BY <1>1, <1>9 DEF vars
<1> QED BY <1>2, <1>3, <1>4, <1>5, <1>6, <1>7, <1>8, <1>9 DEF EngineNext, Asks

---------------------------------------------------------------------------
(* What a start is given fits.                                             *)

\* The model was looked at before the call, and what the calls and threads
\* carry is what was looked at.
LaunchInv ==
  /\ \E m \in Machines : gpu = Probe(m)
  /\ \A c \in Callers : At(c, "claimbox") => Fits(call[c].spec, ServingProfile(gpu, useAll))
  /\ \A c \in Callers : up[c].pc = "up" => Fits(up[c].spec, ServingProfile(gpu, useAll))
  /\ launched # NoTag => /\ Fits(launched.id, ServingProfile(gpu, useAll))
                         /\ launched.tp = LaunchPlan(gpu, useAll).tp

LEMMA InitLaunch == EngineInit => LaunchInv
BY CardsAssumption DEF EngineInit, LaunchInv, At, Idle

LEMMA LaunchNext ==
  ASSUME Shapes, LaunchInv, [EngineNext]_vars PROVE LaunchInv'
<1>0. UNCHANGED <<gpu, useAll>>
  BY BirthsGrow DEF fixedVars
<1>1. CASE UNCHANGED <<call, up, launched>>
  BY <1>0, <1>1 DEF LaunchInv, At
<1>2. ASSUME NEW c \in Callers, Asks(c) PROVE LaunchInv'
  <2>1. UNCHANGED <<up, launched>>
    BY <1>2, AsksBegin DEF Begins, boxVars
  <2>2. \A d \in Callers \ {c} : call'[d] = call[d]
    BY <1>2, AsksBegin DEF Begins, Shapes
  <2>3. CASE AskStartVllm(c)
    <3>1. PICK id : Fits(id, ServingProfile(gpu, useAll)) /\ Ask(c, "start", id, "claimbox")
      BY <2>3 DEF AskStartVllm
    <3>2. call' = [call EXCEPT ![c] = [Idle EXCEPT !.op = "start", !.spec = id,
                                                   !.pc = "claimbox"]]
      BY <3>1 DEF Ask
    <3>3. call'[c].spec = id
      BY <3>2, NewCall DEF Shapes
    <3> QED BY <1>0, <2>1, <2>2, <3>1, <3>3 DEF LaunchInv, At
  <2>4. CASE ~AskStartVllm(c)
    <3>1. \E op, spec, pc : Ask(c, op, spec, pc) /\ pc # "claimbox"
      BY <1>2, <2>4 DEF Asks, AskStart, AskStatus, AskStop, AskDownload, AskStopVllm
    <3>2. PICK op, spec, pc : pc # "claimbox" /\ call' = [call EXCEPT ![c] =
                                [Idle EXCEPT !.op = op, !.spec = spec, !.pc = pc]]
      BY <3>1 DEF Ask
    <3>3. call'[c].pc = pc
      BY ZenonT(60), <3>2, NewCall DEF Shapes
    <3> QED BY <1>0, <2>1, <2>2, <3>2, <3>3 DEF LaunchInv, At
  <2> QED BY <2>3, <2>4
<1>3. ASSUME NEW c \in Callers, HandlerStep(c) PROVE LaunchInv'
  <2>1. \A d \in Callers \ {c} : call'[d] = call[d]
    BY <1>3, HandlerMoves DEF Moves
  <2>2. call'[c].pc # "claimbox"
    BY <1>3 DEF HandlerStep, Claim, Spawn, SpawnFails, Record, Keep, Reap, ProbeServer, Answers,
       Stop, Download, ClaimBox, StopBox, ReadBox, Goto, End, Return, ReturnStatusLocked, Idle,
       Shapes, At, CallShape
  <2>3. launched' = launched
    BY <1>3 DEF HandlerStep, Claim, Spawn, SpawnFails, Record, Keep, Reap, ProbeServer,
       Answers, Stop, Download, ClaimBox, StopBox, ReadBox, boxVars
  <2>4. CASE ClaimBox(c)
    <3>1. \A d \in Callers : up'[d] = up[d] \/ up'[d].spec = call[c].spec
      BY <2>4 DEF ClaimBox, ThreadTo, Shapes
    <3>2. Fits(call[c].spec, ServingProfile(gpu, useAll))
      BY <2>4 DEF ClaimBox, LaunchInv
    <3> QED BY <1>0, <2>1, <2>2, <2>3, <3>1, <3>2 DEF LaunchInv, At
  <2>5. CASE ~ClaimBox(c)
    <3>1. \A d \in Callers : up'[d] = up[d] \/ up'[d].pc # "up"
      BY <1>3, <2>5 DEF HandlerStep, Claim, Spawn, SpawnFails, Record, Keep, Reap, ProbeServer,
         Answers, Stop, Download, StopBox, ReadBox, boxVars, BoxFrame, ThreadTo, Shapes
    <3> QED BY <1>0, <2>1, <2>2, <2>3, <3>1 DEF LaunchInv, At
  <2> QED BY <2>4, <2>5
<1>4. ASSUME NEW c \in Callers, ThreadStep(c) PROVE LaunchInv'
  <2>1. call' = call /\ \A d \in Callers : up'[d] = up[d] \/ up'[d].pc # "up"
    BY <1>4 DEF ThreadStep, UpRuns, UpPosts, UpSettles, DownRuns, DownPosts, ThreadTo, Shapes
  <2>2. CASE UpRuns(c)
    <3>1. \/ launched' = launched
          \/ launched' = [id |-> up[c].spec, tp |-> LaunchPlan(gpu, useAll).tp,
                          files |-> Snapshot(up[c].spec)]
      BY <2>2 DEF UpRuns
    <3>2. Fits(up[c].spec, ServingProfile(gpu, useAll))
      BY <2>2 DEF UpRuns, LaunchInv
    <3> QED BY <1>0, <2>1, <3>1, <3>2 DEF LaunchInv, At
  <2>3. CASE ~UpRuns(c)
    <3>1. launched' = launched
      BY <1>4, <2>3 DEF ThreadStep, UpPosts, UpSettles, DownRuns, DownPosts
    <3> QED BY <1>0, <2>1, <3>1 DEF LaunchInv, At
  <2> QED BY <2>2, <2>3
<1>5. ASSUME NEW p \in Pids, Bind(p) \/ Quit(p) \/ Terminated(p) \/ OthersStart(p)
      PROVE LaunchInv'
  BY <1>1, <1>5 DEF Bind, Quit, Terminated, OthersStart, boxVars
<1>6. CASE Fetch
  <2> UNCHANGED <<call, up, launched>>
    BY <1>6 DEF Fetch, FetchList, FetchGet, FetchOpen, FetchBytes, FetchRename, FetchVerify,
       FetchPull, FetchSnapshot, FetchEnd, FetchFails, FetchFrame
  <2> QED BY SMTT(40), <1>1
<1>7. CASE BoxExits
  BY <1>1, <1>7 DEF BoxExits
<1>8. CASE Restart
  BY <1>0, <1>8 DEF Restart, LaunchInv, At, Idle
<1>9. CASE UNCHANGED vars
  BY <1>1, <1>9 DEF vars
<1> QED BY <1>2, <1>3, <1>4, <1>5, <1>6, <1>7, <1>8, <1>9 DEF EngineNext, Asks

\* All cards are used only where the plan says so.
LEMMA PlanIsServed ==
  ASSUME NEW m
  PROVE  Probe(m).tpOk =>
           Probe(m).vendor \in {"nvidia", "amd", "intel"} /\ Probe(m).count >= 2
<1>1. ASSUME NEW cards
      PROVE  Summarize(cards).tpOk =>
               /\ Summarize(cards).vendor \in {"nvidia", "amd", "intel"}
               /\ Summarize(cards).count >= 2
  BY DEF Summarize
<1> QED BY <1>1 DEF Probe

\* A card is a record of these fields, so that the profile a start is
\* judged by differs in one of them only.
LEMMA ProfileOf ==
  ASSUME NEW m
  PROVE  /\ ServingProfile(Probe(m), useAll).vram = Probe(m).vram
         /\ ServingProfile(Probe(m), useAll).count = Probe(m).count
         /\ ServingProfile(Probe(m), useAll).tpOk <=> Probe(m).tpOk /\ useAll
<1>1. ASSUME NEW g, g = [vendor |-> g.vendor, count |-> g.count, vram |-> g.vram,
                         tpOk |-> g.tpOk]
      PROVE  /\ ServingProfile(g, useAll).vram = g.vram
             /\ ServingProfile(g, useAll).count = g.count
             /\ ServingProfile(g, useAll).tpOk <=> g.tpOk /\ useAll
  BY <1>1 DEF ServingProfile
<1>2. ASSUME NEW cards
      PROVE  LET g == Summarize(cards)
             IN  g = [vendor |-> g.vendor, count |-> g.count, vram |-> g.vram, tpOk |-> g.tpOk]
  BY DEF Summarize
<1> QED BY <1>1, <1>2 DEF Probe

LEMMA SizesAreNat == \A id : \A gb \in EstimateWeightGb(id) : gb \in Nat
<1>1. \A i \in DOMAIN Library : Library[i].gb \in Nat
  BY SMTT(60) DEF Library, Row
<1> QED BY <1>1 DEF EstimateWeightGb, ToSet

LEMMA LaunchInvImplies ==
  ASSUME LaunchInv PROVE LaunchSound
<1>1. PICK m \in Machines : gpu = Probe(m)
  BY DEF LaunchInv
<1>2. gpu.vram \in Nat /\ gpu.count \in Nat
  BY <1>1, CardsAssumption
<1>3. LaunchFits
  <2> SUFFICES ASSUME launched # NoTag, NEW gb \in EstimateWeightGb(launched.id)
               PROVE  gb <= gpu.vram * launched.tp
    BY DEF LaunchFits
  <2>1. gb \in Nat
    BY SizesAreNat
  <2>2. \/ gb <= gpu.vram
        \/ gpu.tpOk /\ useAll /\ gpu.count >= 2 /\ gb <= gpu.vram * gpu.count
    BY <1>1, ProfileOf DEF LaunchInv, Fits
  <2>3. /\ launched.tp \in Nat /\ launched.tp >= 1
        /\ gpu.tpOk /\ useAll /\ gpu.count >= 2 => launched.tp = gpu.count
    BY <1>1, <1>2, PlanIsServed DEF LaunchInv, LaunchPlan
  <2>4. \A a, n \in Nat : n >= 1 => a <= a * n
    OBVIOUS
  <2>5. gpu.vram <= gpu.vram * launched.tp /\ gpu.vram * launched.tp \in Nat
    BY <1>2, <2>3, <2>4
  <2> QED BY <1>2, <2>1, <2>2, <2>3, <2>5
<1>4. SplitSeesCards
  BY <1>2 DEF SplitSeesCards, LlamaGpuEnv, LlamaGpuArgs, LaunchPlan
<1> QED BY <1>3, <1>4 DEF LaunchSound

---------------------------------------------------------------------------
(* What a name means.                                                      *)

LEMMA MinOf ==
  ASSUME NEW S \in SUBSET Nat, S # {}
  PROVE  Min(S) \in S /\ \A x \in S : Min(S) <= x
<1>1. PICK k \in S : \A j \in S : ~(<<j, k>> \in OpToRel(<, Nat))
  BY NatLessThanWellFounded, WFMin
<1>2. \A j \in S : ~(j < k)
  BY <1>1 DEF OpToRel
<1>3. \A j \in S : k <= j
  BY <1>2
<1> QED BY <1>3 DEF Min

LEMMA MinIs ==
  ASSUME NEW S \in SUBSET Nat, NEW k \in S, \A x \in S : k <= x
  PROVE  Min(S) = k
<1>1. Min(S) \in S /\ Min(S) <= k
  BY MinOf
<1>2. k <= Min(S)
  BY <1>1
<1>3. Min(S) \in Nat /\ k \in Nat
  BY <1>1
<1> QED BY <1>1, <1>2, <1>3

LEMMA FirstIsIn ==
  ASSUME NEW files \in Seq(FileNames), NEW wanted, FirstIn(files, wanted) # Nothing
  PROVE  FirstIn(files, wanted) \in wanted \cap ToSet(files)
<1> DEFINE hits == {i \in DOMAIN files : files[i] \in wanted}
<1>1. hits \in SUBSET Nat /\ hits # {}
  BY DEF FirstIn
<1>2. Min(hits) \in hits
  BY <1>1, MinOf
<1> QED BY <1>1, <1>2 DEF FirstIn, ToSet

LEMMA HeadIsFirst ==
  ASSUME NEW files, DOMAIN files \in SUBSET Nat, 1 \in DOMAIN files,
         \A i \in DOMAIN files : 1 <= i, NEW wanted, files[1] \in wanted
  PROVE  FirstIn(files, wanted) = files[1]
<1> DEFINE hits == {i \in DOMAIN files : files[i] \in wanted}
<1>1. Min(hits) = 1
  <2> HIDE DEF hits
  <2>1. hits \in SUBSET Nat /\ 1 \in hits /\ \A i \in hits : 1 <= i
    BY DEF hits
  <2> QED BY <2>1, MinIs
<1> QED BY <1>1 DEF FirstIn

\* What is picked is one of the files, and the tag is in its name.
LEMMA PickIsServed ==
  ASSUME NEW files \in Seq(FileNames), NEW tag, NEW pick,
         pick = PickGgufFile(files, tag), pick # Nothing
  PROVE  /\ pick \in FileNames /\ pick \in ToSet(files) /\ Servable(pick)
         /\ tag # NoTag => \/ pick = tag
                           \/ tag.ending = "tag" /\ QuantToken(pick) = Head(tag.parts)
<1> DEFINE ggufs == {f \in ToSet(files) : Servable(f)}
<1> DEFINE Of(quant) == {f \in ggufs : QuantToken(f) = quant}
<1> DEFINE preferred == {i \in DOMAIN QuantPref : Of(QuantPref[i]) # {}}
<1>1. pick = IF tag \in ggufs THEN tag
             ELSE IF tag # NoTag
               THEN FirstIn(files, IF tag.ending = "tag" THEN Of(Head(tag.parts)) ELSE {})
             ELSE FirstIn(files, IF preferred = {} THEN ggufs ELSE Of(QuantPref[Min(preferred)]))
  BY Zenon DEF PickGgufFile
<1>2. ToSet(files) \subseteq FileNames
  BY DEF ToSet
<1>3. CASE tag \in ggufs
  BY <1>1, <1>2, <1>3
<1>4. CASE tag \notin ggufs /\ tag # NoTag
  <2> DEFINE wanted == IF tag.ending = "tag" THEN Of(Head(tag.parts)) ELSE {}
  <2>1. pick = FirstIn(files, wanted)
    BY <1>1, <1>4
  <2>2. pick \in wanted \cap ToSet(files)
    <3> HIDE DEF wanted
    <3> QED BY <2>1, FirstIsIn
  <2> QED BY <1>2, <2>2
<1>5. CASE tag \notin ggufs /\ tag = NoTag
  <2> DEFINE wanted == IF preferred = {} THEN ggufs ELSE Of(QuantPref[Min(preferred)])
  <2>1. pick = FirstIn(files, wanted)
    BY <1>1, <1>5
  <2>2. pick \in wanted \cap ToSet(files)
    <3> HIDE DEF wanted
    <3> QED BY <2>1, FirstIsIn
  <2> QED BY <1>2, <1>5, <2>2
<1> QED BY <1>3, <1>4, <1>5

\* Where the name says no file, some of the same files in an order that
\* begins with the one picked lead to it again.
LEMMA OrderPicks ==
  ASSUME NEW files \in Seq(FileNames), NEW order,
         DOMAIN order \in SUBSET Nat, 1 \in DOMAIN order, \A i \in DOMAIN order : 1 <= i,
         ToSet(order) \subseteq ToSet(files),
         order[1] = PickGgufFile(files, NoTag), order[1] # Nothing
  PROVE  PickGgufFile(order, NoTag) = order[1]
<1> DEFINE ggufs(s) == {f \in ToSet(s) : Servable(f)}
<1> DEFINE Of(s, quant) == {f \in ggufs(s) : QuantToken(f) = quant}
<1> DEFINE preferred(s) == {i \in DOMAIN QuantPref : Of(s, QuantPref[i]) # {}}
<1> DEFINE wanted(s) == IF preferred(s) = {} THEN ggufs(s) ELSE Of(s, QuantPref[Min(preferred(s))])
<1>1. ToSet(files) \subseteq FileNames
  BY DEF ToSet
<1>2. PickGgufFile(files, NoTag) = FirstIn(files, wanted(files))
  BY <1>1, FilesAssumption DEF PickGgufFile
<1>3. PickGgufFile(order, NoTag) = FirstIn(order, wanted(order))
  BY <1>1, FilesAssumption DEF PickGgufFile
<1>4. order[1] \in wanted(files)
  <2> HIDE DEF wanted
  <2> QED BY <1>2, FirstIsIn
<1>5. order[1] \in ToSet(order)
  BY DEF ToSet
<1>6. order[1] \in ggufs(order) /\ ggufs(order) \subseteq ggufs(files)
  BY <1>4, <1>5
<1>7. preferred(order) \subseteq preferred(files)
  BY <1>6
<1>8. preferred(files) \in SUBSET Nat
  BY DEF QuantPref
<1>9. order[1] \in wanted(order)
  <2>1. CASE preferred(files) = {}
    BY <1>6, <1>7, <2>1
  <2>2. CASE preferred(files) # {}
    <3> DEFINE m == Min(preferred(files))
    <3>1. m \in preferred(files) /\ \A x \in preferred(files) : m <= x
      BY <1>8, <2>2, MinOf
    <3>2. QuantToken(order[1]) = QuantPref[m]
      BY <1>4, <2>2
    <3>3. m \in preferred(order)
      BY <1>6, <3>1, <3>2
    <3>4. Min(preferred(order)) = m
      <4> HIDE DEF preferred, m
      <4> QED BY <1>7, <1>8, <3>1, <3>3, MinIs
    <3> QED BY <1>6, <3>2, <3>3, <3>4
  <2> QED BY <2>1, <2>2
<1>10. FirstIn(order, wanted(order)) = order[1]
  <2> HIDE DEF wanted
  <2> QED BY <1>9, HeadIsFirst
<1> QED BY <1>3, <1>10

\* A finite set has an order that begins with any of its elements.
LEMMA OrderBeginsWith ==
  ASSUME NEW S, IsFiniteSet(S), NEW p \in S
  PROVE  \E order \in SetToSeqs(S) :
           /\ order[1] = p /\ ToSet(order) \subseteq S
           /\ DOMAIN order \in SUBSET Nat /\ 1 \in DOMAIN order
           /\ \A i \in DOMAIN order : 1 <= i
<1> DEFINE n == Cardinality(S)
<1>1. n \in Nat /\ n # 0
  BY FS_CardinalityType, FS_EmptySet
<1>2. PICK g \in Bijection(1..n, S) : TRUE
  BY FS_CardinalityType DEF ExistsBijection
<1>3. /\ g \in [1..n -> S] /\ \A i, j \in 1..n : g[i] = g[j] => i = j
      /\ \E i \in 1..n : g[i] = p
  BY <1>2 DEF Bijection, Injection, Surjection, IsInjective
<1>4. PICK k \in 1..n : g[k] = p
  BY <1>3
<1> DEFINE order == [i \in 1..n |-> IF i = 1 THEN p ELSE IF i = k THEN g[1] ELSE g[i]]
<1> HIDE DEF n
<1>5. order \in [1..n -> S]
  BY <1>1, <1>3
<1>6. \A i, j \in 1..n : i # j => order[i] # order[j]
  BY <1>1, <1>3, <1>4
<1>7. order \in SetToSeqs(S)
  BY <1>5, <1>6 DEF SetToSeqs, n
<1>8. order[1] = p /\ DOMAIN order = 1..n /\ 1 \in 1..n
  BY <1>1
<1>9. ToSet(order) \subseteq S
  BY <1>5, <1>8 DEF ToSet
<1> QED BY <1>1, <1>7, <1>8, <1>9

FilesIn(disk1, folder) == {e[2] : e \in {x \in disk1 : x[1] = folder /\ Servable(x[2])}}

LEMMA FilesInAre ==
  ASSUME NEW own \in SUBSET Places, NEW folder
  PROVE  \A f : f \in FilesIn(own, folder) <=> <<folder, f>> \in own /\ Servable(f)
BY DEF FilesIn, Places

LEMMA FilesInFinite ==
  ASSUME NEW own \in SUBSET Places, IsFiniteSet(own), NEW folder
  PROVE  IsFiniteSet(FilesIn(own, folder))
<1> DEFINE S == FilesIn(own, folder)
<1> DEFINE place == [f \in S |-> <<folder, f>>]
<1>1. \A f \in S : <<folder, f>> \in own
  BY FilesInAre
<1>2. place \in Injection(S, own)
  <2> HIDE DEF S
  <2> QED BY <1>1 DEF Injection, IsInjective
<1> QED BY <1>2, FS_Injection
\* What a client asked for, and where it lands.
Asked(spec) == \E raw \in Specs : spec = ParseHubSpec(raw) /\ spec # Nothing

Picked(spec) == PickGgufFile(HubFiles[spec.repo], spec.tag)

PlaceOf(spec) == <<FolderOf(spec.repo), Picked(spec)>>

LEMMA AskedIsListed ==
  ASSUME NEW spec, Asked(spec)
  PROVE  FolderOf(spec.repo) \in Seq(STRING) /\ HubFiles[spec.repo] \in Seq(FileNames)
<1>1. PICK raw \in Specs : spec = ParseHubSpec(raw) /\ spec # Nothing
  BY DEF Asked
<1>2. spec.repo = raw.repo
  BY <1>1 DEF ParseHubSpec
<1> QED BY <1>1, <1>2, FilesAssumption

\* A start of the name a download was asked for may take what it brought.
LEMMA StartFinds ==
  ASSUME NEW own \in SUBSET Places, IsFiniteSet(own), NEW spec, Asked(spec),
         Picked(spec) # Nothing, SafeGgufName(Picked(spec)), PlaceOf(spec) \in own
  PROVE  \/ Picked(spec) \in ResolveGgufFile(spec, own, HubCache)
         \/ /\ spec.tag = NoTag
            /\ \E at \in own :
                 at[1] = PlaceOf(spec)[1] /\ at[2] \notin ToSet(HubFiles[spec.repo])
<1> DEFINE pick == Picked(spec)
<1> DEFINE files == HubFiles[spec.repo]
<1> DEFINE found == FilesIn(own, FolderOf(spec.repo))
<1> DEFINE named == {f \in found : spec.tag # NoTag /\ Mentions(f, spec.tag)}
<1>1. files \in Seq(FileNames)
  BY AskedIsListed
<1>2. /\ pick \in FileNames /\ Servable(pick)
      /\ spec.tag # NoTag => \/ pick = spec.tag
                             \/ spec.tag.ending = "tag" /\ QuantToken(pick) = Head(spec.tag.parts)
  <2> HIDE DEF files
  <2> QED BY <1>1, PickIsServed DEF Picked, files
<1>3. pick \in found
  BY <1>2, FilesInAre DEF PlaceOf
<1>4. ResolveGgufFile(spec, own, HubCache)
      = IF named # {} THEN named
        ELSE IF Cardinality(found) = 1 THEN found
        ELSE {PickGgufFile(order, spec.tag) : order \in SetToSeqs(found)} \ {Nothing}
  BY <1>3 DEF ResolveGgufFile, FilesIn
<1>5. CASE spec.tag # NoTag
  <2>1. QuantToken(pick) \in ToSet(pick.parts)
    <3>1. pick.parts \in Seq(STRING) /\ pick.parts # <<>>
      BY <1>2 DEF FileNames, SafeGgufName
    <3>2. Len(pick.parts) \in DOMAIN pick.parts
      BY <3>1
    <3> QED BY <3>2 DEF QuantToken, Last, ToSet
  <2>2. Mentions(pick, spec.tag)
    BY <1>2, <1>5, <2>1 DEF Mentions
  <2> QED BY <1>3, <1>4, <1>5, <2>2
<1>6. CASE spec.tag = NoTag /\ Cardinality(found) = 1
  BY <1>3, <1>4, <1>6
<1>7. CASE spec.tag = NoTag /\ Cardinality(found) # 1 /\ found \subseteq ToSet(files)
  <2>1. IsFiniteSet(found)
    BY FilesInFinite
  <2> HIDE DEF found, pick, files
  <2>2. PICK order \in SetToSeqs(found) :
           /\ order[1] = pick /\ ToSet(order) \subseteq found
           /\ DOMAIN order \in SUBSET Nat /\ 1 \in DOMAIN order
           /\ \A i \in DOMAIN order : 1 <= i
    BY <1>3, <2>1, OrderBeginsWith
  <2>3. pick = PickGgufFile(files, NoTag) /\ pick # Nothing
    BY <1>7 DEF pick, files, Picked
  <2>4. PickGgufFile(order, NoTag) = pick
    BY <1>1, <1>7, <2>2, <2>3, OrderPicks
  <2>5. pick \in ResolveGgufFile(spec, own, HubCache)
    BY <1>4, <1>7, <2>2, <2>3, <2>4
  <2> QED BY <2>5 DEF pick
<1>8. CASE spec.tag = NoTag /\ ~(found \subseteq ToSet(files))
  <2>1. PICK f \in found : f \notin ToSet(files)
    BY <1>8
  <2>2. <<FolderOf(spec.repo), f>> \in own
    BY <2>1, FilesInAre
  <2> QED BY <1>8, <2>1, <2>2 DEF PlaceOf
<1> QED BY <1>5, <1>6, <1>7, <1>8

LEMMA OneOf ==
  ASSUME NEW S, NEW a \in S PROVE <<a>> \in Seq(S) /\ Len(<<a>>) = 1 /\ <<a>>[1] = a
OBVIOUS

LEMMA TwoOf ==
  ASSUME NEW S, NEW s \in Seq(S), Len(s) = 2 PROVE s = <<s[1], s[2]>>
OBVIOUS

LEMMA PairOf ==
  ASSUME NEW S, NEW a \in S, NEW b \in S PROVE <<a>> \o <<b>> = <<a, b>>
<1>1. ASSUME NEW s \in Seq(S), NEW t \in Seq(S), Len(s) = 1, Len(t) = 1
      PROVE  s \o t = <<s[1], t[1]>>
  <2>1. s \o t \in Seq(S) /\ Len(s \o t) = 2
    BY <1>1, ConcatProperties
  <2>2. /\ (s \o t)[1] = s[1]
        /\ (s \o t)[2] = t[1]
    BY SMTT(40), <1>1, ConcatProperties
  <2>3. s \o t = <<(s \o t)[1], (s \o t)[2]>>
    BY <2>1, TwoOf
  <2> QED BY <2>2, <2>3, Zenon
<1>2. <<a>> \o <<b>> = <<(<<a>>)[1], (<<b>>)[1]>>
  BY <1>1, OneOf, Zenon
<1> QED BY <1>2, OneOf, Zenon

\* What the lists show can be started.
LEMMA ListedStarts ==
  ASSUME NEW own \in SUBSET Places, IsFiniteSet(own)
  PROVE  /\ \A e \in ScanGgufDir(own) :
              Len(e.repo) = 2 =>
                LET found == ResolveGgufFile([repo |-> e.repo, tag |-> e.tag], own, HubCache)
                IN  found # {} /\ (e.tag # NoTag => e.tag \in found)
         /\ \A e \in ScanHfGgufCache(HubCache) :
              Len(e.repo) = 2 =>
                \/ ResolveGgufFile([repo |-> e.repo, tag |-> e.tag], own, HubCache) # {}
                \/ Cardinality({at \in own : at[1] = FolderOf(e.repo) /\ Servable(at[2])}) > 1
<1>1. ASSUME NEW folder \in Seq(STRING), Len(RepoOf(folder)) = 2
      PROVE  FolderOf(RepoOf(folder)) = folder
  <2>1. Len(folder) = 2
    BY <1>1 DEF RepoOf
  <2>2. RepoOf(folder)[1] = <<folder[1]>> /\ RepoOf(folder)[2] = <<folder[2]>>
    BY <2>1 DEF RepoOf
  <2>3. <<folder[1]>> \o <<folder[2]>> = <<folder[1], folder[2]>>
    <3>1. folder[1] \in STRING /\ folder[2] \in STRING
      BY <2>1
    <3> QED BY <3>1, PairOf
  <2>4. folder = <<folder[1], folder[2]>>
    BY <2>1
  <2> QED BY <2>2, <2>3, <2>4 DEF FolderOf
<1>2. ASSUME NEW spec, NEW f, f \in FilesIn(own, FolderOf(spec.repo)),
             spec.tag = f, f \in FileNames
      PROVE  f \in ResolveGgufFile(spec, own, HubCache)
  BY <1>2, FilesAssumption DEF ResolveGgufFile, FilesIn, Mentions
<1>3. ASSUME NEW spec, NEW f, {f} = FilesIn(own, FolderOf(spec.repo))
      PROVE  f \in ResolveGgufFile(spec, own, HubCache)
  <2> DEFINE found == FilesIn(own, FolderOf(spec.repo))
  <2> DEFINE named == {x \in found : spec.tag # NoTag /\ Mentions(x, spec.tag)}
  <2>1. Cardinality(found) = 1
    BY <1>3, FS_Singleton
  <2>2. ResolveGgufFile(spec, own, HubCache)
        = IF named # {} THEN named
          ELSE IF Cardinality(found) = 1 THEN found
          ELSE {PickGgufFile(order, spec.tag) : order \in SetToSeqs(found)} \ {Nothing}
    BY <1>3 DEF ResolveGgufFile, FilesIn
  <2> HIDE DEF found
  <2>3. found = {f}
    BY <1>3 DEF found
  <2> QED BY <2>1, <2>2, <2>3
<1>4. ASSUME NEW e \in ScanGgufDir(own), Len(e.repo) = 2
      PROVE  LET found == ResolveGgufFile([repo |-> e.repo, tag |-> e.tag], own, HubCache)
             IN  found # {} /\ (e.tag # NoTag => e.tag \in found)
  <2> DEFINE served == {x \in own : Servable(x[2])}
  <2> DEFINE Alone(y) == \A x \in served : x[1] = y[1] => x = y
  <2> DEFINE spec == [repo |-> e.repo, tag |-> e.tag]
  <2>1. PICK y \in served :
          e = [repo |-> RepoOf(y[1]), tag |-> IF Alone(y) THEN NoTag ELSE y[2]]
    BY <1>4 DEF ScanGgufDir
  <2>2. y[1] \in Seq(STRING) /\ y[2] \in FileNames /\ y = <<y[1], y[2]>>
    BY <2>1 DEF Places
  <2>3. FolderOf(spec.repo) = y[1]
    BY <1>1, <1>4, <2>1, <2>2
  <2>4. y[2] \in FilesIn(own, y[1])
    BY <2>1, <2>2, FilesInAre
  <2>5. CASE Alone(y)
    <3>1. FilesIn(own, y[1]) = {y[2]}
      BY <2>4, <2>5 DEF FilesIn
    <3> HIDE DEF spec
    <3>2. y[2] \in ResolveGgufFile(spec, own, HubCache)
      BY <1>3, <2>3, <3>1
    <3>3. e.tag = NoTag
      BY <2>1, <2>5
    <3> QED BY <3>2, <3>3 DEF spec
  <2>6. CASE ~Alone(y)
    <3>1. e.tag = y[2] /\ spec.tag = y[2]
      BY <2>1, <2>6
    <3> HIDE DEF spec
    <3>2. y[2] \in ResolveGgufFile(spec, own, HubCache)
      BY <1>2, <2>2, <2>3, <2>4, <3>1
    <3> QED BY <3>1, <3>2 DEF spec
  <2> QED BY <2>5, <2>6
<1>5. ASSUME NEW e \in ScanHfGgufCache(HubCache), Len(e.repo) = 2
      PROVE  \/ ResolveGgufFile([repo |-> e.repo, tag |-> e.tag], own, HubCache) # {}
             \/ Cardinality({at \in own : at[1] = FolderOf(e.repo) /\ Servable(at[2])}) > 1
  <2> DEFINE spec == [repo |-> e.repo, tag |-> e.tag]
  <2> DEFINE there == {at \in own : at[1] = FolderOf(e.repo) /\ Servable(at[2])}
  <2>1. PICK y \in HubCache : Servable(y[2]) /\ e = [repo |-> RepoOf(y[1]), tag |-> y[2]]
    BY <1>5 DEF ScanHfGgufCache
  <2>2. y[1] \in Seq(STRING) /\ y[2] \in FileNames /\ y = <<y[1], y[2]>>
    BY <2>1, FilesAssumption DEF Places
  <2>3. FolderOf(spec.repo) = y[1] /\ spec.tag = y[2] /\ spec.tag # NoTag
    BY <1>1, <1>5, <2>1, <2>2, FilesAssumption
  <2>4. CASE there = {}
    <3>1. FilesIn(own, FolderOf(spec.repo)) = {}
      BY <2>4 DEF FilesIn
    <3>2. y[2] \in FilesIn(HubCache, FolderOf(spec.repo))
      BY <2>1, <2>2, <2>3 DEF FilesIn
    <3> HIDE DEF spec
    <3>3. y[2] \in ResolveGgufFile(spec, own, HubCache)
      BY <2>3, <3>1, <3>2 DEF ResolveGgufFile, FilesIn, Mentions
    <3> QED BY <3>3 DEF spec
  <2>5. CASE there # {} /\ Cardinality(there) = 1
    <3>1. IsFiniteSet(there)
      BY FS_Subset
    <3>2. PICK at : there = {at}
      <4> HIDE DEF there
      <4> QED BY <2>5, <3>1, FS_Singleton
    <3>3. FilesIn(own, FolderOf(spec.repo)) = {at[2]}
      BY <3>2 DEF FilesIn
    <3> HIDE DEF spec
    <3>4. at[2] \in ResolveGgufFile(spec, own, HubCache)
      BY <1>3, <3>3
    <3> QED BY <3>4 DEF spec
  <2>6. CASE there # {} /\ Cardinality(there) # 1
    <3>1. IsFiniteSet(there)
      BY FS_Subset
    <3> HIDE DEF there
    <3>2. Cardinality(there) \in Nat /\ Cardinality(there) # 0
      BY <2>6, <3>1, FS_CardinalityType, FS_EmptySet
    <3>3. Cardinality(there) > 1
      BY <2>6, <3>2
    <3> QED BY <3>3 DEF there
  <2> QED BY <2>4, <2>5, <2>6
<1> QED BY <1>4, <1>5

---------------------------------------------------------------------------
(* What is on the disk.                                                    *)

\* Where a download is.
Taken == {"get", "open", "bytes", "rename", "verify"}
Landed == Taken \cup {"done", "ended"}

\* Late's folder holds whole GGUF files in their places, but for one that a
\* download has just brought and not looked at.
FilesInv ==
  /\ IsFiniteSet(Own) /\ Own \subseteq Places
  /\ \A at \in Own : disk[at].whole
  /\ faults = 0 => \A at \in Own : disk[at].magic \/ (fetch.pc = "verify" /\ fetch.at = at /\ ~fetch.magic)
  /\ fetch.whole /\ fetch.magic \in BOOLEAN
  /\ fetch.pc \notin {"none", "ended"} => job.downloading

\* A download is of what a client asked for, and is put in its place.
FetchInv ==
  /\ \A c \in Callers : call[c].op = "pull" => engine # "llama"
  /\ engine = "llama" =>
       \A c \in Callers : At(c, "download") => Asked(call[c].spec)
  /\ fetch.pc \in Taken => engine = "llama"
  /\ engine = "llama" /\ fetch.pc # "none" => Asked(fetch.spec)
  /\ engine = "llama" /\ fetch.pc \in Landed =>
       /\ fetch.at = PlaceOf(fetch.spec)
       /\ Picked(fetch.spec) # Nothing /\ SafeGgufName(Picked(fetch.spec))
       /\ fetch.pc \in {"verify", "done", "ended"} => fetch.at \in Own

DiskInv == FilesInv /\ FetchInv

LEMMA InitDisk == EngineInit => DiskInv
<1> SUFFICES ASSUME EngineInit PROVE DiskInv
  OBVIOUS
<1>1. IsFiniteSet(Own) /\ Own \subseteq Places /\ \A at \in Own : disk[at].whole /\ disk[at].magic
  <2>1. CASE engine = "llama"
    BY <2>1, FilesAssumption DEF EngineInit, Own
  <2>2. CASE engine # "llama"
    <3>1. DOMAIN disk = {}
      BY <2>2 DEF EngineInit
    <3> QED BY <3>1, FS_EmptySet DEF Own
  <2> QED BY <2>1, <2>2
<1>2. fetch = NoFetch /\ \A c \in Callers : call[c] = Idle
  BY DEF EngineInit
<1>3. FilesInv
  BY <1>1, <1>2 DEF FilesInv, NoFetch
<1>4. FetchInv
  BY <1>2 DEF FetchInv, NoFetch, Idle, At, Taken, Landed
<1> QED BY <1>3, <1>4 DEF DiskInv

\* A step of the download that only goes on, and one that brings bytes.
LEMMA FetchGoesTo ==
  ASSUME Shapes, NEW pc, FetchTo(pc)
  PROVE  fetch'.pc = pc /\ fetch'.spec = fetch.spec /\ fetch'.at = fetch.at
         /\ fetch'.whole = fetch.whole /\ fetch'.magic = fetch.magic
BY DEF FetchTo, Shapes

LEMMA FetchLists ==
  ASSUME Shapes, FetchInv, FetchList
  PROVE  /\ UNCHANGED <<disk, job, faults>>
         /\ fetch'.spec = fetch.spec /\ fetch'.whole = fetch.whole /\ fetch'.magic = fetch.magic
         /\ \/ fetch'.pc = "failed"
            \/ /\ fetch'.pc \in {"get", "done"} /\ fetch'.at = PlaceOf(fetch.spec)
               /\ Picked(fetch.spec) # Nothing /\ SafeGgufName(Picked(fetch.spec))
               /\ fetch'.pc = "done" => fetch'.at \in Own
<1>1. UNCHANGED <<disk, job, faults>>
  BY DEF FetchList
<1>2. CASE FetchTo("failed")
  BY <1>1, <1>2, FetchGoesTo
<1>3. CASE ~FetchTo("failed")
  <2> DEFINE at == PlaceOf(fetch.spec)
  <2> DEFINE pc == IF at \notin Own THEN "get" ELSE IF disk[at].magic THEN "done" ELSE "failed"
  <2>1. /\ Picked(fetch.spec) # Nothing /\ SafeGgufName(Picked(fetch.spec))
        /\ fetch' = [fetch EXCEPT !.at = at, !.pc = pc]
    BY <1>3 DEF FetchList, PlaceOf, Picked
  <2> HIDE DEF at, pc
  <2>2. /\ fetch'.pc = pc /\ fetch'.at = at /\ fetch'.spec = fetch.spec
        /\ fetch'.whole = fetch.whole /\ fetch'.magic = fetch.magic
    BY <2>1 DEF Shapes
  <2> QED BY <1>1, <2>1, <2>2 DEF at, pc
<1> QED BY <1>2, <1>3

LEMMA HandlerLeavesFetch ==
  ASSUME Shapes, NEW c \in Callers, HandlerStep(c)
  PROVE  /\ UNCHANGED <<engine, disk>>
         /\ Download(c) \/ (fetch' = fetch /\ job'.downloading = job.downloading)
<1>1. UNCHANGED <<engine, disk>>
  BY DEF HandlerStep, Claim, Spawn, SpawnFails, Record, Keep, Reap, ProbeServer, Answers,
     Stop, Download, ClaimBox, StopBox, ReadBox, BoxFrame, fileVars, fixedVars
<1>2. CASE ~Download(c)
  <2>1. fetch' = fetch
    BY <1>2 DEF HandlerStep, Claim, Spawn, SpawnFails, Record, Keep, Reap, ProbeServer, Answers,
       Stop, ClaimBox, StopBox, ReadBox, BoxFrame, fileVars
  <2>2. job'.downloading = job.downloading
    BY <1>2 DEF HandlerStep, Claim, Spawn, SpawnFails, Record, Keep, Reap, ProbeServer, Answers,
       Stop, ClaimBox, StopBox, ReadBox, Shapes
  <2> QED BY <1>1, <2>1, <2>2
<1> QED BY <1>1, <1>2

LEMMA ThreadLeavesFetch ==
  ASSUME Shapes, NEW c \in Callers, ThreadStep(c)
  PROVE  UNCHANGED <<engine, disk, fetch, call>> /\ job'.downloading = job.downloading
<1>1. UNCHANGED <<engine, disk, fetch, call>>
  BY DEF ThreadStep, UpRuns, UpPosts, UpSettles, DownRuns, DownPosts, BoxFrame, fileVars,
     fixedVars
<1>2. job'.downloading = job.downloading
  BY DEF ThreadStep, UpRuns, UpPosts, UpSettles, DownRuns, DownPosts, Shapes
<1> QED BY <1>1, <1>2

\* A download begins, or does not.
LEMMA DownloadBegins ==
  ASSUME Shapes, NEW c \in Callers, Download(c)
  PROVE  \/ fetch' = fetch /\ job' = job
         \/ /\ ~job.downloading /\ job'.downloading
            /\ fetch' = [pc |-> "list", spec |-> call[c].spec, at |-> <<>>, whole |-> TRUE,
                         magic |-> TRUE]
         \/ fetch' = fetch /\ ~job.downloading
<1>1. CASE job.downloading
  BY <1>1 DEF Download
<1>2. CASE ~job.downloading
  <2>1. CASE fetch' = fetch
    BY <1>2, <2>1
  <2>2. CASE fetch' # fetch
    <3>1. /\ job' = [job EXCEPT !.downloading = TRUE]
          /\ fetch' = [NoFetch EXCEPT !.pc = "list", !.spec = call[c].spec]
      BY <1>2, <2>2 DEF Download
    <3>2. job'.downloading
      BY <3>1 DEF Shapes
    <3>3. PICK q : q = [NoFetch EXCEPT !.pc = "list"]
      OBVIOUS
    <3>4. q = [pc |-> "list", spec |-> NoTag, at |-> <<>>, whole |-> TRUE, magic |-> TRUE]
      BY <3>3 DEF NoFetch
    <3>5. fetch' = [q EXCEPT !.spec = call[c].spec]
      BY <3>1, <3>3
    <3>6. fetch' = [pc |-> "list", spec |-> call[c].spec, at |-> <<>>, whole |-> TRUE,
                    magic |-> TRUE]
      BY <3>4, <3>5
    <3> QED BY <1>2, <3>2, <3>6
  <2> QED BY <2>1, <2>2
<1> QED BY <1>1, <1>2

\* What a step of the download does to the files.
LEMMA FetchKeepsFiles ==
  ASSUME Shapes, DiskInv, Fetch, faults' \in Nat, faults' >= faults PROVE FilesInv'
<1> USE DEF DiskInv
<1>0. /\ IsFiniteSet(Own) /\ Own \subseteq Places /\ \A at \in Own : disk[at].whole
      /\ fetch.whole /\ fetch.magic \in BOOLEAN
      /\ fetch.pc \notin {"none", "ended"} => job.downloading
      /\ faults \in Nat
      /\ faults = 0 => \A at \in Own : disk[at].magic \/ (fetch.pc = "verify" /\ fetch.at = at /\ ~fetch.magic)
  BY DEF FilesInv, Shapes
<1>1. ASSUME NEW pc, FetchTo(pc), pc \notin {"none", "ended"}, fetch.pc \notin {"none", "ended"},
             fetch.pc # "verify", UNCHANGED <<disk, job>>
      PROVE  FilesInv'
  <2>1. fetch'.pc = pc /\ fetch'.whole = fetch.whole /\ fetch'.magic = fetch.magic
    BY <1>1, FetchGoesTo
  <2> QED BY <1>0, <1>1, <2>1 DEF FilesInv, Own
<1>2. CASE FetchList
  <2>1. /\ UNCHANGED <<disk, job>> /\ fetch.pc = "list"
        /\ fetch'.whole = fetch.whole /\ fetch'.magic = fetch.magic
        /\ fetch'.pc \notin {"none", "ended"}
    BY <1>2, FetchLists DEF FetchList
  <2> QED BY <1>0, <2>1 DEF FilesInv, Own
<1>3. CASE FetchGet
  BY <1>1, <1>3 DEF FetchGet
<1>4. CASE FetchOpen
  <2>1. /\ UNCHANGED <<disk, job>> /\ fetch.pc = "open"
        /\ fetch' = [fetch EXCEPT !.pc = "bytes", !.whole = TRUE]
    BY <1>4 DEF FetchOpen, OpenPart
  <2>2. fetch'.pc = "bytes" /\ fetch'.whole = TRUE /\ fetch'.magic = fetch.magic
    BY <2>1 DEF Shapes
  <2> QED BY <1>0, <2>1, <2>2 DEF FilesInv, Own
<1>5. CASE FetchBytes
  <2>1. CASE FetchTo("failed")
    BY <1>1, <1>5, <2>1 DEF FetchBytes
  <2>2. CASE ~FetchTo("failed")
    <3>1. PICK magic \in BOOLEAN : fetch' = [fetch EXCEPT !.pc = "rename", !.magic = magic]
      BY <1>5, <2>2 DEF FetchBytes
    <3>2. fetch'.pc = "rename" /\ fetch'.whole = fetch.whole /\ fetch'.magic = magic
      BY <3>1 DEF Shapes
    <3>3. UNCHANGED <<disk, job>> /\ fetch.pc = "bytes"
      BY <1>5 DEF FetchBytes
    <3> QED BY <1>0, <3>1, <3>2, <3>3 DEF FilesInv, Own
  <2> QED BY <2>1, <2>2
<1>6. CASE FetchRename
  <2>1. /\ fetch.pc = "rename" /\ UNCHANGED job
        /\ disk' = [at \in Own \cup {fetch.at} |->
                      IF at = fetch.at THEN [whole |-> fetch.whole, magic |-> fetch.magic]
                      ELSE disk[at]]
        /\ fetch'.pc = "verify" /\ fetch'.whole = fetch.whole /\ fetch'.magic = fetch.magic
        /\ fetch'.at = fetch.at
    BY <1>6, FetchGoesTo DEF FetchRename
  <2> DEFINE new == [whole |-> fetch.whole, magic |-> fetch.magic]
  <2>2. /\ DOMAIN disk' = Own \cup {fetch.at} /\ disk'[fetch.at] = new
        /\ \A at \in Own : at # fetch.at => disk'[at] = disk[at]
    BY <2>1 DEF Own
  <2>3. fetch.at \in Places
    <3>1. fetch.at = PlaceOf(fetch.spec) /\ Asked(fetch.spec) /\ Picked(fetch.spec) # Nothing
      BY <2>1 DEF FetchInv, Taken, Landed
    <3>2. Picked(fetch.spec) \in FileNames
      BY <3>1, AskedIsListed, PickIsServed DEF Picked
    <3> QED BY <3>1, <3>2, AskedIsListed DEF PlaceOf, Places
  <2>4. IsFiniteSet(Own \cup {fetch.at})
    BY <1>0, FS_AddElement
  <2>5. \A at \in DOMAIN disk' : disk'[at].whole
    BY <1>0, <2>2
  <2>6. faults' = 0 => \A at \in DOMAIN disk' :
                         disk'[at].magic \/ (at = fetch.at /\ ~fetch.magic)
    <3>1. faults' = 0 => faults = 0
      BY <1>0
    <3>2. disk'[fetch.at].magic = fetch.magic
      BY <2>2
    <3>3. faults = 0 => \A at \in Own : disk[at].magic
      BY <1>0, <2>1
    <3> QED BY <2>2, <3>1, <3>2, <3>3
  <2>7. Own' = Own \cup {fetch.at}
    BY <2>2 DEF Own
  <2> QED BY <1>0, <2>1, <2>3, <2>4, <2>5, <2>6, <2>7 DEF FilesInv, Own
<1>7. CASE FetchVerify
  <2>1. fetch.pc = "verify" /\ UNCHANGED job
    BY <1>7 DEF FetchVerify
  <2>2. CASE fetch.magic
    <3>1. FetchTo("done") /\ disk' = disk
      BY <1>7, <2>2 DEF FetchVerify
    <3>2. fetch'.pc = "done" /\ fetch'.whole = fetch.whole /\ fetch'.magic = fetch.magic
      BY <3>1, FetchGoesTo
    <3>3. faults = 0 => \A at \in Own : disk[at].magic
      BY <1>0, <2>2
    <3> QED BY <1>0, <2>1, <3>1, <3>2, <3>3 DEF FilesInv, Own
  <2>3. CASE ~fetch.magic
    <3>1. FetchTo("failed") /\ disk' = [a \in Own \ {fetch.at} |-> disk[a]]
      BY <1>7, <2>3 DEF FetchVerify
    <3>2. fetch'.pc = "failed" /\ fetch'.whole = fetch.whole /\ fetch'.magic = fetch.magic
      BY <3>1, FetchGoesTo
    <3>3. DOMAIN disk' = Own \ {fetch.at} /\ \A at \in DOMAIN disk' : disk'[at] = disk[at]
      BY <3>1
    <3>4. IsFiniteSet(Own \ {fetch.at})
      BY <1>0, FS_RemoveElement
    <3>5. faults' = 0 => \A at \in DOMAIN disk' : disk'[at].magic
      BY <1>0, <3>3
    <3>6. Own' = Own \ {fetch.at}
      BY <3>3 DEF Own
    <3>7. \A at \in DOMAIN disk' : disk'[at].whole
      BY <1>0, <3>3
    <3> QED BY <1>0, <2>1, <3>2, <3>4, <3>5, <3>6, <3>7 DEF FilesInv, Own
  <2> QED BY <2>2, <2>3
<1>8. CASE FetchPull
  BY <1>1, <1>8 DEF FetchPull
<1>9. CASE FetchSnapshot
  <2>1. CASE fetch' = fetch
    <3> UNCHANGED <<disk, job, faults>>
      BY <1>9 DEF FetchSnapshot
    <3> QED BY <1>0, <2>1 DEF FilesInv, Own
  <2>2. CASE fetch' # fetch
    BY <1>1, <1>9, <2>2 DEF FetchSnapshot
  <2> QED BY <2>1, <2>2
<1>10. CASE FetchEnd
  <2>1. /\ fetch.pc \in {"done", "failed"} /\ disk' = disk
        /\ FetchTo(IF fetch.pc = "done" THEN "ended" ELSE "none")
    BY <1>10 DEF FetchEnd
  <2>2. /\ fetch'.pc \in {"none", "ended"} /\ fetch'.whole = fetch.whole
        /\ fetch'.magic = fetch.magic
    BY <2>1, FetchGoesTo
  <2> QED BY <1>0, <2>1, <2>2 DEF FilesInv, Own
<1>11. ASSUME NEW step \in {"list", "get", "open", "rename"}, FetchFails(step) PROVE FilesInv'
  BY <1>1, <1>11 DEF FetchFails
<1> QED BY <1>2, <1>3, <1>4, <1>5, <1>6, <1>7, <1>8, <1>9, <1>10, <1>11 DEF Fetch

LEMMA FilesNext ==
  ASSUME Shapes, DiskInv, [EngineNext]_vars PROVE FilesInv'
<1>0. faults' \in Nat /\ faults' >= faults /\ faults \in Nat
  BY BirthsGrow DEF Shapes
<1>1. CASE UNCHANGED <<disk, fetch>> /\ (job'.downloading <=> job.downloading)
  BY <1>0, <1>1 DEF DiskInv, FilesInv, Own
<1>2. ASSUME NEW c \in Callers, Asks(c) PROVE FilesInv'
  BY <1>1, <1>2, AsksBegin DEF Begins, fileVars
<1>3. ASSUME NEW c \in Callers, HandlerStep(c) PROVE FilesInv'
  <2>1. CASE Download(c)
    <3>1. disk' = disk
      BY <1>3, HandlerLeavesFetch
    <3>2. CASE fetch' = fetch /\ job' = job
      BY <1>1, <3>1, <3>2
    <3>3. CASE fetch' = fetch /\ ~job.downloading
      BY <1>0, <3>1, <3>3 DEF DiskInv, FilesInv, Own
    <3>4. CASE /\ ~job.downloading /\ job'.downloading
               /\ fetch' = [pc |-> "list", spec |-> call[c].spec, at |-> <<>>, whole |-> TRUE,
                            magic |-> TRUE]
      <4>1. fetch'.pc = "list" /\ fetch'.whole = TRUE /\ fetch'.magic = TRUE
        BY <3>4
      <4>2. fetch.pc # "verify"
        BY <3>4 DEF DiskInv, FilesInv
      <4> QED BY <1>0, <3>1, <3>4, <4>1, <4>2 DEF DiskInv, FilesInv, Own
    <3> QED BY <2>1, <3>2, <3>3, <3>4, DownloadBegins
  <2>2. CASE ~Download(c)
    BY <1>1, <1>3, <2>2, HandlerLeavesFetch
  <2> QED BY <2>1, <2>2
<1>4. ASSUME NEW c \in Callers, ThreadStep(c) PROVE FilesInv'
  BY <1>1, <1>4, ThreadLeavesFetch
<1>5. ASSUME NEW p \in Pids, Bind(p) \/ Quit(p) \/ Terminated(p) \/ OthersStart(p)
      PROVE FilesInv'
  BY <1>1, <1>5 DEF Bind, Quit, Terminated, OthersStart, fileVars
<1>6. CASE Fetch
  BY <1>0, <1>6, FetchKeepsFiles
<1>7. CASE BoxExits
  BY <1>1, <1>7 DEF BoxExits, BoxFrame, fileVars
<1>8. CASE Restart
  <2>1. disk' = disk /\ fetch' = NoFetch /\ faults' = faults + 1
    BY <1>8 DEF Restart, Fault
  <2>2. fetch'.pc = "none" /\ fetch'.whole /\ fetch'.magic \in BOOLEAN /\ faults' # 0
    BY <1>0, <2>1 DEF NoFetch
  <2> QED BY <2>1, <2>2 DEF DiskInv, FilesInv, Own
<1>9. CASE UNCHANGED vars
  BY <1>1, <1>9 DEF vars
<1> QED BY <1>2, <1>3, <1>4, <1>5, <1>6, <1>7, <1>8, <1>9 DEF EngineNext, Asks

LEMMA FetchKeepsFetch ==
  ASSUME Shapes, DiskInv, Fetch PROVE FetchInv'
<1> USE DEF DiskInv
<1>0. UNCHANGED <<engine, call>>
  BY DEF Fetch, FetchList, FetchGet, FetchOpen, FetchBytes, FetchRename, FetchVerify,
     FetchPull, FetchSnapshot, FetchEnd, FetchFails, FetchFrame, fixedVars
<1>1. ASSUME fetch'.spec = fetch.spec, fetch.pc # "none",
             fetch'.pc \in Taken => engine = "llama",
             engine = "llama" /\ fetch'.pc \in Landed =>
               /\ fetch'.at = PlaceOf(fetch.spec)
               /\ Picked(fetch.spec) # Nothing /\ SafeGgufName(Picked(fetch.spec))
               /\ fetch'.pc \in {"verify", "done", "ended"} => fetch'.at \in Own'
      PROVE  FetchInv'
  BY <1>0, <1>1 DEF FetchInv, At
<1>2. ASSUME NEW pc, FetchTo(pc), fetch.pc # "none", pc \in Taken => engine = "llama",
             engine = "llama" /\ pc \in Landed => fetch.pc \in Landed,
             engine = "llama" /\ pc \in {"verify", "done", "ended"} => fetch.at \in Own'
      PROVE  FetchInv'
  <2>1. fetch'.pc = pc /\ fetch'.spec = fetch.spec /\ fetch'.at = fetch.at
    BY <1>2, FetchGoesTo
  <2> QED BY <1>1, <1>2, <2>1 DEF FetchInv
<1>3. CASE FetchList
  <2>1. fetch.pc = "list" /\ engine = "llama" /\ Own' = Own
    BY <1>3 DEF FetchList, Own
  <2> QED BY <1>1, <1>3, <2>1, FetchLists DEF Landed, Taken
<1>4. CASE FetchGet
  <2>1. fetch.pc = "get" /\ engine = "llama"
    BY <1>4 DEF FetchGet, FetchInv, Taken
  <2> QED BY <1>2, <1>4, <2>1 DEF FetchGet, Landed, Taken
<1>5. CASE FetchOpen
  <2>1. /\ fetch.pc = "open" /\ engine = "llama"
        /\ fetch' = [fetch EXCEPT !.pc = "bytes", !.whole = OpenPart(fetch.at)]
    BY <1>5 DEF FetchOpen, FetchInv, Taken
  <2>2. fetch'.pc = "bytes" /\ fetch'.spec = fetch.spec /\ fetch'.at = fetch.at
    BY <2>1 DEF Shapes
  <2> QED BY <1>1, <2>1, <2>2 DEF FetchInv, Landed, Taken
<1>6. CASE FetchBytes
  <2>1. fetch.pc = "bytes" /\ engine = "llama"
    BY <1>6 DEF FetchBytes, FetchInv, Taken
  <2>2. CASE FetchTo("failed")
    BY <1>2, <2>1, <2>2 DEF Landed, Taken
  <2>3. CASE ~FetchTo("failed")
    <3>1. PICK magic \in BOOLEAN : fetch' = [fetch EXCEPT !.pc = "rename", !.magic = magic]
      BY <1>6, <2>3 DEF FetchBytes
    <3>2. fetch'.pc = "rename" /\ fetch'.spec = fetch.spec /\ fetch'.at = fetch.at
      BY <3>1 DEF Shapes
    <3> QED BY <1>1, <2>1, <3>2 DEF FetchInv, Landed, Taken
  <2> QED BY <2>2, <2>3
<1>7. CASE FetchRename
  <2>1. /\ fetch.pc = "rename" /\ engine = "llama" /\ FetchTo("verify")
        /\ disk' = [at \in Own \cup {fetch.at} |->
                      IF at = fetch.at THEN [whole |-> fetch.whole, magic |-> fetch.magic]
                      ELSE disk[at]]
    BY <1>7 DEF FetchRename, FetchInv, Taken
  <2>2. fetch.at \in Own'
    BY <2>1 DEF Own
  <2> QED BY <1>2, <2>1, <2>2 DEF Landed, Taken
<1>8. CASE FetchVerify
  <2>1. fetch.pc = "verify" /\ engine = "llama" /\ fetch.at \in Own
    BY <1>8 DEF FetchVerify, FetchInv, Taken, Landed
  <2>2. FetchTo("failed") \/ (FetchTo("done") /\ disk' = disk)
    BY <1>8 DEF FetchVerify
  <2> QED BY <1>2, <2>1, <2>2 DEF Landed, Taken, Own
<1>9. CASE FetchPull \/ FetchSnapshot
  <2>1. engine # "llama" /\ fetch.pc = "list"
    BY <1>9 DEF FetchPull, FetchSnapshot
  <2>2. fetch' = fetch \/ FetchTo("done")
    BY <1>9 DEF FetchPull, FetchSnapshot
  <2>3. CASE fetch' = fetch
    BY <1>1, <2>1, <2>3 DEF Taken
  <2>4. CASE FetchTo("done")
    BY <1>2, <2>1, <2>4 DEF Taken
  <2> QED BY <2>2, <2>3, <2>4
<1>10. CASE FetchEnd
  <2>1. /\ fetch.pc \in {"done", "failed"} /\ Own' = Own
        /\ FetchTo(IF fetch.pc = "done" THEN "ended" ELSE "none")
    BY <1>10 DEF FetchEnd, Own
  <2>2. CASE fetch.pc = "done"
    BY <1>2, <2>1, <2>2 DEF FetchInv, Landed, Taken
  <2>3. CASE fetch.pc = "failed"
    BY <1>2, <2>1, <2>3 DEF Landed, Taken
  <2> QED BY <2>1, <2>2, <2>3
<1>11. ASSUME NEW step \in {"list", "get", "open", "rename"}, FetchFails(step) PROVE FetchInv'
  BY <1>2, <1>11 DEF FetchFails, Landed, Taken
<1> QED BY SMTT(40), <1>3, <1>4, <1>5, <1>6, <1>7, <1>8, <1>9, <1>10, <1>11 DEF Fetch

LEMMA FetchNext ==
  ASSUME Shapes, DiskInv, [EngineNext]_vars PROVE FetchInv'
<1> USE DEF DiskInv
<1>0. engine' = engine
  BY BirthsGrow DEF fixedVars
<1>1. ASSUME UNCHANGED <<disk, fetch>>,
             \A c \in Callers : call'[c].op = "pull" => engine # "llama",
             engine = "llama" => \A c \in Callers : At(c, "download")' => Asked(call'[c].spec)
      PROVE  FetchInv'
  BY <1>0, <1>1 DEF FetchInv, Own
<1>2. CASE UNCHANGED <<disk, fetch, call>>
  BY <1>1, <1>2 DEF FetchInv, At
<1>3. ASSUME NEW c \in Callers, Asks(c) PROVE FetchInv'
  <2>1. UNCHANGED <<disk, fetch>> /\ \A d \in Callers \ {c} : call'[d] = call[d]
    BY <1>3, AsksBegin DEF Begins, fileVars, Shapes
  <2>2. PICK op, spec, pc : /\ Ask(c, op, spec, pc)
                            /\ op = "pull" => engine # "llama"
                            /\ engine = "llama" /\ pc = "download" => Asked(spec)
    <3>1. CASE AskDownload(c)
      <4>1. CASE engine = "llama"
        <5>1. PICK raw \in Specs : /\ ParseHubSpec(raw) # Nothing
                                  /\ Ask(c, "status", ParseHubSpec(raw), "download")
          BY <3>1, <4>1 DEF AskDownload
        <5>2. Asked(ParseHubSpec(raw))
          BY <5>1 DEF Asked
        <5> QED BY <5>1, <5>2
      <4>2. CASE engine # "llama"
        <5>1. \E op, spec, pc : Ask(c, op, spec, pc)
          BY <3>1, <4>2 DEF AskDownload
        <5> QED BY <4>2, <5>1
      <4> QED BY <4>1, <4>2
    <3>2. CASE ~AskDownload(c)
      <4>1. \E op, spec, pc : Ask(c, op, spec, pc) /\ op # "pull" /\ pc # "download"
        BY <1>3, <3>2 DEF Asks, AskStart, AskStatus, AskStop, AskStartVllm, AskStopVllm
      <4> QED BY <4>1
    <3> QED BY <3>1, <3>2
  <2>3. call' = [call EXCEPT ![c] = [Idle EXCEPT !.op = op, !.spec = spec, !.pc = pc]]
    BY <2>2 DEF Ask
  <2>4. call'[c].op = op /\ call'[c].spec = spec /\ call'[c].pc = pc
    BY <2>3, NewCall DEF Shapes
  <2> QED BY <1>1, <2>1, <2>2, <2>4 DEF FetchInv, At
<1>4. ASSUME NEW c \in Callers, HandlerStep(c) PROVE FetchInv'
  <2>1. disk' = disk /\ \A d \in Callers \ {c} : call'[d] = call[d]
    BY <1>4, HandlerLeavesFetch, HandlerMoves DEF Moves
  <2>2. /\ call'[c].op = "pull" => call[c].op = "pull"
        /\ call'[c].pc = "download" => call[c].op = "pull"
    BY <1>4 DEF HandlerStep, Claim, Spawn, SpawnFails, Record, Keep, Reap, ProbeServer, Answers,
       Stop, Download, ClaimBox, StopBox, ReadBox, Goto, End, Return, ReturnStatusLocked, Idle,
       Shapes, At, CallShape
  <2>3. CASE fetch' = fetch
    BY <1>1, <2>1, <2>2, <2>3 DEF FetchInv, At
  <2>4. CASE fetch' # fetch
    <3>1. fetch' = [pc |-> "list", spec |-> call[c].spec, at |-> <<>>, whole |-> TRUE,
                    magic |-> TRUE] /\ At(c, "download")
      BY <1>4, <2>4, HandlerLeavesFetch, DownloadBegins DEF Download
    <3>2. fetch'.pc = "list" /\ fetch'.spec = call[c].spec
      BY <3>1
    <3>3. engine = "llama" => Asked(call[c].spec)
      BY <3>1 DEF FetchInv
    <3> QED BY <1>0, <2>1, <2>2, <3>2, <3>3 DEF FetchInv, At, Taken, Landed
  <2> QED BY <2>3, <2>4
<1>5. ASSUME NEW c \in Callers, ThreadStep(c) PROVE FetchInv'
  BY <1>2, <1>5, ThreadLeavesFetch
<1>6. ASSUME NEW p \in Pids, Bind(p) \/ Quit(p) \/ Terminated(p) \/ OthersStart(p)
      PROVE FetchInv'
  BY <1>2, <1>6 DEF Bind, Quit, Terminated, OthersStart, fileVars
<1>7. CASE Fetch
  BY <1>7, FetchKeepsFetch
<1>8. CASE BoxExits
  BY <1>2, <1>8 DEF BoxExits, BoxFrame, fileVars
<1>9. CASE Restart
  <2>1. fetch' = NoFetch /\ \A c \in Callers : call'[c] = Idle
    BY <1>9 DEF Restart
  <2> QED BY <2>1 DEF FetchInv, NoFetch, Idle, At, Taken, Landed
<1>10. CASE UNCHANGED vars
  BY <1>2, <1>10 DEF vars
<1> QED BY <1>3, <1>4, <1>5, <1>6, <1>7, <1>8, <1>9, <1>10 DEF EngineNext, Asks

LEMMA DiskInvImplies ==
  ASSUME DiskInv, faults \in Nat PROVE DownloadsWhole
<1>1. IsFiniteSet(Own) /\ Own \in SUBSET Places
  BY DEF DiskInv, FilesInv
<1>2. OnDiskIsWhole
  BY DEF DiskInv, FilesInv, OnDiskIsWhole
<1>3. NoForeignFile
  BY DEF DiskInv, FilesInv, NoForeignFile
<1>4. StartFindsDownload
  <2> SUFFICES ASSUME engine = "llama", fetch.pc = "ended"
               PROVE  \/ fetch.at[2] \in ResolveGgufFile(fetch.spec, Own, HubCache)
                      \/ /\ fetch.spec.tag = NoTag
                         /\ \E at \in Own : /\ at[1] = fetch.at[1]
                                            /\ at[2] \notin ToSet(HubFiles[fetch.spec.repo])
    BY DEF StartFindsDownload
  <2>1. /\ fetch.at = PlaceOf(fetch.spec) /\ Asked(fetch.spec) /\ fetch.at \in Own
        /\ Picked(fetch.spec) # Nothing /\ SafeGgufName(Picked(fetch.spec))
    BY DEF DiskInv, FetchInv, Landed
  <2>2. fetch.at[2] = Picked(fetch.spec)
    BY <2>1 DEF PlaceOf
  <2> QED BY <1>1, <2>1, <2>2, StartFinds
<1>5. ListedCanStart
  BY <1>1, ListedStarts DEF ListedCanStart
<1> QED BY <1>2, <1>3, <1>4, <1>5 DEF DownloadsWhole

---------------------------------------------------------------------------
(* Theorems.                                                               *)

LEMMA InitIInv == EngineInit => IInv
<1> SUFFICES ASSUME EngineInit PROVE IInv
  OBVIOUS
<1>1. Shapes
  BY InitShapes
<1>2. HolderInv
  BY EngineAssumption DEF EngineInit, HolderInv, At
<1>3. \A p \in Pids : procs[p] = [st |-> "free", birth |-> 0, by |-> "none"]
  BY DEF EngineInit, Gone
<1>4. /\ births = 0 /\ job.child = NoPid /\ pidfile = NoPid
      /\ \A c \in Callers : call[c].pc = "idle"
  BY DEF EngineInit, NoJob, Idle
<1>5. PidsInv
  <2>1. \A p \in Pids : Process(procs[p])
    BY <1>3, <1>4 DEF Process
  <2> QED BY <1>4, <2>1 DEF PidsInv, Holding, EngineInit
<1>6. RecordInv /\ KillsOnlyOwn /\ AloneInv /\ NoneEscapes
  BY <1>3, <1>4 DEF RecordInv, KillsOnlyOwn, AloneInv, NoneEscapes, Flight, Ours, Running
<1>7. DownInv
  BY DEF EngineInit, DownInv
<1> QED BY <1>1, <1>2, <1>5, <1>6, <1>7 DEF IInv, ServerInv

LEMMA NextIInv == IInv /\ [EngineNext]_vars => IInv'
BY ShapesNext, HolderNext, ServerNext, DownNext DEF IInv

LEMMA Invariant == EngineSpec => []IInv
BY InitIInv, NextIInv, PTL DEF EngineSpec

LEMMA IInvImplies == IInv => ServersOwned
<1> SUFFICES ASSUME IInv PROVE ServersOwned
  OBVIOUS
<1>1. procs \in [Pids -> [st : {"free", "up", "serving", "exited", "ending"},
                          birth : 0..MaxBirths,
                          by : {"none", "child", "orphan", "user", "other"}]]
  <2>1. \A p \in Pids : procs[p] \in [st : {"free", "up", "serving", "exited", "ending"},
                                      birth : 0..MaxBirths,
                                      by : {"none", "child", "orphan", "user", "other"}]
    <3> SUFFICES ASSUME NEW p \in Pids
                 PROVE  procs[p] \in [st : {"free", "up", "serving", "exited", "ending"},
                                      birth : 0..MaxBirths,
                                      by : {"none", "child", "orphan", "user", "other"}]
      OBVIOUS
    <3>1. Process(procs[p])
      BY DEF IInv, ServerInv, PidsInv
    <3>2. procs[p].birth \in 0..MaxBirths
      BY <3>1, EngineAssumption DEF Process, IInv, Shapes
    <3> QED BY <3>1, <3>2 DEF Process
  <2>2. procs = [p \in Pids |-> procs[p]]
    BY DEF IInv, Shapes
  <2> QED BY <2>1, <2>2
<1>2. EngineTypeOK
  BY <1>1 DEF EngineTypeOK, IInv, Shapes, HolderInv, ServerInv, PidsInv
<1>3. KillsOnlyOwn /\ NoneEscapes
  BY DEF IInv, ServerInv
<1>4. StoppedStaysDown
  BY DEF IInv, DownInv, StoppedStaysDown
<1> QED BY <1>2, <1>3, <1>4 DEF ServersOwned

(* Of the servers only those Late started are killed, none gets out of     *)
(* reach unless calls overlapped or a step failed unseen, and one that was *)
(* stopped last stays down: for any connections, processes and faults.     *)
(* (weights.rs start_llama_server, stop_llama_server; inference.rs)        *)
THEOREM ServersAlwaysOwned == EngineSpec => []ServersOwned
BY Invariant, IInvImplies, PTL

(* A model of the library that the container was started with fits the     *)
(* cards it was given, and llama-server is spread over no more cards than  *)
(* it sees: for any machines, models and settings.                         *)
(* (inference.rs start_model, serving_profile; gpu_profile.rs launch_plan) *)
THEOREM LaunchesAlwaysSound == EngineSpec => []LaunchSound
<1>1. Shapes /\ LaunchInv /\ [EngineNext]_vars => Shapes' /\ LaunchInv'
  BY ShapesNext, LaunchNext
<1> QED BY InitShapes, InitLaunch, LaunchInvImplies, <1>1, PTL DEF EngineSpec

(* Every file a start may take is a whole GGUF file, and download, list    *)
(* and start mean the same file by the same name: for any repositories,    *)
(* names, folders, connections and faults.                                 *)
(* (weights.rs download_gguf, pick_gguf_file, scan_gguf_dir,               *)
(* resolve_gguf_file)                                                      *)
THEOREM DownloadsAlwaysWhole == EngineSpec => []DownloadsWhole
<1>1. Shapes /\ DiskInv /\ [EngineNext]_vars => Shapes' /\ DiskInv'
  BY ShapesNext, FilesNext, FetchNext DEF DiskInv
<1>2. Shapes /\ DiskInv => DownloadsWhole
  BY DiskInvImplies DEF Shapes
<1> QED BY InitShapes, InitDisk, <1>1, <1>2, PTL DEF EngineSpec
=============================================================================
