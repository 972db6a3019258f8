---------------------------- MODULE SessionStream ----------------------------
(***************************************************************************)
(* One terminal session and the WebSocket connections to the daemon: what  *)
(* the terminal prints goes through scrollback, a coalescing buffer and a  *)
(* ring of events to every socket, and to the session log; what is typed   *)
(* goes through a socket into the queue of the terminal.  Scrollback is    *)
(* also read out with its secrets replaced by numbers.                     *)
(*                                                                         *)
(* Output is numbered in chunks as it is printed, and a key is a pair of   *)
(* its connection and its number there.  The channel from the worker to    *)
(* the task that reads it is in SessionLifecycle; here the task takes what *)
(* there is at once.                                                       *)
(***************************************************************************)
EXTENDS Integers, FiniteSets, SequencesExt

CONSTANTS Conns,    \* WebSocket connections; each is opened at most once
          Typists,  \* those that are there when a client types (a bound)
          Readers,  \* handlers that read the redacted scrollback
          Secrets,  \* what the terminal may print that is to be hidden
          SecretIn, \* [chunk -> the secret in it]
          ScrollCap, EventCap, InputCap, SeenCap,   \* capacities of the code
          MaxChunks, MaxKeys, MaxLogs, MaxReads     \* bounds

ASSUME StreamAssumption ==
  /\ {ScrollCap, EventCap, InputCap, SeenCap} \subseteq Nat \ {0}
  /\ {MaxChunks, MaxKeys, MaxLogs, MaxReads} \subseteq Nat
  /\ Typists \subseteq Conns
  /\ SecretIn \in [1..MaxChunks -> Secrets]

VARIABLES watched, \* fixed: which side of the session takes part in the behaviour
          mapped,  \* the session is in the map
          made,    \* chunks printed so far
          scroll,  \* scrollback
          pending, \* read, not yet announced
          flushing,\* announced, not yet in the log
          path,    \* the log path the task found, 0 for none
          task,    \* the task that reads the terminal
          events,  \* all events there were; the ring holds the last EventCap
          ws,      \* [Conns -> the loop of a connection]
          got,     \* [Conns -> the events sent to it]
          wire,    \* [Conns -> what is under way to the daemon]
          sent,    \* [Conns -> keys made]
          input, typed, \* the queue of the terminal, and what it took
          logging, \* the log path of the session, 0 for none
          logs,    \* [path -> the file]
          starts,  \* how often a log was started; at most MaxLogs
          redactor,\* the numbers of the session for its secrets
          reader,  \* [Readers -> a redacted read]
          reads,   \* how many there were
          said,    \* history: <<secret, number>> that were answered
          raced, cleared, \* history: two reads overlapped; numbers began anew
          held     \* history: what waited to be logged when the log was started

sessionVars == <<mapped, made, scroll, pending, flushing, path, task>>
socketVars == <<ws, got, wire, sent, input, typed>>
logVars == <<logging, logs, starts, held>>
readVars == <<redactor, reader, reads, said, raced, cleared>>
vars == <<watched, sessionVars, events, socketVars, logVars, readVars>>

NoNumbers == [seen |-> [s \in Secrets |-> 0], next |-> 1]
Idle == [pc |-> "idle", raw |-> <<>>, copy |-> NoNumbers, out |-> {}]
Off == [pc |-> "off", pos |-> 0, start |-> 0, lagged |-> FALSE, job |-> <<>>]
Closed == <<0>>   \* the event session.closed among events of data

StreamInit ==
  /\ watched \in {"screens", "keyboard", "log", "readers"}
  /\ mapped = TRUE /\ made = 0 /\ scroll = <<>> /\ pending = <<>> /\ flushing = <<>>
  /\ path = 0 /\ task = "loop" /\ events = <<>>
  /\ ws = [c \in Conns |-> Off] /\ got = [c \in Conns |-> <<>>]
  /\ wire = [c \in Conns |-> <<>>] /\ sent = [c \in Conns |-> 0]
  /\ input = <<>> /\ typed = <<>>
  /\ logging = 0 /\ logs = <<>> /\ starts = 0 /\ held = {}
  /\ redactor = NoNumbers /\ reader = [r \in Readers |-> Idle] /\ reads = 0
  /\ said = {} /\ raced = FALSE /\ cleared = FALSE

Last_(s, n) == SubSeq(s, IF Len(s) > n THEN Len(s) - n + 1 ELSE 1, Len(s))

---------------------------------------------------------------------------
(* The task of the session.                                                *)

(* A mutant of Trim. *)
Untrimmed(s) == s

(* Scrollback loses its oldest bytes. *)
Trim(s) == Last_(s, ScrollCap)

(* A chunk is taken; it is announced now (a short one, or much is pending) *)
(* or with what comes next.  A session that is gone ends the loop.         *)
IngestChunk ==
  /\ task = "loop" /\ made < MaxChunks
  /\ made' = made + 1
  /\ IF mapped
       THEN /\ scroll' = Trim(Append(scroll, made'))
            /\ pending' = Append(pending, made')
            /\ task' \in {"loop", "flush"}
       ELSE UNCHANGED <<scroll, pending>> /\ task' = "final"
  /\ UNCHANGED <<watched, mapped, flushing, path, events, socketVars, logVars, readVars>>

(* The ticker, or the end of the terminal. *)
Tick == task = "loop" /\ pending # <<>> /\ task' = "flush"
Ends == task = "loop" /\ task' = "final"

(* A mutant of Taken. *)
TakenIsKept == UNCHANGED pending

(* flush_session_output takes all that is pending. *)
Taken == pending' = <<>>

(* The event is sent before the log is looked for. *)
EmitSessionData ==
  /\ task \in {"flush", "final"} /\ pending # <<>>
  /\ events' = Append(events, pending)
  /\ flushing' = pending /\ Taken
  /\ task' = IF task = "final" THEN "final_path" ELSE "path"
  /\ UNCHANGED <<watched, mapped, made, scroll, path, socketVars, logVars, readVars>>

After(pc) == IF task = pc THEN "loop" ELSE "final"

(* The path is read under the lock; a session that is gone has none. *)
LogPath ==
  /\ task \in {"path", "final_path"}
  /\ path' = IF mapped THEN logging ELSE 0
  /\ task' = IF task = "path" THEN "append" ELSE "final_append"
  /\ UNCHANGED <<watched, mapped, made, scroll, pending, flushing, events,
                 socketVars, logVars, readVars>>

(* The file is written outside the lock. *)
AppendLog ==
  /\ task \in {"append", "final_append"}
  /\ logs' = IF path = 0 THEN logs ELSE [logs EXCEPT ![path] = @ \o flushing]
  /\ flushing' = <<>> /\ path' = 0
  /\ task' = After("append")
  /\ UNCHANGED <<watched, mapped, made, scroll, pending, events, socketVars, logging, starts, held,
                 readVars>>

(* After the last flush a session that is still mapped was dropped. *)
Dropped ==
  /\ task = "final" /\ pending = <<>>
  /\ task' = "done"
  /\ events' = IF mapped THEN Append(events, Closed) ELSE events
  /\ UNCHANGED <<watched, mapped, made, scroll, pending, flushing, path,
                 socketVars, logVars, readVars>>

(* The session leaves the map and the event is sent in one critical section. *)
CloseSession ==
  /\ mapped
  /\ mapped' = FALSE /\ events' = Append(events, Closed)
  /\ UNCHANGED <<watched, made, scroll, pending, flushing, path, task,
                 socketVars, logVars, readVars>>

TaskStep ==
  \/ IngestChunk \/ EmitSessionData \/ LogPath \/ AppendLog \/ Dropped
  \/ /\ Tick \/ Ends
     /\ UNCHANGED <<watched, mapped, made, scroll, pending, flushing, path, events,
                    socketVars, logVars, readVars>>

---------------------------------------------------------------------------
(* The connections.                                                        *)

WsUpgrade(c) ==
  /\ ws[c].pc = "off" /\ (watched = "keyboard" => c \in Typists)
  /\ ws' = [ws EXCEPT ![c].pc = "open", ![c].pos = Len(events), ![c].start = Len(events)]
  /\ UNCHANGED <<got, wire, sent, input, typed>>

(* The client types a key, or asks for two lines to be pushed. *)
ClientSends(c) ==
  /\ ws[c].pc = "open" /\ watched = "keyboard"
  /\ \E n \in 1..2 :
       /\ sent[c] + n <= MaxKeys
       /\ sent' = [sent EXCEPT ![c] = @ + n]
       /\ wire' = [wire EXCEPT ![c] = Append(@, [i \in 1..n |-> <<c, sent[c] + i>>])]
  /\ UNCHANGED <<ws, got, input, typed>>

ClientCloses(c) ==
  /\ ws[c].pc = "open"
  /\ ws' = [ws EXCEPT ![c].pc = "closing"]
  /\ UNCHANGED <<got, wire, sent, input, typed>>

(* A mutant of WriteWaits. *)
WaitsForRoom == mapped /\ Len(input) = InputCap

(* App::write never waits: try_send. *)
WriteWaits == FALSE

(* A full queue and a session that is gone lose the key. *)
Write(k) ==
  /\ ~WriteWaits
  /\ input' = IF mapped /\ Len(input) < InputCap THEN Append(input, k) ELSE input

(* A mutant of LoopIsFree. *)
LoopSpawns(c) == ws[c].pc \in {"open", "closing"}

(* A request is awaited in the loop: until it is answered nothing else of  *)
(* the socket is read and no event is sent.                                *)
LoopIsFree(c) == ws[c].pc \in {"open", "closing"} /\ ws[c].job = <<>>

(* A frame, or a request whose handler sleeps between two lines. *)
LoopReceives(c) ==
  /\ LoopIsFree(c) /\ wire[c] # <<>>
  /\ Write(Head(wire[c])[1])
  /\ wire' = [wire EXCEPT ![c] = Tail(@)]
  /\ ws' = [ws EXCEPT ![c].job = @ \o Tail(Head(wire[c]))]
  /\ UNCHANGED <<got, sent, typed>>

HandlerGoesOn(c) ==
  /\ ws[c].job # <<>>
  /\ Write(Head(ws[c].job))
  /\ ws' = [ws EXCEPT ![c].job = Tail(@)]
  /\ UNCHANGED <<got, wire, sent, typed>>

(* A receiver that is too far behind goes on with the oldest event in the ring. *)
LoopServes(c) ==
  /\ LoopIsFree(c) /\ ws[c].pos < Len(events)
  /\ IF Len(events) - ws[c].pos > EventCap
       THEN /\ ws' = [ws EXCEPT ![c].pos = Len(events) - EventCap, ![c].lagged = TRUE]
            /\ UNCHANGED got
       ELSE /\ ws' = [ws EXCEPT ![c].pos = @ + 1]
            /\ got' = [got EXCEPT ![c] = Append(@, events[ws[c].pos + 1])]
  /\ UNCHANGED <<wire, sent, input, typed>>

(* The end of the socket is read, or a send to it fails. *)
LoopEnds(c) ==
  /\ ws[c].pc = "closing" /\ ws[c].job = <<>>
  /\ ws' = [ws EXCEPT ![c].pc = "gone"]
  /\ wire' = [wire EXCEPT ![c] = <<>>]
  /\ UNCHANGED <<got, sent, input, typed>>

(* The terminal takes a key when it likes. *)
TerminalReads ==
  /\ input # <<>>
  /\ typed' = Append(typed, Head(input)) /\ input' = Tail(input)
  /\ UNCHANGED <<ws, got, wire, sent>>

LoopStep(c) == LoopReceives(c) \/ HandlerGoesOn(c) \/ LoopServes(c) \/ LoopEnds(c)

SocketStep ==
  /\ watched \in {"screens", "keyboard"}
  /\ \/ TerminalReads
     \/ \E c \in Conns : WsUpgrade(c) \/ ClientSends(c) \/ ClientCloses(c) \/ LoopStep(c)
  /\ UNCHANGED <<watched, sessionVars, events, logVars, readVars>>

---------------------------------------------------------------------------
(* The session log.                                                        *)

(* A mutant of FirstLines. *)
HeaderOnly == <<>>

(* A log that is started begins with scrollback. *)
FirstLines == scroll

(* The name of the file has the time to the second: a log that is stopped  *)
(* and started within one goes on in the same file.                        *)
LogFiles == {Len(logs) + 1} \cup ({Len(logs)} \ {0})

(* What is still to be flushed will be written to the file again. *)
StartLog ==
  /\ mapped /\ starts < MaxLogs
  /\ starts' = starts + 1
  /\ \E p \in LogFiles :
       /\ logs' = IF p > Len(logs) THEN Append(logs, FirstLines)
                                   ELSE [logs EXCEPT ![p] = @ \o FirstLines]
       /\ logging' = p
       /\ held' = UNION {IF p > Len(logs) THEN {} ELSE held \cup Range(logs[p]),
                         Range(pending),
                         IF task \in {"path", "final_path"} \/ path = p THEN Range(flushing)
                                                                 ELSE {}}

StopLog ==
  /\ mapped /\ logging # 0
  /\ logging' = 0
  /\ UNCHANGED <<logs, starts, held>>

SetLogging ==
  /\ watched = "log"
  /\ StartLog \/ StopLog
  /\ UNCHANGED <<watched, sessionVars, events, socketVars, readVars>>

---------------------------------------------------------------------------
(* Redacted reads.                                                         *)

Full(rd) == Cardinality({s \in Secrets : rd.seen[s] # 0}) >= SeenCap

(* The number of a secret: the one it has, or the next; at the cap the     *)
(* history is dropped.                                                     *)
Token(rd, s) ==
  LET room == IF Full(rd) THEN NoNumbers ELSE rd
  IN IF rd.seen[s] # 0 THEN rd
     ELSE [seen |-> [room.seen EXCEPT ![s] = room.next], next |-> room.next + 1]

(* Under the lock: the tail that was asked for, and a clone of the redactor. *)
CopyScrollback(r) ==
  /\ reader[r].pc = "idle" /\ mapped /\ scroll # <<>> /\ reads < MaxReads
  /\ reads' = reads + 1
  /\ \E n \in 1..Len(scroll) :
       reader' = [reader EXCEPT ![r] = [pc |-> "redact", raw |-> Last_(scroll, n),
                                        copy |-> redactor, out |-> {}]]
  /\ raced' = (raced \/ \E q \in Readers : reader[q].pc = "redact")
  /\ UNCHANGED <<redactor, said, cleared>>

(* Outside the lock, on the clone: the next secret of the tail.            *)
Redact(r) ==
  /\ reader[r].pc = "redact" /\ reader[r].raw # <<>>
  /\ LET rd == reader[r].copy
         s == SecretIn[Head(reader[r].raw)]
     IN /\ reader' = [reader EXCEPT ![r] = [pc |-> "redact", raw |-> Tail(reader[r].raw),
                         copy |-> Token(rd, s),
                         out |-> reader[r].out \cup {<<s, Token(rd, s).seen[s]>>}]]
        /\ cleared' = (cleared \/ (rd.seen[s] = 0 /\ Full(rd)))
  /\ UNCHANGED <<redactor, reads, said, raced>>

(* A mutant of StoredBack. *)
NotStored(rd) == UNCHANGED redactor

StoredBack(rd) == redactor' = IF mapped THEN rd ELSE redactor

(* Under the lock again the clone is stored, and the answer goes out.      *)
RedactedScrollback(r) ==
  /\ reader[r].pc = "redact" /\ reader[r].raw = <<>>
  /\ StoredBack(reader[r].copy)
  /\ said' = said \cup reader[r].out
  /\ reader' = [reader EXCEPT ![r] = Idle]
  /\ UNCHANGED <<reads, raced, cleared>>

ReadStep ==
  /\ watched = "readers"
  /\ \E r \in Readers : CopyScrollback(r) \/ Redact(r) \/ RedactedScrollback(r)
  /\ UNCHANGED <<watched, sessionVars, events, socketVars, logVars>>

---------------------------------------------------------------------------
StreamNext == TaskStep \/ CloseSession \/ SocketStep \/ SetLogging \/ ReadStep

(* The runtime polls a loop that can go on; a client reads what it is sent. *)
(* Nothing makes a terminal print, read or end.                             *)
StreamSpec ==
  /\ StreamInit /\ [][StreamNext]_vars
  /\ \A c \in Conns : WF_vars(SocketStep /\ LoopStep(c))

---------------------------------------------------------------------------
(* Properties.                                                             *)

Contiguous(s) == \A i \in 2..Len(s) : s[i] = s[i - 1] + 1

(* The state is of its type, and no buffer outgrows its cap: scrollback    *)
(* keeps the last ScrollCap chunks (SCROLLBACK_BYTE_CAP), the queue of the *)
(* terminal the first InputCap keys.                                       *)
StreamTypeOK ==
  /\ Len(scroll) <= ScrollCap /\ Len(input) <= InputCap /\ Contiguous(scroll)
  /\ logging \in 0..Len(logs) /\ path \in 0..Len(logs)
  /\ task \in {"loop", "flush", "path", "append", "final", "final_path", "final_append", "done"}
  /\ \A c \in Conns : /\ ws[c].pc \in {"off", "open", "closing", "gone"}
                      /\ ws[c].start <= ws[c].pos /\ ws[c].pos <= Len(events)

(* What a connection is sent is what the terminal printed, in order and    *)
(* nothing twice; only a receiver that lagged has a gap (ws_loop,          *)
(* flush_session_output).                                                  *)
Data(c) == {i \in DOMAIN got[c] : got[c][i] # Closed}
Heard(c) == UNION {Range(got[c][i]) : i \in Data(c)}
OutputInOrder ==
  \A c \in Conns :
    /\ \A i, j \in Data(c) : \A k \in DOMAIN got[c][i], l \in DOMAIN got[c][j] :
         i < j \/ (i = j /\ k < l) => got[c][i][k] < got[c][j][l]
    /\ ~ws[c].lagged => \A m, n \in Heard(c) : m..n \subseteq Heard(c)

(* No buffer outgrows its cap, and what is left of the output is in order. *)
OutputKept == StreamTypeOK /\ OutputInOrder

(* The terminal takes the keys of a connection in the order they were made *)
(* and each at most once, also when a request that types slowly comes      *)
(* between: a key typed during a push waits for its end (ws_loop awaits    *)
(* the handler).                                                           *)
KeysInOrder ==
  \A i, j \in DOMAIN typed :
    i < j /\ typed[i][1] = typed[j][1] => typed[i][2] < typed[j][2]

(* Once a connection could learn that the session was closed, it does,     *)
(* unless it lagged or ended: a terminal that takes no more keys does not  *)
(* keep events from a socket that types into it (App::write, ws_loop).     *)
EndIsSent(c) == \E i \in (ws[c].start + 1)..Len(events) : events[i] = Closed
EndReachesSockets ==
  \A c \in Conns :
    (ws[c].pc = "open" /\ EndIsSent(c))
      ~> (ws[c].pc # "open" \/ ws[c].lagged \/ Closed \in Range(got[c]))

(* While the session is logged nothing printed is missing: every chunk     *)
(* from the oldest the log has is in the file or on its way to it, however *)
(* the start of the log and the flushes of the task fall together          *)
(* (set_logging, flush_session_output).                                    *)
OnItsWay == Range(pending) \cup
            (IF task \in {"path", "final_path"} \/ path = logging THEN Range(flushing) ELSE {})
LogHasNoGaps ==
  (mapped /\ logging # 0) =>
    LET file == logs[logging]
    IN \A n \in Range(scroll) : n \in Range(file) \cup OnItsWay

(* What is in the file twice had been printed and not yet flushed when the *)
(* log was started, or was there when it was started again in the same     *)
(* file (set_logging).                                                     *)
LogRepeatsOnlyHeld ==
  logging # 0 =>
    \A i, j \in 1..Len(logs[logging]) :
      (i < j /\ logs[logging][i] = logs[logging][j]) => logs[logging][i] \in held

(* A log has all of the output since its oldest line, and twice only what  *)
(* was on its way when it was started.                                     *)
LogComplete == LogHasNoGaps /\ LogRepeatsOnlyHeld

(* Equal secrets have equal numbers and others different ones, over all    *)
(* the answers of the session (Redactor::token).                           *)
Stable == \A p, q \in said : (p[1] = q[1]) <=> (p[2] = q[2])

(* As long as no two reads overlapped and the history was not dropped.     *)
NumbersStableAlone == ~raced /\ ~cleared => Stable
=============================================================================
