------------------------- MODULE SessionStreamProofs -------------------------
(***************************************************************************)
(* Proofs about SessionStream for any number of connections, readers and   *)
(* secrets, any capacities and any length of the output.                   *)
(***************************************************************************)
EXTENDS SessionStream, SequenceTheorems, TLAPS

Chunks == 1..MaxChunks
Keys == Conns \X Nat
Packets == Seq(Keys) \ {<<>>}
Numbers == [seen : [Secrets -> Nat], next : Nat \ {0}]
Sockets == [pc : {"off", "open", "closing", "gone"}, pos : Nat, start : Nat, lagged : BOOLEAN,
            job : Seq(Keys)]
Readings == [pc : {"idle", "redact"}, raw : Seq(Chunks), copy : Numbers,
             out : SUBSET (Secrets \X Nat)]

TaskTypes ==
  /\ watched \in {"screens", "keyboard", "log", "readers"}
  /\ mapped \in BOOLEAN /\ made \in 0..MaxChunks
  /\ scroll \in Seq(Chunks) /\ pending \in Seq(Chunks) /\ flushing \in Seq(Chunks)
  /\ path \in Nat
  /\ task \in {"loop", "flush", "path", "append", "final", "final_path", "final_append", "done"}
  /\ events \in Seq(Seq(Nat))

SocketTypes ==
  /\ ws \in [Conns -> Sockets]
  /\ got \in [Conns -> Seq(Seq(Nat))]
  /\ wire \in [Conns -> Seq(Packets)] /\ sent \in [Conns -> Nat]
  /\ input \in Seq(Keys) /\ typed \in Seq(Keys)

LogTypes ==
  /\ logging \in Nat /\ logs \in Seq(Seq(Chunks)) /\ starts \in Nat
  /\ held \subseteq Chunks

ReadTypes ==
  /\ redactor \in Numbers
  /\ reader \in [Readers -> Readings]
  /\ reads \in Nat /\ said \subseteq Secrets \X Nat
  /\ raced \in BOOLEAN /\ cleared \in BOOLEAN

Types == TaskTypes /\ SocketTypes /\ LogTypes /\ ReadTypes

Rising(s) == \A i, j \in DOMAIN s : i < j => s[i] < s[j]
Upto(s, n) == \A i \in DOMAIN s : 1 <= s[i] /\ s[i] <= n
Precedes(s, t) == \A i \in DOMAIN s, j \in DOMAIN t : s[i] < t[j]

\* The events that carry output, and the chunks announced or about to be.
Told == {i \in DOMAIN events : events[i] # Closed}
Printed(n) == n \in Range(pending) \/ \E i \in Told : n \in Range(events[i])

\* The task has not met the end of the session.
Live == task \in {"loop", "flush", "path", "append"}

\* Scrollback ends with the last chunk; what is read is announced whole.
ScrollInv ==
  /\ Contiguous(scroll) /\ Rising(scroll) /\ Len(scroll) <= ScrollCap /\ Upto(scroll, made)
  /\ Live => IF scroll = <<>> THEN made = 0 ELSE scroll[Len(scroll)] = made

EventsInv ==
  /\ Rising(pending) /\ Upto(pending, made)
  /\ \A i \in Told : Rising(events[i]) /\ Upto(events[i], made) /\ Precedes(events[i], pending)
  /\ \A i, j \in Told : i < j => Precedes(events[i], events[j])
  /\ \A n \in Nat : Printed(n) => \A m \in 1..n : Printed(m)
  /\ Live => \A m \in 1..made : Printed(m)

\* What a connection was sent are events up to its place in the ring.
HeardInv ==
  \A c \in Conns :
    /\ ws[c].start <= ws[c].pos /\ ws[c].pos <= Len(events)
    /\ ws[c].pc = "off" => got[c] = <<>>
    /\ \A i \in DOMAIN got[c] : \E j \in 1..ws[c].pos : got[c][i] = events[j]
    /\ \A i, j \in Data(c) : i < j => Precedes(got[c][i], got[c][j])
    /\ ~ws[c].lagged => /\ Len(got[c]) = ws[c].pos - ws[c].start
                        /\ \A i \in DOMAIN got[c] : got[c][i] = events[ws[c].start + i]

\* k was made before l, when both are of one connection.
Before(k, l) == k[1] = l[1] => k[2] < l[2]

\* The terminal takes what is queued in the order it was queued.
QueueInv ==
  /\ \A i, j \in DOMAIN typed : i < j => Before(typed[i], typed[j])
  /\ \A i, j \in DOMAIN input : i < j => Before(input[i], input[j])
  /\ \A i \in DOMAIN typed, j \in DOMAIN input : Before(typed[i], input[j])

\* The keys of a connection that the queue has not seen.
Rest(c, k) ==
  \/ k \in Range(ws[c].job)
  \/ \E i \in DOMAIN wire[c] : k \in Range(wire[c][i])

\* What was queued was made before all that is still to be.
Passed(k) == k[2] <= sent[k[1]] /\ \A l \in Keys : Rest(k[1], l) => Before(k, l)

PassedInv == /\ \A i \in DOMAIN typed : Passed(typed[i])
             /\ \A i \in DOMAIN input : Passed(input[i])

\* A handler finishes before the next packet, and packets are in order.
ConnInv(c) ==
  /\ \A k \in Keys : Rest(c, k) => k[1] = c /\ k[2] <= sent[c]
  /\ \A i, j \in DOMAIN ws[c].job : i < j => Before(ws[c].job[i], ws[c].job[j])
  /\ \A i \in DOMAIN wire[c] : \A k, l \in DOMAIN wire[c][i] :
       k < l => Before(wire[c][i][k], wire[c][i][l])
  /\ \A i, j \in DOMAIN wire[c] : \A k \in DOMAIN wire[c][i], l \in DOMAIN wire[c][j] :
       i < j => Before(wire[c][i][k], wire[c][j][l])
  /\ \A i \in DOMAIN ws[c].job, j \in DOMAIN wire[c] : \A l \in DOMAIN wire[c][j] :
       Before(ws[c].job[i], wire[c][j][l])

KeysInv == QueueInv /\ PassedInv /\ \A c \in Conns : ConnInv(c)

\* What is on its way to the log is not in it already, unless it is held.
LogInv ==
  /\ path # 0 => task \in {"append", "final_append"}
  /\ path <= Len(logs) /\ logging <= Len(logs)
  /\ \A p \in DOMAIN logs : Upto(logs[p], made)
  /\ Rising(flushing) /\ Upto(flushing, made) /\ Precedes(flushing, pending)
  /\ LogComplete
  /\ logging # 0 => Range(logs[logging]) \cap OnItsWay \subseteq held

\* The numbers in use are different and below the next one.
Distinct(rd) ==
  /\ \A s \in Secrets : rd.seen[s] < rd.next
  /\ \A s, t \in Secrets : rd.seen[s] = rd.seen[t] /\ rd.seen[s] # 0 => s = t

\* The answers are what the numbers still say.
Agrees(rd, answers) == \A p \in answers : p[2] # 0 /\ rd.seen[p[1]] = p[2]

ReadsInv ==
  ~raced /\ ~cleared =>
    /\ Stable
    /\ Distinct(redactor)
    /\ mapped => Agrees(redactor, said)
    /\ \A r \in Readers : reader[r].pc = "redact" =>
         /\ Distinct(reader[r].copy) /\ Agrees(reader[r].copy, said \cup reader[r].out)
         /\ \A q \in Readers : reader[q].pc = "redact" => q = r

RoomInv == Len(input) <= InputCap

IInv == Types /\ ScrollInv /\ EventsInv /\ HeardInv /\ RoomInv /\ KeysInv /\ LogInv /\ ReadsInv

---------------------------------------------------------------------------
(* Sequences.                                                              *)

LEMMA LastProperties ==
  ASSUME NEW S, NEW s \in Seq(S), NEW n \in Nat \ {0}
  PROVE  /\ Last_(s, n) \in Seq(S)
         /\ Len(Last_(s, n)) = IF Len(s) > n THEN n ELSE Len(s)
         /\ \A i \in 1..Len(Last_(s, n)) :
              Last_(s, n)[i] = s[i + (Len(s) - Len(Last_(s, n)))]
<1> DEFINE m == IF Len(s) > n THEN Len(s) - n + 1 ELSE 1
<1>1. Len(s) \in Nat
  OBVIOUS
<1>2. m \in 1..Len(s) + 1
  BY <1>1
<1>3. /\ SubSeq(s, m, Len(s)) \in Seq(S)
      /\ Len(SubSeq(s, m, Len(s))) = IF m <= Len(s) THEN Len(s) - m + 1 ELSE 0
      /\ \A i \in 1..Len(s) - m + 1 : SubSeq(s, m, Len(s))[i] = s[m + i - 1]
  BY <1>1, <1>2, SubSeqProperties
<1>4. Len(s) - m + 1 = IF Len(s) > n THEN n ELSE Len(s)
  BY <1>1
<1>5. Len(SubSeq(s, m, Len(s))) = Len(s) - m + 1
  <2>1. m \in Nat /\ m <= Len(s) + 1
    BY <1>1, <1>2
  <2> HIDE DEF m
  <2> QED BY <1>1, <1>3, <2>1
<1>6. \A i \in 1..Len(s) - m + 1 : m + i - 1 = i + (Len(s) - (Len(s) - m + 1))
  BY <1>1, <1>2
<1> HIDE DEF m
<1>7. Last_(s, n) = SubSeq(s, m, Len(s))
  BY DEF Last_, m
<1> QED BY SMTT(40), <1>3, <1>4, <1>5, <1>6, <1>7

\* A number above all of a sequence keeps it rising.
LEMMA AppendRises ==
  ASSUME NEW s \in Seq(Nat), NEW n \in Nat, Rising(s), NEW m \in Nat, Upto(s, m), m < n
  PROVE  /\ Rising(Append(s, n)) /\ Upto(Append(s, n), n)
         /\ Range(Append(s, n)) = Range(s) \cup {n}
<1>1. /\ DOMAIN s = 1..Len(s) /\ Len(s) \in Nat
      /\ DOMAIN Append(s, n) = 1..Len(s) + 1
      /\ \A i \in 1..Len(s) : Append(s, n)[i] = s[i] /\ s[i] \in Nat
      /\ Append(s, n)[Len(s) + 1] = n
  OBVIOUS
<1>2. Rising(Append(s, n))
  BY <1>1 DEF Rising, Upto
<1>3. Upto(Append(s, n), n)
  BY <1>1 DEF Upto
<1>4. Range(Append(s, n)) = Range(s) \cup {n}
  BY <1>1 DEF Range
<1> QED BY <1>2, <1>3, <1>4

LEMMA Caps ==
  /\ ScrollCap \in Nat \ {0} /\ EventCap \in Nat \ {0} /\ MaxChunks \in Nat
  /\ Chunks \subseteq Nat \ {0}
  /\ \A s \in Seq(Chunks) : s \in Seq(Nat)
<1>1. ScrollCap \in Nat \ {0} /\ EventCap \in Nat \ {0} /\ MaxChunks \in Nat
  BY StreamAssumption
<1>2. Chunks \subseteq Nat \ {0}
  BY <1>1 DEF Chunks
<1>3. \A s \in Seq(Chunks) : s \in Seq(Nat)
  BY <1>2, SeqMonotonic
<1> QED BY <1>1, <1>2, <1>3

---------------------------------------------------------------------------
(* Every state is of its type.                                             *)

LEMMA InitTypes == StreamInit => Types
<1> SUFFICES ASSUME StreamInit PROVE Types
  OBVIOUS
<1> USE StreamAssumption DEF StreamInit
<1>1. NoNumbers \in Numbers
  BY DEF NoNumbers, Numbers
<1>2. <<>> \in Seq(Keys) /\ <<>> \in Seq(Packets) /\ <<>> \in Seq(Seq(Nat)) /\ Off \in Sockets
  BY DEF Off, Sockets
<1>3. TaskTypes
  BY DEF TaskTypes
<1>4. SocketTypes
  BY <1>2 DEF SocketTypes
<1>5. LogTypes
  BY DEF LogTypes
<1>6. ReadTypes
  <2>1. Idle \in Readings
    BY <1>1 DEF Idle, Readings
  <2> QED BY <1>1, <2>1 DEF ReadTypes
<1> QED BY <1>3, <1>4, <1>5, <1>6 DEF Types

\* What a step leaves alone keeps its type.
LEMMA TypesFrame ==
  /\ SocketTypes /\ UNCHANGED socketVars => SocketTypes'
  /\ LogTypes /\ UNCHANGED logVars => LogTypes'
  /\ ReadTypes /\ UNCHANGED readVars => ReadTypes'
  /\ TaskTypes /\ UNCHANGED <<watched, sessionVars, events>> => TaskTypes'
<1>1. SocketTypes /\ UNCHANGED socketVars => SocketTypes'
  BY DEF SocketTypes, socketVars
<1>2. LogTypes /\ UNCHANGED logVars => LogTypes'
  BY DEF LogTypes, logVars
<1>3. ReadTypes /\ UNCHANGED readVars => ReadTypes'
  BY DEF ReadTypes, readVars
<1>4. TaskTypes /\ UNCHANGED <<watched, sessionVars, events>> => TaskTypes'
  BY DEF TaskTypes, sessionVars
<1> QED BY <1>1, <1>2, <1>3, <1>4

LEMMA TaskKeepsTypes == ASSUME Types, TaskStep PROVE Types'
<1> USE DEF TaskTypes
<1>0. TaskTypes /\ SocketTypes /\ LogTypes /\ ReadTypes
  BY DEF Types
<1>1. ASSUME IngestChunk PROVE Types'
  <2>1. made' \in 1..MaxChunks
    BY <1>0, <1>1, Caps DEF IngestChunk
  <2>2. Append(scroll, made') \in Seq(Chunks) /\ Append(pending, made') \in Seq(Chunks)
    BY <1>0, <2>1 DEF Chunks
  <2>3. Trim(Append(scroll, made')) \in Seq(Chunks)
    BY <2>2, LastProperties, Caps DEF Trim
  <2>4. /\ scroll' \in Seq(Chunks) /\ pending' \in Seq(Chunks)
        /\ made' \in 0..MaxChunks
    <3>1. CASE mapped
      BY SMTT(40), <1>1, <2>1, <2>2, <2>3, <3>1 DEF IngestChunk
    <3>2. CASE ~mapped
      BY <1>0, <1>1, <2>1, <3>2 DEF IngestChunk
    <3> QED BY <3>1, <3>2
  <2>5. task' \in {"loop", "flush", "final"}
    BY <1>0, <1>1 DEF IngestChunk
  <2>6. TaskTypes'
    BY <1>0, <1>1, <2>4, <2>5 DEF IngestChunk
  <2> QED BY <1>0, <1>1, <2>6, TypesFrame DEF IngestChunk, Types
<1>2. ASSUME EmitSessionData PROVE Types'
  <2>1. pending \in Seq(Nat)
    BY <1>0, Caps
  <2>2. Append(events, pending) \in Seq(Seq(Nat))
    BY <1>0, <2>1
  <2>3. <<>> \in Seq(Chunks) /\ task' \in {"path", "final_path"}
    BY <1>2 DEF EmitSessionData
  <2>4. TaskTypes'
    BY <1>0, <1>2, <2>2, <2>3 DEF EmitSessionData, Taken
  <2> QED BY <1>0, <1>2, <2>4, TypesFrame DEF EmitSessionData, Types
<1>3. ASSUME LogPath PROVE Types'
  <2>1. TaskTypes'
    BY <1>0, <1>3 DEF LogPath, LogTypes
  <2> QED BY <1>0, <1>3, <2>1, TypesFrame DEF LogPath, Types
<1>4. ASSUME AppendLog PROVE Types'
  <2>1. LogTypes'
    <3>1. CASE path \in DOMAIN logs /\ path # 0
      <4>1. logs[path] \o flushing \in Seq(Chunks)
        BY <1>0, <3>1 DEF LogTypes
      <4>2. logs' \in Seq(Seq(Chunks))
        BY <1>0, <1>4, <3>1, <4>1, ExceptSeq DEF AppendLog, LogTypes
      <4> QED BY <1>0, <1>4, <4>2 DEF AppendLog, LogTypes
    <3>2. CASE path \notin DOMAIN logs \/ path = 0
      <4>1. logs' = logs
        BY <1>0, <1>4, <3>2 DEF AppendLog, LogTypes
      <4> QED BY <1>0, <1>4, <4>1 DEF AppendLog, LogTypes
    <3> QED BY <3>1, <3>2
  <2>2. TaskTypes'
    BY <1>0, <1>4 DEF AppendLog, After
  <2> QED BY <1>0, <1>4, <2>1, <2>2, TypesFrame DEF AppendLog, Types
<1>5. ASSUME Dropped PROVE Types'
  <2>1. Closed \in Seq(Nat)
    BY DEF Closed
  <2>2. TaskTypes'
    BY <1>0, <1>5, <2>1 DEF Dropped
  <2> QED BY <1>0, <1>5, <2>2, TypesFrame DEF Dropped, Types
<1>6. ASSUME Tick \/ Ends, UNCHANGED <<watched, mapped, made, scroll, pending, flushing, path,
                                      events, socketVars, logVars, readVars>>
      PROVE Types'
  <2>1. TaskTypes'
    BY <1>0, <1>6 DEF Tick, Ends
  <2> QED BY <1>0, <1>6, <2>1, TypesFrame DEF Types
<1> QED BY <1>1, <1>2, <1>3, <1>4, <1>5, <1>6 DEF TaskStep

LEMMA CloseKeepsTypes == ASSUME Types, CloseSession PROVE Types'
<1>1. Closed \in Seq(Nat)
  BY DEF Closed
<1>2. Append(events, Closed) \in Seq(Seq(Nat))
  BY <1>1 DEF Types, TaskTypes
<1>3. TaskTypes'
  BY <1>2 DEF CloseSession, Types, TaskTypes
<1> QED BY <1>3, TypesFrame DEF CloseSession, Types

LEMMA SocketKeepsTypes == ASSUME Types, SocketStep PROVE Types'
<1>0. /\ TaskTypes /\ SocketTypes
      /\ ws \in [Conns -> Sockets] /\ got \in [Conns -> Seq(Seq(Nat))]
      /\ wire \in [Conns -> Seq(Packets)] /\ sent \in [Conns -> Nat]
      /\ input \in Seq(Keys) /\ typed \in Seq(Keys)
      /\ events \in Seq(Seq(Nat)) /\ Len(events) \in Nat
  BY DEF Types, TaskTypes, SocketTypes
<1>1. ASSUME TerminalReads PROVE SocketTypes'
  <2>1. Append(typed, Head(input)) \in Seq(Keys) /\ Tail(input) \in Seq(Keys)
    BY <1>0, <1>1 DEF TerminalReads
  <2> QED BY <1>0, <1>1, <2>1 DEF TerminalReads, SocketTypes
<1>2. ASSUME NEW c \in Conns, WsUpgrade(c) PROVE SocketTypes'
  <2>1. ws' \in [Conns -> Sockets]
    BY ZenonT(60), <1>0, <1>2 DEF WsUpgrade, Sockets
  <2> QED BY <1>0, <1>2, <2>1 DEF WsUpgrade, SocketTypes
<1>3. ASSUME NEW c \in Conns, ClientSends(c) PROVE SocketTypes'
  <2>1. PICK n \in 1..2 :
          /\ sent' = [sent EXCEPT ![c] = @ + n]
          /\ wire' = [wire EXCEPT ![c] = Append(@, [i \in 1..n |-> <<c, sent[c] + i>>])]
    BY <1>3 DEF ClientSends
  <2> DEFINE keys == [i \in 1..n |-> <<c, sent[c] + i>>]
  <2>2. keys \in Seq(Keys)
    <3>1. \A i \in 1..n : <<c, sent[c] + i>> \in Keys
      BY <1>0 DEF Keys
    <3> QED BY <3>1, IsASeq
  <2>3. keys # <<>>
    BY <2>1
  <2>4. keys \in Packets
    BY <2>2, <2>3 DEF Packets
  <2> HIDE DEF keys
  <2>5. Append(wire[c], keys) \in Seq(Packets)
    BY <1>0, <2>4
  <2>6. wire' = [wire EXCEPT ![c] = Append(wire[c], keys)]
    BY <2>1 DEF keys
  <2>7. wire' \in [Conns -> Seq(Packets)] /\ sent' \in [Conns -> Nat]
    BY SMTT(40), <1>0, <2>1, <2>5, <2>6
  <2> QED BY <1>0, <1>3, <2>7 DEF ClientSends, SocketTypes
<1>4. ASSUME NEW c \in Conns, ClientCloses(c) PROVE SocketTypes'
  <2>1. ws' \in [Conns -> Sockets]
    BY ZenonT(60), <1>0, <1>4 DEF ClientCloses, Sockets
  <2> QED BY <1>0, <1>4, <2>1 DEF ClientCloses, SocketTypes
<1>5. ASSUME NEW k \in Keys, Write(k) PROVE input' \in Seq(Keys)
  BY <1>0, <1>5 DEF Write
<1>6. ASSUME NEW c \in Conns, LoopReceives(c) PROVE SocketTypes'
  <2>1. wire[c] \in Seq(Packets) /\ wire[c] # <<>> /\ ws[c].job \in Seq(Keys)
    BY <1>0, <1>6 DEF LoopReceives, Sockets
  <2>2. Head(wire[c]) \in Packets /\ Tail(wire[c]) \in Seq(Packets)
    BY <2>1
  <2>3. /\ Head(wire[c])[1] \in Keys
        /\ ws[c].job \o Tail(Head(wire[c])) \in Seq(Keys)
    BY <2>1, <2>2 DEF Packets
  <2>4. input' \in Seq(Keys)
    BY <1>5, <1>6, <2>3 DEF LoopReceives
  <2>5. ws' \in [Conns -> Sockets]
    BY ZenonT(60), <1>0, <1>6, <2>3 DEF LoopReceives, Sockets
  <2>6. wire' \in [Conns -> Seq(Packets)]
    BY <1>0, <1>6, <2>2 DEF LoopReceives
  <2> QED BY <1>0, <1>6, <2>4, <2>5, <2>6 DEF LoopReceives, SocketTypes
<1>7. ASSUME NEW c \in Conns, HandlerGoesOn(c) PROVE SocketTypes'
  <2>1. ws[c].job \in Seq(Keys) /\ Head(ws[c].job) \in Keys /\ Tail(ws[c].job) \in Seq(Keys)
    BY <1>0, <1>7 DEF HandlerGoesOn, Sockets
  <2>2. ws' \in [Conns -> Sockets]
    BY ZenonT(60), <1>0, <1>7, <2>1 DEF HandlerGoesOn, Sockets
  <2>3. input' \in Seq(Keys)
    BY <1>5, <1>7, <2>1 DEF HandlerGoesOn
  <2> QED BY <1>0, <1>7, <2>2, <2>3 DEF HandlerGoesOn, SocketTypes
<1>8. ASSUME NEW c \in Conns, LoopServes(c) PROVE SocketTypes'
  <2>1. ws[c].pos \in Nat
    BY <1>0 DEF Sockets
  <2>2. CASE Len(events) - ws[c].pos > EventCap
    <3>1. Len(events) - EventCap \in Nat
      BY <1>0, <2>1, <2>2, Caps
    <3>2. [ws[c] EXCEPT !.pos = Len(events) - EventCap, !.lagged = TRUE] \in Sockets
      BY <1>0, <3>1 DEF Sockets
    <3>3. ws' = [ws EXCEPT ![c] = [@ EXCEPT !.pos = Len(events) - EventCap, !.lagged = TRUE]]
      BY <1>8, <2>2 DEF LoopServes
    <3>4. ws' \in [Conns -> Sockets]
      BY <1>0, <3>2, <3>3
    <3> QED BY <1>0, <1>8, <2>2, <3>4 DEF LoopServes, SocketTypes
  <2>3. CASE ~(Len(events) - ws[c].pos > EventCap)
    <3>1. events[ws[c].pos + 1] \in Seq(Nat)
      BY SMTT(40), <1>0, <1>8, <2>1 DEF LoopServes
    <3>2. Append(got[c], events[ws[c].pos + 1]) \in Seq(Seq(Nat))
      BY <1>0, <3>1
    <3>3. ws' \in [Conns -> Sockets]
      <4>1. \A n \in Nat : [ws[c] EXCEPT !.pos = n] \in Sockets
        BY <1>0 DEF Sockets
      <4>2. PICK n \in Nat : n = ws[c].pos + 1
        BY <2>1
      <4>3. ws' = [ws EXCEPT ![c] = [@ EXCEPT !.pos = n]]
        BY <1>8, <2>3, <4>2 DEF LoopServes
      <4> QED BY <1>0, <4>1, <4>3
    <3>4. got' \in [Conns -> Seq(Seq(Nat))]
      BY <1>0, <1>8, <2>3, <3>2 DEF LoopServes
    <3> QED BY <1>0, <1>8, <3>3, <3>4 DEF LoopServes, SocketTypes
  <2> QED BY <2>2, <2>3
<1>9. ASSUME NEW c \in Conns, LoopEnds(c) PROVE SocketTypes'
  <2>1. ws' \in [Conns -> Sockets] /\ wire' \in [Conns -> Seq(Packets)]
    <3>1. [ws[c] EXCEPT !.pc = "gone"] \in Sockets
      BY <1>0 DEF Sockets
    <3> QED BY <1>0, <1>9, <3>1 DEF LoopEnds
  <2> QED BY <1>0, <1>9, <2>1 DEF LoopEnds, SocketTypes
<1>10. SocketTypes'
  BY <1>1, <1>2, <1>3, <1>4, <1>6, <1>7, <1>8, <1>9 DEF SocketStep, LoopStep
<1> QED BY <1>10, TypesFrame DEF SocketStep, Types

LEMMA LoggingKeepsTypes == ASSUME Types, SetLogging PROVE Types'
<1>0. /\ scroll \in Seq(Chunks) /\ pending \in Seq(Chunks) /\ flushing \in Seq(Chunks)
      /\ LogTypes
      /\ logs \in Seq(Seq(Chunks)) /\ Len(logs) \in Nat /\ held \subseteq Chunks
  BY DEF Types, TaskTypes, LogTypes
<1>1. CASE StopLog
  <2>1. LogTypes'
    BY <1>0, <1>1 DEF StopLog, LogTypes
  <2> QED BY <1>1, <2>1, TypesFrame DEF SetLogging, Types
<1>2. CASE StartLog
  <2>1. PICK p \in LogFiles :
          /\ logs' = IF p > Len(logs) THEN Append(logs, FirstLines)
                                      ELSE [logs EXCEPT ![p] = @ \o FirstLines]
          /\ logging' = p
          /\ held' = UNION {IF p > Len(logs) THEN {} ELSE held \cup Range(logs[p]),
                            Range(pending),
                            IF task \in {"path", "final_path"} \/ path = p
                              THEN Range(flushing) ELSE {}}
    BY <1>2 DEF StartLog
  <2>2. p \in Nat /\ (p > Len(logs) \/ p \in 1..Len(logs))
    BY <1>0, <2>1 DEF LogFiles
  <2>3. ASSUME NEW s \in Seq(Chunks) PROVE Range(s) \subseteq Chunks
    BY DEF Range
  <2>4. logs' \in Seq(Seq(Chunks)) /\ (p <= Len(logs) => Range(logs[p]) \subseteq Chunks)
    <3>1. CASE p > Len(logs)
      BY <1>0, <2>1, <2>2, <3>1 DEF FirstLines
    <3>2. CASE p \in 1..Len(logs)
      <4>1. logs[p] \in Seq(Chunks) /\ logs[p] \o FirstLines \in Seq(Chunks)
        BY <1>0, <3>2 DEF FirstLines
      <4>2. [logs EXCEPT ![p] = logs[p] \o FirstLines] \in Seq(Seq(Chunks))
        BY <1>0, <3>2, <4>1, ExceptSeq
      <4> QED BY <1>0, <2>1, <2>3, <3>2, <4>1, <4>2
    <3> QED BY <2>2, <3>1, <3>2, <1>0
  <2>5. held' \subseteq Chunks
    BY <1>0, <2>1, <2>2, <2>3, <2>4
  <2>6. LogTypes'
    BY <1>0, <1>2, <2>1, <2>2, <2>4, <2>5 DEF StartLog, LogTypes
  <2> QED BY <1>2, <2>6, TypesFrame DEF SetLogging, Types
<1> QED BY <1>1, <1>2 DEF SetLogging

\* A number given is a number, and the next one is too.
LEMMA TokenTypes ==
  ASSUME NEW rd \in Numbers, NEW s \in Secrets
  PROVE  Token(rd, s) \in Numbers
<1>1. NoNumbers \in Numbers
  BY DEF NoNumbers, Numbers
<1>2. PICK room \in Numbers : room = IF Full(rd) THEN NoNumbers ELSE rd
  BY <1>1
<1>3. [seen |-> [room.seen EXCEPT ![s] = room.next], next |-> room.next + 1] \in Numbers
  BY DEF Numbers
<1> QED BY <1>2, <1>3 DEF Token

LEMMA ReadKeepsTypes == ASSUME Types, ReadStep PROVE Types'
<1>0. /\ ReadTypes /\ scroll \in Seq(Chunks)
      /\ redactor \in Numbers /\ reader \in [Readers -> Readings] /\ reads \in Nat
      /\ said \subseteq Secrets \X Nat /\ raced \in BOOLEAN /\ cleared \in BOOLEAN
  BY DEF Types, TaskTypes, ReadTypes
<1>1. ASSUME NEW r \in Readers, CopyScrollback(r) PROVE ReadTypes'
  <2>1. PICK n \in 1..Len(scroll) :
          reader' = [reader EXCEPT ![r] = [pc |-> "redact", raw |-> Last_(scroll, n),
                                           copy |-> redactor, out |-> {}]]
    BY <1>1 DEF CopyScrollback
  <2>2. Last_(scroll, n) \in Seq(Chunks)
    BY <1>0, <2>1, LastProperties
  <2>3. [pc |-> "redact", raw |-> Last_(scroll, n), copy |-> redactor, out |-> {}] \in Readings
    BY <1>0, <2>2 DEF Readings
  <2>4. reader' \in [Readers -> Readings]
    BY <1>0, <2>1, <2>3
  <2> QED BY <1>0, <1>1, <2>4 DEF CopyScrollback, ReadTypes
<1>2. ASSUME NEW r \in Readers, Redact(r) PROVE ReadTypes'
  <2> DEFINE rd == reader[r].copy
             s == SecretIn[Head(reader[r].raw)]
  <2>1. /\ reader[r].raw \in Seq(Chunks) /\ reader[r].raw # <<>> /\ rd \in Numbers
        /\ reader[r].out \subseteq Secrets \X Nat
    BY <1>0, <1>2 DEF Redact, Readings
  <2>2. Head(reader[r].raw) \in Chunks /\ Tail(reader[r].raw) \in Seq(Chunks)
    BY <2>1
  <2>3. s \in Secrets
    BY <2>2, StreamAssumption DEF Chunks
  <2>4. Token(rd, s) \in Numbers /\ Token(rd, s).seen[s] \in Nat
    BY ZenonT(60), <2>1, <2>3, TokenTypes DEF Numbers
  <2>5. [pc |-> "redact", raw |-> Tail(reader[r].raw), copy |-> Token(rd, s),
         out |-> reader[r].out \cup {<<s, Token(rd, s).seen[s]>>}] \in Readings
    BY <2>1, <2>2, <2>3, <2>4 DEF Readings
  <2>6. reader' \in [Readers -> Readings]
    BY ZenonT(60), <1>0, <1>2, <2>5 DEF Redact
  <2>7. cleared' \in BOOLEAN
    BY <1>0, <1>2 DEF Redact
  <2> QED BY Zenon, <1>0, <1>2, <2>6, <2>7 DEF Redact, ReadTypes
<1>3. ASSUME NEW r \in Readers, RedactedScrollback(r) PROVE ReadTypes'
  <2>1. reader[r].copy \in Numbers /\ reader[r].out \subseteq Secrets \X Nat
    BY <1>0 DEF Readings
  <2>2. Idle \in Readings
    BY DEF Idle, Readings, NoNumbers, Numbers
  <2>3. reader' \in [Readers -> Readings]
    BY <1>0, <1>3, <2>2 DEF RedactedScrollback
  <2>4. redactor' \in Numbers
    BY <1>0, <1>3, <2>1 DEF RedactedScrollback, StoredBack
  <2> QED BY <1>0, <1>3, <2>1, <2>3, <2>4 DEF RedactedScrollback, ReadTypes
<1>4. ReadTypes'
  BY <1>1, <1>2, <1>3 DEF ReadStep
<1> QED BY <1>4, TypesFrame DEF ReadStep, Types

LEMMA NextTypes == ASSUME Types, [StreamNext]_vars PROVE Types'
<1>1. CASE UNCHANGED vars
  BY <1>1, TypesFrame DEF vars, Types
<1> QED BY <1>1, TaskKeepsTypes, CloseKeepsTypes, SocketKeepsTypes, LoggingKeepsTypes,
           ReadKeepsTypes DEF StreamNext

---------------------------------------------------------------------------
(* Scrollback and the events.                                              *)

LEMMA TrimKeeps ==
  ASSUME NEW s \in Seq(Nat), NEW n \in Nat, Contiguous(s), Rising(s), Upto(s, n)
  PROVE  /\ Contiguous(Trim(s)) /\ Rising(Trim(s)) /\ Upto(Trim(s), n) /\ Len(Trim(s)) <= ScrollCap
         /\ s # <<>> => Trim(s) # <<>> /\ Trim(s)[Len(Trim(s))] = s[Len(s)]
         /\ Range(Trim(s)) \subseteq Range(s)
<1> DEFINE t == Last_(s, ScrollCap)
           d == Len(s) - Len(t)
<1>1. /\ t \in Seq(Nat) /\ Len(t) = IF Len(s) > ScrollCap THEN ScrollCap ELSE Len(s)
      /\ \A i \in 1..Len(t) : t[i] = s[i + d]
  BY Caps, LastProperties
<1>2. Len(s) \in Nat /\ Len(t) \in Nat /\ ScrollCap \in Nat \ {0}
  BY <1>1, Caps
<1>3. d \in Nat /\ d + Len(t) = Len(s)
  BY <1>1, <1>2
<1>4. Trim(s) = t
  BY DEF Trim
<1>5. DOMAIN t = 1..Len(t) /\ DOMAIN s = 1..Len(s)
  BY <1>1
<1> HIDE DEF t, d
<1>6. \A i \in 1..Len(t) : i + d \in 1..Len(s)
  BY <1>2, <1>3
<1>7. Contiguous(t)
  <2>1. ASSUME NEW i \in 2..Len(t) PROVE t[i] = t[i - 1] + 1
    <3>1. i \in 1..Len(t) /\ i - 1 \in 1..Len(t) /\ i + d \in 2..Len(s) /\ (i - 1) + d = (i + d) - 1
      BY <1>2, <1>3
    <3>2. t[i] = s[i + d] /\ t[i - 1] = s[(i + d) - 1]
      BY <1>1, <3>1
    <3> QED BY <3>1, <3>2 DEF Contiguous
  <2> QED BY <2>1 DEF Contiguous
<1>8. Upto(t, n)
  BY <1>1, <1>5, <1>6 DEF Upto
<1>9. s # <<>> => t # <<>> /\ t[Len(t)] = s[Len(s)]
  <2> SUFFICES ASSUME s # <<>> PROVE t # <<>> /\ t[Len(t)] = s[Len(s)]
    OBVIOUS
  <2>1. Len(s) > 0
    BY <1>2
  <2>2. Len(t) > 0 /\ Len(t) \in 1..Len(t) /\ Len(t) + d = Len(s)
    BY <1>1, <1>2, <1>3, <2>1
  <2> QED BY <1>1, <2>2
<1>10. Range(t) \subseteq Range(s)
  BY <1>1, <1>5, <1>6 DEF Range
<1>11. Rising(t)
  <2>1. ASSUME NEW i \in 1..Len(t), NEW j \in 1..Len(t), i < j PROVE t[i] < t[j]
    <3>1. i + d \in DOMAIN s /\ j + d \in DOMAIN s /\ i + d < j + d
      BY <1>2, <1>3, <1>5, <1>6, <2>1
    <3> QED BY <1>1, <3>1 DEF Rising
  <2> QED BY <1>5, <2>1 DEF Rising
<1> QED BY <1>1, <1>2, <1>4, <1>7, <1>8, <1>9, <1>10, <1>11

LEMMA ScrollInvInit == StreamInit => ScrollInv
BY Caps DEF StreamInit, ScrollInv, Contiguous, Rising, Upto, Live

LEMMA ScrollInvNext == ASSUME Types, ScrollInv, [StreamNext]_vars PROVE ScrollInv'
<1>0. scroll \in Seq(Nat) /\ made \in Nat
  BY Caps DEF Types, TaskTypes
<1>1. CASE IngestChunk /\ mapped
  <2> DEFINE s == Append(scroll, made')
  <2>1. made' = made + 1 /\ scroll' = Trim(s) /\ task = "loop"
    BY <1>1 DEF IngestChunk
  <2>2. /\ Len(scroll) \in Nat /\ made' \in Nat
        /\ s \in Seq(Nat) /\ Len(s) = Len(scroll) + 1 /\ DOMAIN s = 1..Len(scroll) + 1
        /\ \A i \in 1..Len(scroll) : s[i] = scroll[i]
        /\ s[Len(s)] = made'
    BY <1>0, <2>1
  <2> HIDE DEF s
  <2>3. Contiguous(s)
    <3>1. ASSUME NEW i \in 2..Len(s) PROVE s[i] = s[i - 1] + 1
      <4>1. CASE i = Len(s)
        <5>1. scroll # <<>> /\ scroll[Len(scroll)] = made
          BY <1>0, <2>1, <2>2, <4>1 DEF ScrollInv, Live
        <5> QED BY <2>1, <2>2, <4>1, <5>1
      <4>2. CASE i # Len(s)
        <5>1. i \in 2..Len(scroll) /\ i \in 1..Len(scroll) /\ i - 1 \in 1..Len(scroll)
          BY <2>2, <4>2
        <5>2. scroll[i] = scroll[i - 1] + 1
          BY <5>1 DEF ScrollInv, Contiguous
        <5> QED BY <2>2, <5>1, <5>2
      <4> QED BY <4>1, <4>2
    <3> QED BY <3>1 DEF Contiguous
  <2>4. Upto(s, made')
    <3>1. ASSUME NEW i \in 1..Len(scroll) + 1 PROVE 1 <= s[i] /\ s[i] <= made'
      <4>1. CASE i \in 1..Len(scroll)
        <5>1. i \in DOMAIN scroll /\ scroll[i] \in Nat
          BY <1>0, <4>1
        <5> QED BY <1>0, <2>1, <2>2, <4>1, <5>1 DEF ScrollInv, Upto
      <4>2. CASE i = Len(scroll) + 1
        BY <1>0, <2>1, <2>2, <4>2
      <4> QED BY <2>2, <4>1, <4>2
    <3> QED BY <2>2, <3>1 DEF Upto
  <2>5. s # <<>>
    BY <2>2
  <2>7. Rising(s)
    BY <1>0, <2>1, AppendRises DEF ScrollInv, s
  <2>6. /\ Contiguous(scroll') /\ Rising(scroll') /\ Upto(scroll', made') /\ Len(scroll') <= ScrollCap
        /\ scroll' # <<>> /\ scroll'[Len(scroll')] = made'
    BY <2>1, <2>2, <2>3, <2>4, <2>5, <2>7, TrimKeeps
  <2> QED BY <2>6 DEF ScrollInv
<1>2. CASE IngestChunk /\ ~mapped
  <2>1. scroll' = scroll /\ made' = made + 1 /\ task' = "final"
    BY <1>2 DEF IngestChunk
  <2> QED BY <1>0, <2>1 DEF ScrollInv, Upto, Live
<1>3. CASE UNCHANGED <<made, scroll>> /\ (task' = task \/ (Live' => Live))
  BY <1>3 DEF ScrollInv, Live
<1>4. ASSUME TaskStep, ~IngestChunk PROVE UNCHANGED <<made, scroll>> /\ (Live' => Live)
  BY <1>4 DEF TaskStep, EmitSessionData, LogPath, AppendLog, Dropped, Tick, Ends, After, Live
<1>5. ASSUME CloseSession \/ SocketStep \/ SetLogging \/ ReadStep \/ UNCHANGED vars
      PROVE  UNCHANGED <<made, scroll, task>>
  BY <1>5 DEF CloseSession, SocketStep, SetLogging, ReadStep, vars, sessionVars
<1> QED BY <1>1, <1>2, <1>3, <1>4, <1>5 DEF StreamNext

LEMMA EventsInvInit == StreamInit => EventsInv
<1> SUFFICES ASSUME StreamInit PROVE EventsInv
  OBVIOUS
<1>1. pending = <<>> /\ events = <<>> /\ made = 0
  BY DEF StreamInit
<1>2. Told = {} /\ \A n \in Nat : ~Printed(n)
  BY <1>1 DEF Told, Printed, Range
<1> QED BY <1>1, <1>2 DEF EventsInv, Rising, Upto

\* A chunk read is printed, and everything printed stays so.
LEMMA IngestKeepsEvents ==
  ASSUME Types, EventsInv, IngestChunk, mapped
  PROVE  EventsInv'
<1>0. pending \in Seq(Nat) /\ made \in Nat /\ events \in Seq(Seq(Nat))
  BY Caps DEF Types, TaskTypes
<1>1. /\ made' = made + 1 /\ pending' = Append(pending, made') /\ events' = events
      /\ task = "loop"
  BY DEF IngestChunk
<1>2. /\ Rising(pending') /\ Upto(pending', made')
      /\ Range(pending') = Range(pending) \cup {made'}
  BY <1>0, <1>1, AppendRises DEF EventsInv
<1>3. Told' = Told
  BY <1>1 DEF Told
<1>4. ASSUME NEW i \in Told
      PROVE  Rising(events[i]) /\ Upto(events[i], made') /\ Precedes(events[i], pending')
  <2>1. events[i] \in Seq(Nat)
    BY <1>0 DEF Told
  <2>2. Rising(events[i]) /\ Upto(events[i], made) /\ Precedes(events[i], pending)
    BY DEF EventsInv
  <2>3. Upto(events[i], made')
    BY SMTT(40), <1>0, <1>1, <2>1, <2>2 DEF Upto
  <2>4. Precedes(events[i], pending')
    <3>1. ASSUME NEW k \in DOMAIN events[i], NEW l \in 1..Len(pending) + 1
          PROVE  events[i][k] < pending'[l]
      <4>1. CASE l = Len(pending) + 1
        BY SMTT(40), <1>0, <1>1, <2>1, <2>2, <4>1 DEF Upto
      <4>2. CASE l # Len(pending) + 1
        BY SMTT(40), <1>0, <1>1, <2>2, <4>2 DEF Precedes
      <4> QED BY <4>1, <4>2
    <3> QED BY <1>0, <1>1, <3>1 DEF Precedes
  <2> QED BY <2>2, <2>3, <2>4
<1>5. \A n : Printed(n)' <=> Printed(n) \/ n = made'
  BY <1>1, <1>2, <1>3 DEF Printed
<1>6. Live /\ \A m \in 1..made : Printed(m)
  BY <1>1 DEF Live, EventsInv
<1>7. \A m \in 1..made' : Printed(m)'
  BY SMTT(40), <1>0, <1>1, <1>5, <1>6
<1>8. ASSUME NEW n \in Nat, Printed(n)' PROVE \A m \in 1..n : Printed(m)'
  BY <1>5, <1>7, <1>8 DEF EventsInv
<1> QED BY <1>1, <1>2, <1>3, <1>4, <1>7, <1>8 DEF EventsInv

\* What was pending is announced: the same chunks are printed.
LEMMA EmitKeepsEvents ==
  ASSUME Types, EventsInv, EmitSessionData
  PROVE  EventsInv'
<1>0. /\ pending \in Seq(Nat) /\ made \in Nat /\ events \in Seq(Seq(Nat))
      /\ Len(events) \in Nat
  BY Caps DEF Types, TaskTypes
<1>1. /\ pending # <<>> /\ events' = Append(events, pending) /\ pending' = <<>>
      /\ made' = made /\ (Live' => Live)
  BY DEF EmitSessionData, Taken, Live
<1>2. /\ DOMAIN events = 1..Len(events) /\ DOMAIN events' = 1..Len(events) + 1
      /\ \A i \in 1..Len(events) : events'[i] = events[i]
      /\ events'[Len(events) + 1] = pending
  BY <1>0, <1>1
<1>3. pending # Closed
  <2>1. 1 \in DOMAIN pending
    BY <1>0, <1>1
  <2>2. pending[1] # 0
    BY <1>0, <2>1 DEF EventsInv, Upto
  <2> QED BY <2>2 DEF Closed
<1>4. Told' = Told \cup {Len(events) + 1} /\ Told \subseteq 1..Len(events)
  BY <1>0, <1>2, <1>3 DEF Told
<1>5. ASSUME NEW i \in Told'
      PROVE  Rising(events'[i]) /\ Upto(events'[i], made') /\ Precedes(events'[i], pending')
  <2>0. Precedes(events'[i], pending')
    BY <1>1 DEF Precedes
  <2>1. CASE i \in Told
    BY <1>1, <1>2, <1>4, <2>0, <2>1 DEF EventsInv
  <2>2. CASE i = Len(events) + 1
    BY <1>1, <1>2, <2>0, <2>2 DEF EventsInv
  <2> QED BY <1>4, <2>1, <2>2
<1>6. ASSUME NEW i \in Told', NEW j \in Told', i < j PROVE Precedes(events'[i], events'[j])
  BY <1>0, <1>2, <1>4, <1>6 DEF EventsInv
<1>7. \A n : Printed(n)' <=> Printed(n)
  <2>1. \A n : n \notin Range(pending')
    BY <1>1 DEF Range
  <2>2. \A i \in Told : events'[i] = events[i]
    BY <1>2, <1>4
  <2> QED BY <1>2, <1>4, <2>1, <2>2 DEF Printed
<1>8. Rising(pending') /\ Upto(pending', made')
  BY <1>1 DEF Rising, Upto
<1>9. Live' => \A m \in 1..made' : Printed(m)'
  BY <1>1, <1>7 DEF EventsInv
<1>10. \A n \in Nat : Printed(n)' => \A m \in 1..n : Printed(m)'
  BY <1>7 DEF EventsInv
<1> QED BY <1>5, <1>6, <1>8, <1>9, <1>10 DEF EventsInv

\* The end of the session is an event without output.
LEMMA ClosedKeepsEvents ==
  ASSUME Types, EventsInv, events' = Append(events, Closed), UNCHANGED <<pending, made>>,
         Live' => Live
  PROVE  EventsInv'
<1>1. /\ events \in Seq(Seq(Nat)) /\ Len(events) \in Nat
  BY DEF Types, TaskTypes
<1>2. /\ DOMAIN events = 1..Len(events) /\ DOMAIN events' = 1..Len(events) + 1
      /\ \A i \in 1..Len(events) : events'[i] = events[i]
      /\ events'[Len(events) + 1] = Closed
  BY <1>1
<1>3. Told' = Told /\ \A i \in Told : events'[i] = events[i]
  BY <1>1, <1>2 DEF Told
<1>4. \A n : Printed(n)' <=> Printed(n)
  BY <1>3 DEF Printed
<1> QED BY <1>3, <1>4 DEF EventsInv

LEMMA EventsInvNext == ASSUME Types, EventsInv, [StreamNext]_vars PROVE EventsInv'
<1>1. CASE IngestChunk /\ ~mapped
  <2>1. UNCHANGED <<pending, events>> /\ made' = made + 1 /\ task' = "final" /\ made \in Nat
    BY <1>1 DEF IngestChunk, Types, TaskTypes
  <2>2. Told' = Told /\ (\A n : Printed(n)' <=> Printed(n)) /\ ~Live'
    BY <2>1 DEF Told, Printed, Live
  <2>3. \A s \in Seq(Nat) : Upto(s, made) => Upto(s, made')
    BY <2>1 DEF Upto
  <2>4. pending \in Seq(Nat) /\ \A i \in Told : events[i] \in Seq(Nat)
    BY Caps DEF Types, TaskTypes, Told
  <2> QED BY <2>1, <2>2, <2>3, <2>4 DEF EventsInv
<1>2. CASE UNCHANGED <<pending, events, made>> /\ (Live' => Live)
  <2>1. Told' = Told /\ \A n : Printed(n)' <=> Printed(n)
    BY <1>2 DEF Told, Printed
  <2> QED BY <1>2, <2>1 DEF EventsInv
<1>3. ASSUME LogPath \/ AppendLog \/ (Dropped /\ ~mapped)
      PROVE  UNCHANGED <<pending, events, made>> /\ (Live' => Live)
  BY <1>3 DEF LogPath, AppendLog, Dropped, After, Live
<1>4. ASSUME (Tick \/ Ends) /\ UNCHANGED <<watched, mapped, made, scroll, pending, flushing, path,
                                           events, socketVars, logVars, readVars>>
      PROVE  UNCHANGED <<pending, events, made>> /\ (Live' => Live)
  BY <1>4 DEF Tick, Ends, Live
<1>5. ASSUME SocketStep \/ SetLogging \/ ReadStep \/ UNCHANGED vars
      PROVE  UNCHANGED <<pending, events, made>> /\ (Live' => Live)
  BY <1>5 DEF SocketStep, SetLogging, ReadStep, vars, sessionVars, Live
<1>6. ASSUME CloseSession \/ (Dropped /\ mapped) PROVE EventsInv'
  BY <1>6, ClosedKeepsEvents DEF CloseSession, Dropped, Live
<1> QED BY <1>1, <1>2, <1>3, <1>4, <1>5, <1>6, IngestKeepsEvents, EmitKeepsEvents
        DEF StreamNext, TaskStep

---------------------------------------------------------------------------
(* What a connection is sent.                                              *)

LEMMA HeardInvInit == StreamInit => HeardInv
BY DEF StreamInit, HeardInv, Off, Data

\* An event more changes nothing in what was sent.
LEMMA EventsGrow ==
  ASSUME Types, HeardInv, UNCHANGED <<ws, got>>,
         events' = events \/ \E e \in Seq(Nat) : events' = Append(events, e)
  PROVE  HeardInv'
<1>0. events \in Seq(Seq(Nat)) /\ Len(events) \in Nat
  BY DEF Types, TaskTypes
<1>1. Len(events') \in Nat /\ Len(events') >= Len(events)
  BY <1>0
<1>2. \A i \in 1..Len(events) : events'[i] = events[i]
  <2>1. CASE events' = events
    BY <2>1
  <2>2. CASE \E e \in Seq(Nat) : events' = Append(events, e)
    BY <1>0, <2>2
  <2> QED BY <2>1, <2>2
<1> SUFFICES ASSUME NEW c \in Conns
             PROVE  /\ ws[c].start <= ws[c].pos /\ ws[c].pos <= Len(events')
                    /\ ws[c].pc = "off" => got[c] = <<>>
                    /\ \A i \in DOMAIN got[c] : \E j \in 1..ws[c].pos : got[c][i] = events'[j]
                    /\ \A i, j \in Data(c) : i < j => Precedes(got[c][i], got[c][j])
                    /\ ~ws[c].lagged =>
                         /\ Len(got[c]) = ws[c].pos - ws[c].start
                         /\ \A i \in DOMAIN got[c] : got[c][i] = events'[ws[c].start + i]
  BY DEF HeardInv, Data
<1>3. /\ ws[c].start \in Nat /\ ws[c].pos \in Nat
      /\ got[c] \in Seq(Seq(Nat)) /\ DOMAIN got[c] = 1..Len(got[c])
  BY DEF Types, SocketTypes, Sockets
<1>4. /\ ws[c].start <= ws[c].pos /\ ws[c].pos <= Len(events)
      /\ ws[c].pc = "off" => got[c] = <<>>
      /\ \A i \in DOMAIN got[c] : \E j \in 1..ws[c].pos : got[c][i] = events[j]
      /\ \A i, j \in Data(c) : i < j => Precedes(got[c][i], got[c][j])
      /\ ~ws[c].lagged => /\ Len(got[c]) = ws[c].pos - ws[c].start
                          /\ \A i \in DOMAIN got[c] : got[c][i] = events[ws[c].start + i]
  BY DEF HeardInv
<1>5. \A j \in 1..ws[c].pos : j \in 1..Len(events)
  BY <1>0, <1>3, <1>4
<1>6. ASSUME ~ws[c].lagged, NEW i \in DOMAIN got[c]
      PROVE  got[c][i] = events'[ws[c].start + i]
  <2>1. i \in Nat /\ 1 <= i /\ i <= Len(got[c]) /\ Len(got[c]) = ws[c].pos - ws[c].start
    BY <1>3, <1>4, <1>6
  <2>2. ws[c].start + i \in 1..Len(events)
    <3>1. \A x, y, z, m \in Nat : 1 <= x /\ x <= y - z /\ y <= m => z + x \in 1..m
      OBVIOUS
    <3> QED BY <1>0, <1>3, <1>4, <2>1, <3>1
  <2> QED BY <1>2, <1>4, <1>6, <2>2
<1>7. \A i \in DOMAIN got[c] : \E j \in 1..ws[c].pos : got[c][i] = events'[j]
  BY <1>2, <1>4, <1>5
<1>8. ws[c].pos <= Len(events')
  BY <1>0, <1>1, <1>3, <1>4
<1> QED BY <1>4, <1>6, <1>7, <1>8

\* The next event in the ring comes after all that was sent.
LEMMA ServesKeepsHeard ==
  ASSUME Types, EventsInv, HeardInv, NEW c \in Conns, LoopServes(c), events' = events
  PROVE  HeardInv'
<1>0. /\ events \in Seq(Seq(Nat)) /\ Len(events) \in Nat /\ EventCap \in Nat \ {0}
      /\ ws \in [Conns -> Sockets] /\ got \in [Conns -> Seq(Seq(Nat))]
  BY Caps DEF Types, TaskTypes, SocketTypes
<1>1. /\ ws[c].start \in Nat /\ ws[c].pos \in Nat /\ ws[c].pos < Len(events)
      /\ got[c] \in Seq(Seq(Nat)) /\ DOMAIN got[c] = 1..Len(got[c]) /\ Len(got[c]) \in Nat
  BY <1>0 DEF Sockets, LoopServes
<1>2. /\ ws[c].start <= ws[c].pos
      /\ \A i \in DOMAIN got[c] : \E j \in 1..ws[c].pos : got[c][i] = events[j]
      /\ \A i, j \in Data(c) : i < j => Precedes(got[c][i], got[c][j])
      /\ ~ws[c].lagged => /\ Len(got[c]) = ws[c].pos - ws[c].start
                          /\ \A i \in DOMAIN got[c] : got[c][i] = events[ws[c].start + i]
  BY DEF HeardInv
<1> DEFINE Kept(d) ==
      /\ ws'[d].start <= ws'[d].pos /\ ws'[d].pos <= Len(events)
      /\ ws'[d].pc = "off" => got'[d] = <<>>
      /\ \A i \in DOMAIN got'[d] : \E j \in 1..ws'[d].pos : got'[d][i] = events[j]
      /\ \A i, j \in DOMAIN got'[d] :
           i < j /\ got'[d][i] # Closed /\ got'[d][j] # Closed => Precedes(got'[d][i], got'[d][j])
      /\ ~ws'[d].lagged => /\ Len(got'[d]) = ws'[d].pos - ws'[d].start
                           /\ \A i \in DOMAIN got'[d] : got'[d][i] = events[ws'[d].start + i]
<1>9. ws[c].pc # "off" /\ ws'[c].pc = ws[c].pc
  BY SMTT(40), <1>0 DEF LoopServes, LoopIsFree, Sockets
<1>3. ASSUME NEW d \in Conns, d # c PROVE Kept(d)
  <2>1. ws'[d] = ws[d] /\ got'[d] = got[d]
    BY <1>0, <1>3 DEF LoopServes
  <2> QED BY <2>1 DEF HeardInv, Data
<1>4. CASE Len(events) - ws[c].pos > EventCap
  <2>1. /\ ws'[c].pos = Len(events) - EventCap /\ ws'[c].lagged /\ ws'[c].start = ws[c].start
        /\ got' = got
    BY <1>0, <1>4 DEF LoopServes, Sockets
  <2>2. \A j \in 1..ws[c].pos : j \in 1..ws'[c].pos
    BY <1>0, <1>1, <1>4, <2>1
  <2>3. ws[c].start <= ws'[c].pos /\ ws'[c].pos <= Len(events)
    BY SMTT(40), <1>0, <1>1, <1>2, <1>4, <2>1
  <2>4. Kept(c)
    BY <1>2, <1>9, <2>1, <2>2, <2>3 DEF Data
  <2>5. \A d \in Conns : Kept(d)
    BY <1>3, <2>4
  <2> QED BY <2>5 DEF HeardInv, Data
<1>5. CASE ~(Len(events) - ws[c].pos > EventCap)
  <2> DEFINE p == ws[c].pos + 1
             n == Len(got[c]) + 1
  <2>1. /\ ws'[c].pos = p /\ ws'[c].lagged = ws[c].lagged /\ ws'[c].start = ws[c].start
        /\ got'[c] = Append(got[c], events[p])
    BY SMTT(40), <1>0, <1>5 DEF LoopServes, Sockets
  <2>2. /\ DOMAIN got'[c] = 1..n /\ Len(got'[c]) = n /\ got'[c][n] = events[p]
        /\ \A i \in 1..Len(got[c]) : got'[c][i] = got[c][i]
    BY <1>0, <1>1, <2>1
  <2>3. p \in 1..Len(events) /\ p \in Nat /\ n \in Nat
    BY <1>0, <1>1
  <2>4. \A i \in DOMAIN got'[c] : \E j \in 1..p : got'[c][i] = events[j]
    <3>1. ASSUME NEW i \in 1..Len(got[c]) PROVE \E j \in 1..p : got'[c][i] = events[j]
      <4>1. PICK j \in 1..ws[c].pos : got[c][i] = events[j]
        BY <1>1, <1>2
      <4> QED BY <1>1, <2>2, <4>1
    <3>2. \E j \in 1..p : got'[c][n] = events[j]
      BY <2>2, <2>3
    <3>3. \A i \in DOMAIN got'[c] : i \in 1..Len(got[c]) \/ i = n
      BY <1>1, <2>2
    <3> QED BY <3>1, <3>2, <3>3
  <2>5. ASSUME NEW i \in 1..Len(got[c]), got[c][i] # Closed, events[p] # Closed
        PROVE  Precedes(got[c][i], events[p])
    <3>1. PICK j \in 1..ws[c].pos : got[c][i] = events[j]
      BY <1>1, <1>2
    <3>2. j \in Told /\ p \in Told /\ j < p
      BY SMTT(40), <1>0, <1>1, <2>3, <2>5, <3>1 DEF Told
    <3> QED BY <3>1, <3>2 DEF EventsInv
  <2>6. ASSUME NEW i \in DOMAIN got'[c], NEW j \in DOMAIN got'[c], i < j,
               got'[c][i] # Closed, got'[c][j] # Closed
        PROVE  Precedes(got'[c][i], got'[c][j])
    <3>1. i \in 1..Len(got[c]) /\ (j \in 1..Len(got[c]) \/ j = n)
      BY SMTT(40), <1>1, <2>2, <2>3, <2>6
    <3>2. CASE j \in 1..Len(got[c])
      BY <1>1, <1>2, <2>2, <2>6, <3>1, <3>2 DEF Data
    <3>3. CASE j = n
      BY <2>2, <2>5, <2>6, <3>1, <3>3
    <3> QED BY <3>1, <3>2, <3>3
  <2>7. ASSUME ~ws[c].lagged
        PROVE  n = p - ws[c].start /\ \A i \in DOMAIN got'[c] : got'[c][i] = events[ws[c].start + i]
    <3>0. Len(got[c]) = ws[c].pos - ws[c].start
      BY <1>2, <2>7
    <3>1. n = p - ws[c].start /\ ws[c].start + n = p
      <4>1. \A x, y, z \in Nat : x = y - z => x + 1 = (y + 1) - z /\ z + (x + 1) = y + 1
        OBVIOUS
      <4> QED BY SMTT(40), <1>1, <3>0, <4>1
    <3>3. \A i \in 1..Len(got[c]) : got'[c][i] = events[ws[c].start + i]
      BY <1>1, <1>2, <2>2, <2>7
    <3>4. \A i \in DOMAIN got'[c] : i \in 1..Len(got[c]) \/ i = n
      BY <1>1, <2>2
    <3>5. got'[c][n] = events[ws[c].start + n]
      BY <2>2, <3>1
    <3> QED BY <3>1, <3>3, <3>4, <3>5
  <2>8. ws[c].start <= p /\ p <= Len(events)
    BY <1>0, <1>1, <1>2
  <2> HIDE DEF p, n
  <2>9. Kept(c)
    BY <1>9, <2>1, <2>2, <2>4, <2>6, <2>7, <2>8
  <2>10. \A d \in Conns : Kept(d)
    BY <1>3, <2>9
  <2> QED BY <2>10 DEF HeardInv, Data
<1> QED BY <1>4, <1>5

LEMMA HeardInvNext == ASSUME Types, EventsInv, HeardInv, [StreamNext]_vars PROVE HeardInv'
<1>1. ASSUME TaskStep \/ CloseSession \/ SetLogging \/ ReadStep \/ UNCHANGED vars
      PROVE  /\ UNCHANGED <<ws, got>>
             /\ events' = events \/ \E e \in Seq(Nat) : events' = Append(events, e)
  <2>1. pending \in Seq(Nat) /\ Closed \in Seq(Nat)
    BY Caps DEF Types, TaskTypes, Closed
  <2> QED BY <1>1, <2>1 DEF TaskStep, IngestChunk, EmitSessionData, LogPath, AppendLog, Dropped,
             CloseSession, SetLogging, ReadStep, vars, socketVars
<1>2. ASSUME NEW c \in Conns, WsUpgrade(c), events' = events PROVE HeardInv'
  <2>1. /\ Len(events) \in Nat /\ ws \in [Conns -> Sockets] /\ got' = got
        /\ got[c] = <<>>
    BY SMTT(40), <1>2 DEF Types, TaskTypes, SocketTypes, WsUpgrade, HeardInv
  <2>2. /\ ws'[c].start = Len(events) /\ ws'[c].pos = Len(events) /\ ws'[c].pc = "open"
        /\ \A d \in Conns \ {c} : ws'[d] = ws[d]
    BY <1>2, <2>1 DEF WsUpgrade, Sockets
  <2>3. DOMAIN got[c] = {} /\ Len(got[c]) = 0 /\ Len(events) - Len(events) = 0
    BY <2>1
  <2> QED BY SMTT(40), <1>2, <2>1, <2>2, <2>3 DEF HeardInv, Data
<1>3. ASSUME NEW c \in Conns,
             ClientSends(c) \/ ClientCloses(c) \/ LoopReceives(c)
               \/ HandlerGoesOn(c) \/ LoopEnds(c),
             events' = events
      PROVE  HeardInv'
  <2>1. ws \in [Conns -> Sockets]
    BY DEF Types, SocketTypes
  <2>2. got' = got
    BY <1>3 DEF ClientSends, ClientCloses, LoopReceives, HandlerGoesOn, LoopEnds
  <2>3. ASSUME NEW d \in Conns
        PROVE  /\ ws'[d].start = ws[d].start /\ ws'[d].pos = ws[d].pos
               /\ ws'[d].lagged = ws[d].lagged
               /\ ws'[d].pc = "off" => ws[d].pc = "off"
    <3>1. CASE UNCHANGED ws
      BY <3>1
    <3>2. CASE ClientCloses(c)
      BY <2>1, <3>2 DEF ClientCloses, Sockets
    <3>3. CASE LoopReceives(c)
      BY <2>1, <3>3 DEF LoopReceives, Sockets
    <3>4. CASE HandlerGoesOn(c)
      BY <2>1, <3>4 DEF HandlerGoesOn, Sockets
    <3>5. CASE LoopEnds(c)
      BY <2>1, <3>5 DEF LoopEnds, Sockets
    <3> QED BY <1>3, <3>1, <3>2, <3>3, <3>4, <3>5 DEF ClientSends
  <2>4. events' = events /\ \A d \in Conns : Data(d)' = Data(d)
    BY <1>3, <2>2 DEF Data
  <2> SUFFICES ASSUME NEW d \in Conns
               PROVE  /\ ws'[d].start <= ws'[d].pos /\ ws'[d].pos <= Len(events)
                      /\ ws'[d].pc = "off" => got[d] = <<>>
                      /\ \A i \in DOMAIN got[d] : \E j \in 1..ws'[d].pos : got[d][i] = events[j]
                      /\ \A i, j \in Data(d) : i < j => Precedes(got[d][i], got[d][j])
                      /\ ~ws'[d].lagged =>
                           /\ Len(got[d]) = ws'[d].pos - ws'[d].start
                           /\ \A i \in DOMAIN got[d] : got[d][i] = events[ws'[d].start + i]
    BY <2>2, <2>4 DEF HeardInv
  <2> QED BY SMTT(40), <2>3 DEF HeardInv
<1>4. SocketStep => events' = events
  BY DEF SocketStep
<1>5. ASSUME TaskStep \/ CloseSession \/ SetLogging \/ ReadStep \/ UNCHANGED vars
      PROVE  HeardInv'
  BY <1>1, <1>5, EventsGrow
<1>6. ASSUME NEW c \in Conns, LoopServes(c), events' = events PROVE HeardInv'
  BY <1>6, ServesKeepsHeard
<1>7. ASSUME SocketStep PROVE HeardInv'
  <2>1. events' = events
    BY <1>4, <1>7
  <2>2. CASE TerminalReads
    <3>1. UNCHANGED <<ws, got>>
      BY <2>2 DEF TerminalReads
    <3> QED BY <2>1, <3>1, EventsGrow
  <2>3. ASSUME NEW c \in Conns, WsUpgrade(c) \/ ClientSends(c) \/ ClientCloses(c) \/ LoopStep(c)
        PROVE  HeardInv'
    BY <1>2, <1>3, <1>6, <2>1, <2>3 DEF LoopStep
  <2> QED BY <1>7, <2>2, <2>3 DEF SocketStep
<1> QED BY <1>5, <1>7 DEF StreamNext

\* Output reaches a connection in order and, when it kept up, without gaps.
LEMMA HeardInOrder == ASSUME Types, EventsInv, HeardInv PROVE OutputInOrder
<1>0. /\ events \in Seq(Seq(Nat)) /\ Len(events) \in Nat /\ DOMAIN events = 1..Len(events)
      /\ ws \in [Conns -> Sockets] /\ got \in [Conns -> Seq(Seq(Nat))]
  BY DEF Types, TaskTypes, SocketTypes
<1> SUFFICES ASSUME NEW c \in Conns
             PROVE  /\ \A i, j \in Data(c) : \A k \in DOMAIN got[c][i], l \in DOMAIN got[c][j] :
                         i < j \/ (i = j /\ k < l) => got[c][i][k] < got[c][j][l]
                    /\ ~ws[c].lagged => \A m, n \in Heard(c) : m..n \subseteq Heard(c)
  BY DEF OutputInOrder
<1>1. /\ ws[c].start \in Nat /\ ws[c].pos \in Nat
      /\ got[c] \in Seq(Seq(Nat)) /\ DOMAIN got[c] = 1..Len(got[c]) /\ Len(got[c]) \in Nat
  BY <1>0 DEF Sockets
<1>2. /\ ws[c].start <= ws[c].pos /\ ws[c].pos <= Len(events)
      /\ \A i \in DOMAIN got[c] : \E j \in 1..ws[c].pos : got[c][i] = events[j]
      /\ \A i, j \in Data(c) : i < j => Precedes(got[c][i], got[c][j])
      /\ ~ws[c].lagged => /\ Len(got[c]) = ws[c].pos - ws[c].start
                          /\ \A i \in DOMAIN got[c] : got[c][i] = events[ws[c].start + i]
  BY DEF HeardInv
<1>3. ASSUME NEW i \in Data(c) PROVE \E j \in Told : got[c][i] = events[j]
  <2>1. PICK j \in 1..ws[c].pos : got[c][i] = events[j]
    BY <1>2 DEF Data
  <2>2. j \in 1..Len(events)
    BY <1>0, <1>1, <1>2
  <2>3. events[j] # Closed
    BY <2>1 DEF Data
  <2> QED BY <1>0, <2>1, <2>2, <2>3 DEF Told
<1>4. ASSUME NEW i \in Data(c), NEW j \in Data(c), NEW k \in DOMAIN got[c][i],
             NEW l \in DOMAIN got[c][j], i < j \/ (i = j /\ k < l)
      PROVE  got[c][i][k] < got[c][j][l]
  <2>1. CASE i < j
    BY <1>2, <2>1 DEF Precedes
  <2>2. CASE i = j /\ k < l
    BY <1>3, <2>2 DEF EventsInv, Rising
  <2> QED BY <1>4, <2>1, <2>2
<1>5. \A n : n \in Heard(c) <=> \E i \in Data(c) : n \in Range(got[c][i])
  BY DEF Heard
<1>6. ASSUME ~ws[c].lagged, NEW m \in Heard(c), NEW n \in Heard(c), NEW x \in m..n
      PROVE  x \in Heard(c)
  <2>1. PICK i \in Data(c) : m \in Range(got[c][i])
    BY <1>5
  <2>2. PICK j \in Data(c) : n \in Range(got[c][j])
    BY <1>5
  <2> DEFINE a == ws[c].start + i
             b == ws[c].start + j
  <2>3. /\ i \in 1..Len(got[c]) /\ j \in 1..Len(got[c])
        /\ got[c][i] = events[a] /\ got[c][j] = events[b]
    BY <1>1, <1>2, <1>6 DEF Data
  <2>4. a \in Told /\ b \in Told /\ a \in Nat /\ b \in Nat /\ ws[c].start < a /\ b <= ws[c].pos
    <3>1. Len(got[c]) = ws[c].pos - ws[c].start
      BY <1>2, <1>6
    <3>2. a \in 1..Len(events) /\ b \in 1..Len(events) /\ ws[c].start < a /\ b <= ws[c].pos
      <4>1. \A st, po, ev, y \in Nat :
              1 <= y /\ y <= po - st /\ po <= ev =>
                st + y \in 1..ev /\ st < st + y /\ st + y <= po
        OBVIOUS
      <4>2. /\ i \in Nat /\ 1 <= i /\ i <= ws[c].pos - ws[c].start
            /\ j \in Nat /\ 1 <= j /\ j <= ws[c].pos - ws[c].start
        BY <1>1, <2>3, <3>1
      <4> QED BY <1>0, <1>1, <1>2, <4>1, <4>2
    <3> QED BY SMTT(40), <1>0, <2>3, <3>2 DEF Told, Data
  <2> HIDE DEF a, b
  <2>5. m \in Range(events[a]) /\ n \in Range(events[b])
    BY <2>1, <2>2, <2>3
  <2>6. /\ m \in Nat /\ n \in Nat /\ 1 <= m /\ x \in Nat /\ m <= x /\ x <= n
    <3>1. events[a] \in Seq(Nat) /\ events[b] \in Seq(Nat) /\ Upto(events[a], made)
      <4>1. a \in 1..Len(events) /\ b \in 1..Len(events)
        BY <1>0, <2>4 DEF Told
      <4>2. events[a] \in Seq(Nat) /\ events[b] \in Seq(Nat)
        BY <1>0, <4>1
      <4> QED BY <2>4, <4>2 DEF EventsInv
    <3>2. m \in Nat /\ n \in Nat /\ 1 <= m
      BY SMTT(40), <2>5, <3>1 DEF Range, Upto
    <3> QED BY <3>2
  <2>7. Printed(x)
    <3>1. Printed(n)
      BY <2>4, <2>5 DEF Printed
    <3>2. x \in 1..n
      BY <2>6
    <3> QED BY <2>6, <3>1, <3>2 DEF EventsInv
  <2>8. x \notin Range(pending)
    <3>1. ASSUME x \in Range(pending) PROVE FALSE
      <4>1. n < x
        BY <2>4, <2>5, <3>1 DEF EventsInv, Precedes, Range
      <4> QED BY <2>6, <4>1
    <3> QED BY <3>1
  <2>9. PICK t \in Told : x \in Range(events[t])
    BY <2>7, <2>8 DEF Printed
  <2>10. t \in Nat /\ t \in 1..Len(events)
    BY <1>0, <2>9 DEF Told
  <2>11. a <= t
    <3>1. ASSUME t < a PROVE FALSE
      <4>1. Precedes(events[t], events[a])
        BY <2>4, <2>9, <3>1 DEF EventsInv
      <4>2. x < m
        BY <2>5, <2>9, <4>1 DEF Precedes, Range
      <4> QED BY <2>6, <4>2
    <3> QED BY <2>4, <2>10, <3>1
  <2>12. t <= b
    <3>1. ASSUME b < t PROVE FALSE
      <4>1. Precedes(events[b], events[t])
        BY <2>4, <2>9, <3>1 DEF EventsInv
      <4>2. n < x
        BY <2>5, <2>9, <4>1 DEF Precedes, Range
      <4> QED BY <2>6, <4>2
    <3> QED BY <2>4, <2>10, <3>1
  <2> DEFINE e == t - ws[c].start
  <2>13. e \in 1..Len(got[c]) /\ ws[c].start + e = t
    <3>1. Len(got[c]) = ws[c].pos - ws[c].start
      BY <1>2, <1>6
    <3>2. ws[c].start < t /\ t <= ws[c].pos
      BY <1>1, <2>4, <2>10, <2>11, <2>12
    <3> QED BY SMTT(40), <1>1, <2>10, <3>1, <3>2
  <2> HIDE DEF e
  <2>14. got[c][e] = events[t] /\ e \in Data(c)
    BY <1>1, <1>2, <1>6, <2>9, <2>13 DEF Data, Told
  <2> QED BY <1>5, <2>9, <2>14
<1> QED BY <1>4, <1>6

---------------------------------------------------------------------------
(* What is typed.                                                          *)

LEMMA KeysInvInit == StreamInit => KeysInv
<1> SUFFICES ASSUME StreamInit PROVE KeysInv
  OBVIOUS
<1>1. typed = <<>> /\ input = <<>>
  BY DEF StreamInit
<1>2. \A c \in Conns : ws[c].job = <<>> /\ wire[c] = <<>>
  BY DEF StreamInit, Off
<1>3. \A c \in Conns : \A k : ~Rest(c, k)
  BY <1>2 DEF Rest, Range
<1>4. \A c \in Conns : ConnInv(c)
  BY <1>2, <1>3 DEF ConnInv
<1> QED BY <1>1, <1>4 DEF KeysInv, QueueInv, PassedInv

LEMMA KeyTypes ==
  ASSUME Types
  PROVE  /\ input \in Seq(Keys) /\ Len(input) \in Nat /\ DOMAIN input = 1..Len(input)
         /\ typed \in Seq(Keys) /\ Len(typed) \in Nat /\ DOMAIN typed = 1..Len(typed)
         /\ ws \in [Conns -> Sockets] /\ wire \in [Conns -> Seq(Packets)]
         /\ sent \in [Conns -> Nat]
         /\ \A c \in Conns : /\ ws[c].job \in Seq(Keys) /\ Len(ws[c].job) \in Nat
                            /\ DOMAIN ws[c].job = 1..Len(ws[c].job)
                            /\ wire[c] \in Seq(Packets) /\ Len(wire[c]) \in Nat
                            /\ DOMAIN wire[c] = 1..Len(wire[c])
         /\ \A p \in Packets : /\ p \in Seq(Keys) /\ Len(p) \in Nat /\ DOMAIN p = 1..Len(p)
                             /\ 1 \in DOMAIN p
<1>1. \A c \in Conns : ws[c].job \in Seq(Keys) /\ wire[c] \in Seq(Packets)
  BY DEF Types, SocketTypes, Sockets
<1>2. ASSUME NEW p \in Packets
      PROVE  p \in Seq(Keys) /\ Len(p) \in Nat /\ DOMAIN p = 1..Len(p) /\ 1 \in DOMAIN p
  <2>1. p \in Seq(Keys) /\ p # <<>>
    BY DEF Packets
  <2> QED BY <2>1
<1> QED BY <1>1, <1>2 DEF Types, SocketTypes

\* A key that is written goes behind all that is queued, or is lost.
LEMMA WriteKeeps ==
  ASSUME Types, KeysInv, NEW k \in Keys, Write(k), typed' = typed, Rest(k[1], k)
  PROVE  /\ QueueInv'
         /\ \A i \in DOMAIN input' : input'[i] = k \/ \E j \in DOMAIN input : input'[i] = input[j]
<1>0. input \in Seq(Keys) /\ Len(input) \in Nat /\ DOMAIN input = 1..Len(input)
      /\ typed \in Seq(Keys)
  BY KeyTypes
<1>1. CASE input' = input
  BY <1>1 DEF KeysInv, QueueInv
<1>2. CASE input' = Append(input, k)
  <2>1. /\ DOMAIN input' = 1..Len(input) + 1 /\ input'[Len(input) + 1] = k
        /\ \A i \in 1..Len(input) : input'[i] = input[i]
    BY <1>0, <1>2
  <2>2. \A l \in Keys : Passed(l) => Before(l, k)
    BY DEF Passed, Before
  <2>3. \A i \in DOMAIN input : Before(input[i], k)
    BY <1>0, <2>2 DEF KeysInv, PassedInv
  <2>4. \A i \in DOMAIN typed : Before(typed[i], k)
    BY <1>0, <2>2 DEF KeysInv, PassedInv
  <2>5. ASSUME NEW i \in DOMAIN input', NEW j \in DOMAIN input', i < j
        PROVE  Before(input'[i], input'[j])
    <3>1. i \in 1..Len(input) /\ (j \in 1..Len(input) \/ j = Len(input) + 1)
      BY <1>0, <2>1, <2>5
    <3> QED BY <1>0, <2>1, <2>3, <2>5, <3>1 DEF KeysInv, QueueInv
  <2>6. ASSUME NEW i \in DOMAIN typed, NEW j \in DOMAIN input'
        PROVE  Before(typed[i], input'[j])
    <3>1. j \in 1..Len(input) \/ j = Len(input) + 1
      BY <1>0, <2>1
    <3> QED BY <1>0, <2>1, <2>4, <3>1 DEF KeysInv, QueueInv
  <2>7. \A i \in DOMAIN input' : input'[i] = k \/ \E j \in DOMAIN input : input'[i] = input[j]
    BY <1>0, <2>1
  <2>8. QueueInv'
    BY <2>5, <2>6 DEF QueueInv, KeysInv
  <2> QED BY <2>7, <2>8
<1> QED BY <1>1, <1>2 DEF Write

\* What was passed stays so when no connection gets more to send.
LEMMA PassedStays ==
  ASSUME sent' = sent, \A c \in Conns : \A l \in Keys : Rest(c, l)' => Rest(c, l),
         NEW k \in Keys, Passed(k)
  PROVE  k[2] <= sent'[k[1]] /\ \A l \in Keys : Rest(k[1], l)' => Before(k, l)
BY DEF Passed, Keys

\* The first key of a packet is written, the others are the handler's.
LEMMA ReceivesKeepsKeys ==
  ASSUME Types, KeysInv, NEW c \in Conns, LoopReceives(c)
  PROVE  KeysInv'
<1> DEFINE p == wire[c][1]
<1>0. /\ ws \in [Conns -> Sockets] /\ wire \in [Conns -> Seq(Packets)]
      /\ input \in Seq(Keys) /\ typed \in Seq(Keys)
      /\ ws[c].job = <<>> /\ wire[c] \in Seq(Packets) /\ wire[c] # <<>>
      /\ Len(wire[c]) \in Nat /\ DOMAIN wire[c] = 1..Len(wire[c])
  BY KeyTypes DEF LoopReceives, LoopIsFree
<1>1. /\ 1 \in DOMAIN wire[c] /\ Head(wire[c]) = p /\ p \in Packets
      /\ p \in Seq(Keys) /\ Len(p) \in Nat /\ DOMAIN p = 1..Len(p) /\ 1 \in DOMAIN p
      /\ p[1] \in Keys
  BY <1>0, KeyTypes
<1>14. PICK k \in Keys : k = p[1]
  BY <1>1
<1>2. /\ Write(k) /\ typed' = typed /\ sent' = sent
      /\ wire' = [wire EXCEPT ![c] = Tail(@)]
      /\ ws' = [ws EXCEPT ![c].job = @ \o Tail(p)]
  BY <1>1, <1>14 DEF LoopReceives
<1>3. /\ wire'[c] = Tail(wire[c]) /\ ws'[c].job = Tail(p)
      /\ \A d \in Conns \ {c} : wire'[d] = wire[d] /\ ws'[d].job = ws[d].job
  BY <1>0, <1>1, <1>2 DEF Sockets
<1>4. /\ DOMAIN wire'[c] = 1..Len(wire[c]) - 1
      /\ \A i \in DOMAIN wire'[c] : i + 1 \in DOMAIN wire[c] /\ wire'[c][i] = wire[c][i + 1]
  BY <1>0, <1>3
<1>5. /\ DOMAIN ws'[c].job = 1..Len(p) - 1
      /\ \A i \in DOMAIN ws'[c].job : i + 1 \in DOMAIN p /\ ws'[c].job[i] = p[i + 1]
  BY <1>1, <1>3
<1> HIDE DEF p
<1>6. ASSUME NEW d \in Conns, NEW l \in Keys, Rest(d, l)' PROVE Rest(d, l)
  <2>1. CASE d = c
    <3>1. CASE l \in Range(ws'[c].job)
      BY <1>1, <1>5, <2>1, <3>1 DEF Rest, Range, p
    <3>2. CASE \E i \in DOMAIN wire'[c] : l \in Range(wire'[c][i])
      BY <1>4, <2>1, <3>2 DEF Rest
    <3> QED BY <1>6, <2>1, <3>1, <3>2 DEF Rest
  <2>2. CASE d # c
    BY <1>3, <1>6, <2>2 DEF Rest
  <2> QED BY <2>1, <2>2
<1>7. Rest(c, k) /\ k[1] = c /\ k[2] <= sent[c]
  <2>1. Rest(c, k)
    BY <1>1, <1>14 DEF Rest, Range, p
  <2> QED BY <1>1, <2>1 DEF KeysInv, ConnInv
<1>8. /\ QueueInv'
      /\ \A i \in DOMAIN input' : input'[i] = k \/ \E j \in DOMAIN input : input'[i] = input[j]
  BY <1>1, <1>2, <1>7, WriteKeeps
<1>9. ASSUME NEW l \in Keys, Rest(c, l)' PROVE Before(k, l)
  <2>1. CASE l \in Range(ws'[c].job)
    <3>1. PICK i \in DOMAIN ws'[c].job : l = p[i + 1] /\ i + 1 \in DOMAIN p
      BY <1>5, <2>1 DEF Range
    <3>2. 1 < i + 1
      BY <1>1, <1>5, <3>1
    <3> QED BY <1>1, <1>14, <3>1, <3>2 DEF KeysInv, ConnInv, p
  <2>2. CASE \E i \in DOMAIN wire'[c] : l \in Range(wire'[c][i])
    <3>1. PICK i \in DOMAIN wire'[c] : l \in Range(wire[c][i + 1]) /\ i + 1 \in DOMAIN wire[c]
      BY <1>4, <2>2
    <3>2. 1 < i + 1
      BY <1>0, <1>4, <3>1
    <3>3. PICK j \in DOMAIN wire[c][i + 1] : l = wire[c][i + 1][j]
      BY <3>1 DEF Range
    <3> QED BY <1>1, <1>14, <3>1, <3>2, <3>3 DEF KeysInv, ConnInv, p
  <2> QED BY <1>9, <2>1, <2>2 DEF Rest
<1>10. Passed(k)'
  BY <1>2, <1>7, <1>9 DEF Passed
<1>11. \A l \in Keys : Passed(l) => Passed(l)'
  BY <1>2, <1>6, PassedStays DEF Passed
<1>12. PassedInv'
  <2>1. \A i \in DOMAIN typed : typed[i] \in Keys
    BY <1>0
  <2>2. \A i \in DOMAIN input : input[i] \in Keys
    BY <1>0
  <2> QED BY <1>2, <1>8, <1>10, <1>11, <2>1, <2>2 DEF KeysInv, PassedInv
<1>13. ASSUME NEW d \in Conns PROVE ConnInv(d)'
  <2>1. CASE d # c
    BY <1>2, <1>3, <2>1 DEF KeysInv, ConnInv, Rest
  <2>2. CASE d = c
    <3>1. \A l \in Keys : Rest(c, l)' => l[1] = c /\ l[2] <= sent'[c]
      BY <1>2, <1>6 DEF KeysInv, ConnInv
    <3>2. ASSUME NEW i \in DOMAIN ws'[c].job, NEW j \in DOMAIN ws'[c].job, i < j
          PROVE  Before(ws'[c].job[i], ws'[c].job[j])
      <4>1. i + 1 \in DOMAIN p /\ j + 1 \in DOMAIN p /\ i + 1 < j + 1
        BY <1>1, <1>5, <3>2
      <4> QED BY SMTT(40), <1>1, <1>5, <4>1 DEF KeysInv, ConnInv, p
    <3>3. ASSUME NEW i \in DOMAIN wire'[c], NEW n \in DOMAIN wire'[c][i],
                 NEW l \in DOMAIN wire'[c][i], n < l
          PROVE  Before(wire'[c][i][n], wire'[c][i][l])
      BY <1>4, <3>3 DEF KeysInv, ConnInv
    <3>4. ASSUME NEW i \in DOMAIN wire'[c], NEW j \in DOMAIN wire'[c],
                 NEW n \in DOMAIN wire'[c][i], NEW l \in DOMAIN wire'[c][j], i < j
          PROVE  Before(wire'[c][i][n], wire'[c][j][l])
      <4>1. i + 1 < j + 1
        BY <1>0, <1>4, <3>4
      <4> QED BY <1>4, <4>1 DEF KeysInv, ConnInv
    <3>5. ASSUME NEW i \in DOMAIN ws'[c].job, NEW j \in DOMAIN wire'[c],
                 NEW l \in DOMAIN wire'[c][j]
          PROVE  Before(ws'[c].job[i], wire'[c][j][l])
      <4>1. 1 < j + 1
        BY <1>0, <1>4
      <4>2. /\ i + 1 \in DOMAIN wire[c][1] /\ ws'[c].job[i] = wire[c][1][i + 1]
            /\ j + 1 \in DOMAIN wire[c] /\ wire'[c][j] = wire[c][j + 1]
        BY <1>4, <1>5 DEF p
      <4> QED BY <1>1, <4>1, <4>2 DEF KeysInv, ConnInv
    <3> QED BY <2>2, <3>1, <3>2, <3>3, <3>4, <3>5 DEF ConnInv
  <2> QED BY <2>1, <2>2
<1> QED BY <1>8, <1>12, <1>13 DEF KeysInv

\* The next key of the handler is written.
LEMMA HandlerKeepsKeys ==
  ASSUME Types, KeysInv, NEW c \in Conns, HandlerGoesOn(c)
  PROVE  KeysInv'
<1>0. /\ ws \in [Conns -> Sockets] /\ input \in Seq(Keys) /\ typed \in Seq(Keys)
      /\ ws[c].job \in Seq(Keys) /\ Len(ws[c].job) \in Nat /\ DOMAIN ws[c].job = 1..Len(ws[c].job)
      /\ ws[c].job # <<>>
  BY KeyTypes DEF HandlerGoesOn
<1>1. /\ 1 \in DOMAIN ws[c].job /\ Head(ws[c].job) = ws[c].job[1] /\ ws[c].job[1] \in Keys
  BY <1>0
<1>2. PICK k \in Keys : k = ws[c].job[1]
  BY <1>1
<1>3. /\ Write(k) /\ typed' = typed /\ sent' = sent /\ wire' = wire
      /\ ws' = [ws EXCEPT ![c].job = Tail(@)]
  BY <1>1, <1>2 DEF HandlerGoesOn
<1>4. /\ ws'[c].job = Tail(ws[c].job)
      /\ \A d \in Conns \ {c} : ws'[d].job = ws[d].job
  BY <1>0, <1>3 DEF Sockets
<1>5. /\ DOMAIN ws'[c].job = 1..Len(ws[c].job) - 1
      /\ \A i \in DOMAIN ws'[c].job : i + 1 \in DOMAIN ws[c].job /\ ws'[c].job[i] = ws[c].job[i + 1]
  BY <1>0, <1>4
<1>6. ASSUME NEW d \in Conns, NEW l \in Keys, Rest(d, l)' PROVE Rest(d, l)
  <2>1. CASE d = c
    BY <1>3, <1>5, <1>6, <2>1 DEF Rest, Range
  <2>2. CASE d # c
    BY <1>3, <1>4, <1>6, <2>2 DEF Rest
  <2> QED BY <2>1, <2>2
<1>7. Rest(c, k) /\ k[1] = c /\ k[2] <= sent[c]
  <2>1. Rest(c, k)
    BY <1>1, <1>2 DEF Rest, Range
  <2> QED BY <2>1 DEF KeysInv, ConnInv
<1>8. /\ QueueInv'
      /\ \A i \in DOMAIN input' : input'[i] = k \/ \E j \in DOMAIN input : input'[i] = input[j]
  BY <1>3, <1>7, WriteKeeps
<1>9. ASSUME NEW l \in Keys, Rest(c, l)' PROVE Before(k, l)
  <2>1. CASE l \in Range(ws'[c].job)
    <3>1. PICK i \in DOMAIN ws'[c].job : l = ws[c].job[i + 1] /\ i + 1 \in DOMAIN ws[c].job
      BY <1>5, <2>1 DEF Range
    <3>2. 1 < i + 1
      BY <1>0, <1>5, <3>1
    <3> QED BY <1>1, <1>2, <3>1, <3>2 DEF KeysInv, ConnInv
  <2>2. CASE \E i \in DOMAIN wire[c] : l \in Range(wire[c][i])
    BY <1>1, <1>2, <2>2 DEF KeysInv, ConnInv, Range
  <2> QED BY <1>3, <1>9, <2>1, <2>2 DEF Rest
<1>10. Passed(k)'
  BY <1>3, <1>7, <1>9 DEF Passed
<1>11. \A l \in Keys : Passed(l) => Passed(l)'
  BY <1>3, <1>6, PassedStays DEF Passed
<1>12. PassedInv'
  <2>1. \A i \in DOMAIN typed : typed[i] \in Keys
    BY <1>0
  <2>2. \A i \in DOMAIN input : input[i] \in Keys
    BY <1>0
  <2> QED BY <1>3, <1>8, <1>10, <1>11, <2>1, <2>2 DEF KeysInv, PassedInv
<1>13. ASSUME NEW d \in Conns PROVE ConnInv(d)'
  <2>1. CASE d # c
    BY <1>3, <1>4, <2>1 DEF KeysInv, ConnInv, Rest
  <2>2. CASE d = c
    <3>1. \A l \in Keys : Rest(c, l)' => l[1] = c /\ l[2] <= sent'[c]
      BY <1>3, <1>6 DEF KeysInv, ConnInv
    <3>2. ASSUME NEW i \in DOMAIN ws'[c].job, NEW j \in DOMAIN ws'[c].job, i < j
          PROVE  Before(ws'[c].job[i], ws'[c].job[j])
      <4>1. i + 1 < j + 1
        BY <1>0, <1>5, <3>2
      <4> QED BY <1>5, <4>1 DEF KeysInv, ConnInv
    <3>3. \A i \in DOMAIN ws'[c].job, j \in DOMAIN wire[c] : \A l \in DOMAIN wire[c][j] :
            Before(ws'[c].job[i], wire[c][j][l])
      BY <1>5 DEF KeysInv, ConnInv
    <3> QED BY <1>3, <2>2, <3>1, <3>2, <3>3 DEF KeysInv, ConnInv
  <2> QED BY <2>1, <2>2
<1> QED BY <1>8, <1>12, <1>13 DEF KeysInv

\* New keys are numbered above all there were.
LEMMA ClientKeepsKeys ==
  ASSUME Types, KeysInv, NEW c \in Conns, ClientSends(c)
  PROVE  KeysInv'
<1>0. /\ ws \in [Conns -> Sockets] /\ wire \in [Conns -> Seq(Packets)] /\ sent \in [Conns -> Nat]
      /\ input \in Seq(Keys) /\ typed \in Seq(Keys)
      /\ wire[c] \in Seq(Packets) /\ Len(wire[c]) \in Nat /\ DOMAIN wire[c] = 1..Len(wire[c])
      /\ ws[c].job \in Seq(Keys)
  BY KeyTypes
<1>1. PICK n \in 1..2 :
        /\ sent' = [sent EXCEPT ![c] = @ + n]
        /\ wire' = [wire EXCEPT ![c] = Append(@, [i \in 1..n |-> <<c, sent[c] + i>>])]
  BY DEF ClientSends
<1>2. PICK m \in Nat : m = sent[c]
  BY <1>0
<1> DEFINE new == [i \in 1..n |-> <<c, m + i>>]
<1>3. /\ UNCHANGED <<ws, input, typed>>
      /\ sent'[c] = m + n /\ wire'[c] = Append(wire[c], new)
      /\ \A d \in Conns \ {c} : wire'[d] = wire[d] /\ sent'[d] = sent[d]
  BY <1>0, <1>1, <1>2 DEF ClientSends
<1>4. /\ DOMAIN new = 1..n
      /\ \A i \in 1..n : new[i] = <<c, m + i>> /\ new[i][1] = c /\ new[i][2] = m + i
                         /\ m < new[i][2] /\ new[i][2] <= m + n
  OBVIOUS
<1> HIDE DEF new
<1>5. /\ DOMAIN wire'[c] = 1..Len(wire[c]) + 1 /\ wire'[c][Len(wire[c]) + 1] = new
      /\ \A i \in DOMAIN wire[c] : i \in DOMAIN wire'[c] /\ wire'[c][i] = wire[c][i]
      /\ \A i \in DOMAIN wire'[c] : i \in DOMAIN wire[c] \/ i = Len(wire[c]) + 1
  BY <1>0, <1>3
<1>6. ASSUME NEW l, Rest(c, l)' PROVE Rest(c, l) \/ \E i \in 1..n : l = new[i]
  BY <1>3, <1>4, <1>5, <1>6 DEF Rest, Range
<1>7. \A d \in Conns \ {c} : \A l : Rest(d, l)' <=> Rest(d, l)
  BY <1>3 DEF Rest
<1>8. ASSUME NEW k \in Keys, k[2] <= m PROVE \A i \in 1..n : Before(k, new[i])
  <2>1. k[2] \in Nat
    BY DEF Keys
  <2> QED BY <1>2, <1>4, <1>8, <2>1 DEF Before
<1>9. ASSUME NEW k \in Keys, Passed(k) PROVE Passed(k)'
  <2>1. k[1] \in Conns /\ k[2] \in Nat
    BY DEF Keys
  <2>2. CASE k[1] = c
    <3>1. k[2] <= m
      BY <1>2, <1>9, <2>2 DEF Passed
    <3>2. k[2] <= sent'[k[1]]
      BY <1>2, <1>3, <2>1, <2>2, <3>1
    <3>3. ASSUME NEW l \in Keys, Rest(c, l)' PROVE Before(k, l)
      BY <1>6, <1>8, <1>9, <2>2, <3>1, <3>3 DEF Passed
    <3> QED BY <2>2, <3>2, <3>3 DEF Passed
  <2>3. CASE k[1] # c
    BY <1>3, <1>7, <1>9, <2>1, <2>3 DEF Passed
  <2> QED BY <2>2, <2>3
<1>10. PassedInv'
  BY <1>0, <1>3, <1>9 DEF KeysInv, PassedInv
<1>11. QueueInv'
  BY <1>3 DEF KeysInv, QueueInv
<1>12. ASSUME NEW d \in Conns PROVE ConnInv(d)'
  <2>1. CASE d # c
    BY <1>3, <1>7, <2>1 DEF KeysInv, ConnInv
  <2>2. CASE d = c
    <3>1. ASSUME NEW l \in Keys, Rest(c, l)' PROVE l[1] = c /\ l[2] <= sent'[c]
      <4>1. CASE Rest(c, l)
        <5>1. l[1] = c /\ l[2] <= m /\ l[2] \in Nat
          BY <1>2, <4>1 DEF KeysInv, ConnInv, Keys
        <5> QED BY <1>3, <5>1
      <4> QED BY <1>3, <1>4, <1>6, <3>1, <4>1
    <3>2. ASSUME NEW i \in DOMAIN wire[c], NEW j \in DOMAIN wire[c][i]
          PROVE  wire[c][i][j] \in Keys /\ wire[c][i][j][2] <= m
      <4>1. wire[c][i] \in Seq(Keys)
        BY <1>0 DEF Packets
      <4>2. wire[c][i][j] \in Keys /\ Rest(c, wire[c][i][j])
        BY <4>1 DEF Rest, Range
      <4> QED BY <1>2, <4>2 DEF KeysInv, ConnInv
    <3>3. ASSUME NEW i \in DOMAIN ws[c].job PROVE ws[c].job[i] \in Keys /\ ws[c].job[i][2] <= m
      <4>1. ws[c].job[i] \in Keys /\ Rest(c, ws[c].job[i])
        BY <1>0 DEF Rest, Range
      <4> QED BY <1>2, <4>1 DEF KeysInv, ConnInv
    <3>4. ASSUME NEW i \in DOMAIN wire'[c], NEW k \in DOMAIN wire'[c][i],
                 NEW l \in DOMAIN wire'[c][i], k < l
          PROVE  Before(wire'[c][i][k], wire'[c][i][l])
      <4>1. CASE i \in DOMAIN wire[c]
        BY <1>5, <3>4, <4>1 DEF KeysInv, ConnInv
      <4>2. CASE i = Len(wire[c]) + 1
        BY SMTT(40), <1>4, <1>5, <3>4, <4>2 DEF Before
      <4> QED BY <1>5, <4>1, <4>2
    <3>5. ASSUME NEW i \in DOMAIN wire'[c], NEW j \in DOMAIN wire'[c],
                 NEW k \in DOMAIN wire'[c][i], NEW l \in DOMAIN wire'[c][j], i < j
          PROVE  Before(wire'[c][i][k], wire'[c][j][l])
      <4>1. i \in DOMAIN wire[c]
        BY <1>0, <1>5, <3>5
      <4>2. CASE j \in DOMAIN wire[c]
        BY <1>5, <3>5, <4>1, <4>2 DEF KeysInv, ConnInv
      <4>3. CASE j = Len(wire[c]) + 1
        BY <1>4, <1>5, <1>8, <3>2, <3>5, <4>1, <4>3
      <4> QED BY <1>5, <4>2, <4>3
    <3>6. ASSUME NEW i \in DOMAIN ws[c].job, NEW j \in DOMAIN wire'[c], NEW l \in DOMAIN wire'[c][j]
          PROVE  Before(ws[c].job[i], wire'[c][j][l])
      <4>1. CASE j \in DOMAIN wire[c]
        BY <1>5, <3>6, <4>1 DEF KeysInv, ConnInv
      <4>2. CASE j = Len(wire[c]) + 1
        BY <1>4, <1>5, <1>8, <3>3, <3>6, <4>2
      <4> QED BY <1>5, <4>1, <4>2
    <3>7. \A i, j \in DOMAIN ws[c].job : i < j => Before(ws[c].job[i], ws[c].job[j])
      BY DEF KeysInv, ConnInv
    <3>8. ws' = ws
      BY <1>3
    <3> QED BY <2>2, <3>1, <3>4, <3>5, <3>6, <3>7, <3>8 DEF ConnInv
  <2> QED BY <2>1, <2>2
<1> QED BY <1>10, <1>11, <1>12 DEF KeysInv

LEMMA KeysInvNext == ASSUME Types, KeysInv, [StreamNext]_vars PROVE KeysInv'
<1>0. /\ ws \in [Conns -> Sockets] /\ wire \in [Conns -> Seq(Packets)] /\ sent \in [Conns -> Nat]
      /\ input \in Seq(Keys) /\ Len(input) \in Nat /\ DOMAIN input = 1..Len(input)
      /\ typed \in Seq(Keys) /\ Len(typed) \in Nat /\ DOMAIN typed = 1..Len(typed)
  BY KeyTypes
<1>1. ASSUME UNCHANGED <<sent, input, typed, wire>>, \A c \in Conns : ws'[c].job = ws[c].job
      PROVE  KeysInv'
  <2>1. \A c \in Conns, k \in Keys : Rest(c, k)' <=> Rest(c, k)
    BY <1>1 DEF Rest
  <2>2. QueueInv'
    BY <1>1 DEF KeysInv, QueueInv
  <2>3. \A k \in Keys : Passed(k) => Passed(k)'
    BY <1>1, <2>1 DEF Passed, Keys
  <2>4. PassedInv'
    BY <1>0, <1>1, <2>3 DEF KeysInv, PassedInv
  <2>5. \A c \in Conns : ConnInv(c)'
    BY <1>1, <2>1 DEF KeysInv, ConnInv
  <2> QED BY <2>2, <2>4, <2>5 DEF KeysInv
<1>2. ASSUME TaskStep \/ CloseSession \/ SetLogging \/ ReadStep \/ UNCHANGED vars PROVE KeysInv'
  <2>1. UNCHANGED socketVars
    BY <1>2 DEF TaskStep, IngestChunk, EmitSessionData, LogPath, AppendLog, Dropped, CloseSession,
       SetLogging, ReadStep, vars
  <2> QED BY <1>1, <2>1 DEF socketVars
<1>3. ASSUME TerminalReads PROVE KeysInv'
  <2>1. PICK k \in Keys : k = input[1] /\ 1 \in DOMAIN input /\ Head(input) = k
    BY <1>0, <1>3 DEF TerminalReads
  <2>2. UNCHANGED <<ws, wire, sent>> /\ typed' = Append(typed, k) /\ input' = Tail(input)
    BY <1>3, <2>1 DEF TerminalReads
  <2>3. /\ DOMAIN typed' = 1..Len(typed) + 1 /\ typed'[Len(typed) + 1] = k
        /\ \A i \in DOMAIN typed : typed'[i] = typed[i]
        /\ \A i \in DOMAIN typed' : i \in DOMAIN typed \/ i = Len(typed) + 1
    BY <1>0, <2>2
  <2>4. /\ DOMAIN input' = 1..Len(input) - 1
        /\ \A i \in DOMAIN input' : i + 1 \in DOMAIN input /\ input'[i] = input[i + 1] /\ 1 < i + 1
    BY <1>0, <1>3, <2>2 DEF TerminalReads
  <2>5. ASSUME NEW i \in DOMAIN typed', NEW j \in DOMAIN typed', i < j
        PROVE  Before(typed'[i], typed'[j])
    <3>1. i \in DOMAIN typed
      BY <1>0, <2>3, <2>5
    <3> QED BY <2>1, <2>3, <2>5, <3>1 DEF KeysInv, QueueInv
  <2>6. ASSUME NEW i \in DOMAIN input', NEW j \in DOMAIN input', i < j
        PROVE  Before(input'[i], input'[j])
    <3>1. i + 1 < j + 1
      BY <1>0, <2>4, <2>6
    <3> QED BY <2>4, <3>1 DEF KeysInv, QueueInv
  <2>7. ASSUME NEW i \in DOMAIN typed', NEW j \in DOMAIN input'
        PROVE  Before(typed'[i], input'[j])
    BY <2>1, <2>3, <2>4 DEF KeysInv, QueueInv
  <2>8. QueueInv'
    BY <2>5, <2>6, <2>7 DEF QueueInv
  <2>9. \A l \in Keys : Passed(l)' <=> Passed(l)
    BY <2>2 DEF Passed, Rest
  <2>10. PassedInv'
    <3>1. \A i \in DOMAIN typed' : typed'[i] \in Keys /\ Passed(typed'[i])
      BY <1>0, <2>1, <2>3 DEF KeysInv, PassedInv
    <3>2. \A i \in DOMAIN input' : input'[i] \in Keys /\ Passed(input'[i])
      BY <1>0, <2>4 DEF KeysInv, PassedInv
    <3> QED BY <2>9, <3>1, <3>2 DEF PassedInv
  <2>11. \A c \in Conns : ConnInv(c)'
    BY <2>2 DEF KeysInv, ConnInv, Rest
  <2> QED BY <2>8, <2>10, <2>11 DEF KeysInv
<1>4. ASSUME NEW c \in Conns, WsUpgrade(c) \/ ClientCloses(c) \/ LoopServes(c) PROVE KeysInv'
  <2>1. UNCHANGED <<sent, input, typed, wire>>
    BY <1>4 DEF WsUpgrade, ClientCloses, LoopServes
  <2>2. CASE WsUpgrade(c)
    BY SMTT(40), <1>0, <1>1, <2>1, <2>2 DEF WsUpgrade, Sockets
  <2>3. CASE ClientCloses(c)
    BY <1>0, <1>1, <2>1, <2>3 DEF ClientCloses, Sockets
  <2>4. CASE LoopServes(c)
    <3>1. \A d \in Conns \ {c} : ws'[d] = ws[d]
      BY <1>0, <2>4 DEF LoopServes
    <3>2. ws'[c].job = ws[c].job
      <4>1. CASE Len(events) - ws[c].pos > EventCap
        BY <1>0, <2>4, <4>1 DEF LoopServes, Sockets
      <4>2. CASE ~(Len(events) - ws[c].pos > EventCap)
        BY <1>0, <2>4, <4>2 DEF LoopServes, Sockets
      <4> QED BY <4>1, <4>2
    <3> QED BY <1>1, <2>1, <3>1, <3>2
  <2> QED BY <1>4, <2>2, <2>3, <2>4
<1>5. ASSUME NEW c \in Conns, LoopEnds(c) PROVE KeysInv'
  <2>1. /\ UNCHANGED <<sent, input, typed>> /\ wire'[c] = <<>> /\ ws[c].job = <<>>
        /\ \A d \in Conns : ws'[d].job = ws[d].job
        /\ \A d \in Conns \ {c} : wire'[d] = wire[d]
    BY <1>0, <1>5 DEF LoopEnds, Sockets
  <2>2. ASSUME NEW d \in Conns, NEW l \in Keys, Rest(d, l)' PROVE Rest(d, l)
    BY <2>1, <2>2 DEF Rest
  <2>3. \A l \in Keys : Passed(l) => Passed(l)'
    BY <2>1, <2>2, PassedStays DEF Passed
  <2>4. QueueInv' /\ PassedInv'
    BY <1>0, <2>1, <2>3 DEF KeysInv, QueueInv, PassedInv
  <2>5. ASSUME NEW d \in Conns PROVE ConnInv(d)'
    <3>1. CASE d = c
      BY <2>1, <2>2, <3>1 DEF KeysInv, ConnInv
    <3>2. CASE d # c
      BY <2>1, <2>2, <3>2 DEF KeysInv, ConnInv
    <3> QED BY <3>1, <3>2
  <2> QED BY <2>4, <2>5 DEF KeysInv
<1>6. ASSUME SocketStep PROVE KeysInv'
  BY <1>3, <1>4, <1>5, <1>6, ReceivesKeepsKeys, HandlerKeepsKeys, ClientKeepsKeys
     DEF SocketStep, LoopStep
<1> QED BY <1>2, <1>6 DEF StreamNext

---------------------------------------------------------------------------
(* The session log.                                                        *)

LEMMA LogInvInit == StreamInit => LogInv
<1> SUFFICES ASSUME StreamInit PROVE LogInv
  OBVIOUS
<1>1. flushing = <<>> /\ pending = <<>> /\ logs = <<>> /\ logging = 0 /\ path = 0 /\ Len(logs) = 0
  BY DEF StreamInit
<1> QED BY <1>1 DEF LogInv, Rising, Upto, Precedes, LogComplete, LogHasNoGaps, LogRepeatsOnlyHeld

LEMMA LogShape ==
  ASSUME Types
  PROVE  /\ scroll \in Seq(Nat) /\ pending \in Seq(Nat) /\ flushing \in Seq(Nat) /\ made \in Nat
         /\ logs \in Seq(Seq(Nat)) /\ Len(logs) \in Nat /\ DOMAIN logs = 1..Len(logs)
         /\ \A p \in DOMAIN logs : /\ logs[p] \in Seq(Nat) /\ Len(logs[p]) \in Nat
                                /\ DOMAIN logs[p] = 1..Len(logs[p])
         /\ path \in Nat /\ logging \in Nat
<1>1. ASSUME NEW p \in DOMAIN logs
      PROVE  logs[p] \in Seq(Nat)
  <2>1. logs[p] \in Seq(Chunks)
    BY DEF Types, LogTypes
  <2> QED BY <2>1, Caps
<1>2. scroll \in Seq(Nat) /\ pending \in Seq(Nat) /\ flushing \in Seq(Nat)
  BY Caps DEF Types, TaskTypes
<1>3. Len(logs) \in Nat /\ DOMAIN logs = 1..Len(logs) /\ logs \in Seq(Seq(Nat))
  <2>1. logs \in Seq(Seq(Chunks))
    BY DEF Types, LogTypes
  <2>2. Len(logs) \in Nat /\ DOMAIN logs = 1..Len(logs)
    BY <2>1
  <2>3. \A p \in 1..Len(logs) : logs[p] \in Seq(Nat)
    BY <1>1, <2>2
  <2>4. logs = [p \in 1..Len(logs) |-> logs[p]]
    BY <2>1, <2>2
  <2> QED BY <2>2, <2>3, <2>4, IsASeq
<1>4. made \in Nat /\ path \in Nat /\ logging \in Nat
  BY DEF Types, TaskTypes, LogTypes
<1> QED BY <1>1, <1>2, <1>3, <1>4

\* Lines that are not in a file, and rise, repeat nothing there.
LEMMA AppendRepeats ==
  ASSUME NEW f \in Seq(Nat), NEW g \in Seq(Nat), Rising(g), NEW H,
         \A i, j \in 1..Len(f) : i < j /\ f[i] = f[j] => f[i] \in H,
         Range(f) \cap Range(g) \subseteq H
  PROVE  /\ \A i, j \in 1..Len(f \o g) : i < j /\ (f \o g)[i] = (f \o g)[j] => (f \o g)[i] \in H
         /\ Range(f \o g) = Range(f) \cup Range(g)
<1> DEFINE h == f \o g
<1>1. /\ Len(f) \in Nat /\ Len(g) \in Nat /\ Len(h) = Len(f) + Len(g)
      /\ DOMAIN f = 1..Len(f) /\ DOMAIN g = 1..Len(g) /\ DOMAIN h = 1..Len(h)
  OBVIOUS
<1>2. \A i \in 1..Len(f) : h[i] = f[i]
  BY <1>1
<1>3. \A i \in 1..Len(h) : i > Len(f) => h[i] = g[i - Len(f)] /\ i - Len(f) \in 1..Len(g)
  BY <1>1
<1>4. \A i \in 1..Len(g) : i + Len(f) \in 1..Len(h) /\ i + Len(f) > Len(f) /\ (i + Len(f)) - Len(f) = i
  BY <1>1
<1> HIDE DEF h
<1>5. ASSUME NEW i \in 1..Len(h), NEW j \in 1..Len(h), i < j, h[i] = h[j]
      PROVE  h[i] \in H
  <2>1. CASE j <= Len(f)
    <3>1. i \in 1..Len(f) /\ j \in 1..Len(f)
      BY <1>1, <1>5, <2>1
    <3> QED BY <1>2, <1>5, <3>1
  <2>2. CASE i <= Len(f) /\ j > Len(f)
    <3>1. i \in 1..Len(f)
      BY <1>1, <2>2
    <3> QED BY <1>1, <1>2, <1>3, <1>5, <2>2, <3>1 DEF Range
  <2>3. CASE i > Len(f)
    <3>1. /\ i - Len(f) \in DOMAIN g /\ j - Len(f) \in DOMAIN g /\ i - Len(f) < j - Len(f)
          /\ h[i] = g[i - Len(f)] /\ h[j] = g[j - Len(f)]
      BY <1>1, <1>3, <1>5, <2>3
    <3>2. \A k, l \in DOMAIN g : k < l => g[k] # g[l]
      <4>1. \A k, l \in DOMAIN g : g[k] \in Nat /\ g[l] \in Nat /\ (k < l => g[k] < g[l])
        BY DEF Rising
      <4>2. \A x, y \in Nat : x < y => x # y
        OBVIOUS
      <4> QED BY <4>1, <4>2
    <3> QED BY <1>5, <3>1, <3>2
  <2>4. j <= Len(f) \/ (i <= Len(f) /\ j > Len(f)) \/ i > Len(f)
    BY <1>1
  <2> QED BY <2>1, <2>2, <2>3, <2>4
<1>6. Range(h) = Range(f) \cup Range(g)
  <2>1. \A n \in Range(h) : n \in Range(f) \cup Range(g)
    <3>1. ASSUME NEW i \in 1..Len(h) PROVE h[i] \in Range(f) \cup Range(g)
      <4>1. CASE i > Len(f)
        BY <1>1, <1>3, <4>1 DEF Range
      <4>2. CASE ~(i > Len(f))
        <5>1. i \in 1..Len(f)
          BY <1>1, <4>2
        <5> QED BY <1>1, <1>2, <5>1 DEF Range
      <4> QED BY <4>1, <4>2
    <3> QED BY <1>1, <3>1 DEF Range
  <2>2. \A n \in Range(f) : n \in Range(h)
    BY <1>1, <1>2 DEF Range
  <2>3. \A n \in Range(g) : n \in Range(h)
    BY SMTT(40), <1>1, <1>3, <1>4 DEF Range
  <2> QED BY <2>1, <2>2, <2>3
<1> QED BY <1>5, <1>6 DEF h

\* The invariant without what concerns the file that is written now.
LogFrame ==
  /\ path # 0 => task \in {"append", "final_append"}
  /\ path <= Len(logs) /\ logging <= Len(logs)
  /\ \A p \in DOMAIN logs : Upto(logs[p], made)
  /\ Rising(flushing) /\ Upto(flushing, made) /\ Precedes(flushing, pending)

\* The invariant of the file f that is written now.
FileInv(f) ==
  /\ mapped => Range(scroll) \subseteq Range(f) \cup OnItsWay
  /\ \A i, j \in 1..Len(f) : i < j /\ f[i] = f[j] => f[i] \in held
  /\ Range(f) \cap OnItsWay \subseteq held

LEMMA LogInvSplit == LogInv <=> LogFrame /\ (logging # 0 => FileInv(logs[logging]))
BY DEF LogInv, LogFrame, FileInv, LogComplete, LogHasNoGaps, LogRepeatsOnlyHeld

\* A chunk read is on its way to the log, and in no file yet.
LEMMA IngestKeepsLog ==
  ASSUME Types, ScrollInv, EventsInv, LogFrame, logging # 0 => FileInv(logs[logging]), IngestChunk
  PROVE  LogFrame' /\ (logging' # 0 => FileInv(logs[logging])')
<1>0. /\ scroll \in Seq(Nat) /\ pending \in Seq(Nat) /\ flushing \in Seq(Nat) /\ made \in Nat
      /\ DOMAIN logs = 1..Len(logs) /\ Len(logs) \in Nat /\ logging \in Nat
      /\ \A p \in DOMAIN logs : logs[p] \in Seq(Nat)
  BY LogShape
<1>1. /\ made' = made + 1 /\ task \notin {"path", "final_path", "append", "final_append"}
      /\ task' \notin {"path", "final_path", "append", "final_append"}
      /\ UNCHANGED <<mapped, flushing, path, logs, logging, held>> /\ path = 0
  BY DEF IngestChunk, logVars, LogFrame
<1>2. \A s \in Seq(Nat) : Upto(s, made) => Upto(s, made')
  BY <1>0, <1>1 DEF Upto
<1>3. logging # 0 => logging \in DOMAIN logs /\ logs[logging] \in Seq(Nat)
  BY SMTT(40), <1>0 DEF LogFrame
<1>4. CASE mapped
  <2>1. pending' = Append(pending, made') /\ scroll' = Trim(Append(scroll, made'))
    BY <1>4 DEF IngestChunk
  <2>2. Range(pending') = Range(pending) \cup {made'}
    BY <1>0, <1>1, <2>1, AppendRises DEF EventsInv
  <2>3. Range(scroll') \subseteq Range(scroll) \cup {made'}
    <3>1. Append(scroll, made') \in Seq(Nat) /\ Range(Append(scroll, made')) = Range(scroll) \cup {made'}
      BY <1>0, <1>1, AppendRises DEF ScrollInv
    <3>2. Range(Last_(Append(scroll, made'), ScrollCap)) \subseteq Range(Append(scroll, made'))
      <4> DEFINE s == Append(scroll, made')
                 t == Last_(s, ScrollCap)
      <4>1. /\ t \in Seq(Nat) /\ Len(t) = IF Len(s) > ScrollCap THEN ScrollCap ELSE Len(s)
            /\ \A i \in 1..Len(t) : t[i] = s[i + (Len(s) - Len(t))]
        BY <3>1, Caps, LastProperties
      <4>2. /\ Len(s) \in Nat /\ Len(t) \in Nat /\ DOMAIN s = 1..Len(s) /\ DOMAIN t = 1..Len(t)
            /\ Len(t) <= Len(s)
        BY <3>1, <4>1, Caps
      <4> HIDE DEF s, t
      <4>3. \A i \in 1..Len(t) : i + (Len(s) - Len(t)) \in 1..Len(s)
        BY <4>2
      <4>4. Range(t) \subseteq Range(s)
        BY <4>1, <4>2, <4>3 DEF Range
      <4> QED BY <4>4 DEF s, t
    <3> QED BY <2>1, <3>1, <3>2 DEF Trim
  <2>4. Precedes(flushing, pending')
    <3>1. /\ DOMAIN pending' = 1..Len(pending) + 1 /\ pending'[Len(pending) + 1] = made'
          /\ Len(pending) \in Nat /\ DOMAIN pending = 1..Len(pending)
          /\ \A i \in DOMAIN pending : pending'[i] = pending[i]
          /\ \A i \in DOMAIN pending' : i \in DOMAIN pending \/ i = Len(pending) + 1
      BY <1>0, <1>1, <2>1
    <3>2. \A i \in DOMAIN flushing : flushing[i] < made'
      BY <1>0, <1>1 DEF LogFrame, Upto
    <3> QED BY <3>1, <3>2 DEF LogFrame, Precedes
  <2>5. LogFrame'
    BY <1>0, <1>1, <1>2, <2>4 DEF LogFrame
  <2>6. OnItsWay' = OnItsWay \cup {made'}
    BY <1>1, <2>2 DEF OnItsWay
  <2>7. ASSUME logging # 0 PROVE FileInv(logs[logging])'
    <3>1. made' \notin Range(logs[logging])
      <4>1. \A i \in DOMAIN logs[logging] : logs[logging][i] <= made /\ logs[logging][i] \in Nat
        BY <1>3, <2>7 DEF LogFrame, Upto
      <4> QED BY <1>0, <1>1, <4>1 DEF Range
    <3> QED BY <1>1, <2>3, <2>6, <2>7, <3>1 DEF FileInv
  <2> QED BY <1>1, <2>5, <2>7
<1>5. CASE ~mapped
  <2>1. UNCHANGED <<scroll, pending>>
    BY <1>5 DEF IngestChunk
  <2>2. LogFrame'
    BY <1>0, <1>1, <1>2, <2>1 DEF LogFrame
  <2>3. OnItsWay' = OnItsWay
    BY <1>1, <2>1 DEF OnItsWay
  <2> QED BY <1>1, <2>1, <2>2, <2>3 DEF FileInv
<1> QED BY <1>4, <1>5

\* What is on its way is written to the file.
LEMMA AppendKeepsLog ==
  ASSUME Types, EventsInv, LogFrame, logging # 0 => FileInv(logs[logging]), AppendLog
  PROVE  LogFrame' /\ (logging' # 0 => FileInv(logs[logging])')
<1>0. /\ pending \in Seq(Nat) /\ flushing \in Seq(Nat) /\ made \in Nat /\ path \in Nat
      /\ DOMAIN logs = 1..Len(logs) /\ Len(logs) \in Nat /\ logging \in Nat
      /\ logs \in Seq(Seq(Nat)) /\ \A p \in DOMAIN logs : logs[p] \in Seq(Nat)
  BY LogShape
<1>1. /\ logs' = IF path = 0 THEN logs ELSE [logs EXCEPT ![path] = @ \o flushing]
      /\ flushing' = <<>> /\ path' = 0 /\ task \in {"append", "final_append"}
      /\ task' \in {"loop", "final"}
      /\ UNCHANGED <<mapped, made, scroll, pending, logging, held>>
  BY DEF AppendLog, After
<1>2. /\ DOMAIN logs' = DOMAIN logs /\ Len(logs') = Len(logs)
      /\ \A p \in DOMAIN logs : p # path => logs'[p] = logs[p]
      /\ path # 0 => path \in DOMAIN logs /\ logs'[path] = logs[path] \o flushing
  <2>1. CASE path = 0
    BY <1>0, <1>1, <2>1
  <2>2. CASE path # 0
    <3>1. path \in DOMAIN logs
      BY <1>0, <2>2 DEF LogFrame
    <3>2. logs[path] \o flushing \in Seq(Nat)
      BY <1>0, <3>1
    <3>3. logs' \in Seq(Seq(Nat))
      BY <1>0, <1>1, <2>2, <3>1, <3>2, ExceptSeq
    <3>4. DOMAIN logs' = DOMAIN logs
      BY <1>1, <2>2
    <3> QED BY SMTT(40), <1>0, <1>1, <2>2, <3>1, <3>3, <3>4
  <2> QED BY <2>1, <2>2
<1>3. ASSUME NEW p \in DOMAIN logs PROVE Upto(logs'[p], made)
  <2>1. CASE p = path
    <3>1. logs[p] \in Seq(Nat) /\ logs'[p] = logs[p] \o flushing
      BY <1>0, <1>2, <2>1
    <3>2. \A i \in DOMAIN (logs[p] \o flushing) :
            \/ i \in DOMAIN logs[p] /\ (logs[p] \o flushing)[i] = logs[p][i]
            \/ /\ i - Len(logs[p]) \in DOMAIN flushing
               /\ (logs[p] \o flushing)[i] = flushing[i - Len(logs[p])]
      BY SMTT(40), <1>0, <3>1
    <3> QED BY <3>1, <3>2 DEF LogFrame, Upto
  <2>2. CASE p # path
    BY <1>2, <2>2 DEF LogFrame
  <2> QED BY <2>1, <2>2
<1>4. LogFrame'
  BY SMTT(40), <1>0, <1>1, <1>2, <1>3 DEF LogFrame, Rising, Upto, Precedes
<1>5. ASSUME logging # 0 PROVE FileInv(logs[logging])'
  <2>1. logging \in DOMAIN logs /\ logs[logging] \in Seq(Nat) /\ FileInv(logs[logging])
    BY <1>0, <1>5 DEF LogFrame
  <2>2. OnItsWay' = Range(pending)
    BY <1>1, <1>5 DEF OnItsWay
  <2>3. CASE path # logging
    <3>1. OnItsWay = Range(pending) /\ logs'[logging] = logs[logging]
      BY <1>1, <1>2, <2>1, <2>3 DEF OnItsWay
    <3> QED BY ZenonT(60), <1>1, <2>1, <2>2, <3>1 DEF FileInv
  <2>4. CASE path = logging
    <3>1. OnItsWay = Range(pending) \cup Range(flushing) /\ logs'[logging] = logs[logging] \o flushing
      BY <1>2, <1>5, <2>4 DEF OnItsWay
    <3>2. /\ \A i, j \in 1..Len(logs'[logging]) :
               i < j /\ logs'[logging][i] = logs'[logging][j] => logs'[logging][i] \in held
          /\ Range(logs'[logging]) = Range(logs[logging]) \cup Range(flushing)
      BY <1>0, <2>1, <3>1, AppendRepeats DEF FileInv, LogFrame
    <3>3. Range(flushing) \cap Range(pending) = {}
      <4>1. \A i \in DOMAIN flushing, j \in DOMAIN pending : flushing[i] # pending[j]
        BY <1>0 DEF LogFrame, Precedes
      <4> QED BY <4>1 DEF Range
    <3> QED BY <1>1, <2>1, <2>2, <3>1, <3>2, <3>3 DEF FileInv
  <2> QED BY <2>3, <2>4
<1> QED BY <1>1, <1>4, <1>5

\* A log begins with scrollback; what waits is held.
LEMMA StartKeepsLog ==
  ASSUME Types, ScrollInv, LogFrame, StartLog, UNCHANGED sessionVars
  PROVE  LogFrame' /\ (logging' # 0 => FileInv(logs[logging])')
<1>0. /\ scroll \in Seq(Nat) /\ made \in Nat /\ path \in Nat
      /\ DOMAIN logs = 1..Len(logs) /\ Len(logs) \in Nat
      /\ logs \in Seq(Seq(Nat)) /\ \A p \in DOMAIN logs : logs[p] \in Seq(Nat)
  BY LogShape
<1>1. PICK p \in LogFiles :
        /\ logs' = IF p > Len(logs) THEN Append(logs, FirstLines)
                                    ELSE [logs EXCEPT ![p] = @ \o FirstLines]
        /\ logging' = p
        /\ held' = UNION {IF p > Len(logs) THEN {} ELSE held \cup Range(logs[p]),
                          Range(pending),
                          IF task \in {"path", "final_path"} \/ path = p
                            THEN Range(flushing) ELSE {}}
  BY DEF StartLog
<1>2. UNCHANGED <<mapped, made, scroll, pending, flushing, path, task>>
  BY DEF sessionVars
<1>3. p \in Nat /\ p # 0 /\ (p = Len(logs) + 1 \/ p \in DOMAIN logs)
  <2>1. p = Len(logs) + 1 \/ (p = Len(logs) /\ p # 0)
    BY DEF LogFiles
  <2>2. \A n \in Nat : n + 1 # 0 /\ (n # 0 => n \in 1..n)
    OBVIOUS
  <2> QED BY <1>0, <2>1, <2>2
<1>4. OnItsWay' \subseteq held'
  BY <1>1, <1>2 DEF OnItsWay
<1>5. CASE p = Len(logs) + 1
  <2>0. p > Len(logs)
    BY <1>0, <1>5
  <2>1. logs' = Append(logs, scroll)
    BY <1>1, <2>0 DEF FirstLines
  <2>2. /\ Len(logs') = Len(logs) + 1 /\ DOMAIN logs' = 1..Len(logs) + 1 /\ logs'[p] = scroll
        /\ \A q \in DOMAIN logs : logs'[q] = logs[q]
        /\ \A q \in DOMAIN logs' : q \in DOMAIN logs \/ q = p
    BY <1>0, <1>5, <2>1
  <2>3. LogFrame'
    BY <1>0, <1>1, <1>2, <1>5, <2>2 DEF LogFrame, ScrollInv
  <2>4. \A i, j \in 1..Len(scroll) : i < j => scroll[i] # scroll[j]
    <3>1. \A i, j \in 1..Len(scroll) :
            scroll[i] \in Nat /\ scroll[j] \in Nat /\ (i < j => scroll[i] < scroll[j])
      <4>1. DOMAIN scroll = 1..Len(scroll) /\ \A i \in 1..Len(scroll) : scroll[i] \in Nat
        BY <1>0
      <4>2. \A i, j \in DOMAIN scroll : i < j => scroll[i] < scroll[j]
        BY DEF ScrollInv, Rising
      <4> QED BY <4>1, <4>2
    <3>2. \A x, y \in Nat : x < y => x # y
      OBVIOUS
    <3> QED BY <3>1, <3>2
  <2>5. FileInv(logs[logging])'
    BY <1>1, <1>2, <1>4, <2>2, <2>4 DEF FileInv
  <2> QED BY <2>3, <2>5
<1>6. CASE p \in DOMAIN logs
  <2>1. logs[p] \in Seq(Nat) /\ ~(p > Len(logs)) /\ p <= Len(logs)
    BY <1>0, <1>6
  <2>2. logs' = [logs EXCEPT ![p] = logs[p] \o scroll]
    BY <1>1, <2>1 DEF FirstLines
  <2>3. /\ DOMAIN logs' = DOMAIN logs /\ Len(logs') = Len(logs) /\ logs'[p] = logs[p] \o scroll
        /\ \A q \in DOMAIN logs : q # p => logs'[q] = logs[q]
    <3>1. logs[p] \o scroll \in Seq(Nat)
      BY <1>0, <2>1
    <3>2. logs' \in Seq(Seq(Nat))
      BY <1>0, <1>6, <2>2, <3>1, ExceptSeq
    <3> QED BY SMTT(40), <1>0, <1>6, <2>2, <3>2
  <2>4. Upto(logs'[p], made)
    <3>1. \A i \in DOMAIN (logs[p] \o scroll) :
            \/ i \in DOMAIN logs[p] /\ (logs[p] \o scroll)[i] = logs[p][i]
            \/ /\ i - Len(logs[p]) \in DOMAIN scroll
               /\ (logs[p] \o scroll)[i] = scroll[i - Len(logs[p])]
      BY SMTT(40), <1>0, <2>1
    <3> QED BY <1>6, <2>3, <3>1 DEF LogFrame, ScrollInv, Upto
  <2>5. LogFrame'
    BY <1>0, <1>1, <1>2, <2>1, <2>3, <2>4 DEF LogFrame
  <2>6. Range(logs[p]) \subseteq held'
    BY <1>1, <2>1
  <2>7. \A i, j \in 1..Len(logs[p]) : i < j /\ logs[p][i] = logs[p][j] => logs[p][i] \in held'
    BY <2>1, <2>6 DEF Range
  <2>8. /\ \A i, j \in 1..Len(logs'[p]) : i < j /\ logs'[p][i] = logs'[p][j] => logs'[p][i] \in held'
        /\ Range(logs'[p]) = Range(logs[p]) \cup Range(scroll)
    BY <1>0, <2>1, <2>3, <2>6, <2>7, AppendRepeats DEF ScrollInv
  <2>9. FileInv(logs[logging])'
    BY <1>1, <1>2, <1>4, <2>8 DEF FileInv
  <2> QED BY <2>5, <2>9
<1> QED BY <1>3, <1>5, <1>6

LEMMA LogInvNext == ASSUME Types, ScrollInv, EventsInv, LogInv, [StreamNext]_vars PROVE LogInv'
<1>0. LogFrame /\ (logging # 0 => FileInv(logs[logging]))
  BY LogInvSplit
<1> SUFFICES LogFrame' /\ (logging' # 0 => FileInv(logs[logging])')
  BY DEF LogInv, LogFrame, FileInv, LogComplete, LogHasNoGaps, LogRepeatsOnlyHeld, OnItsWay
<1>1. CASE EmitSessionData
  <2>1. /\ task \in {"flush", "final"} /\ task' \in {"path", "final_path"} /\ path = 0
        /\ flushing' = pending /\ pending' = <<>>
        /\ UNCHANGED <<mapped, made, scroll, path, logs, logging, held>>
    BY <1>0, <1>1 DEF EmitSessionData, Taken, logVars, LogFrame
  <2>2. LogFrame'
    BY <1>0, <2>1 DEF LogFrame, EventsInv, Precedes
  <2>3. logging # 0 => OnItsWay' = OnItsWay
    BY <2>1 DEF OnItsWay, Range
  <2> QED BY <1>0, <2>1, <2>2, <2>3 DEF FileInv
<1>2. CASE LogPath
  <2>1. /\ task \in {"path", "final_path"} /\ task' \in {"append", "final_append"}
        /\ path' = IF mapped THEN logging ELSE 0
        /\ UNCHANGED <<mapped, made, scroll, pending, flushing, logs, logging, held>>
    BY <1>2 DEF LogPath, logVars
  <2>2. LogFrame'
    BY <1>0, <2>1, LogShape DEF LogFrame
  <2>3. /\ OnItsWay' \subseteq OnItsWay
        /\ mapped => OnItsWay' = OnItsWay
    BY <2>1 DEF OnItsWay
  <2> QED BY <1>0, <2>1, <2>2, <2>3 DEF FileInv
<1>3. ASSUME \/ Dropped
             \/ /\ Tick \/ Ends
                /\ UNCHANGED <<watched, mapped, made, scroll, pending, flushing, path, events,
                               socketVars, logVars, readVars>>
      PROVE  LogFrame' /\ (logging' # 0 => FileInv(logs[logging])')
  <2>1. /\ task \in {"loop", "final"} /\ task' \in {"flush", "final", "done"}
        /\ UNCHANGED <<mapped, made, scroll, pending, flushing, path, logs, logging, held>>
    BY <1>3 DEF Dropped, Tick, Ends, logVars
  <2>2. LogFrame' /\ OnItsWay' = OnItsWay
    BY <1>0, <2>1 DEF LogFrame, OnItsWay
  <2> QED BY <1>0, <2>1, <2>2 DEF FileInv
<1>4. ASSUME CloseSession \/ SocketStep \/ ReadStep \/ UNCHANGED vars
      PROVE  LogFrame' /\ (logging' # 0 => FileInv(logs[logging])')
  <2>1. /\ mapped' => mapped
        /\ UNCHANGED <<made, scroll, pending, flushing, path, task, logs, logging, held>>
    BY <1>4 DEF CloseSession, SocketStep, ReadStep, vars, sessionVars, logVars
  <2>2. LogFrame' /\ OnItsWay' = OnItsWay
    BY <1>0, <2>1 DEF LogFrame, OnItsWay
  <2> QED BY <1>0, <2>1, <2>2 DEF FileInv
<1>5. ASSUME StopLog, UNCHANGED sessionVars
      PROVE  LogFrame' /\ (logging' # 0 => FileInv(logs[logging])')
  <2>1. logging' = 0 /\ logs' = logs /\ Len(logs) \in Nat
    BY <1>5, LogShape DEF StopLog
  <2> QED BY <1>0, <1>5, <2>1 DEF LogFrame, sessionVars
<1> QED BY <1>0, <1>1, <1>2, <1>3, <1>4, <1>5, IngestKeepsLog, AppendKeepsLog, StartKeepsLog
        DEF StreamNext, TaskStep, SetLogging
---------------------------------------------------------------------------
(* Redacted reads.                                                         *)

\* A number that was given stays, and a new one is above all of them.
LEMMA TokenKeeps ==
  ASSUME NEW rd \in Numbers, NEW s \in Secrets, Distinct(rd), rd.seen[s] # 0 \/ ~Full(rd)
  PROVE  /\ Distinct(Token(rd, s)) /\ Token(rd, s).seen[s] # 0
         /\ \A t \in Secrets : rd.seen[t] # 0 => Token(rd, s).seen[t] = rd.seen[t]
<1>1. CASE rd.seen[s] # 0
  BY <1>1 DEF Token
<1>2. CASE rd.seen[s] = 0
  <2> DEFINE new == [seen |-> [rd.seen EXCEPT ![s] = rd.next], next |-> rd.next + 1]
  <2>1. Token(rd, s) = new
    BY <1>2 DEF Token
  <2>2. rd.next \in Nat \ {0} /\ \A t \in Secrets : rd.seen[t] \in Nat
    BY DEF Numbers
  <2>3. /\ new.next = rd.next + 1 /\ new.seen[s] = rd.next
        /\ \A t \in Secrets \ {s} : new.seen[t] = rd.seen[t]
    BY DEF Numbers
  <2> HIDE DEF new
  <2>4. \A t \in Secrets : rd.seen[t] < rd.next
    BY DEF Distinct
  <2>5. \A t \in Secrets : new.seen[t] < new.next
    BY <2>2, <2>3, <2>4
  <2>6. ASSUME NEW t \in Secrets, NEW u \in Secrets, new.seen[t] = new.seen[u], new.seen[t] # 0
        PROVE  t = u
    <3>1. \A v \in Secrets : rd.seen[v] # rd.next
      BY <2>2, <2>4
    <3>2. t # s /\ u # s => t = u
      BY <2>3, <2>6 DEF Distinct
    <3> QED BY <2>3, <2>6, <3>1, <3>2
  <2>7. Distinct(new)
    BY <2>5, <2>6 DEF Distinct
  <2> QED BY <1>2, <2>1, <2>2, <2>3, <2>7
<1> QED BY <1>1, <1>2

\* Answers that agree with different numbers agree with each other.
LEMMA AgreementIsStable ==
  ASSUME NEW rd, NEW answers \in SUBSET (Secrets \X Nat), Distinct(rd), Agrees(rd, answers)
  PROVE  \A p, q \in answers : (p[1] = q[1]) <=> (p[2] = q[2])
<1> SUFFICES ASSUME NEW p \in answers, NEW q \in answers
             PROVE  (p[1] = q[1]) <=> (p[2] = q[2])
  OBVIOUS
<1>1. p[1] \in Secrets /\ q[1] \in Secrets
  OBVIOUS
<1>2. p[2] # 0 /\ rd.seen[p[1]] = p[2] /\ rd.seen[q[1]] = q[2]
  BY DEF Agrees
<1> QED BY <1>1, <1>2 DEF Distinct

LEMMA ReadsInvInit == StreamInit => ReadsInv
<1> SUFFICES ASSUME StreamInit PROVE ReadsInv
  OBVIOUS
<1>1. said = {} /\ redactor = NoNumbers /\ \A r \in Readers : reader[r].pc = "idle"
  BY DEF StreamInit, Idle
<1>2. Distinct(NoNumbers)
  BY DEF Distinct, NoNumbers
<1> QED BY <1>1, <1>2 DEF ReadsInv, Stable, Agrees

LEMMA ReadsInvNext == ASSUME Types, ReadsInv, [StreamNext]_vars PROVE ReadsInv'
<1>0. /\ reader \in [Readers -> Readings] /\ redactor \in Numbers /\ said \subseteq Secrets \X Nat
      /\ Types'
  BY NextTypes DEF Types, ReadTypes
<1>1. ASSUME TaskStep \/ CloseSession \/ SocketStep \/ SetLogging \/ UNCHANGED vars
      PROVE  ReadsInv'
  <2>1. UNCHANGED readVars /\ (mapped' => mapped)
    BY <1>1 DEF TaskStep, IngestChunk, EmitSessionData, LogPath, AppendLog, Dropped, CloseSession,
       SocketStep, SetLogging, vars, sessionVars
  <2> QED BY <2>1 DEF ReadsInv, Stable, readVars
<1>2. ASSUME NEW r \in Readers, CopyScrollback(r), UNCHANGED mapped PROVE ReadsInv'
  <2> SUFFICES ASSUME ~raced', ~cleared'
               PROVE  /\ Stable'
                      /\ Distinct(redactor')
                      /\ mapped' => Agrees(redactor', said')
                      /\ \A q \in Readers : reader'[q].pc = "redact" =>
                           /\ Distinct(reader'[q].copy)
                           /\ Agrees(reader'[q].copy, said' \cup reader'[q].out)
                           /\ \A t \in Readers : reader'[t].pc = "redact" => t = q
    BY DEF ReadsInv
  <2>1. /\ ~raced /\ ~cleared /\ mapped /\ UNCHANGED <<redactor, said>>
        /\ \A q \in Readers : reader[q].pc # "redact"
    BY <1>2 DEF CopyScrollback
  <2>2. /\ reader'[r].copy = redactor /\ reader'[r].out = {}
        /\ \A q \in Readers \ {r} : reader'[q] = reader[q]
    BY <1>0, <1>2 DEF CopyScrollback
  <2>3. Stable' /\ Distinct(redactor) /\ Agrees(redactor, said \cup {})
    BY <2>1 DEF ReadsInv, Stable, Agrees
  <2> QED BY <1>2, <2>1, <2>2, <2>3 DEF Agrees
<1>3. ASSUME NEW r \in Readers, Redact(r), UNCHANGED mapped PROVE ReadsInv'
  <2> SUFFICES ASSUME ~raced', ~cleared'
               PROVE  /\ Stable'
                      /\ Distinct(redactor')
                      /\ mapped' => Agrees(redactor', said')
                      /\ \A q \in Readers : reader'[q].pc = "redact" =>
                           /\ Distinct(reader'[q].copy)
                           /\ Agrees(reader'[q].copy, said' \cup reader'[q].out)
                           /\ \A t \in Readers : reader'[t].pc = "redact" => t = q
    BY DEF ReadsInv
  <2>0. PICK rd, s, w : rd = reader[r].copy /\ w = reader[r].raw /\ s = SecretIn[Head(w)]
    OBVIOUS
  <2>1. /\ reader[r].pc = "redact" /\ reader[r].raw # <<>>
        /\ reader' = [reader EXCEPT ![r] = [pc |-> "redact", raw |-> Tail(reader[r].raw),
                        copy |-> Token(rd, s),
                        out |-> reader[r].out \cup {<<s, Token(rd, s).seen[s]>>}]]
        /\ cleared' = (cleared \/ (rd.seen[s] = 0 /\ Full(rd)))
        /\ UNCHANGED <<redactor, said, raced>>
    <3>1. reader[r].pc = "redact" /\ reader[r].raw # <<>> /\ UNCHANGED <<redactor, said, raced>>
      BY <1>3 DEF Redact
    <3>2. cleared' = (cleared \/ (rd.seen[s] = 0 /\ Full(rd)))
      BY <1>3, <2>0, Zenon DEF Redact
    <3>3. reader' = [reader EXCEPT ![r] = [pc |-> "redact", raw |-> Tail(reader[r].raw),
                        copy |-> Token(rd, s),
                        out |-> reader[r].out \cup {<<s, Token(rd, s).seen[s]>>}]]
      BY <1>3, <2>0, Zenon DEF Redact
    <3> QED BY <3>1, <3>2, <3>3
  <2>2. rd \in Numbers /\ w \in Seq(Chunks) /\ reader[r].out \subseteq Secrets \X Nat
    BY <1>0, <2>0 DEF Readings
  <2>3. s \in Secrets
    <3>1. w # <<>>
      BY <2>0, <2>1
    <3>2. Head(w) \in Chunks
      BY SMTT(40), <2>2, <3>1
    <3> QED BY <2>0, <3>2, StreamAssumption DEF Chunks
  <2>4. /\ ~raced /\ ~cleared /\ (rd.seen[s] # 0 \/ ~Full(rd))
        /\ Stable /\ Distinct(redactor) /\ (mapped => Agrees(redactor, said))
        /\ Distinct(rd) /\ Agrees(rd, said \cup reader[r].out)
        /\ \A q \in Readers : reader[q].pc = "redact" => q = r
    <3>1. ~raced /\ ~cleared /\ (rd.seen[s] # 0 \/ ~Full(rd))
      <4>1. cleared' = (cleared \/ (rd.seen[s] = 0 /\ Full(rd))) /\ raced' = raced
        BY <2>1
      <4> QED BY <4>1, Zenon
    <3>2. /\ Stable /\ Distinct(redactor) /\ (mapped => Agrees(redactor, said))
          /\ \A q \in Readers : reader[q].pc = "redact" =>
               /\ Distinct(reader[q].copy) /\ Agrees(reader[q].copy, said \cup reader[q].out)
               /\ \A t \in Readers : reader[t].pc = "redact" => t = q
      BY <3>1 DEF ReadsInv
    <3> QED BY <2>0, <2>1, <3>1, <3>2
  <2>5. /\ reader'[r].pc = "redact" /\ reader'[r].copy = Token(rd, s)
        /\ reader'[r].out = reader[r].out \cup {<<s, Token(rd, s).seen[s]>>}
        /\ \A q \in Readers \ {r} : reader'[q] = reader[q]
    BY <1>0, <2>1
  <2>6. /\ Distinct(Token(rd, s)) /\ Token(rd, s).seen[s] # 0
        /\ \A t \in Secrets : rd.seen[t] # 0 => Token(rd, s).seen[t] = rd.seen[t]
    BY <2>2, <2>3, <2>4, TokenKeeps
  <2>7. Agrees(Token(rd, s), said \cup reader[r].out)
    <3>1. ASSUME NEW p \in said \cup reader[r].out
          PROVE  p[2] # 0 /\ Token(rd, s).seen[p[1]] = p[2]
      <4>1. p[1] \in Secrets
        BY <1>0, <2>2
      <4> QED BY <2>4, <2>6, <4>1 DEF Agrees
    <3> QED BY <3>1 DEF Agrees
  <2>8. Agrees(Token(rd, s), said \cup reader'[r].out)
    BY <2>5, <2>6, <2>7 DEF Agrees
  <2>9. Stable' /\ Distinct(redactor') /\ (mapped' => Agrees(redactor', said'))
    BY <1>3, <2>1, <2>4 DEF Stable
  <2> QED BY ZenonT(60), <2>1, <2>4, <2>5, <2>6, <2>8, <2>9
<1>4. ASSUME NEW r \in Readers, RedactedScrollback(r), UNCHANGED mapped PROVE ReadsInv'
  <2> SUFFICES ASSUME ~raced', ~cleared'
               PROVE  /\ Stable'
                      /\ Distinct(redactor')
                      /\ mapped' => Agrees(redactor', said')
                      /\ \A q \in Readers : reader'[q].pc # "redact"
    BY DEF ReadsInv
  <2>1. /\ reader[r].pc = "redact" /\ ~raced /\ ~cleared
        /\ redactor' = IF mapped THEN reader[r].copy ELSE redactor
        /\ said' = said \cup reader[r].out
        /\ reader' = [reader EXCEPT ![r] = Idle]
    BY <1>4 DEF RedactedScrollback, StoredBack
  <2>2. /\ Distinct(redactor) /\ Distinct(reader[r].copy) /\ Agrees(reader[r].copy, said')
        /\ \A q \in Readers : reader[q].pc = "redact" => q = r
    BY <2>1 DEF ReadsInv
  <2>3. said' \subseteq Secrets \X Nat
    BY <1>0 DEF Types, ReadTypes
  <2>4. Stable'
    BY <2>2, <2>3, AgreementIsStable DEF Stable
  <2>5. \A q \in Readers : reader'[q].pc # "redact"
    BY <1>0, <2>1, <2>2 DEF Idle
  <2> QED BY <1>4, <2>1, <2>2, <2>4, <2>5
<1>5. CASE ReadStep
  BY <1>2, <1>3, <1>4, <1>5 DEF ReadStep, sessionVars
<1> QED BY <1>1, <1>5 DEF StreamNext

---------------------------------------------------------------------------
(* The invariant, and what it says.                                        *)

LEMMA RoomInvInit == StreamInit => RoomInv
BY StreamAssumption DEF StreamInit, RoomInv

LEMMA RoomInvNext == ASSUME Types, RoomInv, [StreamNext]_vars PROVE RoomInv'
<1>0. input \in Seq(Keys) /\ Len(input) \in Nat /\ InputCap \in Nat /\ input' \in Seq(Keys)
  BY SMTT(40), NextTypes, StreamAssumption DEF Types, SocketTypes
<1>1. ASSUME NEW k, Write(k) PROVE RoomInv'
  <2>1. CASE mapped /\ Len(input) < InputCap
    BY <1>0, <1>1, <2>1 DEF Write, RoomInv
  <2>2. CASE ~(mapped /\ Len(input) < InputCap)
    BY <1>1, <2>2 DEF Write, RoomInv
  <2> QED BY <2>1, <2>2
<1>2. ASSUME TerminalReads PROVE RoomInv'
  BY <1>0, <1>2 DEF TerminalReads, RoomInv
<1>3. ASSUME UNCHANGED input PROVE RoomInv'
  BY <1>3 DEF RoomInv
<1>4. ASSUME SocketStep PROVE RoomInv'
  BY <1>1, <1>2, <1>3, <1>4 DEF SocketStep, WsUpgrade, ClientSends, ClientCloses, LoopStep,
     LoopReceives, HandlerGoesOn, LoopServes, LoopEnds
<1>5. ASSUME TaskStep \/ CloseSession \/ SetLogging \/ ReadStep \/ UNCHANGED vars PROVE RoomInv'
  <2>1. UNCHANGED socketVars
    BY <1>5 DEF TaskStep, IngestChunk, EmitSessionData, LogPath, AppendLog, Dropped, CloseSession,
       SetLogging, ReadStep, vars
  <2> QED BY <1>3, <2>1 DEF socketVars
<1> QED BY <1>4, <1>5 DEF StreamNext

\* Every state of the session satisfies the invariant.
THEOREM StreamInvariant == StreamSpec => []IInv
<1>1. StreamInit => IInv
  BY InitTypes, ScrollInvInit, EventsInvInit, HeardInvInit, RoomInvInit, KeysInvInit, LogInvInit,
     ReadsInvInit DEF IInv
<1>2. IInv /\ [StreamNext]_vars => IInv'
  BY NextTypes, ScrollInvNext, EventsInvNext, HeardInvNext, RoomInvNext, KeysInvNext, LogInvNext,
     ReadsInvNext DEF IInv
<1> QED BY <1>1, <1>2, PTL DEF StreamSpec

\* No buffer outgrows its cap, and what a connection is sent is the output in order, nothing
\* twice and without a gap unless the connection lagged (ws_loop, flush_session_output).
THEOREM OutputIsKept == StreamSpec => []OutputKept
<1>1. IInv => StreamTypeOK
  <2> SUFFICES ASSUME IInv PROVE StreamTypeOK
    OBVIOUS
  <2>1. /\ Len(scroll) <= ScrollCap /\ Len(input) <= InputCap /\ Contiguous(scroll)
        /\ task \in {"loop", "flush", "path", "append", "final", "final_path", "final_append",
                     "done"}
    BY DEF IInv, ScrollInv, RoomInv, Types, TaskTypes
  <2>2. logging \in 0..Len(logs) /\ path \in 0..Len(logs)
    BY LogShape DEF IInv, LogInv
  <2>3. \A c \in Conns : /\ ws[c].pc \in {"off", "open", "closing", "gone"}
                         /\ ws[c].start <= ws[c].pos /\ ws[c].pos <= Len(events)
    BY DEF IInv, HeardInv, Types, SocketTypes, Sockets
  <2> QED BY <2>1, <2>2, <2>3 DEF StreamTypeOK
<1>2. IInv => OutputKept
  BY <1>1, HeardInOrder DEF IInv, OutputKept
<1> QED BY <1>2, StreamInvariant, PTL

\* The terminal takes the keys of a connection in the order they were made, each at most once,
\* also when a push types between them (ws_loop).
THEOREM KeysAreInOrder == StreamSpec => []KeysInOrder
<1>1. IInv => KeysInOrder
  BY DEF IInv, KeysInv, QueueInv, Before, KeysInOrder
<1> QED BY <1>1, StreamInvariant, PTL

\* While a session is logged its file has all of the output from its oldest line on, and twice
\* only what was on its way when the log was started (set_logging, flush_session_output).
THEOREM LogIsComplete == StreamSpec => []LogComplete
<1>1. IInv => LogComplete
  BY DEF IInv, LogInv
<1> QED BY <1>1, StreamInvariant, PTL

\* As long as no two redacted reads overlap and the history is not dropped, equal secrets have
\* equal numbers and others different ones, in all the answers (Redactor::token).
THEOREM NumbersAreStable == StreamSpec => []NumbersStableAlone
<1>1. IInv => NumbersStableAlone
  BY DEF IInv, ReadsInv, NumbersStableAlone
<1> QED BY <1>1, StreamInvariant, PTL
=============================================================================
