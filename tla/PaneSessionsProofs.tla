-------------------------- MODULE PaneSessionsProofs --------------------------
(***************************************************************************)
(* What PaneSessions promises, for any number of sessions, clicks, chunks  *)
(* and restarts of the daemon: PanesTrue and ScreensTrue.                  *)
(***************************************************************************)
EXTENDS PaneSessions, FiniteSetTheorems, FunctionTheorems, SequenceTheorems, WellFoundedInduction, TLAPS

-----------------------------------------------------------------------------
(* Shapes.                                                                  *)

Ops == {"open", "local", "closePane", "closeTab", "disconnect", "reconnect", "scrollback"}
Openers == {"open", "local", "reconnect"}
Closers == {"closePane", "closeTab", "disconnect"}

CallRecs == [id : Nat \ {0}, op : Ops, pane : {0} \cup PaneIds, sid : {NoSid} \cup Sids,
             sent : BOOLEAN]
Answers == [id : Nat \ {0}, op : Ops, ok : BOOLEAN, x : Nat]
DataEvents == [t : {"data"}, sid : Sids, x : Nat \ {0}]
ClosedEvents == [t : {"closed"}, sid : Sids, reason : {"closed", "dropped"}]
Panes == [sid : {NoSid} \cup Sids, dis : BOOLEAN]
Terms == [pane : {0} \cup PaneIds, sid : {NoSid} \cup Sids, hyd : Nat, screen : Seq(Nat),
          queue : Seq(Nat), failed : BOOLEAN, again : BOOLEAN]
Pages == [tabs : Seq(PaneIds), active : PaneIds, fresh : Nat, pane : [PaneIds -> Panes],
          connect : Nat, reconnecting : SUBSET Sids, userClosed : SUBSET Sids,
          crossed : SUBSET Sids, term : Terms]

Shape ==
  /\ life \in [Sids -> {"none", "live", "dropped", "closed", "lost"}]
  /\ printed \in [Sids -> Nat]
  /\ ring \in Seq(DataEvents \cup ClosedEvents)
  /\ busy \in Seq(Answers) /\ Len(busy) <= 1
  /\ sock \in {"open", "cut", "closed"}
  /\ up \in Seq(CallRecs)
  /\ next \in Nat \ {0}
  /\ pending \subseteq CallRecs /\ IsFiniteSet(pending)
  /\ pre \in [Sids -> Seq(Nat)]
  /\ ui \in Pages
  /\ mounted \subseteq Sids /\ trimmed \subseteq Sids /\ unclaimed \subseteq Sids
  /\ acts \in 0 .. MaxActs

-----------------------------------------------------------------------------
(* Tabs, and that there is a pane for each tab that will be made: a click   *)
(* or a session makes one at most, and only when its call returns.          *)

TabsOK(u) ==
  /\ IsInjective(u.tabs) /\ u.active \in ToSet(u.tabs)
  /\ u.fresh > 0
  /\ \A p \in ToSet(u.tabs) : p < u.fresh
  /\ \A p \in PaneIds : p >= u.fresh => u.pane[p] = Empty

Born == {s \in Sids : life[s] # "none"}
Owed == {s \in Sids : \E i \in DOMAIN busy : s \in Opened(busy[i])}
Closing == {c \in pending : c.op = "closePane"}
RoomInv ==
  ui.fresh + Cardinality(Closing) + Cardinality(Owed) <= 2 + acts + Cardinality(Born)

InFlight == pending \cup ToSet(up)
IdsInv ==
  /\ \A c \in InFlight : c.id < next /\ c.pane < ui.fresh
  /\ \A c, d \in InFlight : c.id = d.id => c = d
  /\ \A i, j \in DOMAIN up : up[i].id = up[j].id => i = j
  /\ \A c \in InFlight : c.op \notin {"open", "local"} => c.sid \in Sids /\ c.pane \in PaneIds
  /\ \A i \in DOMAIN busy :
       /\ busy[i].id < next
       /\ \A c \in ToSet(up) : c.id # busy[i].id
       /\ \A c \in pending : c.id = busy[i].id => c.op = busy[i].op
  /\ ui.connect < next /\ ui.term.hyd < next
  /\ \A c \in pending : c.id = ui.connect => c.op = "open"
  /\ \A c \in pending : c.id = ui.term.hyd => c.op = "scrollback" /\ c.sid = ui.term.sid

-----------------------------------------------------------------------------
(* A session is in one pane at most, the one it was clicked in.             *)

HomeInv ==
  /\ \A p, q \in PaneIds : ui.pane[p].sid = ui.pane[q].sid /\ ui.pane[p].sid # NoSid => p = q
  /\ \A c \in InFlight : c.sid # NoSid => \A p \in PaneIds : ui.pane[p].sid = c.sid => p = c.pane

Known == {ui.pane[p].sid : p \in PaneIds} \cup {c.sid : c \in InFlight}
         \cup ui.reconnecting \cup ui.userClosed
BornInv ==
  /\ \A s \in Sids : s \in Known => life[s] # "none"
  /\ \A s \in Owed : life[s] # "none" /\ s \notin Known
  /\ \A i \in DOMAIN busy : busy[i].ok /\ busy[i].op \in Openers => busy[i].x \in Sids

(* What the daemon still says of a session.                                 *)
Gone(s) == life[s] \notin {"live", "dropped"}
DaemonInv ==
  /\ sock # "open" => up = <<>> /\ busy = <<>> /\ ring = <<>> /\ \A s \in Sids : Gone(s)
  /\ \A i \in DOMAIN ring : life[ring[i].sid] \notin {"none", "lost"}
  /\ \A i \in DOMAIN ring : ring[i].t = "closed" =>
       /\ life[ring[i].sid] # "live"
       /\ ring[i].reason = "closed" => life[ring[i].sid] = "closed"
  /\ \A s \in Owed : life[s] = "live" \/ (life[s] = "dropped" /\ Coming(s))

-----------------------------------------------------------------------------
(* A session is settled when its pane, if it has one, says it has ended.    *)

SettledIn(u, s) == \A p \in PaneIds : u.pane[p].sid = s => u.pane[p].dis
Settled(s) == SettledIn(ui, s)
BeingClosed(s) == \E c \in pending : c.sid = s /\ c.op \in {"closePane", "disconnect"}
CloseIsUp(s) == \E i \in DOMAIN up : up[i].sid = s /\ up[i].op \in Closers

PanesInv ==
  /\ \A p \in PaneIds :
       LET s == ui.pane[p].sid
       IN  s # NoSid /\ ~ui.pane[p].dis =>
             life[s] \in {"live", "lost"} \/ (life[s] = "dropped" /\ Coming(s)) \/ BeingClosed(s)
  /\ \A p \in PaneIds :
       LET s == ui.pane[p].sid
       IN  s # NoSid /\ ui.pane[p].dis => life[s] # "live" \/ CloseIsUp(s)
CallsInv ==
  /\ \A c \in pending : c.op \in Closers \cup {"reconnect"} => c \in ToSet(up) \/ Gone(c.sid)
  /\ \A c \in ToSet(up) : c.op \in {"closePane", "disconnect"} => c \in pending \/ Settled(c.sid)
  /\ \A c \in ToSet(up) : c.op \in {"closeTab", "reconnect"} => Settled(c.sid)
  /\ \A s \in ui.reconnecting : Settled(s)
  /\ \A s \in ui.userClosed : BeingClosed(s) \/ Settled(s)

PanesIInv ==
  /\ Shape /\ TabsOK(ui) /\ RoomInv /\ IdsInv
  /\ HomeInv /\ BornInv /\ DaemonInv /\ PanesInv /\ CallsInv /\ NobodyForgotten
  /\ \A s \in Sids : Len(pre[s]) <= PreCap

-----------------------------------------------------------------------------
(* Output: what the ring holds of a session are the chunks after the last   *)
(* one that was sent, in order.                                              *)

DataFrom(s, i) == {j \in DOMAIN ring : j >= i /\ ring[j].t = "data" /\ ring[j].sid = s}
RingInv ==
  /\ \A i, j \in DOMAIN ring :
       i < j /\ ring[i].t = "closed" /\ ring[i].sid = ring[j].sid => ring[j].t = "closed"
  /\ \A s \in Sids :
       /\ \A i \in DOMAIN ring : ring[i].t = "data" /\ ring[i].sid = s =>
            ring[i].x + Cardinality(DataFrom(s, i)) = printed[s] + 1
       /\ life[s] = "none" => printed[s] = 0 /\ s \notin mounted
       /\ Sent(s) \in Nat

Stepwise(q) == \A i \in 1 .. Len(q) : q[i] = q[1] + (i - 1)
EndsAt(q, n) == q # <<>> => q[Len(q)] = n

PreOK(s) ==
  /\ Stepwise(pre[s])
  /\ life[s] # "lost" => EndsAt(pre[s], Sent(s))
  /\ ui.term.sid = s => pre[s] = <<>>
  /\ s \notin mounted /\ s \notin trimmed =>
       \/ pre[s] # <<>> /\ pre[s][1] = 1
       \/ pre[s] = <<>> /\ Sent(s) = 0
       \/ pre[s] = <<>> /\ life[s] # "live" /\ DataFrom(s, 1) = {}
PreInv == ui.term.sid \in mounted \cup {NoSid} /\ \A s \in Sids : PreOK(s)

Falls(q) == {i \in 1 .. Len(q) - 1 : q[i + 1] <= q[i]}

\* A screen that goes back once at most and shows what comes next, n.
Painting(q) ==
  /\ \A i \in 1 .. Len(q) - 1 : q[i + 1] <= q[i] + 1
  /\ \A i, j \in Falls(q) : i = j
Shows(q, n) ==
  \/ (\A i \in 1 .. Len(q) : q[i] = i) /\ n <= Len(q)
  \/ q # <<>> /\ q[Len(q)] = n

\* A terminal that waits for its scrollback, and one that paints.
Waits(t, s) ==
  /\ \E c \in pending : c.id = t.hyd
  /\ t.screen = <<>> /\ ~t.failed /\ Stepwise(t.queue)
  /\ life[s] # "lost" /\ t.queue # <<>> => Sent(s) > 0 /\ EndsAt(t.queue, Sent(s))
  /\ \A i \in DOMAIN busy :
       busy[i].id = t.hyd /\ busy[i].ok => busy[i].x >= Sent(s) /\ life[s] # "lost"
Paints(t, s) ==
  /\ t.queue = <<>>
  /\ Painting(t.screen)
  /\ life[s] # "lost" => Shows(t.screen, Sent(s)) \/ (t.screen = <<>> /\ t.failed)
  /\ t.screen # <<>> /\ t.screen[1] # 1 => t.failed \/ s \in trimmed \/ t.again
TermInv ==
  \A s \in Sids : ui.term.sid = s =>
    IF ui.term.hyd # NoCall THEN Waits(ui.term, s) ELSE Paints(ui.term, s)

ScreensIInv == RingInv /\ PreInv /\ TermInv

-----------------------------------------------------------------------------
(* The functions of the page.                                               *)

LEMMA RemoveFirstIs ==
  ASSUME NEW S, NEW q \in Seq(S), IsInjective(q), NEW e
  PROVE  LET r == RemoveFirst(q, e)
         IN  r \in Seq(S) /\ IsInjective(r) /\ ToSet(r) = ToSet(q) \ {e}
<1>1. CASE \E i \in 1 .. Len(q) : q[i] = e
  <2>1. PICK i \in 1 .. Len(q) : q[i] = e
    BY <1>1
  <2>0. Len(q) \in Nat /\ i \in Nat /\ DOMAIN q = 1 .. Len(q)
    BY <2>1
  <2>2. {j \in 1 .. Len(q) : q[j] = e} = {i}
    BY <2>1 DEF IsInjective
  <2>3. SelectInSeq(q, LAMBDA v : v = e) = i
    BY <2>1, <2>2 DEF SelectInSeq, Min
  <2>4. RemoveFirst(q, e) = SubSeq(q, 1, i - 1) \o SubSeq(q, i + 1, Len(q))
    BY <2>1, <2>3 DEF RemoveFirst, RemoveAt
  <2> DEFINE r == SubSeq(q, 1, i - 1) \o SubSeq(q, i + 1, Len(q))
           a == SubSeq(q, 1, i - 1)
           b == SubSeq(q, i + 1, Len(q))
  <2>3a. /\ a \in Seq(S) /\ Len(a) = i - 1
        /\ \A j \in 1 .. i - 1 : a[j] = q[j]
    <3>1. \A j \in 1 .. i - 1 : q[j] \in S
      BY <2>1
    <3>2. 1 \in Int /\ i - 1 \in Int
      BY <2>1
    <3> QED BY <3>1, <3>2, <2>1, SubSeqProperties
  <2>3b. /\ b \in Seq(S) /\ Len(b) = Len(q) - i
        /\ \A j \in 1 .. Len(q) - i : b[j] = q[i + j]
    <3>1. \A j \in i + 1 .. Len(q) : q[j] \in S
      BY <2>1
    <3>2. i + 1 \in Int /\ Len(q) \in Int
      BY <2>1
    <3>3. /\ b \in Seq(S) /\ Len(b) = IF i + 1 <= Len(q) THEN Len(q) - (i + 1) + 1 ELSE 0
          /\ \A j \in 1 .. Len(q) - (i + 1) + 1 : b[j] = q[i + 1 + j - 1]
      BY <3>1, <3>2, SubSeqProperties
    <3> QED BY <3>3, <2>1
  <2> HIDE DEF a, b
  <2>3c. r = a \o b
    BY DEF a, b
  <2> HIDE DEF r
  <2>5. r \in Seq(S) /\ Len(r) = Len(q) - 1
    <3>1. r \in Seq(S) /\ Len(r) = Len(a) + Len(b)
      BY <2>3a, <2>3b, <2>3c, ConcatProperties
    <3> QED BY <3>1, <2>3a, <2>3b, <2>0
  <2>6. \A j \in 1 .. Len(r) : r[j] = IF j < i THEN q[j] ELSE q[j + 1]
    <3>1. \A j \in 1 .. Len(a) + Len(b) : r[j] = IF j <= Len(a) THEN a[j] ELSE b[j - Len(a)]
      BY <2>3a, <2>3b, <2>3c, ConcatProperties
    <3> SUFFICES ASSUME NEW j \in 1 .. Len(r) PROVE r[j] = IF j < i THEN q[j] ELSE q[j + 1]
      OBVIOUS
    <3>2. CASE j < i
      <4>1. j \in 1 .. i - 1 /\ j \in 1 .. Len(a) + Len(b) /\ j <= Len(a)
        BY <3>2, <2>3a, <2>3b, <2>5, <2>1, <2>0
      <4> QED BY <4>1, <3>1, <3>2, <2>3a
    <3>3. CASE j >= i
      <4>0. j - Len(a) \in 1 .. Len(q) - i /\ j \in 1 .. Len(a) + Len(b) /\ ~(j <= Len(a))
        BY <3>3, <2>3a, <2>3b, <2>5, <2>1, <2>0
      <4>1. j - Len(a) \in 1 .. Len(q) - i /\ r[j] = b[j - Len(a)]
        BY <4>0, <3>1
      <4>2. b[j - Len(a)] = q[i + (j - Len(a))] /\ i + (j - Len(a)) = j + 1
        BY <4>1, <2>3a, <2>3b, <2>1
      <4> QED BY <4>1, <4>2, <3>3, <2>1
    <3> QED BY <3>2, <3>3, <2>1, <2>5
  <2>7. IsInjective(r)
    <3>1. \A j, k \in 1 .. Len(q) : q[j] = q[k] => j = k
      BY <2>0 DEF IsInjective
    <3>2. ASSUME NEW j \in 1 .. Len(r), NEW k \in 1 .. Len(r), r[j] = r[k] PROVE j = k
      <4> DEFINE at(n) == IF n < i THEN n ELSE n + 1
      <4>1. r[j] = q[at(j)] /\ r[k] = q[at(k)] /\ at(j) \in 1 .. Len(q) /\ at(k) \in 1 .. Len(q)
        BY <2>5, <2>6, <2>0
      <4>2. at(j) = at(k)
        BY <4>1, <3>1, <3>2
      <4> QED BY <4>2, <2>5, <2>0
    <3>3. DOMAIN r = 1 .. Len(r)
      BY <2>5
    <3> QED BY <3>2, <3>3 DEF IsInjective
  <2>8. ToSet(r) \subseteq ToSet(q) \ {e}
    BY SMTT(40), <2>1, <2>5, <2>6 DEF IsInjective, ToSet
  <2>9. ToSet(q) \ {e} \subseteq ToSet(r)
    <3> SUFFICES ASSUME NEW k \in 1 .. Len(q), q[k] # e
                 PROVE  \E j \in 1 .. Len(r) : r[j] = q[k]
      BY <2>5 DEF ToSet
    <3>1. CASE k < i
      BY <3>1, <2>1, <2>5, <2>6
    <3>2. CASE k > i
      <4>1. k - 1 \in 1 .. Len(r) /\ r[k - 1] = q[k]
        BY <3>2, <2>1, <2>5, <2>6
      <4> QED BY <4>1
    <3> QED BY <3>1, <3>2, <2>1
  <2> QED BY <2>4, <2>5, <2>7, <2>8, <2>9 DEF r
<1>2. CASE ~\E i \in 1 .. Len(q) : q[i] = e
  <2>1. RemoveFirst(q, e) = q
    BY <1>2 DEF RemoveFirst
  <2> QED BY <2>1, <1>2 DEF ToSet
<1> QED BY <1>1, <1>2

LEMMA AppendIs ==
  ASSUME NEW S, NEW q \in Seq(S), IsInjective(q), NEW e \in S, e \notin ToSet(q)
  PROVE  LET r == Append(q, e)
         IN  r \in Seq(S) /\ IsInjective(r) /\ ToSet(r) = ToSet(q) \cup {e}
<1> DEFINE r == Append(q, e)
<1>1. /\ r \in Seq(S) /\ Len(r) = Len(q) + 1 /\ r[Len(q) + 1] = e /\ Len(q) \in Nat
      /\ DOMAIN q = 1 .. Len(q) /\ DOMAIN r = 1 .. Len(q) + 1
      /\ \A i \in 1 .. Len(q) : r[i] = q[i]
  OBVIOUS
<1> HIDE DEF r
<1>2. \A i \in 1 .. Len(q) : q[i] # e
  BY <1>1 DEF ToSet
<1>3. IsInjective(r)
  BY <1>1, <1>2 DEF IsInjective
<1>4. ToSet(r) = ToSet(q) \cup {e}
  BY <1>1 DEF ToSet
<1> QED BY <1>1, <1>3, <1>4 DEF r

(* What a function of the page may do to the panes: no session moves to     *)
(* another pane; a new one, x, may come; what leaves was marked, or is s,    *)
(* or is noted as crossed; and only s is newly marked.                      *)
Turns(u, v, x, s) ==
  /\ \A p \in PaneIds : v.pane[p].sid \in {u.pane[p].sid, NoSid, x}
  /\ \A p \in PaneIds : v.pane[p].sid = u.pane[p].sid /\ v.pane[p].sid # NoSid =>
       /\ u.pane[p].dis => v.pane[p].dis
       /\ v.pane[p].dis => u.pane[p].dis \/ u.pane[p].sid = s
  /\ x # NoSid =>
       /\ \A p, q \in PaneIds : v.pane[p].sid = x /\ v.pane[q].sid = x => p = q
       /\ \A p \in PaneIds : v.pane[p].sid = x => ~v.pane[p].dis
       /\ x \in Shown(v) \cup v.crossed
  /\ u.crossed \subseteq v.crossed
  /\ Shown(u) \subseteq Shown(v) \cup v.crossed \cup {s}
                        \cup {u.pane[p].sid : p \in {q \in PaneIds : u.pane[q].dis}}

(* What it leaves alone.                                                     *)
KeepsRest(u, v) ==
  /\ v.connect = u.connect /\ v.term = u.term
  /\ v.reconnecting = u.reconnecting /\ v.userClosed = u.userClosed

LEMMA ShowIs ==
  ASSUME NEW u \in Pages, TabsOK(u), NEW p \in PaneIds, p < u.fresh, NEW x \in Sids,
         \A q \in PaneIds : u.pane[q].sid # x
  PROVE  LET v == Show(u, p, x)
         IN  /\ v \in Pages /\ TabsOK(v) /\ v.fresh = u.fresh /\ v.tabs = u.tabs
             /\ v.crossed = u.crossed /\ KeepsRest(u, v)
             /\ v.pane[p] = [sid |-> x, dis |-> FALSE]
             /\ \A q \in PaneIds \ {p} : v.pane[q] = u.pane[q]
<1> DEFINE v == Show(u, p, x)
<1>1. [sid |-> x, dis |-> FALSE] \in Panes
  BY DEF Panes
<1>2. v = [u EXCEPT !.pane = [u.pane EXCEPT ![p] = [sid |-> x, dis |-> FALSE]]]
  BY DEF Show, Pages
<1>3. [u.pane EXCEPT ![p] = [sid |-> x, dis |-> FALSE]] \in [PaneIds -> Panes]
  BY <1>1 DEF Pages
<1>4. v \in Pages
  BY <1>2, <1>3 DEF Pages
<1>5. v.pane = [u.pane EXCEPT ![p] = [sid |-> x, dis |-> FALSE]]
  BY <1>2 DEF Pages
<1>6. /\ v.fresh = u.fresh /\ v.tabs = u.tabs /\ v.active = u.active
      /\ v.crossed = u.crossed /\ KeepsRest(u, v)
  BY <1>2 DEF Pages, KeepsRest
<1>7. /\ v.pane[p] = [sid |-> x, dis |-> FALSE]
      /\ \A q \in PaneIds \ {p} : v.pane[q] = u.pane[q]
  BY <1>5 DEF Pages
<1> HIDE DEF v
<1>8. TabsOK(v)
  <2>1. \A q \in PaneIds : q >= u.fresh => q # p
    BY PaneBoundsAssumption DEF PaneIds, Pages
  <2> QED BY <2>1, <1>6, <1>7 DEF TabsOK
<1>9. /\ v \in Pages /\ TabsOK(v) /\ v.fresh = u.fresh /\ v.tabs = u.tabs
      /\ v.crossed = u.crossed /\ KeepsRest(u, v)
      /\ v.pane[p] = [sid |-> x, dis |-> FALSE]
      /\ \A q \in PaneIds \ {p} : v.pane[q] = u.pane[q]
  BY <1>4, <1>6, <1>7, <1>8
<1> QED BY <1>9 DEF v

LEMMA NewTabIs ==
  ASSUME NEW u \in Pages, u.fresh \in PaneIds, IsInjective(u.tabs), u.fresh > 0,
         \A p \in ToSet(u.tabs) : p < u.fresh,
         \A p \in PaneIds : p >= u.fresh => u.pane[p] = Empty
  PROVE  LET v == NewTabPane(u)
         IN  /\ v \in Pages /\ TabsOK(v) /\ v.fresh = u.fresh + 1
             /\ ToSet(v.tabs) = ToSet(u.tabs) \cup {u.fresh} /\ v.active = u.fresh
             /\ v.crossed = u.crossed /\ KeepsRest(u, v) /\ v.pane = u.pane
<1> DEFINE v == NewTabPane(u)
           tabs == Append(u.tabs, u.fresh)
<1>1. u.tabs \in Seq(PaneIds) /\ u.fresh \in Nat /\ u.fresh + 1 \in Nat
  BY DEF Pages
<1>2. v = [u EXCEPT !.tabs = tabs, !.active = u.fresh, !.fresh = u.fresh + 1]
  BY DEF NewTabPane, Pages
<1>3. u.fresh \notin ToSet(u.tabs)
  BY <1>1
<1>4. tabs \in Seq(PaneIds) /\ IsInjective(tabs) /\ ToSet(tabs) = ToSet(u.tabs) \cup {u.fresh}
  BY <1>1, <1>3, AppendIs
<1> HIDE DEF tabs, v
<1>5. v \in Pages
  BY <1>1, <1>2, <1>4 DEF Pages
<1>6. /\ v.fresh = u.fresh + 1 /\ v.tabs = tabs /\ v.active = u.fresh
      /\ v.crossed = u.crossed /\ KeepsRest(u, v) /\ v.pane = u.pane
  BY <1>2 DEF Pages, KeepsRest
<1>7. TabsOK(v)
  <2>1. \A p \in ToSet(tabs) : p < u.fresh + 1
    <3>1. ToSet(u.tabs) \subseteq Nat
      BY SMTT(40), <1>1, PaneBoundsAssumption DEF ToSet, PaneIds
    <3>2. \A p \in ToSet(u.tabs) : p < u.fresh + 1
      BY <3>1, <1>1
    <3> QED BY <3>2, <1>1, <1>4
  <2>2. \A p \in PaneIds : p >= u.fresh + 1 => p >= u.fresh
    BY <1>1, PaneBoundsAssumption DEF PaneIds
  <2>3. u.fresh + 1 > 0
    BY <1>1
  <2> QED BY <1>4, <1>6, <2>1, <2>2, <2>3 DEF TabsOK
<1>9. /\ v \in Pages /\ TabsOK(v) /\ v.fresh = u.fresh + 1
      /\ ToSet(v.tabs) = ToSet(u.tabs) \cup {u.fresh} /\ v.active = u.fresh
      /\ v.crossed = u.crossed /\ KeepsRest(u, v) /\ v.pane = u.pane
  BY <1>4, <1>5, <1>6, <1>7
<1> QED BY <1>9 DEF v

LEMMA PageTypes ==
  ASSUME NEW u \in Pages
  PROVE  /\ u.tabs \in Seq(PaneIds) /\ u.active \in PaneIds /\ u.fresh \in Nat
         /\ u.pane \in [PaneIds -> Panes] /\ u.connect \in Nat /\ u.term \in Terms
         /\ u.reconnecting \subseteq Sids /\ u.userClosed \subseteq Sids /\ u.crossed \subseteq Sids
         /\ \A p \in PaneIds : u.pane[p].sid \in {NoSid} \cup Sids /\ u.pane[p].dis \in BOOLEAN
         /\ ToSet(u.tabs) \subseteq PaneIds /\ PaneIds \subseteq Nat \ {0} /\ 1 \in PaneIds
         /\ \A s \in Sids : s \in Nat /\ s # NoSid
<1>1. /\ u.tabs \in Seq(PaneIds) /\ u.active \in PaneIds /\ u.fresh \in Nat
      /\ u.pane \in [PaneIds -> Panes] /\ u.connect \in Nat /\ u.term \in Terms
      /\ u.reconnecting \subseteq Sids /\ u.userClosed \subseteq Sids /\ u.crossed \subseteq Sids
  BY DEF Pages
<1>2. \A p \in PaneIds : u.pane[p].sid \in {NoSid} \cup Sids /\ u.pane[p].dis \in BOOLEAN
  BY <1>1 DEF Panes
<1>3. ToSet(u.tabs) \subseteq PaneIds
  BY <1>1 DEF ToSet
<1>4. PaneIds \subseteq Nat \ {0} /\ 1 \in PaneIds /\ \A s \in Sids : s \in Nat /\ s # NoSid
  BY PaneBoundsAssumption DEF PaneIds, Sids, NoSid
<1> QED BY <1>1, <1>2, <1>3, <1>4

LEMMA ShowTurns ==
  ASSUME NEW u \in Pages, TabsOK(u), NEW p \in PaneIds, p < u.fresh, NEW x \in Sids,
         \A q \in PaneIds : u.pane[q].sid # x, NEW s,
         u.pane[p].sid \in {NoSid, s} \cup u.crossed \/ u.pane[p].dis,
         p \in ToSet(u.tabs) \/ x \in u.crossed
  PROVE  Turns(u, Show(u, p, x), x, s)
<1> DEFINE v == Show(u, p, x)
<1>1. /\ v.tabs = u.tabs /\ v.crossed = u.crossed
      /\ v.pane[p] = [sid |-> x, dis |-> FALSE]
      /\ \A q \in PaneIds \ {p} : v.pane[q] = u.pane[q]
  BY ShowIs
<1>2. ToSet(u.tabs) \subseteq PaneIds /\ x # NoSid
  BY PageTypes
<1> HIDE DEF v
<1>3. v.pane[p].sid = x /\ ~v.pane[p].dis
  BY <1>1
<1>4. /\ \A q \in PaneIds : v.pane[q].sid \in {u.pane[q].sid, NoSid, x}
      /\ \A q \in PaneIds : v.pane[q].sid = u.pane[q].sid /\ v.pane[q].sid # NoSid =>
           /\ u.pane[q].dis => v.pane[q].dis
           /\ v.pane[q].dis => u.pane[q].dis \/ u.pane[q].sid = s
  BY <1>1, <1>3
<1>5. /\ \A q, r \in PaneIds : v.pane[q].sid = x /\ v.pane[r].sid = x => q = r
      /\ \A q \in PaneIds : v.pane[q].sid = x => ~v.pane[q].dis
  BY <1>1, <1>3
<1>6. x \in Shown(v) \cup v.crossed
  BY <1>1, <1>2, <1>3 DEF Shown
<1>7. Shown(u) \subseteq Shown(v) \cup v.crossed \cup {s}
                            \cup {u.pane[q].sid : q \in {q \in PaneIds : u.pane[q].dis}}
  <2> SUFFICES ASSUME NEW q \in ToSet(u.tabs), u.pane[q].sid # NoSid, u.pane[q].sid # s,
                      ~u.pane[q].dis, u.pane[q].sid \notin u.crossed
               PROVE  u.pane[q].sid \in Shown(v)
    <3>1. \A q \in ToSet(u.tabs) :
            u.pane[q].sid \in Shown(v) \cup v.crossed \cup {s, NoSid}
              \/ q \in {q1 \in PaneIds : u.pane[q1].dis}
      BY <1>1, <1>2
    <3> QED BY <3>1 DEF Shown
  <2>1. q # p /\ q \in PaneIds
    BY <1>2
  <2> QED BY <2>1, <1>1 DEF Shown
<1>8. Turns(u, v, x, s)
  BY <1>1, <1>4, <1>5, <1>6, <1>7 DEF Turns
<1> QED BY <1>8 DEF v

LEMMA AttachIs ==
  ASSUME NEW u \in Pages, TabsOK(u), u.fresh \in PaneIds, NEW x \in Sids,
         \A q \in PaneIds : u.pane[q].sid # x, NEW s
  PROVE  LET v == AttachSession(u, x)
         IN  /\ v \in Pages /\ TabsOK(v) /\ v.fresh \in {u.fresh, u.fresh + 1}
             /\ KeepsRest(u, v) /\ Turns(u, v, x, s)
<1>1. u.active \in PaneIds /\ u.active < u.fresh /\ u.active \in ToSet(u.tabs) /\ u.fresh \in Nat
  BY PageTypes DEF TabsOK
<1>2. CASE Reusable(u)
  <2>1. u.pane[u.active].sid = NoSid \/ u.pane[u.active].dis
    BY <1>2 DEF Reusable
  <2>2. AttachSession(u, x) = Show(u, u.active, x)
    BY <1>2 DEF AttachSession
  <2>3. Turns(u, Show(u, u.active, x), x, s)
    BY <1>1, <2>1, ShowTurns
  <2>4. LET w == Show(u, u.active, x)
        IN  w \in Pages /\ TabsOK(w) /\ w.fresh = u.fresh /\ KeepsRest(u, w)
    BY <1>1, ShowIs
  <2> QED BY <2>2, <2>3, <2>4
<1>3. CASE ~Reusable(u)
  <2> DEFINE w == NewTabPane(u)
             v == Show(w, u.fresh, x)
  <2>1. AttachSession(u, x) = v
    BY <1>3 DEF AttachSession
  <2>2. /\ w \in Pages /\ TabsOK(w) /\ w.fresh = u.fresh + 1
        /\ ToSet(w.tabs) = ToSet(u.tabs) \cup {u.fresh} /\ w.active = u.fresh
        /\ w.crossed = u.crossed /\ KeepsRest(u, w) /\ w.pane = u.pane
    BY NewTabIs DEF TabsOK
  <2>3. u.pane[u.fresh].sid = NoSid
    BY <1>1 DEF TabsOK, Empty
  <2> HIDE DEF w
  <2>4. u.fresh < w.fresh /\ \A q \in PaneIds : w.pane[q].sid # x
    BY <2>2, <1>1
  <2>5. Turns(w, v, x, s)
    <3>1. w.pane[u.fresh].sid = NoSid /\ u.fresh \in ToSet(w.tabs)
      BY <2>2, <2>3
    <3> QED BY <3>1, <2>2, <2>4, ShowTurns
  <2>6. /\ v \in Pages /\ TabsOK(v) /\ v.fresh = w.fresh /\ v.tabs = w.tabs
        /\ v.crossed = w.crossed /\ KeepsRest(w, v)
    BY <2>2, <2>4, ShowIs
  <2> HIDE DEF v
  <2>7. Shown(u) \subseteq Shown(w)
    BY <2>2 DEF Shown
  <2>8. Turns(u, v, x, s)
    BY <2>5, <2>7, <2>2 DEF Turns
  <2>9. KeepsRest(u, v)
    BY <2>2, <2>6 DEF KeepsRest
  <2> QED BY <2>1, <2>2, <2>6, <2>8, <2>9
<1> QED BY <1>2, <1>3

LEMMA MarkIs ==
  ASSUME NEW u \in Pages, TabsOK(u), NEW s \in Sids
  PROVE  LET v == MarkDisconnected(u, s)
         IN  /\ v \in Pages /\ TabsOK(v) /\ v.fresh = u.fresh
             /\ KeepsRest(u, v) /\ Turns(u, v, NoSid, s) /\ SettledIn(v, s)
<1> DEFINE v == MarkDisconnected(u, s)
           f == [p \in PaneIds |-> [u.pane[p] EXCEPT !.dis = @ \/ u.pane[p].sid = s]]
<1>1. \A p \in PaneIds : u.pane[p] \in Panes
  BY PageTypes
<1>2. \A p \in PaneIds : /\ f[p] \in Panes /\ f[p].sid = u.pane[p].sid
                         /\ f[p].dis = (u.pane[p].dis \/ u.pane[p].sid = s)
  BY <1>1 DEF Panes
<1>3. f \in [PaneIds -> Panes]
  BY <1>2
<1>4. v = [u EXCEPT !.pane = f]
  BY DEF MarkDisconnected
<1> HIDE DEF f, v
<1>5. v \in Pages
  BY <1>3, <1>4 DEF Pages
<1>6. /\ v.pane = f /\ v.fresh = u.fresh /\ v.tabs = u.tabs /\ v.active = u.active
      /\ v.crossed = u.crossed /\ KeepsRest(u, v)
  BY <1>4 DEF Pages, KeepsRest
<1>7. TabsOK(v)
  <2>1. \A p \in PaneIds : u.pane[p] = Empty => f[p] = Empty
    <3> SUFFICES ASSUME NEW p \in PaneIds, u.pane[p] = Empty PROVE f[p] = Empty
      OBVIOUS
    <3>1. f[p].sid = NoSid /\ f[p].dis = FALSE
      BY <1>2, PageTypes DEF Empty
    <3> QED BY <3>1, <1>2 DEF Panes, Empty
  <2> QED BY <1>6, <2>1 DEF TabsOK
<1>8. Shown(v) = Shown(u)
  BY SMTT(40), <1>2, <1>6, PageTypes DEF Shown
<1>9. Turns(u, v, NoSid, s) /\ SettledIn(v, s)
  BY <1>2, <1>6, <1>8 DEF Turns, SettledIn
<1> QED BY <1>5, <1>6, <1>7, <1>9 DEF v

LEMMA WithoutIs ==
  ASSUME NEW u \in Pages, TabsOK(u), u.fresh \in PaneIds, NEW p \in PaneIds, NEW end, NEW s,
         u.pane[p].sid = NoSid \/ u.pane[p].sid = s \/ u.pane[p].sid \in u.crossed
  PROVE  LET v == Without(u, p, end)
         IN  /\ v \in Pages /\ TabsOK(v) /\ v.fresh \in {u.fresh, u.fresh + 1}
             /\ KeepsRest(u, v) /\ Turns(u, v, NoSid, s)
             /\ v.pane[p] = Empty
             /\ \A q \in PaneIds \ {p} : v.pane[q] = u.pane[q]
             /\ v.crossed = u.crossed
<1> DEFINE rest == RemoveFirst(u.tabs, p)
           pane == [u.pane EXCEPT ![p] = Empty]
           w == [u EXCEPT !.tabs = rest, !.pane = pane]
           active == IF u.active \in ToSet(rest) THEN u.active
                     ELSE IF end = "last" THEN Last(rest) ELSE Head(rest)
           v == IF rest = <<>> THEN NewTabPane(w) ELSE [w EXCEPT !.active = active]
<1>1. u.tabs \in Seq(PaneIds) /\ IsInjective(u.tabs) /\ u.pane \in [PaneIds -> Panes]
  BY PageTypes DEF TabsOK
<1>2. rest \in Seq(PaneIds) /\ IsInjective(rest) /\ ToSet(rest) = ToSet(u.tabs) \ {p}
  BY <1>1, RemoveFirstIs
<1>3. pane \in [PaneIds -> Panes] /\ pane[p] = Empty /\ \A q \in PaneIds \ {p} : pane[q] = u.pane[q]
  BY <1>1 DEF Panes, Empty
<1>4. w = [u EXCEPT !.tabs = rest, !.pane[p] = Empty]
  BY DEF Pages
<1>5. [w EXCEPT !.active = IF @ \in ToSet(rest) THEN @
                           ELSE IF end = "last" THEN Last(rest) ELSE Head(rest)]
      = [w EXCEPT !.active = active]
  BY DEF Pages
<1>6. Without(u, p, end) = v
  BY <1>4, <1>5 DEF Without
<1> HIDE DEF rest, pane
<1>7. /\ w \in Pages /\ w.tabs = rest /\ w.pane = pane /\ w.fresh = u.fresh /\ w.active = u.active
      /\ w.crossed = u.crossed /\ KeepsRest(u, w)
  BY <1>2, <1>3 DEF Pages, KeepsRest
<1> HIDE DEF w
<1>8. /\ v \in Pages /\ TabsOK(v) /\ v.fresh \in {u.fresh, u.fresh + 1} /\ KeepsRest(w, v)
      /\ v.pane = pane /\ ToSet(rest) \subseteq ToSet(v.tabs) /\ v.crossed = u.crossed
  <2>1. /\ \A q \in ToSet(rest) : q < u.fresh
        /\ \A q \in PaneIds : q >= u.fresh => pane[q] = Empty
        /\ u.fresh > 0
    BY <1>2, <1>3 DEF TabsOK
  <2>2. CASE rest = <<>>
    <3>1. v = NewTabPane(w)
      BY <2>2
    <3>2. LET n == NewTabPane(w)
          IN  /\ n \in Pages /\ TabsOK(n) /\ n.fresh = w.fresh + 1
              /\ ToSet(n.tabs) = ToSet(w.tabs) \cup {w.fresh} /\ n.active = w.fresh
              /\ n.crossed = w.crossed /\ KeepsRest(w, n) /\ n.pane = w.pane
      BY <1>2, <1>7, <2>1, NewTabIs
    <3> QED BY <3>1, <3>2, <1>7
  <2>3. CASE rest # <<>>
    <3>1. active \in ToSet(rest)
      BY <1>2, <2>3 DEF ToSet, Last
    <3>2. active \in PaneIds
      BY <3>1, <1>2 DEF ToSet
    <3> HIDE DEF active
    <3>3. v = [w EXCEPT !.active = active]
      BY <2>3
    <3> HIDE DEF v
    <3>4. v \in Pages
      BY <3>2, <3>3, <1>7 DEF Pages
    <3>5. /\ v.tabs = rest /\ v.pane = pane /\ v.fresh = u.fresh /\ v.active = active
          /\ v.crossed = u.crossed /\ KeepsRest(w, v)
      BY <3>3, <1>7 DEF Pages, KeepsRest
    <3>6. TabsOK(v)
      BY <3>1, <3>5, <2>1, <1>2 DEF TabsOK
    <3> QED BY <3>4, <3>5, <3>6
  <2> QED BY <2>2, <2>3
<1> HIDE DEF v
<1>9. KeepsRest(u, v)
  BY <1>7, <1>8 DEF KeepsRest
<1>10. Turns(u, v, NoSid, s)
  <2>1. \A q \in PaneIds : v.pane[q] = u.pane[q] \/ (q = p /\ v.pane[q].sid = NoSid)
    BY <1>3, <1>8 DEF Empty
  <2>2. Shown(u) \subseteq Shown(v) \cup v.crossed \cup {s}
    <3> SUFFICES ASSUME NEW q \in ToSet(u.tabs), u.pane[q].sid # NoSid, u.pane[q].sid # s,
                        u.pane[q].sid \notin u.crossed
                 PROVE  u.pane[q].sid \in Shown(v)
      BY <1>8 DEF Shown
    <3>1. q # p /\ q \in PaneIds /\ q \in ToSet(v.tabs)
      BY <1>2, <1>8, PageTypes
    <3> QED BY <3>1, <1>3, <1>8 DEF Shown
  <2> QED BY <2>1, <2>2, <1>8 DEF Turns
<1>11. /\ v \in Pages /\ TabsOK(v) /\ v.fresh \in {u.fresh, u.fresh + 1}
       /\ KeepsRest(u, v) /\ Turns(u, v, NoSid, s)
       /\ v.pane[p] = Empty /\ v.crossed = u.crossed
       /\ \A q \in PaneIds \ {p} : v.pane[q] = u.pane[q]
  BY <1>3, <1>8, <1>9, <1>10
<1> QED BY <1>6, <1>11

LEMMA CrossedIs ==
  ASSUME NEW u \in Pages, TabsOK(u), NEW S, S \subseteq {NoSid} \cup Sids
  PROVE  LET v == Crossed(u, S)
         IN  /\ v \in Pages /\ TabsOK(v) /\ v.fresh = u.fresh /\ v.tabs = u.tabs /\ v.pane = u.pane
             /\ KeepsRest(u, v) /\ v.crossed = u.crossed \cup (S \ {NoSid})
<1> DEFINE more == u.crossed \cup (S \ {NoSid})
           v == [u EXCEPT !.crossed = more]
<1>1. more \subseteq Sids
  BY PageTypes
<1>2. Crossed(u, S) = v
  BY DEF Crossed, Pages
<1> HIDE DEF more
<1>3. /\ v \in Pages /\ v.fresh = u.fresh /\ v.tabs = u.tabs /\ v.pane = u.pane
      /\ v.active = u.active /\ KeepsRest(u, v) /\ v.crossed = more
  BY <1>1 DEF Pages, KeepsRest
<1> HIDE DEF v
<1>4. TabsOK(v)
  BY <1>3 DEF TabsOK
<1> QED BY <1>2, <1>3, <1>4 DEF more

(* The session that a call ends, and the one it shows.                      *)
Touched(c) == IF c.op \in Closers \cup {"reconnect"} THEN c.sid ELSE NoSid
Brought(c, ok, x) == IF ok /\ c.op \in Openers THEN x ELSE NoSid

ReturnFacts(u, v, c, ok, x) ==
  /\ v \in Pages /\ TabsOK(v) /\ v.fresh \in {u.fresh, u.fresh + 1}
  /\ v.fresh = u.fresh \/ c.op = "closePane" \/ (ok /\ c.op \in {"open", "local"})
  /\ Turns(u, v, Brought(c, ok, x), Touched(c))
  /\ c.op \in {"closePane", "disconnect"} => SettledIn(v, c.sid)
  /\ v.connect \in {u.connect, NoCall}
  /\ v.reconnecting \subseteq u.reconnecting /\ v.userClosed = u.userClosed
  /\ v.term = IF c.op = "scrollback" /\ u.term.hyd = c.id THEN Hydrated(u.term, ok, x) ELSE u.term

LEMMA StaysTurns == ASSUME NEW u, NEW s PROVE Turns(u, u, NoSid, s)
BY DEF Turns

LEMMA HydratedIs ==
  ASSUME NEW t \in Terms, NEW ok \in BOOLEAN, NEW x \in Nat
  PROVE  /\ Hydrated(t, ok, x) \in Terms
         /\ Hydrated(t, ok, x).screen =
              t.screen \o (IF ok THEN [n \in 1 .. x |-> n] ELSE <<>>) \o t.queue
         /\ Hydrated(t, ok, x).queue = <<>> /\ Hydrated(t, ok, x).hyd = NoCall
         /\ Hydrated(t, ok, x).failed = ~ok /\ Hydrated(t, ok, x).sid = t.sid
         /\ Hydrated(t, ok, x).pane = t.pane /\ Hydrated(t, ok, x).again = t.again
<1> DEFINE all == IF ok THEN [n \in 1 .. x |-> n] ELSE <<>>
<1>1. [n \in 1 .. x |-> n] \in Seq(Nat)
  OBVIOUS
<1>2. all \in Seq(Nat) /\ t.screen \in Seq(Nat) /\ t.queue \in Seq(Nat) /\ <<>> \in Seq(Nat)
  BY <1>1 DEF Terms
<1> HIDE DEF all
<1>3. t.screen \o all \in Seq(Nat)
  BY <1>2, ConcatProperties
<1>4. t.screen \o all \o t.queue \in Seq(Nat)
  BY <1>2, <1>3, ConcatProperties
<1> DEFINE scr == t.screen \o all \o t.queue
           h == [t EXCEPT !.hyd = NoCall, !.queue = <<>>, !.failed = ~ok, !.screen = scr]
<1>5. Hydrated(t, ok, x) = h
  BY DEF Hydrated, all, Terms
<1> HIDE DEF scr
<1>6. scr \in Seq(Nat)
  BY <1>4 DEF scr
<1>7. h \in Terms /\ h.screen = scr /\ h.queue = <<>> /\ h.hyd = NoCall /\ h.failed = ~ok
      /\ h.sid = t.sid /\ h.pane = t.pane /\ h.again = t.again
  BY <1>2, <1>6 DEF Terms, NoCall
<1> QED BY <1>5, <1>7 DEF scr, all

LEMMA ReturnedIs ==
  ASSUME NEW u \in Pages, TabsOK(u), NEW c \in CallRecs, NEW ok \in BOOLEAN, NEW x \in Nat,
         c.pane < u.fresh,
         c.op \notin {"open", "local"} => c.sid \in Sids /\ c.pane \in PaneIds,
         ok /\ c.op \in Openers => x \in Sids /\ \A q \in PaneIds : u.pane[q].sid # x,
         c.op = "closePane" \/ (ok /\ c.op \in {"open", "local"}) => u.fresh \in PaneIds,
         c.op = "closePane" => \A q \in PaneIds : u.pane[q].sid = c.sid => q = c.pane
  PROVE  ReturnFacts(u, Returned(u, c, ok, x), c, ok, x)
<1> DEFINE v == Returned(u, c, ok, x)
<1>0. c.op \in Ops
  BY DEF CallRecs
<1>1. CASE c.op \in {"open", "local"}
  <2> DEFINE w == IF ok THEN AttachSession(u, x) ELSE u
  <2>1. v = [w EXCEPT !.connect = IF @ = c.id THEN NoCall ELSE @]
    BY <1>1 DEF Returned, OpenReturned
  <2>2. /\ w \in Pages /\ TabsOK(w) /\ w.fresh \in {u.fresh, u.fresh + 1} /\ KeepsRest(u, w)
        /\ w.fresh = u.fresh \/ ok
    <3>1. CASE ok
      BY <1>1, <3>1, AttachIs DEF Brought, Openers
    <3>2. CASE ~ok
      BY <3>2, StaysTurns DEF Brought, KeepsRest
    <3> QED BY <3>1, <3>2
  <2>2a. Turns(u, w, Brought(c, ok, x), NoSid)
    <3>1. CASE ok
      BY <1>1, <3>1, AttachIs DEF Brought, Openers
    <3>2. CASE ~ok
      BY <3>2, StaysTurns DEF Brought, KeepsRest
    <3> QED BY <3>1, <3>2
  <2> HIDE DEF w
  <2>3. v \in Pages
    <3>1. w \in Pages
      BY <2>2
    <3>2. PICK k : k = IF w.connect = c.id THEN NoCall ELSE w.connect
      OBVIOUS
    <3>3. k \in Nat /\ v = [w EXCEPT !.connect = k]
      BY <2>1, <3>1, <3>2 DEF Pages, NoCall
    <3> HIDE DEF v
    <3> QED BY <3>1, <3>3 DEF Pages
  <2>4. /\ v.tabs = w.tabs /\ v.active = w.active /\ v.fresh = w.fresh /\ v.pane = w.pane
        /\ v.crossed = w.crossed /\ v.term = w.term /\ v.reconnecting = w.reconnecting
        /\ v.userClosed = w.userClosed /\ v.connect \in {w.connect, NoCall}
    BY <2>1, <2>2 DEF Pages
  <2> HIDE DEF v
  <2>5. TabsOK(v)
    BY <2>2, <2>4 DEF TabsOK
  <2>6. Turns(u, v, Brought(c, ok, x), Touched(c))
    <3>1. Touched(c) = NoSid /\ Shown(v) = Shown(w)
      BY <1>1, <2>4 DEF Touched, Closers, Shown
    <3> QED BY <2>2a, <2>4, <3>1 DEF Turns
  <2> QED BY <1>1, <2>2, <2>3, <2>4, <2>5, <2>6 DEF ReturnFacts, KeepsRest, v
<1>2. CASE c.op = "closePane"
  <2> DEFINE w == Crossed(u, {u.pane[c.pane].sid} \ {c.sid})
  <2>1. v = Without(w, c.pane, "first")
    BY <1>2 DEF Returned, ClosePaneReturned
  <2>2. /\ c.pane \in PaneIds /\ c.sid \in Sids /\ u.fresh \in PaneIds
        /\ u.pane[c.pane].sid \in {NoSid} \cup Sids
    BY <1>2, PageTypes
  <2>3. /\ w \in Pages /\ TabsOK(w) /\ w.fresh = u.fresh /\ w.tabs = u.tabs /\ w.pane = u.pane
        /\ KeepsRest(u, w)
        /\ w.crossed = u.crossed \cup (({u.pane[c.pane].sid} \ {c.sid}) \ {NoSid})
    BY <2>2, CrossedIs
  <2> HIDE DEF w, v
  <2>4. /\ w.pane[c.pane].sid = NoSid \/ w.pane[c.pane].sid = c.sid \/ w.pane[c.pane].sid \in w.crossed
        /\ w.fresh \in PaneIds
    BY <2>2, <2>3
  <2>4a. PICK end : end = "first"
    OBVIOUS
  <2>5. /\ v \in Pages /\ TabsOK(v) /\ v.fresh \in {u.fresh, u.fresh + 1} /\ KeepsRest(w, v)
        /\ Turns(w, v, NoSid, c.sid) /\ v.pane[c.pane] = Empty
        /\ \A q \in PaneIds \ {c.pane} : v.pane[q] = w.pane[q]
    <3>1. LET n == Without(w, c.pane, end)
          IN  /\ n \in Pages /\ TabsOK(n) /\ n.fresh \in {w.fresh, w.fresh + 1} /\ KeepsRest(w, n)
              /\ Turns(w, n, NoSid, c.sid) /\ n.pane[c.pane] = Empty
              /\ \A q \in PaneIds \ {c.pane} : n.pane[q] = w.pane[q]
      BY SMTT(40), <2>2, <2>3, <2>4, WithoutIs
    <3> QED BY <2>1, <2>3, <2>4a, <3>1
  <2>6. Turns(u, v, NoSid, c.sid)
    <3>1. Shown(u) = Shown(w) /\ u.crossed \subseteq w.crossed
      BY <2>3 DEF Shown
    <3> QED BY <2>3, <2>5, <3>1 DEF Turns
  <2>7. SettledIn(v, c.sid)
    <3>1. \A q \in PaneIds : v.pane[q].sid # c.sid
      BY SMTT(40), <1>2, <2>2, <2>3, <2>5, PageTypes DEF Empty
    <3> QED BY <3>1 DEF SettledIn
  <2>8. Touched(c) = c.sid /\ Brought(c, ok, x) = NoSid
    BY <1>2 DEF Touched, Brought, Closers, Openers
  <2> QED BY <1>2, <2>3, <2>5, <2>6, <2>7, <2>8 DEF ReturnFacts, KeepsRest, v
<1>3. CASE c.op = "closeTab"
  <2>1. v = u /\ Brought(c, ok, x) = NoSid
    BY <1>3 DEF Returned, Brought, Openers
  <2> QED BY <1>3, <2>1, StaysTurns DEF ReturnFacts
<1>4. CASE c.op = "disconnect"
  <2>1. v = MarkDisconnected(u, c.sid) /\ Brought(c, ok, x) = NoSid /\ Touched(c) = c.sid
    BY <1>4 DEF Returned, Brought, Openers, Touched, Closers
  <2>2. c.sid \in Sids
    BY <1>4
  <2>3. /\ v \in Pages /\ TabsOK(v) /\ v.fresh = u.fresh
        /\ KeepsRest(u, v) /\ Turns(u, v, NoSid, c.sid) /\ SettledIn(v, c.sid)
    BY <2>1, <2>2, MarkIs
  <2> HIDE DEF v
  <2> QED BY <1>4, <2>1, <2>3 DEF ReturnFacts, KeepsRest, v
<1>5. CASE c.op = "reconnect"
  <2> DEFINE lost == ({u.pane[c.pane].sid} \ {c.sid})
                       \cup (IF c.pane \in ToSet(u.tabs) THEN {} ELSE {x})
             w == IF ok THEN Show(Crossed(u, lost), c.pane, x) ELSE MarkDisconnected(u, c.sid)
  <2>1. v = [w EXCEPT !.reconnecting = @ \ {c.sid}]
    BY <1>5 DEF Returned, ReconnectReturned
  <2>2. c.pane \in PaneIds /\ c.sid \in Sids /\ u.pane[c.pane].sid \in {NoSid} \cup Sids
    BY <1>5, PageTypes
  <2>3. Touched(c) = c.sid
    BY <1>5 DEF Touched
  <2>4. /\ w \in Pages /\ TabsOK(w) /\ w.fresh = u.fresh /\ KeepsRest(u, w)
        /\ Turns(u, w, Brought(c, ok, x), c.sid)
    <3>1. CASE ok
      <4>1. x \in Sids /\ \A q \in PaneIds : u.pane[q].sid # x
        BY <1>5, <3>1 DEF Openers
      <4> DEFINE y == Crossed(u, lost)
      <4>2. lost \subseteq {NoSid} \cup Sids
        BY <2>2, <4>1
      <4> HIDE DEF lost
      <4>3. /\ y \in Pages /\ TabsOK(y) /\ y.fresh = u.fresh /\ y.tabs = u.tabs /\ y.pane = u.pane
            /\ KeepsRest(u, y) /\ y.crossed = u.crossed \cup (lost \ {NoSid})
        BY <4>2, CrossedIs
      <4>4. w = Show(y, c.pane, x)
        BY <3>1
      <4> HIDE DEF y, w
      <4>5. y.pane[c.pane].sid \in {NoSid, c.sid} \cup y.crossed
        BY <4>3 DEF lost
      <4>6. c.pane \in ToSet(y.tabs) \/ x \in y.crossed
        BY <4>1, <4>3, PageTypes DEF lost
      <4>6a. c.pane < y.fresh /\ \A q \in PaneIds : y.pane[q].sid # x
        BY <4>1, <4>3
      <4>7. /\ w \in Pages /\ TabsOK(w) /\ w.fresh = y.fresh /\ KeepsRest(y, w)
        BY ZenonT(60), <2>2, <4>1, <4>3, <4>4, <4>6a, ShowIs
      <4>8. Turns(y, w, x, c.sid)
        BY <2>2, <4>1, <4>3, <4>4, <4>5, <4>6, <4>6a, ShowTurns
      <4>9. Turns(u, w, x, c.sid)
        <5>1. Shown(u) = Shown(y) /\ u.crossed \subseteq y.crossed
          BY <4>3 DEF Shown
        <5> QED BY <4>3, <4>8, <5>1 DEF Turns
      <4>10. Brought(c, ok, x) = x
        BY <1>5, <3>1 DEF Brought, Openers
      <4> QED BY <4>3, <4>7, <4>9, <4>10 DEF KeepsRest
    <3>2. CASE ~ok
      <4>1. w = MarkDisconnected(u, c.sid) /\ Brought(c, ok, x) = NoSid
        BY <3>2 DEF Brought
      <4> QED BY <2>2, <4>1, MarkIs
    <3> QED BY <3>1, <3>2
  <2> HIDE DEF w
  <2>5. v \in Pages
    BY SMTT(40), <2>1, <2>4 DEF Pages
  <2>6. /\ v.tabs = w.tabs /\ v.active = w.active /\ v.fresh = w.fresh /\ v.pane = w.pane
        /\ v.crossed = w.crossed /\ v.term = w.term /\ v.reconnecting = w.reconnecting \ {c.sid}
        /\ v.userClosed = w.userClosed /\ v.connect = w.connect
    BY <2>1, <2>4 DEF Pages
  <2> HIDE DEF v
  <2>7. TabsOK(v) /\ Shown(v) = Shown(w)
    BY <2>4, <2>6 DEF TabsOK, Shown
  <2>8. Turns(u, v, Brought(c, ok, x), c.sid)
    BY <2>4, <2>6, <2>7 DEF Turns
  <2> QED BY <1>5, <2>3, <2>4, <2>5, <2>6, <2>7, <2>8 DEF ReturnFacts, KeepsRest, v
<1>6. CASE c.op = "scrollback"
  <2>0. Brought(c, ok, x) = NoSid /\ Touched(c) = NoSid
    BY <1>6 DEF Brought, Touched, Openers, Closers
  <2>1. CASE u.term.hyd = c.id
    <3> DEFINE h == Hydrated(u.term, ok, x)
    <3>1. v = [u EXCEPT !.term = h]
      BY <1>6, <2>1 DEF Returned
    <3>2. h \in Terms
      BY PageTypes, HydratedIs
    <3> HIDE DEF h
    <3>3. v \in Pages
      BY <3>1, <3>2 DEF Pages
    <3>4. /\ v.tabs = u.tabs /\ v.active = u.active /\ v.fresh = u.fresh /\ v.pane = u.pane
          /\ v.crossed = u.crossed /\ v.term = h /\ v.reconnecting = u.reconnecting
          /\ v.userClosed = u.userClosed /\ v.connect = u.connect
      BY <3>1 DEF Pages
    <3> HIDE DEF v
    <3>5. TabsOK(v) /\ Shown(v) = Shown(u)
      BY <3>4 DEF TabsOK, Shown
    <3>6. Turns(u, v, NoSid, NoSid)
      BY <3>4, <3>5 DEF Turns
    <3> QED BY <1>6, <2>0, <2>1, <3>3, <3>4, <3>5, <3>6 DEF ReturnFacts, v, h
  <2>2. CASE u.term.hyd # c.id
    <3>1. v = u
      BY <1>6, <2>2 DEF Returned
    <3> QED BY <1>6, <2>0, <2>2, <3>1, StaysTurns DEF ReturnFacts
  <2> QED BY <2>1, <2>2
<1> QED BY <1>0, <1>1, <1>2, <1>3, <1>4, <1>5, <1>6 DEF Ops

-----------------------------------------------------------------------------
(* The state at first, and how many tabs can still be made.                 *)

LEMMA SidsFacts ==
  /\ Sids \subseteq Nat \ {0} /\ IsFiniteSet(Sids) /\ Cardinality(Sids) = MaxSids
  /\ MaxSids \in Nat \ {0} /\ MaxActs \in Nat /\ PreCap \in Nat \ {0}
  /\ PaneIds = 1 .. 1 + MaxSids + MaxActs
<1>1. MaxSids \in Nat \ {0} /\ MaxActs \in Nat /\ PreCap \in Nat \ {0}
  BY PaneBoundsAssumption
<1>2. IsFiniteSet(1 .. MaxSids) /\ Cardinality(1 .. MaxSids) = MaxSids
  BY <1>1, FS_Interval
<1> QED BY <1>1, <1>2 DEF Sids, PaneIds

LEMMA RoomLeft ==
  ASSUME Shape
  PROVE  /\ IsFiniteSet(Closing) /\ Cardinality(Closing) \in Nat
         /\ IsFiniteSet(Owed) /\ Cardinality(Owed) \in Nat
         /\ IsFiniteSet(Born) /\ Cardinality(Born) \in Nat /\ Cardinality(Born) <= MaxSids
         /\ RoomInv /\ TabsOK(ui) =>
              (Closing # {} \/ Owed # {} \/ acts < MaxActs => ui.fresh \in PaneIds)
<1>1. IsFiniteSet(Closing) /\ Cardinality(Closing) \in Nat
  BY FS_Subset, FS_CardinalityType DEF Shape, Closing
<1>2. IsFiniteSet(Owed) /\ Cardinality(Owed) \in Nat
  BY SidsFacts, FS_Subset, FS_CardinalityType DEF Owed
<1>3. IsFiniteSet(Born) /\ Cardinality(Born) \in Nat /\ Cardinality(Born) <= MaxSids
  BY SidsFacts, FS_Subset, FS_CardinalityType DEF Born
<1>4. Closing # {} => Cardinality(Closing) > 0
  BY <1>1, FS_EmptySet
<1>5. Owed # {} => Cardinality(Owed) > 0
  BY <1>2, FS_EmptySet
<1>6. ASSUME RoomInv, TabsOK(ui), Closing # {} \/ Owed # {} \/ acts < MaxActs
      PROVE  ui.fresh \in PaneIds
  <2>1. ui.fresh \in Nat /\ ui.fresh > 0 /\ acts \in 0 .. MaxActs
    BY <1>6, PageTypes DEF Shape, TabsOK
  <2>2. ui.fresh <= 1 + MaxSids + MaxActs
    BY <1>1, <1>2, <1>3, <1>4, <1>5, <1>6, <2>1, SidsFacts DEF RoomInv
  <2> QED BY <2>1, <2>2, SidsFacts
<1> QED BY <1>1, <1>2, <1>3, <1>6

LEMMA InitShape == Init => Shape
<1> SUFFICES ASSUME Init PROVE Shape
  OBVIOUS
<1>1. 1 \in PaneIds
  BY SidsFacts
<1>2. NoTerm \in Terms
  BY DEF NoTerm, Terms, NoSid, NoCall
<1>3. Empty \in Panes
  BY DEF Empty, Panes
<1>4. <<1>> \in Seq(PaneIds)
  BY <1>1
<1>5. ui \in Pages
  BY <1>1, <1>2, <1>3, <1>4 DEF Init, Pages, NoCall
<1>6. IsFiniteSet({})
  BY FS_EmptySet
<1> QED BY <1>5, <1>6, SidsFacts DEF Init, Shape

LEMMA InitPanes == Init => PanesIInv
<1> SUFFICES ASSUME Init PROVE PanesIInv
  OBVIOUS
<1>1. Shape
  BY InitShape
<1>2. InFlight = {} /\ Owed = {} /\ Closing = {} /\ Born = {} /\ DOMAIN up = {} /\ DOMAIN busy = {}
      /\ DOMAIN ring = {}
  BY DEF Init, InFlight, Owed, Closing, Born, ToSet
<1>3. /\ ui.tabs = <<1>> /\ ui.active = 1 /\ ui.fresh = 2 /\ ui.connect = NoCall
      /\ ui.pane = [p \in PaneIds |-> Empty] /\ ui.reconnecting = {} /\ ui.userClosed = {}
      /\ ui.term = NoTerm
  BY DEF Init
<1>4. \A p \in PaneIds : ui.pane[p].sid = NoSid
  BY <1>3 DEF Empty
<1>5. ToSet(ui.tabs) = {1} /\ IsInjective(ui.tabs)
  BY <1>3 DEF ToSet, IsInjective
<1>6. TabsOK(ui)
  BY <1>3, <1>5 DEF TabsOK
<1>7. RoomInv
  BY <1>2, <1>3, FS_EmptySet DEF RoomInv, Init
<1>8. IdsInv
  BY <1>2, <1>3 DEF IdsInv, NoCall, NoTerm, Init, InFlight
<1>9. HomeInv
  BY <1>2, <1>4 DEF HomeInv
<1>10. Known \cap Sids = {}
  BY <1>2, <1>3, <1>4, SidsFacts DEF Known, NoSid
<1>11. BornInv
  BY <1>2, <1>10 DEF BornInv
<1>12. DaemonInv
  BY <1>2 DEF DaemonInv, Init
<1>13. PanesInv
  BY <1>4 DEF PanesInv
<1>14. CallsInv
  BY <1>2, <1>3 DEF CallsInv, Init, ToSet
<1>15. NobodyForgotten
  BY DEF NobodyForgotten, Init
<1>16. \A s \in Sids : Len(pre[s]) <= PreCap
  BY SidsFacts DEF Init
<1> QED BY <1>1, <1>6, <1>7, <1>8, <1>9, <1>11, <1>12, <1>13, <1>14, <1>15, <1>16 DEF PanesIInv

-----------------------------------------------------------------------------
(* A call returns: its answer came, its timer fired or it was rejected.     *)

LEMMA StaysSettled ==
  ASSUME NEW u, NEW v, NEW x, NEW t, Turns(u, v, x, t), NEW s, s # NoSid, s # x, SettledIn(u, s)
  PROVE  SettledIn(v, s)
BY DEF Turns, SettledIn

LEMMA CallTypes ==
  ASSUME PanesIInv, NEW c \in InFlight
  PROVE  /\ c \in CallRecs /\ c.id \in Nat \ {0} /\ c.op \in Ops /\ c.sid \in {NoSid} \cup Sids
         /\ c.pane \in Nat /\ c.pane < ui.fresh /\ c.id < next
         /\ c.op \notin {"open", "local"} => c.sid \in Sids /\ c.pane \in PaneIds /\ c.sid # NoSid
<1>1. c \in CallRecs
  BY DEF PanesIInv, Shape, InFlight, ToSet
<1>2. /\ c.pane < ui.fresh /\ c.id < next
      /\ c.op \notin {"open", "local"} => c.sid \in Sids /\ c.pane \in PaneIds
  BY DEF PanesIInv, IdsInv
<1>3. c.id \in Nat \ {0} /\ c.op \in Ops /\ c.sid \in {NoSid} \cup Sids /\ c.pane \in {0} \cup PaneIds
  BY <1>1 DEF CallRecs
<1>4. c.pane \in Nat
  BY <1>3, SidsFacts
<1>5. c.sid \in Sids => c.sid # NoSid
  BY SidsFacts DEF NoSid
<1> QED BY <1>1, <1>2, <1>3, <1>4, <1>5

LEMMA ReturnKeeps ==
  ASSUME PanesIInv, NEW c \in pending, NEW ok \in BOOLEAN, NEW x \in Nat,
         pending' = pending \ {c}, ui' = Returned(ui, c, ok, x),
         UNCHANGED <<life, printed, ring, sock, up, next, pre, mounted, trimmed, unclaimed, acts>>,
         \/ ~ok /\ busy' = busy
         \/ busy' = <<>> /\ busy # <<>> /\ busy[1].id = c.id /\ busy[1].ok = ok /\ busy[1].x = x
  PROVE  PanesIInv'
<1> USE DEF PanesIInv
<1> DEFINE new == Brought(c, ok, x)
<1>1. busy # <<>> => 1 \in DOMAIN busy
  BY DEF Shape
<1>2. c \in InFlight
  BY DEF InFlight
<1>3. ok => busy' = <<>> /\ 1 \in DOMAIN busy /\ busy[1].op = c.op /\ busy[1].ok = ok /\ busy[1].x = x
  BY <1>1 DEF IdsInv
<1>4. new # NoSid => new \in Owed /\ new = x /\ ok /\ c.op \in Openers /\ Owed' = {}
  <2> SUFFICES ASSUME new # NoSid PROVE new \in Owed /\ Owed' = {}
    BY DEF Brought
  <2>1. ok /\ c.op \in Openers /\ new = x
    BY DEF Brought
  <2>2. x \in Sids /\ x \in Opened(busy[1])
    BY <1>3, <2>1 DEF BornInv, Opened, Openers
  <2>3. DOMAIN busy' = {}
    BY <1>3, <2>1
  <2> QED BY <1>3, <2>1, <2>2, <2>3 DEF Owed
<1>5. new = NoSid \/ (new \in Sids /\ new \notin Known /\ life[new] # "none")
  BY <1>4 DEF BornInv, Owed
<1>6. ok /\ c.op \in Openers => x \in Sids /\ x = new /\ new # NoSid
  BY <1>3, SidsFacts DEF BornInv, Brought, NoSid
<1>7. ReturnFacts(ui, ui', c, ok, x)
  <2>1. c.op = "closePane" \/ (ok /\ c.op \in {"open", "local"}) => ui.fresh \in PaneIds
    BY <1>4, <1>6, RoomLeft DEF Closing, Openers
  <2>2. ok /\ c.op \in Openers => x \in Sids /\ \A q \in PaneIds : ui.pane[q].sid # x
    BY <1>5, <1>6 DEF Known
  <2>3. c.op = "closePane" => \A q \in PaneIds : ui.pane[q].sid = c.sid => q = c.pane
    BY <1>2, CallTypes DEF HomeInv
  <2>4. ui \in Pages /\ TabsOK(ui) /\ c \in CallRecs /\ c.pane < ui.fresh
        /\ (c.op \notin {"open", "local"} => c.sid \in Sids /\ c.pane \in PaneIds)
    BY <1>2, CallTypes DEF Shape
  <2> QED BY <2>1, <2>2, <2>3, <2>4, ReturnedIs
<1> HIDE DEF new
<1>8. /\ ui' \in Pages /\ TabsOK(ui') /\ ui'.fresh \in {ui.fresh, ui.fresh + 1}
      /\ ui'.fresh = ui.fresh \/ c.op = "closePane" \/ (ok /\ c.op \in {"open", "local"})
      /\ Turns(ui, ui', new, Touched(c))
      /\ c.op \in {"closePane", "disconnect"} => SettledIn(ui', c.sid)
      /\ ui'.connect \in {ui.connect, NoCall}
      /\ ui'.reconnecting \subseteq ui.reconnecting /\ ui'.userClosed = ui.userClosed
      /\ ui'.term = IF c.op = "scrollback" /\ ui.term.hyd = c.id
                    THEN Hydrated(ui.term, ok, x) ELSE ui.term
  BY <1>7 DEF ReturnFacts, new
<1>9. busy' = busy \/ busy' = <<>>
  OBVIOUS
<1>10. Owed' \subseteq Owed /\ (new # NoSid => Owed' = {}) /\ DOMAIN busy' \subseteq DOMAIN busy
       /\ \A i \in DOMAIN busy' : busy'[i] = busy[i]
  BY <1>4, <1>9 DEF Owed
<1>11. Shape'
  <2>1. IsFiniteSet(pending')
    BY FS_RemoveElement DEF Shape
  <2>2. busy' \in Seq(Answers) /\ Len(busy') <= 1
    <3>1. CASE busy' = busy
      BY <3>1 DEF Shape
    <3>2. CASE busy' = <<>>
      BY <3>2
    <3> QED BY <1>9, <3>1, <3>2
  <2> QED BY <1>8, <2>1, <2>2 DEF Shape
<1>12. RoomInv'
  <2>1. Born' = Born
    BY DEF Born
  <2>2. Closing' = IF c.op = "closePane" THEN Closing \ {c} ELSE Closing
    BY DEF Closing
  <2>3. Cardinality(Closing') = IF c.op = "closePane" THEN Cardinality(Closing) - 1 ELSE Cardinality(Closing)
    <3>1. IsFiniteSet(Closing)
      BY RoomLeft
    <3>2. CASE c.op = "closePane"
      <4>1. c \in Closing
        BY <3>2 DEF Closing
      <4> QED BY <2>2, <3>1, <3>2, <4>1, FS_RemoveElement
    <3>3. CASE c.op # "closePane"
      BY <2>2, <3>3
    <3> QED BY <3>2, <3>3
  <2>4. Cardinality(Owed') <= Cardinality(Owed)
    BY <1>10, RoomLeft, FS_Subset
  <2>5. ok /\ c.op \in {"open", "local"} => Cardinality(Owed') = 0 /\ Cardinality(Owed) > 0
    <3> SUFFICES ASSUME ok, c.op \in {"open", "local"}
                 PROVE  Cardinality(Owed') = 0 /\ Cardinality(Owed) > 0
      OBVIOUS
    <3>1. new \in Owed /\ Owed' = {}
      BY <1>4, <1>6 DEF Openers
    <3> QED BY <3>1, RoomLeft, FS_EmptySet
  <2>6. /\ Cardinality(Owed) \in Nat /\ Cardinality(Owed') \in Nat /\ Cardinality(Closing) \in Nat
        /\ Cardinality(Born) \in Nat /\ ui.fresh \in Nat /\ acts \in Nat
    BY SMTT(40), <1>10, RoomLeft, FS_Subset, FS_CardinalityType, PageTypes DEF Shape
  <2>7. ui'.fresh + Cardinality(Closing') + Cardinality(Owed') <= 2 + acts + Cardinality(Born)
    <3>1. ui.fresh + Cardinality(Closing) + Cardinality(Owed) <= 2 + acts + Cardinality(Born)
      BY DEF RoomInv
    <3>2. ui'.fresh \in {ui.fresh, ui.fresh + 1}
      BY <1>8
    <3>3. CASE c.op = "closePane"
      BY SMTT(40), <2>3, <2>4, <2>6, <3>1, <3>2, <3>3
    <3>4. CASE ok /\ c.op \in {"open", "local"}
      <4>1. Cardinality(Closing') = Cardinality(Closing) /\ Cardinality(Owed') = 0
            /\ Cardinality(Owed) > 0
        BY <2>3, <2>5, <3>4
      <4> QED BY SMTT(40), <2>6, <3>1, <3>2, <4>1
    <3>5. CASE ui'.fresh = ui.fresh
      BY SMTT(40), <2>3, <2>4, <2>6, <3>1, <3>5
    <3> QED BY <1>8, <3>3, <3>4, <3>5
  <2> QED BY <2>1, <2>7 DEF RoomInv
<1>13. InFlight' \subseteq InFlight /\ \A d \in InFlight : d # c => d \in InFlight'
  BY DEF InFlight
<1>14. IdsInv'
  <2>1. \A d \in InFlight' : d.id < next' /\ d.pane < ui'.fresh
    <3> SUFFICES ASSUME NEW d \in InFlight' PROVE d.id < next' /\ d.pane < ui'.fresh
      OBVIOUS
    <3>1. d \in InFlight
      BY <1>13
    <3>2. d.pane \in Nat /\ d.pane < ui.fresh /\ d.id < next /\ ui.fresh \in Nat
      BY <3>1, CallTypes, PageTypes DEF Shape
    <3> QED BY <3>2, <1>8
  <2>2. /\ \A d, e \in InFlight' : d.id = e.id => d = e
        /\ \A i, j \in DOMAIN up' : up'[i].id = up'[j].id => i = j
        /\ \A d \in InFlight' : d.op \notin {"open", "local"} => d.sid \in Sids /\ d.pane \in PaneIds
    BY <1>13 DEF IdsInv
  <2>3. \A i \in DOMAIN busy' :
           /\ busy'[i].id < next'
           /\ \A d \in ToSet(up') : d.id # busy'[i].id
           /\ \A d \in pending' : d.id = busy'[i].id => d.op = busy'[i].op
    BY <1>10 DEF IdsInv
  <2>4. /\ ui'.connect < next' /\ ui'.term.hyd < next'
        /\ ui'.term.hyd \in {ui.term.hyd, NoCall} /\ ui'.term.sid = ui.term.sid
    <3>1. ui.term \in Terms
      BY PageTypes DEF Shape
    <3>2. ui'.term.hyd \in {ui.term.hyd, NoCall} /\ ui'.term.sid = ui.term.sid
      <4>1. /\ Hydrated(ui.term, ok, x).hyd = NoCall
            /\ Hydrated(ui.term, ok, x).sid = ui.term.sid
        BY ZenonT(60), <3>1, HydratedIs
      <4> QED BY <1>8, <4>1
    <3>3. NoCall < next /\ ui.connect < next /\ ui.term.hyd < next
      BY DEF Shape, NoCall, IdsInv
    <3> QED BY <1>8, <3>2, <3>3
  <2>5. \A d \in pending' : d.id # NoCall /\ d \in pending
    BY CallTypes DEF InFlight, NoCall
  <2>6. /\ \A d \in pending' : d.id = ui'.connect => d.op = "open"
        /\ \A d \in pending' : d.id = ui'.term.hyd => d.op = "scrollback" /\ d.sid = ui'.term.sid
    BY <1>8, <2>4, <2>5 DEF IdsInv
  <2> QED BY <2>1, <2>2, <2>3, <2>4, <2>6 DEF IdsInv
<1>15. \A p \in PaneIds : ui'.pane[p].sid \in {ui.pane[p].sid, NoSid, new}
  BY <1>8 DEF Turns
<1>16. HomeInv'
  <2>1. ASSUME NEW p \in PaneIds, NEW q \in PaneIds,
               ui'.pane[p].sid = ui'.pane[q].sid, ui'.pane[p].sid # NoSid
        PROVE  p = q
    <3>1. CASE ui'.pane[p].sid = new
      BY <3>1, <2>1, <1>8 DEF Turns
    <3>2. CASE ui'.pane[p].sid # new
      BY <3>2, <2>1, <1>15 DEF HomeInv
    <3> QED BY <3>1, <3>2
  <2>2. ASSUME NEW d \in InFlight', d.sid # NoSid, NEW p \in PaneIds, ui'.pane[p].sid = d.sid
        PROVE  p = d.pane
    <3>1. d \in InFlight /\ d.sid \in Known
      BY <1>13 DEF Known
    <3> QED BY <3>1, <2>2, <1>5, <1>15 DEF HomeInv
  <2> QED BY <2>1, <2>2 DEF HomeInv
<1>17. Known' \subseteq Known \cup {NoSid, new}
  <2>1. \A p \in PaneIds : ui'.pane[p].sid \in Known \cup {NoSid, new}
    BY <1>15 DEF Known
  <2>2. \A d \in InFlight' : d.sid \in Known
    BY <1>13 DEF Known
  <2>3. ui'.reconnecting \cup ui'.userClosed \subseteq Known
    BY <1>8 DEF Known
  <2> QED BY <2>1, <2>2, <2>3 DEF Known
<1>18. BornInv'
  <2>1. \A s \in Sids : s \in Known' => life'[s] # "none"
    BY <1>5, <1>17, SidsFacts DEF BornInv, NoSid
  <2>2. \A s \in Owed' : life'[s] # "none" /\ s \notin Known'
    BY <1>10, <1>17, SidsFacts DEF BornInv, Owed, NoSid
  <2>3. \A i \in DOMAIN busy' : busy'[i].ok /\ busy'[i].op \in Openers => busy'[i].x \in Sids
    BY <1>10 DEF BornInv
  <2> QED BY <2>1, <2>2, <2>3 DEF BornInv
<1>19. \A s : Coming(s)' <=> Coming(s)
  BY DEF Coming
<1>20. DaemonInv'
  <2>1. sock' # "open" => up' = <<>> /\ busy' = <<>> /\ ring' = <<>> /\ \A s \in Sids : Gone(s)'
    BY <1>9 DEF DaemonInv, Gone
  <2>2. \A s \in Owed' : life'[s] = "live" \/ (life'[s] = "dropped" /\ Coming(s)')
    BY <1>10, <1>19 DEF DaemonInv
  <2> QED BY <2>1, <2>2 DEF DaemonInv
<1>21. \A s \in Sids : s # new /\ Settled(s) => SettledIn(ui', s)
  BY <1>8, StaysSettled, SidsFacts DEF Settled, NoSid
<1>22. \A s : BeingClosed(s) => BeingClosed(s)' \/ SettledIn(ui', s)
  BY <1>8 DEF BeingClosed
<1>23. \A s : CloseIsUp(s)' <=> CloseIsUp(s)
  BY DEF CloseIsUp
<1>24. \A p \in PaneIds : LET s == ui.pane[p].sid
         IN  s \in Sids /\ s = Touched(c) => life[s] # "live" \/ CloseIsUp(s) \/ ui.pane[p].dis
  <2> SUFFICES ASSUME NEW p \in PaneIds, ui.pane[p].sid \in Sids, ui.pane[p].sid = Touched(c)
               PROVE  life[ui.pane[p].sid] # "live" \/ CloseIsUp(ui.pane[p].sid) \/ ui.pane[p].dis
    OBVIOUS
  <2>1. c.op \in Closers \cup {"reconnect"} /\ ui.pane[p].sid = c.sid
    BY SidsFacts DEF Touched, NoSid
  <2>2. CASE Gone(c.sid)
    BY <2>1, <2>2 DEF Gone
  <2>3. CASE c \in ToSet(up) /\ c.op \in Closers
    BY <2>1, <2>3 DEF CloseIsUp, ToSet
  <2>4. CASE c \in ToSet(up) /\ c.op = "reconnect"
    BY <2>1, <2>4 DEF CallsInv, Settled, SettledIn
  <2> QED BY <2>1, <2>2, <2>3, <2>4 DEF CallsInv
<1>25. \A p \in PaneIds : ui.pane[p].sid \in {NoSid} \cup Sids /\ ui'.pane[p].sid \in {NoSid} \cup Sids
  BY <1>8, PageTypes DEF Shape
<1>26. PanesInv'
  <2>1. ASSUME NEW p \in PaneIds, NEW s, s = ui'.pane[p].sid, s # NoSid, ~ui'.pane[p].dis
        PROVE  life[s] \in {"live", "lost"} \/ (life[s] = "dropped" /\ Coming(s)) \/ BeingClosed(s)'
    <3>1. CASE s = new
      BY <3>1, <2>1, <1>4 DEF DaemonInv
    <3>2. CASE s # new
      <4>1. ui.pane[p].sid = s /\ ~ui.pane[p].dis
        BY <2>1, <3>2, <1>8 DEF Turns
      <4>2. ~SettledIn(ui', s)
        BY <2>1 DEF SettledIn
      <4> QED BY <4>1, <4>2, <2>1, <1>22 DEF PanesInv
    <3> QED BY <3>1, <3>2
  <2>2. ASSUME NEW p \in PaneIds, NEW s, s = ui'.pane[p].sid, s # NoSid, ui'.pane[p].dis
        PROVE  life[s] # "live" \/ CloseIsUp(s)
    <3>1. s # new /\ ui.pane[p].sid = s
      BY <2>2, <1>8 DEF Turns
    <3>2. ui.pane[p].dis \/ s = Touched(c)
      BY <2>2, <3>1, <1>8 DEF Turns
    <3> QED BY <2>2, <3>1, <3>2, <1>24, <1>25 DEF PanesInv
  <2> QED BY <2>1, <2>2, <1>19, <1>23 DEF PanesInv
<1>27. CallsInv'
  <2>1. \A d \in pending' : d.op \in Closers \cup {"reconnect"} => d \in ToSet(up') \/ Gone(d.sid)'
    BY DEF CallsInv, Gone
  <2>2. \A d \in ToSet(up') : d.op \notin {"open", "local"} => d.sid \in Sids /\ d.sid # new
    BY <1>5, CallTypes, SidsFacts DEF InFlight, Known, NoSid
  <2>3. \A d \in ToSet(up') : d.op \in {"closePane", "disconnect"} => d \in pending' \/ Settled(d.sid)'
    BY <2>2, <1>8, <1>21 DEF CallsInv, Settled
  <2>4. \A d \in ToSet(up') : d.op \in {"closeTab", "reconnect"} => Settled(d.sid)'
    BY <2>2, <1>21 DEF CallsInv, Settled
  <2>5. \A s \in ui'.reconnecting : Settled(s)'
    BY <1>5, <1>8, <1>21, PageTypes DEF CallsInv, Settled, Known, Shape
  <2>6. \A s \in ui'.userClosed : BeingClosed(s)' \/ Settled(s)'
    <3> SUFFICES ASSUME NEW s \in ui.userClosed PROVE BeingClosed(s)' \/ Settled(s)'
      BY <1>8
    <3>1. s \in Sids /\ s # new
      BY <1>5, PageTypes DEF Known, Shape
    <3> QED BY <3>1, <1>21, <1>22 DEF CallsInv, Settled
  <2> QED BY <2>1, <2>3, <2>4, <2>5, <2>6 DEF CallsInv
<1>28. NobodyForgotten'
  <2> SUFFICES ASSUME NEW s \in Sids, life[s] = "live"
               PROVE  \/ s \in Shown(ui') \/ s \in Owed' \/ CloseIsUp(s)
                      \/ s \in unclaimed \/ s \in ui'.crossed
    BY <1>23 DEF NobodyForgotten, Owed, CloseIsUp, Closers
  <2>1. \/ s \in Shown(ui) \/ s \in Owed \/ CloseIsUp(s) \/ s \in unclaimed \/ s \in ui.crossed
    BY DEF NobodyForgotten, Owed, CloseIsUp, Closers
  <2>2. CASE s \in Shown(ui)
    <3>1. PICK p \in PaneIds : ui.pane[p].sid = s
      BY <2>2, PageTypes DEF Shown, Shape
    <3>2. s \in Shown(ui') \cup ui'.crossed \/ s = Touched(c)
          \/ \E q \in PaneIds : ui.pane[q].dis /\ ui.pane[q].sid = s
      BY <2>2, <1>8 DEF Turns
    <3>3. CASE \E q \in PaneIds : ui.pane[q].dis /\ ui.pane[q].sid = s
      BY <3>3, SidsFacts DEF PanesInv, NoSid
    <3>4. CASE s = Touched(c)
      BY SMTT(40), <3>1, <3>4, <1>24, SidsFacts DEF PanesInv, NoSid
    <3> QED BY <3>2, <3>3, <3>4
  <2>3. CASE s \in Owed
    <3>1. CASE busy' = busy
      BY <2>3, <3>1 DEF Owed
    <3>2. CASE busy' # busy
      <4>1. PICK i \in DOMAIN busy : s \in Opened(busy[i])
        BY <2>3 DEF Owed
      <4>2. i = 1 /\ busy[1].id = c.id /\ busy[1].ok = ok /\ busy[1].x = x
        BY <4>1, <3>2 DEF Shape
      <4>3. busy[1].op = c.op
        BY <4>1, <4>2 DEF IdsInv
      <4>4. s = new
        BY <4>1, <4>2, <4>3, <1>6 DEF Opened, Openers
      <4> QED BY <4>4, <1>8, SidsFacts DEF Turns, NoSid
    <3> QED BY <3>1, <3>2
  <2>4. ui.crossed \subseteq ui'.crossed
    BY <1>8 DEF Turns
  <2> QED BY <2>1, <2>2, <2>3, <2>4
<1> QED BY <1>8, <1>11, <1>12, <1>14, <1>16, <1>18, <1>20, <1>26, <1>27, <1>28

-----------------------------------------------------------------------------
(* The page goes on: a click, a mounted terminal or an event that was told. *)
(* N is the call it makes, if any, A what it aborts, t the session it ends. *)

Sends(N, A) ==
  /\ \/ N = {} /\ UNCHANGED <<up, next>>
     \/ \E c \in CallRecs : /\ N = {c} /\ c.id = next /\ next' = next + 1
                            /\ up' = IF sock = "open" THEN Append(up, c) ELSE up
  /\ A \subseteq {c \in pending : c.op = "open"}
  /\ pending' = (pending \ A) \cup N

\* What the new call is about.
NewCall(c) ==
  /\ c.pane < ui'.fresh
  /\ c.op \notin {"open", "local"} => c.sid \in Sids /\ c.pane \in PaneIds
  /\ c.sid \in Sids => /\ life[c.sid] # "none" /\ c.sid \notin Owed
                       /\ \A p \in PaneIds : ui'.pane[p].sid = c.sid => p = c.pane
  /\ c.op \in {"closeTab", "reconnect"} => SettledIn(ui', c.sid)

PageGoesOn(N, t) ==
  /\ Turns(ui, ui', NoSid, t)
  /\ t \in Sids => life[t] # "live" \/ \E c \in N : c.sid = t /\ c.op \in Closers
  /\ ui'.fresh >= ui.fresh
  /\ ui'.fresh + (IF \E c \in N : c.op = "closePane" THEN 1 ELSE 0) + acts <= ui.fresh + acts'
  /\ \/ ui'.connect \in {ui.connect, NoCall}
     \/ \E c \in N : c.op = "open" /\ ui'.connect = c.id
  /\ \/ ui'.term.hyd = ui.term.hyd /\ ui'.term.sid = ui.term.sid
     \/ ui'.term.hyd = NoCall
     \/ \E c \in N : c.op = "scrollback" /\ ui'.term.hyd = c.id /\ c.sid = ui'.term.sid
  /\ \A s \in ui'.reconnecting \ ui.reconnecting :
       SettledIn(ui', s) /\ \E c \in N : c.sid = s
  /\ \A s \in ui'.userClosed \ ui.userClosed : \E c \in N :
       c.sid = s /\ (c.op \in {"closePane", "disconnect"} \/ SettledIn(ui', s))

RingGoesOn ==
  /\ ring' = ring \/ (ring # <<>> /\ busy = <<>> /\ ring' = Tail(ring))
  /\ \A s \in Sids : life[s] = "dropped" /\ Coming(s) =>
       Coming(s)' \/ SettledIn(ui', s) \/ BeingClosed(s)

LEMMA PageKeeps ==
  ASSUME PanesIInv, Shape', TabsOK(ui)', \A s \in Sids : Len(pre'[s]) <= PreCap,
         UNCHANGED <<life, printed, busy, sock, unclaimed>>,
         NEW N, NEW A, Sends(N, A), \A c \in N : NewCall(c),
         NEW t, PageGoesOn(N, t), RingGoesOn
  PROVE  PanesIInv'
<1> USE DEF PanesIInv
<1>1. /\ N \subseteq CallRecs /\ \A c \in N : c.id = next
      /\ \A c, d \in N : c = d
      /\ pending' \subseteq pending \cup N /\ N \subseteq pending'
      /\ \A c \in pending : c.op # "open" => c \in pending'
  BY DEF Sends
<1>2. /\ ToSet(up) \subseteq ToSet(up') /\ ToSet(up') \subseteq ToSet(up) \cup N
      /\ \A c \in N : sock = "open" => c \in ToSet(up')
      /\ sock # "open" => up' = up
      /\ \A i, j \in DOMAIN up' : up'[i].id = up'[j].id => i = j
  <2>1. CASE up' = up
    <3>1. \A c \in N : sock # "open"
      <4> SUFFICES ASSUME NEW c \in N, sock = "open" PROVE FALSE
        OBVIOUS
      <4>1. up' = Append(up, c) /\ c \in CallRecs
        BY DEF Sends
      <4>2. Len(Append(up, c)) = Len(up) + 1 /\ Len(up) \in Nat
        BY <4>1 DEF Shape
      <4> QED BY <2>1, <4>1, <4>2
    <3> QED BY <2>1, <3>1 DEF IdsInv
  <2>2. CASE up' # up
    <3>1. PICK c \in CallRecs : N = {c} /\ c.id = next /\ up' = Append(up, c) /\ sock = "open"
      BY <2>2 DEF Sends
    <3>2. /\ up \in Seq(CallRecs) /\ Len(up) \in Nat /\ DOMAIN up = 1 .. Len(up)
          /\ DOMAIN up' = 1 .. Len(up) + 1 /\ up'[Len(up) + 1] = c
          /\ \A i \in 1 .. Len(up) : up'[i] = up[i]
      BY <3>1 DEF Shape
    <3>3. \A i \in 1 .. Len(up) : up[i] \in InFlight /\ up[i].id < next
      BY <3>2 DEF InFlight, ToSet, IdsInv
    <3>4. \A i \in 1 .. Len(up) : up[i].id # next
      BY SMTT(40), <3>2, <3>3 DEF CallRecs, Shape
    <3>5. \A i, j \in DOMAIN up' : up'[i].id = up'[j].id => i = j
      <4> SUFFICES ASSUME NEW i \in 1 .. Len(up) + 1, NEW j \in 1 .. Len(up) + 1,
                          up'[i].id = up'[j].id
                   PROVE  i = j
        BY <3>2
      <4>1. CASE i \in 1 .. Len(up) /\ j \in 1 .. Len(up)
        BY <4>1, <3>2 DEF IdsInv
      <4>2. CASE i = Len(up) + 1 \/ j = Len(up) + 1
        BY <4>2, <3>1, <3>2, <3>4
      <4> QED BY <4>1, <4>2, <3>2
    <3>6. ToSet(up') = ToSet(up) \cup {c}
      BY <3>2 DEF ToSet
    <3> QED BY <3>1, <3>5, <3>6
  <2> QED BY <2>1, <2>2
<1>3. /\ InFlight' \subseteq InFlight \cup N
      /\ \A c \in InFlight : c.id < next /\ c.id # next /\ c.id \in Nat
  <2>1. \A c \in InFlight : c.id < next /\ c.id \in Nat
    BY CallTypes
  <2>2. next \in Nat
    BY DEF Shape
  <2> QED BY <1>1, <1>2, <2>1, <2>2 DEF InFlight
<1>4. next' >= next /\ \A c \in N : next' = next + 1
  BY DEF Sends, Shape
<1>5. Turns(ui, ui', NoSid, t)
  BY DEF PageGoesOn
<1>6. Owed' = Owed /\ Born' = Born
  BY DEF Owed, Born
<1>7. RoomInv'
  <2> DEFINE one == IF \E c \in N : c.op = "closePane" THEN 1 ELSE 0
  <2>1. Cardinality(Closing') <= Cardinality(Closing) + one /\ Cardinality(Closing') \in Nat
    <3>1. IsFiniteSet(Closing) /\ Cardinality(Closing) \in Nat
      BY RoomLeft
    <3>2. CASE \E c \in N : c.op = "closePane"
      <4>1. PICK c \in N : c.op = "closePane"
        BY <3>2
      <4>2. Closing' \subseteq Closing \cup {c}
        BY <1>1 DEF Closing
      <4>3. IsFiniteSet(Closing \cup {c}) /\ Cardinality(Closing \cup {c}) <= Cardinality(Closing) + 1
        <5>1. /\ IsFiniteSet(Closing \cup {c})
              /\ Cardinality(Closing \cup {c})
                   = IF c \in Closing THEN Cardinality(Closing) ELSE Cardinality(Closing) + 1
          BY <3>1, FS_AddElement
        <5> QED BY <5>1, <3>1
      <4>4. IsFiniteSet(Closing') /\ Cardinality(Closing') <= Cardinality(Closing \cup {c})
        BY <4>2, <4>3, FS_Subset
      <4> QED BY <3>1, <3>2, <4>3, <4>4, FS_CardinalityType
    <3>3. CASE ~\E c \in N : c.op = "closePane"
      <4>1. Closing' \subseteq Closing
        BY <1>1, <3>3 DEF Closing
      <4>2. IsFiniteSet(Closing') /\ Cardinality(Closing') <= Cardinality(Closing)
        BY <4>1, <3>1, FS_Subset
      <4> QED BY <3>1, <3>3, <4>2, FS_CardinalityType
    <3> QED BY <3>2, <3>3
  <2>2. ui'.fresh + one + acts <= ui.fresh + acts'
    BY DEF PageGoesOn
  <2>3. /\ Cardinality(Owed) \in Nat /\ Cardinality(Closing) \in Nat /\ Cardinality(Born) \in Nat
        /\ ui.fresh \in Nat /\ ui'.fresh \in Nat /\ acts \in Nat /\ acts' \in Nat /\ one \in Nat
    BY RoomLeft, PageTypes DEF Shape
  <2>4. ui.fresh + Cardinality(Closing) + Cardinality(Owed) <= 2 + acts + Cardinality(Born)
    BY DEF RoomInv
  <2> HIDE DEF one
  <2>4a. ASSUME NEW f \in Nat, NEW g \in Nat, NEW a \in Nat, NEW b \in Nat, NEW k \in Nat,
                NEW l \in Nat, NEW o \in Nat, NEW n \in Nat, NEW m \in Nat,
                l <= k + m, g + m + a <= f + b, f + k + o <= 2 + a + n
         PROVE  g + l + o <= 2 + b + n
    BY <2>4a
  <2>5. ui'.fresh + Cardinality(Closing') + Cardinality(Owed) <= 2 + acts' + Cardinality(Born)
    BY <2>1, <2>2, <2>3, <2>4, <2>4a
  <2> QED BY <1>6, <2>5 DEF RoomInv
<1>8. IdsInv'
  <2>1. \A c \in InFlight' : c.id < next' /\ c.pane < ui'.fresh
    <3> SUFFICES ASSUME NEW c \in InFlight' PROVE c.id < next' /\ c.pane < ui'.fresh
      OBVIOUS
    <3>1. CASE c \in InFlight
      <4>1. c.id \in Nat /\ c.pane \in Nat /\ c.pane < ui.fresh /\ c.id < next
        BY <3>1, CallTypes
      <4>2. next \in Nat /\ next' \in Nat /\ ui.fresh \in Nat /\ ui'.fresh \in Nat
            /\ ui'.fresh >= ui.fresh
        BY PageTypes DEF Shape, PageGoesOn
      <4> QED BY <1>4, <4>1, <4>2
    <3>2. CASE c \in N
      BY <3>2, <1>1, <1>4 DEF NewCall, Shape
    <3> QED BY <3>1, <3>2, <1>3
  <2>2. \A c, d \in InFlight' : c.id = d.id => c = d
    <3> SUFFICES ASSUME NEW c \in InFlight', NEW d \in InFlight', c.id = d.id PROVE c = d
      OBVIOUS
    <3>1. CASE c \in InFlight /\ d \in InFlight
      BY <3>1 DEF IdsInv
    <3>2. CASE c \in N \/ d \in N
      BY <3>2, <1>1, <1>3
    <3> QED BY <3>1, <3>2, <1>3
  <2>3. \A c \in InFlight' : c.op \notin {"open", "local"} => c.sid \in Sids /\ c.pane \in PaneIds
    BY <1>3 DEF IdsInv, NewCall
  <2>4. \A i \in DOMAIN busy' :
           /\ busy'[i].id < next'
           /\ \A c \in ToSet(up') : c.id # busy'[i].id
           /\ \A c \in pending' : c.id = busy'[i].id => c.op = busy'[i].op
    <3> SUFFICES ASSUME NEW i \in DOMAIN busy
                 PROVE  /\ busy[i].id < next'
                        /\ \A c \in ToSet(up') : c.id # busy[i].id
                        /\ \A c \in pending' : c.id = busy[i].id => c.op = busy[i].op
      OBVIOUS
    <3>1. busy[i].id < next /\ busy[i].id \in Nat /\ next \in Nat /\ next' \in Nat
      <4>1. busy[i] \in Answers
        BY DEF Shape
      <4>2. busy[i].id \in Nat
        BY <4>1 DEF Answers
      <4> QED BY <4>2 DEF IdsInv, Shape
    <3>2. busy[i].id < next' /\ busy[i].id # next
      BY <3>1, <1>4
    <3> QED BY <3>2, <1>1, <1>2 DEF IdsInv
  <2>5. ui'.connect < next' /\ ui'.term.hyd < next'
    <3>1. /\ ui.connect < next /\ ui.term.hyd < next /\ next \in Nat \ {0} /\ next' \in Nat
          /\ ui.connect \in Nat /\ ui.term.hyd \in Nat
      BY PageTypes DEF IdsInv, Shape, Terms
    <3>2. ui'.connect < next'
      BY <3>1, <1>1, <1>4 DEF PageGoesOn, NoCall
    <3>3. ui'.term.hyd < next'
      BY <3>1, <1>1, <1>4 DEF PageGoesOn, NoCall
    <3> QED BY <3>2, <3>3
  <2>6. \A c \in pending' : c.id # NoCall /\ (c \in pending \/ c \in N)
    BY <1>1 DEF NoCall, Shape, CallRecs
  <2>7. \A c \in pending' : c.id = ui'.connect => c.op = "open"
    <3> SUFFICES ASSUME NEW c \in pending', c.id = ui'.connect PROVE c.op = "open"
      OBVIOUS
    <3>1. CASE ui'.connect = ui.connect
      <4>1. ui.connect # next
        BY PageTypes DEF IdsInv, Shape
      <4> QED BY <3>1, <4>1, <2>6, <1>1 DEF IdsInv
    <3>2. CASE \E d \in N : d.op = "open" /\ ui'.connect = d.id
      <4>1. PICK d \in N : d.op = "open" /\ ui'.connect = d.id
        BY <3>2
      <4>2. c \notin pending
        BY <4>1, <1>1, <1>3 DEF InFlight
      <4> QED BY <4>1, <4>2, <2>6, <1>1
    <3> QED BY <3>1, <3>2, <2>6 DEF PageGoesOn
  <2>8. \A c \in pending' : c.id = ui'.term.hyd => c.op = "scrollback" /\ c.sid = ui'.term.sid
    <3> SUFFICES ASSUME NEW c \in pending', c.id = ui'.term.hyd
                 PROVE  c.op = "scrollback" /\ c.sid = ui'.term.sid
      OBVIOUS
    <3>1. CASE ui'.term.hyd = ui.term.hyd /\ ui'.term.sid = ui.term.sid
      <4>1. ui.term.hyd # next
        BY SMTT(40), PageTypes DEF IdsInv, Shape, Terms
      <4> QED BY <3>1, <4>1, <2>6, <1>1 DEF IdsInv
    <3>2. CASE \E d \in N : d.op = "scrollback" /\ ui'.term.hyd = d.id /\ d.sid = ui'.term.sid
      <4>1. PICK d \in N : d.op = "scrollback" /\ ui'.term.hyd = d.id /\ d.sid = ui'.term.sid
        BY <3>2
      <4>2. c \notin pending
        BY <4>1, <1>1, <1>3 DEF InFlight
      <4> QED BY <4>1, <4>2, <2>6, <1>1
    <3> QED BY <3>1, <3>2, <2>6 DEF PageGoesOn
  <2> QED BY <1>2, <2>1, <2>2, <2>3, <2>4, <2>5, <2>7, <2>8 DEF IdsInv
<1>9. \A p \in PaneIds : ui'.pane[p].sid \in {ui.pane[p].sid, NoSid}
  BY <1>5 DEF Turns
<1>10. HomeInv'
  <2>1. \A p, q \in PaneIds :
          ui'.pane[p].sid = ui'.pane[q].sid /\ ui'.pane[p].sid # NoSid => p = q
    BY <1>9 DEF HomeInv
  <2>2. ASSUME NEW c \in InFlight', c.sid # NoSid, NEW p \in PaneIds, ui'.pane[p].sid = c.sid
        PROVE  p = c.pane
    <3>1. CASE c \in InFlight
      BY <3>1, <2>2, <1>9 DEF HomeInv
    <3>2. CASE c \in N
      <4>1. c.sid \in Sids
        BY <3>2, <2>2, <1>1 DEF CallRecs
      <4> QED BY <3>2, <4>1, <2>2 DEF NewCall
    <3> QED BY <3>1, <3>2, <1>3
  <2> QED BY <2>1, <2>2 DEF HomeInv
<1>11. \A s \in Known' : s \in Known \cup {NoSid} \/ \E c \in N : c.sid = s
  <2>1. \A p \in PaneIds : ui'.pane[p].sid \in Known \cup {NoSid}
    BY <1>9 DEF Known
  <2>2. \A c \in InFlight' : c.sid \in Known \/ c \in N
    BY <1>3 DEF Known
  <2>3. \A s \in ui'.reconnecting \cup ui'.userClosed : s \in Known \/ \E c \in N : c.sid = s
    BY DEF Known, PageGoesOn
  <2> QED BY <2>1, <2>2, <2>3 DEF Known
<1>12. BornInv'
  <2>1. \A s \in Sids : s \in Known' => s \in Known \/ (life[s] # "none" /\ s \notin Owed)
    BY <1>11, SidsFacts DEF NoSid, NewCall
  <2>2. \A s \in Sids : s \in Known' => life'[s] # "none"
    BY <2>1 DEF BornInv
  <2>3. \A s \in Owed' : life'[s] # "none" /\ s \notin Known'
    BY <1>6, <2>1 DEF BornInv, Owed
  <2> QED BY <2>2, <2>3 DEF BornInv
<1>13. DaemonInv'
  <2>1. /\ ring \in Seq(DataEvents \cup ClosedEvents)
        /\ \A i \in DOMAIN ring' : \E j \in DOMAIN ring : ring'[i] = ring[j]
    <3>1. CASE ring' = ring
      BY <3>1 DEF Shape
    <3>2. CASE ring # <<>> /\ ring' = Tail(ring)
      <4>1. /\ ring \in Seq(DataEvents \cup ClosedEvents) /\ Len(ring) \in Nat \ {0}
            /\ DOMAIN ring = 1 .. Len(ring) /\ DOMAIN ring' = 1 .. Len(ring) - 1
            /\ \A i \in 1 .. Len(ring) - 1 : ring'[i] = ring[i + 1]
        BY <3>2 DEF Shape
      <4>2. \A i \in 1 .. Len(ring) - 1 : i + 1 \in 1 .. Len(ring)
        BY <4>1
      <4> QED BY <4>1, <4>2
    <3> QED BY <3>1, <3>2 DEF RingGoesOn
  <2>2. sock' # "open" => up' = <<>> /\ busy' = <<>> /\ ring' = <<>> /\ \A s \in Sids : Gone(s)'
    BY <1>2 DEF DaemonInv, Gone, RingGoesOn
  <2>3. \A s \in Owed' : life'[s] = "live" \/ (life'[s] = "dropped" /\ Coming(s)')
    <3> SUFFICES ASSUME NEW s \in Owed PROVE life[s] = "live" \/ (life[s] = "dropped" /\ Coming(s)')
      BY <1>6
    <3>1. busy # <<>>
      BY DEF Owed
    <3> QED BY <3>1 DEF RingGoesOn, DaemonInv, Coming
  <2> QED BY <2>1, <2>2, <2>3 DEF DaemonInv
<1>14. \A s \in Sids : Settled(s) => SettledIn(ui', s)
  BY <1>5, StaysSettled, SidsFacts DEF Settled, NoSid
<1>15. \A s : BeingClosed(s) => BeingClosed(s)'
  BY <1>1 DEF BeingClosed
<1>16. \A s : CloseIsUp(s) => CloseIsUp(s)'
  <2>1. \A s : CloseIsUp(s) <=> \E c \in ToSet(up) : c.sid = s /\ c.op \in Closers
    BY DEF CloseIsUp, ToSet
  <2>2. \A s : CloseIsUp(s)' <=> \E c \in ToSet(up') : c.sid = s /\ c.op \in Closers
    BY DEF CloseIsUp, ToSet
  <2> QED BY <2>1, <2>2, <1>2
<1>17. \A c \in N : sock = "open" \/ \A s \in Sids : Gone(s)
  BY DEF DaemonInv
<1>18. t \in Sids => life[t] # "live" \/ CloseIsUp(t)'
  <2> SUFFICES ASSUME t \in Sids, life[t] = "live" PROVE CloseIsUp(t)'
    OBVIOUS
  <2>1. PICK c \in N : c.sid = t /\ c.op \in Closers
    BY DEF PageGoesOn
  <2>2. c \in ToSet(up')
    BY <1>2, <1>17 DEF Gone
  <2> QED BY <2>1, <2>2 DEF CloseIsUp, ToSet
<1>19. \A p \in PaneIds : ui.pane[p].sid \in {NoSid} \cup Sids /\ ui'.pane[p].sid \in {NoSid} \cup Sids
  BY PageTypes DEF Shape
<1>20. PanesInv'
  <2>1. ASSUME NEW p \in PaneIds, NEW s, s = ui'.pane[p].sid, s # NoSid, ~ui'.pane[p].dis
        PROVE  life[s] \in {"live", "lost"} \/ (life[s] = "dropped" /\ Coming(s)') \/ BeingClosed(s)'
    <3>1. ui.pane[p].sid = s /\ ~ui.pane[p].dis
      BY <2>1, <1>5 DEF Turns
    <3>2. ~SettledIn(ui', s) /\ s \in Sids
      BY <2>1, <1>19 DEF SettledIn
    <3> QED BY <3>1, <3>2, <2>1, <1>15 DEF PanesInv, RingGoesOn
  <2>2. ASSUME NEW p \in PaneIds, NEW s, s = ui'.pane[p].sid, s # NoSid, ui'.pane[p].dis
        PROVE  life[s] # "live" \/ CloseIsUp(s)'
    <3>1. ui.pane[p].sid = s /\ s \in Sids
      BY <2>2, <1>9, <1>19
    <3>2. ui.pane[p].dis \/ s = t
      BY <2>2, <3>1, <1>5 DEF Turns
    <3> QED BY <2>2, <3>1, <3>2, <1>16, <1>18 DEF PanesInv
  <2> QED BY <2>1, <2>2 DEF PanesInv
<1>21. CallsInv'
  <2>1. ASSUME NEW c \in pending', c.op \in Closers \cup {"reconnect"}
        PROVE  c \in ToSet(up') \/ Gone(c.sid)'
    <3>1. CASE c \in pending
      BY <3>1, <2>1, <1>2 DEF CallsInv, Gone
    <3>2. CASE c \in N
      <4>1. c.sid \in Sids
        BY <3>2, <2>1 DEF NewCall, Closers
      <4> QED BY <3>2, <4>1, <1>2, <1>17 DEF Gone
    <3> QED BY <3>1, <3>2, <1>1
  <2>2. \A c \in ToSet(up) : c.op \notin {"open", "local"} => c.sid \in Sids
    BY CallTypes DEF InFlight
  <2>3. \A c \in ToSet(up') : c.op \in {"closePane", "disconnect"} => c \in pending' \/ Settled(c.sid)'
    BY <2>2, <1>1, <1>2, <1>14 DEF CallsInv, Settled
  <2>4. \A c \in ToSet(up') : c.op \in {"closeTab", "reconnect"} => Settled(c.sid)'
    BY <2>2, <1>2, <1>14 DEF CallsInv, Settled, NewCall
  <2>5. \A s \in ui'.reconnecting : Settled(s)'
    BY <1>14, PageTypes DEF CallsInv, Settled, Shape, PageGoesOn
  <2>6. \A s \in ui'.userClosed : BeingClosed(s)' \/ Settled(s)'
    <3> SUFFICES ASSUME NEW s \in ui'.userClosed PROVE BeingClosed(s)' \/ Settled(s)'
      OBVIOUS
    <3>1. CASE s \in ui.userClosed
      BY <3>1, <1>14, <1>15, PageTypes DEF CallsInv, Settled, Shape
    <3>2. CASE s \notin ui.userClosed
      BY <3>2, <1>1 DEF PageGoesOn, BeingClosed, Settled
    <3> QED BY <3>1, <3>2
  <2> QED BY <2>1, <2>3, <2>4, <2>5, <2>6 DEF CallsInv
<1>22. NobodyForgotten'
  <2>1. \A s : CloseIsUp(s) <=> \E i \in DOMAIN up : up[i].sid = s /\ up[i].op \in {"closePane", "closeTab", "disconnect"}
    BY DEF CloseIsUp, Closers
  <2>2. \A s : CloseIsUp(s)' <=> \E i \in DOMAIN up' : up'[i].sid = s /\ up'[i].op \in {"closePane", "closeTab", "disconnect"}
    BY DEF CloseIsUp, Closers
  <2> SUFFICES ASSUME NEW s \in Sids, life[s] = "live"
               PROVE  \/ s \in Shown(ui') \/ s \in Owed \/ CloseIsUp(s)'
                      \/ s \in unclaimed \/ s \in ui'.crossed
    BY <2>2 DEF NobodyForgotten, Owed
  <2>3. \/ s \in Shown(ui) \/ s \in Owed \/ CloseIsUp(s) \/ s \in unclaimed \/ s \in ui.crossed
    BY <2>1 DEF NobodyForgotten, Owed
  <2>4. CASE s \in Shown(ui)
    <3>1. s \in Shown(ui') \cup ui'.crossed \/ s = t
          \/ \E q \in PaneIds : ui.pane[q].dis /\ ui.pane[q].sid = s
      BY <2>4, <1>5 DEF Turns
    <3>2. CASE \E q \in PaneIds : ui.pane[q].dis /\ ui.pane[q].sid = s
      BY <3>2, <1>16, SidsFacts DEF PanesInv, NoSid
    <3> QED BY <3>1, <3>2, <1>18
  <2>5. ui.crossed \subseteq ui'.crossed
    BY <1>5 DEF Turns
  <2> QED BY <2>3, <2>4, <2>5, <1>16
<1> QED BY <1>7, <1>8, <1>10, <1>12, <1>13, <1>20, <1>21, <1>22

LEMMA SendsShape ==
  ASSUME Shape, NEW N, NEW A, Sends(N, A)
  PROVE  /\ up' \in Seq(CallRecs) /\ next' \in Nat \ {0}
         /\ pending' \subseteq CallRecs /\ IsFiniteSet(pending')
<1>1. N \subseteq CallRecs /\ IsFiniteSet(N)
  BY ZenonT(60), FS_EmptySet, FS_Singleton DEF Sends
<1>2. IsFiniteSet(pending \ A) /\ pending \ A \subseteq CallRecs
  BY FS_Subset DEF Shape
<1>3. pending' \subseteq CallRecs /\ IsFiniteSet(pending')
  BY <1>1, <1>2, FS_Union DEF Sends
<1>4. next' \in Nat \ {0}
  BY DEF Sends, Shape
<1>5. up' \in Seq(CallRecs)
  <2>1. \A c \in CallRecs : Append(up, c) \in Seq(CallRecs)
    BY DEF Shape
  <2> QED BY <2>1 DEF Sends, Shape
<1> QED BY <1>3, <1>4, <1>5

LEMMA CallIs ==
  ASSUME Shape, NEW op \in Ops, NEW p \in {0} \cup PaneIds, NEW s \in {NoSid} \cup Sids
  PROVE  LET c == Call(op, p, s)
         IN  /\ c \in CallRecs /\ c.id = next /\ c.op = op /\ c.pane = p /\ c.sid = s
             /\ Send(c) => /\ next' = next + 1
                           /\ up' = IF sock = "open" THEN Append(up, c) ELSE up
                           /\ UNCHANGED <<life, printed, ring, busy, sock>>
             /\ \A A : Send(c) /\ A \subseteq {d \in pending : d.op = "open"}
                         /\ pending' = (pending \ A) \cup {c} => Sends({c}, A)
<1> DEFINE c == Call(op, p, s)
<1>1. c = [id |-> next, op |-> op, pane |-> p, sid |-> s, sent |-> sock # "closed"]
  BY DEF Call
<1>2. c \in CallRecs /\ c.id = next /\ c.op = op /\ c.pane = p /\ c.sid = s
  BY <1>1 DEF CallRecs, Shape
<1> HIDE DEF c
<1>3. Send(c) => /\ next' = next + 1
                 /\ up' = IF sock = "open" THEN Append(up, c) ELSE up
                 /\ UNCHANGED <<life, printed, ring, busy, sock>>
  BY DEF Send, daemonVars
<1>4. \A A : Send(c) /\ A \subseteq {d \in pending : d.op = "open"}
               /\ pending' = (pending \ A) \cup {c} => Sends({c}, A)
  BY <1>2, <1>3 DEF Sends
<1> QED BY <1>2, <1>3, <1>4 DEF c

(* The page as it was, but for fields that say nothing of its panes.        *)
SamePanes(u, v) ==
  /\ v.tabs = u.tabs /\ v.pane = u.pane /\ v.fresh = u.fresh /\ v.crossed = u.crossed

LEMMA SamePanesTurns ==
  ASSUME NEW u, NEW v, SamePanes(u, v), NEW t
  PROVE  Turns(u, v, NoSid, t) /\ \A s : SettledIn(v, s) <=> SettledIn(u, s)
BY DEF SamePanes, Turns, SettledIn, Shown

LEMMA RingStays ==
  ASSUME ring' = ring PROVE RingGoesOn
BY DEF RingGoesOn, Coming

LEMMA ActsFacts ==
  ASSUME Shape, Click PROVE acts' = acts + 1 /\ acts' \in 0 .. MaxActs /\ acts < MaxActs /\ acts \in Nat
BY SidsFacts DEF Shape, Click

LEMMA OpenSessionKeeps ==
  ASSUME PanesIInv, OpenSession PROVE PanesIInv'
<1> USE DEF PanesIInv
<1> DEFINE c == Call("open", 0, NoSid)
<1>1. /\ Click /\ Send(c) /\ pending' = (pending \ Aborted) \cup {c}
      /\ ui' = [ui EXCEPT !.connect = c.id]
      /\ UNCHANGED <<pre, mounted, trimmed, unclaimed>>
  BY DEF OpenSession, noteVars
<1>2. /\ c \in CallRecs /\ c.id = next /\ c.op = "open" /\ c.pane = 0 /\ c.sid = NoSid
      /\ UNCHANGED <<life, printed, ring, busy, sock>>
  BY ZenonT(60), <1>1, CallIs DEF Ops
<1>3. Sends({c}, Aborted)
  <2>1. Aborted \subseteq {d \in pending : d.op = "open"}
    BY DEF Aborted, IdsInv
  <2>2. "open" \in Ops /\ 0 \in {0} \cup PaneIds /\ NoSid \in {NoSid} \cup Sids
    BY DEF Ops
  <2>3. \A A : Send(c) /\ A \subseteq {d \in pending : d.op = "open"}
                /\ pending' = (pending \ A) \cup {c} => Sends({c}, A)
    BY <2>2, CallIs
  <2> HIDE DEF c
  <2> QED BY <1>1, <2>1, <2>3
<1> HIDE DEF c
<1>4. ui' \in Pages /\ SamePanes(ui, ui') /\ ui'.active = ui.active /\ ui'.connect = c.id
      /\ ui'.term = ui.term /\ ui'.reconnecting = ui.reconnecting /\ ui'.userClosed = ui.userClosed
  BY <1>1, <1>2 DEF Shape, Pages, SamePanes
<1>5. Shape'
  BY <1>1, <1>2, <1>3, <1>4, SendsShape, ActsFacts DEF Shape
<1>6. TabsOK(ui)'
  BY <1>4 DEF TabsOK, SamePanes
<1>7. \A d \in {c} : NewCall(d)
  BY <1>2, <1>4, SidsFacts DEF NewCall, SamePanes, NoSid, TabsOK
<1>8. PageGoesOn({c}, NoSid)
  <2>1. ui.fresh \in Nat /\ ui'.fresh = ui.fresh
    BY <1>4, PageTypes DEF Shape, SamePanes
  <2> QED BY SMTT(40), <1>1, <1>2, <1>4, <2>1, SamePanesTurns, ActsFacts, SidsFacts DEF PageGoesOn, NoSid
<1> QED BY <1>1, <1>2, <1>3, <1>5, <1>6, <1>7, <1>8, RingStays, PageKeeps

LEMMA CancelKeeps ==
  ASSUME PanesIInv, CancelInFlightConnect PROVE PanesIInv'
<1> USE DEF PanesIInv
<1>1. /\ Click /\ pending' = pending \ Aborted
      /\ ui' = [ui EXCEPT !.connect = NoCall]
      /\ UNCHANGED <<life, printed, ring, busy, sock, up, next, pre, mounted, trimmed, unclaimed>>
  BY DEF CancelInFlightConnect, daemonVars, wireVars, noteVars
<1>2. Sends({}, Aborted)
  BY <1>1 DEF Aborted, IdsInv, Sends
<1>3. ui' \in Pages /\ SamePanes(ui, ui') /\ ui'.active = ui.active /\ ui'.connect = NoCall
      /\ ui'.term = ui.term /\ ui'.reconnecting = ui.reconnecting /\ ui'.userClosed = ui.userClosed
  BY <1>1 DEF Shape, Pages, SamePanes, NoCall
<1>4. Shape'
  BY <1>1, <1>2, <1>3, SendsShape, ActsFacts DEF Shape
<1>5. TabsOK(ui)'
  BY <1>3 DEF TabsOK, SamePanes
<1>6. PageGoesOn({}, NoSid)
  <2>1. ui.fresh \in Nat /\ ui'.fresh = ui.fresh
    BY <1>3, PageTypes DEF Shape, SamePanes
  <2> QED BY <1>1, <1>3, <2>1, SamePanesTurns, ActsFacts, SidsFacts DEF PageGoesOn, NoSid
<1> QED BY <1>1, <1>2, <1>4, <1>5, <1>6, RingStays, PageKeeps

(* The page goes on without a call and with its calls as they were.         *)
LEMMA AloneKeeps ==
  ASSUME PanesIInv, ui' \in Pages, TabsOK(ui'), Turns(ui, ui', NoSid, NoSid),
         acts' \in 0 .. MaxActs,
         ui'.fresh >= ui.fresh, ui'.fresh + acts <= ui.fresh + acts', ui'.connect = ui.connect,
         ui'.term = ui.term, ui'.reconnecting = ui.reconnecting, ui'.userClosed = ui.userClosed,
         UNCHANGED <<life, printed, ring, busy, sock, up, next, pending, pre, mounted, trimmed, unclaimed>>
  PROVE  PanesIInv'
<1> USE DEF PanesIInv
<1>1. Sends({}, {})
  BY DEF Sends
<1>2. Shape'
  BY DEF Shape
<1>3. PageGoesOn({}, NoSid)
  <2>1. ui'.fresh + 0 + acts <= ui.fresh + acts'
    BY PageTypes DEF Shape
  <2>2. NoSid \notin Sids
    BY SidsFacts DEF NoSid
  <2> QED BY <2>1, <2>2 DEF PageGoesOn
<1>4. TabsOK(ui)'
  BY DEF TabsOK
<1> QED BY <1>1, <1>2, <1>3, <1>4, RingStays, PageKeeps

LEMMA ActivateKeeps ==
  ASSUME PanesIInv, NEW p \in ToSet(ui.tabs), ActivateTab(p) PROVE PanesIInv'
<1> USE DEF PanesIInv
<1>1. /\ ui' = [ui EXCEPT !.active = p]
      /\ UNCHANGED <<life, printed, ring, busy, sock, up, next, pending, pre, mounted, trimmed,
                     unclaimed, acts>>
  BY DEF ActivateTab, daemonVars, wireVars, noteVars
<1>2. p \in PaneIds
  BY PageTypes DEF Shape
<1>3. ui' \in Pages /\ SamePanes(ui, ui') /\ ui'.active = p /\ ui'.connect = ui.connect
      /\ ui'.term = ui.term /\ ui'.reconnecting = ui.reconnecting /\ ui'.userClosed = ui.userClosed
  BY <1>1, <1>2 DEF Shape, Pages, SamePanes
<1>4. TabsOK(ui')
  BY <1>3 DEF TabsOK, SamePanes
<1>5. /\ ui'.fresh >= ui.fresh /\ ui'.fresh + acts <= ui.fresh + acts' /\ acts' \in 0 .. MaxActs
  BY <1>1, <1>3, PageTypes DEF Shape, SamePanes
<1> QED BY <1>1, <1>3, <1>4, <1>5, SamePanesTurns, AloneKeeps

(* A click that makes a call about the session of a pane.                   *)
LEMMA AwaitKeeps ==
  ASSUME PanesIInv, NEW op \in Ops, NEW p \in {0} \cup PaneIds, NEW s \in {NoSid} \cup Sids,
         NEW u \in Pages, TabsOK(u), Await(Call(op, p, s), u),
         NEW t \in {NoSid, s}, Turns(ui, u, NoSid, t), t \in Sids => op \in Closers,
         u.fresh \in {ui.fresh, ui.fresh + 1}, op = "closePane" => u.fresh = ui.fresh,
         u.connect = ui.connect, u.term = ui.term,
         u.reconnecting = ui.reconnecting
           \/ (SettledIn(u, s) /\ u.reconnecting = ui.reconnecting \cup {s}),
         u.userClosed = ui.userClosed
           \/ (u.userClosed = ui.userClosed \cup {s}
               /\ (op \in {"closePane", "disconnect"} \/ SettledIn(u, s))),
         op \notin {"open", "local"} => s \in Sids /\ p \in PaneIds,
         s \in Sids => p \in PaneIds /\ ui.pane[p].sid = s,
         p < ui.fresh,
         op \in {"closeTab", "reconnect"} => SettledIn(u, s)
  PROVE  PanesIInv'
<1> USE DEF PanesIInv
<1> DEFINE c == Call(op, p, s)
<1>1. /\ Click /\ Send(c) /\ pending' = (pending \ {}) \cup {c} /\ ui' = u
      /\ UNCHANGED <<pre, mounted, trimmed, unclaimed>>
  BY DEF Await, noteVars
<1>2. /\ c \in CallRecs /\ c.id = next /\ c.op = op /\ c.pane = p /\ c.sid = s
      /\ UNCHANGED <<life, printed, ring, busy, sock>>
  BY <1>1, CallIs
<1>2a. {} \subseteq {d \in pending : d.op = "open"}
  OBVIOUS
<1>2b. \A A : Send(c) /\ A \subseteq {d \in pending : d.op = "open"}
                /\ pending' = (pending \ A) \cup {c} => Sends({c}, A)
  BY CallIs
<1> HIDE DEF c
<1>2c. PICK none : none = {}
  OBVIOUS
<1>2d. Sends({c}, none)
  BY ZenonT(60), <1>1, <1>2a, <1>2b, <1>2c
<1>3. Sends({c}, {})
  BY <1>2c, <1>2d
<1>4. Shape'
  BY <1>1, <1>2, <1>3, SendsShape, ActsFacts DEF Shape
<1>5. TabsOK(ui)'
  BY <1>1 DEF TabsOK
<1>6. ui.fresh \in Nat /\ u.fresh \in Nat /\ p \in Nat
  BY PageTypes, SidsFacts DEF Shape
<1>7. NewCall(c)
  <2>1. c.pane < ui'.fresh
    BY <1>1, <1>2, <1>6
  <2>2. s \in Sids => s \in Known
    BY DEF Known
  <2>3. s \in Sids => life[s] # "none" /\ s \notin Owed
    BY <2>2 DEF BornInv
  <2>4. s \in Sids => \A q \in PaneIds : u.pane[q].sid = s => q = p
    BY SidsFacts DEF HomeInv, Turns, NoSid
  <2> QED BY <1>1, <1>2, <2>1, <2>3, <2>4 DEF NewCall
<1>8. PageGoesOn({c}, t)
  <2>1. u.fresh + (IF op = "closePane" THEN 1 ELSE 0) + acts <= ui.fresh + acts'
    BY <1>1, <1>6, ActsFacts
  <2>2. t \in Sids => c.sid = t /\ c.op \in Closers
    BY <1>2, SidsFacts DEF NoSid
  <2>3. /\ \A s1 \in u.reconnecting \ ui.reconnecting : SettledIn(u, s1) /\ c.sid = s1
        /\ \A s1 \in u.userClosed \ ui.userClosed :
             c.sid = s1 /\ (c.op \in {"closePane", "disconnect"} \/ SettledIn(u, s1))
    BY <1>2
  <2> QED BY <1>1, <1>2, <1>6, <2>1, <2>2, <2>3 DEF PageGoesOn
<1> QED BY <1>1, <1>2, <1>3, <1>4, <1>5, <1>7, <1>8, RingStays, PageKeeps

LEMMA OpenLocalKeeps ==
  ASSUME PanesIInv, OpenLocal PROVE PanesIInv'
<1> USE DEF PanesIInv
<1>1. Await(Call("local", 0, NoSid), ui) /\ ui \in Pages /\ TabsOK(ui) /\ 0 < ui.fresh
      /\ ui.fresh \in Nat
  BY PageTypes DEF OpenLocal, Shape, TabsOK
<1>2. NoSid \notin Sids /\ "local" \in Ops
  BY SidsFacts DEF NoSid, Ops
<1>3. Turns(ui, ui, NoSid, NoSid)
  BY StaysTurns
<1> QED BY <1>1, <1>2, <1>3, AwaitKeeps

LEMMA NotedIs ==
  ASSUME NEW u \in Pages, TabsOK(u), NEW s \in Sids
  PROVE  LET v == NoteUserClosed(u, s)
         IN  /\ v \in Pages /\ TabsOK(v) /\ SamePanes(u, v) /\ v.userClosed = u.userClosed \cup {s}
             /\ v.connect = u.connect /\ v.term = u.term /\ v.reconnecting = u.reconnecting
             /\ v.active = u.active
<1> DEFINE v == NoteUserClosed(u, s)
<1>1. v = [u EXCEPT !.userClosed = u.userClosed \cup {s}]
  BY DEF NoteUserClosed, Pages
<1>2. /\ v \in Pages /\ SamePanes(u, v) /\ v.userClosed = u.userClosed \cup {s}
      /\ v.connect = u.connect /\ v.term = u.term /\ v.reconnecting = u.reconnecting
      /\ v.active = u.active
  BY <1>1 DEF Pages, SamePanes
<1> HIDE DEF v
<1>3. TabsOK(v)
  BY <1>2 DEF TabsOK, SamePanes
<1> QED BY <1>2, <1>3 DEF v

LEMMA PaneFacts ==
  ASSUME PanesIInv, NEW p \in ToSet(ui.tabs)
  PROVE  /\ ui \in Pages /\ TabsOK(ui) /\ p \in PaneIds /\ p < ui.fresh /\ ui.fresh \in Nat
         /\ ui.pane[p].sid \in {NoSid} \cup Sids /\ NoSid \notin Sids
         /\ ui.active \in ToSet(ui.tabs)
BY PageTypes, SidsFacts DEF PanesIInv, Shape, TabsOK, NoSid

LEMMA DisconnectKeeps ==
  ASSUME PanesIInv, DisconnectPane PROVE PanesIInv'
<1> DEFINE p == ui.active
           s == ui.pane[p].sid
           u == NoteUserClosed(ui, s)
<1>1. p \in ToSet(ui.tabs)
  BY DEF PanesIInv, TabsOK
<1>2. /\ ui \in Pages /\ TabsOK(ui) /\ p \in PaneIds /\ p < ui.fresh /\ s \in Sids /\ ui.fresh \in Nat
  BY <1>1, PaneFacts DEF DisconnectPane
<1>3. /\ u \in Pages /\ TabsOK(u) /\ SamePanes(ui, u) /\ u.userClosed = ui.userClosed \cup {s}
      /\ u.connect = ui.connect /\ u.term = ui.term /\ u.reconnecting = ui.reconnecting
  BY <1>2, NotedIs
<1>4. Await(Call("disconnect", p, s), u)
  BY DEF DisconnectPane
<1> HIDE DEF p, s, u
<1>5. Turns(ui, u, NoSid, NoSid) /\ u.fresh = ui.fresh
  BY <1>3, SamePanesTurns DEF SamePanes
<1>6. ui.pane[p].sid = s /\ "disconnect" \in Ops
  BY DEF p, s, Ops
<1> QED BY <1>2, <1>3, <1>4, <1>5, <1>6, SidsFacts, AwaitKeeps DEF NoSid

LEMMA ReconnectKeeps ==
  ASSUME PanesIInv, ReconnectPane PROVE PanesIInv'
<1> DEFINE p == ui.active
           s == ui.pane[p].sid
           u == [ui EXCEPT !.reconnecting = @ \cup {s}]
<1>1. p \in ToSet(ui.tabs)
  BY DEF PanesIInv, TabsOK
<1>2. /\ ui \in Pages /\ TabsOK(ui) /\ p \in PaneIds /\ p < ui.fresh /\ s \in Sids /\ ui.fresh \in Nat
  BY <1>1, PaneFacts DEF ReconnectPane
<1>3. Await(Call("reconnect", p, s), u) /\ ui.pane[p].dis
  BY DEF ReconnectPane
<1>4. SettledIn(ui, s)
  BY <1>2, <1>3, SidsFacts DEF PanesIInv, HomeInv, SettledIn, NoSid
<1>5. ui.pane[p].sid = s /\ "reconnect" \in Ops
  BY DEF Ops
<1> HIDE DEF p, s
<1>6. /\ u \in Pages /\ SamePanes(ui, u) /\ u.userClosed = ui.userClosed /\ u.active = ui.active
      /\ u.connect = ui.connect /\ u.term = ui.term /\ u.reconnecting = ui.reconnecting \cup {s}
  BY <1>2 DEF SamePanes, Pages
<1> HIDE DEF u
<1>7. Turns(ui, u, NoSid, NoSid) /\ u.fresh = ui.fresh /\ SettledIn(u, s)
  BY <1>4, <1>6, SamePanesTurns DEF SamePanes
<1>8. TabsOK(u)
  BY <1>2, <1>6 DEF TabsOK, SamePanes
<1> QED BY <1>2, <1>3, <1>5, <1>6, <1>7, <1>8, SidsFacts, AwaitKeeps DEF NoSid

LEMMA ClosePaneKeeps ==
  ASSUME PanesIInv, ClosePane PROVE PanesIInv'
<1> DEFINE p == ui.active
           s == ui.pane[p].sid
           u == NoteUserClosed(ui, s)
<1>1. p \in ToSet(ui.tabs)
  BY DEF PanesIInv, TabsOK
<1>2. /\ ui \in Pages /\ TabsOK(ui) /\ p \in PaneIds /\ p < ui.fresh /\ ui.fresh \in Nat
      /\ s \in {NoSid} \cup Sids
  BY <1>1, PaneFacts
<1>3. CASE s # NoSid
  <2>1. /\ u \in Pages /\ TabsOK(u) /\ SamePanes(ui, u) /\ u.userClosed = ui.userClosed \cup {s}
        /\ u.connect = ui.connect /\ u.term = ui.term /\ u.reconnecting = ui.reconnecting
    BY <1>2, <1>3, NotedIs
  <2>2. Await(Call("closePane", p, s), u)
    BY <1>3 DEF ClosePane
  <2>3. ui.pane[p].sid = s /\ "closePane" \in Ops
    BY DEF Ops
  <2> HIDE DEF p, s, u
  <2>4. Turns(ui, u, NoSid, NoSid) /\ u.fresh = ui.fresh
    BY <2>1, SamePanesTurns DEF SamePanes
  <2> QED BY <1>2, <1>3, <2>1, <2>2, <2>3, <2>4, SidsFacts, AwaitKeeps DEF NoSid
<1>4. CASE s = NoSid
  <2>1. /\ Click /\ ui' = Without(ui, p, "first")
        /\ UNCHANGED <<life, printed, ring, busy, sock, up, next, pending, pre, mounted, trimmed, unclaimed>>
    BY <1>4 DEF ClosePane, daemonVars, wireVars, noteVars
  <2>2. acts' = acts + 1 /\ acts' \in 0 .. MaxActs /\ acts < MaxActs /\ acts \in Nat
    BY <2>1, ActsFacts DEF PanesIInv
  <2>3. ui.fresh \in PaneIds
    BY <2>2, RoomLeft DEF PanesIInv
  <2>4. PICK end : end = "first"
    OBVIOUS
  <2>5. LET v == Without(ui, p, end)
        IN  /\ v \in Pages /\ TabsOK(v) /\ v.fresh \in {ui.fresh, ui.fresh + 1}
            /\ KeepsRest(ui, v) /\ Turns(ui, v, NoSid, NoSid)
    BY <1>2, <1>4, <2>3, WithoutIs
  <2>6. /\ ui' \in Pages /\ TabsOK(ui') /\ ui'.fresh \in {ui.fresh, ui.fresh + 1}
        /\ KeepsRest(ui, ui') /\ Turns(ui, ui', NoSid, NoSid)
    BY <2>1, <2>4, <2>5
  <2>7. ui'.fresh >= ui.fresh /\ ui'.fresh + acts <= ui.fresh + acts'
    BY <1>2, <2>2, <2>6
  <2> QED BY <2>1, <2>2, <2>6, <2>7, AloneKeeps DEF KeepsRest
<1> QED BY <1>3, <1>4

LEMMA CloseTabKeeps ==
  ASSUME PanesIInv, NEW p \in ToSet(ui.tabs), CloseTab(p) PROVE PanesIInv'
<1> DEFINE s == ui.pane[p].sid
           w == NoteUserClosed(ui, s)
           u == Without(w, p, "last")
<1>2. /\ ui \in Pages /\ TabsOK(ui) /\ p \in PaneIds /\ p < ui.fresh /\ ui.fresh \in Nat
      /\ s \in {NoSid} \cup Sids
  BY PaneFacts
<1>1. Click
  BY DEF CloseTab, Await
<1>3. acts' = acts + 1 /\ acts' \in 0 .. MaxActs /\ acts < MaxActs /\ acts \in Nat
  BY <1>1, ActsFacts DEF PanesIInv
<1>4. ui.fresh \in PaneIds
  BY <1>3, RoomLeft DEF PanesIInv
<1>5. PICK end : end = "last"
  OBVIOUS
<1>6. CASE s # NoSid
  <2>1. /\ w \in Pages /\ TabsOK(w) /\ SamePanes(ui, w) /\ w.userClosed = ui.userClosed \cup {s}
        /\ w.connect = ui.connect /\ w.term = ui.term /\ w.reconnecting = ui.reconnecting
    BY <1>2, <1>6, NotedIs
  <2>2. Await(Call("closeTab", p, s), u)
    BY <1>6 DEF CloseTab
  <2>3. ui.pane[p].sid = s /\ "closeTab" \in Ops
    BY DEF Ops
  <2>4. u = Without(w, p, end)
    BY <1>5
  <2> HIDE DEF s, u, w
  <2>5. w.pane[p].sid = s /\ w.fresh = ui.fresh /\ w.fresh \in PaneIds
        /\ (w.pane[p].sid = NoSid \/ w.pane[p].sid = s \/ w.pane[p].sid \in w.crossed)
    BY <1>4, <2>1, <2>3 DEF SamePanes
  <2>5a. ASSUME NEW u1 \in Pages, TabsOK(u1), u1.fresh \in PaneIds, NEW s1, u1.pane[p].sid = s1
         PROVE  LET v == Without(u1, p, end)
                IN  /\ v \in Pages /\ TabsOK(v) /\ v.fresh \in {u1.fresh, u1.fresh + 1}
                    /\ KeepsRest(u1, v) /\ Turns(u1, v, NoSid, s1) /\ v.pane[p] = Empty
                    /\ \A q \in PaneIds \ {p} : v.pane[q] = u1.pane[q]
    <3>1. p \in PaneIds
      BY <1>2
    <3>2. u1.pane[p].sid = NoSid \/ u1.pane[p].sid = s1 \/ u1.pane[p].sid \in u1.crossed
      BY <2>5a
    <3>3. LET v == Without(u1, p, end)
          IN  /\ v \in Pages /\ TabsOK(v) /\ v.fresh \in {u1.fresh, u1.fresh + 1}
              /\ KeepsRest(u1, v) /\ Turns(u1, v, NoSid, s1)
      BY <2>5a, <3>1, <3>2, WithoutIs
    <3>4. Without(u1, p, end).pane[p] = Empty /\ Turns(u1, Without(u1, p, end), NoSid, s1)
      BY <2>5a, <3>1, <3>2, WithoutIs
    <3>5. ASSUME NEW q \in PaneIds \ {p} PROVE Without(u1, p, end).pane[q] = u1.pane[q]
      BY SMTT(40), <2>5a, <3>1, <3>2, WithoutIs
    <3> QED BY <3>3, <3>4, <3>5
  <2>6. LET v == Without(w, p, end)
        IN  /\ v \in Pages /\ TabsOK(v) /\ v.fresh \in {w.fresh, w.fresh + 1}
            /\ KeepsRest(w, v) /\ Turns(w, v, NoSid, s) /\ v.pane[p] = Empty
            /\ \A q \in PaneIds \ {p} : v.pane[q] = w.pane[q]
    BY <2>1, <2>5, <2>5a
  <2>7. /\ u \in Pages /\ TabsOK(u) /\ u.fresh \in {ui.fresh, ui.fresh + 1}
        /\ KeepsRest(w, u) /\ Turns(w, u, NoSid, s) /\ u.pane[p] = Empty
        /\ \A q \in PaneIds \ {p} : u.pane[q] = w.pane[q]
    BY <2>4, <2>5, <2>6
  <2>8. Turns(ui, u, NoSid, s)
    BY <2>1, <2>7 DEF Turns, SamePanes, Shown
  <2>9. SettledIn(u, s)
    <3>0. u.pane[p].sid = NoSid
      BY <2>7 DEF Empty
    <3>0a. \A q \in PaneIds \ {p} : u.pane[q] = ui.pane[q]
      BY <2>1, <2>7 DEF SamePanes
    <3>0b. \A q \in PaneIds : ui.pane[q].sid = ui.pane[p].sid /\ ui.pane[p].sid # NoSid => q = p
      BY <1>2 DEF PanesIInv, HomeInv
    <3>1. \A q \in PaneIds : u.pane[q].sid = s => q = p
      BY <1>6, <2>3, <3>0a, <3>0b
    <3>2. u.pane[p].sid # s
      BY <1>6, <2>7 DEF Empty
    <3> QED BY <3>1, <3>2 DEF SettledIn
  <2>10. /\ u.connect = ui.connect /\ u.term = ui.term /\ u.reconnecting = ui.reconnecting
         /\ u.userClosed = ui.userClosed \cup {s}
    BY <2>1, <2>7 DEF KeepsRest
  <2>11. "closeTab" \in Closers /\ "closeTab" # "closePane"
    BY DEF Closers
  <2> QED BY <1>2, <1>6, <2>2, <2>3, <2>7, <2>8, <2>9, <2>10, <2>11, AwaitKeeps
<1>7. CASE s = NoSid
  <2>1. /\ Click /\ ui' = Without(ui, p, "last")
        /\ UNCHANGED <<life, printed, ring, busy, sock, up, next, pending, pre, mounted, trimmed, unclaimed>>
    BY <1>7 DEF CloseTab, daemonVars, wireVars, noteVars
  <2>5. LET v == Without(ui, p, end)
        IN  /\ v \in Pages /\ TabsOK(v) /\ v.fresh \in {ui.fresh, ui.fresh + 1}
            /\ KeepsRest(ui, v) /\ Turns(ui, v, NoSid, NoSid)
    BY <1>2, <1>4, <1>7, WithoutIs
  <2>6. /\ ui' \in Pages /\ TabsOK(ui') /\ ui'.fresh \in {ui.fresh, ui.fresh + 1}
        /\ KeepsRest(ui, ui') /\ Turns(ui, ui', NoSid, NoSid)
    BY <2>1, <1>5, <2>5
  <2>7. ui'.fresh >= ui.fresh /\ ui'.fresh + acts <= ui.fresh + acts'
    BY <1>2, <1>3, <2>6
  <2> QED BY <1>3, <2>1, <2>6, <2>7, AloneKeeps DEF KeepsRest
<1> QED BY <1>6, <1>7

LEMMA ClicksKeep ==
  ASSUME PanesIInv, Clicks PROVE PanesIInv'
BY OpenSessionKeeps, CancelKeeps, OpenLocalKeeps, ClosePaneKeeps, DisconnectKeeps, ReconnectKeeps,
   CloseTabKeeps, ActivateKeeps DEF Clicks

-----------------------------------------------------------------------------
(* A terminal is mounted, or an event of the daemon is told.                *)

LEMMA TermIs ==
  ASSUME NEW u \in Pages, TabsOK(u), NEW t \in Terms
  PROVE  LET v == [u EXCEPT !.term = t]
         IN  /\ v \in Pages /\ TabsOK(v) /\ SamePanes(u, v) /\ v.term = t
             /\ v.connect = u.connect /\ v.reconnecting = u.reconnecting
             /\ v.userClosed = u.userClosed /\ v.active = u.active
<1> DEFINE v == [u EXCEPT !.term = t]
<1>1. /\ v \in Pages /\ SamePanes(u, v) /\ v.term = t /\ v.connect = u.connect
      /\ v.reconnecting = u.reconnecting /\ v.userClosed = u.userClosed /\ v.active = u.active
  BY DEF Pages, SamePanes
<1> HIDE DEF v
<1>2. TabsOK(v)
  BY <1>1 DEF TabsOK, SamePanes
<1> QED BY <1>1, <1>2 DEF v

(* The page with another terminal, and perhaps the call that fills it.      *)
LEMMA TermKeeps ==
  ASSUME PanesIInv, NEW t \in Terms, ui' = [ui EXCEPT !.term = t],
         NEW N, Sends(N, {}), \A c \in N : NewCall(c) /\ c.op = "scrollback",
         \/ t.hyd = ui.term.hyd /\ t.sid = ui.term.sid
         \/ t.hyd = NoCall
         \/ \E c \in N : t.hyd = c.id /\ c.sid = t.sid,
         pre' \in [Sids -> Seq(Nat)], \A s \in Sids : Len(pre'[s]) <= PreCap,
         mounted' \subseteq Sids, trimmed' \subseteq Sids,
         ring' \in Seq(DataEvents \cup ClosedEvents), RingGoesOn,
         UNCHANGED <<life, printed, busy, sock, unclaimed, acts>>
  PROVE  PanesIInv'
<1> USE DEF PanesIInv
<1>1. /\ ui' \in Pages /\ TabsOK(ui') /\ SamePanes(ui, ui') /\ ui'.term = t
      /\ ui'.connect = ui.connect /\ ui'.reconnecting = ui.reconnecting
      /\ ui'.userClosed = ui.userClosed
  BY TermIs DEF Shape
<1>2. Shape'
  BY <1>1, SendsShape DEF Shape
<1>3. TabsOK(ui)'
  BY <1>1 DEF TabsOK
<1>4. PageGoesOn(N, NoSid)
  <2>1. ui.fresh \in Nat /\ ui'.fresh = ui.fresh /\ acts \in Nat
    BY <1>1, PageTypes DEF Shape, SamePanes
  <2>2. ~\E c \in N : c.op = "closePane"
    OBVIOUS
  <2>3. ui'.fresh >= ui.fresh
        /\ ui'.fresh + (IF \E c \in N : c.op = "closePane" THEN 1 ELSE 0) + acts <= ui.fresh + acts'
    BY SMTT(40), <2>1, <2>2
  <2> QED BY <1>1, <2>3, SamePanesTurns, SidsFacts DEF PageGoesOn, NoSid
<1> QED BY <1>2, <1>3, <1>4, PageKeeps

LEMMA MountKeeps ==
  ASSUME PanesIInv, Mount PROVE PanesIInv'
<1> USE DEF PanesIInv
<1> DEFINE p == ui.active
           s == ui.pane[p].sid
           t == [NoTerm EXCEPT !.pane = p, !.sid = s, !.again = s \in mounted]
           c == Call("scrollback", p, s)
<1>1. /\ p \in PaneIds /\ p < ui.fresh /\ s \in {NoSid} \cup Sids /\ NoSid \notin Sids
      /\ p \in ToSet(ui.tabs)
  BY PaneFacts DEF TabsOK
<1>2. t \in Terms /\ t.hyd = NoCall /\ t.sid = s
  <2>1. NoTerm \in Terms /\ NoTerm.hyd = NoCall
    BY DEF NoTerm, Terms, NoSid, NoCall
  <2>2. p \in {0} \cup PaneIds /\ s \in {NoSid} \cup Sids /\ (s \in mounted) \in BOOLEAN
    BY <1>1
  <2>3. PICK b \in BOOLEAN : b = (s \in mounted)
    BY <2>2
  <2>4. t = [NoTerm EXCEPT !.pane = p, !.sid = s, !.again = b]
    BY <2>3
  <2> HIDE DEF t, s, p
  <2> QED BY <2>1, <2>2, <2>4 DEF Terms
<1>3. /\ mounted' = mounted \cup ({s} \ {NoSid}) /\ UNCHANGED <<trimmed, unclaimed, acts>>
      /\ \/ s = NoSid /\ ui' = [ui EXCEPT !.term = NoTerm]
            /\ UNCHANGED <<life, printed, ring, busy, sock, up, next, pending, pre>>
         \/ s # NoSid /\ ui' = [ui EXCEPT !.term = [t EXCEPT !.screen = pre[s]]]
            /\ pre' = [pre EXCEPT ![s] = <<>>]
            /\ UNCHANGED <<life, printed, ring, busy, sock, up, next, pending>>
         \/ s # NoSid /\ ui' = [ui EXCEPT !.term = [t EXCEPT !.hyd = c.id]]
            /\ pending' = pending \cup {c} /\ Send(c) /\ UNCHANGED pre
  BY DEF Mount, Wanted, daemonVars, wireVars, countVars
<1>4. c \in CallRecs /\ c.id = next /\ c.op = "scrollback" /\ c.pane = p /\ c.sid = s
  <2>1. PICK o \in Ops : o = "scrollback"
    BY DEF Ops
  <2>1a. p \in {0} \cup PaneIds /\ s \in {NoSid} \cup Sids
    BY <1>1
  <2> HIDE DEF p, s
  <2>2. LET d == Call(o, p, s)
        IN  d \in CallRecs /\ d.id = next /\ d.op = o /\ d.pane = p /\ d.sid = s
    <3>1. Call(o, p, s) = [id |-> next, op |-> o, pane |-> p, sid |-> s, sent |-> sock # "closed"]
      BY DEF Call
    <3> QED BY <3>1, <2>1a DEF CallRecs, Shape
  <2> QED BY <2>1, <2>2
<1> DEFINE op == "scrollback"
<1>5. op \in Ops /\ op \notin {"closeTab", "reconnect"}
  BY SMTT(40) DEF Ops
<1>6. mounted' \subseteq Sids /\ trimmed' \subseteq Sids
  BY SMTT(40), <1>1, <1>3 DEF Shape
<1>7. pre' \in [Sids -> Seq(Nat)] /\ \A r \in Sids : Len(pre'[r]) <= PreCap
  <2>1. Len(<<>>) <= PreCap /\ <<>> \in Seq(Nat)
    BY SidsFacts
  <2>2. CASE pre' = pre
    BY <2>2 DEF Shape
  <2>3. CASE pre' = [pre EXCEPT ![s] = <<>>]
    BY <2>1, <2>3 DEF Shape
  <2> QED BY <1>3, <2>2, <2>3
<1>7a. PICK none : none = {}
  OBVIOUS
<1>7b. \A d \in none : NewCall(d) /\ d.op = "scrollback"
  BY <1>7a
<1>8. CASE s = NoSid
  <2>1. NoTerm \in Terms /\ NoTerm.hyd = NoCall
    BY DEF NoTerm, Terms, NoSid, NoCall
  <2>2. Sends(none, {}) /\ ring' \in Seq(DataEvents \cup ClosedEvents) /\ RingGoesOn
    BY <1>3, <1>7a, <1>8, RingStays DEF Sends, Shape
  <2>3. ui' = [ui EXCEPT !.term = NoTerm] /\ UNCHANGED <<life, printed, busy, sock, unclaimed, acts>>
    BY <1>3, <1>8
  <2> QED BY <1>6, <1>7, <1>7b, <2>1, <2>2, <2>3, TermKeeps
<1>9. CASE s # NoSid /\ UNCHANGED <<life, printed, ring, busy, sock, up, next, pending>>

  <2> DEFINE r == [t EXCEPT !.screen = pre[s]]
  <2>1. r \in Terms /\ r.hyd = NoCall
    BY <1>1, <1>2, <1>9 DEF Terms, Shape
  <2>2. next' # next + 1
    BY <1>9 DEF Shape
  <2>3. ui' = [ui EXCEPT !.term = r] /\ UNCHANGED <<life, printed, busy, sock, unclaimed, acts>>
    BY <1>3, <1>9, <2>2 DEF Send
  <2>4. Sends(none, {}) /\ ring' \in Seq(DataEvents \cup ClosedEvents) /\ RingGoesOn
    BY SMTT(40), <1>7a, <1>9, RingStays DEF Sends, Shape
  <2> HIDE DEF r
  <2> QED BY <1>6, <1>7, <1>7b, <2>1, <2>3, <2>4, TermKeeps
<1>10. CASE /\ s # NoSid /\ ui' = [ui EXCEPT !.term = [t EXCEPT !.hyd = c.id]]
            /\ pending' = pending \cup {c} /\ Send(c) /\ UNCHANGED pre
  <2> DEFINE r == [t EXCEPT !.hyd = c.id]
  <2>1. r \in Terms /\ r.hyd = c.id /\ r.sid = s
    BY <1>2, <1>4 DEF Terms, Shape
  <2>2. ui' = [ui EXCEPT !.term = r] /\ pending' = (pending \ {}) \cup {c} /\ Send(c)
    BY <1>10
  <2>3. UNCHANGED <<life, printed, ring, busy, sock>>
    BY <2>2 DEF Send, daemonVars
  <2>4. Sends({c}, {})
    <3>1. {} \subseteq {d \in pending : d.op = "open"}
      OBVIOUS
    <3> QED BY <1>4, <2>2, <3>1 DEF Sends, Send
  <2>5. s \in Sids /\ life[s] # "none" /\ s \notin Owed
    <3>1. s \in Sids /\ s \in Known
      BY <1>1, <1>10 DEF Known
    <3> QED BY <3>1 DEF BornInv
  <2>6. \A q \in PaneIds : ui.pane[q].sid = s => q = p
    BY <1>1, <1>10 DEF HomeInv
  <2> HIDE DEF r, c, t
  <2>7. ui'.pane = ui.pane /\ ui'.fresh = ui.fresh
    BY <2>1, <2>2, TermIs DEF Shape, SamePanes
  <2>8. NewCall(c)
    BY <1>1, <1>4, <1>5, <2>5, <2>6, <2>7 DEF NewCall
  <2>9. ring' \in Seq(DataEvents \cup ClosedEvents) /\ RingGoesOn
    BY <2>3, RingStays DEF Shape
  <2>10. \A d \in {c} : NewCall(d) /\ d.op = "scrollback"
    BY <1>4, <2>8
  <2>11. \E d \in {c} : r.hyd = d.id /\ d.sid = r.sid
    BY <1>4, <2>1
  <2>12. PICK N : N = {c}
    OBVIOUS
  <2>13. Sends(N, {}) /\ (\A d \in N : NewCall(d) /\ d.op = "scrollback") /\ \E d \in N : r.hyd = d.id /\ d.sid = r.sid
    BY <2>4, <2>10, <2>11, <2>12
  <2> QED BY <1>3, <1>6, <1>7, <2>1, <2>2, <2>3, <2>9, <2>13, TermKeeps
<1> QED BY <1>3, <1>8, <1>9, <1>10

(* The events of the ring: the one that is told, and those that remain.     *)
LEMMA RingFacts ==
  ASSUME Shape, ring # <<>>, ring' = Tail(ring)
  PROVE  /\ Len(ring) \in Nat \ {0} /\ DOMAIN ring = 1 .. Len(ring) /\ 1 \in DOMAIN ring
         /\ Head(ring) = ring[1] /\ ring[1] \in DataEvents \cup ClosedEvents
         /\ ring[1].sid \in Sids /\ ring[1].t \in {"data", "closed"}
         /\ ring' \in Seq(DataEvents \cup ClosedEvents) /\ Len(ring') = Len(ring) - 1
         /\ DOMAIN ring' = 1 .. Len(ring) - 1
         /\ \A i \in 1 .. Len(ring) - 1 : ring'[i] = ring[i + 1]
         /\ \A s : Coming(s) /\ ~(ring[1].t = "closed" /\ ring[1].sid = s) => Coming(s)'
         /\ \A s : Coming(s)' => Coming(s)
<1>1. ring \in Seq(DataEvents \cup ClosedEvents)
  BY DEF Shape
<1>2. /\ Len(ring) \in Nat \ {0} /\ DOMAIN ring = 1 .. Len(ring) /\ 1 \in DOMAIN ring
      /\ Head(ring) = ring[1] /\ ring[1] \in DataEvents \cup ClosedEvents
  BY <1>1
<1>3. /\ ring' \in Seq(DataEvents \cup ClosedEvents) /\ Len(ring') = Len(ring) - 1
      /\ DOMAIN ring' = 1 .. Len(ring) - 1
      /\ \A i \in 1 .. Len(ring) - 1 : ring'[i] = ring[i + 1]
  BY <1>1, <1>2
<1>4. ring[1].sid \in Sids /\ ring[1].t \in {"data", "closed"}
  BY <1>2 DEF DataEvents, ClosedEvents
<1>5. ASSUME NEW s, Coming(s), ~(ring[1].t = "closed" /\ ring[1].sid = s) PROVE Coming(s)'
  <2>1. PICK i \in 1 .. Len(ring) : ring[i].t = "closed" /\ ring[i].sid = s
    BY <1>2, <1>5 DEF Coming
  <2>2. i # 1
    BY <1>5, <2>1
  <2>3. i - 1 \in 1 .. Len(ring) - 1 /\ ring'[i - 1] = ring[i]
    BY <1>2, <1>3, <2>1, <2>2
  <2> QED BY <1>3, <2>1, <2>3 DEF Coming
<1>6. ASSUME NEW s, Coming(s)' PROVE Coming(s)
  <2>1. PICK i \in 1 .. Len(ring) - 1 : ring'[i].t = "closed" /\ ring'[i].sid = s
    BY <1>3, <1>6 DEF Coming
  <2>2. i + 1 \in DOMAIN ring /\ ring'[i] = ring[i + 1]
    BY <1>2, <1>3, <2>1
  <2> QED BY <2>1, <2>2 DEF Coming
<1> QED BY <1>2, <1>3, <1>4, <1>5, <1>6

LEMMA LastOfIs ==
  ASSUME NEW q \in Seq(Nat), NEW n \in Nat \ {0}
  PROVE  LET r == LastOf(q, n)
         IN  /\ r \in Seq(Nat)
             /\ Len(r) = IF Len(q) > n THEN n ELSE Len(q)
             /\ \A i \in 1 .. Len(r) : r[i] = q[Len(q) - Len(r) + i]
<1> DEFINE m == IF Len(q) > n THEN Len(q) - n + 1 ELSE 1
           r == LastOf(q, n)
<1>1. r = SubSeq(q, m, Len(q))
  BY DEF LastOf
<1>2. Len(q) \in Nat /\ m \in 1 .. Len(q) + 1
  OBVIOUS
<1>3. \A i \in m .. Len(q) : q[i] \in Nat
  BY <1>2
<1> HIDE DEF m, r
<1>4. /\ r \in Seq(Nat)
      /\ Len(r) = IF m <= Len(q) THEN Len(q) - m + 1 ELSE 0
      /\ \A i \in 1 .. Len(q) - m + 1 : r[i] = q[m + i - 1]
  BY <1>1, <1>2, <1>3, SubSeqProperties
<1>5. Len(r) = Len(q) - m + 1
  BY <1>2, <1>4
<1>6. Len(r) = IF Len(q) > n THEN n ELSE Len(q)
  BY <1>2, <1>5 DEF m
<1>7. \A i \in 1 .. Len(r) : r[i] = q[Len(q) - Len(r) + i]
  <2> SUFFICES ASSUME NEW i \in 1 .. Len(r) PROVE r[i] = q[Len(q) - Len(r) + i]
    OBVIOUS
  <2>1. r[i] = q[m + i - 1]
    BY <1>4, <1>5
  <2>2. m + i - 1 = Len(q) - Len(r) + i
    BY <1>2, <1>5
  <2> QED BY <2>1, <2>2
<1> QED BY <1>4, <1>6, <1>7 DEF r

LEMMA PaintedIs ==
  ASSUME NEW t \in Terms, NEW n \in Nat
  PROVE  LET r == Painted(t, n)
         IN  /\ r \in Terms /\ r.hyd = t.hyd /\ r.sid = t.sid /\ r.pane = t.pane
             /\ r.failed = t.failed /\ r.again = t.again
             /\ r.screen = IF t.hyd # NoCall THEN t.screen ELSE Append(t.screen, n)
             /\ r.queue = IF t.hyd # NoCall THEN Append(t.queue, n) ELSE t.queue
<1>1. Append(t.screen, n) \in Seq(Nat) /\ Append(t.queue, n) \in Seq(Nat)
  BY DEF Terms
<1>2. CASE t.hyd # NoCall
  <2> DEFINE r == [t EXCEPT !.queue = Append(t.queue, n)]
  <2>1. Painted(t, n) = r
    BY <1>2 DEF Painted
  <2> QED BY <1>1, <1>2, <2>1 DEF Terms
<1>3. CASE t.hyd = NoCall
  <2> DEFINE r == [t EXCEPT !.screen = Append(t.screen, n)]
  <2>1. Painted(t, n) = r
    BY <1>3 DEF Painted
  <2> QED BY <1>1, <1>3, <2>1 DEF Terms
<1> QED BY <1>2, <1>3

LEMMA DataKeeps ==
  ASSUME PanesIInv, SendEvent, Head(ring).t = "data" PROVE PanesIInv'
<1> USE DEF PanesIInv
<1> DEFINE m == Head(ring)
<1>1. /\ busy = <<>> /\ ring # <<>> /\ ring' = Tail(ring) /\ Data(m)
      /\ UNCHANGED <<life, printed, busy, sock, up, next, pending, mounted, unclaimed, acts>>
  BY DEF SendEvent, LoopIsFree, wireVars, countVars
<1>2. m = ring[1] /\ m \in DataEvents \cup ClosedEvents /\ m.sid \in Sids
      /\ ring' \in Seq(DataEvents \cup ClosedEvents)
      /\ \A s : Coming(s) => Coming(s)'
  BY <1>1, RingFacts
<1>3. m.x \in Nat
  BY <1>2 DEF DataEvents, ClosedEvents
<1>4. RingGoesOn
  BY <1>1, <1>2 DEF RingGoesOn
<1>5. PICK none : none = {}
  OBVIOUS
<1>6. Sends(none, {}) /\ \A c \in none : NewCall(c) /\ c.op = "scrollback"
  BY <1>1, <1>5 DEF Sends
<1>7. ui.term \in Terms /\ ui \in Pages
  BY PageTypes DEF Shape
<1> HIDE DEF m
<1>8. CASE ui.term.sid = m.sid
  <2> DEFINE t == Painted(ui.term, m.x)
  <2>1. t \in Terms /\ t.hyd = ui.term.hyd /\ t.sid = ui.term.sid
    BY <1>3, <1>7, PaintedIs
  <2>2. ui' = [ui EXCEPT !.term = t] /\ UNCHANGED <<pre, trimmed>>
    BY <1>1, <1>8 DEF Data
  <2>3. pre' \in [Sids -> Seq(Nat)] /\ (\A s \in Sids : Len(pre'[s]) <= PreCap)
        /\ mounted' \subseteq Sids /\ trimmed' \subseteq Sids
    BY <1>1, <2>2 DEF Shape
  <2> HIDE DEF t
  <2> QED BY <1>1, <1>2, <1>4, <1>6, <2>1, <2>2, <2>3, TermKeeps
<1>9. CASE ui.term.sid # m.sid
  <2>1. /\ pre' = [pre EXCEPT ![m.sid] = LastOf(Append(pre[m.sid], m.x), PreCap)]
        /\ trimmed' \subseteq trimmed \cup {m.sid} /\ ui' = ui
    BY <1>1, <1>9 DEF Data
  <2> DEFINE q == Append(pre[m.sid], m.x)
  <2>2. q \in Seq(Nat) /\ Len(q) \in Nat
    BY <1>2, <1>3 DEF Shape
  <2> HIDE DEF q
  <2>3. LastOf(q, PreCap) \in Seq(Nat) /\ Len(LastOf(q, PreCap)) <= PreCap
    <3>1. /\ LastOf(q, PreCap) \in Seq(Nat)
          /\ Len(LastOf(q, PreCap)) = IF Len(q) > PreCap THEN PreCap ELSE Len(q)
      BY <2>2, LastOfIs, SidsFacts
    <3> QED BY <2>2, <3>1, SidsFacts
  <2>4. pre' = [pre EXCEPT ![m.sid] = LastOf(q, PreCap)]
    BY <2>1 DEF q
  <2>5. pre' \in [Sids -> Seq(Nat)] /\ (\A s \in Sids : Len(pre'[s]) <= PreCap)
        /\ mounted' \subseteq Sids /\ trimmed' \subseteq Sids
    BY <1>1, <1>2, <2>1, <2>3, <2>4 DEF Shape
  <2>6. PICK t : t = ui.term
    OBVIOUS
  <2>7. ui' = [ui EXCEPT !.term = t] /\ t \in Terms /\ t.hyd = ui.term.hyd /\ t.sid = ui.term.sid
    BY <1>7, <2>1, <2>6 DEF Pages
  <2> QED BY <1>1, <1>2, <1>4, <1>6, <2>5, <2>7, TermKeeps
<1> QED BY <1>8, <1>9

(* What onSessionClosed makes of the page.                                  *)
LEMMA OnClosedIs ==
  ASSUME NEW u \in Pages, TabsOK(u), NEW m \in ClosedEvents
  PROVE  LET v == OnClosed(u, m)
         IN  /\ v \in Pages /\ TabsOK(v) /\ v.fresh = u.fresh /\ v.connect = u.connect
             /\ v.term = u.term /\ v.reconnecting = u.reconnecting
             /\ v.userClosed \subseteq u.userClosed /\ Turns(u, v, NoSid, m.sid)
             /\ \/ m.sid \in u.reconnecting /\ v = u
                \/ (m.sid \in u.userClosed \/ m.reason = "closed") /\ SamePanes(u, v)
                \/ SettledIn(v, m.sid)
<1>1. m.sid \in Sids
  BY DEF ClosedEvents
<1>2. CASE m.sid \in u.reconnecting
  BY <1>2, StaysTurns DEF OnClosed
<1>3. CASE m.sid \notin u.reconnecting /\ (m.sid \in u.userClosed \/ m.reason = "closed")
  <2> DEFINE v == [u EXCEPT !.userClosed = u.userClosed \ {m.sid}]
  <2>1. OnClosed(u, m) = v
    BY <1>3 DEF OnClosed
  <2>2. /\ v \in Pages /\ SamePanes(u, v) /\ v.active = u.active /\ v.connect = u.connect
        /\ v.term = u.term /\ v.reconnecting = u.reconnecting /\ v.userClosed \subseteq u.userClosed
    BY DEF Pages, SamePanes
  <2> HIDE DEF v
  <2>3. TabsOK(v) /\ Turns(u, v, NoSid, m.sid) /\ v.fresh = u.fresh
    BY <2>2, SamePanesTurns DEF TabsOK, SamePanes
  <2> QED BY <1>3, <2>1, <2>2, <2>3
<1>4. CASE m.sid \notin u.reconnecting /\ ~(m.sid \in u.userClosed \/ m.reason = "closed")
  <2>1. OnClosed(u, m) = MarkDisconnected(u, m.sid)
    BY <1>4 DEF OnClosed
  <2>2. LET v == MarkDisconnected(u, m.sid)
        IN  /\ v \in Pages /\ TabsOK(v) /\ v.fresh = u.fresh
            /\ KeepsRest(u, v) /\ Turns(u, v, NoSid, m.sid) /\ SettledIn(v, m.sid)
    BY <1>1, MarkIs
  <2> QED BY <2>1, <2>2 DEF KeepsRest
<1> QED BY <1>2, <1>3, <1>4

LEMMA ClosedKeeps ==
  ASSUME PanesIInv, SendEvent, Head(ring).t # "data" PROVE PanesIInv'
<1> USE DEF PanesIInv
<1> DEFINE m == Head(ring)
<1>1. /\ busy = <<>> /\ ring # <<>> /\ ring' = Tail(ring) /\ Closed(m)
      /\ UNCHANGED <<life, printed, busy, sock, up, next, pending, mounted, unclaimed, acts>>
  BY DEF SendEvent, LoopIsFree, wireVars, countVars
<1>2. m = ring[1] /\ m \in DataEvents \cup ClosedEvents /\ m.sid \in Sids /\ 1 \in DOMAIN ring
      /\ ring' \in Seq(DataEvents \cup ClosedEvents)
      /\ \A s : Coming(s) /\ m.sid # s => Coming(s)'
  BY <1>1, RingFacts
<1>3. m \in ClosedEvents /\ m.t = "closed"
  BY <1>2 DEF DataEvents, ClosedEvents
<1>4. /\ pre' = [pre EXCEPT ![m.sid] = <<>>] /\ ui' = OnClosed(ui, m) /\ UNCHANGED trimmed
  BY <1>1 DEF Closed
<1>5. life[m.sid] # "live" /\ (m.reason = "closed" => life[m.sid] = "closed")
  BY <1>2, <1>3 DEF DaemonInv
<1>6. ui \in Pages /\ TabsOK(ui)
  BY DEF Shape
<1> HIDE DEF m
<1>7. /\ ui' \in Pages /\ TabsOK(ui') /\ ui'.fresh = ui.fresh /\ ui'.connect = ui.connect
      /\ ui'.term = ui.term /\ ui'.reconnecting = ui.reconnecting
      /\ ui'.userClosed \subseteq ui.userClosed /\ Turns(ui, ui', NoSid, m.sid)
      /\ \/ m.sid \in ui.reconnecting /\ ui' = ui
         \/ (m.sid \in ui.userClosed \/ m.reason = "closed") /\ SamePanes(ui, ui')
         \/ SettledIn(ui', m.sid)
  BY <1>3, <1>4, <1>6, OnClosedIs
<1>8. \A s \in Sids : life[s] = "dropped" /\ Coming(s) =>
        Coming(s)' \/ SettledIn(ui', s) \/ BeingClosed(s)
  <2> SUFFICES ASSUME life[m.sid] = "dropped"
               PROVE  SettledIn(ui', m.sid) \/ BeingClosed(m.sid)
    BY <1>2
  <2>1. CASE m.sid \in ui.reconnecting /\ ui' = ui
    BY <2>1 DEF CallsInv, Settled
  <2>2. CASE m.sid \in ui.userClosed /\ SamePanes(ui, ui')
    BY <2>2, SamePanesTurns DEF CallsInv, Settled
  <2> QED BY <1>5, <1>7, <2>1, <2>2
<1>9. RingGoesOn
  BY <1>1, <1>8 DEF RingGoesOn
<1>10. PICK none : none = {}
  OBVIOUS
<1>11. Sends(none, {}) /\ \A c \in none : NewCall(c)
  BY <1>1, <1>10 DEF Sends
<1>12. PageGoesOn(none, m.sid)
  <2>1. ui.fresh \in Nat /\ ui'.fresh = ui.fresh /\ acts \in Nat
    BY <1>7, PageTypes DEF Shape
  <2> QED BY <1>1, <1>5, <1>7, <1>10, <2>1 DEF PageGoesOn
<1>13. <<>> \in Seq(Nat) /\ Len(<<>>) <= PreCap
  BY SidsFacts
<1>14. \A s \in Sids : Len(pre'[s]) <= PreCap
  BY <1>2, <1>4, <1>13 DEF Shape
<1>15. Shape'
  BY <1>1, <1>2, <1>4, <1>7, <1>13 DEF Shape
<1>16. TabsOK(ui)'
  BY <1>7 DEF TabsOK
<1> QED BY <1>1, <1>9, <1>11, <1>12, <1>14, <1>15, <1>16, PageKeeps

LEMMA SendEventKeeps ==
  ASSUME PanesIInv, SendEvent PROVE PanesIInv'
BY DataKeeps, ClosedKeeps

-----------------------------------------------------------------------------
(* The calls that end without an answer, and the answers.                   *)

LEMMA GivenUpKeeps ==
  ASSUME PanesIInv, NEW c \in pending, Timeout(c) \/ Refused(c) PROVE PanesIInv'
<1>1. /\ pending' = pending \ {c} /\ ui' = Returned(ui, c, FALSE, 0)
      /\ UNCHANGED <<life, printed, ring, busy, sock, up, next, pre, mounted, trimmed, unclaimed, acts>>
  BY DEF Timeout, Refused, daemonVars, wireVars, noteVars, countVars
<1>2. PICK ok \in BOOLEAN, x \in Nat : ~ok /\ ok = FALSE /\ x = 0
  OBVIOUS
<1>3. ui' = Returned(ui, c, ok, x)
  BY <1>1, <1>2
<1> QED BY <1>1, <1>2, <1>3, ReturnKeeps

LEMMA AnswerFacts ==
  ASSUME Shape, busy # <<>>
  PROVE  /\ Len(busy) = 1 /\ DOMAIN busy = {1} /\ busy[1] \in Answers
         /\ busy[1].ok \in BOOLEAN /\ busy[1].x \in Nat /\ busy[1].id \in Nat \ {0}
         /\ busy[1].op \in Ops
<1>1. busy \in Seq(Answers) /\ Len(busy) <= 1
  BY DEF Shape
<1>2. Len(busy) = 1 /\ DOMAIN busy = 1 .. Len(busy)
  <2>1. Len(busy) \in Nat \ {0} /\ Len(busy) <= 1
    BY <1>1, EmptySeq
  <2>1a. PICK n \in Nat : n = Len(busy)
    BY <2>1
  <2>1b. n # 0 /\ n <= 1
    BY <2>1, <2>1a
  <2>1c. n = 1
    BY <2>1b
  <2>2. Len(busy) = 1
    BY <2>1a, <2>1c
  <2>3. DOMAIN busy = 1 .. Len(busy)
    BY <1>1
  <2> QED BY <2>2, <2>3
<1>3. DOMAIN busy = {1} /\ busy[1] \in Answers
  BY <1>1, <1>2
<1> QED BY <1>2, <1>3 DEF Answers

LEMMA ClaimedKeeps ==
  ASSUME PanesIInv, Respond, \E c \in pending : c.id = busy[1].id PROVE PanesIInv'
<1> DEFINE c == CHOOSE d \in pending : d.id = busy[1].id
<1>1. /\ busy # <<>> /\ busy' = <<>> /\ pending' = pending \ {c}
      /\ ui' = Returned(ui, c, busy[1].ok, busy[1].x)
      /\ UNCHANGED <<life, printed, ring, sock, up, next, pre, mounted, trimmed, unclaimed, acts>>
  BY DEF Respond, Answered, wireVars, countVars
<1>2. c \in pending /\ c.id = busy[1].id
  OBVIOUS
<1>3. busy[1].ok \in BOOLEAN /\ busy[1].x \in Nat
  BY <1>1, AnswerFacts DEF PanesIInv
<1> HIDE DEF c
<1> QED BY <1>1, <1>2, <1>3, ReturnKeeps

LEMMA UnclaimedKeeps ==
  ASSUME PanesIInv, Respond, ~\E c \in pending : c.id = busy[1].id PROVE PanesIInv'
<1> USE DEF PanesIInv
<1>1. /\ busy # <<>> /\ busy' = <<>> /\ unclaimed' = unclaimed \cup Opened(busy[1])
      /\ UNCHANGED <<life, printed, ring, sock, up, next, pending, pre, ui, mounted, trimmed, acts>>
  BY DEF Respond, Answered, wireVars, countVars
<1>2. Opened(busy[1]) \subseteq Sids /\ DOMAIN busy = {1}
  BY <1>1, AnswerFacts DEF BornInv, Opened, Openers
<1>3. DOMAIN busy' = {} /\ Owed' = {} /\ Owed = Opened(busy[1])
  BY <1>1, <1>2 DEF Owed
<1>4. Shape'
  BY <1>1, <1>2 DEF Shape
<1>5. RoomInv'
  <2>1. Cardinality(Owed') = 0 /\ Cardinality(Owed) \in Nat
    BY <1>3, RoomLeft, FS_EmptySet
  <2>2. Closing' = Closing /\ Born' = Born
    BY <1>1 DEF Closing, Born
  <2>3. /\ Cardinality(Closing) \in Nat /\ Cardinality(Born) \in Nat
        /\ ui.fresh \in Nat /\ acts \in Nat
    BY RoomLeft, PageTypes DEF Shape
  <2> QED BY <1>1, <2>1, <2>2, <2>3 DEF RoomInv
<1>6. InFlight' = InFlight /\ Known' = Known
  BY <1>1 DEF InFlight, Known
<1>7. IdsInv' /\ HomeInv'
  BY <1>1, <1>3, <1>6 DEF IdsInv, HomeInv
<1>8. BornInv'
  BY <1>1, <1>3, <1>6 DEF BornInv
<1>9. DaemonInv'
  BY <1>1, <1>3 DEF DaemonInv, Gone
<1>10. PanesInv' /\ CallsInv'
  BY <1>1 DEF PanesInv, CallsInv, BeingClosed, CloseIsUp, Coming, Gone, Settled
<1>11. NobodyForgotten'
  BY <1>1, <1>2, <1>3 DEF NobodyForgotten
<1>12. TabsOK(ui)' /\ \A s \in Sids : Len(pre'[s]) <= PreCap
  BY <1>1 DEF TabsOK
<1> QED BY <1>4, <1>5, <1>7, <1>8, <1>9, <1>10, <1>11, <1>12

LEMMA RespondKeeps ==
  ASSUME PanesIInv, Respond PROVE PanesIInv'
BY ClaimedKeeps, UnclaimedKeeps

-----------------------------------------------------------------------------
(* The steps the page does not see.                                         *)


LEMMA OnCloseKeeps ==
  ASSUME PanesIInv, OnClose \/ Connect PROVE PanesIInv'
<1> USE DEF PanesIInv
<1>1. /\ UNCHANGED <<life, printed, ring, busy, up, next, pending, ui, mounted, trimmed, unclaimed, acts>>
      /\ pre' \in {pre, [s \in Sids |-> <<>>]} /\ sock' \in {"open", "closed"}
      /\ sock # "open" /\ (sock' = "open" => pending = {})
  BY DEF OnClose, Connect, daemonVars, noteVars, countVars, pageVars
<1>2. Shape' /\ \A s \in Sids : Len(pre'[s]) <= PreCap
  <2>1. <<>> \in Seq(Nat) /\ Len(<<>>) <= PreCap
    BY SidsFacts
  <2>2. pre' \in [Sids -> Seq(Nat)] /\ \A s \in Sids : Len(pre'[s]) <= PreCap
    BY <1>1, <2>1 DEF Shape
  <2> QED BY <1>1, <2>2 DEF Shape
<1>3. InFlight' = InFlight /\ Known' = Known /\ Owed' = Owed /\ Closing' = Closing /\ Born' = Born
  BY <1>1 DEF InFlight, Known, Owed, Closing, Born
<1>4. TabsOK(ui)' /\ RoomInv' /\ IdsInv' /\ HomeInv' /\ BornInv'
  BY <1>1, <1>3 DEF TabsOK, RoomInv, IdsInv, HomeInv, BornInv
<1>5. DaemonInv'
  BY <1>1, <1>3 DEF DaemonInv, Gone, Coming
<1>6. PanesInv' /\ CallsInv'
  BY <1>1 DEF PanesInv, CallsInv, BeingClosed, CloseIsUp, Coming, Gone, Settled
<1>7. NobodyForgotten'
  BY <1>1 DEF NobodyForgotten
<1> QED BY <1>2, <1>4, <1>5, <1>6, <1>7

LEMMA CrashKeeps ==
  ASSUME PanesIInv, Crash PROVE PanesIInv'
<1> USE DEF PanesIInv
<1>1. /\ life' = [s \in Sids |-> IF life[s] = "none" THEN "none" ELSE "lost"]
      /\ ring' = <<>> /\ busy' = <<>> /\ up' = <<>> /\ sock' = "cut"
      /\ UNCHANGED <<printed, next, pending, pre, ui, mounted, trimmed, unclaimed, acts>>
  BY DEF Crash, noteVars
<1>2. Shape' /\ \A s \in Sids : Len(pre'[s]) <= PreCap
  BY <1>1 DEF Shape
<1>3. \A s \in Sids : Gone(s)' /\ life'[s] # "live" /\ (life'[s] = "none" <=> life[s] = "none")
                      /\ life'[s] \in {"none", "lost"}
  BY <1>1 DEF Gone
<1>4. InFlight' \subseteq InFlight /\ pending \subseteq InFlight /\ Known' \subseteq Known /\ Owed' = {}
      /\ Closing' = Closing /\ Born' = Born /\ DOMAIN up' = {} /\ ToSet(up') = {} /\ DOMAIN busy' = {}
      /\ DOMAIN ring' = {}
  BY <1>1, <1>3 DEF InFlight, Known, Owed, Closing, Born, ToSet
<1>5. RoomInv'
  <2>1. Cardinality(Owed') = 0 /\ Cardinality(Owed) \in Nat
    BY <1>4, RoomLeft, FS_EmptySet
  <2>2. /\ Cardinality(Closing) \in Nat /\ Cardinality(Born) \in Nat
        /\ ui.fresh \in Nat /\ acts \in Nat
    BY RoomLeft, PageTypes DEF Shape
  <2> QED BY <1>1, <1>4, <2>1, <2>2 DEF RoomInv
<1>6. TabsOK(ui)' /\ IdsInv' /\ HomeInv'
  BY <1>1, <1>4 DEF TabsOK, IdsInv, HomeInv
<1>7. BornInv'
  BY <1>3, <1>4 DEF BornInv
<1>8. DaemonInv'
  BY <1>1, <1>3, <1>4 DEF DaemonInv
<1>9. PanesInv'
  <2>1. \A p \in PaneIds : ui.pane[p].sid # NoSid => ui.pane[p].sid \in Sids /\ life'[ui.pane[p].sid] = "lost"
    <3> SUFFICES ASSUME NEW p \in PaneIds, ui.pane[p].sid # NoSid
                 PROVE  ui.pane[p].sid \in Sids /\ life'[ui.pane[p].sid] = "lost"
      OBVIOUS
    <3>1. ui.pane[p].sid \in Sids /\ ui.pane[p].sid \in Known
      BY PageTypes DEF Shape, Known
    <3> QED BY <3>1, <1>3 DEF BornInv
  <2> QED BY <1>1, <2>1 DEF PanesInv
<1>10. CallsInv'
  <2>1. \A c \in pending : c.op \in Closers \cup {"reconnect"} => c.sid \in Sids
    BY <1>4, CallTypes DEF Closers
  <2>2. \A s : BeingClosed(s)' <=> BeingClosed(s)
    BY <1>1 DEF BeingClosed
  <2>3. \A s : Settled(s)' <=> Settled(s)
    BY <1>1 DEF Settled
  <2> QED BY <1>1, <1>3, <1>4, <2>1, <2>2, <2>3 DEF CallsInv
<1>11. NobodyForgotten'
  BY <1>3 DEF NobodyForgotten
<1> QED BY <1>2, <1>5, <1>6, <1>7, <1>8, <1>9, <1>10, <1>11

(* An event is added to the ring.                                           *)
LEMMA RingGrows ==
  ASSUME Shape, NEW e \in DataEvents \cup ClosedEvents, ring' = Append(ring, e)
  PROVE  /\ ring' \in Seq(DataEvents \cup ClosedEvents)
         /\ Len(ring) \in Nat /\ Len(ring') = Len(ring) + 1
         /\ DOMAIN ring = 1 .. Len(ring) /\ DOMAIN ring' = 1 .. Len(ring) + 1
         /\ \A i \in 1 .. Len(ring) : ring'[i] = ring[i]
         /\ ring'[Len(ring) + 1] = e
         /\ \A s : Coming(s) => Coming(s)'
         /\ e.t = "closed" => Coming(e.sid)'
<1>1. ring \in Seq(DataEvents \cup ClosedEvents)
  BY DEF Shape
<1>2. /\ ring' \in Seq(DataEvents \cup ClosedEvents)
      /\ Len(ring) \in Nat /\ Len(ring') = Len(ring) + 1
      /\ DOMAIN ring = 1 .. Len(ring) /\ DOMAIN ring' = 1 .. Len(ring) + 1
      /\ \A i \in 1 .. Len(ring) : ring'[i] = ring[i]
      /\ ring'[Len(ring) + 1] = e
  BY <1>1
<1>3. \A s : Coming(s) => Coming(s)'
  BY <1>2 DEF Coming
<1>4. e.t = "closed" => Coming(e.sid)'
  <2>1. Len(ring) + 1 \in DOMAIN ring'
    BY <1>2
  <2> QED BY <1>2, <2>1 DEF Coming
<1> QED BY <1>2, <1>3, <1>4

LEMMA PrintChunkKeeps ==
  ASSUME PanesIInv, NEW s \in Sids, PrintChunk(s) PROVE PanesIInv'
<1> USE DEF PanesIInv
<1> DEFINE e == [t |-> "data", sid |-> s, x |-> printed[s] + 1]
<1>1. /\ life[s] = "live" /\ printed' = [printed EXCEPT ![s] = printed[s] + 1]
      /\ ring' = Append(ring, e)
      /\ UNCHANGED <<life, busy, sock, up, next, pending, pre, ui, mounted, trimmed, unclaimed, acts>>
  BY DEF PrintChunk, wireVars, pageVars, noteVars, countVars
<1>2. printed[s] \in Nat /\ e \in DataEvents /\ e.t = "data" /\ e.sid = s
  BY DEF Shape, DataEvents
<1> HIDE DEF e
<1>3. /\ ring' \in Seq(DataEvents \cup ClosedEvents)
      /\ Len(ring) \in Nat
      /\ DOMAIN ring = 1 .. Len(ring) /\ DOMAIN ring' = 1 .. Len(ring) + 1
      /\ \A i \in 1 .. Len(ring) : ring'[i] = ring[i]
      /\ ring'[Len(ring) + 1] = e
      /\ \A r : Coming(r) => Coming(r)'
  BY <1>1, <1>2, RingGrows
<1>4. Shape' /\ \A r \in Sids : Len(pre'[r]) <= PreCap
  BY <1>1, <1>2, <1>3 DEF Shape
<1>5. InFlight' = InFlight /\ Known' = Known /\ Owed' = Owed /\ Closing' = Closing /\ Born' = Born
  BY <1>1 DEF InFlight, Known, Owed, Closing, Born
<1>6. TabsOK(ui)' /\ RoomInv' /\ IdsInv' /\ HomeInv' /\ BornInv'
  BY <1>1, <1>5 DEF TabsOK, RoomInv, IdsInv, HomeInv, BornInv
<1>7. DaemonInv'
  <2>1. sock = "open"
    BY <1>1 DEF DaemonInv, Gone
  <2>2. \A i \in DOMAIN ring' : (i \in DOMAIN ring /\ ring'[i] = ring[i]) \/ ring'[i] = e
    BY <1>3
  <2>3. \A i \in DOMAIN ring' : life[ring'[i].sid] \notin {"none", "lost"}
    BY <1>1, <1>2, <2>2 DEF DaemonInv
  <2>4. \A i \in DOMAIN ring' : ring'[i].t = "closed" =>
          /\ life[ring'[i].sid] # "live"
          /\ ring'[i].reason = "closed" => life[ring'[i].sid] = "closed"
    BY <1>2, <2>2 DEF DaemonInv
  <2>5. \A r \in Owed' : life[r] = "live" \/ (life[r] = "dropped" /\ Coming(r)')
    BY <1>3, <1>5 DEF DaemonInv
  <2> QED BY <1>1, <2>1, <2>3, <2>4, <2>5 DEF DaemonInv
<1>8. PanesInv'
  BY <1>1, <1>3 DEF PanesInv, BeingClosed, CloseIsUp
<1>9. CallsInv'
  BY <1>1 DEF CallsInv, BeingClosed, Gone, Settled
<1>10. NobodyForgotten'
  BY <1>1 DEF NobodyForgotten
<1> QED BY <1>4, <1>6, <1>7, <1>8, <1>9, <1>10

LEMMA DropKeeps ==
  ASSUME PanesIInv, NEW s \in Sids, Drop(s) PROVE PanesIInv'
<1> USE DEF PanesIInv
<1> DEFINE e == ClosedEvent(s, "dropped")
<1>1. /\ life[s] = "live" /\ life' = [life EXCEPT ![s] = "dropped"]
      /\ ring' = Append(ring, e)
      /\ UNCHANGED <<printed, busy, sock, up, next, pending, pre, ui, mounted, trimmed, unclaimed, acts>>
  BY DEF Drop, wireVars, pageVars, noteVars, countVars
<1>2. e \in ClosedEvents /\ e.t = "closed" /\ e.sid = s /\ e.reason = "dropped"
  BY DEF ClosedEvents, ClosedEvent
<1> HIDE DEF e
<1>3. /\ ring' \in Seq(DataEvents \cup ClosedEvents)
      /\ Len(ring) \in Nat
      /\ DOMAIN ring = 1 .. Len(ring) /\ DOMAIN ring' = 1 .. Len(ring) + 1
      /\ \A i \in 1 .. Len(ring) : ring'[i] = ring[i]
      /\ ring'[Len(ring) + 1] = e
      /\ (\A r : Coming(r) => Coming(r)') /\ Coming(s)'
  BY <1>1, <1>2, RingGrows
<1>4. Shape' /\ \A r \in Sids : Len(pre'[r]) <= PreCap
  BY <1>1, <1>3 DEF Shape
<1>4a. /\ \A r \in Sids : life'[r] = IF r = s THEN "dropped" ELSE life[r]
       /\ \A r \in Sids : Gone(r)' <=> Gone(r)
       /\ \A r \in Sids : life'[r] = "none" <=> life[r] = "none"
  BY <1>1 DEF Shape, Gone
<1>5. InFlight' = InFlight /\ Known' = Known /\ Owed' = Owed /\ Closing' = Closing /\ Born' = Born
  BY <1>1, <1>4a DEF InFlight, Known, Owed, Closing, Born
<1>6. TabsOK(ui)' /\ RoomInv' /\ IdsInv' /\ HomeInv' /\ BornInv'
  BY <1>1, <1>4a, <1>5 DEF TabsOK, RoomInv, IdsInv, HomeInv, BornInv, Owed
<1>7. DaemonInv'
  <2>1. sock = "open"
    BY <1>1 DEF DaemonInv, Gone
  <2>2. \A i \in DOMAIN ring' :
          (i \in DOMAIN ring /\ ring'[i] = ring[i] /\ ring[i].sid \in Sids) \/ ring'[i] = e
    BY <1>3 DEF Shape, DataEvents, ClosedEvents
  <2>3. \A i \in DOMAIN ring' : life'[ring'[i].sid] \notin {"none", "lost"}
    BY <1>2, <1>4a, <2>2 DEF DaemonInv
  <2>4. \A i \in DOMAIN ring' : ring'[i].t = "closed" =>
          /\ life'[ring'[i].sid] # "live"
          /\ ring'[i].reason = "closed" => life'[ring'[i].sid] = "closed"
    BY <1>1, <1>2, <1>4a, <2>2 DEF DaemonInv
  <2>5. \A r \in Owed' : life'[r] = "live" \/ (life'[r] = "dropped" /\ Coming(r)')
    BY <1>3, <1>4a, <1>5 DEF DaemonInv, Owed
  <2> QED BY <1>1, <2>1, <2>3, <2>4, <2>5 DEF DaemonInv
<1>8. PanesInv'
  <2>1. \A p \in PaneIds : ui.pane[p].sid \in {NoSid} \cup Sids
    BY PageTypes DEF Shape
  <2>2. \A r : (BeingClosed(r)' <=> BeingClosed(r)) /\ (CloseIsUp(r)' <=> CloseIsUp(r))
    BY <1>1 DEF BeingClosed, CloseIsUp
  <2> QED BY <1>1, <1>3, <1>4a, <2>1, <2>2 DEF PanesInv
<1>9. CallsInv'
  <2>1. \A c \in pending : c.op \in Closers \cup {"reconnect"} => c.sid \in Sids
    BY CallTypes DEF Closers, InFlight
  <2>2. \A r : (BeingClosed(r)' <=> BeingClosed(r)) /\ (Settled(r)' <=> Settled(r))
    BY <1>1 DEF BeingClosed, Settled
  <2> QED BY <1>1, <1>4a, <2>1, <2>2 DEF CallsInv
<1>10. NobodyForgotten'
  BY <1>1, <1>4a DEF NobodyForgotten
<1> QED BY <1>4, <1>6, <1>7, <1>8, <1>9, <1>10

-----------------------------------------------------------------------------
(* A request is served: it closes the session old and opens the session     *)
(* new, where these are not NoSid.                                           *)

Served(c, a, old, new) ==
  /\ busy' = <<a>> /\ a \in Answers /\ a.id = c.id /\ a.op = c.op
  /\ new \in Sids => life[new] = "none" /\ a.ok /\ a.x = new
  /\ a.ok /\ a.op \in Openers => a.x = new /\ new \in Sids
  /\ a.ok /\ a.op = "scrollback" => Mapped(c.sid) /\ a.x = printed[c.sid]
  /\ old \in Sids => old = c.sid /\ Mapped(old) /\ c.op \in Closers \cup {"reconnect"}
  /\ c.op \in Closers \cup {"reconnect"} => old = c.sid \/ ~Mapped(c.sid)
  /\ new \in Sids => c.op \in Openers
  /\ life' = [s \in Sids |-> IF s = new THEN "live" ELSE IF s = old THEN "closed" ELSE life[s]]
  /\ ring' = IF old \in Sids THEN Append(ring, ClosedEvent(old, "closed")) ELSE ring

LEMMA AnswerIs ==
  ASSUME NEW c \in CallRecs, NEW ok \in BOOLEAN, NEW x \in Nat
  PROVE  LET a == Answer(c, ok, x)
         IN  a \in Answers /\ a.id = c.id /\ a.op = c.op /\ a.ok = ok /\ a.x = x
BY DEF Answer, Answers, CallRecs

LEMMA OpensIs ==
  ASSUME Shape, NEW c \in CallRecs, NEW old \in {NoSid} \cup Sids, Opens(c, old),
         old \in Sids => Mapped(old)
  PROVE  \E a \in Answers, new \in {NoSid} \cup Sids :
           /\ busy' = <<a>> /\ a.id = c.id /\ a.op = c.op
           /\ new \in Sids => life[new] = "none" /\ a.ok /\ a.x = new
           /\ a.ok => a.x = new /\ new \in Sids
           /\ life' = [s \in Sids |-> IF s = new THEN "live" ELSE IF s = old THEN "closed" ELSE life[s]]
<1> DEFINE gone == [s \in Sids |-> IF s = old THEN "closed" ELSE life[s]]
<1>1. CASE Unborn # {} /\ life' = [gone EXCEPT ![NewSid] = "live"] /\ busy' = <<Answer(c, TRUE, NewSid)>>
  <2>1. NewSid \in Unborn
    <3>1. Unborn \subseteq Nat /\ Unborn # {}
      BY <1>1, SidsFacts DEF Unborn
    <3>2. PICK k \in Unborn : \A j \in Unborn : ~(<<j, k>> \in OpToRel(<, Nat))
      BY <3>1, NatLessThanWellFounded, WFMin
    <3>3. \A j \in Unborn : ~(j < k)
      BY <3>1, <3>2 DEF OpToRel
    <3>4. \A j \in Unborn : k <= j
      BY <3>1, <3>3
    <3> QED BY <3>4 DEF NewSid
  <2>2. PICK ok \in BOOLEAN, new \in Sids : ok /\ ok = TRUE /\ new = NewSid /\ life[new] = "none"
    BY <2>1 DEF Unborn
  <2>3. new \in Nat /\ new # NoSid
    BY SidsFacts DEF NoSid
  <2>4. PICK a : a = Answer(c, ok, new)
    OBVIOUS
  <2>5. a \in Answers /\ a.id = c.id /\ a.op = c.op /\ a.ok = ok /\ a.x = new
    BY ZenonT(60), <2>2, <2>3, <2>4, AnswerIs
  <2>6. busy' = <<a>>
    BY <1>1, <2>2, <2>4
  <2>7. life' = [s \in Sids |-> IF s = new THEN "live" ELSE IF s = old THEN "closed" ELSE life[s]]
    BY <1>1, <2>2
  <2> QED BY ZenonT(60), <2>2, <2>5, <2>6, <2>7
<1>2. CASE life' = gone /\ busy' = <<Answer(c, FALSE, 0)>>
  <2>1. PICK ok \in BOOLEAN, x \in Nat : ~ok /\ ok = FALSE /\ x = 0
    OBVIOUS
  <2>2. PICK a : a = Answer(c, ok, x)
    OBVIOUS
  <2>3. a \in Answers /\ a.id = c.id /\ a.op = c.op /\ a.ok = ok
    BY <2>1, <2>2, AnswerIs
  <2>4. busy' = <<a>>
    BY <1>2, <2>1, <2>2
  <2>5. PICK new \in {NoSid} \cup Sids : new = NoSid
    OBVIOUS
  <2>6. new \notin Sids
    BY <2>5, SidsFacts DEF NoSid
  <2>7. life' = [s \in Sids |-> IF s = new THEN "live" ELSE IF s = old THEN "closed" ELSE life[s]]
    BY <1>2, <2>6
  <2> QED BY <2>1, <2>3, <2>4, <2>6, <2>7
<1> QED BY <1>1, <1>2 DEF Opens

LEMMA ServeIs ==
  ASSUME PanesIInv, up # <<>>, Serve(Head(up))
  PROVE  \E a \in Answers, old \in {NoSid} \cup Sids, new \in {NoSid} \cup Sids :
           Served(Head(up), a, old, new)
<1> DEFINE c == Head(up)
<1>1. c = up[1] /\ c \in ToSet(up) /\ up \in Seq(CallRecs) /\ c \in CallRecs
  BY DEF PanesIInv, Shape, ToSet
<1>2. /\ c.op \in Ops /\ c.sid \in {NoSid} \cup Sids
      /\ c.op \notin {"open", "local"} => c.sid \in Sids
  BY <1>1, CallTypes DEF InFlight
<1>3. Serve(c) /\ Shape /\ NoSid \notin Sids /\ NoSid \in {NoSid} \cup Sids
  BY SidsFacts DEF PanesIInv, NoSid
<1> HIDE DEF c
<1>4. PICK yes \in BOOLEAN, no \in BOOLEAN, zero \in Nat : yes = TRUE /\ no = FALSE /\ zero = 0
  OBVIOUS
<1>5. PICK none \in {NoSid} \cup Sids : none = NoSid
  BY <1>3
<1>6. CASE c.op \in {"open", "local"}
  <2>1. Opens(c, none) /\ ring' = ring
    BY <1>3, <1>5, <1>6 DEF Serve
  <2>2. PICK a \in Answers, new \in {NoSid} \cup Sids :
          /\ busy' = <<a>> /\ a.id = c.id /\ a.op = c.op
          /\ new \in Sids => life[new] = "none" /\ a.ok /\ a.x = new
          /\ a.ok => a.x = new /\ new \in Sids
          /\ life' = [s \in Sids |-> IF s = new THEN "live" ELSE IF s = none THEN "closed" ELSE life[s]]
    BY <1>1, <1>3, <1>5, <2>1, OpensIs
  <2>3. Served(c, a, none, new)
    BY <1>3, <1>5, <1>6, <2>1, <2>2 DEF Served, Openers, Closers
  <2> QED BY <2>3 DEF c
<1>7. CASE c.op = "reconnect" /\ Mapped(c.sid)
  <2>1. Opens(c, c.sid) /\ ring' = Append(ring, ClosedEvent(c.sid, "closed"))
    BY <1>3, <1>7 DEF Serve
  <2>2. PICK old \in {NoSid} \cup Sids : old = c.sid /\ old \in Sids
    BY <1>2, <1>7
  <2>2a. Opens(c, old) /\ Mapped(old)
    BY <1>7, <2>1, <2>2
  <2>3. PICK a \in Answers, new \in {NoSid} \cup Sids :
          /\ busy' = <<a>> /\ a.id = c.id /\ a.op = c.op
          /\ new \in Sids => life[new] = "none" /\ a.ok /\ a.x = new
          /\ a.ok => a.x = new /\ new \in Sids
          /\ life' = [s \in Sids |-> IF s = new THEN "live" ELSE IF s = old THEN "closed" ELSE life[s]]
    BY <1>1, <1>3, <2>2, <2>2a, OpensIs
  <2>4. Served(c, a, old, new)
    BY <1>3, <1>7, <2>1, <2>2, <2>3 DEF Served, Openers, Closers
  <2> QED BY <2>4 DEF c
<1>8. CASE c.op \in {"closePane", "closeTab", "disconnect"}
  <2>1. /\ life' = [life EXCEPT ![c.sid] = IF Mapped(c.sid) THEN "closed" ELSE @]
        /\ ring' = IF Mapped(c.sid) THEN Append(ring, ClosedEvent(c.sid, "closed")) ELSE ring
        /\ busy' = <<Answer(c, yes, zero)>>
    BY <1>3, <1>4, <1>8 DEF Serve
  <2>2. PICK a : a = Answer(c, yes, zero)
    OBVIOUS
  <2>3. a \in Answers /\ a.id = c.id /\ a.op = c.op /\ a.ok = yes /\ a.x = zero /\ busy' = <<a>>
    BY <1>1, <2>1, <2>2, AnswerIs
  <2>4. PICK old \in {NoSid} \cup Sids : old = IF Mapped(c.sid) THEN c.sid ELSE NoSid
    BY <1>2, <1>3
  <2>5. c.sid \in Sids /\ c.op \in Closers /\ c.op \notin Openers /\ c.op # "scrollback"
    BY <1>2, <1>8 DEF Closers, Openers
  <2>6. life' = [s \in Sids |-> IF s = none THEN "live" ELSE IF s = old THEN "closed" ELSE life[s]]
    BY <1>3, <1>5, <2>1, <2>4, <2>5 DEF Shape
  <2>7. ring' = IF old \in Sids THEN Append(ring, ClosedEvent(old, "closed")) ELSE ring
    BY <1>3, <2>1, <2>4, <2>5
  <2>8. Served(c, a, old, none)
    BY <1>3, <1>5, <2>3, <2>4, <2>5, <2>6, <2>7 DEF Served
  <2> QED BY <1>5, <2>3, <2>8 DEF c
<1>9. CASE c.op = "scrollback" /\ Mapped(c.sid)
  <2>1. busy' = <<Answer(c, yes, printed[c.sid])>> /\ life' = life /\ ring' = ring
    BY <1>3, <1>4, <1>9 DEF Serve
  <2>2. PICK n \in Nat : n = printed[c.sid]
    BY <1>2, <1>3, <1>9 DEF Shape
  <2>3. PICK a : a = Answer(c, yes, n)
    OBVIOUS
  <2>4. a \in Answers /\ a.id = c.id /\ a.op = c.op /\ a.ok = yes /\ a.x = n /\ busy' = <<a>>
    BY <1>1, <2>1, <2>2, <2>3, AnswerIs
  <2>5. life' = [s \in Sids |-> IF s = none THEN "live" ELSE IF s = none THEN "closed" ELSE life[s]]
    BY <1>3, <1>5, <2>1 DEF Shape
  <2>6. Served(c, a, none, none)
    BY <1>3, <1>4, <1>5, <1>9, <2>1, <2>2, <2>4, <2>5 DEF Served, Openers, Closers
  <2> QED BY <1>5, <2>4, <2>6 DEF c
<1>10. CASE c.op \in {"reconnect", "scrollback"} /\ ~Mapped(c.sid)
  <2>1. busy' = <<Answer(c, no, zero)>> /\ life' = life /\ ring' = ring
    BY <1>3, <1>4, <1>10 DEF Serve
  <2>2. PICK a : a = Answer(c, no, zero)
    OBVIOUS
  <2>3. a \in Answers /\ a.id = c.id /\ a.op = c.op /\ a.ok = no /\ a.x = zero /\ busy' = <<a>>
    BY <1>1, <2>1, <2>2, AnswerIs
  <2>4. life' = [s \in Sids |-> IF s = none THEN "live" ELSE IF s = none THEN "closed" ELSE life[s]]
    BY <1>3, <1>5, <2>1 DEF Shape
  <2>5. Served(c, a, none, none)
    BY <1>3, <1>4, <1>5, <1>10, <2>1, <2>3, <2>4 DEF Served, Openers, Closers
  <2> QED BY <1>5, <2>3, <2>5 DEF c
<1> QED BY <1>2, <1>6, <1>7, <1>8, <1>9, <1>10 DEF Ops

LEMMA RequestKeeps ==
  ASSUME PanesIInv, Request PROVE PanesIInv'
<1> USE DEF PanesIInv
<1>0. PICK c : c = Head(up)
  OBVIOUS
<1>1. /\ busy = <<>> /\ up # <<>> /\ Serve(Head(up)) /\ up' = Tail(up)
      /\ UNCHANGED <<printed, sock, next, pending, pre, ui, mounted, trimmed, unclaimed, acts>>
  BY DEF Request, pageVars, noteVars, countVars
<1>2. PICK a \in Answers, old \in {NoSid} \cup Sids, new \in {NoSid} \cup Sids : Served(c, a, old, new)
  BY <1>0, <1>1, ServeIs
<1>3. /\ up \in Seq(CallRecs) /\ Len(up) \in Nat /\ 1 \in DOMAIN up /\ c = up[1]
      /\ DOMAIN up = 1 .. Len(up) /\ up' \in Seq(CallRecs) /\ Len(up') = Len(up) - 1
      /\ DOMAIN up' = 1 .. Len(up) - 1
      /\ \A i \in DOMAIN up' : up'[i] = up[i + 1] /\ i + 1 \in DOMAIN up /\ i + 1 # 1
      /\ \A i \in DOMAIN up : i # 1 => i - 1 \in DOMAIN up' /\ up'[i - 1] = up[i]
  <2>1. up \in Seq(CallRecs) /\ Len(up) \in Nat \ {0} /\ DOMAIN up = 1 .. Len(up) /\ c = up[1]
    BY <1>0, <1>1, EmptySeq DEF Shape
  <2>2. up' \in Seq(CallRecs) /\ Len(up') = Len(up) - 1
        /\ \A i \in 1 .. Len(up) - 1 : up'[i] = up[i + 1]
    BY <1>1, <2>1
  <2>3. DOMAIN up' = 1 .. Len(up) - 1
    BY <2>1, <2>2
  <2>4. \A i \in DOMAIN up : i # 1 => i - 1 \in DOMAIN up' /\ i - 1 \in 1 .. Len(up) - 1 /\ (i - 1) + 1 = i
    BY <2>1, <2>3
  <2>5. \A i \in DOMAIN up : i # 1 => i - 1 \in DOMAIN up' /\ up'[i - 1] = up[i]
    BY <2>2, <2>4
  <2> QED BY <2>1, <2>2, <2>3, <2>5
<1>4. /\ c \in ToSet(up) /\ c \in InFlight
      /\ ToSet(up') \subseteq ToSet(up) /\ \A d \in ToSet(up) : d # c => d \in ToSet(up')
      /\ \A d \in ToSet(up') : d.id # c.id
  <2>1. c \in ToSet(up) /\ ToSet(up') \subseteq ToSet(up)
    BY <1>3 DEF ToSet
  <2>2. \A d \in ToSet(up) : d # c => d \in ToSet(up')
    BY <1>3 DEF ToSet
  <2>3. \A i \in DOMAIN up' : up'[i].id # c.id
    <3>1. \A i \in DOMAIN up : up[i].id = up[1].id => i = 1
      BY <1>3 DEF IdsInv
    <3> QED BY <1>3, <3>1
  <2>4. \A d \in ToSet(up') : d.id # c.id
    BY <2>3 DEF ToSet
  <2> QED BY <2>1, <2>2, <2>4 DEF InFlight
<1>5. /\ busy' = <<a>> /\ a \in Answers /\ a.id = c.id /\ a.op = c.op
      /\ new \in Sids => life[new] = "none" /\ a.ok /\ a.x = new /\ c.op \in Openers
      /\ a.ok /\ a.op \in Openers => a.x = new /\ new \in Sids
      /\ old \in Sids => old = c.sid /\ Mapped(old) /\ c.op \in Closers \cup {"reconnect"}
      /\ c.op \in Closers \cup {"reconnect"} => old = c.sid \/ ~Mapped(c.sid)
      /\ life' = [s \in Sids |-> IF s = new THEN "live" ELSE IF s = old THEN "closed" ELSE life[s]]
      /\ ring' = IF old \in Sids THEN Append(ring, ClosedEvent(old, "closed")) ELSE ring
  BY <1>2 DEF Served
<1>6. NoSid \notin Sids /\ (old # new \/ old = NoSid)
  BY <1>5, SidsFacts DEF NoSid, Mapped
<1>7. sock = "open"
  BY <1>1 DEF DaemonInv
<1>8. /\ c \in CallRecs /\ c.op \in Ops /\ c.id < next
      /\ c.op \notin {"open", "local"} => c.sid \in Sids
  BY <1>4, CallTypes
<1>9. Opened(a) = {new} \ {NoSid}
  BY <1>5, SidsFacts DEF Opened, Openers, NoSid
<1>10. Owed = {} /\ Owed' = {new} \ {NoSid} /\ DOMAIN busy' = {1} /\ busy'[1] = a
  BY <1>1, <1>5, <1>9 DEF Owed
<1>11. \A s \in Sids : life'[s] = IF s = new THEN "live" ELSE IF s = old THEN "closed" ELSE life[s]
  BY <1>5
<1>12. /\ \A s : Coming(s) => Coming(s)'
       /\ \A i \in DOMAIN ring' :
            \/ i \in DOMAIN ring /\ ring'[i] = ring[i] /\ ring[i].sid \in Sids
            \/ old \in Sids /\ ring'[i] = ClosedEvent(old, "closed")
       /\ ring' \in Seq(DataEvents \cup ClosedEvents)
  <2>1. \A i \in DOMAIN ring : ring[i].sid \in Sids
    BY DEF Shape, DataEvents, ClosedEvents
  <2>2. CASE old \notin Sids
    BY <1>5, <2>1, <2>2 DEF Coming, Shape
  <2>3. CASE old \in Sids
    <3>1. ClosedEvent(old, "closed") \in DataEvents \cup ClosedEvents
      BY <2>3 DEF ClosedEvent, ClosedEvents
    <3>2. PICK e \in DataEvents \cup ClosedEvents : e = ClosedEvent(old, "closed")
      BY <3>1
    <3>3. ring' = Append(ring, e)
      BY <1>5, <2>3, <3>2
    <3>4. /\ ring' \in Seq(DataEvents \cup ClosedEvents)
          /\ Len(ring) \in Nat
          /\ DOMAIN ring = 1 .. Len(ring) /\ DOMAIN ring' = 1 .. Len(ring) + 1
          /\ \A i \in 1 .. Len(ring) : ring'[i] = ring[i]
          /\ ring'[Len(ring) + 1] = e
          /\ \A s : Coming(s) => Coming(s)'
      BY <3>3, RingGrows
    <3> QED BY <2>1, <2>3, <3>2, <3>4
  <2> QED BY <2>2, <2>3
<1>13. Shape' /\ \A s \in Sids : Len(pre'[s]) <= PreCap
  <2>1. life' \in [Sids -> {"none", "live", "dropped", "closed", "lost"}]
    BY <1>5 DEF Shape
  <2>2. busy' \in Seq(Answers) /\ Len(busy') <= 1
    BY <1>5
  <2> QED BY <1>1, <1>3, <1>12, <2>1, <2>2 DEF Shape
<1>14. InFlight' \subseteq InFlight /\ Known' \subseteq Known /\ Closing' = Closing
  BY <1>1, <1>4 DEF InFlight, Known, Closing
<1>15. Born' = Born \cup Owed' /\ Born \cap Owed' = {}
  <2>1. \A s \in Sids : life'[s] # "none" <=> s = new \/ life[s] # "none"
    BY <1>5, <1>11 DEF Mapped
  <2>2. \A s \in Sids : s = new => life[s] = "none"
    BY <1>5
  <2> QED BY <1>10, <2>1, <2>2, SidsFacts DEF Born, NoSid
<1>16. RoomInv'
  <2>1. IsFiniteSet(Owed') /\ Cardinality(Owed') \in Nat
    BY <1>13, SidsFacts, FS_Subset, FS_CardinalityType DEF Owed
  <2>2. Cardinality(Born') = Cardinality(Born) + Cardinality(Owed')
    <3>1. Cardinality(Born \cap Owed') = 0
      BY <1>15, FS_EmptySet
    <3>2. Cardinality(Born') = Cardinality(Born) + Cardinality(Owed') - Cardinality(Born \cap Owed')
      BY <1>15, <2>1, RoomLeft, FS_Union
    <3> QED BY <2>1, <3>1, <3>2, RoomLeft
  <2>3. Cardinality(Owed) = 0
    BY <1>10, FS_EmptySet
  <2>4. /\ Cardinality(Closing) \in Nat /\ Cardinality(Born) \in Nat
        /\ ui.fresh \in Nat /\ acts \in Nat
    BY RoomLeft, PageTypes DEF Shape
  <2>5. ui.fresh + Cardinality(Closing) + 0 <= 2 + acts + Cardinality(Born)
    BY <2>3 DEF RoomInv
  <2>6. ui.fresh + Cardinality(Closing) + Cardinality(Owed')
          <= 2 + acts + (Cardinality(Born) + Cardinality(Owed'))
    BY <2>1, <2>4, <2>5
  <2> QED BY <1>1, <1>14, <2>2, <2>6 DEF RoomInv
<1>17. IdsInv'
  <2>1. \A i, j \in DOMAIN up' : up'[i].id = up'[j].id => i = j
    <3> SUFFICES ASSUME NEW i \in DOMAIN up', NEW j \in DOMAIN up', up'[i].id = up'[j].id
                 PROVE  i = j
      OBVIOUS
    <3>1. i + 1 = j + 1
      BY <1>3 DEF IdsInv
    <3> QED BY <1>3, <3>1
  <2>2. \A i \in DOMAIN busy' :
          /\ busy'[i].id < next
          /\ \A d \in ToSet(up') : d.id # busy'[i].id
          /\ \A d \in pending : d.id = busy'[i].id => d.op = busy'[i].op
    BY <1>4, <1>5, <1>8, <1>10 DEF IdsInv, InFlight
  <2> QED BY <1>1, <1>14, <2>1, <2>2 DEF IdsInv
<1>18. HomeInv'
  BY <1>1, <1>14 DEF HomeInv
<1>19. BornInv'
  <2>1. \A s \in Sids : s \in Known => life'[s] # "none" /\ s # new
    BY <1>5, <1>11 DEF BornInv
  <2>2. \A s \in Owed' : s \in Sids /\ life'[s] # "none" /\ s \notin Known
    BY <1>10, <1>11, <2>1
  <2>3. \A i \in DOMAIN busy' : busy'[i].ok /\ busy'[i].op \in Openers => busy'[i].x \in Sids
    BY <1>5, <1>10
  <2> QED BY <1>14, <2>1, <2>2, <2>3 DEF BornInv
<1>20. DaemonInv'
  <2>1. \A i \in DOMAIN ring' : life'[ring'[i].sid] \notin {"none", "lost"}
    <3> SUFFICES ASSUME NEW i \in DOMAIN ring' PROVE life'[ring'[i].sid] \notin {"none", "lost"}
      OBVIOUS
    <3>1. CASE i \in DOMAIN ring /\ ring'[i] = ring[i] /\ ring[i].sid \in Sids
      BY <1>11, <3>1 DEF DaemonInv
    <3>2. CASE old \in Sids /\ ring'[i] = ClosedEvent(old, "closed")
      BY <1>11, <3>2 DEF ClosedEvent
    <3> QED BY <1>12, <3>1, <3>2
  <2>2. \A i \in DOMAIN ring' : ring'[i].t = "closed" =>
          /\ life'[ring'[i].sid] # "live"
          /\ ring'[i].reason = "closed" => life'[ring'[i].sid] = "closed"
    <3> SUFFICES ASSUME NEW i \in DOMAIN ring', ring'[i].t = "closed"
                 PROVE  /\ life'[ring'[i].sid] # "live"
                        /\ ring'[i].reason = "closed" => life'[ring'[i].sid] = "closed"
      OBVIOUS
    <3>1. CASE i \in DOMAIN ring /\ ring'[i] = ring[i] /\ ring[i].sid \in Sids
      <4>1. ring[i].sid # new
        BY <1>5, <3>1 DEF DaemonInv
      <4> QED BY <1>11, <3>1, <4>1 DEF DaemonInv
    <3>2. CASE old \in Sids /\ ring'[i] = ClosedEvent(old, "closed")
      <4>1. ring'[i].sid = old /\ old # new
        BY <1>6, <3>2, SidsFacts DEF ClosedEvent, NoSid
      <4> QED BY <1>11, <3>2, <4>1
    <3> QED BY <1>12, <3>1, <3>2
  <2>3. \A s \in Owed' : life'[s] = "live"
    BY <1>10, <1>11, SidsFacts DEF NoSid
  <2> QED BY <1>1, <1>7, <2>1, <2>2, <2>3 DEF DaemonInv
<1>21. \A s \in Sids : s \in Known => s # new
  BY <1>5 DEF BornInv
<1>22. \A p \in PaneIds : ui.pane[p].sid # NoSid => ui.pane[p].sid \in Sids /\ ui.pane[p].sid # new
  <2> SUFFICES ASSUME NEW p \in PaneIds, ui.pane[p].sid # NoSid
               PROVE  ui.pane[p].sid \in Sids /\ ui.pane[p].sid # new
    OBVIOUS
  <2>1. ui.pane[p].sid \in Sids /\ ui.pane[p].sid \in Known
    BY PageTypes DEF Shape, Known
  <2> QED BY <1>21, <2>1
<1>23. \A s : (BeingClosed(s)' <=> BeingClosed(s)) /\ (Settled(s)' <=> Settled(s))
  BY <1>1 DEF BeingClosed, Settled
<1>24. \A s : CloseIsUp(s) => CloseIsUp(s)' \/ (s = c.sid /\ c.op \in Closers)
  <2> SUFFICES ASSUME NEW s, CloseIsUp(s), ~(s = c.sid /\ c.op \in Closers) PROVE CloseIsUp(s)'
    OBVIOUS
  <2>1. PICK i \in DOMAIN up : up[i].sid = s /\ up[i].op \in Closers
    BY DEF CloseIsUp
  <2>2. i # 1
    BY <1>3, <2>1
  <2> QED BY <1>3, <2>1, <2>2 DEF CloseIsUp
<1>25. c.op \in Closers \cup {"reconnect"} => c.sid \in Sids /\ c.sid # new /\ Gone(c.sid)'
  <2> SUFFICES ASSUME c.op \in Closers \cup {"reconnect"}
               PROVE  c.sid \in Sids /\ c.sid # new /\ Gone(c.sid)'
    OBVIOUS
  <2>1. c.sid \in Sids /\ c.sid \in Known
    BY <1>4, <1>8 DEF Closers, Known
  <2>2. c.sid # new
    BY <1>21, <2>1
  <2>3. life'[c.sid] = IF c.sid = old THEN "closed" ELSE life[c.sid]
    BY <1>11, <2>1, <2>2
  <2> QED BY <1>5, <2>1, <2>2, <2>3 DEF Gone, Mapped
<1>26. PanesInv'
  <2>1. ASSUME NEW p \in PaneIds, NEW s, s = ui.pane[p].sid, s # NoSid, ~ui.pane[p].dis
        PROVE  \/ life'[s] \in {"live", "lost"}
               \/ (life'[s] = "dropped" /\ Coming(s)') \/ BeingClosed(s)
    <3>1. s \in Sids /\ s # new
      BY <1>22, <2>1
    <3>2. CASE s # old
      BY <1>11, <1>12, <2>1, <3>1, <3>2 DEF PanesInv
    <3>3. CASE s = old
      <4>1. s = c.sid /\ c.op \in Closers \cup {"reconnect"}
        BY <1>5, <3>1, <3>3
      <4>2. ~Settled(c.sid)
        BY <2>1, <4>1 DEF Settled, SettledIn
      <4>3. c.op \in {"closePane", "disconnect"} /\ c \in pending
        BY <1>4, <4>1, <4>2 DEF CallsInv, Closers
      <4> QED BY <4>1, <4>3 DEF BeingClosed
    <3> QED BY <3>2, <3>3
  <2>2. ASSUME NEW p \in PaneIds, NEW s, s = ui.pane[p].sid, s # NoSid, ui.pane[p].dis
        PROVE  life'[s] # "live" \/ CloseIsUp(s)'
    <3>1. s \in Sids /\ s # new
      BY <1>22, <2>2
    <3>2. life[s] # "live" \/ CloseIsUp(s)
      BY <2>2 DEF PanesInv
    <3>3. life'[s] = "live" => life[s] = "live"
      BY <1>11, <3>1
    <3> QED BY <1>24, <1>25, <3>2, <3>3 DEF Gone
  <2> QED BY <1>1, <1>23, <2>1, <2>2 DEF PanesInv
<1>27. CallsInv'
  <2>1. \A d \in pending : d.op \in Closers \cup {"reconnect"} => d \in ToSet(up') \/ Gone(d.sid)'
    <3> SUFFICES ASSUME NEW d \in pending, d.op \in Closers \cup {"reconnect"}
                 PROVE  d \in ToSet(up') \/ Gone(d.sid)'
      OBVIOUS
    <3>1. d.sid \in Sids /\ d.sid \in Known /\ d.sid # new
      <4>1. d \in InFlight
        BY DEF InFlight
      <4>2. d.sid \in Sids /\ d.sid \in Known
        BY <4>1, CallTypes DEF Closers, Known
      <4> QED BY <1>21, <4>2
    <3>2. CASE d \in ToSet(up)
      BY <1>4, <1>25, <3>2
    <3>3. CASE Gone(d.sid)
      BY <1>11, <3>1, <3>3 DEF Gone
    <3> QED BY <3>2, <3>3 DEF CallsInv
  <2>2. /\ \A d \in ToSet(up') : d.op \in {"closePane", "disconnect"} => d \in pending \/ Settled(d.sid)
        /\ \A d \in ToSet(up') : d.op \in {"closeTab", "reconnect"} => Settled(d.sid)
    BY <1>4 DEF CallsInv
  <2>3. /\ \A s \in ui.reconnecting : Settled(s)
        /\ \A s \in ui.userClosed : BeingClosed(s) \/ Settled(s)
    BY DEF CallsInv
  <2> QED BY <1>1, <1>23, <2>1, <2>2, <2>3 DEF CallsInv
<1>28. NobodyForgotten'
  <2>1. \A s : CloseIsUp(s)' <=> \E i \in DOMAIN up' : up'[i].sid = s /\ up'[i].op \in {"closePane", "closeTab", "disconnect"}
    BY DEF CloseIsUp, Closers
  <2> SUFFICES ASSUME NEW s \in Sids, life'[s] = "live"
               PROVE  \/ s \in Shown(ui) \/ s \in Owed' \/ CloseIsUp(s)'
                      \/ s \in unclaimed \/ s \in ui.crossed
    BY <1>1, <2>1 DEF NobodyForgotten, Owed
  <2>2. CASE s = new
    BY <1>10, <2>2, SidsFacts DEF NoSid
  <2>3. CASE s # new
    <3>1. life[s] = "live"
      BY <1>11, <2>3
    <3>2. \/ s \in Shown(ui) \/ s \in Owed \/ CloseIsUp(s) \/ s \in unclaimed \/ s \in ui.crossed
      BY <3>1 DEF NobodyForgotten, Owed, CloseIsUp, Closers
    <3> QED BY <1>10, <1>24, <1>25, <3>2 DEF Gone
  <2> QED BY <2>2, <2>3
<1>29. TabsOK(ui)'
  BY <1>1 DEF TabsOK
<1> QED BY <1>13, <1>16, <1>17, <1>18, <1>19, <1>20, <1>26, <1>27, <1>28, <1>29

-----------------------------------------------------------------------------
LEMMA StepKeeps == PanesIInv /\ [Next]_vars => PanesIInv'
<1> SUFFICES ASSUME PanesIInv, [Next]_vars PROVE PanesIInv'
  OBVIOUS
<1>1. CASE Clicks
  BY <1>1, ClicksKeep
<1>2. CASE Mount
  BY <1>2, MountKeeps
<1>3. ASSUME NEW c \in pending, Timeout(c) \/ Refused(c) PROVE PanesIInv'
  BY <1>3, GivenUpKeeps
<1>4. CASE OnClose \/ Connect
  BY <1>4, OnCloseKeeps
<1>5. CASE Loop
  BY <1>5, RequestKeeps, RespondKeeps, SendEventKeeps DEF Loop
<1>6. CASE Crash
  BY <1>6, CrashKeeps
<1>7. ASSUME NEW s \in Sids, PrintChunk(s) \/ Drop(s) PROVE PanesIInv'
  BY <1>7, PrintChunkKeeps, DropKeeps
<1>8. CASE UNCHANGED vars
  <2>1. /\ UNCHANGED <<life, printed, ring, busy, sock, up, next, pending, pre, ui, mounted, trimmed,
                       unclaimed, acts>>
    BY <1>8 DEF vars, daemonVars, wireVars, pageVars, noteVars, countVars
  <2>2. Shape' /\ TabsOK(ui)' /\ \A s \in Sids : Len(pre'[s]) <= PreCap
    BY <2>1 DEF PanesIInv, Shape, TabsOK
  <2>3. InFlight' = InFlight /\ Known' = Known /\ Owed' = Owed /\ Closing' = Closing /\ Born' = Born
    BY <2>1 DEF InFlight, Known, Owed, Closing, Born
  <2>4. RoomInv' /\ IdsInv' /\ HomeInv' /\ BornInv'
    BY <2>1, <2>3 DEF PanesIInv, RoomInv, IdsInv, HomeInv, BornInv
  <2>5. DaemonInv' /\ PanesInv' /\ CallsInv' /\ NobodyForgotten'
    BY <2>1, <2>3 DEF PanesIInv, DaemonInv, PanesInv, CallsInv, NobodyForgotten, BeingClosed,
                      CloseIsUp, Coming, Gone, Settled
  <2> QED BY <2>2, <2>4, <2>5 DEF PanesIInv
<1> QED BY <1>1, <1>2, <1>3, <1>4, <1>5, <1>6, <1>7, <1>8 DEF Next

LEMMA PanesAreTrue == PanesIInv => PanesTrue
<1> SUFFICES ASSUME PanesIInv PROVE PanesTrue
  OBVIOUS
<1> USE DEF PanesIInv
<1>1. PanesTypeOK
  <2>1. pending \subseteq Calls
    <3> SUFFICES ASSUME NEW c \in pending PROVE c \in Calls
      OBVIOUS
    <3>1. c \in InFlight /\ c \in CallRecs
      BY DEF InFlight, Shape
    <3>2. c.id \in 1 .. next
      BY <3>1, CallTypes DEF Shape
    <3> QED BY <3>1, <3>2 DEF Calls, CallRecs, Ops
  <2>2. \A c, d \in pending : c.id = d.id => c = d
    BY DEF IdsInv, InFlight
  <2>3. \A p, q \in ToSet(ui.tabs) : ui.pane[p].sid = ui.pane[q].sid /\ ui.pane[p].sid # NoSid => p = q
    BY PageTypes DEF HomeInv, Shape
  <2> QED BY <2>1, <2>2, <2>3 DEF PanesTypeOK, Shape, TabsOK
<1>2. ShownIsAlive
  BY PageTypes DEF PanesInv, Shape, ShownIsAlive, BeingClosed
<1> QED BY <1>1, <1>2 DEF PanesTrue

(* Every pane shows a session that lives, or one whose end it is told; no    *)
(* session is in two panes, and none that runs is forgotten: for any number *)
(* of sessions, clicks, restarts of the daemon and calls that time out.     *)
THEOREM PanesAlwaysTrue == PaneSpec => []PanesTrue
<1>1. Init => PanesIInv
  BY InitPanes
<1>2. PanesIInv /\ [Next]_vars => PanesIInv'
  BY StepKeeps
<1>3. PanesIInv => PanesTrue
  BY PanesAreTrue
<1> QED BY <1>1, <1>2, <1>3, PTL DEF PaneSpec

-----------------------------------------------------------------------------
(* Runs of numbers and screens.                                             *)

LEMMA RunAppend ==
  ASSUME NEW q \in Seq(Nat), NEW n \in Nat, Stepwise(q), EndsAt(q, n)
  PROVE  LET r == Append(q, n + 1)
         IN  /\ r \in Seq(Nat) /\ r # <<>> /\ Len(r) = Len(q) + 1
             /\ Stepwise(r) /\ EndsAt(r, n + 1)
             /\ q # <<>> => r[1] = q[1]
             /\ q = <<>> => r[1] = n + 1
<1> DEFINE r == Append(q, n + 1)
<1>1. /\ r \in Seq(Nat) /\ Len(q) \in Nat /\ Len(r) = Len(q) + 1 /\ r[Len(q) + 1] = n + 1
      /\ \A i \in 1 .. Len(q) : r[i] = q[i] /\ q[i] \in Nat
      /\ r # <<>> /\ DOMAIN q = 1 .. Len(q)
  OBVIOUS
<1> HIDE DEF r
<1>2. EndsAt(r, n + 1)
  BY <1>1 DEF EndsAt
<1>3. CASE q = <<>>
  <2>1. Len(q) = 0
    BY <1>3
  <2> QED BY <1>1, <1>2, <1>3, <2>1 DEF Stepwise, r
<1>4. CASE q # <<>>
  <2>1. Len(q) \in Nat \ {0}
    BY <1>4, EmptySeq
  <2>2. r[1] = q[1] /\ q[1] \in Nat /\ 1 \in 1 .. Len(q) /\ Len(q) \in 1 .. Len(q)
    BY <1>1, <2>1
  <2>3. n = q[1] + (Len(q) - 1)
    BY <1>4, <2>2 DEF Stepwise, EndsAt
  <2>4. \A i \in 1 .. Len(r) : r[i] = r[1] + (i - 1)
    <3> SUFFICES ASSUME NEW i \in 1 .. Len(r) PROVE r[i] = r[1] + (i - 1)
      OBVIOUS
    <3>1. CASE i \in 1 .. Len(q)
      BY <1>1, <2>2, <3>1 DEF Stepwise
    <3>2. CASE i = Len(q) + 1
      BY <1>1, <2>2, <2>3, <3>2
    <3> QED BY <1>1, <3>1, <3>2
  <2> QED BY <1>1, <1>2, <1>4, <2>2, <2>4 DEF Stepwise, r
<1> QED BY <1>3, <1>4

LEMMA RunLast ==
  ASSUME NEW q \in Seq(Nat), NEW n \in Nat, NEW k \in Nat \ {0}, Stepwise(q), EndsAt(q, n), q # <<>>
  PROVE  LET r == LastOf(q, k)
         IN  /\ r \in Seq(Nat) /\ r # <<>> /\ Stepwise(r) /\ EndsAt(r, n)
             /\ Len(q) <= k => r[1] = q[1]
<1> DEFINE r == LastOf(q, k)
<1>1. /\ r \in Seq(Nat)
      /\ Len(r) = IF Len(q) > k THEN k ELSE Len(q)
      /\ \A i \in 1 .. Len(r) : r[i] = q[Len(q) - Len(r) + i]
  BY LastOfIs
<1>2. Len(q) \in Nat \ {0} /\ Len(r) \in 1 .. Len(q) /\ DOMAIN r = 1 .. Len(r)
      /\ \A i \in 1 .. Len(q) : q[i] \in Nat
  BY SMTT(40), <1>1, EmptySeq
<1> HIDE DEF r
<1>3. 1 \in 1 .. Len(r) /\ Len(r) \in 1 .. Len(r) /\ r # <<>> /\ q[1] \in Nat
  BY <1>2
<1>4. ASSUME NEW i \in 1 .. Len(r) PROVE r[i] = q[1] + (Len(q) - Len(r) + i - 1)
  <2>0. Len(q) - Len(r) + i \in 1 .. Len(q)
    BY <1>2
  <2>1. PICK m \in 1 .. Len(q) : m = Len(q) - Len(r) + i
    BY <2>0
  <2>2. r[i] = q[m] /\ q[m] = q[1] + (m - 1)
    BY <1>1, <2>1 DEF Stepwise
  <2> QED BY <2>1, <2>2
<1>5. r[1] = q[1] + (Len(q) - Len(r))
  BY <1>2, <1>3, <1>4
<1>6. Stepwise(r)
  <2> SUFFICES ASSUME NEW i \in 1 .. Len(r) PROVE r[i] = r[1] + (i - 1)
    BY DEF Stepwise
  <2> QED BY <1>2, <1>3, <1>4, <1>5
<1>7. EndsAt(r, n)
  <2>1. Len(q) \in 1 .. Len(q)
    BY <1>2
  <2>2. r[Len(r)] = q[Len(q)]
    <3>1. Len(q) - Len(r) + Len(r) = Len(q)
      BY <1>2
    <3> QED BY <1>1, <1>3, <3>1
  <2> QED BY <2>2 DEF EndsAt
<1>8. Len(q) <= k => r[1] = q[1]
  BY <1>1, <1>2, <1>3, <1>5
<1> QED BY <1>1, <1>3, <1>6, <1>7, <1>8 DEF r

LEMMA RunPaints ==
  ASSUME NEW q \in Seq(Nat), Stepwise(q) PROVE Painting(q)
<1>1. Len(q) \in Nat /\ \A i \in 1 .. Len(q) : q[i] \in Nat
  OBVIOUS
<1>2. \A i \in 1 .. Len(q) - 1 : q[i + 1] = q[i] + 1 /\ q[i] \in Nat
  <2> SUFFICES ASSUME NEW i \in 1 .. Len(q) - 1 PROVE q[i + 1] = q[i] + 1 /\ q[i] \in Nat
    OBVIOUS
  <2>1. i \in 1 .. Len(q) /\ i + 1 \in 1 .. Len(q) /\ 1 \in 1 .. Len(q)
    BY <1>1
  <2>2. q[i] = q[1] + (i - 1) /\ q[i + 1] = q[1] + ((i + 1) - 1) /\ q[1] \in Nat
    BY <1>1, <2>1 DEF Stepwise
  <2> QED BY SMTT(40), <1>1, <2>1, <2>2
<1>3. Falls(q) = {}
  <2> SUFFICES ASSUME NEW i \in 1 .. Len(q) - 1 PROVE ~(q[i + 1] <= q[i])
    BY DEF Falls
  <2>1. q[i + 1] = q[i] + 1 /\ q[i] \in Nat
    BY <1>2
  <2> QED BY <2>1
<1>4. \A i \in 1 .. Len(q) - 1 : q[i + 1] <= q[i] + 1
  <2> SUFFICES ASSUME NEW i \in 1 .. Len(q) - 1 PROVE q[i + 1] <= q[i] + 1
    OBVIOUS
  <2>1. q[i + 1] = q[i] + 1 /\ q[i] \in Nat
    BY <1>2
  <2> QED BY <2>1
<1> QED BY <1>3, <1>4 DEF Painting

LEMMA PaintAppend ==
  ASSUME NEW q \in Seq(Nat), NEW n \in Nat, Painting(q), Shows(q, n) \/ q = <<>>
  PROVE  LET r == Append(q, n + 1)
         IN  /\ r \in Seq(Nat) /\ r # <<>> /\ Painting(r) /\ Shows(r, n + 1)
             /\ q # <<>> => r[1] = q[1]
             /\ q = <<>> => r[1] = n + 1
<1> DEFINE r == Append(q, n + 1)
<1>1. /\ r \in Seq(Nat) /\ Len(q) \in Nat /\ Len(r) = Len(q) + 1 /\ r[Len(q) + 1] = n + 1
      /\ \A i \in 1 .. Len(q) : r[i] = q[i] /\ q[i] \in Nat
      /\ r # <<>> /\ (q = <<>> <=> Len(q) = 0)
  BY EmptySeq
<1> HIDE DEF r
<1>2. q # <<>> => r[1] = q[1]
  BY <1>1
<1>3. q = <<>> => r[1] = n + 1
  BY <1>1
<1>4. Falls(r) \subseteq Falls(q) \cup {Len(q)}
  <2> SUFFICES ASSUME NEW i \in 1 .. Len(r) - 1, r[i + 1] <= r[i], i # Len(q) PROVE i \in Falls(q)
    BY <1>1 DEF Falls
  <2>1. i \in 1 .. Len(q) - 1 /\ i \in 1 .. Len(q) /\ i + 1 \in 1 .. Len(q)
    BY <1>1
  <2> QED BY <1>1, <2>1 DEF Falls
<1>5. \A i \in 1 .. Len(q) - 1 : r[i + 1] <= r[i] + 1
  <2> SUFFICES ASSUME NEW i \in 1 .. Len(q) - 1 PROVE r[i + 1] <= r[i] + 1
    OBVIOUS
  <2>1. i \in 1 .. Len(q) /\ i + 1 \in 1 .. Len(q)
    BY <1>1
  <2> QED BY <1>1, <2>1 DEF Painting
<1>6. CASE q = <<>>
  <2>1. Falls(r) = {} /\ Len(r) = 1 /\ r[1] = n + 1
    BY <1>1, <1>6 DEF Falls
  <2>2. Painting(r)
    BY <2>1 DEF Painting
  <2>3. Shows(r, n + 1)
    BY <1>1, <2>1 DEF Shows
  <2> QED BY <1>1, <1>3, <1>6, <2>2, <2>3 DEF r
<1>7. CASE q # <<>> /\ q[Len(q)] = n
  <2>1. Len(q) \in 1 .. Len(q) /\ r[Len(q)] = n
    BY SMTT(40), <1>1, <1>7
  <2>2. Len(q) \notin Falls(r) /\ r[Len(q) + 1] <= r[Len(q)] + 1
    BY <1>1, <2>1 DEF Falls
  <2>3. \A i \in 1 .. Len(r) - 1 : r[i + 1] <= r[i] + 1
    <3>1. \A i \in 1 .. Len(r) - 1 : i \in 1 .. Len(q) - 1 \/ i = Len(q)
      BY <1>1
    <3> QED BY <1>5, <2>2, <3>1
  <2>4. Painting(r)
    BY <1>4, <2>2, <2>3 DEF Painting
  <2>5. Shows(r, n + 1)
    BY <1>1 DEF Shows
  <2> QED BY <1>1, <1>2, <1>7, <2>4, <2>5 DEF r
<1>8. CASE q # <<>> /\ (\A i \in 1 .. Len(q) : q[i] = i) /\ n <= Len(q)
  <2>1. Len(q) \in 1 .. Len(q) /\ r[Len(q)] = Len(q)
    BY SMTT(40), <1>1, <1>8
  <2>2. r[Len(q) + 1] <= r[Len(q)] + 1
    BY <1>1, <1>8, <2>1
  <2>3. \A i \in 1 .. Len(r) - 1 : r[i + 1] <= r[i] + 1
    <3>1. \A i \in 1 .. Len(r) - 1 : i \in 1 .. Len(q) - 1 \/ i = Len(q)
      BY <1>1
    <3> QED BY <1>5, <2>2, <3>1
  <2>4. Falls(q) = {}
    <3> SUFFICES ASSUME NEW i \in 1 .. Len(q) - 1 PROVE ~(q[i + 1] <= q[i])
      BY DEF Falls
    <3>1. i \in 1 .. Len(q) /\ i + 1 \in 1 .. Len(q)
      BY <1>1
    <3>2. q[i] = i /\ q[i + 1] = i + 1
      BY <1>8, <3>1
    <3> QED BY <3>1, <3>2
  <2>5. Painting(r)
    BY <1>4, <2>3, <2>4 DEF Painting
  <2>6. Shows(r, n + 1)
    BY <1>1 DEF Shows
  <2> QED BY <1>1, <1>2, <1>8, <2>5, <2>6 DEF r
<1> QED BY <1>6, <1>7, <1>8 DEF Shows

(* The scrollback, the first x chunks, and behind it what was queued.       *)
LEMMA PaintAll ==
  ASSUME NEW q \in Seq(Nat), NEW x \in Nat, NEW n \in Nat, Stepwise(q),
         q # <<>> => n > 0 /\ EndsAt(q, n), n <= x
  PROVE  LET r == [i \in 1 .. x |-> i] \o q
         IN  r \in Seq(Nat) /\ Painting(r) /\ Shows(r, n) /\ (r # <<>> => r[1] = 1)
<1> DEFINE a == [i \in 1 .. x |-> i]
           r == a \o q
<1>1. a \in Seq(Nat) /\ Len(a) = x /\ \A i \in 1 .. x : a[i] = i
  OBVIOUS
<1> HIDE DEF a
<1>2. /\ r \in Seq(Nat) /\ Len(q) \in Nat /\ Len(r) = x + Len(q) /\ Len(r) \in Nat
      /\ \A i \in 1 .. x : r[i] = i
      /\ \A i \in 1 .. Len(q) : r[x + i] = q[i] /\ q[i] \in Nat
  <2>1. /\ r \in Seq(Nat) /\ Len(r) = Len(a) + Len(q)
        /\ \A i \in 1 .. Len(a) + Len(q) : r[i] = IF i <= Len(a) THEN a[i] ELSE q[i - Len(a)]
    BY <1>1, ConcatProperties
  <2>2. Len(q) \in Nat /\ \A i \in 1 .. Len(q) : q[i] \in Nat
    OBVIOUS
  <2>3. \A i \in 1 .. x : r[i] = i
    BY <1>1, <2>1, <2>2
  <2>4. ASSUME NEW i \in 1 .. Len(q) PROVE r[x + i] = q[i]
    <3>1. x + i \in 1 .. Len(a) + Len(q) /\ ~(x + i <= Len(a)) /\ (x + i) - Len(a) = i
      BY <1>1, <2>2
    <3> QED BY <2>1, <3>1
  <2> QED BY SMTT(40), <1>1, <2>1, <2>2, <2>3, <2>4
<1> HIDE DEF r
<1>3. CASE q = <<>>
  <2>1. Len(q) = 0
    BY <1>3
  <2>2. Len(r) = x
    BY <1>2, <2>1
  <2>3. \A i \in 1 .. Len(r) : r[i] = i
    BY <1>2, <2>2
  <2>4. Stepwise(r)
    <3>1. \A i \in 1 .. Len(r) : r[i] = r[1] + (i - 1)
      BY <1>2, <2>3
    <3> QED BY <3>1 DEF Stepwise
  <2>5. Painting(r) /\ Shows(r, n)
    BY <1>2, <2>2, <2>3, <2>4, RunPaints DEF Shows
  <2>6. r # <<>> => r[1] = 1
    <3>1. r # <<>> => Len(r) # 0
      BY <1>2, EmptySeq
    <3> QED BY <1>2, <2>2, <2>3, <3>1
  <2> QED BY <1>2, <2>5, <2>6 DEF r, a
<1>4. CASE q # <<>>
  <2>1. /\ Len(q) \in Nat \ {0} /\ n > 0 /\ q[Len(q)] = n /\ x > 0
        /\ Len(q) \in 1 .. Len(q) /\ 1 \in 1 .. Len(q)
    BY <1>2, <1>4, EmptySeq DEF EndsAt
  <2>2. q[1] + (Len(q) - 1) = n /\ q[1] \in Nat
    BY <1>2, <2>1 DEF Stepwise
  <2>3. q[1] <= x
    BY <2>1, <2>2
  <2>4. \A i \in 1 .. Len(q) : q[i] = q[1] + (i - 1)
    BY DEF Stepwise
  <2>5. ASSUME NEW i \in 1 .. Len(r) - 1, i # x PROVE r[i + 1] = r[i] + 1 /\ r[i] \in Nat
    <3>1. CASE i < x
      <4>1. i \in 1 .. x /\ i + 1 \in 1 .. x
        BY <1>2, <3>1
      <4> QED BY <1>2, <4>1
    <3>2. CASE i > x
      <4>1. PICK j \in 1 .. Len(q), k \in 1 .. Len(q) : x + j = i /\ x + k = i + 1 /\ k = j + 1
        <5>1. i - x \in 1 .. Len(q) /\ i - x + 1 \in 1 .. Len(q)
          BY <1>2, <3>2
        <5>2. x + (i - x) = i /\ x + (i - x + 1) = i + 1
          BY <1>2
        <5> QED BY <5>1, <5>2
      <4>2. r[i] = q[j] /\ r[i + 1] = q[k] /\ q[j] \in Nat
        BY <1>2, <4>1
      <4>3. q[j] = q[1] + (j - 1) /\ q[k] = q[1] + (k - 1)
        BY <2>4
      <4>4. q[k] = q[j] + 1
        BY SMTT(40), <2>2, <4>1, <4>3
      <4> QED BY <4>2, <4>4
    <3> QED BY <2>5, <3>1, <3>2, <1>2
  <2>6. r[x] = x /\ r[x + 1] = q[1]
    BY SMTT(40), <1>2, <2>1
  <2>7. \A i \in 1 .. Len(r) - 1 : r[i + 1] <= r[i] + 1
    <3> SUFFICES ASSUME NEW i \in 1 .. Len(r) - 1 PROVE r[i + 1] <= r[i] + 1
      OBVIOUS
    <3>1. CASE i = x
      BY <2>2, <2>3, <2>6, <3>1
    <3>2. CASE i # x
      <4>1. r[i + 1] = r[i] + 1 /\ r[i] \in Nat
        BY <2>5, <3>2
      <4> QED BY <4>1
    <3> QED BY <3>1, <3>2
  <2>8. Falls(r) \subseteq {x}
    <3> SUFFICES ASSUME NEW i \in 1 .. Len(r) - 1, r[i + 1] <= r[i], i # x PROVE FALSE
      BY DEF Falls
    <3>1. r[i + 1] = r[i] + 1 /\ r[i] \in Nat
      BY <2>5
    <3> QED BY <3>1
  <2>9. Painting(r)
    BY <2>7, <2>8 DEF Painting
  <2>10. r # <<>> /\ r[Len(r)] = n /\ r[1] = 1
    <3>1. Len(r) # 0 /\ 1 \in 1 .. x
      BY <1>2, <2>1
    <3>2. Len(<<>>) = 0
      OBVIOUS
    <3> QED BY <1>2, <2>1, <3>1, <3>2
  <2> QED BY <1>2, <2>9, <2>10 DEF r, a, Shows
<1> QED BY <1>3, <1>4

-----------------------------------------------------------------------------
(* What the ring holds of a session.                                        *)

LEMMA ShiftedSet ==
  ASSUME NEW S, NEW T, IsFiniteSet(S), S \subseteq Nat, T \subseteq Nat,
         \A i \in T : i + 1 \in S, \A j \in S : j - 1 \in T
  PROVE  IsFiniteSet(T) /\ Cardinality(T) = Cardinality(S)
<1> DEFINE f == [j \in S |-> j - 1]
<1>1. f \in [S -> T]
  OBVIOUS
<1>2. \A a, b \in S : f[a] = f[b] => a = b
  OBVIOUS
<1>3. \A t \in T : \E j \in S : f[j] = t
  <2> SUFFICES ASSUME NEW t \in T PROVE \E j \in S : f[j] = t
    OBVIOUS
  <2>1. t + 1 \in S /\ f[t + 1] = t
    OBVIOUS
  <2> QED BY <2>1
<1> HIDE DEF f
<1>4. f \in Bijection(S, T)
  BY <1>1, <1>2, <1>3, Fun_IsBij
<1> QED BY <1>4, FS_Bijection DEF ExistsBijection

LEMMA DataFacts ==
  ASSUME Shape, NEW s, NEW i
  PROVE  /\ DataFrom(s, i) \subseteq Nat /\ IsFiniteSet(DataFrom(s, i))
         /\ Cardinality(DataFrom(s, i)) \in Nat
         /\ s \in Sids => printed[s] \in Nat
         /\ Sent(s) = printed[s] - Cardinality(DataFrom(s, 1))
<1>1. Len(ring) \in Nat /\ DOMAIN ring = 1 .. Len(ring)
  BY DEF Shape
<1>2. IsFiniteSet(1 .. Len(ring))
  BY <1>1, FS_Interval
<1>3. DataFrom(s, i) \subseteq 1 .. Len(ring)
  BY <1>1 DEF DataFrom
<1>4. IsFiniteSet(DataFrom(s, i)) /\ Cardinality(DataFrom(s, i)) \in Nat
  BY <1>2, <1>3, FS_Subset, FS_CardinalityType
<1>5. {j \in DOMAIN ring : ring[j].t = "data" /\ ring[j].sid = s} = DataFrom(s, 1)
  BY <1>1 DEF DataFrom
<1>6. Sent(s) = printed[s] - Cardinality(DataFrom(s, 1))
  BY <1>5 DEF Sent
<1>7. s \in Sids => printed[s] \in Nat
  BY DEF Shape
<1>8. DataFrom(s, i) \subseteq Nat
  BY <1>1, <1>3
<1> QED BY <1>4, <1>6, <1>7, <1>8

\* The ring with its head told.
LEMMA DataTail ==
  ASSUME Shape, ring # <<>>, ring' = Tail(ring), UNCHANGED printed, NEW s \in Sids
  PROVE  /\ \A i \in Nat \ {0} : Cardinality(DataFrom(s, i)') = Cardinality(DataFrom(s, i + 1))
         /\ ~(ring[1].t = "data" /\ ring[1].sid = s) =>
              DataFrom(s, 1) = DataFrom(s, 2) /\ Sent(s)' = Sent(s)
                /\ (DataFrom(s, 1) = {} => DataFrom(s, 1)' = {})
         /\ ring[1].t = "data" /\ ring[1].sid = s =>
              Cardinality(DataFrom(s, 1)) = Cardinality(DataFrom(s, 2)) + 1 /\ Sent(s)' = Sent(s) + 1
<1>1. /\ Len(ring) \in Nat \ {0} /\ DOMAIN ring = 1 .. Len(ring) /\ 1 \in DOMAIN ring
      /\ DOMAIN ring' = 1 .. Len(ring) - 1
      /\ \A i \in 1 .. Len(ring) - 1 : ring'[i] = ring[i + 1]
  BY RingFacts
<1>2. \A i \in Nat \ {0} : DataFrom(s, i)' = {j \in DOMAIN ring' : j >= i /\ ring'[j].t = "data" /\ ring'[j].sid = s}
  BY DEF DataFrom
<1>3. ASSUME NEW i \in Nat \ {0}
      PROVE  Cardinality(DataFrom(s, i)') = Cardinality(DataFrom(s, i + 1))
  <2>1. DataFrom(s, i)' \subseteq Nat
    BY <1>1, <1>2
  <2>2. ASSUME NEW j \in DataFrom(s, i)' PROVE j + 1 \in DataFrom(s, i + 1)
    <3>1. j \in 1 .. Len(ring) - 1 /\ j >= i /\ ring'[j].t = "data" /\ ring'[j].sid = s
      BY <1>1, <1>2
    <3>2. j + 1 \in DOMAIN ring /\ j + 1 >= i + 1 /\ ring[j + 1] = ring'[j]
      BY <1>1, <3>1
    <3> QED BY <3>1, <3>2 DEF DataFrom
  <2>3. ASSUME NEW j \in DataFrom(s, i + 1) PROVE j - 1 \in DataFrom(s, i)'
    <3>1. j \in 1 .. Len(ring) /\ j >= i + 1 /\ ring[j].t = "data" /\ ring[j].sid = s
      BY <1>1 DEF DataFrom
    <3>2. PICK k \in 1 .. Len(ring) - 1 : k = j - 1 /\ k + 1 = j
      <4>1. j - 1 \in 1 .. Len(ring) - 1 /\ (j - 1) + 1 = j
        BY <1>1, <3>1
      <4> QED BY <4>1
    <3>3. k \in DOMAIN ring' /\ k >= i /\ ring'[k] = ring[j]
      BY <1>1, <3>1, <3>2
    <3> QED BY <1>2, <3>1, <3>2, <3>3
  <2>4. DataFrom(s, i + 1) \subseteq Nat /\ IsFiniteSet(DataFrom(s, i + 1))
    BY DataFacts
  <2> QED BY <2>1, <2>2, <2>3, <2>4, ShiftedSet
<1>4. /\ Cardinality(DataFrom(s, 1)) \in Nat /\ Cardinality(DataFrom(s, 2)) \in Nat
      /\ IsFiniteSet(DataFrom(s, 2)) /\ printed[s] \in Nat
      /\ Sent(s) = printed[s] - Cardinality(DataFrom(s, 1))
  BY DataFacts
<1>5. Sent(s)' = printed[s] - Cardinality(DataFrom(s, 2))
  <2>1. {j \in DOMAIN ring' : ring'[j].t = "data" /\ ring'[j].sid = s} = DataFrom(s, 1)'
    BY <1>1, <1>2
  <2>2. Sent(s)' = printed'[s] - Cardinality(DataFrom(s, 1)')
    BY <2>1 DEF Sent
  <2>3. Cardinality(DataFrom(s, 1)') = Cardinality(DataFrom(s, 2))
    BY <1>3
  <2> QED BY <2>2, <2>3
<1>6. CASE ~(ring[1].t = "data" /\ ring[1].sid = s)
  <2>1. DataFrom(s, 1) = DataFrom(s, 2)
    <3>1. \A j \in DOMAIN ring : j >= 1 /\ ring[j].t = "data" /\ ring[j].sid = s => j >= 2
      BY <1>1, <1>6
    <3> QED BY <1>1, <3>1 DEF DataFrom
  <2>2. DataFrom(s, 1) = {} => DataFrom(s, 1)' = {}
    <3> SUFFICES ASSUME NEW j \in DataFrom(s, 1)' PROVE DataFrom(s, 1) # {}
      OBVIOUS
    <3>1. j \in 1 .. Len(ring) - 1 /\ ring'[j].t = "data" /\ ring'[j].sid = s
      BY <1>1, <1>2
    <3>2. j + 1 \in DOMAIN ring /\ j + 1 >= 1 /\ ring[j + 1] = ring'[j]
      BY <1>1, <3>1
    <3> QED BY <3>1, <3>2 DEF DataFrom
  <2> QED BY <1>3, <1>4, <1>5, <1>6, <2>1, <2>2
<1>7. CASE ring[1].t = "data" /\ ring[1].sid = s
  <2>1. DataFrom(s, 1) = DataFrom(s, 2) \cup {1} /\ 1 \notin DataFrom(s, 2)
    BY <1>1, <1>7 DEF DataFrom
  <2>2. Cardinality(DataFrom(s, 1)) = Cardinality(DataFrom(s, 2)) + 1
    BY <1>4, <2>1, FS_AddElement
  <2>3. Sent(s)' = Sent(s) + 1
    BY SMTT(40), <1>4, <1>5, <2>2
  <2> QED BY <1>3, <1>7, <2>2, <2>3
<1> QED BY <1>6, <1>7

\* The ring with an event that is no output, or with a chunk.
LEMMA DataAppend ==
  ASSUME Shape, NEW e \in DataEvents \cup ClosedEvents, ring' = Append(ring, e), NEW s \in Sids
  PROVE  /\ ~(e.t = "data" /\ e.sid = s) => \A i \in Nat : DataFrom(s, i)' = DataFrom(s, i)
         /\ e.t = "data" /\ e.sid = s =>
              /\ \A i \in 1 .. Len(ring) + 1 :
                   Cardinality(DataFrom(s, i)') = Cardinality(DataFrom(s, i)) + 1
              /\ Cardinality(DataFrom(s, Len(ring) + 1)) = 0
<1>1. /\ Len(ring) \in Nat /\ DOMAIN ring = 1 .. Len(ring) /\ DOMAIN ring' = 1 .. Len(ring) + 1
      /\ \A i \in 1 .. Len(ring) : ring'[i] = ring[i]
      /\ ring'[Len(ring) + 1] = e
  BY RingGrows
<1>2. \A i \in Nat : DataFrom(s, i)' = {j \in DOMAIN ring' : j >= i /\ ring'[j].t = "data" /\ ring'[j].sid = s}
  BY DEF DataFrom
<1>3. CASE ~(e.t = "data" /\ e.sid = s)
  <2>1. \A i \in Nat : DataFrom(s, i)' = DataFrom(s, i)
    BY <1>1, <1>2, <1>3 DEF DataFrom
  <2> QED BY <1>3, <2>1
<1>4. CASE e.t = "data" /\ e.sid = s
  <2>1. ASSUME NEW i \in 1 .. Len(ring) + 1
        PROVE  /\ DataFrom(s, i)' = DataFrom(s, i) \cup {Len(ring) + 1}
               /\ Len(ring) + 1 \notin DataFrom(s, i)
    BY <1>1, <1>2, <1>4 DEF DataFrom
  <2>2. \A i \in 1 .. Len(ring) + 1 :
          Cardinality(DataFrom(s, i)') = Cardinality(DataFrom(s, i)) + 1
    BY <2>1, DataFacts, FS_AddElement
  <2>4. Cardinality(DataFrom(s, Len(ring) + 1)) = 0
    <3>1. DataFrom(s, Len(ring) + 1) = {}
      BY <1>1 DEF DataFrom
    <3> QED BY <3>1, FS_EmptySet
  <2> QED BY <1>4, <2>2, <2>4
<1> QED BY <1>3, <1>4

-----------------------------------------------------------------------------
(* Steps that leave the screen and the prebuffer alone.                     *)

LEMMA SameRing ==
  ASSUME RingInv, UNCHANGED <<ring, printed>>,
         \A s \in Sids : life'[s] = "none" => life[s] = "none" /\ (s \in mounted' => s \in mounted)
  PROVE  /\ RingInv'
         /\ \A s \in Sids : Sent(s)' = Sent(s) /\ DataFrom(s, 1)' = DataFrom(s, 1)
<1>1. \A s \in Sids : Sent(s)' = Sent(s)
  BY DEF Sent
<1>2. \A s \in Sids : \A i \in Nat \cup DOMAIN ring : DataFrom(s, i)' = DataFrom(s, i)
  BY DEF DataFrom
<1>3. \A i, j \in DOMAIN ring' :
        i < j /\ ring'[i].t = "closed" /\ ring'[i].sid = ring'[j].sid => ring'[j].t = "closed"
  BY DEF RingInv
<1>4. ASSUME NEW s \in Sids
      PROVE  /\ \A i \in DOMAIN ring' : ring'[i].t = "data" /\ ring'[i].sid = s =>
                  ring'[i].x + Cardinality(DataFrom(s, i)') = printed'[s] + 1
             /\ life'[s] = "none" => printed'[s] = 0 /\ s \notin mounted'
             /\ Sent(s)' \in Nat
  <2>1. ASSUME NEW i \in DOMAIN ring', ring'[i].t = "data", ring'[i].sid = s
        PROVE  ring'[i].x + Cardinality(DataFrom(s, i)') = printed'[s] + 1
    <3>1. ring[i].x + Cardinality(DataFrom(s, i)) = printed[s] + 1
      BY <2>1 DEF RingInv
    <3>2. DataFrom(s, i)' = DataFrom(s, i)
      BY <1>2
    <3> QED BY <3>1, <3>2
  <2> QED BY <1>1, <2>1 DEF RingInv
<1>5. RingInv'
  BY <1>3, <1>4 DEF RingInv
<1> QED BY <1>1, <1>2, <1>5

\* An event that is no output of a session joins the ring.
LEMMA MoreRing ==
  ASSUME Shape, RingInv, NEW e \in ClosedEvents, ring' = Append(ring, e), UNCHANGED <<printed, mounted>>,
         \A s \in Sids : life'[s] = "none" => life[s] = "none"
  PROVE  /\ RingInv'
         /\ \A s \in Sids : Sent(s)' = Sent(s) /\ DataFrom(s, 1)' = DataFrom(s, 1)
<1>0. e \in DataEvents \cup ClosedEvents /\ e.t = "closed"
  BY DEF ClosedEvents
<1>1. /\ Len(ring) \in Nat /\ DOMAIN ring = 1 .. Len(ring) /\ DOMAIN ring' = 1 .. Len(ring) + 1
      /\ \A i \in 1 .. Len(ring) : ring'[i] = ring[i]
      /\ ring'[Len(ring) + 1] = e
  BY <1>0, RingGrows
<1>2. \A s \in Sids : \A i \in Nat : DataFrom(s, i)' = DataFrom(s, i)
  BY <1>0, DataAppend
<1>3. \A s \in Sids : Sent(s)' = Sent(s)
  <2> SUFFICES ASSUME NEW s \in Sids PROVE Sent(s)' = Sent(s)
    OBVIOUS
  <2>1. {j \in DOMAIN ring' : ring'[j].t = "data" /\ ring'[j].sid = s}
          = {j \in DOMAIN ring : ring[j].t = "data" /\ ring[j].sid = s}
    BY <1>0, <1>1
  <2> QED BY <2>1 DEF Sent
<1>4. ASSUME NEW i \in DOMAIN ring', NEW j \in DOMAIN ring',
             i < j, ring'[i].t = "closed", ring'[i].sid = ring'[j].sid
      PROVE  ring'[j].t = "closed"
  <2>1. CASE j = Len(ring) + 1
    BY <1>0, <1>1, <2>1
  <2>2. CASE j # Len(ring) + 1
    <3>1. j \in DOMAIN ring /\ i \in DOMAIN ring
      BY <1>1, <1>4, <2>2
    <3> QED BY <1>1, <1>4, <3>1 DEF RingInv
  <2> QED BY <2>1, <2>2
<1>5. ASSUME NEW s \in Sids
      PROVE  /\ \A i \in DOMAIN ring' : ring'[i].t = "data" /\ ring'[i].sid = s =>
                  ring'[i].x + Cardinality(DataFrom(s, i)') = printed'[s] + 1
             /\ life'[s] = "none" => printed'[s] = 0 /\ s \notin mounted'
             /\ Sent(s)' \in Nat
  <2>1. ASSUME NEW i \in DOMAIN ring', ring'[i].t = "data", ring'[i].sid = s
        PROVE  ring'[i].x + Cardinality(DataFrom(s, i)') = printed'[s] + 1
    <3>1. i \in DOMAIN ring /\ ring'[i] = ring[i] /\ i \in Nat
      BY <1>0, <1>1, <2>1
    <3> QED BY <1>2, <2>1, <3>1 DEF RingInv
  <2> QED BY <1>3, <2>1 DEF RingInv
<1>6. RingInv'
  BY <1>4, <1>5 DEF RingInv
<1> QED BY <1>2, <1>3, <1>6

Steady(s) ==
  /\ Sent(s)' = Sent(s) /\ (life'[s] = "lost" <=> life[s] = "lost")
  /\ life[s] # "live" /\ DataFrom(s, 1) = {} =>
       Sent(s) = 0 \/ (life'[s] # "live" /\ DataFrom(s, 1)' = {})

LEMMA SteadyKeeps ==
  ASSUME PreInv, TermInv, ui'.term = ui.term, UNCHANGED <<pre, mounted, trimmed>>,
         \A s \in Sids : Steady(s),
         \A c \in pending : c.id = ui.term.hyd => c \in pending',
         \A s \in Sids : \A i \in DOMAIN busy' :
           ui.term.sid = s /\ ui.term.hyd # NoCall /\ busy'[i].id = ui.term.hyd /\ busy'[i].ok =>
             busy'[i].x >= Sent(s) /\ life'[s] # "lost"
  PROVE  PreInv' /\ TermInv'
<1>1. ASSUME NEW s \in Sids PROVE PreOK(s)'
  BY DEF PreInv, PreOK, Steady
<1>2. ASSUME NEW s \in Sids, ui.term.sid = s, ui.term.hyd # NoCall PROVE Waits(ui.term, s)'
  <2>1. Waits(ui.term, s)
    BY <1>2 DEF TermInv
  <2> QED BY <1>2, <2>1 DEF Waits, Steady
<1>3. ASSUME NEW s \in Sids, ui.term.sid = s, ui.term.hyd = NoCall PROVE Paints(ui.term, s)'
  <2>1. Paints(ui.term, s)
    BY <1>3 DEF TermInv
  <2> QED BY <1>3, <2>1 DEF Paints, Steady
<1> QED BY <1>1, <1>2, <1>3 DEF PreInv, TermInv

LEMMA QuietKeeps ==
  ASSUME ScreensIInv, UNCHANGED <<life, printed, ring, mounted, pre, trimmed>>, ui'.term = ui.term,
         \A c \in pending : c.id = ui.term.hyd => c \in pending', busy' = busy \/ busy' = <<>>
  PROVE  ScreensIInv'
<1> USE DEF ScreensIInv
<1>1. /\ RingInv'
      /\ \A s \in Sids : Sent(s)' = Sent(s) /\ DataFrom(s, 1)' = DataFrom(s, 1)
  <2>1. \A s \in Sids : life'[s] = "none" => life[s] = "none" /\ (s \in mounted' => s \in mounted)
    OBVIOUS
  <2> QED BY <2>1, SameRing
<1>2. \A s \in Sids : Steady(s)
  BY <1>1 DEF Steady
<1>3. ASSUME NEW s \in Sids, NEW i \in DOMAIN busy', ui.term.sid = s, ui.term.hyd # NoCall,
             busy'[i].id = ui.term.hyd, busy'[i].ok
      PROVE  busy'[i].x >= Sent(s) /\ life'[s] # "lost"
  <2>1. busy' = busy
    BY <1>3
  <2> QED BY <1>3, <2>1 DEF TermInv, Waits
<1> QED BY <1>1, <1>2, <1>3, SteadyKeeps

LEMMA ReturnedTerm ==
  ASSUME NEW u \in Pages, NEW c \in CallRecs, NEW ok, NEW x
  PROVE  Returned(u, c, ok, x).term =
           IF c.op = "scrollback" /\ u.term.hyd = c.id THEN Hydrated(u.term, ok, x) ELSE u.term
<1> DEFINE Fields == {"tabs", "active", "fresh", "pane", "connect", "reconnecting",
                      "userClosed", "crossed", "term"}
           Is(v) == DOMAIN v = Fields /\ v.term = u.term
<1>0. Is(u) /\ c.op \in Ops
  BY DEF Pages, CallRecs
<1>1. \A v : Is(v) => Is(AttachSession(v, x)) /\ Is(MarkDisconnected(v, c.sid))
                       /\ Is(Show(v, c.pane, x)) /\ Is(NewTabPane(v))
  BY DEF AttachSession, MarkDisconnected, Show, NewTabPane
<1>2. \A v, S : Is(v) => Is(Crossed(v, S))
  BY DEF Crossed
<1>3. \A v, p : Is(v) => Is(Without(v, p, "first"))
  BY DEF Without, NewTabPane
<1>4. CASE c.op \in {"open", "local"}
  BY <1>0, <1>1, <1>4 DEF Returned, OpenReturned
<1>5. CASE c.op = "closePane"
  BY <1>0, <1>2, <1>3, <1>5 DEF Returned, ClosePaneReturned
<1>6. CASE c.op \in {"closeTab", "disconnect"}
  BY <1>0, <1>1, <1>6 DEF Returned
<1>7. CASE c.op = "reconnect"
  BY <1>0, <1>1, <1>2, <1>7 DEF Returned, ReconnectReturned
<1>8. CASE c.op = "scrollback"
  BY <1>0, <1>8 DEF Returned
<1> QED BY <1>0, <1>4, <1>5, <1>6, <1>7, <1>8 DEF Ops

LEMMA ReturnScreens ==
  ASSUME PanesIInv, ScreensIInv, NEW c \in pending, NEW ok \in BOOLEAN, NEW x \in Nat,
         pending' = pending \ {c}, ui' = Returned(ui, c, ok, x),
         UNCHANGED <<life, printed, ring, mounted, pre, trimmed>>,
         \/ ~ok /\ busy' = busy
         \/ busy' = <<>> /\ busy # <<>> /\ busy[1].id = c.id /\ busy[1].ok = ok /\ busy[1].x = x
  PROVE  ScreensIInv'
<1>1. ui \in Pages /\ c \in CallRecs /\ ui.term \in Terms /\ c \in InFlight
  BY PageTypes DEF PanesIInv, Shape, InFlight
<1>2. ui'.term = IF c.op = "scrollback" /\ ui.term.hyd = c.id THEN Hydrated(ui.term, ok, x) ELSE ui.term
  BY <1>1, ReturnedTerm
<1>3. busy' = busy \/ busy' = <<>>
  OBVIOUS
<1>4. CASE ~(c.op = "scrollback" /\ ui.term.hyd = c.id)
  <2>1. \A d \in pending : d.id = ui.term.hyd => d \in pending'
    BY <1>4 DEF PanesIInv, IdsInv
  <2> QED BY <1>2, <1>3, <1>4, <2>1, QuietKeeps
<1>5. CASE c.op = "scrollback" /\ ui.term.hyd = c.id
  <2>0. PICK t : t = ui.term
    OBVIOUS
  <2>1. t \in Terms /\ t.hyd # NoCall /\ ui'.term = Hydrated(t, ok, x) /\ t.sid \in Sids
    <3>1. c.id # NoCall /\ c.sid = ui.term.sid /\ c.sid \in Sids
      BY <1>1, <1>5, CallTypes DEF NoCall, PanesIInv, IdsInv
    <3> QED BY <1>1, <1>2, <1>5, <2>0, <3>1
  <2>2. PICK h : h = Hydrated(t, ok, x)
    OBVIOUS
  <2>3. /\ h \in Terms /\ ui'.term = h /\ h.hyd = NoCall /\ h.queue = <<>> /\ h.failed = ~ok
        /\ h.sid = t.sid /\ h.again = t.again
        /\ h.screen = t.screen \o (IF ok THEN [n \in 1 .. x |-> n] ELSE <<>>) \o t.queue
    BY ZenonT(60), <2>1, <2>2, HydratedIs
  <2>4. PICK s \in Sids : s = t.sid
    BY <2>1
  <2>5. Waits(t, s)
    BY <2>0, <2>1, <2>4 DEF ScreensIInv, TermInv
  <2>6. /\ t.screen = <<>> /\ t.queue \in Seq(Nat) /\ Stepwise(t.queue)
        /\ life[s] # "lost" /\ t.queue # <<>> => Sent(s) > 0 /\ EndsAt(t.queue, Sent(s))
        /\ ok => x >= Sent(s) /\ life[s] # "lost"
    <3>1. ok => 1 \in DOMAIN busy /\ busy[1].id = t.hyd /\ busy[1].ok /\ busy[1].x = x
      <4>1. ok => busy # <<>> /\ busy[1].id = c.id /\ busy[1].ok = ok /\ busy[1].x = x
        OBVIOUS
      <4>2. busy # <<>> => DOMAIN busy = {1} /\ busy[1].ok \in BOOLEAN
        BY AnswerFacts DEF PanesIInv
      <4> QED BY <1>5, <2>0, <4>1, <4>2
    <3> QED BY <2>1, <2>5, <3>1 DEF Waits, Terms
  <2>7. RingInv' /\ \A r \in Sids : Sent(r)' = Sent(r) /\ DataFrom(r, 1)' = DataFrom(r, 1)
    <3>1. \A r \in Sids : life'[r] = "none" => life[r] = "none" /\ (r \in mounted' => r \in mounted)
      OBVIOUS
    <3> QED BY <3>1, SameRing DEF ScreensIInv
  <2>8. PreInv'
    <3>1. ui'.term.sid = ui.term.sid
      BY <2>0, <2>3
    <3> QED BY <2>7, <3>1 DEF ScreensIInv, PreInv, PreOK
  <2>9. Sent(s) \in Nat
    BY DEF ScreensIInv, RingInv
  <2>10. Painting(h.screen) /\ (life[s] # "lost" => Shows(h.screen, Sent(s)) \/ (h.screen = <<>> /\ h.failed))
         /\ (h.screen # <<>> /\ h.screen[1] # 1 => h.failed)
    <3>1. CASE ok
      <4>1. [n \in 1 .. x |-> n] \in Seq(Nat)
        OBVIOUS
      <4>2. h.screen = [n \in 1 .. x |-> n] \o t.queue
        BY <2>3, <2>6, <3>1, <4>1
      <4>3. PICK n \in Nat : n = Sent(s)
        BY <2>9
      <4>4. Painting(h.screen) /\ Shows(h.screen, n) /\ (h.screen # <<>> => h.screen[1] = 1)
        <5>1. t.queue # <<>> => n > 0 /\ EndsAt(t.queue, n)
          BY <2>6, <3>1, <4>3
        <5>2. n <= x
          BY <2>6, <3>1, <4>3
        <5> QED BY <2>6, <4>2, <5>1, <5>2, PaintAll
      <4> QED BY <4>3, <4>4
    <3>2. CASE ~ok
      <4>1. h.screen = t.queue /\ h.failed
        <5>1. h.screen = (<<>> \o <<>>) \o t.queue
          BY <2>3, <2>6, <3>2
        <5>2. <<>> \o <<>> = <<>> /\ <<>> \o t.queue = t.queue
          BY <2>6
        <5> QED BY <2>3, <3>2, <5>1, <5>2
      <4>2. Painting(h.screen)
        BY <2>6, <4>1, RunPaints
      <4> QED BY <2>6, <4>1, <4>2 DEF Shows, EndsAt
    <3> QED BY <3>1, <3>2
  <2>11. Paints(h, s)'
    BY <2>3, <2>7, <2>10 DEF Paints
  <2>12. TermInv'
    BY <2>3, <2>4, <2>11 DEF TermInv
  <2> QED BY <2>7, <2>8, <2>12 DEF ScreensIInv
<1> QED BY <1>4, <1>5

LEMMA GivenUpScreens ==
  ASSUME PanesIInv, ScreensIInv, NEW c \in pending, Timeout(c) \/ Refused(c) PROVE ScreensIInv'
<1>1. /\ pending' = pending \ {c} /\ ui' = Returned(ui, c, FALSE, 0)
      /\ UNCHANGED <<life, printed, ring, busy, mounted, pre, trimmed>>
  BY DEF Timeout, Refused, daemonVars, wireVars, noteVars, countVars
<1>2. PICK ok \in BOOLEAN, x \in Nat : ~ok /\ ok = FALSE /\ x = 0
  OBVIOUS
<1>3. ui' = Returned(ui, c, ok, x)
  BY <1>1, <1>2
<1> QED BY <1>1, <1>2, <1>3, ReturnScreens

LEMMA RespondScreens ==
  ASSUME PanesIInv, ScreensIInv, Respond PROVE ScreensIInv'
<1>1. CASE \E c \in pending : c.id = busy[1].id
  <2> DEFINE c == CHOOSE d \in pending : d.id = busy[1].id
  <2>1. /\ busy # <<>> /\ busy' = <<>> /\ pending' = pending \ {c}
        /\ ui' = Returned(ui, c, busy[1].ok, busy[1].x)
        /\ UNCHANGED <<life, printed, ring, mounted, pre, trimmed>>
    BY <1>1 DEF Respond, Answered, wireVars, countVars
  <2>2. c \in pending /\ c.id = busy[1].id
    BY <1>1
  <2>3. busy[1].ok \in BOOLEAN /\ busy[1].x \in Nat
    BY <2>1, AnswerFacts DEF PanesIInv
  <2> HIDE DEF c
  <2> QED BY <2>1, <2>2, <2>3, ReturnScreens
<1>2. CASE ~\E c \in pending : c.id = busy[1].id
  <2>1. /\ busy' = <<>> /\ UNCHANGED <<life, printed, ring, mounted, pre, trimmed, pending, ui>>
    BY <1>2 DEF Respond, Answered, wireVars, countVars
  <2> QED BY <2>1, QuietKeeps
<1> QED BY <1>1, <1>2

LEMMA ClicksScreens ==
  ASSUME PanesIInv, ScreensIInv, Clicks PROVE ScreensIInv'
<1>1. ui \in Pages
  BY DEF PanesIInv, Shape
<1> DEFINE Fields == {"tabs", "active", "fresh", "pane", "connect", "reconnecting",
                      "userClosed", "crossed", "term"}
           Is(v) == DOMAIN v = Fields /\ v.term = ui.term
<1>2. Is(ui)
  BY <1>1 DEF Pages
<1>3. \A v, s : Is(v) => Is(NoteUserClosed(v, s))
  BY DEF NoteUserClosed
<1>4. \A v, p : Is(v) => Is(Without(v, p, "first")) /\ Is(Without(v, p, "last"))
  BY DEF Without, NewTabPane
<1>5. \A c \in Aborted : c.op = "open"
  BY DEF PanesIInv, IdsInv, Aborted
<1>6. \A c \in pending : c.id = ui.term.hyd => c.op = "scrollback"
  BY DEF PanesIInv, IdsInv
<1>7. \A c, u : Await(c, u) => /\ UNCHANGED <<life, printed, ring, mounted, pre, trimmed, busy>>
                               /\ pending \subseteq pending' /\ ui' = u
  BY DEF Await, Send, daemonVars, noteVars
<1>8. /\ UNCHANGED <<life, printed, ring, mounted, pre, trimmed, busy>>
      /\ pending \ Aborted \subseteq pending' /\ Is(ui')
  <2>1. CASE OpenSession
    BY <1>2, <2>1 DEF OpenSession, Send, daemonVars, noteVars
  <2>2. CASE CancelInFlightConnect
    BY <1>2, <2>2 DEF CancelInFlightConnect, daemonVars, noteVars
  <2>3. CASE OpenLocal
    BY <1>2, <1>7, <2>3 DEF OpenLocal
  <2>4. CASE ClosePane
    BY <1>2, <1>3, <1>4, <1>7, <2>4 DEF ClosePane, daemonVars, noteVars
  <2>5. CASE DisconnectPane
    BY <1>2, <1>3, <1>7, <2>5 DEF DisconnectPane
  <2>6. CASE ReconnectPane
    BY <1>2, <1>7, <2>6 DEF ReconnectPane
  <2>7. ASSUME NEW p \in ToSet(ui.tabs), CloseTab(p)
        PROVE  /\ UNCHANGED <<life, printed, ring, mounted, pre, trimmed, busy>>
               /\ pending \ Aborted \subseteq pending' /\ Is(ui')
    BY <1>2, <1>3, <1>4, <1>7, <2>7 DEF CloseTab, daemonVars, noteVars
  <2>8. ASSUME NEW p \in ToSet(ui.tabs), ActivateTab(p)
        PROVE  /\ UNCHANGED <<life, printed, ring, mounted, pre, trimmed, busy>>
               /\ pending \ Aborted \subseteq pending' /\ Is(ui')
    BY <1>2, <2>8 DEF ActivateTab, daemonVars, noteVars
  <2> QED BY <2>1, <2>2, <2>3, <2>4, <2>5, <2>6, <2>7, <2>8 DEF Clicks
<1>9. \A c \in pending : c.id = ui.term.hyd => c \in pending'
  BY <1>5, <1>6, <1>8
<1> QED BY <1>8, <1>9, QuietKeeps

-----------------------------------------------------------------------------
(* The screen while the daemon goes on, stops and starts again.             *)

LEMMA InitScreens == Init => ScreensIInv
<1> SUFFICES ASSUME Init PROVE ScreensIInv
  OBVIOUS
<1>1. /\ \A s \in Sids : life[s] = "none" /\ printed[s] = 0 /\ pre[s] = <<>>
      /\ ring = <<>> /\ mounted = {} /\ ui.term.sid = NoSid
  BY DEF Init, NoTerm
<1>2. DOMAIN ring = {} /\ \A s : DataFrom(s, 1) = {}
  BY <1>1 DEF DataFrom
<1>3. \A s \in Sids : Sent(s) = 0
  BY <1>1, <1>2, FS_EmptySet DEF Sent
<1>4. RingInv
  BY <1>1, <1>2, <1>3 DEF RingInv
<1>5. \A s \in Sids : Stepwise(pre[s]) /\ EndsAt(pre[s], Sent(s)) /\ s # NoSid
  BY <1>1, SidsFacts DEF Stepwise, EndsAt, NoSid
<1>6. PreInv /\ TermInv
  BY <1>1, <1>3, <1>5 DEF PreInv, PreOK, TermInv
<1> QED BY <1>4, <1>6 DEF ScreensIInv

LEMMA OnCloseScreens ==
  ASSUME PanesIInv, ScreensIInv, OnClose PROVE ScreensIInv'
<1> USE DEF ScreensIInv
<1>1. /\ sock = "cut" /\ pre' = [s \in Sids |-> <<>>]
      /\ UNCHANGED <<life, printed, ring, busy, pending, ui, mounted, trimmed>>
  BY DEF OnClose, daemonVars, noteVars
<1>2. ring = <<>> /\ \A s \in Sids : life[s] # "live"
  BY <1>1 DEF PanesIInv, DaemonInv, Gone
<1>3. /\ RingInv'
      /\ \A s \in Sids : Sent(s)' = Sent(s) /\ DataFrom(s, 1)' = DataFrom(s, 1)
  <2>1. \A s \in Sids : life'[s] = "none" => life[s] = "none" /\ (s \in mounted' => s \in mounted)
    BY <1>1
  <2> QED BY <1>1, <2>1, SameRing
<1>4. \A s \in Sids : DataFrom(s, 1)' = {}
  BY <1>2, <1>3 DEF DataFrom
<1>5. ASSUME NEW s \in Sids PROVE PreOK(s)'
  <2>1. pre'[s] = <<>> /\ Stepwise(pre'[s]) /\ EndsAt(pre'[s], Sent(s)')
    BY <1>1 DEF Stepwise, EndsAt
  <2> QED BY <1>1, <1>2, <1>4, <2>1 DEF PreOK
<1>6. TermInv'
  BY <1>1, <1>3 DEF TermInv, Waits, Paints
<1> QED BY <1>1, <1>3, <1>5, <1>6 DEF PreInv

LEMMA PrintChunkScreens ==
  ASSUME PanesIInv, ScreensIInv, NEW s \in Sids, PrintChunk(s) PROVE ScreensIInv'
<1> USE DEF ScreensIInv
<1> DEFINE e == [t |-> "data", sid |-> s, x |-> printed[s] + 1]
<1>1. /\ life[s] = "live" /\ printed' = [printed EXCEPT ![s] = printed[s] + 1]
      /\ ring' = Append(ring, e)
      /\ UNCHANGED <<life, busy, pending, pre, ui, mounted, trimmed>>
  BY DEF PrintChunk, wireVars, pageVars, noteVars, countVars
<1>2. /\ Shape /\ printed[s] \in Nat /\ e \in DataEvents \cup ClosedEvents
      /\ e.t = "data" /\ e.sid = s /\ e.x = printed[s] + 1
      /\ \A r \in Sids : printed'[r] = IF r = s THEN printed[s] + 1 ELSE printed[r]
  BY <1>1 DEF PanesIInv, Shape, DataEvents
<1> HIDE DEF e
<1>3. /\ Len(ring) \in Nat /\ DOMAIN ring = 1 .. Len(ring) /\ DOMAIN ring' = 1 .. Len(ring) + 1
      /\ \A i \in 1 .. Len(ring) : ring'[i] = ring[i]
      /\ ring'[Len(ring) + 1] = e
  BY <1>1, <1>2, RingGrows
<1>4. \A r \in Sids : r # s => \A i \in Nat : DataFrom(r, i)' = DataFrom(r, i)
  BY <1>1, <1>2, DataAppend
<1>5. /\ \A i \in 1 .. Len(ring) + 1 :
           Cardinality(DataFrom(s, i)') = Cardinality(DataFrom(s, i)) + 1
      /\ Cardinality(DataFrom(s, Len(ring) + 1)) = 0
  BY <1>1, <1>2, DataAppend
<1>6. ASSUME NEW r \in Sids PROVE Sent(r)' = Sent(r)
  <2>1. {j \in DOMAIN ring' : ring'[j].t = "data" /\ ring'[j].sid = r} = DataFrom(r, 1)'
    BY <1>3 DEF DataFrom
  <2>2. Sent(r)' = printed'[r] - Cardinality(DataFrom(r, 1)')
    BY <2>1 DEF Sent
  <2>3. Sent(r) = printed[r] - Cardinality(DataFrom(r, 1)) /\ Cardinality(DataFrom(r, 1)) \in Nat
    BY <1>2, DataFacts
  <2>4. CASE r = s
    <3>1. Cardinality(DataFrom(s, 1)') = Cardinality(DataFrom(s, 1)) + 1
      <4>1. 1 \in 1 .. Len(ring) + 1
        BY <1>3
      <4> QED BY <1>5, <4>1
    <3> QED BY <1>2, <2>2, <2>3, <2>4, <3>1
  <2>5. CASE r # s
    <3>1. DataFrom(r, 1)' = DataFrom(r, 1)
      BY <1>4, <2>5
    <3> QED BY <1>2, <2>2, <2>3, <2>5, <3>1
  <2> QED BY <2>4, <2>5
<1>7. ASSUME NEW i \in DOMAIN ring', NEW j \in DOMAIN ring',
             i < j, ring'[i].t = "closed", ring'[i].sid = ring'[j].sid
      PROVE  ring'[j].t = "closed"
  <2>1. i \in DOMAIN ring
    BY <1>3, <1>7
  <2>2. ring[i].t = "closed" /\ ring[i].sid # s
    BY <1>1, <1>3, <1>7, <2>1 DEF PanesIInv, DaemonInv
  <2>3. j \in DOMAIN ring
    BY <1>2, <1>3, <1>7, <2>1, <2>2
  <2> QED BY <1>3, <1>7, <2>1, <2>3 DEF RingInv
<1>8. ASSUME NEW r \in Sids, NEW i \in DOMAIN ring', ring'[i].t = "data", ring'[i].sid = r
      PROVE  ring'[i].x + Cardinality(DataFrom(r, i)') = printed'[r] + 1
  <2>1. CASE i \in DOMAIN ring
    <3>1. ring[i].x + Cardinality(DataFrom(r, i)) = printed[r] + 1 /\ ring'[i] = ring[i]
      BY <1>3, <1>8, <2>1 DEF RingInv
    <3>2. CASE r = s
      <4>1. Cardinality(DataFrom(s, i)') = Cardinality(DataFrom(s, i)) + 1
        BY <1>3, <1>5, <2>1
      <4>2. Cardinality(DataFrom(s, i)) \in Nat /\ ring[i].x \in Nat
        <5>1. ring[i] \in DataEvents
          BY SMTT(40), <1>2, <1>8, <2>1, <3>1 DEF Shape, DataEvents, ClosedEvents
        <5> QED BY <1>2, <5>1, DataFacts DEF DataEvents
      <4> QED BY <1>2, <3>1, <3>2, <4>1, <4>2
    <3>3. CASE r # s
      <4>1. DataFrom(r, i)' = DataFrom(r, i)
        BY <1>3, <1>4, <2>1, <3>3
      <4> QED BY <1>2, <3>1, <3>3, <4>1
    <3> QED BY <3>2, <3>3
  <2>2. CASE i \notin DOMAIN ring
    <3>1. i = Len(ring) + 1 /\ ring'[i] = e /\ r = s
      BY <1>2, <1>3, <1>8, <2>2
    <3>2. Cardinality(DataFrom(s, i)) = 0 /\ Cardinality(DataFrom(s, i)') = Cardinality(DataFrom(s, i)) + 1
      BY <1>3, <1>5, <3>1
    <3> QED BY <1>2, <3>1, <3>2
  <2> QED BY <2>1, <2>2
<1>9. ASSUME NEW r \in Sids
      PROVE  /\ life'[r] = "none" => printed'[r] = 0 /\ r \notin mounted'
             /\ Sent(r)' \in Nat
  BY <1>1, <1>2, <1>6 DEF RingInv
<1>10. RingInv'
  BY <1>7, <1>8, <1>9 DEF RingInv
<1>11. ASSUME NEW r \in Sids PROVE Steady(r)
  <2>1. CASE r = s
    BY <1>1, <1>6, <2>1 DEF Steady
  <2>2. CASE r # s
    <3>1. DataFrom(r, 1)' = DataFrom(r, 1)
      BY <1>4, <2>2
    <3> QED BY <1>1, <1>6, <3>1 DEF Steady
  <2> QED BY <2>1, <2>2
<1>12. ASSUME NEW r \in Sids, NEW i \in DOMAIN busy', ui.term.sid = r, ui.term.hyd # NoCall,
              busy'[i].id = ui.term.hyd, busy'[i].ok
       PROVE  busy'[i].x >= Sent(r) /\ life'[r] # "lost"
  BY <1>1, <1>12 DEF TermInv, Waits
<1> QED BY <1>1, <1>10, <1>11, <1>12, SteadyKeeps

LEMMA DropScreens ==
  ASSUME PanesIInv, ScreensIInv, NEW s \in Sids, Drop(s) PROVE ScreensIInv'
<1> USE DEF ScreensIInv
<1> DEFINE e == ClosedEvent(s, "dropped")
<1>1. /\ life[s] = "live" /\ life' = [life EXCEPT ![s] = "dropped"]
      /\ ring' = Append(ring, e)
      /\ UNCHANGED <<printed, busy, pending, pre, ui, mounted, trimmed>>
  BY DEF Drop, wireVars, pageVars, noteVars, countVars
<1>2. e \in ClosedEvents /\ Shape
  BY DEF ClosedEvents, ClosedEvent, PanesIInv
<1> HIDE DEF e
<1>3. \A r \in Sids : life'[r] = IF r = s THEN "dropped" ELSE life[r]
  BY <1>1, <1>2 DEF Shape
<1>4. /\ RingInv'
      /\ \A r \in Sids : Sent(r)' = Sent(r) /\ DataFrom(r, 1)' = DataFrom(r, 1)
  <2>1. \A r \in Sids : life'[r] = "none" => life[r] = "none"
    BY <1>3
  <2> QED BY <1>1, <1>2, <2>1, MoreRing
<1>5. \A r \in Sids : Steady(r)
  BY <1>1, <1>3, <1>4 DEF Steady
<1>6. ASSUME NEW r \in Sids, NEW i \in DOMAIN busy', ui.term.sid = r, ui.term.hyd # NoCall,
             busy'[i].id = ui.term.hyd, busy'[i].ok
      PROVE  busy'[i].x >= Sent(r) /\ life'[r] # "lost"
  BY <1>1, <1>3, <1>6 DEF TermInv, Waits
<1> QED BY <1>1, <1>4, <1>5, <1>6, SteadyKeeps

LEMMA RequestScreens ==
  ASSUME PanesIInv, ScreensIInv, Request PROVE ScreensIInv'
<1> USE DEF ScreensIInv
<1>1. /\ up # <<>> /\ Serve(Head(up))
      /\ UNCHANGED <<printed, pending, pre, ui, mounted, trimmed>>
  BY DEF Request, pageVars, noteVars
<1>2. PICK c : c = Head(up)
  OBVIOUS
<1>3. PICK a \in Answers, old \in {NoSid} \cup Sids, new \in {NoSid} \cup Sids : Served(c, a, old, new)
  BY <1>1, <1>2, ServeIs
<1>4. c \in ToSet(up) /\ c \in InFlight
  BY <1>1, <1>2 DEF PanesIInv, Shape, ToSet, InFlight
<1>5. NoSid \notin Sids /\ Shape
  BY SidsFacts DEF NoSid, PanesIInv
<1>6. \A s \in Sids : life'[s] = IF s = new THEN "live" ELSE IF s = old THEN "closed" ELSE life[s]
  BY <1>3 DEF Served
<1>7. /\ new \in Sids => life[new] = "none"
      /\ old \in Sids => Mapped(old)
  BY <1>3 DEF Served
<1>8. /\ RingInv'
      /\ \A s \in Sids : Sent(s)' = Sent(s) /\ DataFrom(s, 1)' = DataFrom(s, 1)
  <2>1. \A s \in Sids : life'[s] = "none" => life[s] = "none"
    BY <1>6
  <2>2. CASE old \in Sids
    <3>1. PICK why \in {"closed", "dropped"} : why = "closed"
      OBVIOUS
    <3>2. PICK e : e = ClosedEvent(old, why)
      OBVIOUS
    <3>3. e \in ClosedEvents
      BY <2>2, <3>2 DEF ClosedEvent, ClosedEvents
    <3>4. ring' = Append(ring, e)
      BY <1>3, <2>2, <3>1, <3>2 DEF Served
    <3> QED BY <1>1, <1>5, <2>1, <3>3, <3>4, MoreRing
  <2>3. CASE old \notin Sids
    <3>1. ring' = ring
      BY <1>3, <2>3 DEF Served
    <3>2. \A s \in Sids : life'[s] = "none" => life[s] = "none" /\ (s \in mounted' => s \in mounted)
      BY <1>1, <2>1
    <3> QED BY <1>1, <3>1, <3>2, SameRing
  <2> QED BY <2>2, <2>3
<1>9. ASSUME NEW s \in Sids PROVE Steady(s)
  <2>1. life'[s] = "lost" <=> life[s] = "lost"
    BY <1>6, <1>7 DEF Mapped
  <2>2. CASE s = new
    <3>1. printed[s] = 0 /\ Sent(s) \in Nat
      BY <1>7, <2>2 DEF RingInv
    <3>2. Cardinality(DataFrom(s, 1)) \in Nat /\ Sent(s) = printed[s] - Cardinality(DataFrom(s, 1))
      BY <1>5, DataFacts
    <3>3. Sent(s) = 0
      BY <3>1, <3>2
    <3> QED BY <1>8, <2>1, <3>3 DEF Steady
  <2>3. CASE s # new
    <3>1. life[s] # "live" => life'[s] # "live"
      BY <1>6, <2>3
    <3> QED BY <1>8, <2>1, <3>1 DEF Steady
  <2> QED BY <2>2, <2>3
<1>10. ASSUME NEW s \in Sids, NEW i \in DOMAIN busy', ui.term.sid = s, ui.term.hyd # NoCall,
              busy'[i].id = ui.term.hyd, busy'[i].ok
       PROVE  busy'[i].x >= Sent(s) /\ life'[s] # "lost"
  <2>1. busy' = <<a>> /\ i = 1 /\ busy'[i] = a /\ a.id = c.id /\ a.op = c.op
    BY <1>3, <1>10 DEF Served
  <2>2. PICK d \in pending : d.id = ui.term.hyd
    BY <1>10 DEF TermInv, Waits
  <2>3. d = c /\ c.op = "scrollback" /\ c.sid = s
    BY <1>4, <1>10, <2>1, <2>2 DEF PanesIInv, IdsInv, InFlight
  <2>4. Mapped(s) /\ a.x = printed[s]
    BY <1>3, <1>10, <2>1, <2>3 DEF Served
  <2>5. printed[s] \in Nat /\ Cardinality(DataFrom(s, 1)) \in Nat
        /\ Sent(s) = printed[s] - Cardinality(DataFrom(s, 1))
    BY <1>5, DataFacts
  <2>6. life'[s] # "lost"
    BY <1>6, <2>4 DEF Mapped
  <2> QED BY <2>1, <2>4, <2>5, <2>6
<1> QED BY <1>1, <1>8, <1>9, <1>10, SteadyKeeps

LEMMA CrashScreens ==
  ASSUME PanesIInv, ScreensIInv, Crash PROVE ScreensIInv'
<1> USE DEF ScreensIInv
<1>1. /\ \A s \in Sids : life'[s] = IF life[s] = "none" THEN "none" ELSE "lost"
      /\ ring' = <<>> /\ busy' = <<>>
      /\ UNCHANGED <<printed, pending, pre, ui, mounted, trimmed>>
  BY DEF Crash, noteVars
<1>2. DOMAIN ring' = {} /\ \A s \in Sids : DataFrom(s, 1)' = {}
  BY <1>1 DEF DataFrom
<1>3. ASSUME NEW s \in Sids PROVE Sent(s)' = printed[s] /\ printed[s] \in Nat
  <2>1. {j \in DOMAIN ring' : ring'[j].t = "data" /\ ring'[j].sid = s} = {}
    BY <1>2
  <2>2. printed[s] \in Nat
    BY DEF PanesIInv, Shape
  <2>3. Sent(s)' = printed[s] - 0
    BY <1>1, <2>1, FS_EmptySet DEF Sent
  <2> QED BY <2>2, <2>3
<1>4. RingInv'
  BY <1>1, <1>2, <1>3 DEF RingInv
<1>5. ASSUME NEW s \in Sids, life[s] = "none" PROVE Sent(s) = 0 /\ Sent(s)' = 0
  <2>1. printed[s] = 0 /\ Sent(s) \in Nat
    BY <1>5 DEF RingInv
  <2>2. Cardinality(DataFrom(s, 1)) \in Nat /\ Sent(s) = printed[s] - Cardinality(DataFrom(s, 1))
    BY DataFacts DEF PanesIInv
  <2> QED BY <1>3, <2>1, <2>2
<1>6. ASSUME NEW s \in Sids PROVE PreOK(s)'
  <2>1. PreOK(s)
    BY DEF PreInv
  <2>2. CASE life[s] = "none"
    BY <1>1, <1>2, <1>5, <2>1, <2>2 DEF PreOK
  <2>3. CASE life[s] # "none"
    BY <1>1, <1>2, <2>1, <2>3 DEF PreOK
  <2> QED BY <2>2, <2>3
<1>7. ASSUME NEW s \in Sids, ui.term.sid = s PROVE life'[s] = "lost" /\ life[s] # "none"
  BY <1>1, <1>7, SidsFacts DEF PreInv, RingInv, NoSid
<1>8. ASSUME NEW s \in Sids, ui.term.sid = s, ui.term.hyd # NoCall PROVE Waits(ui.term, s)'
  <2>1. Waits(ui.term, s) /\ DOMAIN busy' = {}
    BY <1>1, <1>8 DEF TermInv
  <2> QED BY <1>1, <1>7, <1>8, <2>1 DEF Waits
<1>9. ASSUME NEW s \in Sids, ui.term.sid = s, ui.term.hyd = NoCall PROVE Paints(ui.term, s)'
  <2>1. Paints(ui.term, s)
    BY <1>9 DEF TermInv
  <2> QED BY <1>1, <1>7, <1>9, <2>1 DEF Paints
<1> QED BY <1>1, <1>4, <1>6, <1>8, <1>9 DEF PreInv, TermInv

-----------------------------------------------------------------------------
(* The screen when an event is told.                                        *)

LEMMA TailRing ==
  ASSUME Shape, RingInv, ring # <<>>, ring' = Tail(ring), UNCHANGED <<life, printed, mounted>>
  PROVE  RingInv'
<1>1. /\ Len(ring) \in Nat \ {0} /\ DOMAIN ring = 1 .. Len(ring)
      /\ DOMAIN ring' = 1 .. Len(ring) - 1
      /\ \A i \in 1 .. Len(ring) - 1 : ring'[i] = ring[i + 1]
  BY RingFacts
<1>2. ASSUME NEW i \in DOMAIN ring', NEW j \in DOMAIN ring',
             i < j, ring'[i].t = "closed", ring'[i].sid = ring'[j].sid
      PROVE  ring'[j].t = "closed"
  <2>1. i + 1 \in DOMAIN ring /\ j + 1 \in DOMAIN ring /\ i + 1 < j + 1
    BY <1>1, <1>2
  <2>2. ring'[i] = ring[i + 1] /\ ring'[j] = ring[j + 1]
    BY <1>1
  <2> QED BY <1>2, <2>1, <2>2 DEF RingInv
<1>3. ASSUME NEW s \in Sids, NEW i \in DOMAIN ring', ring'[i].t = "data", ring'[i].sid = s
      PROVE  ring'[i].x + Cardinality(DataFrom(s, i)') = printed'[s] + 1
  <2>1. i + 1 \in DOMAIN ring /\ ring'[i] = ring[i + 1] /\ i \in Nat \ {0}
    BY <1>1
  <2>2. Cardinality(DataFrom(s, i)') = Cardinality(DataFrom(s, i + 1))
    BY <2>1, DataTail
  <2>3. ring[i + 1].x + Cardinality(DataFrom(s, i + 1)) = printed[s] + 1
    BY <1>3, <2>1 DEF RingInv
  <2> QED BY <2>1, <2>2, <2>3
<1>4. ASSUME NEW s \in Sids PROVE Sent(s)' \in Nat
  <2>1. Sent(s) \in Nat
    BY DEF RingInv
  <2>2. Sent(s)' = Sent(s) \/ Sent(s)' = Sent(s) + 1
    BY DataTail
  <2> QED BY <2>1, <2>2
<1>5. \A s \in Sids : life'[s] = "none" => printed'[s] = 0 /\ s \notin mounted'
  BY DEF RingInv
<1> QED BY <1>2, <1>3, <1>4, <1>5 DEF RingInv

LEMMA ClosedScreens ==
  ASSUME PanesIInv, ScreensIInv, SendEvent, Head(ring).t # "data" PROVE ScreensIInv'
<1> USE DEF ScreensIInv
<1>1. /\ busy = <<>> /\ ring # <<>> /\ ring' = Tail(ring) /\ Closed(Head(ring))
      /\ UNCHANGED <<life, printed, busy, pending, mounted>>
  BY DEF SendEvent, LoopIsFree
<1>2. PICK m : m = Head(ring)
  OBVIOUS
<1>3. /\ Shape /\ m = ring[1] /\ 1 \in DOMAIN ring /\ m \in ClosedEvents /\ m.t = "closed" /\ m.sid \in Sids
      /\ DOMAIN ring = 1 .. Len(ring) /\ Len(ring) \in Nat
  BY <1>1, <1>2, RingFacts DEF PanesIInv, DataEvents, ClosedEvents
<1>4. /\ pre' = [pre EXCEPT ![m.sid] = <<>>] /\ ui' = OnClosed(ui, m) /\ trimmed' = trimmed
  BY <1>1, <1>2 DEF Closed
<1>5. ui'.term = ui.term
  BY <1>3, <1>4, OnClosedIs DEF PanesIInv, Shape
<1>6. RingInv'
  BY <1>1, <1>3, TailRing
<1>7. \A s \in Sids : Sent(s)' = Sent(s) /\ (DataFrom(s, 1) = {} => DataFrom(s, 1)' = {})
  BY <1>1, <1>3, DataTail
<1>8. life[m.sid] # "live" /\ DataFrom(m.sid, 1) = {}
  <2>1. life[m.sid] # "live"
    BY <1>3 DEF PanesIInv, DaemonInv
  <2>2. ASSUME NEW j \in DOMAIN ring, ring[j].t = "data", ring[j].sid = m.sid PROVE FALSE
    <3>1. 1 < j \/ j = 1
      BY <1>3
    <3> QED BY <1>3, <2>2, <3>1 DEF RingInv
  <2> QED BY <2>1, <2>2 DEF DataFrom
<1>9. ASSUME NEW s \in Sids PROVE PreOK(s)'
  <2>1. CASE s = m.sid
    <3>1. pre'[s] = <<>> /\ Stepwise(pre'[s]) /\ EndsAt(pre'[s], Sent(s)')
      BY <1>3, <1>4, <2>1 DEF Shape, Stepwise, EndsAt
    <3>2. DataFrom(s, 1)' = {} /\ life'[s] # "live"
      BY <1>1, <1>7, <1>8, <2>1
    <3> QED BY <3>1, <3>2 DEF PreOK
  <2>2. CASE s # m.sid
    <3>1. pre'[s] = pre[s] /\ PreOK(s)
      BY <1>3, <1>4, <2>2 DEF Shape, PreInv
    <3> QED BY <1>1, <1>4, <1>5, <1>7, <3>1 DEF PreOK
  <2> QED BY <2>1, <2>2
<1>10. TermInv'
  BY <1>1, <1>4, <1>5, <1>7 DEF TermInv, Waits, Paints
<1> QED BY <1>1, <1>5, <1>6, <1>9, <1>10 DEF PreInv

\* The chunk that is told is the next one of a session that was not lost.
LEMMA NextChunk ==
  ASSUME PanesIInv, ScreensIInv, SendEvent, NEW m, m = Head(ring), m.t = "data"
  PROVE  /\ m.sid \in Sids /\ m.x \in Nat /\ Sent(m.sid) \in Nat /\ m.x = Sent(m.sid) + 1
         /\ life[m.sid] # "lost" /\ DataFrom(m.sid, 1) # {}
         /\ Sent(m.sid)' = Sent(m.sid) + 1
         /\ \A s \in Sids : s # m.sid =>
              Sent(s)' = Sent(s) /\ (DataFrom(s, 1) = {} => DataFrom(s, 1)' = {})
         /\ RingInv' /\ busy = <<>> /\ Data(m)
         /\ UNCHANGED <<life, printed, busy, pending, mounted>>
<1>1. /\ busy = <<>> /\ ring # <<>> /\ ring' = Tail(ring) /\ Data(m)
      /\ UNCHANGED <<life, printed, busy, pending, mounted>>
  BY DEF SendEvent, LoopIsFree
<1>2. /\ Shape /\ m = ring[1] /\ 1 \in DOMAIN ring /\ m.sid \in Sids /\ m.x \in Nat
  BY <1>1, RingFacts DEF PanesIInv, DataEvents, ClosedEvents
<1>3. RingInv'
  BY <1>1, <1>2, TailRing DEF ScreensIInv
<1>4. /\ Sent(m.sid)' = Sent(m.sid) + 1
      /\ \A s \in Sids : s # m.sid =>
           Sent(s)' = Sent(s) /\ (DataFrom(s, 1) = {} => DataFrom(s, 1)' = {})
  BY <1>1, <1>2, DataTail
<1>5. Sent(m.sid) \in Nat /\ m.x + Cardinality(DataFrom(m.sid, 1)) = printed[m.sid] + 1
  BY <1>2 DEF ScreensIInv, RingInv
<1>6. m.x = Sent(m.sid) + 1
  <2>1. /\ Sent(m.sid) = printed[m.sid] - Cardinality(DataFrom(m.sid, 1))
        /\ Cardinality(DataFrom(m.sid, 1)) \in Nat /\ printed[m.sid] \in Nat
    BY <1>2, DataFacts
  <2> QED BY <1>2, <1>5, <2>1
<1>7. life[m.sid] # "lost" /\ 1 \in DataFrom(m.sid, 1)
  BY <1>2 DEF PanesIInv, DaemonInv, DataFrom
<1> QED BY <1>1, <1>2, <1>3, <1>4, <1>5, <1>6, <1>7

LEMMA DataScreens ==
  ASSUME PanesIInv, ScreensIInv, SendEvent, Head(ring).t = "data" PROVE ScreensIInv'
<1> USE DEF ScreensIInv
<1>1. PICK m : m = Head(ring)
  OBVIOUS
<1>2. PICK s \in Sids : s = m.sid
  BY <1>1, NextChunk
<1>3. PICK n \in Nat : n = Sent(s)
  BY <1>1, <1>2, NextChunk
<1>4. /\ m.x = n + 1 /\ Sent(s)' = n + 1 /\ life[s] # "lost" /\ DataFrom(s, 1) # {}
      /\ RingInv' /\ DOMAIN busy' = {} /\ Data(m)
      /\ UNCHANGED <<life, printed, busy, pending, mounted>>
  BY <1>1, <1>2, <1>3, NextChunk
<1>5. \A r \in Sids : r # s => Sent(r)' = Sent(r) /\ (DataFrom(r, 1) = {} => DataFrom(r, 1)' = {})
  BY <1>1, <1>2, NextChunk
<1>6. ui \in Pages /\ ui.term \in Terms /\ pre \in [Sids -> Seq(Nat)] /\ NoSid \notin Sids
      /\ \A r \in Sids : Len(pre[r]) <= PreCap
  BY PageTypes, SidsFacts DEF PanesIInv, Shape, NoSid
<1>7. CASE ui.term.sid = s
  <2>1. PICK t : t = ui.term
    OBVIOUS
  <2>2. PICK h : h = Painted(t, n + 1)
    OBVIOUS
  <2>3. /\ h \in Terms /\ h.hyd = t.hyd /\ h.sid = s /\ h.failed = t.failed /\ h.again = t.again
        /\ h.screen = IF t.hyd # NoCall THEN t.screen ELSE Append(t.screen, n + 1)
        /\ h.queue = IF t.hyd # NoCall THEN Append(t.queue, n + 1) ELSE t.queue
    <3>1. t \in Terms /\ t.sid = s /\ n + 1 \in Nat
      BY <1>1, <1>6, <1>7, <2>1
    <3> QED BY <2>2, <3>1, PaintedIs
  <2>4. ui' = [ui EXCEPT !.term = h] /\ UNCHANGED <<pre, trimmed>>
    BY <1>2, <1>4, <1>7, <2>1, <2>2 DEF Data
  <2>5. ui'.term = h
    BY <1>6, <2>4 DEF Pages
  <2>6. t.queue \in Seq(Nat) /\ t.screen \in Seq(Nat)
    BY <1>6, <2>1 DEF Terms
  <2>7. ASSUME NEW r \in Sids PROVE PreOK(r)'
    <3>1. PreOK(r)
      BY DEF PreInv
    <3>2. CASE r = s
      <4>1. pre'[r] = <<>> /\ r \in mounted'
        BY <1>4, <1>6, <1>7, <2>4, <3>1, <3>2 DEF PreInv, PreOK
      <4> QED BY <4>1 DEF PreOK, Stepwise, EndsAt
    <3>3. CASE r # s
      BY <1>4, <1>5, <2>3, <2>4, <2>5, <3>1, <3>3 DEF PreOK
    <3> QED BY <3>2, <3>3
  <2>7a. PreInv'
    BY <1>4, <1>7, <2>3, <2>5, <2>7 DEF PreInv
  <2>8. CASE t.hyd # NoCall
    <3>1. Waits(t, s)
      BY <1>7, <2>1, <2>8 DEF TermInv
    <3>2. Stepwise(t.queue) /\ EndsAt(t.queue, n)
      BY <1>3, <1>4, <3>1 DEF Waits, EndsAt
    <3>3. Stepwise(h.queue) /\ EndsAt(h.queue, n + 1)
      BY <2>3, <2>6, <2>8, <3>2, RunAppend
    <3>4. Waits(h, s)'
      BY <1>4, <2>3, <2>8, <3>1, <3>3 DEF Waits
    <3>5. TermInv'
      BY <2>3, <2>5, <2>8, <3>4 DEF TermInv
    <3> QED BY <1>4, <2>7a, <3>5
  <2>9. CASE t.hyd = NoCall
    <3>1. Paints(t, s)
      BY <1>7, <2>1, <2>9 DEF TermInv
    <3>2. Painting(t.screen) /\ (Shows(t.screen, n) \/ t.screen = <<>>)
      BY <1>3, <1>4, <3>1 DEF Paints
    <3>3. /\ h.screen = Append(t.screen, n + 1) /\ Painting(h.screen) /\ Shows(h.screen, n + 1)
          /\ t.screen # <<>> => h.screen[1] = t.screen[1]
          /\ t.screen = <<>> => h.screen[1] = n + 1
      BY ZenonT(60), <2>3, <2>6, <2>9, <3>2, PaintAppend
    <3>4. h.screen[1] # 1 => h.failed \/ s \in trimmed \/ h.again
      <4>1. CASE t.screen # <<>>
        BY <2>3, <3>1, <3>3, <4>1 DEF Paints
      <4>2. CASE t.screen = <<>> /\ ~t.failed
        <5>1. Shows(t.screen, n) /\ Len(t.screen) = 0
          BY <1>3, <1>4, <3>1, <4>2 DEF Paints
        <5>2. n <= 0
          BY <4>2, <5>1 DEF Shows
        <5> QED BY <3>3, <4>2, <5>2
      <4>3. CASE t.failed
        BY <2>3, <4>3
      <4> QED BY <4>1, <4>2, <4>3
    <3>5. Paints(h, s)'
      BY <1>4, <2>3, <2>4, <2>9, <3>1, <3>3, <3>4 DEF Paints
    <3>6. TermInv'
      BY <2>3, <2>5, <2>9, <3>5 DEF TermInv
    <3> QED BY <1>4, <2>7a, <3>6
  <2> QED BY <2>8, <2>9
<1>8. CASE ui.term.sid # s
  <2>1. /\ pre' = [pre EXCEPT ![s] = LastOf(Append(pre[s], n + 1), PreCap)]
        /\ trimmed' = IF Len(pre[s]) = PreCap THEN trimmed \cup {s} ELSE trimmed
        /\ ui' = ui
    BY <1>2, <1>4, <1>8 DEF Data
  <2>2. PICK q : q = Append(pre[s], n + 1)
    OBVIOUS
  <2>3. PreOK(s)
    BY DEF PreInv
  <2>4. /\ q \in Seq(Nat) /\ q # <<>> /\ Len(q) = Len(pre[s]) + 1 /\ Stepwise(q) /\ EndsAt(q, n + 1)
        /\ pre[s] # <<>> => q[1] = pre[s][1]
        /\ pre[s] = <<>> => q[1] = n + 1
    <3>1. Stepwise(pre[s]) /\ EndsAt(pre[s], n) /\ pre[s] \in Seq(Nat)
      BY <1>3, <1>4, <1>6, <2>3 DEF PreOK
    <3> QED BY <2>2, <3>1, RunAppend
  <2>5. PICK r : r = LastOf(q, PreCap)
    OBVIOUS
  <2>6. /\ r # <<>> /\ Stepwise(r) /\ EndsAt(r, n + 1)
        /\ Len(q) <= PreCap => r[1] = q[1]
    <3>1. n + 1 \in Nat /\ PreCap \in Nat \ {0}
      BY SidsFacts
    <3> QED BY <2>4, <2>5, <3>1, RunLast
  <2>7. pre'[s] = r /\ \A k \in Sids : k # s => pre'[k] = pre[k]
    BY <1>6, <2>1, <2>2, <2>5
  <2>8. PreOK(s)'
    <3>1. s \notin mounted /\ s \notin trimmed' => r[1] = 1
      <4> SUFFICES ASSUME s \notin mounted, s \notin trimmed' PROVE r[1] = 1
        OBVIOUS
      <4>1. Len(pre[s]) # PreCap /\ s \notin trimmed
        BY <2>1
      <4>2. Len(q) <= PreCap
        <5>1. Len(pre[s]) \in Nat /\ PreCap \in Nat /\ Len(pre[s]) <= PreCap
          BY <1>6, SidsFacts
        <5> QED BY <2>4, <4>1, <5>1
      <4>3. (pre[s] # <<>> /\ pre[s][1] = 1) \/ (pre[s] = <<>> /\ n = 0)
        BY <1>3, <1>4, <2>3, <4>1 DEF PreOK
      <4> QED BY <2>4, <2>6, <4>2, <4>3
    <3> QED BY <1>4, <1>8, <2>1, <2>6, <2>7, <3>1 DEF PreOK
  <2>9. ASSUME NEW k \in Sids, k # s PROVE PreOK(k)'
    <3>1. PreOK(k) /\ pre'[k] = pre[k] /\ (k \in trimmed' <=> k \in trimmed)
      BY <2>1, <2>7, <2>9 DEF PreInv
    <3> QED BY <1>4, <1>5, <2>1, <2>9, <3>1 DEF PreOK
  <2>10. ASSUME NEW k \in Sids, ui.term.sid = k, ui.term.hyd # NoCall PROVE Waits(ui.term, k)'
    <3>1. Waits(ui.term, k) /\ k # s
      BY <1>8, <2>10 DEF TermInv
    <3> QED BY <1>4, <1>5, <2>1, <3>1 DEF Waits
  <2>11. ASSUME NEW k \in Sids, ui.term.sid = k, ui.term.hyd = NoCall PROVE Paints(ui.term, k)'
    <3>1. Paints(ui.term, k) /\ k # s
      BY <1>8, <2>11 DEF TermInv
    <3>2. k \in trimmed => k \in trimmed'
      BY <2>1
    <3> QED BY <1>4, <1>5, <2>1, <3>1, <3>2 DEF Paints
  <2> QED BY <1>4, <2>1, <2>8, <2>9, <2>10, <2>11 DEF PreInv, TermInv
<1> QED BY <1>7, <1>8

LEMMA MountScreens ==
  ASSUME PanesIInv, ScreensIInv, Mount PROVE ScreensIInv'
<1> USE DEF ScreensIInv
<1>1. PICK p \in PaneIds : p = ui.active
  BY PageTypes DEF PanesIInv, Shape
<1>2. PICK s \in {NoSid} \cup Sids : s = ui.pane[p].sid
  BY PageTypes DEF PanesIInv, Shape
<1>3. PICK b \in BOOLEAN : b = (s \in mounted)
  <2>1. (s \in mounted) \in BOOLEAN
    OBVIOUS
  <2> QED BY <2>1
<1>4. PICK t : t = [NoTerm EXCEPT !.pane = p, !.sid = s, !.again = b]
  OBVIOUS
<1>5. /\ t \in Terms /\ t.sid = s /\ t.hyd = NoCall /\ t.screen = <<>> /\ t.queue = <<>>
      /\ ~t.failed /\ t.again = b
  <2>1. NoTerm \in Terms /\ NoTerm.hyd = NoCall /\ NoTerm.screen = <<>> /\ NoTerm.queue = <<>> /\ ~NoTerm.failed
    BY DEF NoTerm, Terms, NoSid, NoCall
  <2> QED BY <1>4, <2>1 DEF Terms
<1>6. /\ mounted' = mounted \cup ({s} \ {NoSid})
      /\ UNCHANGED <<life, printed, ring, busy, trimmed>>
      /\ \/ s = NoSid /\ ui' = [ui EXCEPT !.term = NoTerm] /\ UNCHANGED <<pending, pre>>
         \/ /\ s # NoSid /\ pre[s] # <<>> /\ ui' = [ui EXCEPT !.term = [t EXCEPT !.screen = pre[s]]]
            /\ pre' = [pre EXCEPT ![s] = <<>>] /\ UNCHANGED pending
         \/ /\ s # NoSid /\ pre[s] = <<>> /\ ui' = [ui EXCEPT !.term = [t EXCEPT !.hyd = next]]
            /\ \E c : c.id = next /\ pending' = pending \cup {c}
            /\ UNCHANGED pre
  <2>1. Call("scrollback", p, s).id = next
    BY DEF Call
  <2> QED BY <1>1, <1>2, <1>3, <1>4, <2>1 DEF Mount, Wanted, daemonVars, Send
<1>7. /\ NoSid \notin Sids /\ ui \in Pages /\ pre \in [Sids -> Seq(Nat)] /\ next \in Nat \ {0}
      /\ \A i \in DOMAIN busy : busy[i].id < next /\ busy[i].id \in Nat
  <2>1. \A i \in DOMAIN busy : busy[i].id < next /\ busy[i].id \in Nat
    <3>1. busy \in Seq(Answers)
      BY DEF PanesIInv, Shape
    <3>2. \A i \in DOMAIN busy : busy[i] \in Answers
      BY <3>1
    <3> QED BY <3>2 DEF PanesIInv, IdsInv, Answers
  <2> QED BY <2>1, SidsFacts DEF PanesIInv, Shape, NoSid
<1>8. s \in Sids => life[s] # "none"
  BY <1>2 DEF PanesIInv, BornInv, Known
<1>9. /\ RingInv'
      /\ \A r \in Sids : Sent(r)' = Sent(r) /\ DataFrom(r, 1)' = DataFrom(r, 1)
  <2>1. \A r \in Sids : life'[r] = "none" => life[r] = "none" /\ (r \in mounted' => r \in mounted)
    BY <1>6, <1>8
  <2> QED BY <1>6, <2>1, SameRing
<1>10. CASE s = NoSid
  <2>1. ui'.term = NoTerm /\ NoTerm.sid = NoSid /\ mounted' = mounted /\ pre' = pre
    BY <1>6, <1>7, <1>10 DEF Pages, NoTerm
  <2>2. ASSUME NEW r \in Sids PROVE PreOK(r)'
    <3>1. PreOK(r) /\ r # NoSid
      BY <1>7 DEF PreInv
    <3> QED BY <1>6, <1>9, <2>1, <3>1 DEF PreOK
  <2>3. TermInv'
    BY <1>7, <2>1 DEF TermInv
  <2> QED BY <1>9, <2>1, <2>2, <2>3 DEF PreInv
<1>11. CASE s # NoSid /\ pre[s] # <<>>
  <2>1. PICK q : q = pre[s]
    OBVIOUS
  <2>2. q \in Seq(Nat) /\ s \in Sids /\ PreOK(s)
    BY <1>7, <1>11, <2>1 DEF PreInv
  <2>3. PICK h : h = [t EXCEPT !.screen = q]
    OBVIOUS
  <2>4. /\ h.sid = s /\ h.hyd = NoCall /\ h.screen = q /\ h.queue = <<>> /\ h.again = b
    BY <1>5, <2>3 DEF Terms
  <2>5. /\ ui'.term = h /\ pre'[s] = <<>> /\ s \in mounted' /\ mounted \subseteq mounted'
        /\ \A r \in Sids : r # s => pre'[r] = pre[r] /\ (r \in mounted' => r \in mounted)
    BY <1>6, <1>7, <1>11, <2>1, <2>2, <2>3 DEF Pages
  <2>6. ASSUME NEW r \in Sids PROVE PreOK(r)'
    <3>1. CASE r = s
      BY <2>5, <3>1 DEF PreOK, Stepwise, EndsAt
    <3>2. CASE r # s
      <4>1. PreOK(r)
        BY DEF PreInv
      <4> QED BY <1>6, <1>9, <2>4, <2>5, <3>2, <4>1 DEF PreOK
    <3> QED BY <3>1, <3>2
  <2>7. Painting(q)
    BY <2>1, <2>2, RunPaints DEF PreOK
  <2>8. life[s] # "lost" => Shows(q, Sent(s))
    BY <1>11, <2>1, <2>2 DEF PreOK, EndsAt, Shows
  <2>9. q[1] # 1 => s \in trimmed \/ b
    BY <1>3, <1>11, <2>1, <2>2 DEF PreOK
  <2>10. Paints(h, s)'
    BY <1>6, <1>9, <2>2, <2>4, <2>7, <2>8, <2>9 DEF Paints
  <2>11. TermInv' /\ PreInv'
    BY <2>2, <2>4, <2>5, <2>6, <2>10 DEF TermInv, PreInv
  <2> QED BY <1>9, <2>11
<1>12. CASE s # NoSid /\ pre[s] = <<>>
  <2>1. s \in Sids /\ pre' = pre /\ \E c \in pending' : c.id = next
    BY <1>6, <1>12
  <2>2. PICK h : h = [t EXCEPT !.hyd = next]
    OBVIOUS
  <2>3. h.sid = s /\ h.hyd = next /\ h.screen = <<>> /\ h.queue = <<>> /\ ~h.failed
    BY <1>5, <2>2 DEF Terms
  <2>4. /\ ui'.term = h /\ s \in mounted' /\ mounted \subseteq mounted'
        /\ \A r \in Sids : r # s => (r \in mounted' => r \in mounted)
    BY <1>6, <1>7, <1>12, <2>1, <2>2 DEF Pages
  <2>5. ASSUME NEW r \in Sids PROVE PreOK(r)'
    <3>1. CASE r = s
      BY <1>12, <2>1, <2>4, <3>1 DEF PreOK, Stepwise, EndsAt
    <3>2. CASE r # s
      <4>1. PreOK(r)
        BY DEF PreInv
      <4> QED BY <1>6, <1>9, <2>1, <2>3, <2>4, <3>2, <4>1 DEF PreOK
    <3> QED BY <3>1, <3>2
  <2>6. \A i \in DOMAIN busy : busy[i].id # next
    BY <1>7
  <2>7. Waits(h, s)'
    BY <1>6, <2>1, <2>3, <2>6 DEF Waits, Stepwise
  <2>8. h.hyd # NoCall
    BY <1>7, <2>3 DEF NoCall
  <2>9. TermInv' /\ PreInv'
    BY <2>1, <2>3, <2>4, <2>5, <2>7, <2>8 DEF TermInv, PreInv
  <2> QED BY <1>9, <2>9
<1> QED BY <1>10, <1>11, <1>12

-----------------------------------------------------------------------------

LEMMA StepScreens == PanesIInv /\ ScreensIInv /\ [Next]_vars => ScreensIInv'
<1> SUFFICES ASSUME PanesIInv, ScreensIInv, [Next]_vars PROVE ScreensIInv'
  OBVIOUS
<1>1. CASE Clicks
  BY <1>1, ClicksScreens
<1>2. CASE Mount
  BY <1>2, MountScreens
<1>3. CASE \E c \in pending : Timeout(c) \/ Refused(c)
  BY <1>3, GivenUpScreens
<1>4. CASE OnClose
  BY <1>4, OnCloseScreens
<1>5. CASE Connect \/ UNCHANGED vars
  <2>1. UNCHANGED <<life, printed, ring, busy, mounted, pre, trimmed, pending, ui>>
    BY <1>5 DEF Connect, vars, daemonVars, wireVars, pageVars, noteVars
  <2> QED BY <2>1, QuietKeeps
<1>6. CASE Loop
  BY <1>6, RequestScreens, RespondScreens, DataScreens, ClosedScreens DEF Loop
<1>7. CASE Crash
  BY <1>7, CrashScreens
<1>8. CASE \E s \in Sids : PrintChunk(s) \/ Drop(s)
  BY <1>8, PrintChunkScreens, DropScreens
<1> QED BY <1>1, <1>2, <1>3, <1>4, <1>5, <1>6, <1>7, <1>8 DEF Next

LEMMA ScreensAreTrue == PanesIInv /\ ScreensIInv => ScreensTrue
<1> SUFFICES ASSUME PanesIInv, ScreensIInv, ui.term.sid # NoSid, ui.term.hyd = NoCall
             PROVE  LET t == ui.term
                        scr == t.screen
                        Back == {i \in 1 .. Len(scr) - 1 : scr[i + 1] <= scr[i]}
                    IN  /\ \A i \in 1 .. Len(scr) - 1 : scr[i + 1] <= scr[i] + 1
                        /\ Cardinality(Back) <= 1
                        /\ ~t.failed /\ life[t.sid] # "lost" =>
                             Sent(t.sid) = 0 \/ Sent(t.sid) \in ToSet(scr)
                        /\ scr # <<>> /\ scr[1] # 1 =>
                             t.failed \/ t.sid \in trimmed \/ t.again
  BY DEF ScreensTrue
<1>1. PICK t : t = ui.term
  OBVIOUS
<1>2. PICK s \in Sids : s = t.sid
  BY <1>1, PageTypes DEF PanesIInv, Shape, Terms
<1>3. PICK scr \in Seq(Nat) : scr = t.screen
  BY <1>1, PageTypes DEF PanesIInv, Shape, Terms
<1>4. Paints(t, s)
  BY <1>1, <1>2 DEF ScreensIInv, TermInv
<1>5. PICK n \in Nat : n = Sent(s)
  BY DEF ScreensIInv, RingInv
<1>6. \A i \in 1 .. Len(scr) - 1 : scr[i + 1] <= scr[i] + 1
  BY <1>3, <1>4 DEF Paints, Painting
<1>7. Cardinality(Falls(scr)) <= 1
  <2>1. \A i, j \in Falls(scr) : i = j
    BY <1>3, <1>4 DEF Paints, Painting
  <2>2. Falls(scr) = {} \/ \E i \in Falls(scr) : Falls(scr) = {i}
    BY <2>1
  <2>3. CASE Falls(scr) = {}
    BY <2>3, FS_EmptySet
  <2>4. CASE \E i \in Falls(scr) : Falls(scr) = {i}
    <3>1. PICK i : Falls(scr) = {i}
      BY <2>4
    <3>2. Cardinality({i}) = 1
      BY FS_Singleton
    <3> QED BY <3>1, <3>2
  <2> QED BY <2>2, <2>3, <2>4
<1>8. ~t.failed /\ life[s] # "lost" => n = 0 \/ n \in ToSet(scr)
  <2> SUFFICES ASSUME ~t.failed, life[s] # "lost", n # 0 PROVE n \in ToSet(scr)
    OBVIOUS
  <2>1. Len(scr) \in Nat /\ DOMAIN scr = 1 .. Len(scr)
    BY <1>3
  <2>2. Shows(scr, n)
    BY <1>3, <1>4, <1>5 DEF Paints
  <2>3. CASE (\A i \in 1 .. Len(scr) : scr[i] = i) /\ n <= Len(scr)
    <3>1. n \in DOMAIN scr /\ scr[n] = n
      BY <2>1, <2>3
    <3> QED BY <3>1 DEF ToSet
  <2>4. CASE scr # <<>> /\ scr[Len(scr)] = n
    <3>1. Len(scr) \in DOMAIN scr
      BY <1>3, <2>1, <2>4, EmptySeq
    <3> QED BY <2>4, <3>1 DEF ToSet
  <2> QED BY <2>2, <2>3, <2>4 DEF Shows
<1>9. scr # <<>> /\ scr[1] # 1 => t.failed \/ s \in trimmed \/ t.again
  BY <1>3, <1>4 DEF Paints
<1> QED BY <1>1, <1>2, <1>3, <1>5, <1>6, <1>7, <1>8, <1>9 DEF Falls

(* A terminal that has its scrollback, or did without it, shows the output  *)
(* of its session without a gap up to the last chunk that arrived, repeats  *)
(* it once at most, and begins with the first chunk but in three cases that *)
(* it names: however the answer, the events and the restarts interleave.    *)
THEOREM ScreensAlwaysTrue == PaneSpec => []ScreensTrue
<1>1. Init => PanesIInv /\ ScreensIInv
  BY InitPanes, InitScreens
<1>2. PanesIInv /\ ScreensIInv /\ [Next]_vars => PanesIInv' /\ ScreensIInv'
  BY StepKeeps, StepScreens
<1>3. PanesIInv /\ ScreensIInv => ScreensTrue
  BY ScreensAreTrue
<1> QED BY <1>1, <1>2, <1>3, PTL DEF PaneSpec
=============================================================================
