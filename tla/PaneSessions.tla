----------------------------- MODULE PaneSessions ----------------------------
(***************************************************************************)
(* apps/desktop: which pane shows which session of the daemon.             *)
(*                                                                         *)
(* store.ts keeps tabs and panes and changes them in the continuations of  *)
(* awaited calls; lib/rpc.ts keeps the calls that wait for an answer and   *)
(* the output nobody listens to yet; components/TerminalPane.tsx mounts a  *)
(* terminal for the visible tab only and fills it from that output or from *)
(* session.scrollback.  Behind the socket is the loop of one connection,   *)
(* ws_loop of the daemon's main.rs, which answers a request before it      *)
(* looks at events again.                                                  *)
(*                                                                         *)
(* A tab has one pane (splits are left out).  Output is numbered per       *)
(* session from 1.  A continuation runs in the same step as the message    *)
(* that resolves its promise: the browser does so before the next message. *)
(***************************************************************************)
EXTENDS Naturals, FiniteSetsExt, SequencesExt

CONSTANTS MaxSids,      \* bound: sessions the daemon opens
          MaxActs,      \* bound: clicks that make a call
          MaxSwitches,  \* bound: clicks on another tab
          MaxPrints,    \* bound: chunks of output, of all sessions together
          MaxFaults,    \* bound: ends of the daemon and calls that time out
          PreCap        \* MAX_SESSION_PREBUFFER_BYTES, in chunks

ASSUME PaneBoundsAssumption ==
  /\ MaxSids \in Nat \ {0} /\ PreCap \in Nat \ {0}
  /\ {MaxActs, MaxSwitches, MaxPrints, MaxFaults} \subseteq Nat

Sids == 1 .. MaxSids
PaneIds == 1 .. (1 + MaxSids + MaxActs)     \* one is made per session or click at most

VARIABLES
  life,       \* life[s]: the session in the daemon
  printed,    \* printed[s]: chunks of output it has in its scrollback
  ring,       \* events the loop of the connection has not sent
  busy,       \* the answer of the request the loop serves, or empty
  sock,       \* the socket: "open", "cut" (the page does not know yet), "closed"
  up,         \* requests under way to the daemon
  next,       \* nextId
  pending,    \* the calls that are awaited
  pre,        \* sessionPrebuffer
  ui,         \* tabs, panes, the sets of session ids, the mounted terminal
  mounted,    \* the sessions a terminal was mounted for
  trimmed,    \* the sessions whose prebuffer lost its head
  unclaimed,  \* the sessions whose answer found no call: it was aborted or timed out
  acts, switches, faults

daemonVars == <<life, printed, ring, busy>>
wireVars == <<sock, up>>
noteVars == <<mounted, trimmed, unclaimed>>
countVars == <<acts, switches, faults>>
pageVars == <<next, pending, pre, ui, noteVars, countVars>>
vars == <<daemonVars, wireVars, pageVars>>

NoSid == 0
NoCall == 0
Empty == [sid |-> NoSid, dis |-> FALSE]
NoTerm == [pane |-> 0, sid |-> NoSid, hyd |-> NoCall, screen |-> <<>>, queue |-> <<>>,
           failed |-> FALSE, again |-> FALSE]

Init ==
  /\ life = [s \in Sids |-> "none"] /\ printed = [s \in Sids |-> 0]
  /\ ring = <<>> /\ busy = <<>>
  /\ sock = "open" /\ up = <<>>
  /\ next = 1 /\ pending = {} /\ unclaimed = {}
  /\ pre = [s \in Sids |-> <<>>] /\ mounted = {} /\ trimmed = {}
  /\ ui = [tabs |-> <<1>>, active |-> 1, fresh |-> 2, pane |-> [p \in PaneIds |-> Empty],
           connect |-> NoCall, reconnecting |-> {}, userClosed |-> {}, crossed |-> {}, term |-> NoTerm]
  /\ acts = 0 /\ switches = 0 /\ faults = 0

-----------------------------------------------------------------------------
(* The state of the page, u, after a function of store.ts ran on it.        *)

Shown(u) == {u.pane[p].sid : p \in ToSet(u.tabs)} \ {NoSid}
Show(u, p, s) == [u EXCEPT !.pane[p] = [sid |-> s, dis |-> FALSE]]
NewTabPane(u) == [u EXCEPT !.tabs = Append(@, u.fresh), !.active = u.fresh, !.fresh = @ + 1]

(* A mutant of Reusable: the focused pane takes the new session in any case. *)
ReusableAlways(u) == TRUE
Reusable(u) == LET f == u.pane[u.active] IN f.sid = NoSid \/ f.dis

AttachSession(u, s) ==
  IF Reusable(u) THEN Show(u, u.active, s) ELSE Show(NewTabPane(u), u.fresh, s)

MarkDisconnected(u, s) ==
  [u EXCEPT !.pane = [p \in PaneIds |-> [u.pane[p] EXCEPT !.dis = @ \/ u.pane[p].sid = s]]]

\* Pane p goes; if it was the active one, the first or the last tab that remains is shown.
Without(u, p, end) ==
  LET rest == RemoveFirst(u.tabs, p)
      v == [u EXCEPT !.tabs = rest, !.pane[p] = Empty]
  IN  IF rest = <<>> THEN NewTabPane(v)
      ELSE [v EXCEPT !.active = IF @ \in ToSet(rest) THEN @
                              ELSE IF end = "last" THEN Last(rest) ELSE Head(rest)]

Crossed(u, S) == [u EXCEPT !.crossed = @ \cup (S \ {NoSid})]

-----------------------------------------------------------------------------
(* What follows the await of a call c: its answer is ok with result x (a    *)
(* session id, or the length of the scrollback) or it is rejected.          *)

OpenReturned(u, c, ok, x) ==
  LET v == IF ok THEN AttachSession(u, x) ELSE u
  IN  [v EXCEPT !.connect = IF @ = c.id THEN NoCall ELSE @]

ClosePaneReturned(u, c) ==
  Without(Crossed(u, {u.pane[c.pane].sid} \ {c.sid}), c.pane, "first")

(* A mutant of ReconnectReturned: the finally block is missing. *)
ReconnectKept(u, c, ok, x) ==
  IF ok THEN Show(u, c.pane, x) ELSE MarkDisconnected(u, c.sid)
ReconnectReturned(u, c, ok, x) ==
  LET lost == ({u.pane[c.pane].sid} \ {c.sid}) \cup (IF c.pane \in ToSet(u.tabs) THEN {} ELSE {x})
      v == IF ok THEN Show(Crossed(u, lost), c.pane, x) ELSE MarkDisconnected(u, c.sid)
  IN  [v EXCEPT !.reconnecting = @ \ {c.sid}]

(* Mutants of Hydrated: the queue is painted first; a failure leaves it waiting. *)
HydratedLast(t, ok, x) ==
  [t EXCEPT !.hyd = NoCall, !.queue = <<>>, !.failed = ~ok,
            !.screen = @ \o t.queue \o (IF ok THEN [n \in 1 .. x |-> n] ELSE <<>>)]
HydratedIfOk(t, ok, x) ==
  IF ok THEN [t EXCEPT !.hyd = NoCall, !.queue = <<>>, !.screen = @ \o [n \in 1 .. x |-> n] \o t.queue]
  ELSE [t EXCEPT !.failed = TRUE]
Hydrated(t, ok, x) ==
  [t EXCEPT !.hyd = NoCall, !.queue = <<>>, !.failed = ~ok,
            !.screen = @ \o (IF ok THEN [n \in 1 .. x |-> n] ELSE <<>>) \o t.queue]

Returned(u, c, ok, x) ==
  CASE c.op \in {"open", "local"} -> OpenReturned(u, c, ok, x)
    [] c.op = "closePane" -> ClosePaneReturned(u, c)
    [] c.op = "closeTab" -> u
    [] c.op = "disconnect" -> MarkDisconnected(u, c.sid)
    [] c.op = "reconnect" -> ReconnectReturned(u, c, ok, x)
    [] c.op = "scrollback" ->
         IF u.term.hyd = c.id THEN [u EXCEPT !.term = Hydrated(@, ok, x)] ELSE u

-----------------------------------------------------------------------------
(* The calls.  What is sent on a socket that is cut is lost, and a call     *)
(* made while it is closed is refused when its connect fails.               *)

Call(op, p, s) == [id |-> next, op |-> op, pane |-> p, sid |-> s, sent |-> sock # "closed"]

Send(c) ==
  /\ next' = next + 1
  /\ up' = IF sock = "open" THEN Append(up, c) ELSE up
  /\ UNCHANGED <<daemonVars, sock>>

Fault == faults < MaxFaults /\ faults' = faults + 1
Click == acts < MaxActs /\ acts' = acts + 1

Aborted == {c \in pending : c.id = ui.connect}

\* openSession: the connect before it, if any, is aborted.
OpenSession ==
  LET c == Call("open", 0, NoSid)
  IN  /\ Click /\ Send(c)
      /\ pending' = (pending \ Aborted) \cup {c}
      /\ ui' = [ui EXCEPT !.connect = c.id]
      /\ UNCHANGED <<pre, noteVars, switches, faults>>

CancelInFlightConnect ==
  /\ Aborted # {} /\ Click
  /\ pending' = pending \ Aborted
  /\ ui' = [ui EXCEPT !.connect = NoCall]
  /\ UNCHANGED <<daemonVars, wireVars, next, pre, noteVars, switches, faults>>

\* A call that leaves the page as u until it returns.
Await(c, u) ==
  /\ Click /\ Send(c)
  /\ pending' = pending \cup {c} /\ ui' = u
  /\ UNCHANGED <<pre, noteVars, switches, faults>>

OpenLocal == Await(Call("local", 0, NoSid), ui)

NoteUserClosed(u, s) == [u EXCEPT !.userClosed = @ \cup {s}]

ClosePane ==
  LET p == ui.active
      s == ui.pane[p].sid
  IN  IF s # NoSid THEN Await(Call("closePane", p, s), NoteUserClosed(ui, s))
      ELSE /\ Click /\ ui' = Without(ui, p, "first")
           /\ UNCHANGED <<daemonVars, wireVars, next, pending, pre, noteVars, switches, faults>>

(* A mutant of CloseTab: the sessions are not closed. *)
CloseTabOnly(p) ==
  /\ Click /\ ui' = Without(ui, p, "last")
  /\ UNCHANGED <<daemonVars, wireVars, next, pending, pre, noteVars, switches, faults>>
CloseTab(p) ==
  LET s == ui.pane[p].sid
  IN  IF s # NoSid THEN Await(Call("closeTab", p, s), Without(NoteUserClosed(ui, s), p, "last"))
      ELSE /\ Click /\ ui' = Without(ui, p, "last")
           /\ UNCHANGED <<daemonVars, wireVars, next, pending, pre, noteVars, switches, faults>>

DisconnectPane ==
  LET p == ui.active
      s == ui.pane[p].sid
  IN  /\ s # NoSid /\ ~ui.pane[p].dis
      /\ Await(Call("disconnect", p, s), NoteUserClosed(ui, s))

ReconnectPane ==
  LET p == ui.active
      s == ui.pane[p].sid
  IN  /\ s # NoSid /\ ui.pane[p].dis /\ s \notin ui.reconnecting
      /\ Await(Call("reconnect", p, s), [ui EXCEPT !.reconnecting = @ \cup {s}])

ActivateTab(p) ==
  /\ p # ui.active /\ switches < MaxSwitches
  /\ switches' = switches + 1 /\ ui' = [ui EXCEPT !.active = p]
  /\ UNCHANGED <<daemonVars, wireVars, next, pending, pre, noteVars, acts, faults>>

\* The timer of a call fires; an answer that comes later finds nobody.
Timeout(c) ==
  /\ Fault
  /\ pending' = pending \ {c}
  /\ ui' = Returned(ui, c, FALSE, 0)
  /\ UNCHANGED <<daemonVars, wireVars, next, pre, noteVars, acts, switches>>

-----------------------------------------------------------------------------
(* React brings the mounted terminal up to date.  A terminal that finds     *)
(* output in the prebuffer takes it and does not ask for the scrollback.    *)

Wanted == [pane |-> ui.active, sid |-> ui.pane[ui.active].sid]

Mount ==
  LET w == Wanted
      t == [NoTerm EXCEPT !.pane = w.pane, !.sid = w.sid, !.again = w.sid \in mounted]
      c == Call("scrollback", w.pane, w.sid)
  IN  /\ ui.term.sid # w.sid \/ (w.sid # NoSid /\ ui.term.pane # w.pane)
      /\ mounted' = mounted \cup ({w.sid} \ {NoSid})
      /\ CASE w.sid = NoSid ->
                /\ ui' = [ui EXCEPT !.term = NoTerm]
                /\ UNCHANGED <<daemonVars, wireVars, next, pending, pre>>
           [] w.sid # NoSid /\ pre[w.sid] # <<>> ->
                /\ ui' = [ui EXCEPT !.term = [t EXCEPT !.screen = pre[w.sid]]]
                /\ pre' = [pre EXCEPT ![w.sid] = <<>>]
                /\ UNCHANGED <<daemonVars, wireVars, next, pending>>
           [] w.sid # NoSid /\ pre[w.sid] = <<>> ->
                /\ ui' = [ui EXCEPT !.term = [t EXCEPT !.hyd = c.id]]
                /\ pending' = pending \cup {c} /\ Send(c)
                /\ UNCHANGED pre
  /\ UNCHANGED <<trimmed, unclaimed, countVars>>

-----------------------------------------------------------------------------
(* Messages from the daemon.                                                *)

(* A mutant of Painted: output does not wait for the scrollback. *)
PaintedAtOnce(t, n) == [t EXCEPT !.screen = Append(@, n)]
Painted(t, n) ==
  IF t.hyd # NoCall THEN [t EXCEPT !.queue = Append(@, n)] ELSE [t EXCEPT !.screen = Append(@, n)]

LastOf(s, n) == SubSeq(s, IF Len(s) > n THEN Len(s) - n + 1 ELSE 1, Len(s))

Data(m) ==
  /\ IF ui.term.sid = m.sid
     THEN ui' = [ui EXCEPT !.term = Painted(@, m.x)] /\ UNCHANGED <<pre, trimmed>>
     ELSE /\ pre' = [pre EXCEPT ![m.sid] = LastOf(Append(@, m.x), PreCap)]
          /\ trimmed' = IF Len(pre[m.sid]) = PreCap THEN trimmed \cup {m.sid} ELSE trimmed
          /\ UNCHANGED ui

(* A mutant of OnClosed: every end of a session is taken for one's own. *)
OnClosedIgnored(u, m) == [u EXCEPT !.userClosed = @ \ {m.sid}]
OnClosed(u, m) ==
  IF m.sid \in u.reconnecting THEN u
  ELSE IF m.sid \in u.userClosed \/ m.reason = "closed" THEN [u EXCEPT !.userClosed = @ \ {m.sid}]
  ELSE MarkDisconnected(u, m.sid)

Closed(m) ==
  /\ pre' = [pre EXCEPT ![m.sid] = <<>>]
  /\ ui' = OnClosed(ui, m)
  /\ UNCHANGED <<trimmed>>

\* The session that an answer is about, if it opened one.
Opened(m) == IF m.ok /\ m.op \in {"open", "local", "reconnect"} THEN {m.x} ELSE {}

Answered(m) ==
  /\ IF \E c \in pending : c.id = m.id
     THEN /\ LET c == CHOOSE d \in pending : d.id = m.id
             IN  pending' = pending \ {c} /\ ui' = Returned(ui, c, m.ok, m.x)
          /\ UNCHANGED unclaimed
     ELSE /\ unclaimed' = unclaimed \cup Opened(m)
          /\ UNCHANGED <<pending, ui>>
  /\ UNCHANGED <<next, pre, mounted, trimmed, countVars>>

\* onclose rejects every call that was sent.  What follows each of them runs before
\* anything else of the page (Rejecting), in an order that is left open: it depends
\* on how many awaits lie between the call and what waits for it.
OnClose ==
  /\ sock = "cut" /\ sock' = "closed"
  /\ pre' = [s \in Sids |-> <<>>]
  /\ UNCHANGED <<daemonVars, up, next, pending, ui, noteVars, countVars>>

Rejecting == sock = "closed" /\ \E c \in pending : c.sent

(* A mutant of Lost: the calls are not rejected when the socket closes. *)
LostIfUnsent(c) == ~c.sent
Lost(c) == ~c.sent \/ sock = "closed"

\* A call that cannot connect, or was rejected.
Refused(c) ==
  /\ Lost(c)
  /\ pending' = pending \ {c} /\ ui' = Returned(ui, c, FALSE, 0)
  /\ UNCHANGED <<daemonVars, wireVars, next, pre, noteVars, countVars>>

\* The daemon is back: the next call, or the refresh when it is healthy again, connects.
Connect ==
  /\ sock = "closed" /\ pending = {} /\ sock' = "open"
  /\ UNCHANGED <<daemonVars, up, pageVars>>

-----------------------------------------------------------------------------
(* The daemon: one connection of ws_loop, and of the sessions only whether  *)
(* they live, what they printed and what their end is announced as.  What   *)
(* the loop sends arrives at once: a slow wire is a slow loop.              *)

Answer(c, ok, x) == [id |-> c.id, op |-> c.op, ok |-> ok, x |-> x]
ClosedEvent(s, why) == [t |-> "closed", sid |-> s, reason |-> why]
Mapped(s) == life[s] \in {"live", "dropped"}
Unborn == {s \in Sids : life[s] = "none"}
NewSid == CHOOSE s \in Unborn : \A r \in Unborn : s <= r

\* Sessions after old was closed (NoSid: none) and c opened another one, or failed to.
Opens(c, old) ==
  LET gone == [s \in Sids |-> IF s = old THEN "closed" ELSE life[s]]
  IN  \/ /\ Unborn # {}
         /\ life' = [gone EXCEPT ![NewSid] = "live"]
         /\ busy' = <<Answer(c, TRUE, NewSid)>>
      \/ life' = gone /\ busy' = <<Answer(c, FALSE, 0)>>

Serve(c) ==
  CASE c.op \in {"open", "local"} -> Opens(c, NoSid) /\ UNCHANGED ring
    [] c.op \in {"closePane", "closeTab", "disconnect"} ->
         /\ life' = [life EXCEPT ![c.sid] = IF Mapped(c.sid) THEN "closed" ELSE @]
         /\ ring' = IF Mapped(c.sid) THEN Append(ring, ClosedEvent(c.sid, "closed")) ELSE ring
         /\ busy' = <<Answer(c, TRUE, 0)>>
    [] c.op = "reconnect" /\ Mapped(c.sid) ->
         Opens(c, c.sid) /\ ring' = Append(ring, ClosedEvent(c.sid, "closed"))
    [] c.op = "scrollback" /\ Mapped(c.sid) ->
         busy' = <<Answer(c, TRUE, printed[c.sid])>> /\ UNCHANGED <<life, ring>>
    [] c.op \in {"reconnect", "scrollback"} /\ ~Mapped(c.sid) ->
         busy' = <<Answer(c, FALSE, 0)>> /\ UNCHANGED <<life, ring>>

(* A mutant of LoopIsFree: requests are served by tasks of their own. *)
LoopSpawns == TRUE
LoopIsFree == busy = <<>>

Request ==
  /\ busy = <<>> /\ up # <<>>
  /\ Serve(Head(up)) /\ up' = Tail(up)
  /\ UNCHANGED <<printed, sock, pageVars>>

Respond ==
  /\ busy # <<>> /\ busy' = <<>>
  /\ Answered(busy[1])
  /\ UNCHANGED <<life, printed, ring, wireVars>>

SendEvent ==
  /\ LoopIsFree /\ ring # <<>> /\ ring' = Tail(ring)
  /\ IF Head(ring).t = "data" THEN Data(Head(ring)) ELSE Closed(Head(ring))
  /\ UNCHANGED <<life, printed, busy, wireVars, next, pending, mounted, unclaimed, countVars>>

PrintChunk(s) ==
  /\ life[s] = "live" /\ MapThenSumSet(LAMBDA r : printed[r], Sids) < MaxPrints
  /\ printed' = [printed EXCEPT ![s] = @ + 1]
  /\ ring' = Append(ring, [t |-> "data", sid |-> s, x |-> printed[s] + 1])
  /\ UNCHANGED <<life, busy, wireVars, pageVars>>

Drop(s) ==
  /\ life[s] = "live"
  /\ life' = [life EXCEPT ![s] = "dropped"] /\ ring' = Append(ring, ClosedEvent(s, "dropped"))
  /\ UNCHANGED <<printed, busy, wireVars, pageVars>>

\* The daemon ends and is started again.
Crash ==
  /\ sock = "open" /\ Fault
  /\ life' = [s \in Sids |-> IF life[s] = "none" THEN "none" ELSE "lost"]
  /\ ring' = <<>> /\ busy' = <<>> /\ up' = <<>> /\ sock' = "cut"
  /\ UNCHANGED <<printed, next, pending, pre, ui, noteVars, acts, switches>>

-----------------------------------------------------------------------------
Clicks ==
  \/ OpenSession \/ CancelInFlightConnect \/ OpenLocal
  \/ ClosePane \/ DisconnectPane \/ ReconnectPane
  \/ \E p \in ToSet(ui.tabs) : CloseTab(p) \/ ActivateTab(p)
Loop == Request \/ Respond \/ SendEvent
Next ==
  \/ ~Rejecting /\ (Clicks \/ Mount \/ \E c \in pending : Timeout(c))
  \/ OnClose \/ Connect \/ Loop \/ Crash
  \/ \E c \in pending : Refused(c)
  \/ \E s \in Sids : PrintChunk(s) \/ Drop(s)

\* The loop and the page go on; that a timer fires is not assumed.
PaneSpec == Init /\ [][Next]_vars /\ WF_vars(Loop) /\ WF_vars(OnClose)
            /\ WF_vars(\E c \in pending : Refused(c))

-----------------------------------------------------------------------------
(* Properties.                                                              *)

Calls == [id : 1 .. next, pane : {0} \cup PaneIds, sid : {NoSid} \cup Sids, sent : BOOLEAN,
          op : {"open", "local", "closePane", "closeTab", "disconnect", "reconnect", "scrollback"}]

(* The types, and what every function of store.ts relies on: the active     *)
(* tab exists, no tab twice, and no session in two panes.                    *)
PanesTypeOK ==
  /\ life \in [Sids -> {"none", "live", "dropped", "closed", "lost"}]
  /\ sock \in {"open", "cut", "closed"} /\ Len(busy) <= 1
  /\ pending \subseteq Calls /\ \A c, d \in pending : c.id = d.id => c = d
  /\ ui.active \in ToSet(ui.tabs) /\ IsInjective(ui.tabs)
  /\ \A p, q \in ToSet(ui.tabs) : ui.pane[p].sid = ui.pane[q].sid /\ ui.pane[p].sid # NoSid => p = q
  /\ \A s \in Sids : Len(pre[s]) <= PreCap

Coming(s) == \E i \in DOMAIN ring : ring[i].t = "closed" /\ ring[i].sid = s

(* A pane that is not marked disconnected shows a session that lives, or    *)
(* whose end is being told, or that its own button is closing; after a       *)
(* restart of the daemon nobody tells it (store.ts:1711).                    *)
ShownIsAlive ==
  \A p \in ToSet(ui.tabs) :
    LET s == ui.pane[p].sid
    IN  s # NoSid /\ ~ui.pane[p].dis =>
          \/ life[s] \in {"live", "lost"} \/ (life[s] = "dropped" /\ Coming(s))
          \/ \E c \in pending : c.sid = s /\ c.op \in {"closePane", "disconnect"}

(* A session that runs is on show, or its answer or its close is under way,  *)
(* except in two ways: the call that opened it was given up (store.ts:799),  *)
(* or its pane was closed or used again during a reconnect (store.ts:966).   *)
NobodyForgotten ==
  \A s \in Sids : life[s] = "live" =>
    \/ s \in Shown(ui)
    \/ \E i \in DOMAIN busy : s \in Opened(busy[i])
    \/ \E i \in DOMAIN up : up[i].sid = s /\ up[i].op \in {"closePane", "closeTab", "disconnect"}
    \/ s \in unclaimed \/ s \in ui.crossed

PanesTrue == PanesTypeOK /\ ShownIsAlive /\ NobodyForgotten

\* The last chunk that reached the page.
Sent(s) == printed[s] - Cardinality({i \in DOMAIN ring : ring[i].t = "data" /\ ring[i].sid = s})

(* Once a terminal has its scrollback, or did without it, it shows output    *)
(* without a gap up to the last chunk that arrived, and goes back at most    *)
(* once, where the queue repeats the scrollback.  It begins with the first   *)
(* chunk unless the scrollback could not be had, the prebuffer overflowed,   *)
(* or the tab was hidden: then its prebuffer hides the scrollback.            *)
ScreensTrue ==
  LET t == ui.term
      scr == t.screen
      Back == {i \in 1 .. Len(scr) - 1 : scr[i + 1] <= scr[i]}
  IN  t.sid # NoSid /\ t.hyd = NoCall =>
        /\ \A i \in 1 .. Len(scr) - 1 : scr[i + 1] <= scr[i] + 1
        /\ Cardinality(Back) <= 1
        /\ ~t.failed /\ life[t.sid] # "lost" => Sent(t.sid) = 0 \/ Sent(t.sid) \in ToSet(scr)
        /\ scr # <<>> /\ scr[1] # 1 =>
             t.failed \/ t.sid \in trimmed \/ t.again

Quiet == pending = {} /\ ui.term.hyd = NoCall /\ ui.reconnecting = {}

(* Everything the page awaits ends, though no timer fires: a pane that is    *)
(* being closed goes, a terminal that waits for its scrollback paints what   *)
(* it queued, and a reconnect can be tried again.                             *)
AwaitsEnd == []<>Quiet
=============================================================================
