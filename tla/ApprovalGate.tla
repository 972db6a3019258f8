----------------------------- MODULE ApprovalGate -----------------------------
(***************************************************************************)
(* The sidecar's gate between the chat model and the devices: approvals.ts, *)
(* the /chat, /approve and /stop handlers of index.ts, the tool loop of    *)
(* openai-loop.ts (and of the Cursor SDK, whose tools overlap), and        *)
(* propose_command, propose_api_get and gated mcp tools of tools.ts.       *)
(*                                                                         *)
(* The sidecar is one thread: an action is what runs between two awaits.   *)
(* A turn is one POST /chat; a call is one gated tool call of a turn, and  *)
(* its proposalId when it asks.  A command stands for its session too (the *)
(* always-allow fingerprint is session::command).                          *)
(***************************************************************************)
EXTENDS Naturals, FiniteSets

CONSTANTS
    Convs,      \* conversation ids
    Turns,      \* chat turns
    Calls,      \* gated tool calls
    Commands,   \* what calls propose, each for a session
    Linux,      \* commands for Linux sessions: no permit list, no always-allow
    Mutating,   \* commands the policy never offers always-allow for
    ClickOnly,  \* API GETs and MCP tools: no permit list either
    MaxRound,   \* tool calls that the model may ask for in one round
    Overlapping,\* turns whose tools overlap (Cursor SDK)
    NoConv, NoTurn, NoCommand

ASSUME CommandsAssumption ==
    /\ Linux \cup Mutating \cup ClickOnly \subseteq Commands
    /\ Linux \cap ClickOnly = {}
    /\ NoConv \notin Convs /\ NoTurn \notin Turns /\ NoCommand \notin Commands
    /\ MaxRound \in Nat
    /\ Overlapping \subseteq Turns

VARIABLES
    conv,       \* conv[t]: the conversation of turn t
    live,       \* turns whose handler has not reached its finally
    aborted,    \* turns whose AbortController was aborted
    queued,     \* queued[t]: tool calls of this round that have not begun
    runs,       \* index.ts runs: the controller of a conversation
    turn,       \* turn[k]: the turn that call k belongs to
    command,    \* command[k]: what it proposes
    phase,      \* phase[k]: the await at which it is
    checked,    \* checked[k]: what policy.check answered
    waiters,    \* approvals.ts waiters, by proposalId
    always,     \* approvals.ts alwaysAllow
    permit,     \* commands that the daemon's permit lists allow now
    inflight,   \* calls whose session.input or request is on its way
    sent,       \* calls that the device got (history)
    clicked,    \* clicked[k]: what the operator answered (history)
    cancelled   \* cancelled[k]: the conversation whose stop or new turn ended it

turnVars == <<conv, live, aborted, queued, runs>>
callVars == <<turn, command, checked>>
vars == <<turnVars, callVars, phase, waiters, always, permit, inflight, sent, clicked, cancelled>>

Answers == {"none", "deny", "allow", "always"}
Everyone == "everyone"

TypeOK ==
    /\ conv \in [Turns -> Convs \cup {NoConv}]
    /\ live \subseteq Turns /\ aborted \subseteq Turns
    /\ queued \in [Turns -> 0 .. MaxRound]
    /\ runs \in [Convs -> Turns \cup {NoTurn}]
    /\ turn \in [Calls -> Turns \cup {NoTurn}]
    /\ command \in [Calls -> Commands \cup {NoCommand}]
    /\ phase \in [Calls -> {"unused", "check", "reply", "gate", "sending", "done"}]
    /\ checked \in [Calls -> {"none", "listed", "linux", "denied"}]
    /\ waiters \subseteq Calls
    /\ always \subseteq Convs \X Commands
    /\ permit \subseteq Commands
    /\ inflight \subseteq Calls /\ sent \subseteq Calls
    /\ clicked \in [Calls -> Answers]
    /\ cancelled \in [Calls -> Convs \cup {NoConv, Everyone}]

Init ==
    /\ conv = [t \in Turns |-> NoConv]
    /\ live = {} /\ aborted = {}
    /\ queued = [t \in Turns |-> 0]
    /\ runs = [c \in Convs |-> NoTurn]
    /\ turn = [k \in Calls |-> NoTurn]
    /\ command = [k \in Calls |-> NoCommand]
    /\ phase = [k \in Calls |-> "unused"]
    /\ checked = [k \in Calls |-> "none"]
    /\ waiters = {} /\ always = {}
    /\ permit \in SUBSET (Commands \ (Linux \cup ClickOnly))
    /\ inflight = {} /\ sent = {}
    /\ clicked = [k \in Calls |-> "none"]
    /\ cancelled = [k \in Calls |-> NoConv]

ConvOf(k) == conv[turn[k]]

Goto(k, p) == phase' = [phase EXCEPT ![k] = p]

Active(t) == {k \in Calls : turn[k] = t /\ phase[k] \notin {"unused", "done"}}

\* Mutant of Cancel: the promises are rejected, the map keeps them.
CancelKeepsWaiters(ks, c) ==
    /\ waiters' = waiters
    /\ phase' = [k \in Calls |-> IF k \in ks THEN "done" ELSE phase[k]]
    /\ cancelled' = [k \in Calls |-> IF k \in ks THEN c ELSE cancelled[k]]

\* Waiters of a set of calls are rejected and deleted; each call then returns
\* an error to the model.
Cancel(ks, c) ==
    /\ waiters' = waiters \ ks
    /\ phase' = [k \in Calls |-> IF k \in ks THEN "done" ELSE phase[k]]
    /\ cancelled' = [k \in Calls |-> IF k \in ks THEN c ELSE cancelled[k]]

-----------------------------------------------------------------------------
(* Turns.                                                                  *)

\* Mutant of CancelConversation: a new turn clears every prompt.
CancelEveryWaiter(c) == Cancel(waiters, c)

\* cancelConversation.
CancelConversation(c) == Cancel({k \in waiters : ConvOf(k) = c}, c)

\* /chat: abort the conversation's turn and reject its proposals.
Chat(t, c) ==
    /\ conv[t] = NoConv
    /\ conv' = [conv EXCEPT ![t] = c]
    /\ live' = live \cup {t}
    /\ aborted' = aborted \cup ({runs[c]} \ {NoTurn})
    /\ CancelConversation(c)
    /\ runs' = [runs EXCEPT ![c] = t]
    /\ UNCHANGED <<queued, callVars, always, permit, inflight, sent, clicked>>

\* The model answers with tool calls.  Only the head of a round looks at the signal.
Round(t, n) ==
    /\ t \in live \ aborted
    /\ queued[t] = 0 /\ Active(t) = {}
    /\ queued' = [queued EXCEPT ![t] = n]
    /\ UNCHANGED <<conv, live, aborted, runs, callVars, phase, waiters, always, permit, inflight,
                   sent, clicked, cancelled>>

\* The handler's finally, after an answer, an error, the round cap or "stopped".
EndTurn(t) ==
    /\ t \in live
    /\ t \in Overlapping \/ (queued[t] = 0 /\ Active(t) = {})
    /\ live' = live \ {t}
    /\ queued' = [queued EXCEPT ![t] = 0]
    /\ runs' = [runs EXCEPT ![conv[t]] = NoTurn]
    /\ UNCHANGED <<conv, aborted, callVars, phase, waiters, always, permit, inflight, sent,
                   clicked, cancelled>>

\* /stop with a conversationId.
Stop(c) ==
    /\ aborted' = aborted \cup ({runs[c]} \ {NoTurn})
    /\ runs' = [runs EXCEPT ![c] = NoTurn]
    /\ CancelConversation(c)
    /\ UNCHANGED <<conv, live, queued, callVars, always, permit, inflight, sent, clicked>>

\* /stop without one.
StopAll ==
    /\ aborted' = aborted \cup ({runs[c] : c \in Convs} \ {NoTurn})
    /\ runs' = [c \in Convs |-> NoTurn]
    /\ Cancel(waiters, Everyone)
    /\ UNCHANGED <<conv, live, queued, callVars, always, permit, inflight, sent, clicked>>

-----------------------------------------------------------------------------
(* Calls.                                                                  *)

\* Mutant of AwaitGate: only the decision is awaited.
AwaitDecisionOnly(k, t) == Goto(k, "gate") /\ waiters' = waiters \cup {k}

\* awaitGate: register the proposal and wait for a decision or the abort; an
\* abort that already happened wins at once.
AwaitGate(k, t) ==
    \/ /\ t \in aborted
       /\ Goto(k, "done")
       /\ UNCHANGED waiters
    \/ /\ t \notin aborted
       /\ Goto(k, "gate")
       /\ waiters' = waiters \cup {k}

\* dispatch: a command is first checked, the others ask at once.
StartCall(k, t, m) ==
    /\ phase[k] = "unused"
    /\ t \in live /\ queued[t] > 0
    /\ t \in Overlapping \/ Active(t) = {}
    /\ turn' = [turn EXCEPT ![k] = t]
    /\ command' = [command EXCEPT ![k] = m]
    /\ queued' = [queued EXCEPT ![t] = @ - 1]
    /\ \/ m \in ClickOnly /\ AwaitGate(k, t)
       \/ m \notin ClickOnly /\ Goto(k, "check") /\ UNCHANGED waiters
    /\ UNCHANGED <<conv, live, aborted, runs, checked, always, permit, inflight, sent, clicked,
                   cancelled>>

\* Mutant of OtherTool: one tool more than the model asked for.
OtherToolOnceMore(t) ==
    /\ t \in live
    /\ t \in Overlapping \/ Active(t) = {}
    /\ queued' = [queued EXCEPT ![t] = @ - 1]
    /\ UNCHANGED <<conv, live, aborted, runs, callVars, phase, waiters, always, permit, inflight,
                   sent, clicked, cancelled>>

\* A tool that asks nobody: sessions, scrollback, drafts, read-only MCP tools.
OtherTool(t) ==
    /\ t \in live /\ queued[t] > 0
    /\ t \in Overlapping \/ Active(t) = {}
    /\ queued' = [queued EXCEPT ![t] = @ - 1]
    /\ UNCHANGED <<conv, live, aborted, runs, callVars, phase, waiters, always, permit, inflight,
                   sent, clicked, cancelled>>

\* policy.check in the daemon.
Verdict(m) ==
    IF m \in Linux THEN "linux" ELSE IF m \in permit THEN "listed" ELSE "denied"

Check(k) ==
    /\ phase[k] = "check"
    /\ checked' = [checked EXCEPT ![k] = Verdict(command[k])]
    /\ Goto(k, "reply")
    /\ UNCHANGED <<turnVars, turn, command, waiters, always, permit, inflight, sent, clicked,
                   cancelled>>

\* Mutant of Remembered: always-allow without the permit check.
RememberedUnchecked(k) ==
    /\ command[k] \notin Mutating
    /\ <<ConvOf(k), command[k]>> \in always

\* The check allows always-allow, and this conversation has it for the command.
Remembered(k) ==
    /\ checked[k] = "listed"
    /\ command[k] \notin Mutating
    /\ <<ConvOf(k), command[k]>> \in always

\* The answer of policy.check: reuse always-allow, or ask.
ReplyReuse(k) ==
    /\ phase[k] = "reply"
    /\ Remembered(k)
    /\ Goto(k, "sending")
    /\ inflight' = inflight \cup {k}
    /\ UNCHANGED <<turnVars, callVars, waiters, always, permit, sent, clicked, cancelled>>

ReplyAsk(k) ==
    /\ phase[k] = "reply"
    /\ ~Remembered(k)
    /\ AwaitGate(k, turn[k])
    /\ UNCHANGED <<turnVars, callVars, always, permit, inflight, sent, clicked, cancelled>>

\* The prompt offers always-allow.
Offered(k) == checked[k] = "listed" /\ command[k] \notin Mutating

\* /approve: the waiter is deleted and its call goes on up to its next await.
\* A blocked command is never sent, whatever the operator clicked.
Approve(k, answer) ==
    /\ k \in waiters
    /\ answer = "always" => Offered(k)
    /\ waiters' = waiters \ {k}
    /\ clicked' = [clicked EXCEPT ![k] = answer]
    /\ always' = always \cup (IF answer = "always" THEN {<<ConvOf(k), command[k]>>} ELSE {})
    /\ \/ /\ answer # "deny" /\ checked[k] # "denied"
          /\ Goto(k, "sending")
          /\ inflight' = inflight \cup {k}
       \/ /\ answer = "deny" \/ checked[k] = "denied"
          /\ Goto(k, "done")
          /\ UNCHANGED inflight
    /\ UNCHANGED <<turnVars, callVars, permit, sent, cancelled>>

\* The daemon types the line, or runs the request.
Deliver(k) ==
    /\ k \in inflight
    /\ inflight' = inflight \ {k}
    /\ sent' = sent \cup {k}
    /\ UNCHANGED <<turnVars, callVars, phase, waiters, always, permit, clicked, cancelled>>

\* The call to the daemon is lost.
Lose(k) ==
    /\ k \in inflight
    /\ inflight' = inflight \ {k}
    /\ UNCHANGED <<turnVars, callVars, phase, waiters, always, permit, sent, clicked, cancelled>>

\* A call to the daemon returns, fails, or is given up after 30 s though the
\* daemon may still execute it; the tool returns to the loop.
Return(k) ==
    /\ phase[k] \in {"check", "reply", "sending"}
    /\ Goto(k, "done")
    /\ UNCHANGED <<turnVars, callVars, waiters, always, permit, inflight, sent, clicked, cancelled>>

\* policy.setAllow: the operator edits a permit list.
EditPermit(m) ==
    /\ m \notin Linux \cup ClickOnly
    /\ permit' \in {permit \cup {m}, permit \ {m}}
    /\ UNCHANGED <<turnVars, callVars, phase, waiters, always, inflight, sent, clicked, cancelled>>

Next ==
    \/ \E t \in Turns :
          \/ \E c \in Convs : Chat(t, c)
          \/ \E n \in 1 .. MaxRound : Round(t, n)
          \/ EndTurn(t) \/ OtherTool(t)
    \/ \E c \in Convs : Stop(c)
    \/ StopAll
    \/ \E k \in Calls :
          \/ \E t \in Turns, m \in Commands : StartCall(k, t, m)
          \/ Check(k) \/ ReplyReuse(k) \/ ReplyAsk(k)
          \/ \E a \in Answers \ {"none"} : Approve(k, a)
          \/ Deliver(k) \/ Lose(k) \/ Return(k)
    \/ \E m \in Commands : EditPermit(m)

Spec == Init /\ [][Next]_vars

\* The loop runs the tools it was asked for, an aborted loop leaves at the head
\* of the next round, and calls to the daemon time out.
FairSpec ==
    /\ Spec
    /\ \A t \in Turns :
          /\ WF_vars(OtherTool(t) \/ \E k \in Calls, m \in Commands : StartCall(k, t, m))
          /\ WF_vars(t \in aborted /\ EndTurn(t))
    /\ \A k \in Calls : WF_vars(Check(k) \/ ReplyReuse(k) \/ ReplyAsk(k) \/ Return(k))

-----------------------------------------------------------------------------
(* Properties.                                                             *)

\* The operator let this conversation run the command of k always.
AllowedAlways(k) ==
    \E d \in Calls : clicked[d] = "always" /\ command[d] = command[k] /\ ConvOf(d) = ConvOf(k)

(* Dual gate: a call reaches a device only after its own Approve, or, when this
   very call was checked against the permit list, after an always-allow of the
   same conversation, session and command; never on Linux, never for a command
   the check denied (types.ts SYSTEM_PROMPT, README.md:313).                *)
SentWasGated ==
    \A k \in sent \cup inflight :
        \/ /\ clicked[k] \in {"allow", "always"}
           /\ command[k] \in ClickOnly \/ checked[k] \in {"listed", "linux"}
        \/ /\ clicked[k] = "none"
           /\ checked[k] = "listed"
           /\ command[k] \notin Mutating
           /\ AllowedAlways(k)

(* A proposal that a stop or a new turn rejected is never sent, and no late
   click on its prompt has any effect.                                      *)
CancelledStaysSilent ==
    \A k \in Calls : cancelled[k] # NoConv => k \notin sent \cup inflight /\ clicked[k] = "none"

(* "other conversationIds stay gated" (approvals.ts:71): only its own
   conversation, or a stop of everything, rejects a proposal.               *)
CancelIsOwn ==
    \A k \in Calls : cancelled[k] \notin {NoConv, Everyone} => cancelled[k] = ConvOf(k)

(* A rejection is final, and only the conversation itself or a stop of
   everything rejects.                                                      *)
CancelHolds == CancelledStaysSilent /\ CancelIsOwn

(* The prompts that GET /pending shows are exactly those of calls that wait for
   an answer, and none belongs to a turn that was aborted.                  *)
PromptsAreAwaited ==
    /\ waiters = {k \in Calls : phase[k] = "gate"}
    /\ \A k \in waiters : turn[k] \notin aborted

(* Every variable keeps its type, and prompts and waiting calls agree.      *)
PromptsAgree == TypeOK /\ PromptsAreAwaited

(* An aborted turn ends, whatever its tools wait for.                       *)
AbortEndsTurn == \A t \in Turns : t \in aborted ~> t \notin live
==============================================================================
