------------------------------ MODULE StagePush ------------------------------
(***************************************************************************)
(* Staged drafts and their push.  A draft is two files, a body for each    *)
(* format it was saved in and a meta file that names the last one.  A push *)
(* of a CLI draft checks every line against the permit list of the         *)
(* session's vendor and then types them; a push of another format runs a   *)
(* tool on the draft's file and waits for it.  Saves, deletes and pushes   *)
(* run side by side, the permit list changes under them, and sessions and  *)
(* passwords disappear.                                                    *)
(***************************************************************************)
EXTENDS PermitList

CONSTANTS Drafts, Calls,
          Pushers,     \* the calls that push; the others save and delete
          Formats,     \* "cli" and tools
          NeedsTarget, \* the tools that log in to an inventory device
          Bodies,      \* [lines: Seq(commands and Comment), secret, holes: BOOLEAN]
          Filled,      \* [Bodies -> the body with the vendor's lines for its holes]
          Comment, NoBody, NoFormat,
          BannerVendor,\* the vendor the terminal's text tells
          QueueCap,    \* capacity of the session's input channel
          MaxCalls     \* bound on the calls of a behaviour

(* vendor_vlan_cli: the vendors whose lines for a VLAN Late knows.         *)
VlanVendors == {"aos_cx", "cisco_ios", "cisco_ios_xe", "cisco_nxos", "arista_eos"}

VlanLines == <<OneStage(<<"vlan", "10">>), OneStage(<<"name", "vlan10">>)>>

(* cli_scaffold: what a CLI draft of a vendor says before the operator     *)
(* edits it, for an intent that names a VLAN or not.                       *)
CliScaffold(vendor, vlan) ==
  CASE vendor \in VlanVendors ->
         <<Comment, Comment, OneStage(<<"configure", "terminal">>)>>
         \o (IF vlan THEN VlanLines ELSE <<Comment>>) \o <<OneStage(<<"end">>)>>
    [] vendor \in {"junos", "panos"} -> <<Comment, OneStage(<<"configure">>), Comment>>
    [] vendor = "fortios" -> <<Comment, OneStage(<<"config", "system", "console">>),
                               OneStage(<<"end">>), Comment>>
    [] vendor \in {"routeros", "linux"} -> <<Comment, Comment>>
    [] OTHER -> <<>>

(* What fills a draft are lines for a VLAN: no credential, and no hole that *)
(* no other draft had.                                                     *)
ASSUME PushAssumption ==
  /\ BannerVendor \in Vendors /\ QueueCap \in Nat /\ NoFormat \notin Formats
  /\ DOMAIN Filled = Bodies /\ NoBody \notin Bodies \cup Range(Filled)
  /\ \A b \in Bodies : /\ Filled[b].secret => b.secret
                       /\ Filled[b].holes => Filled[b] \in Bodies

(* No denied text occurs in the words that Late itself writes.             *)
ASSUME ScaffoldAssumption ==
  \A v \in VlanVendors : \A text \in Builtin[v].subs :
    \A w \in {"configure", "terminal", "vlan", "10", "name", "vlan10", "end"} :
      text[1] \notin Parts[w]

VARIABLES meta,    \* [Drafts -> format in the meta file, or NoFormat]
          bodies,  \* [Drafts -> [Formats -> body or NoBody]]
          raced,   \* history: drafts whose files were removed during a save
          sess,    \* the terminal: open, vendor, text, queue of typed lines
          typed,   \* history: [Calls -> indices of the lines that were queued]
          vault,   \* a password for the target is in the vault
          child,   \* [Calls -> the tool: state, piped, body, login]
          call,    \* [Calls -> the step of the call and what it holds]
          calls    \* number of calls begun

pushVars == <<meta, bodies, raced, sess, typed, vault, child, call, calls>>

NoCall == [pc |-> "idle", result |-> "none"]

NoChild == [state |-> "none", piped |-> FALSE, login |-> "none", key |-> FALSE,
            body |-> NoBody]

PushInit ==
  /\ meta = [d \in Drafts |-> NoFormat]
  /\ bodies = [d \in Drafts |-> [f \in Formats |-> NoBody]]
  /\ raced = {}
  /\ sess = [open |-> TRUE, vendor |-> "generic", text |-> FALSE, queue |-> <<>>]
  /\ typed = [c \in Calls |-> <<>>]
  /\ vault = TRUE
  /\ child = [c \in Calls |-> NoChild]
  /\ call = [c \in Calls |-> NoCall]
  /\ calls = 0

At(c, pc) == call[c].pc = pc

Goto(c, pc) == call' = [call EXCEPT ![c].pc = pc]

End(c, result) == call' = [call EXCEPT ![c] = [NoCall EXCEPT !.result = result]]

Only(c) == UNCHANGED <<meta, bodies, raced, sess, typed, vault, child, calls>>

Begin(c, op, d, f, b, pc) ==
  /\ up /\ At(c, "idle") /\ child[c].state = "none" /\ calls < MaxCalls
  /\ calls' = calls + 1
  /\ call' = [call EXCEPT ![c] = [pc |-> pc, result |-> "none", op |-> op, draft |-> d,
                                  want |-> f, format |-> f, body |-> b, line |-> 0,
                                  checked |-> <<>>, login |-> "none", key |-> FALSE]]
  /\ typed' = [typed EXCEPT ![c] = <<>>]
  /\ UNCHANGED <<meta, bodies, raced, sess, vault, child>>

(* A mutant of Save: the body is not looked at.                          *)
SaveUnstripped(c, op, d, f, b) == Begin(c, op, d, f, b, "body")

(* stage_save and stage::save.  strip_secrets refuses the body; then the   *)
(* body is written, then the meta file.  Either write may fail.            *)
Save(c, op, d, f, b) == ~b.secret /\ Begin(c, op, d, f, b, "body")

(* A mutant of SaveBody: an error of the write is ignored.               *)
SaveBodyAnyway(c) ==
  /\ At(c, "body")
  /\ \/ bodies' = [bodies EXCEPT ![call[c].draft][call[c].format] = call[c].body]
     \/ UNCHANGED bodies
  /\ Goto(c, "meta")
  /\ UNCHANGED <<meta, raced, sess, typed, vault, child, calls>>

SaveBody(c) ==
  /\ At(c, "body")
  /\ bodies' = [bodies EXCEPT ![call[c].draft][call[c].format] = call[c].body]
  /\ Goto(c, "meta")
  /\ UNCHANGED <<meta, raced, sess, typed, vault, child, calls>>

SaveMeta(c) ==
  /\ At(c, "meta")
  /\ meta' = [meta EXCEPT ![call[c].draft] = call[c].format]
  /\ CASE call[c].op = "save" -> End(c, "ok")
       [] call[c].op = "push" -> Goto(c, "prepare")
       [] call[c].op = "again" -> Goto(c, "start")
  /\ UNCHANGED <<bodies, raced, sess, typed, vault, child, calls>>

SaveFails(c) ==
  /\ At(c, "body") \/ At(c, "meta")
  /\ End(c, "error") /\ Only(c)

(* stage_get: the meta file, then the body it names; either may be gone.   *)
ReadMeta(c) ==
  /\ At(c, "get")
  /\ IF meta[call[c].draft] = NoFormat THEN End(c, "error")
     ELSE call' = [call EXCEPT ![c].pc = "read", ![c].format = meta[call[c].draft]]
  /\ Only(c)

ReadBody(c) ==
  /\ At(c, "read")
  /\ LET b == bodies[call[c].draft][call[c].format]
     IN IF b = NoBody THEN End(c, "error")
        ELSE call' = [call EXCEPT ![c].body = b,
                        ![c].pc = IF call[c].op = "push" THEN "prepare" ELSE "remove"]
  /\ Only(c)

(* stage_prepare: a draft with placeholders is rendered and saved again,   *)
(* in the format of the request; the intent may have nothing to fill in.   *)
Prepare(c) ==
  /\ At(c, "prepare")
  /\ IF ~call[c].body.holes THEN Goto(c, "start")
     ELSE \E b \in {call[c].body, Filled[call[c].body]} :
            call' = [call EXCEPT ![c].pc = "body", ![c].op = "again", ![c].body = b,
                                 ![c].format = call[c].want]
  /\ Only(c)

(* stage::delete removes the body, or fails, and then the meta file.       *)
Saving(d) == {c \in Calls : call[c].pc \in {"body", "meta"} /\ call[c].draft = d}

RemoveBody(c) ==
  LET d == call[c].draft
      f == call[c].format
  IN /\ At(c, "remove")
     /\ IF bodies[d][f] = NoBody
        THEN End(c, "error") /\ UNCHANGED <<bodies, raced>>
        ELSE /\ bodies' = [bodies EXCEPT ![d][f] = NoBody]
             /\ raced' = IF Saving(d) # {} THEN raced \cup {d} ELSE raced
             /\ Goto(c, "unlist")
     /\ UNCHANGED <<meta, sess, typed, vault, child, calls>>

RemoveMeta(c) ==
  /\ At(c, "unlist")
  /\ meta' = [meta EXCEPT ![call[c].draft] = NoFormat]
  /\ raced' = IF Saving(call[c].draft) # {} THEN raced \cup {call[c].draft} ELSE raced
  /\ End(c, "ok")
  /\ UNCHANGED <<bodies, sess, typed, vault, child, calls>>

(***************************************************************************)
(* stage_push_cli.                                                         *)
(***************************************************************************)
StartCli(c) ==
  /\ At(c, "start") /\ call[c].format = "cli"
  /\ IF sess.open THEN Goto(c, "check") ELSE End(c, "error")
  /\ Only(c)

(* infer_from_text in check_command: only Generic gives way to the text.   *)
Infer == IF sess.vendor = "generic" /\ sess.text THEN BannerVendor ELSE sess.vendor

PolicyOf(v) == IF v \in Edited THEN engine[v] ELSE Bundled[v]

Verdict(line) == Check(PolicyOf(Infer), Builtin[Infer], line)

Lines(c) == call[c].body.lines

(* A mutant of CheckLine: each line is typed as soon as it is checked.   *)
CheckThenType(c) ==
  LET i == call[c].line + 1
  IN /\ At(c, "check") /\ i <= Len(Lines(c))
     /\ IF ~sess.open THEN End(c, "error") /\ UNCHANGED <<sess, typed>>
        ELSE IF Lines(c)[i] # Comment
                /\ ~Verdict( Lines(c)[i]).allowed
             THEN End(c, "denied") /\ UNCHANGED <<sess, typed>>
             ELSE /\ call' = [call EXCEPT ![c].line = i]
                  /\ typed' = [typed EXCEPT ![c] = Append(@, i)]
                  /\ sess' = [sess EXCEPT !.vendor = Infer]
     /\ UNCHANGED <<meta, bodies, raced, vault, child, calls>>

(* A mutant of CheckLine: only the first line is checked.                *)
CheckFirst(c) ==
  LET i == call[c].line + 1
  IN /\ At(c, "check") /\ i <= Len(Lines(c))
     /\ IF Lines(c)[i] = Comment
        THEN call' = [call EXCEPT ![c].line = i] /\ UNCHANGED sess
        ELSE IF ~sess.open THEN End(c, "error") /\ UNCHANGED sess
        ELSE /\ sess' = [sess EXCEPT !.vendor = Infer]
             /\ IF call[c].checked # <<>> \/ Verdict(Lines(c)[i]).allowed
                THEN call' = [call EXCEPT ![c].line = i, ![c].checked = Append(@, i)]
                ELSE End(c, "denied")
     /\ UNCHANGED <<meta, bodies, raced, typed, vault, child, calls>>

(* One line: comments are skipped, the session must still be there, and a  *)
(* denied line ends the push before anything was typed.                    *)
CheckLine(c) ==
  LET i == call[c].line + 1
  IN /\ At(c, "check") /\ i <= Len(Lines(c))
     /\ IF Lines(c)[i] = Comment
        THEN call' = [call EXCEPT ![c].line = i] /\ UNCHANGED sess
        ELSE IF ~sess.open THEN End(c, "error") /\ UNCHANGED sess
        ELSE /\ sess' = [sess EXCEPT !.vendor = Infer]
             /\ IF Verdict( Lines(c)[i]).allowed
                THEN call' = [call EXCEPT ![c].line = i, ![c].checked = Append(@, i)]
                ELSE End(c, "denied")
     /\ UNCHANGED <<meta, bodies, raced, typed, vault, child, calls>>

Checked(c) ==
  /\ At(c, "check") /\ call[c].line = Len(Lines(c))
  /\ IF call[c].checked = <<>> THEN End(c, "error") ELSE Goto(c, "type")
  /\ Only(c)

(* A mutant of TypeLine: a full queue has the line typed again.          *)
TypeAgain(c) ==
  /\ At(c, "type") /\ call[c].checked # <<>>
  /\ IF ~sess.open THEN End(c, "error") /\ UNCHANGED <<sess, typed>>
     ELSE IF Len(sess.queue) = QueueCap
     THEN call' = [call EXCEPT ![c].checked = Append(Tail(@), Head(@))] /\ UNCHANGED <<sess, typed>>
     ELSE /\ call' = [call EXCEPT ![c].checked = Tail(@)]
          /\ sess' = [sess EXCEPT !.queue = Append(@, c)]
          /\ typed' = [typed EXCEPT ![c] = Append(@, Head(call[c].checked))]
  /\ UNCHANGED <<meta, bodies, raced, vault, child, calls>>

(* App::write of one line: an unknown session is an error, a full channel  *)
(* swallows the line.                                                      *)
TypeLine(c) ==
  /\ At(c, "type") /\ call[c].checked # <<>>
  /\ IF ~sess.open THEN End(c, "error") /\ UNCHANGED <<sess, typed>>
     ELSE /\ call' = [call EXCEPT ![c].checked = Tail(@)]
          /\ IF Len(sess.queue) = QueueCap THEN UNCHANGED <<sess, typed>>
             ELSE /\ sess' = [sess EXCEPT !.queue = Append(@, c)]
                  /\ typed' = [typed EXCEPT ![c] = Append(@, Head(call[c].checked))]
  /\ UNCHANGED <<meta, bodies, raced, vault, child, calls>>

TypedAll(c) ==
  /\ At(c, "type") /\ call[c].checked = <<>>
  /\ End(c, "ok") /\ Only(c)

(***************************************************************************)
(* run_push of a tool.                                                     *)
(***************************************************************************)

(* resolve_push_target and require_push_target: the profile has a key or   *)
(* an agent, or a password in the vault; else, or without a device that    *)
(* the tool needs, the push is refused.  ssh tools refuse Generic.         *)
Target(c, login) ==
  /\ At(c, "start") /\ call[c].format # "cli"
  /\ login = "password" => vault
  /\ call' = [call EXCEPT ![c].pc = "plan", ![c].login = login]
  /\ Only(c)

NoTarget(c) ==
  /\ At(c, "start") /\ call[c].format # "cli"
  /\ IF call[c].format \in NeedsTarget THEN End(c, "error") ELSE Goto(c, "plan")
  /\ Only(c)

(* A mutant of Plan: neither login nor body is looked at again.          *)
PlanBlind(c) ==
  /\ At(c, "plan")
  /\ call' = [call EXCEPT ![c].pc = "spawn", ![c].key = vault]
  /\ Only(c)

(* stage_push reads the password a second time.  plan_push then checks     *)
(* what was read of the body and finds the tool, or gives up.              *)
Plan(c) ==
  /\ At(c, "plan")
  /\ IF (call[c].login = "password" /\ ~vault) \/ call[c].body.secret
     THEN End(c, "error")
     ELSE call' = [call EXCEPT ![c].pc = "spawn", ![c].key = vault]
  /\ Only(c)

ToolMissing(c) == At(c, "plan") /\ End(c, "error") /\ Only(c)

(* run_timed starts the tool on the file as it is by then.                 *)
Spawn(c) ==
  /\ At(c, "spawn")
  /\ child' = [child EXCEPT ![c] =
                 [state |-> "running", piped |-> TRUE, login |-> call[c].login,
                  key |-> call[c].key,
                  body |-> bodies[call[c].draft][call[c].format]]]
  /\ Goto(c, "wait")
  /\ UNCHANGED <<meta, bodies, raced, sess, typed, vault, calls>>

SpawnFails(c) == At(c, "spawn") /\ End(c, "error") /\ Only(c)

(* The tool ends, and what it started may keep its pipes open for a while. *)
ToolExits(c) ==
  /\ child[c].state = "running"
  /\ \E piped \in BOOLEAN :
       child' = [child EXCEPT ![c].state = "exited", ![c].piped = piped]
  /\ UNCHANGED <<meta, bodies, raced, sess, typed, vault, call, calls>>

PipeCloses(c) ==
  /\ child[c].state \in {"exited", "killed", "none"} /\ child[c].piped
  /\ child' = [child EXCEPT ![c].piped = FALSE]
  /\ UNCHANGED <<meta, bodies, raced, sess, typed, vault, call, calls>>

(* The poll of run_timed: an ended tool is joined with the readers of its  *)
(* pipes, one that ran for too long is killed and reaped.                  *)
Join(c) ==
  /\ At(c, "wait") /\ child[c].state = "exited" /\ ~child[c].piped
  /\ child' = [child EXCEPT ![c] = NoChild]
  /\ End(c, "ok")
  /\ UNCHANGED <<meta, bodies, raced, sess, typed, vault, calls>>

(* A mutant of Timeout: the tool is waited for as long as it likes.      *)
TimeoutNever(c) ==
  /\ At(c, "wait") /\ child[c].state = "running"
  /\ FALSE /\ End(c, "timeout") /\ Only(c)

(* A mutant of Timeout: the tool is not killed.                          *)
TimeoutLeaves(c) ==
  /\ At(c, "wait") /\ child[c].state = "running"
  /\ End(c, "timeout")
  /\ Only(c)

Timeout(c) ==
  /\ At(c, "wait") /\ child[c].state = "running"
  /\ child' = [child EXCEPT ![c].state = "none"]
  /\ End(c, "timeout")
  /\ UNCHANGED <<meta, bodies, raced, sess, typed, vault, calls>>

Poll(c) == Join(c) \/ Timeout(c)
(***************************************************************************)
(* The world around: the terminal prints, reads and closes, the vault      *)
(* changes, the daemon stops and leaves its tools to the system.           *)
(***************************************************************************)
PrintText == /\ sess.open /\ ~sess.text
         /\ sess' = [sess EXCEPT !.text = TRUE]
         /\ UNCHANGED <<meta, bodies, raced, typed, vault, child, call, calls>>

ReadInput == /\ sess.queue # <<>>
             /\ sess' = [sess EXCEPT !.queue = Tail(@)]
             /\ UNCHANGED <<meta, bodies, raced, typed, vault, child, call, calls>>

CloseSession == /\ sess.open
                /\ sess' = [sess EXCEPT !.open = FALSE, !.queue = <<>>]
                /\ UNCHANGED <<meta, bodies, raced, typed, vault, child, call, calls>>

ClearVault == /\ vault /\ vault' = FALSE
              /\ UNCHANGED <<meta, bodies, raced, sess, typed, child, call, calls>>

StopPush ==
  /\ call' = [c \in Calls |-> NoCall]
  /\ child' = [c \in Calls |-> NoChild]
  /\ raced' = raced \cup {call[c].draft : c \in {x \in Calls : At(x, "unlist")}}
  /\ sess' = [sess EXCEPT !.open = FALSE, !.queue = <<>>]
  /\ UNCHANGED <<meta, bodies, typed, vault, calls>>

(***************************************************************************)
(* The specification.                                                      *)
(***************************************************************************)
vars == <<policyVars, pushVars>>

Init == PolicyInit /\ PushInit

Request(c, d) ==
  \/ \E f \in Formats, b \in Bodies, op \in {"save", "push"} :
       (op = "push" => c \in Pushers) /\ Save(c, op, d, f, b)
  \/ \E f \in Formats : c \in Pushers /\ Begin(c, "push", d, f, NoBody, "get")
  \/ Begin(c, "delete", d, NoFormat, NoBody, "get")

Step(c) ==
  \/ SaveBody(c) \/ SaveMeta(c) \/ SaveFails(c) \/ ReadMeta(c) \/ ReadBody(c) \/ Prepare(c)
  \/ RemoveBody(c) \/ RemoveMeta(c)
  \/ StartCli(c) \/ CheckLine(c) \/ Checked(c) \/ TypeLine(c) \/ TypedAll(c)
  \/ \E login \in {"key", "password"} : Target(c, login)
  \/ NoTarget(c) \/ Plan(c) \/ ToolMissing(c) \/ Spawn(c) \/ SpawnFails(c) \/ Poll(c)

World == \/ PrintText \/ ReadInput \/ CloseSession \/ ClearVault
         \/ \E c \in Calls : ToolExits(c) \/ PipeCloses(c)

PushNext == (\E c \in Calls : (\E d \in Drafts : Request(c, d)) \/ Step(c)) \/ World

Next ==
  \/ PushNext /\ UNCHANGED policyVars
  \/ Stop /\ StopPush
  \/ PolicyStep /\ UNCHANGED pushVars

Spec == Init /\ [][Next]_vars

(* The threads that push run; nothing is assumed of the others and of the  *)
(* world.                                                                  *)
FairSpec == Spec /\ \A c \in Pushers : WF_vars(Step(c) /\ UNCHANGED policyVars)
(***************************************************************************)
(* Properties.                                                             *)
(***************************************************************************)
Steps == {"idle", "body", "meta", "prepare", "get", "read", "remove", "unlist", "start",
          "check", "type", "plan", "spawn", "wait"}

(* The step and the result of a call, the tools and the files.             *)
TypeOK ==
  /\ \A c \in Calls : /\ call[c].pc \in Steps
                      /\ call[c].result \in {"none", "ok", "error", "denied", "timeout"}
                      /\ child[c].state \in {"none", "running", "exited"}
                      /\ child[c].state # "none" <=> At(c, "wait")
                      /\ Len(sess.queue) <= QueueCap
  /\ meta \in [Drafts -> Formats \cup {NoFormat}]
  /\ bodies \in [Drafts -> [Formats -> Bodies \cup Range(Filled) \cup {NoBody}]]

(* "Push did not send any lines": a push that met a denied line has typed  *)
(* nothing, whichever line it was.  (stage_push_cli)                       *)
DeniedTypesNothing == \A c \in Calls : call[c].result = "denied" => typed[c] = <<>>

(* The lines of a push reach the terminal in the order of the draft, each  *)
(* at most once, comments never; lines may be missing.  (stage_push_cli)   *)
TypedInOrder ==
  \A c \in Calls : \A i, j \in DOMAIN typed[c] :
    /\ i < j => typed[c][i] < typed[c][j]
    /\ call[c].pc # "idle" => Lines(c)[typed[c][i]] # Comment

(* Every line that is typed or still to be typed is one that the policy of *)
(* a vendor the terminal had allows once all is lifted that operators put  *)
(* on its list, whatever happened to the lists, the files and the vendor   *)
(* between the checks and the typing.  (check_command)                     *)
TypedWasPermitted ==
  \A c \in Calls : At(c, "type") => \A i \in Range(typed[c]) \cup Range(call[c].checked) :
    \E v \in {"generic", BannerVendor} :
      Check(Lenient(v), Builtin[v], Lines(c)[i]).allowed

(* The lines of the scaffold that pass a permit list.                      *)
Permits(v, policy) ==
  \A i \in DOMAIN CliScaffold(v, TRUE) :
    LET line == CliScaffold(v, TRUE)[i]
    IN line = Comment \/ Check(policy, Builtin[v], line).allowed

BundlePermitsScaffold == \A v \in VlanVendors \ Edited : Permits(v, Bundled[v])

(* The lines Late itself writes for a VLAN can be pushed, whatever list the *)
(* operator saved: the builtin list stays below it.  (check, cli_scaffold) *)
ScaffoldIsPermitted ==
  BundlePermitsScaffold /\ (up => \A v \in VlanVendors \cap Edited : Permits(v, engine[v]))

(* A push types the permitted lines of its draft in their order, or, when  *)
(* one is denied, none; what Late itself drafts can be pushed.             *)
TypedIsPermitted ==
  TypeOK /\ DeniedTypesNothing /\ TypedInOrder /\ TypedWasPermitted /\ ScaffoldIsPermitted

(* A draft in the list can be read, in the format its meta file names,     *)
(* unless a delete is at work on it, was cut short or met a save.          *)
(* (stage::save, stage::get, stage::delete)                                *)
ListedIsReadable ==
  \A d \in Drafts : meta[d] # NoFormat /\ bodies[d][meta[d]] = NoBody =>
    d \in raced \/ \E c \in Calls : At(c, "unlist") /\ call[c].draft = d

(* No tool runs on a draft with a credential in it, also when the draft    *)
(* was saved again between the checks of the push and the start of the     *)
(* tool.  (strip_secrets, plan_push, run_push)                             *)
RunsOnlyStripped ==
  \A c \in Calls : child[c].state = "running" /\ child[c].body # NoBody
                     => ~child[c].body.secret

(* A tool that needs the vault's password has it, also when the password   *)
(* was removed during the push.  (require_push_target, stage_push)         *)
RunsWithLogin ==
  \A c \in Calls : child[c].state = "running" /\ child[c].login = "password"
                     => child[c].key

(* A tool runs on a draft without credentials and with the login it needs. *)
RunsAsPlanned == RunsOnlyStripped /\ RunsWithLogin

(* Every push ends, or a process that the tool left behind holds its pipes *)
(* after the tool itself has ended.  (run_timed)                           *)
PushesEnd ==
  \A c \in Pushers :
    ~At(c, "idle") ~> (At(c, "idle") \/ (child[c].state = "exited" /\ child[c].piped))
=============================================================================
