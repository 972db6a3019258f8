---------------------------- MODULE CommandPolicy ----------------------------
(***************************************************************************)
(* The permit list of policy.rs: what PolicyEngine::check answers for a    *)
(* command, and what an edit of the list makes of a vendor's policy.       *)
(*                                                                         *)
(* A command is a record: oneLine says that it has no control character,   *)
(* stages are its parts between pipes, each a sequence of words in lower   *)
(* case.  Words are separated by one blank and no stage is empty, so a     *)
(* phrase of several words is a prefix of a stage exactly when the code's  *)
(* text comparison says so.  Parts[w] are the words found inside the text  *)
(* of w, w itself among them; a denied substring of several words is found *)
(* in as many neighbouring words.                                          *)
(***************************************************************************)
EXTENDS Integers, Sequences, SequencesExt, FiniteSets

CONSTANTS Numbers, \* the words made of digits
          Parts    \* [word -> words that occur in its text]

(* One-word phrases. *)
Verbs(words) == {<<w>> : w \in words}

(* strip_acl_sequence: a sequence number in front of more words is dropped. *)
Strip(stage) ==
  IF Len(stage) > 1 /\ stage[1] \in Numbers THEN Tail(stage) ELSE stage

(* A mutant of Peel: only one "do" is peeled.                            *)
PeelOnce(stage) ==
  IF Len(stage) > 1 /\ stage[1] = "do" THEN Tail(stage) ELSE stage

(* peel_exec_prefix: every leading "do" that has something after it. *)
Peel(stage) ==
  LET rest == {i \in DOMAIN stage : stage[i] # "do" \/ i = Len(stage)}
      first == CHOOSE i \in rest : \A j \in rest : i <= j
  IN SubSeq(stage, first, Len(stage))

Bare(stage) == Peel(Strip(stage))

OnList(phrases, stage) == \E p \in phrases : IsPrefix(p, stage)

Mentions(stage, text) ==
  \E i \in 0..(Len(stage) - Len(text)) :
    \A j \in DOMAIN text : text[j] \in Parts[stage[i + j]]

(* command_matches_deny, which the first half of check repeats. *)
Denies(policy, stages) ==
  \E i \in DOMAIN stages :
    \/ OnList(policy.deny, Bare(stages[i]))
    \/ \E text \in policy.subs : Mentions(stages[i], text)
    \/ i > 1 /\ Head(Bare(stages[i])) \in policy.noPipes

(* expand_aliases: the first word, else the first two, of the command. *)
Expand(policy, stages) ==
  IF stages = <<>> THEN stages
  ELSE LET s == stages[1]
           one == SubSeq(s, 1, 1)
           two == IF Len(s) > 1 THEN SubSeq(s, 1, 2) ELSE one
           with(key) == policy.aliases[key] \o SubSeq(s, Len(key) + 1, Len(s))
       IN [stages EXCEPT ![1] = IF one \in DOMAIN policy.aliases THEN with(one)
                                ELSE IF two \in DOMAIN policy.aliases THEN with(two)
                                ELSE s]

(* is_mutating *)
MutatingVerbs ==
  {"configure", "config", "conf", "acl", "access-list", "interface", "vlan", "apply",
   "router", "routing", "qos", "write", "no", "set", "delete", "edit", "ip", "ipv6",
   "spanning-tree", "route-map", "line", "hostname", "name", "commit", "load",
   "rollback", "deny", "permit", "remark", "resequence"}

(* A mutant of MayAlways: a denial does not count.                       *)
AlwaysUnlessMutating(policy, builtin, stages) ==
  policy.always /\ (stages # <<>> => Head(Bare(stages[1])) \notin MutatingVerbs)

(* allow_always_allow of an allowed command: the builtin policy's denials  *)
(* count, whatever the file lifted.                                        *)
MayAlways(policy, builtin, stages) ==
  /\ policy.always /\ (stages # <<>> => Head(Bare(stages[1])) \notin MutatingVerbs)
  /\ ~Denies(builtin, stages)

(* A mutant of Check: the builtin list is not asked.                     *)
CheckOverlay(policy, builtin, cmd) ==
  LET stages == Expand(policy, cmd.stages)
      listed == stages = <<>> \/ OnList(policy.allow, Bare(stages[1]))
      piped == \A i \in 2..Len(stages) :
                 policy.pipes = {} \/ Head(Bare(stages[i])) \in policy.pipes
      permitted == listed /\ piped /\ ~Denies(policy, stages)
  IN [allowed |-> cmd.oneLine /\ (policy.unrestricted \/ permitted),
      always |-> permitted /\ MayAlways(policy, builtin, stages)]

(* PolicyEngine::check of a vendor's policy and its builtin policy. *)
Check(policy, builtin, cmd) ==
  LET stages == Expand(policy, cmd.stages)
      listed == stages = <<>> \/ OnList(policy.allow \cup builtin.allow, Bare(stages[1]))
      piped == \A i \in 2..Len(stages) :
                 policy.pipes = {} \/ Head(Bare(stages[i])) \in policy.pipes
      permitted == listed /\ piped /\ ~Denies(policy, stages)
  IN [allowed |-> cmd.oneLine /\ (policy.unrestricted \/ permitted),
      always |-> /\ cmd.oneLine /\ ~policy.unrestricted /\ permitted
                 /\ MayAlways(policy, builtin, stages)]

(* lifts_overlay_deny: the verbs whose listing drops matching deny lines. *)
Lifts == Verbs({"reload", "reboot", "erase", "boot", "start-shell", "shell", "factory",
                "copy", "tclsh", "format", "guestshell", "shutdown"})
         \cup {<<"write", "erase">>}

(* apply_allow_list *)
ApplyAllow(policy, list) ==
  LET lifted == list \cap Lifts
  IN [policy EXCEPT
        !.allow = list,
        !.deny = {d \in @ : \A t \in lifted : ~IsPrefix(d, t) /\ ~IsPrefix(t, d)},
        !.subs = {text \in @ : \A t \in lifted : ~Mentions(t, text)}]

(* A mutant of Absorb: what the bundle denies is denied again.           *)
AbsorbAll(policy, bundled) ==
  [policy EXCEPT !.allow = @ \cup bundled.allow, !.deny = @ \cup bundled.deny]

(* absorb_bundled_allow: new bundled verbs join a file the operator has. *)
Absorb(policy, bundled) == [policy EXCEPT !.allow = @ \cup bundled.allow]

(***************************************************************************)
(* builtin_policies.                                                       *)
(***************************************************************************)
Aliases(table) == [key \in Verbs(DOMAIN table) |-> <<table[key[1]]>>]

NoAliases == [key \in {} |-> <<>>]

CiscoIos ==
  [aliases |-> Aliases([sh |-> "show", sho |-> "show", shw |-> "show", wr |-> "write",
                        wri |-> "write", p |-> "ping", tr |-> "traceroute",
                        conf |-> "configure", t |-> "telnet"]),
   allow |-> Verbs({"show", "ping", "traceroute", "dir", "more", "terminal", "where",
                    "undebug", "configure", "interface", "vlan", "access-list", "ip",
                    "ipv6", "no", "end", "do", "write", "router", "route-map", "line",
                    "access-class", "deny", "permit", "remark", "name", "exit"}),
   deny |-> Verbs({"enable", "disable", "copy", "delete", "erase", "format", "archive",
                   "boot", "reload", "reset", "clear", "logout", "quit", "tclsh",
                   "tclquit", "debug", "telnet", "event"}) \cup {<<"write", "erase">>},
   subs |-> Verbs({"tclsh", "guestshell", "app-hosting"}) \cup {<<"event", "manager">>},
   pipes |-> {"include", "exclude", "begin", "section", "count", "format"},
   noPipes |-> {"redirect", "tee", "append"},
   unrestricted |-> FALSE, always |-> TRUE]

AosCx ==
  [aliases |-> Aliases([sh |-> "show"]),
   allow |-> Verbs({"show", "ping", "traceroute", "diag", "capture", "configure", "config",
                    "acl", "access-list", "apply", "interface", "vlan", "ip", "ipv6", "no",
                    "end", "do", "write", "hostname", "routing", "router", "qos",
                    "spanning-tree", "deny", "permit", "remark", "name", "exit",
                    "resequence"}),
   deny |-> Verbs({"erase", "reload", "boot", "checkpoint", "start-shell", "copy"})
            \cup {<<"write", "erase">>},
   subs |-> Verbs({"erase", "reload", "factory", "shell"}),
   pipes |-> {"include", "exclude", "begin"}, noPipes |-> {},
   unrestricted |-> FALSE, always |-> TRUE]

Generic ==
  [aliases |-> NoAliases,
   allow |-> Verbs({"show", "ping", "traceroute", "display", "get", "dir", "more",
                    "terminal"}),
   deny |-> Verbs({"configure", "config", "reload", "reboot", "write", "commit", "copy",
                   "erase", "start-shell"}),
   subs |-> Verbs({"configure", "reload", "reboot", "factory", "shell"})
           \cup {<<"write", "erase">>},
   pipes |-> {}, noPipes |-> {}, unrestricted |-> FALSE, always |-> TRUE]

Linux ==
  [aliases |-> NoAliases, allow |-> {}, deny |-> {}, subs |-> {}, pipes |-> {},
   noPipes |-> {}, unrestricted |-> TRUE, always |-> FALSE]

CiscoIosXe ==
  [CiscoIos EXCEPT !.deny = @ \cup Verbs({"guestshell", "app-hosting", "install", "request"})]

CiscoNxos ==
  [CiscoIos EXCEPT
     !.deny = @ \cup Verbs({"run", "python", "source", "guestshell", "bash"}),
     !.subs = @ \cup {<<"run", "bash">>, <<"python">>}]

Junos ==
  [aliases |-> Aliases([sh |-> "show", sho |-> "show"]),
   allow |-> Verbs({"show", "ping", "traceroute", "monitor", "op", "test"})
             \cup {<<"file", "list">>, <<"file", "show">>},
   deny |-> Verbs({"configure", "edit", "commit", "rollback", "load", "save", "request",
                   "restart", "start", "clear", "set", "delete", "rename", "copy",
                   "activate", "deactivate", "exit", "quit"}),
   subs |-> {<<"start", "shell">>, <<"start", "network-service">>},
   pipes |-> {"match", "except", "find", "count", "display", "trim", "compare"},
   noPipes |-> {"save"}, unrestricted |-> FALSE, always |-> TRUE]

AristaEos ==
  [aliases |-> Aliases([sh |-> "show"]),
   allow |-> Verbs({"show", "ping", "traceroute", "dir", "configure", "interface", "vlan",
                    "ip", "ipv6", "no", "end", "access-list", "deny", "permit", "remark",
                    "name", "exit"}) \cup {<<"bash", "timeout">>},
   deny |-> Verbs({"copy", "delete", "reload", "bash", "python", "event-handler", "agent",
                   "daemon", "enable"}),
   subs |-> Verbs({"bash", "python", "event-handler"}),
   pipes |-> {"include", "exclude", "begin", "section", "nz"},
   noPipes |-> {"redirect", "tee", "append"}, unrestricted |-> FALSE, always |-> TRUE]

Panos ==
  [aliases |-> Aliases([sh |-> "show"]),
   allow |-> Verbs({"show", "ping", "traceroute", "test"}) \cup {<<"request", "system">>},
   deny |-> Verbs({"configure", "set", "delete", "commit", "load", "save", "debug", "scp",
                   "ftp", "tftp", "less", "tail", "run"}),
   subs |-> {<<"debug", "software", "shell">>, <<"debug", "system">>,
             <<"request", "restart">>},
   pipes |-> {"match", "except"}, noPipes |-> {},
   unrestricted |-> FALSE, always |-> TRUE]

Fortios ==
  [aliases |-> Aliases([sh |-> "show", get |-> "get"]),
   allow |-> Verbs({"show", "get", "diagnose"})
             \cup {<<"execute", "ping">>, <<"execute", "traceroute">>},
   deny |-> Verbs({"config", "edit", "set", "unset", "delete", "end"})
            \cup {<<"execute", w>> : w \in {"restore", "reboot", "shutdown"}},
   subs |-> {<<"execute", "restore">>, <<"execute", "reboot">>},
   pipes |-> {"grep"}, noPipes |-> {}, unrestricted |-> FALSE, always |-> TRUE]

(* " add", " set" and " remove" of the code: no first word is one of them.  *)
Routeros ==
  [aliases |-> NoAliases,
   allow |-> Verbs({"/ip", "/interface", "/routing", "/ping"})
             \cup {<<"/system", "resource">>, <<"/system", "identity">>,
                   <<"/tool", "traceroute">>},
   deny |-> Verbs({"/user", "/export"})
            \cup {<<"/system", "reboot">>, <<"/system", "shutdown">>, <<"/file", "remove">>},
   subs |-> Verbs({"reboot", "shutdown", "password", "add", "set", "remove"}),
   pipes |-> {"where", "print"}, noPipes |-> {}, unrestricted |-> FALSE, always |-> TRUE]

(* builtin_policies *)
Builtin ==
  [cisco_ios |-> CiscoIos, cisco_ios_xe |-> CiscoIosXe, cisco_nxos |-> CiscoNxos,
   junos |-> Junos, arista_eos |-> AristaEos, panos |-> Panos, linux |-> Linux,
   generic |-> Generic, fortios |-> Fortios, routeros |-> Routeros, aos_cx |-> AosCx]

Vendors == DOMAIN Builtin

(* The files of policies/: the same, but telnet is missing for NX-OS.      *)
BundledNxos ==
  [CiscoNxos EXCEPT !.deny = @ \ {<<"telnet">>},
                    !.aliases = [key \in DOMAIN @ \ {<<"t">>} |-> @[key]]]

Bundled == [Builtin EXCEPT !.cisco_nxos = BundledNxos]

(* No word of a list is a number, so strip_acl_sequence drops none of them. *)
ASSUME NumbersAssumption ==
  \A v \in Vendors : \A phrase \in Builtin[v].allow \cup Builtin[v].deny \cup Lifts
                                   \cup DOMAIN Builtin[v].aliases :
    phrase[1] \notin Numbers
=============================================================================
