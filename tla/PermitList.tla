------------------------------ MODULE PermitList ------------------------------
(***************************************************************************)
(* The permit lists of the daemon: one YAML file per vendor, which the     *)
(* operator edits, and the engine in memory that answers policy.check.     *)
(* policy_set_allow reads the file, truncates it, fills it and reloads the *)
(* engine from all files; two calls may do so at once, and the daemon may  *)
(* die in between.                                                         *)
(***************************************************************************)
EXTENDS CommandPolicy

CONSTANTS Edited,    \* the vendors whose list is edited
          Seeded,    \* the vendors for which the bundled directory has a file
          Lists,     \* the allow lists an operator saves, sets of phrases
          Editors,   \* calls of policy.set_allow that may run at once
          MaxEdits,  \* bound on the calls of a behaviour
          Torn, NoFile

ASSUME PermitAssumption ==
  /\ Edited \subseteq Vendors \ {"linux"} /\ Seeded \subseteq Vendors
  /\ Lists \subseteq SUBSET Seq(STRING)
  /\ MaxEdits \in Nat /\ Torn # NoFile

VARIABLES file,    \* [Edited -> policy, Torn or NoFile]
          engine,  \* [Edited -> policy]: PolicyEngine::policies
          edit,    \* [Editors -> the call's step, vendor and new policy]
          up,      \* the daemon runs
          asked,   \* history: [Edited -> phrases that were on a saved list]
          edits    \* number of calls begun

policyVars == <<file, engine, edit, up, asked, edits>>

Idle == [pc |-> "idle"]

Whole(v) == file[v] \notin {Torn, NoFile}

(* load_dir of the bundled files and merge_dir of those in vs.             *)
Load(vs) == [v \in Edited |-> IF v \in vs THEN file[v] ELSE Bundled[v]]

PolicyInit ==
  /\ file = [v \in Edited |-> NoFile]
  /\ engine = [v \in Edited |-> Bundled[v]]
  /\ edit = [e \in Editors |-> Idle]
  /\ up = FALSE
  /\ asked = [v \in Edited |-> {}]
  /\ edits = 0

(* boot_with: missing files are copied, the others get the bundled verbs   *)
(* they lack (an error there is ignored), and all are loaded: one that     *)
(* cannot be parsed keeps the daemon from starting.                        *)
Seed(v) ==
  IF v \notin Seeded \/ file[v] = Torn THEN file[v]
  ELSE IF file[v] = NoFile THEN Bundled[v] ELSE Absorb(file[v], Bundled[v])

Boot ==
  /\ ~up
  /\ file' = [v \in Edited |-> Seed(v)]
  /\ \A v \in Edited : file'[v] # Torn
  /\ engine' = [v \in Edited |-> IF file'[v] = NoFile THEN Bundled[v] ELSE file'[v]]
  /\ up' = TRUE
  /\ UNCHANGED <<edit, asked, edits>>

(* The daemon ends, whatever its calls were doing.                         *)
Stop ==
  /\ up /\ up' = FALSE
  /\ edit' = [e \in Editors |-> Idle]
  /\ UNCHANGED <<file, engine, asked, edits>>

(* The operator removes a file the daemon cannot start with.               *)
Repair(v) ==
  /\ ~up /\ file[v] = Torn
  /\ file' = [file EXCEPT ![v] = NoFile]
  /\ UNCHANGED <<engine, edit, up, asked, edits>>

(* policy_set_allow up to the write; a file that cannot be parsed is an    *)
(* error and nothing happens.                                              *)
SetAllow(e, v, list) ==
  /\ up /\ edit[e] = Idle /\ edits < MaxEdits
  /\ edits' = edits + 1
  /\ file[v] # Torn
  /\ LET current == IF Whole(v) THEN file[v] ELSE engine[v]
     IN edit' = [edit EXCEPT ![e] =
                   [pc |-> "open", vendor |-> v, next |-> ApplyAllow(current, list)]]
  /\ asked' = [asked EXCEPT ![v] = @ \cup list]
  /\ UNCHANGED <<file, engine, up>>

(* fs::write in write_vendor_policy opens the file empty and then fills    *)
(* it; over what another call has filled since, it may leave a mixture.    *)
Truncate(e) ==
  /\ edit[e].pc = "open"
  /\ file' = [file EXCEPT ![edit[e].vendor] = Torn]
  /\ edit' = [edit EXCEPT ![e].pc = "fill"]
  /\ UNCHANGED <<engine, up, asked, edits>>

Fill(e) ==
  /\ edit[e].pc = "fill"
  /\ \E left \in {edit[e].next} \cup (IF file[edit[e].vendor] = Torn THEN {} ELSE {Torn}) :
       file' = [file EXCEPT ![edit[e].vendor] = left]
  /\ edit' = [edit EXCEPT ![e].pc = "reload"]
  /\ UNCHANGED <<engine, up, asked, edits>>

(* A mutant of Reload: only the file just written.                       *)
ReloadOwn(e) ==
  /\ edit[e].pc = "reload"
  /\ engine' = [engine EXCEPT ![edit[e].vendor] = edit[e].next]
  /\ edit' = [edit EXCEPT ![e] = Idle]
  /\ UNCHANGED <<file, up, asked, edits>>

(* PolicyEngine::reload, under the lock of the engine.  A file that cannot *)
(* be parsed ends it with the bundled policies and those read before.      *)
Reload(e) ==
  /\ edit[e].pc = "reload"
  /\ LET whole == {v \in Edited : Whole(v)}
     IN IF \E v \in Edited : file[v] = Torn
        THEN \E read \in SUBSET whole : engine' = Load(read)
        ELSE engine' = Load(whole)
  /\ edit' = [edit EXCEPT ![e] = Idle]
  /\ UNCHANGED <<file, up, asked, edits>>

PolicyStep ==
  \/ Boot
  \/ \E v \in Edited : Repair(v)
  \/ \E e \in Editors : \/ \E v \in Edited, list \in Lists : SetAllow(e, v, list)
                        \/ Truncate(e) \/ Fill(e) \/ Reload(e)

PolicyNext == PolicyStep \/ Stop

PolicySpec == PolicyInit /\ [][PolicyNext]_policyVars

(***************************************************************************)
(* Properties.                                                             *)
(***************************************************************************)

(* The policy of a vendor once all that was ever saved is listed at once.  *)
Lenient(v) ==
  IF v \in Edited THEN Absorb(ApplyAllow(Bundled[v], asked[v]), Bundled[v]) ELSE Bundled[v]

Settled == /\ up
           /\ \A e \in Editors : edit[e] = Idle
           /\ \A v \in Edited : file[v] # Torn

(* When no call runs and every file can be parsed, policy.check answers    *)
(* from what the files say: no edit is lost in memory or left only there.  *)
(* (policy_set_allow, boot_with)                                           *)
EngineIsFile ==
  Settled => engine = Load({v \in Edited : Whole(v)})

(* Commands that ask for a verb, behind sequence numbers and "do".         *)
DoPrefixes == {<<>>, <<"do">>, <<"do", "do">>} \cup {<<n, "do">> : n \in Numbers}

Wrapped(verb) ==
  {p[1] \o verb \o p[2] : p \in DoPrefixes \X {<<>>, <<"x">>}}

OneStage(stage) == [oneLine |-> TRUE, stages |-> <<stage>>]

(* A verb the builtin policy denies stays denied in every wrapping until   *)
(* it was on a list somebody saved, whatever edits, failed reloads and     *)
(* restarts did to the file and to memory.  (check, apply_allow_list)      *)
DeniedStaysDenied ==
  up => \A v \in Edited : \A verb \in Builtin[v].deny :
          (\A t \in asked[v] : ~IsPrefix(verb, t) /\ ~IsPrefix(t, verb))
            => \A stage \in Wrapped(verb) :
                 ~Check(engine[v], Builtin[v], OneStage(stage)).allowed

(* A dangerous verb that the operator put on the list is allowed as soon   *)
(* as nothing runs: no denied phrase or substring is left in its way, also *)
(* after a restart.  (apply_allow_list, absorb_bundled_allow)              *)
ListedIsAllowed ==
  Settled => \A v \in Edited : Whole(v) =>
               \A verb \in file[v].allow \cap Lifts :
                 Check(engine[v], Builtin[v], OneStage(verb)).allowed

(* No edit makes a command that the builtin policy denies one that may be  *)
(* allowed for always.  (check, "builtin_denied")                          *)
NoAlwaysForDenied ==
  up => \A v \in Edited : \A verb \in Builtin[v].deny : \A stage \in Wrapped(verb) :
          ~Check(engine[v], Builtin[v], OneStage(stage)).always

(* The list decides: what the builtin policy denies stays denied until it  *)
(* is listed, is allowed then, and is never allowed for always.            *)
ListDecides == DeniedStaysDenied /\ NoAlwaysForDenied /\ ListedIsAllowed
=============================================================================
