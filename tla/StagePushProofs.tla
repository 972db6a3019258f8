---------------------------- MODULE StagePushProofs ----------------------------
(***************************************************************************)
(* Theorems about PermitList and about StagePush on top of it, for any     *)
(* vendors, lists, editors, drafts, calls and bounds.                      *)
(*                                                                         *)
(* EngineIsFile is not inductive: while a call is between its write and    *)
(* its reload, memory is behind the file.  EngineInv says that, as long as *)
(* the daemon runs, memory is what the files say, or a file is torn, or    *)
(* some call that began to write has its reload ahead of it.               *)
(*                                                                         *)
(* ListDecides needs to know where a list comes from.  PolicyInv says of   *)
(* every policy in a file, in memory and in a call's hands that it is the  *)
(* bundled one with phrases added that operators saved, and that it lacks  *)
(* a denied phrase or substring only where a saved phrase lifted it.       *)
(*                                                                         *)
(* PushInv joins PolicyInv to three parts.  CallsInv ties each call's      *)
(* record to the lines it typed: those lie before the ones still to be     *)
(* typed, and every one of them passed the list some vendor had, which     *)
(* later edits only widen.  FilesInv follows a save from the body to the   *)
(* meta file, also past a delete.  TerminalInv says which vendors the      *)
(* terminal can have.                                                      *)
(***************************************************************************)
EXTENDS StagePush, SequenceTheorems, TLAPS

(* A call that has begun to write and has not reloaded. *)
Writing(e) == edit[e].pc \in {"fill", "reload"}

CallShape(r) ==
  \/ r = Idle
  \/ /\ r = [pc |-> r.pc, vendor |-> r.vendor, next |-> r.next]
     /\ r.pc \in {"open", "fill", "reload"} /\ r.vendor \in Edited

ShapeInv ==
  /\ file = [v \in Edited |-> file[v]]
  /\ edit = [e \in Editors |-> edit[e]]
  /\ \A e \in Editors : CallShape(edit[e])

IsLoaded == engine = Load({v \in Edited : Whole(v)})

EngineInv ==
  up => \/ \E v \in Edited : file[v] = Torn
        \/ \E e \in Editors : Writing(e)
        \/ IsLoaded

Inv == ShapeInv /\ EngineInv

(* One call of the step e changes is replaced by r: what the others do stays. *)
LEMMA ShapeKept ==
  ASSUME ShapeInv, NEW e \in Editors, NEW r, CallShape(r),
         edit' = [edit EXCEPT ![e] = r]
  PROVE  /\ edit' = [f \in Editors |-> edit'[f]]
         /\ \A f \in Editors : CallShape(edit'[f])
         /\ edit'[e] = r
         /\ \A f \in Editors \ {e} : edit'[f] = edit[f]
  BY DEF ShapeInv

(* Initially nothing runs. *)
LEMMA InitEstablishes == PolicyInit => Inv
  BY DEF PolicyInit, Inv, ShapeInv, EngineInv, CallShape

(* boot_with loads exactly the files it has seeded. *)
LEMMA BootKeeps == Inv /\ Boot => Inv'
<1> SUFFICES ASSUME Inv, Boot PROVE Inv'
  OBVIOUS
<1>1. ShapeInv'
  <2>1. file' = [v \in Edited |-> file'[v]]
    BY DEF Boot
  <2>2. edit' = edit
    BY DEF Boot
  <2> QED BY <2>1, <2>2 DEF Inv, ShapeInv, CallShape
<1>2. IsLoaded'
  <2>1. \A v \in Edited : (Whole(v))' <=> file'[v] # NoFile
    BY DEF Boot, Whole
  <2>2. engine' = [v \in Edited |-> IF file'[v] = NoFile THEN Bundled[v] ELSE file'[v]]
    BY DEF Boot
  <2> QED BY <2>1, <2>2 DEF IsLoaded, Load
<1> QED BY <1>1, <1>2 DEF Inv, EngineInv

(* Calls end with the daemon and a daemon that is down promises nothing. *)
LEMMA StopKeeps == Inv /\ Stop => Inv'
  BY DEF Inv, ShapeInv, EngineInv, Stop, CallShape

(* A file is only removed while the daemon is down. *)
LEMMA RepairKeeps ==
  ASSUME Inv, NEW v \in Edited, Repair(v) PROVE Inv'
  BY DEF Inv, ShapeInv, EngineInv, Repair, CallShape

(* A call begins: files and memory stay, and it was not writing. *)
LEMMA SetAllowKeeps ==
  ASSUME Inv, NEW e \in Editors, NEW v \in Edited, NEW list, SetAllow(e, v, list)
  PROVE  Inv'
<1> DEFINE current == IF Whole(v) THEN file[v] ELSE engine[v]
           r == [pc |-> "open", vendor |-> v, next |-> ApplyAllow(current, list)]
<1> HIDE DEF current
<1>1. edit' = [edit EXCEPT ![e] = r] /\ edit[e] = Idle /\ file' = file
      /\ engine' = engine /\ up' = up
  BY DEF SetAllow, current
<1>2. CallShape(r)
  BY DEF CallShape
<1>3. /\ edit' = [f \in Editors |-> edit'[f]]
      /\ \A f \in Editors : CallShape(edit'[f])
      /\ \A f \in Editors \ {e} : edit'[f] = edit[f]
  <2> HIDE DEF r
  <2> QED BY <1>1, <1>2, ShapeKept DEF Inv
<1>4. \A f \in Editors : Writing(f) => f # e
  BY <1>1 DEF Writing, Idle
<1>5. \A f \in Editors : Writing(f) => Writing(f)'
  BY <1>3, <1>4 DEF Writing
<1> QED BY <1>1, <1>3, <1>5 DEF Inv, ShapeInv, EngineInv, IsLoaded, Load, Whole

(* A call's own step to pc, from a step that is not idle. *)
LEMMA StepShape ==
  ASSUME Inv, NEW e \in Editors, edit[e].pc \in {"open", "fill", "reload"},
         NEW pc \in {"fill", "reload"}, edit' = [edit EXCEPT ![e].pc = pc]
  PROVE  /\ edit[e].vendor \in Edited
         /\ edit' = [f \in Editors |-> edit'[f]]
         /\ \A f \in Editors : CallShape(edit'[f])
         /\ edit'[e].pc = pc
<1>1. edit[e] # Idle
  BY DEF Idle
<1>2. /\ edit[e] = [pc |-> edit[e].pc, vendor |-> edit[e].vendor, next |-> edit[e].next]
      /\ edit[e].vendor \in Edited
  BY <1>1 DEF Inv, ShapeInv, CallShape
<1> DEFINE r == [pc |-> pc, vendor |-> edit[e].vendor, next |-> edit[e].next]
<1>3. [edit[e] EXCEPT !.pc = pc] = r
  BY <1>2
<1>4. edit' = [edit EXCEPT ![e] = r]
  BY <1>3
<1>5. CallShape(r) /\ r.pc = pc
  BY <1>2 DEF CallShape
<1> HIDE DEF r
<1> QED BY <1>2, <1>4, <1>5, ShapeKept DEF Inv

(* From the moment the file is opened the call has its reload to do. *)
LEMMA TruncateKeeps == ASSUME Inv, NEW e \in Editors, Truncate(e) PROVE Inv'
<1>1. /\ edit' = [f \in Editors |-> edit'[f]] /\ \A f \in Editors : CallShape(edit'[f])
      /\ edit'[e].pc = "fill"
  BY StepShape DEF Truncate
<1>2. file' = [v \in Edited |-> file'[v]]
  BY DEF Truncate, Inv, ShapeInv
<1> QED BY <1>1, <1>2 DEF Inv, ShapeInv, EngineInv, Writing

LEMMA FillKeeps == ASSUME Inv, NEW e \in Editors, Fill(e) PROVE Inv'
<1>1. /\ edit' = [f \in Editors |-> edit'[f]] /\ \A f \in Editors : CallShape(edit'[f])
      /\ edit'[e].pc = "reload"
  BY StepShape DEF Fill
<1>2. file' = [v \in Edited |-> file'[v]]
  BY DEF Fill, Inv, ShapeInv
<1> QED BY <1>1, <1>2 DEF Inv, ShapeInv, EngineInv, Writing

(* A reload either meets a torn file or leaves memory as the files say. *)
LEMMA ReloadKeeps == ASSUME Inv, NEW e \in Editors, Reload(e) PROVE Inv'
<1>1. edit' = [edit EXCEPT ![e] = Idle] /\ file' = file
  BY DEF Reload
<1>2. CallShape(Idle)
  BY DEF CallShape
<1>3. /\ edit' = [f \in Editors |-> edit'[f]]
      /\ \A f \in Editors : CallShape(edit'[f])
  BY <1>1, <1>2, ShapeKept DEF Inv
<1>4. ShapeInv'
  BY <1>1, <1>3 DEF Inv, ShapeInv
<1>5. (\E v \in Edited : file'[v] = Torn) \/ IsLoaded'
  <2>1. CASE \E v \in Edited : file[v] = Torn
    BY <2>1, <1>1
  <2>2. CASE ~ \E v \in Edited : file[v] = Torn
    <3>1. engine' = Load({v \in Edited : Whole(v)})
      BY <2>2 DEF Reload
    <3> QED BY <3>1, <1>1 DEF IsLoaded, Load, Whole
  <2> QED BY <2>1, <2>2
<1> QED BY <1>4, <1>5 DEF Inv, EngineInv

LEMMA NextKeeps == Inv /\ [PolicyNext]_policyVars => Inv'
<1> SUFFICES ASSUME Inv, [PolicyNext]_policyVars PROVE Inv'
  OBVIOUS
<1>1. CASE Boot
  BY <1>1, BootKeeps
<1>2. CASE Stop
  BY <1>2, StopKeeps
<1>3. CASE \E v \in Edited : Repair(v)
  BY <1>3, RepairKeeps
<1>4. ASSUME NEW e \in Editors, NEW v \in Edited, NEW list \in Lists, SetAllow(e, v, list)
      PROVE  Inv'
  BY <1>4, SetAllowKeeps
<1>5. ASSUME NEW e \in Editors, Truncate(e) \/ Fill(e) \/ Reload(e) PROVE Inv'
  BY <1>5, TruncateKeeps, FillKeeps, ReloadKeeps
<1>6. CASE UNCHANGED policyVars
  BY <1>6 DEF policyVars, Inv, ShapeInv, EngineInv, CallShape, IsLoaded, Load, Whole, Writing
<1> QED BY <1>1, <1>2, <1>3, <1>4, <1>5, <1>6 DEF PolicyNext, PolicyStep

(* A settled daemon has no torn file and no call, so memory is loaded. *)
LEMMA InvImplies == Inv => EngineIsFile
<1>1. ASSUME Settled PROVE ~ \E e \in Editors : Writing(e)
  BY <1>1 DEF Settled, Writing, Idle
<1> QED BY <1>1 DEF Inv, EngineInv, EngineIsFile, Settled, IsLoaded

(* When no call runs and every file can be parsed, memory agrees with the  *)
(* files, however edits, failed reloads and restarts were interleaved.     *)
(* (policy_set_allow, PolicyEngine::reload, boot_with)                     *)
THEOREM EngineAlwaysIsFile == PolicySpec => []EngineIsFile
<1>1. PolicySpec => []Inv
  BY InitEstablishes, NextKeeps, PTL DEF PolicySpec
<1> QED BY <1>1, InvImplies, PTL

---------------------------------------------------------------------------
(* The builtin policies: what their phrases and aliases look like.         *)

\* A phrase of one or two words.
Phrase(p) == p = <<p[1]>> \/ p = <<p[1], p[2]>>
AliasFree(b, w) == \A key \in DOMAIN b.aliases : key[1] # w
PhraseFacts(b) ==
  /\ b.unrestricted = FALSE
  /\ \A key \in DOMAIN b.aliases : key = <<key[1]>>
  /\ AliasFree(b, "do") /\ \A d \in b.deny \cup Lifts : AliasFree(b, d[1])
  /\ \A d \in b.deny : Phrase(d) /\ d[1] # "do"
  /\ b.allow \cap Lifts = {}

LEMMA VerbsAre ==
  ASSUME NEW W
  PROVE  \A p \in Verbs(W) : Phrase(p) /\ p[1] \in W /\ p = <<p[1]>>
<1> SUFFICES ASSUME NEW p \in Verbs(W) PROVE Phrase(p) /\ p[1] \in W /\ p = <<p[1]>>
  OBVIOUS
<1>1. PICK w \in W : p = <<w>>
  BY DEF Verbs
<1> QED BY <1>1 DEF Phrase

LiftWords == {"reload", "reboot", "erase", "boot", "start-shell", "shell", "factory",
                "copy", "tclsh", "format", "guestshell", "shutdown"}
LEMMA LiftsAre ==
  \A t \in Lifts : Phrase(t) /\ t[1] \in LiftWords \cup {"write"}
<1>1. Lifts = Verbs(LiftWords) \cup {<<"write", "erase">>}
  BY DEF LiftWords, Lifts
<1>2. Phrase(<<"write", "erase">>)
  BY DEF Phrase
<1> QED BY <1>1, <1>2, VerbsAre

LEMMA CiscoIosFacts == PhraseFacts(CiscoIos)
<1> DEFINE A == {"sh", "sho", "shw", "wr", "wri", "p", "tr", "conf", "t"}
<1>1. CiscoIos.unrestricted = FALSE /\ CiscoIos.allow \cap Lifts = {}
  BY DEF CiscoIos, Verbs, Lifts
<1>2. \A key \in DOMAIN CiscoIos.aliases : key = <<key[1]>> /\ key[1] \in A
  BY DEF CiscoIos, Aliases, NoAliases, Verbs
<1>3. \A d \in CiscoIos.deny : Phrase(d) /\ d[1] \notin A \cup {"do"}
  BY DEF CiscoIos, Verbs, Phrase
<1>4. A \cap (LiftWords \cup {"write", "do"}) = {}
  BY DEF LiftWords
<1> QED BY <1>1, <1>2, <1>3, <1>4, LiftsAre DEF PhraseFacts, AliasFree

LEMMA AosCxFacts == PhraseFacts(AosCx)
<1> DEFINE A == {"sh"}
<1>1. AosCx.unrestricted = FALSE /\ AosCx.allow \cap Lifts = {}
  BY DEF AosCx, Verbs, Lifts
<1>2. \A key \in DOMAIN AosCx.aliases : key = <<key[1]>> /\ key[1] \in A
  BY DEF AosCx, Aliases, NoAliases, Verbs
<1>3. \A d \in AosCx.deny : Phrase(d) /\ d[1] \notin A \cup {"do"}
  BY DEF AosCx, Verbs, Phrase
<1>4. A \cap (LiftWords \cup {"write", "do"}) = {}
  BY DEF LiftWords
<1> QED BY <1>1, <1>2, <1>3, <1>4, LiftsAre DEF PhraseFacts, AliasFree

LEMMA GenericFacts == PhraseFacts(Generic)
<1> DEFINE A == {}
<1>1. Generic.unrestricted = FALSE /\ Generic.allow \cap Lifts = {}
  BY DEF Generic, Verbs, Lifts
<1>2. \A key \in DOMAIN Generic.aliases : key = <<key[1]>> /\ key[1] \in A
  BY DEF Generic, Aliases, NoAliases, Verbs
<1>3. \A d \in Generic.deny : Phrase(d) /\ d[1] \notin A \cup {"do"}
  BY DEF Generic, Verbs, Phrase
<1>4. A \cap (LiftWords \cup {"write", "do"}) = {}
  BY DEF LiftWords
<1> QED BY <1>1, <1>2, <1>3, <1>4, LiftsAre DEF PhraseFacts, AliasFree

LEMMA JunosFacts == PhraseFacts(Junos)
<1> DEFINE A == {"sh", "sho"}
<1>1. Junos.unrestricted = FALSE /\ Junos.allow \cap Lifts = {}
  BY DEF Junos, Verbs, Lifts
<1>2. \A key \in DOMAIN Junos.aliases : key = <<key[1]>> /\ key[1] \in A
  BY DEF Junos, Aliases, NoAliases, Verbs
<1>3. \A d \in Junos.deny : Phrase(d) /\ d[1] \notin A \cup {"do"}
  BY DEF Junos, Verbs, Phrase
<1>4. A \cap (LiftWords \cup {"write", "do"}) = {}
  BY DEF LiftWords
<1> QED BY <1>1, <1>2, <1>3, <1>4, LiftsAre DEF PhraseFacts, AliasFree

LEMMA AristaEosFacts == PhraseFacts(AristaEos)
<1> DEFINE A == {"sh"}
<1>1. AristaEos.unrestricted = FALSE /\ AristaEos.allow \cap Lifts = {}
  BY DEF AristaEos, Verbs, Lifts
<1>2. \A key \in DOMAIN AristaEos.aliases : key = <<key[1]>> /\ key[1] \in A
  BY DEF AristaEos, Aliases, NoAliases, Verbs
<1>3. \A d \in AristaEos.deny : Phrase(d) /\ d[1] \notin A \cup {"do"}
  BY DEF AristaEos, Verbs, Phrase
<1>4. A \cap (LiftWords \cup {"write", "do"}) = {}
  BY DEF LiftWords
<1> QED BY <1>1, <1>2, <1>3, <1>4, LiftsAre DEF PhraseFacts, AliasFree

LEMMA PanosFacts == PhraseFacts(Panos)
<1> DEFINE A == {"sh"}
<1>1. Panos.unrestricted = FALSE /\ Panos.allow \cap Lifts = {}
  BY DEF Panos, Verbs, Lifts
<1>2. \A key \in DOMAIN Panos.aliases : key = <<key[1]>> /\ key[1] \in A
  BY DEF Panos, Aliases, NoAliases, Verbs
<1>3. \A d \in Panos.deny : Phrase(d) /\ d[1] \notin A \cup {"do"}
  BY DEF Panos, Verbs, Phrase
<1>4. A \cap (LiftWords \cup {"write", "do"}) = {}
  BY DEF LiftWords
<1> QED BY <1>1, <1>2, <1>3, <1>4, LiftsAre DEF PhraseFacts, AliasFree

LEMMA FortiosFacts == PhraseFacts(Fortios)
<1> DEFINE A == {"sh", "get"}
<1>1. Fortios.unrestricted = FALSE /\ Fortios.allow \cap Lifts = {}
  BY DEF Fortios, Verbs, Lifts
<1>2. \A key \in DOMAIN Fortios.aliases : key = <<key[1]>> /\ key[1] \in A
  BY DEF Fortios, Aliases, NoAliases, Verbs
<1>3. \A d \in Fortios.deny : Phrase(d) /\ d[1] \notin A \cup {"do"}
  BY DEF Fortios, Verbs, Phrase
<1>4. A \cap (LiftWords \cup {"write", "do"}) = {}
  BY DEF LiftWords
<1> QED BY <1>1, <1>2, <1>3, <1>4, LiftsAre DEF PhraseFacts, AliasFree

LEMMA RouterosFacts == PhraseFacts(Routeros)
<1> DEFINE A == {}
<1>1. Routeros.unrestricted = FALSE /\ Routeros.allow \cap Lifts = {}
  BY DEF Routeros, Verbs, Lifts
<1>2. \A key \in DOMAIN Routeros.aliases : key = <<key[1]>> /\ key[1] \in A
  BY DEF Routeros, Aliases, NoAliases, Verbs
<1>3. \A d \in Routeros.deny : Phrase(d) /\ d[1] \notin A \cup {"do"}
  BY DEF Routeros, Verbs, Phrase
<1>4. A \cap (LiftWords \cup {"write", "do"}) = {}
  BY DEF LiftWords
<1> QED BY <1>1, <1>2, <1>3, <1>4, LiftsAre DEF PhraseFacts, AliasFree

LEMMA CiscoIosXeFacts == PhraseFacts(CiscoIosXe)
<1> DEFINE A == {"sh", "sho", "shw", "wr", "wri", "p", "tr", "conf", "t"}
<1>1. /\ CiscoIosXe.unrestricted = FALSE /\ CiscoIosXe.allow = CiscoIos.allow
      /\ CiscoIosXe.aliases = CiscoIos.aliases
      /\ CiscoIosXe.deny = CiscoIos.deny
            \cup Verbs({"guestshell", "app-hosting", "install", "request"})
  BY DEF CiscoIosXe, CiscoIos
<1>2. \A key \in DOMAIN CiscoIos.aliases : key = <<key[1]>> /\ key[1] \in A
  BY DEF CiscoIos, Aliases, Verbs
<1>3. \A d \in Verbs({"guestshell", "app-hosting", "install", "request"}) :
        Phrase(d) /\ d[1] \notin A \cup {"do"}
  BY DEF Verbs, Phrase
<1> QED BY <1>1, <1>2, <1>3, CiscoIosFacts DEF PhraseFacts, AliasFree

LEMMA CiscoNxosFacts == PhraseFacts(CiscoNxos)
<1> DEFINE A == {"sh", "sho", "shw", "wr", "wri", "p", "tr", "conf", "t"}
<1>1. /\ CiscoNxos.unrestricted = FALSE /\ CiscoNxos.allow = CiscoIos.allow
      /\ CiscoNxos.aliases = CiscoIos.aliases
      /\ CiscoNxos.deny = CiscoIos.deny
            \cup Verbs({"run", "python", "source", "guestshell", "bash"})
  BY DEF CiscoNxos, CiscoIos
<1>2. \A key \in DOMAIN CiscoIos.aliases : key = <<key[1]>> /\ key[1] \in A
  BY DEF CiscoIos, Aliases, Verbs
<1>3. \A d \in Verbs({"run", "python", "source", "guestshell", "bash"}) :
        Phrase(d) /\ d[1] \notin A \cup {"do"}
  BY DEF Verbs, Phrase
<1> QED BY <1>1, <1>2, <1>3, CiscoIosFacts DEF PhraseFacts, AliasFree

LEMMA BuiltinFacts == \A v \in Vendors \ {"linux"} : PhraseFacts(Builtin[v])
<1>1. Vendors = {"cisco_ios", "cisco_ios_xe", "cisco_nxos", "junos", "arista_eos", "panos",
                 "linux", "generic", "fortios", "routeros", "aos_cx"}
  BY DEF Vendors, Builtin
<1>2. /\ Builtin["cisco_ios"] = CiscoIos /\ Builtin["cisco_ios_xe"] = CiscoIosXe
      /\ Builtin["cisco_nxos"] = CiscoNxos /\ Builtin["junos"] = Junos
      /\ Builtin["arista_eos"] = AristaEos /\ Builtin["panos"] = Panos
      /\ Builtin["generic"] = Generic /\ Builtin["fortios"] = Fortios
      /\ Builtin["routeros"] = Routeros /\ Builtin["aos_cx"] = AosCx
  BY DEF Builtin
<1> QED BY <1>1, <1>2, CiscoIosFacts, CiscoIosXeFacts, CiscoNxosFacts, JunosFacts, AristaEosFacts,
           PanosFacts, GenericFacts, FortiosFacts, RouterosFacts, AosCxFacts

LEMMA BundledFacts ==
  \A v \in Vendors :
    /\ Bundled[v].allow = Builtin[v].allow /\ Bundled[v].subs = Builtin[v].subs
    /\ Bundled[v].unrestricted = Builtin[v].unrestricted
    /\ DOMAIN Bundled[v].aliases \subseteq DOMAIN Builtin[v].aliases
    /\ Bundled[v].deny \subseteq Builtin[v].deny
    /\ \A d \in Builtin[v].deny \ Bundled[v].deny : v = "cisco_nxos" /\ d = <<"telnet">>
<1>1. \A v \in Vendors \ {"cisco_nxos"} : Bundled[v] = Builtin[v]
  BY DEF Bundled, Vendors, Builtin
<1>2. /\ BundledNxos.allow = CiscoNxos.allow /\ BundledNxos.subs = CiscoNxos.subs
      /\ BundledNxos.unrestricted = CiscoNxos.unrestricted
      /\ BundledNxos.deny = CiscoNxos.deny \ {<<"telnet">>}
      /\ DOMAIN BundledNxos.aliases = DOMAIN CiscoNxos.aliases \ {<<"t">>}
  BY DEF BundledNxos, CiscoNxos, CiscoIos
<1>3. Builtin["cisco_nxos"] = CiscoNxos
  BY DEF Builtin
<1>4. Bundled["cisco_nxos"] = BundledNxos
  BY DEF Bundled, Builtin
<1> QED BY <1>1, <1>2, <1>3, <1>4

LEMMA TelnetIsNotListed == \A p \in CiscoNxos.allow : Phrase(p) /\ p[1] # "telnet"
BY DEF CiscoNxos, CiscoIos, Verbs, Phrase

---------------------------------------------------------------------------
(* What a command is without its prefix.                                   *)

LEMMA PeelAt ==
  ASSUME NEW S, NEW s \in Seq(S), NEW k \in 1..Len(s), s[k] # "do",
         \A j \in 1..k - 1 : s[j] = "do"
  PROVE  Peel(s) = SubSeq(s, k, Len(s))
<1> DEFINE rest == {i \in DOMAIN s : s[i] # "do" \/ i = Len(s)}
<1>1. Len(s) \in Nat /\ DOMAIN s = 1..Len(s) /\ k \in 1..Len(s)
  OBVIOUS
<1>2. k \in rest
  BY <1>1
<1>3. \A j \in rest : k <= j /\ j \in Nat
  BY <1>1
<1> HIDE DEF rest
<1>4. \A i \in rest : (\A j \in rest : i <= j) => i = k
  <2> SUFFICES ASSUME NEW i \in rest, \A j \in rest : i <= j PROVE i = k
    OBVIOUS
  <2>1. i <= k /\ k <= i /\ i \in Nat /\ k \in Nat
    BY <1>1, <1>2, <1>3
  <2> QED BY <2>1
<1>5. (CHOOSE i \in rest : \A j \in rest : i <= j) = k
  BY <1>2, <1>3, <1>4
<1> QED BY <1>5 DEF Peel, rest

LEMMA PeelPrefix ==
  ASSUME NEW S, "do" \in S, NEW u \in Seq(S), u # <<>>, u[1] # "do",
         NEW prefix \in {<<>>, <<"do">>, <<"do", "do">>}
  PROVE  /\ Peel(prefix \o u) = u /\ (prefix \o u)[1] \in {"do", u[1]}
         /\ prefix \o u \in Seq(S) /\ prefix \o u # <<>>
<1> DEFINE s == prefix \o u
           k == Len(prefix) + 1
<1>1. /\ prefix \in Seq(S) /\ Len(prefix) \in 0..2
      /\ \A j \in 1..Len(prefix) : prefix[j] = "do"
  <2>1. CASE prefix = <<>>
    BY <2>1
  <2>2. CASE prefix = <<"do">>
    BY <2>2
  <2>3. CASE prefix = <<"do", "do">>
    BY <2>3
  <2> QED BY <2>1, <2>2, <2>3
<1>2. Len(u) \in Nat /\ Len(u) >= 1
  OBVIOUS
<1>3. /\ s \in Seq(S) /\ Len(s) = Len(prefix) + Len(u)
      /\ \A i \in 1..Len(prefix) + Len(u) :
           s[i] = IF i <= Len(prefix) THEN prefix[i] ELSE u[i - Len(prefix)]
  BY <1>1, ConcatProperties
<1>4. SubSeq(s, Len(prefix) + 1, Len(prefix) + Len(u))
        = SubSeq(u, (Len(prefix) + 1) - Len(prefix), (Len(prefix) + Len(u)) - Len(prefix))
  <2>1. /\ Len(prefix) + 1 \in Len(prefix) + 1..Len(prefix) + Len(u)
        /\ Len(prefix) + Len(u) \in Len(prefix) + 1..Len(prefix) + Len(u)
    BY <1>1, <1>2
  <2> QED BY <1>1, <2>1, SubSeqOfConcat2
<1>5. (Len(prefix) + 1) - Len(prefix) = 1 /\ (Len(prefix) + Len(u)) - Len(prefix) = Len(u)
  BY <1>1, <1>2
<1> HIDE DEF s
<1>6. k \in 1..Len(s) /\ s[k] = u[1] /\ \A j \in 1..k - 1 : s[j] = "do"
  BY <1>1, <1>2, <1>3
<1>7. Peel(s) = SubSeq(s, k, Len(s))
  BY <1>3, <1>6, PeelAt
<1>8. Peel(s) = u
  BY <1>3, <1>4, <1>5, <1>7, SubSeqFull
<1>9. s[1] \in {"do", u[1]} /\ s # <<>>
  BY <1>1, <1>2, <1>3
<1> QED BY <1>3, <1>8, <1>9 DEF s

LEMMA PrefixOfConcat ==
  ASSUME NEW S, NEW p \in Seq(S), NEW q \in Seq(S), p # <<>>
  PROVE  IsPrefix(p, p \o q)
<1>1. Len(p) \in Nat /\ Len(q) \in Nat /\ Len(p) >= 1
  OBVIOUS
<1>2. Len(p \o q) = Len(p) + Len(q)
  BY ConcatProperties
<1>3. 1 \in 1..Len(p) /\ Len(p) \in 1..Len(p) /\ Len(p) <= Len(p) + Len(q)
  BY <1>1
<1>4. SubSeq(p \o q, 1, Len(p)) = SubSeq(p, 1, Len(p))
  BY <1>3, SubSeqOfConcat1
<1> QED BY <1>2, <1>3, <1>4 DEF IsPrefix

\* Nothing but the prefix is taken from a wrapped phrase.
LEMMA BareOfWrapped ==
  ASSUME NEW verb, Phrase(verb), verb[1] # "do", verb[1] \notin Numbers, "do" \notin Numbers,
         NEW stage \in Wrapped(verb)
  PROVE  /\ \E rest \in {<<>>, <<"x">>} : Bare(stage) = verb \o rest
         /\ stage[1] \in {"do", verb[1]} \cup Numbers /\ stage # <<>>
         /\ \E S : stage \in Seq(S)
<1>1. PICK prefix \in DoPrefixes, rest \in {<<>>, <<"x">>} : stage = prefix \o verb \o rest
  <2>1. PICK p \in DoPrefixes \X {<<>>, <<"x">>} : stage = p[1] \o verb \o p[2]
    BY DEF Wrapped
  <2> QED BY <2>1
<1> DEFINE u == verb \o rest
           S == {"do", "x", verb[1], verb[2]} \cup Numbers
<1>2. verb \in Seq(S) /\ verb # <<>> /\ Len(verb) \in Nat
  <2>1. CASE verb = <<verb[1]>>
    <3>1. \A w \in S : <<w>> \in Seq(S) /\ <<w>> # <<>> /\ Len(<<w>>) \in Nat
      OBVIOUS
    <3> QED BY <2>1, <3>1
  <2>2. CASE verb = <<verb[1], verb[2]>>
    <3>1. \A w, y \in S : <<w, y>> \in Seq(S) /\ <<w, y>> # <<>> /\ Len(<<w, y>>) \in Nat
      OBVIOUS
    <3> QED BY <2>2, <3>1
  <2> QED BY <2>1, <2>2 DEF Phrase
<1>3. rest \in Seq(S) /\ prefix \in Seq(S) /\ "do" \in S
  <2>0. <<>> \in Seq(S) /\ <<"x">> \in Seq(S) /\ "do" \in S
    OBVIOUS
  <2>1. rest \in Seq(S) /\ "do" \in S
    BY <2>0
  <2>2. ASSUME prefix \in {<<>>, <<"do">>, <<"do", "do">>} PROVE prefix \in Seq(S)
    <3>1. <<>> \in Seq(S) /\ <<"do">> \in Seq(S) /\ <<"do", "do">> \in Seq(S)
      BY <2>0
    <3> QED BY <2>2, <3>1
  <2>3. ASSUME NEW n \in Numbers, prefix = <<n, "do">> PROVE prefix \in Seq(S)
    BY <2>3
  <2>4. prefix \in {<<>>, <<"do">>, <<"do", "do">>} \/ \E n \in Numbers : prefix = <<n, "do">>
    <3>1. prefix \in {<<>>, <<"do">>, <<"do", "do">>} \cup {<<n, "do">> : n \in Numbers}
      BY DEF DoPrefixes
    <3> QED BY <3>1
  <2> HIDE DEF S
  <2>5. prefix \in Seq(S)
    BY <2>2, <2>3, <2>4
  <2> QED BY <2>1, <2>5
<1> HIDE DEF S
<1>4. /\ u \in Seq(S) /\ u # <<>> /\ u[1] = verb[1]
      /\ stage = prefix \o u
  <2>1. u \in Seq(S) /\ stage = prefix \o u
    <3>1. (prefix \o verb) \o rest = prefix \o (verb \o rest)
      BY SMTT(40), <1>2, <1>3, ConcatAssociative
    <3>2. verb \o rest \in Seq(S)
      BY <1>2, <1>3, ConcatProperties
    <3> QED BY <1>1, <3>1, <3>2
  <2>2. u # <<>> /\ u[1] = verb[1]
    BY <1>2, <1>3
  <2> QED BY <2>1, <2>2
<1> HIDE DEF u
<1>7. stage \in Seq(S)
  BY <1>3, <1>4, ConcatProperties
<1>5. CASE prefix \in {<<>>, <<"do">>, <<"do", "do">>}
  <2>1. /\ Peel(stage) = u /\ stage[1] \in {"do", u[1]} /\ stage # <<>>
    BY <1>3, <1>4, <1>5, PeelPrefix
  <2>2. Strip(stage) = stage
    BY <1>4, <2>1 DEF Strip
  <2> QED BY <1>1, <1>4, <1>7, <2>1, <2>2 DEF Bare, u
<1>6. ASSUME NEW n \in Numbers, prefix = <<n, "do">>
      PROVE  Bare(stage) = u /\ stage[1] = n /\ stage # <<>>
  <2>1. /\ stage \in Seq(S) /\ Len(stage) = Len(u) + 2 /\ stage[1] = n /\ stage[2] = "do"
        /\ \A i \in 1..Len(u) : stage[i + 2] = u[i]
        /\ Len(u) \in Nat
    <3>1. Len(prefix) = 2 /\ prefix[1] = n /\ prefix[2] = "do"
      BY <1>6
    <3>2. /\ stage \in Seq(S) /\ Len(stage) = 2 + Len(u) /\ Len(u) \in Nat
          /\ \A i \in 1..2 + Len(u) : stage[i] = IF i <= 2 THEN prefix[i] ELSE u[i - 2]
      <4>1. Len(u) \in Nat
        BY <1>4
      <4>2. /\ prefix \o u \in Seq(S) /\ Len(prefix \o u) = Len(prefix) + Len(u)
            /\ \A i \in 1..Len(prefix) + Len(u) :
                 (prefix \o u)[i] = IF i <= Len(prefix) THEN prefix[i] ELSE u[i - Len(prefix)]
        BY <1>3, <1>4, ConcatProperties
      <4> QED BY <1>4, <3>1, <4>1, <4>2
    <3>3. \A i \in 1..Len(u) : i + 2 \in 1..2 + Len(u) /\ ~(i + 2 <= 2) /\ (i + 2) - 2 = i
      BY <3>2
    <3> QED BY <3>1, <3>2, <3>3
  <2>2. Strip(stage) = Tail(stage) /\ stage # <<>>
    BY <2>1 DEF Strip
  <2>3. /\ Tail(stage) \in Seq(S) /\ Len(Tail(stage)) = Len(u) + 1
        /\ \A i \in 1..Len(u) + 1 : Tail(stage)[i] = stage[i + 1]
    BY <2>1, <2>2, HeadTailProperties
  <2>4. /\ <<"do">> \o u \in Seq(S) /\ Len(<<"do">> \o u) = Len(u) + 1
        /\ (<<"do">> \o u)[1] = "do"
        /\ \A i \in 1..Len(u) : (<<"do">> \o u)[i + 1] = u[i]
    BY <1>3, <1>4, <2>1
  <2>5. Tail(stage) = <<"do">> \o u
    <3>1. \A i \in 1..Len(u) + 1 : Tail(stage)[i] = (<<"do">> \o u)[i]
      <4>1. ASSUME NEW i \in 1..Len(u) + 1 PROVE Tail(stage)[i] = (<<"do">> \o u)[i]
        <5>1. CASE i = 1
          BY <2>1, <2>3, <2>4, <5>1
        <5>2. CASE i # 1
          <6>1. PICK j \in 1..Len(u) : i = j + 1
            <7>1. i - 1 \in 1..Len(u) /\ i = (i - 1) + 1
              BY <2>1, <5>2
            <7> QED BY <7>1
          <6>2. Tail(stage)[i] = stage[(j + 1) + 1] /\ (j + 1) + 1 = j + 2
            BY <2>1, <2>3, <6>1
          <6> QED BY <2>1, <2>4, <6>1, <6>2
        <5> QED BY <5>1, <5>2
      <4> QED BY <4>1
    <3> QED BY ZenonT(60), <2>3, <2>4, <3>1, SeqEqual
  <2>6. Peel(<<"do">> \o u) = u
    BY <1>3, <1>4, PeelPrefix
  <2> QED BY <2>1, <2>2, <2>5, <2>6 DEF Bare
<1> QED BY <1>1, <1>5, <1>6, <1>7 DEF u, DoPrefixes

---------------------------------------------------------------------------
(* What edits make of a policy.                                            *)

IsPolicy(p) ==
  p = [aliases |-> p.aliases, allow |-> p.allow, deny |-> p.deny, subs |-> p.subs,
       pipes |-> p.pipes, noPipes |-> p.noPipes, unrestricted |-> p.unrestricted,
       always |-> p.always]

\* p came of the bundled policy of v by edits whose lists are in saved.
KeptFor(p, v, saved) ==
  /\ IsPolicy(p)
  /\ /\ p.aliases = Bundled[v].aliases /\ p.pipes = Bundled[v].pipes
     /\ p.noPipes = Bundled[v].noPipes /\ p.unrestricted = Bundled[v].unrestricted
     /\ p.always = Bundled[v].always
  /\ p.allow \subseteq saved \cup Bundled[v].allow
  /\ p.deny \subseteq Bundled[v].deny
  /\ \A d \in Bundled[v].deny \ p.deny :
       \E t \in saved \cap Lifts : IsPrefix(d, t) \/ IsPrefix(t, d)
  /\ p.subs \subseteq Bundled[v].subs
  /\ \A x \in Bundled[v].subs \ p.subs : \E t \in saved \cap Lifts : Mentions(t, x)

\* Nothing that p lists is in the way of itself.
Lifting(p) ==
  \A t \in p.allow \cap Lifts :
    /\ \A d \in p.deny : ~IsPrefix(d, t) /\ ~IsPrefix(t, d)
    /\ \A x \in p.subs : ~Mentions(t, x)

LEMMA PolicyRecord ==
  ASSUME NEW a, NEW l, NEW d, NEW s, NEW pi, NEW n, NEW u, NEW w
  PROVE  IsPolicy([aliases |-> a, allow |-> l, deny |-> d, subs |-> s, pipes |-> pi,
                   noPipes |-> n, unrestricted |-> u, always |-> w])
BY DEF IsPolicy

\* An edit replaces three fields.
Updated(p, l, d, s) ==
  [aliases |-> p.aliases, allow |-> l, deny |-> d, subs |-> s, pipes |-> p.pipes,
   noPipes |-> p.noPipes, unrestricted |-> p.unrestricted, always |-> p.always]

LEMMA UpdatedFields ==
  ASSUME NEW p, NEW l, NEW d, NEW s, NEW q, q = Updated(p, l, d, s)
  PROVE  /\ q.allow = l /\ q.deny = d /\ q.subs = s /\ q.aliases = p.aliases
         /\ q.pipes = p.pipes /\ q.noPipes = p.noPipes /\ q.unrestricted = p.unrestricted
         /\ q.always = p.always /\ IsPolicy(q)
BY PolicyRecord DEF Updated

LEMMA PolicyUpdate ==
  ASSUME NEW p, IsPolicy(p), NEW l, NEW d, NEW s, NEW q,
         q = [p EXCEPT !.allow = l, !.deny = d, !.subs = s]
  PROVE  q = Updated(p, l, d, s)
BY DEF IsPolicy, Updated

LEMMA BundledIsKept ==
  ASSUME NEW v \in Vendors \ {"linux"}, NEW saved
  PROVE  KeptFor(Bundled[v], v, saved) /\ Lifting(Bundled[v])
<1>1. IsPolicy(Bundled[v])
  <2>1. /\ IsPolicy(CiscoIos) /\ IsPolicy(CiscoIosXe) /\ IsPolicy(CiscoNxos) /\ IsPolicy(Junos)
        /\ IsPolicy(AristaEos) /\ IsPolicy(Panos) /\ IsPolicy(Generic) /\ IsPolicy(Fortios)
        /\ IsPolicy(Routeros) /\ IsPolicy(AosCx)
    <3>1. IsPolicy(CiscoIos)
      BY PolicyRecord DEF CiscoIos
    <3>2. IsPolicy(Junos)
      BY PolicyRecord DEF Junos
    <3>3. IsPolicy(AristaEos)
      BY PolicyRecord DEF AristaEos
    <3>4. IsPolicy(Panos)
      BY PolicyRecord DEF Panos
    <3>5. IsPolicy(Generic)
      BY PolicyRecord DEF Generic
    <3>6. IsPolicy(Fortios)
      BY PolicyRecord DEF Fortios
    <3>7. IsPolicy(Routeros)
      BY PolicyRecord DEF Routeros
    <3>8. IsPolicy(AosCx)
      BY PolicyRecord DEF AosCx
    <3>9. IsPolicy(CiscoIosXe)
      BY <3>1 DEF CiscoIosXe, IsPolicy
    <3>10. IsPolicy(CiscoNxos)
      <4> DEFINE D == CiscoIos.deny \cup Verbs({"run", "python", "source", "guestshell", "bash"})
                 X == CiscoIos.subs \cup {<<"run", "bash">>, <<"python">>}
      <4>1. CiscoNxos = [CiscoIos EXCEPT !.deny = D, !.subs = X]
        BY DEF CiscoNxos
      <4> HIDE DEF D, X
      <4> QED BY <3>1, <4>1 DEF IsPolicy
    <3> QED BY <3>1, <3>2, <3>3, <3>4, <3>5, <3>6, <3>7, <3>8, <3>9, <3>10
  <2>2. IsPolicy(BundledNxos)
    <3> DEFINE D == CiscoNxos.deny \ {<<"telnet">>}
               A == [key \in DOMAIN CiscoNxos.aliases \ {<<"t">>} |-> CiscoNxos.aliases[key]]
    <3>1. BundledNxos = [CiscoNxos EXCEPT !.deny = D, !.aliases = A]
      BY DEF BundledNxos
    <3> HIDE DEF D, A
    <3> QED BY <2>1, <3>1 DEF IsPolicy
  <2> QED BY <2>1, <2>2 DEF Bundled, Vendors, Builtin
<1>2. Bundled[v].allow \cap Lifts = {}
  BY BuiltinFacts, BundledFacts DEF PhraseFacts
<1> QED BY <1>1, <1>2 DEF KeptFor, Lifting

LEMMA AbsorbKeeps ==
  ASSUME NEW v \in Vendors \ {"linux"}, NEW saved, NEW p, KeptFor(p, v, saved)
  PROVE  /\ KeptFor(Absorb(p, Bundled[v]), v, saved)
         /\ Lifting(p) => Lifting(Absorb(p, Bundled[v]))
<1> DEFINE q == Absorb(p, Bundled[v])
<1>1. /\ q.allow = p.allow \cup Bundled[v].allow /\ q.deny = p.deny /\ q.subs = p.subs
      /\ q.aliases = p.aliases /\ q.pipes = p.pipes /\ q.noPipes = p.noPipes
      /\ q.unrestricted = p.unrestricted /\ q.always = p.always /\ IsPolicy(q)
  <2>1. IsPolicy(p)
    BY DEF KeptFor
  <2>2. q = [p EXCEPT !.allow = p.allow \cup Bundled[v].allow, !.deny = p.deny, !.subs = p.subs]
    BY <2>1 DEF Absorb, IsPolicy
  <2> HIDE DEF q
  <2>3. q = Updated(p, p.allow \cup Bundled[v].allow, p.deny, p.subs)
    BY <2>1, <2>2, PolicyUpdate
  <2> QED BY <2>3, UpdatedFields
<1>2. Bundled[v].allow \cap Lifts = {}
  BY BuiltinFacts, BundledFacts DEF PhraseFacts
<1> HIDE DEF q
<1>3. KeptFor(q, v, saved)
  BY <1>1 DEF KeptFor
<1>4. Lifting(p) => Lifting(q)
  BY <1>1, <1>2 DEF Lifting
<1> QED BY <1>3, <1>4 DEF q

LEMMA ApplyKeeps ==
  ASSUME NEW v \in Vendors, NEW saved, NEW list \in SUBSET saved, NEW p, KeptFor(p, v, saved)
  PROVE  KeptFor(ApplyAllow(p, list), v, saved) /\ Lifting(ApplyAllow(p, list))
<1> DEFINE q == ApplyAllow(p, list)
           lifted == list \cap Lifts
           D == {d \in p.deny : \A t \in lifted : ~IsPrefix(d, t) /\ ~IsPrefix(t, d)}
           X == {text \in p.subs : \A t \in lifted : ~Mentions(t, text)}
<1>1. /\ q.allow = list /\ q.deny = D /\ q.subs = X
      /\ q.aliases = p.aliases /\ q.pipes = p.pipes /\ q.noPipes = p.noPipes
      /\ q.unrestricted = p.unrestricted /\ q.always = p.always /\ IsPolicy(q)
  <2>1. IsPolicy(p)
    BY DEF KeptFor
  <2>2. q = [p EXCEPT !.allow = list, !.deny = D, !.subs = X]
    BY DEF ApplyAllow
  <2> HIDE DEF q, D, X
  <2>3. q = Updated(p, list, D, X)
    BY <2>1, <2>2, PolicyUpdate
  <2> QED BY <2>3, UpdatedFields
<1> HIDE DEF q
<1>2. KeptFor(q, v, saved)
  BY <1>1 DEF KeptFor
<1>3. Lifting(q)
  BY <1>1 DEF Lifting
<1> QED BY <1>2, <1>3 DEF q

\* A list that is saved later takes nothing back.
LEMMA KeptStays ==
  ASSUME NEW v, NEW saved, NEW more, saved \subseteq more, NEW p, KeptFor(p, v, saved)
  PROVE  KeptFor(p, v, more)
BY DEF KeptFor

\* A policy allows what another allows that denies more and lists less.
LEMMA MoreLenientAllows ==
  ASSUME NEW p, NEW q, NEW builtin, NEW cmd,
         p.aliases = q.aliases, p.pipes = q.pipes, p.noPipes = q.noPipes,
         p.unrestricted = q.unrestricted, p.allow \subseteq q.allow, q.deny \subseteq p.deny,
         q.subs \subseteq p.subs, Check(p, builtin, cmd).allowed
  PROVE  Check(q, builtin, cmd).allowed
<1> DEFINE stages == Expand(p, cmd.stages)
<1>1. Expand(q, cmd.stages) = stages
  BY DEF Expand
<1>2. Denies(q, stages) => Denies(p, stages)
  BY DEF Denies, OnList
<1>3. OnList(p.allow \cup builtin.allow, Bare(stages[1]))
        => OnList(q.allow \cup builtin.allow, Bare(stages[1]))
  BY DEF OnList
<1> HIDE DEF stages
<1> QED BY <1>1, <1>2, <1>3 DEF Check, stages

\* The policy of a vendor once every list in saved was saved.
LenientTo(v, saved) == Absorb(ApplyAllow(Bundled[v], saved), Bundled[v])

\* What an edited policy allows the lenient one allows.
LEMMA LenientAllows ==
  ASSUME NEW v \in Vendors \ {"linux"}, NEW saved, NEW p, KeptFor(p, v, saved), NEW cmd,
         Check(p, Builtin[v], cmd).allowed
  PROVE  Check(LenientTo(v, saved), Builtin[v], cmd).allowed
<1> DEFINE q == LenientTo(v, saved)
<1>1. KeptFor(Bundled[v], v, saved)
  BY BundledIsKept
<1>2. /\ q.allow = saved \cup Bundled[v].allow
      /\ q.deny = {d \in Bundled[v].deny :
                     \A t \in saved \cap Lifts : ~IsPrefix(d, t) /\ ~IsPrefix(t, d)}
      /\ q.subs = {text \in Bundled[v].subs : \A t \in saved \cap Lifts : ~Mentions(t, text)}
      /\ q.aliases = Bundled[v].aliases /\ q.pipes = Bundled[v].pipes
      /\ q.noPipes = Bundled[v].noPipes /\ q.unrestricted = Bundled[v].unrestricted
  BY <1>1 DEF KeptFor, IsPolicy, ApplyAllow, Absorb, LenientTo
<1> HIDE DEF q
<1>3. p.allow \subseteq q.allow /\ q.deny \subseteq p.deny /\ q.subs \subseteq p.subs
  BY <1>2 DEF KeptFor
<1>4. Check(q, Builtin[v], cmd).allowed
  BY <1>2, <1>3, MoreLenientAllows DEF KeptFor
<1> QED BY <1>4 DEF q

\* What the lenient policy allows it still allows when more was saved.
LEMMA LenientGrows ==
  ASSUME NEW v \in Vendors \ {"linux"}, NEW saved, NEW more, saved \subseteq more, NEW cmd,
         Check(LenientTo(v, saved), Builtin[v], cmd).allowed
  PROVE  Check(LenientTo(v, more), Builtin[v], cmd).allowed
<1>1. KeptFor(LenientTo(v, saved), v, saved)
  BY BundledIsKept, ApplyKeeps, AbsorbKeeps DEF LenientTo
<1>2. KeptFor(LenientTo(v, saved), v, more)
  BY <1>1, KeptStays
<1> HIDE DEF LenientTo
<1> QED BY <1>2, LenientAllows

---------------------------------------------------------------------------
(* Whatever files, memory and calls hold came of the bundled policy by     *)
(* edits, and every file lets through what it lists.                       *)

KeptIn(p, v) == KeptFor(p, v, asked[v])

AskedInv ==
  /\ asked = [v \in Edited |-> asked[v]]
  /\ \A v \in Edited : asked[v] \subseteq Seq(STRING)

EngineKept ==
  /\ engine = [v \in Edited |-> engine[v]]
  /\ \A v \in Edited : KeptIn(engine[v], v)

FilesKept == \A v \in Edited : Whole(v) => KeptIn(file[v], v) /\ Lifting(file[v])

EditsKept ==
  \A e \in Editors : edit[e] # Idle =>
    KeptIn(edit[e].next, edit[e].vendor) /\ Lifting(edit[e].next)

PolicyInv == Inv /\ AskedInv /\ EngineKept /\ FilesKept /\ EditsKept

LEMMA EditedAreVendors == \A v \in Edited : v \in Vendors \ {"linux"}
BY PermitAssumption

LEMMA PolicyInvInit == PolicyInit => PolicyInv
<1> SUFFICES ASSUME PolicyInit PROVE PolicyInv
  OBVIOUS
<1>1. AskedInv /\ FilesKept /\ EditsKept
  BY DEF PolicyInit, AskedInv, FilesKept, EditsKept, Whole
<1>2. EngineKept
  BY EditedAreVendors, BundledIsKept DEF PolicyInit, EngineKept, KeptIn
<1> QED BY <1>1, <1>2, InitEstablishes DEF PolicyInv

LEMMA BootKeepsPolicies == ASSUME PolicyInv, Boot PROVE PolicyInv'
<1>1. /\ file' = [v \in Edited |-> Seed(v)] /\ asked' = asked /\ edit' = edit
      /\ engine' = [v \in Edited |-> IF file'[v] = NoFile THEN Bundled[v] ELSE file'[v]]
      /\ \A v \in Edited : file'[v] # Torn
  BY DEF Boot
<1>2. ASSUME NEW v \in Edited
      PROVE  /\ (file'[v] = NoFile \/ (KeptIn(file'[v], v) /\ Lifting(file'[v])))
             /\ KeptIn(Bundled[v], v)
  <2>1. KeptIn(Bundled[v], v) /\ Lifting(Bundled[v])
    BY EditedAreVendors, BundledIsKept DEF KeptIn
  <2>2. CASE v \in Seeded /\ file[v] # Torn /\ file[v] # NoFile
    <3>1. KeptIn(file[v], v) /\ Lifting(file[v])
      BY <2>2 DEF PolicyInv, FilesKept, Whole
    <3>2. file'[v] = Absorb(file[v], Bundled[v])
      BY <1>1, <2>2 DEF Seed
    <3> QED BY <2>1, <3>1, <3>2, EditedAreVendors, AbsorbKeeps DEF KeptIn
  <2>3. CASE v \in Seeded /\ file[v] = NoFile /\ file[v] # Torn
    <3>1. file'[v] = Bundled[v]
      BY <1>1, <2>3 DEF Seed
    <3> QED BY <2>1, <3>1
  <2>4. CASE v \notin Seeded \/ file[v] = Torn
    <3>1. file'[v] = file[v] /\ file[v] # Torn
      BY <1>1, <2>4 DEF Seed
    <3> QED BY <2>1, <3>1 DEF PolicyInv, FilesKept, Whole
  <2> QED BY <2>2, <2>3, <2>4
<1>3. FilesKept'
  BY <1>1, <1>2 DEF FilesKept, Whole, KeptIn
<1>4. EngineKept'
  BY <1>1, <1>2 DEF EngineKept, KeptIn
<1> QED BY <1>1, <1>3, <1>4, BootKeeps DEF PolicyInv, AskedInv, EditsKept, KeptIn

LEMMA SetAllowKeepsPolicies ==
  ASSUME PolicyInv, NEW e \in Editors, NEW v \in Edited, NEW list \in Lists,
         SetAllow(e, v, list)
  PROVE  PolicyInv'
<1> DEFINE current == IF Whole(v) THEN file[v] ELSE engine[v]
           next == ApplyAllow(current, list)
           saved == asked[v] \cup list
<1>1. /\ edit' = [edit EXCEPT ![e] = [pc |-> "open", vendor |-> v, next |-> next]]
      /\ asked' = [asked EXCEPT ![v] = saved] /\ file' = file /\ engine' = engine
  BY DEF SetAllow
<1>2. KeptIn(current, v)
  BY DEF PolicyInv, FilesKept, EngineKept
<1> HIDE DEF current
<1>3. KeptFor(current, v, saved)
  BY <1>2, KeptStays DEF KeptIn
<1>4. KeptFor(next, v, saved) /\ Lifting(next)
  BY <1>3, EditedAreVendors, ApplyKeeps
<1>5. list \subseteq Seq(STRING)
  BY PermitAssumption
<1> HIDE DEF next, saved
<1>6. /\ asked' = [w \in Edited |-> asked'[w]] /\ asked'[v] = saved
      /\ \A w \in Edited : asked[w] \subseteq asked'[w]
      /\ \A w \in Edited \ {v} : asked'[w] = asked[w]
  BY <1>1 DEF PolicyInv, AskedInv, saved
<1>7. AskedInv'
  BY <1>5, <1>6 DEF PolicyInv, AskedInv, saved
<1>8. ASSUME NEW w \in Edited, NEW p, KeptFor(p, w, asked[w]) PROVE KeptFor(p, w, asked'[w])
  BY <1>6, <1>8, KeptStays
<1>9. EngineKept' /\ FilesKept'
  BY <1>1, <1>8 DEF PolicyInv, EngineKept, FilesKept, KeptIn, Whole
<1>10. EditsKept'
  <2> DEFINE r == [pc |-> "open", vendor |-> v, next |-> next]
  <2>1. r.vendor = v /\ r.next = next
    OBVIOUS
  <2> HIDE DEF r
  <2>2. edit'[e] = r /\ \A f \in Editors \ {e} : edit'[f] = edit[f]
    BY <1>1 DEF r, PolicyInv, Inv, ShapeInv
  <2>3. ASSUME NEW f \in Editors, edit'[f] # Idle
        PROVE  KeptFor(edit'[f].next, edit'[f].vendor, asked'[edit'[f].vendor])
               /\ Lifting(edit'[f].next)
    <3>1. CASE f = e
      BY <1>4, <1>6, <2>1, <2>2, <3>1
    <3>2. CASE f # e
      <4>1. edit'[f] = edit[f] /\ edit[f] # Idle
        BY <2>2, <2>3, <3>2
      <4>2. edit[f].vendor \in Edited
        BY <4>1 DEF PolicyInv, Inv, ShapeInv, CallShape
      <4> QED BY <1>8, <4>1, <4>2 DEF PolicyInv, EditsKept, KeptIn
    <3> QED BY <3>1, <3>2
  <2> QED BY <2>3 DEF EditsKept, KeptIn
<1> QED BY <1>7, <1>9, <1>10, SetAllowKeeps DEF PolicyInv

\* A step of a call that leaves what it is to write, or ends the call.
LEMMA CallKeepsEdits ==
  ASSUME PolicyInv, NEW e \in Editors, edit[e] # Idle, asked' = asked,
         \/ \E pc \in {"fill", "reload"} : edit' = [edit EXCEPT ![e].pc = pc]
         \/ edit' = [edit EXCEPT ![e] = Idle]
  PROVE  EditsKept'
<1>1. \A f \in Editors \ {e} : edit'[f] = edit[f]
  BY DEF PolicyInv, Inv, ShapeInv
<1>2. \/ edit'[e] = Idle
      \/ edit'[e].next = edit[e].next /\ edit'[e].vendor = edit[e].vendor
  <2>1. edit[e] = [pc |-> edit[e].pc, vendor |-> edit[e].vendor, next |-> edit[e].next]
    BY DEF PolicyInv, Inv, ShapeInv, CallShape
  <2>2. CASE edit' = [edit EXCEPT ![e] = Idle]
    BY <2>2 DEF PolicyInv, Inv, ShapeInv
  <2>3. ASSUME NEW pc \in {"fill", "reload"}, edit' = [edit EXCEPT ![e].pc = pc]
        PROVE edit'[e].next = edit[e].next /\ edit'[e].vendor = edit[e].vendor
    <3>1. edit'[e] = [edit[e] EXCEPT !.pc = pc]
      BY <2>3 DEF PolicyInv, Inv, ShapeInv
    <3>2. [edit[e] EXCEPT !.pc = pc] = [pc |-> pc, vendor |-> edit[e].vendor, next |-> edit[e].next]
      BY <2>1
    <3> QED BY <3>1, <3>2
  <2> QED BY <2>2, <2>3
<1> QED BY <1>1, <1>2 DEF PolicyInv, EditsKept, KeptIn

LEMMA FillKeepsPolicies == ASSUME PolicyInv, NEW e \in Editors, Fill(e) PROVE PolicyInv'
<1>1. edit[e] # Idle /\ edit[e].vendor \in Edited
  BY DEF Fill, Idle, PolicyInv, Inv, ShapeInv, CallShape
<1>2. /\ edit' = [edit EXCEPT ![e].pc = "reload"] /\ asked' = asked /\ engine' = engine
      /\ \E left \in {edit[e].next, Torn} : file' = [file EXCEPT ![edit[e].vendor] = left]
  BY DEF Fill
<1>3. FilesKept'
  BY <1>1, <1>2 DEF PolicyInv, Inv, ShapeInv, EditsKept, FilesKept, Whole, KeptIn
<1>4. EditsKept'
  BY <1>1, <1>2, CallKeepsEdits
<1> QED BY <1>2, <1>3, <1>4, FillKeeps DEF PolicyInv, AskedInv, EngineKept, KeptIn

LEMMA TruncateKeepsPolicies ==
  ASSUME PolicyInv, NEW e \in Editors, Truncate(e) PROVE PolicyInv'
<1>1. edit[e] # Idle /\ edit[e].vendor \in Edited
  BY DEF Truncate, Idle, PolicyInv, Inv, ShapeInv, CallShape
<1>2. /\ edit' = [edit EXCEPT ![e].pc = "fill"] /\ asked' = asked /\ engine' = engine
      /\ file' = [file EXCEPT ![edit[e].vendor] = Torn]
  BY DEF Truncate
<1>3. FilesKept'
  BY <1>1, <1>2 DEF PolicyInv, Inv, ShapeInv, FilesKept, Whole, KeptIn
<1>4. EditsKept'
  BY <1>1, <1>2, CallKeepsEdits
<1> QED BY <1>2, <1>3, <1>4, TruncateKeeps DEF PolicyInv, AskedInv, EngineKept, KeptIn

LEMMA ReloadKeepsPolicies == ASSUME PolicyInv, NEW e \in Editors, Reload(e) PROVE PolicyInv'
<1>1. edit[e] # Idle
  BY DEF Reload, Idle
<1>2. edit' = [edit EXCEPT ![e] = Idle] /\ asked' = asked /\ file' = file
  BY DEF Reload
<1>3. PICK read \in SUBSET {v \in Edited : Whole(v)} : engine' = Load(read)
  BY DEF Reload
<1>4. ASSUME NEW v \in Edited PROVE KeptIn(IF v \in read THEN file[v] ELSE Bundled[v], v)
  <2>1. KeptIn(Bundled[v], v)
    BY EditedAreVendors, BundledIsKept DEF KeptIn
  <2> QED BY <2>1 DEF PolicyInv, FilesKept
<1>5. EngineKept'
  BY <1>2, <1>3, <1>4 DEF Load, EngineKept, KeptIn
<1>6. EditsKept'
  BY <1>1, <1>2, CallKeepsEdits
<1> QED BY <1>2, <1>5, <1>6, ReloadKeeps DEF PolicyInv, AskedInv, FilesKept, Whole, KeptIn

LEMMA PolicyInvNext == PolicyInv /\ [PolicyNext]_policyVars => PolicyInv'
<1> SUFFICES ASSUME PolicyInv, [PolicyNext]_policyVars PROVE PolicyInv'
  OBVIOUS
<1>1. CASE Boot
  BY <1>1, BootKeepsPolicies
<1>2. CASE Stop
  BY <1>2, StopKeeps
     DEF Stop, PolicyInv, AskedInv, EngineKept, FilesKept, EditsKept, Whole, KeptIn
<1>3. ASSUME NEW v \in Edited, Repair(v) PROVE PolicyInv'
  <2>1. FilesKept'
    BY <1>3 DEF Repair, PolicyInv, Inv, ShapeInv, FilesKept, Whole, KeptIn
  <2> QED BY <1>3, <2>1, RepairKeeps
          DEF Repair, PolicyInv, AskedInv, EngineKept, EditsKept, KeptIn
<1>4. ASSUME NEW e \in Editors, NEW v \in Edited, NEW list \in Lists, SetAllow(e, v, list)
      PROVE  PolicyInv'
  BY <1>4, SetAllowKeepsPolicies
<1>5. ASSUME NEW e \in Editors, Truncate(e) \/ Fill(e) \/ Reload(e) PROVE PolicyInv'
  BY <1>5, TruncateKeepsPolicies, FillKeepsPolicies, ReloadKeepsPolicies
<1>6. CASE UNCHANGED policyVars
  BY <1>6, NextKeeps
     DEF policyVars, PolicyInv, AskedInv, EngineKept, FilesKept, EditsKept, Whole, KeptIn
<1> QED BY <1>1, <1>2, <1>3, <1>4, <1>5, <1>6 DEF PolicyNext, PolicyStep

---------------------------------------------------------------------------
(* What the list decides.                                                  *)

LEMMA DoIsNoNumber == "do" \notin Numbers
<1>1. "cisco_ios" \in Vendors /\ Builtin["cisco_ios"] = CiscoIos
  BY DEF Vendors, Builtin
<1>2. <<"do">> \in CiscoIos.allow
  BY DEF CiscoIos, Verbs
<1>3. <<"do">> \in Builtin["cisco_ios"].allow
  BY <1>1, <1>2
<1>4. \A ph \in Builtin["cisco_ios"].allow : ph[1] \notin Numbers
  BY <1>1, NumbersAssumption
<1>5. <<"do">>[1] = "do"
  OBVIOUS
<1> QED BY <1>3, <1>4, <1>5

\* A command whose first word is no alias stays as it is.
LEMMA NothingToExpand ==
  ASSUME NEW policy, NEW S, NEW stage \in Seq(S), stage # <<>>,
         \A key \in DOMAIN policy.aliases : key = <<key[1]>> /\ key[1] # stage[1]
  PROVE  Expand(policy, <<stage>>) = <<stage>>
<1> DEFINE one == SubSeq(stage, 1, 1)
           two == IF Len(stage) > 1 THEN SubSeq(stage, 1, 2) ELSE one
<1>1. Len(stage) \in Nat /\ Len(stage) >= 1
  OBVIOUS
<1>2. one[1] = stage[1]
  BY <1>1
<1>3. two[1] = stage[1]
  BY <1>1
<1>4. one \notin DOMAIN policy.aliases /\ two \notin DOMAIN policy.aliases
  BY <1>2, <1>3
<1>5. <<stage>>[1] = stage /\ <<stage>> # <<>> /\ [<<stage>> EXCEPT ![1] = stage] = <<stage>>
  OBVIOUS
<1> QED BY <1>4, <1>5 DEF Expand

\* What an engine makes of a wrapped verb that the builtin policy denies.
LEMMA WrappedIsBare ==
  ASSUME NEW v \in Vendors \ {"linux"}, NEW policy, policy.aliases = Bundled[v].aliases,
         NEW verb \in Builtin[v].deny, NEW stage \in Wrapped(verb)
  PROVE  /\ Expand(policy, <<stage>>) = <<stage>>
         /\ \E rest \in {<<>>, <<"x">>} : Bare(stage) = verb \o rest
         /\ IsPrefix(verb, Bare(stage)) /\ Phrase(verb)
<1>1. /\ Phrase(verb) /\ verb[1] # "do" /\ verb[1] \notin Numbers
      /\ AliasFree(Builtin[v], verb[1]) /\ AliasFree(Builtin[v], "do")
  BY BuiltinFacts, NumbersAssumption DEF PhraseFacts
<1>2. /\ \E rest \in {<<>>, <<"x">>} : Bare(stage) = verb \o rest
      /\ stage[1] \in {"do", verb[1]} \cup Numbers /\ stage # <<>>
      /\ \E S : stage \in Seq(S)
  BY <1>1, DoIsNoNumber, BareOfWrapped
<1>3. \A key \in DOMAIN policy.aliases : key = <<key[1]>> /\ key[1] # stage[1]
  <2>1. \A key \in DOMAIN policy.aliases : key \in DOMAIN Builtin[v].aliases
    BY BundledFacts
  <2>2. \A key \in DOMAIN Builtin[v].aliases : key = <<key[1]>> /\ key[1] \notin Numbers
    BY BuiltinFacts, NumbersAssumption DEF PhraseFacts
  <2> QED BY <1>1, <1>2, <2>1, <2>2 DEF AliasFree
<1>4. Expand(policy, <<stage>>) = <<stage>>
  BY <1>2, <1>3, NothingToExpand
<1>5. IsPrefix(verb, Bare(stage))
  <2>1. PICK rest \in {<<>>, <<"x">>} : Bare(stage) = verb \o rest
    BY <1>2
  <2> DEFINE S == {verb[1], verb[2], "x"}
  <2>2. rest \in Seq(S)
    <3>1. "x" \in S
      OBVIOUS
    <3> HIDE DEF S
    <3>2. <<>> \in Seq(S) /\ <<"x">> \in Seq(S)
      BY <3>1
    <3> QED BY <3>2
  <2>3. verb \in Seq(S) /\ verb # <<>>
    <3>1. CASE verb = <<verb[1]>>
      <4>1. \A w \in S : <<w>> \in Seq(S) /\ <<w>> # <<>>
        OBVIOUS
      <4> QED BY <3>1, <4>1
    <3>2. CASE verb = <<verb[1], verb[2]>>
      <4>1. \A w, y \in S : <<w, y>> \in Seq(S) /\ <<w, y>> # <<>>
        OBVIOUS
      <4> QED BY <3>2, <4>1
    <3> QED BY <1>1, <3>1, <3>2 DEF Phrase
  <2> HIDE DEF S
  <2> QED BY <2>1, <2>2, <2>3, PrefixOfConcat
<1> QED BY <1>1, <1>2, <1>4, <1>5

LEMMA DeniedIsNotAlways ==
  PolicyInv => NoAlwaysForDenied
<1> SUFFICES ASSUME PolicyInv, NEW v \in Edited, NEW verb \in Builtin[v].deny,
                    NEW stage \in Wrapped(verb)
             PROVE  ~Check(engine[v], Builtin[v], OneStage(stage)).always
  BY DEF NoAlwaysForDenied
<1>1. engine[v].aliases = Bundled[v].aliases
  BY DEF PolicyInv, EngineKept, KeptIn, KeptFor
<1>2. Expand(engine[v], <<stage>>) = <<stage>> /\ IsPrefix(verb, Bare(stage))
  BY <1>1, EditedAreVendors, WrappedIsBare
<1>3. <<stage>>[1] = stage /\ 1 \in DOMAIN <<stage>>
  OBVIOUS
<1>4. Denies(Builtin[v], <<stage>>)
  BY <1>2, <1>3 DEF Denies, OnList
<1>5. OneStage(stage).stages = <<stage>>
  BY DEF OneStage
<1> QED BY <1>2, <1>4, <1>5 DEF Check, MayAlways

\* A phrase of an operator that a telnet command begins with is about telnet.
LEMMA TelnetPrefix ==
  ASSUME NEW t \in Seq(STRING), NEW rest \in {<<>>, <<"x">>}, IsPrefix(t, <<"telnet">> \o rest)
  PROVE  IsPrefix(t, <<"telnet">>) \/ IsPrefix(<<"telnet">>, t)
<1>1. Len(t) \in Nat
  OBVIOUS
<1>2. CASE t = <<>>
  BY <1>2 DEF IsPrefix
<1>3. CASE t # <<>>
  <2>1. t[1] = "telnet" /\ Len(t) >= 1
    BY <1>1, <1>3 DEF IsPrefix
  <2>2. SubSeq(<<"telnet">>, 1, Len(<<"telnet">>)) = SubSeq(t, 1, Len(<<"telnet">>))
    BY <1>1, <2>1
  <2> QED BY <2>1, <2>2 DEF IsPrefix
<1> QED BY <1>2, <1>3

LEMMA DeniedIsNotAllowed == PolicyInv => DeniedStaysDenied
<1> SUFFICES ASSUME PolicyInv, NEW v \in Edited, NEW verb \in Builtin[v].deny,
                    \A t \in asked[v] : ~IsPrefix(verb, t) /\ ~IsPrefix(t, verb),
                    NEW stage \in Wrapped(verb)
             PROVE  ~Check(engine[v], Builtin[v], OneStage(stage)).allowed
  BY DEF DeniedStaysDenied
<1> DEFINE q == engine[v]
<1>0. v \in Vendors \ {"linux"}
  BY EditedAreVendors
<1>1. KeptFor(q, v, asked[v])
  BY DEF PolicyInv, EngineKept, KeptIn
<1> HIDE DEF q
<1>2. /\ Expand(q, <<stage>>) = <<stage>> /\ IsPrefix(verb, Bare(stage)) /\ Phrase(verb)
      /\ \E rest \in {<<>>, <<"x">>} : Bare(stage) = verb \o rest
  BY SMTT(40), <1>0, <1>1, WrappedIsBare DEF KeptFor
<1>3. <<stage>>[1] = stage /\ 1 \in DOMAIN <<stage>> /\ <<stage>> # <<>>
  OBVIOUS
<1>4. q.unrestricted = FALSE
  BY <1>0, <1>1, BuiltinFacts, BundledFacts DEF KeptFor, PhraseFacts
<1>5. CASE verb \in Bundled[v].deny
  <2>1. verb \in q.deny
    BY <1>1, <1>5 DEF KeptFor
  <2>2. Denies(q, <<stage>>)
    BY <1>2, <1>3, <2>1 DEF Denies, OnList
  <2> QED BY <1>2, <1>4, <2>2 DEF Check, OneStage, q
<1>6. CASE verb \notin Bundled[v].deny
  <2>1. v = "cisco_nxos" /\ verb = <<"telnet">>
    BY <1>0, <1>6, BundledFacts
  <2>2. PICK rest \in {<<>>, <<"x">>} : Bare(stage) = <<"telnet">> \o rest
    BY <1>2, <2>1
  <2>3. ASSUME NEW t \in q.allow \cup Builtin[v].allow, IsPrefix(t, Bare(stage)) PROVE FALSE
    <3>1. CASE t \in asked[v]
      <4>1. t \in Seq(STRING)
        BY <3>1 DEF PolicyInv, AskedInv
      <4> QED BY <2>1, <2>2, <2>3, <3>1, <4>1, TelnetPrefix
    <3>2. CASE t \in Builtin[v].allow
      <4>1. Phrase(t) /\ t[1] # "telnet"
        BY <2>1, <3>2, TelnetIsNotListed DEF Builtin
      <4>2. (<<"telnet">> \o rest)[1] = "telnet"
        OBVIOUS
      <4>3. Len(t) \in Nat /\ Len(t) >= 1
        BY <4>1 DEF Phrase
      <4>4. SubSeq(t, 1, Len(t))[1] = SubSeq(<<"telnet">> \o rest, 1, Len(t))[1]
        BY <2>2, <2>3 DEF IsPrefix
      <4> QED BY <4>1, <4>2, <4>3, <4>4
    <3>3. q.allow \subseteq asked[v] \cup Builtin[v].allow
      BY <1>0, <1>1, BundledFacts DEF KeptFor
    <3> QED BY <3>1, <3>2, <3>3, <2>3
  <2>4. ~OnList(q.allow \cup Builtin[v].allow, Bare(stage))
    BY <2>3 DEF OnList
  <2> QED BY <1>2, <1>3, <1>4, <2>4 DEF Check, OneStage, q
<1> QED BY <1>5, <1>6

LEMMA ListedIsLetThrough == PolicyInv => ListedIsAllowed
<1> SUFFICES ASSUME PolicyInv, Settled, NEW v \in Edited, Whole(v),
                    NEW verb \in file[v].allow \cap Lifts
             PROVE  Check(engine[v], Builtin[v], OneStage(verb)).allowed
  BY DEF ListedIsAllowed
<1> DEFINE q == engine[v]
<1>0. v \in Vendors \ {"linux"}
  BY EditedAreVendors
<1>1. q = file[v]
  BY InvImplies DEF PolicyInv, EngineIsFile, Load
<1>2. KeptFor(q, v, asked[v]) /\ Lifting(q) /\ verb \in q.allow \cap Lifts
  BY <1>1 DEF PolicyInv, FilesKept, KeptIn
<1> HIDE DEF q
<1>3. /\ Phrase(verb) /\ verb[1] # "do" /\ verb[1] \notin Numbers
      /\ AliasFree(Builtin[v], verb[1])
  <2>1. verb[1] \in LiftWords \cup {"write"} /\ Phrase(verb)
    BY <1>2, LiftsAre
  <2>2. verb[1] # "do"
    BY <2>1 DEF LiftWords
  <2>3. verb[1] \notin Numbers
    BY <1>0, <1>2, NumbersAssumption
  <2> QED BY <1>0, <1>2, <2>1, <2>2, <2>3, BuiltinFacts DEF PhraseFacts
<1>4. Bare(verb) = verb /\ (\E S : verb \in Seq(S)) /\ verb # <<>> /\ Len(verb) \in Nat
  <2>1. CASE verb = <<verb[1]>>
    <3>1. \A w \in {verb[1]} : <<w>> \in Seq({verb[1]}) /\ <<w>> # <<>> /\ Len(<<w>>) = 1
      OBVIOUS
    <3>2. verb \in Seq({verb[1]}) /\ verb # <<>> /\ Len(verb) = 1
      BY <2>1, <3>1
    <3>3. Strip(verb) = verb
      BY <3>2 DEF Strip
    <3>4. Peel(verb) = SubSeq(verb, 1, Len(verb))
      BY <1>3, <3>2, PeelAt
    <3>5. SubSeq(verb, 1, Len(verb)) = verb
      BY <3>2, SubSeqFull
    <3> QED BY <3>2, <3>3, <3>4, <3>5 DEF Bare
  <2>2. CASE verb = <<verb[1], verb[2]>>
    <3> DEFINE S == {verb[1], verb[2]}
    <3>1. \A w, y \in S : <<w, y>> \in Seq(S) /\ <<w, y>> # <<>> /\ Len(<<w, y>>) = 2
      OBVIOUS
    <3>2. verb \in Seq(S) /\ verb # <<>> /\ Len(verb) = 2
      BY <2>2, <3>1
    <3>3. Strip(verb) = verb
      BY <1>3 DEF Strip
    <3> HIDE DEF S
    <3>4. Peel(verb) = SubSeq(verb, 1, Len(verb))
      BY <1>3, <3>2, PeelAt
    <3>5. SubSeq(verb, 1, Len(verb)) = verb
      BY <3>2, SubSeqFull
    <3> QED BY <3>2, <3>3, <3>4, <3>5 DEF Bare
  <2> QED BY <1>3, <2>1, <2>2 DEF Phrase
<1>5. Expand(q, <<verb>>) = <<verb>>
  <2>1. \A key \in DOMAIN q.aliases : key = <<key[1]>> /\ key[1] # verb[1]
    BY <1>0, <1>2, <1>3, BuiltinFacts, BundledFacts DEF KeptFor, AliasFree, PhraseFacts
  <2> QED BY <1>4, <2>1, NothingToExpand
<1>6. <<verb>>[1] = verb /\ DOMAIN <<verb>> = {1} /\ Len(<<verb>>) = 1 /\ 2..1 = {}
  OBVIOUS
<1>7. IsPrefix(verb, verb)
  BY <1>4 DEF IsPrefix
<1>8. OnList(q.allow \cup Builtin[v].allow, Bare(verb))
  BY <1>2, <1>4, <1>7 DEF OnList
<1>9. ~Denies(q, <<verb>>)
  BY <1>2, <1>4, <1>6 DEF Denies, OnList, Lifting
<1> HIDE DEF Denies
<1> QED BY <1>5, <1>6, <1>8, <1>9 DEF Check, OneStage, q

(* However edits, failed reloads, torn files and restarts are interleaved: *)
(* what the builtin policy denies stays denied, behind any prefix, until   *)
(* it was on a list somebody saved; it is allowed once it is listed and    *)
(* nothing runs; and it never may be allowed for always.                   *)
(* (PolicyEngine::check, apply_allow_list, absorb_bundled_allow)           *)
THEOREM ListDecidesAlways == PolicySpec => []ListDecides
<1>1. PolicySpec => []PolicyInv
  BY PolicyInvInit, PolicyInvNext, PTL DEF PolicySpec
<1>2. PolicyInv => ListDecides
  BY DeniedIsNotAllowed, DeniedIsNotAlways, ListedIsLetThrough DEF ListDecides
<1> QED BY <1>1, <1>2, PTL


(***************************************************************************)
(* What Late drafts itself passes every list.                              *)
(***************************************************************************)
ScaffoldWords == {"configure", "terminal", "vlan", "10", "name", "vlan10", "end"}

\* The commands of a scaffold: a verb, and the words behind it.
ScaffoldStage(s) ==
  /\ s[1] \in {"configure", "vlan", "name", "end"}
  /\ \/ s = <<s[1]>>
     \/ s = <<s[1], s[2]>> /\ s[2] \in ScaffoldWords

LEMMA VlanVendorFacts ==
  \A v \in VlanVendors :
    /\ v \in Vendors \ {"linux"}
    /\ {<<"configure">>, <<"vlan">>, <<"name">>, <<"end">>} \subseteq Builtin[v].allow
    /\ \A d \in Builtin[v].deny : d[1] \notin {"configure", "vlan", "name", "end"}
    /\ \A key \in DOMAIN Builtin[v].aliases : key[1] \notin {"configure", "vlan", "name", "end"}
<1> DEFINE W == {"configure", "vlan", "name", "end"}
           Ok(b) == /\ \A w \in W : <<w>> \in b.allow
                    /\ \A d \in b.deny : d[1] \notin W
                    /\ \A key \in DOMAIN b.aliases : key[1] \notin W
<1>1. Ok(CiscoIos)
  <2>1. \A w \in W : <<w>> \in CiscoIos.allow
    BY DEF CiscoIos, Verbs
  <2>2. \A d \in CiscoIos.deny : d[1] \notin W
    BY DEF CiscoIos, Verbs
  <2>3. \A key \in DOMAIN CiscoIos.aliases : key[1] \notin W
    BY DEF CiscoIos, Aliases, Verbs
  <2> QED BY <2>1, <2>2, <2>3
<1>2. Ok(AosCx)
  <2>1. \A w \in W : <<w>> \in AosCx.allow
    BY DEF AosCx, Verbs
  <2>2. \A d \in AosCx.deny : d[1] \notin W
    BY DEF AosCx, Verbs
  <2>3. \A key \in DOMAIN AosCx.aliases : key[1] \notin W
    BY DEF AosCx, Aliases, Verbs
  <2> QED BY <2>1, <2>2, <2>3
<1>3. Ok(AristaEos)
  <2>1. \A w \in W : <<w>> \in AristaEos.allow
    BY DEF AristaEos, Verbs
  <2>2. \A d \in AristaEos.deny : d[1] \notin W
    BY DEF AristaEos, Verbs
  <2>3. \A key \in DOMAIN AristaEos.aliases : key[1] \notin W
    BY DEF AristaEos, Aliases, Verbs
  <2> QED BY <2>1, <2>2, <2>3
<1>4. Ok(CiscoIosXe)
  <2>1. /\ CiscoIosXe.allow = CiscoIos.allow /\ CiscoIosXe.aliases = CiscoIos.aliases
        /\ CiscoIosXe.deny = CiscoIos.deny
              \cup Verbs({"guestshell", "app-hosting", "install", "request"})
    BY DEF CiscoIosXe, CiscoIos
  <2>2. \A d \in Verbs({"guestshell", "app-hosting", "install", "request"}) : d[1] \notin W
    BY DEF Verbs
  <2> QED BY <1>1, <2>1, <2>2
<1>5. Ok(CiscoNxos)
  <2>1. /\ CiscoNxos.allow = CiscoIos.allow /\ CiscoNxos.aliases = CiscoIos.aliases
        /\ CiscoNxos.deny = CiscoIos.deny
              \cup Verbs({"run", "python", "source", "guestshell", "bash"})
    BY DEF CiscoNxos, CiscoIos
  <2>2. \A d \in Verbs({"run", "python", "source", "guestshell", "bash"}) : d[1] \notin W
    BY DEF Verbs
  <2> QED BY <1>1, <2>1, <2>2
<1>6. \A v \in VlanVendors : Ok(Builtin[v]) /\ v \in Vendors \ {"linux"}
  <2> HIDE DEF Ok
  <2> QED BY <1>1, <1>2, <1>3, <1>4, <1>5 DEF VlanVendors, Builtin, Vendors
<1>7. ASSUME NEW v \in VlanVendors
      PROVE  {<<"configure">>, <<"vlan">>, <<"name">>, <<"end">>} \subseteq Builtin[v].allow
  <2>1. \A w \in W : <<w>> \in Builtin[v].allow
    BY <1>6
  <2> QED BY <2>1
<1>8. \A v \in VlanVendors :
        /\ \A d \in Builtin[v].deny : d[1] \notin W
        /\ \A key \in DOMAIN Builtin[v].aliases : key[1] \notin W
  BY <1>6
<1> HIDE DEF Ok
<1> QED BY <1>6, <1>7, <1>8

LEMMA SubsArePhrases == \A v \in VlanVendors : \A text \in Builtin[v].subs : Phrase(text)
<1> DEFINE Ok(b) == \A text \in b.subs : Phrase(text)
<1>1. Ok(CiscoIos) /\ Ok(AosCx) /\ Ok(AristaEos)
  BY DEF CiscoIos, AosCx, AristaEos, Verbs, Phrase
<1>2. Ok(CiscoIosXe)
  BY <1>1 DEF CiscoIosXe, CiscoIos
<1>3. Ok(CiscoNxos)
  <2>1. CiscoNxos.subs = CiscoIos.subs \cup {<<"run", "bash">>, <<"python">>}
    BY DEF CiscoNxos, CiscoIos
  <2>2. Phrase(<<"run", "bash">>) /\ Phrase(<<"python">>)
    BY DEF Phrase
  <2> QED BY <1>1, <2>1, <2>2
<1> HIDE DEF Ok
<1>4. \A v \in VlanVendors : Ok(Builtin[v])
  BY <1>1, <1>2, <1>3 DEF VlanVendors, Builtin
<1> QED BY <1>4 DEF Ok

LEMMA ScaffoldStagePermitted ==
  ASSUME NEW v \in VlanVendors, NEW saved, NEW p, KeptFor(p, v, saved),
         NEW s, ScaffoldStage(s)
  PROVE  Check(p, Builtin[v], OneStage(s)).allowed
<1> DEFINE W == {"configure", "vlan", "name", "end"}
<1>0. v \in Vendors \ {"linux"} /\ s[1] \in W
  BY VlanVendorFacts DEF ScaffoldStage
<1> DEFINE S == {s[1], s[2]}
<1>1. /\ s \in Seq(S) /\ s # <<>> /\ Len(s) \in 1..2
      /\ \A i \in 1..Len(s) : s[i] \in ScaffoldWords
  <2>1. CASE s = <<s[1]>>
    <3>1. \A w \in S : <<w>> \in Seq(S) /\ <<w>> # <<>> /\ Len(<<w>>) = 1
      OBVIOUS
    <3>2. s \in Seq(S) /\ s # <<>> /\ Len(s) = 1
      BY <2>1, <3>1
    <3>3. s[1] \in ScaffoldWords
      BY <1>0 DEF ScaffoldWords
    <3> QED BY <3>2, <3>3
  <2>2. CASE s = <<s[1], s[2]>> /\ s[2] \in ScaffoldWords
    <3>1. \A w, y \in S : <<w, y>> \in Seq(S) /\ <<w, y>> # <<>> /\ Len(<<w, y>>) = 2
      OBVIOUS
    <3>2. s \in Seq(S) /\ s # <<>> /\ Len(s) = 2
      BY <2>2, <3>1
    <3>3. s[1] \in ScaffoldWords
      BY <1>0 DEF ScaffoldWords
    <3> QED BY <2>2, <3>2, <3>3
  <2> QED BY <2>1, <2>2 DEF ScaffoldStage
<1>2. s[1] \notin Numbers /\ s[1] # "do"
  <2>1. <<s[1]>> \in Builtin[v].allow
    BY <1>0, VlanVendorFacts
  <2>2. <<s[1]>>[1] \notin Numbers
    BY <1>0, <2>1, NumbersAssumption
  <2> QED BY <1>0, <2>2
<1>3. Bare(s) = s
  <2>1. Strip(s) = s
    BY <1>2 DEF Strip
  <2>2. Peel(s) = SubSeq(s, 1, Len(s))
    BY <1>1, <1>2, PeelAt
  <2>3. SubSeq(s, 1, Len(s)) = s
    BY <1>1, SubSeqFull
  <2> QED BY <2>1, <2>2, <2>3 DEF Bare
<1>4. Expand(p, <<s>>) = <<s>>
  <2>1. \A key \in DOMAIN p.aliases : key = <<key[1]>> /\ key[1] # s[1]
    BY <1>0, BuiltinFacts, BundledFacts, VlanVendorFacts DEF KeptFor, PhraseFacts
  <2> QED BY <1>1, <2>1, NothingToExpand
<1>5. <<s>>[1] = s /\ DOMAIN <<s>> = {1} /\ Len(<<s>>) = 1 /\ 2..1 = {}
  OBVIOUS
<1>6. OnList(p.allow \cup Builtin[v].allow, Bare(s))
  <2>1. <<s[1]>> \in Builtin[v].allow
    BY <1>0, VlanVendorFacts
  <2>2. IsPrefix(<<s[1]>>, s)
    <3>1. Len(<<s[1]>>) = 1 /\ SubSeq(<<s[1]>>, 1, 1) = SubSeq(s, 1, 1)
      BY <1>1
    <3> QED BY <1>1, <3>1 DEF IsPrefix
  <2> QED BY <1>3, <2>1, <2>2 DEF OnList
<1>7. ~OnList(p.deny, Bare(s))
  <2>1. SUFFICES ASSUME NEW d \in p.deny, IsPrefix(d, s) PROVE FALSE
    BY <1>3 DEF OnList
  <2>2. Phrase(d) /\ d[1] \notin W
    BY <1>0, BuiltinFacts, BundledFacts, VlanVendorFacts DEF KeptFor, PhraseFacts
  <2>3. Len(d) \in Nat /\ Len(d) >= 1
    BY <2>2 DEF Phrase
  <2>4. SubSeq(d, 1, Len(d))[1] = SubSeq(s, 1, Len(d))[1]
    BY <2>1 DEF IsPrefix
  <2>5. Len(d) <= Len(s)
    BY <2>1 DEF IsPrefix
  <2>6. d[1] = s[1]
    BY <1>1, <2>2, <2>3, <2>4, <2>5 DEF Phrase
  <2> QED BY <1>0, <2>2, <2>6
<1>8. ASSUME NEW text \in p.subs PROVE ~Mentions(s, text)
  <2>1. text \in Builtin[v].subs
    BY <1>0, BundledFacts DEF KeptFor
  <2>2. \A w \in ScaffoldWords : text[1] \notin Parts[w]
    BY <2>1, ScaffoldAssumption DEF ScaffoldWords
  <2>3. Phrase(text)
    BY <2>1, SubsArePhrases
  <2> QED BY <1>1, <2>2, <2>3 DEF Mentions, Phrase
<1>9. ~Denies(p, <<s>>)
  BY <1>5, <1>7, <1>8 DEF Denies
<1> HIDE DEF Denies
<1> QED BY <1>4, <1>5, <1>6, <1>9 DEF Check, OneStage

LEMMA SixLines ==
  ASSUME NEW S, NEW k \in S, NEW x \in S, NEW y \in S, NEW z \in S, NEW w \in S, NEW q,
         q = <<k, k, x>> \o <<y, z>> \o <<w>>
  PROVE  DOMAIN q = 1..6 /\ \A j \in 1..6 : q[j] \in {k, x, y, z, w}
OBVIOUS

\* The lines of the scaffold, one by one.
LEMMA ScaffoldLines ==
  ASSUME NEW v \in VlanVendors, NEW i \in DOMAIN CliScaffold(v, TRUE)
  PROVE  \/ CliScaffold(v, TRUE)[i] = Comment
         \/ \E s : ScaffoldStage(s) /\ CliScaffold(v, TRUE)[i] = OneStage(s)
<1> DEFINE a == <<"configure", "terminal">>
           b == <<"vlan", "10">>
           c == <<"name", "vlan10">>
           e == <<"end">>
<1>1. CliScaffold(v, TRUE)
        = <<Comment, Comment, OneStage(a)>> \o <<OneStage(b), OneStage(c)>> \o <<OneStage(e)>>
  <2>1. /\ v \notin {"junos", "panos"} /\ v # "fortios" /\ v \notin {"routeros", "linux"}
    BY DEF VlanVendors
  <2> HIDE DEF a, b, c, e
  <2>2. VlanLines = <<OneStage(b), OneStage(c)>>
    BY DEF VlanLines, b, c
  <2>3. /\ CliScaffold(v, TRUE) = <<Comment, Comment, OneStage(a)>> \o VlanLines \o <<OneStage(e)>>
    BY <2>1, Zenon DEF CliScaffold, a, e
  <2> QED BY <2>2, <2>3
<1>2. ScaffoldStage(a) /\ ScaffoldStage(b) /\ ScaffoldStage(c) /\ ScaffoldStage(e)
  BY DEF ScaffoldStage, ScaffoldWords
<1> HIDE DEF a, b, c, e
<1>4. /\ i \in 1..6
      /\ CliScaffold(v, TRUE)[i]
           \in {Comment, OneStage(a), OneStage(b), OneStage(c), OneStage(e)}
  <2> DEFINE S == {Comment, OneStage(a), OneStage(b), OneStage(c), OneStage(e)}
  <2>1. /\ Comment \in S /\ OneStage(a) \in S /\ OneStage(b) \in S /\ OneStage(c) \in S
        /\ OneStage(e) \in S
    OBVIOUS
  <2> HIDE DEF S
  <2>2. /\ DOMAIN CliScaffold(v, TRUE) = 1..6
        /\ \A j \in 1..6 : CliScaffold(v, TRUE)[j]
             \in {Comment, OneStage(a), OneStage(b), OneStage(c), OneStage(e)}
    BY <1>1, <2>1, SixLines
  <2> QED BY <2>2
<1> QED BY <1>2, <1>4

LEMMA ScaffoldPermitted ==
  ASSUME NEW v \in VlanVendors, NEW saved, NEW p, KeptFor(p, v, saved)
  PROVE  Permits(v, p)
BY ScaffoldLines, ScaffoldStagePermitted DEF Permits

LEMMA ListsPermitScaffold == PolicyInv => ScaffoldIsPermitted
<1> SUFFICES ASSUME PolicyInv PROVE ScaffoldIsPermitted
  OBVIOUS
<1>1. ASSUME NEW v \in VlanVendors PROVE Permits(v, Bundled[v])
  BY VlanVendorFacts, BundledIsKept, ScaffoldPermitted
<1>2. ASSUME NEW v \in VlanVendors \cap Edited PROVE Permits(v, engine[v])
  BY ScaffoldPermitted DEF PolicyInv, EngineKept, KeptIn
<1> HIDE DEF Permits
<1> QED BY <1>1, <1>2 DEF ScaffoldIsPermitted, BundlePermitsScaffold

(***************************************************************************)
(* What holds of a call, its tool, the files and the terminal.             *)
(***************************************************************************)

\* The bodies that strip_secrets lets through.
CleanBodies == {b \in Bodies \cup Range(Filled) : ~b.secret}

Increasing(s) == \A i, j \in DOMAIN s : i < j => s[i] < s[j]

\* A line is permitted by what operators saved so far, A.
LenientIn(v, A) == IF v \in Edited THEN LenientTo(v, A[v]) ELSE Bundled[v]

Permitted(line, A) ==
  \E v \in {"generic", BannerVendor} : Check(LenientIn(v, A), Builtin[v], line).allowed

IdleCall(r, t) ==
  /\ r = [pc |-> "idle", result |-> r.result]
  /\ r.result \in {"none", "ok", "error", "denied", "timeout"}
  /\ r.result = "denied" => t = <<>>

BusyCall(r) ==
  /\ r = [pc |-> r.pc, result |-> r.result, op |-> r.op, draft |-> r.draft, want |-> r.want,
          format |-> r.format, body |-> r.body, line |-> r.line, checked |-> r.checked,
          login |-> r.login, key |-> r.key]
  /\ r.pc \in Steps \ {"idle"} /\ r.result = "none"
  /\ r.op \in {"save", "push", "again", "delete"} /\ r.draft \in Drafts
  /\ r.body \in CleanBodies \cup {NoBody} /\ r.line \in Nat /\ r.checked \in Seq(Nat)
  /\ r.op # "delete" => r.want \in Formats
  /\ r.pc # "get" => r.format \in Formats
  /\ r.pc \in {"get", "read"} => r.op \in {"push", "delete"}
  /\ r.pc \notin {"get", "read", "remove", "unlist"} => r.body \in CleanBodies /\ r.op # "delete"
  /\ r.pc \notin {"check", "type"} => r.checked = <<>>
  /\ r.pc = "spawn" /\ r.login = "password" => r.key = TRUE

\* The lines that were typed, and behind them those still to be typed.
TypedInv(r, t) ==
  /\ t \in Seq(Nat) /\ Increasing(t)
  /\ r.pc \notin {"idle", "type"} => t = <<>>
  /\ r.pc # "idle" =>
       /\ Increasing(r.checked)
       /\ \A i \in DOMAIN t, j \in DOMAIN r.checked : t[i] < r.checked[j]
       /\ \A j \in DOMAIN r.checked : r.checked[j] <= r.line
       /\ \A i \in DOMAIN t : r.body.lines[t[i]] # Comment
       /\ \A j \in DOMAIN r.checked : r.body.lines[r.checked[j]] # Comment

PermittedInv(r, t, A) ==
  r.pc # "idle" =>
    /\ \A i \in DOMAIN t : Permitted(r.body.lines[t[i]], A)
    /\ \A j \in DOMAIN r.checked : Permitted(r.body.lines[r.checked[j]], A)

ToolInv(k, pc) ==
  /\ k = [state |-> k.state, piped |-> k.piped, login |-> k.login, key |-> k.key,
          body |-> k.body]
  /\ k.state \in {"none", "running", "exited"}
  /\ k.state # "none" <=> pc = "wait"
  /\ k.body \in CleanBodies \cup {NoBody}
  /\ k.state = "running" /\ k.login = "password" => k.key = TRUE

CallInv(r, t, k, A) ==
  /\ IdleCall(r, t) \/ BusyCall(r)
  /\ TypedInv(r, t) /\ PermittedInv(r, t, A) /\ ToolInv(k, r.pc)

CallsInv ==
  /\ call = [c \in Calls |-> call[c]]
  /\ typed = [c \in Calls |-> typed[c]]
  /\ child = [c \in Calls |-> child[c]]
  /\ \A c \in Calls : CallInv(call[c], typed[c], child[c], asked)

\* A draft about to be listed has its body, unless a delete met the save.
FilesInv ==
  /\ meta \in [Drafts -> Formats \cup {NoFormat}]
  /\ bodies \in [Drafts -> [Formats -> CleanBodies \cup {NoBody}]]
  /\ \A c \in Calls : At(c, "meta") =>
       bodies[call[c].draft][call[c].format] # NoBody \/ call[c].draft \in raced
  /\ ListedIsReadable

TerminalInv ==
  /\ sess = [open |-> sess.open, vendor |-> sess.vendor, text |-> sess.text,
             queue |-> sess.queue]
  /\ sess.vendor \in {"generic", BannerVendor}
  /\ sess.queue \in Seq(Calls) /\ Len(sess.queue) <= QueueCap
  /\ vault \in BOOLEAN

RestInv == CallsInv /\ FilesInv /\ TerminalInv

PushInv == PolicyInv /\ RestInv

---------------------------------------------------------------------------
(* The invariant says what the properties say.                             *)

LEMMA PushInvImplies ==
  PushInv => TypedIsPermitted /\ ListedIsReadable /\ RunsAsPlanned
<1> SUFFICES ASSUME PushInv PROVE TypedIsPermitted /\ ListedIsReadable /\ RunsAsPlanned
  OBVIOUS
<1>0. \A c \in Calls : CallInv(call[c], typed[c], child[c], asked)
  BY DEF PushInv, RestInv, CallsInv
<1>1. TypeOK
  <2>1. ASSUME NEW c \in Calls
        PROVE  /\ call[c].pc \in Steps
               /\ call[c].result \in {"none", "ok", "error", "denied", "timeout"}
               /\ child[c].state \in {"none", "running", "exited"}
               /\ child[c].state # "none" <=> At(c, "wait")
    <3>1. ToolInv(child[c], call[c].pc)
      BY <1>0 DEF CallInv
    <3>2. CASE IdleCall(call[c], typed[c])
      BY <3>1, <3>2 DEF IdleCall, ToolInv, Steps, At
    <3>3. CASE BusyCall(call[c])
      BY <3>1, <3>3 DEF BusyCall, ToolInv, At
    <3> QED BY <1>0, <3>2, <3>3 DEF CallInv
  <2>2. bodies \in [Drafts -> [Formats -> Bodies \cup Range(Filled) \cup {NoBody}]]
    BY DEF PushInv, RestInv, FilesInv, CleanBodies
  <2> QED BY <2>1, <2>2 DEF TypeOK, PushInv, RestInv, FilesInv, TerminalInv
<1>2. DeniedTypesNothing
  BY <1>0 DEF DeniedTypesNothing, CallInv, IdleCall, BusyCall
<1>3. TypedInOrder
  <2>1. \A c \in Calls : TypedInv(call[c], typed[c])
    BY <1>0 DEF CallInv
  <2> QED BY <2>1 DEF TypedInOrder, TypedInv, Increasing, Lines
<1>4. TypedWasPermitted
  <2> SUFFICES ASSUME NEW c \in Calls, At(c, "type"),
                      NEW n \in Range(typed[c]) \cup Range(call[c].checked)
               PROVE  \E v \in {"generic", BannerVendor} :
                        Check(Lenient(v), Builtin[v], Lines(c)[n]).allowed
    BY DEF TypedWasPermitted
  <2>1. PermittedInv(call[c], typed[c], asked) /\ call[c].pc # "idle"
    BY <1>0 DEF CallInv, At
  <2>2. Permitted(call[c].body.lines[n], asked)
    BY <2>1 DEF PermittedInv, Range
  <2>3. \A v : LenientIn(v, asked) = Lenient(v)
    BY DEF LenientIn, Lenient, LenientTo
  <2> QED BY <2>2, <2>3 DEF Permitted, Lines
<1>5. ScaffoldIsPermitted
  BY ListsPermitScaffold DEF PushInv
<1>6. RunsAsPlanned
  BY <1>0 DEF RunsAsPlanned, RunsOnlyStripped, RunsWithLogin, CallInv, ToolInv, CleanBodies
<1> QED BY <1>1, <1>2, <1>3, <1>4, <1>5, <1>6 DEF TypedIsPermitted, PushInv, RestInv, FilesInv

---------------------------------------------------------------------------
(* Initially, nothing is saved and nothing runs.                           *)

LEMMA IdleIs ==
  ASSUME NEW res \in {"none", "ok", "error", "denied", "timeout"}, NEW t \in Seq(Nat),
         Increasing(t), res = "denied" => t = <<>>, NEW k, ToolInv(k, "idle"), NEW A
  PROVE  CallInv([NoCall EXCEPT !.result = res], t, k, A)
<1>1. [NoCall EXCEPT !.result = res] = [pc |-> "idle", result |-> res]
  BY DEF NoCall
<1> DEFINE r == [pc |-> "idle", result |-> res]
<1>2. r.pc = "idle" /\ r.result = res
  OBVIOUS
<1>3. IdleCall(r, t)
  BY DEF IdleCall
<1> HIDE DEF r
<1>4. CallInv(r, t, k, A)
  BY <1>2, <1>3 DEF CallInv, TypedInv, PermittedInv
<1> QED BY <1>1, <1>4 DEF r

LEMMA NoChildIs == ToolInv(NoChild, "idle")
BY DEF ToolInv, NoChild

LEMMA PushInvInit == Init => PushInv
<1> SUFFICES ASSUME PolicyInit, PushInit PROVE PushInv
  BY DEF Init
<1>1. CallsInv
  <2>1. NoCall = [NoCall EXCEPT !.result = "none"]
    BY DEF NoCall
  <2>2. <<>> \in Seq(Nat) /\ Increasing(<<>>)
    BY DEF Increasing
  <2>3. CallInv(NoCall, <<>>, NoChild, asked)
    BY ZenonT(60), <2>1, <2>2, IdleIs, NoChildIs
  <2> QED BY <2>3 DEF PushInit, CallsInv
<1>2. FilesInv
  BY DEF PushInit, FilesInv, ListedIsReadable, At, NoCall
<1>3. TerminalInv
  BY PushAssumption DEF PushInit, TerminalInv
<1> QED BY <1>1, <1>2, <1>3, PolicyInvInit DEF PushInv, RestInv

---------------------------------------------------------------------------
(* A step of one call.                                                     *)

LEMMA OneCall ==
  ASSUME CallsInv, asked' = asked, NEW c \in Calls, NEW r, NEW t, NEW k,
         CallInv(r, t, k, asked), call' = [call EXCEPT ![c] = r],
         typed' = [typed EXCEPT ![c] = t], child' = [child EXCEPT ![c] = k]
  PROVE  CallsInv'
<1>1. /\ call'[c] = r /\ typed'[c] = t /\ child'[c] = k
      /\ \A d \in Calls \ {c} :
           call'[d] = call[d] /\ typed'[d] = typed[d] /\ child'[d] = child[d]
  BY DEF CallsInv
<1>2. ASSUME NEW d \in Calls PROVE CallInv(call'[d], typed'[d], child'[d], asked')
  <2>1. CASE d = c
    BY <1>1, <2>1
  <2>2. CASE d # c
    BY <1>1, <2>2 DEF CallsInv
  <2> QED BY <2>1, <2>2
<1>3. /\ call' = [d \in Calls |-> call'[d]] /\ typed' = [d \in Calls |-> typed'[d]]
      /\ child' = [d \in Calls |-> child'[d]]
  BY DEF CallsInv
<1> QED BY <1>2, <1>3 DEF CallsInv

\* A call that only turns its own record.
LEMMA OnlyCall ==
  ASSUME CallsInv, asked' = asked, NEW c \in Calls, NEW r,
         CallInv(r, typed[c], child[c], asked), call' = [call EXCEPT ![c] = r],
         typed' = typed, child' = child
  PROVE  CallsInv'
<1>1. typed' = [typed EXCEPT ![c] = typed[c]] /\ child' = [child EXCEPT ![c] = child[c]]
  BY DEF CallsInv
<1> QED BY <1>1, OneCall

LEMMA FilesStay ==
  ASSUME CallsInv, FilesInv, NEW c \in Calls, NEW r, call' = [call EXCEPT ![c] = r],
         meta' = meta, bodies' = bodies, raced' = raced, ~At(c, "unlist"),
         r.pc = "meta" => bodies[r.draft][r.format] # NoBody \/ r.draft \in raced
  PROVE  FilesInv'
<1>1. call'[c] = r /\ \A d \in Calls \ {c} : call'[d] = call[d]
  BY DEF CallsInv
<1>2. ASSUME NEW d \in Calls, At(d, "meta")'
      PROVE  bodies[call'[d].draft][call'[d].format] # NoBody \/ call'[d].draft \in raced
  BY <1>1, <1>2 DEF FilesInv, At
<1>3. ListedIsReadable'
  BY <1>1 DEF FilesInv, ListedIsReadable, At
<1> QED BY <1>2, <1>3 DEF FilesInv

\* The record of a busy call, with some of its fields changed.
Moved(q, pc, op, format, body, line, checked, login, key) ==
  [pc |-> pc, result |-> q.result, op |-> op, draft |-> q.draft, want |-> q.want,
   format |-> format, body |-> body, line |-> line, checked |-> checked, login |-> login,
   key |-> key]

IsMoved(r, q, pc, op, format, body, line, checked, login, key) ==
  /\ r.pc = pc /\ r.result = q.result /\ r.op = op /\ r.draft = q.draft
  /\ r.want = q.want /\ r.format = format /\ r.body = body /\ r.line = line
  /\ r.checked = checked /\ r.login = login /\ r.key = key
  /\ r = [pc |-> r.pc, result |-> r.result, op |-> r.op, draft |-> r.draft,
          want |-> r.want, format |-> r.format, body |-> r.body, line |-> r.line,
          checked |-> r.checked, login |-> r.login, key |-> r.key]

LEMMA MovedFields ==
  ASSUME NEW q, NEW pc, NEW op, NEW format, NEW body, NEW line, NEW checked, NEW login, NEW key,
         NEW r, r = Moved(q, pc, op, format, body, line, checked, login, key)
  PROVE  IsMoved(r, q, pc, op, format, body, line, checked, login, key)
BY DEF Moved, IsMoved

LEMMA GotoIs ==
  ASSUME NEW q, BusyCall(q), NEW pc
  PROVE  [q EXCEPT !.pc = pc]
           = Moved(q, pc, q.op, q.format, q.body, q.line, q.checked, q.login, q.key)
BY SMTT(40) DEF BusyCall, Moved

\* A call that is not idle is busy.
LEMMA Busy ==
  ASSUME CallsInv, NEW c \in Calls, call[c].pc # "idle"
  PROVE  /\ BusyCall(call[c]) /\ TypedInv(call[c], typed[c])
         /\ PermittedInv(call[c], typed[c], asked) /\ ToolInv(child[c], call[c].pc)
BY DEF CallsInv, CallInv, IdleCall

\* A call ends, with its tool gone.
LEMMA EndKeeps ==
  ASSUME CallsInv, asked' = asked, NEW c \in Calls, call[c].pc # "idle",
         NEW res \in {"none", "ok", "error", "denied", "timeout"},
         res = "denied" => typed[c] = <<>>, End(c, res), typed' = typed,
         \/ call[c].pc # "wait" /\ child' = child
         \/ \E k : ToolInv(k, "idle") /\ child' = [child EXCEPT ![c] = k]
  PROVE  CallsInv'
<1>1. TypedInv(call[c], typed[c]) /\ ToolInv(child[c], call[c].pc)
  BY Busy
<1>2. PICK k : ToolInv(k, "idle") /\ child' = [child EXCEPT ![c] = k]
  <2>1. CASE call[c].pc # "wait" /\ child' = child
    <3>1. ToolInv(child[c], "idle")
      BY <1>1, <2>1 DEF ToolInv
    <3>2. child' = [child EXCEPT ![c] = child[c]]
      BY <2>1 DEF CallsInv
    <3> QED BY <3>1, <3>2
  <2> QED BY <2>1
<1>3. CallInv([NoCall EXCEPT !.result = res], typed[c], k, asked)
  BY <1>1, <1>2, IdleIs DEF TypedInv
<1>4. typed' = [typed EXCEPT ![c] = typed[c]]
  BY DEF CallsInv
<1> QED BY <1>2, <1>3, <1>4, OneCall DEF End

\* Nothing of what a busy call has typed changes with its step.
LEMMA SameLines ==
  ASSUME NEW q, NEW r, NEW t, NEW A, q.pc # "idle", r.pc # "idle",
         r.body = q.body, r.checked = q.checked, r.line = q.line,
         TypedInv(q, t), PermittedInv(q, t, A), r.pc # "type" => t = <<>>
  PROVE  TypedInv(r, t) /\ PermittedInv(r, t, A)
BY DEF TypedInv, PermittedInv

\* A step before anything is checked.
LEMMA NoLines ==
  ASSUME NEW q, NEW r, NEW t, NEW A, q.pc \notin {"idle", "check", "type"},
         r.checked = <<>>, BusyCall(q), TypedInv(q, t), r.pc # "idle"
  PROVE  TypedInv(r, t) /\ PermittedInv(r, t, A)
BY DEF TypedInv, PermittedInv, BusyCall, Increasing

\* A call that has checked nothing moves on, and starts or ends no tool.
LEMMA MoveKeeps ==
  ASSUME CallsInv, asked' = asked, NEW c \in Calls,
         call[c].pc \notin {"idle", "check", "type", "wait"}, NEW r, BusyCall(r),
         r.checked = <<>>, r.pc # "wait", call' = [call EXCEPT ![c] = r],
         typed' = typed, child' = child
  PROVE  CallsInv'
<1>1. /\ BusyCall(call[c]) /\ TypedInv(call[c], typed[c]) /\ ToolInv(child[c], call[c].pc)
  BY Busy
<1>2. r.pc # "idle"
  BY DEF BusyCall
<1>3. TypedInv(r, typed[c]) /\ PermittedInv(r, typed[c], asked)
  BY <1>1, <1>2, NoLines
<1>4. ToolInv(child[c], r.pc)
  BY <1>1 DEF ToolInv
<1>5. CallInv(r, typed[c], child[c], asked)
  BY <1>3, <1>4 DEF CallInv
<1> QED BY <1>5, OnlyCall

LEMMA BeginKeeps ==
  ASSUME RestInv, asked' = asked, NEW c \in Calls, NEW d \in Drafts,
         NEW op \in {"save", "push", "delete"}, NEW f, NEW b \in CleanBodies \cup {NoBody},
         NEW pc \in {"body", "get"}, op # "delete" => f \in Formats,
         pc = "body" => b \in CleanBodies /\ op # "delete",
         pc = "get" => op \in {"push", "delete"}, Begin(c, op, d, f, b, pc)
  PROVE  RestInv'
<1> DEFINE r == [pc |-> pc, result |-> "none", op |-> op, draft |-> d, want |-> f,
                 format |-> f, body |-> b, line |-> 0, checked |-> <<>>, login |-> "none",
                 key |-> FALSE]
<1>1. /\ call' = [call EXCEPT ![c] = r] /\ typed' = [typed EXCEPT ![c] = <<>>]
      /\ child' = child /\ child[c].state = "none" /\ ~At(c, "unlist")
  BY DEF Begin, At
<1>2. BusyCall(r) /\ r.pc \in {"body", "get"} /\ r.checked = <<>>
  BY DEF BusyCall, Steps
<1> HIDE DEF r
<1>3. TypedInv(r, <<>>) /\ PermittedInv(r, <<>>, asked)
  BY <1>2 DEF TypedInv, PermittedInv, Increasing
<1>4. ToolInv(child[c], r.pc)
  BY <1>1, <1>2 DEF RestInv, CallsInv, CallInv, ToolInv
<1>5. CallInv(r, <<>>, child[c], asked) /\ child' = [child EXCEPT ![c] = child[c]]
  BY <1>1, <1>2, <1>3, <1>4 DEF CallInv, RestInv, CallsInv
<1>6. CallsInv'
  BY <1>1, <1>5, OneCall DEF RestInv
<1>7. FilesInv'
  BY <1>1, <1>2, FilesStay DEF RestInv, Begin
<1>8. TerminalInv'
  BY DEF Begin, RestInv, TerminalInv
<1> QED BY <1>6, <1>7, <1>8 DEF RestInv

LEMMA SaveBodyKeeps ==
  ASSUME RestInv, asked' = asked, NEW c \in Calls, SaveBody(c) PROVE RestInv'
<1> DEFINE q == call[c]
           r == Moved(q, "meta", q.op, q.format, q.body, q.line, q.checked, q.login, q.key)
<1>1. q.pc = "body"
  BY DEF SaveBody, At
<1>2. BusyCall(q)
  BY <1>1, Busy DEF RestInv
<1>3. call' = [call EXCEPT ![c] = r]
  <2>1. [q EXCEPT !.pc = "meta"] = r
    BY <1>2, GotoIs
  <2> QED BY <2>1 DEF SaveBody, Goto
<1>4. /\ q.checked = <<>> /\ q.draft \in Drafts /\ q.format \in Formats
      /\ q.body \in CleanBodies /\ q.op # "delete"
  BY <1>1, <1>2 DEF BusyCall
<1>5. BusyCall(r) /\ r.pc = "meta" /\ r.checked = <<>> /\ r.draft = q.draft /\ r.format = q.format
  <2> HIDE DEF q
  <2>1. IsMoved(r, q, "meta", q.op, q.format, q.body, q.line, q.checked, q.login, q.key)
    BY MovedFields
  <2> HIDE DEF r
  <2> QED BY <1>1, <1>2, <1>4, <2>1 DEF IsMoved, BusyCall, Steps
<1> HIDE DEF r
<1>6. CallsInv'
  BY <1>1, <1>3, <1>5, MoveKeeps DEF RestInv, SaveBody
<1>7. bodies' = [bodies EXCEPT ![q.draft][q.format] = q.body] /\ meta' = meta /\ raced' = raced
  BY DEF SaveBody
<1>8. /\ bodies' \in [Drafts -> [Formats -> CleanBodies \cup {NoBody}]]
      /\ bodies'[q.draft][q.format] # NoBody
      /\ \A d \in Drafts, f \in Formats : bodies[d][f] # NoBody => bodies'[d][f] # NoBody
  <2>1. q.body # NoBody
    BY <1>4, PushAssumption DEF CleanBodies
  <2>2. bodies \in [Drafts -> [Formats -> CleanBodies \cup {NoBody}]]
    BY DEF RestInv, FilesInv
  <2> HIDE DEF q
  <2> QED BY <1>4, <1>7, <2>1, <2>2
<1>9. FilesInv'
  <2>1. call'[c] = r /\ \A d \in Calls \ {c} : call'[d] = call[d]
    BY <1>3 DEF RestInv, CallsInv
  <2>2. ASSUME NEW e \in Calls, call'[e].pc = "meta"
        PROVE  bodies'[call'[e].draft][call'[e].format] # NoBody \/ call'[e].draft \in raced
    <3>1. CASE e = c
      BY <1>5, <1>8, <2>1, <3>1
    <3>2. CASE e # c
      <4>1. call'[e] = call[e] /\ call[e].pc = "meta"
        BY <2>1, <2>2, <3>2
      <4>2. call[e].draft \in Drafts /\ call[e].format \in Formats
        BY <4>1, Busy DEF RestInv, BusyCall
      <4> QED BY <1>8, <4>1, <4>2 DEF RestInv, FilesInv, At
    <3> QED BY <3>1, <3>2
  <2>3. ListedIsReadable'
    <3> SUFFICES ASSUME NEW d \in Drafts, meta[d] # NoFormat, bodies'[d][meta[d]] = NoBody
                 PROVE  d \in raced \/ \E e \in Calls : call'[e].pc = "unlist" /\ call'[e].draft = d
      BY <1>7 DEF ListedIsReadable, At
    <3>1. meta[d] \in Formats /\ bodies[d][meta[d]] = NoBody
      BY <1>8 DEF RestInv, FilesInv
    <3>2. d \in raced \/ \E e \in Calls : call[e].pc = "unlist" /\ call[e].draft = d
      BY <3>1 DEF RestInv, FilesInv, ListedIsReadable, At
    <3> QED BY <1>1, <2>1, <3>2
  <2> QED BY <1>7, <1>8, <2>2, <2>3 DEF RestInv, FilesInv, At
<1>10. TerminalInv'
  BY DEF SaveBody, RestInv, TerminalInv
<1> QED BY <1>6, <1>9, <1>10 DEF RestInv

\* A step that only turns the call, before it has checked anything.
LEMMA TurnKeeps ==
  ASSUME RestInv, asked' = asked, NEW c \in Calls, Only(c),
         call[c].pc \notin {"idle", "check", "type", "wait", "unlist"}, NEW r, BusyCall(r),
         r.checked = <<>>, r.pc \notin {"wait", "meta"}, call' = [call EXCEPT ![c] = r]
  PROVE  RestInv'
<1>1. CallsInv'
  BY MoveKeeps DEF RestInv, Only
<1>2. FilesInv'
  BY FilesStay DEF RestInv, Only, At
<1> QED BY <1>1, <1>2 DEF RestInv, Only, TerminalInv

\* A step that only ends the call.
LEMMA EndTurnKeeps ==
  ASSUME RestInv, asked' = asked, NEW c \in Calls, call[c].pc \notin {"idle", "wait", "unlist"},
         NEW res \in {"none", "ok", "error", "denied", "timeout"},
         res = "denied" => typed[c] = <<>>, End(c, res), Only(c)
  PROVE  RestInv'
<1>1. CallsInv'
  BY EndKeeps DEF RestInv, Only
<1>2. [NoCall EXCEPT !.result = res].pc = "idle"
  BY DEF NoCall
<1>3. FilesInv'
  BY <1>2, FilesStay DEF RestInv, Only, At, End
<1> QED BY <1>1, <1>3 DEF RestInv, Only, TerminalInv

LEMMA GotoKeeps ==
  ASSUME RestInv, asked' = asked, NEW c \in Calls,
         NEW pc \in Steps \ {"idle", "get", "wait", "meta"},
         call[c].pc \notin {"idle", "get", "read", "remove", "check", "type", "wait", "unlist"},
         pc \notin {"read", "spawn"}, Goto(c, pc), Only(c)
  PROVE  RestInv'
<1>0. PICK q : q = call[c]
  OBVIOUS
<1> DEFINE r == Moved(q, pc, q.op, q.format, q.body, q.line, q.checked, q.login, q.key)
<1>1. BusyCall(q)
  BY <1>0, Busy DEF RestInv
<1>2. call' = [call EXCEPT ![c] = r]
  <2>1. [q EXCEPT !.pc = pc] = r
    BY <1>1, GotoIs
  <2> QED BY <1>0, <2>1 DEF Goto
<1>3. BusyCall(r) /\ r.pc = pc /\ r.checked = <<>>
  <2>1. IsMoved(r, q, pc, q.op, q.format, q.body, q.line, q.checked, q.login, q.key)
    BY MovedFields
  <2> HIDE DEF r
  <2> QED BY <1>0, <1>1, <2>1 DEF IsMoved, BusyCall
<1> HIDE DEF r
<1> QED BY <1>2, <1>3, TurnKeeps

LEMMA SaveFailsKeeps ==
  ASSUME RestInv, asked' = asked, NEW c \in Calls, SaveFails(c) PROVE RestInv'
BY EndTurnKeeps DEF SaveFails, At

LEMMA ToolMissingKeeps ==
  ASSUME RestInv, asked' = asked, NEW c \in Calls, ToolMissing(c) \/ SpawnFails(c) PROVE RestInv'
BY EndTurnKeeps DEF ToolMissing, SpawnFails, At

LEMMA TypedAllKeeps ==
  ASSUME RestInv, asked' = asked, NEW c \in Calls, TypedAll(c) PROVE RestInv'
BY EndTurnKeeps DEF TypedAll, At

LEMMA StartCliKeeps ==
  ASSUME RestInv, asked' = asked, NEW c \in Calls, StartCli(c) PROVE RestInv'
<1>1. CASE sess.open
  BY <1>1, GotoKeeps DEF StartCli, At, Steps
<1>2. CASE ~sess.open
  BY <1>2, EndTurnKeeps DEF StartCli, At
<1> QED BY <1>1, <1>2

LEMMA NoTargetKeeps ==
  ASSUME RestInv, asked' = asked, NEW c \in Calls, NoTarget(c) PROVE RestInv'
<1>1. CASE call[c].format \notin NeedsTarget
  BY <1>1, GotoKeeps DEF NoTarget, At, Steps
<1>2. CASE call[c].format \in NeedsTarget
  BY <1>2, EndTurnKeeps DEF NoTarget, At
<1> QED BY <1>1, <1>2

LEMMA TargetKeeps ==
  ASSUME RestInv, asked' = asked, NEW c \in Calls, NEW login, Target(c, login) PROVE RestInv'
<1>0. PICK q : q = call[c]
  OBVIOUS
<1> DEFINE r == Moved(q, "plan", q.op, q.format, q.body, q.line, q.checked, login, q.key)
<1>1. BusyCall(q) /\ q.pc = "start"
  BY <1>0, Busy DEF RestInv, Target, At
<1>2. call' = [call EXCEPT ![c] = r]
  <2> DEFINE m == Moved(q, "plan", q.op, q.format, q.body, q.line, q.checked, q.login, q.key)
  <2>0. [q EXCEPT !.pc = "plan"] = m
    BY <1>1, GotoIs
  <2>1. [m EXCEPT !.login = login] = r
    BY DEF Moved
  <2> HIDE DEF m, r
  <2>2. call' = [call EXCEPT ![c] = [[q EXCEPT !.pc = "plan"] EXCEPT !.login = login]]
    BY <1>0 DEF Target, RestInv, CallsInv
  <2> QED BY <2>0, <2>1, <2>2
<1>3. BusyCall(r) /\ r.pc = "plan" /\ r.checked = <<>>
  <2>1. IsMoved(r, q, "plan", q.op, q.format, q.body, q.line, q.checked, login, q.key)
    BY MovedFields
  <2> HIDE DEF r
  <2> QED BY <1>1, <2>1 DEF IsMoved, BusyCall, Steps
<1> HIDE DEF r
<1> QED BY <1>0, <1>1, <1>2, <1>3, TurnKeeps DEF Target

LEMMA PlanKeeps ==
  ASSUME RestInv, asked' = asked, NEW c \in Calls, Plan(c) PROVE RestInv'
<1>0. PICK q : q = call[c]
  OBVIOUS
<1>1. BusyCall(q) /\ q.pc = "plan"
  BY <1>0, Busy DEF RestInv, Plan, At
<1>2. CASE (q.login = "password" /\ ~vault) \/ q.body.secret
  BY <1>0, <1>2, EndTurnKeeps DEF Plan, At
<1>3. CASE ~((q.login = "password" /\ ~vault) \/ q.body.secret)
  <2> DEFINE m == Moved(q, "spawn", q.op, q.format, q.body, q.line, q.checked, q.login, q.key)
             r == Moved(q, "spawn", q.op, q.format, q.body, q.line, q.checked, q.login, vault)
  <2>1. call' = [call EXCEPT ![c] = r]
    <3>1. [q EXCEPT !.pc = "spawn"] = m
      BY <1>1, GotoIs
    <3>2. [m EXCEPT !.key = vault] = r
      BY DEF Moved
    <3> HIDE DEF m, r
    <3>3. call' = [call EXCEPT ![c] = [[q EXCEPT !.pc = "spawn"] EXCEPT !.key = vault]]
      BY <1>0, <1>3 DEF Plan, RestInv, CallsInv
    <3> QED BY <3>1, <3>2, <3>3
  <2>2. IsMoved(r, q, "spawn", q.op, q.format, q.body, q.line, q.checked, q.login, vault)
    BY MovedFields
  <2> HIDE DEF r
  <2>3. q.login = "password" => vault = TRUE
    BY <1>3 DEF RestInv, TerminalInv
  <2>4. BusyCall(r) /\ r.pc = "spawn" /\ r.checked = <<>>
    BY <1>1, <2>2, <2>3 DEF IsMoved, BusyCall, Steps
  <2>5. Only(c)
    BY <1>0, <1>3 DEF Plan
  <2> QED BY <1>0, <1>1, <2>1, <2>4, <2>5, TurnKeeps
<1> QED BY <1>2, <1>3

LEMMA ReadMetaKeeps ==
  ASSUME RestInv, asked' = asked, NEW c \in Calls, ReadMeta(c) PROVE RestInv'
<1>0. PICK q : q = call[c]
  OBVIOUS
<1>1. BusyCall(q) /\ q.pc = "get" /\ q.draft \in Drafts
  BY <1>0, Busy DEF RestInv, ReadMeta, At, BusyCall
<1>2. CASE meta[q.draft] = NoFormat
  BY <1>0, <1>2, EndTurnKeeps DEF ReadMeta, At
<1>3. CASE meta[q.draft] # NoFormat
  <2>0. PICK f \in Formats : f = meta[q.draft]
    BY <1>1, <1>3 DEF RestInv, FilesInv
  <2> DEFINE m == Moved(q, "read", q.op, q.format, q.body, q.line, q.checked, q.login, q.key)
             r == Moved(q, "read", q.op, f, q.body, q.line, q.checked, q.login, q.key)
  <2>1. call' = [call EXCEPT ![c] = r]
    <3>1. [q EXCEPT !.pc = "read"] = m
      BY <1>1, GotoIs
    <3>2. [m EXCEPT !.format = f] = r
      BY DEF Moved
    <3> HIDE DEF m, r
    <3>3. call' = [call EXCEPT ![c] = [[q EXCEPT !.pc = "read"] EXCEPT !.format = f]]
      BY <1>0, <1>3, <2>0 DEF ReadMeta, RestInv, CallsInv
    <3> QED BY <3>1, <3>2, <3>3
  <2>2. IsMoved(r, q, "read", q.op, f, q.body, q.line, q.checked, q.login, q.key)
    BY MovedFields
  <2> HIDE DEF r
  <2>3. BusyCall(r) /\ r.pc = "read" /\ r.checked = <<>>
    BY <1>1, <2>0, <2>2 DEF IsMoved, BusyCall, Steps
  <2> QED BY <1>0, <1>1, <2>1, <2>3, TurnKeeps DEF ReadMeta
<1> QED BY <1>2, <1>3

LEMMA ReadBodyKeeps ==
  ASSUME RestInv, asked' = asked, NEW c \in Calls, ReadBody(c) PROVE RestInv'
<1>0. PICK q : q = call[c]
  OBVIOUS
<1>1. BusyCall(q) /\ q.pc = "read" /\ q.draft \in Drafts /\ q.format \in Formats
  BY <1>0, Busy DEF RestInv, ReadBody, At, BusyCall
<1>2. PICK b \in CleanBodies \cup {NoBody} : b = bodies[q.draft][q.format]
  BY <1>1 DEF RestInv, FilesInv
<1>3. CASE b = NoBody
  BY <1>0, <1>2, <1>3, EndTurnKeeps DEF ReadBody, At
<1>4. CASE b # NoBody
  <2>0. PICK pc \in {"prepare", "remove"} : pc = IF q.op = "push" THEN "prepare" ELSE "remove"
    OBVIOUS
  <2> DEFINE m == Moved(q, pc, q.op, q.format, q.body, q.line, q.checked, q.login, q.key)
             r == Moved(q, pc, q.op, q.format, b, q.line, q.checked, q.login, q.key)
  <2>1. call' = [call EXCEPT ![c] = r]
    <3>1. [q EXCEPT !.pc = pc] = m
      BY <1>1, GotoIs
    <3>2. [m EXCEPT !.body = b] = r
      BY DEF Moved
    <3> HIDE DEF m, r
    <3>3. call' = [call EXCEPT ![c] = [[q EXCEPT !.pc = pc] EXCEPT !.body = b]]
      <4>1. call' = [call EXCEPT ![c].body = b, ![c].pc = pc]
        BY <1>0, <1>2, <1>4, <2>0 DEF ReadBody, RestInv, CallsInv
      <4>2. call' = [call EXCEPT ![c] = [[q EXCEPT !.body = b] EXCEPT !.pc = pc]]
        BY <1>0, <4>1 DEF RestInv, CallsInv
      <4>3. [[q EXCEPT !.body = b] EXCEPT !.pc = pc] = [[q EXCEPT !.pc = pc] EXCEPT !.body = b]
        OBVIOUS
      <4> QED BY <4>2, <4>3
    <3> QED BY <3>1, <3>2, <3>3
  <2>2. IsMoved(r, q, pc, q.op, q.format, b, q.line, q.checked, q.login, q.key)
    BY MovedFields
  <2> HIDE DEF r
  <2>3. BusyCall(r) /\ r.pc \in {"prepare", "remove"} /\ r.checked = <<>>
    BY <1>1, <1>2, <1>4, <2>0, <2>2 DEF IsMoved, BusyCall, Steps
  <2> QED BY <1>0, <1>1, <2>1, <2>3, TurnKeeps DEF ReadBody
<1> QED BY <1>3, <1>4

LEMMA PrepareKeeps ==
  ASSUME RestInv, asked' = asked, NEW c \in Calls, Prepare(c) PROVE RestInv'
<1>0. PICK q : q = call[c]
  OBVIOUS
<1>1. /\ BusyCall(q) /\ q.pc = "prepare" /\ q.body \in CleanBodies /\ q.op # "delete"
      /\ q.want \in Formats
  BY <1>0, Busy DEF RestInv, Prepare, At, BusyCall
<1>2. CASE ~q.body.holes
  BY <1>0, <1>2, GotoKeeps DEF Prepare, At, Steps
<1>3. CASE q.body.holes
  <2>0. PICK b \in {q.body, Filled[q.body]} :
          call' = [call EXCEPT ![c].pc = "body", ![c].op = "again", ![c].body = b,
                               ![c].format = q.want]
    BY <1>0, <1>3 DEF Prepare
  <2>1. b \in CleanBodies
    <3>1. q.body \in Bodies
      BY <1>1, <1>3, PushAssumption DEF CleanBodies, Range
    <3>2. Filled[q.body] \in Range(Filled)
      BY <3>1, PushAssumption DEF Range
    <3> QED BY <1>1, <3>1, <3>2, PushAssumption DEF CleanBodies
  <2> DEFINE m == Moved(q, "body", q.op, q.format, q.body, q.line, q.checked, q.login, q.key)
             n == Moved(q, "body", "again", q.format, q.body, q.line, q.checked, q.login, q.key)
             o == Moved(q, "body", "again", q.format, b, q.line, q.checked, q.login, q.key)
             r == Moved(q, "body", "again", q.want, b, q.line, q.checked, q.login, q.key)
  <2>2. call' = [call EXCEPT ![c] = r]
    <3>1. [q EXCEPT !.pc = "body"] = m
      BY <1>1, GotoIs
    <3>2. [m EXCEPT !.op = "again"] = n
      BY DEF Moved
    <3>3. [n EXCEPT !.body = b] = o
      BY DEF Moved
    <3>4. [o EXCEPT !.format = q.want] = r
      BY DEF Moved
    <3> HIDE DEF m, n, o, r
    <3>5. call' = [call EXCEPT ![c] = [[[[q EXCEPT !.pc = "body"] EXCEPT !.op = "again"]
                                        EXCEPT !.body = b] EXCEPT !.format = q.want]]
      BY <1>0, <2>0 DEF RestInv, CallsInv
    <3> QED BY <3>1, <3>2, <3>3, <3>4, <3>5
  <2>3. IsMoved(r, q, "body", "again", q.want, b, q.line, q.checked, q.login, q.key)
    BY MovedFields
  <2> HIDE DEF r
  <2>4. BusyCall(r) /\ r.pc = "body" /\ r.checked = <<>>
    BY <1>1, <2>1, <2>3 DEF IsMoved, BusyCall, Steps
  <2> QED BY <1>0, <1>1, <2>2, <2>4, TurnKeeps DEF Prepare
<1> QED BY <1>2, <1>3

---------------------------------------------------------------------------
(* What a save, a delete or the daemon's end do to the files.              *)

LEMMA SaveMetaKeeps ==
  ASSUME RestInv, asked' = asked, NEW c \in Calls, SaveMeta(c) PROVE RestInv'
<1>0. PICK q : q = call[c]
  OBVIOUS
<1>1. /\ BusyCall(q) /\ q.pc = "meta" /\ q.op \in {"save", "push", "again"}
      /\ q.format \in Formats /\ q.draft \in Drafts
  BY <1>0, Busy DEF RestInv, SaveMeta, At, BusyCall
<1>2. /\ meta' = [meta EXCEPT ![q.draft] = q.format]
      /\ bodies' = bodies /\ raced' = raced /\ sess' = sess /\ typed' = typed /\ vault' = vault
      /\ child' = child
  BY <1>0 DEF SaveMeta
<1>3. /\ CallsInv' /\ call'[c].pc \notin {"meta", "unlist"}
      /\ \A d \in Calls \ {c} : call'[d] = call[d]
  <2>1. CASE q.op = "save"
    <3>1. End(c, "ok")
      BY <1>0, <2>1 DEF SaveMeta
    <3>2. CallsInv'
      BY <1>0, <1>1, <1>2, <3>1, EndKeeps DEF RestInv
    <3>3. call'[c] = [NoCall EXCEPT !.result = "ok"] /\ [NoCall EXCEPT !.result = "ok"].pc = "idle"
      BY <3>1 DEF End, NoCall, RestInv, CallsInv
    <3> QED BY <3>1, <3>2, <3>3 DEF End, RestInv, CallsInv
  <2>2. CASE q.op # "save"
    <3>0. PICK pc \in {"prepare", "start"} : Goto(c, pc)
      BY <1>0, <1>1, <2>2 DEF SaveMeta
    <3> DEFINE r == Moved(q, pc, q.op, q.format, q.body, q.line, q.checked, q.login, q.key)
    <3>1. call' = [call EXCEPT ![c] = r]
      <4>1. [q EXCEPT !.pc = pc] = r
        BY <1>1, GotoIs
      <4> QED BY <1>0, <3>0, <4>1 DEF Goto
    <3>2. IsMoved(r, q, pc, q.op, q.format, q.body, q.line, q.checked, q.login, q.key)
      BY MovedFields
    <3> HIDE DEF r
    <3>3. BusyCall(r) /\ r.pc = pc /\ r.checked = <<>>
      BY <1>1, <3>0, <3>2 DEF IsMoved, BusyCall, Steps
    <3>4. CallsInv'
      BY <1>0, <1>1, <1>2, <3>1, <3>3, MoveKeeps DEF RestInv
    <3> QED BY <3>1, <3>3, <3>4 DEF RestInv, CallsInv
  <2> QED BY <2>1, <2>2
<1>4. FilesInv'
  <2>1. meta' \in [Drafts -> Formats \cup {NoFormat}]
    BY <1>1, <1>2 DEF RestInv, FilesInv
  <2>2. ASSUME NEW d \in Calls, At(d, "meta")'
        PROVE  bodies[call'[d].draft][call'[d].format] # NoBody \/ call'[d].draft \in raced
    BY <1>3, <2>2 DEF RestInv, FilesInv, At
  <2>3. ListedIsReadable'
    <3> SUFFICES ASSUME NEW d \in Drafts, meta'[d] # NoFormat, bodies[d][meta'[d]] = NoBody
                 PROVE  d \in raced \/ \E e \in Calls : call'[e].pc = "unlist" /\ call'[e].draft = d
      BY <1>2 DEF ListedIsReadable, At
    <3>1. CASE d = q.draft
      <4>1. meta'[d] = q.format
        BY <1>2, <3>1 DEF RestInv, FilesInv
      <4> QED BY <1>0, <1>1, <3>1, <4>1 DEF RestInv, FilesInv, At
    <3>2. CASE d # q.draft
      <4>1. meta'[d] = meta[d]
        BY <1>2, <3>2 DEF RestInv, FilesInv
      <4>2. d \in raced \/ \E e \in Calls : call[e].pc = "unlist" /\ call[e].draft = d
        BY <4>1 DEF RestInv, FilesInv, ListedIsReadable, At
      <4> QED BY <1>0, <1>1, <1>3, <4>2
    <3> QED BY <3>1, <3>2
  <2> QED BY <1>2, <2>1, <2>2, <2>3 DEF RestInv, FilesInv, At
<1>5. TerminalInv'
  BY <1>2 DEF RestInv, TerminalInv
<1> QED BY <1>3, <1>4, <1>5 DEF RestInv

LEMMA RemoveBodyKeeps ==
  ASSUME RestInv, asked' = asked, NEW c \in Calls, RemoveBody(c) PROVE RestInv'
<1>0. PICK q : q = call[c]
  OBVIOUS
<1>1. /\ BusyCall(q) /\ q.pc = "remove" /\ q.format \in Formats /\ q.draft \in Drafts
  BY <1>0, Busy DEF RestInv, RemoveBody, At, BusyCall
<1>2. /\ meta' = meta /\ sess' = sess /\ typed' = typed /\ vault' = vault /\ child' = child
      /\ calls' = calls
  BY DEF RemoveBody
<1>3. CASE bodies[q.draft][q.format] = NoBody
  <2>1. End(c, "error") /\ bodies' = bodies /\ raced' = raced
    BY <1>0, <1>3 DEF RemoveBody
  <2> QED BY <1>0, <1>1, <1>2, <2>1, EndTurnKeeps DEF Only
<1>4. CASE bodies[q.draft][q.format] # NoBody
  <2>0. /\ bodies' = [bodies EXCEPT ![q.draft][q.format] = NoBody]
        /\ raced' = IF Saving(q.draft) # {} THEN raced \cup {q.draft} ELSE raced
        /\ Goto(c, "unlist")
    BY <1>0, <1>4 DEF RemoveBody
  <2> DEFINE r == Moved(q, "unlist", q.op, q.format, q.body, q.line, q.checked, q.login, q.key)
  <2>1. call' = [call EXCEPT ![c] = r]
    <3>1. [q EXCEPT !.pc = "unlist"] = r
      BY <1>1, GotoIs
    <3> QED BY <1>0, <2>0, <3>1 DEF Goto
  <2>2. IsMoved(r, q, "unlist", q.op, q.format, q.body, q.line, q.checked, q.login, q.key)
    BY MovedFields
  <2> HIDE DEF r
  <2>3. BusyCall(r) /\ r.pc = "unlist" /\ r.checked = <<>> /\ r.draft = q.draft
    BY <1>1, <2>2 DEF IsMoved, BusyCall, Steps
  <2>4. CallsInv'
    BY <1>0, <1>1, <1>2, <2>1, <2>3, MoveKeeps DEF RestInv
  <2>5. call'[c] = r /\ \A d \in Calls \ {c} : call'[d] = call[d]
    BY <2>1 DEF RestInv, CallsInv
  <2>6. /\ bodies' \in [Drafts -> [Formats -> CleanBodies \cup {NoBody}]]
        /\ \A d \in Drafts \ {q.draft} : bodies'[d] = bodies[d]
    BY <1>1, <2>0 DEF RestInv, FilesInv
  <2>7. raced \subseteq raced'
    BY <2>0
  <2>8. ASSUME NEW d \in Calls, At(d, "meta")'
        PROVE  bodies'[call'[d].draft][call'[d].format] # NoBody \/ call'[d].draft \in raced'
    <3>1. d # c /\ call'[d] = call[d] /\ call[d].pc = "meta"
      BY <2>3, <2>5, <2>8 DEF At
    <3>2. call[d].draft \in Drafts
      BY <3>1, Busy DEF RestInv, BusyCall
    <3>3. CASE call[d].draft = q.draft
      <4>1. d \in Saving(q.draft)
        BY <3>1, <3>3 DEF Saving
      <4> QED BY <2>0, <3>1, <3>3, <4>1
    <3>4. CASE call[d].draft # q.draft
      <4>1. bodies'[call[d].draft] = bodies[call[d].draft]
        BY <2>6, <3>2, <3>4
      <4>2. bodies[call[d].draft][call[d].format] # NoBody \/ call[d].draft \in raced
        BY <3>1 DEF RestInv, FilesInv, At
      <4> QED BY <2>7, <3>1, <4>1, <4>2
    <3> QED BY <3>3, <3>4
  <2>9. ListedIsReadable'
    <3> SUFFICES ASSUME NEW d \in Drafts, meta[d] # NoFormat, bodies'[d][meta[d]] = NoBody
                 PROVE  \/ d \in raced'
                        \/ \E e \in Calls : call'[e].pc = "unlist" /\ call'[e].draft = d
      BY <1>2 DEF ListedIsReadable, At
    <3>1. CASE d = q.draft
      BY <2>3, <2>5, <3>1
    <3>2. CASE d # q.draft
      <4>1. d \in raced \/ \E e \in Calls : call[e].pc = "unlist" /\ call[e].draft = d
        BY <2>6, <3>2 DEF RestInv, FilesInv, ListedIsReadable, At
      <4> QED BY <1>0, <1>1, <2>5, <2>7, <4>1
    <3> QED BY <3>1, <3>2
  <2>10. FilesInv'
    BY <1>2, <2>6, <2>8, <2>9 DEF RestInv, FilesInv
  <2> QED BY <1>2, <2>4, <2>10 DEF RestInv, TerminalInv
<1> QED BY <1>3, <1>4

LEMMA RemoveMetaKeeps ==
  ASSUME RestInv, asked' = asked, NEW c \in Calls, RemoveMeta(c) PROVE RestInv'
<1>0. PICK q : q = call[c]
  OBVIOUS
<1>1. BusyCall(q) /\ q.pc = "unlist" /\ q.draft \in Drafts
  BY <1>0, Busy DEF RestInv, RemoveMeta, At, BusyCall
<1>2. /\ meta' = [meta EXCEPT ![q.draft] = NoFormat] /\ bodies' = bodies
      /\ raced \subseteq raced' /\ sess' = sess /\ typed' = typed /\ vault' = vault
      /\ child' = child /\ End(c, "ok")
  BY <1>0 DEF RemoveMeta
<1>3. CallsInv'
  BY <1>0, <1>1, <1>2, EndKeeps DEF RestInv
<1>4. call'[c].pc = "idle" /\ \A d \in Calls \ {c} : call'[d] = call[d]
  <2>1. [NoCall EXCEPT !.result = "ok"].pc = "idle"
    BY DEF NoCall
  <2> QED BY <1>2, <2>1 DEF End, RestInv, CallsInv
<1>5. meta' \in [Drafts -> Formats \cup {NoFormat}]
  BY <1>2 DEF RestInv, FilesInv
<1>6. ASSUME NEW d \in Calls, At(d, "meta")'
      PROVE  bodies'[call'[d].draft][call'[d].format] # NoBody \/ call'[d].draft \in raced'
  BY <1>2, <1>4, <1>6 DEF RestInv, FilesInv, At
<1>7. ListedIsReadable'
  <2> SUFFICES ASSUME NEW d \in Drafts, meta'[d] # NoFormat, bodies[d][meta'[d]] = NoBody
               PROVE  d \in raced' \/ \E e \in Calls : call'[e].pc = "unlist" /\ call'[e].draft = d
    BY <1>2 DEF ListedIsReadable, At
  <2>1. d # q.draft /\ meta'[d] = meta[d]
    BY <1>2 DEF RestInv, FilesInv
  <2>2. d \in raced \/ \E e \in Calls : call[e].pc = "unlist" /\ call[e].draft = d
    BY <2>1 DEF RestInv, FilesInv, ListedIsReadable, At
  <2> QED BY <1>0, <1>2, <1>4, <2>1, <2>2
<1>8. FilesInv'
  BY <1>2, <1>5, <1>6, <1>7 DEF RestInv, FilesInv
<1> QED BY <1>2, <1>3, <1>8 DEF RestInv, TerminalInv

---------------------------------------------------------------------------
(* The lines of a push.                                                    *)

\* Files do not change with the lines.
LEMMA LinesLeaveFiles ==
  ASSUME RestInv, NEW c \in Calls, call[c].pc \in {"check", "type", "plan", "spawn", "wait"},
         NEW r, r.pc \notin {"meta", "unlist"}, call' = [call EXCEPT ![c] = r],
         meta' = meta, bodies' = bodies, raced' = raced
  PROVE  FilesInv'
BY FilesStay DEF RestInv, At

LEMMA TerminalHears ==
  ASSUME TerminalInv, NEW v \in {"generic", BannerVendor}, vault' = vault,
         sess' = [sess EXCEPT !.vendor = v]
  PROVE  TerminalInv'
<1>1. sess' = [open |-> sess.open, vendor |-> v, text |-> sess.text, queue |-> sess.queue]
  BY DEF TerminalInv
<1> QED BY <1>1 DEF TerminalInv

\* A line of which the vendor's policy says that it is allowed is permitted.
LEMMA VerdictPermits ==
  ASSUME PolicyInv, TerminalInv, NEW line, Verdict(line).allowed
  PROVE  Permitted(line, asked)
<1>0. PICK v \in {"generic", BannerVendor} : v = Infer
  BY DEF Infer, TerminalInv
<1>1. Check(PolicyOf(v), Builtin[v], line).allowed
  BY <1>0 DEF Verdict
<1>2. CASE v \in Edited
  <2>1. Check(engine[v], Builtin[v], line).allowed
    BY <1>1, <1>2 DEF PolicyOf
  <2>2. KeptFor(engine[v], v, asked[v])
    BY <1>2 DEF PolicyInv, EngineKept, KeptIn
  <2>3. Check(LenientTo(v, asked[v]), Builtin[v], line).allowed
    BY <1>2, <2>1, <2>2, EditedAreVendors, LenientAllows
  <2> QED BY <1>2, <2>3 DEF Permitted, LenientIn
<1>3. CASE v \notin Edited
  BY <1>1, <1>3 DEF Permitted, LenientIn, PolicyOf
<1> QED BY <1>2, <1>3

\* A line that was checked joins those to be typed, or is skipped.
LEMMA CheckedOne ==
  ASSUME NEW q, NEW t, NEW A, BusyCall(q), q.pc = "check", TypedInv(q, t),
         PermittedInv(q, t, A), NEW r, r.pc = "check", r.body = q.body, r.line = q.line + 1,
         \/ r.checked = q.checked
         \/ /\ r.checked = Append(q.checked, q.line + 1)
            /\ q.body.lines[q.line + 1] # Comment /\ Permitted(q.body.lines[q.line + 1], A)
  PROVE  TypedInv(r, t) /\ PermittedInv(r, t, A)
<1> DEFINE x == q.checked
           i == q.line + 1
<1>1. /\ x \in Seq(Nat) /\ q.line \in Nat /\ i \in Nat /\ q.line < i /\ t = <<>>
      /\ \A j \in DOMAIN x : x[j] \in Nat /\ x[j] <= q.line /\ x[j] < i
  BY DEF BusyCall, TypedInv
<1>2. CASE r.checked = x
  BY <1>1, <1>2 DEF TypedInv, PermittedInv
<1>3. CASE r.checked = Append(x, i) /\ q.body.lines[i] # Comment /\ Permitted(q.body.lines[i], A)
  <2>1. /\ DOMAIN r.checked = 1..Len(x) + 1 /\ Len(x) \in Nat
        /\ r.checked[Len(x) + 1] = i
        /\ \A j \in 1..Len(x) : r.checked[j] = x[j] /\ j \in DOMAIN x
    BY <1>1, <1>3
  <2>2. \A j \in 1..Len(x) + 1 : j = Len(x) + 1 \/ j \in 1..Len(x)
    BY <2>1
  <2>3. Increasing(r.checked)
    <3> SUFFICES ASSUME NEW j \in 1..Len(x) + 1, NEW k \in 1..Len(x) + 1, j < k
                 PROVE  r.checked[j] < r.checked[k]
      BY <2>1 DEF Increasing
    <3>1. j \in 1..Len(x)
      BY <2>1
    <3>2. CASE k = Len(x) + 1
      BY <1>1, <2>1, <3>1, <3>2
    <3>3. CASE k \in 1..Len(x)
      BY <2>1, <3>1, <3>3 DEF TypedInv, Increasing
    <3> QED BY <2>2, <3>2, <3>3
  <2>4. \A j \in DOMAIN r.checked : r.checked[j] <= r.line
    BY SMTT(40), <1>1, <2>1, <2>2
  <2>5. \A j \in DOMAIN r.checked :
          q.body.lines[r.checked[j]] # Comment /\ Permitted(q.body.lines[r.checked[j]], A)
    <3>1. ASSUME NEW j \in 1..Len(x)
          PROVE  q.body.lines[x[j]] # Comment /\ Permitted(q.body.lines[x[j]], A)
      BY <2>1 DEF TypedInv, PermittedInv
    <3> QED BY <1>3, <2>1, <2>2, <3>1
  <2> HIDE DEF x, i
  <2> QED BY <1>1, <2>3, <2>4, <2>5 DEF TypedInv, PermittedInv
<1> QED BY <1>2, <1>3

\* The first of the lines to be typed is typed, or lost.
LEMMA TypedOne ==
  ASSUME NEW q, NEW t, NEW A, BusyCall(q), q.pc = "type", TypedInv(q, t),
         PermittedInv(q, t, A), q.checked # <<>>, NEW r, r.pc = "type", r.body = q.body,
         r.line = q.line, r.checked = Tail(q.checked), NEW u,
         u = t \/ u = Append(t, Head(q.checked))
  PROVE  TypedInv(r, u) /\ PermittedInv(r, u, A)
<1> DEFINE x == q.checked
           y == r.checked
<1>1. /\ x \in Seq(Nat) /\ y \in Seq(Nat) /\ t \in Seq(Nat) /\ Len(x) \in Nat /\ Len(x) >= 1
      /\ DOMAIN x = 1..Len(x) /\ DOMAIN y = 1..Len(x) - 1 /\ DOMAIN t = 1..Len(t)
      /\ Len(t) \in Nat /\ Head(x) = x[1]
      /\ \A j \in DOMAIN y : y[j] = x[j + 1]
  BY DEF BusyCall, TypedInv
<1>2. /\ Increasing(x) /\ Increasing(t)
      /\ \A i \in DOMAIN t, j \in DOMAIN x : t[i] < x[j]
      /\ \A j \in DOMAIN x : x[j] <= q.line
      /\ \A i \in DOMAIN t :
           q.body.lines[t[i]] # Comment /\ Permitted(q.body.lines[t[i]], A)
      /\ \A j \in DOMAIN x :
           q.body.lines[x[j]] # Comment /\ Permitted(q.body.lines[x[j]], A)
  BY DEF TypedInv, PermittedInv
<1> HIDE DEF x, y
<1>3. /\ \A j \in DOMAIN y : j + 1 \in DOMAIN x /\ 1 < j + 1
      /\ 1 \in DOMAIN x
  BY SMTT(40), <1>1
<1>4. /\ Increasing(y)
      /\ \A j \in DOMAIN y : y[j] <= r.line
      /\ \A j \in DOMAIN y :
           q.body.lines[y[j]] # Comment /\ Permitted(q.body.lines[y[j]], A)
      /\ \A j \in DOMAIN y : x[1] < y[j]
  <2>1. Increasing(y)
    <3> SUFFICES ASSUME NEW i \in DOMAIN y, NEW j \in DOMAIN y, i < j PROVE y[i] < y[j]
      BY DEF Increasing
    <3>1. i + 1 < j + 1
      BY <1>1
    <3> QED BY <1>1, <1>2, <1>3, <3>1 DEF Increasing
  <2>2. \A j \in DOMAIN y : x[1] < y[j]
    BY <1>1, <1>2, <1>3 DEF Increasing
  <2> QED BY <1>1, <1>2, <1>3, <2>1, <2>2
<1>5. CASE u = t
  <2>1. \A i \in DOMAIN t, j \in DOMAIN y : t[i] < y[j]
    BY <1>1, <1>2, <1>3
  <2> QED BY <1>1, <1>2, <1>4, <1>5, <2>1 DEF TypedInv, PermittedInv, y
<1>6. CASE u = Append(t, x[1])
  <2>0. x[1] \in Nat
    BY <1>1, <1>3
  <2>1. /\ u \in Seq(Nat) /\ DOMAIN u = 1..Len(t) + 1 /\ u[Len(t) + 1] = x[1]
        /\ \A i \in 1..Len(t) : u[i] = t[i]
        /\ \A i \in 1..Len(t) + 1 : i = Len(t) + 1 \/ i \in 1..Len(t)
    <3> DEFINE w == x[1]
    <3> HIDE DEF w
    <3>1. u = Append(t, w) /\ w \in Nat /\ t \in Seq(Nat)
      BY <1>1, <1>6, <2>0 DEF w
    <3>2. /\ u \in Seq(Nat) /\ DOMAIN u = 1..Len(t) + 1 /\ u[Len(t) + 1] = w
          /\ \A i \in 1..Len(t) : u[i] = t[i]
      BY <3>1
    <3>3. \A n \in Nat : \A i \in 1..n + 1 : i = n + 1 \/ i \in 1..n
      OBVIOUS
    <3> QED BY <1>1, <3>2, <3>3 DEF w
  <2>2. Increasing(u)
    <3> SUFFICES ASSUME NEW i \in DOMAIN u, NEW j \in DOMAIN u, i < j PROVE u[i] < u[j]
      BY DEF Increasing
    <3>1. i \in 1..Len(t)
      BY <1>1, <2>1
    <3>2. CASE j = Len(t) + 1
      BY <1>1, <1>2, <1>3, <2>1, <3>1, <3>2
    <3>3. CASE j \in 1..Len(t)
      BY <1>1, <1>2, <2>1, <3>1, <3>3 DEF Increasing
    <3> QED BY <2>1, <3>2, <3>3
  <2>3. \A i \in DOMAIN u, j \in DOMAIN y : u[i] < y[j]
    <3>1. \A i \in DOMAIN t, j \in DOMAIN y : t[i] < y[j]
      BY <1>1, <1>2, <1>3
    <3> QED BY <1>1, <1>4, <2>1, <3>1
  <2>4. \A i \in DOMAIN u :
          q.body.lines[u[i]] # Comment /\ Permitted(q.body.lines[u[i]], A)
    BY ZenonT(60), <1>1, <1>2, <1>3, <2>1
  <2> QED BY <1>1, <1>4, <2>1, <2>2, <2>3, <2>4 DEF TypedInv, PermittedInv, y
<1> QED BY <1>1, <1>5, <1>6 DEF x

LEMMA CheckedKeeps ==
  ASSUME RestInv, asked' = asked, NEW c \in Calls, Checked(c) PROVE RestInv'
<1>0. PICK q : q = call[c]
  OBVIOUS
<1>1. BusyCall(q) /\ q.pc = "check" /\ TypedInv(q, typed[c]) /\ PermittedInv(q, typed[c], asked)
      /\ ToolInv(child[c], q.pc)
  BY <1>0, Busy DEF RestInv, Checked, At
<1>2. CASE q.checked = <<>>
  BY <1>0, <1>2, EndTurnKeeps DEF Checked, At
<1>3. CASE q.checked # <<>>
  <2> DEFINE r == Moved(q, "type", q.op, q.format, q.body, q.line, q.checked, q.login, q.key)
  <2>1. call' = [call EXCEPT ![c] = r]
    <3>1. [q EXCEPT !.pc = "type"] = r
      BY <1>1, GotoIs
    <3> QED BY <1>0, <1>3, <3>1 DEF Checked, Goto
  <2>2. IsMoved(r, q, "type", q.op, q.format, q.body, q.line, q.checked, q.login, q.key)
    BY MovedFields
  <2> HIDE DEF r
  <2>3. BusyCall(r) /\ r.pc = "type"
    BY <1>1, <2>2 DEF IsMoved, BusyCall, Steps
  <2>4. TypedInv(r, typed[c]) /\ PermittedInv(r, typed[c], asked)
    BY <1>1, <2>2, SameLines DEF IsMoved
  <2>5. ToolInv(child[c], r.pc)
    BY <1>1, <2>3 DEF ToolInv
  <2>6. CallInv(r, typed[c], child[c], asked)
    BY <2>3, <2>4, <2>5 DEF CallInv
  <2>7. Only(c)
    BY DEF Checked
  <2>8. CallsInv'
    BY <2>1, <2>6, <2>7, OnlyCall DEF RestInv, Only
  <2>9. FilesInv'
    BY <1>0, <1>1, <2>1, <2>3, <2>7, LinesLeaveFiles DEF Only
  <2> QED BY <2>7, <2>8, <2>9 DEF RestInv, Only, TerminalInv
<1> QED BY <1>2, <1>3

LEMMA CheckLineKeeps ==
  ASSUME PushInv, asked' = asked, NEW c \in Calls, CheckLine(c) PROVE RestInv'
<1>0. PICK q, i : q = call[c] /\ i = q.line + 1
  OBVIOUS
<1>1. /\ BusyCall(q) /\ q.pc = "check" /\ TypedInv(q, typed[c])
      /\ PermittedInv(q, typed[c], asked) /\ ToolInv(child[c], q.pc)
  BY <1>0, Busy DEF PushInv, RestInv, CheckLine, At
<1>2. /\ q.line \in Nat /\ i \in Nat /\ q.checked \in Seq(Nat) /\ typed[c] = <<>>
  BY <1>0, <1>1 DEF BusyCall, TypedInv
<1>3. /\ meta' = meta /\ bodies' = bodies /\ raced' = raced /\ typed' = typed
      /\ vault' = vault /\ child' = child /\ calls' = calls
  BY DEF CheckLine
<1>4. Infer \in {"generic", BannerVendor}
  BY DEF Infer, PushInv, RestInv, TerminalInv
<1>5. TerminalInv'
  <2>1. CASE sess' = sess
    BY <1>3, <2>1 DEF PushInv, RestInv, TerminalInv
  <2>2. CASE sess' = [sess EXCEPT !.vendor = Infer]
    BY <1>3, <1>4, <2>2, TerminalHears DEF PushInv, RestInv
  <2> QED BY <2>1, <2>2 DEF CheckLine
<1>6. ASSUME NEW res \in {"error", "denied"}, End(c, res) PROVE RestInv'
  <2>1. CallsInv'
    BY <1>0, <1>1, <1>2, <1>3, <1>6, EndKeeps DEF PushInv, RestInv
  <2>2. [NoCall EXCEPT !.result = res].pc = "idle"
    BY DEF NoCall
  <2>3. FilesInv'
    BY <1>0, <1>1, <1>3, <1>6, <2>2, LinesLeaveFiles DEF PushInv, End
  <2> QED BY <1>5, <2>1, <2>3 DEF RestInv
<1>7. ASSUME NEW x \in Seq(Nat), call' = [call EXCEPT ![c] = Moved(q, "check", q.op, q.format,
                                            q.body, i, x, q.login, q.key)],
             \/ x = q.checked
             \/ /\ x = Append(q.checked, i)
                /\ q.body.lines[i] # Comment /\ Permitted(q.body.lines[i], asked)
      PROVE  RestInv'
  <2> DEFINE r == Moved(q, "check", q.op, q.format, q.body, i, x, q.login, q.key)
  <2>1. IsMoved(r, q, "check", q.op, q.format, q.body, i, x, q.login, q.key)
    BY MovedFields
  <2>2. call' = [call EXCEPT ![c] = r]
    BY <1>7
  <2> HIDE DEF r
  <2>3. BusyCall(r) /\ r.pc = "check"
    BY <1>1, <1>2, <1>7, <2>1 DEF IsMoved, BusyCall, Steps
  <2>4. TypedInv(r, typed[c]) /\ PermittedInv(r, typed[c], asked)
    BY ZenonT(60), <1>0, <1>1, <1>7, <2>1, CheckedOne DEF IsMoved
  <2>5. CallInv(r, typed[c], child[c], asked)
    BY <1>1, <2>3, <2>4 DEF CallInv
  <2>6. CallsInv'
    BY <1>3, <2>2, <2>5, OnlyCall DEF PushInv, RestInv
  <2>7. FilesInv'
    BY <1>0, <1>1, <1>3, <2>2, <2>3, LinesLeaveFiles DEF PushInv
  <2> QED BY <1>5, <2>6, <2>7 DEF RestInv
<1> DEFINE m(line, checked) ==
             Moved(q, "check", q.op, q.format, q.body, line, checked, q.login, q.key)
<1>8. [q EXCEPT !.line = i] = m(i, q.checked)
  BY SMTT(40), <1>1 DEF BusyCall, Moved
<1>9. CASE q.body.lines[i] = Comment
  <2>1. call' = [call EXCEPT ![c] = [q EXCEPT !.line = i]]
    BY <1>0, <1>9 DEF CheckLine, Lines
  <2> HIDE DEF m
  <2>2. call' = [call EXCEPT ![c] = m(i, q.checked)]
    BY <1>8, <2>1
  <2> QED BY <1>2, <1>7, <2>2 DEF m
<1>10. CASE q.body.lines[i] # Comment /\ ~sess.open
  BY <1>0, <1>6, <1>10 DEF CheckLine, Lines
<1>11. CASE q.body.lines[i] # Comment /\ sess.open /\ ~Verdict(q.body.lines[i]).allowed
  BY <1>0, <1>6, <1>11 DEF CheckLine, Lines
<1>12. CASE q.body.lines[i] # Comment /\ sess.open /\ Verdict(q.body.lines[i]).allowed
  <2>1. [m(i, q.checked) EXCEPT !.checked = Append(q.checked, i)] = m(i, Append(q.checked, i))
    BY SMTT(40) DEF Moved
  <2>2. call' = [call EXCEPT ![c].line = i, ![c].checked = Append(@, i)]
    BY <1>0, <1>12 DEF CheckLine, Lines
  <2>3. call' = [call EXCEPT ![c] = [[q EXCEPT !.line = i] EXCEPT !.checked = Append(q.checked, i)]]
    BY <1>0, <2>2 DEF PushInv, RestInv, CallsInv
  <2> HIDE DEF m
  <2>4. call' = [call EXCEPT ![c] = m(i, Append(q.checked, i))]
    BY <1>8, <2>1, <2>3
  <2>5. Append(q.checked, i) \in Seq(Nat)
    BY <1>2
  <2>6. Permitted(q.body.lines[i], asked)
    BY <1>12, VerdictPermits DEF PushInv, RestInv
  <2> QED BY <1>7, <1>12, <2>4, <2>5, <2>6 DEF m
<1> QED BY <1>9, <1>10, <1>11, <1>12

\* The record of the terminal with its queue changed.
LEMMA TerminalQueues ==
  ASSUME TerminalInv, NEW queue \in Seq(Calls), Len(queue) <= QueueCap, vault' \in BOOLEAN,
         sess' = [sess EXCEPT !.queue = queue]
  PROVE  TerminalInv'
<1>1. sess' = [open |-> sess.open, vendor |-> sess.vendor, text |-> sess.text, queue |-> queue]
  BY DEF TerminalInv
<1> QED BY <1>1 DEF TerminalInv

LEMMA TypeLineKeeps ==
  ASSUME RestInv, asked' = asked, NEW c \in Calls, TypeLine(c) PROVE RestInv'
<1>0. PICK q : q = call[c]
  OBVIOUS
<1>1. /\ BusyCall(q) /\ q.pc = "type" /\ TypedInv(q, typed[c])
      /\ PermittedInv(q, typed[c], asked) /\ ToolInv(child[c], q.pc)
      /\ q.checked # <<>> /\ q.checked \in Seq(Nat)
  BY <1>0, Busy DEF RestInv, TypeLine, At, BusyCall
<1>2. /\ meta' = meta /\ bodies' = bodies /\ raced' = raced /\ vault' = vault /\ child' = child
      /\ calls' = calls
  BY DEF TypeLine
<1>3. CASE ~sess.open
  BY <1>0, <1>1, <1>3, EndTurnKeeps DEF TypeLine, Only
<1>4. CASE sess.open
  <2> DEFINE r == Moved(q, "type", q.op, q.format, q.body, q.line, Tail(q.checked), q.login, q.key)
  <2>1. call' = [call EXCEPT ![c] = r]
    <3> DEFINE m(x) == Moved(q, "type", q.op, q.format, q.body, q.line, x, q.login, q.key)
    <3>4. ASSUME NEW x PROVE [q EXCEPT !.checked = x] = m(x)
      BY <1>1 DEF BusyCall, Moved
    <3> HIDE DEF m
    <3>5. [q EXCEPT !.checked = Tail(q.checked)] = m(Tail(q.checked))
      BY <3>4
    <3>1. [q EXCEPT !.checked = Tail(q.checked)] = r
      BY <3>5 DEF m
    <3>2. call' = [call EXCEPT ![c] = [q EXCEPT !.checked = Tail(q.checked)]]
      BY <1>0, <1>4 DEF TypeLine
    <3> HIDE DEF r
    <3> QED BY <3>1, <3>2
  <2>2. IsMoved(r, q, "type", q.op, q.format, q.body, q.line, Tail(q.checked), q.login, q.key)
    BY MovedFields
  <2> HIDE DEF r
  <2>3. BusyCall(r) /\ r.pc = "type"
    <3>1. Tail(q.checked) \in Seq(Nat)
      BY <1>1
    <3> QED BY <1>1, <2>2, <3>1 DEF IsMoved, BusyCall, Steps
  <2>4. PICK u : /\ typed' = [typed EXCEPT ![c] = u]
                 /\ u = typed[c] \/ u = Append(typed[c], Head(q.checked))
    <3>1. CASE Len(sess.queue) = QueueCap
      <4>1. typed' = [typed EXCEPT ![c] = typed[c]]
        BY <1>4, <3>1 DEF TypeLine, RestInv, CallsInv
      <4> QED BY <4>1
    <3>2. CASE Len(sess.queue) # QueueCap
      BY <1>0, <1>4, <3>2 DEF TypeLine
    <3> QED BY <3>1, <3>2
  <2>5. TypedInv(r, u) /\ PermittedInv(r, u, asked)
    BY ZenonT(60), <1>0, <1>1, <2>2, <2>4, TypedOne DEF IsMoved
  <2>6. CallInv(r, u, child[c], asked)
    BY <1>1, <2>3, <2>5 DEF CallInv
  <2>7. CallsInv'
    <3>1. child' = [child EXCEPT ![c] = child[c]]
      BY <1>2 DEF RestInv, CallsInv
    <3> QED BY <2>1, <2>4, <2>6, <3>1, OneCall DEF RestInv
  <2>8. FilesInv'
    BY <1>0, <1>1, <1>2, <2>1, <2>3, LinesLeaveFiles
  <2>9. TerminalInv'
    <3>1. CASE Len(sess.queue) = QueueCap
      BY <1>2, <1>4, <3>1 DEF TypeLine, RestInv, TerminalInv
    <3>2. CASE Len(sess.queue) # QueueCap
      <4>1. Append(sess.queue, c) \in Seq(Calls) /\ Len(Append(sess.queue, c)) <= QueueCap
        BY <3>2, PushAssumption DEF RestInv, TerminalInv
      <4>2. sess' = [sess EXCEPT !.queue = Append(sess.queue, c)]
        BY <1>4, <3>2 DEF TypeLine
      <4>3. vault' \in BOOLEAN
        BY <1>2 DEF RestInv, TerminalInv
      <4> QED BY <4>1, <4>2, <4>3, TerminalQueues DEF RestInv
    <3> QED BY <3>1, <3>2
  <2> QED BY <2>7, <2>8, <2>9 DEF RestInv
<1> QED BY <1>3, <1>4

---------------------------------------------------------------------------
(* The tool of a push.                                                     *)

LEMMA SpawnKeeps ==
  ASSUME RestInv, asked' = asked, NEW c \in Calls, Spawn(c) PROVE RestInv'
<1>0. PICK q : q = call[c]
  OBVIOUS
<1>1. /\ BusyCall(q) /\ q.pc = "spawn" /\ TypedInv(q, typed[c]) /\ q.format \in Formats
      /\ PermittedInv(q, typed[c], asked) /\ q.draft \in Drafts
      /\ q.login = "password" => q.key = TRUE
  BY <1>0, Busy DEF RestInv, Spawn, At, BusyCall
<1>2. PICK b \in CleanBodies \cup {NoBody} : b = bodies[q.draft][q.format]
  BY <1>1 DEF RestInv, FilesInv
<1> DEFINE r == Moved(q, "wait", q.op, q.format, q.body, q.line, q.checked, q.login, q.key)
           k == [state |-> "running", piped |-> TRUE, login |-> q.login, key |-> q.key,
                 body |-> b]
<1>3. /\ meta' = meta /\ bodies' = bodies /\ raced' = raced /\ vault' = vault /\ typed' = typed
      /\ sess' = sess
      /\ child' = [child EXCEPT ![c] = k]
  BY <1>0, <1>2 DEF Spawn
<1>4. call' = [call EXCEPT ![c] = r]
  <2>1. [q EXCEPT !.pc = "wait"] = r
    BY <1>1, GotoIs
  <2> QED BY <1>0, <2>1 DEF Spawn, Goto
<1>5. IsMoved(r, q, "wait", q.op, q.format, q.body, q.line, q.checked, q.login, q.key)
  BY MovedFields
<1>6. ToolInv(k, "wait")
  BY <1>1, <1>2 DEF ToolInv
<1> HIDE DEF r, k
<1>7. BusyCall(r) /\ r.pc = "wait"
  BY <1>1, <1>5 DEF IsMoved, BusyCall, Steps
<1>8. TypedInv(r, typed[c]) /\ PermittedInv(r, typed[c], asked)
  <2>1. r.pc \notin {"idle", "type"} /\ q.pc \notin {"idle", "type"}
    BY <1>1, <1>7
  <2>2. typed[c] = <<>>
    BY <1>1 DEF TypedInv
  <2> QED BY <1>1, <1>5, <2>1, <2>2, SameLines DEF IsMoved
<1>9. CallInv(r, typed[c], k, asked)
  BY <1>6, <1>7, <1>8 DEF CallInv
<1>10. typed' = [typed EXCEPT ![c] = typed[c]]
  BY <1>3 DEF RestInv, CallsInv
<1>11. CallsInv'
  BY <1>3, <1>4, <1>9, <1>10, OneCall DEF RestInv
<1>12. FilesInv'
  BY <1>0, <1>1, <1>3, <1>4, <1>7, LinesLeaveFiles
<1> QED BY <1>3, <1>11, <1>12 DEF RestInv, TerminalInv

\* The end of a push that waited for its tool.
LEMMA WaitEnds ==
  ASSUME RestInv, asked' = asked, NEW c \in Calls, call[c].pc = "wait",
         NEW res \in {"ok", "timeout"}, End(c, res), NEW k, ToolInv(k, "idle"),
         child' = [child EXCEPT ![c] = k],
         UNCHANGED <<meta, bodies, raced, sess, typed, vault, calls>>
  PROVE  RestInv'
<1>1. CallsInv'
  BY EndKeeps DEF RestInv
<1>2. [NoCall EXCEPT !.result = res].pc = "idle"
  BY DEF NoCall
<1>3. FilesInv'
  BY <1>2, LinesLeaveFiles DEF End
<1> QED BY <1>1, <1>3 DEF RestInv, TerminalInv

\* The record of a tool with its state changed.
LEMMA ToolMoves ==
  ASSUME NEW k, NEW pc, ToolInv(k, pc), NEW state \in {"none", "exited"}, NEW piped, NEW after,
         state # "none" <=> after = "wait"
  PROVE  ToolInv([[k EXCEPT !.state = state] EXCEPT !.piped = piped], after)
<1> DEFINE m == [state |-> state, piped |-> k.piped, login |-> k.login, key |-> k.key,
                 body |-> k.body]
           r == [state |-> state, piped |-> piped, login |-> k.login, key |-> k.key,
                 body |-> k.body]
<1>1. [k EXCEPT !.state = state] = m
  BY DEF ToolInv
<1>2. [m EXCEPT !.piped = piped] = r
  OBVIOUS
<1>3. /\ r.state = state /\ r.login = k.login /\ r.key = k.key /\ r.body = k.body
      /\ r = [state |-> r.state, piped |-> r.piped, login |-> r.login, key |-> r.key,
              body |-> r.body]
  OBVIOUS
<1> HIDE DEF m, r
<1>4. ToolInv(r, after)
  BY <1>3 DEF ToolInv
<1> QED BY <1>1, <1>2, <1>4

LEMMA JoinKeeps ==
  ASSUME RestInv, asked' = asked, NEW c \in Calls, Join(c) PROVE RestInv'
BY WaitEnds, NoChildIs DEF Join, At

LEMMA TimeoutKeeps ==
  ASSUME RestInv, asked' = asked, NEW c \in Calls, Timeout(c) PROVE RestInv'
<1>0. PICK k : k = child[c]
  OBVIOUS
<1>1. ToolInv(k, "wait") /\ call[c].pc = "wait"
  BY <1>0, Busy DEF Timeout, At, RestInv
<1>2. [[k EXCEPT !.state = "none"] EXCEPT !.piped = k.piped] = [k EXCEPT !.state = "none"]
  BY <1>1 DEF ToolInv
<1>3. ToolInv([[k EXCEPT !.state = "none"] EXCEPT !.piped = k.piped], "idle")
  <2> DEFINE after == "idle"
             state == "none"
  <2>1. state # "none" <=> after = "wait"
    OBVIOUS
  <2>2. state \in {"none", "exited"}
    OBVIOUS
  <2> HIDE DEF after, state
  <2>3. ToolInv([[k EXCEPT !.state = state] EXCEPT !.piped = k.piped], after)
    BY <1>1, <2>1, <2>2, ToolMoves
  <2> QED BY <2>3 DEF after, state
<1>4. child' = [child EXCEPT ![c] = [k EXCEPT !.state = "none"]]
  BY <1>0 DEF Timeout
<1> QED BY <1>1, <1>2, <1>3, <1>4, WaitEnds DEF Timeout

\* A step of the tool itself.
LEMMA ToolKeeps ==
  ASSUME RestInv, asked' = asked, NEW c \in Calls, NEW k, ToolInv(k, call[c].pc),
         child' = [child EXCEPT ![c] = k],
         UNCHANGED <<meta, bodies, raced, sess, typed, vault, call, calls>>
  PROVE  RestInv'
<1>1. CallInv(call[c], typed[c], k, asked)
  BY DEF RestInv, CallsInv, CallInv
<1>2. call' = [call EXCEPT ![c] = call[c]] /\ typed' = [typed EXCEPT ![c] = typed[c]]
  BY DEF RestInv, CallsInv
<1>3. CallsInv'
  BY <1>1, <1>2, OneCall DEF RestInv
<1>4. FilesInv'
  BY DEF RestInv, FilesInv, ListedIsReadable, At
<1> QED BY <1>3, <1>4 DEF RestInv, TerminalInv

LEMMA ToolExitsKeeps ==
  ASSUME RestInv, asked' = asked, NEW c \in Calls, ToolExits(c) PROVE RestInv'
<1>0. PICK k : k = child[c]
  OBVIOUS
<1>1. ToolInv(k, call[c].pc) /\ call[c].pc = "wait"
  BY <1>0 DEF ToolExits, RestInv, CallsInv, CallInv, ToolInv
<1>2. PICK piped \in BOOLEAN : child' = [child EXCEPT ![c].state = "exited", ![c].piped = piped]
  BY DEF ToolExits
<1>3. child' = [child EXCEPT ![c] = [[k EXCEPT !.state = "exited"] EXCEPT !.piped = piped]]
  BY <1>0, <1>2 DEF RestInv, CallsInv
<1>4. ToolInv([[k EXCEPT !.state = "exited"] EXCEPT !.piped = piped], call[c].pc)
  BY <1>1, ToolMoves
<1> QED BY <1>3, <1>4, ToolKeeps DEF ToolExits

LEMMA PipeClosesKeeps ==
  ASSUME RestInv, asked' = asked, NEW c \in Calls, PipeCloses(c) PROVE RestInv'
<1>0. PICK k : k = child[c]
  OBVIOUS
<1>1. ToolInv(k, call[c].pc) /\ k.state \in {"none", "exited"}
  BY <1>0 DEF PipeCloses, RestInv, CallsInv, CallInv, ToolInv
<1>2. [[k EXCEPT !.state = k.state] EXCEPT !.piped = FALSE] = [k EXCEPT !.piped = FALSE]
  BY <1>1 DEF ToolInv
<1>3. ToolInv([[k EXCEPT !.state = k.state] EXCEPT !.piped = FALSE], call[c].pc)
  <2>1. k.state # "none" <=> call[c].pc = "wait"
    BY <1>1 DEF ToolInv
  <2> QED BY <1>1, <2>1, ToolMoves
<1>4. child' = [child EXCEPT ![c] = [k EXCEPT !.piped = FALSE]]
  BY <1>0 DEF PipeCloses
<1> QED BY <1>2, <1>3, <1>4, ToolKeeps DEF PipeCloses

---------------------------------------------------------------------------
(* The terminal, the vault and the end of the daemon.                      *)

\* The calls, their tools and the files do not hear of the terminal.
LEMMA WorldLeaves ==
  ASSUME RestInv, asked' = asked, UNCHANGED <<meta, bodies, raced, typed, child, call>>
  PROVE  CallsInv' /\ FilesInv'
<1>1. CallsInv'
  BY DEF RestInv, CallsInv
<1>2. FilesInv'
  BY DEF RestInv, FilesInv, ListedIsReadable, At
<1> QED BY <1>1, <1>2

LEMMA PrintTextKeeps ==
  ASSUME RestInv, asked' = asked, PrintText PROVE RestInv'
<1>1. sess' = [open |-> sess.open, vendor |-> sess.vendor, text |-> TRUE, queue |-> sess.queue]
  BY DEF PrintText, RestInv, TerminalInv
<1>2. TerminalInv'
  BY <1>1 DEF PrintText, RestInv, TerminalInv
<1> QED BY <1>2, WorldLeaves DEF PrintText, RestInv

LEMMA ReadInputKeeps ==
  ASSUME RestInv, asked' = asked, ReadInput PROVE RestInv'
<1>1. Tail(sess.queue) \in Seq(Calls) /\ Len(Tail(sess.queue)) <= QueueCap
  BY PushAssumption DEF ReadInput, RestInv, TerminalInv
<1>2. vault' \in BOOLEAN /\ sess' = [sess EXCEPT !.queue = Tail(sess.queue)]
  BY DEF ReadInput, RestInv, TerminalInv
<1>3. TerminalInv'
  BY <1>1, <1>2, TerminalQueues DEF RestInv
<1> QED BY <1>3, WorldLeaves DEF ReadInput, RestInv

\* The session goes away, with what was queued.
LEMMA ClosedTerminal ==
  ASSUME TerminalInv, vault' = vault, sess' = [sess EXCEPT !.open = FALSE, !.queue = <<>>]
  PROVE  TerminalInv'
<1>1. sess' = [open |-> FALSE, vendor |-> sess.vendor, text |-> sess.text, queue |-> <<>>]
  BY DEF TerminalInv
<1>2. <<>> \in Seq(Calls) /\ Len(<<>>) <= QueueCap
  BY PushAssumption
<1> QED BY <1>1, <1>2 DEF TerminalInv

LEMMA CloseSessionKeeps ==
  ASSUME RestInv, asked' = asked, CloseSession PROVE RestInv'
BY ClosedTerminal, WorldLeaves DEF CloseSession, RestInv

LEMMA ClearVaultKeeps ==
  ASSUME RestInv, asked' = asked, ClearVault PROVE RestInv'
<1>1. TerminalInv'
  BY DEF ClearVault, RestInv, TerminalInv
<1> QED BY <1>1, WorldLeaves DEF ClearVault, RestInv

LEMMA StopPushKeeps ==
  ASSUME RestInv, asked' = asked, StopPush PROVE RestInv'
<1>1. CallsInv'
  <2>1. NoCall = [NoCall EXCEPT !.result = "none"]
    BY DEF NoCall
  <2>2. ASSUME NEW c \in Calls PROVE CallInv(NoCall, typed[c], NoChild, asked)
    <3>1. typed[c] \in Seq(Nat) /\ Increasing(typed[c])
      BY DEF RestInv, CallsInv, CallInv, TypedInv
    <3> QED BY <2>1, <3>1, IdleIs, NoChildIs
  <2> QED BY <2>2 DEF StopPush, RestInv, CallsInv
<1>2. FilesInv'
  <2>1. \A c \in Calls : call'[c].pc = "idle"
    BY DEF StopPush, NoCall
  <2>2. ListedIsReadable'
    BY DEF StopPush, RestInv, FilesInv, ListedIsReadable, At
  <2> QED BY <2>1, <2>2 DEF StopPush, RestInv, FilesInv, At
<1> QED BY <1>1, <1>2, ClosedTerminal DEF StopPush, RestInv

---------------------------------------------------------------------------
(* The permit lists change under the calls.                                *)

LEMMA AskedGrows ==
  ASSUME PolicyInv, PolicyStep, NEW v \in Edited PROVE asked[v] \subseteq asked'[v]
<1>1. CASE asked' = asked
  BY <1>1
<1>2. ASSUME NEW e \in Editors, NEW u \in Edited, NEW list \in Lists, SetAllow(e, u, list)
      PROVE  asked[v] \subseteq asked'[v]
  BY <1>2 DEF SetAllow, PolicyInv, AskedInv
<1> QED BY <1>1, <1>2 DEF PolicyStep, Boot, Repair, Truncate, Fill, Reload

LEMMA PermittedStays ==
  ASSUME PolicyInv, PolicyStep, NEW line, Permitted(line, asked) PROVE Permitted(line, asked')
<1>1. PICK v \in {"generic", BannerVendor} :
        Check(LenientIn(v, asked), Builtin[v], line).allowed
  BY DEF Permitted
<1>2. CASE v \in Edited
  <2>1. v \in Vendors \ {"linux"} /\ asked[v] \subseteq asked'[v]
    BY <1>2, EditedAreVendors, AskedGrows
  <2>2. Check(LenientTo(v, asked[v]), Builtin[v], line).allowed
    BY <1>1, <1>2 DEF LenientIn
  <2>3. Check(LenientTo(v, asked'[v]), Builtin[v], line).allowed
    BY <2>1, <2>2, LenientGrows
  <2> QED BY <1>2, <2>3 DEF Permitted, LenientIn
<1>3. CASE v \notin Edited
  BY <1>1, <1>3 DEF Permitted, LenientIn
<1> QED BY <1>2, <1>3

LEMMA PolicyStepKeeps ==
  ASSUME PushInv, PolicyStep, UNCHANGED pushVars PROVE RestInv'
<1>1. ASSUME NEW c \in Calls PROVE CallInv(call[c], typed[c], child[c], asked')
  <2>1. CallInv(call[c], typed[c], child[c], asked)
    BY DEF PushInv, RestInv, CallsInv
  <2>2. PermittedInv(call[c], typed[c], asked')
    BY <2>1, PermittedStays DEF PushInv, CallInv, PermittedInv
  <2> QED BY <2>1, <2>2 DEF CallInv
<1>2. CallsInv'
  BY <1>1 DEF PushInv, RestInv, CallsInv, pushVars
<1>3. FilesInv' /\ TerminalInv'
  BY DEF PushInv, RestInv, FilesInv, ListedIsReadable, At, TerminalInv, pushVars
<1> QED BY <1>2, <1>3 DEF RestInv

---------------------------------------------------------------------------
(* Every step keeps the invariant.                                         *)

LEMMA RequestKeeps ==
  ASSUME RestInv, asked' = asked, NEW c \in Calls, NEW d \in Drafts, Request(c, d) PROVE RestInv'
<1>1. ASSUME NEW f \in Formats, NEW b \in Bodies, NEW op \in {"save", "push"},
             Save(c, op, d, f, b)
      PROVE  RestInv'
  <2>1. b \in CleanBodies /\ Begin(c, op, d, f, b, "body")
    BY <1>1 DEF Save, CleanBodies
  <2> QED BY <2>1, BeginKeeps
<1>2. ASSUME NEW f \in Formats, Begin(c, "push", d, f, NoBody, "get") PROVE RestInv'
  BY <1>2, BeginKeeps
<1>3. ASSUME Begin(c, "delete", d, NoFormat, NoBody, "get") PROVE RestInv'
  BY <1>3, BeginKeeps
<1> QED BY <1>1, <1>2, <1>3 DEF Request

LEMMA StepKeeps ==
  ASSUME PushInv, asked' = asked, NEW c \in Calls, Step(c) PROVE RestInv'
<1>0. RestInv
  BY DEF PushInv
<1>1. CASE SaveBody(c) \/ SaveMeta(c) \/ SaveFails(c)
  BY <1>0, <1>1, SaveBodyKeeps, SaveMetaKeeps, SaveFailsKeeps
<1>2. CASE ReadMeta(c) \/ ReadBody(c) \/ Prepare(c)
  BY <1>0, <1>2, ReadMetaKeeps, ReadBodyKeeps, PrepareKeeps
<1>3. CASE RemoveBody(c) \/ RemoveMeta(c)
  BY <1>0, <1>3, RemoveBodyKeeps, RemoveMetaKeeps
<1>4. CASE StartCli(c) \/ CheckLine(c) \/ Checked(c)
  BY <1>0, <1>4, StartCliKeeps, CheckLineKeeps, CheckedKeeps
<1>5. CASE TypeLine(c) \/ TypedAll(c)
  BY <1>0, <1>5, TypeLineKeeps, TypedAllKeeps
<1>6. CASE (\E login \in {"key", "password"} : Target(c, login)) \/ NoTarget(c) \/ Plan(c)
  BY <1>0, <1>6, TargetKeeps, NoTargetKeeps, PlanKeeps
<1>7. CASE ToolMissing(c) \/ Spawn(c) \/ SpawnFails(c)
  BY <1>0, <1>7, ToolMissingKeeps, SpawnKeeps
<1>8. CASE Poll(c)
  BY <1>0, <1>8, JoinKeeps, TimeoutKeeps DEF Poll
<1> QED BY <1>1, <1>2, <1>3, <1>4, <1>5, <1>6, <1>7, <1>8 DEF Step

LEMMA PushNextKeeps ==
  ASSUME PushInv, asked' = asked, PushNext PROVE RestInv'
<1>0. RestInv
  BY DEF PushInv
<1>1. ASSUME NEW c \in Calls, NEW d \in Drafts, Request(c, d) PROVE RestInv'
  BY <1>0, <1>1, RequestKeeps
<1>2. ASSUME NEW c \in Calls, Step(c) PROVE RestInv'
  BY <1>2, StepKeeps
<1>3. CASE PrintText \/ ReadInput \/ CloseSession \/ ClearVault
  BY <1>0, <1>3, PrintTextKeeps, ReadInputKeeps, CloseSessionKeeps, ClearVaultKeeps
<1>4. ASSUME NEW c \in Calls, ToolExits(c) \/ PipeCloses(c) PROVE RestInv'
  BY <1>0, <1>4, ToolExitsKeeps, PipeClosesKeeps
<1> QED BY <1>1, <1>2, <1>3, <1>4 DEF PushNext, World

LEMMA PushInvNext == PushInv /\ [Next]_vars => PushInv'
<1> SUFFICES ASSUME PushInv, [Next]_vars PROVE PushInv'
  OBVIOUS
<1>1. CASE PushNext /\ UNCHANGED policyVars
  <2>1. PolicyInv'
    BY <1>1, PolicyInvNext DEF PushInv
  <2>2. asked' = asked
    BY <1>1 DEF policyVars
  <2> QED BY <1>1, <2>1, <2>2, PushNextKeeps DEF PushInv
<1>2. CASE Stop /\ StopPush
  <2>1. PolicyInv'
    BY <1>2, PolicyInvNext DEF PushInv, PolicyNext
  <2>2. asked' = asked
    BY <1>2 DEF Stop
  <2> QED BY <1>2, <2>1, <2>2, StopPushKeeps DEF PushInv
<1>3. CASE PolicyStep /\ UNCHANGED pushVars
  <2>1. PolicyInv'
    BY <1>3, PolicyInvNext DEF PushInv, PolicyNext
  <2> QED BY <1>3, <2>1, PolicyStepKeeps DEF PushInv
<1>4. CASE UNCHANGED vars
  <2>1. UNCHANGED policyVars /\ UNCHANGED pushVars
    BY <1>4 DEF vars
  <2>2. PolicyInv'
    BY <2>1, PolicyInvNext DEF PushInv
  <2>3. RestInv'
    BY <2>1 DEF policyVars, pushVars, PushInv, RestInv, CallsInv, FilesInv, ListedIsReadable,
                At, TerminalInv
  <2> QED BY <2>2, <2>3 DEF PushInv
<1> QED BY <1>1, <1>2, <1>3, <1>4 DEF Next

---------------------------------------------------------------------------
(* The theorems.                                                           *)

(* A push types the lines of its draft in their order, each at most once   *)
(* and no comments, only lines that a policy permits, and none when one is *)
(* denied: for any number of calls, drafts, lists and edits.               *)
(* (stage_push_cli, check_command)                                         *)
THEOREM TypedIsAlwaysPermitted == Spec => []TypedIsPermitted
<1>1. Spec => []PushInv
  BY PushInvInit, PushInvNext, PTL DEF Spec
<1>2. PushInv => TypedIsPermitted
  BY PushInvImplies
<1> QED BY <1>1, <1>2, PTL

(* A listed draft has the body its meta file names, but for a delete that  *)
(* is under way, was cut short or met a save.                              *)
(* (stage::save, stage::get, stage::delete)                                *)
THEOREM ListedIsAlwaysReadable == Spec => []ListedIsReadable
<1>1. Spec => []PushInv
  BY PushInvInit, PushInvNext, PTL DEF Spec
<1>2. PushInv => ListedIsReadable
  BY PushInvImplies
<1> QED BY <1>1, <1>2, PTL

(* No tool runs on a credential or without the password it needs, whatever *)
(* is saved and forgotten between the checks and its start.                *)
(* (strip_secrets, plan_push, run_push)                                    *)
THEOREM RunsAlwaysAsPlanned == Spec => []RunsAsPlanned
<1>1. Spec => []PushInv
  BY PushInvInit, PushInvNext, PTL DEF Spec
<1>2. PushInv => RunsAsPlanned
  BY PushInvImplies
<1> QED BY <1>1, <1>2, PTL
=============================================================================
