---------------------------- MODULE ConsentProofs ----------------------------
(***************************************************************************)
(* Proofs about what a person allowed: the host keys ssh may expect        *)
(* (HostTrust, for any hosts, keys and handlers) and the calls an agent    *)
(* may make (ApprovalGate, for any conversations, turns, calls and         *)
(* commands, and for tools of a round that run in turn or overlap).        *)
(* The two components share nothing; each half is about its own variables. *)
(***************************************************************************)
EXTENDS HostTrust, ApprovalGate, WellFoundedInduction, TLAPS

(***************************** Host keys ***********************************)

\* A handler that has looked at a scan of its host, and one that wrote the line.
Scanned(c) == pc[c] \in {"rescan", "decide", "line"}

HandlersInv ==
    \A c \in Handlers :
        /\ pc[c] # "idle" => host[c] \in Hosts
        /\ Scanned(c) => scan[c] \in Scans

\* Every copy of the pins holds permitted keys only.
CopiesInv ==
    /\ PinsWerePermitted
    /\ \A c \in Handlers, h \in Hosts : local[c][h] \in permitted[h] \cup {NoKey}

\* A key is permitted before it is written as the line; the line stays there
\* for as long as somebody may run ssh with it, or is replaced by such a key.
LinesInv ==
    /\ \A h \in Hosts : line[h] \in permitted[h] \cup {NoKey}
    /\ \A c \in Handlers : pc[c] = "line" => scan[c].first \in permitted[host[c]]
    /\ \A c \in Handlers : pc[c] = "spawn" => line[host[c]] \in permitted[host[c]]
    /\ SshExpectsPermitted

TrustInv == TrustTypeOK /\ HandlersInv /\ CopiesInv /\ LinesInv /\ PlainOpenUsesPin
-----------------------------------------------------------------------------
\* A scan has a key of the most preferred type.
LEMMA PreferredScanned ==
    ASSUME NEW sc \in Scans
    PROVE  Preferred(sc) \in sc.keys
<1>1. sc.keys \subseteq Nat /\ sc.keys # {}
  BY KeysAssumption DEF Scans
<1>2. \E k \in sc.keys : \A j \in sc.keys : ~(<<j, k>> \in OpToRel(<, Nat))
  BY <1>1, NatLessThanWellFounded, WFMin
<1>3. \E k \in sc.keys : \A j \in sc.keys : k <= j
  <2>1. PICK k \in sc.keys : \A j \in sc.keys : ~(<<j, k>> \in OpToRel(<, Nat))
    BY <1>2
  <2>2. \A j \in sc.keys : ~(j < k)
    BY <2>1, <1>1 DEF OpToRel
  <2>3. \A j \in sc.keys : k <= j
    BY <2>2, <1>1
  <2> QED
    BY <2>3
<1> QED
  BY <1>3 DEF Preferred

\* What the handler goes on with is one of the scanned keys.
LEMMA ChosenScanned ==
    ASSUME NEW sc \in Scans, NEW pin
    PROVE  /\ Chosen(sc, pin) \in sc.keys
           /\ Chosen(sc, pin) \in Keys
           /\ Preferred(sc) \in Keys
           /\ sc.first \in Keys
BY PreferredScanned DEF Chosen, Scans

\* A probe sets the scan of its handler to a scan and keeps the cache a map.
LEMMA ProbeScans ==
    ASSUME TrustTypeOK, NEW c \in Handlers, host[c] \in Hosts, Probe(c)
    PROVE  /\ scan' \in [Handlers -> Scans \cup {NoScan}]
           /\ scan'[c] \in Scans
           /\ \A d \in Handlers : d # c => scan'[d] = scan[d]
           /\ cache' \subseteq [host : Hosts, scan : Scans]
           /\ \A e1, e2 \in cache' : e1.host = e2.host => e1 = e2
<1>1. CASE \E e \in cache : e.host = host[c] /\ scan' = [scan EXCEPT ![c] = e.scan]
  <2>1. cache' = cache
    BY <1>1 DEF Probe
  <2> QED
    BY <1>1, <2>1 DEF TrustTypeOK
<1>2. CASE \A e \in cache : e.host # host[c]
  <2>1. PICK sc \in Scans : /\ scan' = [scan EXCEPT ![c] = sc]
                            /\ cache' = cache \cup {[host |-> host[c], scan |-> sc]}
    BY <1>2 DEF Probe
  <2> QED
    BY <1>2, <2>1 DEF TrustTypeOK
<1> QED
  BY <1>1, <1>2 DEF Probe
-----------------------------------------------------------------------------
LEMMA TrustInitInv == TrustInit => TrustInv
BY DEF TrustInit, TrustInv, TrustTypeOK, HandlersInv, Scanned, CopiesInv, LinesInv, PlainOpenUsesPin,
       PinsWerePermitted, SshExpectsPermitted, NoPins, Pins, NoFlags, Flags

LEMMA OpenSshIInv ==
    ASSUME TrustInv, NEW c \in Handlers, NEW h \in Hosts, NEW f \in Flags, OpenSsh(c, h, f)
    PROVE  TrustInv'
<1> USE DEF OpenSsh, TrustInv, diskVars
<1>1. TrustTypeOK'
  BY DEF TrustTypeOK, MoveTo
<1>2. HandlersInv' /\ CopiesInv' /\ LinesInv' /\ PlainOpenUsesPin'
  BY DEF TrustTypeOK, MoveTo, HandlersInv, Scanned, CopiesInv, LinesInv, PlainOpenUsesPin,
         PinsWerePermitted, SshExpectsPermitted, Pinned
<1> QED
  BY <1>1, <1>2

LEMMA OtherSshIInv ==
    ASSUME TrustInv, NEW c \in Handlers, NEW h \in Hosts, OtherSsh(c, h)
    PROVE  TrustInv'
<1> USE DEF OtherSsh, TrustInv, diskVars
<1>1. TrustTypeOK'
  BY DEF TrustTypeOK, MoveTo
<1>2. HandlersInv' /\ CopiesInv' /\ LinesInv' /\ PlainOpenUsesPin'
  BY DEF TrustTypeOK, MoveTo, HandlersInv, Scanned, CopiesInv, LinesInv, PlainOpenUsesPin,
         PinsWerePermitted, SshExpectsPermitted, Pinned
<1> QED
  BY <1>1, <1>2

LEMMA ScanIInv == ASSUME TrustInv, NEW c \in Handlers, Scan(c) PROVE TrustInv'
<1> USE DEF Scan, TrustInv, diskVars
<1>1. host[c] \in Hosts
  BY DEF HandlersInv
<1>2. /\ scan' \in [Handlers -> Scans \cup {NoScan}]
      /\ scan'[c] \in Scans
      /\ \A d \in Handlers : d # c => scan'[d] = scan[d]
      /\ cache' \subseteq [host : Hosts, scan : Scans]
      /\ \A e1, e2 \in cache' : e1.host = e2.host => e1 = e2
  BY <1>1, ProbeScans
<1>3. /\ pc'[c] \in {"rescan", "decide"}
      /\ pc' \in [Handlers -> {"idle", "scan", "rescan", "decide", "line", "spawn", "publish",
                               "probe", "pin"}]
      /\ \A d \in Handlers : d # c => pc'[d] = pc[d]
  BY DEF TrustTypeOK, MoveTo
<1>4. TrustTypeOK'
  BY <1>2, <1>3 DEF TrustTypeOK
<1>5. HandlersInv' /\ CopiesInv' /\ LinesInv' /\ PlainOpenUsesPin'
  BY <1>1, <1>2, <1>3 DEF HandlersInv, Scanned, CopiesInv, LinesInv, PlainOpenUsesPin,
         PinsWerePermitted, SshExpectsPermitted, Pinned
<1> QED
  BY <1>4, <1>5

LEMMA RescanIInv == ASSUME TrustInv, NEW c \in Handlers, Rescan(c) PROVE TrustInv'
<1> USE DEF Rescan, TrustInv, diskVars
<1>1. host[c] \in Hosts
  BY DEF HandlersInv
<1>2. PICK sc \in Scans :
          /\ scan' = [scan EXCEPT ![c] = sc]
          /\ cache' = {e \in cache : e.host # host[c]} \cup {[host |-> host[c], scan |-> sc]}
  OBVIOUS
<1>3. TrustTypeOK'
  BY <1>1, <1>2 DEF TrustTypeOK, MoveTo
<1>4. HandlersInv' /\ CopiesInv' /\ LinesInv' /\ PlainOpenUsesPin'
  BY <1>1, <1>2 DEF TrustTypeOK, MoveTo, HandlersInv, Scanned, CopiesInv, LinesInv, PlainOpenUsesPin,
         PinsWerePermitted, SshExpectsPermitted, Pinned
<1> QED
  BY <1>3, <1>4

\* A handler that returns forgets what it worked on.
LEMMA AnswerForgets ==
    ASSUME TrustTypeOK, NEW c \in Handlers, Answer(c)
    PROVE  /\ pc' \in [Handlers -> {"idle", "scan", "rescan", "decide", "line", "spawn",
                                    "publish", "probe", "pin"}]
           /\ host' \in [Handlers -> Hosts \cup {NoHost}]
           /\ flags' \in [Handlers -> Flags]
           /\ local' \in [Handlers -> Pins]
           /\ scan' \in [Handlers -> Scans \cup {NoScan}]
           /\ pc'[c] = "idle"
           /\ \A h \in Hosts : local'[c][h] = NoKey
           /\ \A d \in Handlers : d # c =>
                 /\ pc'[d] = pc[d] /\ host'[d] = host[d] /\ flags'[d] = flags[d]
                 /\ local'[d] = local[d] /\ scan'[d] = scan[d]
BY DEF TrustTypeOK, Answer, MoveTo, NoPins, Pins, NoFlags, Flags

LEMMA FailsIInv == ASSUME TrustInv, NEW c \in Handlers, Fails(c) \/ OtherEnds(c) PROVE TrustInv'
<1> USE DEF Fails, OtherEnds, TrustInv, diskVars
<1>1. TrustTypeOK'
  BY AnswerForgets DEF TrustTypeOK
<1>2. HandlersInv' /\ CopiesInv' /\ LinesInv' /\ PlainOpenUsesPin'
  BY SMTT(40), AnswerForgets DEF HandlersInv, Scanned, CopiesInv, LinesInv, PlainOpenUsesPin,
         PinsWerePermitted, SshExpectsPermitted, Pinned
<1> QED
  BY <1>1, <1>2

\* The handler decides: the pin of its clone is permitted afterwards, and so is
\* the key it goes on with.
LEMMA DecideIInv == ASSUME TrustInv, NEW c \in Handlers, Decide(c) PROVE TrustInv'
<1> USE DEF TrustInv
<1> DEFINE h == host[c]
           k == Chosen(scan[c], Pinned(c))
<1>1. h \in Hosts /\ scan[c] \in Scans
  BY DEF Decide, HandlersInv, Scanned
<1>2. /\ k \in Keys /\ k # NoKey /\ Preferred(scan[c]) \in Keys /\ scan[c].first \in Keys
      /\ [keys |-> {k}, first |-> k] \in Scans
  BY <1>1, ChosenScanned, KeysAssumption DEF Scans
<1>3. /\ local[c] \in Pins /\ Pinned(c) \in permitted[h] \cup {NoKey}
      /\ permitted \in [Hosts -> SUBSET Keys] /\ permitted[h] \subseteq Keys
  BY <1>1 DEF TrustTypeOK, CopiesInv, Pinned, Pins
<1>4. permitted' = [permitted EXCEPT ![h] = @ \cup Permits(c)]
  BY DEF Decide
<1>5. Permits(c) \subseteq Keys
  BY <1>2 DEF Permits
<1>6. \A g \in Hosts : permitted[g] \subseteq permitted'[g]
  BY <1>4, <1>3
<1>7. /\ local' \in [Handlers -> Pins]
      /\ file' \in Pins
      /\ \A d \in Handlers : d # c => local'[d] = local[d]
      /\ \A g \in Hosts : local'[c][g] \in permitted'[g] \cup {NoKey}
      /\ \A g \in Hosts : file'[g] \in permitted'[g] \cup {NoKey}
      /\ k \in permitted'[h]
      /\ ~flags[c].unknown /\ ~flags[c].replace => local'[c] = local[c] /\ k = Pinned(c)
  <2>1. CASE Match(Pinned(c), scan[c]) /\ UNCHANGED <<local, file>>
    <3>1. k = Pinned(c)
      BY <2>1 DEF Match, Chosen
    <3> QED
      BY <2>1, <3>1, <1>1, <1>2, <1>3, <1>6 DEF TrustTypeOK, CopiesInv, PinsWerePermitted
  <2>2. CASE Unknown(Pinned(c)) /\ flags[c].unknown /\ PinClone(c, Preferred(scan[c]))
    <3>1. k = Preferred(scan[c])
      BY <2>2, <1>1, <1>3, KeysAssumption DEF Unknown, Chosen, Scans
    <3>2. k \in Permits(c)
      BY <3>1, <2>2 DEF Permits
    <3>3. k \in permitted'[h]
      BY <3>2, <1>1, <1>3, <1>4
    <3>4. local'[c] = [local[c] EXCEPT ![h] = k] /\ file' = local'[c]
      BY <2>2, <3>1 DEF PinClone, TrustTypeOK
    <3>5. /\ local' \in [Handlers -> Pins]
          /\ \A d \in Handlers : d # c => local'[d] = local[d]
      BY <2>2, <1>1, <1>2, <1>3 DEF PinClone, TrustTypeOK, Pins
    <3> QED
      BY <2>2, <3>3, <3>4, <3>5, <1>1, <1>2, <1>3, <1>6 DEF TrustTypeOK, CopiesInv, Pins
  <2>3. CASE Mismatch(Pinned(c), scan[c]) /\ flags[c].replace /\ PinClone(c, scan[c].first)
    <3>1. k = Preferred(scan[c])
      BY <2>3 DEF Mismatch, Chosen
    <3>2. {k, scan[c].first} \subseteq Permits(c)
      BY <3>1, <2>3 DEF Permits
    <3>3. {k, scan[c].first} \subseteq permitted'[h]
      BY <3>2, <1>1, <1>3, <1>4
    <3>4. local'[c] = [local[c] EXCEPT ![h] = scan[c].first] /\ file' = local'[c]
      BY <2>3 DEF PinClone, TrustTypeOK
    <3>5. /\ local' \in [Handlers -> Pins]
          /\ \A d \in Handlers : d # c => local'[d] = local[d]
      BY <2>3, <1>1, <1>2, <1>3 DEF PinClone, TrustTypeOK, Pins
    <3> QED
      BY <2>3, <3>3, <3>4, <3>5, <1>1, <1>2, <1>3, <1>6 DEF TrustTypeOK, CopiesInv, Pins
  <2> QED
    BY <2>1, <2>2, <2>3 DEF Decide
<1>8. /\ scan' = [scan EXCEPT ![c] = [keys |-> {k}, first |-> k]]
      /\ pc' = [pc EXCEPT ![c] = "line"]
      /\ UNCHANGED <<cache, mem, line, host, flags, children>>
  BY DEF Decide, KeepChosen, MoveTo
<1> HIDE DEF k
<1>9. TrustTypeOK'
  BY <1>1, <1>2, <1>3, <1>4, <1>5, <1>7, <1>8 DEF TrustTypeOK
<1>10. HandlersInv' /\ CopiesInv'
  BY <1>1, <1>2, <1>6, <1>7, <1>8 DEF TrustTypeOK, HandlersInv, Scanned, CopiesInv, PinsWerePermitted
<1>11. LinesInv'
  BY <1>1, <1>6, <1>7, <1>8 DEF TrustTypeOK, HandlersInv, LinesInv, SshExpectsPermitted
<1>12. PlainOpenUsesPin'
  BY <1>1, <1>2, <1>7, <1>8 DEF TrustTypeOK, PlainOpenUsesPin, Pinned
<1> QED
  BY <1>9, <1>10, <1>11, <1>12

LEMMA WriteLineIInv == ASSUME TrustInv, NEW c \in Handlers, WriteLine(c) PROVE TrustInv'
<1> USE DEF WriteLine, TrustInv, MoveTo
<1>1. /\ host[c] \in Hosts /\ scan[c] \in Scans /\ scan[c].first \in Keys
      /\ scan[c].first \in permitted[host[c]]
  BY DEF HandlersInv, Scanned, LinesInv, Scans
<1>2. TrustTypeOK'
  BY <1>1 DEF TrustTypeOK, Pins
<1>3. LinesInv'
  BY <1>1 DEF TrustTypeOK, Pins, HandlersInv, LinesInv, SshExpectsPermitted
<1>4. HandlersInv' /\ CopiesInv' /\ PlainOpenUsesPin'
  BY <1>1 DEF TrustTypeOK, HandlersInv, Scanned, CopiesInv, PlainOpenUsesPin, PinsWerePermitted, Pinned
<1> QED
  BY <1>2, <1>3, <1>4

LEMMA SpawnIInv == ASSUME TrustInv, NEW c \in Handlers, Spawn(c) PROVE TrustInv'
<1> USE DEF Spawn, TrustInv, MoveTo, diskVars
<1>1. host[c] \in Hosts /\ line[host[c]] \in permitted[host[c]]
  BY DEF HandlersInv, LinesInv
<1>2. TrustTypeOK'
  BY <1>1 DEF TrustTypeOK
<1>3. HandlersInv' /\ CopiesInv' /\ LinesInv' /\ PlainOpenUsesPin'
  BY <1>1 DEF TrustTypeOK, HandlersInv, Scanned, CopiesInv, LinesInv, PlainOpenUsesPin,
              PinsWerePermitted, SshExpectsPermitted, Pinned
<1> QED
  BY <1>2, <1>3

LEMMA PublishIInv ==
    ASSUME TrustInv, NEW c \in Handlers, Publish(c) \/ PublishFails(c)
    PROVE  TrustInv'
<1> USE DEF Publish, PublishFails, TrustInv, diskVars
<1>1. /\ Answer(c) /\ host[c] \in Hosts
      /\ mem' = local[c] /\ file' \in {local[c], file}
      /\ UNCHANGED <<cache, line, children, permitted>>
  BY DEF HandlersInv, TrustTypeOK
<1>2. TrustTypeOK'
  BY <1>1, AnswerForgets DEF TrustTypeOK
<1>3. HandlersInv' /\ CopiesInv' /\ LinesInv' /\ PlainOpenUsesPin'
  BY <1>1, AnswerForgets DEF HandlersInv, Scanned, CopiesInv, LinesInv, PlainOpenUsesPin,
         PinsWerePermitted, SshExpectsPermitted, Pinned
<1> QED
  BY <1>2, <1>3

LEMMA AcceptHostKeyIInv ==
    ASSUME TrustInv, NEW c \in Handlers, NEW h \in Hosts, NEW fp \in Keys, AcceptHostKey(c, h, fp)
    PROVE  TrustInv'
<1> USE DEF AcceptHostKey, TrustInv, MoveTo, diskVars
<1>1. TrustTypeOK'
  BY DEF TrustTypeOK, NoPins, Pins
<1>2. \A g \in Hosts : permitted[g] \subseteq permitted'[g]
  BY DEF TrustTypeOK
<1>3. /\ \A d \in Handlers : d # c => local'[d] = local[d]
      /\ \A g \in Hosts : local'[c][g] \in permitted'[g] \cup {NoKey}
  BY DEF TrustTypeOK, NoPins
<1>4. HandlersInv' /\ CopiesInv'
  BY <1>2, <1>3 DEF TrustTypeOK, HandlersInv, Scanned, CopiesInv, PinsWerePermitted
<1>5. LinesInv' /\ PlainOpenUsesPin'
  BY <1>2, <1>3 DEF TrustTypeOK, HandlersInv, LinesInv, PlainOpenUsesPin, SshExpectsPermitted, Pinned
<1> QED
  BY <1>1, <1>4, <1>5

LEMMA AcceptProbeIInv == ASSUME TrustInv, NEW c \in Handlers, AcceptProbe(c) PROVE TrustInv'
<1> USE DEF AcceptProbe, TrustInv, diskVars
<1>1. host[c] \in Hosts
  BY DEF HandlersInv
<1>2. /\ scan' \in [Handlers -> Scans \cup {NoScan}]
      /\ \A d \in Handlers : d # c => scan'[d] = scan[d]
      /\ cache' \subseteq [host : Hosts, scan : Scans]
      /\ \A e1, e2 \in cache' : e1.host = e2.host => e1 = e2
  BY <1>1, ProbeScans
<1>3. TrustTypeOK'
  BY <1>2 DEF TrustTypeOK, MoveTo
<1>4. HandlersInv' /\ CopiesInv' /\ LinesInv' /\ PlainOpenUsesPin'
  BY <1>1, <1>2 DEF TrustTypeOK, MoveTo, HandlersInv, Scanned, CopiesInv, LinesInv, PlainOpenUsesPin,
         PinsWerePermitted, SshExpectsPermitted, Pinned
<1> QED
  BY <1>3, <1>4

LEMMA AcceptPinIInv == ASSUME TrustInv, NEW c \in Handlers, AcceptPin(c) PROVE TrustInv'
<1> USE DEF AcceptPin, TrustInv
<1>1. /\ host[c] \in Hosts
      /\ Pinned(c) \in permitted[host[c]] \cup {NoKey}
      /\ Pinned(c) \in Keys \cup {NoKey}
  BY DEF HandlersInv, CopiesInv, Pinned, TrustTypeOK, Pins
<1>2. mem' \in Pins /\ file' \in Pins
  BY <1>1 DEF TrustTypeOK, Pins
<1>3. \A g \in Hosts : {mem'[g], file'[g]} \subseteq permitted[g] \cup {NoKey}
  BY <1>1 DEF TrustTypeOK, CopiesInv, PinsWerePermitted, Pins
<1>4. TrustTypeOK'
  BY <1>2, AnswerForgets DEF TrustTypeOK
<1>5. HandlersInv' /\ CopiesInv' /\ LinesInv' /\ PlainOpenUsesPin'
  BY SMTT(40), <1>3, AnswerForgets DEF HandlersInv, Scanned, CopiesInv, LinesInv, PlainOpenUsesPin,
         PinsWerePermitted, SshExpectsPermitted, Pinned
<1> QED
  BY <1>4, <1>5

\* Children, the cache and restarts.
LEMMA TrustOtherInv ==
    ASSUME TrustInv, (\E h \in Hosts : ChildVerifies(h)) \/ CacheExpires \/ Restart \/ UNCHANGED trustVars
    PROVE  TrustInv'
<1> USE DEF TrustInv, TrustTypeOK, HandlersInv, Scanned, CopiesInv, LinesInv, PlainOpenUsesPin,
            PinsWerePermitted, SshExpectsPermitted, Pinned, diskVars
<1>1. CASE \E h \in Hosts : ChildVerifies(h)
  BY <1>1 DEF ChildVerifies
<1>2. CASE CacheExpires
  BY <1>2 DEF CacheExpires
<1>3. CASE Restart
  BY <1>3 DEF Restart, NoPins, Pins, NoFlags, Flags
<1>4. CASE UNCHANGED trustVars
  BY <1>4 DEF trustVars
<1> QED
  BY <1>1, <1>2, <1>3, <1>4

(* The inductive invariant: every copy of the pins, every known_hosts line and
   the entry a handler goes on with are keys that a client allowed.         *)
THEOREM TrustInvariant == TrustSpec => []TrustInv
<1>1. ASSUME TrustInv, [TrustNext]_trustVars PROVE TrustInv'
  BY <1>1, OpenSshIInv, OtherSshIInv, ScanIInv, RescanIInv, FailsIInv, DecideIInv, WriteLineIInv, SpawnIInv,
     PublishIInv, AcceptHostKeyIInv, AcceptProbeIInv, AcceptPinIInv, TrustOtherInv DEF TrustNext
<1> QED
  BY TrustInitInv, <1>1, PTL DEF TrustSpec

(* Every variable keeps its type: of one host the cache has one scan, and what
   a handler carries from one step to the next is a whole set of pins.       *)
THEOREM TrustTypeCorrect == TrustSpec => []TrustTypeOK
<1>1. TrustInv => TrustTypeOK
  BY DEF TrustInv
<1> QED
  BY <1>1, TrustInvariant, PTL

(* ssh only ever expects a key that a client allowed for the host.          *)
THEOREM ConnectsWithPermitted == TrustSpec => []SshExpectsPermitted
<1>1. TrustInv => SshExpectsPermitted
  BY DEF TrustInv, LinesInv
<1> QED
  BY <1>1, TrustInvariant, PTL

(* Neither memory nor known_hosts.toml ever pins a key nobody allowed.      *)
THEOREM PinsArePermitted == TrustSpec => []PinsWerePermitted
<1>1. TrustInv => PinsWerePermitted
  BY DEF TrustInv, CopiesInv
<1> QED
  BY <1>1, TrustInvariant, PTL

(* Only keys that a client allowed for the host are pinned, in memory or on
   disk, or expected by ssh (open_ssh, pinned_known_hosts_file, accept).    *)
THEOREM KeysAlwaysPermitted == TrustSpec => []KeysPermitted
<1>1. TrustTypeOK /\ PinsWerePermitted /\ SshExpectsPermitted => KeysPermitted
  BY DEF KeysPermitted
<1> QED
  BY <1>1, TrustTypeCorrect, PinsArePermitted, ConnectsWithPermitted, PTL

(* Without flags ssh expects the pin the host had when the call began.      *)
THEOREM PlainOpenKeepsPin == TrustSpec => []PlainOpenUsesPin
<1>1. TrustInv => PlainOpenUsesPin
  BY DEF TrustInv
<1> QED
  BY <1>1, TrustInvariant, PTL
-----------------------------------------------------------------------------
(*************************** Approval gate *********************************)

\* The conversation of a turn is set once, before anything refers to it.
TurnsInv ==
    /\ \A t \in live : conv[t] \in Convs
    /\ \A c \in Convs : runs[c] # NoTurn => conv[runs[c]] = c

\* What is known of a call where it is.
CallInv(k) ==
    /\ phase[k] # "unused" => turn[k] \in Turns /\ ConvOf(k) \in Convs /\ command[k] \in Commands
    /\ phase[k] \in {"unused", "check", "reply", "gate"} =>
          clicked[k] = "none" /\ k \notin sent \cup inflight
    /\ phase[k] = "reply" => checked[k] # "none"
    /\ phase[k] = "gate" => command[k] \in ClickOnly \/ checked[k] # "none"
    /\ phase[k] # "done" => cancelled[k] = NoConv

\* Always-allow holds nothing that was not clicked in that conversation.
AlwaysInv ==
    \A c \in Convs, m \in Commands : <<c, m>> \in always =>
        \E d \in Calls : clicked[d] = "always" /\ command[d] = m /\ ConvOf(d) = c

IInv ==
    /\ TypeOK
    /\ TurnsInv
    /\ \A k \in Calls : CallInv(k)
    /\ AlwaysInv
    /\ SentWasGated
    /\ CancelledStaysSilent
    /\ PromptsAreAwaited
-----------------------------------------------------------------------------
LEMMA InitIInv == Init => IInv
BY CommandsAssumption DEF Init, IInv, TypeOK, TurnsInv, CallInv, AlwaysInv, SentWasGated,
    CancelledStaysSilent, PromptsAreAwaited, Answers, ConvOf

\* Steps that reject some prompts: everything said of calls and always-allow holds on.
LEMMA CancelKeeps ==
    ASSUME IInv, NEW ks \in SUBSET waiters, NEW c \in Convs \cup {Everyone}, Cancel(ks, c),
           conv' \in [Turns -> Convs \cup {NoConv}],
           \A t \in Turns : conv[t] # NoConv => conv'[t] = conv[t],
           UNCHANGED <<callVars, always, permit, inflight, sent, clicked>>
    PROVE  /\ phase' \in [Calls -> {"unused", "check", "reply", "gate", "sending", "done"}]
           /\ waiters' = {k \in Calls : phase'[k] = "gate"}
           /\ waiters' = waiters \ ks
           /\ cancelled' \in [Calls -> Convs \cup {NoConv, Everyone}]
           /\ (\A k \in Calls : CallInv(k))' /\ AlwaysInv' /\ SentWasGated' /\ CancelledStaysSilent'
<1> USE DEF IInv, callVars
<1>1. \A k \in Calls : phase[k] # "unused" =>
          /\ turn[k] \in Turns /\ conv[turn[k]] \in Convs
          /\ conv'[turn[k]] = conv[turn[k]]
  BY CommandsAssumption DEF CallInv, ConvOf, TypeOK
<1>2. /\ \A k \in Calls : phase'[k] = IF k \in ks THEN "done" ELSE phase[k]
      /\ \A k \in Calls : cancelled'[k] = IF k \in ks THEN c ELSE cancelled[k]
      /\ phase' \in [Calls -> {"unused", "check", "reply", "gate", "sending", "done"}]
      /\ waiters' = waiters \ ks
      /\ cancelled' \in [Calls -> Convs \cup {NoConv, Everyone}]
  BY DEF Cancel, TypeOK
<1>3. waiters' = {k \in Calls : phase'[k] = "gate"}
  BY <1>2 DEF PromptsAreAwaited, TypeOK
<1>4. \A k \in ks : phase[k] = "gate"
  BY DEF PromptsAreAwaited
<1>5. (\A k \in Calls : CallInv(k))'
  BY <1>1, <1>2, <1>4 DEF CallInv, ConvOf
<1>6. \A d \in Calls : clicked[d] = "always" => ConvOf(d)' = ConvOf(d)
  BY <1>1 DEF CallInv, ConvOf
<1>7. AlwaysInv'
  BY <1>6 DEF AlwaysInv
<1>8. SentWasGated'
  <2>1. \A k \in sent \cup inflight : k \in Calls /\ ConvOf(k)' = ConvOf(k)
    BY <1>1 DEF CallInv, ConvOf, TypeOK
  <2> QED
    BY <1>6, <2>1 DEF SentWasGated, AllowedAlways
<1>9. CancelledStaysSilent'
  BY <1>2, <1>4 DEF CallInv, CancelledStaysSilent
<1> QED
  BY <1>2, <1>3, <1>5, <1>7, <1>8, <1>9

LEMMA ChatIInv == ASSUME IInv, NEW t \in Turns, NEW c \in Convs, Chat(t, c) PROVE IInv'
<1> USE DEF IInv
<1> DEFINE ks == {k \in waiters : ConvOf(k) = c}
<1>1. /\ conv[t] = NoConv /\ conv' = [conv EXCEPT ![t] = c]
      /\ Cancel(ks, c)
      /\ conv' \in [Turns -> Convs \cup {NoConv}]
      /\ \A u \in Turns : conv[u] # NoConv => conv'[u] = conv[u]
      /\ UNCHANGED <<callVars, always, permit, inflight, sent, clicked>>
  BY DEF Chat, CancelConversation, TypeOK
<1>2. /\ phase' \in [Calls -> {"unused", "check", "reply", "gate", "sending", "done"}]
      /\ waiters' = {k \in Calls : phase'[k] = "gate"}
      /\ waiters' = waiters \ ks
      /\ cancelled' \in [Calls -> Convs \cup {NoConv, Everyone}]
      /\ (\A k \in Calls : CallInv(k))' /\ AlwaysInv' /\ SentWasGated' /\ CancelledStaysSilent'
  <2>1. ks \in SUBSET waiters
    OBVIOUS
  <2> HIDE DEF ks
  <2> QED
    BY <1>1, <2>1, CancelKeeps
<1>3. TypeOK'
  BY <1>1, <1>2 DEF Chat, TypeOK, callVars
<1>4. TurnsInv'
  BY <1>1, CommandsAssumption DEF Chat, TypeOK, TurnsInv
<1>5. PromptsAreAwaited'
  <2>1. SUFFICES ASSUME NEW k \in waiters' PROVE turn'[k] \notin aborted'
    BY <1>2 DEF PromptsAreAwaited
  <2>2. k \in waiters /\ ConvOf(k) # c /\ turn[k] \notin aborted
    BY <1>2 DEF PromptsAreAwaited
  <2>3. turn[k] \in Turns
    BY <2>2 DEF PromptsAreAwaited, CallInv
  <2>4. runs[c] # turn[k]
    BY <2>2, <2>3, CommandsAssumption DEF TurnsInv, ConvOf
  <2> QED
    BY <1>1, <2>2, <2>4 DEF Chat, callVars
<1> QED
  BY <1>2, <1>3, <1>4, <1>5

LEMMA StopIInv == ASSUME IInv, NEW c \in Convs, Stop(c) PROVE IInv'
<1> USE DEF IInv
<1> DEFINE ks == {k \in waiters : ConvOf(k) = c}
<1>1. /\ Cancel(ks, c)
      /\ conv' = conv /\ conv' \in [Turns -> Convs \cup {NoConv}]
      /\ UNCHANGED <<callVars, always, permit, inflight, sent, clicked>>
  BY DEF Stop, CancelConversation, TypeOK
<1>2. /\ phase' \in [Calls -> {"unused", "check", "reply", "gate", "sending", "done"}]
      /\ waiters' = {k \in Calls : phase'[k] = "gate"}
      /\ waiters' = waiters \ ks
      /\ cancelled' \in [Calls -> Convs \cup {NoConv, Everyone}]
      /\ (\A k \in Calls : CallInv(k))' /\ AlwaysInv' /\ SentWasGated' /\ CancelledStaysSilent'
  <2>1. ks \in SUBSET waiters
    OBVIOUS
  <2> HIDE DEF ks
  <2> QED
    BY <1>1, <2>1, CancelKeeps
<1>3. TypeOK'
  BY <1>1, <1>2 DEF Stop, TypeOK, callVars
<1>4. TurnsInv'
  BY <1>1, CommandsAssumption DEF Stop, TypeOK, TurnsInv
<1>5. PromptsAreAwaited'
  <2>1. SUFFICES ASSUME NEW k \in waiters' PROVE turn'[k] \notin aborted'
    BY <1>2 DEF PromptsAreAwaited
  <2>2. k \in waiters /\ ConvOf(k) # c /\ turn[k] \notin aborted
    BY <1>2 DEF PromptsAreAwaited
  <2>3. turn[k] \in Turns
    BY <2>2 DEF PromptsAreAwaited, CallInv
  <2>4. runs[c] # turn[k]
    BY <2>2, <2>3, CommandsAssumption DEF TurnsInv, ConvOf
  <2> QED
    BY <1>1, <2>2, <2>4 DEF Stop, callVars
<1> QED
  BY <1>2, <1>3, <1>4, <1>5

LEMMA StopAllIInv == ASSUME IInv, StopAll PROVE IInv'
<1> USE DEF IInv
<1>1. /\ Cancel(waiters, Everyone)
      /\ conv' = conv /\ conv' \in [Turns -> Convs \cup {NoConv}]
      /\ UNCHANGED <<callVars, always, permit, inflight, sent, clicked>>
  BY DEF StopAll, TypeOK
<1>2. /\ phase' \in [Calls -> {"unused", "check", "reply", "gate", "sending", "done"}]
      /\ waiters' = {k \in Calls : phase'[k] = "gate"}
      /\ waiters' = waiters \ waiters
      /\ cancelled' \in [Calls -> Convs \cup {NoConv, Everyone}]
      /\ (\A k \in Calls : CallInv(k))' /\ AlwaysInv' /\ SentWasGated' /\ CancelledStaysSilent'
  BY <1>1, CancelKeeps
<1>3. TypeOK'
  BY <1>1, <1>2 DEF StopAll, TypeOK, callVars
<1>4. TurnsInv' /\ PromptsAreAwaited'
  BY <1>1, <1>2 DEF StopAll, TypeOK, TurnsInv, PromptsAreAwaited
<1> QED
  BY <1>2, <1>3, <1>4

\* Steps that touch neither calls nor always-allow.
LEMMA OtherIInv ==
    ASSUME IInv,
           \/ \E t \in Turns : (\E n \in 1 .. MaxRound : Round(t, n)) \/ EndTurn(t) \/ OtherTool(t)
           \/ \E m \in Commands : EditPermit(m)
           \/ UNCHANGED vars
    PROVE  IInv'
<1> USE CommandsAssumption DEF IInv
<1>1. /\ UNCHANGED <<conv, callVars, phase, waiters, always, inflight, sent, clicked, cancelled,
                     aborted>>
      /\ live' \subseteq live
      /\ \A c \in Convs : runs'[c] \in {runs[c], NoTurn}
      /\ TypeOK'
  <2>1. CASE \E t \in Turns, n \in 1 .. MaxRound : Round(t, n)
    BY <2>1 DEF Round, TypeOK, callVars
  <2>2. CASE \E t \in Turns : EndTurn(t)
    <3>1. PICK t \in Turns : EndTurn(t)
      BY <2>2
    <3>2. conv[t] \in Convs
      BY <3>1 DEF EndTurn, TurnsInv
    <3> QED
      BY <3>1, <3>2 DEF EndTurn, TypeOK, callVars
  <2>3. CASE \E t \in Turns : OtherTool(t)
    BY <2>3 DEF OtherTool, TypeOK, callVars
  <2>4. CASE \E m \in Commands : EditPermit(m)
    BY <2>4 DEF EditPermit, TypeOK, callVars, turnVars
  <2>5. CASE UNCHANGED vars
    BY <2>5 DEF vars, TypeOK, callVars, turnVars
  <2> QED
    BY <2>1, <2>2, <2>3, <2>4, <2>5
<1>2. TurnsInv'
  BY <1>1 DEF TurnsInv
<1>3. (\A k \in Calls : CallInv(k))' /\ AlwaysInv' /\ SentWasGated' /\ CancelledStaysSilent'
         /\ PromptsAreAwaited'
  BY <1>1 DEF CallInv, ConvOf, AlwaysInv, SentWasGated, AllowedAlways, CancelledStaysSilent,
              PromptsAreAwaited, callVars
<1> QED
  BY <1>1, <1>2, <1>3

\* A step of call k alone that leaves its conversation, clicks and sendings alone.
LEMMA CallMoves ==
    ASSUME IInv, NEW k \in Calls, NEW p \in {"reply", "gate", "done"},
           Goto(k, p),
           waiters' = IF p = "gate" THEN waiters \cup {k} ELSE waiters,
           phase[k] \in {"check", "reply", "sending"},
           p = "gate" => phase[k] = "reply" /\ turn[k] \notin aborted,
           p = "reply" => phase[k] = "check" /\ checked'[k] # "none",
           phase[k] # "check" => checked'[k] = checked[k],
           checked' \in [Calls -> {"none", "listed", "linux", "denied"}],
           \A d \in Calls : d # k => checked'[d] = checked[d],
           UNCHANGED <<turnVars, turn, command, always, permit, inflight, sent, clicked, cancelled>>
    PROVE  IInv'
<1> USE DEF IInv, Goto, turnVars
<1>1. TypeOK'
  BY DEF TypeOK
<1>2. TurnsInv' /\ AlwaysInv' /\ CancelledStaysSilent'
  BY DEF TurnsInv, AlwaysInv, CancelledStaysSilent, ConvOf
<1>3. (\A d \in Calls : CallInv(d))'
  BY DEF TypeOK, CallInv, ConvOf
<1>4. SentWasGated'
  <2>1. ASSUME NEW d \in sent \cup inflight PROVE d \in Calls /\ checked'[d] = checked[d]
    BY <2>1 DEF CallInv, TypeOK
  <2> QED
    BY <2>1 DEF SentWasGated, AllowedAlways, ConvOf
<1>5. PromptsAreAwaited'
  BY DEF TypeOK, PromptsAreAwaited
<1> QED
  BY <1>1, <1>2, <1>3, <1>4, <1>5

LEMMA CheckIInv == ASSUME IInv, NEW k \in Calls, Check(k) PROVE IInv'
<1>1. Verdict(command[k]) \in {"listed", "linux", "denied"}
  BY DEF Verdict
<1>2. /\ checked' \in [Calls -> {"none", "listed", "linux", "denied"}]
      /\ checked'[k] # "none"
      /\ \A d \in Calls : d # k => checked'[d] = checked[d]
  BY <1>1 DEF Check, IInv, TypeOK
<1>3. /\ Goto(k, "reply") /\ phase[k] = "check" /\ waiters' = waiters
      /\ UNCHANGED <<turnVars, turn, command, always, permit, inflight, sent, clicked, cancelled>>
  BY DEF Check
<1> QED
  BY <1>2, <1>3, CallMoves

LEMMA ReplyAskIInv == ASSUME IInv, NEW k \in Calls, ReplyAsk(k) PROVE IInv'
<1>1. /\ phase[k] = "reply"
      /\ checked' = checked /\ checked \in [Calls -> {"none", "listed", "linux", "denied"}]
      /\ checked[k] # "none"
      /\ UNCHANGED <<turnVars, turn, command, always, permit, inflight, sent, clicked, cancelled>>
  BY DEF ReplyAsk, IInv, TypeOK, CallInv, callVars
<1>2. CASE turn[k] \in aborted /\ Goto(k, "done") /\ UNCHANGED waiters
  BY <1>1, <1>2, CallMoves
<1>3. CASE turn[k] \notin aborted /\ Goto(k, "gate") /\ waiters' = waiters \cup {k}
  BY <1>1, <1>3, CallMoves
<1> QED
  BY <1>2, <1>3 DEF ReplyAsk, AwaitGate

LEMMA ReturnIInv == ASSUME IInv, NEW k \in Calls, Return(k) PROVE IInv'
<1>1. /\ phase[k] \in {"check", "reply", "sending"} /\ Goto(k, "done") /\ waiters' = waiters
      /\ checked' = checked /\ checked \in [Calls -> {"none", "listed", "linux", "denied"}]
      /\ UNCHANGED <<turnVars, turn, command, always, permit, inflight, sent, clicked, cancelled>>
  BY DEF Return, IInv, TypeOK, callVars
<1> QED
  BY <1>1, CallMoves

LEMMA StartCallIInv ==
    ASSUME IInv, NEW k \in Calls, NEW t \in Turns, NEW m \in Commands, StartCall(k, t, m)
    PROVE  IInv'
<1> USE DEF IInv
<1>1. /\ phase[k] = "unused" /\ t \in live
      /\ turn' = [turn EXCEPT ![k] = t]
      /\ command' = [command EXCEPT ![k] = m]
      /\ queued' = [queued EXCEPT ![t] = @ - 1] /\ queued[t] > 0
      /\ UNCHANGED <<conv, live, aborted, runs, checked, always, permit, inflight, sent, clicked,
                     cancelled>>
  BY DEF StartCall
<1>2. conv[t] \in Convs
  BY <1>1 DEF TurnsInv
<1>3. /\ clicked[k] = "none" /\ k \notin sent \cup inflight /\ cancelled[k] = NoConv
      /\ k \notin waiters
  BY <1>1 DEF CallInv, PromptsAreAwaited
<1>4. PICK p \in {"check", "gate", "done"} :
          /\ phase' = [phase EXCEPT ![k] = p]
          /\ waiters' = IF p = "gate" THEN waiters \cup {k} ELSE waiters
          /\ p = "gate" => m \in ClickOnly /\ t \notin aborted
  BY DEF StartCall, AwaitGate, Goto
<1>5. TypeOK'
  <2>1. queued[t] - 1 \in 0 .. MaxRound
    BY <1>1, CommandsAssumption DEF TypeOK
  <2> QED
    BY <1>1, <1>4, <2>1 DEF TypeOK
<1>6. TurnsInv'
  BY <1>1 DEF TurnsInv
<1>7. (\A d \in Calls : CallInv(d))'
  BY <1>1, <1>2, <1>3, <1>4 DEF TypeOK, CallInv, ConvOf
<1>8. \A d \in Calls : d # k => ConvOf(d)' = ConvOf(d) /\ command'[d] = command[d]
  BY <1>1 DEF TypeOK, ConvOf
<1>9. AlwaysInv'
  BY <1>1, <1>3, <1>8 DEF AlwaysInv
<1>10. SentWasGated'
  <2>1. ASSUME NEW d \in sent \cup inflight
        PROVE  d \in Calls /\ ConvOf(d)' = ConvOf(d) /\ command'[d] = command[d]
    BY <2>1, <1>3, <1>8 DEF TypeOK
  <2>2. ASSUME NEW d \in sent \cup inflight, AllowedAlways(d) PROVE AllowedAlways(d)'
    BY <2>1, <2>2, <1>1, <1>3, <1>8 DEF AllowedAlways
  <2> QED
    BY <2>1, <2>2, <1>1 DEF SentWasGated
<1>11. CancelledStaysSilent' /\ PromptsAreAwaited'
  BY <1>1, <1>4 DEF TypeOK, CancelledStaysSilent, PromptsAreAwaited
<1> QED
  BY <1>5, <1>6, <1>7, <1>9, <1>10, <1>11

LEMMA ReplyReuseIInv == ASSUME IInv, NEW k \in Calls, ReplyReuse(k) PROVE IInv'
<1> USE DEF IInv, ReplyReuse, Goto, turnVars, callVars
<1>1. /\ phase[k] = "reply" /\ clicked[k] = "none" /\ cancelled[k] = NoConv
      /\ ConvOf(k) \in Convs
  BY DEF CallInv
<1>2. command[k] \in Commands
  BY DEF Remembered, TypeOK
<1>3. checked[k] = "listed" /\ command[k] \notin Mutating /\ AllowedAlways(k)
  BY <1>1, <1>2 DEF Remembered, AlwaysInv, AllowedAlways
<1>4. TypeOK'
  BY DEF TypeOK
<1>5. TurnsInv' /\ AlwaysInv'
  BY DEF TurnsInv, AlwaysInv, ConvOf
<1>6. (\A d \in Calls : CallInv(d))'
  BY DEF TypeOK, CallInv, ConvOf
<1>7. SentWasGated'
  BY <1>1, <1>3 DEF SentWasGated, AllowedAlways, ConvOf
<1>8. CancelledStaysSilent' /\ PromptsAreAwaited'
  BY <1>1 DEF TypeOK, CancelledStaysSilent, PromptsAreAwaited
<1> QED
  BY <1>4, <1>5, <1>6, <1>7, <1>8

LEMMA ApproveIInv ==
    ASSUME IInv, NEW k \in Calls, NEW a \in Answers \ {"none"}, Approve(k, a)
    PROVE  IInv'
<1> USE DEF IInv
<1>1. /\ phase[k] = "gate" /\ clicked[k] = "none" /\ cancelled[k] = NoConv
      /\ k \notin sent \cup inflight
      /\ ConvOf(k) \in Convs
      /\ command[k] \in ClickOnly \/ checked[k] # "none"
  BY DEF Approve, PromptsAreAwaited, CallInv
<1>2. /\ waiters' = waiters \ {k}
      /\ clicked' = [clicked EXCEPT ![k] = a]
      /\ always' = always \cup (IF a = "always" THEN {<<ConvOf(k), command[k]>>} ELSE {})
      /\ a = "always" => checked[k] = "listed"
      /\ UNCHANGED <<turnVars, callVars, permit, sent, cancelled>>
  BY DEF Approve, Offered
<1>3. PICK p \in {"sending", "done"} :
          /\ phase' = [phase EXCEPT ![k] = p]
          /\ inflight' = IF p = "sending" THEN inflight \cup {k} ELSE inflight
          /\ p = "sending" => a # "deny" /\ checked[k] # "denied"
  BY DEF Approve, Goto
<1>4. command[k] \in Commands
  BY <1>1 DEF CallInv
<1>5. TypeOK'
  <2>1. always' \subseteq Convs \X Commands
    BY <1>1, <1>2, <1>4 DEF TypeOK
  <2> QED
    BY <1>2, <1>3, <2>1 DEF TypeOK, turnVars, callVars
<1>6. TurnsInv'
  BY <1>2 DEF TurnsInv, turnVars
<1>7. (\A d \in Calls : CallInv(d))'
  BY <1>1, <1>2, <1>3 DEF TypeOK, CallInv, ConvOf, turnVars, callVars
<1>8. /\ \A d \in Calls : ConvOf(d)' = ConvOf(d) /\ command'[d] = command[d]
                            /\ checked'[d] = checked[d]
      /\ \A d \in Calls : clicked[d] # "none" => clicked'[d] = clicked[d]
      /\ \A d \in Calls : d # k => clicked'[d] = clicked[d]
      /\ clicked'[k] = a
  BY <1>1, <1>2 DEF TypeOK, ConvOf, turnVars, callVars
<1>9. AlwaysInv'
  <2> SUFFICES ASSUME NEW c \in Convs, NEW m \in Commands, <<c, m>> \in always'
               PROVE  \E d \in Calls : clicked'[d] = "always" /\ command[d] = m /\ ConvOf(d) = c
    BY <1>8 DEF AlwaysInv
  <2>1. CASE <<c, m>> \in always
    BY <2>1, <1>8 DEF AlwaysInv
  <2>2. CASE <<c, m>> \notin always
    <3>1. a = "always" /\ c = ConvOf(k) /\ m = command[k]
      BY <2>2, <1>2
    <3> QED
      BY <3>1, <1>8
  <2> QED
    BY <2>1, <2>2
<1>10. SentWasGated'
  <2> SUFFICES ASSUME NEW d \in sent' \cup inflight'
               PROVE  \/ /\ clicked'[d] \in {"allow", "always"}
                         /\ command'[d] \in ClickOnly \/ checked'[d] \in {"listed", "linux"}
                      \/ /\ clicked'[d] = "none"
                         /\ checked'[d] = "listed"
                         /\ command'[d] \notin Mutating
                         /\ AllowedAlways(d)'
    BY DEF SentWasGated
  <2>1. CASE d = k
    <3>1. a \in {"allow", "always"} /\ checked[k] # "denied"
      BY <2>1, <1>1, <1>2, <1>3 DEF Answers
    <3>2. checked[k] \in {"none", "listed", "linux", "denied"}
      BY DEF TypeOK
    <3> QED
      BY <2>1, <3>1, <3>2, <1>1, <1>8
  <2>2. CASE d # k
    <3>1. d \in sent \cup inflight /\ d \in Calls
      BY <2>2, <1>2, <1>3 DEF TypeOK
    <3>2. AllowedAlways(d) => AllowedAlways(d)'
      BY <3>1, <1>8 DEF AllowedAlways
    <3> QED
      BY <2>2, <3>1, <3>2, <1>8 DEF SentWasGated
  <2> QED
    BY <2>1, <2>2
<1>11. CancelledStaysSilent'
  BY <1>1, <1>2, <1>3 DEF TypeOK, CancelledStaysSilent
<1>12. PromptsAreAwaited'
  BY <1>1, <1>2, <1>3 DEF TypeOK, PromptsAreAwaited, turnVars, callVars
<1> QED
  BY <1>5, <1>6, <1>7, <1>9, <1>10, <1>11, <1>12

\* The daemon executes or loses what was sent.
LEMMA DeliverIInv == ASSUME IInv, NEW k \in Calls, Deliver(k) \/ Lose(k) PROVE IInv'
<1> USE DEF IInv, turnVars, callVars
<1>1. /\ k \in inflight
      /\ inflight' \cup sent' \subseteq inflight \cup sent
      /\ inflight' \subseteq Calls /\ sent' \subseteq Calls
      /\ UNCHANGED <<turnVars, callVars, phase, waiters, always, permit, clicked, cancelled>>
  BY DEF Deliver, Lose, TypeOK
<1>2. TypeOK'
  BY <1>1 DEF TypeOK
<1>3. TurnsInv' /\ (\A d \in Calls : CallInv(d))' /\ AlwaysInv' /\ CancelledStaysSilent'
         /\ PromptsAreAwaited'
  BY <1>1 DEF TurnsInv, CallInv, ConvOf, AlwaysInv, CancelledStaysSilent, PromptsAreAwaited
<1>4. SentWasGated'
  BY <1>1 DEF SentWasGated, AllowedAlways, ConvOf
<1> QED
  BY <1>2, <1>3, <1>4

(* The inductive invariant of the gate.                                     *)
THEOREM GateInvariant == Spec => []IInv
<1>1. ASSUME IInv, [Next]_vars PROVE IInv'
  BY <1>1, ChatIInv, StopIInv, StopAllIInv, OtherIInv, StartCallIInv, CheckIInv, ReplyReuseIInv,
     ReplyAskIInv, ApproveIInv, DeliverIInv, ReturnIInv DEF Next
<1> QED
  BY InitIInv, <1>1, PTL DEF Spec

(* Every variable keeps its type; no round has fewer tool calls left than none. *)
THEOREM GateTypeCorrect == Spec => []TypeOK
<1>1. IInv => TypeOK
  BY DEF IInv
<1> QED BY <1>1, GateInvariant, PTL

(* Nothing reaches a device ungated, whatever turns, stops, clicks and edits of
   the permit lists interleave.                                             *)
THEOREM DualGate == Spec => []SentWasGated
<1>1. IInv => SentWasGated
  BY DEF IInv
<1> QED
  BY <1>1, GateInvariant, PTL

(* A rejected proposal stays rejected.                                      *)
THEOREM RejectedStaysSilent == Spec => []CancelledStaysSilent
<1>1. IInv => CancelledStaysSilent
  BY DEF IInv
<1> QED
  BY <1>1, GateInvariant, PTL

(* The prompts shown are those of calls that wait, none of an aborted turn. *)
THEOREM PromptsHaveWaiters == Spec => []PromptsAreAwaited
<1>1. IInv => PromptsAreAwaited
  BY DEF IInv
<1> QED
  BY <1>1, GateInvariant, PTL
(* A prompt is rejected only by its own conversation or by a stop of all.   *)
THEOREM CancelsOwnOnly == Spec => []CancelIsOwn
<1>1. Init => CancelIsOwn
  BY DEF Init, CancelIsOwn
<1>2. ASSUME IInv, CancelIsOwn, [Next]_vars PROVE CancelIsOwn'
  <2>1. \A k \in Calls : phase[k] # "unused" =>
            turn[k] \in Turns /\ conv[turn[k]] \in Convs /\ conv[turn[k]] # NoConv
    BY <1>2, CommandsAssumption DEF IInv, CallInv, ConvOf
  <2>2. \A k \in Calls : cancelled[k] # NoConv => phase[k] # "unused"
    BY <1>2 DEF IInv, CallInv
  <2>3. ASSUME NEW c \in Convs, NEW ks \in SUBSET waiters, Cancel(ks, c),
               \A k \in ks : ConvOf(k) = c, turn' = turn,
               \A t \in Turns : conv[t] # NoConv => conv'[t] = conv[t]
        PROVE  CancelIsOwn'
    <3>1. \A k \in ks : k \in Calls /\ phase[k] = "gate"
      BY <1>2 DEF IInv, PromptsAreAwaited
    <3>2. \A k \in Calls : cancelled'[k] = IF k \in ks THEN c ELSE cancelled[k]
      BY <2>3 DEF Cancel
    <3>3. \A k \in Calls : phase[k] # "unused" => ConvOf(k)' = ConvOf(k)
      BY <2>1, <2>3 DEF ConvOf
    <3> QED BY <1>2, <2>2, <2>3, <3>1, <3>2, <3>3 DEF CancelIsOwn
  <2>4. ASSUME NEW t \in Turns, NEW c \in Convs, Chat(t, c) PROVE CancelIsOwn'
    BY <1>2, <2>3, <2>4 DEF Chat, CancelConversation, callVars, IInv, TypeOK
  <2>5. ASSUME NEW c \in Convs, Stop(c) PROVE CancelIsOwn'
    BY <2>3, <2>5 DEF Stop, CancelConversation, callVars
  <2>6. CASE StopAll
    BY <1>2, <2>6 DEF StopAll, Cancel, callVars, CancelIsOwn, ConvOf
  <2>7. ASSUME NEW k \in Calls, NEW t \in Turns, NEW m \in Commands, StartCall(k, t, m)
        PROVE  CancelIsOwn'
    BY <1>2, <2>2, <2>7 DEF StartCall, CancelIsOwn, ConvOf, IInv, TypeOK
  <2>8. CASE UNCHANGED <<conv, turn, cancelled>>
    BY <1>2, <2>8 DEF CancelIsOwn, ConvOf
  <2>9. \/ \E t \in Turns : \/ \E n \in 1 .. MaxRound : Round(t, n)
                            \/ EndTurn(t) \/ OtherTool(t)
        \/ \E k \in Calls : \/ Check(k) \/ ReplyReuse(k) \/ ReplyAsk(k)
                            \/ \E a \in Answers \ {"none"} : Approve(k, a)
                            \/ Deliver(k) \/ Lose(k) \/ Return(k)
        \/ \E m \in Commands : EditPermit(m)
        \/ UNCHANGED vars
        => UNCHANGED <<conv, turn, cancelled>>
    BY DEF Round, EndTurn, OtherTool, Check, ReplyReuse, ReplyAsk, Approve, Deliver, Lose, Return,
           EditPermit, vars, turnVars, callVars
  <2> QED BY <1>2, <2>4, <2>5, <2>6, <2>7, <2>8, <2>9 DEF Next
<1> QED BY <1>1, <1>2, GateInvariant, PTL DEF Spec

(* A rejection is final and comes only from the conversation itself or from
   a stop of everything (cancelConversation, approvals.ts:71).              *)
THEOREM CancelsHold == Spec => []CancelHolds
<1>1. CancelledStaysSilent /\ CancelIsOwn => CancelHolds
  BY DEF CancelHolds
<1> QED BY <1>1, RejectedStaysSilent, CancelsOwnOnly, PTL

(* The prompts on show are those of calls that wait, in a state of its type
   (awaitGate, GET /pending).                                               *)
THEOREM PromptsAlwaysAgree == Spec => []PromptsAgree
<1>1. TypeOK /\ PromptsAreAwaited => PromptsAgree
  BY DEF PromptsAgree
<1> QED BY <1>1, GateTypeCorrect, PromptsHaveWaiters, PTL
==============================================================================
