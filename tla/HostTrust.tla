------------------------------ MODULE HostTrust ------------------------------
(***************************************************************************)
(* Host keys: known_hosts.rs, the trust decision of ssh.rs::open_ssh, the  *)
(* two handlers of session.rs that pin keys, open_ssh and accept_host_key, *)
(* and the other users of ssh (sftp, remote capture, push), which only     *)
(* connect to hosts that are pinned in the file.                           *)
(*                                                                         *)
(* The pins live in memory (Inner.known, under the session lock) and in    *)
(* known_hosts.toml.  session.rs::open_ssh clones the memory map, works on *)
(* the clone for as long as scanning and spawning ssh take, and then makes *)
(* the clone the memory map and the file.  accept_host_key changes one     *)
(* entry under the lock.                                                   *)
(*                                                                         *)
(* A key stands for its fingerprint; keys are numbers so that a smaller    *)
(* one is of a more preferred type (KEY_ALGO_PREF).  A scan is the set of  *)
(* keys that ssh-keyscan printed and which of them it printed first.  Any  *)
(* scan is possible at any time: a host changes its keys, something in     *)
(* between shows others, and a busy host omits some.                       *)
(***************************************************************************)
EXTENDS Naturals

CONSTANTS
    Hosts,      \* host pin keys ("host" or "[host]:port")
    Keys,       \* host keys, by preference
    Handlers,   \* session.open and known_hosts.accept calls in progress
    NoKey,      \* no pin, no known_hosts line
    NoHost      \* the host of an idle handler

ASSUME KeysAssumption == Keys \subseteq Nat /\ Keys # {} /\ NoKey \notin Keys

VARIABLES
    cache,      \* KEYSCAN_CACHE: the fresh scans, at most one for a host
    mem,        \* Inner.known.pins
    file,       \* known_hosts.toml
    line,       \* line[h]: the key in ssh-known/<host>.known
    pc,         \* pc[c]: where handler c is
    host,       \* host[c]: the host it works on
    flags,      \* flags[c]: session.open, accept_unknown_host, replace_host_key
    local,      \* local[c]: the clone of the pins; of accept, the fingerprint
    scan,       \* scan[c]: what keyscan gave
    children,   \* hosts that a spawned ssh has not yet verified
    permitted   \* permitted[h]: keys a client allowed for h (history)

trustVars == <<cache, mem, file, line, pc, host, flags, local, scan, children,
               permitted>>

diskVars == <<file, line>>

Pins == [Hosts -> Keys \cup {NoKey}]
NoPins == [h \in Hosts |-> NoKey]
NoScan == [keys |-> {}, first |-> CHOOSE k \in Keys : TRUE]
NoFlags == [session |-> FALSE, unknown |-> FALSE, replace |-> FALSE]
Scans == {sc \in [keys : SUBSET Keys, first : Keys] : sc.first \in sc.keys}
Flags == [session : BOOLEAN, unknown : BOOLEAN, replace : BOOLEAN]

TrustTypeOK ==
    /\ cache \subseteq [host : Hosts, scan : Scans]
    /\ \A e1, e2 \in cache : e1.host = e2.host => e1 = e2
    /\ mem \in Pins
    /\ file \in Pins
    /\ line \in Pins
    /\ pc \in [Handlers -> {"idle", "scan", "rescan", "decide", "line", "spawn", "publish",
                            "probe", "pin"}]
    /\ host \in [Handlers -> Hosts \cup {NoHost}]
    /\ flags \in [Handlers -> Flags]
    /\ local \in [Handlers -> Pins]
    /\ scan \in [Handlers -> Scans \cup {NoScan}]
    /\ children \subseteq Hosts
    /\ permitted \in [Hosts -> SUBSET Keys]

TrustInit ==
    /\ cache = {}
    /\ mem = NoPins /\ file = NoPins /\ line = NoPins
    /\ pc = [c \in Handlers |-> "idle"]
    /\ host = [c \in Handlers |-> NoHost]
    /\ flags = [c \in Handlers |-> NoFlags]
    /\ local = [c \in Handlers |-> NoPins]
    /\ scan = [c \in Handlers |-> NoScan]
    /\ children = {}
    /\ permitted = [h \in Hosts |-> {}]

MoveTo(c, l) == pc' = [pc EXCEPT ![c] = l]

\* The handler returns; its local variables are gone.
Answer(c) ==
    /\ MoveTo(c, "idle")
    /\ host' = [host EXCEPT ![c] = NoHost]
    /\ flags' = [flags EXCEPT ![c] = NoFlags]
    /\ local' = [local EXCEPT ![c] = NoPins]
    /\ scan' = [scan EXCEPT ![c] = NoScan]

\* pick_keyscan_entry_for_pin: the pinned key if it was scanned, otherwise the
\* key of the most preferred type.
Preferred(sc) == CHOOSE k \in sc.keys : \A j \in sc.keys : k <= j

\* Mutant of Chosen: the preferred key, whatever is pinned.
ChosenPreferred(sc, pin) == Preferred(sc)

Chosen(sc, pin) == IF pin \in sc.keys THEN pin ELSE Preferred(sc)

\* Mutant of Match: any pin will do.
MatchAnyPin(pin, sc) == pin \in Keys

\* KnownHosts::check_any.
Unknown(pin) == pin = NoKey
Match(pin, sc) == pin \in sc.keys
Mismatch(pin, sc) == pin # NoKey /\ pin \notin sc.keys

-----------------------------------------------------------------------------
(* session.open, kind ssh.                                                 *)

\* The pins are cloned under the lock; the lock is not held any longer.
OpenSsh(c, h, f) ==
    /\ pc[c] = "idle"
    /\ f.session
    /\ host' = [host EXCEPT ![c] = h]
    /\ flags' = [flags EXCEPT ![c] = f]
    /\ local' = [local EXCEPT ![c] = mem]
    /\ MoveTo(c, "scan")
    /\ UNCHANGED <<cache, mem, diskVars, scan, children, permitted>>

\* pinned_known_hosts_file: the pins come from the file, and no flag is given.
OtherSsh(c, h) ==
    /\ pc[c] = "idle"
    /\ host' = [host EXCEPT ![c] = h]
    /\ local' = [local EXCEPT ![c] = file]
    /\ MoveTo(c, "scan")
    /\ UNCHANGED <<cache, mem, diskVars, flags, scan, children, permitted>>

\* probe_keyscan_text: a cached scan of the host, or a live one that is cached.
Probe(c) ==
    \/ /\ \E e \in cache : e.host = host[c] /\ scan' = [scan EXCEPT ![c] = e.scan]
       /\ UNCHANGED cache
    \/ /\ \A e \in cache : e.host # host[c]
       /\ \E sc \in Scans :
             /\ scan' = [scan EXCEPT ![c] = sc]
             /\ cache' = cache \cup {[host |-> host[c], scan |-> sc]}

\* The pin a handler decides by is the one in its clone.
Pinned(c) == local[c][host[c]]

Scan(c) ==
    /\ pc[c] = "scan"
    /\ Probe(c)
    /\ \/ /\ Mismatch(Pinned(c), scan'[c])
          /\ MoveTo(c, "rescan")
       \/ /\ ~Mismatch(Pinned(c), scan'[c])
          /\ MoveTo(c, "decide")
    /\ UNCHANGED <<mem, diskVars, host, flags, local, children, permitted>>

\* Mutant of Rescan: the cache keeps the old scan too.
RescanKeepsOld(c) ==
    /\ pc[c] = "rescan"
    /\ \E sc \in Scans :
          /\ scan' = [scan EXCEPT ![c] = sc]
          /\ cache' = cache \cup {[host |-> host[c], scan |-> sc]}
    /\ MoveTo(c, "decide")
    /\ UNCHANGED <<mem, diskVars, host, flags, local, children, permitted>>

\* The pin is missing from the scan: scan again past the cache.
Rescan(c) ==
    /\ pc[c] = "rescan"
    /\ \E sc \in Scans :
          /\ scan' = [scan EXCEPT ![c] = sc]
          /\ cache' = {e \in cache : e.host # host[c]} \cup {[host |-> host[c], scan |-> sc]}
    /\ MoveTo(c, "decide")
    /\ UNCHANGED <<mem, diskVars, host, flags, local, children, permitted>>

\* Errors of any step before the session or the pin exists: unreachable host, untrusted
\* or changed key, a vault or spawn error.  Nothing is undone.
Fails(c) ==
    /\ pc[c] \in {"scan", "rescan", "decide", "line", "spawn", "probe"}
    /\ Answer(c)
    /\ UNCHANGED <<cache, mem, diskVars, children, permitted>>

\* The pin changes in the clone, and the whole clone is saved.
PinClone(c, k) ==
    /\ local' = [local EXCEPT ![c][host[c]] = k]
    /\ file' = local'[c]

\* The keys that the flags of a call allow for what was scanned: of a host that
\* is unknown or changed, the key that is pinned and the one ssh will get.
Permits(c) ==
    {k \in {Preferred(scan[c]), scan[c].first} :
        \/ Unknown(Pinned(c)) /\ flags[c].unknown /\ k = Preferred(scan[c])
        \/ Mismatch(Pinned(c), scan[c]) /\ flags[c].replace}

\* The entry of the scan that the handler goes on with.
KeepChosen(c) ==
    LET k == Chosen(scan[c], Pinned(c)) IN scan' = [scan EXCEPT ![c] = [keys |-> {k}, first |-> k]]

\* Mutant of Decide: an unknown host is pinned without asking.
DecideUnasked(c) ==
    /\ pc[c] = "decide"
    /\ \/ Match(Pinned(c), scan[c]) /\ UNCHANGED <<local, file>>
       \/ Unknown(Pinned(c)) /\ PinClone(c, Preferred(scan[c]))
       \/ Mismatch(Pinned(c), scan[c]) /\ flags[c].replace /\ PinClone(c, scan[c].first)
    /\ permitted' = [permitted EXCEPT ![host[c]] = @ \cup Permits(c)]
    /\ KeepChosen(c)
    /\ MoveTo(c, "line")
    /\ UNCHANGED <<cache, mem, line, host, flags, children>>

\* check_any: go on when the pin was scanned; pin the chosen key of an unknown
\* host, or the first scanned key of a changed host, when the client allows it.
Decide(c) ==
    /\ pc[c] = "decide"
    /\ \/ Match(Pinned(c), scan[c]) /\ UNCHANGED <<local, file>>
       \/ Unknown(Pinned(c)) /\ flags[c].unknown /\ PinClone(c, Preferred(scan[c]))
       \/ Mismatch(Pinned(c), scan[c]) /\ flags[c].replace /\ PinClone(c, scan[c].first)
    /\ permitted' = [permitted EXCEPT ![host[c]] = @ \cup Permits(c)]
    /\ KeepChosen(c)
    /\ MoveTo(c, "line")
    /\ UNCHANGED <<cache, mem, line, host, flags, children>>

\* write_openssh_known_hosts: the chosen key is the only line.
WriteLine(c) ==
    /\ pc[c] = "line"
    /\ line' = [line EXCEPT ![host[c]] = scan[c].first]
    /\ MoveTo(c, "spawn")
    /\ UNCHANGED <<cache, mem, file, host, flags, local, scan, children, permitted>>

\* ssh runs with StrictHostKeyChecking=yes and that file.
Spawn(c) ==
    /\ pc[c] = "spawn"
    /\ children' = children \cup {host[c]}
    /\ MoveTo(c, "publish")
    /\ UNCHANGED <<cache, mem, diskVars, host, flags, local, scan, permitted>>

\* The clone becomes the memory map and the file.
Publish(c) ==
    /\ pc[c] = "publish"
    /\ flags[c].session
    /\ mem' = local[c]
    /\ file' = local[c]
    /\ Answer(c)
    /\ UNCHANGED <<cache, line, children, permitted>>

\* The save fails: an error, with the clone in memory and the old file.
PublishFails(c) ==
    /\ pc[c] = "publish"
    /\ flags[c].session
    /\ mem' = local[c]
    /\ Answer(c)
    /\ UNCHANGED <<cache, diskVars, children, permitted>>

\* sftp, capture and push run with the file and pin nothing.
OtherEnds(c) ==
    /\ pc[c] = "publish"
    /\ ~flags[c].session
    /\ Answer(c)
    /\ UNCHANGED <<cache, mem, diskVars, children, permitted>>

-----------------------------------------------------------------------------
(* known_hosts.accept.                                                     *)

AcceptHostKey(c, h, fp) ==
    /\ pc[c] = "idle"
    /\ host' = [host EXCEPT ![c] = h]
    /\ local' = [local EXCEPT ![c] = [NoPins EXCEPT ![h] = fp]]
    /\ permitted' = [permitted EXCEPT ![h] = @ \cup {fp}]
    /\ MoveTo(c, "probe")
    /\ UNCHANGED <<cache, mem, diskVars, flags, scan, children>>

\* The fingerprint must be that of the preferred key of a scan; otherwise the
\* handler fails (Fails), as it does when there is no scan.
AcceptProbe(c) ==
    /\ pc[c] = "probe"
    /\ Probe(c)
    /\ Preferred(scan'[c]) = Pinned(c)
    /\ MoveTo(c, "pin")
    /\ UNCHANGED <<mem, diskVars, host, flags, local, children, permitted>>

\* Under the lock: one entry of the memory map, and save it (or fail to).
AcceptPin(c) ==
    /\ pc[c] = "pin"
    /\ mem' = [mem EXCEPT ![host[c]] = Pinned(c)]
    /\ file' \in {mem', file}
    /\ Answer(c)
    /\ UNCHANGED <<cache, line, children, permitted>>

-----------------------------------------------------------------------------
(* ssh, time and restarts.                                                 *)

\* ssh reads the file when it connects; it goes on only with that key.
ChildVerifies(h) ==
    /\ h \in children
    /\ children' = children \ {h}
    /\ UNCHANGED <<cache, mem, diskVars, pc, host, flags, local, scan, permitted>>

CacheExpires ==
    /\ cache' = {}
    /\ UNCHANGED <<mem, diskVars, pc, host, flags, local, scan, children, permitted>>

\* App::boot loads the file.
Restart ==
    /\ mem' = file
    /\ cache' = {}
    /\ pc' = [c \in Handlers |-> "idle"]
    /\ host' = [c \in Handlers |-> NoHost]
    /\ flags' = [c \in Handlers |-> NoFlags]
    /\ local' = [c \in Handlers |-> NoPins]
    /\ scan' = [c \in Handlers |-> NoScan]
    /\ children' = {}
    /\ UNCHANGED <<diskVars, permitted>>

TrustNext ==
    \/ \E c \in Handlers :
          \/ \E h \in Hosts, f \in Flags : OpenSsh(c, h, f)
          \/ \E h \in Hosts : OtherSsh(c, h)
          \/ \E h \in Hosts, fp \in Keys : AcceptHostKey(c, h, fp)
          \/ Scan(c) \/ Rescan(c) \/ Fails(c) \/ Decide(c)
          \/ WriteLine(c) \/ Spawn(c) \/ Publish(c) \/ PublishFails(c) \/ OtherEnds(c)
          \/ AcceptProbe(c) \/ AcceptPin(c)
    \/ \E h \in Hosts : ChildVerifies(h)
    \/ CacheExpires \/ Restart

TrustSpec == TrustInit /\ [][TrustNext]_trustVars

-----------------------------------------------------------------------------
(* Properties.                                                             *)

(* The key that an ssh will insist on when it connects is one that a client
   allowed for that host, whichever handlers share the host's known_hosts file
   and whatever is cloned, cached, lost or reloaded in between.             *)
SshExpectsPermitted == \A h \in children : line[h] \in permitted[h]

(* No clone, save, failure or restart puts a key into the pins, in memory or
   on disk, that no client allowed for that very host.                      *)
PinsWerePermitted ==
    \A h \in Hosts : {mem[h], file[h]} \subseteq permitted[h] \cup {NoKey}

(* Every variable keeps its type, and no key that no client allowed for the
   host is pinned anywhere or expected by ssh.                              *)
KeysPermitted == TrustTypeOK /\ PinsWerePermitted /\ SshExpectsPermitted

(* A handler that was given neither flag goes on to ssh only for a host that
   was pinned when it started, and writes that pin as the line (ssh.rs:421). *)
PlainOpenUsesPin ==
    \A c \in Handlers :
        pc[c] \in {"line", "spawn", "publish"} /\ ~flags[c].unknown /\ ~flags[c].replace =>
            Pinned(c) # NoKey /\ scan[c].first = Pinned(c)
==============================================================================
