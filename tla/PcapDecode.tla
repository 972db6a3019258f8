----------------------------- MODULE PcapDecode -----------------------------
(***************************************************************************)
(* How pcap.rs reads a capture file, frame by frame, and what it then      *)
(* answers.  A frame keeps what the dissector looks at: the link type, the *)
(* ethertypes met in turn, how far the bytes kept of it reach, and the     *)
(* header fields.                                                          *)
(***************************************************************************)
EXTENDS Integers, FiniteSets, SequencesExt

CONSTANTS Frames,                      \* frames a file may hold
          MaxFrames,                   \* bound on their number
          StoreCap, ScanCap, UiCap,    \* packets kept, looked at, shown
          HitCap, AgentCap, SampleCap  \* indexes of a finding, those told the agent; its packets

ASSUME DecodeAssumption ==
  {MaxFrames, StoreCap, ScanCap, UiCap, HitCap, AgentCap, SampleCap} \subseteq Nat

VARIABLE reader \* the file that is read: its frames so far, and the analyzer

(* reach: 0 ends in the link header, 1 in the next one, 2 has all headers. *)
Frame == [link |-> "ether", types |-> <<"ip4">>, at14 |-> "other", reach |-> 2,
          src |-> "A", dst |-> "B", later |-> FALSE, exts |-> <<>>, proto |-> "tcp",
          sport |-> 1, dport |-> 2, seq |-> 1, win |-> 1, flags |-> {"ack"},
          body |-> "none", mac |-> "m1", code |-> 0, response |-> FALSE]

KnownEthertype == {"ip4", "ip6", "arp", "vlan"}

(* Tags are followed on Ethernet only; a type nobody knows is read again   *)
(* two bytes further on, where a cooked header has it.                     *)
L3Offset(f) ==
  LET first == Head(f.types)
      untagged == SelectSeq(f.types, LAMBDA t : t # "vlan")
  IN CASE f.reach = 0 -> "none"
       [] f.reach > 0 /\ f.link = "cooked" -> first
       [] f.reach > 0 /\ f.link = "raw" -> IF first \in {"ip4", "ip6"} THEN first ELSE "none"
       [] OTHER -> CASE first \notin KnownEthertype -> f.at14
                     [] first \in KnownEthertype /\ untagged = <<>> -> "vlan"
                     [] OTHER -> Head(untagged)

MaxExts == 8

SkipIpv6Ext(f) == IF Len(f.exts) > MaxExts THEN f.exts[MaxExts + 1] ELSE f.proto

(* A mutant of Fragment: the offset is not looked at.                      *)
NoFragment(f) == FALSE

(* IPv4 only: a later fragment of IPv6 is read like a first one.           *)
Fragment(f) == L3Offset(f) = "ip4" /\ f.later

(* What the dissector takes the frame for.                                 *)
Dissected(f) ==
  LET l3 == L3Offset(f)
      l4 == IF l3 = "ip6" THEN SkipIpv6Ext(f) ELSE f.proto
  IN CASE l3 = "arp" -> IF f.reach = 2 THEN "arp" ELSE "other"
       [] l3 = "ip4" /\ f.reach >= 1 /\ Fragment(f) -> "ipv4"
       [] l3 \in {"ip4", "ip6"} /\ ~Fragment(f) ->
            IF f.reach < 2 /\ l4 \in {"tcp", "udp", "icmp"} THEN "other"
            ELSE CASE l4 = "udp" /\ 53 \in {f.sport, f.dport} -> "dns"
                   [] OTHER -> l4
       [] OTHER -> "other"

HasAddresses(f) == L3Offset(f) \in {"ip4", "ip6"} /\ f.reach >= 1

Flow(f) == <<f.src, f.dst, f.sport, f.dport, f.seq>>

(* The bytes after the TCP header; padding counts.                         *)
Carries(f) == f.body # "none" \/ f.flags \cap {"syn", "fin"} # {}

Kinds == <<"retransmit", "zero_window", "dns_failure", "tls_alert", "refused",
           "icmp_unreach", "arp_conflict", "cleartext_creds">>

Analyzer == [seen |-> {}, arp |-> {}, hits |-> [k \in ToSet(Kinds) |-> <<>>], packets |-> <<>>]

(* A mutant of Repeats: segments without data count.                       *)
RepeatsAny(a, f) == Flow(f) \in a.seen

Repeats(a, f) == Carries(f) /\ Flow(f) \in a.seen

TcpHits(a, f) ==
  {k \in {"refused", "zero_window", "retransmit", "tls_alert", "cleartext_creds"} :
     CASE k = "refused" -> "rst" \in f.flags
       [] k = "zero_window" -> f.win = 0 /\ f.flags \cap {"rst", "syn"} = {}
       [] k = "retransmit" -> Repeats(a, f)
       [] k = "tls_alert" -> f.body = "alert"
       [] k = "cleartext_creds" -> 80 \in {f.sport, f.dport} /\ f.body = "login"}

(* A mutant of Conflicts: any second claim conflicts.                      *)
ConflictsAny(a, f) == \E p \in a.arp : p[1] = f.src

Conflicts(a, f) == \E p \in a.arp : p[1] = f.src /\ p[2] # f.mac

HitsOf(a, f) ==
  LET is == Dissected(f)
  IN CASE is = "tcp" -> TcpHits(a, f)
       [] is = "dns" -> IF f.response /\ f.code # 0 THEN {"dns_failure"} ELSE {}
       [] is = "icmp" -> IF f.code = (IF L3Offset(f) = "ip6" THEN 1 ELSE 3)
                         THEN {"icmp_unreach"} ELSE {}
       [] is = "arp" -> IF Conflicts(a, f) THEN {"arp_conflict"} ELSE {}
       [] OTHER -> {}

Summary(f, i) ==
  [index |-> i, protocol |-> Dissected(f),
   src |-> IF Dissected(f) = "arp" \/ HasAddresses(f) THEN f.src ELSE ""]

(* The first frame of a capture has index 0.                               *)
Dissect(a, f, i) ==
  [seen |-> IF Dissected(f) = "tcp" /\ Carries(f) THEN a.seen \cup {Flow(f)} ELSE a.seen,
   arp |-> IF Dissected(f) = "arp" /\ ~\E p \in a.arp : p[1] = f.src
           THEN a.arp \cup {<<f.src, f.mac>>} ELSE a.arp,
   hits |-> [k \in DOMAIN a.hits |->
               IF k \in HitsOf(a, f) THEN Append(a.hits[k], i) ELSE a.hits[k]],
   packets |-> IF Len(a.packets) < StoreCap
               THEN Append(a.packets, Summary(f, i)) ELSE a.packets]

Take(s, n) == IF Len(s) > n THEN SubSeq(s, 1, n) ELSE s

(* What stands at the places of s, in order: SelectSeq, without recursion. *)
Nth(places, n) == CHOOSE i \in places : Cardinality({j \in places : j <= i}) = n
Sifted(s, places) == [n \in 1 .. Cardinality(places) |-> s[Nth(places, n)]]

Closed == [pc |-> "closed", frames |-> <<>>, a |-> Analyzer]

OpenFile ==
  /\ reader.pc = "closed" /\ MaxFrames > 0
  /\ reader' = [reader EXCEPT !.pc = "reading"]

ReadFrame(f) ==
  /\ reader.pc = "reading" /\ Len(reader.frames) < MaxFrames
  /\ reader' = [reader EXCEPT
       !.frames = Append(@, f),
       !.a = IF Len(reader.frames) < ScanCap THEN Dissect(@, f, Len(reader.frames)) ELSE @]

(* At the end, or at a record that is cut or too long: what follows is not *)
(* read, and nothing says so.                                              *)
EndOfFile ==
  /\ reader.pc = "reading"
  /\ reader' = [reader EXCEPT !.pc = "read"]

ReaderNext == OpenFile \/ (\E f \in Frames : ReadFrame(f)) \/ EndOfFile

(* A mutant of PushFinding: packets that are not stored are listed.        *)
PushAll(kind, hits) == [kind |-> kind, count |-> Len(hits), indexes |-> Take(hits, HitCap)]

PushFinding(kind, hits) ==
  [kind |-> kind, count |-> Len(hits),
   indexes |-> Take(Sifted(hits, {n \in DOMAIN hits : hits[n] < StoreCap}), HitCap)]

Findings(a) ==
  Sifted([n \in DOMAIN Kinds |-> PushFinding(Kinds[n], a.hits[Kinds[n]])],
         {n \in DOMAIN Kinds : a.hits[Kinds[n]] # <<>>})

(* A mutant of Total: what is stored is taken for what was looked at.      *)
TotalStored == Len(reader.a.packets)

Total == LET n == Len(reader.frames) IN IF n > ScanCap THEN ScanCap ELSE n

AnalyzeFrames ==
  [packets |-> reader.a.packets, findings |-> Findings(reader.a), total |-> Total,
   truncated |-> Total >= ScanCap \/ Total > Len(reader.a.packets)]

FindingsForAgent(findings) ==
  [n \in DOMAIN findings |-> [findings[n] EXCEPT !.indexes = Take(@, AgentCap)]]

(* A request of the agent is for everything, or for a protocol.            *)
QueryAnalysis(parse, q) ==
  [findings |-> FindingsForAgent(parse.findings),
   matches |-> LET at == {n \in DOMAIN parse.packets : q \in {"summary", parse.packets[n].protocol}}
               IN  Take(Sifted(parse.packets, at), SampleCap)]

UiPackets(packets) == Take(packets, UiCap)

(* A mutant of Differs: a field that the packet lacks does not.            *)
DiffersIfThere(p, part) == p.src # "" /\ p.protocol # "arp" /\ p.src # part.value

(* A field that the packet lacks differs from every value, and so does a   *)
(* quoted value.                                                           *)
Differs(p, part) == part.quoted \/ p.src = "" \/ p.protocol = "arp" \/ p.src # part.value

(* parts: what " and " separates: [op, value, quoted] on ip.src, or a text *)
(* which is looked for in the protocol.                                    *)
Matches(p, part) ==
  CASE part.op = "==" -> part.value = p.src
    [] part.op = "!=" -> Differs(p, part)
    [] part.op = "text" -> part.value = p.protocol

FilterPackets(packets, parts) ==
  IF parts = <<>> THEN UiPackets(packets)
  ELSE LET at == {i \in DOMAIN packets : \A n \in DOMAIN parts : Matches(packets[i], parts[n])}
       IN  Take(Sifted(packets, at), UiCap)

-----------------------------------------------------------------------------
Parsed == reader.pc = "read"

IndexesOf(findings, kind) ==
  UNION {Range(findings[n].indexes) : n \in {m \in DOMAIN findings : findings[m].kind = kind}}

Listed(kind) == IndexesOf(AnalyzeFrames.findings, kind)

(* What is not marked as cut short has a packet for every frame that was   *)
(* read, at its own index, and the total counts the frames looked at.      *)
CutsAreTold ==
  Parsed => LET p == AnalyzeFrames IN
    /\ ~p.truncated => Len(p.packets) = Len(reader.frames) /\ p.total = Len(reader.frames)
    /\ \A n \in DOMAIN p.packets : p.packets[n].index = n - 1
    /\ p.total >= Len(p.packets)

(* Every index of a finding, and of the shorter list for the agent, is one *)
(* of a stored packet, so the view can show it.                            *)
FindingsPointAtPackets ==
  Parsed => LET p == AnalyzeFrames IN
    \A fs \in {p.findings, QueryAnalysis(p, "summary").findings} :
      \A n \in DOMAIN fs : \A i \in Range(fs[n].indexes) : i + 1 \in DOMAIN p.packets

(* A retransmission repeats the sequence number of an earlier segment of   *)
(* its flow, and every repetition is listed while there is room.           *)
RetransmitsRepeat ==
  Parsed =>
    LET fr == reader.frames
        Segment(n) == n <= ScanCap /\ Dissected(fr[n]) = "tcp" /\ Carries(fr[n])
        repeats == {n - 1 : n \in {m \in DOMAIN fr :
                      Segment(m) /\ \E k \in 1..(m - 1) : Segment(k) /\ Flow(fr[k]) = Flow(fr[m])}}
    IN /\ Listed("retransmit") \subseteq repeats
       /\ Cardinality(repeats) <= HitCap
            => Listed("retransmit") = {i \in repeats : i < StoreCap}

(* An ARP conflict is a claim that differs from the first one made for the *)
(* address.                                                                *)
ConflictsDiffer ==
  Parsed =>
    \A i \in Listed("arp_conflict") : \E k \in 1..i :
      /\ Dissected(reader.frames[k]) = "arp" /\ reader.frames[k].src = reader.frames[i + 1].src
      /\ reader.frames[k].mac # reader.frames[i + 1].mac

(* A later fragment of IPv4 has no ports: it is in no finding.             *)
FragmentsAreSilent ==
  Parsed =>
    \A n \in DOMAIN reader.frames :
      L3Offset(reader.frames[n]) = "ip4" /\ reader.frames[n].later
        => \A k \in Range(Kinds) : n - 1 \notin Listed(k)

(* What the views and the agent are given are stored packets, in order,    *)
(* and a filter and its opposite together miss nothing that has a source.  *)
FiltersSplit ==
  Parsed =>
    LET p == AnalyzeFrames.packets
        Of(op) == FilterPackets(p, <<[op |-> op, value |-> "A", quoted |-> FALSE]>>)
    IN /\ Len(FilterPackets(p, <<>>)) = Len(p) => Range(Of("==")) \cup Range(Of("!=")) = Range(p)
       /\ \A op \in {"==", "!="} : \A i, j \in DOMAIN Of(op) :
            i < j => Of(op)[i].index < Of(op)[j].index

(* What the analyzer says of a file is so: cuts are told, findings are of  *)
(* stored packets that show what the finding says, and filters lose none.  *)
FindingsTrue ==
  /\ CutsAreTold /\ FindingsPointAtPackets /\ RetransmitsRepeat
  /\ ConflictsDiffer /\ FragmentsAreSilent /\ FiltersSplit
=============================================================================
