----------------------------- MODULE ImportFiles -----------------------------
(***************************************************************************)
(* What an import reads out of a file of another program.  A file is the   *)
(* sequence of its lines, each with what the reader takes from it; the     *)
(* result is the sequence of the devices [name, host, port, folder].       *)
(***************************************************************************)
EXTENDS InventoryTree

CONSTANTS Patterns,  \* host names with a * or a ?
          NoText,    \* an empty field
          NoHost     \* an ssh host whose HostName was not given

ASSUME ImportAssumption == NoText \in STRING /\ NoHost \notin STRING

(* The lines of the files, as their readers take them apart.               *)
CsvRow == [name : STRING, host : STRING, port : Nat, folder : Seq(STRING)]

SshLine == [key : {"host"}, value : Seq(STRING)] \cup [key : {"hostname"}, value : STRING]
             \cup [key : {"port"}, value : Nat]
             \cup [key : STRING \ {"host", "hostname", "port"}, value : STRING]

XmlLine == [key : {"name", "hostname"}, value : STRING] \cup [key : {"port"}, value : Nat]
             \cup [key : {"end"}, value : {NoText}]

MobaLine == [ssh : BOOLEAN, parts : Nat, name : STRING, host : STRING]

ImportFile == [kind : {"csv"}, lines : Seq(CsvRow)] \cup [kind : {"ssh"}, lines : Seq(SshLine)]
                \cup [kind : {"xml"}, lines : Seq(XmlLine)]
                \cup [kind : {"moba"}, lines : Seq(MobaLine)]

DefaultPort == 22

Device(name, host, port) == [name |-> name, host |-> host, port |-> port, folder |-> <<>>]

Or(text, default) == IF text = NoText THEN default ELSE text

(* import_csv: a row is a device, unless it has no host.                   *)
FromCsv(rows) ==
  LET kept == Kept(rows, {i \in DOMAIN rows : rows[i].host # NoText})
  IN [i \in DOMAIN kept |->
       [Device(Or(kept[i].name, kept[i].host), kept[i].host, IF kept[i].port = 0 THEN DefaultPort ELSE kept[i].port)
         EXCEPT !.folder = kept[i].folder]]

NoSession == [name |-> NoText, hostname |-> NoText, port |-> DefaultPort]

(* import_ssh_config: a Host line closes the block before it; the devices  *)
(* of a block are its names that are no patterns.                          *)
NewBlock(names) == [names |-> names, host |-> NoHost, port |-> DefaultPort]

HostIn(block, name) == IF block.host = NoHost THEN name ELSE block.host

Close(block) ==
  LET plain == Kept(block.names, {i \in DOMAIN block.names : block.names[i] \notin Patterns})
  IN [i \in DOMAIN plain |-> Device(plain[i], HostIn(block, plain[i]), block.port)]

(* A mutant of ReadLine: a new block keeps what the last one said.       *)
KeepsBlock(state, line) ==
  CASE line.key = "host" -> [out |-> state.out \o Close(state.block),
                             block |-> [state.block EXCEPT !.names = line.value]]
    [] line.key \in {"hostname", "port"} ->
         [state EXCEPT !.block[IF line.key = "hostname" THEN "host" ELSE "port"] = line.value]
    [] OTHER -> state

ReadLine(state, line) ==
  CASE line.key = "host" -> [out |-> state.out \o Close(state.block),
                             block |-> NewBlock(line.value)]
    [] line.key = "hostname" -> [state EXCEPT !.block.host = line.value]
    [] line.key = "port" -> [state EXCEPT !.block.port = line.value]
    [] OTHER -> state

(* The state of the reader after n lines.                                  *)
SshRead(lines) ==
  LET after[n \in 0 .. Len(lines)] ==
        IF n = 0 THEN [out |-> <<>>, block |-> NewBlock(<<>>)] ELSE ReadLine(after[n - 1], lines[n])
  IN after

FromSshConfig(lines) ==
  LET end == SshRead(lines)[Len(lines)] IN end.out \o Close(end.block)

(* import_securecrt_xml: fields gather until the session ends; a session   *)
(* without a host is dropped with its fields.                              *)
ReadTag(state, line) ==
  IF line.key # "end" THEN [state EXCEPT !.session[line.key] = line.value]
  ELSE LET s == state.session
       IN [out |-> IF s.hostname = NoText THEN state.out
                   ELSE Append(state.out, Device(Or(s.name, s.hostname), s.hostname, s.port)),
           session |-> NoSession]

XmlRead(lines) ==
  LET after[n \in 0 .. Len(lines)] ==
        IF n = 0 THEN [out |-> <<>>, session |-> NoSession] ELSE ReadTag(after[n - 1], lines[n])
  IN after

FromXml(lines) == XmlRead(lines)[Len(lines)].out

(* import_mobaxterm: a bookmark is a device, if one of its parts is an     *)
(* address.                                                                *)
FromMoba(lines) ==
  LET kept == Kept(lines, {i \in DOMAIN lines : /\ lines[i].ssh /\ lines[i].parts >= 5
                                                /\ lines[i].host # NoText})
  IN [i \in DOMAIN kept |-> Device(kept[i].name, kept[i].host, DefaultPort)]

(* import_file: the reader goes by the name of the file.                   *)
Parse(file) == CASE file.kind = "csv" -> FromCsv(file.lines)
                 [] file.kind = "xml" -> FromXml(file.lines)
                 [] file.kind = "moba" -> FromMoba(file.lines)
                 [] OTHER -> FromSshConfig(file.lines)

(* What a device of an ssh configuration must say, read from the file      *)
(* alone: the last value of the block that names it, or the default.       *)
BlockOf(lines, i) ==
  {j \in i + 1 .. Len(lines) : \A k \in i + 1 .. j : lines[k].key # "host"}

Setting(lines, i, key, default) ==
  LET at == {j \in BlockOf(lines, i) : lines[j].key = key}
  IN IF at = {} THEN default ELSE lines[CHOOSE j \in at : \A k \in at : k <= j].value

Named(lines) == {i \in 1 .. Len(lines) : lines[i].key = "host"}

Described(lines) ==
  UNION {{Device(n, Setting(lines, i, "hostname", n), Setting(lines, i, "port", DefaultPort)) :
            n \in Range(lines[i].value) \ Patterns} : i \in Named(lines)}

(* The same for the sessions of an XML file, each up to its end; one       *)
(* without a name has the name of its host.                                *)
Field(lines, end, key, default) ==
  LET at == {j \in 1 .. end : /\ lines[j].key = key
                              /\ \A k \in j .. end - 1 : lines[k].key # "end"}
  IN IF at = {} THEN default ELSE lines[CHOOSE j \in at : \A k \in at : k <= j].value

Sessions(lines) ==
  {Device(Or(Field(lines, i, "name", NoText), Field(lines, i, "hostname", NoText)),
          Field(lines, i, "hostname", NoText), Field(lines, i, "port", DefaultPort)) :
     i \in {j \in 1 .. Len(lines) : /\ lines[j].key = "end"
                                     /\ Field(lines, j, "hostname", NoText) # NoText}}
=============================================================================
