---------------------------- MODULE InventoryTree ----------------------------
(***************************************************************************)
(* The inventory file: the devices, each in a folder or at the root, and   *)
(* the folders, empty ones too.  A folder is the sequence of its names, the *)
(* root is <<>>.  The operations take an inventory and return the new one, *)
(* or Conflict.                                                            *)
(***************************************************************************)
EXTENDS Integers, Sequences, SequencesExt, FiniteSets, Functions

CONSTANTS Conflict

EmptyInventory == [devs |-> <<>>, folders |-> {}]

(* normalize_folder: empty parts and dots are dropped, the others keep     *)
(* their order.                                                            *)
KeptParts(raw) == {i \in DOMAIN raw : raw[i] \notin {"", ".", ".."}}

PlaceOf(i, kept) == Cardinality({j \in kept : j <= i})

(* What stands at some places of a sequence, in their order.               *)
Kept(s, places) ==
  [n \in 1 .. Cardinality(places) |-> s[CHOOSE i \in places : PlaceOf(i, places) = n]]

Normalized(raw) == Kept(raw, KeptParts(raw))

(* A map with one entry put in.                                            *)
Put(map, key, value) ==
  [k \in DOMAIN map \cup {key} |-> IF k = key THEN value ELSE map[k]]

IsUnder(path, ancestor) == IsPrefix(ancestor, path)

(* register_folder: the folder with all its ancestors.                     *)
Ancestry(path) == {SubSeq(path, 1, n) : n \in 1 .. Len(path)}

FolderOf(inv, d) == inv.devs[d].folder

NamedFolders(inv) == inv.folders \cup {FolderOf(inv, d) : d \in DOMAIN inv.devs}

(* InventoryStore::load of an inventory that was read.                     *)
Loaded(inv) ==
  [inv EXCEPT !.folders = @ \cup UNION {Ancestry(f) : f \in NamedFolders(inv)}]

(* A mutant of UpsertDevice: the folder is not registered.               *)
UpsertUnlisted(inv, d, device) ==
  LET folder == Normalized(device.folder)
  IN [devs |-> Put(inv.devs, d, [device EXCEPT !.folder = folder]),
      folders |-> inv.folders \cup {folder}]

UpsertDevice(inv, d, device) ==
  LET folder == Normalized(device.folder)
  IN [devs |-> Put(inv.devs, d, [device EXCEPT !.folder = folder]),
      folders |-> inv.folders \cup Ancestry(folder)]

UpsertFolder(inv, raw) ==
  IF Normalized(raw) = <<>> THEN Conflict
  ELSE [inv EXCEPT !.folders = @ \cup Ancestry(Normalized(raw))]

(* rename_folder: everything under the folder moves along, unless the new  *)
(* name is taken or lies inside.                                           *)
Moved(path, from, to) ==
  IF IsUnder(path, from) THEN to \o SubSeq(path, Len(from) + 1, Len(path)) ELSE path

Taken(inv, from, to) ==
  \E p \in NamedFolders(inv) : IsUnder(p, to) /\ ~IsUnder(p, from)

MoveAll(inv, from, to) ==
  [devs |-> [d \in DOMAIN inv.devs |-> [inv.devs[d] EXCEPT !.folder = Moved(@, from, to)]],
   folders |-> {Moved(f, from, to) : f \in inv.folders} \cup Ancestry(to)]

(* A mutant of RenameFolder: a folder of that name is no obstacle.       *)
RenameOver(inv, rawFrom, rawTo) ==
  LET from == Normalized(rawFrom)
      to   == Normalized(rawTo)
  IN IF from = <<>> \/ to = <<>> \/ IsUnder(to, from) THEN Conflict
     ELSE MoveAll(inv, from, to)

RenameFolder(inv, rawFrom, rawTo) ==
  LET from == Normalized(rawFrom)
      to   == Normalized(rawTo)
  IN IF from = <<>> \/ to = <<>> \/ IsUnder(to, from) \/ Taken(inv, from, to)
     THEN Conflict
     ELSE MoveAll(inv, from, to)

(* A mutant of DeleteFolder: the devices go too.                         *)
DeleteWithDevices(inv, raw) ==
  LET path == Normalized(raw)
  IN IF path = <<>> THEN Conflict
     ELSE [devs |-> Restrict(inv.devs, {d \in DOMAIN inv.devs : ~IsUnder(FolderOf(inv, d), path)}),
           folders |-> {f \in inv.folders : ~IsUnder(f, path)}]

(* delete_folder: the devices under it move to the folder above.           *)
DeleteFolder(inv, raw) ==
  LET path == Normalized(raw)
  IN IF path = <<>> THEN Conflict
     ELSE [devs |-> [d \in DOMAIN inv.devs |->
                      [inv.devs[d] EXCEPT !.folder = IF IsUnder(@, path) THEN Front(path) ELSE @]],
           folders |-> {f \in inv.folders : ~IsUnder(f, path)}]

DeleteDevice(inv, d) == [inv EXCEPT !.devs = Restrict(@, DOMAIN @ \ {d})]

(* Every folder has its ancestors, every device's folder is one of them.   *)
Closed(inv) == \A f \in NamedFolders(inv) : Ancestry(f) \subseteq inv.folders
=============================================================================
