----------------------------- MODULE FileStores -----------------------------
(***************************************************************************)
(* The files Late keeps: inventory, login profiles, the password vault,    *)
(* provider keys, command collections and settings.  Every handler reads   *)
(* a file, changes its copy and writes it back, under no lock; handlers of *)
(* several connections run side by side, any step may fail, and the daemon *)
(* may stop between two of them.                                           *)
(***************************************************************************)
EXTENDS InventoryTree, Confine, ImportFiles

CONSTANTS Callers, Devices, Profiles, Names,
          Chosen,        \* the devices a client names
          Folders,       \* the folders as a client writes them
          KeyFiles,      \* private keys as a client names them
          ImportPaths, ImportAt,  \* [real path -> what the file holds]
          Urls, Loopback,\* helper addresses, the ones on this computer
          SettingDirs,   \* folders in the settings
          Known,         \* PROVIDER_NAMES
          Absent, NoProfile, NoFile,
          StartFiles,    \* contents of the files when the behaviour begins
          MaxCalls, MaxFaults \* bounds on the calls, on failed steps and stops

ASSUME StoreAssumption ==
  /\ Absent \notin {NoFile, Conflict} /\ NoProfile \notin Profiles
  /\ MaxCalls \in Nat /\ MaxFaults \in Nat

VARIABLES disk,    \* [inv, auth, vault, keys, cols, settings |-> content]
          tmp,     \* files being written beside them
          mem,     \* the settings in memory
          call,    \* [Callers -> the handler: its step and what it holds]
          calls, faults,
          acked,   \* history: entries <<file, id>> a handler saved last
          lost,    \* history: entries a save of an older copy dropped
          asked,   \* history: profiles whose password somebody asked to keep
          dropped, \* history: profiles somebody asked to delete
          crossed  \* history: settings were saved while others were published

vars == <<disk, tmp, mem, call, calls, faults, acked, lost, asked, dropped, crossed>>

Files6 == {"inv", "auth", "vault", "keys", "cols", "settings"}

Blank == [pc |-> "load", result |-> "none", op |-> "", todo |-> <<>>, held |-> Absent,
          id |-> NoFile, prof |-> NoProfile, login |-> NoProfile,
          device |-> [folder |-> <<>>, prof |-> NoProfile],
          path |-> <<>>, to |-> <<>>, rows |-> <<>>, settings |-> NoFile,
          pw |-> FALSE, wish |-> FALSE, keep |-> FALSE, save |-> FALSE, key |-> <<>>]

Idle == [Blank EXCEPT !.pc = "idle"]

(***************************************************************************)
(* What the files hold.  (Device, AuthProfile, AppSettings)                *)
(***************************************************************************)
Folder == Seq(STRING)
SavedDevice == [folder : Folder, prof : Profiles \cup {NoProfile}]
Login == [password : BOOLEAN, key : KeyFiles \cup {<<>>}]
Settings == [active : Urls, remote : Urls \cup {NoText}, dir : SettingDirs]

IsInventory(content) ==
  \E D \in SUBSET Devices : content \in [devs : [D -> SavedDevice], folders : SUBSET Folder]

IsAuth(content) == \E P \in SUBSET Profiles : content \in [P -> Login]

(* Files as handlers that met nobody leave them.                           *)
FilesWhole(files) ==
  /\ DOMAIN files = Files6
  /\ files.inv = Absent \/ (IsInventory(files.inv) /\ Closed(files.inv))
  /\ IsAuth(files.auth) /\ files.vault \subseteq Profiles
  /\ files.keys \subseteq Known /\ files.cols \subseteq Names
  /\ files.settings \in Settings
  /\ \A p \in DOMAIN files.auth : files.auth[p].password => p \in files.vault
  /\ files.inv = Absent \/ \A d \in DOMAIN files.inv.devs :
       files.inv.devs[d].prof \in DOMAIN files.auth \cup {NoProfile}

ASSUME FilesAssumption ==
  /\ Chosen \subseteq Devices /\ Folders \subseteq Folder
  /\ ~IsInventory(Absent)
  /\ \A files \in StartFiles : FilesWhole(files)

(***************************************************************************)
(* Contents.                                                               *)
(***************************************************************************)
InventoryOf(content) == IF content = Absent THEN EmptyInventory ELSE content

Entries(file, content) ==
  CASE file = "inv" -> DOMAIN InventoryOf(content).devs
    [] file = "auth" -> DOMAIN content
    [] file = "settings" -> {}
    [] OTHER -> content

(* A mutant of Remembered: nothing is remembered.                        *)
NotRemembered(s) == s

(* remember_remote_inference_urls                                          *)
Remembered(s) ==
  IF s.remote = NoText /\ s.active \notin Loopback \cup {NoText}
  THEN [s EXCEPT !.remote = s.active] ELSE s

(* What a file is after the change of a handler, or Conflict.              *)
ChangeInventory(k, inv) ==
  CASE k.op = "rename" -> RenameFolder(inv, k.path, k.to)
    [] k.op = "mkdir" -> UpsertFolder(inv, k.path)
    [] k.op = "rmdir" -> DeleteFolder(inv, k.path)
    [] k.op = "remove" -> DeleteDevice(inv, k.id)
    [] k.op = "import" -> UpsertDevice(inv, Head(k.rows)[1], Head(k.rows)[2])
    [] OTHER -> UpsertDevice(inv, k.id, k.device)

Change(k, file, copy) ==
  CASE file = "inv" -> ChangeInventory(k, copy)
    [] file = "settings" -> k.settings
    [] file = "auth" -> IF k.op = "unauth" THEN Restrict(copy, DOMAIN copy \ {k.prof})
                        ELSE Put(copy, k.prof, k.login)
    [] file = "vault" -> IF k.op = "unauth" THEN copy \ {k.prof} ELSE copy \cup {k.prof}
    [] OTHER -> IF k.op = "del" THEN copy \ {k.id} ELSE copy \cup {k.id}

(* The entry a handler is about: it saves it or takes it away.             *)
Subject(k, file) == CASE file \in {"auth", "vault"} -> {k.prof}
                      [] file = "settings" \/ k.op \in {"mkdir", "rename", "rmdir"} -> {}
                      [] k.op = "import" -> {Head(k.rows)[1]}
                      [] OTHER -> {k.id}

TakesAway(k) == k.op \in {"remove", "unauth", "del"}

(***************************************************************************)
(* Handlers.  A handler has a list of files still to change.               *)
(***************************************************************************)
StoreInit ==
  /\ disk \in StartFiles
  /\ tmp = <<>>
  /\ mem = Remembered(disk.settings)
  /\ call = [c \in Callers |-> Idle]
  /\ calls = 0 /\ faults = 0
  /\ acked = {} /\ lost = {} /\ dropped = {} /\ crossed = FALSE
  /\ asked = disk.vault

At(c, pc) == call[c].pc = pc

Goto(c, pc) == call' = [call EXCEPT ![c].pc = pc]

End(c, result) == call' = [call EXCEPT ![c] = [Idle EXCEPT !.result = result]]

NoHistory == UNCHANGED <<acked, lost, asked, dropped, crossed>>

Start(c, k, ask, drop) ==
  /\ At(c, "idle") /\ calls < MaxCalls
  /\ calls' = calls + 1
  /\ call' = [call EXCEPT ![c] = k]
  /\ asked' = asked \cup ask
  /\ dropped' = dropped \cup drop
  /\ UNCHANGED <<disk, tmp, mem, faults, acked, lost, crossed>>

Saved(prof) == prof \in DOMAIN disk.auth

(* inventory.list and the inventory handlers of rpc.rs.                    *)
ListInventory(c) == Start(c, [Blank EXCEPT !.op = "list", !.todo = <<"inv">>], {}, {})

EditInventory(c) ==
  \/ \E op \in {"mkdir", "rmdir"}, f \in Folders :
       Start(c, [Blank EXCEPT !.op = op, !.todo = <<"inv">>, !.path = f], {}, {})
  \/ \E from, to \in Folders :
       Start(c, [Blank EXCEPT !.op = "rename", !.todo = <<"inv">>, !.path = from, !.to = to],
             {}, {})
  \/ \E d \in Chosen :
       Start(c, [Blank EXCEPT !.op = "remove", !.todo = <<"inv">>, !.id = d], {}, {})
  \/ \E d \in Chosen, f \in Folders, p \in {NoProfile} \cup DOMAIN disk.auth :
       Start(c, [Blank EXCEPT !.op = "upsert", !.todo = <<"inv">>, !.id = d,
                              !.device = [folder |-> f, prof |-> p]], {}, {})

(* auth_upsert: a password goes to the vault first.  A client's flag is    *)
(* what it saw in the list.                                                *)
UpsertAuth(c) ==
  \E p \in Profiles, pw \in BOOLEAN, flag \in BOOLEAN :
    /\ flag => pw \/ (Saved(p) /\ disk.auth[p].password)
    /\ Start(c, [Blank EXCEPT !.op = "auth", !.prof = p,
                   !.todo = IF pw THEN <<"vault", "auth">> ELSE <<"auth">>,
                   !.login = [password |-> flag \/ pw, key |-> <<>>]],
             IF pw THEN {p} ELSE {}, {})

(* auth.delete: the secret first, whether that works or not.               *)
DeleteAuth(c) ==
  \E p \in Profiles :
    Start(c, [Blank EXCEPT !.op = "unauth", !.prof = p, !.todo = <<"vault", "auth">>],
          {}, {p})

(* A mutant of EditKeys: any name is taken for a provider.               *)
EditAnyKey(c) ==
  \E op \in {"put", "del"}, n \in Names :
    Start(c, [Blank EXCEPT !.op = op, !.todo = <<"keys">>, !.id = n], {}, {})

(* ProviderVault::set and collections: an entry is put or deleted.         *)
EditKeys(c) ==
  \E op \in {"put", "del"}, n \in Names \cap Known :
    Start(c, [Blank EXCEPT !.op = op, !.todo = <<"keys">>, !.id = n], {}, {})

EditCollections(c) ==
  \E op \in {"put", "del"}, n \in Names :
    Start(c, [Blank EXCEPT !.op = op, !.todo = <<"cols">>, !.id = n], {}, {})

(* import_file with commit: the path is confined, the file parsed, and the *)
(* devices, new ones all, are saved one after the other.                   *)
NewDevices(rows) ==
  {f \in [DOMAIN rows -> Devices \ DOMAIN InventoryOf(disk.inv).devs] : IsInjective(f)}

(* A file of which no reader knows anything has no rows.                   *)
ImportableFiles ==
  {file \in {ConfineUnderRoots(p, OperatorRoots, TRUE) : p \in ImportPaths} \ {Refused} :
     Canonical(file) \in DOMAIN ImportAt}

(* Paths are sequences of names, files are of the kinds the readers know.  *)
ASSUME FilesToImport ==
  /\ ImportPaths \subseteq Seq(STRING) /\ KeyFiles \subseteq Seq(STRING)
  /\ \A path \in DOMAIN ImportAt : ImportAt[path] \in ImportFile

RowsIn == [file \in ImportableFiles |-> Parse(ImportAt[Canonical(file)])]

Import(c) ==
  \E file \in ImportableFiles :
    LET rows == RowsIn[file]
    IN /\ rows # <<>>
       /\ \E ids \in NewDevices(rows) :
            Start(c, [Blank EXCEPT !.op = "import", !.todo = [i \in DOMAIN rows |-> "inv"],
                        !.path = file,
                        !.rows = [i \in DOMAIN rows |->
                          <<ids[i], [folder |-> rows[i].folder, prof |-> NoProfile]>>]],
                  {}, {})

(* A mutant of Persist: it is kept whether the client wished it or not.  *)
PersistTyped(save, keep, typed) == save /\ typed

(* prepare_ssh: the saved device and its profile, as they are now, with    *)
(* what was typed; a login needs a password, a key or an agent.  Without   *)
(* save_session nothing will be written.                                   *)
Persist(save, keep, typed) == save /\ keep /\ typed

Connect(c) ==
  \E d \in Chosen, key \in KeyFiles \cup {<<>>}, typed, save, keep \in BOOLEAN :
    /\ typed \/ (key = <<>> /\ ~keep)
    /\ Start(c, [Blank EXCEPT !.op = "connect", !.todo = <<"inv">>, !.id = d, !.key = key,
                   !.pw = typed, !.wish = keep, !.save = save,
                   !.keep = Persist(save, keep, typed)],
             {}, {})

(* The profile of the device, if both are still there, or a new one.       *)
PrepareLogin(c) ==
  LET k     == call[c]
      saved == IF k.device.prof \in DOMAIN disk.auth THEN k.device.prof ELSE NoProfile
      old   == IF saved = NoProfile THEN [password |-> FALSE, key |-> <<>>] ELSE disk.auth[saved]
      key   == IF k.key = <<>> THEN old.key ELSE k.key
      agent == saved # NoProfile /\ ~old.password /\ old.key = <<>>
  IN /\ At(c, "profile")
     /\ IF ~k.pw /\ key = <<>> /\ ~old.password /\ ~agent THEN End(c, "error")
        ELSE \E p \in IF saved # NoProfile THEN {saved} ELSE Profiles \ DOMAIN disk.auth :
               call' = [call EXCEPT ![c].pc = "open", ![c].prof = p, ![c].device.prof = p,
                          ![c].key = key,
                          ![c].login = [password |-> k.pw \/ old.password, key |-> key]]
     /\ UNCHANGED <<disk, tmp, mem, calls, faults>> /\ NoHistory

(* A mutant of CommitOrder: the inventory goes first.                    *)
DeviceFirst(keep) == IF keep THEN <<"inv", "vault", "auth">> ELSE <<"inv", "auth">>

(* The handshake of open_ssh: the key is confined, the login may fail.     *)
(* commit_ssh then goes for vault, profiles and inventory, in this order;  *)
(* without a password to keep it asks the vault for the one it has.        *)
CommitOrder(keep) == IF keep THEN <<"vault", "auth", "inv">> ELSE <<"auth", "inv">>

(* A mutant of HasPassword: what it knew when it was prepared.           *)
AsPrepared(k) == k.login.password

HasPassword(k) == k.keep \/ k.prof \in disk.vault

Identity == [key \in KeyFiles |-> ConfineIdentity(key)]

IdentityOf(k) == Identity[k.key]

OpenSsh(c) ==
  LET k == call[c]
  IN /\ At(c, "open")
     /\ IF \/ k.key # <<>> /\ IdentityOf(k) = Refused
        THEN End(c, "error") /\ UNCHANGED asked
        ELSE \/ End(c, "error") /\ UNCHANGED asked
             \/ ~k.save /\ End(c, "ok") /\ UNCHANGED asked
             \/ /\ k.save
                /\ asked' = IF k.pw /\ k.wish THEN asked \cup {k.prof} ELSE asked
                /\ call' = [call EXCEPT ![c].pc = "load", ![c].op = "commit",
                              ![c].todo = CommitOrder(k.keep),
                              ![c].login.password = HasPassword(k)]
     /\ UNCHANGED <<disk, tmp, mem, calls, faults, acked, lost, dropped, crossed>>

(* settings.set: one setting of what the client read earlier is changed.   *)
(* set_settings validates, remembers and then saves.                       *)
AllowedDirs == {d \in SettingDirs : DirAllowed(d)}

SetSettings(c) ==
  \E s \in {[mem EXCEPT !.active = u] : u \in Urls}
            \cup {[mem EXCEPT !.remote = u] : u \in Urls \cup {NoText}}
            \cup {[mem EXCEPT !.dir = d] : d \in AllowedDirs} :
    /\ s.dir \in AllowedDirs
    /\ Start(c, [Blank EXCEPT !.op = "settings", !.todo = <<"settings">>,
                   !.settings = Remembered(s)], {}, {})

(***************************************************************************)
(* A file of a handler: read, changed, written beside and renamed.         *)
(***************************************************************************)
File(c) == Head(call[c].todo)

Done(c, todo) ==
  IF todo = <<>> THEN End(c, "ok")
  ELSE call' = [call EXCEPT ![c].pc = "load", ![c].todo = todo, ![c].held = Absent,
                            ![c].rows = IF @ = <<>> THEN @ ELSE Tail(@)]

(* A mutant of TmpName: one name for all.                                *)
SharedName(c) == <<File(c)>>

(* write_private: the new content goes to a file of its own name ...       *)
TmpName(c) == <<File(c), c>>

WriteBeside(c, copy) ==
  LET new == Change(call[c], File(c), copy)
  IN IF new = Conflict THEN End(c, "error") /\ UNCHANGED tmp
     ELSE /\ tmp' = Put(tmp, TmpName(c), new)
          /\ call' = [call EXCEPT ![c].pc = "rename", ![c].held = copy]

(* What a handler does with the file it read.  The copy is its own: the    *)
(* change and the file beside are one step with the reading.               *)
Use(c, copy) ==
  CASE call[c].op = "list" -> End(c, "ok") /\ UNCHANGED tmp
    [] call[c].op = "connect" ->
         /\ call' = [call EXCEPT ![c].pc = "profile", ![c].device =
                        IF call[c].id \in DOMAIN copy.devs THEN copy.devs[call[c].id] ELSE @]
         /\ UNCHANGED tmp
    [] OTHER -> WriteBeside(c, copy)

(* InventoryStore::load first writes an inventory that is missing.         *)
Read(c) ==
  /\ At(c, "load")
  /\ IF File(c) = "inv" /\ disk.inv = Absent THEN Goto(c, "seed") /\ UNCHANGED tmp
     ELSE Use(c, IF File(c) = "inv" THEN Loaded(disk.inv) ELSE disk[File(c)])
  /\ UNCHANGED <<disk, mem, calls, faults>> /\ NoHistory

(* What a file holds by now and the copy a handler made of it does not.    *)
Dropped(file, copy, subject) ==
  {file} \X (Entries(file, disk[file]) \ (Entries(file, copy) \cup subject))

Seed(c) ==
  /\ At(c, "seed")
  /\ disk' = [disk EXCEPT !.inv = EmptyInventory]
  /\ lost' = lost \cup Dropped("inv", EmptyInventory, {})
  /\ Use(c, EmptyInventory)
  /\ UNCHANGED <<mem, calls, faults, acked, asked, dropped, crossed>>

(* ... which is then renamed over the old.  Settings go to memory next.    *)
RenameFile(c) ==
  LET file    == File(c)
      new     == tmp[TmpName(c)]
      subject == {file} \X Subject(call[c], file)
  IN /\ At(c, "rename")
     /\ disk' = [disk EXCEPT ![file] = new]
     /\ tmp' = Restrict(tmp, DOMAIN tmp \ {TmpName(c)})
     /\ acked' = IF TakesAway(call[c]) THEN acked \ subject ELSE acked \cup subject
     /\ lost' = (lost \ subject) \cup Dropped(file, call[c].held, Subject(call[c], file))
     /\ crossed' = (crossed \/ (file = "settings" /\ \E x \in Callers : At(x, "publish")))
     /\ IF file = "settings" THEN Goto(c, "publish") ELSE Done(c, Tail(call[c].todo))
     /\ UNCHANGED <<mem, calls, faults, asked, dropped>>

Publish(c) ==
  /\ At(c, "publish")
  /\ mem' = call[c].settings
  /\ End(c, "ok")
  /\ UNCHANGED <<disk, tmp, calls, faults>> /\ NoHistory

(* A mutant of Fail: the error comes after the memory was changed.       *)
FailAfterPublish(c) ==
  /\ call[c].pc \in {"load", "seed", "rename"} /\ faults < MaxFaults
  /\ faults' = faults + 1
  /\ End(c, "error")
  /\ mem' = IF call[c].op = "settings" THEN call[c].settings ELSE mem
  /\ UNCHANGED <<disk, tmp, calls>> /\ NoHistory

(* A step fails; auth.delete goes on to the profile all the same.          *)
Fail(c) ==
  /\ call[c].pc \in {"load", "seed", "rename"} /\ faults < MaxFaults
  /\ faults' = faults + 1
  /\ IF call[c].op = "unauth" /\ File(c) = "vault" THEN Done(c, Tail(call[c].todo))
     ELSE End(c, "error")
  /\ UNCHANGED <<disk, tmp, mem, calls>> /\ NoHistory

(* The daemon stops and boots: files stay as they are.                     *)
Restart ==
  /\ faults < MaxFaults
  /\ faults' = faults + 1
  /\ call' = [c \in Callers |-> Idle]
  /\ mem' = Remembered(disk.settings)
  /\ UNCHANGED <<disk, tmp, calls>> /\ NoHistory

StoreNext ==
  \/ \E c \in Callers :
       \/ ListInventory(c) \/ EditInventory(c) \/ UpsertAuth(c) \/ DeleteAuth(c)
       \/ EditKeys(c) \/ EditCollections(c) \/ Import(c) \/ Connect(c) \/ SetSettings(c)
       \/ PrepareLogin(c) \/ OpenSsh(c)
       \/ Read(c) \/ Seed(c) \/ RenameFile(c) \/ Publish(c)
       \/ Fail(c)
  \/ Restart

StoreSpec == StoreInit /\ [][StoreNext]_vars

(***************************************************************************)
(* Properties.                                                             *)
(***************************************************************************)

(* The steps of the handlers and the shape of the files.                   *)
StoreTypeOK ==
  /\ \A c \in Callers :
       /\ call[c].pc \in {"idle", "load", "seed", "rename", "publish", "profile", "open"}
       /\ call[c].pc \in {"load", "rename"} => File(c) \in Files6
  /\ disk.inv = Absent \/ DOMAIN disk.inv.devs \subseteq Devices
  /\ DOMAIN disk.auth \subseteq Profiles /\ disk.vault \subseteq Profiles
  /\ disk.keys \subseteq Known /\ disk.cols \subseteq Names
  /\ mem.active \in Urls

(* The tree on disk is whole, whatever folders were renamed and deleted    *)
(* while devices were saved into them.  (rename_folder, delete_folder,     *)
(* register_folder)                                                        *)
TreeClosed == disk.inv # Absent => Closed(disk.inv)

(* A rename keeps devices of different folders in different folders.       *)
(* (rename_folder: "folder already exists")                                *)
RenameKeepsApart ==
  \A c \in Callers : At(c, "rename") /\ call[c].op = "rename" =>
    LET old == call[c].held
        new == Change(call[c], "inv", old)
    IN \A d, e \in DOMAIN old.devs :
         FolderOf(old, d) # FolderOf(old, e) => FolderOf(new, d) # FolderOf(new, e)

(* An entry a handler saved stays until one takes it away or one that read *)
(* the file before writes its copy.  (upsert_device, upsert_auth, set,     *)
(* delete_folder: load, change, save)                                      *)
OnlyOldCopiesDrop ==
  \A e \in acked : e[2] \in Entries(e[1], disk[e[1]]) \/ e \in lost

(* The files keep their shape, the inventory is a tree in which a rename   *)
(* mixes nothing up, and only a copy read earlier undoes what was saved.   *)
InventoryKept == StoreTypeOK /\ TreeClosed /\ RenameKeepsApart /\ OnlyOldCopiesDrop

(* A profile that says it has a password has one in the vault, at every    *)
(* step and stop of the handlers that write the two files, unless somebody *)
(* deleted the profile or the vault's entry was overwritten.               *)
(* (commit_ssh, auth_upsert, auth.delete)                                  *)
FlagHasSecret ==
  \A p \in DOMAIN disk.auth : disk.auth[p].password =>
    p \in disk.vault \/ p \in dropped \/ <<"vault", p>> \in lost

(* The profile a device points to exists, unless somebody deleted it or it *)
(* was overwritten: it is saved before the device.  (commit_ssh)           *)
LoginExists ==
  disk.inv # Absent => \A d \in DOMAIN disk.inv.devs :
    LET p == disk.inv.devs[d].prof
    IN p = NoProfile \/ p \in DOMAIN disk.auth \/ p \in dropped \/ <<"auth", p>> \in lost

(* "Passwords never hit the vault on one-time": a password in the vault is *)
(* one that somebody asked to keep.  (prepare_ssh, commit_ssh)             *)
VaultWasAsked == disk.vault \subseteq asked

(* Devices, profiles and vault fit together between any two of the writes  *)
(* that change them, and the vault has nothing it was not asked to keep.   *)
LoginsWhole == FlagHasSecret /\ LoginExists /\ VaultWasAsked

(* Two writers of the same file do not take each other's new content away. *)
(* (write_private: "Unique tmp per call")                                  *)
RenamesOwn ==
  \A c \in Callers : At(c, "rename") =>
    TmpName(c) \in DOMAIN tmp /\ tmp[TmpName(c)] = Change(call[c], File(c), call[c].held)

(* File and memory hold the same settings when no call is between the two, *)
(* unless calls crossed there.  (set_settings, load_settings_for)          *)
SettingsAgree ==
  mem = Remembered(disk.settings) \/ crossed \/ \E c \in Callers : At(c, "publish")

(* The address of a helper on another computer is never the only copy: it  *)
(* can be left for this computer and found again, after a restart too.     *)
(* (remember_remote_inference_urls)                                        *)
LanUrlKept == mem.active \notin Loopback \cup {NoText} => mem.remote # NoText

(* A save publishes what it wrote itself, and memory, file and the         *)
(* remembered address of a helper agree.                                   *)
SettingsKept == RenamesOwn /\ SettingsAgree /\ LanUrlKept

(* What an import reads and what a login uses as a key lies where it may,  *)
(* with no link on the way.  (confine_under_roots, confine_identity_path)  *)
PathsConfined ==
  \A c \in Callers :
    /\ call[c].op = "import" => Inside(call[c].path, OperatorRoots)
    /\ At(c, "open") /\ call[c].key # <<>> /\ IdentityOf(call[c]) # Refused =>
         /\ Inside(IdentityOf(call[c]), {Home})
         /\ ~Inside(IdentityOf(call[c]), LateDirs)

(* The devices of an import say what the file says of them, each from its  *)
(* own block or session.  (import_ssh_config, import_securecrt_xml)        *)
SaysSo(f) == /\ f.kind = "ssh" => Range(Parse(f)) = Described(f.lines)
             /\ f.kind = "xml" => Range(Parse(f)) = Sessions(f.lines)

ReadAsSaid == {path \in DOMAIN ImportAt : SaysSo(ImportAt[path])}

ImportsWhatIsSaid ==
  \A c \in Callers : call[c].op = "import" => call[c].path \in ReadAsSaid

(* An import reads only where it may and adds what the file says.          *)
ImportsHold == PathsConfined /\ ImportsWhatIsSaid
=============================================================================
