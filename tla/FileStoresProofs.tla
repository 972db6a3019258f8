-------------------------- MODULE FileStoresProofs --------------------------
(***************************************************************************)
(* Proofs about FileStores.  First what the operations on the inventory    *)
(* tree keep, where a confined path leads and what an import reads, then   *)
(* the invariant StoreInv of handlers, files and settings: what a handler  *)
(* read or wrote lets it write what it writes next, and nothing a handler  *)
(* leans on is taken away by another.                                      *)
(***************************************************************************)
EXTENDS FileStores, FiniteSetTheorems, SequenceTheorems, WellFoundedInduction, TLAPS

(***************************************************************************)
(* Folders.                                                                *)
(***************************************************************************)

LEMMA FiniteUpTo ==
  ASSUME NEW len \in Nat, NEW S \in SUBSET (1 .. len)
  PROVE  IsFiniteSet(S) /\ Cardinality(S) \in Nat
<1>1. IsFiniteSet(1 .. len)
  BY FS_Interval
<1>2. IsFiniteSet(S)
  BY <1>1, FS_Subset
<1> QED BY <1>2, FS_CardinalityType

(* The places that are kept are numbered in their order.                   *)
LEMMA PlacesAre ==
  ASSUME NEW places \in SUBSET Nat, IsFiniteSet(places)
  PROVE  /\ Cardinality(places) \in Nat
         /\ \A i \in places : PlaceOf(i, places) \in 1 .. Cardinality(places)
         /\ \A i, k \in places : PlaceOf(i, places) = PlaceOf(k, places) => i = k
         /\ \A n \in 1 .. Cardinality(places) : \E i \in places : PlaceOf(i, places) = n
<1> DEFINE Upto(i) == {j \in places : j <= i}
           place == [i \in places |-> PlaceOf(i, places)]
           size == Cardinality(places)
<1>1. size \in Nat
  BY FS_CardinalityType
<1>2. \A i \in places : place[i] = Cardinality(Upto(i)) /\ i \in Upto(i)
  BY DEF PlaceOf
<1>3. ASSUME NEW i \in places, NEW k \in places, i <= k PROVE Upto(i) \in SUBSET Upto(k)
  <2>1. \A j \in places : j <= i => j <= k
    BY <1>3
  <2> QED BY <2>1
<1>4. \A i \in places : Upto(i) \in SUBSET places
  OBVIOUS
<1>5. \A i \in places : PlaceOf(i, places) = place[i]
  OBVIOUS
<1>6. \A i, k \in places : k \in Upto(i) /\ i \in Upto(k) => i = k
  OBVIOUS
<1> HIDE DEF Upto, place
<1>7. \A i \in places : IsFiniteSet(Upto(i)) /\ place[i] \in 1 .. size
  <2> TAKE i \in places
  <2>1. IsFiniteSet(Upto(i)) /\ Cardinality(Upto(i)) <= size
    BY <1>4, FS_Subset
  <2>2. Cardinality(Upto(i)) \in Nat /\ Cardinality(Upto(i)) # 0
    BY <1>2, <2>1, FS_CardinalityType, FS_EmptySet
  <2> QED BY <1>1, <1>2, <2>1, <2>2
<1>8. ASSUME NEW i \in places, NEW k \in places, place[i] = place[k] PROVE i = k
  <2>1. Upto(i) = Upto(k)
    <3>1. CASE i <= k
      BY <1>2, <1>3, <1>7, <1>8, <3>1, FS_Subset
    <3>2. CASE k <= i
      BY <1>2, <1>3, <1>7, <1>8, <3>2, FS_Subset
    <3> QED BY <3>1, <3>2
  <2> QED BY <1>2, <1>6, <2>1
<1>9. \A n \in 1 .. size : \E i \in places : place[i] = n
  <2>1. place \in [places -> 1 .. size]
    BY <1>7 DEF place
  <2>2. place \in Injection(places, 1 .. size)
    BY <1>8, <2>1 DEF Injection, IsInjective
  <2>3. IsFiniteSet(1 .. size) /\ Cardinality(1 .. size) = size
    BY <1>1, FS_Interval
  <2>4. place \in Surjection(places, 1 .. size)
    BY <2>2, <2>3, FS_Injection
  <2> QED BY <2>4 DEF Surjection
<1> QED BY <1>1, <1>5, <1>7, <1>8, <1>9

(* What is kept of a sequence is what stood at those places, and no more.  *)
LEMMA KeptIs ==
  ASSUME NEW S, NEW s \in Seq(S), NEW places \in SUBSET DOMAIN s
  PROVE  /\ Kept(s, places) \in Seq(S)
         /\ \A n \in DOMAIN Kept(s, places) : \E i \in places : Kept(s, places)[n] = s[i]
         /\ \A i \in places : \E n \in DOMAIN Kept(s, places) : Kept(s, places)[n] = s[i]
<1> DEFINE at(n) == CHOOSE i \in places : PlaceOf(i, places) = n
           size == Cardinality(places)
<1>1. places \in SUBSET (1 .. Len(s)) /\ Len(s) \in Nat
  BY LenProperties
<1>2. places \in SUBSET Nat /\ IsFiniteSet(places)
  <2>1. IsFiniteSet(places)
    BY <1>1, FiniteUpTo
  <2>2. \A i \in 1 .. Len(s) : i \in Nat
    OBVIOUS
  <2> QED BY <1>1, <2>1, <2>2
<1>3. /\ size \in Nat
      /\ \A i \in places : PlaceOf(i, places) \in 1 .. size
      /\ \A i, k \in places : PlaceOf(i, places) = PlaceOf(k, places) => i = k
      /\ \A n \in 1 .. size : \E i \in places : PlaceOf(i, places) = n
  BY <1>2, PlacesAre
<1>4. \A n \in 1 .. size : at(n) \in places /\ PlaceOf(at(n), places) = n
  BY <1>3
<1>5. \A n \in 1 .. size : s[at(n)] \in S
  BY <1>1, <1>4, ElementOfSeq
<1>6. Kept(s, places) = [n \in 1 .. size |-> s[at(n)]]
  BY DEF Kept
<1> HIDE DEF at, size
<1>7. Kept(s, places) \in [1 .. size -> S]
  BY <1>5, <1>6
<1>8. Kept(s, places) \in Seq(S)
  BY <1>3, <1>7, SeqDef
<1>9. \A i \in places : at(PlaceOf(i, places)) = i
  BY <1>3, <1>4
<1> QED BY <1>3, <1>4, <1>6, <1>8, <1>9

(* The names of a sequence that are kept.                                  *)
LEMMA KeptRange ==
  ASSUME NEW S, NEW s \in Seq(S), NEW P
  PROVE  {Kept(s, {i \in DOMAIN s : s[i] \notin P})[n] :
            n \in DOMAIN Kept(s, {i \in DOMAIN s : s[i] \notin P})} = Range(s) \ P
<1> DEFINE places == {i \in DOMAIN s : s[i] \notin P}
<1>1. /\ \A n \in DOMAIN Kept(s, places) : \E i \in places : Kept(s, places)[n] = s[i]
      /\ \A i \in places : \E n \in DOMAIN Kept(s, places) : Kept(s, places)[n] = s[i]
  <2>1. places \in SUBSET DOMAIN s
    OBVIOUS
  <2> HIDE DEF places
  <2> QED BY SMTT(40), <2>1, KeptIs
<1>2. Range(s) = {s[i] : i \in DOMAIN s}
  BY DEF Range
<1>3. \A i : i \in places <=> i \in DOMAIN s /\ s[i] \notin P
  OBVIOUS
<1> HIDE DEF places
<1>4. {Kept(s, places)[n] : n \in DOMAIN Kept(s, places)} = Range(s) \ P
  BY <1>1, <1>2, <1>3
<1> QED BY <1>4 DEF places

(* What is left of a folder that a client wrote is a folder.               *)
LEMMA NormalizedIsFolder ==
  ASSUME NEW raw \in Folder
  PROVE  Normalized(raw) \in Folder
<1>1. KeptParts(raw) \in SUBSET DOMAIN raw
  BY DEF KeptParts
<1> QED BY <1>1, KeptIs DEF Normalized, Folder

LEMMA UnderIs ==
  ASSUME NEW f \in Folder, NEW a \in Folder
  PROVE  IsUnder(f, a) <=> Len(a) <= Len(f) /\ \A i \in 1 .. Len(a) : a[i] = f[i]
<1>1. Len(f) \in Nat /\ Len(a) \in Nat
  BY LenProperties DEF Folder
<1>2. SubSeq(a, 1, Len(a)) = a
  BY SubSeqFull DEF Folder
<1>3. CASE Len(a) <= Len(f)
  <2> DEFINE b == SubSeq(f, 1, Len(a))
  <2>1. \A i \in 1 .. Len(a) : f[i] \in STRING
    BY <1>1, <1>3, ElementOfSeq DEF Folder
  <2>2. b \in Folder /\ Len(b) = Len(a) /\ \A i \in 1 .. Len(a) : b[i] = f[i]
    BY <2>1, <1>1, SubSeqProperties DEF Folder
  <2> HIDE DEF b
  <2>3. a = b <=> \A i \in 1 .. Len(a) : a[i] = b[i]
    BY <2>2, SeqEqual DEF Folder
  <2> QED BY <2>2, <2>3, <1>2, <1>3 DEF IsUnder, IsPrefix, b
<1> QED BY <1>1, <1>3 DEF IsUnder, IsPrefix

LEMMA AncestryIs ==
  ASSUME NEW f \in Folder, NEW a
  PROVE  a \in Ancestry(f) <=>
           /\ a \in Folder /\ Len(a) \in 1 .. Len(f)
           /\ \A i \in 1 .. Len(a) : a[i] = f[i]
<1>1. Len(f) \in Nat
  BY LenProperties DEF Folder
<1>2. \A n \in 1 .. Len(f) :
        /\ SubSeq(f, 1, n) \in Folder /\ Len(SubSeq(f, 1, n)) = n
        /\ \A i \in 1 .. n : SubSeq(f, 1, n)[i] = f[i]
  <2> TAKE n \in 1 .. Len(f)
  <2>1. \A i \in 1 .. n : f[i] \in STRING
    BY <1>1, ElementOfSeq DEF Folder
  <2> QED BY <2>1, <1>1, SubSeqProperties DEF Folder
<1>3. ASSUME a \in Folder, Len(a) \in 1 .. Len(f), \A i \in 1 .. Len(a) : a[i] = f[i]
      PROVE  a = SubSeq(f, 1, Len(a))
  <2> DEFINE b == SubSeq(f, 1, Len(a))
  <2>1. b \in Folder /\ Len(b) = Len(a) /\ \A i \in 1 .. Len(a) : b[i] = f[i]
    BY <1>2, <1>3
  <2> HIDE DEF b
  <2>2. a = b
    BY <2>1, <1>3, SeqEqual DEF Folder
  <2> QED BY <2>2 DEF b
<1> QED BY <1>2, <1>3 DEF Ancestry

LEMMA AncestryOfAncestor ==
  ASSUME NEW f \in Folder, NEW a \in Ancestry(f)
  PROVE  a \in Folder /\ Ancestry(a) \subseteq Ancestry(f)
<1>1. a \in Folder /\ Len(a) \in 1 .. Len(f) /\ \A i \in 1 .. Len(a) : a[i] = f[i]
  BY AncestryIs
<1>2. Len(f) \in Nat
  BY LenProperties DEF Folder
<1> SUFFICES ASSUME NEW b \in Ancestry(a) PROVE b \in Ancestry(f)
  BY <1>1
<1>3. b \in Folder /\ Len(b) \in 1 .. Len(a) /\ \A i \in 1 .. Len(b) : b[i] = a[i]
  BY <1>1, AncestryIs
<1> QED BY <1>1, <1>2, <1>3, AncestryIs

(***************************************************************************)
(* Inventories.                                                            *)
(***************************************************************************)
LEMMA InventoryIs ==
  ASSUME NEW inv, IsInventory(inv)
  PROVE  /\ inv = [devs |-> inv.devs, folders |-> inv.folders]
         /\ DOMAIN inv.devs \subseteq Devices
         /\ inv.devs \in [DOMAIN inv.devs -> SavedDevice]
         /\ inv.folders \subseteq Folder
         /\ \A d \in DOMAIN inv.devs : /\ inv.devs[d] \in SavedDevice
                                       /\ FolderOf(inv, d) \in Folder
BY DEF IsInventory, SavedDevice, FolderOf

LEMMA InventoryMade ==
  ASSUME NEW devs, DOMAIN devs \subseteq Devices, devs \in [DOMAIN devs -> SavedDevice],
         NEW folders \in SUBSET Folder
  PROVE  IsInventory([devs |-> devs, folders |-> folders])
BY DEF IsInventory

LEMMA EmptyIsInventory == IsInventory(EmptyInventory) /\ Closed(EmptyInventory)
<1>1. <<>> \in [{} -> SavedDevice]
  OBVIOUS
<1>2. IsInventory(EmptyInventory)
  BY <1>1 DEF IsInventory, EmptyInventory
<1>3. Closed(EmptyInventory)
  BY DEF Closed, NamedFolders, EmptyInventory
<1> QED BY <1>2, <1>3

(* The folders of an inventory are closed when the ancestors of each are   *)
(* among them and each device lies in one whose ancestors are.             *)
LEMMA ClosedIs ==
  ASSUME NEW inv
  PROVE  Closed(inv) <=> /\ \A f \in inv.folders : Ancestry(f) \subseteq inv.folders
                         /\ \A d \in DOMAIN inv.devs :
                              Ancestry(FolderOf(inv, d)) \subseteq inv.folders
BY DEF Closed, NamedFolders

LEMMA AncestryClosed ==
  ASSUME NEW f \in Folder
  PROVE  /\ Ancestry(f) \subseteq Folder
         /\ \A a \in Ancestry(f) : Ancestry(a) \subseteq Ancestry(f)
BY AncestryOfAncestor

(* What load returns is closed, whatever was read.                         *)
LEMMA LoadedIs ==
  ASSUME NEW inv, IsInventory(inv)
  PROVE  /\ IsInventory(Loaded(inv)) /\ Closed(Loaded(inv))
         /\ Loaded(inv).devs = inv.devs
<1> DEFINE above == UNION {Ancestry(f) : f \in NamedFolders(inv)}
           all == inv.folders \cup above
<1>1. Loaded(inv) = [inv EXCEPT !.folders = all]
  BY DEF Loaded
<1>2. NamedFolders(inv) \subseteq Folder /\ inv.folders \subseteq NamedFolders(inv)
  BY InventoryIs DEF NamedFolders
<1>3. above \subseteq Folder /\ \A a \in above : Ancestry(a) \subseteq above
  <2> SUFFICES ASSUME NEW a \in above
               PROVE  a \in Folder /\ Ancestry(a) \subseteq above
    OBVIOUS
  <2>1. PICK f \in NamedFolders(inv) : a \in Ancestry(f)
    OBVIOUS
  <2>2. a \in Folder /\ Ancestry(a) \subseteq Ancestry(f)
    BY <2>1, <1>2, AncestryClosed
  <2>3. Ancestry(f) \subseteq above
    OBVIOUS
  <2> QED BY <2>2, <2>3
<1>4. \A f \in NamedFolders(inv) : Ancestry(f) \subseteq above
  OBVIOUS
<1>5. all \in SUBSET Folder
  BY <1>2, <1>3
<1> HIDE DEF above
<1>6. Loaded(inv) = [devs |-> inv.devs, folders |-> all]
  <2> HIDE DEF all
  <2> QED BY <1>1, InventoryIs
<1>7. IsInventory(Loaded(inv))
  <2>1. IsInventory([devs |-> inv.devs, folders |-> all])
    BY <1>5, InventoryIs, InventoryMade
  <2> QED BY <2>1, <1>6
<1>8. Loaded(inv).devs = inv.devs /\ Loaded(inv).folders = all
  BY <1>6
<1>9. NamedFolders(Loaded(inv)) = NamedFolders(inv) \cup above
  BY <1>8, <1>2 DEF NamedFolders, FolderOf
<1>10. Closed(Loaded(inv))
  BY <1>3, <1>4, <1>8, <1>9 DEF Closed
<1> QED BY <1>7, <1>8, <1>10

LEMMA PutIs ==
  ASSUME NEW map, NEW key, NEW value
  PROVE  /\ DOMAIN Put(map, key, value) = DOMAIN map \cup {key}
         /\ Put(map, key, value)[key] = value
         /\ \A k \in DOMAIN map \ {key} : Put(map, key, value)[k] = map[k]
BY DEF Put

LEMMA PutTyped ==
  ASSUME NEW S, NEW T, NEW map \in [S -> T], NEW key, NEW value \in T
  PROVE  Put(map, key, value) \in [S \cup {key} -> T]
BY DEF Put

(* Registering a folder with its ancestors keeps the folders closed.       *)
LEMMA RegisterCloses ==
  ASSUME NEW folders \in SUBSET Folder, \A f \in folders : Ancestry(f) \subseteq folders,
         NEW path \in Folder
  PROVE  /\ folders \cup Ancestry(path) \in SUBSET Folder
         /\ \A f \in folders \cup Ancestry(path) : Ancestry(f) \subseteq folders \cup Ancestry(path)
BY AncestryClosed

LEMMA PutDeviceKeeps ==
  ASSUME NEW inv, IsInventory(inv), Closed(inv), NEW d \in Devices, NEW saved \in SavedDevice
  PROVE  LET new == [devs |-> Put(inv.devs, d, saved),
                     folders |-> inv.folders \cup Ancestry(saved.folder)]
         IN /\ IsInventory(new) /\ Closed(new)
            /\ DOMAIN new.devs = DOMAIN inv.devs \cup {d}
            /\ new.devs[d] = saved
            /\ \A e \in DOMAIN inv.devs \ {d} : new.devs[e] = inv.devs[e]
<1> DEFINE devs == Put(inv.devs, d, saved)
           folders == inv.folders \cup Ancestry(saved.folder)
           new == [devs |-> devs, folders |-> folders]
<1>1. saved.folder \in Folder
  BY DEF SavedDevice
<1>2. inv.folders \in SUBSET Folder /\ \A f \in inv.folders : Ancestry(f) \subseteq inv.folders
  BY InventoryIs, ClosedIs
<1>3. folders \in SUBSET Folder /\ \A f \in folders : Ancestry(f) \subseteq folders
  BY <1>1, <1>2, RegisterCloses
<1>4. /\ DOMAIN devs = DOMAIN inv.devs \cup {d} /\ devs[d] = saved
      /\ \A e \in DOMAIN inv.devs \ {d} : devs[e] = inv.devs[e]
  BY DEF Put
<1>5. inv.devs \in [DOMAIN inv.devs -> SavedDevice] /\ DOMAIN inv.devs \subseteq Devices
  BY InventoryIs
<1>6. devs \in [DOMAIN inv.devs \cup {d} -> SavedDevice]
  BY <1>5, PutTyped
<1> HIDE DEF devs, folders
<1>7. IsInventory(new)
  BY <1>3, <1>4, <1>5, <1>6, InventoryMade
<1>8. \A e \in DOMAIN devs : Ancestry(FolderOf(new, e)) \subseteq folders
  <2> TAKE e \in DOMAIN devs
  <2>1. CASE e = d
    BY <2>1, <1>4 DEF FolderOf, folders
  <2>2. CASE e \in DOMAIN inv.devs \ {d}
    <3>1. FolderOf(new, e) = FolderOf(inv, e)
      BY <2>2, <1>4 DEF FolderOf
    <3>2. Ancestry(FolderOf(inv, e)) \subseteq inv.folders
      BY <2>2, ClosedIs
    <3> QED BY <3>1, <3>2 DEF folders
  <2> QED BY <2>1, <2>2, <1>4
<1>9. Closed(new)
  BY <1>3, <1>8, ClosedIs
<1> QED BY <1>4, <1>7, <1>9 DEF devs, folders

LEMMA UpsertDeviceKeeps ==
  ASSUME NEW inv, IsInventory(inv), Closed(inv), NEW d \in Devices, NEW device \in SavedDevice
  PROVE  LET new == UpsertDevice(inv, d, device)
         IN /\ IsInventory(new) /\ Closed(new)
            /\ DOMAIN new.devs = DOMAIN inv.devs \cup {d}
            /\ new.devs[d].prof = device.prof
            /\ \A e \in DOMAIN inv.devs \ {d} : new.devs[e] = inv.devs[e]
<1>1. Normalized(device.folder) \in Folder
  BY NormalizedIsFolder DEF SavedDevice
<1>2. PICK saved : saved = [device EXCEPT !.folder = Normalized(device.folder)]
  OBVIOUS
<1>3. /\ saved \in SavedDevice /\ saved.prof = device.prof
      /\ saved.folder = Normalized(device.folder)
  BY <1>1, <1>2 DEF SavedDevice
<1>4. UpsertDevice(inv, d, device) =
        [devs |-> Put(inv.devs, d, saved), folders |-> inv.folders \cup Ancestry(saved.folder)]
  BY <1>2, <1>3 DEF UpsertDevice
<1> QED BY <1>3, <1>4, PutDeviceKeeps

(* The lemmas for the other edits that leave devices where they are.       *)
LEMMA UpsertFolderKeeps ==
  ASSUME NEW inv, IsInventory(inv), Closed(inv), NEW raw \in Folder,
         UpsertFolder(inv, raw) # Conflict
  PROVE  LET new == UpsertFolder(inv, raw)
         IN IsInventory(new) /\ Closed(new) /\ new.devs = inv.devs
<1> DEFINE folders == inv.folders \cup Ancestry(Normalized(raw))
           new == UpsertFolder(inv, raw)
<1>1. Normalized(raw) \in Folder
  BY NormalizedIsFolder
<1>2. inv.folders \in SUBSET Folder /\ \A f \in inv.folders : Ancestry(f) \subseteq inv.folders
  BY InventoryIs, ClosedIs
<1>3. folders \in SUBSET Folder /\ \A f \in folders : Ancestry(f) \subseteq folders
  BY <1>1, <1>2, RegisterCloses
<1>4. new = [inv EXCEPT !.folders = folders]
  BY DEF UpsertFolder
<1> HIDE DEF folders, new
<1>5. new = [devs |-> inv.devs, folders |-> folders]
  BY <1>4, InventoryIs
<1>6. IsInventory(new)
  BY <1>3, <1>5, InventoryIs, InventoryMade
<1>7. \A d \in DOMAIN inv.devs : Ancestry(FolderOf(new, d)) \subseteq folders
  BY <1>5, ClosedIs DEF FolderOf, folders
<1>8. Closed(new)
  BY <1>3, <1>5, <1>7, ClosedIs
<1> QED BY <1>5, <1>6, <1>8 DEF new

LEMMA DeleteDeviceKeeps ==
  ASSUME NEW inv, IsInventory(inv), Closed(inv), NEW d
  PROVE  LET new == DeleteDevice(inv, d)
         IN /\ IsInventory(new) /\ Closed(new)
            /\ DOMAIN new.devs = DOMAIN inv.devs \ {d}
            /\ \A e \in DOMAIN new.devs : new.devs[e] = inv.devs[e]
<1> DEFINE devs == Restrict(inv.devs, DOMAIN inv.devs \ {d})
           new == DeleteDevice(inv, d)
<1>1. new = [devs |-> devs, folders |-> inv.folders]
  BY InventoryIs DEF DeleteDevice
<1>2. /\ DOMAIN devs = DOMAIN inv.devs \ {d}
      /\ \A e \in DOMAIN devs : devs[e] = inv.devs[e]
      /\ devs \in [DOMAIN devs -> SavedDevice]
  BY InventoryIs DEF Restrict
<1> HIDE DEF devs, new
<1>3. IsInventory(new)
  BY <1>1, <1>2, InventoryIs, InventoryMade
<1>4. \A e \in DOMAIN devs : Ancestry(FolderOf(new, e)) \subseteq inv.folders
  BY <1>1, <1>2, ClosedIs DEF FolderOf
<1>5. Closed(new)
  BY <1>1, <1>4, ClosedIs
<1> QED BY <1>1, <1>2, <1>3, <1>5 DEF new

(***************************************************************************)
(* Renaming and deleting folders.                                          *)
(***************************************************************************)
LEMMA MovedIs ==
  ASSUME NEW f \in Folder, NEW a \in Folder, NEW b \in Folder
  PROVE  /\ ~IsUnder(f, a) => Moved(f, a, b) = f
         /\ IsUnder(f, a) =>
              /\ Moved(f, a, b) \in Folder
              /\ Len(Moved(f, a, b)) = Len(b) + Len(f) - Len(a)
              /\ \A i \in 1 .. Len(Moved(f, a, b)) :
                   Moved(f, a, b)[i] = IF i <= Len(b) THEN b[i] ELSE f[i - Len(b) + Len(a)]
<1>1. Len(f) \in Nat /\ Len(a) \in Nat /\ Len(b) \in Nat
  BY LenProperties DEF Folder
<1>2. SUFFICES ASSUME IsUnder(f, a)
               PROVE  /\ Moved(f, a, b) \in Folder
                      /\ Len(Moved(f, a, b)) = Len(b) + Len(f) - Len(a)
                      /\ \A i \in 1 .. Len(Moved(f, a, b)) :
                           Moved(f, a, b)[i] = IF i <= Len(b) THEN b[i] ELSE f[i - Len(b) + Len(a)]
  BY DEF Moved
<1> DEFINE rest == SubSeq(f, Len(a) + 1, Len(f))
<1>3. Len(a) <= Len(f)
  BY <1>2, UnderIs
<1>4. \A i \in Len(a) + 1 .. Len(f) : f[i] \in STRING
  BY <1>1, ElementOfSeq DEF Folder
<1>5. /\ rest \in Folder /\ Len(rest) = Len(f) - Len(a)
      /\ \A i \in 1 .. Len(rest) : rest[i] = f[i + Len(a)]
  <2>1. /\ rest \in Seq(STRING)
        /\ Len(rest) = IF Len(a) + 1 <= Len(f) THEN Len(f) - (Len(a) + 1) + 1 ELSE 0
        /\ \A i \in 1 .. Len(f) - (Len(a) + 1) + 1 : rest[i] = f[Len(a) + 1 + i - 1]
    BY <1>4, <1>1, SubSeqProperties
  <2> HIDE DEF rest
  <2> QED BY <2>1, <1>1, <1>3 DEF Folder
<1>6. Moved(f, a, b) = b \o rest
  BY <1>2 DEF Moved
<1> HIDE DEF rest
<1>7. /\ b \o rest \in Folder /\ Len(b \o rest) = Len(b) + Len(rest)
      /\ \A i \in 1 .. Len(b) + Len(rest) :
           (b \o rest)[i] = IF i <= Len(b) THEN b[i] ELSE rest[i - Len(b)]
  <2>1. b \in Seq(STRING) /\ rest \in Seq(STRING)
    BY <1>5 DEF Folder
  <2>2. \A t \in Seq(STRING) :
          /\ b \o t \in Seq(STRING) /\ Len(b \o t) = Len(b) + Len(t)
          /\ \A i \in 1 .. Len(b) + Len(t) :
               (b \o t)[i] = IF i <= Len(b) THEN b[i] ELSE t[i - Len(b)]
    BY <2>1, ConcatProperties
  <2> QED BY <2>1, <2>2 DEF Folder
<1>8. \A i \in 1 .. Len(b) + Len(rest) : i > Len(b) => i - Len(b) \in 1 .. Len(rest)
  BY <1>1, <1>5, <1>3
<1>9. ASSUME NEW i \in 1 .. Len(b) + Len(rest)
      PROVE  (b \o rest)[i] = IF i <= Len(b) THEN b[i] ELSE f[i - Len(b) + Len(a)]
  <2>1. CASE i <= Len(b)
    BY <1>7, <2>1
  <2>2. CASE ~(i <= Len(b))
    <3>1. PICK j \in 1 .. Len(rest) : j = i - Len(b)
      BY SMTT(40), <1>1, <1>8, <2>2
    <3>2. rest[j] = f[j + Len(a)]
      BY <1>5
    <3>3. (b \o rest)[i] = rest[j]
      BY <1>7, <2>2, <3>1
    <3> QED BY <2>2, <3>1, <3>2, <3>3
  <2> QED BY <2>1, <2>2
<1> QED BY <1>1, <1>3, <1>5, <1>6, <1>7, <1>9

(* An ancestor of what was moved is an ancestor of the new name or was     *)
(* moved itself.                                                           *)
LEMMA MovedAncestry ==
  ASSUME NEW f \in Folder, NEW a \in Folder, NEW b \in Folder,
         NEW F \in SUBSET Folder, Ancestry(f) \subseteq F
  PROVE  Ancestry(Moved(f, a, b)) \subseteq {Moved(g, a, b) : g \in F} \cup Ancestry(b)
<1>1. Len(f) \in Nat /\ Len(a) \in Nat /\ Len(b) \in Nat
  BY LenProperties DEF Folder
<1>2. CASE ~IsUnder(f, a)
  <2> SUFFICES ASSUME NEW h \in Ancestry(f) PROVE \E g \in F : h = Moved(g, a, b)
    BY <1>2, MovedIs
  <2>1. h \in Folder /\ Len(h) \in 1 .. Len(f) /\ \A i \in 1 .. Len(h) : h[i] = f[i]
    BY AncestryIs
  <2>2. ~IsUnder(h, a)
    BY <2>1, <1>1, <1>2, UnderIs
  <2> QED BY <2>1, <2>2, MovedIs
<1>3. CASE IsUnder(f, a)
  <2> DEFINE m == Moved(f, a, b)
  <2>1. /\ m \in Folder /\ Len(m) = Len(b) + Len(f) - Len(a)
        /\ \A i \in 1 .. Len(m) : m[i] = IF i <= Len(b) THEN b[i] ELSE f[i - Len(b) + Len(a)]
    BY <1>3, MovedIs
  <2>2. Len(a) <= Len(f) /\ \A i \in 1 .. Len(a) : a[i] = f[i]
    BY <1>3, UnderIs
  <2> SUFFICES ASSUME NEW h \in Ancestry(m), h \notin Ancestry(b)
               PROVE  \E g \in F : h = Moved(g, a, b)
    OBVIOUS
  <2> HIDE DEF m
  <2>3. h \in Folder /\ Len(h) \in 1 .. Len(m) /\ \A i \in 1 .. Len(h) : h[i] = m[i]
    BY <2>1, AncestryIs
  <2>4. Len(h) \in Nat /\ Len(h) <= Len(m)
    BY <2>3, <2>1, <1>1
  <2>5. Len(h) > Len(b)
    <3> SUFFICES ASSUME Len(h) <= Len(b) PROVE h \in Ancestry(b)
      BY <2>4, <1>1
    <3>1. \A i \in 1 .. Len(h) : h[i] = b[i]
      BY SMTT(40), <2>1, <2>3, <2>4, <1>1
    <3>2. Len(h) \in 1 .. Len(b)
      BY <2>3, <2>4, <1>1
    <3> QED BY <3>1, <3>2, <2>3, AncestryIs
  <2> DEFINE n == Len(h) - Len(b) + Len(a)
  <2>6. n \in 1 .. Len(f) /\ n > Len(a)
    BY <2>1, <2>4, <2>5, <1>1
  <2> DEFINE g == SubSeq(f, 1, n)
  <2>7. g \in Ancestry(f)
    BY <2>6 DEF Ancestry
  <2>8. g \in Folder /\ Len(g) = n /\ \A i \in 1 .. n : g[i] = f[i]
    <3>1. \A i \in 1 .. n : f[i] \in STRING
      BY <2>6, <1>1, ElementOfSeq DEF Folder
    <3>2. /\ g \in Seq(STRING) /\ Len(g) = IF 1 <= n THEN n - 1 + 1 ELSE 0
          /\ \A i \in 1 .. n - 1 + 1 : g[i] = f[1 + i - 1]
      BY <3>1, <2>6, SubSeqProperties
    <3> HIDE DEF g, n
    <3> QED BY <3>2, <2>6, <1>1 DEF Folder
  <2> HIDE DEF g
  <2>9. IsUnder(g, a)
    BY <2>8, <2>6, <2>2, <1>1, UnderIs
  <2> DEFINE w == Moved(g, a, b)
  <2>10. /\ w \in Folder /\ Len(w) = Len(b) + Len(g) - Len(a)
         /\ \A i \in 1 .. Len(w) : w[i] = IF i <= Len(b) THEN b[i] ELSE g[i - Len(b) + Len(a)]
    BY <2>8, <2>9, MovedIs
  <2> HIDE DEF w
  <2>11. Len(w) = Len(h)
    BY <2>10, <2>8, <2>4, <1>1
  <2>12. \A i \in 1 .. Len(h) : h[i] = w[i]
    <3> TAKE i \in 1 .. Len(h)
    <3>1. h[i] = IF i <= Len(b) THEN b[i] ELSE f[i - Len(b) + Len(a)]
      BY <2>1, <2>3, <2>4
    <3>2. w[i] = IF i <= Len(b) THEN b[i] ELSE g[i - Len(b) + Len(a)]
      BY <2>10, <2>11
    <3>3. i > Len(b) => i - Len(b) + Len(a) \in 1 .. n
      BY <2>4, <1>1
    <3> QED BY <3>1, <3>2, <3>3, <2>8, <2>4, <1>1
  <2>13. h = w
    BY SMTT(40), <2>3, <2>10, <2>11, <2>12, SeqEqual DEF Folder
  <2> QED BY <2>7, <2>13 DEF w
<1> QED BY <1>2, <1>3

(* Folders that were different stay different, if nothing lies under the   *)
(* new name but what is moved.                                             *)
LEMMA MovedApart ==
  ASSUME NEW f \in Folder, NEW g \in Folder, NEW a \in Folder, NEW b \in Folder,
         Moved(f, a, b) = Moved(g, a, b),
         IsUnder(f, b) => IsUnder(f, a), IsUnder(g, b) => IsUnder(g, a)
  PROVE  f = g
<1>1. /\ Len(f) \in Nat /\ Len(g) \in Nat /\ Len(a) \in Nat /\ Len(b) \in Nat
  BY LenProperties DEF Folder
<1>2. ASSUME NEW x \in Folder, NEW y \in Folder, IsUnder(x, a), ~IsUnder(y, a),
             Moved(x, a, b) = Moved(y, a, b)
      PROVE  IsUnder(y, b)
  <2>1. y = Moved(x, a, b)
    BY <1>2, MovedIs
  <2>2. Len(x) \in Nat /\ Len(a) <= Len(x)
    BY <1>2, UnderIs, LenProperties DEF Folder
  <2>3. Len(y) = Len(b) + Len(x) - Len(a)
    BY <1>2, <2>1, MovedIs
  <2>4. \A i \in 1 .. Len(b) : y[i] = b[i]
    BY <1>2, <2>1, <2>2, <2>3, <1>1, MovedIs
  <2> QED BY <2>2, <2>3, <2>4, <1>1, UnderIs
<1>3. CASE ~IsUnder(f, a) /\ ~IsUnder(g, a)
  BY <1>3, MovedIs
<1>4. CASE IsUnder(f, a) /\ ~IsUnder(g, a)
  BY <1>4, <1>2
<1>5. CASE ~IsUnder(f, a) /\ IsUnder(g, a)
  BY <1>5, <1>2
<1>6. CASE IsUnder(f, a) /\ IsUnder(g, a)
  <2> DEFINE m == Moved(f, a, b)
  <2>1. /\ Len(a) <= Len(f) /\ Len(a) <= Len(g)
        /\ \A i \in 1 .. Len(a) : a[i] = f[i] /\ a[i] = g[i]
    BY <1>6, UnderIs
  <2>2. /\ Len(m) = Len(b) + Len(f) - Len(a) /\ Len(m) = Len(b) + Len(g) - Len(a)
        /\ \A i \in 1 .. Len(m) : m[i] = IF i <= Len(b) THEN b[i] ELSE f[i - Len(b) + Len(a)]
        /\ \A i \in 1 .. Len(m) : m[i] = IF i <= Len(b) THEN b[i] ELSE g[i - Len(b) + Len(a)]
    BY <1>6, MovedIs
  <2> HIDE DEF m
  <2>3. Len(f) = Len(g)
    BY <2>2, <1>1
  <2>4. \A j \in 1 .. Len(f) : f[j] = g[j]
    <3> TAKE j \in 1 .. Len(f)
    <3>1. CASE j <= Len(a)
      BY <3>1, <2>1, <1>1
    <3>2. CASE j > Len(a)
      <4> DEFINE i == j - Len(a) + Len(b)
      <4>1. i \in 1 .. Len(m) /\ ~(i <= Len(b)) /\ i - Len(b) + Len(a) = j
        BY <3>2, <2>2, <1>1
      <4> HIDE DEF i
      <4>2. m[i] = f[i - Len(b) + Len(a)] /\ m[i] = g[i - Len(b) + Len(a)]
        BY <4>1, <2>2
      <4> QED BY <4>1, <4>2
    <3> QED BY <3>1, <3>2, <1>1
  <2> QED BY <2>3, <2>4, SeqEqual DEF Folder
<1> QED BY <1>3, <1>4, <1>5, <1>6

LEMMA RenameFolderKeeps ==
  ASSUME NEW inv, IsInventory(inv), Closed(inv), NEW from \in Folder, NEW to \in Folder,
         RenameFolder(inv, from, to) # Conflict
  PROVE  LET new == RenameFolder(inv, from, to)
         IN /\ IsInventory(new) /\ Closed(new)
            /\ DOMAIN new.devs = DOMAIN inv.devs
            /\ \A d \in DOMAIN inv.devs : new.devs[d].prof = inv.devs[d].prof
            /\ \A d, e \in DOMAIN inv.devs :
                 FolderOf(inv, d) # FolderOf(inv, e) => FolderOf(new, d) # FolderOf(new, e)
<1>1. PICK a, b : a = Normalized(from) /\ b = Normalized(to)
  OBVIOUS
<1>2. a \in Folder /\ b \in Folder
  BY <1>1, NormalizedIsFolder
<1> DEFINE new == RenameFolder(inv, from, to)
           devs == [d \in DOMAIN inv.devs |-> [inv.devs[d] EXCEPT !.folder = Moved(@, a, b)]]
           moved == {Moved(f, a, b) : f \in inv.folders}
           folders == moved \cup Ancestry(b)
<1>3. new = [devs |-> devs, folders |-> folders] /\ ~Taken(inv, a, b)
  BY <1>1 DEF RenameFolder, MoveAll
<1>4. \A f \in Folder : Moved(f, a, b) \in Folder
  BY <1>2, MovedIs
<1>5. /\ inv.folders \in SUBSET Folder
      /\ \A f \in inv.folders : f \in Folder /\ Ancestry(f) \subseteq inv.folders
      /\ \A d \in DOMAIN inv.devs : /\ inv.devs[d] \in SavedDevice
                                    /\ FolderOf(inv, d) \in Folder
                                    /\ Ancestry(FolderOf(inv, d)) \subseteq inv.folders
  BY InventoryIs, ClosedIs
<1>6. /\ DOMAIN devs = DOMAIN inv.devs
      /\ \A d \in DOMAIN inv.devs : /\ devs[d] \in SavedDevice
                                    /\ devs[d].prof = inv.devs[d].prof
                                    /\ devs[d].folder = Moved(FolderOf(inv, d), a, b)
  BY <1>4, <1>5 DEF SavedDevice, FolderOf
<1>7. devs \in [DOMAIN devs -> SavedDevice] /\ DOMAIN devs \subseteq Devices
  BY <1>6, InventoryIs
<1>8. folders \in SUBSET Folder
  BY <1>2, <1>4, <1>5, AncestryClosed
<1>9. \A f \in folders : Ancestry(f) \subseteq folders
  <2> TAKE f \in folders
  <2>1. CASE f \in Ancestry(b)
    BY <2>1, <1>2, AncestryClosed
  <2>2. CASE f \in moved
    <3>1. PICK g \in inv.folders : f = Moved(g, a, b)
      BY <2>2
    <3> QED BY ZenonT(60), <3>1, <1>2, <1>5, MovedAncestry
  <2> QED BY <2>1, <2>2
<1>10. \A d \in DOMAIN inv.devs : Ancestry(Moved(FolderOf(inv, d), a, b)) \subseteq folders
  BY ZenonT(60), <1>2, <1>5, MovedAncestry
<1> HIDE DEF devs, folders, new
<1>11. IsInventory(new)
  BY <1>3, <1>7, <1>8, InventoryMade
<1>12. \A d \in DOMAIN inv.devs : FolderOf(new, d) = Moved(FolderOf(inv, d), a, b)
  BY <1>3, <1>6 DEF FolderOf
<1>13. Closed(new)
  BY <1>3, <1>6, <1>9, <1>10, <1>12, ClosedIs
<1>14. ASSUME NEW d \in DOMAIN inv.devs, NEW e \in DOMAIN inv.devs,
              FolderOf(new, d) = FolderOf(new, e)
       PROVE  FolderOf(inv, d) = FolderOf(inv, e)
  <2>1. \A c \in DOMAIN inv.devs : IsUnder(FolderOf(inv, c), b) => IsUnder(FolderOf(inv, c), a)
    BY <1>3 DEF Taken, NamedFolders
  <2> QED BY <2>1, <1>14, <1>2, <1>5, <1>12, MovedApart
<1> QED BY <1>3, <1>6, <1>11, <1>13, <1>14 DEF new

LEMMA FrontIs ==
  ASSUME NEW f \in Folder, f # <<>>
  PROVE  /\ Front(f) \in Folder /\ Len(Front(f)) = Len(f) - 1
         /\ \A i \in 1 .. Len(Front(f)) : Front(f)[i] = f[i]
<1>1. Len(f) \in Nat /\ Len(f) # 0
  BY EmptySeq, LenProperties DEF Folder
<1>2. \A i \in 1 .. Len(f) - 1 : f[i] \in STRING
  BY <1>1, ElementOfSeq DEF Folder
<1> DEFINE g == SubSeq(f, 1, Len(f) - 1)
<1>3. /\ g \in Seq(STRING)
      /\ Len(g) = IF 1 <= Len(f) - 1 THEN Len(f) - 1 - 1 + 1 ELSE 0
      /\ \A i \in 1 .. Len(f) - 1 - 1 + 1 : g[i] = f[1 + i - 1]
  BY <1>1, <1>2, SubSeqProperties
<1>4. Front(f) = g
  BY DEF Front
<1> HIDE DEF g
<1> QED BY <1>1, <1>3, <1>4 DEF Folder

LEMMA DeleteFolderKeeps ==
  ASSUME NEW inv, IsInventory(inv), Closed(inv), NEW raw \in Folder,
         DeleteFolder(inv, raw) # Conflict
  PROVE  LET new == DeleteFolder(inv, raw)
         IN /\ IsInventory(new) /\ Closed(new)
            /\ DOMAIN new.devs = DOMAIN inv.devs
            /\ \A d \in DOMAIN inv.devs : new.devs[d].prof = inv.devs[d].prof
<1>1. PICK path : path = Normalized(raw)
  OBVIOUS
<1> DEFINE home(f) == IF IsUnder(f, path) THEN Front(path) ELSE f
           new == DeleteFolder(inv, raw)
           devs == [d \in DOMAIN inv.devs |->
                     [inv.devs[d] EXCEPT !.folder = IF IsUnder(@, path) THEN Front(path) ELSE @]]
           folders == {f \in inv.folders : ~IsUnder(f, path)}
<1>2. path \in Folder /\ path # <<>>
  BY <1>1, NormalizedIsFolder DEF DeleteFolder
<1>3. new = [devs |-> devs, folders |-> folders]
  BY <1>1 DEF DeleteFolder
<1>4. Front(path) \in Folder
  BY <1>2, FrontIs
<1>5. /\ inv.folders \in SUBSET Folder
      /\ \A f \in inv.folders : f \in Folder /\ Ancestry(f) \subseteq inv.folders
      /\ \A d \in DOMAIN inv.devs : /\ inv.devs[d] \in SavedDevice
                                    /\ FolderOf(inv, d) \in Folder
                                    /\ Ancestry(FolderOf(inv, d)) \subseteq inv.folders
  BY InventoryIs, ClosedIs
<1>6. /\ DOMAIN devs = DOMAIN inv.devs
      /\ \A d \in DOMAIN inv.devs : /\ devs[d] \in SavedDevice
                                    /\ devs[d].prof = inv.devs[d].prof
                                    /\ devs[d].folder = home(FolderOf(inv, d))
  BY <1>4, <1>5 DEF SavedDevice, FolderOf
<1>7. devs \in [DOMAIN devs -> SavedDevice] /\ DOMAIN devs \subseteq Devices
  BY <1>6, InventoryIs
<1>8. folders \in SUBSET Folder
  BY <1>5
<1>9. ASSUME NEW f \in Folder, ~IsUnder(f, path), Ancestry(f) \subseteq inv.folders
      PROVE  Ancestry(f) \subseteq folders
  <2> SUFFICES ASSUME NEW h \in Ancestry(f) PROVE ~IsUnder(h, path)
    BY <1>9
  <2>1. h \in Folder /\ Len(h) \in 1 .. Len(f) /\ \A i \in 1 .. Len(h) : h[i] = f[i]
    BY AncestryIs
  <2>2. Len(f) \in Nat /\ Len(path) \in Nat
    BY <1>2, LenProperties DEF Folder
  <2> QED BY <2>1, <2>2, <1>2, <1>9, UnderIs
<1>10. ASSUME NEW f \in Folder, IsUnder(f, path), Ancestry(f) \subseteq inv.folders
       PROVE  Ancestry(Front(path)) \subseteq folders
  <2> SUFFICES ASSUME NEW h \in Ancestry(Front(path)) PROVE h \in folders
    OBVIOUS
  <2>1. /\ Front(path) \in Folder /\ Len(Front(path)) = Len(path) - 1
        /\ \A i \in 1 .. Len(Front(path)) : Front(path)[i] = path[i]
    BY <1>2, FrontIs
  <2>2. /\ h \in Folder /\ Len(h) \in 1 .. Len(Front(path))
        /\ \A i \in 1 .. Len(h) : h[i] = Front(path)[i]
    BY <2>1, AncestryIs
  <2>3. Len(path) <= Len(f) /\ \A i \in 1 .. Len(path) : path[i] = f[i]
    BY <1>2, <1>10, UnderIs
  <2>4. Len(f) \in Nat /\ Len(path) \in Nat
    BY <1>2, LenProperties DEF Folder
  <2>5. Len(h) \in 1 .. Len(f) /\ Len(h) < Len(path)
    BY <2>1, <2>2, <2>3, <2>4
  <2>6. \A i \in 1 .. Len(h) : h[i] = f[i]
    BY <2>1, <2>2, <2>3, <2>4, <2>5
  <2>7. h \in Ancestry(f)
    BY <2>2, <2>5, <2>6, AncestryIs
  <2>8. ~IsUnder(h, path)
    BY <2>2, <2>4, <2>5, <1>2, UnderIs
  <2> QED BY <2>7, <2>8, <1>10
<1> HIDE DEF devs, folders, new
<1>11. IsInventory(new)
  BY <1>3, <1>7, <1>8, InventoryMade
<1>12. \A d \in DOMAIN inv.devs : FolderOf(new, d) = home(FolderOf(inv, d))
  BY <1>3, <1>6 DEF FolderOf
<1>13. \A f \in folders : Ancestry(f) \subseteq folders
  BY <1>5, <1>9 DEF folders
<1>14. \A d \in DOMAIN inv.devs : Ancestry(FolderOf(new, d)) \subseteq folders
  BY <1>5, <1>9, <1>10, <1>12
<1>15. Closed(new)
  BY <1>3, <1>6, <1>13, <1>14, ClosedIs
<1> QED BY <1>3, <1>6, <1>11, <1>15 DEF new

(***************************************************************************)
(* The invariant.                                                          *)
(***************************************************************************)

(* A profile has its password, or what the exceptions of the property name *)
(* took it.  Once true this stays true, which is what lets a handler lean  *)
(* on a file it read or wrote some steps ago.                              *)
VaultHas(p) == p \in disk.vault \/ p \in dropped \/ <<"vault", p>> \in lost
AuthHas(p) == p \in DOMAIN disk.auth \/ p \in dropped \/ <<"auth", p>> \in lost

FlagsOf(auth) == \A p \in DOMAIN auth : auth[p].password => VaultHas(p)
LoginsOf(inv) == \A d \in DOMAIN inv.devs :
                   inv.devs[d].prof = NoProfile \/ AuthHas(inv.devs[d].prof)

(* A content that may lie on disk and that a handler may hold a copy of.   *)
Good(file, content) ==
  /\ file = "inv" => IsInventory(content) /\ Closed(content) /\ LoginsOf(content)
  /\ file = "auth" => IsAuth(content) /\ FlagsOf(content)
  /\ file = "vault" => content \subseteq Profiles /\ content \subseteq asked
  /\ file = "keys" => content \subseteq Known
  /\ file = "cols" => content \subseteq Names
  /\ file = "settings" => content \in Settings

(* What a handler holds, by its operation and its step.                    *)
TreeOps == {"list", "mkdir", "rmdir", "rename", "remove", "upsert", "connect"}
Ops == TreeOps \cup {"import", "commit", "auth", "unauth", "put", "del", "settings"}

PathShape(k) ==
  /\ k.op \in TreeOps => k.todo = <<"inv">>
  /\ k.op \in {"mkdir", "rmdir", "rename"} => k.path \in Folder /\ k.to \in Folder
  /\ k.op \in {"remove", "upsert", "connect", "commit"} => k.id \in Devices
  /\ k.op \in {"upsert", "connect", "commit"} => k.device \in SavedDevice
  /\ k.op = "import" => /\ k.path \in ImportableFiles
                        /\ k.todo \in Seq({"inv"}) /\ k.todo # <<>>
                        /\ k.rows \in Seq(Devices \X [folder : Folder, prof : {NoProfile}])
                        /\ Len(k.rows) = Len(k.todo)

LoginShape(k) ==
  /\ k.op \in {"auth", "unauth"} => k.todo \in {<<"vault", "auth">>, <<"auth">>}
  /\ k.op \in {"auth", "unauth", "commit"} => k.prof \in Profiles
  /\ k.op \in {"auth", "commit"} => k.login \in Login
  /\ k.op = "commit" => /\ k.todo \in {<<"vault", "auth", "inv">>, <<"auth", "inv">>, <<"inv">>}
                        /\ k.device.prof = k.prof
  /\ k.op = "connect" => /\ k.key \in KeyFiles \cup {<<>>}
                         /\ k.pw \in BOOLEAN /\ k.keep \in BOOLEAN
                         /\ k.keep => k.pw /\ k.wish
  /\ k.pc = "open" => k.prof \in Profiles /\ k.login \in Login /\ k.device.prof = k.prof

OtherShape(k) ==
  /\ k.op \in {"put", "del"} => \/ k.todo = <<"keys">> /\ k.id \in Known
                                \/ k.todo = <<"cols">> /\ k.id \in Names
  /\ k.op = "settings" => /\ k.todo = <<"settings">> /\ k.settings \in Settings
                          /\ Remembered(k.settings) = k.settings

StepShape(k) ==
  /\ k.pc = "seed" => Head(k.todo) = "inv"
  /\ k.pc = "rename" => k.op \notin {"list", "connect"}
  /\ k.pc = "publish" => k.op = "settings"
  /\ k.pc \in {"profile", "open"} => k.op = "connect"

CallShape(k) ==
  /\ DOMAIN k = DOMAIN Blank
  /\ k.pc \in {"idle", "load", "seed", "rename", "publish", "profile", "open"}
  /\ k.pc = "idle" => k.op = ""
  /\ k.pc # "idle" => /\ k.op \in Ops /\ PathShape(k) /\ LoginShape(k)
                      /\ OtherShape(k) /\ StepShape(k)

(* What a handler did before lets it write what it writes next.            *)
WritesWhole(k) ==
  /\ k.op \in {"auth", "commit"} /\ Head(k.todo) = "auth" /\ k.login.password => VaultHas(k.prof)
  /\ k.op \in {"auth", "commit"} /\ Head(k.todo) = "vault" => k.prof \in asked
  /\ k.op = "commit" /\ k.todo = <<"inv">> => AuthHas(k.prof)
  /\ k.op = "upsert" => k.device.prof = NoProfile \/ AuthHas(k.device.prof)
  /\ k.op = "unauth" => k.prof \in dropped

(* What lies beside a file is the change of the copy, and is no conflict.  *)
BesideIs(c) ==
  LET k == call[c]
  IN /\ Good(File(c), k.held)
     /\ TmpName(c) \in DOMAIN tmp
     /\ tmp[TmpName(c)] = Change(k, File(c), k.held)
     /\ Change(k, File(c), k.held) # Conflict

CallsInv ==
  /\ DOMAIN call = Callers
  /\ \A c \in Callers : /\ CallShape(call[c])
                        /\ ~At(c, "idle") => WritesWhole(call[c])
                        /\ At(c, "rename") => BesideIs(c)

FilesInv ==
  /\ DOMAIN disk = Files6
  /\ \A file \in Files6 : (file = "inv" /\ disk.inv = Absent) \/ Good(file, disk[file])

(* Of the settings, one call at a time is between file and memory, unless  *)
(* two crossed there, and it carries what the file holds.                  *)
SettingsInv ==
  /\ mem \in Settings /\ Remembered(mem) = mem
  /\ ~crossed => \A c \in Callers : At(c, "publish") =>
       /\ call[c].settings = disk.settings
       /\ \A x \in Callers : At(x, "publish") => x = c
  /\ SettingsAgree

AckedInv ==
  /\ \A e \in acked : e = <<e[1], e[2]>> /\ e[1] \in Files6
  /\ OnlyOldCopiesDrop

StoreInv == CallsInv /\ FilesInv /\ SettingsInv /\ AckedInv

(***************************************************************************)
(* What a change makes of a copy.                                          *)
(***************************************************************************)

(* The first file of a handler that is not idle.                           *)
LEMMA FirstFile ==
  ASSUME NEW k, CallShape(k), k.pc # "idle"
  PROVE  /\ k.todo # <<>> /\ Head(k.todo) \in Files6
         /\ k.op \in TreeOps \cup {"import"} => Head(k.todo) = "inv"
         /\ k.op \in {"auth", "unauth"} =>
              \/ k.todo = <<"vault", "auth">> /\ Head(k.todo) = "vault" /\ Tail(k.todo) = <<"auth">>
              \/ k.todo = <<"auth">> /\ Head(k.todo) = "auth" /\ Tail(k.todo) = <<>>
         /\ k.op = "commit" =>
              \/ /\ k.todo = <<"vault", "auth", "inv">> /\ Head(k.todo) = "vault"
                 /\ Tail(k.todo) = <<"auth", "inv">>
              \/ /\ k.todo = <<"auth", "inv">> /\ Head(k.todo) = "auth"
                 /\ Tail(k.todo) = <<"inv">>
              \/ k.todo = <<"inv">> /\ Head(k.todo) = "inv" /\ Tail(k.todo) = <<>>
         /\ k.op \in {"put", "del"} =>
              \/ k.todo = <<"keys">> /\ Head(k.todo) = "keys" /\ k.id \in Known
              \/ k.todo = <<"cols">> /\ Head(k.todo) = "cols" /\ k.id \in Names
         /\ k.op = "settings" => Head(k.todo) = "settings" /\ Tail(k.todo) = <<>>
         /\ k.op \in Ops
<1>1. k.op \in Ops /\ PathShape(k) /\ LoginShape(k) /\ OtherShape(k)
  BY DEF CallShape
<1>2. k.op = "import" => k.todo # <<>> /\ Head(k.todo) = "inv"
  <2> SUFFICES ASSUME k.op = "import" PROVE k.todo # <<>> /\ Head(k.todo) = "inv"
    OBVIOUS
  <2>1. k.todo \in Seq({"inv"}) /\ k.todo # <<>>
    BY <1>1 DEF PathShape
  <2>2. Head(k.todo) \in {"inv"}
    BY <2>1, HeadTailProperties
  <2> QED BY <2>1, <2>2
<1>3. k.op \in TreeOps => k.todo = <<"inv">>
  BY <1>1 DEF PathShape
<1>4. k.op \in {"auth", "unauth"} => k.todo \in {<<"vault", "auth">>, <<"auth">>}
  BY <1>1 DEF LoginShape
<1>5. k.op = "commit" => k.todo \in {<<"vault", "auth", "inv">>, <<"auth", "inv">>, <<"inv">>}
  BY <1>1 DEF LoginShape
<1>6. k.op \in {"put", "del"} => \/ k.todo = <<"keys">> /\ k.id \in Known
                                 \/ k.todo = <<"cols">> /\ k.id \in Names
  BY <1>1 DEF OtherShape
<1>7. k.op = "settings" => k.todo = <<"settings">>
  BY <1>1 DEF OtherShape
<1>8. k.todo # <<>> /\ Head(k.todo) \in Files6
  BY <1>1, <1>2, <1>3, <1>4, <1>5, <1>6, <1>7 DEF Ops, Files6
<1>14. ASSUME k.todo = <<"vault", "auth", "inv">>
       PROVE  Head(k.todo) = "vault" /\ Tail(k.todo) = <<"auth", "inv">>
  BY <1>14
<1>15. ASSUME k.todo = <<"auth", "inv">> PROVE Head(k.todo) = "auth" /\ Tail(k.todo) = <<"inv">>
  BY <1>15
<1>16. ASSUME k.todo = <<"vault", "auth">>
       PROVE  Head(k.todo) = "vault" /\ Tail(k.todo) = <<"auth">>
  BY <1>16
<1>17. ASSUME NEW file, k.todo = <<file>> PROVE Head(k.todo) = file /\ Tail(k.todo) = <<>>
  BY <1>17
<1>9. k.op = "commit" =>
        \/ /\ k.todo = <<"vault", "auth", "inv">> /\ Head(k.todo) = "vault"
           /\ Tail(k.todo) = <<"auth", "inv">>
        \/ /\ k.todo = <<"auth", "inv">> /\ Head(k.todo) = "auth"
           /\ Tail(k.todo) = <<"inv">>
        \/ k.todo = <<"inv">> /\ Head(k.todo) = "inv" /\ Tail(k.todo) = <<>>
  BY <1>5, <1>14, <1>15, <1>17, Zenon
<1>10. k.op \in {"auth", "unauth"} =>
         \/ k.todo = <<"vault", "auth">> /\ Head(k.todo) = "vault" /\ Tail(k.todo) = <<"auth">>
         \/ k.todo = <<"auth">> /\ Head(k.todo) = "auth" /\ Tail(k.todo) = <<>>
  BY <1>4, <1>16, <1>17, Zenon
<1>11. k.op \in TreeOps \cup {"import"} => Head(k.todo) = "inv"
  BY <1>2, <1>3
<1>12. k.op \in {"put", "del"} =>
         \/ k.todo = <<"keys">> /\ Head(k.todo) = "keys" /\ k.id \in Known
         \/ k.todo = <<"cols">> /\ Head(k.todo) = "cols" /\ k.id \in Names
  BY <1>6
<1>13. k.op = "settings" => Head(k.todo) = "settings" /\ Tail(k.todo) = <<>>
  BY <1>7, <1>17, Zenon
<1> QED BY <1>1, <1>8, <1>9, <1>10, <1>11, <1>12, <1>13

LEMMA EntriesOf ==
  ASSUME NEW content
  PROVE  /\ Entries("auth", content) = DOMAIN content /\ Entries("vault", content) = content
         /\ Entries("keys", content) = content /\ Entries("cols", content) = content
         /\ Entries("settings", content) = {}
         /\ Entries("inv", content) = DOMAIN InventoryOf(content).devs
<1>1. Entries("auth", content) = DOMAIN content
  BY DEF Entries
<1>2. Entries("vault", content) = content
  BY DEF Entries
<1>3. Entries("keys", content) = content /\ Entries("cols", content) = content
  BY DEF Entries
<1>4. Entries("settings", content) = {}
  BY DEF Entries
<1>5. Entries("inv", content) = DOMAIN InventoryOf(content).devs
  BY DEF Entries
<1> QED BY <1>1, <1>2, <1>3, <1>4, <1>5

LEMMA SubjectOf ==
  ASSUME NEW k
  PROVE  /\ k.op \in {"auth", "unauth", "commit"} => /\ Subject(k, "auth") = {k.prof}
                                                   /\ Subject(k, "vault") = {k.prof}
         /\ k.op = "settings" => Subject(k, "settings") = {}
         /\ k.op \in {"put", "del"} => /\ Subject(k, "keys") = {k.id}
                                       /\ Subject(k, "cols") = {k.id}
<1>1. k.op \in {"auth", "unauth", "commit"} => Subject(k, "auth") = {k.prof}
  BY DEF Subject
<1>2. k.op \in {"auth", "unauth", "commit"} => Subject(k, "vault") = {k.prof}
  BY DEF Subject
<1>3. k.op = "settings" => Subject(k, "settings") = {}
  BY DEF Subject
<1>4. k.op \in {"put", "del"} => Subject(k, "keys") = {k.id}
  BY DEF Subject
<1>5. k.op \in {"put", "del"} => Subject(k, "cols") = {k.id}
  BY DEF Subject
<1> QED BY <1>1, <1>2, <1>3, <1>4, <1>5

(* What the lemmas on the changes share: the new content is good, has what *)
(* the copy has but for the entry the handler is about, and has that one   *)
(* unless the handler takes it away.                                       *)
Fits(k, file, copy, new) ==
  /\ Good(file, new)
  /\ Entries(file, copy) \ Subject(k, file) \subseteq Entries(file, new)
  /\ ~TakesAway(k) => Subject(k, file) \subseteq Entries(file, new)

LEMMA AbsentIsNone == \A content : IsInventory(content) => content # Absent
BY FilesAssumption

LEMMA TreeFits ==
  ASSUME NEW k, NEW copy, Good("inv", copy), NEW new, IsInventory(new), Closed(new),
         \A d \in DOMAIN new.devs :
           \/ d \in DOMAIN copy.devs /\ new.devs[d].prof = copy.devs[d].prof
           \/ new.devs[d].prof = NoProfile \/ AuthHas(new.devs[d].prof),
         DOMAIN copy.devs \ Subject(k, "inv") \subseteq DOMAIN new.devs,
         ~TakesAway(k) => Subject(k, "inv") \subseteq DOMAIN new.devs
  PROVE  Fits(k, "inv", copy, new)
<1>1. InventoryOf(copy) = copy /\ InventoryOf(new) = new
  BY AbsentIsNone DEF Good, InventoryOf
<1>2. Entries("inv", copy) = DOMAIN copy.devs /\ Entries("inv", new) = DOMAIN new.devs
  BY <1>1, EntriesOf
<1>3. LoginsOf(new)
  BY DEF Good, LoginsOf
<1> QED BY <1>2, <1>3 DEF Fits, Good

LEMMA InventoryChangeFits ==
  ASSUME NEW k, CallShape(k), k.pc # "idle", k.op \notin {"list", "connect"},
         Head(k.todo) = "inv", WritesWhole(k),
         NEW copy, Good("inv", copy), Change(k, "inv", copy) # Conflict
  PROVE  Fits(k, "inv", copy, Change(k, "inv", copy))
<1> DEFINE new == Change(k, "inv", copy)
<1>1. new = ChangeInventory(k, copy)
  BY DEF Change
<1>2. IsInventory(copy) /\ Closed(copy)
  BY DEF Good
<1>3. k.op \in {"mkdir", "rmdir", "rename", "remove", "upsert", "import", "commit"}
  BY FirstFile DEF Ops, TreeOps
<1>4. PathShape(k) /\ LoginShape(k)
  BY DEF CallShape
<1> HIDE DEF new
<1>5. CASE k.op = "mkdir"
  <2>1. new = UpsertFolder(copy, k.path) /\ k.path \in Folder
    BY <1>1, <1>4, <1>5 DEF ChangeInventory, PathShape
  <2>2. IsInventory(new) /\ Closed(new) /\ new.devs = copy.devs
    BY <2>1, <1>2, UpsertFolderKeeps DEF new
  <2>3. Subject(k, "inv") = {}
    BY <1>5 DEF Subject
  <2> QED BY <2>2, <2>3, TreeFits DEF new
<1>6. CASE k.op = "rmdir"
  <2>1. new = DeleteFolder(copy, k.path) /\ k.path \in Folder
    BY <1>1, <1>4, <1>6 DEF ChangeInventory, PathShape
  <2>2. /\ IsInventory(new) /\ Closed(new) /\ DOMAIN new.devs = DOMAIN copy.devs
        /\ \A d \in DOMAIN copy.devs : new.devs[d].prof = copy.devs[d].prof
    BY <2>1, <1>2, DeleteFolderKeeps DEF new
  <2>3. Subject(k, "inv") = {}
    BY <1>6 DEF Subject
  <2> QED BY <2>2, <2>3, TreeFits DEF new
<1>7. CASE k.op = "rename"
  <2>1. new = RenameFolder(copy, k.path, k.to) /\ k.path \in Folder /\ k.to \in Folder
    BY <1>1, <1>4, <1>7 DEF ChangeInventory, PathShape
  <2>2. /\ IsInventory(new) /\ Closed(new) /\ DOMAIN new.devs = DOMAIN copy.devs
        /\ \A d \in DOMAIN copy.devs : new.devs[d].prof = copy.devs[d].prof
    BY <2>1, <1>2, RenameFolderKeeps DEF new
  <2>3. Subject(k, "inv") = {}
    BY <1>7 DEF Subject
  <2> QED BY <2>2, <2>3, TreeFits DEF new
<1>8. CASE k.op = "remove"
  <2>1. new = DeleteDevice(copy, k.id)
    BY <1>1, <1>8 DEF ChangeInventory
  <2>2. /\ IsInventory(new) /\ Closed(new) /\ DOMAIN new.devs = DOMAIN copy.devs \ {k.id}
        /\ \A d \in DOMAIN new.devs : new.devs[d] = copy.devs[d]
    BY <2>1, <1>2, DeleteDeviceKeeps
  <2>3. Subject(k, "inv") = {k.id} /\ TakesAway(k)
    BY <1>8 DEF Subject, TakesAway
  <2> QED BY <2>2, <2>3, TreeFits DEF new
<1>9. CASE k.op \in {"upsert", "commit"}
  <2>1. /\ new = UpsertDevice(copy, k.id, k.device)
        /\ k.id \in Devices /\ k.device \in SavedDevice
    BY <1>1, <1>4, <1>9 DEF ChangeInventory, PathShape
  <2>2. /\ IsInventory(new) /\ Closed(new) /\ DOMAIN new.devs = DOMAIN copy.devs \cup {k.id}
        /\ new.devs[k.id].prof = k.device.prof
        /\ \A e \in DOMAIN copy.devs \ {k.id} : new.devs[e] = copy.devs[e]
    BY <2>1, <1>2, UpsertDeviceKeeps
  <2>3. Subject(k, "inv") = {k.id}
    BY <1>9 DEF Subject
  <2>4. k.device.prof = NoProfile \/ AuthHas(k.device.prof)
    <3>1. CASE k.op = "upsert"
      BY <3>1 DEF WritesWhole
    <3>2. CASE k.op = "commit"
      <4>1. k.todo = <<"inv">>
        BY <3>2, FirstFile
      <4> QED BY <3>2, <4>1, <1>4 DEF WritesWhole, LoginShape
    <3> QED BY <1>9, <3>1, <3>2
  <2> QED BY <2>2, <2>3, <2>4, TreeFits DEF new
<1>10. CASE k.op = "import"
  <2>1. /\ k.rows \in Seq(Devices \X [folder : Folder, prof : {NoProfile}])
        /\ k.todo \in Seq({"inv"}) /\ k.todo # <<>> /\ Len(k.rows) = Len(k.todo)
    BY <1>4, <1>10 DEF PathShape
  <2>2. k.rows # <<>>
    BY <2>1, EmptySeq
  <2>3. PICK d, device : d = Head(k.rows)[1] /\ device = Head(k.rows)[2]
    OBVIOUS
  <2>4. Head(k.rows) \in Devices \X [folder : Folder, prof : {NoProfile}]
    BY <2>1, <2>2, HeadTailProperties
  <2>5. d \in Devices /\ device \in SavedDevice /\ device.prof = NoProfile
    BY <2>3, <2>4 DEF SavedDevice
  <2>6. new = UpsertDevice(copy, d, device)
    BY <1>1, <1>10, <2>3 DEF ChangeInventory
  <2>7. /\ IsInventory(new) /\ Closed(new) /\ DOMAIN new.devs = DOMAIN copy.devs \cup {d}
        /\ new.devs[d].prof = NoProfile
        /\ \A e \in DOMAIN copy.devs \ {d} : new.devs[e] = copy.devs[e]
    BY <2>5, <2>6, <1>2, UpsertDeviceKeeps
  <2>8. Subject(k, "inv") = {d}
    BY <1>10, <2>3 DEF Subject
  <2> QED BY <2>7, <2>8, TreeFits DEF new
<1> QED BY <1>3, <1>5, <1>6, <1>7, <1>8, <1>9, <1>10 DEF new

LEMMA AuthIs ==
  ASSUME NEW auth, IsAuth(auth)
  PROVE  /\ DOMAIN auth \subseteq Profiles /\ auth \in [DOMAIN auth -> Login]
         /\ \A p \in DOMAIN auth : auth[p] \in Login
BY DEF IsAuth

LEMMA AuthChangeFits ==
  ASSUME NEW k, CallShape(k), k.pc # "idle", Head(k.todo) = "auth", WritesWhole(k),
         NEW copy, Good("auth", copy)
  PROVE  Fits(k, "auth", copy, Change(k, "auth", copy))
<1>1. PICK new : new = Change(k, "auth", copy)
  OBVIOUS
<1>2. IsAuth(copy) /\ FlagsOf(copy)
  BY DEF Good
<1>3. k.op \in {"auth", "unauth", "commit"} /\ k.prof \in Profiles
  <2>1. k.op \in {"auth", "unauth", "commit"}
    BY FirstFile DEF Ops
  <2> QED BY <2>1 DEF CallShape, LoginShape
<1>4. /\ Subject(k, "auth") = {k.prof}
      /\ Entries("auth", copy) = DOMAIN copy /\ Entries("auth", new) = DOMAIN new
  BY <1>3, SubjectOf, EntriesOf
<1>5. CASE k.op = "unauth"
  <2>1. new = Restrict(copy, DOMAIN copy \ {k.prof})
    BY <1>1, <1>5 DEF Change
  <2>2. DOMAIN new = DOMAIN copy \ {k.prof} /\ \A p \in DOMAIN new : new[p] = copy[p]
    BY <2>1 DEF Restrict
  <2>3. new \in [DOMAIN copy \ {k.prof} -> Login]
    BY <2>1, <1>2, AuthIs DEF Restrict
  <2>4. IsAuth(new)
    BY <2>3, <1>2, AuthIs DEF IsAuth
  <2>5. FlagsOf(new)
    BY <2>2, <1>2 DEF FlagsOf
  <2>6. TakesAway(k)
    BY <1>5 DEF TakesAway
  <2> QED BY <2>2, <2>4, <2>5, <2>6, <1>1, <1>4 DEF Fits, Good
<1>6. CASE k.op \in {"auth", "commit"}
  <2>1. new = Put(copy, k.prof, k.login)
    BY <1>1, <1>6 DEF Change
  <2>2. k.login \in Login
    BY <1>6 DEF CallShape, LoginShape
  <2>3. /\ DOMAIN new = DOMAIN copy \cup {k.prof} /\ new[k.prof] = k.login
        /\ \A p \in DOMAIN copy \ {k.prof} : new[p] = copy[p]
    BY <2>1 DEF Put
  <2>4. new \in [DOMAIN copy \cup {k.prof} -> Login]
    BY <2>1, <2>2, <1>2, AuthIs, PutTyped
  <2>5. IsAuth(new)
    BY <2>4, <1>2, <1>3, AuthIs DEF IsAuth
  <2>6. k.login.password => VaultHas(k.prof)
    BY <1>6 DEF WritesWhole
  <2>7. FlagsOf(new)
    BY <2>3, <2>6, <1>2 DEF FlagsOf
  <2> QED BY <2>3, <2>5, <2>7, <1>1, <1>4 DEF Fits, Good
<1> QED BY <1>3, <1>5, <1>6

LEMMA VaultChangeFits ==
  ASSUME NEW k, CallShape(k), k.pc # "idle", Head(k.todo) = "vault", WritesWhole(k),
         NEW copy, Good("vault", copy)
  PROVE  Fits(k, "vault", copy, Change(k, "vault", copy))
<1>1. PICK new : new = Change(k, "vault", copy)
  OBVIOUS
<1>2. copy \subseteq Profiles /\ copy \subseteq asked
  BY DEF Good
<1>3. k.op \in {"auth", "unauth", "commit"} /\ k.prof \in Profiles
  <2>1. k.op \in {"auth", "unauth", "commit"}
    BY FirstFile DEF Ops
  <2> QED BY <2>1 DEF CallShape, LoginShape
<1>4. /\ Subject(k, "vault") = {k.prof}
      /\ Entries("vault", copy) = copy /\ Entries("vault", new) = new
  BY <1>3, SubjectOf, EntriesOf
<1>5. CASE k.op = "unauth"
  BY <1>1, <1>2, <1>4, <1>5 DEF Change, TakesAway, Fits, Good
<1>6. CASE k.op \in {"auth", "commit"}
  <2>1. new = copy \cup {k.prof}
    BY <1>1, <1>6 DEF Change
  <2>2. k.prof \in asked
    BY <1>6 DEF WritesWhole
  <2> QED BY <2>1, <2>2, <1>1, <1>2, <1>3, <1>4 DEF Fits, Good
<1> QED BY <1>3, <1>5, <1>6

LEMMA NamesChangeFits ==
  ASSUME NEW k, CallShape(k), k.pc # "idle", NEW file \in {"keys", "cols"},
         Head(k.todo) = file, NEW copy, Good(file, copy)
  PROVE  Fits(k, file, copy, Change(k, file, copy))
<1>1. PICK new : new = IF k.op = "del" THEN copy \ {k.id} ELSE copy \cup {k.id}
  OBVIOUS
<1>2. /\ k.op \in {"put", "del"}
      /\ file = "keys" => k.id \in Known
      /\ file = "cols" => k.id \in Names
  BY FirstFile DEF Ops
<1>3. k.op = "del" => TakesAway(k)
  BY DEF TakesAway
<1>4. CASE file = "keys"
  <2>1. Change(k, "keys", copy) = new
    BY <1>1 DEF Change
  <2>2. copy \subseteq Known /\ k.id \in Known
    BY <1>2, <1>4 DEF Good
  <2>3. new \subseteq Known
    BY <1>1, <2>2
  <2>4. /\ Subject(k, "keys") = {k.id}
        /\ Entries("keys", copy) = copy /\ Entries("keys", new) = new
    BY <1>2, SubjectOf, EntriesOf
  <2>5. Good("keys", new)
    BY <2>3 DEF Good
  <2> QED BY <1>1, <1>3, <1>4, <2>1, <2>4, <2>5 DEF Fits
<1>5. CASE file = "cols"
  <2>1. Change(k, "cols", copy) = new
    BY <1>1 DEF Change
  <2>2. copy \subseteq Names /\ k.id \in Names
    BY <1>2, <1>5 DEF Good
  <2>3. new \subseteq Names
    BY <1>1, <2>2
  <2>4. /\ Subject(k, "cols") = {k.id}
        /\ Entries("cols", copy) = copy /\ Entries("cols", new) = new
    BY <1>2, SubjectOf, EntriesOf
  <2>5. Good("cols", new)
    BY <2>3 DEF Good
  <2> QED BY <1>1, <1>3, <1>5, <2>1, <2>4, <2>5 DEF Fits
<1> QED BY <1>4, <1>5

(* Every change makes a good content of a good copy.                       *)
LEMMA ChangeFits ==
  ASSUME NEW k, CallShape(k), k.pc # "idle", k.op \notin {"list", "connect"}, WritesWhole(k),
         NEW file, file = Head(k.todo), NEW copy, Good(file, copy),
         Change(k, file, copy) # Conflict
  PROVE  Fits(k, file, copy, Change(k, file, copy))
<1>1. file \in Files6
  BY FirstFile
<1>2. CASE file = "settings"
  <2>1. k.op = "settings"
    BY <1>2, FirstFile DEF Ops
  <2>2. k.settings \in Settings
    BY <2>1 DEF CallShape, OtherShape
  <2>3. Change(k, file, copy) = k.settings
    BY <1>2 DEF Change
  <2>4. Entries(file, copy) = {} /\ Subject(k, file) = {}
    BY <1>2, <2>1, EntriesOf, SubjectOf
  <2> QED BY <1>2, <2>2, <2>3, <2>4 DEF Fits, Good
<1>3. CASE file = "inv"
  BY <1>3, InventoryChangeFits
<1>4. CASE file = "auth"
  BY <1>4, AuthChangeFits
<1>5. CASE file = "vault"
  BY <1>5, VaultChangeFits
<1>6. CASE file \in {"keys", "cols"}
  BY <1>6, NamesChangeFits
<1> QED BY <1>1, <1>2, <1>3, <1>4, <1>5, <1>6 DEF Files6

(***************************************************************************)
(* Steps that leave the files alone.                                       *)
(***************************************************************************)

(* Nothing that somebody leaned on goes away.                              *)
Grows ==
  /\ \A p : VaultHas(p) => VaultHas(p)'
  /\ \A p : AuthHas(p) => AuthHas(p)'
  /\ asked \subseteq asked' /\ dropped \subseteq dropped'

LEMMA GoodStays ==
  ASSUME Grows, NEW file, NEW content, Good(file, content)
  PROVE  Good(file, content)'
<1>1. FlagsOf(content) => FlagsOf(content)'
  BY DEF Grows, FlagsOf
<1>2. LoginsOf(content) => LoginsOf(content)'
  BY DEF Grows, LoginsOf
<1> QED BY <1>1, <1>2 DEF Grows, Good

LEMMA WritesStay ==
  ASSUME Grows, NEW k, WritesWhole(k)
  PROVE  WritesWhole(k)'
BY DEF Grows, WritesWhole

(* The other callers and what they are writing.                            *)
OthersKept(c) ==
  /\ DOMAIN call' = Callers
  /\ \A x \in Callers \ {c} :
       /\ call'[x] = call[x]
       /\ At(x, "rename") => /\ TmpName(x) \in DOMAIN tmp'
                             /\ tmp'[TmpName(x)] = tmp[TmpName(x)]

LEMMA BesideStays ==
  ASSUME Grows, NEW x, BesideIs(x), call'[x] = call[x], TmpName(x) \in DOMAIN tmp',
         tmp'[TmpName(x)] = tmp[TmpName(x)]
  PROVE  BesideIs(x)'
<1>1. PICK k : k = call[x]
  OBVIOUS
<1>2. PICK file : file = Head(k.todo)
  OBVIOUS
<1>3. File(x) = file /\ File(x)' = file /\ TmpName(x)' = TmpName(x)
  BY <1>1, <1>2 DEF File, TmpName
<1>4. PICK copy : copy = k.held
  OBVIOUS
<1>5. /\ Good(file, copy) /\ TmpName(x) \in DOMAIN tmp
      /\ tmp[TmpName(x)] = Change(k, file, copy) /\ Change(k, file, copy) # Conflict
  BY <1>1, <1>3, <1>4 DEF BesideIs
<1>6. Good(file, copy)'
  BY <1>5, GoodStays
<1>7. Good(File(x), call[x].held)'
  BY <1>1, <1>3, <1>4, <1>6 DEF Good, FlagsOf, LoginsOf
<1> QED BY <1>1, <1>3, <1>4, <1>5, <1>7 DEF BesideIs

LEMMA CallsKept ==
  ASSUME CallsInv, Grows, NEW c \in Callers, OthersKept(c), CallShape(call'[c]),
         ~At(c, "idle")' => WritesWhole(call[c])', At(c, "rename")' => BesideIs(c)'
  PROVE  CallsInv'
<1> SUFFICES ASSUME NEW x \in Callers \ {c}
             PROVE  /\ CallShape(call'[x])
                    /\ ~At(x, "idle")' => WritesWhole(call[x])'
                    /\ At(x, "rename")' => BesideIs(x)'
  BY DEF CallsInv, OthersKept
<1>1. call'[x] = call[x] /\ CallShape(call[x])
  BY DEF CallsInv, OthersKept
<1>2. At(x, "idle")' = At(x, "idle") /\ At(x, "rename")' = At(x, "rename")
  BY <1>1 DEF At
<1>3. ASSUME ~At(x, "idle") PROVE WritesWhole(call[x])'
  <2>1. PICK k : k = call[x]
    OBVIOUS
  <2>2. WritesWhole(k)
    BY <2>1, <1>3 DEF CallsInv
  <2>3. WritesWhole(k)'
    BY <2>2, WritesStay
  <2> QED BY <2>1, <2>3, <1>1 DEF WritesWhole
<1>4. ASSUME At(x, "rename") PROVE BesideIs(x)'
  BY <1>1, <1>4, BesideStays DEF CallsInv, OthersKept
<1> QED BY <1>1, <1>2, <1>3, <1>4

LEMMA FilesKept ==
  ASSUME FilesInv, Grows, disk' = disk
  PROVE  FilesInv'
<1> SUFFICES ASSUME NEW file \in Files6, ~(file = "inv" /\ disk.inv = Absent)
             PROVE  Good(file, disk[file])'
  BY DEF FilesInv
<1>1. PICK content : content = disk[file]
  OBVIOUS
<1>2. Good(file, content)
  BY <1>1 DEF FilesInv
<1>3. Good(file, content)'
  BY <1>2, GoodStays
<1> QED BY <1>1, <1>3 DEF Good, FlagsOf, LoginsOf

(* A step of a call that changes no file and no settings.                  *)
LEMMA QuietStep ==
  ASSUME StoreInv, NEW c \in Callers, OthersKept(c),
         UNCHANGED <<disk, mem, acked, lost, crossed>>,
         asked \subseteq asked', dropped \subseteq dropped',
         ~At(c, "publish"), ~At(c, "publish")', CallShape(call'[c]),
         ~At(c, "idle")' => WritesWhole(call[c])', At(c, "rename")' => BesideIs(c)'
  PROVE  StoreInv'
<1>1. Grows
  BY DEF Grows, VaultHas, AuthHas
<1>2. CallsInv'
  BY <1>1, CallsKept DEF StoreInv
<1>3. FilesInv'
  BY <1>1, FilesKept DEF StoreInv
<1>4. \A x \in Callers : At(x, "publish")' <=> At(x, "publish")
  BY DEF OthersKept, At
<1>5. SettingsInv'
  <2>1. \A x \in Callers : At(x, "publish") => call'[x] = call[x]
    BY DEF OthersKept
  <2>2. SettingsAgree'
    BY <1>4 DEF StoreInv, SettingsInv, SettingsAgree
  <2> QED BY <1>4, <2>1, <2>2 DEF StoreInv, SettingsInv
<1>6. AckedInv'
  BY DEF StoreInv, AckedInv, OnlyOldCopiesDrop, Entries
<1> QED BY <1>2, <1>3, <1>5, <1>6 DEF StoreInv

LEMMA IdleShape == CallShape(Idle) /\ Idle.pc = "idle"
                   /\ \A r : /\ CallShape([Idle EXCEPT !.result = r])
                             /\ [Idle EXCEPT !.result = r].pc = "idle"
BY DEF Idle, Blank, CallShape

LEMMA EndStep ==
  ASSUME StoreInv, NEW c \in Callers, NEW r, End(c, r)
  PROVE  /\ DOMAIN call' = Callers /\ \A x \in Callers \ {c} : call'[x] = call[x]
         /\ CallShape(call'[c]) /\ At(c, "idle")'
         /\ ~At(c, "publish")' /\ ~At(c, "rename")'
<1>1. call' = [call EXCEPT ![c] = [Idle EXCEPT !.result = r]] /\ DOMAIN call = Callers
  BY DEF End, StoreInv, CallsInv
<1>2. call'[c] = [Idle EXCEPT !.result = r]
  BY <1>1
<1>3. CallShape(call'[c]) /\ call'[c].pc = "idle"
  BY <1>2, IdleShape
<1> QED BY <1>1, <1>3 DEF At

(***************************************************************************)
(* Paths and links.  Canonical goes along a path step by step.             *)
(***************************************************************************)
LEMMA UpFromZero ==
  ASSUME NEW T \in SUBSET Nat, 0 \in T, \A n \in T : n + 1 \in T
  PROVE  T = Nat
<1> SUFFICES ASSUME Nat \ T # {} PROVE FALSE
  OBVIOUS
<1>1. IsWellFoundedOn(OpToRel(<, Nat), Nat)
  BY NatLessThanWellFounded
<1>2. PICK x \in Nat \ T : \A y \in Nat \ T : ~(<<y, x>> \in OpToRel(<, Nat))
  <2>1. Nat \ T \in SUBSET Nat
    OBVIOUS
  <2> QED BY <1>1, <2>1, WFMin
<1>3. \A y \in Nat \ T : ~(y < x)
  BY <1>2 DEF OpToRel
<1>4. x # 0 /\ x - 1 \in Nat /\ x - 1 < x /\ (x - 1) + 1 = x
  OBVIOUS
<1> QED BY <1>3, <1>4

(* g goes through S in len steps, from base, each as next says.            *)
IsRun(g, S, base, len, next) ==
  /\ g \in [0 .. len -> S]
  /\ g[0] = base
  /\ \A n \in 1 .. len : g[n] = next[<<g[n - 1], n>>]

LEMMA RunExists ==
  ASSUME NEW S, NEW base \in S, NEW len \in Nat, NEW next \in [S \X (1 .. len) -> S]
  PROVE  \E g : IsRun(g, S, base, len, next)
<1> DEFINE Runs(m) == \E g : IsRun(g, S, base, m, next)
           T == {m \in Nat : m <= len => Runs(m)}
<1>1. Runs(0)
  <2> DEFINE g == [n \in 0 .. 0 |-> base]
  <2>1. g \in [0 .. 0 -> S] /\ g[0] = base /\ \A n \in 1 .. 0 : FALSE
    OBVIOUS
  <2> HIDE DEF g
  <2>2. IsRun(g, S, base, 0, next)
    BY <2>1 DEF IsRun
  <2> QED BY <2>2
<1>2. ASSUME NEW m \in Nat, m + 1 <= len, Runs(m) PROVE Runs(m + 1)
  <2>1. PICK g : IsRun(g, S, base, m, next)
    BY <1>2
  <2>2. /\ g \in [0 .. m -> S] /\ g[0] = base
        /\ \A n \in 1 .. m : g[n] = next[<<g[n - 1], n>>]
    BY <2>1 DEF IsRun
  <2> DEFINE h == [n \in 0 .. (m + 1) |-> IF n = m + 1 THEN next[<<g[m], m + 1>>] ELSE g[n]]
  <2>3. m \in 0 .. m /\ m + 1 \in 1 .. len
    BY <1>2
  <2>4. next[<<g[m], m + 1>>] \in S
    BY <2>2, <2>3
  <2>5. h \in [0 .. (m + 1) -> S]
    BY <2>2, <2>4
  <2>6. /\ \A n \in 0 .. m : h[n] = g[n]
        /\ h[m + 1] = next[<<g[m], m + 1>>]
        /\ \A n \in 1 .. m : n - 1 \in 0 .. m /\ n \in 0 .. m
        /\ 0 \in 0 .. m
    <3>1. \A n \in 0 .. m : n \in 0 .. (m + 1) /\ n # m + 1
      OBVIOUS
    <3>2. m + 1 \in 0 .. (m + 1)
      OBVIOUS
    <3> QED BY <3>1, <3>2
  <2> HIDE DEF h
  <2>7. h[0] = base /\ h[m + 1] = next[<<h[m], m + 1>>]
    BY <2>2, <2>3, <2>6
  <2>8. ASSUME NEW n \in 1 .. (m + 1) PROVE h[n] = next[<<h[n - 1], n>>]
    <3>1. CASE n \in 1 .. m
      BY <2>2, <2>6, <3>1
    <3>2. CASE n = m + 1
      <4>1. n - 1 = m
        BY <3>2
      <4> QED BY <2>7, <3>2, <4>1
    <3> QED BY <3>1, <3>2
  <2>9. IsRun(h, S, base, m + 1, next)
    BY <2>5, <2>7, <2>8 DEF IsRun
  <2> QED BY <2>9
<1> HIDE DEF Runs
<1>3. T \in SUBSET Nat /\ 0 \in T /\ \A m \in T : m + 1 \in T
  BY <1>1, <1>2
<1>4. Runs(len)
  <2>1. T = Nat
    <3> HIDE DEF T
    <3> QED BY <1>3, UpFromZero
  <2> QED BY <2>1
<1> QED BY <1>4 DEF Runs

(* A function defined by recursion over 0 .. len is a run.                 *)
LEMMA RunTyped ==
  ASSUME NEW S, NEW base \in S, NEW len \in Nat, NEW next \in [S \X (1 .. len) -> S],
         NEW f, f = [n \in 0 .. len |-> f[n]], f[0] = base,
         \A n \in 1 .. len : f[n - 1] \in S => f[n] = next[<<f[n - 1], n>>]
  PROVE  IsRun(f, S, base, len, next)
<1>1. \A n \in 0 .. len : f[n] \in S
  <2> DEFINE T == {n \in Nat : n <= len => f[n] \in S}
  <2>1. T \in SUBSET Nat /\ 0 \in T
    OBVIOUS
  <2>2. ASSUME NEW n \in T PROVE n + 1 \in T
    <3>1. CASE n + 1 <= len
      <4>1. n + 1 \in 1 .. len /\ (n + 1) - 1 = n /\ f[n] \in S
        BY <3>1
      <4>2. f[n + 1] = next[<<f[n], n + 1>>]
        BY <4>1
      <4>3. f[n + 1] \in S
        BY <4>1, <4>2
      <4> QED BY <4>3
    <3> QED BY <3>1
  <2>3. T = Nat
    <3> HIDE DEF T
    <3> QED BY <2>1, <2>2, UpFromZero
  <2> QED BY SMTT(40), <2>3
<1>2. f \in [0 .. len -> S]
  BY <1>1
<1>3. \A n \in 1 .. len : n - 1 \in 0 .. len
  OBVIOUS
<1> QED BY <1>1, <1>2, <1>3 DEF IsRun

LEMMA FollowTyped ==
  ASSUME NEW real \in Seq(STRING), NEW part \in STRING
  PROVE  Follow(real, part) \in Seq(STRING)
<1>1. Append(real, part) \in Seq(STRING)
  BY AppendProperties
<1> QED BY <1>1, LinksAssumption DEF Follow

LEMMA WalkIs ==
  ASSUME NEW path \in Seq(STRING)
  PROVE  /\ Walk(path) \in [0 .. Len(path) -> Seq(STRING)] /\ Walk(path)[0] = <<>>
         /\ \A n \in 1 .. Len(path) : Walk(path)[n] = Follow(Walk(path)[n - 1], path[n])
<1> DEFINE len == Len(path)
           S == Seq(STRING)
           base == <<>>
           next == [p \in S \X (1 .. len) |-> Follow(p[1], path[p[2]])]
           Is(g) == g = [n \in 0 .. len |-> IF n = 0 THEN base ELSE Follow(g[n - 1], path[n])]
<1>1. len \in Nat /\ (\A n \in 1 .. len : path[n] \in STRING) /\ base \in S
  OBVIOUS
<1>2. next \in [S \X (1 .. len) -> S]
  <2> HIDE DEF len, base
  <2> QED BY <1>1, FollowTyped
<1>3. \A s \in S, n \in 1 .. len : next[<<s, n>>] = Follow(s, path[n])
  <2> HIDE DEF len, S, base
  <2> QED OBVIOUS
<1>4. Walk(path) = CHOOSE g : Is(g)
  BY DEF Walk
<1> HIDE DEF len, S, base, next
<1>5. PICK g : IsRun(g, S, base, len, next)
  BY <1>1, <1>2, RunExists
<1>6. g \in [0 .. len -> S] /\ g[0] = base /\ \A n \in 1 .. len : g[n] = next[<<g[n - 1], n>>]
  BY <1>5 DEF IsRun
<1>7. \A n \in 0 .. len : n # 0 => n \in 1 .. len /\ n - 1 \in 0 .. len
  BY <1>1
<1>8. Is(g)
  <2>1. \A n \in 0 .. len : g[n] = IF n = 0 THEN base ELSE Follow(g[n - 1], path[n])
    BY <1>3, <1>6, <1>7
  <2> QED BY <1>6, <2>1
<1>9. Is(Walk(path))
  <2> HIDE DEF Is
  <2> QED BY <1>4, <1>8
<1>10. /\ Walk(path) = [n \in 0 .. len |-> Walk(path)[n]] /\ Walk(path)[0] = base
       /\ \A n \in 1 .. len : Walk(path)[n] = Follow(Walk(path)[n - 1], path[n])
  BY <1>1, <1>9, SMTT(40)
<1> HIDE DEF Is
<1>11. IsRun(Walk(path), S, base, len, next)
  <2>1. \A n \in 1 .. len : Walk(path)[n - 1] \in S => Walk(path)[n] = next[<<Walk(path)[n - 1], n>>]
    BY <1>3, <1>10
  <2> QED BY <1>1, <1>2, <1>10, <2>1, RunTyped
<1>12. Walk(path) \in [0 .. len -> S]
  BY <1>11 DEF IsRun
<1> QED BY <1>10, <1>12 DEF len, S, base

(* The way along a path is the way along its front, and one step.          *)
LEMMA WalkPrefix ==
  ASSUME NEW p \in Seq(STRING), NEW q \in Seq(STRING), Len(p) <= Len(q),
         \A n \in 1 .. Len(p) : p[n] = q[n]
  PROVE  \A n \in 0 .. Len(p) : Walk(p)[n] = Walk(q)[n]
<1> DEFINE T == {n \in Nat : n <= Len(p) => Walk(p)[n] = Walk(q)[n]}
<1>1. Len(p) \in Nat /\ Len(q) \in Nat
  OBVIOUS
<1>2. 0 \in T
  BY WalkIs
<1>3. ASSUME NEW n \in T PROVE n + 1 \in T
  <2>1. CASE n + 1 <= Len(p)
    <3>1. /\ n + 1 \in 1 .. Len(p) /\ n + 1 \in 1 .. Len(q) /\ (n + 1) - 1 = n
          /\ Walk(p)[n] = Walk(q)[n]
      BY <1>1, <2>1
    <3>2. /\ Walk(p)[n + 1] = Follow(Walk(p)[(n + 1) - 1], p[n + 1])
          /\ Walk(q)[n + 1] = Follow(Walk(q)[(n + 1) - 1], q[n + 1])
      BY <3>1, WalkIs
    <3> QED BY <3>1, <3>2
  <2> QED BY <2>1
<1>4. T = Nat
  <2>1. T \in SUBSET Nat
    OBVIOUS
  <2> HIDE DEF T
  <2> QED BY SMTT(40), <1>2, <1>3, <2>1, UpFromZero
<1> QED BY <1>1, <1>4

LEMMA CanonicalTyped ==
  ASSUME NEW path \in Seq(STRING)
  PROVE  Canonical(path) \in Seq(STRING)
  BY WalkIs DEF Canonical

LEMMA OneStep ==
  ASSUME NEW r \in Seq(STRING), NEW x \in STRING
  PROVE  Canonical(Append(r, x)) = Follow(Canonical(r), x)
<1> DEFINE q == Append(r, x)
<1>1. /\ q \in Seq(STRING) /\ Len(q) = Len(r) + 1 /\ q[Len(q)] = x /\ Len(r) \in Nat
      /\ \A n \in 1 .. Len(r) : q[n] = r[n]
  <2>1. q \in Seq(STRING) /\ Len(q) = Len(r) + 1 /\ q[Len(r) + 1] = x
    BY AppendProperties
  <2>2. \A n \in 1 .. Len(r) : q[n] = r[n]
    BY AppendProperties
  <2> QED BY <2>1, <2>2
<1> HIDE DEF q
<1>2. Walk(r)[Len(r)] = Walk(q)[Len(r)]
  BY <1>1, WalkPrefix
<1>3. Len(q) \in 1 .. Len(q) /\ Len(q) - 1 = Len(r)
  BY <1>1
<1>4. Walk(q)[Len(q)] = Follow(Walk(q)[Len(r)], x)
  BY <1>1, <1>3, WalkIs
<1> QED BY <1>2, <1>4 DEF Canonical, q

(* What the system found has no link on it any more.                       *)
LEMMA CanonicalIsReal ==
  ASSUME NEW path \in Seq(STRING)
  PROVE  Canonical(Canonical(path)) = Canonical(path)
<1> DEFINE T == {n \in Nat : n <= Len(path) => Canonical(Walk(path)[n]) = Walk(path)[n]}
<1>1. Len(path) \in Nat
  OBVIOUS
<1>2. 0 \in T
  <2>1. <<>> \in Seq(STRING) /\ Len(<<>>) = 0
    OBVIOUS
  <2>2. Canonical(<<>>) = <<>>
    BY <2>1, WalkIs DEF Canonical
  <2> QED BY <2>2, WalkIs
<1>3. ASSUME NEW n \in T PROVE n + 1 \in T
  <2>1. CASE n + 1 <= Len(path)
    <3> DEFINE real == Walk(path)[n]
               next == Append(real, path[n + 1])
    <3>1. n + 1 \in 1 .. Len(path) /\ n \in 0 .. Len(path) /\ (n + 1) - 1 = n
      BY <1>1, <2>1
    <3>2. real \in Seq(STRING) /\ path[n + 1] \in STRING /\ Canonical(real) = real
      BY SMTT(40), <3>1, WalkIs
    <3>3. Walk(path)[n + 1] = Follow(real, path[n + 1])
      BY <3>1, WalkIs
    <3> HIDE DEF real
    <3>4. Canonical(next) = Follow(real, path[n + 1])
      BY <3>2, OneStep
    <3>5. Canonical(Walk(path)[n + 1]) = Walk(path)[n + 1]
      <4>1. CASE next \in DOMAIN Links
        BY <3>3, <4>1, LinksAssumption DEF Follow
      <4>2. CASE next \notin DOMAIN Links
        BY <3>3, <3>4, <4>2 DEF Follow
      <4> QED BY <4>1, <4>2
    <3> QED BY <3>5
  <2> QED BY <2>1
<1>4. T = Nat
  <2>1. T \in SUBSET Nat
    OBVIOUS
  <2> HIDE DEF T
  <2> QED BY <1>2, <1>3, <2>1, UpFromZero
<1>5. Canonical(Walk(path)[Len(path)]) = Walk(path)[Len(path)]
  BY <1>1, <1>4
<1> QED BY <1>5 DEF Canonical

(* What is confined lies below a root, with no link on the way.            *)
LEMMA ConfinedIs ==
  ASSUME NEW path \in Seq(STRING), NEW roots, NEW must \in BOOLEAN,
         ConfineUnderRoots(path, roots, must) # Refused
  PROVE  /\ ConfineUnderRoots(path, roots, must) \in Seq(STRING)
         /\ Inside(ConfineUnderRoots(path, roots, must), roots)
<1> DEFINE abs == IF path # <<>> /\ Absolute(path) THEN path ELSE Cwd \o path
           parent == Canonical(Front(abs))
           dest == Append(parent, Last(abs))
<1>1. /\ ConfineUnderRoots(path, roots, must) = dest
      /\ Len(abs) > 1 /\ dest \notin DOMAIN Links /\ EnsureUnder(dest, roots)
  BY DEF ConfineUnderRoots
<1>2. abs \in Seq(STRING)
  <2>1. Cwd \in Seq(STRING)
    BY LinksAssumption
  <2>2. Cwd \o path \in Seq(STRING)
    BY <2>1
  <2> QED BY <2>2
<1> HIDE DEF abs
<1>3. Front(abs) \in Seq(STRING) /\ Last(abs) \in STRING
  BY <1>1, <1>2 DEF Front, Last
<1>4. parent \in Seq(STRING) /\ Canonical(parent) = parent
  BY <1>3, CanonicalTyped, CanonicalIsReal
<1> HIDE DEF parent
<1>5. dest \in Seq(STRING) /\ Canonical(dest) = Follow(parent, Last(abs))
  BY <1>3, <1>4, OneStep, AppendProperties
<1>6. Canonical(dest) = dest
  BY <1>1, <1>5 DEF Follow
<1> HIDE DEF dest
<1> QED BY <1>1, <1>5, <1>6 DEF Inside, EnsureUnder

LEMMA IdentityIs ==
  ASSUME NEW key \in Seq(STRING), ConfineIdentity(key) # Refused
  PROVE  Inside(ConfineIdentity(key), {Home}) /\ ~Inside(ConfineIdentity(key), LateDirs)
<1> DEFINE path == IF Absolute(key) THEN key ELSE Home \o <<".ssh">> \o key
           confined == ConfineUnderRoots(path, {Home}, TRUE)
<1>1. /\ ConfineIdentity(key) = confined /\ confined # Refused
      /\ ~(\E d \in LateDirs : IsPrefix(Canonical(d), confined))
  BY DEF ConfineIdentity
<1>2. path \in Seq(STRING)
  <2>1. Home \in Seq(STRING) /\ <<".ssh">> \in Seq(STRING)
    BY LinksAssumption
  <2>2. Home \o <<".ssh">> \in Seq(STRING)
    BY <2>1
  <2>3. Home \o <<".ssh">> \o key \in Seq(STRING)
    BY <2>2
  <2> QED BY <2>3
<1> HIDE DEF path
<1>3. Inside(confined, {Home})
  BY <1>1, <1>2, ConfinedIs
<1> HIDE DEF confined
<1> QED BY <1>1, <1>3 DEF Inside

(***************************************************************************)
(* The files of other programs.                                            *)
(***************************************************************************)
DeviceRow == [name : STRING, host : STRING, port : Nat, folder : Folder]

LEMMA DeviceIs ==
  ASSUME NEW n \in STRING, NEW h \in STRING, NEW p \in Nat
  PROVE  Device(n, h, p) \in DeviceRow
<1>1. <<>> \in Folder
  BY DEF Folder
<1> QED BY <1>1 DEF Device, DeviceRow

LEMMA RangeOfConcat ==
  ASSUME NEW S, NEW a \in Seq(S), NEW b \in Seq(S)
  PROVE  a \o b \in Seq(S) /\ Range(a \o b) = Range(a) \cup Range(b)
<1>1. /\ a \o b \in Seq(S) /\ Len(a \o b) = Len(a) + Len(b)
      /\ \A i \in 1 .. Len(a) + Len(b) : (a \o b)[i] = IF i <= Len(a) THEN a[i] ELSE b[i - Len(a)]
  BY ConcatProperties
<1>2. Len(a) \in Nat /\ Len(b) \in Nat /\ DOMAIN a = 1 .. Len(a) /\ DOMAIN b = 1 .. Len(b)
      /\ DOMAIN (a \o b) = 1 .. Len(a) + Len(b)
  BY <1>1, LenProperties
<1>3. \A i \in 1 .. Len(a) : i \in 1 .. Len(a) + Len(b) /\ (a \o b)[i] = a[i]
  BY <1>1, <1>2
<1>4. \A i \in 1 .. Len(b) : i + Len(a) \in 1 .. Len(a) + Len(b) /\ (a \o b)[i + Len(a)] = b[i]
  BY <1>1, <1>2
<1>5. \A i \in 1 .. Len(a) + Len(b) :
        \/ i \in 1 .. Len(a) /\ (a \o b)[i] = a[i]
        \/ i - Len(a) \in 1 .. Len(b) /\ (a \o b)[i] = b[i - Len(a)]
  BY <1>1, <1>2
<1> QED BY SMTT(40), <1>1, <1>2, <1>3, <1>4, <1>5 DEF Range

LEMMA RangeOfAppend ==
  ASSUME NEW S, NEW a \in Seq(S), NEW x \in S
  PROVE  Append(a, x) \in Seq(S) /\ Range(Append(a, x)) = Range(a) \cup {x}
<1> DEFINE b == Append(a, x)
<1>1. b \in Seq(S) /\ Len(b) = Len(a) + 1 /\ b[Len(a) + 1] = x
  BY AppendProperties
<1>2. \A i \in 1 .. Len(a) : b[i] = a[i]
  BY AppendProperties
<1>3. Len(a) \in Nat /\ DOMAIN a = 1 .. Len(a) /\ DOMAIN b = 1 .. Len(a) + 1
  BY <1>1, LenProperties
<1> HIDE DEF b
<1>4. \A i \in 1 .. Len(a) + 1 : i \in 1 .. Len(a) \/ i = Len(a) + 1
  BY <1>3
<1>5. \A i \in 1 .. Len(a) : i \in 1 .. Len(a) + 1
  BY <1>3
<1>6. Len(a) + 1 \in 1 .. Len(a) + 1
  BY <1>3
<1>7. Range(b) = Range(a) \cup {x}
  BY <1>1, <1>2, <1>3, <1>4, <1>5, <1>6 DEF Range
<1> QED BY <1>1, <1>7 DEF b

(* The value of the last of some lines.                                    *)
Told(lines, at, default) ==
  IF at = {} THEN default ELSE lines[CHOOSE j \in at : \A k \in at : k <= j].value

LEMMA ToldLast ==
  ASSUME NEW lines, NEW n \in Nat, NEW at \in SUBSET (1 .. n), NEW default
  PROVE  Told(lines, at \cup {n + 1}, default) = lines[n + 1].value
<1> DEFINE all == at \cup {n + 1}
           j == CHOOSE i \in all : \A k \in all : k <= i
<1>1. \A k \in all : k \in Nat /\ k <= n + 1
  OBVIOUS
<1>2. n + 1 \in all
  OBVIOUS
<1> HIDE DEF all
<1>3. j \in all /\ \A k \in all : k <= j
  BY <1>1, <1>2
<1>4. j = n + 1
  <2> HIDE DEF j
  <2> QED BY <1>1, <1>2, <1>3
<1>5. all # {}
  BY <1>2
<1>6. Told(lines, all, default) = lines[j].value
  BY <1>5 DEF Told
<1> HIDE DEF j
<1> QED BY <1>4, <1>6 DEF all

(* An ssh configuration.                                                   *)
SshBlock == [names : Seq(STRING), host : STRING \cup {NoHost}, port : Nat]
SshState == [out : Seq(DeviceRow), block : SshBlock]

LEMMA SshLineIs ==
  ASSUME NEW line \in SshLine
  PROVE  /\ line.key = "host" => line.value \in Seq(STRING)
         /\ line.key = "hostname" => line.value \in STRING
         /\ line.key = "port" => line.value \in Nat
  BY DEF SshLine

LEMMA CloseIs ==
  ASSUME NEW block \in SshBlock
  PROVE  /\ Close(block) \in Seq(DeviceRow)
         /\ Range(Close(block)) = {Device(x, HostIn(block, x), block.port) :
                                      x \in Range(block.names) \ Patterns}
<1> DEFINE names == block.names
           plain == Kept(names, {i \in DOMAIN names : names[i] \notin Patterns})
           device(x) == Device(x, HostIn(block, x), block.port)
<1>1. names \in Seq(STRING) /\ block.host \in STRING \cup {NoHost} /\ block.port \in Nat
  BY DEF SshBlock
<1>2. Close(block) = [i \in DOMAIN plain |-> device(plain[i])]
  BY DEF Close
<1> HIDE DEF names
<1>3. plain \in Seq(STRING)
  <2> DEFINE places == {i \in DOMAIN names : names[i] \notin Patterns}
  <2>1. places \in SUBSET DOMAIN names
    OBVIOUS
  <2> HIDE DEF places
  <2>2. Kept(names, places) \in Seq(STRING)
    BY <1>1, <2>1, KeptIs
  <2> QED BY <2>2 DEF places
<1>4. {plain[n] : n \in DOMAIN plain} = Range(names) \ Patterns
  BY <1>1, KeptRange
<1> HIDE DEF plain
<1>5. \A x \in STRING : device(x) \in DeviceRow
  <2> TAKE x \in STRING
  <2>1. HostIn(block, x) \in STRING
    BY <1>1 DEF HostIn
  <2> QED BY <1>1, <2>1, DeviceIs
<1>6. DOMAIN plain = 1 .. Len(plain) /\ Len(plain) \in Nat /\ \A i \in DOMAIN plain : plain[i] \in STRING
  BY <1>3, LenProperties, ElementOfSeq
<1> HIDE DEF device
<1>7. Close(block) \in [1 .. Len(plain) -> DeviceRow]
  BY <1>2, <1>5, <1>6
<1>8. Close(block) \in Seq(DeviceRow)
  BY <1>6, <1>7, SeqDef
<1>9. Range(Close(block)) = {device(x) : x \in {plain[n] : n \in DOMAIN plain}}
  BY <1>2 DEF Range
<1> QED BY <1>4, <1>8, <1>9 DEF device, names

LEMMA ReadLineTyped ==
  ASSUME NEW state \in SshState, NEW line \in SshLine
  PROVE  ReadLine(state, line) \in SshState
<1>1. state.out \in Seq(DeviceRow) /\ state.block \in SshBlock
  BY DEF SshState
<1>2. CASE line.key = "host"
  <2>1. ReadLine(state, line) = [out |-> state.out \o Close(state.block), block |-> NewBlock(line.value)]
    BY <1>2 DEF ReadLine
  <2>2. state.out \o Close(state.block) \in Seq(DeviceRow)
    BY <1>1, CloseIs, RangeOfConcat
  <2>3. NewBlock(line.value) \in SshBlock
    BY <1>2, SshLineIs DEF NewBlock, SshBlock, DefaultPort
  <2> QED BY <2>1, <2>2, <2>3 DEF SshState
<1>3. CASE line.key = "hostname"
  <2>1. ReadLine(state, line) = [state EXCEPT !.block.host = line.value]
    BY <1>3 DEF ReadLine
  <2>2. line.value \in STRING
    BY <1>3, SshLineIs
  <2> QED BY ZenonT(60), <2>1, <2>2 DEF SshState, SshBlock
<1>4. CASE line.key = "port"
  <2>1. ReadLine(state, line) = [state EXCEPT !.block.port = line.value]
    BY <1>4 DEF ReadLine
  <2>2. line.value \in Nat
    BY <1>4, SshLineIs
  <2> QED BY <2>1, <2>2 DEF SshState, SshBlock
<1>5. CASE line.key \notin {"host", "hostname", "port"}
  BY <1>5 DEF ReadLine
<1> QED BY <1>2, <1>3, <1>4, <1>5

LEMMA SshReadIs ==
  ASSUME NEW lines \in Seq(SshLine)
  PROVE  /\ \A n \in 0 .. Len(lines) : SshRead(lines)[n] \in SshState
         /\ SshRead(lines)[0] = [out |-> <<>>, block |-> NewBlock(<<>>)]
         /\ \A n \in 1 .. Len(lines) : SshRead(lines)[n] = ReadLine(SshRead(lines)[n - 1], lines[n])
<1> DEFINE len == Len(lines)
           base == [out |-> <<>>, block |-> NewBlock(<<>>)]
           next == [p \in SshState \X (1 .. len) |-> ReadLine(p[1], lines[p[2]])]
           Is(g) == g = [n \in 0 .. len |-> IF n = 0 THEN base ELSE ReadLine(g[n - 1], lines[n])]
<1>1. len \in Nat /\ (\A n \in 1 .. len : lines[n] \in SshLine)
  OBVIOUS
<1>2. base \in SshState
  BY DEF SshState, SshBlock, NewBlock, DefaultPort
<1>3. next \in [SshState \X (1 .. len) -> SshState]
  <2> HIDE DEF len, base
  <2> QED BY <1>1, ReadLineTyped
<1>4. \A s \in SshState, n \in 1 .. len : next[<<s, n>>] = ReadLine(s, lines[n])
  <2> HIDE DEF len, base
  <2> QED OBVIOUS
<1>5. SshRead(lines) = CHOOSE g : Is(g)
  BY DEF SshRead
<1> HIDE DEF len, base, next
<1>6. PICK g : IsRun(g, SshState, base, len, next)
  BY <1>1, <1>2, <1>3, RunExists
<1>7. /\ g \in [0 .. len -> SshState] /\ g[0] = base
      /\ \A n \in 1 .. len : g[n] = next[<<g[n - 1], n>>]
  BY <1>6 DEF IsRun
<1>8. \A n \in 0 .. len : n # 0 => n \in 1 .. len /\ n - 1 \in 0 .. len
  BY <1>1
<1>9. Is(g)
  <2>1. \A n \in 0 .. len : g[n] = IF n = 0 THEN base ELSE ReadLine(g[n - 1], lines[n])
    BY <1>4, <1>7, <1>8
  <2> QED BY <1>7, <2>1
<1>10. Is(SshRead(lines))
  <2> HIDE DEF Is
  <2> QED BY <1>5, <1>9
<1>11. /\ SshRead(lines) = [n \in 0 .. len |-> SshRead(lines)[n]] /\ SshRead(lines)[0] = base
       /\ \A n \in 1 .. len : SshRead(lines)[n] = ReadLine(SshRead(lines)[n - 1], lines[n])
  BY <1>1, <1>10, SMTT(40)
<1> HIDE DEF Is
<1>12. IsRun(SshRead(lines), SshState, base, len, next)
  <2>1. \A n \in 1 .. len : SshRead(lines)[n - 1] \in SshState
                             => SshRead(lines)[n] = next[<<SshRead(lines)[n - 1], n>>]
    BY <1>4, <1>11
  <2> QED BY <1>1, <1>2, <1>3, <1>11, <2>1, RunTyped
<1>13. SshRead(lines) \in [0 .. len -> SshState]
  BY <1>12 DEF IsRun
<1> QED BY <1>11, <1>13 DEF len, base

(* After n lines the block of line i is still open.                        *)
OpenAt(lines, i, n) ==
  i \in 1 .. n /\ lines[i].key = "host" /\ \A k \in i + 1 .. n : lines[k].key # "host"

Said(lines, i, n, key) == {j \in i + 1 .. n : lines[j].key = key}

(* The devices of the block of line i.                                     *)
DescribedBy(lines, i) ==
  {Device(x, Setting(lines, i, "hostname", x), Setting(lines, i, "port", DefaultPort)) :
     x \in Range(lines[i].value) \ Patterns}

(* A block that the reader has says what the lines of it said up to now.   *)
BlockSays(block, lines, i, n) ==
  /\ block.names = lines[i].value
  /\ IF Said(lines, i, n, "hostname") = {} THEN block.host = NoHost
     ELSE /\ block.host \in STRING
          /\ \A default : block.host = Told(lines, Said(lines, i, n, "hostname"), default)
  /\ block.port = Told(lines, Said(lines, i, n, "port"), DefaultPort)

SshSays(state, lines, n) ==
  /\ \A d : d \in Range(state.out) <=>
       \E i \in 1 .. n : /\ lines[i].key = "host" /\ ~OpenAt(lines, i, n)
                        /\ d \in DescribedBy(lines, i)
  /\ \A i : OpenAt(lines, i, n) => BlockSays(state.block, lines, i, n)
  /\ \/ \E i \in 1 .. n : OpenAt(lines, i, n)
     \/ state.block.names = <<>> /\ \A i \in 1 .. n : lines[i].key # "host"

LEMMA OneOpen ==
  ASSUME NEW lines, NEW n \in Nat, NEW i, NEW k, OpenAt(lines, i, n), OpenAt(lines, k, n)
  PROVE  i = k
<1>1. i \in 1 .. n /\ k \in 1 .. n /\ ~(k \in i + 1 .. n) /\ ~(i \in k + 1 .. n)
  BY DEF OpenAt
<1> QED BY <1>1

(* A block that the next line, or the end of the file, closes is all       *)
(* there.                                                                  *)
LEMMA CloseSays ==
  ASSUME NEW lines \in Seq(SshLine), NEW n \in 0 .. Len(lines), NEW i, OpenAt(lines, i, n),
         n = Len(lines) \/ lines[n + 1].key = "host",
         NEW block \in SshBlock, BlockSays(block, lines, i, n)
  PROVE  Range(Close(block)) = DescribedBy(lines, i)
<1>1. i \in 1 .. n /\ Len(lines) \in Nat /\ \A k \in i + 1 .. n : lines[k].key # "host"
  BY DEF OpenAt
<1>2. BlockOf(lines, i) = i + 1 .. n
  <2>1. ASSUME NEW j \in i + 1 .. Len(lines), \A k \in i + 1 .. j : lines[k].key # "host", j > n
        PROVE  FALSE
    <3>1. n + 1 \in i + 1 .. j /\ n # Len(lines)
      BY <1>1, <2>1
    <3> QED BY <2>1, <3>1
  <2>2. \A j \in i + 1 .. n : j \in i + 1 .. Len(lines) /\ \A k \in i + 1 .. j : k \in i + 1 .. n
    BY <1>1
  <2>3. \A j \in i + 1 .. Len(lines) : ~(j > n) => j \in i + 1 .. n
    BY <1>1
  <2> QED BY <1>1, <2>1, <2>2, <2>3 DEF BlockOf
<1>3. \A key, default : Setting(lines, i, key, default) = Told(lines, Said(lines, i, n, key), default)
  BY <1>2 DEF Setting, Told, Said
<1>4. block.port = Setting(lines, i, "port", DefaultPort) /\ block.names = lines[i].value
  BY <1>3 DEF BlockSays
<1>5. \A x : HostIn(block, x) = Setting(lines, i, "hostname", x)
  <2> TAKE x
  <2>1. CASE Said(lines, i, n, "hostname") = {}
    BY <1>3, <2>1 DEF BlockSays, HostIn, Told
  <2>2. CASE Said(lines, i, n, "hostname") # {}
    BY <1>3, <2>2, ImportAssumption DEF BlockSays, HostIn
  <2> QED BY <2>1, <2>2
<1>6. Range(Close(block)) = {Device(x, HostIn(block, x), block.port) :
                               x \in Range(block.names) \ Patterns}
  BY CloseIs
<1> QED BY <1>4, <1>5, <1>6 DEF DescribedBy

(* A line of settings adds to the block that is open.                      *)
LEMMA SettingStep ==
  ASSUME NEW lines \in Seq(SshLine), NEW n \in 0 .. Len(lines) - 1, NEW state \in SshState,
         SshSays(state, lines, n), lines[n + 1].key # "host"
  PROVE  SshSays(ReadLine(state, lines[n + 1]), lines, n + 1)
<1> DEFINE line == lines[n + 1]
           new == ReadLine(state, line)
<1>1. /\ n \in Nat /\ n + 1 \in 1 .. Len(lines) /\ line \in SshLine
      /\ \A i \in 1 .. n + 1 : i \in 1 .. n \/ i = n + 1
      /\ \A i \in 1 .. n : i \in 1 .. n + 1
  OBVIOUS
<1>2. \A i : OpenAt(lines, i, n + 1) <=> OpenAt(lines, i, n)
  <2> TAKE i
  <2>1. ASSUME OpenAt(lines, i, n + 1) PROVE OpenAt(lines, i, n)
    <3>1. i \in 1 .. n /\ \A k \in i + 1 .. n : k \in i + 1 .. n + 1
      BY <1>1, <2>1 DEF OpenAt
    <3> QED BY <2>1, <3>1 DEF OpenAt
  <2>2. ASSUME OpenAt(lines, i, n) PROVE OpenAt(lines, i, n + 1)
    <3>1. i \in 1 .. n /\ \A k \in i + 1 .. n + 1 : k \in i + 1 .. n \/ k = n + 1
      BY <1>1, <2>2 DEF OpenAt
    <3> QED BY <1>1, <2>2, <3>1 DEF OpenAt
  <2> QED BY <2>1, <2>2
<1>3. ASSUME NEW i \in 1 .. n, NEW key
      PROVE  Said(lines, i, n + 1, key) =
               IF line.key = key THEN Said(lines, i, n, key) \cup {n + 1} ELSE Said(lines, i, n, key)
  <2>1. \A k : k \in i + 1 .. n + 1 <=> k \in i + 1 .. n \/ k = n + 1
    BY <1>1
  <2> QED BY <2>1 DEF Said
<1>4. \A i \in 1 .. n : \A key : Said(lines, i, n, key) \in SUBSET (1 .. n)
  <2> SUFFICES ASSUME NEW i \in 1 .. n PROVE \A k \in i + 1 .. n : k \in 1 .. n
    BY DEF Said
  <2> QED BY <1>1
<1> HIDE DEF line
<1>5. /\ new.out = state.out /\ new.block.names = state.block.names
      /\ new.block.host = IF line.key = "hostname" THEN line.value ELSE state.block.host
      /\ new.block.port = IF line.key = "port" THEN line.value ELSE state.block.port
  <2>1. line.key # "host"
    BY DEF line
  <2> QED BY <2>1 DEF ReadLine, SshState, SshBlock
<1> HIDE DEF new
<1>6. ASSUME NEW i, OpenAt(lines, i, n) PROVE BlockSays(new.block, lines, i, n + 1)
  <2>1. BlockSays(state.block, lines, i, n) /\ i \in 1 .. n
    BY <1>6 DEF SshSays, OpenAt
  <2>2. \A key, default : line.key = key =>
          Told(lines, Said(lines, i, n + 1, key), default) = line.value
    <3> SUFFICES ASSUME NEW key, NEW default, line.key = key
                 PROVE  Told(lines, Said(lines, i, n, key) \cup {n + 1}, default) = line.value
      BY <1>3, <2>1
    <3> QED BY <1>1, <1>4, <2>1, ToldLast DEF line
  <2>3. \A key : line.key # key => Said(lines, i, n + 1, key) = Said(lines, i, n, key)
    BY <1>3, <2>1
  <2>4. \A key : line.key = key => Said(lines, i, n + 1, key) # {}
    BY <1>3, <2>1
  <2>5. new.block.port = Told(lines, Said(lines, i, n + 1, "port"), DefaultPort)
    BY <1>5, <2>1, <2>2, <2>3 DEF BlockSays
  <2>6. CASE line.key = "hostname"
    <3>1. line.value \in STRING
      BY <1>1, <2>6, SshLineIs
    <3> QED BY <1>5, <2>1, <2>2, <2>4, <2>5, <2>6, <3>1 DEF BlockSays
  <2>7. CASE line.key # "hostname"
    BY <1>5, <2>1, <2>3, <2>5, <2>7 DEF BlockSays
  <2> QED BY <2>6, <2>7
<1>7. \A d : d \in Range(new.out) <=>
        \E i \in 1 .. n + 1 : /\ lines[i].key = "host" /\ ~OpenAt(lines, i, n + 1)
                             /\ d \in DescribedBy(lines, i)
  <2>1. \A i \in 1 .. n + 1 : lines[i].key = "host" => i \in 1 .. n
    BY <1>1 DEF line
  <2> QED BY <1>1, <1>2, <1>5, <2>1 DEF SshSays
<1>8. \/ \E i \in 1 .. n + 1 : OpenAt(lines, i, n + 1)
      \/ new.block.names = <<>> /\ \A i \in 1 .. n + 1 : lines[i].key # "host"
  BY <1>1, <1>2, <1>5 DEF SshSays
<1>9. SshSays(new, lines, n + 1)
  BY <1>2, <1>6, <1>7, <1>8 DEF SshSays
<1> QED BY <1>9 DEF new, line

(* A Host line closes the block before it.                                 *)
LEMMA HostStep ==
  ASSUME NEW lines \in Seq(SshLine), NEW n \in 0 .. Len(lines) - 1, NEW state \in SshState,
         SshSays(state, lines, n), lines[n + 1].key = "host"
  PROVE  SshSays(ReadLine(state, lines[n + 1]), lines, n + 1)
<1> DEFINE line == lines[n + 1]
           new == ReadLine(state, line)
<1>1. /\ n \in Nat /\ n + 1 \in 1 .. n + 1 /\ line \in SshLine /\ n \in 0 .. Len(lines)
      /\ \A i \in 1 .. n + 1 : i \in 1 .. n \/ i = n + 1
      /\ \A i \in 1 .. n : i \in 1 .. n + 1 /\ n + 1 \in i + 1 .. n + 1
      /\ ~(n + 1 \in 1 .. n) /\ n + 1 + 1 .. n + 1 = {}
  OBVIOUS
<1>2. \A i : OpenAt(lines, i, n + 1) <=> i = n + 1
  BY <1>1 DEF OpenAt
<1>3. new.out = state.out \o Close(state.block) /\ new.block = NewBlock(line.value)
  BY DEF ReadLine
<1>4. state.out \in Seq(DeviceRow) /\ state.block \in SshBlock /\ line.value \in Seq(STRING)
  BY <1>1, SshLineIs DEF SshState
<1>5. \A d : d \in Range(new.out) <=> d \in Range(state.out) \/ d \in Range(Close(state.block))
  BY <1>3, <1>4, CloseIs, RangeOfConcat
<1>6. BlockSays(new.block, lines, n + 1, n + 1)
  <2>1. \A key : Said(lines, n + 1, n + 1, key) = {}
    BY <1>1 DEF Said
  <2> QED BY <1>3, <2>1 DEF BlockSays, NewBlock, Told
<1>7. \A d : d \in Range(state.out) \/ d \in Range(Close(state.block)) <=>
        \E i \in 1 .. n : lines[i].key = "host" /\ d \in DescribedBy(lines, i)
  <2>1. CASE \E i \in 1 .. n : OpenAt(lines, i, n)
    <3>1. PICK i \in 1 .. n : OpenAt(lines, i, n)
      BY <2>1
    <3>2. Range(Close(state.block)) = DescribedBy(lines, i)
      BY <1>1, <1>4, <3>1, CloseSays DEF SshSays
    <3>3. \A k \in 1 .. n : OpenAt(lines, k, n) => k = i
      BY <1>1, <3>1, OneOpen
    <3>4. lines[i].key = "host"
      BY <3>1 DEF OpenAt
    <3> QED BY <3>1, <3>2, <3>3, <3>4 DEF SshSays
  <2>2. CASE ~\E i \in 1 .. n : OpenAt(lines, i, n)
    <3>1. state.block.names = <<>> /\ \A i \in 1 .. n : lines[i].key # "host"
      BY <2>2 DEF SshSays
    <3>2. Range(<<>>) = {}
      BY DEF Range
    <3>3. Range(Close(state.block)) = {}
      BY <1>4, <3>1, <3>2, CloseIs
    <3> QED BY <3>1, <3>3 DEF SshSays
  <2> QED BY <2>1, <2>2
<1> HIDE DEF new, line
<1>8. \A d : d \in Range(new.out) <=>
        \E i \in 1 .. n + 1 : /\ lines[i].key = "host" /\ ~OpenAt(lines, i, n + 1)
                             /\ d \in DescribedBy(lines, i)
  BY <1>1, <1>2, <1>5, <1>7
<1>9. SshSays(new, lines, n + 1)
  BY <1>1, <1>2, <1>6, <1>8 DEF SshSays
<1> QED BY <1>9 DEF new, line

LEMMA SshReadsAll ==
  ASSUME NEW lines \in Seq(SshLine)
  PROVE  Range(FromSshConfig(lines)) = Described(lines)
<1> DEFINE len == Len(lines)
           at(n) == SshRead(lines)[n]
           T == {n \in Nat : n <= len => SshSays(at(n), lines, n)}
<1>1. len \in Nat
  OBVIOUS
<1>2. 0 \in T
  <2>1. at(0).out = <<>> /\ at(0).block.names = <<>>
    BY SshReadIs DEF NewBlock
  <2>2. 1 .. 0 = {} /\ Range(at(0).out) = {}
    BY <2>1 DEF Range
  <2>3. \A i : ~OpenAt(lines, i, 0)
    BY <2>2 DEF OpenAt
  <2>4. SshSays(at(0), lines, 0)
    BY <2>1, <2>2, <2>3 DEF SshSays
  <2> QED BY <2>4
<1>3. ASSUME NEW n \in T PROVE n + 1 \in T
  <2>1. CASE n + 1 <= len
    <3>1. /\ n \in 0 .. len - 1 /\ n \in 0 .. len /\ n + 1 \in 1 .. len /\ (n + 1) - 1 = n
          /\ SshSays(at(n), lines, n)
      BY <1>1, <2>1
    <3>2. at(n) \in SshState /\ at(n + 1) = ReadLine(at(n), lines[n + 1])
      BY <3>1, SshReadIs
    <3> HIDE DEF at
    <3>3. SshSays(at(n + 1), lines, n + 1)
      BY <3>1, <3>2, SettingStep, HostStep
    <3> QED BY <3>3
  <2> QED BY <2>1
<1>4. T = Nat
  <2>1. T \in SUBSET Nat
    OBVIOUS
  <2> HIDE DEF T
  <2> QED BY <1>2, <1>3, <2>1, UpFromZero
<1> DEFINE end == at(len)
<1>5. SshSays(end, lines, len) /\ end \in SshState
  <2>1. len \in T /\ len \in 0 .. len
    BY <1>1, <1>4
  <2>2. end \in SshState
    BY <2>1, SshReadIs
  <2> QED BY <2>1, <2>2
<1>6. FromSshConfig(lines) = end.out \o Close(end.block)
  BY DEF FromSshConfig
<1> HIDE DEF end
<1>7. end.out \in Seq(DeviceRow) /\ end.block \in SshBlock
  BY <1>5 DEF SshState
<1>8. \A d : d \in Range(FromSshConfig(lines)) <=> d \in Range(end.out) \/ d \in Range(Close(end.block))
  BY <1>6, <1>7, CloseIs, RangeOfConcat
<1>9. \A d : d \in Range(end.out) \/ d \in Range(Close(end.block)) <=>
        \E i \in 1 .. len : lines[i].key = "host" /\ d \in DescribedBy(lines, i)
  <2>1. CASE \E i \in 1 .. len : OpenAt(lines, i, len)
    <3>1. PICK i \in 1 .. len : OpenAt(lines, i, len)
      BY <2>1
    <3>2. len \in 0 .. Len(lines)
      BY <1>1
    <3>3. Range(Close(end.block)) = DescribedBy(lines, i)
      BY <1>5, <1>7, <3>2, <3>1, CloseSays DEF SshSays
    <3>4. \A k \in 1 .. len : OpenAt(lines, k, len) => k = i
      BY <1>1, <3>1, OneOpen
    <3>5. lines[i].key = "host"
      BY <3>1 DEF OpenAt
    <3> QED BY <1>5, <3>1, <3>3, <3>4, <3>5 DEF SshSays
  <2>2. CASE ~\E i \in 1 .. len : OpenAt(lines, i, len)
    <3>1. end.block.names = <<>> /\ \A i \in 1 .. len : lines[i].key # "host"
      BY <1>5, <2>2 DEF SshSays
    <3>2. Range(<<>>) = {}
      BY DEF Range
    <3>3. Range(Close(end.block)) = {}
      BY <1>7, <3>1, <3>2, CloseIs
    <3> QED BY <1>5, <3>1, <3>3 DEF SshSays
  <2> QED BY <2>1, <2>2
<1>10. \A d : d \in Described(lines) <=>
         \E i \in 1 .. len : lines[i].key = "host" /\ d \in DescribedBy(lines, i)
  BY DEF Described, DescribedBy, Named
<1> QED BY <1>8, <1>9, <1>10

(* An XML file of sessions.                                                *)
XmlSession == [name : STRING, hostname : STRING, port : Nat]
XmlState == [out : Seq(DeviceRow), session : XmlSession]

Tags == {"name", "hostname", "port"}

LEMMA XmlLineIs ==
  ASSUME NEW line \in XmlLine
  PROVE  /\ line.key \in Tags \cup {"end"}
         /\ line.key \in {"name", "hostname"} => line.value \in STRING
         /\ line.key = "port" => line.value \in Nat
  BY DEF XmlLine, Tags

LEMMA NoSessionTyped == NoSession \in XmlSession /\ NoText \in STRING
  BY ImportAssumption DEF NoSession, XmlSession, DefaultPort

(* What the end of a session makes of it.                                  *)
Ended(s) == Device(Or(s.name, s.hostname), s.hostname, s.port)

LEMMA EndedTyped ==
  ASSUME NEW s \in XmlSession
  PROVE  Ended(s) \in DeviceRow
<1>1. Or(s.name, s.hostname) \in STRING /\ s.hostname \in STRING /\ s.port \in Nat
  BY DEF XmlSession, Or
<1> QED BY <1>1, DeviceIs DEF Ended

LEMMA ReadTagIs ==
  ASSUME NEW state \in XmlState, NEW line \in XmlLine
  PROVE  /\ ReadTag(state, line) \in XmlState
         /\ line.key = "end" =>
              /\ ReadTag(state, line).session = NoSession
              /\ Range(ReadTag(state, line).out) =
                   Range(state.out) \cup {d \in {Ended(state.session)} : state.session.hostname # NoText}
         /\ line.key # "end" =>
              /\ ReadTag(state, line).out = state.out
              /\ \A key \in Tags : ReadTag(state, line).session[key] =
                   IF line.key = key THEN line.value ELSE state.session[key]
<1>1. state.out \in Seq(DeviceRow) /\ state.session \in XmlSession
  BY DEF XmlState
<1>2. CASE line.key = "end"
  <2> DEFINE s == state.session
             out == IF s.hostname = NoText THEN state.out ELSE Append(state.out, Ended(s))
  <2>1. ReadTag(state, line) = [out |-> out, session |-> NoSession]
    BY <1>2 DEF ReadTag, Ended
  <2>2. Ended(s) \in DeviceRow
    BY <1>1, EndedTyped
  <2> HIDE DEF s
  <2>3. CASE s.hostname = NoText
    BY <1>1, <1>2, <2>1, <2>3, NoSessionTyped DEF XmlState, s
  <2>4. CASE s.hostname # NoText
    <3>1. out \in Seq(DeviceRow) /\ Range(out) = Range(state.out) \cup {Ended(s)}
      BY <1>1, <2>2, <2>4, RangeOfAppend
    <3> HIDE DEF out
    <3> QED BY <1>2, <2>1, <2>4, <3>1, NoSessionTyped DEF XmlState, s
  <2> QED BY <2>3, <2>4
<1>3. CASE line.key # "end"
  <2>1. ReadTag(state, line) = [state EXCEPT !.session[line.key] = line.value]
    BY <1>3 DEF ReadTag
  <2>2. CASE line.key = "name"
    <3>1. line.value \in STRING
      BY <2>2, XmlLineIs
    <3> QED BY <2>1, <2>2, <3>1 DEF XmlState, XmlSession, Tags
  <2>3. CASE line.key = "hostname"
    <3>1. line.value \in STRING
      BY <2>3, XmlLineIs
    <3> QED BY <2>1, <2>3, <3>1 DEF XmlState, XmlSession, Tags
  <2>4. CASE line.key = "port"
    <3>1. line.value \in Nat
      BY <2>4, XmlLineIs
    <3> QED BY <2>1, <2>4, <3>1 DEF XmlState, XmlSession, Tags
  <2> QED BY <1>3, <2>2, <2>3, <2>4, XmlLineIs DEF Tags
<1> QED BY <1>2, <1>3

LEMMA XmlReadIs ==
  ASSUME NEW lines \in Seq(XmlLine)
  PROVE  /\ \A n \in 0 .. Len(lines) : XmlRead(lines)[n] \in XmlState
         /\ XmlRead(lines)[0] = [out |-> <<>>, session |-> NoSession]
         /\ \A n \in 1 .. Len(lines) : XmlRead(lines)[n] = ReadTag(XmlRead(lines)[n - 1], lines[n])
<1> DEFINE len == Len(lines)
           base == [out |-> <<>>, session |-> NoSession]
           next == [p \in XmlState \X (1 .. len) |-> ReadTag(p[1], lines[p[2]])]
           Is(g) == g = [n \in 0 .. len |-> IF n = 0 THEN base ELSE ReadTag(g[n - 1], lines[n])]
<1>1. len \in Nat /\ (\A n \in 1 .. len : lines[n] \in XmlLine)
  OBVIOUS
<1>2. base \in XmlState
  BY NoSessionTyped DEF XmlState
<1>3. next \in [XmlState \X (1 .. len) -> XmlState]
  <2> HIDE DEF len, base
  <2> QED BY <1>1, ReadTagIs
<1>4. \A s \in XmlState, n \in 1 .. len : next[<<s, n>>] = ReadTag(s, lines[n])
  <2> HIDE DEF len, base
  <2> QED OBVIOUS
<1>5. XmlRead(lines) = CHOOSE g : Is(g)
  BY DEF XmlRead
<1> HIDE DEF len, base, next
<1>6. PICK g : IsRun(g, XmlState, base, len, next)
  BY <1>1, <1>2, <1>3, RunExists
<1>7. /\ g \in [0 .. len -> XmlState] /\ g[0] = base
      /\ \A n \in 1 .. len : g[n] = next[<<g[n - 1], n>>]
  BY <1>6 DEF IsRun
<1>8. \A n \in 0 .. len : n # 0 => n \in 1 .. len /\ n - 1 \in 0 .. len
  BY <1>1
<1>9. Is(g)
  <2>1. \A n \in 0 .. len : g[n] = IF n = 0 THEN base ELSE ReadTag(g[n - 1], lines[n])
    BY <1>4, <1>7, <1>8
  <2> QED BY <1>7, <2>1
<1>10. Is(XmlRead(lines))
  <2> HIDE DEF Is
  <2> QED BY <1>5, <1>9
<1>11. /\ XmlRead(lines) = [n \in 0 .. len |-> XmlRead(lines)[n]] /\ XmlRead(lines)[0] = base
       /\ \A n \in 1 .. len : XmlRead(lines)[n] = ReadTag(XmlRead(lines)[n - 1], lines[n])
  BY <1>1, <1>10, SMTT(40)
<1> HIDE DEF Is
<1>12. IsRun(XmlRead(lines), XmlState, base, len, next)
  <2>1. \A n \in 1 .. len : XmlRead(lines)[n - 1] \in XmlState
                             => XmlRead(lines)[n] = next[<<XmlRead(lines)[n - 1], n>>]
    BY <1>4, <1>11
  <2> QED BY <1>1, <1>2, <1>3, <1>11, <2>1, RunTyped
<1>13. XmlRead(lines) \in [0 .. len -> XmlState]
  BY <1>12 DEF IsRun
<1> QED BY <1>11, <1>13 DEF len, base

(* The lines of a tag since the last session ended.                        *)
Since(lines, n, key) ==
  {j \in 1 .. n : lines[j].key = key /\ \A k \in j .. n : lines[k].key # "end"}

(* The session that ends at a line, as Sessions has it.                    *)
EndingAt(lines, i) ==
  [name |-> Field(lines, i, "name", NoText), hostname |-> Field(lines, i, "hostname", NoText),
   port |-> Field(lines, i, "port", DefaultPort)]

XmlSays(state, lines, n) ==
  /\ \A d : d \in Range(state.out) <=>
       \E i \in 1 .. n : /\ lines[i].key = "end" /\ EndingAt(lines, i).hostname # NoText
                        /\ d = Ended(EndingAt(lines, i))
  /\ \A key \in Tags : state.session[key] = Told(lines, Since(lines, n, key), NoSession[key])

LEMMA TagStep ==
  ASSUME NEW lines \in Seq(XmlLine), NEW n \in 0 .. Len(lines) - 1, NEW state \in XmlState,
         XmlSays(state, lines, n), lines[n + 1].key # "end"
  PROVE  XmlSays(ReadTag(state, lines[n + 1]), lines, n + 1)
<1> DEFINE line == lines[n + 1]
           new == ReadTag(state, line)
<1>1. /\ n \in Nat /\ n + 1 \in 1 .. Len(lines) /\ line \in XmlLine
      /\ \A i \in 1 .. n + 1 : i \in 1 .. n \/ i = n + 1
      /\ \A i \in 1 .. n : i \in 1 .. n + 1
  OBVIOUS
<1>2. \A key : Since(lines, n + 1, key) =
        IF line.key = key THEN Since(lines, n, key) \cup {n + 1} ELSE Since(lines, n, key)
  <2>1. \A j \in 1 .. n : \A k : k \in j .. n + 1 <=> k \in j .. n \/ k = n + 1
    BY <1>1
  <2>2. \A k \in n + 1 .. n + 1 : k = n + 1
    BY <1>1
  <2>3. n + 1 \in 1 .. n + 1
    BY <1>1
  <2> QED BY <1>1, <2>1, <2>2, <2>3 DEF Since
<1>3. \A key : Since(lines, n, key) \in SUBSET (1 .. n)
  BY DEF Since
<1>4. new.out = state.out /\ \A key \in Tags : new.session[key] =
        IF line.key = key THEN line.value ELSE state.session[key]
  BY <1>1, ReadTagIs
<1>5. \A key, default : Told(lines, Since(lines, n, key) \cup {n + 1}, default) = line.value
  BY <1>1, <1>3, ToldLast
<1>6. line.key # "end"
  OBVIOUS
<1> HIDE DEF new
<1> HIDE DEF line
<1>7. \A key \in Tags : new.session[key] = Told(lines, Since(lines, n + 1, key), NoSession[key])
  <2> TAKE key \in Tags
  <2>1. CASE line.key = key
    <3>1. Since(lines, n + 1, key) = Since(lines, n, key) \cup {n + 1}
      BY <1>2, <2>1
    <3>2. new.session[key] = line.value
      BY <1>4, <2>1
    <3>3. Told(lines, Since(lines, n, key) \cup {n + 1}, NoSession[key]) = line.value
      BY <1>5
    <3> QED BY <3>1, <3>2, <3>3, Zenon
  <2>2. CASE line.key # key
    <3>1. Since(lines, n + 1, key) = Since(lines, n, key)
      BY <1>2, <2>2
    <3> QED BY <1>4, <2>2, <3>1 DEF XmlSays
  <2> QED BY <2>1, <2>2
<1>8. \A d : d \in Range(new.out) <=>
        \E i \in 1 .. n + 1 : /\ lines[i].key = "end" /\ EndingAt(lines, i).hostname # NoText
                             /\ d = Ended(EndingAt(lines, i))
  BY <1>1, <1>4, <1>6 DEF XmlSays, line
<1>9. XmlSays(new, lines, n + 1)
  BY <1>7, <1>8 DEF XmlSays
<1> QED BY <1>9 DEF new, line

LEMMA EndStepXml ==
  ASSUME NEW lines \in Seq(XmlLine), NEW n \in 0 .. Len(lines) - 1, NEW state \in XmlState,
         XmlSays(state, lines, n), lines[n + 1].key = "end"
  PROVE  XmlSays(ReadTag(state, lines[n + 1]), lines, n + 1)
<1> DEFINE line == lines[n + 1]
           new == ReadTag(state, line)
<1>1. /\ n \in Nat /\ n + 1 \in 1 .. n + 1 /\ line \in XmlLine
      /\ \A i \in 1 .. n + 1 : (i \in 1 .. n \/ i = n + 1) /\ n + 1 \in i .. n + 1
      /\ \A i \in 1 .. n : i \in 1 .. n + 1
      /\ (n + 1) - 1 = n
  OBVIOUS
<1>2. \A key : Since(lines, n + 1, key) = {}
  BY <1>1 DEF Since
<1>3. \A key \in Tags : \A default :
        Field(lines, n + 1, key, default) = Told(lines, Since(lines, n, key), default)
  <2> TAKE key \in Tags
  <2> TAKE default
  <2>1. key # "end"
    BY DEF Tags
  <2>2. {j \in 1 .. n + 1 : /\ lines[j].key = key
                            /\ \A k \in j .. (n + 1) - 1 : lines[k].key # "end"} = Since(lines, n, key)
    BY <1>1, <2>1 DEF Since
  <2> DEFINE at == {j \in 1 .. n + 1 : /\ lines[j].key = key
                                       /\ \A k \in j .. (n + 1) - 1 : lines[k].key # "end"}
  <2>3. Field(lines, n + 1, key, default) = Told(lines, at, default)
    BY DEF Field, Told
  <2> HIDE DEF at
  <2> QED BY <2>2, <2>3 DEF at
<1>4. EndingAt(lines, n + 1) = state.session
  <2>1. state.session \in XmlSession
    BY DEF XmlState
  <2>2. /\ state.session.name = Told(lines, Since(lines, n, "name"), NoText)
        /\ state.session.hostname = Told(lines, Since(lines, n, "hostname"), NoText)
        /\ state.session.port = Told(lines, Since(lines, n, "port"), DefaultPort)
    BY DEF XmlSays, Tags, NoSession
  <2>3. state.session = [name |-> state.session.name, hostname |-> state.session.hostname,
                         port |-> state.session.port]
    BY <2>1 DEF XmlSession
  <2>4. "name" \in Tags /\ "hostname" \in Tags /\ "port" \in Tags
    BY DEF Tags
  <2> QED BY <1>3, <2>2, <2>3, <2>4 DEF EndingAt
<1>5. /\ new.session = NoSession
      /\ Range(new.out) = Range(state.out) \cup {d \in {Ended(state.session)} : state.session.hostname # NoText}
  BY <1>1, ReadTagIs
<1>6. line.key = "end"
  OBVIOUS
<1> HIDE DEF new
<1>7. \A key \in Tags : new.session[key] = Told(lines, Since(lines, n + 1, key), NoSession[key])
  BY <1>2, <1>5 DEF Told
<1>8. \A d : d \in Range(new.out) <=>
        \E i \in 1 .. n + 1 : /\ lines[i].key = "end" /\ EndingAt(lines, i).hostname # NoText
                             /\ d = Ended(EndingAt(lines, i))
  <2>1. \A d : d \in Range(new.out) <=>
          d \in Range(state.out) \/ (d = Ended(EndingAt(lines, n + 1)) /\ EndingAt(lines, n + 1).hostname # NoText)
    BY <1>4, <1>5
  <2> QED BY <1>1, <1>6, <2>1 DEF XmlSays
<1>9. XmlSays(new, lines, n + 1)
  BY <1>7, <1>8 DEF XmlSays
<1> QED BY <1>9 DEF new

LEMMA XmlReadsAll ==
  ASSUME NEW lines \in Seq(XmlLine)
  PROVE  FromXml(lines) \in Seq(DeviceRow) /\ Range(FromXml(lines)) = Sessions(lines)
<1> DEFINE len == Len(lines)
           at(n) == XmlRead(lines)[n]
           T == {n \in Nat : n <= len => XmlSays(at(n), lines, n)}
<1>1. len \in Nat
  OBVIOUS
<1>2. 0 \in T
  <2>1. at(0).out = <<>> /\ at(0).session = NoSession
    BY XmlReadIs
  <2>2. 1 .. 0 = {} /\ Range(at(0).out) = {}
    BY <2>1 DEF Range
  <2>3. \A key : Since(lines, 0, key) = {}
    BY <2>2 DEF Since
  <2>4. XmlSays(at(0), lines, 0)
    BY <2>1, <2>2, <2>3 DEF XmlSays, Told
  <2> QED BY <2>4
<1>3. ASSUME NEW n \in T PROVE n + 1 \in T
  <2>1. CASE n + 1 <= len
    <3>1. /\ n \in 0 .. len - 1 /\ n \in 0 .. len /\ n + 1 \in 1 .. len /\ (n + 1) - 1 = n
          /\ XmlSays(at(n), lines, n)
      BY <1>1, <2>1
    <3>2. at(n) \in XmlState /\ at(n + 1) = ReadTag(at(n), lines[n + 1])
      BY <3>1, XmlReadIs
    <3> HIDE DEF at
    <3>3. XmlSays(at(n + 1), lines, n + 1)
      BY <3>1, <3>2, TagStep, EndStepXml
    <3> QED BY <3>3
  <2> QED BY <2>1
<1>4. T = Nat
  <2>1. T \in SUBSET Nat
    OBVIOUS
  <2> HIDE DEF T
  <2> QED BY <1>2, <1>3, <2>1, UpFromZero
<1>5. XmlSays(at(len), lines, len) /\ at(len) \in XmlState
  <2>1. len \in T /\ len \in 0 .. len
    BY <1>1, <1>4
  <2>2. at(len) \in XmlState
    BY <2>1, XmlReadIs
  <2> QED BY <2>1, <2>2
<1>6. FromXml(lines) = at(len).out
  BY DEF FromXml
<1> HIDE DEF at
<1>7. FromXml(lines) \in Seq(DeviceRow)
  BY <1>5, <1>6 DEF XmlState
<1>8. \A d : d \in Sessions(lines) <=>
        \E i \in 1 .. len : /\ lines[i].key = "end" /\ EndingAt(lines, i).hostname # NoText
                           /\ d = Ended(EndingAt(lines, i))
  BY DEF Sessions, EndingAt, Ended
<1> QED BY <1>5, <1>6, <1>7, <1>8 DEF XmlSays

(* The other readers.                                                      *)
LEMMA CsvTyped ==
  ASSUME NEW rows \in Seq(CsvRow)
  PROVE  FromCsv(rows) \in Seq(DeviceRow)
<1> DEFINE places == {i \in DOMAIN rows : rows[i].host # NoText}
           kept == Kept(rows, places)
           device(row) == [Device(Or(row.name, row.host), row.host, IF row.port = 0 THEN DefaultPort ELSE row.port)
                            EXCEPT !.folder = row.folder]
<1>1. FromCsv(rows) = [i \in DOMAIN kept |-> device(kept[i])]
  BY DEF FromCsv
<1>2. places \in SUBSET DOMAIN rows
  OBVIOUS
<1> HIDE DEF places
<1>3. kept \in Seq(CsvRow)
  BY <1>2, KeptIs
<1> HIDE DEF kept
<1>4. ASSUME NEW row \in CsvRow PROVE device(row) \in DeviceRow
  <2>1. /\ row.name \in STRING /\ row.host \in STRING /\ row.port \in Nat /\ row.folder \in Folder
        /\ DefaultPort \in Nat
    BY DEF CsvRow, Folder, DefaultPort
  <2>2. Device(Or(row.name, row.host), row.host, IF row.port = 0 THEN DefaultPort ELSE row.port) \in DeviceRow
    BY <2>1, DeviceIs DEF Or
  <2> QED BY <2>1, <2>2 DEF DeviceRow
<1>5. DOMAIN kept = 1 .. Len(kept) /\ Len(kept) \in Nat /\ \A i \in DOMAIN kept : kept[i] \in CsvRow
  BY <1>3, LenProperties, ElementOfSeq
<1> HIDE DEF device
<1>6. FromCsv(rows) \in [1 .. Len(kept) -> DeviceRow]
  BY <1>1, <1>4, <1>5
<1> QED BY <1>5, <1>6, SeqDef

LEMMA MobaTyped ==
  ASSUME NEW lines \in Seq(MobaLine)
  PROVE  FromMoba(lines) \in Seq(DeviceRow)
<1> DEFINE places == {i \in DOMAIN lines : /\ lines[i].ssh /\ lines[i].parts >= 5
                                           /\ lines[i].host # NoText}
           kept == Kept(lines, places)
<1>1. FromMoba(lines) = [i \in DOMAIN kept |-> Device(kept[i].name, kept[i].host, DefaultPort)]
  BY DEF FromMoba
<1>2. places \in SUBSET DOMAIN lines
  OBVIOUS
<1> HIDE DEF places
<1>3. kept \in Seq(MobaLine)
  BY <1>2, KeptIs
<1> HIDE DEF kept
<1>4. ASSUME NEW line \in MobaLine PROVE Device(line.name, line.host, DefaultPort) \in DeviceRow
  <2>1. line.name \in STRING /\ line.host \in STRING /\ DefaultPort \in Nat
    BY DEF MobaLine, DefaultPort
  <2> QED BY <2>1, DeviceIs
<1>5. DOMAIN kept = 1 .. Len(kept) /\ Len(kept) \in Nat /\ \A i \in DOMAIN kept : kept[i] \in MobaLine
  BY <1>3, LenProperties, ElementOfSeq
<1>6. FromMoba(lines) \in [1 .. Len(kept) -> DeviceRow]
  BY <1>1, <1>4, <1>5
<1> QED BY <1>5, <1>6, SeqDef

LEMMA SshTyped ==
  ASSUME NEW lines \in Seq(SshLine)
  PROVE  FromSshConfig(lines) \in Seq(DeviceRow)
<1> DEFINE end == SshRead(lines)[Len(lines)]
<1>1. Len(lines) \in 0 .. Len(lines)
  BY LenProperties
<1>2. end \in SshState
  BY <1>1, SshReadIs
<1>3. FromSshConfig(lines) = end.out \o Close(end.block)
  BY DEF FromSshConfig
<1> HIDE DEF end
<1>4. end.out \in Seq(DeviceRow) /\ end.block \in SshBlock
  BY <1>2 DEF SshState
<1>5. Close(end.block) \in Seq(DeviceRow)
  BY <1>4, CloseIs
<1> QED BY <1>3, <1>4, <1>5, RangeOfConcat

(* What a reader makes of a file are devices, and those the file tells of. *)
LEMMA FileIsRead ==
  ASSUME NEW f \in ImportFile
  PROVE  Parse(f) \in Seq(DeviceRow) /\ SaysSo(f)
<1>1. CASE f \in [kind : {"csv"}, lines : Seq(CsvRow)]
  BY <1>1, CsvTyped DEF Parse, SaysSo
<1>2. CASE f \in [kind : {"ssh"}, lines : Seq(SshLine)]
  <2>1. f.kind = "ssh" /\ f.lines \in Seq(SshLine)
    BY <1>2
  <2>2. Parse(f) = FromSshConfig(f.lines)
    BY <2>1 DEF Parse
  <2> QED BY <2>1, <2>2, SshTyped, SshReadsAll DEF SaysSo
<1>3. CASE f \in [kind : {"xml"}, lines : Seq(XmlLine)]
  <2>1. f.kind = "xml" /\ f.lines \in Seq(XmlLine)
    BY <1>3
  <2>2. Parse(f) = FromXml(f.lines)
    BY <2>1 DEF Parse
  <2> QED BY <2>1, <2>2, XmlReadsAll DEF SaysSo
<1>4. CASE f \in [kind : {"moba"}, lines : Seq(MobaLine)]
  BY <1>4, MobaTyped DEF Parse, SaysSo
<1> QED BY <1>1, <1>2, <1>3, <1>4 DEF ImportFile

LEMMA ImportableIs ==
  ASSUME NEW file \in ImportableFiles
  PROVE  file \in Seq(STRING) /\ Inside(file, OperatorRoots) /\ file \in ReadAsSaid
<1>1. /\ file # Refused /\ Canonical(file) \in DOMAIN ImportAt
      /\ \E p \in ImportPaths : file = ConfineUnderRoots(p, OperatorRoots, TRUE)
  BY DEF ImportableFiles
<1>2. PICK p \in ImportPaths : file = ConfineUnderRoots(p, OperatorRoots, TRUE)
  BY <1>1
<1>3. p \in Seq(STRING)
  BY FilesToImport
<1>4. file \in Seq(STRING) /\ Inside(file, OperatorRoots)
  BY <1>1, <1>3, <1>2, ConfinedIs
<1>5. file \in DOMAIN ImportAt /\ ImportAt[file] \in ImportFile
  BY <1>1, <1>4, FilesToImport DEF Inside
<1> QED BY <1>4, <1>5, FileIsRead DEF ReadAsSaid

LEMMA RowsTyped ==
  ASSUME NEW file \in ImportableFiles
  PROVE  RowsIn[file] \in Seq(DeviceRow)
<1>1. Canonical(file) = file /\ file \in DOMAIN ImportAt
  BY ImportableIs DEF Inside, ReadAsSaid
<1>2. RowsIn[file] = Parse(ImportAt[file]) /\ ImportAt[file] \in ImportFile
  BY <1>1, FilesToImport DEF RowsIn
<1> QED BY <1>2, FileIsRead

(***************************************************************************)
(* Calls that begin.                                                       *)
(***************************************************************************)
LEMMA StartStep ==
  ASSUME StoreInv, NEW c \in Callers, NEW k, NEW ask, NEW drop, Start(c, k, ask, drop),
         k.pc = "load", CallShape(k), k.op # "commit",
         k.op = "auth" /\ Head(k.todo) = "auth" /\ k.login.password => VaultHas(k.prof),
         k.op = "auth" /\ Head(k.todo) = "vault" => k.prof \in asked \cup ask,
         k.op = "upsert" => k.device.prof = NoProfile \/ AuthHas(k.device.prof),
         k.op = "unauth" => k.prof \in dropped \cup drop
  PROVE  StoreInv'
<1>1. DOMAIN call = Callers
  BY DEF StoreInv, CallsInv
<1>2. call' = [call EXCEPT ![c] = k] /\ tmp' = tmp
  BY DEF Start
<1>8. call'[c] = k /\ OthersKept(c)
  <2>1. DOMAIN call' = Callers /\ call'[c] = k
    BY <1>1, <1>2
  <2>2. \A x \in Callers \ {c} : call'[x] = call[x]
    BY <1>1, <1>2
  <2>3. \A x \in Callers : At(x, "rename") => TmpName(x) \in DOMAIN tmp
    BY DEF StoreInv, CallsInv, BesideIs
  <2> QED BY <1>2, <2>1, <2>2, <2>3 DEF OthersKept
<1>3. ~At(c, "publish") /\ ~At(c, "publish")' /\ ~At(c, "rename")'
  BY <1>8 DEF Start, At
<1>4. /\ UNCHANGED <<disk, mem, acked, lost, crossed>>
      /\ asked' = asked \cup ask /\ dropped' = dropped \cup drop
  BY DEF Start
<1>5. (\A p : VaultHas(p) => VaultHas(p)') /\ (\A p : AuthHas(p) => AuthHas(p)')
  BY <1>4 DEF VaultHas, AuthHas
<1>6. WritesWhole(k)'
  BY <1>4, <1>5 DEF WritesWhole
<1>7. WritesWhole(call[c])'
  BY <1>8, <1>6 DEF WritesWhole
<1> QED BY <1>8, <1>3, <1>4, <1>7, QuietStep

LEMMA ListInventoryKeeps ==
  ASSUME StoreInv, NEW c \in Callers, ListInventory(c)
  PROVE  StoreInv'
<1>1. PICK k : k = [Blank EXCEPT !.op = "list", !.todo = <<"inv">>]
  OBVIOUS
<1>2. k.pc = "load" /\ k.op = "list" /\ k.todo = <<"inv">> /\ DOMAIN k = DOMAIN Blank
  BY <1>1 DEF Blank
<1>3. CallShape(k)
  BY <1>2 DEF CallShape, PathShape, LoginShape, OtherShape, StepShape, Ops, TreeOps
<1>4. Start(c, k, {}, {})
  BY <1>1 DEF ListInventory
<1> QED BY <1>2, <1>3, <1>4, StartStep

LEMMA FolderEditKeeps ==
  ASSUME StoreInv, NEW c \in Callers, NEW k, Start(c, k, {}, {}),
         k.pc = "load", k.op \in {"mkdir", "rmdir", "rename"}, k.todo = <<"inv">>,
         k.path \in Folder, k.to \in Folder, DOMAIN k = DOMAIN Blank
  PROVE  StoreInv'
<1>1. CallShape(k)
  BY SMTT(40) DEF CallShape, PathShape, LoginShape, OtherShape, StepShape, Ops, TreeOps
<1> QED BY <1>1, StartStep

LEMMA EditInventoryKeeps ==
  ASSUME StoreInv, NEW c \in Callers, EditInventory(c)
  PROVE  StoreInv'
<1>1. ASSUME NEW op \in {"mkdir", "rmdir"}, NEW f \in Folders,
             Start(c, [Blank EXCEPT !.op = op, !.todo = <<"inv">>, !.path = f], {}, {})
      PROVE  StoreInv'
  <2>1. PICK k : k = [Blank EXCEPT !.op = op, !.todo = <<"inv">>, !.path = f]
    OBVIOUS
  <2>2. /\ k.pc = "load" /\ k.op = op /\ k.todo = <<"inv">> /\ k.path = f /\ k.to = <<>>
        /\ DOMAIN k = DOMAIN Blank
    BY <2>1 DEF Blank
  <2>3. f \in Folder /\ <<>> \in Folder
    BY FilesAssumption DEF Folder
  <2>4. Start(c, k, {}, {})
    BY <1>1, <2>1
  <2> QED BY <2>2, <2>3, <2>4, FolderEditKeeps
<1>2. ASSUME NEW from \in Folders, NEW to \in Folders,
             Start(c, [Blank EXCEPT !.op = "rename", !.todo = <<"inv">>, !.path = from,
                                    !.to = to], {}, {})
      PROVE  StoreInv'
  <2>1. PICK k : k = [Blank EXCEPT !.op = "rename", !.todo = <<"inv">>, !.path = from,
                                   !.to = to]
    OBVIOUS
  <2>2. /\ k.pc = "load" /\ k.op = "rename" /\ k.todo = <<"inv">> /\ k.path = from /\ k.to = to
        /\ DOMAIN k = DOMAIN Blank
    BY <2>1 DEF Blank
  <2>3. from \in Folder /\ to \in Folder
    BY FilesAssumption
  <2>4. Start(c, k, {}, {})
    BY <1>2, <2>1
  <2> QED BY <2>2, <2>3, <2>4, FolderEditKeeps
<1>3. ASSUME NEW d \in Chosen,
             Start(c, [Blank EXCEPT !.op = "remove", !.todo = <<"inv">>, !.id = d], {}, {})
      PROVE  StoreInv'
  <2>1. PICK k : k = [Blank EXCEPT !.op = "remove", !.todo = <<"inv">>, !.id = d]
    OBVIOUS
  <2>2. /\ k.pc = "load" /\ k.op = "remove" /\ k.todo = <<"inv">> /\ k.id = d
        /\ DOMAIN k = DOMAIN Blank
    BY <2>1 DEF Blank
  <2>3. d \in Devices
    BY FilesAssumption
  <2>4. CallShape(k)
    BY <2>2, <2>3 DEF CallShape, PathShape, LoginShape, OtherShape, StepShape, Ops, TreeOps
  <2>5. Start(c, k, {}, {})
    BY <1>3, <2>1
  <2> QED BY <2>2, <2>4, <2>5, StartStep
<1>4. ASSUME NEW d \in Chosen, NEW f \in Folders, NEW p \in {NoProfile} \cup DOMAIN disk.auth,
             Start(c, [Blank EXCEPT !.op = "upsert", !.todo = <<"inv">>, !.id = d,
                                    !.device = [folder |-> f, prof |-> p]], {}, {})
      PROVE  StoreInv'
  <2>1. PICK k : k = [Blank EXCEPT !.op = "upsert", !.todo = <<"inv">>, !.id = d,
                                   !.device = [folder |-> f, prof |-> p]]
    OBVIOUS
  <2>2. /\ k.pc = "load" /\ k.op = "upsert" /\ k.todo = <<"inv">> /\ k.id = d
        /\ k.device = [folder |-> f, prof |-> p] /\ DOMAIN k = DOMAIN Blank
    BY <2>1 DEF Blank
  <2>3. IsAuth(disk.auth)
    BY DEF StoreInv, FilesInv, Files6, Good
  <2>4. p \in Profiles \cup {NoProfile}
    BY <2>3, AuthIs
  <2>5. d \in Devices /\ f \in Folder
    BY FilesAssumption
  <2>6. k.device \in SavedDevice /\ k.device.prof = p
    BY <2>2, <2>4, <2>5 DEF SavedDevice
  <2>7. CallShape(k)
    BY <2>2, <2>5, <2>6 DEF CallShape, PathShape, LoginShape, OtherShape, StepShape, Ops, TreeOps
  <2>8. p = NoProfile \/ AuthHas(p)
    BY DEF AuthHas
  <2>9. Start(c, k, {}, {})
    BY <1>4, <2>1
  <2> QED BY <2>2, <2>6, <2>7, <2>8, <2>9, StartStep
<1> QED BY <1>1, <1>2, <1>3, <1>4 DEF EditInventory

LEMMA UpsertAuthKeeps ==
  ASSUME StoreInv, NEW c \in Callers, UpsertAuth(c)
  PROVE  StoreInv'
<1>1. PICK p \in Profiles, pw \in BOOLEAN, flag \in BOOLEAN :
        /\ flag => pw \/ (Saved(p) /\ disk.auth[p].password)
        /\ Start(c, [Blank EXCEPT !.op = "auth", !.prof = p,
                       !.todo = IF pw THEN <<"vault", "auth">> ELSE <<"auth">>,
                       !.login = [password |-> flag \/ pw, key |-> <<>>]],
                 IF pw THEN {p} ELSE {}, {})
  BY DEF UpsertAuth
<1>2. PICK k : k = [Blank EXCEPT !.op = "auth", !.prof = p,
                      !.todo = IF pw THEN <<"vault", "auth">> ELSE <<"auth">>,
                      !.login = [password |-> flag \/ pw, key |-> <<>>]]
  OBVIOUS
<1>3. /\ k.pc = "load" /\ k.op = "auth" /\ k.prof = p
      /\ k.todo = IF pw THEN <<"vault", "auth">> ELSE <<"auth">>
      /\ k.login = [password |-> flag \/ pw, key |-> <<>>] /\ DOMAIN k = DOMAIN Blank
  BY <1>2 DEF Blank
<1>4. k.login \in Login /\ k.login.password = (flag \/ pw)
  BY <1>3 DEF Login
<1>5. CallShape(k)
  BY <1>3, <1>4 DEF CallShape, PathShape, LoginShape, OtherShape, StepShape, Ops, TreeOps
<1>6. Start(c, k, IF pw THEN {p} ELSE {}, {})
  BY <1>1, <1>2
<1>7. FlagsOf(disk.auth)
  BY DEF StoreInv, FilesInv, Files6, Good
<1>8. ASSUME pw PROVE Head(k.todo) = "vault"
  BY <1>3, <1>8
<1>9. ASSUME ~pw PROVE Head(k.todo) = "auth"
  BY <1>3, <1>9
<1>10. ~pw /\ k.login.password => VaultHas(p)
  BY <1>1, <1>4, <1>7 DEF Saved, FlagsOf
<1> QED BY SMTT(40), <1>3, <1>5, <1>6, <1>8, <1>9, <1>10, StartStep

LEMMA DeleteAuthKeeps ==
  ASSUME StoreInv, NEW c \in Callers, DeleteAuth(c)
  PROVE  StoreInv'
<1>1. PICK p \in Profiles :
        Start(c, [Blank EXCEPT !.op = "unauth", !.prof = p, !.todo = <<"vault", "auth">>],
              {}, {p})
  BY DEF DeleteAuth
<1>2. PICK k : k = [Blank EXCEPT !.op = "unauth", !.prof = p, !.todo = <<"vault", "auth">>]
  OBVIOUS
<1>3. /\ k.pc = "load" /\ k.op = "unauth" /\ k.prof = p
      /\ k.todo = <<"vault", "auth">> /\ DOMAIN k = DOMAIN Blank
  BY <1>2 DEF Blank
<1>4. CallShape(k)
  BY <1>3 DEF CallShape, PathShape, LoginShape, OtherShape, StepShape, Ops, TreeOps
<1>5. Start(c, k, {}, {p})
  BY <1>1, <1>2
<1> QED BY <1>3, <1>4, <1>5, StartStep

LEMMA EditNamesKeeps ==
  ASSUME StoreInv, NEW c \in Callers, NEW op \in {"put", "del"}, NEW file, NEW n,
         \/ file = "keys" /\ n \in Known
         \/ file = "cols" /\ n \in Names,
         Start(c, [Blank EXCEPT !.op = op, !.todo = <<file>>, !.id = n], {}, {})
  PROVE  StoreInv'
<1>1. PICK k : k = [Blank EXCEPT !.op = op, !.todo = <<file>>, !.id = n]
  OBVIOUS
<1>2. /\ k.pc = "load" /\ k.op = op /\ k.id = n
      /\ k.todo = <<file>> /\ DOMAIN k = DOMAIN Blank
  BY <1>1 DEF Blank
<1>3. CallShape(k)
  BY <1>2 DEF CallShape, PathShape, LoginShape, OtherShape, StepShape, Ops, TreeOps
<1>4. Start(c, k, {}, {})
  BY <1>1
<1> QED BY <1>2, <1>3, <1>4, StartStep

LEMMA ImportKeeps ==
  ASSUME StoreInv, NEW c \in Callers, Import(c)
  PROVE  StoreInv'
<1>1. PICK file \in ImportableFiles :
        LET rows == RowsIn[file]
        IN /\ rows # <<>>
           /\ \E ids \in NewDevices(rows) :
                Start(c, [Blank EXCEPT !.op = "import", !.todo = [i \in DOMAIN rows |-> "inv"],
                            !.path = file,
                            !.rows = [i \in DOMAIN rows |->
                              <<ids[i], [folder |-> rows[i].folder, prof |-> NoProfile]>>]],
                      {}, {})
  BY DEF Import
<1>2. PICK rows : rows = RowsIn[file]
  OBVIOUS
<1>3. rows \in Seq([name : STRING, host : STRING, port : Nat, folder : Folder]) /\ rows # <<>>
  BY <1>1, <1>2, RowsTyped DEF DeviceRow
<1>4. PICK ids \in NewDevices(rows) :
        Start(c, [Blank EXCEPT !.op = "import", !.todo = [i \in DOMAIN rows |-> "inv"],
                    !.path = file,
                    !.rows = [i \in DOMAIN rows |->
                      <<ids[i], [folder |-> rows[i].folder, prof |-> NoProfile]>>]],
              {}, {})
  BY <1>1, <1>2
<1>5. PICK todo : todo = [i \in DOMAIN rows |-> "inv"]
  OBVIOUS
<1>6. PICK saved : saved = [i \in DOMAIN rows |->
                             <<ids[i], [folder |-> rows[i].folder, prof |-> NoProfile]>>]
  OBVIOUS
<1>7. PICK k : k = [Blank EXCEPT !.op = "import", !.todo = todo, !.path = file, !.rows = saved]
  OBVIOUS
<1>8. /\ k.pc = "load" /\ k.op = "import" /\ k.todo = todo /\ k.rows = saved
      /\ k.path = file /\ DOMAIN k = DOMAIN Blank
  BY <1>7 DEF Blank
<1>9. DOMAIN rows = 1 .. Len(rows) /\ Len(rows) \in Nat \ {0}
  BY <1>3, LenProperties, EmptySeq
<1>10. todo \in Seq({"inv"}) /\ Len(todo) = Len(rows)
  BY <1>5, <1>9
<1>11. \A i \in DOMAIN rows : ids[i] \in Devices
  BY <1>4 DEF NewDevices
<1>12. ASSUME NEW i \in DOMAIN rows PROVE rows[i].folder \in Folder
  <2>1. rows[i] \in [name : STRING, host : STRING, port : Nat, folder : Folder]
    BY <1>3, <1>9, ElementOfSeq
  <2> QED BY <2>1
<1>13. saved \in Seq(Devices \X [folder : Folder, prof : {NoProfile}]) /\ Len(saved) = Len(rows)
  BY <1>6, <1>9, <1>11, <1>12
<1>14. todo # <<>>
  BY <1>9, <1>10
<1>15. PathShape(k)
  BY <1>8, <1>10, <1>13, <1>14 DEF PathShape, TreeOps
<1>16. CallShape(k)
  BY <1>8, <1>15 DEF CallShape, LoginShape, OtherShape, StepShape, Ops
<1>17. Start(c, k, {}, {})
  BY <1>4, <1>5, <1>6, <1>7
<1> QED BY <1>8, <1>16, <1>17, StartStep

LEMMA ConnectKeeps ==
  ASSUME StoreInv, NEW c \in Callers, Connect(c)
  PROVE  StoreInv'
<1>1. PICK d \in Chosen, key \in KeyFiles \cup {<<>>}, typed \in BOOLEAN, save \in BOOLEAN,
           keep \in BOOLEAN :
        Start(c, [Blank EXCEPT !.op = "connect", !.todo = <<"inv">>, !.id = d, !.key = key,
                    !.pw = typed, !.wish = keep, !.save = save,
                    !.keep = Persist(save, keep, typed)],
              {}, {})
  BY ZenonT(60) DEF Connect
<1>2. PICK k : k = [Blank EXCEPT !.op = "connect", !.todo = <<"inv">>, !.id = d, !.key = key,
                      !.pw = typed, !.wish = keep, !.save = save,
                      !.keep = Persist(save, keep, typed)]
  OBVIOUS
<1>3. /\ k.pc = "load" /\ k.op = "connect" /\ k.todo = <<"inv">> /\ k.id = d /\ k.key = key
      /\ k.device = [folder |-> <<>>, prof |-> NoProfile] /\ DOMAIN k = DOMAIN Blank
  BY <1>2 DEF Blank
<1>4. k.pw = typed /\ k.wish = keep /\ k.keep = Persist(save, keep, typed)
  BY <1>2 DEF Blank
<1>5. k.pw \in BOOLEAN /\ k.keep \in BOOLEAN /\ (k.keep => k.pw /\ k.wish)
  BY <1>4 DEF Persist
<1>6. d \in Devices
  BY FilesAssumption
<1>7. k.device \in SavedDevice
  BY <1>3 DEF SavedDevice, Folder
<1>8. PathShape(k)
  BY <1>3, <1>6, <1>7 DEF PathShape, TreeOps
<1>9. LoginShape(k)
  BY <1>3, <1>5 DEF LoginShape
<1>10. CallShape(k)
  BY <1>3, <1>8, <1>9 DEF CallShape, OtherShape, StepShape, Ops, TreeOps
<1>11. Start(c, k, {}, {})
  BY <1>1, <1>2
<1> QED BY <1>3, <1>10, <1>11, StartStep

(* What is remembered is remembered once.                                  *)
LEMMA RememberedIs ==
  ASSUME NEW s \in Settings
  PROVE  /\ Remembered(s) \in Settings
         /\ Remembered(Remembered(s)) = Remembered(s)
         /\ Remembered(s) = s => (s.active \notin Loopback \cup {NoText} => s.remote # NoText)
<1>1. CASE s.remote = NoText /\ s.active \notin Loopback \cup {NoText}
  <2>1. PICK r : r = [s EXCEPT !.remote = s.active]
    OBVIOUS
  <2>2. r \in Settings /\ r.remote = s.active /\ r.remote # NoText /\ s # r
    BY <1>1, <2>1 DEF Settings
  <2> QED BY <1>1, <2>1, <2>2 DEF Remembered
<1>2. CASE ~(s.remote = NoText /\ s.active \notin Loopback \cup {NoText})
  BY <1>2 DEF Remembered
<1> QED BY <1>1, <1>2

LEMMA SetSettingsKeeps ==
  ASSUME StoreInv, NEW c \in Callers, SetSettings(c)
  PROVE  StoreInv'
<1>1. PICK s \in {[mem EXCEPT !.active = u] : u \in Urls}
                   \cup {[mem EXCEPT !.remote = u] : u \in Urls \cup {NoText}}
                   \cup {[mem EXCEPT !.dir = d] : d \in AllowedDirs} :
        Start(c, [Blank EXCEPT !.op = "settings", !.todo = <<"settings">>,
                    !.settings = Remembered(s)], {}, {})
  BY DEF SetSettings
<1>2. mem \in Settings
  BY DEF StoreInv, SettingsInv
<1>3. s \in Settings
  BY <1>2 DEF Settings, AllowedDirs
<1>4. PICK k : k = [Blank EXCEPT !.op = "settings", !.todo = <<"settings">>,
                      !.settings = Remembered(s)]
  OBVIOUS
<1>5. /\ k.pc = "load" /\ k.op = "settings" /\ k.todo = <<"settings">>
      /\ k.settings = Remembered(s) /\ DOMAIN k = DOMAIN Blank
  BY <1>4 DEF Blank
<1>6. k.settings \in Settings /\ Remembered(k.settings) = k.settings
  BY <1>3, <1>5, RememberedIs
<1>7. OtherShape(k)
  BY <1>5, <1>6 DEF OtherShape
<1>8. CallShape(k)
  BY <1>5, <1>7 DEF CallShape, PathShape, LoginShape, StepShape, Ops, TreeOps
<1>9. Start(c, k, {}, {})
  BY <1>1, <1>4
<1> QED BY <1>5, <1>8, <1>9, StartStep

(***************************************************************************)
(* Steps of a handler that write no file.                                  *)
(***************************************************************************)

(* A caller whose files beside stay where they are.                        *)
LEMMA QuietMove ==
  ASSUME StoreInv, NEW c \in Callers, NEW k,
         DOMAIN call' = Callers, \A x \in Callers \ {c} : call'[x] = call[x], call'[c] = k,
         UNCHANGED <<tmp, disk, mem, acked, lost, crossed>>,
         asked \subseteq asked', dropped \subseteq dropped',
         ~At(c, "publish"), k.pc \notin {"publish", "rename"}, CallShape(k),
         k.pc # "idle" => WritesWhole(k)'
  PROVE  StoreInv'
<1>1. OthersKept(c)
  BY DEF StoreInv, CallsInv, BesideIs, OthersKept
<1>2. ~At(c, "publish")' /\ ~At(c, "rename")' /\ (At(c, "idle")' <=> k.pc = "idle")
  BY DEF At
<1>3. ~At(c, "idle")' => WritesWhole(call[c])'
  BY <1>2 DEF WritesWhole
<1>4. UNCHANGED <<disk, mem, acked, lost, crossed>>
  OBVIOUS
<1> QED BY <1>1, <1>2, <1>3, <1>4, QuietStep

LEMMA QuietEnd ==
  ASSUME StoreInv, NEW c \in Callers, NEW r, End(c, r),
         UNCHANGED <<tmp, disk, mem, acked, lost, crossed>>,
         asked \subseteq asked', dropped \subseteq dropped', ~At(c, "publish")
  PROVE  StoreInv'
<1>1. PICK k : k = call'[c]
  OBVIOUS
<1>2. /\ DOMAIN call' = Callers /\ \A x \in Callers \ {c} : call'[x] = call[x]
      /\ CallShape(k) /\ k.pc = "idle"
  BY <1>1, EndStep DEF At
<1> QED BY <1>1, <1>2, QuietMove

LEMMA PrepareLoginKeeps ==
  ASSUME StoreInv, NEW c \in Callers, PrepareLogin(c)
  PROVE  StoreInv'
<1>1. PICK k : k = call[c]
  OBVIOUS
<1>2. PICK saved : saved = IF k.device.prof \in DOMAIN disk.auth THEN k.device.prof ELSE NoProfile
  OBVIOUS
<1>3. PICK old : old = IF saved = NoProfile THEN [password |-> FALSE, key |-> <<>>]
                       ELSE disk.auth[saved]
  OBVIOUS
<1>4. PICK key : key = IF k.key = <<>> THEN old.key ELSE k.key
  OBVIOUS
<1>5. /\ k.pc = "profile" /\ CallShape(k) /\ DOMAIN call = Callers
      /\ UNCHANGED <<tmp, disk, mem, acked, lost, crossed>>
      /\ asked' = asked /\ dropped' = dropped
  BY <1>1 DEF PrepareLogin, At, NoHistory, StoreInv, CallsInv
<1>6. ~At(c, "publish")
  BY <1>1, <1>5 DEF At
<1>7. CASE End(c, "error")
  BY <1>5, <1>6, <1>7, QuietEnd
<1>8. CASE ~End(c, "error")
  <2>1. PICK p \in IF saved # NoProfile THEN {saved} ELSE Profiles \ DOMAIN disk.auth :
          call' = [call EXCEPT ![c].pc = "open", ![c].prof = p, ![c].device.prof = p,
                     ![c].key = key,
                     ![c].login = [password |-> k.pw \/ old.password, key |-> key]]
    BY ZenonT(60), <1>1, <1>2, <1>3, <1>4, <1>8 DEF PrepareLogin
  <2>2. PICK l : l = [password |-> k.pw \/ old.password, key |-> key]
    OBVIOUS
  <2>3. PICK new : new = [k EXCEPT !.pc = "open", !.prof = p, !.device.prof = p,
                            !.key = key, !.login = l]
    OBVIOUS
  <2>4. call' = [call EXCEPT ![c] = new]
    BY ZenonT(60), <1>1, <1>5, <2>1, <2>2, <2>3
  <2>5. DOMAIN k = DOMAIN Blank
    BY <1>5 DEF CallShape
  <2>6. /\ new.pc = "open" /\ new.op = k.op /\ new.todo = k.todo /\ new.id = k.id
        /\ new.prof = p /\ new.key = key /\ new.pw = k.pw /\ new.keep = k.keep
        /\ new.wish = k.wish /\ new.login = l
        /\ new.device = [k.device EXCEPT !.prof = p] /\ DOMAIN new = DOMAIN Blank
    BY <2>3, <2>5 DEF Blank
  <2>7. IsAuth(disk.auth)
    BY DEF StoreInv, FilesInv, Files6, Good
  <2>8. p \in Profiles /\ old \in Login
    <3>1. CASE saved = NoProfile
      BY <1>3, <2>1, <3>1 DEF Login
    <3>2. CASE saved # NoProfile
      BY <1>2, <1>3, <2>1, <2>7, <3>2, AuthIs
    <3> QED BY <3>1, <3>2
  <2>9. /\ k.op = "connect" /\ k.todo = <<"inv">> /\ k.id \in Devices /\ k.device \in SavedDevice
        /\ k.key \in KeyFiles \cup {<<>>} /\ k.pw \in BOOLEAN /\ k.keep \in BOOLEAN
        /\ k.keep => k.pw /\ k.wish
    BY <1>5 DEF CallShape, StepShape, PathShape, LoginShape, TreeOps
  <2>10. key \in KeyFiles \cup {<<>>} /\ l \in Login
    BY <1>4, <2>2, <2>8, <2>9 DEF Login
  <2>11. new.device \in SavedDevice /\ new.device.prof = p
    BY <2>6, <2>8, <2>9 DEF SavedDevice
  <2>12. PathShape(new)
    BY <2>6, <2>9, <2>11 DEF PathShape, TreeOps
  <2>13. LoginShape(new)
    BY <2>6, <2>8, <2>9, <2>10, <2>11 DEF LoginShape
  <2>14. CallShape(new)
    BY <2>6, <2>9, <2>12, <2>13 DEF CallShape, OtherShape, StepShape, Ops, TreeOps
  <2>15. WritesWhole(new)'
    BY <2>6, <2>9 DEF WritesWhole
  <2>16. DOMAIN call' = Callers /\ call'[c] = new /\ \A x \in Callers \ {c} : call'[x] = call[x]
    BY <1>5, <2>4
  <2> QED BY SMTT(40), <1>5, <1>6, <2>6, <2>14, <2>15, <2>16, QuietMove
<1> QED BY <1>7, <1>8

LEMMA CommitOrderIs ==
  ASSUME NEW keep \in BOOLEAN
  PROVE  /\ keep => CommitOrder(keep) = <<"vault", "auth", "inv">>
                    /\ Head(CommitOrder(keep)) = "vault"
         /\ ~keep => CommitOrder(keep) = <<"auth", "inv">> /\ Head(CommitOrder(keep)) = "auth"
         /\ CommitOrder(keep) # <<"inv">>
<1>1. CASE keep
  <2>1. CommitOrder(keep) = <<"vault", "auth", "inv">>
    BY <1>1 DEF CommitOrder
  <2> QED BY <2>1, <1>1
<1>2. CASE ~keep
  <2>1. CommitOrder(keep) = <<"auth", "inv">>
    BY <1>2 DEF CommitOrder
  <2> QED BY <2>1, <1>2
<1> QED BY <1>1, <1>2

LEMMA OpenSshKeeps ==
  ASSUME StoreInv, NEW c \in Callers, OpenSsh(c)
  PROVE  StoreInv'
<1>1. PICK k : k = call[c]
  OBVIOUS
<1>2. /\ k.pc = "open" /\ CallShape(k) /\ DOMAIN call = Callers
      /\ UNCHANGED <<tmp, disk, mem, acked, lost, crossed>>
      /\ dropped' = dropped
  BY <1>1 DEF OpenSsh, At, StoreInv, CallsInv
<1>3. ~At(c, "publish")
  BY <1>1, <1>2 DEF At
<1>4. ASSUME NEW r, End(c, r), asked' = asked PROVE StoreInv'
  BY <1>2, <1>3, <1>4, QuietEnd
<1>5. ASSUME asked' = (IF k.pw /\ k.wish THEN asked \cup {k.prof} ELSE asked),
             call' = [call EXCEPT ![c].pc = "load", ![c].op = "commit",
                        ![c].todo = CommitOrder(k.keep), ![c].login.password = HasPassword(k)]
      PROVE  StoreInv'
  <2>1. PICK new : new = [k EXCEPT !.pc = "load", !.op = "commit",
                            !.todo = CommitOrder(k.keep), !.login.password = HasPassword(k)]
    OBVIOUS
  <2>2. call' = [call EXCEPT ![c] = new]
    BY ZenonT(60), <1>1, <1>2, <1>5, <2>1
  <2>3. DOMAIN k = DOMAIN Blank
    BY <1>2 DEF CallShape
  <2>4. /\ new.pc = "load" /\ new.op = "commit" /\ new.todo = CommitOrder(k.keep)
        /\ new.id = k.id /\ new.prof = k.prof /\ new.device = k.device
        /\ new.login = [k.login EXCEPT !.password = HasPassword(k)]
        /\ DOMAIN new = DOMAIN Blank
    BY <2>1, <2>3 DEF Blank
  <2>5. /\ k.op = "connect" /\ k.id \in Devices /\ k.device \in SavedDevice
        /\ k.keep \in BOOLEAN /\ (k.keep => k.pw /\ k.wish)
        /\ k.prof \in Profiles /\ k.login \in Login /\ k.device.prof = k.prof
    BY <1>2 DEF CallShape, StepShape, PathShape, LoginShape, TreeOps
  <2>6. new.login \in Login /\ new.login.password = HasPassword(k)
    BY <2>4, <2>5 DEF Login, HasPassword
  <2>7. PathShape(new)
    BY <2>4, <2>5 DEF PathShape, TreeOps
  <2>8. LoginShape(new)
    BY <2>4, <2>5, <2>6, CommitOrderIs DEF LoginShape
  <2>9. CallShape(new)
    BY <2>4, <2>7, <2>8 DEF CallShape, OtherShape, StepShape, Ops
  <2>10. CASE k.keep
    <3>1. k.prof \in asked'
      BY <1>5, <2>5, <2>10
    <3>2. Head(new.todo) = "vault" /\ new.todo # <<"inv">>
      BY <2>4, <2>5, <2>10, CommitOrderIs
    <3>3. WritesWhole(new)'
      BY <2>4, <3>1, <3>2 DEF WritesWhole
    <3> QED BY <1>2, <1>3, <1>5, <2>2, <2>4, <2>9, <3>3, QuietMove
  <2>11. CASE ~k.keep
    <3>1. Head(new.todo) = "auth" /\ new.todo # <<"inv">>
      BY <2>4, <2>5, <2>11, CommitOrderIs
    <3>2. new.login.password => VaultHas(k.prof)'
      BY <1>2, <2>6, <2>11 DEF HasPassword, VaultHas
    <3>3. WritesWhole(new)'
      BY <2>4, <3>1, <3>2 DEF WritesWhole
    <3> QED BY <1>2, <1>3, <1>5, <2>2, <2>4, <2>9, <3>3, QuietMove
  <2> QED BY <2>5, <2>10, <2>11
<1> QED BY <1>1, <1>4, <1>5 DEF OpenSsh

(* A handler on its way is the same handler.                               *)
LEMMA ShapeMoves ==
  ASSUME NEW k, CallShape(k), k.pc # "idle", NEW new, DOMAIN new = DOMAIN k,
         new.op = k.op, new.todo = k.todo, new.path = k.path, new.to = k.to, new.id = k.id,
         new.device = k.device \/ (k.op = "connect" /\ new.device \in SavedDevice),
         new.rows = k.rows, new.prof = k.prof,
         new.login = k.login, new.key = k.key, new.pw = k.pw, new.keep = k.keep,
         new.wish = k.wish, new.settings = k.settings,
         new.pc \in {"load", "seed", "rename", "publish", "profile"}, StepShape(new)
  PROVE  CallShape(new)
<1>1. k.op \in Ops /\ PathShape(k) /\ LoginShape(k) /\ OtherShape(k)
  BY DEF CallShape
<1>2. PathShape(new)
  BY <1>1 DEF PathShape
<1>3. LoginShape(new)
  BY <1>1 DEF LoginShape
<1>4. OtherShape(new)
  BY <1>1 DEF OtherShape
<1> QED BY <1>1, <1>2, <1>3, <1>4 DEF CallShape

LEMMA WriteBesideStep ==
  ASSUME StoreInv, NEW c \in Callers, At(c, "load") \/ At(c, "seed"),
         call[c].op \notin {"list", "connect"},
         NEW copy, Good(File(c), copy), WriteBeside(c, copy), Grows
  PROVE  /\ OthersKept(c) /\ CallShape(call'[c]) /\ ~At(c, "publish")'
         /\ ~At(c, "idle")' => WritesWhole(call[c])'
         /\ At(c, "rename")' => BesideIs(c)'
<1>1. PICK k : k = call[c]
  OBVIOUS
<1>2. PICK file : file = Head(k.todo)
  OBVIOUS
<1>3. PICK made : made = Change(k, file, copy)
  OBVIOUS
<1>4. DOMAIN call = Callers /\ CallShape(k) /\ k.pc \in {"load", "seed"} /\ WritesWhole(k)
  BY <1>1 DEF StoreInv, CallsInv, At
<1>5. File(c) = file
  BY <1>1, <1>2 DEF File
<1>6. \A x \in Callers : At(x, "rename") => TmpName(x) \in DOMAIN tmp
  BY DEF StoreInv, CallsInv, BesideIs
<1>7. CASE made = Conflict
  <2>1. End(c, "error") /\ tmp' = tmp
    BY <1>1, <1>3, <1>5, <1>7 DEF WriteBeside
  <2>2. OthersKept(c)
    BY <1>6, <2>1, EndStep DEF OthersKept
  <2> QED BY <2>1, <2>2, EndStep
<1>8. CASE made # Conflict
  <2>1. tmp' = Put(tmp, TmpName(c), made)
    BY <1>1, <1>3, <1>5, <1>8 DEF WriteBeside
  <2>2. call' = [call EXCEPT ![c].pc = "rename", ![c].held = copy]
    BY <1>1, <1>3, <1>5, <1>8 DEF WriteBeside
  <2>3. PICK new : new = [k EXCEPT !.pc = "rename", !.held = copy]
    OBVIOUS
  <2>4. DOMAIN call' = Callers /\ call'[c] = new /\ \A x \in Callers \ {c} : call'[x] = call[x]
    BY <1>1, <1>4, <2>2, <2>3
  <2>5. DOMAIN k = DOMAIN Blank
    BY <1>4 DEF CallShape
  <2>6. /\ new.pc = "rename" /\ new.held = copy /\ DOMAIN new = DOMAIN k
        /\ new.op = k.op /\ new.todo = k.todo /\ new.path = k.path /\ new.to = k.to
        /\ new.id = k.id /\ new.device = k.device /\ new.rows = k.rows /\ new.prof = k.prof
        /\ new.login = k.login /\ new.key = k.key /\ new.pw = k.pw /\ new.keep = k.keep
        /\ new.wish = k.wish /\ new.settings = k.settings
    BY <2>3, <2>5 DEF Blank
  <2>7. StepShape(new)
    BY <1>1, <2>6 DEF StepShape
  <2>8. CallShape(new)
    BY <1>4, <2>6, <2>7, ShapeMoves
  <2>9. WritesWhole(k)'
    BY <1>4, WritesStay
  <2>10. WritesWhole(call[c])'
    BY <2>4, <2>6, <2>9 DEF WritesWhole
  <2>11. File(c)' = file /\ TmpName(c) = <<file, c>> /\ TmpName(c)' = <<file, c>>
    BY <1>2, <1>5, <2>4, <2>6 DEF File, TmpName
  <2>12. Change(new, file, copy) = made
    BY <1>3, <2>6 DEF Change, ChangeInventory
  <2>13. Good(file, copy)'
    BY <1>5, GoodStays
  <2>14. tmp'[<<file, c>>] = made /\ <<file, c>> \in DOMAIN tmp'
    BY <2>1, <2>11 DEF Put
  <2>15. BesideIs(c)'
    <3>1. Good(File(c), call[c].held)'
      BY <2>4, <2>6, <2>11, <2>13 DEF Good, FlagsOf, LoginsOf
    <3> QED BY <1>8, <2>4, <2>6, <2>11, <2>12, <2>14, <3>1 DEF BesideIs
  <2>16. ASSUME NEW x \in Callers \ {c}, At(x, "rename")
         PROVE  TmpName(x) \in DOMAIN tmp' /\ tmp'[TmpName(x)] = tmp[TmpName(x)]
    <3>1. TmpName(x) # TmpName(c)
      BY DEF TmpName
    <3> QED BY <1>6, <2>1, <2>16, <3>1 DEF Put
  <2>17. OthersKept(c)
    BY <2>4, <2>16 DEF OthersKept
  <2> QED BY <2>4, <2>6, <2>8, <2>10, <2>15, <2>17 DEF At
<1> QED BY <1>7, <1>8

LEMMA UseStep ==
  ASSUME StoreInv, NEW c \in Callers, At(c, "load") \/ At(c, "seed"),
         NEW copy, Good(File(c), copy), Use(c, copy), Grows
  PROVE  /\ OthersKept(c) /\ CallShape(call'[c]) /\ ~At(c, "publish")'
         /\ ~At(c, "idle")' => WritesWhole(call[c])'
         /\ At(c, "rename")' => BesideIs(c)'
<1>1. PICK k : k = call[c]
  OBVIOUS
<1>4. DOMAIN call = Callers /\ CallShape(k) /\ k.pc \in {"load", "seed"} /\ WritesWhole(k)
  BY <1>1 DEF StoreInv, CallsInv, At
<1>6. \A x \in Callers : At(x, "rename") => TmpName(x) \in DOMAIN tmp
  BY DEF StoreInv, CallsInv, BesideIs
<1>7. CASE k.op = "list"
  <2>1. End(c, "ok") /\ tmp' = tmp
    BY <1>1, <1>7 DEF Use
  <2>2. OthersKept(c)
    BY <1>6, <2>1, EndStep DEF OthersKept
  <2> QED BY <2>1, <2>2, EndStep
<1>8. CASE k.op = "connect"
  <2>1. PICK dev : dev = IF k.id \in DOMAIN copy.devs THEN copy.devs[k.id] ELSE k.device
    OBVIOUS
  <2>2. call' = [call EXCEPT ![c].pc = "profile", ![c].device = dev] /\ tmp' = tmp
    BY <1>1, <1>8, <2>1, <1>4 DEF Use
  <2>3. PICK new : new = [k EXCEPT !.pc = "profile", !.device = dev]
    OBVIOUS
  <2>4. DOMAIN call' = Callers /\ call'[c] = new /\ \A x \in Callers \ {c} : call'[x] = call[x]
    BY <1>1, <1>4, <2>2, <2>3
  <2>5. DOMAIN k = DOMAIN Blank
    BY <1>4 DEF CallShape
  <2>6. /\ new.pc = "profile" /\ new.device = dev /\ DOMAIN new = DOMAIN k
        /\ new.op = k.op /\ new.todo = k.todo /\ new.path = k.path /\ new.to = k.to
        /\ new.id = k.id /\ new.rows = k.rows /\ new.prof = k.prof
        /\ new.login = k.login /\ new.key = k.key /\ new.pw = k.pw /\ new.keep = k.keep
        /\ new.wish = k.wish /\ new.settings = k.settings
    BY <2>3, <2>5 DEF Blank
  <2>7. File(c) = "inv"
    BY <1>1, <1>4, <1>8, FirstFile DEF File, TreeOps
  <2>8. IsInventory(copy)
    BY <2>7 DEF Good
  <2>9. k.device \in SavedDevice
    BY <1>4, <1>8 DEF CallShape, PathShape
  <2>10. dev \in SavedDevice
    BY <2>1, <2>8, <2>9, InventoryIs
  <2>11. StepShape(new)
    BY <1>8, <2>6 DEF StepShape
  <2>12. CallShape(new)
    BY <1>4, <1>8, <2>6, <2>10, <2>11, ShapeMoves
  <2>13. WritesWhole(call[c])'
    BY <1>8, <2>4, <2>6 DEF WritesWhole
  <2>14. OthersKept(c)
    BY <1>6, <2>2, <2>4 DEF OthersKept
  <2> QED BY <2>4, <2>6, <2>12, <2>13, <2>14 DEF At
<1>9. CASE k.op \notin {"list", "connect"}
  <2>1. WriteBeside(c, copy)
    BY <1>1, <1>9 DEF Use
  <2> QED BY <1>1, <1>9, <2>1, WriteBesideStep
<1> QED BY <1>7, <1>8, <1>9

LEMMA LoadedGood ==
  ASSUME NEW inv, Good("inv", inv)
  PROVE  Good("inv", Loaded(inv))
<1>1. IsInventory(Loaded(inv)) /\ Closed(Loaded(inv)) /\ Loaded(inv).devs = inv.devs
  BY LoadedIs DEF Good
<1>2. LoginsOf(Loaded(inv))
  BY <1>1 DEF Good, LoginsOf
<1> QED BY <1>1, <1>2 DEF Good

LEMMA ReadKeeps ==
  ASSUME StoreInv, NEW c \in Callers, Read(c)
  PROVE  StoreInv'
<1>1. PICK k : k = call[c]
  OBVIOUS
<1>2. PICK file : file = Head(k.todo)
  OBVIOUS
<1>3. /\ DOMAIN call = Callers /\ CallShape(k) /\ k.pc = "load" /\ WritesWhole(k)
      /\ UNCHANGED <<disk, mem, acked, lost, asked, dropped, crossed>>
  BY <1>1 DEF StoreInv, CallsInv, Read, At, NoHistory
<1>4. File(c) = file
  BY <1>1, <1>2 DEF File
<1>5. ~At(c, "publish") /\ At(c, "load")
  BY <1>1, <1>3 DEF At
<1>6. Grows
  BY <1>3 DEF Grows, VaultHas, AuthHas
<1>7. CASE file = "inv" /\ disk.inv = Absent
  <2>1. call' = [call EXCEPT ![c].pc = "seed"] /\ tmp' = tmp
    BY <1>4, <1>7 DEF Read, Goto
  <2>2. PICK new : new = [k EXCEPT !.pc = "seed"]
    OBVIOUS
  <2>3. DOMAIN call' = Callers /\ call'[c] = new /\ \A x \in Callers \ {c} : call'[x] = call[x]
    BY <1>1, <1>3, <2>1, <2>2
  <2>4. DOMAIN k = DOMAIN Blank
    BY <1>3 DEF CallShape
  <2>5. /\ new.pc = "seed" /\ DOMAIN new = DOMAIN k
        /\ new.op = k.op /\ new.todo = k.todo /\ new.path = k.path /\ new.to = k.to
        /\ new.id = k.id /\ new.device = k.device /\ new.rows = k.rows /\ new.prof = k.prof
        /\ new.login = k.login /\ new.key = k.key /\ new.pw = k.pw /\ new.keep = k.keep
        /\ new.wish = k.wish /\ new.settings = k.settings
    BY <2>2, <2>4 DEF Blank
  <2>6. StepShape(new)
    BY <1>2, <1>7, <2>5 DEF StepShape
  <2>7. CallShape(new)
    BY <1>3, <2>5, <2>6, ShapeMoves
  <2>8. WritesWhole(k)'
    BY <1>3, <1>6, WritesStay
  <2>9. WritesWhole(new)'
    BY <2>5, <2>8 DEF WritesWhole
  <2> QED BY <1>3, <1>5, <2>1, <2>3, <2>5, <2>7, <2>9, QuietMove
<1>8. CASE ~(file = "inv" /\ disk.inv = Absent)
  <2>1. PICK copy : copy = IF file = "inv" THEN Loaded(disk.inv) ELSE disk[file]
    OBVIOUS
  <2>2. Use(c, copy)
    BY <1>4, <1>8, <2>1 DEF Read
  <2>3. file \in Files6
    BY <1>2, <1>3, FirstFile
  <2>4. Good(file, disk[file])
    BY <1>8, <2>3 DEF StoreInv, FilesInv
  <2>5. Good(File(c), copy)
    BY <1>4, <2>1, <2>4, LoadedGood
  <2>6. /\ OthersKept(c) /\ CallShape(call'[c]) /\ ~At(c, "publish")'
        /\ ~At(c, "idle")' => WritesWhole(call[c])'
        /\ At(c, "rename")' => BesideIs(c)'
    BY <1>5, <1>6, <2>2, <2>5, UseStep
  <2> QED BY <1>3, <1>5, <2>6, QuietStep
<1> QED BY <1>7, <1>8

(* A handler goes on to its next file or ends.                             *)
LEMMA DoneStep ==
  ASSUME StoreInv, NEW c \in Callers, NEW k, k = call[c], k.pc # "idle",
         Done(c, Tail(k.todo))
  PROVE  /\ DOMAIN call' = Callers /\ \A x \in Callers \ {c} : call'[x] = call[x]
         /\ CallShape(call'[c]) /\ call'[c].pc \in {"idle", "load"}
         /\ call'[c].pc = "load" =>
              /\ call'[c].op = k.op /\ k.op \in {"import", "auth", "unauth", "commit"}
              /\ call'[c].todo = Tail(k.todo) /\ call'[c].prof = k.prof
              /\ call'[c].login = k.login
<1>1. DOMAIN call = Callers /\ CallShape(k)
  BY DEF StoreInv, CallsInv
<1>2. CASE Tail(k.todo) = <<>>
  <2>1. End(c, "ok")
    BY <1>2 DEF Done
  <2> QED BY <2>1, EndStep DEF At
<1>3. CASE Tail(k.todo) # <<>>
  <2>1. PICK rows : rows = IF k.rows = <<>> THEN k.rows ELSE Tail(k.rows)
    OBVIOUS
  <2>2. PICK todo : todo = Tail(k.todo)
    OBVIOUS
  <2>3. call' = [call EXCEPT ![c].pc = "load", ![c].todo = todo, ![c].held = Absent,
                             ![c].rows = rows]
    BY <1>1, <1>3, <2>1, <2>2 DEF Done
  <2>4. PICK new : new = [k EXCEPT !.pc = "load", !.todo = todo, !.held = Absent,
                            !.rows = rows]
    OBVIOUS
  <2>5. DOMAIN call' = Callers /\ call'[c] = new /\ \A x \in Callers \ {c} : call'[x] = call[x]
    BY <1>1, <2>3, <2>4
  <2>6. DOMAIN k = DOMAIN Blank
    BY <1>1 DEF CallShape
  <2>7. /\ new.pc = "load" /\ new.todo = todo /\ new.rows = rows /\ DOMAIN new = DOMAIN Blank
        /\ new.op = k.op /\ new.id = k.id /\ new.device = k.device /\ new.prof = k.prof
        /\ new.login = k.login /\ new.path = k.path
    BY <2>4, <2>6 DEF Blank
  <2>8. k.op \in Ops /\ PathShape(k) /\ LoginShape(k) /\ OtherShape(k)
    BY <1>1 DEF CallShape
  <2>9. k.op \notin TreeOps
    <3>1. ASSUME k.todo = <<"inv">> PROVE Tail(k.todo) = <<>>
      BY <3>1
    <3> QED BY <1>3, <2>8, <3>1, Zenon DEF PathShape
  <2>10. k.op \notin {"put", "del", "settings"}
    <3>1. ASSUME NEW file, k.todo = <<file>> PROVE Tail(k.todo) = <<>>
      BY <3>1
    <3> QED BY <1>3, <2>8, <3>1, Zenon DEF OtherShape
  <2>11. k.op \in {"import", "auth", "unauth", "commit"}
    BY <2>8, <2>9, <2>10 DEF Ops
  <2>12. CASE k.op = "import"
    <3>1. /\ k.path \in ImportableFiles /\ k.todo \in Seq({"inv"}) /\ k.todo # <<>>
          /\ k.rows \in Seq(Devices \X [folder : Folder, prof : {NoProfile}])
          /\ Len(k.rows) = Len(k.todo)
      BY <2>8, <2>12 DEF PathShape
    <3>2. k.rows # <<>> /\ rows = Tail(k.rows)
      BY <2>1, <3>1, EmptySeq
    <3>3. todo \in Seq({"inv"}) /\ Len(todo) = Len(k.todo) - 1
      BY <2>2, <3>1, HeadTailProperties
    <3>4. /\ rows \in Seq(Devices \X [folder : Folder, prof : {NoProfile}])
          /\ Len(rows) = Len(k.rows) - 1
      BY <3>1, <3>2, HeadTailProperties
    <3>5. PathShape(new)
      BY <1>3, <2>2, <2>7, <2>12, <3>1, <3>3, <3>4 DEF PathShape, TreeOps
    <3>6. CallShape(new)
      BY <2>7, <2>12, <3>5 DEF CallShape, LoginShape, OtherShape, StepShape, Ops
    <3> QED BY <2>2, <2>5, <2>7, <2>11, <3>6
  <2>13. CASE k.op \in {"auth", "unauth"}
    <3>1. todo = <<"auth">>
      BY <1>1, <1>3, <2>2, <2>13, FirstFile
    <3>2. LoginShape(new)
      BY <2>7, <2>8, <2>13, <3>1 DEF LoginShape
    <3>3. CallShape(new)
      BY <2>7, <2>13, <3>2 DEF CallShape, PathShape, OtherShape, StepShape, Ops, TreeOps
    <3> QED BY <2>2, <2>5, <2>7, <2>11, <3>3
  <2>14. CASE k.op = "commit"
    <3>1. todo \in {<<"auth", "inv">>, <<"inv">>}
      BY <1>1, <1>3, <2>2, <2>14, FirstFile
    <3>2. LoginShape(new)
      BY <2>7, <2>8, <2>14, <3>1 DEF LoginShape
    <3>3. PathShape(new)
      BY <2>7, <2>8, <2>14 DEF PathShape, TreeOps
    <3>4. CallShape(new)
      BY <2>7, <2>14, <3>2, <3>3 DEF CallShape, OtherShape, StepShape, Ops
    <3> QED BY <2>2, <2>5, <2>7, <2>11, <3>4
  <2> QED BY <2>11, <2>12, <2>13, <2>14
<1> QED BY <1>2, <1>3

LEMMA FailKeeps ==
  ASSUME StoreInv, NEW c \in Callers, Fail(c)
  PROVE  StoreInv'
<1>1. PICK k : k = call[c]
  OBVIOUS
<1>2. /\ k.pc \in {"load", "seed", "rename"} /\ WritesWhole(k)
      /\ UNCHANGED <<tmp, disk, mem, acked, lost, crossed>>
      /\ asked' = asked /\ dropped' = dropped
  BY <1>1 DEF Fail, NoHistory, StoreInv, CallsInv, At
<1>3. ~At(c, "publish")
  BY <1>1, <1>2 DEF At
<1>4. CASE End(c, "error")
  BY <1>2, <1>3, <1>4, QuietEnd
<1>5. CASE k.op = "unauth" /\ Done(c, Tail(k.todo))
  <2>1. PICK new : new = call'[c]
    OBVIOUS
  <2>2. /\ DOMAIN call' = Callers /\ \A x \in Callers \ {c} : call'[x] = call[x]
        /\ CallShape(new) /\ new.pc \in {"idle", "load"}
        /\ new.pc = "load" => new.op = k.op /\ new.prof = k.prof
    BY <1>1, <1>2, <1>5, <2>1, DoneStep
  <2>3. new.pc # "idle" => WritesWhole(new)'
    BY <1>2, <1>5, <2>2 DEF WritesWhole
  <2> QED BY <1>2, <1>3, <2>1, <2>2, <2>3, QuietMove
<1> QED BY <1>1, <1>4, <1>5 DEF Fail

(***************************************************************************)
(* Steps that write a file or the memory.                                  *)
(***************************************************************************)
LEMMA SettingsLeft ==
  ASSUME SettingsInv, NEW c \in Callers, disk'.settings = disk.settings, mem' = mem,
         crossed' <=> crossed, \A x \in Callers \ {c} : call'[x] = call[x],
         ~At(c, "publish"), ~At(c, "publish")'
  PROVE  SettingsInv'
<1>1. \A x \in Callers : At(x, "publish")' <=> At(x, "publish")
  BY DEF At
<1>2. \A x \in Callers : At(x, "publish") => call'[x] = call[x]
  OBVIOUS
<1>3. SettingsAgree'
  BY <1>1 DEF SettingsInv, SettingsAgree
<1> QED BY <1>1, <1>2, <1>3 DEF SettingsInv

LEMMA EmptyIsGood == Good("inv", EmptyInventory)
BY EmptyIsInventory DEF Good, LoginsOf, EmptyInventory

LEMMA SeedKeeps ==
  ASSUME StoreInv, NEW c \in Callers, Seed(c)
  PROVE  StoreInv'
<1>1. At(c, "seed") /\ ~At(c, "publish")
  BY DEF Seed, At
<1>2. File(c) = "inv"
  BY <1>1 DEF At, File, StoreInv, CallsInv, CallShape, StepShape
<1>3. DOMAIN disk = Files6
  BY DEF StoreInv, FilesInv
<1>4. /\ DOMAIN disk' = Files6 /\ disk'.inv = EmptyInventory
      /\ \A file \in Files6 \ {"inv"} : disk'[file] = disk[file]
  BY <1>3 DEF Seed, Files6
<1>5. /\ lost' = lost \cup Dropped("inv", EmptyInventory, {})
      /\ asked' = asked /\ dropped' = dropped /\ acked' = acked
      /\ mem' = mem /\ crossed' = crossed
  BY DEF Seed
<1>6. Grows
  <2>1. disk'.vault = disk.vault /\ disk'.auth = disk.auth
    BY <1>4 DEF Files6
  <2> QED BY <1>5, <2>1 DEF Grows, VaultHas, AuthHas
<1>7. /\ OthersKept(c) /\ CallShape(call'[c]) /\ ~At(c, "publish")'
      /\ ~At(c, "idle")' => WritesWhole(call[c])'
      /\ At(c, "rename")' => BesideIs(c)'
  <2>1. Use(c, EmptyInventory)
    BY DEF Seed
  <2>2. Good(File(c), EmptyInventory)
    BY <1>2, EmptyIsGood
  <2> QED BY <1>1, <1>6, <2>1, <2>2, UseStep
<1>8. CallsInv'
  BY <1>6, <1>7, CallsKept DEF StoreInv
<1>9. FilesInv'
  <2>1. ASSUME NEW file \in Files6 \ {"inv"} PROVE Good(file, disk[file])'
    <3>1. PICK content : content = disk[file]
      OBVIOUS
    <3>2. Good(file, content)
      BY <2>1, <3>1 DEF StoreInv, FilesInv
    <3>3. Good(file, content)'
      BY <1>6, <3>2, GoodStays
    <3> QED BY <1>4, <3>1, <3>3 DEF Good, FlagsOf, LoginsOf
  <2>2. Good("inv", disk.inv)'
    <3>1. PICK content : content = EmptyInventory
      OBVIOUS
    <3>2. Good("inv", content)'
      BY <1>6, <3>1, EmptyIsGood, GoodStays
    <3> QED BY <1>4, <3>1, <3>2 DEF Good, LoginsOf
  <2> QED BY <1>4, <2>1, <2>2 DEF FilesInv
<1>10. SettingsInv'
  <2>1. disk'.settings = disk.settings
    BY <1>4 DEF Files6
  <2>2. \A x \in Callers \ {c} : call'[x] = call[x]
    BY <1>7 DEF OthersKept
  <2> QED BY <1>1, <1>5, <1>7, <2>1, <2>2, SettingsLeft DEF StoreInv
<1>11. AckedInv'
  <2> SUFFICES ASSUME NEW e \in acked
               PROVE  (e[2] \in Entries(e[1], disk[e[1]]) \/ e \in lost)'
    BY <1>5 DEF StoreInv, AckedInv, OnlyOldCopiesDrop
  <2>1. /\ e = <<e[1], e[2]>> /\ e[1] \in Files6
        /\ e[2] \in Entries(e[1], disk[e[1]]) \/ e \in lost
    BY DEF StoreInv, AckedInv, OnlyOldCopiesDrop
  <2>2. CASE e[1] = "inv" /\ e \notin lost
    <3>1. Entries("inv", EmptyInventory) = {}
      <4>1. InventoryOf(EmptyInventory) = EmptyInventory
        BY DEF InventoryOf
      <4> QED BY <4>1, EntriesOf DEF EmptyInventory
    <3>2. e[2] \in Entries("inv", disk["inv"])
      BY <2>1, <2>2
    <3>3. <<"inv", e[2]>> \in Dropped("inv", EmptyInventory, {})
      BY <3>1, <3>2 DEF Dropped
    <3> QED BY <1>5, <2>1, <2>2, <3>3
  <2>3. CASE e[1] # "inv" /\ e \notin lost
    <3>1. disk'[e[1]] = disk[e[1]]
      BY <1>4, <2>1, <2>3
    <3> QED BY <2>1, <2>3, <3>1 DEF Entries
  <2> QED BY <1>5, <2>2, <2>3
<1> QED BY <1>8, <1>9, <1>10, <1>11 DEF StoreInv

(* Of a file that is renamed over the old one, what was there stays or is  *)
(* accounted for.                                                          *)
LEMMA RenameCounts ==
  ASSUME NEW c, NEW k, k = call[c], NEW file \in Files6, file = File(c), NEW new,
         DOMAIN disk = Files6, disk' = [disk EXCEPT ![file] = new],
         lost' = (lost \ ({file} \X Subject(k, file)))
                   \cup Dropped(file, k.held, Subject(k, file)),
         Fits(k, file, k.held, new),
         NEW f \in Files6, NEW e, e \in Entries(f, disk[f]) \/ <<f, e>> \in lost
  PROVE  \/ e \in Entries(f, disk'[f]) \/ <<f, e>> \in lost'
         \/ f = file /\ e \in Subject(k, file) /\ TakesAway(k)
<1>1. CASE f # file
  <2>1. disk'[f] = disk[f]
    BY <1>1
  <2>2. <<f, e>> \in lost => <<f, e>> \in lost'
    BY <1>1
  <2> QED BY <2>1, <2>2 DEF Entries
<1>2. CASE f = file
  <2>1. disk'[f] = new
    BY <1>2
  <2>2. CASE e \in Subject(k, file)
    BY <1>2, <2>1, <2>2 DEF Fits
  <2>3. CASE e \notin Subject(k, file) /\ <<f, e>> \in lost
    BY <2>3
  <2>4. CASE e \notin Subject(k, file) /\ e \in Entries(f, disk[f])
    <3>1. CASE e \in Entries(file, k.held)
      BY <1>2, <2>1, <2>4, <3>1 DEF Fits
    <3>2. CASE e \notin Entries(file, k.held)
      <4>1. <<file, e>> \in Dropped(file, k.held, Subject(k, file))
        BY <1>2, <2>4, <3>2 DEF Dropped
      <4> QED BY <1>2, <4>1
    <3> QED BY <3>1, <3>2
  <2> QED BY <2>2, <2>3, <2>4
<1> QED BY <1>1, <1>2

LEMMA RenameFileKeeps ==
  ASSUME StoreInv, NEW c \in Callers, RenameFile(c)
  PROVE  StoreInv'
<1>1. PICK k : k = call[c]
  OBVIOUS
<1>2. PICK file : file = Head(k.todo)
  OBVIOUS
<1>3. PICK new : new = Change(k, file, k.held)
  OBVIOUS
<1>4. /\ DOMAIN call = Callers /\ CallShape(k) /\ k.pc = "rename" /\ WritesWhole(k)
      /\ k.op \notin {"list", "connect"} /\ BesideIs(c) /\ At(c, "rename") /\ ~At(c, "publish")
  BY <1>1 DEF RenameFile, At, StoreInv, CallsInv, CallShape, StepShape
<1>5. File(c) = file /\ file \in Files6
  BY <1>1, <1>2, <1>4, FirstFile DEF File
<1>6. Good(file, k.held) /\ tmp[TmpName(c)] = new /\ new # Conflict
  BY <1>1, <1>3, <1>4, <1>5 DEF BesideIs
<1>7. Fits(k, file, k.held, new)
  BY <1>2, <1>3, <1>4, <1>6, ChangeFits
<1>8. /\ disk' = [disk EXCEPT ![file] = new] /\ DOMAIN disk = Files6
      /\ tmp' = Restrict(tmp, DOMAIN tmp \ {TmpName(c)})
      /\ acked' = IF TakesAway(k) THEN acked \ ({file} \X Subject(k, file))
                  ELSE acked \cup ({file} \X Subject(k, file))
      /\ lost' = (lost \ ({file} \X Subject(k, file)))
                   \cup Dropped(file, k.held, Subject(k, file))
      /\ crossed' = (crossed \/ (file = "settings" /\ \E x \in Callers : At(x, "publish")))
      /\ mem' = mem /\ asked' = asked /\ dropped' = dropped
  BY <1>1, <1>5, <1>6 DEF RenameFile, StoreInv, FilesInv
<1>9. /\ DOMAIN disk' = Files6 /\ disk'[file] = new
      /\ \A f \in Files6 \ {file} : disk'[f] = disk[f]
  BY <1>5, <1>8
<1>10. ASSUME NEW f \in Files6, NEW e, e \in Entries(f, disk[f]) \/ <<f, e>> \in lost
       PROVE  \/ e \in Entries(f, disk'[f]) \/ <<f, e>> \in lost'
              \/ f = file /\ e \in Subject(k, file) /\ TakesAway(k)
  BY <1>1, <1>5, <1>7, <1>8, <1>10, RenameCounts
<1>11. ASSUME file \in {"vault", "auth"}, TakesAway(k)
       PROVE  Subject(k, file) = {k.prof} /\ k.prof \in dropped
  <2>1. k.op = "unauth"
    BY <1>2, <1>4, <1>11, FirstFile DEF TakesAway, TreeOps
  <2> QED BY <1>4, <1>11, <2>1, SubjectOf DEF WritesWhole
<1>12. Grows
  <2>1. ASSUME NEW p, VaultHas(p) PROVE VaultHas(p)'
    <3>1. CASE p \in dropped
      BY <1>8, <3>1 DEF VaultHas
    <3>2. CASE p \notin dropped
      <4>1. p \in Entries("vault", disk["vault"]) \/ <<"vault", p>> \in lost
        BY <2>1, <3>2, EntriesOf DEF VaultHas
      <4>2. p \in Entries("vault", disk'["vault"]) \/ <<"vault", p>> \in lost'
        BY <1>10, <1>11, <3>2, <4>1 DEF Files6
      <4>3. Entries("vault", disk'["vault"]) = disk'.vault
        BY EntriesOf
      <4> QED BY <4>2, <4>3 DEF VaultHas
    <3> QED BY <3>1, <3>2
  <2>2. ASSUME NEW p, AuthHas(p) PROVE AuthHas(p)'
    <3>1. CASE p \in dropped
      BY <1>8, <3>1 DEF AuthHas
    <3>2. CASE p \notin dropped
      <4>1. p \in Entries("auth", disk["auth"]) \/ <<"auth", p>> \in lost
        BY <2>2, <3>2, EntriesOf DEF AuthHas
      <4>2. p \in Entries("auth", disk'["auth"]) \/ <<"auth", p>> \in lost'
        BY <1>10, <1>11, <3>2, <4>1 DEF Files6
      <4>3. Entries("auth", disk'["auth"]) = DOMAIN disk'.auth
        BY EntriesOf
      <4> QED BY <4>2, <4>3 DEF AuthHas
    <3> QED BY <3>1, <3>2
  <2> QED BY <1>8, <2>1, <2>2 DEF Grows
<1>13. FilesInv'
  <2>1. ASSUME NEW f \in Files6 \ {file}
        PROVE  ((f = "inv" /\ disk.inv = Absent) \/ Good(f, disk[f]))'
    <3>1. PICK content : content = disk[f]
      OBVIOUS
    <3>2. Good(f, content) => Good(f, content)'
      BY <1>12, GoodStays
    <3>3. (f = "inv" /\ disk.inv = Absent) \/ Good(f, content)
      BY <3>1 DEF StoreInv, FilesInv
    <3>4. disk'[f] = content
      BY <1>9, <3>1
    <3> QED BY <3>1, <3>2, <3>3, <3>4 DEF Good, FlagsOf, LoginsOf
  <2>2. Good(file, disk[file])'
    <3>1. Good(file, new)
      BY <1>7 DEF Fits
    <3>2. Good(file, new)'
      BY <1>12, <3>1, GoodStays
    <3> QED BY <1>9, <3>2 DEF Good, FlagsOf, LoginsOf
  <2> QED BY <1>9, <2>1, <2>2 DEF FilesInv
<1>14. ASSUME ~TakesAway(k), NEW e \in Subject(k, file) PROVE e \in Entries(file, disk'[file])
  BY <1>7, <1>9, <1>14 DEF Fits
<1>15. AckedInv'
  <2> SUFFICES ASSUME NEW e \in acked'
               PROVE  /\ e = <<e[1], e[2]>> /\ e[1] \in Files6
                      /\ e[2] \in Entries(e[1], disk'[e[1]]) \/ e \in lost'
    BY DEF AckedInv, OnlyOldCopiesDrop, Entries
  <2>1. CASE ~TakesAway(k) /\ e \in {file} \X Subject(k, file)
    <3>1. e = <<e[1], e[2]>> /\ e[1] = file /\ e[2] \in Subject(k, file)
      BY <2>1
    <3> QED BY <1>5, <1>14, <2>1, <3>1
  <2>2. CASE e \in acked /\ ~(e \in {file} \X Subject(k, file))
    <3>1. /\ e = <<e[1], e[2]>> /\ e[1] \in Files6
          /\ e[2] \in Entries(e[1], disk[e[1]]) \/ <<e[1], e[2]>> \in lost
      BY <2>2 DEF StoreInv, AckedInv, OnlyOldCopiesDrop
    <3>2. ~(e[1] = file /\ e[2] \in Subject(k, file))
      BY <2>2, <3>1
    <3> QED BY <1>10, <3>1, <3>2
  <2> QED BY <1>8, <2>1, <2>2
<1>16. ASSUME NEW x \in Callers \ {c}, At(x, "rename")
       PROVE  TmpName(x) \in DOMAIN tmp' /\ tmp'[TmpName(x)] = tmp[TmpName(x)]
  <2>1. TmpName(x) \in DOMAIN tmp /\ TmpName(x) # TmpName(c)
    BY <1>16 DEF StoreInv, CallsInv, BesideIs, TmpName
  <2> QED BY <1>8, <2>1 DEF Restrict
<1>17. CASE file = "settings"
  <2>1. PICK next : next = [k EXCEPT !.pc = "publish"]
    OBVIOUS
  <2>2. call' = [call EXCEPT ![c].pc = "publish"]
    BY <1>5, <1>17 DEF RenameFile, Goto
  <2>3. DOMAIN call' = Callers /\ call'[c] = next /\ \A x \in Callers \ {c} : call'[x] = call[x]
    BY <1>1, <1>4, <2>1, <2>2
  <2>4. DOMAIN k = DOMAIN Blank
    BY <1>4 DEF CallShape
  <2>5. /\ next.pc = "publish" /\ DOMAIN next = DOMAIN k
        /\ next.op = k.op /\ next.todo = k.todo /\ next.path = k.path /\ next.to = k.to
        /\ next.id = k.id /\ next.device = k.device /\ next.rows = k.rows /\ next.prof = k.prof
        /\ next.login = k.login /\ next.key = k.key /\ next.pw = k.pw /\ next.keep = k.keep
        /\ next.wish = k.wish /\ next.settings = k.settings
    BY <2>1, <2>4 DEF Blank
  <2>6. k.op = "settings"
    BY <1>2, <1>4, <1>17, FirstFile DEF Ops
  <2>7. StepShape(next)
    BY <2>5, <2>6 DEF StepShape
  <2>8. CallShape(next)
    BY <1>4, <2>5, <2>7, ShapeMoves
  <2>9. WritesWhole(call[c])'
    BY <2>3, <2>5, <2>6 DEF WritesWhole
  <2>10. ~At(c, "rename")' /\ At(c, "publish")'
    BY <2>3, <2>5 DEF At
  <2>11. OthersKept(c)
    BY <1>16, <2>3 DEF OthersKept
  <2>12. CallsInv'
    BY <1>12, <2>3, <2>8, <2>9, <2>10, <2>11, CallsKept DEF StoreInv
  <2>13. disk'.settings = k.settings
    BY <1>3, <1>9, <1>17 DEF Change
  <2>14. SettingsInv'
    <3>1. mem' \in Settings /\ Remembered(mem') = mem'
      BY <1>8 DEF StoreInv, SettingsInv
    <3>2. ASSUME ~crossed', NEW x \in Callers, At(x, "publish")'
          PROVE  x = c
      <4>1. ~At(x, "publish")
        BY <1>8, <1>17, <3>2
      <4> QED BY <2>3, <3>2, <4>1 DEF At
    <3>3. call'[c].settings = disk'.settings
      BY <2>3, <2>5, <2>13
    <3>4. SettingsAgree'
      BY <2>10 DEF SettingsAgree
    <3> QED BY <3>1, <3>2, <3>3, <3>4 DEF SettingsInv
  <2> QED BY <1>13, <1>15, <2>12, <2>14 DEF StoreInv
<1>18. CASE file # "settings"
  <2>1. PICK next : next = call'[c]
    OBVIOUS
  <2>2. Done(c, Tail(k.todo))
    BY <1>1, <1>5, <1>18 DEF RenameFile
  <2>3. /\ DOMAIN call' = Callers /\ \A x \in Callers \ {c} : call'[x] = call[x]
        /\ CallShape(next) /\ next.pc \in {"idle", "load"}
        /\ next.pc = "load" =>
             /\ next.op = k.op /\ k.op \in {"import", "auth", "unauth", "commit"}
             /\ next.todo = Tail(k.todo) /\ next.prof = k.prof
             /\ next.login = k.login
    BY <1>1, <1>4, <2>1, <2>2, DoneStep
  <2>4. ASSUME next.pc = "load" PROVE WritesWhole(next)'
    <3>1. CASE k.op = "import"
      BY <2>3, <2>4, <3>1 DEF WritesWhole
    <3>2. CASE k.op = "unauth"
      BY <1>4, <1>8, <2>3, <2>4, <3>2 DEF WritesWhole
    <3>3. CASE k.op \in {"auth", "commit"} /\ file = "vault"
      <4>1. k.prof \in disk'.vault
        <5>1. ~TakesAway(k) /\ Subject(k, "vault") = {k.prof}
          BY <3>3, SubjectOf DEF TakesAway
        <5>2. k.prof \in Entries("vault", disk'["vault"])
          BY <1>14, <3>3, <5>1
        <5> QED BY <5>2, EntriesOf
      <4>2. VaultHas(k.prof)'
        BY <4>1 DEF VaultHas
      <4>3. next.todo \in {<<"auth">>, <<"auth", "inv">>}
        BY <1>2, <1>4, <2>3, <2>4, <3>3, FirstFile
      <4>4. Head(next.todo) = "auth"
        BY <4>3
      <4>5. next.todo # <<"inv">>
        BY <4>3
      <4> QED BY <2>3, <2>4, <3>3, <4>2, <4>4, <4>5 DEF WritesWhole
    <3>4. CASE k.op = "auth" /\ file # "vault"
      <4>1. Tail(k.todo) = <<>>
        BY <1>2, <1>4, <3>4, FirstFile
      <4>2. End(c, "ok")
        BY <2>2, <4>1 DEF Done
      <4>3. At(c, "idle")'
        BY <4>2, EndStep
      <4> QED BY <2>1, <2>4, <4>3 DEF At
    <3>5. CASE k.op = "commit" /\ file = "auth"
      <4>1. k.prof \in DOMAIN disk'.auth
        <5>1. ~TakesAway(k) /\ Subject(k, "auth") = {k.prof}
          BY <3>5, SubjectOf DEF TakesAway
        <5>2. k.prof \in Entries("auth", disk'["auth"])
          BY <1>14, <3>5, <5>1
        <5> QED BY <5>2, EntriesOf
      <4>2. AuthHas(k.prof)'
        BY <4>1 DEF AuthHas
      <4>3. next.todo = <<"inv">>
        BY <1>2, <1>4, <2>3, <2>4, <3>5, FirstFile
      <4>4. Head(next.todo) = "inv"
        BY <4>3
      <4> QED BY <2>3, <2>4, <3>5, <4>2, <4>3, <4>4 DEF WritesWhole
    <3>6. CASE k.op = "commit" /\ file \notin {"vault", "auth"}
      <4>1. Tail(k.todo) = <<>>
        BY <1>2, <1>4, <3>6, FirstFile
      <4>2. End(c, "ok")
        BY <2>2, <4>1 DEF Done
      <4>3. At(c, "idle")'
        BY <4>2, EndStep
      <4> QED BY <2>1, <2>4, <4>3 DEF At
    <3> QED BY <2>3, <2>4, <3>1, <3>2, <3>3, <3>4, <3>5, <3>6
  <2>5. ~At(c, "rename")' /\ ~At(c, "publish")' /\ (At(c, "idle")' <=> next.pc = "idle")
    BY <2>1, <2>3 DEF At
  <2>6. ~At(c, "idle")' => WritesWhole(call[c])'
    BY <2>1, <2>3, <2>4, <2>5 DEF WritesWhole
  <2>7. OthersKept(c)
    BY <1>16, <2>3 DEF OthersKept
  <2>8. CallsInv'
    BY <1>12, <2>1, <2>3, <2>5, <2>6, <2>7, CallsKept DEF StoreInv
  <2>9. SettingsInv'
    <3>1. disk'.settings = disk.settings
      BY <1>9, <1>18 DEF Files6
    <3>2. crossed' <=> crossed
      BY <1>8, <1>18, Zenon
    <3> QED BY <1>4, <1>8, <2>3, <2>5, <3>1, <3>2, SettingsLeft DEF StoreInv
  <2> QED BY <1>13, <1>15, <2>8, <2>9 DEF StoreInv
<1> QED BY <1>17, <1>18

LEMMA PublishKeeps ==
  ASSUME StoreInv, NEW c \in Callers, Publish(c)
  PROVE  StoreInv'
<1>1. PICK k : k = call[c]
  OBVIOUS
<1>2. /\ At(c, "publish") /\ k.pc = "publish" /\ CallShape(k) /\ End(c, "ok")
      /\ mem' = k.settings
      /\ UNCHANGED <<disk, tmp, acked, lost, asked, dropped, crossed>>
  BY <1>1 DEF Publish, At, NoHistory, StoreInv, CallsInv
<1>3. k.settings \in Settings /\ Remembered(k.settings) = k.settings
  BY <1>2 DEF CallShape, StepShape, OtherShape
<1>4. Grows
  BY <1>2 DEF Grows, VaultHas, AuthHas
<1>5. /\ DOMAIN call' = Callers /\ \A x \in Callers \ {c} : call'[x] = call[x]
      /\ CallShape(call'[c]) /\ At(c, "idle")'
      /\ ~At(c, "publish")' /\ ~At(c, "rename")'
  BY <1>2, EndStep
<1>6. OthersKept(c)
  BY <1>2, <1>5 DEF OthersKept, StoreInv, CallsInv, BesideIs
<1>7. CallsInv'
  BY <1>4, <1>5, <1>6, CallsKept DEF StoreInv
<1>8. FilesInv'
  BY <1>2, <1>4, FilesKept DEF StoreInv
<1>9. ASSUME ~crossed, NEW x \in Callers PROVE ~At(x, "publish")'
  <2>1. CASE x = c
    BY <1>5, <2>1
  <2>2. CASE x # c
    <3>1. ~At(x, "publish")
      BY <1>2, <1>9, <2>2 DEF StoreInv, SettingsInv
    <3> QED BY <1>5, <2>2, <3>1 DEF At
  <2> QED BY <2>1, <2>2
<1>10. ~crossed => mem' = Remembered(disk'.settings)
  BY <1>1, <1>2, <1>3 DEF StoreInv, SettingsInv
<1>11. SettingsInv'
  <2>1. SettingsAgree'
    BY <1>2, <1>10 DEF SettingsAgree
  <2>2. mem' \in Settings /\ Remembered(mem') = mem'
    BY <1>2, <1>3
  <2> QED BY <1>2, <1>9, <2>1, <2>2 DEF SettingsInv
<1>12. AckedInv'
  BY <1>2 DEF StoreInv, AckedInv, OnlyOldCopiesDrop, Entries
<1> QED BY <1>7, <1>8, <1>11, <1>12 DEF StoreInv

LEMMA DiskSettings ==
  ASSUME FilesInv
  PROVE  disk.settings \in Settings
BY DEF FilesInv, Files6, Good

LEMMA RestartKeeps ==
  ASSUME StoreInv, Restart
  PROVE  StoreInv'
<1>1. /\ call' = [c \in Callers |-> Idle] /\ mem' = Remembered(disk.settings)
      /\ UNCHANGED <<disk, tmp, acked, lost, asked, dropped, crossed>>
  BY DEF Restart, NoHistory
<1>2. Grows
  BY <1>1 DEF Grows, VaultHas, AuthHas
<1>3. \A c \in Callers : At(c, "idle")' /\ ~At(c, "rename")' /\ ~At(c, "publish")'
  BY <1>1, IdleShape DEF At
<1>4. CallsInv'
  BY <1>1, <1>3, IdleShape DEF CallsInv
<1>5. FilesInv'
  BY <1>1, <1>2, FilesKept DEF StoreInv
<1>6. SettingsInv'
  <2>1. mem' \in Settings /\ Remembered(mem') = mem'
    BY <1>1, DiskSettings, RememberedIs DEF StoreInv
  <2>2. SettingsAgree'
    BY <1>1 DEF SettingsAgree
  <2> QED BY <1>3, <2>1, <2>2 DEF SettingsInv
<1>7. AckedInv'
  BY <1>1 DEF StoreInv, AckedInv, OnlyOldCopiesDrop, Entries
<1> QED BY <1>4, <1>5, <1>6, <1>7 DEF StoreInv

LEMMA InitHolds == StoreInit => StoreInv
<1> SUFFICES ASSUME StoreInit PROVE StoreInv
  OBVIOUS
<1>1. /\ FilesWhole(disk) /\ mem = Remembered(disk.settings)
      /\ call = [c \in Callers |-> Idle] /\ acked = {} /\ asked = disk.vault
  BY FilesAssumption DEF StoreInit
<1>2. CallsInv
  BY <1>1, IdleShape DEF CallsInv, At
<1>3. FlagsOf(disk.auth)
  BY <1>1 DEF FilesWhole, FlagsOf, VaultHas
<1>4. disk.inv # Absent => LoginsOf(disk.inv)
  BY <1>1 DEF FilesWhole, LoginsOf, AuthHas
<1>5. FilesInv
  BY <1>1, <1>3, <1>4 DEF FilesWhole, FilesInv, Files6, Good
<1>6. SettingsInv
  <2>1. mem \in Settings /\ Remembered(mem) = mem
    BY <1>1, <1>5, DiskSettings, RememberedIs
  <2>2. \A c \in Callers : ~At(c, "publish")
    BY <1>1, IdleShape DEF At
  <2>3. SettingsAgree
    BY <1>1 DEF SettingsAgree
  <2> QED BY <2>1, <2>2, <2>3 DEF SettingsInv
<1>7. AckedInv
  BY <1>1 DEF AckedInv, OnlyOldCopiesDrop
<1> QED BY <1>2, <1>5, <1>6, <1>7 DEF StoreInv

LEMMA StutterKeeps ==
  ASSUME StoreInv, UNCHANGED vars
  PROVE  StoreInv'
<1>1. UNCHANGED <<disk, tmp, mem, call, acked, lost, asked, dropped, crossed>>
  BY SMTT(40) DEF vars
<1>2. CallsInv'
  BY <1>1 DEF StoreInv, CallsInv, At, BesideIs, File, TmpName, WritesWhole, VaultHas, AuthHas,
              Good, FlagsOf, LoginsOf
<1>3. Grows
  BY <1>1 DEF Grows, VaultHas, AuthHas
<1>4. FilesInv'
  BY <1>1, <1>3, FilesKept DEF StoreInv
<1>5. SettingsInv'
  BY <1>1 DEF StoreInv, SettingsInv, SettingsAgree, At
<1>6. AckedInv'
  BY <1>1 DEF StoreInv, AckedInv, OnlyOldCopiesDrop, Entries
<1> QED BY <1>2, <1>4, <1>5, <1>6 DEF StoreInv

LEMMA NextKeeps ==
  ASSUME StoreInv, StoreNext
  PROVE  StoreInv'
<1>1. CASE Restart
  BY <1>1, RestartKeeps
<1>2. ASSUME NEW c \in Callers,
             \/ ListInventory(c) \/ EditInventory(c) \/ UpsertAuth(c) \/ DeleteAuth(c)
             \/ EditKeys(c) \/ EditCollections(c) \/ Import(c) \/ Connect(c) \/ SetSettings(c)
             \/ PrepareLogin(c) \/ OpenSsh(c)
             \/ Read(c) \/ Seed(c) \/ RenameFile(c) \/ Publish(c)
             \/ Fail(c)
      PROVE  StoreInv'
  <2>1. CASE ListInventory(c) BY <2>1, ListInventoryKeeps
  <2>2. CASE EditInventory(c) BY <2>2, EditInventoryKeeps
  <2>3. CASE UpsertAuth(c) BY <2>3, UpsertAuthKeeps
  <2>4. CASE DeleteAuth(c) BY <2>4, DeleteAuthKeeps
  <2>5. CASE EditKeys(c)
    <3>1. PICK op \in {"put", "del"}, n \in Names \cap Known :
            Start(c, [Blank EXCEPT !.op = op, !.todo = <<"keys">>, !.id = n], {}, {})
      BY <2>5 DEF EditKeys
    <3> QED BY <3>1, EditNamesKeeps
  <2>6. CASE EditCollections(c)
    <3>1. PICK op \in {"put", "del"}, n \in Names :
            Start(c, [Blank EXCEPT !.op = op, !.todo = <<"cols">>, !.id = n], {}, {})
      BY <2>6 DEF EditCollections
    <3> QED BY <3>1, EditNamesKeeps
  <2>7. CASE Import(c) BY <2>7, ImportKeeps
  <2>8. CASE Connect(c) BY <2>8, ConnectKeeps
  <2>9. CASE SetSettings(c) BY <2>9, SetSettingsKeeps
  <2>10. CASE PrepareLogin(c) BY <2>10, PrepareLoginKeeps
  <2>11. CASE OpenSsh(c) BY <2>11, OpenSshKeeps
  <2>12. CASE Read(c) BY <2>12, ReadKeeps
  <2>13. CASE Seed(c) BY <2>13, SeedKeeps
  <2>14. CASE RenameFile(c) BY <2>14, RenameFileKeeps
  <2>15. CASE Publish(c) BY <2>15, PublishKeeps
  <2>16. CASE Fail(c) BY <2>16, FailKeeps
  <2> QED BY <1>2, <2>1, <2>2, <2>3, <2>4, <2>5, <2>6, <2>7, <2>8, <2>9, <2>10, <2>11, <2>12,
             <2>13, <2>14, <2>15, <2>16
<1> QED BY <1>1, <1>2 DEF StoreNext

(* The invariant behind the three theorems that follow.  (FileStores)      *)
THEOREM StoreInvariant == StoreSpec => []StoreInv
<1>1. StoreInv /\ [StoreNext]_vars => StoreInv'
  BY NextKeeps, StutterKeeps
<1> QED BY <1>1, InitHolds, PTL DEF StoreSpec

LEMMA GoodFiles ==
  ASSUME StoreInv
  PROVE  /\ disk.inv # Absent => IsInventory(disk.inv) /\ Closed(disk.inv) /\ LoginsOf(disk.inv)
         /\ IsAuth(disk.auth) /\ FlagsOf(disk.auth)
         /\ disk.vault \subseteq Profiles /\ disk.vault \subseteq asked
         /\ disk.keys \subseteq Known /\ disk.cols \subseteq Names
<1>1. \A file \in Files6 : (file = "inv" /\ disk.inv = Absent) \/ Good(file, disk[file])
  BY DEF StoreInv, FilesInv
<1>2. disk.inv # Absent => Good("inv", disk.inv)
  BY <1>1 DEF Files6
<1>3. /\ Good("auth", disk.auth) /\ Good("vault", disk.vault)
      /\ Good("keys", disk.keys) /\ Good("cols", disk.cols)
  BY <1>1 DEF Files6
<1> QED BY <1>2, <1>3 DEF Good

LEMMA ApartHolds == StoreInv => RenameKeepsApart
<1> SUFFICES ASSUME StoreInv, NEW c \in Callers, At(c, "rename"), call[c].op = "rename"
             PROVE  LET old == call[c].held
                        new == Change(call[c], "inv", old)
                    IN \A d, e \in DOMAIN old.devs :
                         FolderOf(old, d) # FolderOf(old, e) => FolderOf(new, d) # FolderOf(new, e)
  BY DEF RenameKeepsApart
<1>1. PICK k : k = call[c]
  OBVIOUS
<1>2. CallShape(k) /\ k.pc = "rename" /\ k.op = "rename" /\ BesideIs(c)
  BY <1>1 DEF StoreInv, CallsInv, At
<1>3. Head(k.todo) = "inv" /\ File(c) = "inv"
  BY <1>1, <1>2, FirstFile DEF File, TreeOps
<1>4. PICK old : old = k.held
  OBVIOUS
<1>5. PICK new : new = Change(k, "inv", old)
  OBVIOUS
<1>6. IsInventory(old) /\ Closed(old) /\ new # Conflict
  BY <1>1, <1>2, <1>3, <1>4, <1>5 DEF BesideIs, Good
<1>7. new = RenameFolder(old, k.path, k.to) /\ k.path \in Folder /\ k.to \in Folder
  BY <1>2, <1>5 DEF Change, ChangeInventory, CallShape, PathShape
<1>8. \A d, e \in DOMAIN old.devs :
        FolderOf(old, d) # FolderOf(old, e) => FolderOf(new, d) # FolderOf(new, e)
  BY <1>6, <1>7, RenameFolderKeeps
<1> QED BY <1>1, <1>4, <1>5, <1>8

LEMMA InventoryHolds == StoreInv => InventoryKept
<1> SUFFICES ASSUME StoreInv PROVE InventoryKept
  OBVIOUS
<1>1. StoreTypeOK
  <2>1. ASSUME NEW c \in Callers
        PROVE  /\ call[c].pc \in {"idle", "load", "seed", "rename", "publish", "profile", "open"}
               /\ call[c].pc \in {"load", "rename"} => File(c) \in Files6
    <3>1. CallShape(call[c])
      BY DEF StoreInv, CallsInv
    <3> QED BY <3>1, FirstFile DEF CallShape, File
  <2>2. disk.inv = Absent \/ DOMAIN disk.inv.devs \subseteq Devices
    BY GoodFiles, InventoryIs
  <2>3. DOMAIN disk.auth \subseteq Profiles
    BY GoodFiles, AuthIs
  <2>4. mem.active \in Urls
    BY DEF StoreInv, SettingsInv, Settings
  <2> QED BY <2>1, <2>2, <2>3, <2>4, GoodFiles DEF StoreTypeOK
<1>2. TreeClosed
  BY GoodFiles DEF TreeClosed
<1>3. RenameKeepsApart
  BY ApartHolds
<1>4. OnlyOldCopiesDrop
  BY DEF StoreInv, AckedInv
<1> QED BY <1>1, <1>2, <1>3, <1>4 DEF InventoryKept

LEMMA LoginsHold == StoreInv => LoginsWhole
<1> SUFFICES ASSUME StoreInv PROVE LoginsWhole
  OBVIOUS
<1>1. FlagHasSecret
  BY GoodFiles DEF FlagHasSecret, FlagsOf, VaultHas
<1>2. LoginExists
  BY GoodFiles DEF LoginExists, LoginsOf, AuthHas
<1>3. VaultWasAsked
  BY GoodFiles DEF VaultWasAsked
<1> QED BY <1>1, <1>2, <1>3 DEF LoginsWhole

LEMMA SettingsHold == StoreInv => SettingsKept
<1> SUFFICES ASSUME StoreInv PROVE SettingsKept
  OBVIOUS
<1>1. RenamesOwn
  BY DEF RenamesOwn, StoreInv, CallsInv, BesideIs
<1>2. SettingsAgree
  BY DEF StoreInv, SettingsInv
<1>3. LanUrlKept
  BY RememberedIs DEF StoreInv, SettingsInv, LanUrlKept
<1> QED BY <1>1, <1>2, <1>3 DEF SettingsKept

LEMMA ImportsAreHeld == StoreInv => ImportsHold
<1> SUFFICES ASSUME StoreInv PROVE ImportsHold
  OBVIOUS
<1>1. ASSUME NEW c \in Callers, call[c].op = "import" PROVE call[c].path \in ImportableFiles
  <2>1. CallShape(call[c])
    BY DEF StoreInv, CallsInv
  <2>2. call[c].pc # "idle"
    BY <1>1, <2>1 DEF CallShape
  <2> QED BY <1>1, <2>1, <2>2 DEF CallShape, PathShape
<1>2. ASSUME NEW c \in Callers, At(c, "open"), call[c].key # <<>>, IdentityOf(call[c]) # Refused
      PROVE  /\ Inside(IdentityOf(call[c]), {Home})
             /\ ~Inside(IdentityOf(call[c]), LateDirs)
  <2>1. CallShape(call[c])
    BY DEF StoreInv, CallsInv
  <2>2. call[c].key \in KeyFiles
    BY <1>2, <2>1 DEF At, CallShape, StepShape, LoginShape
  <2>3. IdentityOf(call[c]) = ConfineIdentity(call[c].key) /\ call[c].key \in Seq(STRING)
    BY <2>2, FilesToImport DEF IdentityOf, Identity
  <2> QED BY <1>2, <2>3, IdentityIs
<1>3. PathsConfined
  BY <1>1, <1>2, ImportableIs DEF PathsConfined
<1>4. ImportsWhatIsSaid
  BY <1>1, ImportableIs DEF ImportsWhatIsSaid
<1> QED BY <1>3, <1>4 DEF ImportsHold

(* Whatever handlers run side by side, fail or stop half way: the files    *)
(* keep their shape, every folder has its ancestors, a rename leaves       *)
(* devices of different folders apart, and what a handler saved is only    *)
(* undone by one that takes it away or that read before it.                *)
(* (upsert_device, rename_folder, delete_folder, register_folder, save)    *)
THEOREM InventoryAlwaysKept == StoreSpec => []InventoryKept
<1> QED BY StoreInvariant, InventoryHolds, PTL

(* Between any two of the writes of commit_ssh, auth_upsert and            *)
(* auth.delete: a profile that says it has a password has one, the profile *)
(* of a device exists, and the vault holds what somebody asked it to keep. *)
THEOREM LoginsAlwaysWhole == StoreSpec => []LoginsWhole
<1> QED BY StoreInvariant, LoginsHold, PTL

(* What is renamed over a file is what its writer wrote, settings in       *)
(* memory are those of the file, and the address of a helper elsewhere is  *)
(* kept.  (write_private, set_settings, remember_remote_inference_urls)    *)
THEOREM SettingsAlwaysKept == StoreSpec => []SettingsKept
<1> QED BY StoreInvariant, SettingsHold, PTL

(* For any directories, links, paths and files of other programs: what is  *)
(* imported and what is taken for a key lies under the roots it may lie    *)
(* under, with no link on the way, and the devices of an import are those  *)
(* the file tells of, each with the settings of its own block or session.  *)
(* (confine_under_roots, confine_identity_path, import_ssh_config,         *)
(* import_securecrt_xml)                                                   *)
THEOREM ImportsAlwaysHold == StoreSpec => []ImportsHold
<1> QED BY StoreInvariant, ImportsAreHeld, PTL
=============================================================================
