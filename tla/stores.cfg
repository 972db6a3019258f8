SPECIFICATION StoreSpec
CONSTANTS
  c1 = c1  c2 = c2  p1 = p1  p2 = p2  d1 = d1  d2 = d2  d3 = d3
  Callers = {c1, c2}  Devices = {d1, d2, d3}  Profiles = {p1, p2}
  Names = {"k1", "k2"}  Known = {"k1"}
  Chosen = {d1, d2}  SettingDirs <- MCSettingDirs
  Folders <- MCFolders  KeyFiles <- MCKeys
  ImportPaths <- MCImportPaths  ImportAt <- MCImportAt
  Dirs <- MCDirs  Files <- MCFiles  Links <- MCLinks  Home <- MCHome  Cwd <- MCHome
  LateDirs <- MCLate  SecretNames = {"secrets.json"}
  Patterns = {"y*"}  NoText = ""  NoHost = NoHost
  Urls = {"loop", "lan", "lan2", ""}  Loopback = {"loop"}
  Absent = Absent  NoProfile = NoProfile  NoFile = NoFile  Conflict = Conflict  Refused = Refused
  StartFiles <- MCStartFiles
  MaxCalls = 2  MaxFaults = 1
INVARIANTS InventoryKept LoginsWhole  ImportsHold
SYMMETRY Perms
CHECK_DEADLOCK FALSE
