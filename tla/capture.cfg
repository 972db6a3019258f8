SPECIFICATION CaptureSpec
CHECK_DEADLOCK FALSE
CONSTANTS
  Caps = {a, b}
  AskFor = {"local", "ssh", "once"}
  Stoppers = {s, t}
  NoCap = NoCap
  Platforms = {"unix", "nxos"}
  Frames <- MCFrames
  MaxFrames = 4
  StoreCap = 2
  ScanCap = 3
  UiCap = 2
  HitCap = 1
  AgentCap = 1
  SampleCap = 2
INVARIANTS  CapturesApart 
PROPERTIES CapturesEnd
