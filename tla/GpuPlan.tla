------------------------------ MODULE GpuPlan ------------------------------
(***************************************************************************)
(* What Late knows of the graphics cards of this computer, and what it     *)
(* derives from it: the plan for a start, the arguments of llama-server,   *)
(* the models that fit and the one it picks.  Sizes are in GB.  A model id *)
(* is the set of the words the code looks for in it.                       *)
(***************************************************************************)
EXTENDS Naturals, Sequences, FiniteSets, SequencesExt, FiniteSetsExt

Row(words, gb) == [id |-> words, gb |-> gb]

(* The weight library, as far as the words of an id are looked at.         *)
Library == <<
  Row({"qwen", "qwen3", "0.6"}, 2), Row({"qwen", "qwen3", "1.7"}, 4),
  Row({"qwen", "qwen3", "4b"}, 8), Row({"qwen", "qwen3", "8b"}, 16),
  Row({"qwen", "qwen3", "14b", "4b"}, 28), Row({"qwen", "qwen3", "32b", "2b"}, 64),
  Row({"qwen", "qwen3", "qwen3.5", "0.8"}, 2), Row({"qwen", "qwen3", "qwen3.5", "2b"}, 5),
  Row({"qwen", "qwen3", "qwen3.5", "4b"}, 9), Row({"qwen", "qwen3", "qwen3.5", "9b"}, 19),
  Row({"qwen", "qwen3", "qwen3.5", "27b", "7b"}, 54),
  Row({"qwen", "qwen3", "qwen3.5", "35b", "a3b", "3b"}, 70),
  Row({"qwen", "qwen3", "qwen3.8", "27b", "7b"}, 53),
  Row({"qwen", "qwen3", "qwen3.6", "35b", "a3b", "3b"}, 70),
  Row({"qwen", "qwen3", "qwen3.6", "35b", "a3b", "3b", "fp8"}, 37),
  Row({"qwen", "qwen2.5", "0.5"}, 1), Row({"qwen", "qwen2.5", "1.5b"}, 3),
  Row({"qwen", "qwen2.5", "7b"}, 14), Row({"qwen", "qwen2.5", "14b", "4b"}, 28),
  Row({"qwen", "qwen2.5", "32b", "2b"}, 64), Row({"gemma", "gemma-4", "e2b", "2b"}, 10),
  Row({"gemma", "gemma-4", "e4b", "4b"}, 16), Row({"gemma", "gemma-4", "12b", "2b"}, 23),
  Row({"gemma", "gemma-4", "26b", "a4b", "4b"}, 50),
  Row({"gemma", "gemma-4", "31b", "1b"}, 62), Row({"gemma", "gemma-3", "1b"}, 3),
  Row({"gemma", "gemma-3", "4b"}, 8), Row({"gemma", "gemma-3", "12b", "2b"}, 24),
  Row({"gemma", "gemma-3", "27b", "7b"}, 54), Row({"gemma", "gemma-2", "2b"}, 5),
  Row({"gemma", "gemma-2", "9b"}, 18), Row({"gemma", "gemma-2", "27b", "7b"}, 54),
  Row({"llama", "llama-4", "scout", "16e"}, 207), Row({"llama", "llama-3.3", "70b"}, 140),
  Row({"llama", "llama-3.2", "1b"}, 3), Row({"llama", "llama-3.2", "3b"}, 7),
  Row({"llama", "llama-3.1", "8b"}, 16), Row({"llama", "llama-3.1", "70b"}, 140),
  Row({"mistral", "mistral-small-3.2", "24b", "4b"}, 48),
  Row({"mistral", "ministral", "8b"}, 16), Row({"mistral", "7b"}, 14),
  Row({"phi", "phi-4"}, 8), Row({"phi", "phi-4", "big"}, 28),
  Row({"granite", "granite-4", "3b"}, 7), Row({"granite", "granite-4", "8b"}, 17),
  Row({"granite", "granite-4", "30b"}, 60), Row({"granite", "granite-3.3", "8b"}, 16),
  Row({"olmo", "olmo-3", "7b"}, 14), Row({"olmo", "olmo-3", "32b", "2b"}, 64) >>

(* The first row of a table one of whose words the id contains.            *)
FirstMatch(table, id, otherwise) ==
  LET hits == {i \in DOMAIN table : table[i][1] \cap id # {}}
  IN  IF hits = {} THEN otherwise ELSE table[Min(hits)][2]

LineageOf(id) ==
  FirstMatch([i \in 1..8 |->
    LET f == <<"qwen", "gemma", "llama", "mistral", "phi", "granite", "olmo", "deepseek">>[i]
    IN  <<{f}, f>>], id, "other")

GenerationMilli(id) == FirstMatch(<<
  <<{"qwen3.8"}, 380>>, <<{"qwen3.6", "qwen3.5"}, 350>>, <<{"qwen3"}, 300>>,
  <<{"qwen2.5"}, 250>>, <<{"gemma-4"}, 400>>, <<{"gemma-3"}, 300>>, <<{"gemma-2"}, 200>>,
  <<{"llama-4"}, 400>>, <<{"llama-3.3"}, 330>>, <<{"llama-3.2"}, 320>>,
  <<{"llama-3.1"}, 310>>, <<{"granite-4"}, 420>>, <<{"granite-3.3"}, 330>>,
  <<{"olmo-3"}, 300>>, <<{"ministral"}, 800>>, <<{"mistral-small-3.2"}, 320>>,
  <<{"phi-4"}, 400>> >>, id, 0)

SizeSlot(id) == FirstMatch(<<
  <<{"scout", "70b"}, "70b">>, <<{"a3b", "16e"}, "moe">>, <<{"0.8", "0.6", "0.5"}, "tiny">>,
  <<{"1.7"}, "2b">>, <<{"32b", "35b", "31b", "30b", "27b", "26b", "24b"}, "32b">>,
  <<{"14b"}, "14b">>, <<{"12b", "9b", "e4b"}, "12b">>, <<{"8b", "7b"}, "8b">>,
  <<{"4b", "3b", "e2b"}, "4b">>, <<{"2b", "1b"}, "2b">> >>, id, "tiny")

Rival(a, b) == LineageOf(a) = LineageOf(b) /\ SizeSlot(a) = SizeSlot(b)

NewestIdSet(ids) ==
  {id \in ids : \A other \in ids :
     Rival(id, other) => GenerationMilli(id) >= GenerationMilli(other)}

(***************************************************************************)
(* The cards: [vendor, pci, vram].  nvidia-smi first, then rocm-smi, then  *)
(* the device tree.                                                        *)
(***************************************************************************)
ParseNvidiaSmiCsv(rows) == SelectSeq(rows, LAMBDA c : c.vram > 0)

ParseRocmSmiMeminfo(rows) == SelectSeq(rows, LAMBDA c : c.vram > 0)

(* An Intel node whose address is not known counts as the built-in one.    *)
IntelDrmIsIgpu(c) == c.vendor = "intel" /\ c.pci \in {"", "00:02.0"}

(* What sysfs says: the first of the three well-known files, or else the   *)
(* largest of the others.                                                  *)
ReadVramSysfs(node) ==
  LET known == SelectSeq(node.known, LAMBDA gb : gb > 0)
  IN  IF known # <<>> THEN Head(known) ELSE Max(node.other \cup {0})

(* The largest PCI window of at least 1 GB, where the address is known.    *)
LspciPrefetchBytes(node) == IF node.pci = "" THEN 0 ELSE Max(node.windows \cup {0})

ProbeDrm(nodes) ==
  [i \in DOMAIN nodes |->
     [vendor |-> nodes[i].vendor, pci |-> nodes[i].pci,
      vram |-> IF ReadVramSysfs(nodes[i]) > 0 THEN ReadVramSysfs(nodes[i])
               ELSE LspciPrefetchBytes(nodes[i])]]

Summarize(cards) ==
  LET discrete == SelectSeq(cards, LAMBDA c : ~IntelDrmIsIgpu(c))
      vendor == IF discrete = <<>> THEN "none" ELSE discrete[1].vendor
  IN  [vendor |-> vendor, count |-> Len(discrete),
       vram |-> IF discrete = <<>> THEN 0 ELSE Min({c.vram : c \in ToSet(discrete)}),
       tpOk |-> vendor \in {"nvidia", "amd", "intel"} /\ Len(discrete) >= 2]

Probe(machine) ==
  LET nvidia == ParseNvidiaSmiCsv(machine.nvidia)
      amd == ParseRocmSmiMeminfo(machine.amd)
  IN  Summarize(IF nvidia # <<>> THEN nvidia
                ELSE IF amd # <<>> THEN amd ELSE ProbeDrm(machine.drm))

(* A mutant of ServingProfile.                                             *)
ServeUnasked(gpu, useAll) == gpu

ServingProfile(gpu, useAll) == [gpu EXCEPT !.tpOk = gpu.tpOk /\ useAll]

(* A mutant of LaunchPlan.                                                 *)
PlanAlways(gpu, useAll) == [useAll |-> gpu.count >= 2, tp |-> gpu.count]

LaunchPlan(gpu, useAll) ==
  LET all == useAll /\ gpu.count >= 2 /\ gpu.vendor \in {"nvidia", "amd", "intel"}
  IN  [useAll |-> all, tp |-> IF all THEN gpu.count ELSE 1]

(* The number of cards llama-server spreads a model over, and the number   *)
(* its environment lets it see (0: not restricted).                        *)
LlamaGpuArgs(gpu, useAll) ==
  IF gpu.count = 0 THEN 0
  ELSE LET plan == LaunchPlan(gpu, useAll) IN IF plan.useAll THEN plan.tp ELSE 1

LlamaGpuEnv(gpu, useAll) ==
  IF gpu.count = 0 \/ gpu.vendor \notin {"nvidia", "amd", "intel"} THEN 0
  ELSE IF useAll THEN gpu.count ELSE 1

AllowIntelXpuCompose(gpu) == gpu.vendor = "intel"

(***************************************************************************)
(* The models that fit.                                                    *)
(***************************************************************************)
NewestOfLibrary == NewestIdSet({r.id : r \in ToSet(Library)})

RankWeightCatalog(gpu) ==
  LET Rank(r) ==
        LET one == gpu.vram > 0 /\ r.gb <= gpu.vram
            split == gpu.tpOk /\ gpu.count >= 2 /\ r.gb <= gpu.vram * gpu.count
        IN  [id |-> r.id, gb |-> r.gb, tp |-> IF ~one /\ split THEN gpu.count ELSE 1,
             recommended |-> one \/ split, newest |-> r.id \in NewestOfLibrary]
  IN  [i \in DOMAIN Library |-> Rank(Library[i])]

EstimateWeightGb(id) == {r.gb : r \in {x \in ToSet(Library) : x.id = id}}

Fits(id, gpu) ==
  \A gb \in EstimateWeightGb(id) :
    \/ gb <= gpu.vram
    \/ gpu.tpOk /\ gpu.count >= 2 /\ gb <= gpu.vram * gpu.count

(* The last of the heaviest.                                               *)
Heaviest(rows, otherwise) ==
  IF rows = <<>> THEN otherwise
  ELSE LET top == Max({r.gb : r \in ToSet(rows)})
       IN  SelectSeq(rows, LAMBDA r : r.gb = top)[Len(SelectSeq(rows, LAMBDA r : r.gb = top))].id

DefaultModel(gpu) ==
  LET fresh == SelectSeq(RankWeightCatalog(gpu), LAMBDA r : r.recommended /\ r.newest)
      easy == SelectSeq(fresh, LAMBDA r : r.tp = 1 /\ r.gb + 6 <= gpu.vram)
  IN  Heaviest(IF easy # <<>> THEN easy ELSE fresh, {"qwen", "qwen3", "8b"})

(* pick_default_model: what is on the disk first.                          *)
PickDefaultModel(gpu, complete) ==
  Heaviest(SelectSeq(RankWeightCatalog(gpu),
             LAMBDA r : r.recommended /\ r.newest /\ r.id \in complete), DefaultModel(gpu))
=============================================================================
