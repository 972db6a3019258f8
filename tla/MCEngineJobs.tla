---------------------------- MODULE MCEngineJobs ----------------------------
(***************************************************************************)
(* Two connections, two pids, one repository with a file of each kind.     *)
(***************************************************************************)
EXTENDS EngineJobs

MCRepo == <<<<"qwen">>, <<"q3-gguf">>>>

MCQ4 == File(<<"q3", "q4_k_m">>, "gguf")
MCQ8 == File(<<"q3", "q8_0">>, "gguf")
MCBig == File(<<"q3", "q8_0", "1", "of", "2">>, "gguf")

Spec(repo, tag) == [repo |-> repo, tag |-> tag, below |-> FALSE, legal |-> TRUE]

MCSpecs == {Spec(MCRepo, NoTag), Spec(MCRepo, File(<<"q8_0">>, "tag"))}

MCHubFiles == MCRepo :> <<MCBig, MCQ8, MCQ4>>

MCHosts == {<<"co", "hf", "xethub", "cas">>, <<"com", "elsewhere">>}

(* A repository with "--" in its name, in the cache of the hub.            *)
MCHubCache == {<<<<"mistral", "small", "gguf">>, MCQ4>>, <<<<"phi", "phi-4">>, MCQ8>>}

(* A part of a split model, which the user put there.                      *)
MCStartDisks == {<<FolderOf(MCRepo), MCBig>> :> [whole |-> TRUE, magic |-> TRUE]}

Card(vendor, pci, gb) == [vendor |-> vendor, pci |-> pci, vram |-> gb]
Node(vendor, pci, gb) ==
  [vendor |-> vendor, pci |-> pci, known |-> <<0, gb>>, other |-> {}, windows |-> {1, 16}]
Machine(nvidia, amd, drm) == [nvidia |-> nvidia, amd |-> amd, drm |-> drm]

MCMachines ==
  { Machine(<<>>, <<>>, <<Node("intel", "00:02.0", 0), Node("intel", "03:00.0", 0),
                          Node("intel", "04:00.0", 24)>>),
    Machine(<<>>, <<>>, <<Node("intel", "", 0)>>) }

(* One id fits one card of 16 GB, one needs two, and one is not listed.    *)
MCVllmIds == {{"qwen", "qwen3", "8b"}, {"gemma", "gemma-4", "12b", "2b"}, {"mine"}}

Perms == Permutations(Callers) \cup Permutations(Pids)
=============================================================================
