----------------------------- MODULE GgufFiles -----------------------------
(***************************************************************************)
(* Names of models: what a client writes, which file of a repository that  *)
(* means, where it lands and which file a later start takes.  A repository *)
(* is <<owner, name>>, each the sequence of its parts between "--"; a file *)
(* name is the sequence of its parts between "-" and an ending; a tag is a *)
(* file name, or a quantisation: one part, with the ending "tag".  Letter  *)
(* case does not matter anywhere and is left out.                          *)
(***************************************************************************)
EXTENDS Naturals, Sequences, FiniteSets, SequencesExt, FiniteSetsExt

CONSTANTS NoTag,   \* a spec that names no file
          Nothing  \* no such file, or a spec that is refused

File(parts, ending) == [parts |-> parts, ending |-> ending]

(* parse_hub_spec: the words after /blob/, /tree/ or /resolve/ are cut off *)
(* with the tag behind them.                                               *)
ParseHubSpec(raw) ==
  IF ~raw.legal \/ Len(raw.repo) # 2 THEN Nothing
  ELSE [repo |-> raw.repo, tag |-> IF raw.below THEN NoTag ELSE raw.tag]

(* ollama_pull_name: a name with an owner is one of Hugging Face.          *)
OllamaPullName(raw) ==
  IF ~raw.legal THEN Nothing
  ELSE [hub |-> Len(raw.repo) > 1, repo |-> raw.repo, tag |-> raw.tag]

SafeGgufName(file) == file.parts # <<>> /\ Head(file.parts) \notin {"", ".", ".."}

SkipWords == {"mmproj", "projector", "encoder", "draft", "speculative", "of"}

SkipGguf(file) == \E w \in ToSet(file.parts) : w \in SkipWords

Servable(file) == file.ending = "gguf" /\ ~SkipGguf(file)

QuantToken(file) == Last(file.parts)

QuantPref == <<"q4_k_m", "q5_k_m", "q4_k_s", "q5_k_s", "q6_k", "q8_0", "q4_0", "q5_0">>

(* The first of the files that is in a set.                                *)
FirstIn(files, wanted) ==
  LET hits == {i \in DOMAIN files : files[i] \in wanted}
  IN  IF hits = {} THEN Nothing ELSE files[Min(hits)]

(* A mutant of PickGgufFile: it takes any file.                            *)
PickAny(files, tag) == IF files = <<>> THEN Nothing ELSE Head(files)

(* pick_gguf_file: the file named, the quantisation named, or the first of *)
(* the preferred quantisations the repository has.                         *)
PickGgufFile(files, tag) ==
  LET ggufs == {f \in ToSet(files) : Servable(f)}
      Of(quant) == {f \in ggufs : QuantToken(f) = quant}
      preferred == {i \in DOMAIN QuantPref : Of(QuantPref[i]) # {}}
  IN  IF tag \in ggufs THEN tag
      ELSE IF tag # NoTag
        THEN FirstIn(files, IF tag.ending = "tag" THEN Of(Head(tag.parts)) ELSE {})
      ELSE FirstIn(files, IF preferred = {} THEN ggufs ELSE Of(QuantPref[Min(preferred)]))

(* The folder of a repository has "--" for "/", and is read back the same  *)
(* way: a "--" of the name itself comes back as "/".                       *)
FolderOf(repo) == repo[1] \o repo[2]

RepoOf(folder) == [i \in DOMAIN folder |-> <<folder[i]>>]

(* A mutant of ScanGgufDir: parts of a split model are listed too.         *)
ScanAll(own) == {[repo |-> RepoOf(e[1]), tag |-> e[2]] : e \in own}

(* scan_gguf_dir and scan_hf_gguf_cache: own is the set of <<folder, file>>*)
(* of Late's own folder, hub that of the Hugging Face cache.               *)
ScanGgufDir(own) ==
  LET served == {e \in own : Servable(e[2])}
      Alone(e) == \A x \in served : x[1] = e[1] => x = e
  IN  {[repo |-> RepoOf(e[1]), tag |-> IF Alone(e) THEN NoTag ELSE e[2]] : e \in served}

ScanHfGgufCache(hub) ==
  {[repo |-> RepoOf(e[1]), tag |-> e[2]] : e \in {x \in hub : Servable(x[2])}}

(* A tag names a file by its name, or by a text inside it.                 *)
Mentions(file, tag) ==
  tag = file \/ (tag.ending = "tag" /\ Head(tag.parts) \in ToSet(file.parts))

(* resolve_gguf_file: the folder is read in no fixed order, so any file    *)
(* the tag is in may be the first.  One file alone is taken whatever the   *)
(* tag says.                                                               *)
ResolveGgufFile(spec, own, hub) ==
  LET In(disk) == {e[2] : e \in {x \in disk : x[1] = FolderOf(spec.repo) /\ Servable(x[2])}}
      found == IF In(own) # {} THEN In(own) ELSE In(hub)
      named == {f \in found : spec.tag # NoTag /\ Mentions(f, spec.tag)}
  IN  IF named # {} THEN named
      ELSE IF Cardinality(found) = 1 THEN found
      ELSE {PickGgufFile(order, spec.tag) : order \in SetToSeqs(found)} \ {Nothing}

(* hf_download_host_ok and hf_redirect: a host is the sequence of its      *)
(* labels from the right.                                                  *)
HfDownloadHostOk(host) ==
  \/ host \in {<<"co", "huggingface">>, <<"co", "huggingface", "www">>, <<"co", "hf">>}
  \/ Len(host) > 2 /\ SubSeq(host, 1, 2) = <<"co", "huggingface">>
  \/ Len(host) > 3 /\ SubSeq(host, 1, 3) = <<"co", "hf", "xethub">>

MaxRedirects == 16

HfRedirect(previous, host) == previous <= MaxRedirects /\ HfDownloadHostOk(host)
=============================================================================
