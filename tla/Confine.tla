------------------------------- MODULE Confine -------------------------------
(***************************************************************************)
(* The paths an operator may name: under the home directory or Late's own  *)
(* directories, and a private key only outside of Late's.  A path is the   *)
(* sequence of its components; the file system is a set of directories, a  *)
(* set of files and a function from links to what they stand for.          *)
(***************************************************************************)
EXTENDS Integers, Sequences, SequencesExt, FiniteSets

CONSTANTS Dirs, Files,  \* the real paths of directories and of files
          Links,        \* [link path -> real path]
          Cwd, Home,    \* where the daemon runs, the operator's home
          LateDirs,     \* Late's configuration and data
          SecretNames,  \* BLOCKED_IDENTITY_NAMES
          Refused

(* What the system finds under a path: every link on the way is followed.  *)
Follow(real, part) ==
  LET next == Append(real, part) IN IF next \in DOMAIN Links THEN Links[next] ELSE next

Walk(path) ==
  LET real[n \in 0 .. Len(path)] == IF n = 0 THEN <<>> ELSE Follow(real[n - 1], path[n])
  IN real

Canonical(path) == Walk(path)[Len(path)]

(* Paths are of names, and a link stands for a real path, one that has no  *)
(* link on it.                                                             *)
ASSUME LinksAssumption ==
  /\ {Home, Cwd, <<".ssh">>} \subseteq Seq(STRING)
  /\ \A link \in DOMAIN Links : Links[link] \in Seq(STRING) /\ Canonical(Links[link]) = Links[link]

Exists(path) == Canonical(path) \in Dirs \cup Files

EnsureUnder(path, roots) ==
  \E root \in roots : Exists(root) /\ IsPrefix(Canonical(root), path)

Absolute(path) == path # <<>> /\ Head(path) = "/"

(* A mutant of ConfineUnderRoots: the path as it is spelt.               *)
ConfineByName(path, roots, mustExist) ==
  LET abs == IF path # <<>> /\ Absolute(path) THEN path ELSE Cwd \o path
  IN IF EnsureUnder(abs, roots) /\ Canonical(abs) \in Files THEN abs ELSE Refused

(* confine_under_roots: the directory is resolved, the last component may  *)
(* not be a link, and a file that must exist is one.                       *)
ConfineUnderRoots(path, roots, mustExist) ==
  LET abs    == IF path # <<>> /\ Absolute(path) THEN path ELSE Cwd \o path
      parent == Canonical(Front(abs))
      dest   == Append(parent, Last(abs))
  IN IF /\ path # <<>> /\ \A i \in DOMAIN path : path[i] # ".."
        /\ Len(abs) > 1 /\ Exists(Front(abs))
        /\ dest \notin DOMAIN Links
        /\ mustExist => dest \in Files
        /\ EnsureUnder(dest, roots)
     THEN dest ELSE Refused

(* confine_dir: an existing directory, resolved to the end.                *)
ConfineDir(path, roots) ==
  IF /\ path # <<>> /\ \A i \in DOMAIN path : path[i] # ".."
     /\ Canonical(path) \in Dirs /\ EnsureUnder(Canonical(path), roots)
  THEN Canonical(path) ELSE Refused

OperatorRoots == {Home} \cup LateDirs

(* A mutant of ConfineIdentity: any file will do.                        *)
IdentityAnywhere(key) ==
  LET path == IF Absolute(key) THEN key ELSE Home \o <<".ssh">> \o key
  IN IF Last(path) \in SecretNames THEN Refused
     ELSE ConfineUnderRoots(path, OperatorRoots, TRUE)

(* confine_identity_path: a bare name stands for a file in ~/.ssh; neither *)
(* the name nor the place may be one of Late's secrets.                    *)
ConfineIdentity(key) ==
  LET path     == IF Absolute(key) THEN key ELSE Home \o <<".ssh">> \o key
      confined == ConfineUnderRoots(path, {Home}, TRUE)
  IN IF \/ Last(path) \in SecretNames \/ confined = Refused
     THEN Refused
     ELSE IF \/ Last(confined) \in SecretNames
             \/ \E d \in LateDirs : IsPrefix(Canonical(d), confined)
          THEN Refused ELSE confined

(* validate_settings_dir                                                   *)
DirAllowed(path) ==
  \/ path = <<>>
  \/ IF Canonical(path) \in Dirs THEN ConfineDir(path, OperatorRoots) # Refused
     ELSE ConfineUnderRoots(path, OperatorRoots, FALSE) # Refused

(* Where a confined path really leads: no link is left on it.              *)
Inside(path, roots) ==
  /\ Canonical(path) = path
  /\ \E root \in roots : IsPrefix(Canonical(root), path)
=============================================================================
