---------------------------- MODULE MCFileStores ----------------------------
(* Two handlers, a tree of two names two deep, one saved and one new       *)
(* profile; a home with a link out of it and a link to Late's own files.   *)
EXTENDS FileStores, TLC

CONSTANTS c1, c2, p1, p2, d1, d2, d3

MCFolders == {<<>>, <<"a">>, <<"a", "", "b">>, <<"b", "..">>}

MCHome == <<"/", "home">>
MCLate == {<<"/", "home", "late">>}
MCDirs == {<<"/">>, MCHome, <<"/", "etc">>, <<"/", "home", "late">>, <<"/", "home", ".ssh">>}
MCFiles == {<<"/", "home", "hosts">>, <<"/", "home", ".ssh", "id">>, <<"/", "etc", "hosts">>,
            <<"/", "home", "crt.xml">>, <<"/", "home", "hosts.csv">>,
            <<"/", "home", "late", "secrets.json">>, <<"/", "home", "late", "id">>}
MCLinks == (<<"/", "home", "away">> :> <<"/", "etc">>)
           @@ (<<"/", "home", "out">> :> <<"/", "etc", "hosts">>)
           @@ (<<"/", "home", ".ssh", "l">> :> <<"/", "home", "late">>)
MCSettingDirs == {<<>>, MCHome, <<"away">>}
MCKeys == {<<"id">>, <<"l", "id">>}
MCImportPaths == {<<"hosts">>, <<"hosts.csv">>, <<"out">>, <<"away", "hosts">>, <<"..", "etc", "hosts">>}

Line(key, value) == [key |-> key, value |-> value]
SshHosts == [kind |-> "ssh",
             lines |-> <<Line("port", 1), Line("host", <<"x", "y*">>), Line("hostname", "h1"),
                         Line("port", 2022), Line("user", "u"), Line("host", <<"z">>),
                         Line("hostname", "")>>]
Crt == [kind |-> "xml",
        lines |-> <<Line("name", "n"), Line("port", 23), Line("end", ""), Line("hostname", "h2"),
                    Line("end", ""), Line("name", ""), Line("port", 24), Line("hostname", "h3"),
                    Line("end", "")>>]
Csv == [kind |-> "csv",
        lines |-> <<[name |-> "", host |-> "", port |-> 0, folder |-> <<>>],
                    [name |-> "n", host |-> "h", port |-> 8022, folder |-> <<"a", "c">>]>>]
MCImportAt == (<<"/", "home", "hosts">> :> SshHosts) @@ (<<"/", "etc", "hosts">> :> SshHosts)
              @@ (<<"/", "home", "hosts.csv">> :> Csv) @@ (<<"/", "home", "crt.xml">> :> Crt)

LoginOf(pw) == [password |-> pw, key |-> <<>>]
Base == [inv |-> Absent, auth |-> <<>>, vault |-> {}, keys |-> {}, cols |-> {},
         settings |-> [active |-> "lan", remote |-> "", dir |-> <<>>]]
Used == [Base EXCEPT
  !.inv = [devs |-> (d1 :> [folder |-> <<"a", "b">>, prof |-> p1])
                    @@ (d2 :> [folder |-> <<"b">>, prof |-> NoProfile]),
           folders |-> {<<"a">>, <<"a", "b">>, <<"b">>}],
  !.auth = p1 :> LoginOf(TRUE), !.vault = {p1}, !.keys = {"k1"}, !.cols = {"k1"}]
MCStartFiles == {Base, Used}

Perms == Permutations(Callers)
=============================================================================
