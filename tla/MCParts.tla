-------------------------------- MODULE MCParts --------------------------------
(***************************************************************************)
(* A small instance of Parts for TLC.                                      *)
(***************************************************************************)
EXTENDS Parts, TLC

CONSTANTS s1, s2, s3, s4, local, remote, t1

\* The grid: three of four sessions placed, two in one directory, one on another
\* server; two columns, or a session placed twice and rows of uneven height.
MCServerOf == s1 :> local @@ s2 :> local @@ s3 :> remote @@ s4 :> local
MCDirOf == s1 :> 1 @@ s2 :> 1 @@ s3 :> 2 @@ s4 :> 3
MCFirstDirs == {{}, {1}}
MCFirstLayouts == {normalize(<<s1, s2, s3>>, 2, <<>>, <<>>), normalize(<<s3, s4, s1, s1>>, 2, <<40, 20>>, <<>>)}

\* The phone: three sessions, listed in order, or two of them placed the other way.
MCPhone == <<s1, s2, s3>>
MCPhoneTiles == {<<>>, <<s2, s1>>}

\* The launcher: two daemons with the same directory ids for other paths.
Here(d, s) == [dirId |-> d, subdir |-> s]
MCToolsOf == "h1" :> <<1, 2>> @@ "h2" :> <<3>>
MCRootPath == "h1" :> <<<<"r">>, <<"r", "a">>>> @@ "h2" :> <<<<"q">>>>
MCListings == {[host |-> "h1", at |-> Here(1, <<>>), names |-> <<".g", "a">>],
               [host |-> "h2", at |-> Here(1, <<>>), names |-> <<"b">>]}
MCVisibleOn == "h1" :> <<<<"r", "a", "b">>>> @@ "h2" :> <<>>
MCFirstRecent == "h1" :> <<Here(1, <<"a">>), Here(2, <<"b">>)>> @@ "h2" :> <<Here(1, <<"b">>)>>
MCTargets == {[host |-> "h1", dir |-> <<"r", "a">>], [host |-> "h2", dir |-> <<"x">>]}

\* The settings: two rows; the panel of directories is that of tools without a rename,
\* and that of appearance the one of preferences.
MCOpened == (Lists \ {"dirs"}) \cup (Forms \ {"appearance"})
MCFirstRows == <<1, 2>>

\* The terminals: one, with its session; others of the page ask as they will.
MCSessionOf == t1 :> s1

\* The certificates: two lists of hostnames.
MCNames == {{"n1"}, {"n2"}}
=============================================================================
