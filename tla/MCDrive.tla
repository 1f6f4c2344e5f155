------------------------------- MODULE MCDrive -------------------------------
(***************************************************************************)
(* Small drives for TLC.  l1 and l2 are long names with the same stem; the *)
(* other host names are 8.3 names already.                                 *)
(***************************************************************************)
EXTENDS Drive

Short(n) == <<n, 0>>
L1 == <<"long_n", 1>>
L2 == <<"long_n", 2>>

MCOrder == <<"l1", "d", "e", "l2", "a">>
MCShortened == {"l1", "l2"}
MCPlain == [n \in Names |-> IF n \in MCShortened THEN Short("long_nam") ELSE Short(n)]
MCStem == [n \in Names |-> IF n \in MCShortened THEN "long_n" ELSE n]
MCShorts == {L1, L2, Short("a"), Short("d"), Short("e")}
MCHostName == [s \in MCShorts \cup {All} |->
                 CASE s = L1 -> "long_n~1" [] s = L2 -> "long_n~2" [] OTHER -> s[1]]

File == [dir |-> FALSE, ro |-> FALSE]
ReadOnlyFile == [dir |-> FALSE, ro |-> TRUE]
Dir == [dir |-> TRUE, ro |-> FALSE]

\* Two long names in the root, one of a read-only file, and an empty directory.
MCDisks == {(<<"l1">> :> ReadOnlyFile) @@ (<<"l2">> :> File) @@ (<<"d">> :> Dir)}
MCClientPaths == {<<L1>>, <<Short("d")>>, <<Short("d"), Short("a")>>}
MCNewFiles == {<<Short("d"), Short("a")>>}
MCNewDirs == {<<Short("d")>>}
MCClientDirs == {Root, <<Short("d")>>}
MCHostPaths == {<<"d", "l2">>}

\* Two directories with a file each.
DirsDisks == {(<<"d">> :> Dir) @@ (<<"d", "a">> :> File)
                @@ (<<"e">> :> Dir) @@ (<<"e", "l1">> :> File)}
DirsPaths == {<<Short("d")>>, <<Short("e")>>, <<Short("e"), L1>>,
              <<Short("e"), Short("a")>>, <<Short("a")>>}
DirsNewFiles == {<<Short("e"), Short("a")>>, <<Short("a")>>}
DirsNewDirs == {<<Short("e")>>}

\* A file and a directory with long names, and something to name in the directory.
LongDisks == {(<<"l1">> :> File) @@ (<<"l2">> :> Dir) @@ (<<"l2", "a">> :> File)}
LongPaths == {<<L1>>, <<L2>>, <<L2, Short("d")>>}
LongNewFiles == {<<L2, Short("d")>>}
LongDirs == {Root, <<L2>>}
=============================================================================
