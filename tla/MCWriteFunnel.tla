--------------------------- MODULE MCWriteFunnel ---------------------------
(* Two top-level names that may be files or directories with one entry.     *)
(* The engine finds a directory with a file, which is or is not empty, or   *)
(* two files.                                                               *)
EXTENDS WriteFunnel, MCTextEdits

Tree == {<<"d">>, <<"d", "f">>, <<"e">>, <<"e", "f">>}

OneInDirectory(d) == d[<<"d">>] = Dir /\ IsFile(d, <<"d", "f">>) /\ d[<<"e">>] = Absent
TwoFiles(d) == d[<<"d">>] \in Texts /\ d[<<"e">>] \in Texts
Found == {d \in Trees : OneInDirectory(d) \/ TwoFiles(d)}

Interchangeable == Permutations(Agents) \cup Permutations(Texts)
=============================================================================
