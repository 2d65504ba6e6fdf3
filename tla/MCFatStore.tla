----------------------------- MODULE MCFatStore -----------------------------
(* Instances of FatStore for TLC.                                          *)
EXTENDS FatStore

Plain   == {<<"a">>, <<"b">>}
MCBlank == [file_name |-> <<>>, start |-> 0, file_size |-> 0, use |-> 0]
MCFileNames == Names \cup {<<>>, <<"0">>}
MCStale == {[file_name |-> n, start |-> 0, file_size |-> 0, use |-> 0] : n \in {<<>>, <<"0">>}}
MCChars == {"x", "y", Newline, Space}
MCContents == {<<"y", Newline, "x">>}

\* What a damaged file system does next is not explored: its chains can be
\* loops, and its texts and sizes grow without bound.
Sound == pc = "main" => /\ FreeSpaceMarked /\ NoLoop
                        /\ \A i \in Entries : File_entries[i].file_size <= Capacity
=============================================================================
