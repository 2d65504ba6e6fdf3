------------------------------- MODULE MCFat -------------------------------
(* Instances of Fat for TLC.                                               *)
EXTENDS FatRefinement

MCBlank == [file_name |-> "", start |-> 0, file_size |-> 0, use |-> 0]
MCStale == {MCBlank, [file_name |-> "0", start |-> 0, file_size |-> 1, use |-> 0]}
MCFileNames == Names \cup {"", "0"}
MCChars == {"x", Newline, Space}
MCContents == {<<>>, <<"x", Newline, "x">>}
============================================================================
