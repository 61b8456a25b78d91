------------------------------ MODULE MC_Verity ------------------------------
(* Two files and a link, blocks of two bytes, files of up to two blocks.  A file *)
(* can grow by the block that the next one starts with.                        *)
EXTENDS Verity

MCOrder    == <<"a", "b", "c">>
MCLink     == [l \in {"b"} |-> "c"]
MCLinkText == <<1>>
MCInitial  == {[a |-> <<1>>, c |-> Absent], [a |-> <<1>>, c |-> <<1, 0, 1>>]}
MCContents == {<<>>, <<1>>, <<1, 0, 1>>}
==============================================================================
