------------------------------ MODULE MCReading ------------------------------
(***************************************************************************)
(* Reading with a book of three paragraphs in two chapters, and the other  *)
(* work of an activity: a page that has two blocks or, when it is fetched  *)
(* again, three, and searches that give too few, enough or unusable        *)
(* sources.                                                                *)
(***************************************************************************)
EXTENDS ActivityWork

MCEnds == <<1, 2, 3>>

MCPageLength == <<2, 3>>

MCFound == {<<>>, <<"unusable", "remote">>, <<"remote", "remote", "remote">>}
=============================================================================
