--------------------------- MODULE MCConfiguration ---------------------------
(* Small instances of Configuration: boxes with one id and several, with   *)
(* commas and spaces where they matter, and one feed typed in three ways.  *)
EXTENDS Configuration, TLC

MCTexts == {<<" ", ",">>, <<"a", " ", "b", ",", "c">>, <<"a", " ", ",", ",", " ", "b">>}
MCUrls    == {<<"h", ":", "u">>, <<" ", "h", ":", "u", " ">>, <<"H", ":", "u">>, <<"u">>}
MCSchemes == {<<"h", ":">>}
MCLower   == "H" :> "h"
=============================================================================
