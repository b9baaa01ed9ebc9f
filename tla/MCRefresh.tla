------------------------------ MODULE MCRefresh ------------------------------
(* Small instances of Refresh: two feeds in service from the start or the  *)
(* next day, and one that belongs to next season.                          *)
EXTENDS Refresh, TLC

CONSTANTS now, next, season

MCVersion == {now, next, season}
MCTwoVersions == {now, next}
MCStarts == now :> 0 @@ next :> 1 @@ season :> 9
MCTwoStarts == now :> 0 @@ next :> 1
=============================================================================
