---------------------------- MODULE MCSelection ----------------------------
(* Five departures from one origin, two of them at the same instant;       *)
(* watches of the origin alone and of the pair, with a limit of one and    *)
(* two and a page of two and three.  A day has two instants; in zone "x",  *)
(* west of the machine's zone "u", summer time ends on a day that has      *)
(* three.  Zone "z" is unknown.                                            *)
EXTENDS Presenter

Dep(at, seq, calls, way, zone) ==
  [at |-> at, seq |-> seq, stop |-> "A", calls |-> calls, way |-> way, zone |-> zone]

MCDeparture == {Dep(1, 1, {"B"}, 0, "x"), Dep(2, 2, {"B"}, 0, "x"), Dep(2, 3, {}, None, "z"),
                Dep(3, 4, {"B"}, 1, "x"), Dep(4, 5, {"B"}, 0, "x")}

MCOffset == [z \in {"u", "x"} |-> [t \in 0 .. 4 |-> IF z = "u" THEN 0 ELSE IF t < 3 THEN -1 ELSE -2]]

MCStop == {"A", "B"}

Watch(destinations, direction, limit, offset, lookback) ==
  [origins |-> {"A"}, destinations |-> destinations, direction |-> direction,
   limit |-> limit, offset |-> offset, lookback |-> lookback]

MCWatches == {Watch({}, None, 1, 0, 2), Watch({}, 0, 2, 0, 1),
              Watch({"B"}, None, 2, 1, 1), Watch({"B"}, 0, 1, 0, 3)}

MCOverFetch == [n \in 1 .. 2 |-> n + 1]

MCEnds == {4}
============================================================================
