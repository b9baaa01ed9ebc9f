------------------------------- MODULE Board -------------------------------
(***************************************************************************)
(* What the watches of an entry promise to whoever looks at their sensors: *)
(* a board of departures over the index that is open, which shows rows of  *)
(* one index at a time, of an index that has been opened and never of an   *)
(* older one than before, and beside them the dates of the index that was  *)
(* open when they were put up.  No tasks, no threads, no queues and no     *)
(* lock: polls and imports are whatever puts something on the board.       *)
(***************************************************************************)
EXTENDS Integers

CONSTANTS
  Watch,      \* the watches, one line of the board each
  Messages,   \* what a line says in place of rows
  None        \* a line nobody has filled yet

VARIABLES
  published,  \* the newest index published, 0 before the first
  opened,     \* the index last opened for this board, 0 before the first
  board,      \* what each line shows
  attrs,      \* the index the dates beside each line were taken from
  live        \* whether there are sensors

bvars == <<published, opened, board, attrs, live>>

(* Rows of an index, under the end of that same index's window.            *)
Rows(b) == [kind |-> "rows", build |-> b, window |-> b]

Init ==
  /\ published = 0 /\ opened = 0
  /\ board = [w \in Watch |-> None]
  /\ attrs = [w \in Watch |-> 0]
  /\ live = FALSE

Publish ==
  /\ published' = published + 1
  /\ UNCHANGED <<opened, board, attrs, live>>

(* Whatever was published meanwhile, it is the newest index that is opened. *)
Reopen ==
  /\ opened' = published
  /\ UNCHANGED <<published, board, attrs, live>>

(* What may take the place of a line that shows old.                       *)
Replaces(old, new) ==
  \/ new \in Messages
  \/ \E b \in 1 .. opened : new = Rows(b) /\ (old.kind = "rows" => b >= old.build)

(* The lines of W are told something, and the sensors behind them, if      *)
(* there are any, write the dates of the index that is open.               *)
Tell(W) ==
  /\ \A w \in W : Replaces(board[w], board'[w])
  /\ board' = [w \in Watch |-> IF w \in W THEN board'[w] ELSE board[w]]
  /\ attrs' = [w \in Watch |-> IF live /\ w \in W THEN opened ELSE attrs[w]]
  /\ UNCHANGED <<published, opened, live>>

(* The sensors appear, with the dates of the index that is open.           *)
GoLive ==
  /\ ~live /\ live' = TRUE
  /\ attrs' = [w \in Watch |-> opened]
  /\ UNCHANGED <<published, opened, board>>

EndLive ==
  /\ live /\ live' = FALSE
  /\ UNCHANGED <<published, opened, board, attrs>>

(* The entry is set up again: an empty board, and nothing open.            *)
Renew ==
  /\ ~live
  /\ opened' = 0 /\ board' = [w \in Watch |-> None]
  /\ UNCHANGED <<published, attrs, live>>

Next ==
  \/ Publish \/ Reopen \/ GoLive \/ EndLive \/ Renew
  \/ \E W \in SUBSET Watch : Tell(W)

Spec == Init /\ [][Next]_bvars
=============================================================================
