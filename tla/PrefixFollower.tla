--------------------------- MODULE PrefixFollower ---------------------------
(***************************************************************************)
(* What a cursor promises, whoever keeps it: a follower handles the items  *)
(* of a sequence of blocks in block order.  A step moves the cursor        *)
(* forward and handles, at once, every item of the blocks it moved over.   *)
(***************************************************************************)
EXTENDS Integers

CONSTANTS
  Items,     \* what there is to handle; each item has a block
  NoCursor   \* the cursor before it is initialised

VARIABLES
  cursor,    \* the last block handled
  done       \* the items handled

vars == <<cursor, done>>

Between(a, b) == {i \in Items : a < i.block /\ i.block <= b}

Init == cursor = NoCursor /\ done = {}

(* The cursor is placed: what lies at or below it counts as handled.       *)
Begin ==
  /\ cursor = NoCursor
  /\ cursor' \in Int \ {NoCursor}
  /\ done' = {i \in Items : i.block <= cursor'}

Advance ==
  /\ cursor # NoCursor
  /\ cursor' \in Int \ {NoCursor}
  /\ cursor' > cursor
  /\ done' = done \cup Between(cursor, cursor')

Next == Begin \/ Advance

Spec == Init /\ [][Next]_vars

(* The handled items are exactly those at or below the cursor.             *)
PrefixDone ==
  IF cursor = NoCursor THEN done = {}
                       ELSE done = {i \in Items : i.block <= cursor}

=============================================================================
