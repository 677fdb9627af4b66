------------------------------- MODULE Ledger -------------------------------
(***************************************************************************)
(* What the scanner promises its database, whatever its goroutines, queues *)
(* and snapshots do on the way: a scan that was started ends up as a row   *)
(* of the port table, a (host, port) pair has one row, and a row stays as  *)
(* it was first written.  There are no queues here, only the set of the    *)
(* scans that are open and the table.                                      *)
(***************************************************************************)
CONSTANTS
  Hosts, Ports, Replies,
  Lossy,      \* TRUE when a failing query may cost the result of a scan
  MayDie      \* TRUE when the process may be killed

Requests == [host : Hosts, port : Ports]
Results  == [host : Hosts, port : Ports, reply : Replies]

Request(row) == [host |-> row.host, port |-> row.port]

VARIABLES open,     \* the requests dispatched and not accounted for
          table     \* the port table

vars == <<open, table>>

TypeOK == open \subseteq Requests /\ table \subseteq Results

Init == open = {} /\ table = {}

Ask(req) == /\ open' = open \cup {req}
            /\ UNCHANGED table

(* The first result for a pair is its row, later ones are refused by the   *)
(* UNIQUE constraint.  The pair may have been asked for more than once, so *)
(* it may stay open.                                                       *)
Insert(tbl, row) ==
  IF \E r \in tbl : Request(r) = Request(row) THEN tbl ELSE tbl \cup {row}

Close(req) == open' \in {open, open \ {req}}

Settle(row) == /\ Request(row) \in open
               /\ table' = Insert(table, row)
               /\ Close(Request(row))

Lose(req) == /\ Lossy /\ req \in open
             /\ Close(req)
             /\ UNCHANGED table

(* A killed process forgets what was open.                                 *)
Die == /\ MayDie
       /\ open' = {}
       /\ UNCHANGED table

Next == \/ \E req \in Requests : Ask(req) \/ Lose(req)
        \/ \E row \in Results : Settle(row)
        \/ Die

Spec == Init /\ [][Next]_vars

-----------------------------------------------------------------------------
(* A pair of host and port has at most one row: the UNIQUE constraint of   *)
(* the port table, which PortAdd relies on.                                *)
UniqueRows ==
  \A r1, r2 \in table : Request(r1) = Request(r2) => r1 = r2

(* A row is never changed or removed, not by a later result for the same   *)
(* pair and not by a crash either.                                         *)
RowsPermanent == [][table \subseteq table']_vars

=============================================================================
