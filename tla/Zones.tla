-------------------------------- MODULE Zones --------------------------------
(***************************************************************************)
(* What the XFR client promises about zones: a zone is begun only when it  *)
(* has no row, so there is at most one row per zone; it is asked for while *)
(* its row is unfinished, and the row gets its final status at most once.  *)
(* The process may be killed, or an update fail, and a row stay unfinished *)
(* for ever.                                                               *)
(*                                                                         *)
(* A row may also be lost while the client believes it is there.  Then the *)
(* zone is asked for without a row, and may be begun again; the id of the  *)
(* lost row strays: the row that gets it next, of whatever zone, may be    *)
(* given the status of this transfer.                                      *)
(***************************************************************************)
EXTENDS Naturals, Sequences

CONSTANT ZoneNames

VARIABLES
  table,     \* the rows, by their ids
  asking,    \* the transfers under way: their zones and the ids of their rows
  strays     \* the ids of rows that were lost

vars == <<table, asking, strays>>

Init == table = <<>> /\ asking = {} /\ strays = {}

RowOf(z)    == \E i \in DOMAIN table : table[i].zone = z
Transfer(z) == [zone |-> z, id |-> Len(table) + 1]

Begin(z) ==
  /\ ~RowOf(z)
  /\ table' = Append(table, [zone |-> z, status |-> "unfinished"])
  /\ asking' = asking \cup {Transfer(z)}
  /\ UNCHANGED strays

Stray(z) ==
  /\ ~RowOf(z)
  /\ asking' = asking \cup {Transfer(z)}
  /\ strays' = strays \cup {Transfer(z).id}
  /\ UNCHANGED table

(* The row of the transfer's id gets its status, if there is one and the   *)
(* update succeeds.  Two transfers of a zone may have the same stray id.   *)
End(t) ==
  /\ \/ UNCHANGED table
     \/ /\ t.id \in DOMAIN table
        /\ \E status \in {"success", "refused"} :
             table' = [table EXCEPT ![t.id].status = status]
  /\ \/ asking' = asking \ {t}
     \/ t.id \in strays /\ UNCHANGED asking
  /\ UNCHANGED strays

Kill == asking' = {} /\ strays' = {} /\ UNCHANGED table

Next == \/ Kill
        \/ \E z \in ZoneNames : Begin(z) \/ Stray(z)
        \/ \E t \in asking : End(t)

Spec == Init /\ [][Next]_vars

-----------------------------------------------------------------------------
(* A zone has one row at most, and is asked for only while its row is      *)
(* there and unfinished; but for transfers with a stray id.                *)
OneRowEach ==
  \A i, j \in DOMAIN table : table[i].zone = table[j].zone => i = j

AskedUnfinished ==
  \A t \in asking :
     \/ t.id \in strays
     \/ /\ t.id \in DOMAIN table
        /\ table[t.id] = [zone |-> t.zone, status |-> "unfinished"]

(* A zone is begun only when it has no row, no row is removed or becomes   *)
(* that of another zone, and one that has its final status keeps it,       *)
(* unless its id is a stray one.                                           *)
KeepsRows ==
  /\ \A t \in asking' \ asking : ~RowOf(t.zone)
  /\ \A i \in DOMAIN table :
       /\ i \in DOMAIN table' /\ table'[i].zone = table[i].zone
       /\ table'[i] # table[i] => table[i].status = "unfinished" \/ i \in strays

RowsFinal == [][KeepsRows]_vars
=============================================================================
