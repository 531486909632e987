-------------------------------- MODULE SortOrder --------------------------------
(***************************************************************************)
(* res/rqutil: UpsertModel on a table that keeps a sort order.  The row    *)
(* written asks for a Place; the statement that follows in the same        *)
(* transaction gives every row of every partition (Group) its rank, the    *)
(* omitted (Hidden) rows after the others, the row just written before an  *)
(* older one that has the place it asked for.  A call under a Config with  *)
(* NoSortOrderUpdate leaves the places as they were written.  One upsert   *)
(* at a time: two transactions at once are the database's business.        *)
(***************************************************************************)
EXTENDS Naturals, Sequences, FiniteSets

CONSTANTS MaxRows,    \* bound on the rows inserted
          Places, Groups

ASSUME SortAssumption == MaxRows \in Nat /\ Places \subseteq Nat

VARIABLES rows,      \* the table; a row's id is its index
          written,   \* the id of the last upsert, 0 before the first
          ranked     \* whether it ranked the table

sortVars == <<rows, written, ranked>>

\* The struct: Place is tagged sort_order and omitempty, Group is the
\* partition, Hidden the omitted flag, Code is tagged no_update.
Columns == {"Place", "Group", "Hidden", "Code"}
OmitEmpty == {"Place"}
NoUpdate == {"Code"}

SortInit == rows = <<>> /\ written = 0 /\ ranked = FALSE

-----------------------------------------------------------------------------
UpsertFields(obj) == {f \in Columns : f \in OmitEmpty => obj[f] # 0}

Inserted(obj) ==
  Append(rows, [f \in Columns |-> IF f \in UpsertFields(obj) THEN obj[f] ELSE 0])
\* Updating a row that is not there changes nothing and is no error.
Updated(id, obj) ==
  [i \in DOMAIN rows |->
     [f \in Columns |-> IF i = id /\ f \in UpsertFields(obj) \ NoUpdate
                        THEN obj[f] ELSE rows[i][f]]]

Before(x, y) ==
  \/ x[1] < y[1]
  \/ x[1] = y[1] /\ x[2] < y[2]
  \/ x[1] = y[1] /\ x[2] = y[2] /\ x[3] < y[3]

\* Mutant: the id does not break a tie.
RanksTied(table, id) ==
  [i \in DOMAIN table |->
     1 + Cardinality({j \in DOMAIN table :
            /\ table[j].Group = table[i].Group
            /\ Before(<<table[j].Hidden, table[j].Place, 0>>,
                      <<table[i].Hidden, table[i].Place, 0>>)})]

Ranks(table, id) ==
  LET key(i) == <<table[i].Hidden, table[i].Place, IF i = id THEN 0 ELSE i>>
  IN [i \in DOMAIN table |->
        1 + Cardinality({j \in DOMAIN table : /\ table[j].Group = table[i].Group
                                              /\ Before(key(j), key(i))})]
HandleSortOrder(table, id) ==
  LET rank == Ranks(table, id)
  IN [i \in DOMAIN table |-> [table[i] EXCEPT !.Place = rank[i]]]

UpsertModel(id, obj, sort) ==
  LET table == IF id = 0 THEN Inserted(obj) ELSE Updated(id, obj)
      new == IF id = 0 THEN Len(table) ELSE id
  IN /\ id = 0 => Len(rows) < MaxRows
     /\ rows' = IF sort THEN HandleSortOrder(table, new) ELSE table
     /\ written' = new
     /\ ranked' = sort

SortNext ==
  \E id \in 0..MaxRows, place \in Places, group \in Groups, hidden \in 0..1, sort \in BOOLEAN :
    UpsertModel(id, [Place |-> place, Group |-> group, Hidden |-> hidden,
                     Code |-> IF id = 0 THEN 1 ELSE 2], sort)
SortSpec == SortInit /\ [][SortNext]_sortVars

-----------------------------------------------------------------------------
Peers(table, i) == {j \in DOMAIN table : table[j].Group = table[i].Group}
\* Every partition is numbered from one, without ties or gaps, omitted rows last.
Dense(table) ==
  \A i \in DOMAIN table :
    /\ {table[j].Place : j \in Peers(table, i)} = 1..Cardinality(Peers(table, i))
    /\ \A j \in Peers(table, i) : table[j].Hidden < table[i].Hidden =>
                                    table[j].Place < table[i].Place
Precedes(table, i, j) ==
  Before(<<table[i].Hidden, table[i].Place, i>>, <<table[j].Hidden, table[j].Place, j>>)

\* Whatever upserts came before, ranked or not, one that ranks leaves every
\* partition numbered 1..n, omitted rows last, and the rows it did not write in
\* the order they had; a no_update column keeps what the insert gave it.
PlacesSettle ==
  [][/\ ranked' => Dense(rows')
     /\ \A i, j \in DOMAIN rows \ {written'} :
          rows[i].Group = rows[j].Group /\ Precedes(rows, i, j) => Precedes(rows', i, j)
     /\ \A i \in DOMAIN rows : rows'[i].Code = rows[i].Code]_sortVars
=============================================================================
