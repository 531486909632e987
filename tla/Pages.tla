---------------------------------- MODULE Pages ----------------------------------
(***************************************************************************)
(* Lists of rows sent a page at a time: paginate.Query with the Config a   *)
(* request decodes to, and rqutil.GetListQrOpt.  A row is a record of      *)
(* numbers, a search word the set of values it matches, and the answer of  *)
(* a query the set of the answers the database may give, since rows the    *)
(* order leaves equal may come in any order; it has none if it throws.     *)
(***************************************************************************)
EXTENDS Paging, FiniteSets

SX == INSTANCE SequencesExt

Throws == <<"throws">>
ListLimit == 2     \* GetListQrOpt's 100, scaled to the rows below

-----------------------------------------------------------------------------
\* Column names, as sequences of characters.
Upper == {"A", "B"}
Lowers == {"a", "b"}
ToLower(c) == CASE c = "A" -> "a" [] c = "B" -> "b" [] OTHER -> c
camelCaseToSnakeCase(s) ==
  SX!FoldLeftDomain(
    LAMBDA out, i : (IF s[i] \in Upper /\ i # 1 THEN Append(out, "_") ELSE out)
                      \o <<ToLower(s[i])>>, <<>>, s)
SanitizeDbColumn(name, mapping) ==
  LET lower == [i \in DOMAIN name |-> ToLower(name[i])]
      col == camelCaseToSnakeCase(SelectSeq(name, LAMBDA c : c # " "))
  IN IF name \in DOMAIN mapping THEN mapping[name]
     ELSE IF lower \in DOMAIN mapping THEN mapping[lower]
     ELSE IF col # <<>> /\ \A i \in DOMAIN col : col[i] \in Lowers \cup {"_"} THEN col
     ELSE Throws

\* The directions and the operators that do not throw.
SanitizeOrderByDirection == {"asc", "desc", ""}
Operators == {"=", ">=", "<=", "<", ">"}

-----------------------------------------------------------------------------
\* Config: what comes later in the list wins, filters add up, lists nest.
NoConfig == [searchFields |-> {}, search |-> {}, orderBy |-> <<>>, direction |-> "",
             page |-> 0, pageSize |-> 0, download |-> FALSE, filter |-> {},
             mapping |-> <<>>]

RECURSIVE decodeConfig(_, _)
decodeConfig(cfg, list) ==
  SX!FoldLeft(
    LAMBDA c, item :
      CASE item.kind = "searchFields" -> [c EXCEPT !.searchFields = item.value]
        [] item.kind = "mapping" -> [c EXCEPT !.mapping = item.value]
        [] item.kind = "search" -> [c EXCEPT !.search = item.value]
        [] item.kind = "orderBy" -> [c EXCEPT !.orderBy = item.value,
                                              !.direction = item.direction]
        [] item.kind = "paging" -> [c EXCEPT !.page = item.page, !.pageSize = item.pageSize]
        [] item.kind = "download" -> [c EXCEPT !.download = item.value]
        [] item.kind = "filter" -> [c EXCEPT !.filter = @ \cup {item.value}]
        [] item.kind = "filters" -> [c EXCEPT !.filter = @ \cup item.value]
        [] item.kind = "list" -> decodeConfig(c, item.value),
    cfg, list)

\* The table has a column "a", the value, and "b", the id.
DbColumns == {<<"a">>, <<"b">>}
Cell(r, col) == IF col = <<"a">> THEN r.v ELSE r.id

Holds(cell, f) ==
  CASE f.operator = "=" -> cell = f.value
    [] f.operator = ">=" -> cell >= f.value
    [] f.operator = "<=" -> cell <= f.value
    [] f.operator = "<" -> cell < f.value
    [] f.operator = ">" -> cell > f.value
applySearch(rows, cfg) ==
  IF cfg.searchFields = {} \/ cfg.search = {} THEN rows
  ELSE {r \in rows : \E f \in cfg.searchFields : Cell(r, f) \in cfg.search}

Column(name, cfg) == SanitizeDbColumn(name, cfg.mapping)

\* A name that throws or an operator that does, and a column the database lacks.
FiltersThrow(cfg) ==
  \E f \in cfg.filter : f.operator \notin Operators \/ Column(f.column, cfg) \notin DbColumns
applyFilters(rows, cfg) ==
  {r \in rows : \A f \in cfg.filter : Holds(Cell(r, Column(f.column, cfg)), f)}

\* The sequences of the rows that an ORDER BY admits.
Less(r, s, cols, asc) ==
  \E i \in DOMAIN cols :
    /\ \A j \in 1..i-1 : Cell(r, cols[j]) = Cell(s, cols[j])
    /\ IF asc THEN Cell(r, cols[i]) < Cell(s, cols[i]) ELSE Cell(s, cols[i]) < Cell(r, cols[i])
Ordered(rows, cols, asc) ==
  {s \in [1..Cardinality(rows) -> rows] :
     \A i, j \in DOMAIN s : i < j => s[i] # s[j] /\ ~ Less(s[j], s[i], cols, asc)}

\* The direction follows every column, and is looked at without any too.
decodeOrderBy(cfg) == [i \in DOMAIN cfg.orderBy |-> Column(cfg.orderBy[i], cfg)]
OrderThrows(cfg) ==
  \/ cfg.direction \notin SanitizeOrderByDirection
  \/ \E i \in DOMAIN cfg.orderBy : decodeOrderBy(cfg)[i] \notin DbColumns
applyOrderBy(rows, cfg) == Ordered(rows, decodeOrderBy(cfg), cfg.direction # "desc")

Query(rows, config) ==
  LET cfg == decodeConfig(NoConfig, config)
      kept == applyFilters(applySearch(rows, cfg), cfg)
  IN CASE FiltersThrow(cfg) \/ OrderThrows(cfg) -> {}
       [] OTHER -> IF cfg.download THEN {[data |-> s] : s \in applyOrderBy(kept, cfg)}
                   ELSE {[data |-> applyPager(s, cfg), totalCount |-> Cardinality(kept)] :
                           s \in applyOrderBy(kept, cfg)}

\* The list of rqutil: the archived rows or the others, the newest first; the
\* count is of the query without its offset and limit.
GetListQr(rows, offset, search, archived, searchFields) ==
  LET kept == {r \in (IF search = {} THEN rows
                      ELSE {r \in rows : \E f \in searchFields : Cell(r, f) \in search}) :
                 r.archived = archived}
  IN {[data |-> Limited(s, offset, ListLimit), count |-> Cardinality(kept)] :
        s \in Ordered(kept, <<<<"b">>>>, FALSE)}

-----------------------------------------------------------------------------
\* The table: the values are those of the rows' other column.
Table(values) ==
  {[id |-> i, v |-> values[i], archived |-> values[i] = 2] : i \in DOMAIN values}

\* An order that ends in a column without ties: the pages, whatever their size,
\* one after the other are the download, and each of them has its count.
WalkAgrees(rows, config, sizes) ==
  LET all == Query(rows, config \o <<[kind |-> "download", value |-> TRUE]>>)
      whole == (CHOOSE a \in all : TRUE).data
      page(n, size) == Query(rows, config \o
                         <<[kind |-> "paging", page |-> n, pageSize |-> size]>>)
      read(size) == SX!FoldLeft(LAMBDA acc, n : acc \o (CHOOSE a \in page(n, size) : TRUE).data,
                                <<>>, <<0, 1, 2, 3>>)
  IN /\ Cardinality(all) = 1
     /\ \A size \in sizes :
          /\ read(size) = whole
          /\ \A n \in -1..3 : \A a \in page(n, size) :
               /\ a.totalCount = Len(whole) /\ Len(a.data) <= MaxPageSize
               /\ a.data = <<>> => n > 0 \/ whole = <<>>

Queries(values) ==
  {[kind |-> "list", value |-> <<[kind |-> "search", value |-> q],
      [kind |-> "orderBy", value |-> <<<<"A">>, <<"b">>>>, direction |-> d],
      [kind |-> "filters", value |-> f]>>] :
     q \in {{}, {0, 1}}, d \in {"", "desc"},
     f \in {{}, {[column |-> <<"a">>, operator |-> ">=", value |-> 1]}}}

ListAgrees(values) ==
  \A archived \in BOOLEAN, search \in {{}, {0}} :
    LET answer(o) == CHOOSE a \in GetListQr(Table(values), o, search, archived, {<<"a">>}) : TRUE
        data == answer(0).data \o answer(ListLimit).data
    IN /\ Len(data) = answer(0).count
       /\ \A i, j \in DOMAIN data : i < j => data[i].id > data[j].id
       /\ answer(0).count = answer(ListLimit).count

\* A column's name is what the mapping has for it as it is written, or for its small
\* letters: a key with a capital is not found ignoring case.  A name the mapping
\* lacks must be small letters and underscores once its spaces are gone and its
\* capitals changed, and then stands for itself.
ColumnAgrees(name) ==
  LET alone == SanitizeDbColumn(name, <<>>)
      With(key) == SanitizeDbColumn(name, [n \in {<<key>>} |-> <<"b">>]) IN
  /\ alone = Throws <=> \/ \A i \in DOMAIN name : name[i] = " "
                        \/ \E i \in DOMAIN name : name[i] = "1"
  /\ alone # Throws => /\ \A i \in DOMAIN alone : alone[i] \in Lowers \cup {"_"}
                       /\ SanitizeDbColumn(alone, <<>>) = alone
  /\ name \in {<<"a">>, <<"A">>} <=> With("a") # alone
  /\ name = <<"A">> <=> With("A") # alone

\* A query by that name throws alike for a page and for a download, exactly when
\* the name, the direction or the operator is not one it takes, and else answers
\* what it answers for the column itself.
NamedQueryAgrees(name) ==
  \A d \in {"", "asc", "desc", "up"}, o \in {">=", "<", "!="} :
    LET rows == {[id |-> i, v |-> i % 2, archived |-> FALSE] : i \in 1..3}
        Asked(n) == <<[kind |-> "orderBy", value |-> <<n, <<"b">>>>, direction |-> d],
                      [kind |-> "filter", value |-> [column |-> n, operator |-> o, value |-> 1]]>>
        page == Query(rows, Asked(name))
        column == SanitizeDbColumn(name, <<>>)
    IN /\ page = {} <=> Query(rows, Asked(name) \o <<[kind |-> "download", value |-> TRUE]>>) = {}
       /\ page = {} <=> column # <<"a">> \/ d = "up" \/ o = "!="
       /\ page # {} => page = Query(rows, Asked(column))

Agree(values, name) ==
  /\ \A r \in Queries(values) :
       WalkAgrees(Table(values), <<[kind |-> "searchFields", value |-> {<<"a">>}], r>>, -1..3)
  /\ ListAgrees(values) /\ ColumnAgrees(name) /\ NamedQueryAgrees(name)
=============================================================================
