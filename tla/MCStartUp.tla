----------------------------- MODULE MCStartUp -----------------------------
(* Two goroutines, sources with two rules, one rule, none and none valid,  *)
(* and requirements over two tables, one of which a migration changes.     *)
EXTENDS StartUp

CONSTANTS c1, c2, a, b, book, shelf, badname, title, size, holder

Rule(i, active) == [id |-> i, table |-> IF active THEN book ELSE shelf, active |-> active]
Spec2(t, k, type) == [table |-> t, column |-> k, type |-> type]

(* An int64 column is fine as an integer, a varchar one as text; a spec    *)
(* without a table; a table whose name cannot be quoted.                   *)
Demanding ==
  [tables |-> {book},
   columns |-> {Spec2(book, title, "varchar"), Spec2(shelf, size, "int64"),
                Spec2(Missing, size, "text")},
   relations |-> {holder}]
Modest == [Demanding EXCEPT !.columns = {Spec2(shelf, size, "integer"), Spec2(book, title, "text")}]
Unquotable == [NoRequires EXCEPT !.tables = {badname}]

AllVersions ==
  {[valid |-> TRUE, rules |-> <<Rule(a, TRUE), Rule(b, FALSE)>>, requires |-> Demanding],
   [valid |-> TRUE, rules |-> <<Rule(b, TRUE)>>, requires |-> Modest],
   [valid |-> TRUE, rules |-> <<>>, requires |-> Unquotable],
   [valid |-> FALSE, rules |-> <<>>, requires |-> NoRequires]}

BookShapes == {[k \in Columns |-> IF k = title THEN "text" ELSE Missing],
               [k \in Columns |-> IF k = size THEN "integer" ELSE Missing],
               [k \in Columns |-> IF k = size THEN "blob" ELSE "text"]}
AllSchemas == {s \in [SchemaTables -> Shapes \cup {NoShape}] : s[badname] = NoShape}
=============================================================================
