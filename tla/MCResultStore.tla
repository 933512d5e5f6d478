---------------------------- MODULE MCResultStore ----------------------------
(* Instances of ResultStore for TLC: two tables, batches of two.           *)
EXTENDS ResultStore

Result(record, rule, passed) == [record |-> record, rule |-> rule, passed |-> passed]

(* Three failures and a pass of one table, two failures or none of another.*)
Books ==
  [table |-> <<"book">>,
   results |-> <<Result(<<"1">>, <<"title">>, FALSE), Result(<<"1">>, <<"year">>, FALSE),
                 Result(<<"2">>, <<"title">>, TRUE), Result(<<"2">>, <<"year">>, FALSE)>>]
Shelves ==
  [table |-> <<"shelf">>,
   results |-> <<Result(<<"1">>, <<"name">>, FALSE), Result(<<"2">>, <<"name">>, FALSE)>>]
CleanShelves == [table |-> <<"shelf">>, results |-> <<Result(<<"1">>, <<"name">>, TRUE)>>]
TwoTables == {Books, Shelves, CleanShelves}

(* Record 1 fails rule a_b and record 1_a fails rule b.                    *)
Underscores ==
  [table |-> <<"book">>,
   results |-> <<Result(<<"1">>, <<"a", "_", "b">>, FALSE),
                 Result(<<"1", "_", "a">>, <<"b">>, FALSE)>>]
OneTable == {Underscores}

Words == {"book", "shelf", "1", "2", "title", "year", "name", "a", "b", "_",
          "0s", "1s", "2s", "3s"}
FourSeconds == <<"0s", "1s", "2s", "3s">>
=============================================================================
