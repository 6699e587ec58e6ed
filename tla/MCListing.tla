------------------------------ MODULE MCListing ------------------------------
(* Small row sets: ties, empty columns, rows the filter drops, rows too large for a page. *)
EXTENDS Listing

Row(i, k, m, b) == [id |-> i, key |-> k, match |-> m, bytes |-> b]

MCTables ==
    {{},
     {Row(1, 0, TRUE, 4)},
     {Row(1, Null, TRUE, 1), Row(2, 1, TRUE, 1), Row(3, 1, TRUE, 1), Row(4, 0, TRUE, 1)},
     {Row(1, 1, TRUE, 2), Row(2, 1, FALSE, 2), Row(3, 1, TRUE, 2), Row(4, Null, TRUE, 2),
      Row(5, 0, TRUE, 1)},
     {Row(1, 1, TRUE, 1), Row(2, 1, TRUE, 5)}}
=============================================================================
