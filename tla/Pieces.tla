------------------------------- MODULE Pieces -------------------------------
(***************************************************************************)
(* Cutting the positions 1 .. n of a list into pieces of one size, as the  *)
(* simulator does it for the pages of a list and the ranges of the SCADA   *)
(* tree (main.py) and for the TCP ports of a fleet (modbus_server.py).     *)
(***************************************************************************)
EXTENDS Integers

Lower(a, b) == IF a <= b THEN a ELSE b

(* -------------------------- pieces of one size -------------------------- *)

\* ceil(n / size)
PieceCount(n, size) == (n + size - 1) \div size

\* Piece number k, from 0, of the positions 1 .. n.
FirstOf(size, k) == k * size + 1
LastOf(n, size, k) == Lower((k + 1) * size, n)
Piece(n, size, k) == FirstOf(size, k) .. LastOf(n, size, k)

(* --------------------------------- pages -------------------------------- *)

TotalPages(n, size) == IF n = 0 THEN 1 ELSE PieceCount(n, size)

\* _paginate(): the positions on the page that is shown when one is asked for; a page
\* beyond the last one is the last one.
PageShown(n, size, page) ==
    Piece(n, size, (IF page < 1 THEN 1 ELSE Lower(page, TotalPages(n, size))) - 1)
=============================================================================
