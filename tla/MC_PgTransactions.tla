-------------------------- MODULE MC_PgTransactions --------------------------
(***************************************************************************)
(* A small instance of PgTransactions: pages found at one url and at       *)
(* another, and links in two orders.                                       *)
(***************************************************************************)
EXTENDS PgTransactions

CONSTANTS a, b

TwoPages == {<<a, a>>, <<b, a>>, <<a, b>>}
BothOrders == {<<a, b>>, <<b, a>>}
=============================================================================
