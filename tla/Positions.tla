------------------------------- MODULE Positions -------------------------------
(***************************************************************************)
(* Positions in the append-only tables and logs of TorqPro.                *)
(***************************************************************************)
EXTENDS Naturals

(* The row that counts: the last of those a query selects (ORDER BY id, or *)
(* the order of the file).                                                 *)
LastOf(idx) == CHOOSE i \in idx : \A j \in idx : j <= i

=============================================================================
