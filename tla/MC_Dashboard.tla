---------------------------- MODULE MC_Dashboard ----------------------------
(* Dashboard for two cycles, of which a page may follow the first, the second *)
(* or each in turn, with up to one row for the panels, to be missed or shown. *)
EXTENDS Dashboard
=============================================================================
