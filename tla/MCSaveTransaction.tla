------------------------- MODULE MCSaveTransaction -------------------------
(* Three saves after the first version: enough for a save on top of what a *)
(* crashed save left on top of what a failed rollback left.                *)
EXTENDS SaveTransaction
=============================================================================
