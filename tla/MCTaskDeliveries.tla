---------------------------- MODULE MCTaskDeliveries ----------------------------
(* A small instance of TaskDeliveries for TLC: two notifications, so that one can *)
(* be new or failing while the other is retried, and two crashes.                 *)
EXTENDS TaskDeliveries

CONSTANTS d1, d2

MCNotices == {d1, d2}
=============================================================================
