---------------------------- MODULE MCLogRetention ----------------------------
(* Small instances of LogRetention for TLC. *)
EXTENDS LogRetention, TLC

CONSTANTS p1, p2, d1, d2, k1, k2

OneCaller == p1 :> {d1} @@ p2 :> {}
NoCallers == p1 :> {}
BothTables == <<"api_logs", "LoginAudit">>

=============================================================================
