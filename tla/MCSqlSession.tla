---------------------------- MODULE MCSqlSession ----------------------------
(* Two services, one configured database and one that is not. *)
EXTENDS MFSqlSession
=============================================================================
