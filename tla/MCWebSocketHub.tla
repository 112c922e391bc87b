--------------------------- MODULE MCWebSocketHub ---------------------------
(***************************************************************************)
(* Small instances of WebSocketHub: connections and users are model values,*)
(* given in each .cfg.  No symmetry: WebSocketHub.cfg checks liveness too. *)
(***************************************************************************)
EXTENDS WebSocketHub, TLC
=============================================================================
