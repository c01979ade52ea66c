----------------------------- MODULE MCMainLoop -----------------------------
(* Two pipes, camera to sink through the passthrough, with few buffers.     *)
EXTENDS MainLoop
=============================================================================
