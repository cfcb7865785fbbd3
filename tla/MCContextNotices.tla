-------------------------- MODULE MCContextNotices --------------------------
(* Two overlapping switch tasks and the queue of their results. *)
EXTENDS ContextNotices
=============================================================================
