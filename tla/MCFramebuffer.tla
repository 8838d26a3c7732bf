--------------------------- MODULE MCFramebuffer ----------------------------
(***************************************************************************)
(* Framebuffer for TLC: a screen and a ring of a few rows.                 *)
(***************************************************************************)
EXTENDS Framebuffer
=============================================================================
