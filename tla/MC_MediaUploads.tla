-------------------------- MODULE MC_MediaUploads --------------------------
(* The bounded instance of MediaUploads for TLC: MC_MediaUploads.cfg.      *)
EXTENDS MediaUploads
=============================================================================
