---------------------------- MODULE MCArchiveHook ----------------------------
(* Two hooks whose jobs may have the same name; one of them can need a        *)
(* suffix.                                                                    *)
EXTENDS ArchiveHook
==============================================================================
