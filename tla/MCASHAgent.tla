----------------------------- MODULE MCASHAgent -----------------------------
(***************************************************************************)
(* Instances of ASHAgent for TLC: two shells, the file watcher, and the    *)
(* flush timer.                                                            *)
(***************************************************************************)
EXTENDS ASHAgent

CONSTANTS bash1, bash2, inotify, timer

=============================================================================
