--------------------------- MODULE MCWatchedFeed ---------------------------
(* Small instances of WatchedFeed for TLC. *)
EXTENDS WatchedFeed

============================================================================
