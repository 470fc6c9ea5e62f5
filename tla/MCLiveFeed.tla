----------------------------- MODULE MCLiveFeed -----------------------------
(* The instance of LiveFeed for TLC is in its .cfg: enough broadcasts to    *)
(* push one out of the store, two clients so that the life of one overlaps   *)
(* that of the next.                                                        *)
EXTENDS LiveFeed
=============================================================================
