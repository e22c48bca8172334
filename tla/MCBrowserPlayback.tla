------------------------- MODULE MCBrowserPlayback -------------------------
(* TLC instance of BrowserPlayback: two responses of one connection.       *)
EXTENDS BrowserPlayback
=============================================================================
