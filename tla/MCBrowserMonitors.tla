------------------------- MODULE MCBrowserMonitors -------------------------
(* BrowserMonitors in two tabs of a browser, with one monitor. *)
EXTENDS BrowserMonitors

CONSTANTS t1, t2, m1
=============================================================================
