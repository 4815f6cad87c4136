---------------------------- MODULE MCWebSession ----------------------------
(***************************************************************************)
(* WebSession on two tabs of one browser, with two requests and two        *)
(* refreshes under way at a time: enough for a queue behind a refresh, for *)
(* refreshes of both tabs, and of a page and the page before it, at once.  *)
(***************************************************************************)
EXTENDS WebSession
=============================================================================
