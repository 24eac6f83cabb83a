----------------------------- MODULE MCTorStartup -----------------------------
(* The start of the client on a platform, with a page that is reloaded.    *)
EXTENDS TorStartup
===============================================================================
