--------------------------- MODULE MCPluginLifecycle ---------------------------
(* The node plugin's life with a few volumes and handlers. *)
EXTENDS PluginLifecycle

CONSTANTS v1, h1, h2
=============================================================================
