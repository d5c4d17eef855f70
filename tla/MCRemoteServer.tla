--------------------------- MODULE MCRemoteServer ---------------------------
(* A small instance of RemoteServer for TLC.                                 *)
EXTENDS RemoteServer

\* The first controller asks for anything, the second copies a capture, keeps
\* the connection alive, or shuts the server down.
SomeRequests == <<Kinds, {"query", "copy", "shutdown"}>>

=============================================================================
