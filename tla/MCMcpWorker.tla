---------------------------- MODULE MCMcpWorker ----------------------------
(* A small instance of McpWorker for TLC.                                    *)
EXTENDS McpWorker

=============================================================================
