--------------------------- MODULE MCMemoryService ---------------------------
(* One fetch and one push.                                                    *)
EXTENDS MemoryService

MCClients == {"fetch", "push"}
MCFetching == {"fetch"}
=============================================================================
