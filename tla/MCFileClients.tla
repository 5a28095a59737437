--------------------------- MODULE MCFileClients ---------------------------
(***************************************************************************)
(* FileClients for TLC: two processes that share one file inside lock_file *)
(* or one file without it, transfer, or start services.                    *)
(***************************************************************************)
EXTENDS FileClients

CONSTANTS a, b, locked, open, logs

MCContents == {<<1, 2>>, <<3>>}
MCRemote   == <<4, 5>>
MCMixes ==
  {[does |-> {"lock", "read", "write"}, files |-> {locked}],
   [does |-> {"read", "write"}, files |-> {open}],
   [does |-> {"lock", "transfer", "read"}, files |-> {locked}],
   [does |-> {"unzip"}, files |-> {}],
   [does |-> {"request"}, files |-> {}],
   [does |-> {"serve"}, files |-> {}]}
============================================================================
