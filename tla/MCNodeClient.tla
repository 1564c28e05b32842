---------------------------- MODULE MCNodeClient ----------------------------
(* Requests for NodeClient: a deletion and an update that hit and that miss.  *)
EXTENDS NodeClient

R(kind, filtered, ids) == [kind |-> kind, filtered |-> filtered, ids |-> ids]

MCRequests ==
  {R("insert", FALSE, {}), R("delete", FALSE, {1}), R("delete", TRUE, {9}),
   R("update", FALSE, {1}), R("update", FALSE, {9}),
   R("search", TRUE, {}), R("page", FALSE, {})}
=============================================================================
