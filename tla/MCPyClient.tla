----------------------------- MODULE MCPyClient -----------------------------
(* Small sets of requests: a deletion by ids and one by filter, with an id   *)
(* that is there and one that may not be, next to every other kind of call.  *)
EXTENDS PyClient

Ask(kind, filtered, ids) == [kind |-> kind, filtered |-> filtered, ids |-> ids]

Insertion == Ask("insert", FALSE, {})
Deletion  == Ask("delete", FALSE, {1})
Filtered  == Ask("delete", TRUE, {2, 4})
Update    == Ask("update", FALSE, {2})
Search    == Ask("search", FALSE, {})
Page      == Ask("page", FALSE, {})
Statistics == Ask("stats", FALSE, {})
FilteredSearch == Ask("search", TRUE, {})

AllRequests == {Insertion, Deletion, Filtered, Update, Search, Page, Statistics,
                FilteredSearch}

DeletionAndSearch == {Deletion, Search}
=============================================================================
