---------------------------- MODULE MCDatastore ----------------------------
(***************************************************************************)
(* An instance of Datastore: a database, and one that may be restored from *)
(* it, and a Redis store, of one project.                                  *)
(***************************************************************************)
EXTENDS Datastore

CONSTANT cache

DB == [project |-> <<"a">>, name |-> <<"db">>]
Copy == [project |-> <<"a">>, name |-> <<"copy">>]
OneProject == {DB, Copy}
WithCopy == {[db |-> DB, backups |-> TRUE, from |-> None], [db |-> Copy, backups |-> FALSE, from |-> DB]}

MCCaches == {cache}
MCHome == <<"a">>
============================================================================
