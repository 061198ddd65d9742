--------------------------- MODULE MCOutboxWorker ---------------------------
(* Small instances of OutboxWorker: a route of three services, a route of  *)
(* two and an unknown type.                                                *)
EXTENDS OutboxWorker

CONSTANTS approved, withdrawn, unknown      \* documents

MCTypeOf ==
  [e \in Events |-> CASE e = approved  -> "user.registered"
                      [] e = withdrawn -> "enrollment.withdrawn"
                      [] OTHER         -> "user.renamed"]
============================================================================
