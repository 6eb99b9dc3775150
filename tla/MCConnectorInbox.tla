---------------------------- MODULE MCConnectorInbox ----------------------------
(* Model values and symmetry for checking ConnectorInbox.                  *)
EXTENDS ConnectorInbox, TLC

CONSTANTS l1, l2, o1, o2

Interchangeable == Permutations({l1, l2}) \cup Permutations({o1, o2})
=============================================================================
