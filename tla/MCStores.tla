------------------------------ MODULE MCStores ------------------------------
(* Two clients of one process and one of another. In each behaviour they   *)
(* work with the session, its runs, both, or one of the other tables.      *)
EXTENDS Database, TLC

CONSTANTS c1, c2, c3, p1, p2

MCHome == c1 :> p1 @@ c2 :> p1 @@ c3 :> p2
SameProcess == Permutations({c1, c2})

MCWorkloads ==
  { [calls |-> 4, ops |-> {"get", "update"}],
    [calls |-> 4, ops |-> {"create", "get_run", "update_run"}],
    [calls |-> 3, ops |-> {"update", "create", "get_active"}],
    [calls |-> 3, ops |-> {"append", "messages"}],
    [calls |-> 4, ops |-> {"propose", "request", "pending", "decide"}],
    [calls |-> 3, ops |-> {"open", "touch", "page"}] }
=============================================================================
