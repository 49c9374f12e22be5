----------------------------- MODULE MCExecutor ------------------------------
(* Small instances of the executor.                                        *)
EXTENDS ExecutorRefinement

Cmd(key, type, site, n, kind, size, bounded) ==
    [key |-> key, type |-> type, site |-> site, need |-> [d \in Dims |-> n],
     kind |-> kind, size |-> size, bounded |-> bounded, valid |-> TRUE, parses |-> TRUE]

OneDim == {"workers"}
TwoOfEach == [d \in OneDim |-> 2]
OnePerPool == [k \in Kinds |-> 1]

\* Capacity: a plan that fills the host, its shrinking, a second site that then
\* fits and whose result is larger than the store, and a delete.
CapacityKeys == {"create1", "shrink1", "create2", "delete1"}
CapacitySites == {"s1", "s2"}
CapacityCommands ==
    { Cmd("create1", "create", "s1", 2, "none", 1, TRUE),
      Cmd("shrink1", "update", "s1", 1, "none", 1, TRUE),
      Cmd("create2", "create", "s2", 1, "none", 11, TRUE),
      Cmd("delete1", "delete", "s1", 0, "none", 1, TRUE) }

\* Idempotency: a slow backup, an uncached verification for the same pool, a
\* ping without a timeout, system.reset, and two commands that are refused.
IdemKeys == {"backup", "verify", "ping", "reset", "bad"}
IdemSites == {"s1"}
IdemCommands ==
    { Cmd("backup", "mutate", "s1", 0, "backup", 1, TRUE),
      Cmd("verify", "read", "s1", 0, "backup", 1, TRUE),
      Cmd("ping", "ping", "s1", 0, "none", 2, FALSE),
      Cmd("reset", "reset", "s1", 0, "none", 1, TRUE),
      [Cmd("bad", "delete", "s1", 0, "none", 1, TRUE) EXCEPT !.parses = FALSE],
      [Cmd("bad", "delete", "s1", 0, "none", 1, TRUE) EXCEPT !.valid = FALSE] }
=============================================================================
