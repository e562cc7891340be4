--------------------------- MODULE MCENILifecycle ---------------------------
(* A small instance of ENILifecycle for TLC. *)
EXTENDS ENILifecycle

\* One failed call in each AllocENI or FreeENI; as many as deleteENI can bear, while
\* others attach ENIs; whatever may happen, without restarts and with them.
MCWorlds ==
  { [failures |-> 1, faults |-> {}],
    [failures |-> 2, faults |-> {"attach"}],
    [failures |-> 9, faults |-> {"answers", "attach", "detach"}],
    [failures |-> 2, faults |-> {"answers", "agent", "attach", "detach"}] }

=============================================================================
