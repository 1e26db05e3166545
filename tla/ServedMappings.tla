--------------------------- MODULE ServedMappings ---------------------------
(***************************************************************************)
(* What the engine promises about its UDP sockets, without threads, locks, *)
(* requests or database sessions.  The configuration is a set of rows that *)
(* may change at any time.  The engine serves it in generations: it closes *)
(* every socket it has, reads the configuration once, and opens a socket   *)
(* for rows of that reading only.  Sockets of two readings are never open  *)
(* together, a socket is never opened twice, and no socket is closed while *)
(* a generation is being opened, unless the process ends.                  *)
(***************************************************************************)
CONSTANT Row        \* records with at least the fields id and port

VARIABLES
    table,          \* the rows the configuration selects now
    open,           \* the rows that have a socket
    plan            \* the rows of the last reading still to be opened

vars == <<table, open, plan>>

Init ==
    /\ table \subseteq Row
    /\ open = {}
    /\ plan = {}

\* Somebody edits the configuration; the sockets do not follow by themselves.
Edit ==
    /\ table' \subseteq Row
    /\ UNCHANGED <<open, plan>>

Close(x) ==
    /\ x \in open /\ plan = {}
    /\ open' = open \ {x}
    /\ UNCHANGED <<table, plan>>

Read ==
    /\ open = {} /\ plan = {}
    /\ plan' = table
    /\ UNCHANGED <<table, open>>

Serve(x) ==
    /\ x \in plan
    /\ \A y \in open : y.id # x.id /\ y.port # x.port
    /\ open' = open \cup {x}
    /\ plan' = plan \ {x}
    /\ UNCHANGED table

\* A row that cannot be opened is given up until the next reading.
Skip(x) ==
    /\ x \in plan
    /\ plan' = plan \ {x}
    /\ UNCHANGED <<table, open>>

\* An error ends a reading early; what is open stays open.
Abandon ==
    /\ plan' = {}
    /\ UNCHANGED <<table, open>>

ProcessEnds ==
    /\ open' = {} /\ plan' = {}
    /\ UNCHANGED table

Next ==
    \/ Edit \/ Read \/ Abandon \/ ProcessEnds
    \/ \E x \in open : Close(x)
    \/ \E x \in plan : Serve(x) \/ Skip(x)

Spec == Init /\ [][Next]_vars

=============================================================================
