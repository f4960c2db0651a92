--------------------------- MODULE RequestService ---------------------------
(***************************************************************************)
(* What the desktop application relies on when it talks to the sidecar     *)
(* (README.md, "Runtime Layers"): accepted requests are served one at a    *)
(* time in the order in which they were sent; while one is served,         *)
(* notifications of its progress may be written; then comes its answer,    *)
(* exactly once, if it asked for one.  When the sidecar stops, what it had *)
(* accepted and not served is lost, and nothing is written any more.       *)
(***************************************************************************)
EXTENDS Integers, Sequences, SequencesExt

CONSTANTS
    Requests,   \* the requests a client may send
    Owed        \* those of them that are to be answered

VARIABLES
    queue,      \* accepted and not finished, oldest first: [no, req]
    log,        \* the frames written to the client: [no, kind]
    stopped     \* the sidecar has ended

vars == <<queue, log, stopped>>

Increasing(q) == \A i, j \in DOMAIN q : i < j => q[i].no < q[j].no

Init == queue = <<>> /\ log = <<>> /\ stopped = FALSE

\* One or more requests arrive; the client numbers them in the order in which
\* it sends them.
Accept ==
    /\ ~stopped
    /\ IsStrictPrefix(queue, queue')
    /\ Increasing(queue')
    /\ \A i \in DOMAIN log, j \in DOMAIN queue' \ DOMAIN queue :
           log[i].no < queue'[j].no
    /\ UNCHANGED <<log, stopped>>

Notify ==
    /\ ~stopped /\ queue # <<>>
    /\ log' = Append(log, [no |-> Head(queue).no, kind |-> "event"])
    /\ UNCHANGED <<queue, stopped>>

\* A request to shut down is answered and ends the sidecar.
Finish ==
    /\ ~stopped /\ queue # <<>>
    /\ log' = IF Head(queue).req \in Owed
              THEN Append(log, [no |-> Head(queue).no, kind |-> "answer"])
              ELSE log
    /\ \/ queue' = Tail(queue) /\ UNCHANGED stopped
       \/ queue' = <<>> /\ stopped' = TRUE

Stop ==
    /\ ~stopped
    /\ stopped' = TRUE
    /\ queue' = <<>>
    /\ UNCHANGED log

Next == Accept \/ Notify \/ Finish \/ Stop

Spec == Init /\ [][Next]_vars
=============================================================================
