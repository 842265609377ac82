------------------------------ MODULE MCClient ------------------------------
(***************************************************************************)
(* How the client reaches a worker: through a launched one on a socket     *)
(* (Launcher), or over HTTP (HttpCall).  A behaviour is one of either; the *)
(* variables of the other stand still.                                     *)
(***************************************************************************)
EXTENDS Launcher, HttpCall

CONSTANTS t1, t2

VARIABLE part

\* A method that is repeated, and one that is not.
MCMethodsOf == [t \in Threads |-> IF t = t1 THEN {"catalog_table_create"} ELSE {"aggregate_update"}]

ASSUME HttpAssumption == HttpConstants

mcVars == <<vars, part, httpVars>>

\* What may happen where workers stop may happen where starters are killed too.
MCInit ==
    \/ /\ part = "socket" /\ Init /\ env \in {"calm", "kills"}
       /\ auth = 0 /\ th = [t \in Threads |-> IdleThread]
       /\ issued = 0 /\ valid = 0 /\ grant = 0 /\ fault = "none"
    \/ /\ part = "http" /\ HttpInit
       /\ st = [s \in Starters |-> [pc |-> "idle"]]
       /\ cache = 0 /\ flock = 0 /\ path = 0 /\ wk = 0 /\ env = "none"

SocketStep == part = "socket" /\ Next /\ UNCHANGED <<part, httpVars>>
HttpStep == part = "http" /\ HttpNext /\ UNCHANGED <<part, vars>>

MCNext == SocketStep \/ HttpStep

ClientStep(s) ==
    \/ part = "socket" /\ StarterStep(s) /\ UNCHANGED <<part, httpVars>>
    \/ part = "http" /\ OwnStep(s) /\ UNCHANGED <<part, vars>>

\* The fairness of the two: FairSpec and HttpFairSpec.
MCSpec ==
    /\ MCInit /\ [][MCNext]_mcVars
    /\ \A s \in Starters :
         /\ WF_mcVars(ClientStep(s))
         /\ SF_mcVars(part = "socket" /\ Lock(s) /\ UNCHANGED <<part, httpVars>>)

\* Every call of ensure_worker returns, whatever the worker and the other
\* starters do.  An HTTP call returns if the requests its own thread makes are
\* answered: neither a leader whose provider never answers nor a failed,
\* forgotten or lost exchange keeps another thread, retries end, and so does a
\* login nobody completes.
CallsReturn ==
    LET Inside(c) == IF part = "http" THEN th[c].pc # "idle"
                     ELSE st[c].pc \notin {"idle", "resolved", "connected"}
        Unanswered(c) == part = "http" /\ Asking(c)
    IN  \A c \in Starters : []<>~Unanswered(c) => []<>~Inside(c)
=============================================================================
