---------------------------- MODULE MCWorkerPool ----------------------------
(***************************************************************************)
(* What is reused between calls: the client's connections (WorkerPool) and *)
(* the worker's window partitions (WindowCache).  A behaviour is one of    *)
(* either.  Two callers and three connections over two keys, one of them   *)
(* scoped to an auth object; two handlers of a worker and two partitions,  *)
(* one of them initialised twice.                                          *)
(***************************************************************************)
EXTENDS WorkerPool, WindowCache, TLC

CONSTANTS k1, w1, e1, e2

VARIABLE part

mcVars == <<part, vars, windowVars>>

MCWorkerOf == [t \in Handlers |-> w1]
MCExecOf == [k \in Partitions |-> IF k = k1 THEN e1 ELSE e2]
MCInits == [k \in Partitions |-> IF k = k1 THEN 2 ELSE 1]
MCSizeOf == [k \in Partitions |-> 1]
Symmetry == Permutations(Conns) \cup Permutations(Callers)

MCInit == part \in {"pool", "windows"} /\ Init /\ WindowsInit

PoolNext == part = "pool" /\ Next /\ UNCHANGED <<part, windowVars>>
WindowsStep == part = "windows" /\ WindowsNext /\ UNCHANGED <<part, vars>>

MCNext == PoolNext \/ WindowsStep
=============================================================================
