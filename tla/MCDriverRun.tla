----------------------------- MODULE MCDriverRun -----------------------------
(* Two requests per loop; all stages on, and runs with some of them off.    *)
EXTENDS DriverRun

MCOptions ==
    {[fallback |-> a = "off", watch |-> TRUE, events |-> TRUE, autoIrp |-> a, codes |-> 2, ioctls |-> 2, unload |-> TRUE] :
       a \in {"off", "canned", "advanced"}}
    \cup {[fallback |-> w, watch |-> w, events |-> ~w, autoIrp |-> a, codes |-> 2, ioctls |-> 0, unload |-> ~w] :
            w \in BOOLEAN, a \in {"canned", "advanced"}}

\* Of the results no step or property looks at more than these.
MCView == <<opts, attempt, pc, left, dead, code, watch, queue, klog, report, late, AnyStalled, Len(results),
            IF results = <<>> THEN None ELSE <<results[1].status, results[Len(results)].major>>>>
=============================================================================
