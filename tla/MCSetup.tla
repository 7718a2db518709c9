------------------------------ MODULE MCSetup ------------------------------
(***************************************************************************)
(* Small instances, for TLC, of what an application sets up: Routing (two  *)
(* receivers and a slice of one target with room for a second), Templates  *)
(* (a helper h that the application may override, a function f of its own, *)
(* and two of its maps), Policies (both sides of every status that they    *)
(* tell apart) and Backoff (durations of six bits).  The four share no     *)
(* state, so each is taken through its steps while the others rest.        *)
(***************************************************************************)
EXTENDS Routing, Templates, Policies, Backoff

CONSTANT a

MCBase == <<a, Nil>>

MCNames        == {"h", "f"}
MCDefaultNames == {"h"}
MCFns          == {"x", "y"}
MCMaps         == {"m1", "m2"}

MCOptions ==
    {[kind |-> "nil"], [kind |-> "defaultFuncs"],
     [kind |-> "missingKey", policy |-> ""], [kind |-> "missingKey", policy |-> "zero"],
     [kind |-> "missingKey", policy |-> "bad"],
     [kind |-> "func", name |-> "h", fn |-> "x"],
     [kind |-> "funcs", map |-> "m1"], [kind |-> "funcs", map |-> "m2"]}

MCStatusCodes == {0, 200, 407, 408, 409, 429, 499, 500, 599, 600}

MCMaxDuration == 31
MCBackoffs    == {-1, 0, 1, 2, 3, 5, 15, 16, 17, 31}
MCMaxBackoffs == {-1, 0, 1, 4, 6, 16, 30, 31}
MCRetryAfters == {-1, 0, 2, 20, 31}

VARIABLE subject    \* which of the four: "receivers", "templates", "errors" or "waits"

MCInit ==
    /\ subject \in {"receivers", "templates", "errors", "waits"}
    /\ Init
    /\ ParseInit /\ (subject # "templates" => \A m \in Maps : heap[m] = NoFn)
    /\ ErrInit /\ (subject # "errors" => status = 0)
    /\ WaitInit
    /\ subject # "waits" => cfg = [backoff |-> 0, maxBackoff |-> 0, jitter |-> FALSE]
MCNext ==
    /\ \/ subject = "receivers" /\ Next /\ UNCHANGED <<parseVars, errVars, waitVars>>
       \/ subject = "templates" /\ ParseNext /\ UNCHANGED <<vars, errVars, waitVars>>
       \/ subject = "errors" /\ ErrNext /\ UNCHANGED <<vars, parseVars, waitVars>>
       \/ subject = "waits" /\ WaitNext /\ UNCHANGED <<vars, parseVars, errVars>>
    /\ UNCHANGED subject
MCSpec == MCInit /\ [][MCNext]_<<subject, vars, parseVars, errVars, waitVars>>
=============================================================================
