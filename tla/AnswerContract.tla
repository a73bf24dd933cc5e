---------------------------- MODULE AnswerContract ----------------------------
(***************************************************************************)
(* What a caller of the slow path is promised, whatever the controller     *)
(* does on the way: a bounded number of retrievals is spent, an answer is  *)
(* accepted only while the evidence at hand is fit to be answered from,    *)
(* and every request comes to an end.  QueryLoop is shown to implement it. *)
(***************************************************************************)
EXTENDS Integers

CONSTANT Bound   \* retrievals one request may cost

VARIABLES
    phase,   \* working, or how the request ended
    spent,   \* retrievals made
    fit      \* the evidence at hand may be answered from

vars == <<phase, spent, fit>>

Init == phase = "working" /\ spent = 0 /\ fit = FALSE

Retrieve ==
    /\ phase = "working"
    /\ spent < Bound
    /\ spent' = spent + 1
    /\ fit' \in BOOLEAN
    /\ phase' = phase

Answer == phase = "working" /\ fit /\ phase' = "accepted" /\ UNCHANGED <<spent, fit>>

Refuse ==
    /\ phase = "working"
    /\ phase' \in {"refused", "raised"}
    /\ UNCHANGED <<spent, fit>>

Next == Retrieve \/ Answer \/ Refuse

\* What never happens, and what always does.
Safety == Init /\ [][Next]_vars

Spec == Safety /\ WF_vars(Next)
=============================================================================
