---------------------------- MODULE CallAbstract ----------------------------
(***************************************************************************)
(* What a generated service operation promises its caller, whatever the    *)
(* transport does underneath: once the operation has been called, the      *)
(* caller is answered exactly once, either by the error callback or by the *)
(* success callback carrying the call's own response data.  Nothing is     *)
(* said about the order in which different calls are answered.             *)
(***************************************************************************)
EXTENDS Sequences

CONSTANTS
    Calls,   \* service-operation invocations
    None     \* no attachment (the error callback carries no response data)

VARIABLES
    requested,  \* the calls the caller has made
    answers     \* answers[c]: the callbacks call c's caller has received

vars == <<requested, answers>>

\* The two answers a call may get: an error, or a success with its own data.
Outcome(c) ==
    {[kind |-> "error", attach |-> None], [kind |-> "success", attach |-> c]}

Init ==
    /\ requested = {}
    /\ answers = [c \in Calls |-> << >>]

\* The caller invokes an operation: request() sends the call.
Request(c) ==
    /\ c \notin requested
    /\ requested' = requested \cup {c}
    /\ UNCHANGED answers

\* The runtime answers a call that is still unanswered, once.
Answer(c) ==
    /\ c \in requested
    /\ answers[c] = << >>
    /\ \E o \in Outcome(c) : answers' = [answers EXCEPT ![c] = << o >>]
    /\ UNCHANGED requested

Next == \E c \in Calls : Request(c) \/ Answer(c)

SafeSpec == Init /\ [][Next]_vars

(* Every call made is eventually answered: the runtime does not drop one. *)
Spec == SafeSpec /\ \A c \in Calls : WF_vars(Answer(c))

=============================================================================
