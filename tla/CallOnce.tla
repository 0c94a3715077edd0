------------------------------ MODULE CallOnce ------------------------------
(***************************************************************************)
(* What a caller may rely on, whatever happens to the connections: a call   *)
(* that was accepted is executed at most once and completed at most once,   *)
(* and a call that succeeds was executed and gets the reply to its own      *)
(* arguments.  A call that fails may have been executed, or may be later.   *)
(***************************************************************************)
EXTENDS Naturals, Sequences

CONSTANTS Call, Reply(_)

VARIABLES issued, executed, completions

vars == <<issued, executed, completions>>

Success(reply) == [ok |-> TRUE, reply |-> reply]
Failure == [ok |-> FALSE]

Init ==
    /\ issued = {}
    /\ executed = [i \in Call |-> 0]
    /\ completions = [i \in Call |-> << >>]

Issue(i) ==
    /\ i \notin issued
    /\ issued' = issued \cup {i}
    /\ UNCHANGED <<executed, completions>>

Execute(i) ==
    /\ i \in issued /\ executed[i] = 0
    /\ executed' = [executed EXCEPT ![i] = 1]
    /\ UNCHANGED <<issued, completions>>

Succeed(i) ==
    /\ executed[i] = 1 /\ completions[i] = << >>
    /\ completions' = [completions EXCEPT ![i] = <<Success(Reply(i))>>]
    /\ UNCHANGED <<issued, executed>>

\* Calls that share a connection fail together; one may fail before its caller has handed it over.
Fail(S) ==
    /\ \A i \in S : completions[i] = << >>
    /\ completions' = [i \in Call |-> IF i \in S THEN <<Failure>> ELSE completions[i]]
    /\ S \subseteq issued
    /\ UNCHANGED <<issued, executed>>

Next ==
    \/ \E i \in Call : Issue(i) \/ Execute(i) \/ Succeed(i)
    \/ \E S \in SUBSET Call : Fail(S)

Spec == Init /\ [][Next]_vars
=============================================================================
