---------------------------- MODULE KeyRegister ----------------------------
(***************************************************************************)
(* What the JWKS cache promises to the request threads of a process        *)
(* (smarthr360_jwt_auth/keys.py:35-66): a register that holds a document   *)
(* auth has published.  It may lag behind, but it never goes back, and     *)
(* what a thread takes its keys from is what the register holds at that    *)
(* moment: no thread works with an older document than another one did     *)
(* before it.  A thread may bring the register up to date as it uses it.   *)
(***************************************************************************)
EXTENDS Integers

CONSTANT Threads    \* those that use the register

VARIABLES
    published,  \* the document auth publishes, a number that grows
    held,       \* the document the register holds, 0 at first
    using       \* the document each thread takes its keys from, or 0

Init ==
    /\ published = 1
    /\ held = 0
    /\ using = [t \in Threads |-> 0]

Publish ==
    /\ published' = published + 1
    /\ UNCHANGED <<held, using>>

Use(t) ==
    \E doc \in 1..published :
        /\ held <= doc
        /\ held' = doc
        /\ using' = [using EXCEPT ![t] = doc]
        /\ UNCHANGED published

Forget(t) ==
    /\ using' = [using EXCEPT ![t] = 0]
    /\ UNCHANGED <<published, held>>

Next == Publish \/ \E t \in Threads : Use(t) \/ Forget(t)

Spec == Init /\ [][Next]_<<published, held, using>>
=============================================================================
