-------------------------- MODULE MCServiceWorkers --------------------------
(* Constants of the model-checking run of ServiceWorkers. *)
EXTENDS ServiceWorkers

CONSTANTS p1, p2

PidSymmetry == Permutations(Pids)

Runs  == [kind |-> "counter", name |-> <<"runs", "total">>]
Runs2 == [kind |-> "counter", name |-> <<NS, "runs", "total">>]  \* the same, in full
Load  == [kind |-> "gauge", name |-> <<"load">>]
Wait  == [kind |-> "histogram", name |-> <<"wait">>]
Waits == [kind |-> "gauge", name |-> <<"wait", "count">>]  \* a name the histogram takes

OneNamedTwice == {Runs, Runs2}
Clashing == {Load, Wait, Waits}
MCReleases == {OneNamedTwice, Clashing}

Nothing == [name \in {} |-> Blank]
\* A blank setting of Django hides the key of the environment.
BlankHides == [settings |-> [PUBLIC_KEY |-> Blank],
               environ |-> [PUBLIC_KEY |-> "k1", PUBLIC_KEY_FILE |-> "path"]]
MCConfs == {BlankHides}
=============================================================================
