------------------------ MODULE MCJwksVerification ------------------------
(* Constants of the model-checking runs of JwksVerification. *)
EXTENDS JwksVerification, TLC

CONSTANTS k1, k2, t1, t2

\* A whole rotation: the new key next to the old one, then the new key alone.
OneRotation == <<{k1}, {k1, k2}, {k2}>>

\* Sound tokens that name their key, and sound tokens that do not.
GoodTokens == [kid : BOOLEAN, good : {TRUE}]

\* Tokens that name no key (the SimpleJWT default).
PlainTokens == [kid : {FALSE}, good : {TRUE}]

ThreadSymmetry == Permutations(Threads)
=============================================================================
