---------------------------- MODULE MCSubmission ----------------------------
(* An instance of Submission for TLC: client a makes two calls, b one.      *)
EXTENDS Submission, TLC
CONSTANTS a, b, k1, k2, k3
MCBy == k1 :> a @@ k2 :> a @@ k3 :> b
MCMaxTries == k1 :> 2 @@ k2 :> 1 @@ k3 :> 2
Arg(key, named, target, picky) == [key |-> key, named |-> named, target |-> target, picky |-> picky]
Plainly(key) == Arg(key, None, None, FALSE)
MCArgs == {k1 :> Plainly(1) @@ k2 :> Plainly(None) @@ k3 :> Arg(3, 2, 5, TRUE),
           k1 :> Arg(1, None, 5, TRUE) @@ k2 :> Plainly(None) @@ k3 :> Arg(1, None, 5, FALSE),
           k1 :> Arg(1, 2, None, TRUE) @@ k2 :> Arg(2, None, 5, FALSE) @@ k3 :> Plainly(1)}
=============================================================================
