------------------------ MODULE MCClientSubscription ------------------------
(* ClientSubscription for TLC: one subscription, as subscriptions share no    *)
(* state, with two application goroutines.                                    *)
EXTENDS ClientSubscription, TLC

UserSymmetry == Permutations(User)

=============================================================================
