--------------------------- MODULE MCSubscription ---------------------------
(***************************************************************************)
(* The subscription store with interchangeable ids, names, URLs and files. *)
(* No property of these runs tells the members of one of the sets apart.   *)
(***************************************************************************)
EXTENDS Subscription, TLC

Interchangeable ==
    Permutations(Ids) \cup Permutations(Names) \cup Permutations(Urls)
        \cup Permutations(Filenames)

=============================================================================
