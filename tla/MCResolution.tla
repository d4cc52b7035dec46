---------------------------- MODULE MCResolution ----------------------------
(* Resolution on small instances: two repositories, each with its own      *)
(* credentials, and two registered sources.                                *)
EXTENDS Resolution, TLC

CONSTANTS main, dev, repo1, repo2, cred1, cred2

MCAccepts == [u \in Repos |-> IF u = repo1 THEN {cred1} ELSE {cred2, NoCred}]

Twice == <<[source |-> 1, ref |-> dev], [source |-> 1, ref |-> dev]>>
FollowAndPin == <<[source |-> 1, ref |-> dev], [source |-> 1, ref |-> 2]>>
Second == <<[source |-> 2, ref |-> main]>>
Pinned == <<[source |-> 2, ref |-> main], [source |-> 1, ref |-> 1]>>

(* One repository whose branches move.                                     *)
OneEntry == {[repo |-> repo1, auth |-> cred1]}
MovingRecipes == {Twice, FollowAndPin}

(* Two repositories, and sources that are registered, changed, deleted.    *)
TwoEntries == {[repo |-> repo1, auth |-> cred1], [repo |-> repo2, auth |-> cred2]}
OneRecipe == {Pinned}

(* Two sources of one repository, with credentials of their own.           *)
SharedRepo == {[repo |-> repo1, auth |-> cred1], [repo |-> repo1, auth |-> cred2]}
SecondOnly == {Second}

Symmetry == Permutations(Calls)
=============================================================================
