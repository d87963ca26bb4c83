----------------------------- MODULE MCStovepipe -----------------------------
(* Instances of Stovepipe for TLC.                                          *)
EXTENDS Stovepipe, TLC

CONSTANTS c1, c2

(* One caller follows trunk, or two race for its first head.                *)
FollowOrRace == {c1 :> Commit @@ c2 :> {}, c1 :> {1} @@ c2 :> {1}}

(* Two callers: one follows trunk, one is late with the first head.         *)
FollowAndLag == {c1 :> Commit @@ c2 :> {1}}
=============================================================================
