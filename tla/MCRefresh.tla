----------------------------- MODULE MCRefresh -----------------------------
(* Instances of Refresh: remotes, branches and options.                    *)
EXTENDS RefreshProperties

CONSTANTS Peer, Feature

OneRemote == {Origin}
TwoRemotes == {Origin, Peer}
OneBranch == {Main}
TwoBranches == {Main, Feature}

Defaults == [selected |-> Origin, follow |-> FALSE, scope |-> "all",
             untrack |-> "none", save |-> TRUE, update |-> TRUE]

DefaultOnly == {Defaults}

(* GIT_VERSION=main@origin.                                                *)
Explicit == {[Defaults EXCEPT !.follow = TRUE]}

(* The default, main@peer, and --update false.                             *)
EitherRemote ==
    {Defaults, [Defaults EXCEPT !.selected = Peer, !.follow = TRUE],
     [Defaults EXCEPT !.update = FALSE]}

(* The overrides an operator has for the bookmarks.                        *)
Overrides ==
    {Defaults,
     [Defaults EXCEPT !.save = FALSE],
     [Defaults EXCEPT !.scope = "selected"],
     [Defaults EXCEPT !.untrack = "all"]}
=============================================================================
