----------------------------- MODULE MCPreload ------------------------------
(***************************************************************************)
(* Preloads of posts and of profiles: two posts of two authors with one    *)
(* profile, whose pointer they share, one post without either, and a user  *)
(* that was never stored, so that it has no key.                           *)
(***************************************************************************)
EXTENDS Preload, MCModels

Post(id, author, profile) ==
    [id |-> id, author_id |-> author, reviewer_id |-> author, profile_id |-> profile]

MCRow == {"p1", "p2", "p3", "u0", "u1", "u2", "f1"}
MCOf == [p1 |-> "Post", p2 |-> "Post", p3 |-> "Post", u0 |-> "User", u1 |-> "User",
         u2 |-> "User", f1 |-> "Profile"]
MCValue == [p1 |-> Post(1, 1, 1), p2 |-> Post(2, 2, 1), p3 |-> Post(3, 0, 0),
            u0 |-> [id |-> 0, profile_id |-> 0],
            u1 |-> [id |-> 1, profile_id |-> 1], u2 |-> [id |-> 2, profile_id |-> 0],
            f1 |-> [id |-> 1]]
MCRoots == {<<"p1", "p2">>, <<"p3">>, <<"f1">>, <<"u1", "u2">>, <<"u1", "u0">>}

All(path) == [path |-> path, unscoped |-> FALSE, keep |-> MCRow]
MCAsks ==
    {<<All(<<"Profile", "Posts">>), All(<<"Profile">>)>>,
     <<All(<<"Posts">>), [All(<<"Posts">>) EXCEPT !.keep = {"p1"}, !.unscoped = TRUE]>>,
     <<All(<<"Posts", "Author">>), All(<<"Posts", "Profile">>)>>,
     <<All(<<"Author", "Profile">>), All(<<"Author">>)>>,
     <<All(<<"Author", "Posts">>)>>,
     <<All(<<"Profile", "Posts", "Author">>)>>}
=============================================================================
