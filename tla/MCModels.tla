------------------------------ MODULE MCModels ------------------------------
(***************************************************************************)
(* Models for small instances: posts, which have two users; profiles, with *)
(* their posts; users, whose primary key is inferred.  Label is another    *)
(* model of the tags, with a field that two tags name.                     *)
(***************************************************************************)
EXTENDS Models

Key(name, snake, type, words) ==
    [name |-> name, snake |-> snake, private |-> FALSE, type |-> type, target |-> None,
     shape |-> "T", tags |-> {[ns |-> "makroud", words |-> w] : w \in words}]
Relation(name, target, shape, words) ==
    [name |-> name, snake |-> name, private |-> FALSE, type |-> "struct", target |-> target,
     shape |-> shape, tags |-> {[ns |-> "mk", words |-> w] : w \in words}]

MCModel == {"User", "Profile", "Post", "Tag", "Label"}
MCTable == [User |-> "users", Profile |-> "profiles", Post |-> "posts", Tag |-> "tags",
            Label |-> "tags"]
MCID(name) == name \o "ID"
MCPath(table, column) == table \o "." \o column
MCOpts == [m \in MCModel |-> [pk |-> "id", created |-> "created_at", updated |-> "updated_at",
                             deleted |-> "deleted_at"]]
MCStruct ==
    [User |-> << Key("ID", "id", "int", {}),
                 Key("PID", "pid", "optional int", {<<"column", "profile_id">>, <<"fk", "profiles">>}),
                 Relation("Profile", "Profile", "*T", {}),
                 Relation("Posts", "Post", "*[]T", {<<"rel", "posts.author_id">>}) >>,
     Profile |-> << Key("ID", "id", "int", {<<"pk">>}),
                    Relation("Posts", "Post", "[]*T", {}) >>,
     Post |-> << Key("ID", "id", "int", {<<"pk", "db">>}),
                 Key("ReviewerID", "reviewer_id", "int", {<<"fk", "users">>}),
                 Key("AuthorID", "author_id", "int", {<<"fk", "users">>}),
                 Key("ProfileID", "profile_id", "optional int", {<<"fk", "profiles">>}),
                 Key("DeletedAt", "deleted_at", "time", {}),
                 Relation("Author", "User", "T", {}),
                 Relation("Profile", "Profile", "*T", {<<"relation", "profile_id">>}) >>,
     Tag |-> << Key("ID", "id", "string", {}) >>,
     Label |-> << Key("ID", "id", "string", {<<"pk", "ulid">>}),
                  [Key("Text", "text", "text", {<<"column", "label">>})
                      EXCEPT !.tags = @ \cup {[ns |-> "db", words |-> <<"words">>]}] >>]
=============================================================================
