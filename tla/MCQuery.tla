------------------------------ MODULE MCQuery -------------------------------
\* Query over a working copy with .git, .jj and a name that folds to .jj, asked
\* with jj's own expression in its variants and near misses of it.
EXTENDS Expr

Lower ==
    [n \in {".git", ".jj", ".JJ", "a.rs", "src", ".watchman-cookie-1"} |-> IF n = ".JJ" THEN ".jj" ELSE n]
Extension ==
    [n \in {".git", ".jj", "a.rs", "src", ".watchman-cookie-1"} |-> IF n = "a.rs" THEN "rs" ELSE ""]

SomePaths == {<<".git">>, <<".jj", "src">>, <<".JJ">>, <<"src", "a.rs">>,
              <<"src", ".watchman-cookie-1">>}

Both == <<<<".git">>, <<".jj">>>>
Named(op, scope) == [op |-> op, names |-> Both, scope |-> scope]
Dir(op, name) == [op |-> op, path |-> <<name>>]
Not(list) == [op |-> "not", of |-> [op |-> "anyof", list |-> list]]

SomeRaws ==
    {Not(<<Named(n, s), Dir(d, ".git"), Dir(d, ".jj")>>) :
         n \in {"name", "iname"}, s \in {"wholename", "basename"}, d \in {"dirname", "idirname"}}
      \cup {Not(<<Dir("dirname", ".jj"), Named("name", "wholename"), Dir("dirname", ".git")>>),
            Not(<<Named("name", "wholename"), Dir("dirname", ".git"), Dir("dirname", "src")>>),
            Not(<<Named("name", "wholename"), Dir("dirname", ".git")>>),
            [op |-> "true"], [op |-> "suffix", exts |-> {"rs"}],
            [op |-> "match", accepts |-> {<<"src", "a.rs">>, <<".jj", "src">>}],
            [op |-> "allof", list |-> <<[op |-> "exists"], [op |-> "not", of |-> [op |-> "false"]]>>],
            [op |-> "not", of |-> [op |-> "frobnicate"]]}

\* jj's own shape, and others that differ from it in each field.
NoGenerators == [suffix |-> Unset, glob |-> Unset, paths |-> Unset]
Own == [base |-> <<>>, generators |-> NoGenerators, case_sensitive |-> TRUE,
        always_include_directories |-> TRUE, empty_on_fresh_instance |-> FALSE]
SomeShapes ==
    {Own,
     [Own EXCEPT !.base = <<"src">>, !.case_sensitive = FALSE],
     [Own EXCEPT !.case_sensitive = FALSE],
     [Own EXCEPT !.always_include_directories = FALSE],
     [Own EXCEPT !.empty_on_fresh_instance = TRUE],
     [Own EXCEPT !.generators.suffix = {"rs"}],
     [Own EXCEPT !.generators.glob = {<<".jj", "src">>, <<"src", "a.rs">>}],
     [Own EXCEPT !.generators.paths = {}],
     [Own EXCEPT !.generators.paths = {[path |-> <<"src">>, depth |-> 0],
                                       [path |-> <<".jj">>, depth |-> Unset]}]}
\* relative_root below what a jj root leaves out.
InternalShapes == {[Own EXCEPT !.base = <<".jj">>]}

SomeDirs == {<<".git">>, <<".JJ">>}
SomeCookies == {".watchman-cookie-1"}
=============================================================================
