-------------------------------- MODULE Expr --------------------------------
(***************************************************************************)
(* The expression language of a query (query/expr.rs): parse reads what a  *)
(* client sent, eval decides an entry.  A glob, a regular expression or a  *)
(* test of an entry is the set of what it accepts.                         *)
(***************************************************************************)
EXTENDS Query

RECURSIVE parse(_)

Cased == [name |-> TRUE, iname |-> FALSE, dirname |-> TRUE, idirname |-> FALSE]

Tests == {"empty", "match", "imatch", "pcre", "ipcre", "type", "size", "since"}

\* An operator that is not known or has bad arguments is an error, and so is an
\* expression with one.
parse(raw) ==
    CASE raw.op \in {"true", "false", "exists"} -> [kind |-> raw.op]
      [] raw.op = "not" ->
           LET e == parse(raw.of) IN IF e = Error THEN Error ELSE [kind |-> "not", of |-> e]
      [] raw.op \in {"allof", "anyof"} ->
           LET es == [i \in DOMAIN raw.list |-> parse(raw.list[i])]
           IN  IF \E i \in DOMAIN es : es[i] = Error THEN Error
               ELSE [kind |-> raw.op, list |-> es]
      [] raw.op \in {"name", "iname"} ->
           [kind |-> "name", names |-> raw.names, scope |-> raw.scope, cased |-> Cased[raw.op]]
      [] raw.op \in {"dirname", "idirname"} ->
           [kind |-> "dirname", path |-> raw.path, cased |-> Cased[raw.op]]
      [] raw.op = "suffix" -> [kind |-> "suffix", exts |-> raw.exts]
      [] raw.op \in Tests -> [kind |-> "test", accepts |-> raw.accepts]
      [] OTHER -> Error

\* Only paths that exist are modelled here.
RECURSIVE eval(_, _, _)
eval(e, rel, case_sensitive) ==
    CASE e.kind \in {"true", "exists"} -> TRUE
      [] e.kind = "false" -> FALSE
      [] e.kind = "not" -> ~eval(e.of, rel, case_sensitive)
      [] e.kind = "allof" -> \A i \in DOMAIN e.list : eval(e.list[i], rel, case_sensitive)
      [] e.kind = "anyof" -> \E i \in DOMAIN e.list : eval(e.list[i], rel, case_sensitive)
      [] e.kind = "name" -> match_name(rel, e.names, e.scope, e.cased /\ case_sensitive)
      [] e.kind = "dirname" -> match_dirname(rel, e.path, e.cased /\ case_sensitive)
      [] e.kind = "suffix" -> HasSuffix(rel, e.exts)
      [] e.kind = "test" -> rel \in e.accepts

=============================================================================
