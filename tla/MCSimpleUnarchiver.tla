-------------------------- MODULE MCSimpleUnarchiver --------------------------
(* Instance of SimpleUnarchiver: archives with one top-level item or several, *)
(* directories met by several entries, a fork beside its file, a file where   *)
(* another entry needs a directory; and disks on which the enclosing          *)
(* directory, an item, or an item in the enclosing directory exist already.   *)
EXTENDS SimpleUnarchiver

File(p) == [path |-> p, dir |-> FALSE, fork |-> FALSE]
Dir(p) == [path |-> p, dir |-> TRUE, fork |-> FALSE]
Fork(p) == [path |-> p, dir |-> FALSE, fork |-> TRUE]

MCTexts == {"x", "y", "f", "g", "enclosing", "temporary"}

MCArchives == {
  <<File(<<"x">>)>>,
  <<File(<<"x">>), File(<<"y">>)>>,
  <<File(<<"x", "f">>), File(<<"x", "g">>)>>,
  <<Dir(<<"x">>), File(<<"x", "f">>), File(<<"y">>)>>,
  <<File(<<"x">>), File(<<"x", "f">>), File(<<"x">>)>>,
  <<Fork(<<"x">>), File(<<"x">>)>> }

Old(dirs, files) ==
  [p \in dirs \cup files |-> Node(p \in dirs, 0)]

x == Name("x")
f == Name("f")

MCDisks == {
  Old({}, {<<x>>}),
  Old({<<Enclosing>>}, {<<Enclosing, x>>}),
  Old({<<Enclosing>>, <<Enclosing, x>>, <<x>>}, {<<x, f>>, <<Enclosing, x, f>>}),
  Old({}, {<<Enclosing>>}) }
=============================================================================
