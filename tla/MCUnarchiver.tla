----------------------------- MODULE MCUnarchiver -----------------------------
(* Instance of Unarchiver: short archives in which entries get in each       *)
(* other's way - files where directories should be, links among the files of *)
(* a directory, a directory inside another, a fork before its file.          *)
EXTENDS Unarchiver

E(kind, path, length, sized, checksum) ==
  [kind |-> kind, path |-> path, length |-> length, sized |-> sized, checksum |-> checksum]

d == <<"d">>
df == <<"d", "f">>
de == <<"d", "e">>
a == <<"a">>

MCPaths == {d, df, de, a}

MCArchives == {
  <<E("dir", d, 0, FALSE, FALSE), E("file", df, 2, TRUE, TRUE),
    E("dir", de, 0, FALSE, FALSE), E("unsafelink", a, 0, FALSE, FALSE)>>,
  <<E("unsafelink", df, 0, FALSE, FALSE), E("dir", d, 0, FALSE, FALSE),
    E("archive", a, 1, TRUE, FALSE), E("unsafelink", df, 0, FALSE, FALSE)>>,
  <<E("file", d, 0, TRUE, TRUE), E("safelink", df, 0, FALSE, FALSE),
    E("unsafelink", a, 0, FALSE, FALSE), E("dir", a, 0, FALSE, FALSE)>>,
  <<E("ignoredfork", df, 0, FALSE, FALSE), E("fork", df, 2, TRUE, FALSE),
    E("file", a, 1, FALSE, TRUE), E("safelink", a, 0, FALSE, FALSE)>>,
  <<E("unsafelink", d, 0, FALSE, FALSE), E("dir", d, 0, FALSE, FALSE),
    E("fork", df, 1, FALSE, TRUE), E("safelink", d, 0, FALSE, FALSE)>>,
  <<E("safelink", d, 0, FALSE, FALSE), E("file", df, 1, TRUE, TRUE),
    E("file", d, 1, TRUE, FALSE)>>,
  <<E("dir", d, 0, FALSE, FALSE), E("ignoredfork", d, 0, FALSE, FALSE),
    E("file", df, 1, TRUE, FALSE)>>,
  <<E("dirfork", a, 1, TRUE, FALSE), E("dir", d, 0, FALSE, FALSE),
    E("safelink", d, 0, FALSE, FALSE), E("dirfork", df, 0, TRUE, FALSE)>>,
  <<E("ignoreddirfork", d, 0, FALSE, FALSE), E("dir", d, 0, FALSE, FALSE),
    E("file", df, 2, FALSE, TRUE)>> }
=============================================================================
