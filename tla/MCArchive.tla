------------------------------- MODULE MCArchive -------------------------------
(* Instance of Archive: forks in either order, two files of one name, a file *)
(* in a directory's way, an archive before and after its resource fork, and  *)
(* resource forks of directories before, after and without the directory.    *)
EXTENDS Archive

D(name, fork, kind) == [name |-> name, fork |-> fork, kind |-> kind]

MCNames == {"a", "b", ""}
MCRenames == {"c", "d"}
MCOldFiles == {"a", "c"}

MCArchives == {
  <<D("a", "data", "file"), D("a", "resource", "file"), D("b", "data", "archive")>>,
  <<D("b", "resource", "file"), D("b", "data", "archive"), D("a", "data", "dir")>>,
  <<D("b", "data", "file"), D("b", "data", "file"), D("b", "resource", "file"),
    D("b", "resource", "file")>>,
  <<D("b", "data", "dir"), D("", "data", "file"), D("b", "data", "dir")>>,
  <<D("b", "data", "dir"), D("b", "data", "dir"), D("b", "resource", "file")>>,
  <<D("a", "resource", "file"), D("a", "data", "file"), D("a", "resource", "file")>>,
  <<D("b", "data", "dir"), D("b", "resource", "dir"), D("a", "resource", "dir")>>,
  <<D("b", "resource", "dir"), D("b", "data", "dir"), D("b", "data", "file")>> }
=============================================================================
