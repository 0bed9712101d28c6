----------------------------- MODULE MCExt4Image -----------------------------
(* Small archives: two names, two levels, files of up to a few blocks.     *)
EXTENDS PathLookup

Entry(type, path, target, bytes) ==
  [type |-> type, path |-> path, target |-> target, size |-> bytes]

A == <<"a">>
B == <<"b">>
C == <<"c">>
AB == <<"a", "b">>

MCEntries == [
  tar |-> {Entry("dir", p, <<>>, 0) : p \in {A, AB, <<>>}}
          \cup {Entry("file", pn[1], <<>>, pn[2]) :
                  pn \in {<<A, 0>>, <<A, 570>>, <<B, 70>>, <<B, 570>>, <<AB, 0>>, <<AB, 570>>}}
          \cup {Entry("symlink", B, t, n) : t \in {A}, n \in {1}}
          \cup {Entry("symlink", AB, <<"/", "b">>, 60)}
          \cup {Entry("hardlink", pt[1], pt[2], 0) :
                  pt \in {<<B, A>>, <<A, B>>, <<AB, B>>, <<B, AB>>, <<A, AB>>}}
          \cup {Entry("file", B, <<>>, 700), Entry("special", B, <<>>, 0)}
          \cup {Entry(type, <<>>, <<>>, 0) : type \in {"special", "meta", "escape"}},
  oci |-> {Entry("dir", A, <<>>, 0), Entry("file", B, <<>>, 70),
           Entry("file", AB, <<>>, 570), Entry("dir", C, <<>>, 0), Entry("dir", B, <<>>, 0),
           Entry("hardlink", AB, B, 0), Entry("hardlink", B, AB, 0),
           Entry("whiteout", B, <<>>, 0), Entry("whiteout", A, <<>>, 0),
           Entry("opaque", A, <<>>, 0), Entry("special", B, <<>>, 0)}]
MCMaxEntries == [tar |-> 3, oci |-> 3]

MCNameBytes == ("." :> 1) @@ (".." :> 2) @@ ("lost+found" :> 10) @@
               ("a" :> 5) @@ ("b" :> 1) @@ ("c" :> 1)
MCNameRank == ("." :> 1) @@ (".." :> 2) @@ ("lost+found" :> 6) @@
              ("a" :> 3) @@ ("b" :> 4) @@ ("c" :> 5)
=============================================================================
