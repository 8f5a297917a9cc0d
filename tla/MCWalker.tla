------------------------------ MODULE MCWalker ------------------------------
(***************************************************************************)
(* Small volumes.                                                          *)
(***************************************************************************)
EXTENDS Walker

Name(text) == [text |-> text, exact |-> TRUE]
Top == Name("volume")

(* Names of directories and files that are excluded.                       *)
DirNames == {"windows"}
FileNames == {"pagefile.sys"}

(* A volume of these nodes: <<name, parent>> for each, directories first,  *)
(* read without rights on the volume, and the same one read by the table.  *)
Volume0(nodes, lastDir, root) ==
  [parent |-> [n \in DOMAIN nodes |-> nodes[n][2]],
   name |-> [n \in DOMAIN nodes |-> nodes[n][1]],
   isDir |-> 1..lastDir, link |-> <<>>, denied |-> {}, root |-> root,
   admin |-> FALSE, mftEnum |-> TRUE, followLinks |-> FALSE,
   byRef |-> FALSE, physicalOrder |-> FALSE,
   lcn |-> [n \in DOMAIN nodes |-> Len(nodes) - n]]

(* Directories a, a\b and c; files in b, in c and at the top.  The inner    *)
(* directory has the smaller number.                                       *)
Plain == Volume0(<< <<Top, 1>>, <<Name("b"), 3>>, <<Name("a"), 1>>, <<Name("c"), 1>>,
                    <<Name("x"), 2>>, <<Name("y"), 4>>, <<Name("z"), 1>> >>, 4,
                 <<Name("a")>>)

(* A system directory with a directory and a page file, another one whose  *)
(* name has another case, and a directory nobody may list.                 *)
Systems == Volume0(<< <<Top, 1>>, <<Name("windows"), 1>>, <<Name("b"), 2>>,
                      <<Name("d"), 1>>, <<[text |-> "windows", exact |-> FALSE], 4>>,
                      <<Name("e"), 1>>,
                      <<Name("x"), 3>>, <<Name("pagefile.sys"), 4>>, <<Name("y"), 5>>,
                      <<Name("z"), 4>>, <<Name("w"), 6>> >>, 6, <<>>)

(* Junctions: one into its own parent, one that is the root; a file link.  *)
Junctions == [Volume0(<< <<Top, 1>>, <<Name("a"), 1>>, <<Name("j"), 2>>, <<Name("k"), 1>>,
                         <<Name("x"), 2>>, <<Name("s"), 2>>, <<Name("y"), 1>> >>, 4,
                      <<Name("a")>>)
                EXCEPT !.link = (3 :> 2) @@ (4 :> 2) @@ (6 :> 7)]

(* A root behind a junction; a junction whose name a directory below the   *)
(* root has as well, so that the two may change places.                    *)
Crossing == [Volume0(<< <<Top, 1>>, <<Name("a"), 1>>, <<Name("b"), 2>>, <<Name("k"), 1>>,
                        <<Name("x"), 3>>, <<Name("y"), 2>> >>, 4,
                     <<Name("k"), Name("b")>>)
               EXCEPT !.link = (4 :> 2)]
Swapped == [Volume0(<< <<Top, 1>>, <<Name("a"), 1>>, <<Name("b"), 2>>, <<Name("c"), 1>>,
                       <<Name("b"), 4>>, <<Name("d"), 1>>, <<Name("x"), 6>>,
                       <<Name("y"), 3>> >>, 6, <<Name("a")>>)
              EXCEPT !.link = (5 :> 6)]

(* Directories one in the other, more than a path may have.                *)
Deep == Volume0(<< <<Top, 1>>, <<Name("a"), 1>>, <<Name("b"), 2>>, <<Name("c"), 3>>,
                   <<Name("d"), 4>>, <<Name("e"), 5>>, <<Name("x"), 6>>,
                   <<Name("y"), 5>> >>, 6, <<>>)

ByTable(v) == [v EXCEPT !.admin = TRUE]

AllTrees ==
  << Plain, ByTable(Plain),
     [Plain EXCEPT !.byRef = TRUE, !.root = <<>>],
     [ByTable(Plain) EXCEPT !.physicalOrder = TRUE, !.root = <<>>],
     [Systems EXCEPT !.denied = {6}], ByTable(Systems),
     [Systems EXCEPT !.root = <<Name("windows")>>],
     [ByTable(Systems) EXCEPT !.root = <<Name("windows")>>],
     [ByTable(Systems) EXCEPT !.mftEnum = FALSE, !.root = <<Name("windows"), Name("b")>>],
     Junctions, ByTable(Junctions),
     [Junctions EXCEPT !.followLinks = TRUE, !.physicalOrder = TRUE],
     [Junctions EXCEPT !.root = <<Name("k")>>],
     [ByTable(Junctions) EXCEPT !.root = <<Name("k")>>],
     [Junctions EXCEPT !.followLinks = TRUE, !.root = <<>>, !.denied = {2}],
     [Junctions EXCEPT !.followLinks = TRUE, !.root = <<>>, !.denied = {4}],
     [Junctions EXCEPT !.root = <<Name("k")>>, !.denied = {2}],
     [Junctions EXCEPT !.root = <<Name("k")>>, !.denied = {4}],
     Crossing, ByTable(Crossing), Swapped, Deep, ByTable(Deep) >>

=============================================================================
