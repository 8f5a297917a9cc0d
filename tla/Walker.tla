------------------------------- MODULE Walker -------------------------------
(***************************************************************************)
(* walk and enumerate_mft of Walker.cpp: the files below a root, found     *)
(* either by listing directories or by reading the file table of the       *)
(* volume, while other programs move files and directories about.  A node  *)
(* is its file reference number; node 1 is the root of the volume.         *)
(***************************************************************************)
EXTENDS Naturals, Sequences, FiniteSets, SequencesExt

CONSTANTS
  Trees,              \* the volumes considered, a sequence of records
  ExcludedDirNames,   \* Windows, $Recycle.Bin, Program Files ...
  ExcludedFiles,      \* pagefile.sys, hiberfil.sys, swapfile.sys
  MaxPath,            \* the longest path the system can open, in names
  MaxMoves,           \* bound: moves made by other programs
  NoPath              \* the empty string getPath returns

(* A tree gives                                                            *)
(*   parent      the directory of each node; node 1 is its own parent      *)
(*   isDir       the directories                                           *)
(*   link        reparse points, as a function to the node they lead to    *)
(*   name        [text, exact]: two names that differ in case have the     *)
(*               same text, exact says the case is the one in the lists    *)
(*   denied      directories this user may not list, and junctions that    *)
(*               are denied themselves; a junction to a denied directory   *)
(*               cannot be listed either                                   *)
(*   root        the scan root, a path: a sequence of names                *)
(*   admin, mftEnum, followLinks, byRef, physicalOrder                     *)
(*               whether the volume can be opened; the options             *)
(*   lcn         the first cluster of each node                            *)
Volume == 1

(* A node with the directories above it.                                   *)
Above(up, n) ==
  LET Reach[k \in 0..Cardinality(DOMAIN up)] ==
        IF k = 0 THEN {n}
        ELSE LET r == Reach[k - 1] IN r \cup {up[m] : m \in r \cap DOMAIN up}
  IN  Reach[Cardinality(DOMAIN up)]

(* The nodes of a volume form a tree, below directories that are no links, *)
(* and no directory has two entries of one name.                           *)
ASSUME WalkerAssumption ==
  /\ MaxPath \in Nat /\ MaxMoves \in Nat
  /\ \A i \in DOMAIN Trees : LET t == Trees[i]  nodes == DOMAIN t.parent IN
       /\ t.parent \in Seq(t.isDir \ DOMAIN t.link)
       /\ Volume \in nodes /\ t.parent[Volume] = Volume /\ t.isDir \subseteq nodes
       /\ t.link \in [DOMAIN t.link -> nodes] /\ DOMAIN t.link \subseteq nodes
       /\ DOMAIN t.name = nodes /\ t.lcn \in [nodes -> Nat]
       /\ NoPath \notin Seq(Range(t.name)) /\ t.root \in Seq(Range(t.root))
       /\ \A n \in nodes : Volume \in Above(t.parent, n)
       /\ \A m, n \in nodes \ {Volume} :
            t.parent[m] = t.parent[n] /\ t.name[m].text = t.name[n].text => m = n

VARIABLES
  tree,       \* which of the Trees; fixed
  parent,     \* the volume now
  touched,    \* nodes moved since the walk began
  pc,
  nextRef, mft,   \* StartFileReferenceNumber, and the table read so far
  dirs,       \* the stack of directories to list
  allFiles,   \* what was found
  emitted     \* what was handed on, in order

vars == <<tree, parent, touched, pc, nextRef, mft, dirs, allFiles, emitted>>

T == Trees[tree]
Nodes == DOMAIN T.parent
Links == DOMAIN T.link
Files == Nodes \ T.isDir

Through(n) == IF n \in Links THEN T.link[n] ELSE n
Children(up, d) == {n \in Nodes \ {Volume} : up[n] = d}

(* The nodes that a path leads to: names are compared without regard to    *)
(* case, and each link on the way is followed.                             *)
Lookup(up, path) ==
  LET At[i \in 0..Len(path)] ==
        IF i = 0 THEN {Volume}
        ELSE {n \in UNION {Children(up, Through(d)) : d \in At[i - 1]} :
                T.name[n].text = path[i].text}
  IN  At[Len(path)]

(* A path over the limit cannot be opened.                                 *)
Opens(path) == IF Len(path) > MaxPath THEN {} ELSE Lookup(parent, path)

IsExcludedDir(name) == name.text \in ExcludedDirNames
IsExcludedFile(name) == name.text \in ExcludedFiles

-----------------------------------------------------------------------------
Init ==
  /\ tree \in DOMAIN Trees
  /\ parent = T.parent
  /\ touched = {}
  /\ pc = "start"
  /\ nextRef = 1 /\ mft = <<>>
  /\ dirs = <<>> /\ allFiles = <<>> /\ emitted = <<>>

(* walk tries the table first, and lists directories when the volume       *)
(* cannot be opened or has no journal.                                     *)
Start ==
  /\ pc = "start"
  /\ IF T.mftEnum /\ T.admin
     THEN pc' = "mft" /\ UNCHANGED dirs
     ELSE pc' = "walk" /\ dirs' = <<T.root>>
  /\ UNCHANGED <<tree, parent, touched, nextRef, mft, allFiles, emitted>>

(* Faulty: HighUsn above every number, so that all records are returned.   *)
ReturnedAll(n) == n \in Nodes

(* FSCTL_ENUM_USN_DATA goes by reference number and returns the records    *)
(* last changed up to journal.NextUsn: not those moved since.              *)
Returned(n) == n \notin touched

(* Faulty: the enumeration goes on for one call after the last record.     *)
ReadRecordPast ==
  /\ pc = "mft" /\ nextRef <= Cardinality(Nodes) + 1
  /\ nextRef' = nextRef + 1
  /\ mft' = [n \in DOMAIN mft \cup {nextRef} |-> parent[Volume]]
  /\ UNCHANGED <<tree, parent, touched, pc, dirs, allFiles, emitted>>

ReadRecord ==
  /\ pc = "mft" /\ nextRef \in Nodes
  /\ mft' = IF Returned(nextRef)
            THEN [n \in DOMAIN mft \cup {nextRef} |->
                    IF n = nextRef THEN parent[n] ELSE mft[n]]
            ELSE mft
  /\ nextRef' = nextRef + 1
  /\ UNCHANGED <<tree, parent, touched, pc, dirs, allFiles, emitted>>

(* The path of a record, its parent's first; empty when a parent is        *)
(* missing or met again (visited): then, and only then, there are more     *)
(* records above it than the table has, and the k of them run out.         *)
getPath(ref) ==
  LET self[k \in 0..Cardinality(DOMAIN mft)] ==
        [n \in Nodes |->
           IF k = 0 \/ n \notin DOMAIN mft THEN NoPath
           ELSE IF mft[n] = n THEN <<>>
           ELSE LET parentPath == self[k - 1][mft[n]] IN
                IF parentPath = NoPath THEN NoPath ELSE Append(parentPath, T.name[n])]
  IN  self[Cardinality(DOMAIN mft)][ref]

SameStart(root, path) ==
  Len(root) < Len(path) /\ \A i \in DOMAIN root : root[i].text = path[i].text

(* The filter of enumerate_mft.  Excluded directories are looked for in    *)
(* the whole path, root included, and in the case of the list.             *)
Passes(ref) ==
  /\ ref \notin T.isDir
  /\ LET path == getPath(ref) IN
       /\ path # NoPath
       /\ SameStart(T.root, path)
       /\ ~IsExcludedFile(T.name[ref])
       /\ \A i \in 1..Len(path) - 1 : ~(IsExcludedDir(path[i]) /\ path[i].exact)

Lcn(opened) ==
  IF T.physicalOrder /\ opened # {} THEN T.lcn[CHOOSE n \in opened : TRUE] ELSE 0

EndEnumeration ==
  /\ pc = "mft" /\ nextRef \notin Nodes
  /\ IF DOMAIN mft = {}
     THEN pc' = "walk" /\ dirs' = <<T.root>> /\ UNCHANGED allFiles
     ELSE /\ allFiles' = SetToSeq({LET path == getPath(n) IN
                           [node |-> n, path |-> path, ref |-> n,
                            lcn |-> Lcn(Opens(path))] :
                           n \in {m \in DOMAIN mft : Passes(m)}})
          /\ pc' = "emit" /\ UNCHANGED dirs
  /\ UNCHANGED <<tree, parent, touched, nextRef, mft, emitted>>

-----------------------------------------------------------------------------
(* What FindFirstFileW lists of a path: both the node it leads to and the  *)
(* one behind that must allow it.                                          *)
Listable(dir) == {d \in Opens(dir) : {d, Through(d)} \cap T.denied = {}}

(* Faulty: the root is held against the excluded names too.                *)
ListedNotExcluded(dir) ==
  IF dir # <<>> /\ IsExcludedDir(Last(dir)) THEN {}
  ELSE UNION {Children(parent, Through(d)) : d \in Listable(dir)}

(* One directory off the stack.  Its name is not looked at when it is the  *)
(* root; reparse points are left out unless --follow-links; a directory    *)
(* that cannot be opened is passed over without a word.                    *)
Listed(dir) ==
  IF dir # T.root /\ IsExcludedDir(Last(dir)) THEN {}
  ELSE UNION {Children(parent, Through(d)) : d \in Listable(dir)}

ListDir ==
  /\ pc = "walk" /\ dirs # <<>>
  /\ LET dir == Last(dirs)
         kept == {n \in Listed(dir) : n \in Links => T.followLinks}
     IN  /\ dirs' = Front(dirs) \o
              SetToSeq({Append(dir, T.name[n]) : n \in kept \cap T.isDir})
         /\ allFiles' = allFiles \o SetToSeq(
              {[node |-> n, path |-> Append(dir, T.name[n]), ref |-> 0, lcn |-> 0] :
                 n \in {m \in kept \ T.isDir : ~IsExcludedFile(T.name[m])}})
  /\ UNCHANGED <<tree, parent, touched, pc, nextRef, mft, emitted>>

Ordered == T.byRef \/ T.physicalOrder

(* For a sorted scan every file found is opened again by its path.         *)
EndWalk ==
  /\ pc = "walk" /\ dirs = <<>>
  /\ pc' = "emit"
  /\ allFiles' = [i \in DOMAIN allFiles |->
       LET opened == {Through(n) : n \in Opens(allFiles[i].path)} IN
       IF Ordered /\ opened # {}
       THEN [allFiles[i] EXCEPT !.ref = CHOOSE n \in opened : TRUE,
                                !.lcn = Lcn(opened)]
       ELSE allFiles[i]]
  /\ UNCHANGED <<tree, parent, touched, nextRef, mft, dirs, emitted>>

(* The files are handed on in the order of the sort, if there is one.      *)
Before(a, b) == a.lcn < b.lcn \/ (a.lcn = b.lcn /\ a.ref < b.ref)
Place(s, k) ==
  Cardinality({j \in DOMAIN s : Before(s[j], s[k]) \/ (~Before(s[k], s[j]) /\ j <= k)})
Sorted(s) == [n \in DOMAIN s |-> s[CHOOSE k \in DOMAIN s : Place(s, k) = n]]

Emit ==
  /\ pc = "emit"
  /\ pc' = "done"
  /\ emitted' = IF Ordered \/ DOMAIN mft # {} THEN Sorted(allFiles)
                ELSE allFiles
  /\ allFiles' = <<>>
  /\ UNCHANGED <<tree, parent, touched, nextRef, mft, dirs>>

(* Another program moves a node to another directory of the volume.        *)
Move(n, d) ==
  /\ pc \in {"mft", "walk"}
  /\ n \notin touched \cup {Volume} /\ Cardinality(touched) < MaxMoves
  /\ d \in T.isDir \ (Links \cup {parent[n]})
  /\ n \notin Above(parent, d)
  /\ \A m \in Children(parent, d) : T.name[m].text # T.name[n].text
  /\ parent' = [parent EXCEPT ![n] = d]
  /\ touched' = touched \cup {n}
  /\ UNCHANGED <<tree, pc, nextRef, mft, dirs, allFiles, emitted>>

Done == pc = "done" /\ UNCHANGED vars

Next ==
  \/ Start \/ ReadRecord \/ EndEnumeration
  \/ ListDir \/ EndWalk \/ Emit
  \/ \E n, d \in Nodes : Move(n, d)
  \/ Done

Spec == Init /\ [][Next]_vars

-----------------------------------------------------------------------------
Names == Range(T.name) \cup Range(T.root)
FileContexts == [node : Files, path : Seq(Names), ref : Nat, lcn : Nat]

(* The state of the walk stays within its bounds, and a path in hand is a  *)
(* sequence of names of the volume.                                        *)
TypeOK ==
  /\ tree \in DOMAIN Trees
  /\ parent \in [Nodes -> T.isDir \ Links] /\ touched \subseteq Nodes
  /\ pc \in {"start", "mft", "walk", "emit", "done"}
  /\ nextRef \in 1..Cardinality(Nodes) + 1
  /\ DOMAIN mft \subseteq 1..nextRef - 1 /\ \A n \in DOMAIN mft : mft[n] \in T.isDir
  /\ dirs \in Seq(Seq(Names))
  /\ allFiles \in Seq(FileContexts) /\ emitted \in Seq(FileContexts)

-----------------------------------------------------------------------------
(* The directory that the root of the scan leads to on the volume as it    *)
(* was, and all that the way there crosses.                                *)
Roots == {Through(r) : r \in Lookup(T.parent, T.root)}
Crossed == UNION {Lookup(T.parent, SubSeq(T.root, 1, i)) : i \in 0..Len(T.root)}

(* The directories a file is in, and those of them that lie below the root.*)
Dirs(f) == Above(T.parent, T.parent[f])
BelowRoot(f) == Dirs(f) \ UNION {Above(T.parent, r) : r \in Roots}

(* Which files a scan of the root is about.                                *)
Wanted(f) ==
  /\ Roots \cap Dirs(f) # {}
  /\ \A d \in BelowRoot(f) : ~IsExcludedDir(T.name[d])
  /\ ~IsExcludedFile(T.name[f])
  /\ f \in Links => T.followLinks

Stable(f) == touched \cap Above(T.parent, f) = {}

(* Where the table and the listing are known to disagree.  By the table,   *)
(* a root in a directory of an excluded name, or one reached through a     *)
(* link, has no files; an excluded name in another case hides nothing;     *)
(* files that are links are found.  By listing, what lies below a denied   *)
(* directory or too deep is not found; and a link that is put in the place *)
(* of a directory found before is listed in its stead.                     *)
KnownGap(f) ==
  IF DOMAIN mft # {}
  THEN \/ Crossed \cap Links # {}
       \/ f \in Links
       \/ \E d \in Dirs(f) \ {Volume} :
            IsExcludedDir(T.name[d]) /\ (d \in BelowRoot(f) <=> ~T.name[d].exact)
  ELSE \/ (BelowRoot(f) \cup Lookup(T.parent, T.root) \cup Roots) \cap T.denied # {}
       \/ Len(T.root) + Cardinality(BelowRoot(f)) > MaxPath
       \/ \E l \in Links : touched \cap Above(T.parent, l) # {}

Times(f) == Cardinality({i \in DOMAIN emitted : emitted[i].node = f})

(* A file that stays where it is while others move is found exactly once   *)
(* when it is below the root and not excluded, and not at all otherwise,   *)
(* whichever way the volume is read.  With --follow-links it may be found  *)
(* again through each junction.                                            *)
StableFound ==
  pc = "done" => \A f \in Files : Stable(f) /\ ~KnownGap(f) =>
    IF T.followLinks /\ DOMAIN mft = {} THEN Wanted(f) => Times(f) >= 1
    ELSE Times(f) = IF Wanted(f) THEN 1 ELSE 0

(* The table is read while directories move; a path put together from      *)
(* records of different moments is still one the file had.                 *)
Depth(n) == Cardinality(Above(T.parent, n)) - 1
PathsWereReal ==
  DOMAIN mft # {} => \A i \in DOMAIN emitted :
    LET f == emitted[i] IN
      /\ Len(f.path) = Depth(f.node)
      /\ \A n \in Above(T.parent, f.node) \ {Volume} : f.path[Depth(n)] = T.name[n]

(* getPath ends at the root of the volume or at a missing record: it never *)
(* climbs to a record it has already met.                                  *)
NoLoop == \A n \in DOMAIN mft \ {Volume} : n \notin Above(mft, mft[n])

=============================================================================
