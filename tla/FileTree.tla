------------------------------ MODULE FileTree ------------------------------
(***************************************************************************)
(* A directory tree with symbolic links, and what the system calls the     *)
(* servers make of it: realpath, open, mkdir, rename.  A path is the       *)
(* sequence of names from the root of the file system; names are numbers,  *)
(* so that they are ordered as the walks sort them.  A tree is a function  *)
(* on the finite set Paths of the paths that may exist.                    *)
(*                                                                         *)
(* All of it belongs to the kernel and the standard library; it is modelled*)
(* from how src/fs and src/support use it.                                 *)
(***************************************************************************)
EXTENDS Integers, Sequences, FiniteSets, SequencesExt

CONSTANT Paths      \* bound: where the tree may have nodes; a rename to elsewhere fails

None == [kind |-> "none"]
Dir == [kind |-> "dir"]
File(text) == [kind |-> "file", text |-> text]
Link(to) == [kind |-> "link", to |-> to]
Nodes(names) ==
    {None, Dir} \cup [kind : {"file"}, text : Seq(Nat)] \cup [kind : {"link"}, to : Seq(names)]

Node(tree, p) == IF p \in Paths THEN tree[p] ELSE None
Exists(tree, p) == Node(tree, p).kind # "none"
IsDir(tree, p) == Node(tree, p).kind = "dir"
IsFile(tree, p) == Node(tree, p).kind = "file"
IsLink(tree, p) == Node(tree, p).kind = "link"

Prefix(p, n) == SubSeq(p, 1, n)
Parent(p) == Prefix(p, Len(p) - 1)
Inside(p, q) == IsPrefix(q, p)      \* p is q or below it
Below(p, q) == p # q /\ Inside(p, q)

\* Every node but the root of the file system stands in a directory.
IsTree(tree) ==
    /\ DOMAIN tree = Paths
    /\ IsDir(tree, <<>>)
    /\ \A p \in Paths : tree[p].kind # "none" =>
          p = <<>> \/ IsDir(tree, Parent(p))

Children(tree, d) == {p \in Paths : p # <<>> /\ Parent(p) = d /\ Exists(tree, p)}
Before(S, p) == {q \in S : Last(q) < Last(p)}
\* The n-th entry is the one that n - 1 others come before.
Listing(tree, d) ==
    LET entries == Children(tree, d) IN
    [n \in 1..Cardinality(entries) |->
        CHOOSE p \in entries : Cardinality(Before(entries, p)) = n - 1]

-----------------------------------------------------------------------------
(* realpath *)

\* Replace the first component of p that is a link by the link's target.
LinksIn(tree, p) == {n \in 1..Len(p) : IsLink(tree, Prefix(p, n))}
Follow(tree, p) ==
    LET links == LinksIn(tree, p) IN
    IF links = {} THEN p
    ELSE LET n == CHOOSE n \in links : \A m \in links : n <= m
         IN  tree[Prefix(p, n)].to \o SubSeq(p, n + 1, Len(p))

\* bound: the kernel gives up after 40 links, not 4
Chased(tree, p) ==
    LET step[q \in Seq(Int)] == Follow(tree, q)
    IN  IF LinksIn(tree, p) = {} THEN p ELSE step[step[step[step[p]]]]

\* "ok", "missing" (ENOENT) or "other": a loop of links, a file among the directories.
RealStatus(tree, p) ==
    LET q == Chased(tree, p) IN
    IF Exists(tree, q) THEN IF IsLink(tree, q) THEN "other" ELSE "ok"
    ELSE IF \E n \in 1..Len(q) - 1 : IsLink(tree, Prefix(q, n)) \/ IsFile(tree, Prefix(q, n))
    THEN "other" ELSE "missing"

RealPath(tree, p) == Chased(tree, p)

\* The entry a call that does not follow a last link works on: the real path
\* of the directory, then the name.
Place(tree, p) == IF p = <<>> THEN p ELSE Append(RealPath(tree, Parent(p)), Last(p))
HasPlace(tree, p) ==
    p # <<>> /\ RealStatus(tree, Parent(p)) = "ok" /\ IsDir(tree, RealPath(tree, Parent(p)))

\* What a call that follows the last link too finds behind the path.
LeadsToDir(tree, p) == RealStatus(tree, p) = "ok" /\ IsDir(tree, RealPath(tree, p))
LeadsToFile(tree, p) == RealStatus(tree, p) = "ok" /\ IsFile(tree, RealPath(tree, p))

-----------------------------------------------------------------------------
(* Calls that change the tree *)

Moved(p, s, d) == d \o SubSeq(p, Len(s) + 1, Len(p))

\* rename(2): a file or a link replaces anything but a directory, a directory
\* replaces nothing or an empty directory.
CanRename(tree, from, to) ==
    /\ HasPlace(tree, from) /\ HasPlace(tree, to)
    /\ LET s == Place(tree, from)
           d == Place(tree, to)
       IN  /\ Exists(tree, s)
           /\ ~Below(d, s)
           /\ \A p \in Paths : Inside(p, s) /\ Exists(tree, p) => Moved(p, s, d) \in Paths
           /\ IF IsDir(tree, s)
              THEN ~Exists(tree, d) \/ d = s \/ (IsDir(tree, d) /\ Children(tree, d) = {})
              ELSE ~IsDir(tree, d)

Renamed(tree, from, to) ==
    LET s == Place(tree, from)
        d == Place(tree, to)
    IN  IF s = d THEN tree
        ELSE [p \in Paths |->
                 IF Inside(p, d) THEN Node(tree, Moved(p, d, s))
                 ELSE IF Inside(p, s) THEN None ELSE tree[p]]

\* mkdir(2): a link that leads nowhere is in the way of it too.
CanMkdir(tree, p) ==
    HasPlace(tree, p) /\ Place(tree, p) \in Paths /\ ~Exists(tree, Place(tree, p))
Mkdir(tree, p) == [tree EXCEPT ![Place(tree, p)] = Dir]
=============================================================================
