---------------------------- MODULE MCFileServer ----------------------------
EXTENDS FileServer

\* 1 is the directory served, 2 is outside; below them the names 3, 4, 5 and the
\* temporary files of the two calls.
MCNames == {3, 4, 5} \cup {Temp(c) : c \in Calls}
MCPaths ==
    {<<>>, <<1>>, <<2>>, <<2, 3>>, <<2, 5>>}
    \cup {<<1, a>> : a \in MCNames}
    \cup {<<1, a, b>> : a \in {3, 4}, b \in MCNames \ {3, 4}}
    \cup {<<2, Temp(c)>> : c \in Calls}
MCDirs == << <<1>> >>

With(nodes) ==
    [p \in Paths |-> IF p \in DOMAIN nodes THEN nodes[p]
                     ELSE IF p \in {<<>>, <<2>>} THEN Dir ELSE None]
at(p, node) == [q \in {p} |-> node]

\* Two directories and a link that leads out; one directory, that can be moved
\* aside; a link into the neighbour and one that leads nowhere; a directory
\* served under another name.
MCTrees ==
    {With(at(<<1>>, Dir) @@ at(<<1, 3>>, Dir) @@ at(<<1, 3, 5>>, File(<<1, 1, 1>>))
          @@ at(<<1, 4>>, Dir) @@ at(<<1, 5>>, Link(<<2, 5>>)) @@ at(<<2, 5>>, File(<<9>>))),
     With(at(<<1>>, Dir) @@ at(<<1, 3>>, Dir) @@ at(<<1, 3, 5>>, File(<<1, 2>>))
          @@ at(<<1, 4>>, Link(<<1, 3>>)) @@ at(<<1, 5>>, Link(<<2, 3>>))),
     With(at(<<1>>, Dir) @@ at(<<1, 3>>, Dir) @@ at(<<1, 3, 5>>, File(<<1, 2>>))),
     With(at(<<1>>, Link(<<2>>)) @@ at(<<2, 5>>, File(<<1, 2>>)))}

rel(parts) == [absolute |-> FALSE, parts |-> parts]
abs(parts) == [absolute |-> TRUE, parts |-> parts]
write(p) == [tool |-> "write_file", path |-> p, text |-> <<7>>]
edit(p, edits, dry) == [tool |-> "edit_file", path |-> p, edits |-> edits, dry |-> dry]
move(p, q) == [tool |-> "move_file", path |-> p, to |-> q]
search(p, want, skip) == [tool |-> "search_files", path |-> p, want |-> want, skip |-> skip]
dirTree(p, skip) == [tool |-> "directory_tree", path |-> p, skip |-> skip]
ask(tool, p) == [tool |-> tool, path |-> p]
becomes(old, new) == [old |-> old, new |-> new]

MCList ==
  <<write(rel(<<3, 5>>)), write(rel(<<4, 5>>)), write(rel(<<5>>)), write(abs(<<2, 5>>)),
     edit(rel(<<3, 5>>), <<becomes(<<1, 1>>, <<2>>), becomes(<<2, 1>>, <<6>>)>>, FALSE),
     edit(rel(<<5>>), <<becomes(<<2>>, <<6>>)>>, FALSE),
     edit(rel(<<4, 5>>), <<becomes(<<1>>, <<6>>)>>, TRUE),
     ask("create_directory", rel(<<4, 5>>)), ask("create_directory", rel(<<4>>)),
     move(rel(<<3>>), rel(<<4>>)), move(rel(<<4>>), rel(<<3>>)),
     move(rel(<<3, 5>>), rel(<<4, 5>>)), move(rel(<<5>>), rel(<<4>>)),
     search(rel(<<Here>>), {5}, {}), search(rel(<<>>), {3, 4, 5}, {4}),
     dirTree(rel(<<3, Up>>), {}), dirTree(rel(<<>>), {3}),
     ask("read_text_file", rel(<<3, 5>>)), ask("list_directory", rel(<<4>>))>>
MCMenu == Range(MCList)

\* The calls differ in nothing but what they ask, so one order of two requests is
\* as good as the other.
InOrder ==
    \E m \in DOMAIN MCList : \E n \in m..Len(MCList) :
        request[1] = MCList[m] /\ request[2] = MCList[n]
=============================================================================
