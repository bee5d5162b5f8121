----------------------------- MODULE FileServer -----------------------------
(***************************************************************************)
(* The filesystem server, src/fs: tool calls that run at the same time on  *)
(* one directory tree.  The server keeps no state and takes no lock, so    *)
(* every system call a handler awaits is a step of its own.                *)
(*                                                                         *)
(* Left out: the modes, times and sizes of files, media types, diffs, and  *)
(* the cutting of long results.  read_media_file, read_multiple_files and  *)
(* get_file_info are read_text_file with another rendering, as             *)
(* list_directory_with_sizes is list_directory.                            *)
(***************************************************************************)
EXTENDS PathAccess, TextEdit, FiniteSets

CONSTANTS
    Calls,          \* numbers, so that they can number temporary files
    Menu,           \* bound: what a call may ask
    Trees,          \* bound: the trees the server may find
    Dirs,           \* the directories on its command line
    MaxEntries,     \* entries search_files looks at
    MaxResults,     \* results of search_files
    TreeBudget      \* entries of directory_tree

VARIABLES
    tree,
    roots,          \* validation_roots of AccessControl
    request,        \* what each call asks
    pc,             \* where each call is
    candidate,      \* the path whose turn it is to be looked up
    source, target, \* the paths the call was granted
    text,           \* what it is about to write
    walk,           \* where its walk of a directory tree is
    reply,          \* "none", "ok" or "error"
    stuck,          \* writes whose temporary file could not be removed
    changed,        \* history: the write or move of the call has taken place
    stays,          \* history: what a walk could have seen at any moment so far
    taken,          \* history: moves whose destination was filled since they looked
    strayed         \* history: writes to whose temporary file its path once did not lead

vars == <<tree, roots, request, pc, candidate, source, target, text, walk, reply, stuck>>
history == <<changed, stays, taken, strayed>>
callVars == <<roots, request, stuck>>

Writers == {"write_file", "edit_file"}
Walkers == {"search_files", "directory_tree"}
Readers == {"read_text_file", "list_directory"}
Tools == Writers \cup Walkers \cup Readers \cup {"create_directory", "move_file"}

Temp(c) == Up - c
Names == Int \ {Temp(c) : c \in Calls}     \* those that users give, Here and Up included
IsTemp(p) == p # <<>> /\ \E c \in Calls : Last(p) = Temp(c)
TempOf(c) == Append(Parent(target[c]), Temp(c))

\* Nothing the server finds or is asked for has the name of a temporary file: there
\* is a number in it that no two files share (src/support/mod.rs:140); no file is
\* named Here, the current directory.
Asks == [absolute : BOOLEAN, parts : Seq(Names)]
ASSUME FileAssumption ==
    /\ Calls \subseteq Nat \ {0}
    /\ Paths \subseteq Seq(Int \ {Here}) /\ IsFiniteSet(Paths)
    /\ Dirs \in Seq(Seq(Names))
    /\ \A t \in Trees :
        /\ t \in [Paths -> Nodes(Names)] /\ IsTree(t)
        /\ \A p \in Paths : Exists(t, p) => p \in Seq(Names)
    /\ \A r \in Menu :
        /\ r.tool \in Tools /\ r.path \in Asks
        /\ r.tool = "move_file" => r.to \in Asks
        /\ r.tool = "write_file" => r.text \in Seq(Nat)
        /\ r.tool = "edit_file" =>
              r.edits \in Seq([old : Seq(Nat), new : Seq(Nat)]) /\ r.dry \in BOOLEAN
    /\ MaxEntries \in Nat /\ MaxResults \in Nat /\ TreeBudget \in Nat

\* A file that was created and not yet filled holds less than what was asked for.
Partial == <<0>>

\* frames: for each directory that is open, the entries still to be visited.
\* waiting: directories still to be opened.
NoWalk == [frames |-> <<>>, waiting |-> <<>>, found |-> {}, visited |-> 0, cut |-> FALSE]

PC == {"resolve", "ancestor", "read", "create", "fill", "rename", "sync", "remove",
       "mkdir", "isdir", "descend", "exists", "move", "open", "visit", "done"}

\* What a directory holds was listed under the path by which it was opened.
Entry == [path : Seq(Int), dir : BOOLEAN]
Walks == [frames : Seq(Seq(Entry)), waiting : Seq(Seq(Int)), found : SUBSET Seq(Int),
          visited : 0..MaxEntries, cut : BOOLEAN]

TypeOK ==
    /\ tree \in [Paths -> Nodes(Names)] /\ IsTree(tree)
    /\ roots \subseteq Seq(Int)
    /\ request \in [Calls -> Menu]
    /\ pc \in [Calls -> PC]
    /\ candidate \in [Calls -> Seq(Names)]
    /\ source \in [Calls -> Seq(Names)]
    /\ target \in [Calls -> Seq(Names)]
    /\ text \in [Calls -> Seq(Nat)]
    /\ walk \in [Calls -> Walks]
    /\ reply \in [Calls -> {"none", "ok", "error"}]
    /\ stuck \subseteq Calls
    /\ \A c \in Calls :
        /\ IsFiniteSet(walk[c].found)
        /\ Cardinality(walk[c].found) <=
              (IF request[c].tool = "search_files" THEN MaxResults ELSE TreeBudget)
        /\ (pc[c] = "done") = (reply[c] # "none")

Goto(c, label) == pc' = [pc EXCEPT ![c] = label]
Finish(c, how) == Goto(c, "done") /\ reply' = [reply EXCEPT ![c] = how]
Working(c) == UNCHANGED reply

-----------------------------------------------------------------------------
(* Resolving the paths of a call *)

Asked(c) == Absolute(request[c].path, Dirs)
AskedTarget(c) == Absolute(request[c].to, Dirs)
TwoPaths(c) == request[c].tool = "move_file"
Looking(c) == IF TwoPaths(c) /\ source[c] # NoPath THEN AskedTarget(c) ELSE Asked(c)

AfterResolve(c) ==
    CASE request[c].tool = "write_file" -> "create"
      [] request[c].tool \in Readers \cup {"edit_file"} -> "read"
      [] request[c].tool = "create_directory" -> "mkdir"
      [] request[c].tool = "move_file" -> "exists"
      [] request[c].tool \in Walkers -> "open"

\* A path that was named outside the roots is refused before it is looked up.
Refuse(c) ==
    /\ pc[c] = "resolve"
    /\ ~IsWithin(Looking(c), roots)
    /\ Finish(c, "error")
    /\ UNCHANGED <<tree, callVars, candidate, source, target, text, walk>>

\* The call goes on with the path it was granted.
Grant(c, path) ==
    IF TwoPaths(c) /\ source[c] = NoPath
    THEN /\ source' = [source EXCEPT ![c] = path]
         /\ candidate' = [candidate EXCEPT ![c] = AskedTarget(c)]
         /\ Goto(c, "resolve")
         /\ UNCHANGED <<target, walk>>
    ELSE /\ target' = [target EXCEPT ![c] = path]
         /\ walk' = [walk EXCEPT ![c].waiting =
                        IF request[c].tool \in Walkers THEN <<path>> ELSE <<>>]
         /\ candidate' = [candidate EXCEPT ![c] = path]
         /\ Goto(c, AfterResolve(c))
         /\ UNCHANGED source

Looked(c, path) ==
    IF Allows(tree, candidate[c], roots) THEN Grant(c, path) /\ UNCHANGED reply
    ELSE Finish(c, "error") /\ UNCHANGED <<candidate, source, target, walk>>

\* An entry that exists is granted by its real path.
LookUp(c) ==
    /\ pc[c] = "resolve"
    /\ IsWithin(Looking(c), roots)
    /\ IF LookAgain(tree, candidate[c])
       THEN Goto(c, "ancestor") /\ UNCHANGED <<candidate, source, target, walk, reply>>
       ELSE Looked(c, RealPath(tree, candidate[c]))
    /\ UNCHANGED <<tree, callVars, text>>

\* One that does not is granted as it was asked for, if the nearest ancestor that
\* exists is allowed; the search for it starts at the entry itself.
LookAbove(c) ==
    /\ pc[c] = "ancestor"
    /\ IF LookAgain(tree, candidate[c])
       THEN /\ candidate' = [candidate EXCEPT ![c] = Parent(candidate[c])]
            /\ UNCHANGED <<pc, source, target, walk, reply>>
       ELSE Looked(c, Looking(c))
    /\ UNCHANGED <<tree, callVars, text>>

\* Before it changes anything a call may fail at every step: a file or an
\* argument that is too large, a permission that is missing.
Fails(c) ==
    /\ pc[c] \in {"resolve", "ancestor", "read", "mkdir", "isdir", "descend", "exists", "move",
                 "open", "visit"}
    /\ Finish(c, "error")
    /\ UNCHANGED <<tree, callVars, candidate, source, target, text, walk>>

-----------------------------------------------------------------------------
(* Reading and editing *)

\* open(2) follows links; what it finds may differ from what was resolved.
Opened(p) == RealPath(tree, p)
CanOpen(p) == RealStatus(tree, p) = "ok"

Read(c) ==
    /\ pc[c] = "read"
    /\ request[c].tool \in Readers
    /\ IF ~CanOpen(target[c])
          \/ IsDir(tree, Opened(target[c])) # (request[c].tool = "list_directory")
       THEN Finish(c, "error") /\ UNCHANGED text
       ELSE /\ Finish(c, "ok")
            /\ text' = [text EXCEPT ![c] = IF request[c].tool = "list_directory" THEN <<>>
                                           ELSE tree[Opened(target[c])].text]
    /\ UNCHANGED <<tree, callVars, candidate, source, target, walk>>

\* The whole file is read and edited in memory; nothing is written when an
\* edit does not match, when nothing changes, or in a dry run.
Edited(c) == Applied(tree[Opened(target[c])].text, request[c].edits)
ReadToEdit(c) ==
    /\ pc[c] = "read"
    /\ request[c].tool = "edit_file"
    /\ IF ~CanOpen(target[c]) \/ ~IsFile(tree, Opened(target[c]))
       THEN Finish(c, "error") /\ UNCHANGED text
       ELSE /\ text' = [text EXCEPT ![c] = Edited(c).text]
            /\ IF ~Edited(c).ok THEN Finish(c, "error")
               ELSE IF request[c].dry \/ Edited(c).text = tree[Opened(target[c])].text
               THEN Finish(c, "ok")
               ELSE Goto(c, "create") /\ UNCHANGED reply
    /\ UNCHANGED <<tree, callVars, candidate, source, target, walk>>

-----------------------------------------------------------------------------
(* atomic_write: fill a temporary file next to the target, rename it over *)

Unchanged(c) == UNCHANGED <<callVars, candidate, source, target, text, walk>>

\* The file descriptor stays with the file when its directory is moved.
TempAt(c) == {p \in Paths : p # <<>> /\ Last(p) = Temp(c) /\ Exists(tree, p)}
NewText(c) == IF request[c].tool = "write_file" THEN request[c].text ELSE text[c]

CreateTemp(c) ==
    /\ pc[c] = "create"
    /\ \/ /\ HasPlace(tree, TempOf(c)) /\ Place(tree, TempOf(c)) \in Paths
          /\ tree' = [tree EXCEPT ![Place(tree, TempOf(c))] = File(Partial)]
          /\ Goto(c, "fill") /\ UNCHANGED reply
       \/ Finish(c, "error") /\ UNCHANGED tree
    /\ Unchanged(c)

Fill(c) ==
    /\ pc[c] = "fill"
    /\ \E p \in TempAt(c) : tree' = [tree EXCEPT ![p] = File(NewText(c))]
    /\ Goto(c, "rename")
    /\ Unchanged(c) /\ UNCHANGED reply

\* Writing, setting the mode or syncing may fail at any point.
IgnoreFailure(c) ==     \* mutant: what could be written is renamed over the target
    /\ pc[c] = "fill"
    /\ Goto(c, "rename")
    /\ Unchanged(c) /\ UNCHANGED <<tree, reply>>

FillFails(c) ==
    /\ pc[c] = "fill"
    /\ Goto(c, "remove")
    /\ Unchanged(c) /\ UNCHANGED <<tree, reply>>

Rename(c) ==
    /\ pc[c] = "rename"
    /\ IF CanRename(tree, TempOf(c), target[c])
       THEN tree' = Renamed(tree, TempOf(c), target[c]) /\ Goto(c, "sync")
       ELSE UNCHANGED tree /\ Goto(c, "remove")
    /\ Unchanged(c) /\ UNCHANGED reply

SyncParent(c) ==
    /\ pc[c] = "sync"
    /\ \/ CanOpen(Parent(target[c])) /\ Finish(c, "ok")
       \/ Goto(c, "remove") /\ UNCHANGED reply
    /\ Unchanged(c) /\ UNCHANGED tree

LeaveTemp(c) ==     \* mutant: the temporary file of a failed write stays
    /\ pc[c] = "remove"
    /\ Finish(c, "error")
    /\ Unchanged(c) /\ UNCHANGED tree

\* That the file cannot be removed is ignored, as the name under which it is not
\* found (src/support/mod.rs:165).
RemoveTemp(c) ==
    /\ pc[c] = "remove"
    /\ \/ /\ tree' = IF HasPlace(tree, TempOf(c)) /\ Exists(tree, Place(tree, TempOf(c)))
                     THEN [tree EXCEPT ![Place(tree, TempOf(c))] = None] ELSE tree
          /\ UNCHANGED stuck
       \/ stuck' = stuck \cup {c} /\ UNCHANGED tree
    /\ Finish(c, "error")
    /\ UNCHANGED <<roots, request, candidate, source, target, text, walk>>

-----------------------------------------------------------------------------
(* Directories and moves *)

\* create_dir_all goes up from the path it was asked for until a directory can be
\* made or is there, and down again to make the others: one mkdir a step.
NextDown(c) ==
    IF candidate[c] = target[c] THEN Finish(c, "ok") /\ UNCHANGED candidate
    ELSE /\ candidate' = [candidate EXCEPT ![c] = Prefix(target[c], Len(candidate[c]) + 1)]
         /\ Goto(c, "descend") /\ UNCHANGED reply

MakeDirectory(c) ==
    /\ pc[c] \in {"mkdir", "descend"}
    /\ IF CanMkdir(tree, candidate[c])
       THEN tree' = Mkdir(tree, candidate[c]) /\ NextDown(c)
       ELSE /\ UNCHANGED <<tree, reply>>
            /\ IF pc[c] = "mkdir" /\ RealStatus(tree, Parent(candidate[c])) = "missing"
               THEN candidate' = [candidate EXCEPT ![c] = Parent(candidate[c])] /\ UNCHANGED pc
               ELSE Goto(c, "isdir") /\ UNCHANGED candidate
    /\ UNCHANGED <<callVars, source, target, text, walk>>

\* A directory that could not be made may be there: another call made it.
CheckDirectory(c) ==
    /\ pc[c] = "isdir"
    /\ IF LeadsToDir(tree, candidate[c]) THEN NextDown(c)
       ELSE Finish(c, "error") /\ UNCHANGED candidate
    /\ UNCHANGED <<tree, callVars, source, target, text, walk>>

SkipCheck(c) ==     \* mutant: nobody looks
    /\ pc[c] = "exists"
    /\ Goto(c, "move") /\ UNCHANGED <<tree, reply>>
    /\ Unchanged(c)

\* try_exists follows a last link: one that leads nowhere is no destination.
DestinationExists(c) ==
    /\ pc[c] = "exists"
    /\ IF RealStatus(tree, target[c]) = "missing"
       THEN Goto(c, "move") /\ UNCHANGED reply
       ELSE Finish(c, "error")
    /\ Unchanged(c) /\ UNCHANGED tree

MoveFile(c) ==
    /\ pc[c] = "move"
    /\ IF CanRename(tree, source[c], target[c])
       THEN tree' = Renamed(tree, source[c], target[c]) /\ Finish(c, "ok")
       ELSE UNCHANGED tree /\ Finish(c, "error")
    /\ Unchanged(c)

-----------------------------------------------------------------------------
(* search_files and directory_tree *)

\* An exclude pattern without a star matches its name and all below it; the
\* patterns are reduced to the names they are about.
Relative(c, p) == SubSeq(p, Len(target[c]) + 1, Len(p))
Excluded(c, p) == \E n \in DOMAIN Relative(c, p) : Relative(c, p)[n] \in request[c].skip
Matches(c, p) == Last(p) \in request[c].want

\* The type of an entry comes with the listing; links are not followed.
Entries(d) ==
    [n \in DOMAIN Listing(tree, RealPath(tree, d)) |->
        LET p == Listing(tree, RealPath(tree, d))[n]
        IN  [path |-> Append(d, Last(p)), dir |-> IsDir(tree, p)]]

\* The next directory is the one found last; one that is gone fails the call.
Open(c) ==
    /\ pc[c] = "open"
    /\ IF walk[c].waiting = <<>> THEN Finish(c, "ok") /\ UNCHANGED walk
       ELSE LET d == Last(walk[c].waiting) IN
            IF ~LeadsToDir(tree, d) THEN Finish(c, "error") /\ UNCHANGED walk
            ELSE /\ walk' = [walk EXCEPT ![c].waiting = Front(@),
                                        ![c].frames = Append(@, Entries(d))]
                 /\ Goto(c, "visit") /\ UNCHANGED reply
    /\ UNCHANGED <<tree, callVars, candidate, source, target, text>>

Frame(c) == Last(walk[c].frames)
NextEntry(c) == Head(Frame(c))
EntryTaken(c) == Append(Front(walk[c].frames), Tail(Frame(c)))
Skipped(c) == ~Valid(tree, NextEntry(c).path, roots) \/ Excluded(c, NextEntry(c).path)
Truncate(c) == walk' = [walk EXCEPT ![c].cut = TRUE] /\ Finish(c, "ok")

\* A directory read to its end: search_files goes on with the waiting ones,
\* directory_tree with the rest of the parent.
CloseDirectory(c) ==
    /\ pc[c] = "visit"
    /\ Frame(c) = <<>>
    /\ walk' = [walk EXCEPT ![c].frames = Front(@)]
    /\ Goto(c, IF Len(walk[c].frames) = 1 THEN "open" ELSE "visit")
    /\ UNCHANGED <<tree, callVars, candidate, source, target, text, reply>>

PushMatching(c) ==     \* mutant: a search enters only directories that match
    IF /\ NextEntry(c).dir /\ ~Skipped(c)
       /\ request[c].tool = "search_files" => Matches(c, NextEntry(c).path)
    THEN Append(walk[c].waiting, NextEntry(c).path) ELSE walk[c].waiting
Push(c) ==
    IF NextEntry(c).dir /\ ~Skipped(c) THEN Append(walk[c].waiting, NextEntry(c).path)
    ELSE walk[c].waiting

EntriesOut(c, hit) == walk[c].visited = MaxEntries     \* mutant: results are not counted
LimitReached(c, hit) ==
    \/ walk[c].visited = MaxEntries
    \/ hit /\ Cardinality(walk[c].found) = MaxResults

SearchVisit(c) ==
    LET entry == NextEntry(c)
        hit == ~Skipped(c) /\ Matches(c, entry.path)
    IN  /\ pc[c] = "visit"
        /\ request[c].tool = "search_files"
        /\ Frame(c) # <<>>
        /\ IF LimitReached(c, hit) THEN Truncate(c)
           ELSE /\ walk' = [walk EXCEPT
                       ![c].visited = @ + 1,
                       ![c].frames = EntryTaken(c),
                       ![c].found = IF hit THEN @ \cup {entry.path} ELSE @,
                       ![c].waiting = Push(c)]
                /\ UNCHANGED <<pc, reply>>
        /\ UNCHANGED <<tree, callVars, candidate, source, target, text>>

\* The budget is looked at first: an entry that would have been skipped counts.
TreeVisit(c) ==
    LET entry == NextEntry(c) IN
    /\ pc[c] = "visit"
    /\ request[c].tool = "directory_tree"
    /\ Frame(c) # <<>>
    /\ IF Cardinality(walk[c].found) = TreeBudget THEN Truncate(c)
       ELSE /\ walk' = [walk EXCEPT
                   ![c].frames = EntryTaken(c),
                   ![c].found = IF Skipped(c) THEN @ ELSE @ \cup {entry.path},
                   ![c].waiting = Push(c)]
            /\ Goto(c, IF entry.dir /\ ~Skipped(c) THEN "open" ELSE "visit")
            /\ UNCHANGED reply
    /\ UNCHANGED <<tree, callVars, candidate, source, target, text>>

-----------------------------------------------------------------------------

Init ==
    /\ tree \in {t \in Trees : CanServe(t, Dirs)}
    /\ roots = AllowedRoots(tree, Dirs)
    /\ request \in [Calls -> Menu]
    /\ pc = [c \in Calls |-> "resolve"]
    /\ candidate = [c \in Calls |-> Absolute(request[c].path, Dirs)]
    /\ source = [c \in Calls |-> NoPath]
    /\ target = [c \in Calls |-> NoPath]
    /\ text = [c \in Calls |-> <<>>]
    /\ walk = [c \in Calls |-> NoWalk]
    /\ reply = [c \in Calls |-> "none"]
    /\ stuck = {}
    /\ changed = [c \in Calls |-> FALSE]
    /\ stays = [c \in Calls |-> {}]
    /\ taken = {} /\ strayed = {}

Handle(c) ==
    \/ Refuse(c) \/ LookUp(c) \/ LookAbove(c) \/ Fails(c)
    \/ Read(c) \/ ReadToEdit(c)
    \/ CreateTemp(c) \/ Fill(c) \/ FillFails(c) \/ Rename(c) \/ SyncParent(c) \/ RemoveTemp(c)
    \/ MakeDirectory(c) \/ CheckDirectory(c) \/ DestinationExists(c) \/ MoveFile(c)
    \/ Open(c) \/ CloseDirectory(c) \/ SearchVisit(c) \/ TreeVisit(c)

-----------------------------------------------------------------------------
(* History, of which no step takes notice *)

\* What lies below the root of a walk and may be shown.
Shown(c, p) == Below(p, target[c]) /\ Exists(tree, p) /\ Valid(tree, p, roots)
SameKind(p) == tree'[p].kind = tree[p].kind

LeadsTo(path, p) == HasPlace(tree, path) /\ Place(tree, path) = p

\* The step by which a write or a move takes place.
TakesEffect(c) ==
    \/ pc[c] = "rename" /\ pc'[c] = "sync"
    \/ pc[c] = "move" /\ reply'[c] = "ok"

Watch ==
    /\ changed' = [c \in Calls |-> changed[c] \/ TakesEffect(c)]
    /\ stays' = [c \in Calls |->
           CASE pc[c] = "done" \/ request[c].tool \notin Walkers -> stays[c]
             [] pc'[c] = "open" /\ pc[c] \in {"resolve", "ancestor"} -> {p \in Paths : Shown(c, p)'}
             [] OTHER -> {p \in stays[c] : SameKind(p) /\ Shown(c, p)'}]
    /\ taken' = {c \in Calls : pc'[c] = "move" /\
           (c \in taken \/ (pc[c] = "move" /\ RealStatus(tree, target[c])' # "missing"))}
    /\ strayed' = strayed \cup {c \in Calls : \E p \in TempAt(c)' : ~LeadsTo(TempOf(c), p)'}

Answered == (\A c \in Calls : pc[c] = "done") /\ UNCHANGED <<vars, history>>
Next == Answered \/ ((\E c \in Calls : Handle(c)) /\ Watch)
Spec == Init /\ [][Next]_<<vars, history>>

-----------------------------------------------------------------------------

\* A search or a tree that does not say it was cut short shows everything that
\* was there, and was allowed and not excluded, for as long as it ran, whatever
\* other calls moved, made or replaced around it.  A search that finds nothing
\* before it reaches its limit is exempt: it answers "No matches found" without
\* the notice (src/fs/mod.rs:737).
Wanted(c, p) ==
    /\ ~Excluded(c, p)
    /\ request[c].tool = "search_files" => Matches(c, p)
WalksMissNothing ==
    \A c \in Calls :
        request[c].tool \in Walkers /\ reply[c] = "ok" /\ ~walk[c].cut =>
            \A p \in stays[c] : Wanted(c, p) => p \in walk[c].found

\* A move replaces nothing but what another call put in its way after it
\* looked, or a link that leads nowhere, which it does not see.
MoveReplacesOnlyLatecomers ==
    [][\A c \in Calls : pc[c] = "move" /\ reply'[c] = "ok" =>
        \/ c \in taken
        \/ ~Exists(tree, Place(tree, target[c]))
        \/ IsLink(tree, Place(tree, target[c]))]_<<vars, history>>

\* A temporary file outlives its call only where the one attempt to remove it
\* failed, or its path did not lead to it all the while: somebody moved its
\* directory, or a link on the way there.
NoLitter == \A c \in Calls : pc[c] = "done" /\ TempAt(c) # {} => c \in strayed \cup stuck

\* The files users see change as the store says: a write or a move as a whole and
\* at once, at what the granted path leads to, and directories one by one.
Seen == [p \in Paths |-> IF IsTemp(p) THEN None ELSE tree[p]]
Store == INSTANCE FileStore WITH files <- Seen, effect <- changed
KeepsTree == Store!StoreSpec
=============================================================================
