----------------------------- MODULE FileStore ------------------------------
(***************************************************************************)
(* What the filesystem server promises about the files its users see,      *)
(* however its calls interleave and whichever of their steps fail.  A call *)
(* is granted the paths it named, or where they led at that moment, and    *)
(* only within the roots; what it reads or changes is what the granted     *)
(* path leads to when it does so.  A write or a move changes the files at  *)
(* most once, at one instant and by its whole effect; it answers success   *)
(* only after that, and an error before it, but for a write that took      *)
(* place and could not be synced.  A call that creates a directory makes   *)
(* directories on the way to it one by one and may fail after some of      *)
(* them; it answers success, as a listing does, only when the whole path   *)
(* leads to a directory.                                                   *)
(* An edit applies to a text the file had at some moment of the call:      *)
(* nothing says that it still has it.                                      *)
(***************************************************************************)
EXTENDS PathAccess, TextEdit

CONSTANTS Calls, Menu, Dirs

VARIABLES
    files,      \* the tree without temporary files
    roots,
    request,
    source,     \* the paths a call was granted
    target,
    text,       \* what an edit makes of the text it read
    effect,     \* the write or the move has taken place
    reply

storeVars == <<files, roots, request, source, target, text, effect, reply>>

AtomicWriters == {"write_file", "edit_file"}
Changers == AtomicWriters \cup {"move_file"}

StoreInit ==
    /\ IsTree(files)
    /\ roots = AllowedRoots(files, Dirs)
    /\ request \in [Calls -> Menu]
    /\ source = [c \in Calls |-> NoPath]
    /\ target = [c \in Calls |-> NoPath]
    /\ text = [c \in Calls |-> <<>>]
    /\ effect = [c \in Calls |-> FALSE]
    /\ reply = [c \in Calls |-> "none"]

Pending(c) == reply[c] = "none" /\ ~effect[c]

\* A move names two paths, and is granted the one it moves first.
NeedsSource(c) == request[c].tool = "move_file" /\ source[c] = NoPath
Named(c) ==
    Absolute(IF request[c].tool = "move_file" /\ ~NeedsSource(c) THEN request[c].to
             ELSE request[c].path, Dirs)

\* The real path of what was named, or the path as it was named when what exists
\* of it lies within the roots.
MayGrant(named, path) ==
    /\ IsWithin(named, roots)
    /\ \/ path = RealPath(files, named) /\ Allows(files, named, roots)
       \/ path = named /\ \E n \in 0..Len(named) : Allows(files, Prefix(named, n), roots)
Grant(c) ==
    /\ Pending(c)
    /\ \E path \in {Named(c), RealPath(files, Named(c))} :
        /\ MayGrant(Named(c), path)
        /\ IF NeedsSource(c)
           THEN source' = [source EXCEPT ![c] = path] /\ UNCHANGED target
           ELSE /\ target[c] = NoPath
                /\ target' = [target EXCEPT ![c] = path]
                /\ UNCHANGED source
    /\ UNCHANGED <<files, roots, request, text, effect, reply>>

\* What a read returns, and what an edit works on, is the whole text of the file.
Found(c) == files[RealPath(files, target[c])].text
Read(c) ==
    /\ Pending(c) /\ request[c].tool = "read_text_file"
    /\ LeadsToFile(files, target[c])
    /\ text' = [text EXCEPT ![c] = Found(c)]
    /\ reply' = [reply EXCEPT ![c] = "ok"]
    /\ UNCHANGED <<files, roots, request, source, target, effect>>

Edited(c) == Applied(Found(c), request[c].edits)
Edit(c) ==
    /\ Pending(c) /\ request[c].tool = "edit_file"
    /\ LeadsToFile(files, target[c])
    /\ text' = [text EXCEPT ![c] = Edited(c).text]
    /\ reply' = [reply EXCEPT ![c] =
          IF ~Edited(c).ok THEN "error"
          ELSE IF request[c].dry \/ Edited(c).text = Found(c) THEN "ok" ELSE "none"]
    /\ UNCHANGED <<files, roots, request, source, target, effect>>

WriteOne(c, new) ==
    /\ HasPlace(files, target[c]) /\ Place(files, target[c]) \in Paths
    /\ ~IsDir(files, Place(files, target[c]))
    /\ files' = [files EXCEPT ![Place(files, target[c])] = File(new)]
Move(c) ==
    /\ CanRename(files, source[c], target[c])
    /\ files' = Renamed(files, source[c], target[c])

Change(c) ==
    /\ Pending(c)
    /\ CASE request[c].tool = "write_file" -> WriteOne(c, request[c].text) /\ UNCHANGED reply
         [] request[c].tool = "edit_file" -> WriteOne(c, text[c]) /\ UNCHANGED reply
         [] request[c].tool = "move_file" -> Move(c) /\ reply' = [reply EXCEPT ![c] = "ok"]
         [] OTHER -> FALSE
    /\ effect' = [effect EXCEPT ![c] = TRUE]
    /\ UNCHANGED <<roots, request, source, target, text>>

\* One directory on the way to the one that was asked for, or that one.
MakeDir(c) ==
    /\ Pending(c) /\ request[c].tool = "create_directory"
    /\ \E n \in 1..Len(target[c]) :
        /\ CanMkdir(files, Prefix(target[c], n))
        /\ files' = Mkdir(files, Prefix(target[c], n))
        /\ reply' = [reply EXCEPT ![c] = IF n = Len(target[c]) THEN "ok" ELSE "none"]
    /\ UNCHANGED <<roots, request, source, target, text, effect>>

\* A list or a walk changes nothing, a change is answered after it took place, and
\* a write or a move that fails changed nothing, unless it was a write that could
\* not be synced.
Answer(c) ==
    /\ reply[c] = "none"
    /\ \/ /\ effect[c] => request[c].tool \in AtomicWriters
          /\ reply' = [reply EXCEPT ![c] = "error"]
       \/ /\ \/ effect[c]
             \/ /\ request[c].tool \in {"create_directory", "list_directory"}
                /\ LeadsToDir(files, target[c])
             \/ request[c].tool \in {"search_files", "directory_tree"}
          /\ reply' = [reply EXCEPT ![c] = "ok"]
    /\ UNCHANGED <<files, roots, request, source, target, text, effect>>

StoreNext ==
    \E c \in Calls : Grant(c) \/ Read(c) \/ Edit(c) \/ Change(c) \/ MakeDir(c) \/ Answer(c)
StoreSpec == StoreInit /\ [][StoreNext]_storeVars
=============================================================================
