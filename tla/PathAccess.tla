----------------------------- MODULE PathAccess -----------------------------
(***************************************************************************)
(* AccessControl of src/support/access.rs: which paths a server may work   *)
(* on.  A requested path is a sequence of components, names or the special *)
(* ones Here (.) and Up (..).                                              *)
(***************************************************************************)
EXTENDS FileTree

Here == -1
Up == -2
NoPath == <<Here>>      \* not yet granted; no path is, once it was normalized

\* Lexical: `..' takes back the component before it, and stays at the root.
Normalized(parts) ==
    LET out[n \in 0..Len(parts)] ==
            IF n = 0 THEN <<>>
            ELSE IF parts[n] = Here THEN out[n - 1]
            ELSE IF parts[n] # Up THEN Append(out[n - 1], parts[n])
            ELSE IF out[n - 1] = <<>> THEN <<>> ELSE Front(out[n - 1])
    IN  out[Len(parts)]

IsWithin(path, roots) == \E root \in roots : Inside(path, root)

\* What a server is started with: existing directories, and the real
\* directories behind them.
CanServe(tree, dirs) ==
    dirs # <<>> /\ \A n \in DOMAIN dirs :
        LET d == Normalized(dirs[n]) IN
        RealStatus(tree, d) = "ok" /\ IsDir(tree, RealPath(tree, d))
AllowedRoots(tree, dirs) ==
    UNION {{Normalized(dirs[n]), RealPath(tree, Normalized(dirs[n]))} : n \in DOMAIN dirs}

\* Relative paths start at the first directory.
Absolute(request, dirs) ==
    Normalized(IF request.absolute THEN request.parts
               ELSE Normalized(dirs[1]) \o request.parts)

\* validate_path looks up the requested path, and when it is missing its
\* ancestors, one after the other.  This is one such lookup of `candidate'.
LookAgain(tree, candidate) == RealStatus(tree, candidate) = "missing" /\ candidate # <<>>
Allows(tree, candidate, roots) ==
    RealStatus(tree, candidate) = "ok" /\ IsWithin(RealPath(tree, candidate), roots)
\* The whole of it at one instant.
Nearest(tree, path) ==
    Prefix(path, CHOOSE n \in 0..Len(path) :
        /\ ~LookAgain(tree, Prefix(path, n))
        /\ \A m \in n + 1..Len(path) : LookAgain(tree, Prefix(path, m)))
Valid(tree, path, roots) ==
    IsWithin(path, roots) /\ \E candidate \in {Nearest(tree, path)} : Allows(tree, candidate, roots)
=============================================================================
