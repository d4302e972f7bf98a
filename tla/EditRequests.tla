-------------------------- MODULE EditRequests --------------------------
(***************************************************************************)
(* The guarded edits that ContextPatch offers on one repository file, as   *)
(* the state of the file tells them apart.                                 *)
(***************************************************************************)
CONSTANTS
  Callers,      \* MCP workers and CLI processes that edit files
  Paths,        \* repository-relative file names
  Contents,     \* whole-file contents, as far as edits tell them apart
  Modes,        \* permission bits
  NewMode,      \* the mode of a file created by write_new_file
  Requests,     \* the edits that callers may ask for
  None

Ops == {"replace", "bulk", "hash", "chmod", "create"}

(***************************************************************************)
(* A request names a path and a partial function on contents: a content    *)
(* outside its domain is one the edit refuses (anchor missing or repeated, *)
(* digest mismatch).  chmod also names the mode it expects and the mode it *)
(* sets; create names the bytes of the new file.                           *)
(***************************************************************************)
Edits == UNION {[D -> Contents] : D \in SUBSET Contents}

RequestType == [op: Ops, path: Paths, edit: Edits, from: Modes, to: Modes, data: Contents]

FileState == [content: Contents, mode: Modes]

Accepts(r, f) ==
  IF r.op = "create" THEN f = None
  ELSE /\ f # None
       /\ f.content \in DOMAIN r.edit
       /\ r.op = "chmod" => f.mode = r.from

After(r, f) ==
  CASE r.op = "create" -> [content |-> r.data, mode |-> NewMode]
    [] r.op = "chmod"  -> [content |-> f.content, mode |-> r.to]
    [] OTHER           -> [content |-> r.edit[f.content], mode |-> f.mode]
=============================================================================
