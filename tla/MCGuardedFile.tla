-------------------------- MODULE MCGuardedFile --------------------------
(***************************************************************************)
(* Small file systems and requests for checking GuardedFile, in behaviours *)
(* of two parts: every request with nothing failing, and fewer of them     *)
(* while system calls fail, processes are killed and the power goes.       *)
(***************************************************************************)
EXTENDS GuardedFile, TLC

CONSTANTS p1, p2, i1, i2, i3, i4

VARIABLE part

(* A file's content is the set of hunks applied to it so far. *)
MCContents == {"base", "x", "y", "xy"}

AddX == [c \in {"base", "y"} |-> IF c = "base" THEN "x" ELSE "xy"]
AddY == [c \in {"base", "x"} |-> IF c = "base" THEN "y" ELSE "xy"]
ResetX == [c \in {"x"} |-> "base"]
Keep(S) == [c \in S |-> c]

Request(op, path, edit, from, to) ==
  [op |-> op, path |-> path, edit |-> edit, from |-> from, to |-> to, data |-> "y"]

Replace == Request("replace", "q", AddX, 0, 0)
Bulk == Request("bulk", "q", AddY, 0, 0)
Hash == Request("hash", "q", ResetX, 0, 0)
MakeExecutable == Request("chmod", "q", Keep({"base", "x"}), 0, 1)
KeepExecutable == Request("chmod", "q", Keep({"y"}), 1, 1)
Create == Request("create", "new", Keep({}), 0, 0)
ReplaceNew == Request("replace", "new", AddX, 0, 0)
CreateOver == Request("create", "q", Keep({}), 0, 0)

AllRequests ==
  {Replace, Bulk, Hash, MakeExecutable, KeepExecutable, Create, ReplaceNew, CreateOver}
FaultRequests == {Replace, MakeExecutable, Create, CreateOver}

Plain(d, inodes) == [dir |-> d, content |-> [i \in inodes |-> "base"], mode |-> [i \in inodes |-> 0]]
OneFile(inodes) == {Plain("q" :> i1 @@ "new" :> None, inodes)}
(* The same, or both paths are links of one inode. *)
FreeOrLinked == OneFile(Inodes) \cup {Plain("q" :> i1 @@ "new" :> i1, Inodes)}

FewInodes == {i1, i2, i3}
Faulty == INSTANCE GuardedFile WITH
  Requests <- FaultRequests, InitialFiles <- OneFile(FewInodes),
  Inodes <- FewInodes, IoFaults <- TRUE, MayCrash <- TRUE

MCInit == \/ part = "calm" /\ Init
          \/ part = "faulty" /\ Faulty!Init

MCNext == /\ UNCHANGED part
          /\ \/ part = "calm" /\ Next
             \/ part = "faulty" /\ Faulty!Next

MCSpec == MCInit /\ [][MCNext]_<<part, vars>>

(* What a free inode last held is never read again: Stage overwrites all of it. *)
Live(i) == ~Free(i)
View == <<part, dir, [i \in DOMAIN content |-> IF Live(i) THEN <<content[i], mode[i], i \in durable>> ELSE None],
          orphan, lock, pc, req, fd, kept, temp, orig, result>>

(* Two states of the faulty part, which has no i4, are permutations of each other only by one *)
(* that leaves i4 alone.                                                                     *)
Symmetry == Permutations(Callers) \cup Permutations(Inodes \ {i1})

(* The inductive invariant of the proofs holds in every state (GuardedFile). *)
StaysInductive == IF part = "faulty" THEN Faulty!IInv ELSE IInv
=============================================================================
