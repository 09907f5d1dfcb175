----------------------------- MODULE FileStore -----------------------------
(***************************************************************************)
(* What the file commands of the shell promise: a tree of directories and  *)
(* files that only whole commands change.  tree maps the path of every     *)
(* directory and file to DirNode or to the sequence of its contents; the   *)
(* root directory, the empty path, is not in it.                           *)
(***************************************************************************)
EXTENDS Sequences, SequencesExt, Functions

CONSTANTS
  DirNode,    \* what the path of a directory maps to
  Lost,       \* what the path of a file whose contents are gone maps to
  Paths,      \* the paths commands are given
  Contents    \* the sequences commands write or append

VARIABLE tree

IsDir(p) == p = << >> \/ (p \in DOMAIN tree /\ tree[p] = DirNode)
IsFile(p) == p \in DOMAIN tree /\ tree[p] # DirNode
CanHold(p) == IsDir(Front(p))
Below(p) == {q \in DOMAIN tree : IsPrefix(p, q)}
Set(p, x) == tree' = [q \in DOMAIN tree \cup {p} |-> IF q = p THEN x ELSE tree[q]]

Write(p, d) == CanHold(p) /\ ~IsDir(p) /\ Set(p, d)
AppendTo(p, d) ==
  CanHold(p) /\ ~IsDir(p) /\ Set(p, (IF IsFile(p) THEN tree[p] ELSE << >>) \o d)
Touch(p) == CanHold(p) /\ p \notin DOMAIN tree /\ Set(p, << >>)
Delete(p) == p \in DOMAIN tree /\ tree' = Restrict(tree, DOMAIN tree \ Below(p))
(* A deletion that a fault cuts short leaves the name, and below it some   *)
(* of what was there; other paths are as they were. *)
CutDelete(p) ==
  /\ p \in DOMAIN tree
  /\ DOMAIN tree' \subseteq DOMAIN tree
  /\ (DOMAIN tree \ Below(p)) \cup {p} \subseteq DOMAIN tree'
  /\ \A r \in DOMAIN tree' :
       tree'[r] = tree[r] \/ (r \in Below(p) /\ IsFile(r) /\ tree'[r] = Lost)
Mkdir(p) == CanHold(p) /\ p \notin DOMAIN tree /\ Set(p, DirNode)
Move(p, q) ==
  /\ IsFile(p) /\ q \notin DOMAIN tree /\ CanHold(q) /\ p # q
  /\ tree' = [r \in (DOMAIN tree \cup {q}) \ {p} |->
                IF r = q THEN tree[p] ELSE tree[r]]

(* The paths of Below(p) moved to q. *)
Moved(r, p, q) == q \o SubSeq(r, Len(p) + 1, Len(r))
(* A copy of a directory may stop early; what it leaves is part of the     *)
(* copy, and every directory in it is there before what is below it. *)
Copy(p, q) ==
  /\ p \in DOMAIN tree /\ q \notin DOMAIN tree /\ CanHold(q) /\ ~IsPrefix(p, q)
  /\ \E part \in SUBSET Below(p) :
       /\ p \in part
       /\ \A r \in part : r # p => Front(r) \in part
       /\ tree' = [r \in DOMAIN tree \cup {Moved(x, p, q) : x \in part} |->
                     IF r \in DOMAIN tree THEN tree[r]
                     ELSE tree[CHOOSE x \in part : Moved(x, p, q) = r]]

Init == \A p \in DOMAIN tree : CanHold(p)

Next ==
  \E p \in Paths :
    \/ \E d \in Contents : Write(p, d) \/ AppendTo(p, d)
    \/ Touch(p) \/ Delete(p) \/ CutDelete(p) \/ Mkdir(p)
    \/ \E q \in Paths : Move(p, q) \/ Copy(p, q)

Spec == Init /\ [][Next]_tree

=============================================================================
