----------------------------- MODULE RolloutFiles -----------------------------
(***************************************************************************)
(* The rollout files of a CODEX_HOME, which other programs write while     *)
(* MiniUsage scans them.  Modelled from how the scanner reads them.        *)
(*                                                                         *)
(* A file's size counts half lines, so an even size ends with a newline.   *)
(* A content is named by the number of the change that wrote it (its tag); *)
(* appending keeps the tag, every other write starts another one.  Every   *)
(* write gives the file an mtime it never had; a move gives it none.       *)
(***************************************************************************)
EXTENDS CodexHome

CONSTANTS
  MaxSize,      \* half lines a file holds at most
  MaxChanges,   \* bound: changes made to the files
  Kinds         \* the kinds of change that happen, beside creating and appending

(* "replace": a new file takes the path of another one.                    *)
(* "remove":  a file is deleted, or moved out of the CODEX_HOME.           *)
(* "restore": a file moved out comes back as it was.                       *)
(* "rename":  a file is moved to a path that no other file ever had.       *)
(* "cover":   a file is moved or comes back to a path another file had, or *)
(*            still has and loses.                                         *)
(* "rewrite": a file is overwritten in place and does not grow.            *)
(* "grow":    a file is overwritten in place and grows.                    *)
(* "reuse":   a new file gets the physical identity of a deleted one.      *)

VARIABLES
  disk,    \* content of every physical file; tag 0 if there never was one
  dir,     \* the file at each path
  last,    \* the file that was last at each path
  clock    \* changes made so far

files == <<disk, dir, last, clock>>

InitFiles ==
  /\ disk = [i \in Inodes |-> [tag |-> 0, size |-> 0, mtime |-> 0]]
  /\ dir = [p \in Paths |-> NoInode]
  /\ last = [p \in Paths |-> NoInode]
  /\ clock = 0

FilesTypeOK ==
  /\ disk \in [Inodes -> [tag : 0..MaxChanges, size : 0..MaxSize, mtime : 0..MaxChanges]]
  /\ dir \in [Paths -> Inodes \union {NoInode}]
  /\ last \in [Paths -> Inodes \union {NoInode}]
  /\ clock \in 0..MaxChanges

\* The offset of the last newline at or before n.
Complete(n) == n - (n % 2)

Linked(i) == \E p \in Paths : dir[p] = i

Tick ==
  /\ clock < MaxChanges
  /\ clock' = clock + 1

Put(i, p) ==
  /\ dir' = [dir EXCEPT ![p] = i]
  /\ last' = [last EXCEPT ![p] = i]

\* Nothing but i was ever at p, or the run also looks at such moves.
Free(i, p) == last[p] \in {i, NoInode} \/ "cover" \in Kinds

Write(i, tag, n) == disk' = [disk EXCEPT ![i] = [tag |-> tag, size |-> n, mtime |-> clock']]

Create(i, p, n) ==
  /\ Tick
  /\ ~ Linked(i)
  /\ disk[i].tag = 0 \/ "reuse" \in Kinds
  /\ dir[p] = NoInode \/ "replace" \in Kinds
  /\ Write(i, clock', n)
  /\ Put(i, p)

Append(p, n) ==
  /\ Tick
  /\ dir[p] # NoInode
  /\ n > disk[dir[p]].size
  /\ Write(dir[p], disk[dir[p]].tag, n)
  /\ UNCHANGED <<dir, last>>

Rewrite(p, n) ==
  /\ Tick
  /\ dir[p] # NoInode
  /\ IF n > disk[dir[p]].size THEN "grow" \in Kinds ELSE "rewrite" \in Kinds
  /\ Write(dir[p], clock', n)
  /\ UNCHANGED <<dir, last>>

Remove(p) ==
  /\ "remove" \in Kinds
  /\ Tick
  /\ dir[p] # NoInode
  /\ dir' = [dir EXCEPT ![p] = NoInode]
  /\ UNCHANGED <<disk, last>>

Restore(i, p) ==
  /\ "restore" \in Kinds
  /\ Tick
  /\ ~ Linked(i) /\ disk[i].tag # 0
  /\ Free(i, p)
  /\ Put(i, p)
  /\ UNCHANGED disk

Rename(q, p) ==
  /\ "rename" \in Kinds
  /\ Tick
  /\ p # q /\ dir[q] # NoInode
  /\ Free(dir[q], p)
  /\ dir' = [dir EXCEPT ![p] = dir[q], ![q] = NoInode]
  /\ last' = [last EXCEPT ![p] = dir[q]]
  /\ UNCHANGED disk
==============================================================================
