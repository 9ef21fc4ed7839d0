------------------------------ MODULE CodexHome ------------------------------
(***************************************************************************)
(* The names that the source registry and the files it registers share:    *)
(* the two rollout areas of a CODEX_HOME (src/src/scanner/discovery.rs),   *)
(* physical identities and threads.                                        *)
(*                                                                         *)
(* Paths are numbers.  Discovery orders a file of sessions/ before one of  *)
(* archived_sessions/ and, inside an area, by path; both orders are <.     *)
(***************************************************************************)
EXTENDS Naturals

CONSTANTS
  SessionPaths,    \* the rollout paths under sessions/
  ArchivedPaths,   \* the rollout paths under archived_sessions/
  Inodes,          \* physical identities (device, inode)
  NoInode,
  Threads,         \* thread ids that own rollout contents
  NoThread

ASSUME NamesAssumption ==
  /\ SessionPaths \subseteq Nat
  /\ ArchivedPaths \subseteq Nat
  /\ \A p \in SessionPaths, q \in ArchivedPaths : p < q
  /\ NoInode \notin Inodes
  /\ NoThread \notin Threads

Paths == SessionPaths \union ArchivedPaths
Areas == {"sessions", "archived_sessions"}

Area(p) == IF p \in SessionPaths THEN "sessions" ELSE "archived_sessions"
==============================================================================
