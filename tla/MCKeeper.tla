------------------------------ MODULE MCKeeper ------------------------------
(***************************************************************************)
(* Instances of KeeperServer for TLC.  Each configuration picks a set of   *)
(* paths and a workload.  A sequential name is written "/q0", "/q1", ...   *)
(***************************************************************************)
EXTENDS KeeperProperties, TLC

ParentOf(p) == CASE p = "/a/b" -> "/a" [] p = "/e/x" -> "/e" [] OTHER -> "/"

LastPart(p) ==
  CASE p = "/a/b" -> "b" [] p = "/e/x" -> "x"
    [] OTHER -> SubSeq(p, 2, Len(p))

QName(n) == "/q" \o ToString(n)

MCParent == [p \in Proper |-> ParentOf(p)]
MCChildName == [p \in Proper |-> LastPart(p)]
MCName == {LastPart(p) : p \in Proper}
MCSuffixed == [p \in Prefix |-> [n \in Cversion |-> QName(n)]]

Mk(p, eph, seq) == [op |-> "create", path |-> p, data |-> "d", eph |-> eph, seq |-> seq]
New(p) == Mk(p, FALSE, FALSE)
Eph(p) == Mk(p, TRUE, FALSE)
Set(p, v) == [op |-> "set", path |-> p, data |-> "e", version |-> v]
Del(p, v) == [op |-> "delete", path |-> p, version |-> v]
Chk(p, v) == [op |-> "check", path |-> p, version |-> v]
Look(p, kind) == [op |-> kind, path |-> p, watch |-> TRUE]
Multi(ops) == [op |-> "multi", ops |-> ops]
Plain(op) == [op |-> op]

-----------------------------------------------------------------------------
(* A tree of persistent nodes, two levels deep, with a path that does not  *)
(* parse, changed by single operations and by Multis.                      *)
TreeProper == {"/a", "/a/b"}
TreePaths == TreeProper \cup {"/", "bad"}
TreeWorkload ==
  {New("/a"), New("/a/b"), New("bad"), Set("/a", 0), Del("/a", 0), Del("/a/b", AnyVersion),
   Multi(<<Chk("/a", 0), New("/a/b"), Set("/a", 0)>>),
   Multi(<<Del("/a/b", AnyVersion), Del("/a", 0), New("/a")>>),
   Plain("close")}

(* Ephemeral nodes of two sessions, beside and below persistent ones,      *)
(* sequential nodes under the root, and the expiry of those sessions.      *)
(* Nodes are deleted in Multis only, and no session sends Close.           *)
SessionProper == {"/a", "/a/b", "/q"} \cup {QName(n) : n \in Cversion}
SessionPaths == SessionProper \cup {"/"}
SessionWorkload ==
  {New("/a"), Eph("/a/b"), Mk("/q", TRUE, TRUE),
   Multi(<<Del("/q0", AnyVersion), Mk("/q", FALSE, TRUE)>>),
   Multi(<<New("/a"), Mk("/q", TRUE, TRUE), Mk("/q", TRUE, TRUE), Mk("/q", FALSE, TRUE)>>)}

(* Watches on a node, on its children and on the root's, and the changes   *)
(* that fire them.                                                         *)
WatchWorkload ==
  {Look("/a", "data"), Look("/a", "list"), Look("/", "list"),
   New("/a"), Set("/a", AnyVersion), Del("/a", AnyVersion),
   Multi(<<Set("/a", AnyVersion), New("/a/b")>>), Multi(<<Del("/a/b", 0), Del("/a", 0)>>),
   Multi(<<New("/a"), Del("/a", 0), Chk("/a", 0)>>)}

(* Little to ask for, and flushes that fail. *)
FaultProper == {"/a", "/e"}
FaultPaths == FaultProper \cup {"/"}
FaultWorkload == {New("/a"), Eph("/e"), Set("/a", AnyVersion), Multi(<<Set("/a", 0), Eph("/e")>>)}

(* Everything the server accepts, ephemeral parents, the root's deletion   *)
(* and Close included.                                                     *)
AnyProper == {"/e", "/e/x", "/q"} \cup {QName(n) : n \in Cversion}
AnyPaths == AnyProper \cup {"/"}
AnyWorkload ==
  {Eph("/e"), New("/e/x"), Mk("/q", TRUE, TRUE), Del("/e", AnyVersion),
   Del("/", AnyVersion), Set("/e", 0), Look("/e", "data"),
   Multi(<<Del("/e", 0), New("/e")>>), Multi(<<New("/e"), New("/e/x"), Del("/e", 0)>>),
   Plain("close"), Plain("ping"), Plain("other")}

-----------------------------------------------------------------------------
(* An ephemeral node, which its session may delete before it ends.         *)
DeleteProper == {"/e"}
DeletePaths == DeleteProper \cup {"/"}
DeleteWorkload == {Eph("/e"), Del("/e", AnyVersion)}
=============================================================================
