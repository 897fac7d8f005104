------------------------------ MODULE Protocol ------------------------------
(***************************************************************************)
(* The vocabulary of tinykeeper: the paths a client can name, session ids, *)
(* requests, and the records the write-ahead log holds (protocol.rs,       *)
(* znode.rs and the two WAL enums of keeper_server.rs).                    *)
(*                                                                         *)
(* A path is opaque.  All the code ever does with one is to look it up,    *)
(* split it at its last "/" and append a ten-digit counter to it, so a     *)
(* path is known by Parent, ChildName and Suffixed.  A path without "/",   *)
(* or with nothing after the last one, is not in Proper and not Root.      *)
(***************************************************************************)
EXTENDS Integers, FiniteSets, Sequences

CONSTANTS Path,        \* the paths requests name (a frame is at most 1 MiB)
          Root,        \* "/"
          Proper,      \* paths rsplit_once("/") splits with a child name left
          Prefix,      \* paths a sequential create may name
          Name,        \* child names
          Parent,      \* what precedes the last "/" ("/" when empty)
          ChildName,   \* what follows the last "/"
          Suffixed,    \* format!("{}{:010}", path, cversion)
          CversionMax, \* cversion is an i32: 2^31 - 1
          Data,        \* payloads
          MaxSession   \* bound on the session ids handed out

Cversion == -CversionMax - 1 .. CversionMax

(* i32 arithmetic of a release build (a debug build panics instead). *)
Wrapped(n) == ((n + CversionMax + 1) % (2 * CversionMax + 2)) - CversionMax - 1

Sid == 1 .. MaxSession
NoOwner == 0
AnyVersion == -1

ASSUME PathAssumption ==
  /\ IsFiniteSet(Path)
  /\ Root \in Path
  /\ Proper \subseteq Path \ {Root}
  /\ Parent \in [Proper -> Path]
  /\ ChildName \in [Proper -> Name]

ASSUME SuffixAssumption ==
  /\ CversionMax \in Nat
  /\ Prefix \subseteq Proper
  /\ Suffixed \in [Prefix -> [Cversion -> Proper]]
  /\ \A p \in Prefix, n \in Cversion : Parent[Suffixed[p][n]] = Parent[p]

ASSUME BoundAssumption == MaxSession \in Nat

(* rsplit_once maps "/a" and "//a" to the same parent and child name.  A   *)
(* set of paths without such a pair is what the tree invariants need.      *)
NoAliases ==
  \A p, q \in Proper : Parent[p] = Parent[q] /\ ChildName[p] = ChildName[q] => p = q

-----------------------------------------------------------------------------
(* Requests.  A read is Exists or GetData ("data"), or either of the two   *)
(* child listings ("list"); "other" is a body that does not parse or an    *)
(* opcode the server does not serve.                                       *)
(* A sequential create names a path whose suffixed names are paths too.    *)
CreateOp == {r \in [op : {"create"}, path : Path, data : Data, eph : BOOLEAN, seq : BOOLEAN] :
               r.seq => r.path \in Prefix}
SetOp    == [op : {"set"}, path : Path, data : Data, version : Int]
DeleteOp == [op : {"delete"}, path : Path, version : Int]
CheckOp  == [op : {"check"}, path : Path, version : Int]
MultiOp  == CreateOp \cup SetOp \cup DeleteOp \cup CheckOp

ReadRequest  == [op : {"data", "list"}, path : Path, watch : BOOLEAN]
MultiRequest == [op : {"multi"}, ops : Seq(MultiOp)]
PlainRequest == [op : {"close", "ping", "other"}]

ErrorCode == {"Ok", "SystemError", "BadArguments", "NoNode", "BadVersion",
              "NoChildrenForEphemerals", "NodeExists", "NotEmpty"}

(* Log records.  Every WalOperation is a sequence of primitives sharing    *)
(* one index: one, except for Multi.  A delete inside a Multi is kept      *)
(* apart because replay treats it differently.                             *)
CreatePrim  == {r \in [op : {"create"}, path : Proper, data : Data, eph : BOOLEAN,
                        seq : BOOLEAN, sid : Sid] : r.seq => r.path \in Prefix}
SetPrim     == [op : {"set"}, path : Path, data : Data]
DeletePrim  == [op : {"delete", "multi_delete"}, path : Path]
SessionPrim == [op : {"open", "close"}, sid : Sid]
Primitive   == CreatePrim \cup SetPrim \cup DeletePrim \cup SessionPrim
Record      == [index : Nat, ops : Seq(Primitive)]

LogCreate(req, s) == [op |-> "create", path |-> req.path, data |-> req.data,
                      eph |-> req.eph, seq |-> req.seq, sid |-> s]
LogSet(req)       == [op |-> "set", path |-> req.path, data |-> req.data]
LogDelete(req)    == [op |-> "delete", path |-> req.path]
(* Faulty: a Multi's delete logged like any other, whose replay forgets the index. *)
LogMultiDeleteAsSingle(req) == [op |-> "delete", path |-> req.path]

LogMultiDelete(req) == [op |-> "multi_delete", path |-> req.path]
LogOpen(s)        == [op |-> "open", sid |-> s]
LogClose(s)       == [op |-> "close", sid |-> s]
=============================================================================
