---------------------------- MODULE KeeperStorage ----------------------------
(***************************************************************************)
(* storage.rs: the tree of znodes with the session bookkeeping and the     *)
(* watches, one record S per KeeperStorage.  Operators, not a machine: the *)
(* write lock serialises every use, and handle_multi works on a clone.     *)
(*                                                                         *)
(*   map   the HashMap from path to Node, NoNode where it has no entry     *)
(*   zxid  last_zxid                                                       *)
(*   alive the keys of session_and_timeout                                 *)
(*   eph   ephemerals: the paths a session is to take with it              *)
(*   next  next_session_id                                                 *)
(*   queue the sessions that have a deadline in the expiry queue           *)
(*   watch the watch state                                                 *)
(*                                                                         *)
(* Left out: ctime, mtime, aversion (never read back by the server) and    *)
(* the deadlines themselves.                                               *)
(***************************************************************************)
EXTENDS WatchState

CONSTANT NoNode

Node == [data : Data \cup {""}, czxid : Nat, mzxid : Nat, pzxid : Nat,
         version : Nat, cversion : Cversion, owner : Sid \cup {NoOwner},
         children : SUBSET Name]

ASSUME NoNodeAssumption == NoNode \notin Node

(* Only the root and paths that split into a parent and a name are nodes. *)
Tree == {m \in [Path -> Node \cup {NoNode}] :
           \A p \in Path : m[p] # NoNode => p \in Proper \cup {Root}}

Storage == [map : Tree, zxid : Nat, alive : SUBSET Sid, eph : [Sid -> SUBSET Path],
            next : Nat \ {0}, queue : SUBSET Sid, watch : Watches]

RootNode == [data |-> "", czxid |-> 0, mzxid |-> 0, pzxid |-> 0, version |-> 0,
             cversion |-> 0, owner |-> NoOwner, children |-> {}]

NewStorage ==
  [map   |-> [p \in Path |-> IF p = Root THEN RootNode ELSE NoNode],
   zxid  |-> 0, alive |-> {}, eph |-> [s \in Sid |-> {}], next |-> 1,
   queue |-> {}, watch |-> NoWatches]

Exists(S, p) == S.map[p] # NoNode

(* next_zxid *)
Bump(S) == [S EXCEPT !.zxid = @ + 1]

-----------------------------------------------------------------------------
(* Faulty: the suffix taken from the number of children. *)
CreatedPathByCount(S, op) ==
  IF op.seq THEN Suffixed[op.path][Cardinality(S.map[Parent[op.path]].children)] ELSE op.path

(* create: the name a sequential node gets is the parent's cversion.       *)
CreatedPath(S, op) ==
  IF op.seq THEN Suffixed[op.path][S.map[Parent[op.path]].cversion] ELSE op.path

(* Faulty: an ephemeral node may have children. *)
CreateErrorNoOwner(S, op) ==
  IF op.path \notin Proper THEN "BadArguments"
  ELSE IF ~Exists(S, Parent[op.path]) THEN "NoNode"
  ELSE IF Exists(S, CreatedPath(S, op)) THEN "NodeExists"
  ELSE "Ok"

(* Its refusals in the order the code tries them, under the error codes    *)
(* handle_multi gives them.                                                *)
CreateError(S, op) ==
  IF op.path \notin Proper THEN "BadArguments"
  ELSE IF ~Exists(S, Parent[op.path]) THEN "NoNode"
  ELSE IF S.map[Parent[op.path]].owner # NoOwner THEN "NoChildrenForEphemerals"
  ELSE IF Exists(S, CreatedPath(S, op)) THEN "NodeExists"
  ELSE "Ok"

(* Faulty: pzxid left at its default. *)
NewNodeUnstamped(op, s, zxid) ==
  [data |-> op.data, czxid |-> zxid, mzxid |-> zxid, pzxid |-> 0, version |-> 0,
   cversion |-> 0, owner |-> IF op.eph THEN s ELSE NoOwner, children |-> {}]

NewNode(op, s, zxid) ==
  [data |-> op.data, czxid |-> zxid, mzxid |-> zxid, pzxid |-> zxid, version |-> 0,
   cversion |-> 0, owner |-> IF op.eph THEN s ELSE NoOwner, children |-> {}]

(* Faulty: cversion does not stay an i32; pzxid not stamped. *)
WithChildUnwrapped(n, name, zxid) ==
  [n EXCEPT !.children = @ \cup {name}, !.cversion = @ + 1, !.pzxid = zxid]
WithChildUnstamped(n, name, zxid) ==
  [n EXCEPT !.children = @ \cup {name}, !.cversion = Wrapped(@ + 1)]

(* A parent after one child more: cversion wraps, pzxid is this change's.  *)
WithChild(n, name, zxid) ==
  [n EXCEPT !.children = @ \cup {name}, !.cversion = Wrapped(@ + 1), !.pzxid = zxid]

(* Faulty: the ephemeral node is not entered in its owner's index. *)
CreateUnindexed(S, op, s) ==
  LET made == CreatedPath(S, op)
  IN  [S EXCEPT !.map = [p \in Path |->
                           IF p = made THEN NewNode(op, s, S.zxid)
                           ELSE IF p = Parent[made]
                                THEN WithChild(S.map[p], ChildName[made], S.zxid)
                           ELSE S.map[p]]]

Create(S, op, s) ==
  LET made == CreatedPath(S, op)
  IN  [S EXCEPT !.map = [p \in Path |->
                           IF p = made THEN NewNode(op, s, S.zxid)
                           ELSE IF p = Parent[made]
                                THEN WithChild(S.map[p], ChildName[made], S.zxid)
                           ELSE S.map[p]],
                !.eph[s] = IF op.eph THEN @ \cup {made} ELSE @]

(* Faulty: the version does not count the write. *)
WrittenUnversioned(n, data, zxid) == [n EXCEPT !.data = data, !.mzxid = zxid]

(* set: a node after one write more. *)
Written(n, data, zxid) == [n EXCEPT !.data = data, !.version = @ + 1, !.mzxid = zxid]

SetData(S, p, data) == [S EXCEPT !.map[p] = Written(@, data, S.zxid)]

-----------------------------------------------------------------------------
(* delete, of several nodes in a row: each takes its name from its parent, *)
(* bumps the parent's cversion and stamps its pzxid.                       *)
Orphans(D, p) == {q \in D : Parent[q] = p}

(* Faulty: the names of the deleted nodes stay. *)
WithoutChildrenKept(n, gone, zxid) ==
  [n EXCEPT !.cversion = Wrapped(@ + Cardinality(gone)), !.pzxid = zxid]

WithoutChildren(n, gone, zxid) ==
  [n EXCEPT !.children = @ \ {ChildName[q] : q \in gone},
            !.cversion = Wrapped(@ + Cardinality(gone)),
            !.pzxid = zxid]

Remove(S, D) ==
  [S EXCEPT !.map = [p \in Path |->
      IF p \in D \/ ~Exists(S, p) THEN NoNode
      ELSE IF Orphans(D, p) = {} THEN S.map[p]
      ELSE WithoutChildren(S.map[p], Orphans(D, p), S.zxid)]]

Deletable(S, p) == p \in Proper /\ Exists(S, p) /\ S.map[p].children = {}

(* The callers that drop the result of delete carry on when it refuses.    *)
TryDelete(S, p) == IF Deletable(S, p) THEN Remove(S, {p}) ELSE S

(* Faulty: the index keeps the deleted path. *)
RemoveEphemeralNever(S, owner, p) == S

(* remove_ephemeral, called when the deleted node had an owner. *)
RemoveEphemeral(S, owner, p) ==
  IF owner = NoOwner THEN S ELSE [S EXCEPT !.eph[owner] = @ \ {p}]

(* A loop over a HashSet of paths that deletes each and drops the result.  *)
(* The order is not fixed: a node goes if it has no children when its turn *)
(* comes, so the sets that can go are those closed under children and      *)
(* holding every childless node.                                           *)
ChildPaths(S, p) == {q \in Proper : Parent[q] = p /\ Exists(S, q)}

Reapable(S, paths) ==
  {D \in SUBSET {p \in paths : p \in Proper /\ Exists(S, p)} :
     /\ \A p \in paths : Deletable(S, p) => p \in D
     /\ \A p \in D : ChildPaths(S, p) \subseteq D}

-----------------------------------------------------------------------------
(* create_session, touch_session, restore_session *)
OpenSession(S) ==
  [S EXCEPT !.alive = @ \cup {S.next}, !.queue = @ \cup {S.next}, !.next = @ + 1]

Touch(S, s) == [S EXCEPT !.queue = IF s \in S.alive THEN @ \cup {s} ELSE @]

(* Faulty: a restored id does not push the next one up. *)
RestoreSessionOnly(S, s) == [S EXCEPT !.alive = @ \cup {s}]

RestoreSession(S, s) ==
  [S EXCEPT !.alive = @ \cup {s}, !.next = IF s >= @ THEN s + 1 ELSE @]

(* close_session: forgets the session; the caller deletes what it owned.   *)
DropSession(S, s) ==
  [S EXCEPT !.alive = @ \ {s}, !.queue = @ \ {s}, !.eph[s] = {}]
=============================================================================
