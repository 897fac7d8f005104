---------------------------- MODULE KeeperProofs ----------------------------
(***************************************************************************)
(* Type correctness of KeeperServer, proved for every set of paths, every  *)
(* workload, every choice of faults and every bound: first each operator   *)
(* of WatchState and KeeperStorage, which the proofs about KeeperServer    *)
(* cite and do not expand, then each handler, then each action.            *)
(***************************************************************************)
EXTENDS KeeperProperties, FiniteSetTheorems, SequenceTheorems, TLAPS

(* i32 arithmetic stays in i32. *)
LEMMA WrappedType == ASSUME NEW n \in Int PROVE Wrapped(n) \in Cversion
<1>1. CversionMax \in Nat
  BY SuffixAssumption
<1>2. ASSUME NEW a \in Int, NEW k \in Nat \ {0} PROVE a % k \in 0 .. k - 1
  BY <1>2
<1>3. (n + CversionMax + 1) % (2 * CversionMax + 2) \in 0 .. (2 * CversionMax + 2) - 1
  <2>1. n + CversionMax + 1 \in Int /\ 2 * CversionMax + 2 \in Nat \ {0}
    BY <1>1
  <2> QED
    BY <2>1, <1>2
<1> QED
  BY <1>1, <1>3 DEF Wrapped, Cversion

LEMMA CversionType == Cversion \subseteq Int /\ 0 \in Cversion
BY SuffixAssumption DEF Cversion

(* Registering, clearing and firing keep both indexes sets of ids and watches. *)
LEMMA RegisterType ==
  ASSUME NEW ws \in Watches, NEW s \in Sid, NEW w \in Watch
  PROVE  Register(ws, s, w) \in Watches
BY DEF Register, Watches

LEMMA ClearType ==
  ASSUME NEW ws \in Watches, NEW s \in Sid
  PROVE  Clear(ws, s) \in Watches
BY DEF Clear, Watches

LEMMA FireType ==
  ASSUME NEW ws \in Watches, NEW p, NEW type
  PROVE  Fire(ws, p, type) \in Watches
BY DEF Fire, Watches

LEMMA DrainedType ==
  ASSUME NEW p \in Proper \cup {Root}, NEW type
  PROVE  Drained(p, type) \subseteq Watch
BY PathAssumption DEF Drained, WatchParent, Watch, WatchKind

LEMMA DataEventsType ==
  ASSUME NEW ws \in Watches, NEW p \in Path
  PROVE  FireEvents(ws, p, "Changed") \subseteq WatchEvent
<1> SUFFICES ASSUME NEW s \in ws.fwd[<<p, "data">>]
             PROVE  [sid |-> s, type |-> "Changed", path |-> p] \in WatchEvent
  BY DEF FireEvents, Drained, EventType
<1>1. s \in Sid
  BY DEF Watches, Watch, WatchKind
<1> QED
  BY <1>1 DEF WatchEvent

LEMMA FireEventsType ==
  ASSUME NEW ws \in Watches, NEW p \in Proper \cup {Root},
         NEW type \in {"Created", "Deleted", "Changed"}
  PROVE  FireEvents(ws, p, type) \subseteq WatchEvent
<1> SUFFICES ASSUME NEW w \in Drained(p, type), NEW s \in ws.fwd[w]
             PROVE  [sid |-> s, type |-> EventType(w, type), path |-> w[1]] \in WatchEvent
  BY DEF FireEvents
<1>1. w \in Path \X {"data", "list"}
  BY DrainedType DEF Watch, WatchKind
<1>2. s \in Sid
  BY <1>1 DEF Watches, Watch, WatchKind
<1> QED
  BY <1>1, <1>2 DEF WatchEvent, EventType

-----------------------------------------------------------------------------
(* A request or a logged primitive that can name the node it creates. *)
Creates(op) ==
  /\ op.path \in Path /\ op.data \in Data /\ op.eph \in BOOLEAN
  /\ op.seq => op.path \in Prefix

(* The empty storage has the types of any other. *)
LEMMA NewStorageType == NewStorage \in Storage /\ NewStorage.map \in Tree
<1>1. RootNode \in Node
  BY SuffixAssumption DEF RootNode, Node, Cversion
<1>2. NewStorage.map \in Tree
  BY <1>1 DEF NewStorage, Tree
<1>3. NoWatches \in Watches
  BY DEF NoWatches, Watches
<1> QED
  BY <1>2, <1>3 DEF NewStorage, Storage

LEMMA BumpType == ASSUME NEW S \in Storage PROVE Bump(S) \in Storage
BY DEF Bump, Storage

LEMMA TouchType == ASSUME NEW S \in Storage, NEW s \in Sid PROVE Touch(S, s) \in Storage
BY DEF Touch, Storage

(* A node that is new, gains a child, loses some or is written is a node,  *)
(* and what it keeps and takes on is this.                                 *)
LEMMA NewNodeType ==
  ASSUME NEW op, Creates(op), NEW s \in Sid, NEW z \in Nat
  PROVE  LET n == NewNode(op, s, z)
         IN  /\ n \in Node /\ n # NoNode
             /\ n.czxid = z /\ n.mzxid = z /\ n.pzxid = z /\ n.cversion = 0
             /\ n.owner = (IF op.eph THEN s ELSE NoOwner) /\ n.children = {}
<1>1. NewNode(op, s, z) \in Node
  BY CversionType DEF NewNode, Node, Creates, NoOwner
<1> QED
  BY <1>1, NoNodeAssumption DEF NewNode

LEMMA WithChildType ==
  ASSUME NEW n \in Node, NEW name \in Name, NEW z \in Nat
  PROVE  LET m == WithChild(n, name, z)
         IN  /\ m \in Node /\ m # NoNode
             /\ m.czxid = n.czxid /\ m.mzxid = n.mzxid /\ m.pzxid = z
             /\ m.data = n.data /\ m.version = n.version /\ m.owner = n.owner
             /\ m.cversion = Wrapped(n.cversion + 1)
             /\ m.children = n.children \cup {name}
<1>1. n.cversion \in Int
  BY CversionType DEF Node
<1>2. Wrapped(n.cversion + 1) \in Cversion
  <2>1. n.cversion + 1 \in Int
    BY <1>1
  <2> QED
    BY <2>1, WrappedType
<1>3. ASSUME NEW c \in Cversion
      PROVE  LET m == [n EXCEPT !.children = @ \cup {name}, !.cversion = c, !.pzxid = z]
             IN  /\ m \in Node
                 /\ m.czxid = n.czxid /\ m.mzxid = n.mzxid /\ m.pzxid = z
                 /\ m.data = n.data /\ m.version = n.version /\ m.owner = n.owner
                 /\ m.cversion = c /\ m.children = n.children \cup {name}
  BY DEF Node
<1> QED
  BY <1>2, <1>3, NoNodeAssumption DEF WithChild

LEMMA WithoutChildrenType ==
  ASSUME NEW n \in Node, NEW gone \in SUBSET Path, NEW z \in Nat
  PROVE  LET m == WithoutChildren(n, gone, z)
         IN  /\ m \in Node /\ m # NoNode
             /\ m.czxid = n.czxid /\ m.mzxid = n.mzxid /\ m.pzxid = z
             /\ m.data = n.data /\ m.version = n.version /\ m.owner = n.owner
             /\ m.cversion = Wrapped(n.cversion + Cardinality(gone))
             /\ m.children = n.children \ {ChildName[q] : q \in gone}
<1>1. Cardinality(gone) \in Nat
  BY FS_Subset, FS_CardinalityType, PathAssumption
<1>2. n.cversion \in Int
  BY CversionType DEF Node
<1>3. Wrapped(n.cversion + Cardinality(gone)) \in Cversion
  <2>1. n.cversion + Cardinality(gone) \in Int
    BY <1>1, <1>2
  <2> QED
    BY <2>1, WrappedType
<1>4. ASSUME NEW c \in Cversion, NEW names
      PROVE  LET m == [n EXCEPT !.children = @ \ names, !.cversion = c, !.pzxid = z]
             IN  /\ m \in Node
                 /\ m.czxid = n.czxid /\ m.mzxid = n.mzxid /\ m.pzxid = z
                 /\ m.data = n.data /\ m.version = n.version /\ m.owner = n.owner
                 /\ m.cversion = c /\ m.children = n.children \ names
  BY DEF Node
<1> DEFINE c == Wrapped(n.cversion + Cardinality(gone))
           names == {ChildName[q] : q \in gone}
           m == [n EXCEPT !.children = @ \ names, !.cversion = c, !.pzxid = z]
<1>5. WithoutChildren(n, gone, z) = m
  BY DEF WithoutChildren
<1>6. c \in Cversion
  BY <1>3
<1> HIDE DEF c, names
<1>7. /\ m \in Node
      /\ m.czxid = n.czxid /\ m.mzxid = n.mzxid /\ m.pzxid = z
      /\ m.data = n.data /\ m.version = n.version /\ m.owner = n.owner
      /\ m.cversion = c /\ m.children = n.children \ names
  BY <1>4, <1>6
<1>8. m # NoNode
  BY <1>7, NoNodeAssumption
<1> HIDE DEF m
<1> QED
  BY <1>5, <1>7, <1>8 DEF c, names

LEMMA WrittenType ==
  ASSUME NEW n \in Node, NEW d \in Data, NEW z \in Nat
  PROVE  LET m == Written(n, d, z)
         IN  /\ m \in Node /\ m # NoNode
             /\ m.czxid = n.czxid /\ m.mzxid = z /\ m.pzxid = n.pzxid
             /\ m.version = n.version + 1 /\ m.cversion = n.cversion
             /\ m.owner = n.owner /\ m.children = n.children
<1>1. n.version + 1 \in Nat
  <2>1. n.version \in Nat
    BY DEF Node
  <2> QED
    BY <2>1
<1>2. ASSUME NEW v \in Nat
      PROVE  LET m == [n EXCEPT !.data = d, !.version = v, !.mzxid = z]
             IN  /\ m \in Node
                 /\ m.czxid = n.czxid /\ m.mzxid = z /\ m.pzxid = n.pzxid
                 /\ m.version = v /\ m.cversion = n.cversion
                 /\ m.owner = n.owner /\ m.children = n.children
  BY DEF Node
<1> QED
  BY <1>1, <1>2, NoNodeAssumption DEF Written

(* A create that is not refused makes a proper path whose parent is the    *)
(* parent of the path it was asked for, and that parent is a node.         *)
LEMMA CreatedPathType ==
  ASSUME NEW S \in Storage, NEW op, Creates(op), CreateError(S, op) = "Ok"
  PROVE  /\ CreatedPath(S, op) \in Proper
         /\ Parent[CreatedPath(S, op)] = Parent[op.path]
         /\ S.map[Parent[op.path]] \in Node
         /\ ~Exists(S, CreatedPath(S, op))
         /\ S.map[Parent[op.path]].owner = NoOwner
<1>1. op.path \in Proper /\ Exists(S, Parent[op.path]) /\ ~Exists(S, CreatedPath(S, op))
      /\ S.map[Parent[op.path]].owner = NoOwner
  BY DEF CreateError
<1>2. S.map[Parent[op.path]] \in Node
  BY <1>1, PathAssumption DEF Exists, Storage, Tree
<1>3. S.map[Parent[op.path]].cversion \in Cversion
  BY <1>2 DEF Node
<1>4. CASE op.seq
  <2> DEFINE v == S.map[Parent[op.path]].cversion
  <2>1. op.path \in Prefix /\ CreatedPath(S, op) = Suffixed[op.path][v]
    BY <1>4 DEF CreatedPath, Creates
  <2>2. Suffixed[op.path][v] \in Proper /\ Parent[Suffixed[op.path][v]] = Parent[op.path]
    BY <1>3, <2>1, SuffixAssumption
  <2> QED
    BY <1>1, <1>2, <2>1, <2>2
<1>5. CASE ~op.seq
  BY <1>1, <1>2, <1>5 DEF CreatedPath
<1> QED
  BY <1>4, <1>5

LEMMA CreateType ==
  ASSUME NEW S \in Storage, NEW op, NEW s \in Sid, Creates(op), CreateError(S, op) = "Ok"
  PROVE  Create(S, op, s) \in Storage
<1> DEFINE made == CreatedPath(S, op)
<1>1. made \in Proper /\ S.map[Parent[made]] \in Node
  BY CreatedPathType
<1>2. NewNode(op, s, S.zxid) \in Node
  BY NewNodeType DEF Storage
<1>3. WithChild(S.map[Parent[made]], ChildName[made], S.zxid) \in Node
  BY <1>1, WithChildType, PathAssumption DEF Storage
<1> DEFINE after == [p \in Path |->
                       IF p = made THEN NewNode(op, s, S.zxid)
                       ELSE IF p = Parent[made] THEN WithChild(S.map[p], ChildName[made], S.zxid)
                       ELSE S.map[p]]
<1>4. after \in Tree
  <2>1. after \in [Path -> Node \cup {NoNode}]
    BY <1>2, <1>3 DEF Storage, Tree
  <2>2. S.map[Parent[made]] # NoNode /\ Parent[made] \in Path
    BY <1>1, NoNodeAssumption, PathAssumption
  <2>3. ASSUME NEW p \in Path, after[p] # NoNode PROVE p \in Proper \cup {Root}
    BY <1>1, <2>2, <2>3 DEF Storage, Tree
  <2> QED
    BY <2>1, <2>3 DEF Tree
<1>5. [S.eph EXCEPT ![s] = IF op.eph THEN @ \cup {made} ELSE @] \in [Sid -> SUBSET Path]
  BY <1>1, PathAssumption DEF Storage
<1> QED
  BY <1>4, <1>5 DEF Create, Storage

LEMMA SetDataType ==
  ASSUME NEW S \in Storage, NEW p \in Path, NEW d \in Data, Exists(S, p)
  PROVE  SetData(S, p, d) \in Storage
<1>1. S.map[p] \in Node
  BY DEF Exists, Storage, Tree
<1>2. Written(S.map[p], d, S.zxid) \in Node
  BY <1>1, WrittenType DEF Storage
<1> DEFINE after == [S.map EXCEPT ![p] = Written(@, d, S.zxid)]
<1>3. after \in Tree
  <2>1. after \in [Path -> Node \cup {NoNode}]
    BY <1>2 DEF Storage, Tree
  <2>2. ASSUME NEW q \in Path, after[q] # NoNode PROVE q \in Proper \cup {Root}
    BY <2>2 DEF Exists, Storage, Tree
  <2> QED
    BY <2>1, <2>2 DEF Tree
<1> QED
  BY <1>3 DEF SetData, Storage

LEMMA RemoveType ==
  ASSUME NEW S \in Storage, NEW D \in SUBSET Path
  PROVE  Remove(S, D) \in Storage
<1>1. ASSUME NEW p \in Path, Exists(S, p)
      PROVE  WithoutChildren(S.map[p], Orphans(D, p), S.zxid) \in Node
  <2>1. S.map[p] \in Node /\ S.zxid \in Nat /\ Orphans(D, p) \in SUBSET Path
    BY <1>1 DEF Exists, Storage, Tree, Orphans
  <2> QED
    BY <2>1, WithoutChildrenType
<1> DEFINE after == [p \in Path |->
                       IF p \in D \/ ~Exists(S, p) THEN NoNode
                       ELSE IF Orphans(D, p) = {} THEN S.map[p]
                       ELSE WithoutChildren(S.map[p], Orphans(D, p), S.zxid)]
<1>2. after \in Tree
  <2>1. after \in [Path -> Node \cup {NoNode}]
    BY <1>1 DEF Storage, Tree
  <2>2. ASSUME NEW p \in Path, after[p] # NoNode PROVE p \in Proper \cup {Root}
    BY <2>2 DEF Exists, Storage, Tree
  <2> QED
    BY <2>1, <2>2 DEF Tree
<1> QED
  BY <1>2 DEF Remove, Storage

LEMMA TryDeleteType ==
  ASSUME NEW S \in Storage, NEW p \in Path PROVE TryDelete(S, p) \in Storage
BY RemoveType DEF TryDelete

LEMMA RemoveEphemeralType ==
  ASSUME NEW S \in Storage, NEW owner \in Sid \cup {NoOwner}, NEW p \in Path
  PROVE  RemoveEphemeral(S, owner, p) \in Storage
BY DEF RemoveEphemeral, Storage

LEMMA ReapableType ==
  ASSUME NEW S, NEW paths \in SUBSET Path, NEW D \in Reapable(S, paths)
  PROVE  D \in SUBSET Path
BY DEF Reapable

LEMMA OpenSessionType ==
  ASSUME NEW S \in Storage, S.next \in Sid PROVE OpenSession(S) \in Storage
<1>1. S.next + 1 \in Nat \ {0}
  <2> S.next \in Nat
    BY DEF Storage
  <2> QED
    OBVIOUS
<1>2. ASSUME NEW n \in Nat \ {0}
      PROVE  [S EXCEPT !.alive = @ \cup {S.next}, !.queue = @ \cup {S.next}, !.next = n] \in Storage
  BY DEF Storage
<1> QED
  BY <1>1, <1>2 DEF OpenSession

LEMMA RestoreSessionType ==
  ASSUME NEW S \in Storage, NEW s \in Sid PROVE RestoreSession(S, s) \in Storage
<1>1. s + 1 \in Nat \ {0} /\ S.next \in Nat \ {0}
  <2> S.next \in Nat \ {0}
    BY DEF Storage
  <2> s \in Nat
    BY BoundAssumption DEF Sid
  <2> QED
    OBVIOUS
<1>2. ASSUME NEW n \in Nat \ {0} PROVE [S EXCEPT !.alive = @ \cup {s}, !.next = n] \in Storage
  BY DEF Storage
<1> QED
  BY <1>1, <1>2 DEF RestoreSession

LEMMA DropSessionType ==
  ASSUME NEW S \in Storage, NEW s \in Sid PROVE DropSession(S, s) \in Storage
BY DEF DropSession, Storage

-----------------------------------------------------------------------------
(* What a request gives, by its opcode. *)
LEMMA RequestType ==
  ASSUME NEW r \in Requests
  PROVE  /\ r.op = "create" => r \in CreateOp /\ Creates(r)
         /\ r.op = "set" => r \in SetOp
         /\ r.op = "delete" => r \in DeleteOp
         /\ r.op \in WatchKind => r \in ReadRequest
         /\ r.op = "multi" => r \in MultiRequest
<1>1. r \in CreateOp \cup SetOp \cup DeleteOp \cup CheckOp \cup ReadRequest
            \cup MultiRequest \cup PlainRequest
  BY RequestAssumption DEF MultiOp
<1>2. r.op = "create" => r \in CreateOp
  BY <1>1 DEF SetOp, DeleteOp, CheckOp, ReadRequest, MultiRequest, PlainRequest
<1>4. r.op = "create" => Creates(r)
  BY <1>2 DEF Creates, CreateOp
<1>5. r.op = "set" => r \in SetOp
  BY <1>1 DEF CreateOp, DeleteOp, CheckOp, ReadRequest, MultiRequest, PlainRequest
<1>6. r.op = "delete" => r \in DeleteOp
  BY <1>1 DEF CreateOp, SetOp, CheckOp, ReadRequest, MultiRequest, PlainRequest
<1>7. r.op \in WatchKind => r \in ReadRequest
  BY <1>1 DEF WatchKind, CreateOp, SetOp, DeleteOp, CheckOp, MultiRequest, PlainRequest
<1>8. r.op = "multi" => r \in MultiRequest
  BY <1>1 DEF CreateOp, SetOp, DeleteOp, CheckOp, ReadRequest, PlainRequest
<1> QED
  BY <1>2, <1>4, <1>5, <1>6, <1>7, <1>8

(* Records made of primitives are records. *)
LEMMA RecType ==
  ASSUME NEW z \in Nat, NEW ops \in Seq(Primitive) PROVE Rec(z, ops) \in Record
BY DEF Rec, Record

LEMMA RecOneType ==
  ASSUME NEW z \in Nat, NEW prim \in Primitive PROVE Rec(z, <<prim>>) \in Record
<1>1. <<prim>> \in Seq(Primitive)
  OBVIOUS
<1> QED
  BY <1>1, RecType

(* Whatever a flush does, disk and buffer remain sequences of records. *)
LEMMA FlushType ==
  ASSUME NEW rec \in Record, disk \in Seq(Record), buf \in Seq(Record),
         FlushOk(rec) \/ FlushFails(rec)
  PROVE  disk' \in Seq(Record) /\ buf' \in Seq(Record)
<1>1. Append(buf, rec) \in Seq(Record)
  BY AppendProperties
<1>2. disk \o Append(buf, rec) \in Seq(Record)
  BY <1>1, ConcatProperties
<1>3. <<>> \in Seq(Record)
  BY EmptySeq
<1> QED
  BY <1>1, <1>2, <1>3 DEF FlushOk, FlushFails, WriteFails, SyncFails, RotateFails

LEMMA NotifyType ==
  ASSUME NEW S \in Storage, NEW p, NEW type PROVE Notify(S, p, type) \in Storage
<1>1. Fire(S.watch, p, type) \in Watches
  BY FireType DEF Storage
<1> QED
  BY <1>1 DEF Notify, Storage

LEMMA RespondType ==
  ASSUME TypeOK, NEW S \in Storage, NEW err \in ErrorCode \cup {"none"},
         NEW evs \in SUBSET WatchEvent, Respond(S, err, evs)
  PROVE  TypeOK'
BY DEF TypeOK, Respond, Answer, log, replay

LEMMA LogThenApplyType ==
  ASSUME TypeOK, NEW s \in Sid, NEW prim \in Primitive, NEW S \in Storage,
         NEW err \in ErrorCode, NEW evs \in SUBSET WatchEvent,
         LogThenApply(s, prim, S, err, evs)
  PROVE  TypeOK'
<1> DEFINE rec == Rec(st.zxid + 1, <<prim>>)
<1>1. rec \in Record
  <2>1. st.zxid \in Nat
    BY DEF TypeOK, Storage
  <2>2. st.zxid + 1 \in Nat
    BY <2>1
  <2> QED
    BY <2>2, RecOneType
<1>2. FlushOk(rec) \/ FlushFails(rec)
  BY DEF LogThenApply
<1>3. disk' \in Seq(Record) /\ buf' \in Seq(Record)
  BY <1>1, <1>2, FlushType DEF TypeOK
<1>4. st' \in Storage
  BY BumpType, TouchType DEF LogThenApply, TypeOK
<1>5. reply' \in ErrorCode /\ events' \in SUBSET WatchEvent
  BY DEF LogThenApply, Answer, ErrorCode
<1> QED
  BY <1>3, <1>4, <1>5 DEF LogThenApply, TypeOK, replay

-----------------------------------------------------------------------------
(* The handlers, one lemma each. *)
LEMMA TouchedType ==
  ASSUME TypeOK, NEW s \in Sid
  PROVE  st \in Storage /\ Touch(st, s) \in Storage /\ Bump(Touch(st, s)) \in Storage
BY TouchType, BumpType DEF TypeOK

LEMMA HandleCreateType ==
  ASSUME TypeOK, NEW s \in Sid, NEW op \in Requests, HandleCreate(s, op)
  PROVE  TypeOK'
<1> DEFINE now == Bump(Touch(st, s))
           made == CreatedPath(now, op)
<1>1. op \in CreateOp /\ Creates(op)
  BY RequestType DEF HandleCreate
<1>2. now \in Storage /\ Touch(st, s) \in Storage
  BY TouchedType
<1>3. CASE CreatePrecheck(op) # "Ok" /\ Respond(Touch(st, s), CreatePrecheck(op), {})
  <2>1. CreatePrecheck(op) \in ErrorCode
    BY DEF CreatePrecheck, ErrorCode
  <2> QED
    BY <1>2, <1>3, <2>1, RespondType
<1>4. ASSUME CreatePrecheck(op) = "Ok" PROVE LogCreate(op, s) \in Primitive
  <2>1. op.path \in Proper
    BY <1>4 DEF CreatePrecheck
  <2> QED
    BY <1>1, <2>1 DEF LogCreate, Primitive, CreatePrim, CreateOp
<1>5. CASE /\ CreatePrecheck(op) = "Ok"
           /\ CreateError(now, op) = "Ok"
           /\ LogThenApply(s, LogCreate(op, s), Notify(Create(now, op, s), made, "Created"),
                           "Ok", FireEvents(now.watch, made, "Created"))
  <2>1. Create(now, op, s) \in Storage
    BY <1>1, <1>2, <1>5, CreateType
  <2>2. Notify(Create(now, op, s), made, "Created") \in Storage
    BY <2>1, NotifyType
  <2>3. made \in Proper
    BY <1>1, <1>2, <1>5, CreatedPathType
  <2>4. FireEvents(now.watch, made, "Created") \in SUBSET WatchEvent
    BY <1>2, <2>3, FireEventsType DEF Storage
  <2> QED
    BY <1>4, <1>5, <2>2, <2>4, LogThenApplyType DEF ErrorCode
<1>6. CASE /\ CreatePrecheck(op) = "Ok"
           /\ LogThenApply(s, LogCreate(op, s), now, "BadArguments", {})
  BY <1>2, <1>4, <1>6, LogThenApplyType DEF ErrorCode
<1> QED
  BY <1>3, <1>5, <1>6 DEF HandleCreate

LEMMA VersionErrorType ==
  ASSUME NEW S, NEW op PROVE VersionError(S, op) \in ErrorCode
BY DEF VersionError, ErrorCode

(* A node the version check accepts exists, so its path is one of Path. *)
LEMMA HandleSetType ==
  ASSUME TypeOK, NEW s \in Sid, NEW op \in Requests, HandleSet(s, op)
  PROVE  TypeOK'
<1> DEFINE now == Bump(Touch(st, s))
<1>1. op \in SetOp
  BY RequestType DEF HandleSet
<1>2. now \in Storage /\ Touch(st, s) \in Storage
  BY TouchedType
<1>3. CASE VersionError(st, op) # "Ok" /\ Respond(Touch(st, s), VersionError(st, op), {})
  BY <1>2, <1>3, VersionErrorType, RespondType
<1>4. CASE /\ VersionError(st, op) = "Ok"
           /\ LogThenApply(s, LogSet(op), Notify(SetData(now, op.path, op.data), op.path, "Changed"),
                           "Ok", FireEvents(now.watch, op.path, "Changed"))
  <2>1. op.path \in Path /\ op.data \in Data
    BY <1>1 DEF SetOp
  <2>2. Exists(now, op.path)
    BY <1>4 DEF VersionError, Exists, Bump, Touch, TypeOK, Storage
  <2>3. Notify(SetData(now, op.path, op.data), op.path, "Changed") \in Storage
    BY <1>2, <2>1, <2>2, SetDataType, NotifyType
  <2>4. LogSet(op) \in Primitive
    BY <2>1 DEF LogSet, Primitive, SetPrim
  <2>5. FireEvents(now.watch, op.path, "Changed") \in SUBSET WatchEvent
    BY <1>2, <2>1, DataEventsType DEF Storage
  <2> QED
    BY <1>4, <2>3, <2>4, <2>5, LogThenApplyType DEF ErrorCode
<1> QED
  BY <1>3, <1>4 DEF HandleSet

LEMMA HandleDeleteType ==
  ASSUME TypeOK, NEW s \in Sid, NEW op \in Requests, HandleDelete(s, op)
  PROVE  TypeOK'
<1> DEFINE now == Bump(Touch(st, s))
           owner == st.map[op.path].owner
           after == RemoveEphemeral(TryDelete(now, op.path), owner, op.path)
<1>1. op \in DeleteOp /\ op.path \in Path
  BY RequestType DEF HandleDelete, DeleteOp
<1>2. now \in Storage /\ Touch(st, s) \in Storage
  BY TouchedType
<1>3. CASE DeletePrecheck(op) # "Ok" /\ Respond(Touch(st, s), DeletePrecheck(op), {})
  <2>1. DeletePrecheck(op) \in ErrorCode
    BY VersionErrorType DEF DeletePrecheck, ErrorCode
  <2> QED
    BY <1>2, <1>3, <2>1, RespondType
<1>4. CASE /\ DeletePrecheck(op) = "Ok"
           /\ LogThenApply(s, LogDelete(op), Notify(after, op.path, "Deleted"),
                           "Ok", FireEvents(now.watch, op.path, "Deleted"))
  <2>1. Exists(st, op.path)
    BY <1>4 DEF DeletePrecheck, VersionError
  <2>2. owner \in Sid \cup {NoOwner} /\ op.path \in Proper \cup {Root}
    BY <1>1, <2>1 DEF TypeOK, Storage, Tree, Exists, Node
  <2>3. TryDelete(now, op.path) \in Storage
    BY <1>1, <1>2, TryDeleteType
  <2>4. Notify(after, op.path, "Deleted") \in Storage
    BY <1>1, <2>2, <2>3, RemoveEphemeralType, NotifyType
  <2>5. LogDelete(op) \in Primitive
    BY <1>1 DEF LogDelete, Primitive, DeletePrim
  <2>6. FireEvents(now.watch, op.path, "Deleted") \in SUBSET WatchEvent
    BY <1>2, <2>2, FireEventsType DEF Storage
  <2> QED
    BY <1>4, <2>4, <2>5, <2>6, LogThenApplyType DEF ErrorCode
<1> QED
  BY <1>3, <1>4 DEF HandleDelete

LEMMA HandleReadType ==
  ASSUME TypeOK, NEW s \in Sid, NEW req \in Requests, HandleRead(s, req)
  PROVE  TypeOK'
<1> DEFINE now == Touch(st, s)
           after == IF req.watch
                    THEN [now EXCEPT !.watch = Register(@, s, <<req.path, req.op>>)] ELSE now
           err == IF Exists(st, req.path) THEN "Ok" ELSE "NoNode"
<1>1. req.path \in Path /\ req.op \in WatchKind
  BY RequestType DEF HandleRead, ReadRequest
<1>2. now \in Storage
  BY TouchedType
<1>3. Register(now.watch, s, <<req.path, req.op>>) \in Watches
  BY <1>1, <1>2, RegisterType DEF Watch, Storage
<1>4. after \in Storage
  BY <1>2, <1>3 DEF Storage
<1>5. Respond(after, err, {}) /\ err \in ErrorCode
  BY DEF HandleRead, ErrorCode
<1> QED
  BY <1>4, <1>5, RespondType

LEMMA HandlePlainType ==
  ASSUME TypeOK, NEW s \in Sid, NEW req \in Requests, HandlePlain(s, req)
  PROVE  TypeOK'
<1>1. PICK err \in {"Ok", "BadArguments", "none"} : Respond(Touch(st, s), err, {})
  BY DEF HandlePlain
<1> QED
  BY <1>1, TouchedType, RespondType DEF ErrorCode

LEMMA HandleCloseType ==
  ASSUME TypeOK, NEW s \in Sid, NEW req \in Requests, HandleClose(s, req)
  PROVE  TypeOK'
<1>1. PICK D \in Reapable(st, st.eph[s]) :
        st' = [Remove(DropSession(Touch(st, s), s), D) EXCEPT !.watch = Clear(@, s)]
  BY DEF HandleClose
<1> DEFINE left == Remove(DropSession(Touch(st, s), s), D)
<1>2. D \in SUBSET Path
  BY <1>1, ReapableType DEF TypeOK, Storage
<1>3. left \in Storage
  BY <1>2, TouchedType, DropSessionType, RemoveType
<1>4. Clear(left.watch, s) \in Watches
  BY <1>3, ClearType DEF Storage
<1>5. st' \in Storage
  BY <1>1, <1>3, <1>4 DEF Storage
<1> QED
  BY <1>5 DEF HandleClose, Answer, TypeOK, ErrorCode, log, replay

-----------------------------------------------------------------------------
(* What an operation of a Multi, and a primitive of the log, gives. *)
LEMMA MultiOpType ==
  ASSUME NEW op \in MultiOp
  PROVE  /\ op.op \in {"create", "set", "delete", "check"} /\ op.path \in Path
         /\ op.op = "create" => op \in CreateOp /\ Creates(op)
         /\ op.op = "set" => op \in SetOp
<1>1. op.op = "create" => op \in CreateOp
  BY DEF MultiOp, SetOp, DeleteOp, CheckOp
<1>2. op.op = "set" => op \in SetOp
  BY DEF MultiOp, CreateOp, DeleteOp, CheckOp
<1>3. op.op \in {"create", "set", "delete", "check"} /\ op.path \in Path
  BY DEF MultiOp, CreateOp, SetOp, DeleteOp, CheckOp
<1>4. op \in CreateOp => Creates(op)
  BY DEF Creates, CreateOp
<1> QED
  BY <1>1, <1>2, <1>3, <1>4

LEMMA PrimitiveType ==
  ASSUME NEW prim \in Primitive
  PROVE  /\ prim.op \in {"create", "set", "delete", "multi_delete", "open", "close"}
         /\ prim.op = "create" => Creates(prim) /\ prim.sid \in Sid
         /\ prim.op = "set" => prim.path \in Path /\ prim.data \in Data
         /\ prim.op \in {"delete", "multi_delete"} => prim.path \in Path
         /\ prim.op \in {"open", "close"} => prim.sid \in Sid
<1>1. prim.op = "create" => prim \in CreatePrim
  BY DEF Primitive, SetPrim, DeletePrim, SessionPrim
<1>2. prim \in CreatePrim => Creates(prim) /\ prim.sid \in Sid
  BY PathAssumption DEF CreatePrim, Creates
<1>3. prim.op = "set" => prim.path \in Path /\ prim.data \in Data
  BY DEF Primitive, CreatePrim, SetPrim, DeletePrim, SessionPrim
<1>4. prim.op \in {"delete", "multi_delete"} => prim.path \in Path
  BY DEF Primitive, CreatePrim, SetPrim, DeletePrim, SessionPrim
<1>5. prim.op \in {"open", "close"} => prim.sid \in Sid
  BY DEF Primitive, CreatePrim, SetPrim, DeletePrim, SessionPrim
<1>6. prim.op \in {"create", "set", "delete", "multi_delete", "open", "close"}
  BY DEF Primitive, CreatePrim, SetPrim, DeletePrim, SessionPrim
<1> QED
  BY <1>1, <1>2, <1>3, <1>4, <1>5, <1>6

(* A node that exists is at a place that has a parent, or is the root, and *)
(* its owner is a session or nobody.                                       *)
LEMMA ExistingType ==
  ASSUME NEW S \in Storage, NEW p \in Path, Exists(S, p)
  PROVE  p \in Proper \cup {Root} /\ S.map[p].owner \in Sid \cup {NoOwner}
<1>1. S.map[p] \in Node /\ p \in Proper \cup {Root}
  BY DEF Exists, Storage, Tree
<1> QED
  BY <1>1 DEF Node

-----------------------------------------------------------------------------
(* A Multi: each operation staged keeps the clone a storage, its log a     *)
(* sequence of primitives and its events notifications.                    *)
LEMMA MultiErrorType ==
  ASSUME NEW S, NEW op PROVE MultiError(S, op) \in ErrorCode
<1>1. CreateError(S, op) \in ErrorCode
  BY DEF CreateError, ErrorCode
<1> QED
  BY <1>1, VersionErrorType DEF MultiError, ErrorCode

LEMMA StageType ==
  ASSUME NEW S \in Storage, NEW op \in MultiOp, NEW s \in Sid, MultiError(S, op) = "Ok"
  PROVE  /\ Stage(S, op, s) \in Storage
         /\ StagedLog(op, s) \in Seq(Primitive)
         /\ StagedEvents(S, op) \in SUBSET WatchEvent
<1>1. S.watch \in Watches
  BY DEF Storage
<1>2. CASE op.op = "create"
  <2>1. Creates(op) /\ op \in CreateOp /\ CreateError(S, op) = "Ok"
    BY <1>2, MultiOpType DEF MultiError
  <2>2. Create(S, op, s) \in Storage /\ CreatedPath(S, op) \in Proper
    BY <2>1, CreateType, CreatedPathType
  <2>3. Notify(Create(S, op, s), CreatedPath(S, op), "Created") \in Storage
    BY <2>2, NotifyType
  <2>4. FireEvents(S.watch, CreatedPath(S, op), "Created") \in SUBSET WatchEvent
    BY <1>1, <2>2, FireEventsType
  <2>5. LogCreate(op, s) \in Primitive
    <3> op.path \in Proper
      BY <2>1 DEF CreateError
    <3> QED
      BY <2>1 DEF LogCreate, Primitive, CreatePrim, CreateOp
  <2> QED
    BY <1>2, <2>3, <2>4, <2>5 DEF Stage, StagedLog, StagedEvents
<1>3. ASSUME op.op \in {"set", "delete"} PROVE Exists(S, op.path) /\ op.path \in Path
  BY <1>3, MultiOpType DEF MultiError, VersionError
<1>4. CASE op.op = "set"
  <2>1. op.path \in Path /\ op.data \in Data
    BY <1>4, MultiOpType DEF SetOp
  <2>2. Notify(SetData(S, op.path, op.data), op.path, "Changed") \in Storage
    BY <1>3, <1>4, <2>1, SetDataType, NotifyType
  <2>3. FireEvents(S.watch, op.path, "Changed") \in SUBSET WatchEvent
    BY <1>1, <2>1, DataEventsType
  <2>4. LogSet(op) \in Primitive
    BY <2>1 DEF LogSet, Primitive, SetPrim
  <2> QED
    BY <1>4, <2>2, <2>3, <2>4 DEF Stage, StagedLog, StagedEvents
<1>5. CASE op.op = "delete"
  <2> DEFINE left == RemoveEphemeral(Remove(S, {op.path}), S.map[op.path].owner, op.path)
  <2>1. op.path \in Path /\ op.path \in Proper \cup {Root}
        /\ S.map[op.path].owner \in Sid \cup {NoOwner}
    BY <1>3, <1>5, ExistingType
  <2>2. Notify(left, op.path, "Deleted") \in Storage
    <3>1. Remove(S, {op.path}) \in Storage
      BY <2>1, RemoveType
    <3> QED
      BY <2>1, <3>1, RemoveEphemeralType, NotifyType
  <2>3. FireEvents(S.watch, op.path, "Deleted") \in SUBSET WatchEvent
    BY <1>1, <2>1, FireEventsType
  <2>4. LogMultiDelete(op) \in Primitive
    BY <2>1 DEF LogMultiDelete, Primitive, DeletePrim
  <2> QED
    BY <1>5, <2>2, <2>3, <2>4 DEF Stage, StagedLog, StagedEvents
<1>6. CASE op.op = "check"
  BY <1>6, EmptySeq DEF Stage, StagedLog, StagedEvents
<1> QED
  BY <1>2, <1>4, <1>5, <1>6, MultiOpType

LEMMA BeginMultiType ==
  ASSUME TypeOK, NEW s \in Sid, NEW req \in Requests, BeginMulti(s, req)
  PROVE  TypeOK'
<1>1. req.ops \in Seq(MultiOp)
  BY RequestType DEF BeginMulti, MultiRequest
<1>2. Touch(st, s) \in Storage /\ Bump(Touch(st, s)) \in Storage
  BY TouchedType
<1>3. multi' \in Job /\ st' \in Storage
  BY <1>1, <1>2, EmptySeq DEF BeginMulti, Job
<1> QED
  BY <1>3 DEF BeginMulti, TypeOK, log, replay

LEMMA StageMultiType == ASSUME TypeOK, StageMulti PROVE TypeOK'
<1> DEFINE op == Head(multi.todo)
<1>1. multi \in Job
  BY DEF TypeOK, StageMulti, Staging
<1>2. multi.sid \in Sid /\ multi.staged \in Storage /\ multi.log \in Seq(Primitive)
      /\ multi.events \in SUBSET WatchEvent /\ multi.todo \in Seq(MultiOp)
  BY <1>1 DEF Job
<1>3. op \in MultiOp /\ Tail(multi.todo) \in Seq(MultiOp)
  BY <1>2, HeadTailProperties DEF StageMulti
<1>4. /\ Stage(multi.staged, op, multi.sid) \in Storage
      /\ StagedLog(op, multi.sid) \in Seq(Primitive)
      /\ StagedEvents(multi.staged, op) \in SUBSET WatchEvent
  BY <1>2, <1>3, StageType DEF StageMulti
<1>5. multi.log \o StagedLog(op, multi.sid) \in Seq(Primitive)
  BY <1>2, <1>4, ConcatProperties
<1>6. multi' \in Job
  <2>1. ASSUME NEW todo \in Seq(MultiOp), NEW S \in Storage, NEW l \in Seq(Primitive),
               NEW e \in SUBSET WatchEvent
        PROVE  [multi EXCEPT !.todo = todo, !.staged = S, !.log = l, !.events = e] \in Job
    BY <1>1 DEF Job
  <2>2. multi.events \cup StagedEvents(multi.staged, op) \in SUBSET WatchEvent
    BY <1>2, <1>4
  <2> QED
    BY <1>3, <1>4, <1>5, <2>1, <2>2 DEF StageMulti
<1> QED
  BY <1>6 DEF StageMulti, TypeOK, log, replay

LEMMA AbortMultiType == ASSUME TypeOK, AbortMulti PROVE TypeOK'
BY MultiErrorType DEF AbortMulti, Answer, TypeOK, log, replay

LEMMA MultiRecType == ASSUME TypeOK, multi # NoMulti PROVE MultiRec \in Record
<1>1. multi.staged.zxid \in Nat /\ multi.log \in Seq(Primitive)
  BY DEF TypeOK, Job, Storage
<1> QED
  BY <1>1, RecType DEF MultiRec

LEMMA CommitMultiType == ASSUME TypeOK, CommitMulti PROVE TypeOK'
<1>1. multi \in Job
  BY DEF TypeOK, CommitMulti, Staging
<1>2. st' \in Storage /\ events' \in SUBSET WatchEvent
  BY <1>1 DEF CommitMulti, Answer, Job
<1>3. disk' \in Seq(Record) /\ buf' \in Seq(Record)
  BY MultiRecType, FlushType DEF CommitMulti, Staging, TypeOK
<1> QED
  BY <1>2, <1>3 DEF CommitMulti, Answer, ErrorCode, TypeOK, replay

-----------------------------------------------------------------------------
(* Sessions. *)
LEMMA LogAnywayType ==
  ASSUME TypeOK, NEW prim \in Primitive, LogAnyway(Rec(st.zxid + 1, <<prim>>))
  PROVE  disk' \in Seq(Record) /\ buf' \in Seq(Record)
<1>1. st.zxid + 1 \in Nat
  <2>1. st.zxid \in Nat
    BY DEF TypeOK, Storage
  <2> QED
    BY <2>1
<1>2. Rec(st.zxid + 1, <<prim>>) \in Record
  BY <1>1, RecOneType
<1> QED
  BY <1>2, FlushType DEF TypeOK, LogAnyway

LEMMA ConnectType == ASSUME TypeOK, Connect PROVE TypeOK'
<1>1. st.next \in Sid
  <2>1. st.next \in Nat \ {0} /\ st.next <= MaxSession
    BY DEF TypeOK, Storage, Connect
  <2> QED
    BY <2>1, BoundAssumption DEF Sid
<1>2. LogOpen(st.next) \in Primitive
  BY <1>1 DEF LogOpen, Primitive, SessionPrim
<1>3. disk' \in Seq(Record) /\ buf' \in Seq(Record)
  BY <1>2, LogAnywayType DEF Connect
<1>4. st' \in Storage
  BY <1>1, OpenSessionType, BumpType DEF Connect, TypeOK
<1> QED
  BY <1>1, <1>3, <1>4 DEF Connect, Answer, TypeOK, replay

LEMMA DisconnectType == ASSUME TypeOK, NEW s \in Sid, Disconnect(s) PROVE TypeOK'
BY DEF Disconnect, Answer, TypeOK, log, replay

LEMMA SweepType == ASSUME TypeOK, Sweep PROVE TypeOK'
<1>1. doomed' \subseteq Sid
  BY DEF Sweep, TypeOK, Storage
<1> QED
  BY <1>1 DEF Sweep, Answer, TypeOK, log, replay

LEMMA CloseExpiredType == ASSUME TypeOK, NEW s \in Sid, CloseExpired(s) PROVE TypeOK'
<1>1. PICK D \in Reapable(st, st.eph[s]) : st' = Remove(DropSession(Bump(st), s), D)
  BY DEF CloseExpired
<1>2. D \in SUBSET Path
  BY <1>1, ReapableType DEF TypeOK, Storage
<1>3. st' \in Storage
  BY <1>1, <1>2, BumpType, DropSessionType, RemoveType DEF TypeOK
<1>4. LogClose(s) \in Primitive
  BY DEF LogClose, Primitive, SessionPrim
<1>5. disk' \in Seq(Record) /\ buf' \in Seq(Record)
  BY <1>4, LogAnywayType DEF CloseExpired
<1> QED
  BY <1>3, <1>5 DEF CloseExpired, Answer, TypeOK, replay

-----------------------------------------------------------------------------
(* Crash and restart. *)
LEMMA LoseMemoryType ==
  ASSUME TypeOK, LoseMemory, disk' \in Seq(Record)
  PROVE  TypeOK'
<1>1. st' \in Storage
  BY NewStorageType DEF LoseMemory
<1>2. lost' \in Tree
  BY DEF LoseMemory, TypeOK, Storage
<1> QED
  BY <1>1, <1>2, EmptySeq DEF LoseMemory, Answer, TypeOK

LEMMA AbortProcessType == ASSUME TypeOK, AbortProcess PROVE TypeOK'
<1>1. Append(buf, MultiRec) \in Seq(Record)
  BY MultiRecType, AppendProperties DEF AbortProcess, Staging, TypeOK
<1>2. disk \in Seq(Record)
  BY DEF TypeOK
<1>3. disk \o Append(buf, MultiRec) \in Seq(Record)
  BY <1>1, <1>2, ConcatProperties
<1>4. disk' = disk \/ disk' = disk \o Append(buf, MultiRec)
  BY DEF AbortProcess
<1>5. disk' \in Seq(Record) /\ LoseMemory
  BY <1>2, <1>3, <1>4 DEF AbortProcess
<1> QED
  BY <1>5, LoseMemoryType

LEMMA ReplayRecordType == ASSUME TypeOK, ReplayRecord PROVE TypeOK'
<1>1. pos \in Nat \ {0} /\ pos <= Len(disk) /\ disk \in Seq(Record) /\ st \in Storage
  BY DEF TypeOK, ReplayRecord
<1>2. disk[pos] \in Record
  <2>1. pos \in 1 .. Len(disk)
    BY <1>1, LenProperties
  <2> QED
    BY <1>1, <2>1, ElementOfSeq
<1>3. disk[pos].index \in Nat /\ disk[pos].ops \in Seq(Primitive)
  BY <1>2 DEF Record
<1>4. st' \in Storage
  BY <1>1, <1>3 DEF ReplayRecord, Storage
<1>5. pos' \in Nat \ {0}
  BY <1>1 DEF ReplayRecord
<1> QED
  BY <1>3, <1>4, <1>5 DEF ReplayRecord, TypeOK, log

LEMMA ReplayedType ==
  ASSUME NEW S \in Storage, NEW prim \in Primitive, CanReplay(S, prim)
  PROVE  Replayed(S, prim) \in Storage
<1>1. CASE prim.op = "create"
  BY <1>1, PrimitiveType, CreateType DEF CanReplay, Replayed
<1>2. CASE prim.op = "set"
  BY <1>2, PrimitiveType, SetDataType DEF CanReplay, Replayed
<1>3. ASSUME prim.op \in {"delete", "multi_delete"}
      PROVE  /\ prim.path \in Path /\ Remove(S, {prim.path}) \in Storage
             /\ S.map[prim.path].owner \in Sid \cup {NoOwner}
  <2>1. prim.path \in Path /\ Exists(S, prim.path)
    BY <1>3, PrimitiveType DEF CanReplay, Deletable
  <2> QED
    BY <2>1, RemoveType, ExistingType
<1>4. CASE prim.op = "delete"
  BY <1>3, <1>4 DEF Replayed
<1>5. CASE prim.op = "multi_delete"
  BY <1>3, <1>5, RemoveEphemeralType DEF Replayed
<1>6. CASE prim.op = "open"
  BY <1>6, PrimitiveType, RestoreSessionType DEF Replayed
<1>7. CASE prim.op = "close"
  <2>1. prim.sid \in Sid
    BY <1>7, PrimitiveType
  <2>2. S.eph[prim.sid] \in SUBSET Path
    BY <2>1 DEF Storage
  <2> QED
    BY <1>7, <2>1, <2>2, DropSessionType, RemoveType DEF Replayed
<1> QED
  BY <1>1, <1>2, <1>4, <1>5, <1>6, <1>7, PrimitiveType

LEMMA ReplayOpType == ASSUME TypeOK, ReplayOp PROVE TypeOK'
<1>1. Head(pend) \in Primitive /\ Tail(pend) \in Seq(Primitive)
  BY HeadTailProperties DEF TypeOK, ReplayOp
<1>2. st' \in Storage
  BY <1>1, ReplayedType DEF TypeOK, ReplayOp
<1> QED
  BY <1>1, <1>2 DEF ReplayOp, TypeOK, log

LEMMA ReplayPanicsType == ASSUME TypeOK, ReplayPanics PROVE TypeOK'
BY DEF ReplayPanics, TypeOK, log

LEMMA RestartedType == ASSUME TypeOK, Restarted PROVE TypeOK'
BY NewStorageType DEF Restarted, TypeOK, log

-----------------------------------------------------------------------------
LEMMA InitType == Init => TypeOK
BY NewStorageType, EmptySeq DEF Init, TypeOK

(* TypeOK is inductive: every action keeps it. *)
LEMMA NextType == TypeOK /\ [Next]_vars => TypeOK'
<1> SUFFICES ASSUME TypeOK, [Next]_vars PROVE TypeOK'
  OBVIOUS
<1>1. ASSUME NEW s \in conns, NEW req \in Requests, Serve(s, req) PROVE TypeOK'
  <2>1. s \in Sid
    BY DEF TypeOK
  <2> QED
    BY <1>1, <2>1, HandleCreateType, HandleSetType, HandleDeleteType, HandleReadType,
       HandlePlainType, HandleCloseType, BeginMultiType DEF Serve
<1>2. ASSUME StageMulti \/ AbortMulti \/ CommitMulti \/ AbortProcess PROVE TypeOK'
  BY <1>2, StageMultiType, AbortMultiType, CommitMultiType, AbortProcessType
<1>3. ASSUME NEW s \in Sid, Disconnect(s) \/ CloseExpired(s) PROVE TypeOK'
  BY <1>3, DisconnectType, CloseExpiredType
<1>4. ASSUME Connect \/ Sweep PROVE TypeOK'
  BY <1>4, ConnectType, SweepType
<1>5. CASE Crash
  BY <1>5, LoseMemoryType DEF Crash, TypeOK
<1>6. ASSUME ReplayRecord \/ ReplayOp \/ ReplayPanics \/ Restarted PROVE TypeOK'
  BY <1>6, ReplayRecordType, ReplayOpType, ReplayPanicsType, RestartedType
<1>7. CASE UNCHANGED vars
  BY <1>7 DEF vars, TypeOK
<1> QED
  BY <1>1, <1>2, <1>3, <1>4, <1>5, <1>6, <1>7 DEF Next

(* Every state the server can reach has the types of TypeOK: no handler,   *)
(* staged Multi, failed flush, crash or replay produces anything else.     *)
THEOREM TypeCorrect == Spec => []TypeOK
BY InitType, NextType, PTL DEF Spec
=============================================================================
