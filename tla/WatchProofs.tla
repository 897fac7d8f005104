---------------------------- MODULE WatchProofs ----------------------------
(***************************************************************************)
(* The two watch indexes agree, a watch fires once, and whoever watches is *)
(* told.  Only Register, Clear and Fire touch the watches; Uses(S, T, E)   *)
(* says that from S to T watches were used up by the events E and by       *)
(* nothing else, and that whoever still has one has seen nothing change.   *)
(* It holds of each handler and, put together over the operations of a     *)
(* Multi, of the clone (MultiTells).                                       *)
(***************************************************************************)
EXTENDS TreeProofs

Agree(ws) == \A s \in Sid, w \in Watch : s \in ws.fwd[w] <=> w \in ws.rev[s]

-----------------------------------------------------------------------------
(* The operators of watch_state.rs keep the indexes in agreement. *)
LEMMA NoWatchesAgree == Agree(NoWatches)
BY DEF Agree, NoWatches

LEMMA RegisterAgree ==
  ASSUME NEW ws \in Watches, Agree(ws), NEW s \in Sid, NEW w \in Watch
  PROVE  Agree(Register(ws, s, w))
BY DEF Agree, Register, Watches

LEMMA ClearAgree ==
  ASSUME NEW ws \in Watches, Agree(ws), NEW s \in Sid
  PROVE  Agree(Clear(ws, s))
BY DEF Agree, Clear, Watches

(* Fire empties the forward entries it drains and takes from the reverse   *)
(* ones exactly what those entries held.                                   *)
LEMMA FireAgree ==
  ASSUME NEW ws \in Watches, Agree(ws), NEW p, NEW type
  PROVE  Agree(Fire(ws, p, type))
BY DEF Agree, Fire, Watches

LEMMA NotifyAgree ==
  ASSUME NEW S \in Storage, Agree(S.watch), NEW p, NEW type
  PROVE  Agree(Notify(S, p, type).watch)
<1>1. S.watch \in Watches /\ Notify(S, p, type).watch = Fire(S.watch, p, type)
  BY DEF Notify, Storage
<1> QED
  BY <1>1, FireAgree

-----------------------------------------------------------------------------
(* The operators of storage.rs leave the watches alone. *)
LEMMA SameWatches ==
  ASSUME NEW S \in Storage, NEW s \in Sid
  PROVE  /\ Bump(S).watch = S.watch /\ Touch(S, s).watch = S.watch
         /\ OpenSession(S).watch = S.watch /\ RestoreSession(S, s).watch = S.watch
         /\ DropSession(S, s).watch = S.watch
         /\ \A D : Remove(S, D).watch = S.watch
         /\ \A p : TryDelete(S, p).watch = S.watch
         /\ \A p, d : SetData(S, p, d).watch = S.watch
         /\ \A op : Create(S, op, s).watch = S.watch
         /\ \A owner, p : RemoveEphemeral(S, owner, p).watch = S.watch
<1>1. Bump(S).watch = S.watch /\ Touch(S, s).watch = S.watch
  BY DEF Bump, Touch, Storage
<1>2. OpenSession(S).watch = S.watch /\ RestoreSession(S, s).watch = S.watch
  BY DEF OpenSession, RestoreSession, Storage
<1>3. DropSession(S, s).watch = S.watch
  BY DEF DropSession, Storage
<1>4. \A D : Remove(S, D).watch = S.watch
  BY DEF Remove, Storage
<1>5. \A p : TryDelete(S, p).watch = S.watch
  BY <1>4 DEF TryDelete
<1>6. \A p, d : SetData(S, p, d).watch = S.watch
  BY DEF SetData, Storage
<1>7. \A op : Create(S, op, s).watch = S.watch
  BY DEF Create, Storage
<1>8. \A owner, p : RemoveEphemeral(S, owner, p).watch = S.watch
  BY DEF RemoveEphemeral, Storage
<1> QED
  BY <1>1, <1>2, <1>3, <1>4, <1>5, <1>6, <1>7, <1>8

(* A request is served by a storage that has touched its session, and, for *)
(* a change, taken a zxid.                                                 *)
LEMMA TouchedAgree ==
  ASSUME TypeOK, WatchIndexesAgree, NEW s \in Sid
  PROVE  /\ Agree(st.watch) /\ Agree(Touch(st, s).watch)
         /\ Agree(Bump(Touch(st, s)).watch)
<1>1. st \in Storage /\ Touch(st, s) \in Storage
  BY TouchedType
<1>2. Agree(st.watch)
  BY DEF WatchIndexesAgree, Trees, Agree
<1> QED
  BY <1>1, <1>2, SameWatches

LEMMA RespondAgree ==
  ASSUME WatchIndexesAgree, NEW S, Agree(S.watch), NEW err, NEW evs, Respond(S, err, evs)
  PROVE  WatchIndexesAgree'
BY DEF Respond, WatchIndexesAgree, Trees, Agree

LEMMA LogThenApplyAgree ==
  ASSUME TypeOK, WatchIndexesAgree, NEW s \in Sid, NEW prim, NEW S, Agree(S.watch),
         NEW err, NEW evs, LogThenApply(s, prim, S, err, evs)
  PROVE  WatchIndexesAgree'
<1>1. Agree(st'.watch) /\ multi' = multi
  BY TouchedAgree DEF LogThenApply
<1> QED
  BY <1>1 DEF WatchIndexesAgree, Trees, Agree

-----------------------------------------------------------------------------
(* The handlers. *)
LEMMA HandleCreateAgree ==
  ASSUME TypeOK, WatchIndexesAgree, NEW s \in Sid, NEW op \in Requests, HandleCreate(s, op)
  PROVE  WatchIndexesAgree'
<1> DEFINE now == Bump(Touch(st, s))
           made == CreatedPath(now, op)
<1>1. now \in Storage /\ Agree(now.watch) /\ Agree(Touch(st, s).watch)
  BY TouchedType, TouchedAgree
<1>2. CASE Respond(Touch(st, s), CreatePrecheck(op), {})
  BY <1>1, <1>2, RespondAgree
<1>3. CASE LogThenApply(s, LogCreate(op, s), now, "BadArguments", {})
  BY <1>1, <1>3, LogThenApplyAgree
<1>4. CASE /\ CreateError(now, op) = "Ok"
           /\ LogThenApply(s, LogCreate(op, s), Notify(Create(now, op, s), made, "Created"),
                           "Ok", FireEvents(now.watch, made, "Created"))
  <2>1. Creates(op)
    BY RequestType DEF HandleCreate
  <2>2. Create(now, op, s) \in Storage /\ Agree(Create(now, op, s).watch)
    BY <1>1, <1>4, <2>1, CreateType, SameWatches
  <2>3. Agree(Notify(Create(now, op, s), made, "Created").watch)
    BY <2>2, NotifyAgree
  <2> QED
    BY <1>4, <2>3, LogThenApplyAgree
<1> QED
  BY <1>2, <1>3, <1>4 DEF HandleCreate

LEMMA HandleSetAgree ==
  ASSUME TypeOK, WatchIndexesAgree, NEW s \in Sid, NEW op \in Requests, HandleSet(s, op)
  PROVE  WatchIndexesAgree'
<1> DEFINE now == Bump(Touch(st, s))
           after == SetData(now, op.path, op.data)
<1>1. now \in Storage /\ Agree(now.watch) /\ Agree(Touch(st, s).watch)
  BY TouchedType, TouchedAgree
<1>2. CASE Respond(Touch(st, s), VersionError(st, op), {})
  BY <1>1, <1>2, RespondAgree
<1>3. CASE /\ VersionError(st, op) = "Ok"
           /\ LogThenApply(s, LogSet(op), Notify(after, op.path, "Changed"),
                           "Ok", FireEvents(now.watch, op.path, "Changed"))
  <2>1. op.path \in Path /\ op.data \in Data
    BY RequestType DEF HandleSet, SetOp
  <2>2. Exists(now, op.path)
    BY <1>3 DEF VersionError, Exists, Bump, Touch, TypeOK, Storage
  <2>3. after \in Storage /\ Agree(after.watch)
    BY <1>1, <2>1, <2>2, SetDataType, SameWatches
  <2>4. Agree(Notify(after, op.path, "Changed").watch)
    BY <2>3, NotifyAgree
  <2> QED
    BY <1>3, <2>4, LogThenApplyAgree
<1> QED
  BY <1>2, <1>3 DEF HandleSet

LEMMA HandleDeleteAgree ==
  ASSUME TypeOK, WatchIndexesAgree, NEW s \in Sid, NEW op \in Requests, HandleDelete(s, op)
  PROVE  WatchIndexesAgree'
<1> DEFINE now == Bump(Touch(st, s))
           owner == st.map[op.path].owner
           after == RemoveEphemeral(TryDelete(now, op.path), owner, op.path)
<1>1. now \in Storage /\ Agree(now.watch) /\ Agree(Touch(st, s).watch)
  BY TouchedType, TouchedAgree
<1>2. CASE Respond(Touch(st, s), DeletePrecheck(op), {})
  BY <1>1, <1>2, RespondAgree
<1>3. CASE /\ DeletePrecheck(op) = "Ok"
           /\ LogThenApply(s, LogDelete(op), Notify(after, op.path, "Deleted"),
                           "Ok", FireEvents(now.watch, op.path, "Deleted"))
  <2>1. op.path \in Path /\ Exists(st, op.path)
    BY <1>3, RequestType DEF HandleDelete, DeleteOp, DeletePrecheck, VersionError
  <2>2. owner \in Sid \cup {NoOwner}
    BY <2>1, ExistingType DEF TypeOK
  <2>3. TryDelete(now, op.path) \in Storage /\ after \in Storage
    BY <1>1, <2>1, <2>2, TryDeleteType, RemoveEphemeralType
  <2>4. Agree(after.watch)
    BY <1>1, <2>3, SameWatches
  <2>5. Agree(Notify(after, op.path, "Deleted").watch)
    BY <2>3, <2>4, NotifyAgree
  <2> QED
    BY <1>3, <2>5, LogThenApplyAgree
<1> QED
  BY <1>2, <1>3 DEF HandleDelete

LEMMA HandleReadAgree ==
  ASSUME TypeOK, WatchIndexesAgree, NEW s \in Sid, NEW req \in Requests, HandleRead(s, req)
  PROVE  WatchIndexesAgree'
<1> DEFINE now == Touch(st, s)
           w == <<req.path, req.op>>
           after == IF req.watch THEN [now EXCEPT !.watch = Register(@, s, w)] ELSE now
<1>1. now \in Storage /\ Agree(now.watch)
  BY TouchedType, TouchedAgree
<1>2. w \in Watch
  BY RequestType DEF HandleRead, ReadRequest, Watch
<1>3. Agree(Register(now.watch, s, w))
  BY <1>1, <1>2, RegisterAgree DEF Storage
<1>4. Agree(after.watch)
  BY <1>1, <1>3 DEF Storage
<1>5. Respond(after, IF Exists(st, req.path) THEN "Ok" ELSE "NoNode", {})
  BY DEF HandleRead
<1> QED
  BY <1>4, <1>5, RespondAgree

LEMMA HandlePlainAgree ==
  ASSUME TypeOK, WatchIndexesAgree, NEW s \in Sid, NEW req \in Requests, HandlePlain(s, req)
  PROVE  WatchIndexesAgree'
<1>1. PICK err : Respond(Touch(st, s), err, {})
  BY DEF HandlePlain
<1> QED
  BY <1>1, TouchedAgree, RespondAgree

LEMMA HandleCloseAgree ==
  ASSUME TypeOK, WatchIndexesAgree, NEW s \in Sid, NEW req \in Requests, HandleClose(s, req)
  PROVE  WatchIndexesAgree'
<1>1. PICK D \in Reapable(st, st.eph[s]) :
        st' = [Remove(DropSession(Touch(st, s), s), D) EXCEPT !.watch = Clear(@, s)]
  BY DEF HandleClose
<1> DEFINE dropped == DropSession(Touch(st, s), s)
           left == Remove(dropped, D)
<1>2. D \in SUBSET Path
  BY <1>1, ReapableType DEF TypeOK, Storage
<1>3. dropped \in Storage /\ left \in Storage
  BY <1>2, TouchedType, DropSessionType, RemoveType
<1>4. Agree(left.watch)
  <2>1. dropped.watch = Touch(st, s).watch
    BY TouchedType, SameWatches
  <2>2. left.watch = dropped.watch
    BY <1>3, SameWatches
  <2> QED
    BY <2>1, <2>2, TouchedAgree
<1>5. Agree(Clear(left.watch, s))
  BY <1>3, <1>4, ClearAgree DEF Storage
<1>6. st'.watch = Clear(left.watch, s)
  BY <1>1, <1>3 DEF Storage
<1>7. Agree(st'.watch) /\ multi' = multi
  BY <1>5, <1>6 DEF HandleClose
<1> QED
  BY <1>7 DEF WatchIndexesAgree, Trees, Agree

-----------------------------------------------------------------------------
(* Multi: the clone starts as the live storage, every operation staged     *)
(* keeps its indexes in agreement, and the commit makes it the live one.   *)
LEMMA StageAgree ==
  ASSUME NEW S \in Storage, Agree(S.watch), NEW op \in MultiOp, NEW s \in Sid,
         MultiError(S, op) = "Ok"
  PROVE  Agree(Stage(S, op, s).watch)
<1>1. CASE op.op = "create"
  <2>1. Creates(op) /\ CreateError(S, op) = "Ok"
    BY <1>1, MultiOpType DEF MultiError
  <2>2. Create(S, op, s) \in Storage /\ Agree(Create(S, op, s).watch)
    BY <2>1, CreateType, SameWatches
  <2> QED
    BY <1>1, <2>2, NotifyAgree DEF Stage
<1>2. ASSUME op.op \in {"set", "delete"} PROVE op.path \in Path /\ Exists(S, op.path)
  BY <1>2, MultiOpType DEF MultiError, VersionError
<1>3. CASE op.op = "set"
  <2>1. op.data \in Data
    BY <1>3, MultiOpType DEF SetOp
  <2>2. SetData(S, op.path, op.data) \in Storage /\ Agree(SetData(S, op.path, op.data).watch)
    BY <1>2, <1>3, <2>1, SetDataType, SameWatches
  <2> QED
    BY <1>3, <2>2, NotifyAgree DEF Stage
<1>4. CASE op.op = "delete"
  <2> DEFINE owner == S.map[op.path].owner
             left == RemoveEphemeral(Remove(S, {op.path}), owner, op.path)
  <2>1. owner \in Sid \cup {NoOwner} /\ op.path \in Path
    BY <1>2, <1>4, ExistingType
  <2>2. Remove(S, {op.path}) \in Storage /\ left \in Storage
    BY <2>1, RemoveType, RemoveEphemeralType
  <2>3. Agree(left.watch)
    BY <2>2, SameWatches
  <2> QED
    BY <1>4, <2>2, <2>3, NotifyAgree DEF Stage
<1>5. CASE op.op = "check"
  BY <1>5 DEF Stage
<1> QED
  BY <1>1, <1>3, <1>4, <1>5, MultiOpType

LEMMA BeginMultiAgree ==
  ASSUME TypeOK, WatchIndexesAgree, NEW s \in Sid, NEW req \in Requests, BeginMulti(s, req)
  PROVE  WatchIndexesAgree'
<1>1. Agree(st'.watch) /\ multi'.staged = Bump(Touch(st, s))
  BY TouchedAgree DEF BeginMulti
<1>2. Agree(multi'.staged.watch)
  BY <1>1, TouchedAgree
<1> QED
  BY <1>1, <1>2 DEF WatchIndexesAgree, Trees, Agree

LEMMA StagedAgree ==
  ASSUME TypeOK, WatchIndexesAgree, multi # NoMulti
  PROVE  /\ multi \in Job /\ Agree(multi.staged.watch) /\ multi.staged \in Storage
         /\ multi.sid \in Sid /\ multi.todo \in Seq(MultiOp)
BY DEF TypeOK, Job, WatchIndexesAgree, Trees, Agree

LEMMA StageMultiAgree ==
  ASSUME TypeOK, WatchIndexesAgree, StageMulti PROVE WatchIndexesAgree'
<1> DEFINE op == Head(multi.todo)
           S == multi.staged
<1>1. multi \in Job /\ Agree(S.watch) /\ S \in Storage /\ multi.sid \in Sid
  BY StagedAgree DEF StageMulti, Staging
<1>2. op \in MultiOp
  BY StagedAgree, HeadTailProperties DEF StageMulti, Staging
<1>3. Agree(Stage(S, op, multi.sid).watch)
  BY <1>1, <1>2, StageAgree DEF StageMulti
<1>4. multi'.staged = Stage(S, op, multi.sid)
  BY <1>1 DEF StageMulti, Job
<1>5. Agree(multi'.staged.watch) /\ st' = st
  BY <1>3, <1>4 DEF StageMulti
<1> QED
  BY <1>5 DEF WatchIndexesAgree, Trees, Agree

LEMMA AbortMultiAgree ==
  ASSUME WatchIndexesAgree, AbortMulti PROVE WatchIndexesAgree'
BY DEF AbortMulti, WatchIndexesAgree, Trees

LEMMA CommitMultiAgree ==
  ASSUME TypeOK, WatchIndexesAgree, CommitMulti PROVE WatchIndexesAgree'
<1>1. Agree(st'.watch) /\ multi' = NoMulti
  BY StagedAgree DEF CommitMulti, Staging
<1> QED
  BY <1>1 DEF WatchIndexesAgree, Trees, Agree

-----------------------------------------------------------------------------
(* Sessions, crash and replay. *)
LEMMA ConnectAgree == ASSUME TypeOK, WatchIndexesAgree, Connect PROVE WatchIndexesAgree'
<1>1. st.next \in Sid
  <2>1. st.next \in Nat \ {0} /\ st.next <= MaxSession
    BY DEF TypeOK, Storage, Connect
  <2> QED
    BY <2>1, BoundAssumption DEF Sid
<1>2. st \in Storage /\ OpenSession(st) \in Storage
  BY <1>1, OpenSessionType DEF TypeOK
<1>3. st'.watch = st.watch /\ multi' = multi
  BY <1>1, <1>2, SameWatches DEF Connect
<1> QED
  BY <1>3, TouchedAgree, <1>1 DEF WatchIndexesAgree, Trees, Agree

LEMMA CloseExpiredAgree ==
  ASSUME TypeOK, WatchIndexesAgree, NEW s \in Sid, CloseExpired(s) PROVE WatchIndexesAgree'
<1>1. PICK D : st' = Remove(DropSession(Bump(st), s), D)
  BY DEF CloseExpired
<1>2. st \in Storage /\ Bump(st) \in Storage /\ DropSession(Bump(st), s) \in Storage
  BY BumpType, DropSessionType DEF TypeOK
<1>3. st'.watch = st.watch /\ multi' = multi
  BY <1>1, <1>2, SameWatches DEF CloseExpired
<1> QED
  BY <1>3, TouchedAgree DEF WatchIndexesAgree, Trees, Agree

LEMMA LoseMemoryAgree == LoseMemory => WatchIndexesAgree'
<1> SUFFICES ASSUME LoseMemory PROVE WatchIndexesAgree'
  OBVIOUS
<1>1. st'.watch = NoWatches /\ multi' = NoMulti
  BY DEF LoseMemory, NewStorage
<1> QED
  BY <1>1, NoWatchesAgree DEF WatchIndexesAgree, Trees, Agree

LEMMA ReplayRecordAgree ==
  ASSUME TypeOK, WatchIndexesAgree, ReplayRecord PROVE WatchIndexesAgree'
<1>1. st'.watch = st.watch /\ multi' = multi
  BY DEF ReplayRecord, TypeOK, Storage
<1> QED
  BY <1>1 DEF WatchIndexesAgree, Trees

LEMMA ReplayOpAgree ==
  ASSUME TypeOK, WatchIndexesAgree, ReplayOp PROVE WatchIndexesAgree'
<1> DEFINE prim == Head(pend)
<1>1. prim \in Primitive /\ st \in Storage
  BY HeadTailProperties DEF TypeOK, ReplayOp
<1>2. ASSUME prim.op = "create" PROVE st'.watch = st.watch
  <2>1. st' = Create(st, prim, prim.sid) /\ prim.sid \in Sid
    BY <1>1, <1>2, PrimitiveType DEF ReplayOp, Replayed
  <2> QED
    BY <1>1, <2>1, SameWatches
<1>3. ASSUME prim.op = "set" PROVE st'.watch = st.watch
  <2>1. st' = SetData(st, prim.path, prim.data)
    BY <1>3 DEF ReplayOp, Replayed
  <2> QED
    BY <1>1, <2>1 DEF SetData, Storage
<1>4. ASSUME prim.op \in {"delete", "multi_delete"} PROVE st'.watch = st.watch
  <2>1. prim.path \in Path /\ Remove(st, {prim.path}) \in Storage
    BY <1>1, <1>4, PrimitiveType, RemoveType
  <2>2. Remove(st, {prim.path}).watch = st.watch
    BY <1>1 DEF Remove, Storage
  <2>3. \A owner, p : RemoveEphemeral(Remove(st, {prim.path}), owner, p).watch = st.watch
    BY <2>1, <2>2 DEF RemoveEphemeral, Storage
  <2> QED
    BY <1>4, <2>2, <2>3 DEF ReplayOp, Replayed
<1>5. ASSUME prim.op = "open" PROVE st'.watch = st.watch
  BY <1>1, <1>5, PrimitiveType, SameWatches DEF ReplayOp, Replayed
<1>6. ASSUME prim.op = "close" PROVE st'.watch = st.watch
  <2>1. prim.sid \in Sid /\ DropSession(st, prim.sid) \in Storage
    BY <1>1, <1>6, PrimitiveType, DropSessionType
  <2> QED
    BY <1>1, <1>6, <2>1, SameWatches DEF ReplayOp, Replayed
<1>7. st'.watch = st.watch /\ multi' = multi
  BY <1>1, <1>2, <1>3, <1>4, <1>5, <1>6, PrimitiveType DEF ReplayOp
<1> QED
  BY <1>7 DEF WatchIndexesAgree, Trees

-----------------------------------------------------------------------------
LEMMA InitAgree == Init => WatchIndexesAgree
<1> SUFFICES ASSUME Init PROVE WatchIndexesAgree
  OBVIOUS
<1>1. st.watch = NoWatches /\ multi = NoMulti
  BY DEF Init, NewStorage
<1> QED
  BY <1>1, NoWatchesAgree DEF WatchIndexesAgree, Trees, Agree

LEMMA NextAgree == TypeOK /\ WatchIndexesAgree /\ [Next]_vars => WatchIndexesAgree'
<1> SUFFICES ASSUME TypeOK, WatchIndexesAgree, [Next]_vars PROVE WatchIndexesAgree'
  OBVIOUS
<1>1. ASSUME NEW s \in conns, NEW req \in Requests, Serve(s, req) PROVE WatchIndexesAgree'
  <2>1. s \in Sid
    BY DEF TypeOK
  <2> QED
    BY <1>1, <2>1, HandleCreateAgree, HandleSetAgree, HandleDeleteAgree, HandleReadAgree,
       HandlePlainAgree, HandleCloseAgree, BeginMultiAgree DEF Serve
<1>2. ASSUME StageMulti \/ AbortMulti \/ CommitMulti PROVE WatchIndexesAgree'
  BY <1>2, StageMultiAgree, AbortMultiAgree, CommitMultiAgree
<1>3. ASSUME AbortProcess \/ Crash PROVE WatchIndexesAgree'
  BY <1>3, LoseMemoryAgree DEF AbortProcess, Crash
<1>4. ASSUME NEW s \in Sid, CloseExpired(s) PROVE WatchIndexesAgree'
  BY <1>4, CloseExpiredAgree
<1>5. ASSUME Connect \/ ReplayRecord \/ ReplayOp PROVE WatchIndexesAgree'
  BY <1>5, ConnectAgree, ReplayRecordAgree, ReplayOpAgree
<1>6. ASSUME \/ \E s \in Sid : Disconnect(s)
             \/ Sweep \/ ReplayPanics \/ Restarted \/ UNCHANGED vars
      PROVE  st' = st /\ multi' = multi
  BY <1>6 DEF Disconnect, Sweep, ReplayPanics, Restarted, vars
<1>7. ASSUME st' = st, multi' = multi PROVE WatchIndexesAgree'
  BY <1>7 DEF WatchIndexesAgree, Trees
<1> QED
  BY <1>1, <1>2, <1>3, <1>4, <1>5, <1>6, <1>7 DEF Next

(* The two watch indexes agree in every reachable state, whatever clients  *)
(* ask for and whatever flushes fail: a watch Clear walks is one Fire can  *)
(* find, through aborted Multis, expiries, crashes and replays.            *)
THEOREM WatchIndexesAlwaysAgree == Spec => []WatchIndexesAgree
BY InitAgree, NextAgree, TypeCorrect, PTL DEF Spec

-----------------------------------------------------------------------------
(* What watches tell.  Of what a watch is on, T shows what S showed: the   *)
(* node, or its absence, and its data; or the node and its children.       *)
Unseen(S, T, w) ==
  /\ w[2] = "data" =>
       /\ Exists(S, w[1]) <=> Exists(T, w[1])
       /\ Exists(S, w[1]) => T.map[w[1]].version = S.map[w[1]].version
  /\ w[2] = "list" /\ Exists(S, w[1]) =>
       Exists(T, w[1]) /\ T.map[w[1]].children = S.map[w[1]].children

Told(evs, s, w) == \E e \in evs : Answers(e, s, w)

(* From S to T watches are only used up, each by a notification, and each  *)
(* that is left has missed nothing.                                        *)
Uses(S, T, evs) ==
  \A s \in Sid, w \in Watch :
    /\ s \in T.watch.fwd[w] => s \in S.watch.fwd[w] /\ Unseen(S, T, w)
    /\ Told(evs, s, w) <=> s \in S.watch.fwd[w] /\ s \notin T.watch.fwd[w]

LEMMA UnseenTrans ==
  ASSUME NEW S, NEW T, NEW U, NEW w, Unseen(S, T, w), Unseen(T, U, w)
  PROVE  Unseen(S, U, w)
BY DEF Unseen

LEMMA SameUses ==
  ASSUME NEW S, NEW T, T.map = S.map, T.watch = S.watch
  PROVE  Uses(S, T, {})
BY DEF Uses, Unseen, Told, Exists

LEMMA UsesTrans ==
  ASSUME NEW S, NEW T, NEW U, NEW a, NEW b, Uses(S, T, a), Uses(T, U, b)
  PROVE  Uses(S, U, a \cup b)
<1> SUFFICES ASSUME NEW s \in Sid, NEW w \in Watch
             PROVE  /\ s \in U.watch.fwd[w] => s \in S.watch.fwd[w] /\ Unseen(S, U, w)
                    /\ Told(a \cup b, s, w) <=> s \in S.watch.fwd[w] /\ s \notin U.watch.fwd[w]
  BY DEF Uses
<1>1. /\ s \in T.watch.fwd[w] => s \in S.watch.fwd[w] /\ Unseen(S, T, w)
      /\ Told(a, s, w) <=> s \in S.watch.fwd[w] /\ s \notin T.watch.fwd[w]
  BY DEF Uses
<1>2. /\ s \in U.watch.fwd[w] => s \in T.watch.fwd[w] /\ Unseen(T, U, w)
      /\ Told(b, s, w) <=> s \in T.watch.fwd[w] /\ s \notin U.watch.fwd[w]
  BY DEF Uses
<1>3. Told(a \cup b, s, w) <=> Told(a, s, w) \/ Told(b, s, w)
  BY DEF Told
<1> QED
  BY <1>1, <1>2, <1>3, UnseenTrans

(* A change from S to T at p that shows in the drained watches only.       *)
LEMMA FireUses ==
  ASSUME NEW S \in Storage, NEW T \in Storage, T.watch = S.watch, NEW p,
         NEW type \in {"Created", "Deleted", "Changed"},
         \A w \in Watch : w \notin Drained(p, type) => Unseen(S, T, w)
  PROVE  Uses(S, Notify(T, p, type), FireEvents(S.watch, p, type))
<1> DEFINE gone == Drained(p, type)
           U == Notify(T, p, type)
           evs == FireEvents(S.watch, p, type)
<1>1. /\ U.map = T.map /\ U.watch = Fire(S.watch, p, type)
      /\ \A w \in Watch : U.watch.fwd[w] = IF w \in gone THEN {} ELSE S.watch.fwd[w]
  BY DEF Notify, Fire, Storage
<1>2. \A w \in gone : w = <<w[1], w[2]>> /\ w[2] \in {"data", "list"}
  BY DEF Drained
<1>3. \A w \in Watch : w = <<w[1], w[2]>> /\ w[2] \in {"data", "list"}
  BY DEF Watch, WatchKind
<1> HIDE DEF gone
<1>4. ASSUME NEW s \in Sid, NEW w \in Watch
      PROVE  Told(evs, s, w) <=> w \in gone /\ s \in S.watch.fwd[w]
  <2>1. ASSUME w \in gone, s \in S.watch.fwd[w] PROVE Told(evs, s, w)
    <3> DEFINE e == [sid |-> s, type |-> EventType(w, type), path |-> w[1]]
    <3>1. e \in evs
      BY <2>1 DEF FireEvents, gone
    <3>2. e.sid = s /\ e.path = w[1] /\ (e.type = "Child" <=> w[2] = "list")
      BY <1>3 DEF EventType
    <3> QED
      BY <3>1, <3>2 DEF Told, Answers
  <2>2. ASSUME Told(evs, s, w) PROVE w \in gone /\ s \in S.watch.fwd[w]
    <3>1. PICK v \in gone :
            \E r \in S.watch.fwd[v] :
              Answers([sid |-> r, type |-> EventType(v, type), path |-> v[1]], s, w)
      BY <2>2 DEF Told, FireEvents, gone
    <3>2. s \in S.watch.fwd[v] /\ v[1] = w[1] /\ (EventType(v, type) = "Child" <=> w[2] = "list")
      BY <3>1 DEF Answers
    <3>3. EventType(v, type) = "Child" <=> v[2] = "list"
      BY <1>2 DEF EventType
    <3>4. v[2] = w[2]
      BY <1>2, <1>3, <3>2, <3>3
    <3>5. v = w
      BY <1>2, <1>3, <3>2, <3>4
    <3> QED
      BY <3>1, <3>2, <3>5
  <2> QED
    BY <2>1, <2>2
<1>5. \A w \in Watch : w \notin gone => Unseen(S, U, w)
  BY <1>1 DEF Unseen, Exists, gone
<1> HIDE DEF U, evs
<1>6. Uses(S, U, evs)
  BY <1>1, <1>4, <1>5 DEF Uses
<1> QED
  BY <1>6 DEF U, evs

LEMMA CreateUses ==
  ASSUME NEW S \in Storage, NEW op, NEW s \in Sid, Creates(op), CreateError(S, op) = "Ok"
  PROVE  LET made == CreatedPath(S, op)
         IN  Uses(S, Notify(Create(S, op, s), made, "Created"),
                  FireEvents(S.watch, made, "Created"))
<1> DEFINE made == CreatedPath(S, op)
           up == Parent[op.path]
           T == Create(S, op, s)
<1>1. /\ made \in Path /\ made # Root /\ Parent[made] = up /\ ~Exists(S, made) /\ made # up
      /\ S.map[up] \in Node /\ T \in Storage
      /\ T.map[up] = WithChild(S.map[up], ChildName[made], S.zxid)
      /\ \A p \in Path : p # made /\ p # up => T.map[p] = S.map[p]
      /\ \A p \in Path : Exists(T, p) <=> p = made \/ Exists(S, p)
  BY CreateMap
<1>2. T.watch = S.watch
  BY SameWatches
<1>3. T.map[up].version = S.map[up].version
  BY <1>1 DEF WithChild, Node
<1>4. Drained(made, "Created") = {<<made, "data">>, <<up, "list">>}
  BY <1>1 DEF Drained, WatchParent
<1> HIDE DEF T, made, up
<1>5. ASSUME NEW w \in Watch, w \notin Drained(made, "Created") PROVE Unseen(S, T, w)
  <2>1. w = <<w[1], w[2]>> /\ w[1] \in Path
    BY DEF Watch
  <2>2. CASE w[1] = made
    <3>1. w[2] # "data"
      BY <1>4, <1>5, <2>1, <2>2
    <3> QED
      BY <1>1, <2>2, <3>1 DEF Unseen
  <2>3. CASE w[1] = up
    <3>1. w[2] # "list"
      BY <1>4, <1>5, <2>1, <2>3
    <3> QED
      BY <1>1, <1>3, <2>1, <2>3, <3>1 DEF Unseen
  <2>4. CASE w[1] # made /\ w[1] # up
    BY <1>1, <2>1, <2>4 DEF Unseen
  <2> QED
    BY <2>2, <2>3, <2>4
<1>6. Uses(S, Notify(T, made, "Created"), FireEvents(S.watch, made, "Created"))
  BY <1>1, <1>2, <1>5, FireUses
<1> QED
  BY <1>6 DEF T, made

LEMMA SetDataUses ==
  ASSUME NEW S \in Storage, NEW p \in Path, NEW d \in Data, Exists(S, p)
  PROVE  Uses(S, Notify(SetData(S, p, d), p, "Changed"), FireEvents(S.watch, p, "Changed"))
<1> DEFINE T == SetData(S, p, d)
<1>1. /\ T \in Storage /\ S.map[p] \in Node /\ T.map[p] = Written(S.map[p], d, S.zxid)
      /\ \A q \in Path : q # p => T.map[q] = S.map[q]
      /\ \A q \in Path : Exists(T, q) <=> Exists(S, q)
  BY SetDataMap
<1>2. T.watch = S.watch
  BY DEF SetData, Storage
<1>3. T.map[p].children = S.map[p].children
  BY <1>1 DEF Written, Node
<1>4. Drained(p, "Changed") = {<<p, "data">>}
  BY DEF Drained
<1> HIDE DEF T
<1>5. ASSUME NEW w \in Watch, w \notin Drained(p, "Changed") PROVE Unseen(S, T, w)
  <2>1. w = <<w[1], w[2]>> /\ w[1] \in Path
    BY DEF Watch
  <2>2. w[1] = p => w[2] # "data"
    BY <1>4, <1>5, <2>1
  <2> QED
    BY <1>1, <1>3, <2>1, <2>2 DEF Unseen
<1>6. Uses(S, Notify(T, p, "Changed"), FireEvents(S.watch, p, "Changed"))
  BY <1>1, <1>2, <1>5, FireUses
<1> QED
  BY <1>6 DEF T

(* A node deleted and taken out of its owner's index.                      *)
LEMMA RemoveUses ==
  ASSUME NEW S \in Storage, NEW p \in Proper, NEW U \in Storage,
         U.map = Remove(S, {p}).map, U.watch = S.watch
  PROVE  Uses(S, Notify(U, p, "Deleted"), FireEvents(S.watch, p, "Deleted"))
<1> DEFINE T == Remove(S, {p})
           up == Parent[p]
<1>1. p \in Path /\ p # Root
  BY PathAssumption
<1>2. /\ \A q \in Path : Exists(T, q) <=> Exists(S, q) /\ q \notin {p}
      /\ \A q \in Path : Exists(T, q) =>
           /\ S.map[q] \in Node
           /\ T.map[q] = IF Orphans({p}, q) = {} THEN S.map[q]
                         ELSE WithoutChildren(S.map[q], Orphans({p}, q), S.zxid)
  <2> DEFINE D == {p}
  <2>1. D \in SUBSET Path
    BY <1>1
  <2> HIDE DEF D
  <2>2. /\ \A q \in Path : Exists(Remove(S, D), q) <=> Exists(S, q) /\ q \notin D
        /\ \A q \in Path : Exists(Remove(S, D), q) =>
             /\ S.map[q] \in Node
             /\ Remove(S, D).map[q] = IF Orphans(D, q) = {} THEN S.map[q]
                                      ELSE WithoutChildren(S.map[q], Orphans(D, q), S.zxid)
    BY <2>1, RemoveMap
  <2> QED
    BY <2>2 DEF D
<1>3. \A q : q # up => Orphans({p}, q) = {}
  BY DEF Orphans
<1>4. Drained(p, "Deleted") = {<<p, "data">>, <<up, "list">>, <<p, "list">>}
  BY <1>1 DEF Drained, WatchParent
<1> HIDE DEF T, up
<1>5. ASSUME NEW w \in Watch, w \notin Drained(p, "Deleted") PROVE Unseen(S, U, w)
  <2>1. w = <<w[1], w[2]>> /\ w[1] \in Path /\ w[2] \in {"data", "list"}
    BY DEF Watch, WatchKind
  <2>2. w[1] # p
    BY <1>4, <1>5, <2>1
  <2>3. w[1] = up => w[2] # "list"
    BY <1>4, <1>5, <2>1
  <2>4. Exists(T, w[1]) <=> Exists(S, w[1])
    BY <1>2, <2>1, <2>2
  <2>5. ASSUME Exists(T, w[1]) PROVE T.map[w[1]].version = S.map[w[1]].version
    <3> DEFINE n == S.map[w[1]]
               gone == Orphans({p}, w[1])
    <3>1. n \in Node /\ (T.map[w[1]] = n \/ T.map[w[1]] = WithoutChildren(n, gone, S.zxid))
      BY <1>2, <2>1, <2>5
    <3> HIDE DEF n, gone
    <3>2. WithoutChildren(n, gone, S.zxid).version = n.version
      BY <3>1 DEF WithoutChildren, Node
    <3> QED
      BY <3>1, <3>2 DEF n
  <2>6. Exists(T, w[1]) /\ w[1] # up => T.map[w[1]] = S.map[w[1]]
    BY <1>2, <1>3, <2>1
  <2>7. Unseen(S, T, w)
    BY <2>3, <2>4, <2>5, <2>6 DEF Unseen
  <2> QED
    BY <2>7 DEF Unseen, Exists, T
<1> QED
  BY <1>5, FireUses

-----------------------------------------------------------------------------
(* What a step tells.  The nodes that go with a session go without a word, *)
(* so that what was seen is told while the sessions that own nodes stay.   *)
OwnersStay == \A s \in Sid : st.eph[s] # {} => s \in st'.alive

StepTells ==
  \A s \in conns \cap conns', w \in Watch :
    /\ Told(events', s, w) <=> s \in st.watch.fwd[w] /\ s \notin st'.watch.fwd[w]
    /\ OwnersStay /\ s \in st.watch.fwd[w] /\ s \in st'.watch.fwd[w] => Unseen(st, st', w)

LEMMA UsesTells == ASSUME TypeOK, Uses(st, st', events') PROVE StepTells
BY DEF TypeOK, Uses, StepTells

LEMMA TellsFires == StepTells => FiredOnce
BY DEF StepTells, FiredOnce, Told

LEMMA TellsAll == ASSUME StepTells, OwnersStay PROVE WatchersTold
<1> SUFFICES ASSUME NEW p \in Path, NEW s \in conns \cap conns'
             PROVE  /\ DataChanged(p) /\ s \in st.watch.fwd[<<p, "data">>] =>
                         \E e \in events' : e.sid = s /\ e.path = p /\ e.type # "Child"
                    /\ ChildrenChanged(p) /\ s \in st.watch.fwd[<<p, "list">>] =>
                         \E e \in events' :
                           /\ e.sid = s /\ e.path = p
                           /\ e.type = "Child" \/ (e.type = "Deleted" /\ ~Stays(p))
  BY DEF WatchersTold
<1>1. ASSUME NEW kind \in WatchKind, s \in st.watch.fwd[<<p, kind>>], ~Unseen(st, st', <<p, kind>>)
      PROVE  \E e \in events' : e.sid = s /\ e.path = p /\ (e.type = "Child" <=> kind = "list")
  <2> DEFINE w == <<p, kind>>
  <2>1. w \in Watch /\ w[1] = p /\ w[2] = kind
    BY DEF Watch
  <2> HIDE DEF w
  <2>2. Told(events', s, w)
    BY <1>1, <2>1 DEF StepTells, w
  <2> QED
    BY <2>1, <2>2 DEF Told, Answers
<1>2. DataChanged(p) => ~Unseen(st, st', <<p, "data">>)
  BY DEF DataChanged, Unseen, Exists
<1>3. ChildrenChanged(p) => ~Unseen(st, st', <<p, "list">>)
  BY DEF ChildrenChanged, Unseen
<1>4. DataChanged(p) /\ s \in st.watch.fwd[<<p, "data">>] =>
        \E e \in events' : e.sid = s /\ e.path = p /\ e.type # "Child"
  BY <1>1, <1>2 DEF WatchKind
<1>5. ChildrenChanged(p) /\ s \in st.watch.fwd[<<p, "list">>] =>
        \E e \in events' : e.sid = s /\ e.path = p /\ e.type = "Child"
  BY <1>1, <1>3 DEF WatchKind
<1> QED
  BY <1>4, <1>5

LEMMA TouchedSame ==
  ASSUME TypeOK, NEW s \in Sid
  PROVE  /\ Touch(st, s) \in Storage /\ Bump(Touch(st, s)) \in Storage
         /\ Touch(st, s).map = st.map /\ Touch(st, s).watch = st.watch
         /\ Bump(Touch(st, s)).map = st.map /\ Bump(Touch(st, s)).watch = st.watch
BY TouchedType, SameMaps, SameWatches DEF TypeOK

LEMMA RespondUses ==
  ASSUME NEW S, NEW err, NEW evs, Respond(S, err, evs), Uses(st, S, evs)
  PROVE  Uses(st, st', events')
BY DEF Respond, Answer

LEMMA LogThenApplyUses ==
  ASSUME TypeOK, NEW s \in Sid, NEW prim, NEW S, NEW err, NEW evs,
         LogThenApply(s, prim, S, err, evs), Uses(Bump(Touch(st, s)), S, evs)
  PROVE  Uses(st, st', events')
<1> DEFINE now == Bump(Touch(st, s))
<1>1. now.map = st.map /\ now.watch = st.watch
  BY TouchedSame
<1>2. \/ st' = S /\ events' = evs
      \/ st' = now /\ events' = {}
  BY DEF LogThenApply, Answer
<1> HIDE DEF now
<1>3. Uses(st, now, {})
  BY <1>1, SameUses
<1>4. Uses(st, S, {} \cup evs)
  BY <1>3, UsesTrans DEF now
<1>5. {} \cup evs = evs
  OBVIOUS
<1> QED
  BY <1>2, <1>3, <1>4, <1>5

LEMMA HandleCreateUses ==
  ASSUME TypeOK, NEW s \in Sid, NEW op \in Requests, HandleCreate(s, op)
  PROVE  Uses(st, st', events')
<1> DEFINE now == Bump(Touch(st, s))
           made == CreatedPath(now, op)
<1>1. now \in Storage /\ Uses(st, Touch(st, s), {}) /\ Uses(now, now, {})
  BY TouchedSame, SameUses
<1>2. CASE Respond(Touch(st, s), CreatePrecheck(op), {})
  BY <1>1, <1>2, RespondUses
<1>3. CASE LogThenApply(s, LogCreate(op, s), now, "BadArguments", {})
  BY <1>1, <1>3, LogThenApplyUses
<1>4. CASE /\ CreateError(now, op) = "Ok"
           /\ LogThenApply(s, LogCreate(op, s), Notify(Create(now, op, s), made, "Created"),
                           "Ok", FireEvents(now.watch, made, "Created"))
  <2>1. Creates(op)
    BY RequestType DEF HandleCreate
  <2>2. Uses(now, Notify(Create(now, op, s), made, "Created"),
             FireEvents(now.watch, made, "Created"))
    BY <1>1, <1>4, <2>1, CreateUses
  <2> QED
    BY <1>4, <2>2, LogThenApplyUses
<1> QED
  BY <1>2, <1>3, <1>4 DEF HandleCreate

LEMMA HandleSetUses ==
  ASSUME TypeOK, NEW s \in Sid, NEW op \in Requests, HandleSet(s, op)
  PROVE  Uses(st, st', events')
<1> DEFINE now == Bump(Touch(st, s))
           after == Notify(SetData(now, op.path, op.data), op.path, "Changed")
           evs == FireEvents(now.watch, op.path, "Changed")
<1>1. now \in Storage /\ Uses(st, Touch(st, s), {}) /\ now.map = st.map
  BY TouchedSame, SameUses
<1>2. CASE Respond(Touch(st, s), VersionError(st, op), {})
  BY <1>1, <1>2, RespondUses
<1>3. CASE VersionError(st, op) = "Ok" /\ LogThenApply(s, LogSet(op), after, "Ok", evs)
  <2>1. op.path \in Path /\ op.data \in Data
    BY RequestType DEF HandleSet, SetOp
  <2>2. Exists(now, op.path)
    BY <1>1, <1>3 DEF VersionError, Exists
  <2>3. Uses(now, after, evs)
    BY <1>1, <2>1, <2>2, SetDataUses
  <2> QED
    BY <1>3, <2>3, LogThenApplyUses
<1> QED
  BY <1>2, <1>3 DEF HandleSet

(* The deletion of the root changes nothing, and uses its watches up.      *)
LEMMA DroppedUses ==
  ASSUME NEW S \in Storage, NEW p \in Path, Exists(S, p), NEW U \in Storage,
         U.map = TryDelete(S, p).map, U.watch = S.watch
  PROVE  Uses(S, Notify(U, p, "Deleted"), FireEvents(S.watch, p, "Deleted"))
<1>1. CASE Deletable(S, p)
  BY <1>1, RemoveUses DEF TryDelete, Deletable
<1>2. CASE ~Deletable(S, p)
  <2>1. U.map = S.map
    BY <1>2 DEF TryDelete
  <2>2. \A w \in Watch : Unseen(S, U, w)
    BY <2>1 DEF Unseen, Exists
  <2> QED
    BY <2>2, FireUses
<1> QED
  BY <1>1, <1>2

LEMMA HandleDeleteUses ==
  ASSUME TypeOK, NEW s \in Sid, NEW op \in Requests, HandleDelete(s, op)
  PROVE  Uses(st, st', events')
<1> DEFINE now == Bump(Touch(st, s))
           owner == st.map[op.path].owner
           U == TryDelete(now, op.path)
           left == RemoveEphemeral(U, owner, op.path)
           evs == FireEvents(now.watch, op.path, "Deleted")
<1>1. now \in Storage /\ Uses(st, Touch(st, s), {}) /\ now.map = st.map
  BY TouchedSame, SameUses
<1>2. CASE Respond(Touch(st, s), DeletePrecheck(op), {})
  BY <1>1, <1>2, RespondUses
<1>3. CASE /\ DeletePrecheck(op) = "Ok"
           /\ LogThenApply(s, LogDelete(op), Notify(left, op.path, "Deleted"), "Ok", evs)
  <2>1. op.path \in Path /\ Exists(st, op.path) /\ owner \in Sid \cup {NoOwner}
    BY <1>3, RequestType, ExistingType
       DEF HandleDelete, DeleteOp, DeletePrecheck, VersionError, TypeOK
  <2>2. Exists(now, op.path)
    BY <1>1, <2>1 DEF Exists
  <2> HIDE DEF now, owner
  <2>3. U \in Storage /\ U.watch = now.watch
    BY <1>1, <2>1, TryDeleteType, SameWatches
  <2> HIDE DEF U
  <2>4. left \in Storage /\ left.watch = now.watch /\ left.map = U.map
    <3>1. left \in Storage
      BY <2>1, <2>3, RemoveEphemeralType
    <3>2. left.watch = U.watch /\ left.map = U.map
      BY <2>3 DEF RemoveEphemeral, Storage
    <3> QED
      BY <2>3, <3>1, <3>2
  <2> HIDE DEF left
  <2>5. Uses(now, Notify(left, op.path, "Deleted"), FireEvents(now.watch, op.path, "Deleted"))
    BY <1>1, <2>1, <2>2, <2>4, DroppedUses DEF U
  <2> QED
    BY <1>3, <2>5, LogThenApplyUses DEF now
<1> QED
  BY <1>2, <1>3 DEF HandleDelete

LEMMA HandleReadTells ==
  ASSUME TypeOK, NEW s \in Sid, NEW req \in Requests, HandleRead(s, req)
  PROVE  StepTells
<1> DEFINE now == Touch(st, s)
           v == <<req.path, req.op>>
           after == IF req.watch THEN [now EXCEPT !.watch = Register(@, s, v)] ELSE now
<1>1. now \in Storage /\ now.map = st.map /\ now.watch = st.watch
  BY TouchedSame
<1>2. Respond(after, IF Exists(st, req.path) THEN "Ok" ELSE "NoNode", {})
  BY DEF HandleRead
<1> HIDE DEF now
<1>3. /\ after.map = st.map
      /\ \A w \in Watch : st.watch.fwd[w] \subseteq after.watch.fwd[w]
  BY <1>1 DEF Register, Storage, Watches
<1>4. st' = after /\ events' = {}
  BY <1>2 DEF Respond, Answer
<1> HIDE DEF after
<1> QED
  BY <1>3, <1>4 DEF StepTells, Told, Unseen, Exists

(* Nothing goes with a session that owns nothing.                          *)
LEMMA EmptyReaped ==
  ASSUME NEW S \in Storage, NEW T, NEW D \in Reapable(T, {})
  PROVE  Remove(S, D).map = S.map
<1>1. D = {}
  BY DEF Reapable
<1>2. \A p : Orphans({}, p) = {}
  BY DEF Orphans
<1>3. S.map = [p \in Path |-> S.map[p]]
  BY DEF Storage, Tree
<1>4. \A p \in Path : S.map[p] = IF ~Exists(S, p) THEN NoNode ELSE S.map[p]
  BY DEF Exists
<1>5. Remove(S, {}).map = [p \in Path |-> IF ~Exists(S, p) THEN NoNode ELSE S.map[p]]
  BY <1>2 DEF Remove, Storage
<1> QED
  BY <1>1, <1>3, <1>4, <1>5

LEMMA HandleCloseTells ==
  ASSUME TypeOK, NEW s \in Sid, NEW req \in Requests, HandleClose(s, req)
  PROVE  StepTells
<1>1. PICK D \in Reapable(st, st.eph[s]) :
        st' = [Remove(DropSession(Touch(st, s), s), D) EXCEPT !.watch = Clear(@, s)]
  BY DEF HandleClose
<1> DEFINE drop == DropSession(Touch(st, s), s)
           left == Remove(drop, D)
<1>2. D \in SUBSET Path
  BY <1>1, ReapableType DEF TypeOK, Storage
<1>3. drop \in Storage /\ drop.map = st.map /\ drop.watch = st.watch /\ s \notin drop.alive
  <2>1. drop \in Storage /\ drop.map = st.map /\ drop.watch = st.watch
    BY TouchedSame, DropSessionType, SameMaps, SameWatches
  <2>2. drop.alive = Touch(st, s).alive \ {s}
    BY TouchedSame DEF DropSession, Storage
  <2> QED
    BY <2>1, <2>2
<1> HIDE DEF drop
<1>4. left \in Storage /\ left.watch = st.watch /\ left.alive = drop.alive
  BY <1>2, <1>3, RemoveType, SameWatches, SameKin DEF Kin
<1>5. st.eph[s] = {} => left.map = st.map
  BY <1>1, <1>3, EmptyReaped
<1> HIDE DEF left
<1>6. /\ st'.map = left.map /\ st'.alive = left.alive /\ st'.watch = Clear(left.watch, s)
  BY <1>1, <1>4 DEF left, drop, Storage
<1>7. \A w \in Watch, r \in Sid \ {s} : r \in st'.watch.fwd[w] <=> r \in st.watch.fwd[w]
  BY <1>4, <1>6 DEF Clear
<1>8. s \notin conns' /\ conns' \subseteq Sid \ {s} /\ events' = {}
  BY DEF HandleClose, TypeOK, Answer
<1>9. OwnersStay => st'.map = st.map
  BY <1>3, <1>4, <1>5, <1>6 DEF OwnersStay
<1> QED
  BY <1>7, <1>8, <1>9 DEF StepTells, Told, Unseen, Exists

LEMMA CloseExpiredTells ==
  ASSUME TypeOK, NEW s \in Sid, CloseExpired(s) PROVE StepTells
<1>1. PICK D \in Reapable(st, st.eph[s]) : st' = Remove(DropSession(Bump(st), s), D)
  BY DEF CloseExpired
<1> DEFINE drop == DropSession(Bump(st), s)
<1>2. Bump(st) \in Storage /\ Bump(st).map = st.map /\ Bump(st).watch = st.watch
  BY BumpType, SameMaps, SameWatches DEF TypeOK
<1>3. drop \in Storage /\ drop.map = st.map /\ drop.watch = st.watch /\ s \notin drop.alive
  <2>1. drop \in Storage /\ drop.map = st.map /\ drop.watch = st.watch
    BY <1>2, DropSessionType, SameMaps, SameWatches
  <2>2. drop.alive = Bump(st).alive \ {s}
    BY <1>2 DEF DropSession, Storage
  <2> QED
    BY <2>1, <2>2
<1> HIDE DEF drop
<1>4. st'.watch = st.watch /\ st'.alive = drop.alive
  BY <1>1, <1>3, SameWatches, SameKin DEF Kin, drop
<1>5. OwnersStay => st'.map = st.map
  BY <1>1, <1>3, <1>4, EmptyReaped DEF OwnersStay, drop
<1>6. events' = {}
  BY DEF CloseExpired, Answer
<1> QED
  BY <1>4, <1>5, <1>6 DEF StepTells, Told, Unseen, Exists

(* While a Multi is staged nothing has been told, and what is kept to be   *)
(* told is what the clone's watches have been used up by.                  *)
MultiTells == multi # NoMulti => events = {} /\ Uses(st, multi.staged, multi.events)

LEMMA ServeTells ==
  ASSUME TypeOK, NEW s \in conns, NEW req \in Requests, Serve(s, req)
  PROVE  StepTells /\ MultiTells'
<1>1. s \in Sid
  BY DEF TypeOK
<1>2. CASE BeginMulti(s, req)
  <2> DEFINE now == Bump(Touch(st, s))
  <2>1. /\ st' = Touch(st, s) /\ multi'.staged = now /\ multi'.events = {} /\ events' = {}
    BY <1>2 DEF BeginMulti
  <2>2. now.map = Touch(st, s).map /\ now.watch = Touch(st, s).watch
    BY <1>1, TouchedSame
  <2> HIDE DEF now
  <2>3. Uses(st', multi'.staged, {}) /\ Uses(st, st', {})
    BY <1>1, <2>1, <2>2, TouchedSame, SameUses
  <2> QED
    BY <2>1, <2>3, UsesTells DEF MultiTells
<1>3. CASE HandlePlain(s, req)
  <2>1. PICK err : Respond(Touch(st, s), err, {})
    BY <1>3 DEF HandlePlain
  <2>2. Uses(st, Touch(st, s), {})
    BY <1>1, TouchedSame, SameUses
  <2>3. multi' = NoMulti
    BY <1>3, <2>1 DEF HandlePlain, Ready, Respond
  <2> QED
    BY <2>1, <2>2, <2>3, RespondUses, UsesTells DEF MultiTells
<1>4. CASE \/ HandleCreate(s, req) \/ HandleSet(s, req) \/ HandleDelete(s, req)
           \/ HandleRead(s, req) \/ HandleClose(s, req)
  <2>1. StepTells
    BY <1>1, <1>4, HandleCreateUses, HandleSetUses, HandleDeleteUses, HandleReadTells,
       HandleCloseTells, UsesTells
  <2>2. multi' = NoMulti
    BY <1>4 DEF HandleCreate, HandleSet, HandleDelete, HandleRead, HandleClose, Ready,
                Respond, LogThenApply
  <2> QED
    BY <2>1, <2>2 DEF MultiTells
<1> QED
  BY <1>2, <1>3, <1>4 DEF Serve

LEMMA StageUses ==
  ASSUME NEW S \in Storage, NEW op \in MultiOp, NEW s \in Sid, MultiError(S, op) = "Ok"
  PROVE  Uses(S, Stage(S, op, s), StagedEvents(S, op))
<1>1. CASE op.op = "create"
  <2>1. Creates(op) /\ CreateError(S, op) = "Ok"
    BY <1>1, MultiOpType DEF MultiError
  <2> QED
    BY <1>1, <2>1, CreateUses DEF Stage, StagedEvents
<1>2. ASSUME op.op \in {"set", "delete"} PROVE op.path \in Path /\ Exists(S, op.path)
  BY <1>2, MultiOpType DEF MultiError, VersionError
<1>3. CASE op.op = "set"
  <2>1. op.data \in Data
    BY <1>3, MultiOpType DEF SetOp
  <2> QED
    BY <1>2, <1>3, <2>1, SetDataUses DEF Stage, StagedEvents
<1>4. CASE op.op = "delete"
  <2> DEFINE owner == S.map[op.path].owner
             U == Remove(S, {op.path})
             left == RemoveEphemeral(U, owner, op.path)
  <2>1. /\ owner \in Sid \cup {NoOwner} /\ op.path \in Path /\ op.path \in Proper
    BY <1>2, <1>4, ExistingType DEF MultiError, VersionError
  <2>2. U \in Storage /\ U.watch = S.watch
    <3>1. U.watch = S.watch
      BY DEF Remove, Storage
    <3> QED
      BY <2>1, <3>1, RemoveType
  <2>3. Stage(S, op, s) = Notify(left, op.path, "Deleted")
        /\ StagedEvents(S, op) = FireEvents(S.watch, op.path, "Deleted")
    BY <1>4 DEF Stage, StagedEvents
  <2> HIDE DEF U, owner
  <2>4. left \in Storage /\ left.watch = S.watch /\ left.map = U.map
    <3>1. left \in Storage
      BY <2>1, <2>2, RemoveEphemeralType
    <3>2. left.watch = U.watch /\ left.map = U.map
      BY <2>2 DEF RemoveEphemeral, Storage
    <3> QED
      BY <2>2, <3>1, <3>2
  <2> HIDE DEF left
  <2> QED
    BY <2>1, <2>3, <2>4, RemoveUses DEF U
<1>5. CASE op.op = "check"
  BY <1>5, SameUses DEF Stage, StagedEvents
<1> QED
  BY <1>1, <1>3, <1>4, <1>5, MultiOpType

LEMMA StageMultiTells == ASSUME TypeOK, MultiTells, StageMulti PROVE StepTells /\ MultiTells'
<1> DEFINE op == Head(multi.todo)
           S == multi.staged
           T == Stage(S, op, multi.sid)
           evs == StagedEvents(S, op)
<1>1. multi \in Job /\ S \in Storage /\ multi.sid \in Sid /\ op \in MultiOp
      /\ MultiError(S, op) = "Ok" /\ multi # NoMulti
  BY HeadTailProperties DEF TypeOK, Job, StageMulti, Staging
<1>2. Uses(S, T, evs)
  BY <1>1, StageUses
<1>3. multi'.staged = T /\ multi'.events = multi.events \cup evs /\ st' = st /\ events' = events
  BY <1>1 DEF StageMulti, Job
<1> HIDE DEF T, evs, S, op
<1>4. events = {} /\ Uses(st, S, multi.events)
  BY <1>1 DEF MultiTells, S
<1>5. Uses(st, T, multi.events \cup evs) /\ Uses(st, st', {})
  BY <1>2, <1>3, <1>4, UsesTrans, SameUses
<1> QED
  BY <1>3, <1>4, <1>5, UsesTells DEF MultiTells

LEMMA NextTells ==
  ASSUME TypeOK, MultiInStep, MultiTells, Next
  PROVE  (Serving => StepTells) /\ MultiTells'
<1>1. CASE \E s \in conns, req \in Requests : Serve(s, req)
  BY <1>1, ServeTells
<1>2. CASE StageMulti
  BY <1>2, StageMultiTells
<1>3. CASE CommitMulti
  <2>1. Uses(st, st', events') /\ multi' = NoMulti
    BY <1>3 DEF CommitMulti, Staging, MultiTells, Answer
  <2> QED
    BY <2>1, UsesTells DEF MultiTells
<1>4. CASE AbortMulti \/ Sweep \/ \E s \in Sid : Disconnect(s)
  <2>1. st' = st /\ events' = {} /\ multi' \in {multi, NoMulti}
    BY <1>4 DEF AbortMulti, Sweep, Disconnect, Answer
  <2>2. Uses(st, st', {})
    BY <2>1, SameUses
  <2> QED
    BY <2>1, <2>2, UsesTells DEF MultiTells
<1>5. CASE Connect
  <2>1. st.next \in Sid /\ OpenSession(st) \in Storage
    BY <1>5, ConnectSteps, OpenSessionType DEF TypeOK
  <2>2. st'.map = st.map /\ st'.watch = st.watch /\ events' = {} /\ multi' = NoMulti
    BY <1>5, <2>1, SameMaps, SameWatches DEF Connect, TypeOK, Answer
  <2>3. Uses(st, st', {})
    BY <2>2, SameUses
  <2> QED
    BY <2>2, <2>3, UsesTells DEF MultiTells
<1>6. CASE \E s \in Sid : CloseExpired(s)
  BY <1>6, CloseExpiredTells DEF CloseExpired, MultiTells
<1>7. CASE AbortProcess \/ Crash
  BY <1>7 DEF AbortProcess, Crash, LoseMemory, Serving, MultiTells
<1>8. CASE ReplayRecord \/ ReplayOp \/ ReplayPanics \/ Restarted
  BY <1>8 DEF ReplayRecord, ReplayOp, ReplayPanics, Restarted, Serving, MultiTells, MultiInStep
<1> QED
  BY <1>1, <1>2, <1>3, <1>4, <1>5, <1>6, <1>7, <1>8 DEF Next

LEMMA AlwaysTells == Spec => [](TypeOK /\ MultiInStep /\ MultiTells)
<1>1. Init => MultiTells
  BY DEF Init, MultiTells
<1>2. TypeOK /\ MultiInStep /\ MultiTells /\ [Next]_vars => MultiTells'
  BY NextTells DEF MultiTells, vars
<1> QED
  BY <1>1, <1>2, AlwaysKnown, PTL DEF Spec

(* A notification uses up the watch it answers, and a session that stays   *)
(* loses a watch in no other way: every request, every Multi, every expiry *)
(* of another session, whatever flushes fail.                              *)
THEOREM WatchesAlwaysFireOnce == Spec => WatchesFireOnce
<1>1. TypeOK /\ MultiInStep /\ MultiTells /\ [Next]_vars => [FiredOnce]_vars
  BY NextTells, TellsFires DEF FiredOnce
<1> QED
  BY <1>1, AlwaysTells, PTL DEF Spec, WatchesFireOnce

(* Whoever watches what a step changes is told, as long as every session   *)
(* that owns nodes stays: those a session takes with it go without a word. *)
THEOREM WatchersToldWhileOwnersStay == Spec => [][OwnersStay => WatchersTold]_vars
<1>1. TypeOK /\ MultiInStep /\ MultiTells /\ [Next]_vars => [OwnersStay => WatchersTold]_vars
  BY NextTells, TellsAll DEF WatchersTold
<1> QED
  BY <1>1, AlwaysTells, PTL DEF Spec

(* Where no ephemeral node is asked for, whoever watches is told of every  *)
(* change, by the step that makes it.                                      *)
THEOREM WatchersAlwaysTold == ASSUME OwnedPaths = {} PROVE Spec => WatchersAreTold
<1>1. Spec => []TreesListed
  BY AlwaysListed
<1>2. TreesListed => OwnersStay
  BY DEF TreesListed, Trees, Listed, OwnersStay
<1> QED
  BY <1>1, <1>2, WatchersToldWhileOwnersStay, PTL DEF WatchersAreTold
=============================================================================
