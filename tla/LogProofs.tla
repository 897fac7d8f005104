----------------------------- MODULE LogProofs -----------------------------
(***************************************************************************)
(* Every step of KeeperServer in one form: what it writes and what it does *)
(* to the trees, for all that is proved of the log, the trees, the restart *)
(* and the sessions.  With it: the log is ordered while no sync fails, and *)
(* what was acknowledged is in it, Close excepted.  Three invariants carry *)
(* the proofs: a staged Multi holds the zxid after the live one and its    *)
(* sessions (MultiInStep), all that is logged was asked for (LogKnown), and*)
(* the buffer continues the segments (LogInv).                             *)
(***************************************************************************)
EXTENDS KeeperProofs

-----------------------------------------------------------------------------
(* Only next_zxid and the replay of a record change last_zxid. *)
LEMMA SameZxid ==
  ASSUME NEW S \in Storage, NEW s \in Sid
  PROVE  /\ S.zxid \in Nat /\ Bump(S).zxid = S.zxid + 1 /\ Touch(S, s).zxid = S.zxid
         /\ OpenSession(S).zxid = S.zxid /\ RestoreSession(S, s).zxid = S.zxid
         /\ DropSession(S, s).zxid = S.zxid
         /\ \A D : Remove(S, D).zxid = S.zxid
         /\ \A p : TryDelete(S, p).zxid = S.zxid
         /\ \A p, d : SetData(S, p, d).zxid = S.zxid
         /\ \A op : Create(S, op, s).zxid = S.zxid
         /\ \A owner, p : RemoveEphemeral(S, owner, p).zxid = S.zxid
         /\ \A p, type : Notify(S, p, type).zxid = S.zxid
<1>1. S.zxid \in Nat
  BY DEF Storage
<1>2. Bump(S).zxid = S.zxid + 1 /\ Touch(S, s).zxid = S.zxid
  BY DEF Bump, Touch, Storage
<1>3. OpenSession(S).zxid = S.zxid /\ RestoreSession(S, s).zxid = S.zxid
  BY DEF OpenSession, RestoreSession, Storage
<1>4. DropSession(S, s).zxid = S.zxid
  BY DEF DropSession, Storage
<1>5. \A D : Remove(S, D).zxid = S.zxid
  BY DEF Remove, Storage
<1>6. \A p : TryDelete(S, p).zxid = S.zxid
  BY <1>5 DEF TryDelete
<1>7. \A p, d : SetData(S, p, d).zxid = S.zxid
  BY DEF SetData, Storage
<1>8. \A op : Create(S, op, s).zxid = S.zxid
  BY DEF Create, Storage
<1>9. \A owner, p : RemoveEphemeral(S, owner, p).zxid = S.zxid
  BY DEF RemoveEphemeral, Storage
<1>10. \A p, type : Notify(S, p, type).zxid = S.zxid
  BY DEF Notify, Storage
<1> QED
  BY <1>1, <1>2, <1>3, <1>4, <1>5, <1>6, <1>7, <1>8, <1>9, <1>10

-----------------------------------------------------------------------------
(* Steps in one form.  What the proofs about the log, the tree, its        *)
(* restart and the sessions ask of a step is what it does to the tree, the *)
(* index and the zxid, and what it writes.  Two storages are alike if they *)
(* differ at most in their sessions, their deadlines and their watches.    *)
Like(T, S) == T.map = S.map /\ T.eph = S.eph /\ T.zxid = S.zxid
Kin(T, S) == T.alive = S.alive /\ T.next = S.next

At(S, z) == [S EXCEPT !.zxid = z]

MultiInStep ==
  /\ phase = "up" /\ multi # NoMulti =>
       multi.staged.zxid = st.zxid + 1 /\ Kin(multi.staged, st)
  /\ phase = "replaying" => multi = NoMulti

LEMMA LikeTrans ==
  /\ \A S, T, U : Like(T, S) /\ Like(U, T) => Like(U, S)
  /\ \A S, T, U : Kin(T, S) /\ Kin(U, T) => Kin(U, S)
  /\ \A S, T : Like(T, S) => Like(S, T)
  /\ \A S : Like(S, S) /\ Kin(S, S)
BY DEF Like, Kin

LEMMA AtType ==
  ASSUME NEW S \in Storage, NEW z \in Nat
  PROVE  /\ At(S, z) \in Storage /\ At(S, z).zxid = z /\ Kin(At(S, z), S)
         /\ At(S, z).map = S.map /\ At(S, z).eph = S.eph
         /\ z = S.zxid => At(S, z) = S
BY DEF At, Storage, Kin

LEMMA BumpIsAt ==
  ASSUME NEW S \in Storage
  PROVE  Bump(S) = At(S, S.zxid + 1) /\ S.zxid + 1 \in Nat /\ S.zxid \in Nat
<1>1. S.zxid \in Nat
  BY DEF Storage
<1>2. S.zxid + 1 \in Nat
  BY <1>1
<1> QED
  BY <1>1, <1>2 DEF Bump, At

LEMMA SameMaps ==
  ASSUME NEW S \in Storage, NEW s \in Sid
  PROVE  /\ Bump(S).map = S.map /\ Bump(S).eph = S.eph
         /\ Touch(S, s).map = S.map /\ Touch(S, s).eph = S.eph
         /\ OpenSession(S).map = S.map /\ OpenSession(S).eph = S.eph
         /\ RestoreSession(S, s).map = S.map /\ RestoreSession(S, s).eph = S.eph
         /\ DropSession(S, s).map = S.map
<1>1. Bump(S).map = S.map /\ Bump(S).eph = S.eph
  BY DEF Bump, Storage
<1>2. Touch(S, s).map = S.map /\ Touch(S, s).eph = S.eph
  BY DEF Touch, Storage
<1>3. OpenSession(S).map = S.map /\ OpenSession(S).eph = S.eph
  BY DEF OpenSession, Storage
<1>4. RestoreSession(S, s).map = S.map /\ RestoreSession(S, s).eph = S.eph
  BY DEF RestoreSession, Storage
<1>5. DropSession(S, s).map = S.map
  BY DEF DropSession, Storage
<1> QED
  BY <1>1, <1>2, <1>3, <1>4, <1>5

(* Deadlines and watches are all that touching and notifying change.       *)
LEMMA LikeSame ==
  ASSUME NEW S \in Storage, NEW s \in Sid
  PROVE  /\ Like(Touch(S, s), S) /\ Kin(Touch(S, s), S)
         /\ Like(Bump(Touch(S, s)), Bump(S)) /\ Kin(Bump(Touch(S, s)), S)
         /\ \A p, type : Like(Notify(S, p, type), S) /\ Kin(Notify(S, p, type), S)
         /\ \A ws : Like([S EXCEPT !.watch = ws], S) /\ Kin([S EXCEPT !.watch = ws], S)
<1>1. Like(Touch(S, s), S) /\ Kin(Touch(S, s), S)
  BY DEF Like, Kin, Touch, Storage
<1>2. Like(Bump(Touch(S, s)), Bump(S)) /\ Kin(Bump(Touch(S, s)), S)
  BY DEF Like, Kin, Bump, Touch, Storage
<1>3. \A p, type : Like(Notify(S, p, type), S) /\ Kin(Notify(S, p, type), S)
  BY DEF Like, Kin, Notify, Storage
<1>4. \A ws : Like([S EXCEPT !.watch = ws], S) /\ Kin([S EXCEPT !.watch = ws], S)
  BY DEF Like, Kin, Storage
<1> QED
  BY <1>1, <1>2, <1>3, <1>4

(* Every operation of the tree takes alike to alike.                       *)
LEMMA SameCreate ==
  ASSUME NEW S, NEW T, T.map = S.map, NEW op
  PROVE  CreatedPath(T, op) = CreatedPath(S, op) /\ CreateError(T, op) = CreateError(S, op)
<1>1. CreatedPath(T, op) = CreatedPath(S, op)
  BY DEF CreatedPath
<1> QED
  BY <1>1 DEF CreateError, Exists

LEMMA LikeCreate ==
  ASSUME NEW S \in Storage, NEW T \in Storage, Like(T, S), NEW op, NEW s \in Sid
  PROVE  Like(Create(T, op, s), Create(S, op, s))
<1>1. CreatedPath(T, op) = CreatedPath(S, op)
  BY SameCreate DEF Like
<1>3. Create(T, op, s).map = Create(S, op, s).map
  BY <1>1 DEF Like, Create, Storage
<1>4. Create(T, op, s).eph = Create(S, op, s).eph
  BY <1>1 DEF Like, Create, Storage
<1>5. Create(T, op, s).zxid = Create(S, op, s).zxid
  BY DEF Like, Create, Storage
<1> QED
  BY <1>3, <1>4, <1>5 DEF Like

LEMMA LikeSetData ==
  ASSUME NEW S \in Storage, NEW T \in Storage, Like(T, S), NEW p, NEW d
  PROVE  Like(SetData(T, p, d), SetData(S, p, d))
BY DEF Like, SetData, Storage

LEMMA LikeRemove ==
  ASSUME NEW S \in Storage, NEW T \in Storage, Like(T, S), NEW D
  PROVE  Like(Remove(T, D), Remove(S, D))
BY DEF Like, Remove, Storage, Exists

LEMMA LikeUnindex ==
  ASSUME NEW S \in Storage, NEW T \in Storage, Like(T, S), NEW owner, NEW p
  PROVE  Like(RemoveEphemeral(T, owner, p), RemoveEphemeral(S, owner, p))
BY DEF Like, RemoveEphemeral, Storage

LEMMA LikeTryDelete ==
  ASSUME NEW S \in Storage, NEW T \in Storage, Like(T, S), NEW p
  PROVE  /\ Deletable(T, p) <=> Deletable(S, p)
         /\ Like(TryDelete(T, p), TryDelete(S, p))
<1>1. Deletable(T, p) <=> Deletable(S, p)
  BY DEF Like, Deletable, Exists
<1> QED
  BY <1>1, LikeRemove DEF TryDelete

LEMMA LikeDrop ==
  ASSUME NEW S \in Storage, NEW T \in Storage, Like(T, S), NEW s \in Sid
  PROVE  Like(DropSession(T, s), DropSession(S, s))
BY DEF Like, DropSession, Storage

(* The order of the loop is the same whatever else the storage holds. *)
LEMMA SameReapable ==
  ASSUME NEW S, NEW T, T.map = S.map, NEW paths
  PROVE  Reapable(T, paths) = Reapable(S, paths)
<1>1. \A p : Exists(T, p) <=> Exists(S, p)
  BY DEF Exists
<1>2. \A p : Deletable(T, p) <=> Deletable(S, p)
  BY <1>1 DEF Deletable
<1>3. \A p : ChildPaths(T, p) = ChildPaths(S, p)
  BY <1>1 DEF ChildPaths
<1> QED
  BY <1>1, <1>2, <1>3 DEF Reapable

(* What the operations leave of the sessions.                              *)
LEMMA SameKin ==
  ASSUME NEW S \in Storage, NEW s \in Sid
  PROVE  /\ \A D : Kin(Remove(S, D), S)
         /\ \A p : Kin(TryDelete(S, p), S)
         /\ \A p, d : Kin(SetData(S, p, d), S)
         /\ \A op : Kin(Create(S, op, s), S)
         /\ \A owner, p : Kin(RemoveEphemeral(S, owner, p), S)
<1>1. \A D : Kin(Remove(S, D), S)
  BY DEF Remove, Storage, Kin
<1>2. \A p : Kin(TryDelete(S, p), S)
  BY <1>1 DEF TryDelete, Kin
<1>3. \A p, d : Kin(SetData(S, p, d), S)
  BY DEF SetData, Storage, Kin
<1>4. \A op : Kin(Create(S, op, s), S)
  BY DEF Create, Storage, Kin
<1>5. \A owner, p : Kin(RemoveEphemeral(S, owner, p), S)
  BY DEF RemoveEphemeral, Storage, Kin
<1> QED
  BY <1>1, <1>2, <1>3, <1>4, <1>5

-----------------------------------------------------------------------------
(* What is asked for, on its own or within a Multi, and what that can put  *)
(* in the log.                                                             *)
Alone(op) == {r \in Requests : r.op = op}
Staged == UNION {{r.ops[i] : i \in DOMAIN r.ops} : r \in Alone("multi")}
Within(op) == {r \in Staged : r.op = op}
Asked(op) == Alone(op) \cup Within(op)

Loggable ==
  {LogCreate(r, s) : r \in {q \in Asked("create") : q.path \in Proper}, s \in Sid}
  \cup {LogSet(r) : r \in Asked("set")}
  \cup {LogDelete(r) : r \in Alone("delete")}
  \cup {LogMultiDelete(r) : r \in Within("delete")}
  \cup SessionPrim

LEMMA AskedType ==
  /\ Staged \subseteq MultiOp
  /\ Asked("create") \subseteq CreateOp /\ Asked("set") \subseteq SetOp
  /\ \A r \in Asked("delete") : r.path \in Path
<1>1. \A r \in Alone("multi") : r.ops \in Seq(MultiOp)
  BY RequestType DEF Alone, MultiRequest
<1>2. Staged \subseteq MultiOp
  <2> SUFFICES ASSUME NEW r \in Alone("multi"), NEW i \in DOMAIN r.ops PROVE r.ops[i] \in MultiOp
    BY DEF Staged
  <2>1. DOMAIN r.ops = 1 .. Len(r.ops)
    BY <1>1, LenProperties
  <2> QED
    BY <1>1, <2>1, ElementOfSeq
<1>3. Asked("create") \subseteq CreateOp /\ Asked("set") \subseteq SetOp
  BY <1>2, RequestType, MultiOpType DEF Asked, Alone, Within
<1>4. \A r \in Asked("delete") : r.path \in Path
  BY <1>2, RequestType, MultiOpType DEF Asked, Alone, Within, DeleteOp
<1> QED
  BY <1>2, <1>3, <1>4

LEMMA LoggableType == Loggable \subseteq Primitive
<1>1. ASSUME NEW r \in Asked("create"), r.path \in Proper, NEW s \in Sid
      PROVE  LogCreate(r, s) \in Primitive
  BY <1>1, AskedType DEF LogCreate, Primitive, CreatePrim, CreateOp
<1>2. \A r \in Asked("set") : LogSet(r) \in Primitive
  BY AskedType DEF LogSet, Primitive, SetPrim, SetOp
<1>3. \A r \in Asked("delete") : LogDelete(r) \in Primitive /\ LogMultiDelete(r) \in Primitive
  BY AskedType DEF LogDelete, LogMultiDelete, Primitive, DeletePrim
<1> QED
  BY <1>1, <1>2, <1>3 DEF Loggable, Asked, Primitive

(* What a primitive of the log is the record of, by its opcode.            *)
LEMMA LoggableOp ==
  ASSUME NEW prim \in Loggable
  PROVE  /\ prim.op = "create" =>
              \E r \in Asked("create") : /\ prim = LogCreate(r, prim.sid) /\ r.path \in Proper
                                         /\ prim.sid \in Sid
         /\ prim.op = "delete" => \E r \in Alone("delete") : prim = LogDelete(r)
         /\ prim.op = "multi_delete" => \E r \in Within("delete") : prim = LogMultiDelete(r)
<1> DEFINE C == {LogCreate(r, s) : r \in {q \in Asked("create") : q.path \in Proper}, s \in Sid}
           E == {LogSet(r) : r \in Asked("set")}
           D == {LogDelete(r) : r \in Alone("delete")}
           M == {LogMultiDelete(r) : r \in Within("delete")}
<1>1. \A x \in C : x.op = "create"
  BY DEF LogCreate
<1>2. \A x \in E : x.op = "set"
  BY DEF LogSet
<1>3. (\A x \in D : x.op = "delete") /\ \A x \in M : x.op = "multi_delete"
  BY DEF LogDelete, LogMultiDelete
<1>4. \A x \in SessionPrim : x.op \in {"open", "close"}
  BY DEF SessionPrim
<1>5. prim \in C \cup E \cup D \cup M \cup SessionPrim
  BY DEF Loggable
<1>6. \A x \in C : \E r \in Asked("create") :
        x = LogCreate(r, x.sid) /\ r.path \in Proper /\ x.sid \in Sid
  BY DEF LogCreate
<1>7. /\ \A x \in D : \E r \in Alone("delete") : x = LogDelete(r)
      /\ \A x \in M : \E r \in Within("delete") : x = LogMultiDelete(r)
  OBVIOUS
<1> HIDE DEF C, E, D, M
<1> QED
  BY <1>1, <1>2, <1>3, <1>4, <1>5, <1>6, <1>7

(* T is what carrying out a primitive makes of S.                          *)
Deleted(S, p) == RemoveEphemeral(TryDelete(S, p), S.map[p].owner, p)

Carried(S, prim, T) ==
  \/ /\ prim.op = "create" /\ CreateError(S, prim) = "Ok"
     /\ Like(T, Create(S, prim, prim.sid)) /\ Kin(T, S)
  \/ /\ prim.op = "set" /\ Exists(S, prim.path)
     /\ Like(T, SetData(S, prim.path, prim.data)) /\ Kin(T, S)
  \/ /\ prim.op \in {"delete", "multi_delete"}
     /\ Exists(S, prim.path) /\ S.map[prim.path].children = {}
     /\ prim.op = "multi_delete" => prim.path # Root
     /\ Like(T, Deleted(S, prim.path)) /\ Kin(T, S)
  \/ /\ prim.op = "open"
     /\ Like(T, S) /\ Kin(T, RestoreSession(S, prim.sid))
  \/ /\ prim.op = "close"
     /\ \E D \in Reapable(S, S.eph[prim.sid]) : Like(T, Remove(DropSession(S, prim.sid), D))
     /\ Kin(T, DropSession(S, prim.sid))

(* A create carried out from a request and from its record are one.        *)
LEMMA CreateLogged ==
  ASSUME NEW S \in Storage, NEW op, NEW s \in Sid
  PROVE  /\ LogCreate(op, s).op = "create" /\ LogCreate(op, s).sid = s
         /\ CreateError(S, LogCreate(op, s)) = CreateError(S, op)
         /\ CreatedPath(S, LogCreate(op, s)) = CreatedPath(S, op)
         /\ Create(S, LogCreate(op, s), s) = Create(S, op, s)
<1>1. /\ LogCreate(op, s).op = "create" /\ LogCreate(op, s).sid = s
      /\ LogCreate(op, s).path = op.path /\ LogCreate(op, s).data = op.data
      /\ LogCreate(op, s).eph = op.eph /\ LogCreate(op, s).seq = op.seq
  BY DEF LogCreate
<1>2. CreatedPath(S, LogCreate(op, s)) = CreatedPath(S, op)
  BY <1>1 DEF CreatedPath
<1>3. CreateError(S, LogCreate(op, s)) = CreateError(S, op)
  BY <1>1, <1>2 DEF CreateError
<1>4. NewNode(LogCreate(op, s), s, S.zxid) = NewNode(op, s, S.zxid)
  BY <1>1 DEF NewNode
<1> QED
  BY <1>1, <1>2, <1>3, <1>4 DEF Create

-----------------------------------------------------------------------------
(* What a step of a server that is up comes to.  It answers, with nothing  *)
(* written: the tree is left alone (Quiet), or the session closes (Left).  *)
(* Or it writes one primitive under the next zxid, which is the storage's  *)
(* from then on: it is carried out (Done), or it is not, because the flush *)
(* failed or because the tree refused a create that had been written (Late)*)
(* and the answer is an error (Refused).                                   *)
Idle ==
  /\ phase = "up" /\ multi = NoMulti
  /\ phase' = "up" /\ multi' = NoMulti /\ UNCHANGED replay

Quiet == Idle /\ UNCHANGED log /\ Like(st', st) /\ Kin(st', st)

Left ==
  /\ Idle /\ UNCHANGED log /\ reply' = "Ok"
  /\ Alone("close") # {}
  /\ \E s \in Sid : Carried(st, LogClose(s), st')

Next1(prim) == Rec(st.zxid + 1, <<prim>>)

Late(prim) ==
  \E op \in Alone("create"), s \in Sid :
    prim = LogCreate(op, s) /\ CreatePrecheck(op) = "Ok" /\ CreateError(st, op) # "Ok"

Refused(prim) ==
  /\ Idle /\ reply' \notin {"Ok", "none"} /\ prim.op \notin {"open", "close"}
  /\ Like(st', Bump(st)) /\ Kin(st', st)
  /\ FlushFails(Next1(prim)) \/ (FlushOk(Next1(prim)) /\ Late(prim))

Done(prim) ==
  /\ Idle /\ Carried(Bump(st), prim, st')
  /\ \/ FlushOk(Next1(prim)) /\ reply' \in {"Ok", "none"}
     \/ FlushFails(Next1(prim)) /\ reply' = "none" /\ prim \in SessionPrim

(* A create is sent by a session that is connected; an open is of the next *)
(* session and a close of one that was found expired.                      *)
Sent(prim) ==
  /\ prim.op = "create" => prim.sid \in conns
  /\ prim.op = "open" => prim.sid = st.next
  /\ prim.op = "close" => prim.sid \in doomed

Wrote == \E prim \in Loggable : Sent(prim) /\ (Refused(prim) \/ Done(prim))

LEMMA RespondQuiet ==
  ASSUME NEW s \in Sid, Ready(s), NEW S, Like(S, st), Kin(S, st), NEW err, NEW evs,
         Respond(S, err, evs)
  PROVE  Quiet
BY DEF Ready, Respond, Quiet, Idle, replay

LEMMA TouchQuiet ==
  ASSUME TypeOK, NEW s \in Sid, Ready(s), NEW err, NEW evs, Respond(Touch(st, s), err, evs)
  PROVE  Quiet
BY TouchedType, LikeSame, RespondQuiet

LEMMA LogThenApplyWrites ==
  ASSUME TypeOK, NEW s \in Sid, Ready(s), NEW prim \in Loggable, Sent(prim),
         prim.op \notin {"open", "close"}, NEW S, NEW err, NEW evs, LogThenApply(s, prim, S, err, evs),
         \/ Carried(Bump(st), prim, S) /\ err = "Ok"
         \/ Late(prim) /\ S = Bump(Touch(st, s)) /\ err = "BadArguments"
  PROVE  Wrote
<1> DEFINE now == Bump(Touch(st, s))
<1>1. Like(now, Bump(st)) /\ Kin(now, st)
  BY LikeSame DEF TypeOK
<1>2. Idle
  BY DEF LogThenApply, Idle, Ready, replay
<1>3. CASE FlushOk(Next1(prim)) /\ st' = S /\ Answer(err, evs)
  BY <1>1, <1>2, <1>3 DEF Refused, Done, Wrote, Answer
<1>4. CASE FlushFails(Next1(prim)) /\ st' = now /\ Answer("SystemError", {})
  BY <1>1, <1>2, <1>4 DEF Refused, Wrote, Answer
<1> QED
  BY <1>3, <1>4 DEF LogThenApply, Next1

(* The clone a handler works on is like the live storage, one zxid on.     *)
LEMMA TouchedLike ==
  ASSUME TypeOK, NEW s \in Sid
  PROVE  /\ Bump(st) \in Storage /\ Bump(Touch(st, s)) \in Storage
         /\ Like(Bump(Touch(st, s)), Bump(st)) /\ Kin(Bump(Touch(st, s)), Bump(st))
         /\ Bump(st).map = st.map /\ Bump(st).eph = st.eph
<1>1. st \in Storage /\ Bump(st) \in Storage /\ Bump(Touch(st, s)) \in Storage
  BY TouchedType, BumpType DEF TypeOK
<1>2. Kin(Bump(st), st)
  BY <1>1, BumpIsAt, AtType
<1> QED
  BY <1>1, <1>2, LikeSame, SameMaps DEF Kin

LEMMA HandleCreateSteps ==
  ASSUME TypeOK, NEW s \in Sid, NEW op \in Requests, HandleCreate(s, op)
  PROVE  Quiet \/ Wrote
<1> DEFINE now == Bump(Touch(st, s))
           made == CreatedPath(now, op)
           after == Notify(Create(now, op, s), made, "Created")
           prim == LogCreate(op, s)
<1>1. now \in Storage /\ Like(now, Bump(st)) /\ Kin(now, Bump(st)) /\ Bump(st) \in Storage /\ Ready(s)
  BY TouchedLike DEF HandleCreate
<1>2. CASE Respond(Touch(st, s), CreatePrecheck(op), {})
  BY <1>1, <1>2, TouchQuiet
<1>0. Sent(prim) /\ prim.op \notin {"open", "close"}
  BY <1>1 DEF Sent, LogCreate, Ready
<1>3. ASSUME CreatePrecheck(op) = "Ok" PROVE prim \in Loggable
  <2>1. op.path \in Proper /\ op \in Asked("create")
    BY <1>3 DEF CreatePrecheck, HandleCreate, Asked, Alone
  <2> QED
    BY <2>1 DEF Loggable
<1>4. CASE /\ CreatePrecheck(op) = "Ok" /\ CreateError(now, op) # "Ok"
           /\ LogThenApply(s, prim, now, "BadArguments", {})
  <2>1. CreateError(st, op) = CreateError(now, op)
    BY <1>1, TouchedLike, SameCreate DEF Like
  <2>2. Late(prim)
    BY <1>4, <2>1 DEF Late, Alone, HandleCreate
  <2> QED
    BY <1>1, <1>3, <1>4, <1>0, <2>2, LogThenApplyWrites
<1>5. CASE /\ CreatePrecheck(op) = "Ok" /\ CreateError(now, op) = "Ok"
           /\ LogThenApply(s, prim, after, "Ok", FireEvents(now.watch, made, "Created"))
  <2>1. Creates(op)
    BY RequestType DEF HandleCreate
  <2>2. Create(now, op, s) \in Storage
    BY <1>1, <1>5, <2>1, CreateType
  <2>3. Like(after, Create(now, op, s)) /\ Kin(after, Create(now, op, s))
    BY <2>2, LikeSame
  <2>4. Like(Create(now, op, s), Create(Bump(st), op, s)) /\ Kin(Create(now, op, s), now)
    BY <1>1, LikeCreate, SameKin
  <2>5. CreateError(Bump(st), op) = "Ok"
    BY <1>1, <1>5, SameCreate DEF Like
  <2>6. Carried(Bump(st), prim, after)
    BY <1>1, <2>3, <2>4, <2>5, CreateLogged, LikeTrans DEF Carried
  <2> QED
    BY <1>1, <1>3, <1>5, <1>0, <2>6, LogThenApplyWrites
<1> QED
  BY <1>2, <1>4, <1>5 DEF HandleCreate

LEMMA HandleSetSteps ==
  ASSUME TypeOK, NEW s \in Sid, NEW op \in Requests, HandleSet(s, op)
  PROVE  Quiet \/ Wrote
<1> DEFINE now == Bump(Touch(st, s))
           after == Notify(SetData(now, op.path, op.data), op.path, "Changed")
           prim == LogSet(op)
<1>1. now \in Storage /\ Like(now, Bump(st)) /\ Kin(now, Bump(st)) /\ Bump(st) \in Storage /\ Ready(s)
  BY TouchedLike DEF HandleSet
<1>2. CASE Respond(Touch(st, s), VersionError(st, op), {})
  BY <1>1, <1>2, TouchQuiet
<1>3. CASE /\ VersionError(st, op) = "Ok"
           /\ LogThenApply(s, prim, after, "Ok", FireEvents(now.watch, op.path, "Changed"))
  <2>1. op.path \in Path /\ op.data \in Data
    BY RequestType DEF HandleSet, SetOp
  <2>2. Exists(st, op.path)
    BY <1>3 DEF VersionError
  <2>3. Exists(now, op.path) /\ Exists(Bump(st), op.path)
    BY <1>1, <2>2, TouchedLike DEF Exists, Like
  <2>4. SetData(now, op.path, op.data) \in Storage
    BY <1>1, <2>1, <2>3, SetDataType
  <2>5. /\ Like(after, SetData(now, op.path, op.data)) /\ Kin(after, SetData(now, op.path, op.data))
        /\ Like(SetData(now, op.path, op.data), SetData(Bump(st), op.path, op.data))
        /\ Kin(SetData(now, op.path, op.data), now)
    BY <1>1, <2>4, LikeSame, LikeSetData, SameKin
  <2>6. prim.op = "set" /\ prim.path = op.path /\ prim.data = op.data /\ prim \in Loggable
        /\ Sent(prim)
    BY DEF LogSet, Loggable, Asked, Alone, HandleSet, Sent
  <2>7. Carried(Bump(st), prim, after)
    BY <1>1, <2>3, <2>5, <2>6, LikeTrans DEF Carried
  <2> QED
    BY <1>1, <1>3, <2>6, <2>7, LogThenApplyWrites
<1> QED
  BY <1>2, <1>3 DEF HandleSet

LEMMA HandleDeleteSteps ==
  ASSUME TypeOK, NEW s \in Sid, NEW op \in Requests, HandleDelete(s, op)
  PROVE  Quiet \/ Wrote
<1> DEFINE now == Bump(Touch(st, s))
           owner == st.map[op.path].owner
           left == RemoveEphemeral(TryDelete(now, op.path), owner, op.path)
           after == Notify(left, op.path, "Deleted")
           prim == LogDelete(op)
<1>1. /\ now \in Storage /\ Like(now, Bump(st)) /\ Kin(now, Bump(st)) /\ Bump(st) \in Storage
      /\ Bump(st).map = st.map /\ Ready(s)
  BY TouchedLike DEF HandleDelete
<1>2. CASE Respond(Touch(st, s), DeletePrecheck(op), {})
  BY <1>1, <1>2, TouchQuiet
<1>3. CASE /\ DeletePrecheck(op) = "Ok"
           /\ LogThenApply(s, prim, after, "Ok", FireEvents(now.watch, op.path, "Deleted"))
  <2>1. op.path \in Path /\ Exists(st, op.path) /\ st.map[op.path].children = {}
    BY <1>3, RequestType DEF HandleDelete, DeleteOp, DeletePrecheck, VersionError
  <2>2. owner \in Sid \cup {NoOwner}
    BY <2>1, ExistingType DEF TypeOK
  <2>3. TryDelete(now, op.path) \in Storage /\ left \in Storage /\ TryDelete(Bump(st), op.path) \in Storage
    BY <1>1, <2>1, <2>2, TryDeleteType, RemoveEphemeralType
  <2>4. Like(after, left) /\ Kin(after, left)
    BY <2>3, LikeSame
  <2>5. Like(left, Deleted(Bump(st), op.path))
    BY <1>1, <2>3, LikeTryDelete, LikeUnindex DEF Deleted
  <2>6. Kin(left, now)
    BY <1>1, <2>3, SameKin, LikeTrans
  <2>7. prim.op = "delete" /\ prim.path = op.path /\ Sent(prim)
    BY DEF LogDelete, Sent
  <2>8. prim \in Loggable
    BY DEF Loggable, Alone, HandleDelete
  <2>9. Exists(Bump(st), op.path) /\ Bump(st).map[op.path].children = {}
    BY <1>1, <2>1 DEF Exists
  <2>10. Like(after, Deleted(Bump(st), op.path)) /\ Kin(after, Bump(st))
    BY <1>1, <2>4, <2>5, <2>6, LikeTrans
  <2>11. Carried(Bump(st), prim, after)
    BY <2>7, <2>9, <2>10 DEF Carried
  <2> QED
    BY <1>1, <1>3, <2>7, <2>8, <2>11, LogThenApplyWrites
<1> QED
  BY <1>2, <1>3 DEF HandleDelete

LEMMA HandleReadSteps ==
  ASSUME TypeOK, NEW s \in Sid, NEW req \in Requests, HandleRead(s, req)
  PROVE  Quiet
<1> DEFINE now == Touch(st, s)
           w == <<req.path, req.op>>
           after == IF req.watch THEN [now EXCEPT !.watch = Register(@, s, w)] ELSE now
<1>1. now \in Storage /\ Like(now, st) /\ Kin(now, st)
  BY TouchedType, LikeSame
<1>2. Like(after, st) /\ Kin(after, st)
  BY <1>1, LikeSame, LikeTrans
<1>3. Respond(after, IF Exists(st, req.path) THEN "Ok" ELSE "NoNode", {}) /\ Ready(s)
  BY DEF HandleRead
<1> QED
  BY <1>2, <1>3, RespondQuiet

LEMMA HandlePlainSteps ==
  ASSUME TypeOK, NEW s \in Sid, NEW req \in Requests, HandlePlain(s, req)
  PROVE  Quiet
<1>1. PICK err : Respond(Touch(st, s), err, {})
  BY DEF HandlePlain
<1>2. Ready(s)
  BY DEF HandlePlain
<1> QED
  BY <1>1, <1>2, TouchQuiet

(* A session that ends, on a storage like S.                               *)
LEMMA ClosedLike ==
  ASSUME NEW S \in Storage, NEW T \in Storage, Like(T, S), Kin(T, S), NEW s \in Sid,
         NEW D \in Reapable(S, S.eph[s]), NEW U, Like(U, Remove(DropSession(T, s), D)),
         Kin(U, Remove(DropSession(T, s), D))
  PROVE  Carried(S, LogClose(s), U)
<1> DEFINE drop == DropSession(S, s)
           droq == DropSession(T, s)
<1>1. drop \in Storage /\ droq \in Storage /\ Like(droq, drop)
  BY DropSessionType, LikeDrop
<1>2. Kin(droq, drop)
  BY DEF DropSession, Storage, Kin
<1>3. Like(Remove(droq, D), Remove(drop, D)) /\ Kin(Remove(droq, D), droq)
  BY <1>1, LikeRemove, SameKin
<1>4. Like(U, Remove(drop, D)) /\ Kin(U, drop)
  BY <1>2, <1>3, LikeTrans
<1>5. LogClose(s).op = "close" /\ LogClose(s).sid = s
  BY DEF LogClose
<1> HIDE DEF drop
<1> QED
  BY <1>4, <1>5 DEF Carried, drop

LEMMA HandleCloseSteps ==
  ASSUME TypeOK, NEW s \in Sid, NEW req \in Requests, HandleClose(s, req)
  PROVE  Left
<1>1. PICK D \in Reapable(st, st.eph[s]) :
        st' = [Remove(DropSession(Touch(st, s), s), D) EXCEPT !.watch = Clear(@, s)]
  BY DEF HandleClose
<1> DEFINE now == Touch(st, s)
           left == Remove(DropSession(now, s), D)
<1>2. st \in Storage /\ now \in Storage /\ Like(now, st) /\ Kin(now, st)
  BY TouchedType, LikeSame
<1>3. D \in SUBSET Path
  BY <1>2, ReapableType DEF Storage
<1>4. left \in Storage
  BY <1>2, <1>3, DropSessionType, RemoveType
<1>5. Like(st', left) /\ Kin(st', left)
  BY <1>1, <1>4, LikeSame
<1>6. Carried(st, LogClose(s), st')
  BY <1>2, <1>5, ClosedLike
<1>7. req \in Alone("close")
  BY DEF HandleClose, Alone
<1> QED
  BY <1>6, <1>7 DEF HandleClose, Ready, Left, Idle, Answer, replay

LEMMA ConnectSteps == ASSUME TypeOK, Connect PROVE Done(LogOpen(st.next)) /\ st.next \in Sid
<1>1. st.next \in Sid
  <2>1. st.next \in Nat \ {0} /\ st.next <= MaxSession
    BY DEF TypeOK, Storage, Connect
  <2> QED
    BY <2>1, BoundAssumption DEF Sid
<1>2. st \in Storage /\ Bump(st) \in Storage /\ OpenSession(st) \in Storage
  BY <1>1, OpenSessionType, BumpType DEF TypeOK
<1>3. Like(Bump(OpenSession(st)), Bump(st))
  BY <1>2 DEF Like, Bump, OpenSession, Storage
<1>4. Kin(Bump(OpenSession(st)), RestoreSession(Bump(st), st.next))
  <2>1. st.next \in Nat
    BY <1>2 DEF Storage
  <2>2. st.next >= st.next
    BY <2>1
  <2> QED
    BY <1>2, <2>2 DEF Kin, Bump, OpenSession, RestoreSession, Storage
<1>5. LogOpen(st.next).op = "open" /\ LogOpen(st.next).sid = st.next /\ LogOpen(st.next) \in SessionPrim
  BY <1>1 DEF LogOpen, SessionPrim
<1>6. Carried(Bump(st), LogOpen(st.next), st')
  BY <1>3, <1>4, <1>5 DEF Connect, Carried
<1> QED
  BY <1>1, <1>5, <1>6 DEF Connect, Answer, LogAnyway, Done, Next1, Idle, replay

LEMMA CloseExpiredSteps == ASSUME TypeOK, NEW s \in Sid, CloseExpired(s) PROVE Done(LogClose(s))
<1>1. PICK D \in Reapable(st, st.eph[s]) : st' = Remove(DropSession(Bump(st), s), D)
  BY DEF CloseExpired
<1>2. st \in Storage /\ Bump(st) \in Storage /\ Bump(st).map = st.map /\ Bump(st).eph = st.eph
  BY BumpType, SameMaps DEF TypeOK
<1>3. D \in Reapable(Bump(st), Bump(st).eph[s])
  BY <1>1, <1>2, SameReapable
<1>4. Like(st', Remove(DropSession(Bump(st), s), D)) /\ Kin(st', Remove(DropSession(Bump(st), s), D))
  BY <1>1, LikeTrans
<1>5. Carried(Bump(st), LogClose(s), st')
  BY <1>2, <1>3, <1>4, ClosedLike, LikeTrans
<1>6. LogClose(s) \in SessionPrim
  BY DEF LogClose, SessionPrim
<1> QED
  BY <1>5, <1>6 DEF CloseExpired, Answer, LogAnyway, Done, Next1, Idle, replay

(* All that is served, and the session events, in one.                     *)
LEMMA ServeSteps ==
  ASSUME TypeOK, NEW s \in Sid, NEW req \in Requests, Serve(s, req)
  PROVE  BeginMulti(s, req) \/ Quiet \/ Left \/ Wrote
BY HandleCreateSteps, HandleSetSteps, HandleDeleteSteps, HandleReadSteps, HandlePlainSteps,
   HandleCloseSteps DEF Serve

LEMMA SessionSteps ==
  ASSUME TypeOK, Connect \/ \E s \in Sid : CloseExpired(s) PROVE Wrote
<1>1. SessionPrim \subseteq Loggable
  BY DEF Loggable
<1>2. \A s \in Sid : LogOpen(s) \in SessionPrim /\ LogClose(s) \in SessionPrim
  BY DEF LogOpen, LogClose, SessionPrim
<1>3. /\ Sent(LogOpen(st.next))
      /\ \A s \in doomed : Sent(LogClose(s))
  BY DEF Sent, LogOpen, LogClose
<1> QED
  BY <1>1, <1>2, <1>3, ConnectSteps, CloseExpiredSteps DEF Wrote, CloseExpired

-----------------------------------------------------------------------------
(* A Multi carries its operations out one by one on the clone, as they     *)
(* will be logged; a Check leaves the clone as it is, and no record.       *)
LEMMA DeletedType ==
  ASSUME NEW S \in Storage, NEW p \in Path, Exists(S, p)
  PROVE  Deleted(S, p) \in Storage /\ Kin(Deleted(S, p), S) /\ Deleted(S, p).zxid = S.zxid
<1>1. TryDelete(S, p) \in Storage /\ S.map[p].owner \in Sid \cup {NoOwner}
  BY TryDeleteType, ExistingType
<1>2. Kin(TryDelete(S, p), S) /\ TryDelete(S, p).zxid = S.zxid
  BY DEF TryDelete, Remove, Storage, Kin
<1>3. \A T \in Storage : \A owner : /\ Kin(RemoveEphemeral(T, owner, p), T)
                                  /\ RemoveEphemeral(T, owner, p).zxid = T.zxid
  BY DEF RemoveEphemeral, Storage, Kin
<1> QED
  BY <1>1, <1>2, <1>3, RemoveEphemeralType, LikeTrans DEF Deleted

LEMMA StageCarries ==
  ASSUME NEW S \in Storage, NEW op \in MultiOp, NEW s \in Sid, MultiError(S, op) = "Ok"
  PROVE  /\ Kin(Stage(S, op, s), S)
         /\ \/ Stage(S, op, s) = S /\ StagedLog(op, s) = <<>>
            \/ \E prim \in Primitive : /\ StagedLog(op, s) = <<prim>>
                                       /\ op \in Staged => prim \in Loggable
                                       /\ Carried(S, prim, Stage(S, op, s))
<1>1. CASE op.op = "create"
  <2> DEFINE prim == LogCreate(op, s)
             T == Create(S, op, s)
  <2>1. Creates(op) /\ op \in CreateOp /\ CreateError(S, op) = "Ok"
    BY <1>1, MultiOpType DEF MultiError
  <2>2. op.path \in Proper /\ T \in Storage
    BY <2>1, CreateType DEF CreateError
  <2>3. Like(Stage(S, op, s), T) /\ Kin(Stage(S, op, s), T) /\ Kin(T, S)
    BY <1>1, <2>2, LikeSame, SameKin DEF Stage
  <2>4. prim \in Primitive
    BY <2>1, <2>2 DEF LogCreate, Primitive, CreatePrim, CreateOp
  <2>5. Carried(S, prim, Stage(S, op, s))
    BY <2>1, <2>3, CreateLogged, LikeTrans DEF Carried
  <2>6. op \in Staged => prim \in Loggable
    BY <1>1, <2>2 DEF Loggable, Asked, Within
  <2> QED
    BY <1>1, <2>3, <2>4, <2>5, <2>6, LikeTrans DEF StagedLog
<1>2. ASSUME op.op \in {"set", "delete"} PROVE op.path \in Path /\ Exists(S, op.path)
  BY <1>2, MultiOpType DEF MultiError, VersionError
<1>3. CASE op.op = "set"
  <2> DEFINE prim == LogSet(op)
             T == SetData(S, op.path, op.data)
  <2>1. op.data \in Data
    BY <1>3, MultiOpType DEF SetOp
  <2>2. T \in Storage
    BY <1>2, <1>3, <2>1, SetDataType
  <2>3. Like(Stage(S, op, s), T) /\ Kin(Stage(S, op, s), T) /\ Kin(T, S)
    BY <1>3, <2>2, LikeSame, SameKin DEF Stage
  <2>4. prim.op = "set" /\ prim.path = op.path /\ prim.data = op.data /\ prim \in Primitive
    BY <1>2, <1>3, <2>1 DEF LogSet, Primitive, SetPrim
  <2>5. Carried(S, prim, Stage(S, op, s))
    BY <1>2, <1>3, <2>3, <2>4, LikeTrans DEF Carried
  <2>6. op \in Staged => prim \in Loggable
    BY <1>3 DEF Loggable, Asked, Within
  <2> QED
    BY <1>3, <2>3, <2>4, <2>5, <2>6, LikeTrans DEF StagedLog
<1>4. CASE op.op = "delete"
  <2> DEFINE prim == LogMultiDelete(op)
             T == Deleted(S, op.path)
  <2>1. op.path # Root /\ S.map[op.path].children = {}
    BY <1>4 DEF MultiError
  <2>2. op.path \in Proper
    BY <1>2, <1>4, <2>1, ExistingType
  <2>3. Remove(S, {op.path}) = TryDelete(S, op.path)
    BY <1>2, <1>4, <2>1, <2>2 DEF TryDelete, Deletable
  <2>4. T \in Storage /\ Kin(T, S)
    BY <1>2, <1>4, DeletedType
  <2>5. Stage(S, op, s) = Notify(T, op.path, "Deleted")
    BY <1>4, <2>3 DEF Stage, Deleted
  <2>6. Like(Stage(S, op, s), T) /\ Kin(Stage(S, op, s), T)
    BY <2>4, <2>5, LikeSame
  <2>7. prim.op = "multi_delete" /\ prim.path = op.path /\ prim \in Primitive
    BY <1>2, <1>4 DEF LogMultiDelete, Primitive, DeletePrim
  <2>8. Carried(S, prim, Stage(S, op, s))
    BY <1>2, <1>4, <2>1, <2>4, <2>6, <2>7, LikeTrans DEF Carried
  <2>9. op \in Staged => prim \in Loggable
    BY <1>4 DEF Loggable, Within
  <2> QED
    BY <1>4, <2>4, <2>6, <2>7, <2>8, <2>9, LikeTrans DEF StagedLog
<1>5. CASE op.op = "check"
  BY <1>5, LikeTrans DEF Stage, StagedLog
<1> QED
  BY <1>1, <1>3, <1>4, <1>5, MultiOpType

(* Replay carries a primitive out as it was, except that the delete of a   *)
(* single operation leaves the index alone.                                *)
Forgetful(S, prim, T) ==
  /\ prim.op = "delete" /\ Deletable(S, prim.path)
  /\ Like(T, Remove(S, {prim.path})) /\ Kin(T, S)

LEMMA ReplayedCarries ==
  ASSUME NEW S \in Storage, NEW prim \in Primitive, CanReplay(S, prim)
  PROVE  LET T == Replayed(S, prim)
         IN  T \in Storage /\ (Carried(S, prim, T) \/ Forgetful(S, prim, T))
<1> DEFINE T == Replayed(S, prim)
<1>1. T \in Storage
  BY ReplayedType
<1>2. CASE prim.op = "create"
  <2>1. T = Create(S, prim, prim.sid) /\ prim.sid \in Sid /\ CreateError(S, prim) = "Ok"
    BY <1>2, PrimitiveType DEF Replayed, CanReplay
  <2> QED
    BY <1>1, <1>2, <2>1, SameKin, LikeTrans DEF Carried
<1>3. CASE prim.op = "set"
  <2>1. T = SetData(S, prim.path, prim.data) /\ Exists(S, prim.path)
    BY <1>3 DEF Replayed, CanReplay
  <2>2. Kin(SetData(S, prim.path, prim.data), S)
    BY DEF SetData, Storage, Kin
  <2> QED
    BY <1>1, <1>3, <2>1, <2>2, LikeTrans DEF Carried
<1>4. ASSUME prim.op \in {"delete", "multi_delete"}
      PROVE  prim.path \in Path /\ Deletable(S, prim.path) /\ prim.path # Root
  BY <1>4, PrimitiveType, PathAssumption DEF CanReplay, Deletable
<1>5. CASE prim.op = "delete"
  <2>1. T = Remove(S, {prim.path}) /\ Kin(Remove(S, {prim.path}), S)
    BY <1>5 DEF Replayed, Remove, Storage, Kin
  <2> QED
    BY <1>1, <1>4, <1>5, <2>1, LikeTrans DEF Forgetful
<1>6. CASE prim.op = "multi_delete"
  <2>1. Exists(S, prim.path) /\ S.map[prim.path].children = {} /\ prim.path \in Path
    BY <1>4, <1>6 DEF Deletable
  <2>2. T = Deleted(S, prim.path)
    BY <1>4, <1>6 DEF Replayed, Deleted, TryDelete
  <2> QED
    BY <1>1, <1>4, <1>6, <2>1, <2>2, DeletedType, LikeTrans DEF Carried
<1>7. CASE prim.op = "open"
  <2>1. T = RestoreSession(S, prim.sid)
    BY <1>7 DEF Replayed
  <2>2. Like(RestoreSession(S, prim.sid), S)
    BY DEF RestoreSession, Storage, Like
  <2> QED
    BY <1>1, <1>7, <2>1, <2>2, LikeTrans DEF Carried
<1>8. CASE prim.op = "close"
  <2> DEFINE drop == DropSession(S, prim.sid)
             D == S.eph[prim.sid]
  <2>1. T = Remove(drop, D) /\ D \in Reapable(S, D) /\ prim.sid \in Sid
    BY <1>8, PrimitiveType DEF Replayed, CanReplay
  <2>2. Kin(Remove(drop, D), drop)
    BY <2>1, DropSessionType, SameKin
  <2> QED
    BY <1>1, <1>8, <2>1, <2>2, LikeTrans DEF Carried
<1> QED
  BY <1>2, <1>3, <1>5, <1>6, <1>7, <1>8, PrimitiveType

(* Nothing that is carried out moves the zxid. *)
LEMMA CarriedZxid ==
  ASSUME NEW S \in Storage, NEW prim \in Primitive, NEW T,
         Carried(S, prim, T) \/ Forgetful(S, prim, T)
  PROVE  T.zxid = S.zxid
<1>1. CASE prim.op = "create" /\ Like(T, Create(S, prim, prim.sid))
  BY <1>1, PrimitiveType, SameZxid DEF Like
<1>2. CASE Like(T, SetData(S, prim.path, prim.data))
  BY <1>2 DEF Like, SetData, Storage
<1>3. CASE prim.op \in {"delete", "multi_delete"} /\ Exists(S, prim.path) /\ Like(T, Deleted(S, prim.path))
  BY <1>3, PrimitiveType, DeletedType DEF Like
<1>4. CASE Like(T, S)
  BY <1>4 DEF Like
<1>5. CASE prim.op = "close" /\ \E D : Like(T, Remove(DropSession(S, prim.sid), D))
  <2>1. prim.sid \in Sid
    BY <1>5, PrimitiveType
  <2>2. DropSession(S, prim.sid) \in Storage /\ DropSession(S, prim.sid).zxid = S.zxid
    BY <2>1, DropSessionType, SameZxid
  <2> QED
    BY <1>5, <2>1, <2>2, SameZxid DEF Like
<1>6. CASE Like(T, Remove(S, {prim.path}))
  BY <1>6 DEF Like, Remove, Storage
<1> QED
  BY <1>1, <1>2, <1>3, <1>4, <1>5, <1>6 DEF Carried, Forgetful

-----------------------------------------------------------------------------
(* All there is in the log, in the buffer, left of a record or staged was  *)
(* asked for.                                                              *)
KnownRecord == [index : Nat, ops : Seq(Loggable)]

LogKnown ==
  /\ disk \in Seq(KnownRecord) /\ buf \in Seq(KnownRecord) /\ pend \in Seq(Loggable)
  /\ multi # NoMulti => multi.todo \in Seq(Staged) /\ multi.log \in Seq(Loggable)

LEMMA FlushKnown ==
  ASSUME LogKnown, NEW z \in Nat, NEW ops \in Seq(Loggable),
         FlushOk(Rec(z, ops)) \/ FlushFails(Rec(z, ops))
  PROVE  disk' \in Seq(KnownRecord) /\ buf' \in Seq(KnownRecord)
<1>1. Rec(z, ops) \in KnownRecord
  BY DEF Rec, KnownRecord
<1>2. Append(buf, Rec(z, ops)) \in Seq(KnownRecord)
  BY <1>1, AppendProperties DEF LogKnown
<1>3. disk \o Append(buf, Rec(z, ops)) \in Seq(KnownRecord) /\ <<>> \in Seq(KnownRecord)
  BY <1>2, ConcatProperties, EmptySeq DEF LogKnown
<1> QED
  BY <1>2, <1>3 DEF LogKnown, FlushOk, FlushFails, WriteFails, SyncFails, RotateFails

LEMMA WroteLogs ==
  ASSUME Wrote
  PROVE  \E prim \in Loggable : FlushOk(Next1(prim)) \/ FlushFails(Next1(prim))
BY DEF Wrote, Refused, Done

LEMMA LogKnownInductive == TypeOK /\ LogKnown /\ [Next]_vars => LogKnown'
<1> SUFFICES ASSUME TypeOK, LogKnown, [Next]_vars PROVE LogKnown'
  OBVIOUS
<1>1. CASE Quiet \/ Left
  BY <1>1 DEF Quiet, Left, Idle, log, replay, LogKnown
<1>0. st.zxid + 1 \in Nat
  BY BumpIsAt DEF TypeOK
<1>2. ASSUME Wrote PROVE LogKnown'
  <2>1. PICK prim \in Loggable : FlushOk(Next1(prim)) \/ FlushFails(Next1(prim))
    BY <1>2, WroteLogs
  <2>2. <<prim>> \in Seq(Loggable)
    OBVIOUS
  <2>3. disk' \in Seq(KnownRecord) /\ buf' \in Seq(KnownRecord)
    BY <1>0, <2>1, <2>2, FlushKnown DEF Next1
  <2>4. multi' = NoMulti /\ pend' = pend
    BY <1>2 DEF Wrote, Refused, Done, Idle, replay
  <2> QED
    BY <1>2, <2>3, <2>4 DEF LogKnown
<1>3. ASSUME NEW s \in conns, NEW req \in Requests, Serve(s, req) PROVE LogKnown'
  <2>1. s \in Sid /\ (BeginMulti(s, req) \/ Quiet \/ Left \/ Wrote)
    BY <1>3, ServeSteps DEF TypeOK
  <2>2. CASE BeginMulti(s, req)
    <3>1. req \in Alone("multi") /\ req.ops \in Seq(MultiOp)
      BY <2>2, RequestType DEF BeginMulti, Alone, MultiRequest
    <3>2. \A i \in 1 .. Len(req.ops) : req.ops[i] \in Staged
      BY <3>1, LenProperties DEF Staged
    <3>3. req.ops \in Seq(Staged)
      BY <3>1, <3>2, IsASeq, LenProperties
    <3>4. <<>> \in Seq(Loggable)
      BY EmptySeq
    <3> QED
      BY <2>2, <3>3, <3>4 DEF BeginMulti, log, replay, LogKnown
  <2> QED
    BY <1>1, <1>2, <2>1, <2>2
<1>4. CASE Connect \/ \E s \in Sid : CloseExpired(s)
  BY <1>2, <1>4, SessionSteps
<1>5. CASE StageMulti
  <2> DEFINE op == Head(multi.todo)
  <2>1. multi \in Job /\ multi.todo \in Seq(Staged) /\ multi.log \in Seq(Loggable) /\ multi.todo # <<>>
    BY <1>5 DEF TypeOK, LogKnown, StageMulti, Staging
  <2>2. op \in Staged /\ Tail(multi.todo) \in Seq(Staged) /\ op \in MultiOp
    BY <2>1, HeadTailProperties, AskedType
  <2>3. StagedLog(op, multi.sid) \in Seq(Loggable)
    <3>1. \/ StagedLog(op, multi.sid) = <<>>
          \/ \E prim \in Loggable : StagedLog(op, multi.sid) = <<prim>>
      BY <1>5, <2>1, <2>2, StageCarries DEF StageMulti, Job
    <3>2. <<>> \in Seq(Loggable) /\ \A prim \in Loggable : <<prim>> \in Seq(Loggable)
      BY EmptySeq
    <3> QED
      BY <3>1, <3>2
  <2>4. multi.log \o StagedLog(op, multi.sid) \in Seq(Loggable)
    BY <2>1, <2>3, ConcatProperties
  <2>5. multi'.todo = Tail(multi.todo) /\ multi'.log = multi.log \o StagedLog(op, multi.sid)
    BY <1>5, <2>1 DEF StageMulti, Job
  <2> QED
    BY <1>5, <2>2, <2>4, <2>5 DEF StageMulti, LogKnown, log, replay
<1>6. CASE CommitMulti
  <2>1. multi # NoMulti /\ multi \in Job /\ multi.log \in Seq(Loggable) /\ multi.staged.zxid \in Nat
    BY <1>6 DEF CommitMulti, Staging, TypeOK, LogKnown, Job, Storage
  <2>2. disk' \in Seq(KnownRecord) /\ buf' \in Seq(KnownRecord)
    BY <1>6, <2>1, FlushKnown DEF CommitMulti, MultiRec
  <2> QED
    BY <1>6, <2>2 DEF CommitMulti, LogKnown, replay
<1>7. CASE AbortProcess \/ Crash
  <2>1. <<>> \in Seq(KnownRecord) /\ <<>> \in Seq(Loggable)
    BY EmptySeq
  <2>2. disk' \in Seq(KnownRecord)
    <3>1. CASE disk' = disk
      BY <3>1 DEF LogKnown
    <3>2. CASE AbortProcess /\ disk' = disk \o Append(buf, MultiRec)
      <4>1. multi # NoMulti /\ multi \in Job /\ multi.log \in Seq(Loggable) /\ multi.staged.zxid \in Nat
        BY <3>2 DEF AbortProcess, Staging, TypeOK, LogKnown, Job, Storage
      <4>2. MultiRec \in KnownRecord
        BY <4>1 DEF MultiRec, Rec, KnownRecord
      <4> QED
        BY <3>2, <4>2, AppendProperties, ConcatProperties DEF LogKnown
    <3> QED
      BY <1>7, <3>1, <3>2 DEF AbortProcess, Crash
  <2> QED
    BY <1>7, <2>1, <2>2 DEF AbortProcess, Crash, LoseMemory, LogKnown
<1>8. CASE ReplayRecord
  <2>1. pos \in DOMAIN disk /\ disk[pos] \in KnownRecord
    BY <1>8, LenProperties, ElementOfSeq DEF ReplayRecord, TypeOK, LogKnown
  <2> QED
    BY <1>8, <2>1 DEF ReplayRecord, LogKnown, log, KnownRecord
<1>9. CASE ReplayOp
  BY <1>9, HeadTailProperties DEF ReplayOp, LogKnown, log
<1>10. CASE ReplayPanics \/ Restarted
  BY <1>10 DEF ReplayPanics, Restarted, LogKnown, log
<1>11. CASE AbortMulti \/ Sweep \/ (\E s \in Sid : Disconnect(s)) \/ UNCHANGED vars
  BY <1>11 DEF AbortMulti, Sweep, Disconnect, vars, log, replay, LogKnown
<1> QED
  BY <1>3, <1>4, <1>5, <1>6, <1>7, <1>8, <1>9, <1>10, <1>11 DEF Next

LEMMA InitLogKnown == Init => LogKnown
BY EmptySeq DEF Init, LogKnown

(* A step that writes takes the storage to the next zxid; one that does not*)
(* leaves the zxid alone.                                                  *)
LEMMA WroteZxid == ASSUME TypeOK, Wrote PROVE st'.zxid = st.zxid + 1
<1>1. PICK prim \in Loggable : Refused(prim) \/ Done(prim)
  BY DEF Wrote
<1>2. Bump(st) \in Storage /\ Bump(st).zxid = st.zxid + 1 /\ prim \in Primitive
  BY BumpType, LoggableType DEF TypeOK, Bump, Storage
<1> QED
  BY <1>1, <1>2, CarriedZxid DEF Refused, Done, Like

LEMMA QuietZxid ==
  ASSUME TypeOK, Quiet \/ Left
  PROVE  st'.zxid = st.zxid /\ (Quiet => st'.map = st.map)
<1>1. \A s \in Sid : LogClose(s) \in Primitive
  BY DEF LogClose, Primitive, SessionPrim
<1> QED
  BY <1>1, CarriedZxid DEF Quiet, Left, Like, TypeOK

-----------------------------------------------------------------------------
(* A staged Multi will commit under the zxid after the live one. *)
LEMMA BeginMultiInStep ==
  ASSUME TypeOK, NEW s \in Sid, NEW req \in Requests, BeginMulti(s, req)
  PROVE  /\ MultiInStep' /\ phase = "up" /\ phase' = "up" /\ UNCHANGED log
         /\ st'.zxid = st.zxid /\ st'.map = st.map
<1>1. st' = Touch(st, s) /\ multi'.staged = Bump(Touch(st, s))
  BY DEF BeginMulti
<1>2. st'.zxid = st.zxid /\ st'.map = st.map
  BY <1>1 DEF Touch, TypeOK, Storage
<1>3. multi'.staged.zxid = st'.zxid + 1 /\ Kin(multi'.staged, st')
  <2>1. Touch(st, s) \in Storage /\ st' \in Storage
    BY <1>1, TouchedType
  <2>2. Kin(Bump(Touch(st, s)), Touch(st, s))
    BY <2>1, BumpIsAt, AtType
  <2> QED
    BY <1>1, <2>1, <2>2, SameZxid
<1> QED
  BY <1>2, <1>3 DEF BeginMulti, Ready, MultiInStep, replay

LEMMA StageMultiInStep ==
  ASSUME TypeOK, MultiInStep, StageMulti PROVE MultiInStep'
<1> DEFINE op == Head(multi.todo)
           S == multi.staged
<1>1. multi \in Job /\ S \in Storage /\ multi.sid \in Sid /\ multi.todo \in Seq(MultiOp)
  BY DEF TypeOK, StageMulti, Staging, Job
<1>2. op \in MultiOp
  BY <1>1, HeadTailProperties DEF StageMulti
<1>3. multi'.staged = Stage(S, op, multi.sid)
  BY <1>1 DEF StageMulti, Job
<1>4. multi'.staged.zxid = S.zxid /\ Kin(multi'.staged, S)
  BY <1>1, <1>2, <1>3, StageCarries, CarriedZxid DEF StageMulti
<1> QED
  BY <1>4, LikeTrans DEF StageMulti, Staging, MultiInStep, replay

LEMMA MultiInStepInductive == TypeOK /\ MultiInStep /\ [Next]_vars => MultiInStep'
<1> SUFFICES ASSUME TypeOK, MultiInStep, [Next]_vars PROVE MultiInStep'
  OBVIOUS
<1>1. ASSUME NEW s \in conns, NEW req \in Requests, Serve(s, req) PROVE MultiInStep'
  <2>1. s \in Sid
    BY DEF TypeOK
  <2>2. BeginMulti(s, req) \/ Quiet \/ Left \/ Wrote
    BY <1>1, <2>1, ServeSteps
  <2> QED
    BY <2>1, <2>2, BeginMultiInStep DEF Quiet, Left, Wrote, Refused, Done, Idle, MultiInStep
<1>2. CASE StageMulti
  BY <1>2, StageMultiInStep
<1>3. CASE AbortMulti \/ CommitMulti
  BY <1>3 DEF AbortMulti, CommitMulti, Staging, replay, MultiInStep
<1>4. CASE AbortProcess \/ Crash
  BY <1>4 DEF AbortProcess, Crash, LoseMemory, MultiInStep
<1>5. CASE Connect \/ \E s \in Sid : CloseExpired(s)
  BY <1>5, SessionSteps DEF Wrote, Refused, Done, Idle, MultiInStep
<1>6. CASE ReplayRecord \/ ReplayOp
  BY <1>6 DEF ReplayRecord, ReplayOp, MultiInStep
<1>7. CASE ReplayPanics \/ Restarted
  BY <1>7 DEF ReplayPanics, Restarted, MultiInStep
<1>8. CASE Sweep \/ (\E s \in Sid : Disconnect(s)) \/ UNCHANGED vars
  BY <1>8 DEF Sweep, Disconnect, vars, replay, MultiInStep
<1> QED
  BY <1>1, <1>2, <1>3, <1>4, <1>5, <1>6, <1>7, <1>8 DEF Next

LEMMA InitMultiInStep == Init => MultiInStep
BY DEF Init, MultiInStep

-----------------------------------------------------------------------------
(* What a successful flush leaves: its own record last, an empty buffer.   *)
LEMMA FlushOkEnds ==
  ASSUME NEW rec \in Record, disk \in Seq(Record), buf \in Seq(Record), FlushOk(rec)
  PROVE  Len(disk') > Len(disk) /\ disk'[Len(disk')] = rec /\ buf' = <<>>
<1>1. /\ Append(buf, rec) \in Seq(Record) /\ Len(buf) \in Nat
      /\ Len(Append(buf, rec)) = Len(buf) + 1 /\ Append(buf, rec)[Len(buf) + 1] = rec
  BY AppendProperties, LenProperties
<1>2. Len(disk) \in Nat
  BY LenProperties
<1>3. disk' = disk \o Append(buf, rec) /\ buf' = <<>>
  BY DEF FlushOk
<1>4. Len(disk') = Len(disk) + (Len(buf) + 1)
  BY <1>1, <1>3, ConcatProperties
<1>5. \A i \in 1 .. Len(disk) + (Len(buf) + 1) : disk'[i] =
        IF i <= Len(disk) THEN disk[i] ELSE Append(buf, rec)[i - Len(disk)]
  BY <1>1, <1>3, ConcatProperties
<1>6. disk'[Len(disk')] = Append(buf, rec)[Len(buf) + 1]
  <2>1. Len(disk') \in 1 .. Len(disk) + (Len(buf) + 1) /\ ~(Len(disk') <= Len(disk))
        /\ Len(disk') - Len(disk) = Len(buf) + 1
    BY <1>1, <1>2, <1>4
  <2> QED
    BY <1>4, <1>5, <2>1
<1> QED
  BY <1>1, <1>2, <1>3, <1>4, <1>6

Acknowledged ==
  Serving /\ reply' = "Ok" /\ st'.map # st.map =>
    /\ Len(disk') > Len(disk) /\ buf' = <<>>
    /\ disk'[Len(disk')].index = st'.zxid /\ st'.zxid > st.zxid

LEMMA FlushOkAcknowledges ==
  ASSUME TypeOK, NEW ops \in Seq(Primitive), FlushOk(Rec(st.zxid + 1, ops)),
         st'.zxid = st.zxid + 1
  PROVE  Acknowledged
<1>1. st.zxid \in Nat
  BY DEF TypeOK, Storage
<1>2. Rec(st.zxid + 1, ops) \in Record /\ Rec(st.zxid + 1, ops).index = st.zxid + 1
  BY <1>1, RecType DEF Rec
<1>3. Len(disk') > Len(disk) /\ disk'[Len(disk')] = Rec(st.zxid + 1, ops) /\ buf' = <<>>
  BY <1>2, FlushOkEnds DEF TypeOK
<1> QED
  BY <1>1, <1>2, <1>3 DEF Acknowledged

LEMMA WroteAcknowledges == ASSUME TypeOK, Wrote PROVE Acknowledged
<1>1. PICK prim \in Loggable : Refused(prim) \/ Done(prim)
  BY DEF Wrote
<1>2. CASE reply' # "Ok"
  BY <1>2 DEF Acknowledged
<1>3. CASE FlushOk(Next1(prim))
  <2>1. <<prim>> \in Seq(Primitive)
    BY LoggableType
  <2> QED
    BY <1>3, <2>1, WroteZxid, FlushOkAcknowledges DEF Next1
<1> QED
  BY <1>1, <1>2, <1>3 DEF Refused, Done

LEMMA CommitAcknowledges == ASSUME TypeOK, MultiInStep, CommitMulti PROVE Acknowledged
<1>1. phase = "up" /\ multi \in Job /\ multi.log \in Seq(Primitive)
  BY DEF TypeOK, CommitMulti, Staging, Job
<1>2. st'.zxid = st.zxid + 1 /\ MultiRec = Rec(st.zxid + 1, multi.log)
  BY DEF CommitMulti, Staging, MultiInStep, MultiRec
<1> QED
  BY <1>1, <1>2, FlushOkAcknowledges DEF CommitMulti

LEMMA NextAcknowledges ==
  ASSUME \A r \in Requests : r.op # "close", TypeOK, MultiInStep, [Next]_vars
  PROVE  Acknowledged
<1>1. ASSUME NEW s \in conns, NEW req \in Requests, Serve(s, req) PROVE Acknowledged
  <2>1. s \in Sid
    BY DEF TypeOK
  <2>2. BeginMulti(s, req) \/ Quiet \/ Wrote
    BY <1>1, <2>1, ServeSteps DEF Left, Alone
  <2>3. BeginMulti(s, req) \/ Quiet => st'.map = st.map
    BY <2>1, BeginMultiInStep DEF Quiet, Like
  <2> QED
    BY <2>2, <2>3, WroteAcknowledges DEF Acknowledged
<1>2. CASE CommitMulti
  BY <1>2, CommitAcknowledges
<1>3. CASE Connect \/ \E s \in Sid : CloseExpired(s)
  BY <1>3, SessionSteps, WroteAcknowledges
<1>4. CASE AbortProcess \/ Crash
  BY <1>4 DEF AbortProcess, Crash, LoseMemory, Serving, Acknowledged
<1>5. CASE ReplayRecord \/ ReplayOp \/ ReplayPanics \/ Restarted
  BY <1>5 DEF ReplayRecord, ReplayOp, ReplayPanics, Restarted, Serving, Acknowledged
<1>6. CASE StageMulti \/ AbortMulti \/ Sweep \/ (\E s \in Sid : Disconnect(s)) \/ UNCHANGED vars
  BY <1>6 DEF StageMulti, AbortMulti, Sweep, Disconnect, vars, Acknowledged
<1> QED
  BY <1>1, <1>2, <1>3, <1>4, <1>5, <1>6 DEF Next

(* Whatever flushes fail, in whatever way, a change of the tree that was   *)
(* answered Ok has its own record at the end of the segments and nothing   *)
(* left in the buffer.  Close is the exception: it writes no record.       *)
THEOREM AcknowledgedAlwaysDurable ==
  ASSUME \A r \in Requests : r.op # "close"
  PROVE  Spec => AcknowledgedIsDurable
<1>1. TypeOK /\ MultiInStep /\ [Next]_vars => Acknowledged
  BY NextAcknowledges
<1>2. Spec => []MultiInStep
  BY InitMultiInStep, MultiInStepInductive, TypeCorrect, PTL DEF Spec
<1>3. Spec => [][Acknowledged]_vars
  BY <1>1, <1>2, TypeCorrect, PTL DEF Spec
<1> QED
  BY <1>3 DEF AcknowledgedIsDurable, Acknowledged

-----------------------------------------------------------------------------
(* Sequences of records whose zxids increase. *)
Ascending(l) == \A i, j \in DOMAIN l : i < j => l[i].index < l[j].index
Below(l, z) == \A i \in DOMAIN l : l[i].index <= z

LEMMA AppendAscends ==
  ASSUME NEW l \in Seq(Record), NEW z \in Nat, Ascending(l), Below(l, z),
         NEW rec \in Record, rec.index = z + 1
  PROVE  Ascending(Append(l, rec)) /\ Below(Append(l, rec), z + 1)
<1> DEFINE m == Append(l, rec)
           n == Len(l)
<1>1. n \in Nat /\ DOMAIN l = 1 .. n /\ \A i \in 1 .. n : l[i] \in Record
  BY LenProperties, ElementOfSeq
<1>2. /\ m \in Seq(Record) /\ Len(m) = n + 1
      /\ \A i \in 1 .. n : m[i] = l[i]
      /\ m[n + 1] = rec
  BY AppendProperties
<1>3. DOMAIN m = 1 .. n + 1
  BY <1>2, LenProperties
<1>4. \A i \in 1 .. n : l[i].index \in Nat /\ l[i].index <= z
  BY <1>1 DEF Record, Below
<1> HIDE DEF m, n
<1>5. \A i \in 1 .. n : m[i].index \in Nat /\ m[i].index <= z /\ m[n + 1].index = z + 1
  BY <1>2, <1>4
<1>6. Below(m, z + 1)
  <2> SUFFICES ASSUME NEW i \in 1 .. n + 1 PROVE m[i].index <= z + 1
    BY <1>3 DEF Below
  <2>1. CASE i = n + 1
    BY <1>2, <2>1
  <2>2. CASE i # n + 1
    BY <1>1, <1>5, <2>2
  <2> QED
    BY <2>1, <2>2
<1>7. Ascending(m)
  <2> SUFFICES ASSUME NEW i \in 1 .. n + 1, NEW j \in 1 .. n + 1, i < j
               PROVE  m[i].index < m[j].index
    BY <1>3 DEF Ascending
  <2>1. i \in 1 .. n
    BY <1>1
  <2>2. CASE j = n + 1
    BY <1>5, <2>1, <2>2
  <2>3. CASE j # n + 1
    <3>1. j \in 1 .. n
      BY <1>1, <2>3
    <3>2. l[i].index < l[j].index
      BY <1>1, <2>1, <3>1 DEF Ascending, n
    <3> QED
      BY <1>2, <2>1, <3>1, <3>2
  <2> QED
    BY <2>2, <2>3
<1> QED
  BY <1>6, <1>7 DEF m

LEMMA FrontAscends ==
  ASSUME NEW a \in Seq(Record), NEW b \in Seq(Record), Ascending(a \o b)
  PROVE  Ascending(a) /\ \A z : Below(a \o b, z) => Below(a, z)
<1>1. Len(a) \in Nat /\ Len(b) \in Nat /\ DOMAIN a = 1 .. Len(a)
  BY LenProperties
<1>2. DOMAIN (a \o b) = 1 .. Len(a) + Len(b)
  BY LenProperties, ConcatProperties
<1>3. \A i \in 1 .. Len(a) : i \in DOMAIN (a \o b) /\ (a \o b)[i] = a[i]
  BY <1>1, <1>2, ConcatProperties
<1> QED
  BY <1>1, <1>3 DEF Ascending, Below

(* Appending to the buffer is appending to what has reached the segments   *)
(* and has yet to.                                                         *)
LEMMA AppendToBuffer ==
  ASSUME NEW a \in Seq(Record), NEW b \in Seq(Record), NEW rec \in Record
  PROVE  a \o Append(b, rec) = Append(a \o b, rec)
<1>1. <<rec>> \in Seq(Record) /\ a \o b \in Seq(Record)
  BY ConcatProperties
<1>2. Append(b, rec) = b \o <<rec>> /\ Append(a \o b, rec) = (a \o b) \o <<rec>>
  BY <1>1, AppendIsConcat
<1> QED
  BY <1>1, <1>2, ConcatAssociative

-----------------------------------------------------------------------------
(* The log, segments and buffer together, is ascending and below the live  *)
(* zxid; a replay has the zxid of the last record it took.                 *)
LogInv ==
  /\ Ascending(disk \o buf)
  /\ phase = "up" => Below(disk \o buf, st.zxid)
  /\ phase = "replaying" =>
       /\ buf = <<>> /\ pos <= Len(disk) + 1
       /\ pos > 1 => st.zxid = disk[pos - 1].index
       /\ pos = 1 => st.zxid = 0

(* A flush, unless its sync fails, adds the record to the end of the whole.*)
LEMMA FlushGrows ==
  ASSUME "sync" \notin Faults, TypeOK, NEW rec \in Record, FlushOk(rec) \/ FlushFails(rec)
  PROVE  disk' \o buf' = Append(disk \o buf, rec)
<1>1. disk \in Seq(Record) /\ buf \in Seq(Record) /\ disk \o buf \in Seq(Record)
  BY ConcatProperties DEF TypeOK
<1>2. disk \o Append(buf, rec) = Append(disk \o buf, rec)
  BY <1>1, AppendToBuffer
<1>3. CASE FlushOk(rec) \/ RotateFails(rec)
  <2>1. disk' = disk \o Append(buf, rec) /\ buf' = <<>>
    BY <1>3 DEF FlushOk, RotateFails
  <2>2. disk' \in Seq(Record)
    BY <1>1, <1>2, <2>1, AppendProperties
  <2> QED
    BY <1>2, <2>1, <2>2, ConcatEmptySeq
<1>4. CASE WriteFails(rec)
  BY <1>2, <1>4 DEF WriteFails
<1> QED
  BY <1>3, <1>4 DEF FlushFails, SyncFails

LEMMA RecordLogged ==
  ASSUME "sync" \notin Faults, TypeOK, LogInv, phase = "up", phase' = "up",
         NEW ops \in Seq(Primitive),
         FlushOk(Rec(st.zxid + 1, ops)) \/ FlushFails(Rec(st.zxid + 1, ops)),
         st'.zxid = st.zxid + 1
  PROVE  LogInv'
<1> DEFINE rec == Rec(st.zxid + 1, ops)
<1>1. st.zxid \in Nat
  BY DEF TypeOK, Storage
<1>2. rec \in Record /\ rec.index = st.zxid + 1
  <2>1. st.zxid + 1 \in Nat
    BY <1>1
  <2>2. rec \in Record
    BY <2>1, RecType
  <2>3. rec.index = st.zxid + 1
    BY DEF Rec
  <2> QED
    BY <2>2, <2>3
<1>3. disk \o buf \in Seq(Record)
  BY ConcatProperties DEF TypeOK
<1>4. disk' \o buf' = Append(disk \o buf, rec)
  BY <1>2, FlushGrows
<1>5. Ascending(disk' \o buf') /\ Below(disk' \o buf', st.zxid + 1)
  BY <1>1, <1>2, <1>3, <1>4, AppendAscends DEF LogInv
<1> QED
  BY <1>5 DEF LogInv

LEMMA WroteKeepsOrder ==
  ASSUME "sync" \notin Faults, TypeOK, LogInv, Wrote PROVE LogInv'
<1>1. PICK prim \in Loggable : FlushOk(Next1(prim)) \/ FlushFails(Next1(prim))
  BY WroteLogs
<1>2. <<prim>> \in Seq(Primitive)
  BY LoggableType
<1>3. phase = "up" /\ phase' = "up"
  BY DEF Wrote, Refused, Done, Idle
<1> QED
  BY <1>1, <1>2, <1>3, WroteZxid, RecordLogged DEF Next1

LEMMA CommitKeepsOrder ==
  ASSUME "sync" \notin Faults, TypeOK, LogInv, MultiInStep, CommitMulti PROVE LogInv'
<1>1. phase = "up" /\ phase' = "up" /\ multi \in Job /\ multi.log \in Seq(Primitive)
  BY DEF TypeOK, CommitMulti, Staging, Job, replay
<1>2. st'.zxid = st.zxid + 1 /\ MultiRec = Rec(st.zxid + 1, multi.log)
  BY DEF CommitMulti, Staging, MultiInStep, MultiRec
<1> QED
  BY <1>1, <1>2, RecordLogged DEF CommitMulti

(* A crash leaves the segments, or, from a Multi that could not be flushed,*)
(* the segments with all that was in the buffer and the Multi's record.    *)
LEMMA LoseMemoryKeepsOrder ==
  ASSUME TypeOK, LoseMemory, disk' \in Seq(Record), Ascending(disk') PROVE LogInv'
<1>1. phase' = "replaying" /\ buf' = <<>> /\ pos' = 1 /\ st'.zxid = 0
  BY DEF LoseMemory, NewStorage
<1>2. disk' \o buf' = disk' /\ Len(disk') \in Nat
  BY <1>1, ConcatEmptySeq, LenProperties
<1> QED
  BY <1>1, <1>2 DEF LogInv

LEMMA CrashKeepsOrder == ASSUME TypeOK, LogInv, Crash PROVE LogInv'
<1>1. disk \in Seq(Record) /\ buf \in Seq(Record) /\ disk' = disk
  BY DEF TypeOK, Crash
<1>2. Ascending(disk)
  BY <1>1, FrontAscends DEF LogInv
<1> QED
  BY <1>1, <1>2, LoseMemoryKeepsOrder DEF Crash

LEMMA AbortProcessKeepsOrder ==
  ASSUME TypeOK, LogInv, MultiInStep, AbortProcess PROVE LogInv'
<1>1. disk \in Seq(Record) /\ buf \in Seq(Record) /\ disk \o buf \in Seq(Record)
  BY ConcatProperties DEF TypeOK
<1>2. CASE disk' = disk
  BY <1>1, <1>2, FrontAscends, LoseMemoryKeepsOrder DEF AbortProcess, LogInv
<1>3. CASE disk' = disk \o Append(buf, MultiRec)
  <2>1. st.zxid \in Nat
    BY DEF TypeOK, Storage
  <2>2. MultiRec \in Record /\ MultiRec.index = st.zxid + 1
    BY MultiRecType DEF AbortProcess, Staging, MultiInStep, MultiRec, Rec
  <2>3. disk' = Append(disk \o buf, MultiRec)
    BY <1>1, <1>3, <2>2, AppendToBuffer
  <2>4. Ascending(disk') /\ disk' \in Seq(Record)
    BY <1>1, <2>1, <2>2, <2>3, AppendAscends, AppendProperties
       DEF LogInv, AbortProcess, Staging
  <2> QED
    BY <2>4, LoseMemoryKeepsOrder DEF AbortProcess
<1> QED
  BY <1>2, <1>3 DEF AbortProcess

LEMMA ReplayRecordKeepsOrder == ASSUME TypeOK, LogInv, ReplayRecord PROVE LogInv'
<1>1. pos \in Nat \ {0} /\ Len(disk) \in Nat /\ pos <= Len(disk)
  BY LenProperties DEF TypeOK, ReplayRecord
<1>2. pos' = pos + 1 /\ phase' = "replaying" /\ disk' = disk /\ buf' = buf
      /\ st'.zxid = disk[pos].index
  BY DEF ReplayRecord, TypeOK, Storage, log
<1>3. pos' <= Len(disk) + 1 /\ pos' - 1 = pos /\ pos' # 1
  BY <1>1, <1>2
<1> QED
  BY <1>2, <1>3 DEF LogInv, ReplayRecord

LEMMA ReplayOpKeepsOrder == ASSUME TypeOK, LogInv, ReplayOp PROVE LogInv'
<1>1. Head(pend) \in Primitive /\ st \in Storage
  BY HeadTailProperties DEF TypeOK, ReplayOp
<1>2. st'.zxid = st.zxid
  BY <1>1, ReplayedCarries, CarriedZxid DEF ReplayOp
<1> QED
  BY <1>2 DEF ReplayOp, LogInv, log

(* At the end of a replay the zxid is that of the last record.             *)
LEMMA RestartedKeepsOrder == ASSUME TypeOK, LogInv, Restarted PROVE LogInv'
<1>1. disk \in Seq(Record) /\ Len(disk) \in Nat /\ pos \in Nat \ {0} /\ st.zxid \in Nat
      /\ DOMAIN disk = 1 .. Len(disk)
  BY LenProperties DEF TypeOK, Storage
<1>2. pos = Len(disk) + 1 /\ buf = <<>>
  BY <1>1 DEF LogInv, Restarted
<1>3. disk \o buf = disk
  BY <1>1, <1>2, ConcatEmptySeq
<1>4. ASSUME NEW i \in DOMAIN disk PROVE disk[i].index \in Nat
  <2>1. disk[i] \in Record
    BY <1>1, ElementOfSeq
  <2> QED
    BY <2>1 DEF Record
<1>5. Below(disk, st.zxid)
  <2> SUFFICES ASSUME NEW i \in 1 .. Len(disk) PROVE disk[i].index <= st.zxid
    BY <1>1 DEF Below
  <2>1. pos > 1 /\ pos - 1 = Len(disk) /\ Len(disk) \in DOMAIN disk
    BY <1>1, <1>2
  <2>2. st.zxid = disk[Len(disk)].index
    BY <2>1 DEF LogInv, Restarted
  <2>3. CASE i = Len(disk)
    <3>1. disk[i].index = st.zxid
      BY <2>2, <2>3
    <3> QED
      BY <1>1, <3>1
  <2>4. CASE i # Len(disk)
    <3>1. i < Len(disk)
      <4> Len(disk) \in Nat
        BY <1>1
      <4> DEFINE n == Len(disk)
      <4> HIDE DEF n
      <4>1. \A k \in 1 .. n : n \in Nat /\ k # n => k < n
        OBVIOUS
      <4> QED
        BY <2>4, <4>1 DEF n
    <3>2. disk[i].index < disk[Len(disk)].index
      BY <1>1, <1>3, <2>1, <3>1 DEF LogInv, Ascending
    <3> QED
      BY <1>1, <1>4, <2>1, <2>2, <3>2
  <2> QED
    BY <2>3, <2>4
<1> QED
  BY <1>3, <1>5 DEF LogInv, Restarted, log

LEMMA SameLogKeepsOrder ==
  ASSUME LogInv, UNCHANGED <<log, pos>>, phase' = phase, st'.zxid = st.zxid PROVE LogInv'
BY DEF LogInv, log

LEMMA LogInvInductive ==
  ASSUME "sync" \notin Faults, TypeOK, MultiInStep, LogInv, [Next]_vars
  PROVE  LogInv'
<1>1. ASSUME NEW s \in conns, NEW req \in Requests, Serve(s, req) PROVE LogInv'
  <2>1. s \in Sid
    BY DEF TypeOK
  <2>2. CASE BeginMulti(s, req)
    BY <2>1, <2>2, BeginMultiInStep DEF LogInv, log
  <2>3. CASE Quiet \/ Left
    BY <2>3, QuietZxid DEF Quiet, Left, Idle, LogInv, log
  <2>4. CASE Wrote
    BY <2>4, WroteKeepsOrder
  <2> QED
    BY <1>1, <2>1, <2>2, <2>3, <2>4, ServeSteps
<1>2. CASE CommitMulti
  BY <1>2, CommitKeepsOrder
<1>3. CASE Connect \/ \E s \in Sid : CloseExpired(s)
  BY <1>3, SessionSteps, WroteKeepsOrder
<1>4. CASE AbortProcess \/ Crash
  BY <1>4, AbortProcessKeepsOrder, CrashKeepsOrder
<1>5. CASE ReplayRecord \/ ReplayOp \/ Restarted
  BY <1>5, ReplayRecordKeepsOrder, ReplayOpKeepsOrder, RestartedKeepsOrder
<1>6. CASE ReplayPanics
  BY <1>6 DEF ReplayPanics, LogInv, log
<1>7. CASE StageMulti \/ AbortMulti \/ Sweep \/ (\E s \in Sid : Disconnect(s)) \/ UNCHANGED vars
  BY <1>7, SameLogKeepsOrder DEF StageMulti, AbortMulti, Sweep, Disconnect, vars, log, replay
<1> QED
  BY <1>1, <1>2, <1>3, <1>4, <1>5, <1>6, <1>7 DEF Next

LEMMA InitLogInv == Init => LogInv
<1> SUFFICES ASSUME Init PROVE LogInv
  OBVIOUS
<1>1. disk \o buf = <<>> /\ disk \in Seq(Record) /\ Len(disk) = 0
  BY EmptySeq, ConcatEmptySeq DEF Init
<1>2. Ascending(<<>>)
  BY DEF Ascending
<1> QED
  BY <1>1, <1>2 DEF Init, NewStorage, LogInv

LEMMA LogInvOrders == TypeOK /\ LogInv => LogIsOrdered
<1> SUFFICES ASSUME TypeOK, LogInv PROVE LogIsOrdered
  OBVIOUS
<1>1. Ascending(disk) /\ (phase = "up" => Below(disk, st.zxid))
  BY FrontAscends DEF TypeOK, LogInv
<1> QED
  BY <1>1 DEF LogIsOrdered, Ascending, Below

(* While no sync fails, no two records of the log have one zxid, they stand*)
(* in the order of their zxids, and a running server is never behind them: *)
(* through failed writes and rotations, aborted processes and restarts.    *)
THEOREM LogAlwaysOrdered ==
  ASSUME "sync" \notin Faults
  PROVE  Spec => []LogIsOrdered
<1>1. Spec => []MultiInStep
  BY InitMultiInStep, MultiInStepInductive, TypeCorrect, PTL DEF Spec
<1>2. TypeOK /\ MultiInStep /\ LogInv /\ [Next]_vars => LogInv'
  BY LogInvInductive
<1> QED
  BY <1>1, <1>2, InitLogInv, LogInvOrders, TypeCorrect, PTL DEF Spec

-----------------------------------------------------------------------------
(* Where the trees come from.  Every tree after a step is the empty one, or*)
(* comes from one before the step by one operation at most, under a zxid   *)
(* that is its own or a later one.                                         *)
Grows(S, T) ==
  \E z \in Nat :
    /\ LogInv => S.zxid <= z
    /\ \/ Like(T, At(S, z))
       \/ \E prim \in Loggable : Carried(At(S, z), prim, T) \/ Forgetful(At(S, z), prim, T)

TreesGrow == \A T \in Trees' : Like(T, NewStorage) \/ \E S \in Trees : Grows(S, T)

LEMMA TreesType == TypeOK => Trees \subseteq Storage /\ st \in Trees
BY DEF TypeOK, Trees, Job

LEMMA StaysGrows ==
  ASSUME NEW S \in Storage, NEW T,
         \/ Like(T, S)
         \/ \E prim \in Loggable : Carried(S, prim, T) \/ Forgetful(S, prim, T)
  PROVE  Grows(S, T)
<1>1. S.zxid \in Nat
  BY DEF Storage
<1>2. At(S, S.zxid) = S /\ S.zxid <= S.zxid
  BY <1>1, AtType
<1> QED
  BY <1>1, <1>2 DEF Grows

LEMMA BumpGrows ==
  ASSUME NEW S \in Storage, NEW T,
         \/ Like(T, Bump(S))
         \/ \E prim \in Loggable : Carried(Bump(S), prim, T)
  PROVE  Grows(S, T)
<1>1. S.zxid \in Nat /\ S.zxid + 1 \in Nat /\ Bump(S) = At(S, S.zxid + 1)
  BY BumpIsAt
<1>2. S.zxid <= S.zxid + 1
  BY <1>1
<1> QED
  BY <1>1, <1>2 DEF Grows

LEMMA IdleGrows == ASSUME TypeOK, Quiet \/ Left \/ Wrote PROVE TreesGrow
<1>1. Trees' = {st'} /\ st \in Storage /\ st \in Trees
  BY TreesType DEF Quiet, Left, Wrote, Refused, Done, Idle, Trees
<1>2. \A s \in Sid : LogClose(s) \in Loggable
  BY DEF LogClose, SessionPrim, Loggable
<1>3. Grows(st, st')
  BY <1>1, <1>2, StaysGrows, BumpGrows DEF Quiet, Left, Wrote, Refused, Done
<1> QED
  BY <1>1, <1>3 DEF TreesGrow

LEMMA MultiGrows ==
  ASSUME TypeOK, LogKnown,
         StageMulti \/ CommitMulti \/ \E s \in Sid, req \in Requests : BeginMulti(s, req)
  PROVE  TreesGrow
<1>1. st \in Storage /\ st \in Trees
  BY TreesType DEF TypeOK
<1>2. CASE \E s \in Sid, req \in Requests : BeginMulti(s, req)
  <2>1. PICK s \in Sid, req \in Requests : BeginMulti(s, req)
    BY <1>2
  <2>2. st' = Touch(st, s) /\ multi'.staged = Bump(Touch(st, s))
    BY <2>1 DEF BeginMulti
  <2>3. Grows(st, st') /\ Grows(st, multi'.staged)
    BY <1>1, <2>2, LikeSame, StaysGrows, BumpGrows
  <2> QED
    BY <1>1, <2>3 DEF TreesGrow, Trees
<1>3. ASSUME multi # NoMulti
      PROVE  /\ multi \in Job /\ multi.staged \in Storage /\ multi.staged \in Trees
             /\ multi.sid \in Sid /\ multi.todo \in Seq(Staged)
  BY <1>3 DEF TypeOK, Job, Trees, LogKnown
<1>4. CASE StageMulti
  <2> DEFINE op == Head(multi.todo)
             S == multi.staged
  <2>1. op \in Staged /\ op \in MultiOp
    BY <1>3, <1>4, AskedType, HeadTailProperties DEF StageMulti, Staging
  <2>2. multi'.staged = Stage(S, op, multi.sid) /\ st' = st
    BY <1>3, <1>4 DEF StageMulti, Staging, Job
  <2>3. Grows(S, multi'.staged) /\ Grows(st, st')
    BY <1>1, <1>3, <1>4, <2>1, <2>2, StageCarries, StaysGrows, LikeTrans DEF StageMulti, Staging
  <2> QED
    BY <1>1, <1>3, <1>4, <2>3 DEF TreesGrow, Trees, StageMulti, Staging
<1>5. CASE CommitMulti
  <2>1. Trees' = {multi.staged}
    BY <1>5 DEF CommitMulti, Trees
  <2> QED
    BY <1>3, <1>5, <2>1, StaysGrows, LikeTrans DEF TreesGrow, CommitMulti, Staging
<1> QED
  BY <1>2, <1>4, <1>5

LEMMA ReplayGrows ==
  ASSUME TypeOK, LogKnown, ReplayRecord \/ ReplayOp, multi = NoMulti
  PROVE  TreesGrow
<1>1. st \in Storage /\ st \in Trees /\ Trees' = {st'}
  BY TreesType DEF TypeOK, ReplayRecord, ReplayOp, Trees
<1>2. CASE ReplayOp
  <2>1. Head(pend) \in Loggable /\ Head(pend) \in Primitive
    BY <1>2, HeadTailProperties, LoggableType DEF ReplayOp, LogKnown
  <2>2. Grows(st, st')
    BY <1>1, <1>2, <2>1, ReplayedCarries, StaysGrows DEF ReplayOp
  <2> QED
    BY <1>1, <2>2 DEF TreesGrow
<1>3. CASE ReplayRecord
  <2> DEFINE z == disk[pos].index
  <2>1. /\ disk \in Seq(Record) /\ pos \in Nat \ {0} /\ Len(disk) \in Nat /\ pos <= Len(disk)
        /\ DOMAIN disk = 1 .. Len(disk)
    BY <1>3, LenProperties DEF TypeOK, ReplayRecord
  <2>2. ASSUME NEW i \in 1 .. Len(disk) PROVE disk[i].index \in Nat
    <3>1. disk[i] \in Record
      BY <2>1, ElementOfSeq
    <3> QED
      BY <3>1 DEF Record
  <2>3. z \in Nat /\ st' = At(st, z)
    BY <1>3, <2>1, <2>2 DEF ReplayRecord, At
  <2>4. ASSUME LogInv PROVE st.zxid <= z
    <3>1. CASE pos = 1
      BY <1>3, <2>3, <2>4, <3>1 DEF LogInv, ReplayRecord
    <3>2. CASE pos # 1
      <4>1. pos > 1 /\ pos - 1 \in 1 .. Len(disk) /\ pos \in 1 .. Len(disk) /\ pos - 1 < pos
        BY <2>1, <3>2
      <4>2. st.zxid = disk[pos - 1].index
        BY <1>3, <2>4, <4>1 DEF LogInv, ReplayRecord
      <4>3. Ascending(disk)
        BY <2>4, FrontAscends DEF LogInv, TypeOK
      <4>4. disk[pos - 1].index < disk[pos].index
        BY <2>1, <4>1, <4>3 DEF Ascending
      <4> QED
        BY <2>2, <4>1, <4>2, <4>4
    <3> QED
      BY <3>1, <3>2
  <2>5. Grows(st, st')
    BY <2>3, <2>4, LikeTrans DEF Grows
  <2> QED
    BY <1>1, <2>5 DEF TreesGrow
<1> QED
  BY <1>2, <1>3

LEMMA NextGrows ==
  ASSUME TypeOK, LogKnown, MultiInStep, [Next]_vars PROVE TreesGrow
<1>1. ASSUME NEW s \in conns, NEW req \in Requests, Serve(s, req) PROVE TreesGrow
  <2>1. s \in Sid
    BY DEF TypeOK
  <2> QED
    BY <1>1, <2>1, ServeSteps, IdleGrows, MultiGrows
<1>2. CASE StageMulti \/ CommitMulti
  BY <1>2, MultiGrows
<1>3. CASE Connect \/ \E s \in Sid : CloseExpired(s)
  BY <1>3, SessionSteps, IdleGrows
<1>4. CASE AbortProcess \/ Crash
  <2>1. Trees' = {NewStorage}
    BY <1>4 DEF AbortProcess, Crash, LoseMemory, Trees
  <2> QED
    BY <2>1, LikeTrans DEF TreesGrow
<1>5. CASE ReplayRecord \/ ReplayOp
  BY <1>5, ReplayGrows DEF ReplayRecord, ReplayOp, MultiInStep
<1>6. CASE \/ AbortMulti \/ ReplayPanics \/ Restarted
           \/ Sweep \/ (\E s \in Sid : Disconnect(s)) \/ UNCHANGED vars
  <2>1. Trees' \subseteq Trees
    BY <1>6 DEF AbortMulti, ReplayPanics, Restarted, Sweep, Disconnect, vars, Trees
  <2> QED
    BY <2>1, TreesType, StaysGrows, LikeTrans DEF TreesGrow
<1> QED
  BY <1>1, <1>2, <1>3, <1>4, <1>5, <1>6 DEF Next

(* What the steps rest on holds throughout.                                *)
LEMMA AlwaysKnown == Spec => [](TypeOK /\ LogKnown /\ MultiInStep)
BY InitMultiInStep, MultiInStepInductive, InitLogKnown, LogKnownInductive, TypeCorrect, PTL DEF Spec

LEMMA AlwaysLogInv == ASSUME "sync" \notin Faults PROVE Spec => []LogInv
<1>1. TypeOK /\ MultiInStep /\ LogInv /\ [Next]_vars => LogInv'
  BY LogInvInductive
<1> QED
  BY <1>1, InitLogInv, AlwaysKnown, PTL DEF Spec
=============================================================================
