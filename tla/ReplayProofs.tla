---------------------------- MODULE ReplayProofs ----------------------------
(***************************************************************************)
(* The log and the tree are two forms of one thing: while flushes succeed, *)
(* replaying the segments from nothing makes the tree there is, operation  *)
(* by operation, and the replay meets nothing it does not expect.  What    *)
(* must not be asked for is what the server logs and then does not do, or  *)
(* does and does not log.  With it: a refused request changes nothing, and *)
(* a session id is never handed out twice, replays included.               *)
(***************************************************************************)
EXTENDS TreeProofs, WatchProofs

(* Replaying ops one after the other takes a storage like S to one like T, *)
(* and no operation on the way can panic.                                  *)
Replays(S, ops, T) ==
  \E h \in [0 .. Len(ops) -> Storage] :
    /\ Like(h[0], S) /\ Like(T, h[Len(ops)])
    /\ \A i \in 1 .. Len(ops) :
         MustReplay(h[i - 1], ops[i]) /\ Like(h[i], Replayed(h[i - 1], ops[i]))

(* Replaying the records of a log from the k-th on takes S to T.           *)
Remaining(S, recs, k, T) ==
  \E h \in [k .. Len(recs) + 1 -> Storage] :
    /\ Like(h[k], S) /\ Like(T, h[Len(recs) + 1])
    /\ \A i \in k .. Len(recs) : Replays(At(h[i], recs[i].index), recs[i].ops, h[i + 1])

-----------------------------------------------------------------------------
(* Alike storages replay alike.                                            *)
LEMMA ReplayedLike ==
  ASSUME NEW U \in Storage, NEW V \in Storage, Like(U, V), NEW prim \in Primitive
  PROVE  /\ MustReplay(V, prim) => MustReplay(U, prim)
         /\ Like(Replayed(U, prim), Replayed(V, prim))
<1>1. /\ \A p : (Deletable(U, p) <=> Deletable(V, p)) /\ (Exists(U, p) <=> Exists(V, p))
      /\ CreateError(U, prim) = CreateError(V, prim) /\ U.eph = V.eph /\ U.map = V.map
  BY LikeTryDelete, SameCreate DEF Like, Exists
<1>2. MustReplay(V, prim) => MustReplay(U, prim)
  BY <1>1, PrimitiveType DEF MustReplay, CanReplay
<1> SUFFICES Like(Replayed(U, prim), Replayed(V, prim))
  BY <1>2
<1>3. CASE prim.op = "create"
  <2>1. \A S : Replayed(S, prim) = Create(S, prim, prim.sid)
    BY <1>3 DEF Replayed
  <2> QED
    BY <1>3, <2>1, LikeCreate, PrimitiveType
<1>4. CASE prim.op = "set"
  <2>1. \A S : Replayed(S, prim) = SetData(S, prim.path, prim.data)
    BY <1>4 DEF Replayed
  <2> QED
    BY <1>4, <2>1, LikeSetData, PrimitiveType
<1>5. CASE prim.op = "delete"
  <2>1. \A S : Replayed(S, prim) = Remove(S, {prim.path})
    BY <1>5 DEF Replayed
  <2> QED
    BY <1>5, <2>1, LikeRemove, PrimitiveType
<1>6. CASE prim.op = "multi_delete"
  <2>1. prim.path \in Path /\ {prim.path} \in SUBSET Path
    BY <1>6, PrimitiveType
  <2>2. Remove(U, {prim.path}) \in Storage /\ Remove(V, {prim.path}) \in Storage
        /\ Like(Remove(U, {prim.path}), Remove(V, {prim.path}))
    BY <2>1, RemoveType, LikeRemove
  <2>3. \A S : Replayed(S, prim) =
                RemoveEphemeral(Remove(S, {prim.path}), S.map[prim.path].owner, prim.path)
    BY <1>6 DEF Replayed
  <2> QED
    BY <1>1, <2>2, <2>3, LikeUnindex
<1>7. CASE prim.op = "open"
  <2>1. \A S \in Storage : Like(RestoreSession(S, prim.sid), S)
    BY DEF Like, RestoreSession, Storage
  <2>2. Replayed(U, prim) = RestoreSession(U, prim.sid) /\ Replayed(V, prim) = RestoreSession(V, prim.sid)
    BY <1>7 DEF Replayed
  <2>3. Like(RestoreSession(U, prim.sid), V) /\ Like(V, RestoreSession(V, prim.sid))
    BY <2>1, LikeTrans
  <2> QED
    BY <2>2, <2>3, LikeTrans
<1>8. CASE prim.op = "close"
  <2>1. prim.sid \in Sid
    BY <1>8, PrimitiveType
  <2>2. /\ DropSession(U, prim.sid) \in Storage /\ DropSession(V, prim.sid) \in Storage
        /\ Like(DropSession(U, prim.sid), DropSession(V, prim.sid))
    BY <2>1, DropSessionType, LikeDrop
  <2>3. \A S : Replayed(S, prim) = Remove(DropSession(S, prim.sid), S.eph[prim.sid])
    BY <1>8 DEF Replayed
  <2> QED
    BY <1>1, <2>2, <2>3, LikeRemove
<1> QED
  BY <1>3, <1>4, <1>5, <1>6, <1>7, <1>8, PrimitiveType

LEMMA ReplaysLike ==
  ASSUME NEW S, NEW T, NEW ops, Replays(S, ops, T), NEW U, Like(U, S), NEW V, Like(V, T)
  PROVE  Replays(U, ops, V)
<1>1. PICK h \in [0 .. Len(ops) -> Storage] :
        /\ Like(h[0], S) /\ Like(T, h[Len(ops)])
        /\ \A i \in 1 .. Len(ops) :
             MustReplay(h[i - 1], ops[i]) /\ Like(h[i], Replayed(h[i - 1], ops[i]))
  BY DEF Replays
<1>2. Like(h[0], U) /\ Like(V, h[Len(ops)])
  BY <1>1, LikeTrans
<1> QED
  BY <1>1, <1>2 DEF Replays

LEMMA ReplaysNothing ==
  ASSUME NEW S \in Storage, NEW T
  PROVE  Replays(S, <<>>, T) <=> Like(T, S)
<1>1. ASSUME Replays(S, <<>>, T) PROVE Like(T, S)
  BY <1>1, LikeTrans DEF Replays
<1>2. ASSUME Like(T, S) PROVE Replays(S, <<>>, T)
  <2> DEFINE h == [i \in 0 .. Len(<<>>) |-> S]
  <2>1. h \in [0 .. Len(<<>>) -> Storage] /\ Len(<<>>) = 0
    OBVIOUS
  <2>2. h[0] = S /\ h[Len(<<>>)] = S
    BY <2>1
  <2> HIDE DEF h
  <2> QED
    BY <1>2, <2>1, <2>2, LikeTrans DEF Replays
<1> QED
  BY <1>1, <1>2

(* One operation more, at the end. *)
LEMMA ReplaysMore ==
  ASSUME NEW S, NEW ops \in Seq(Primitive), NEW T \in Storage, Replays(S, ops, T),
         NEW prim \in Primitive, NEW U \in Storage,
         MustReplay(T, prim), Like(U, Replayed(T, prim))
  PROVE  Replays(S, Append(ops, prim), U)
<1> DEFINE n == Len(ops)
           more == Append(ops, prim)
<1>1. PICK h \in [0 .. n -> Storage] :
        /\ Like(h[0], S) /\ Like(T, h[n])
        /\ \A i \in 1 .. n : MustReplay(h[i - 1], ops[i]) /\ Like(h[i], Replayed(h[i - 1], ops[i]))
  BY DEF Replays
<1>2. n \in Nat /\ Len(more) = n + 1 /\ more[n + 1] = prim /\ \A i \in 1 .. n : more[i] = ops[i]
  BY AppendProperties, LenProperties
<1> HIDE DEF n, more
<1> DEFINE g == [i \in 0 .. n + 1 |-> IF i = n + 1 THEN U ELSE IF i = n THEN T ELSE h[i]]
<1>3. g \in [0 .. n + 1 -> Storage] /\ g[n + 1] = U /\ g[n] = T
      /\ \A i \in 0 .. n - 1 : g[i] = h[i]
  BY <1>1, <1>2
<1> HIDE DEF g
<1>4. Like(g[0], S)
  <2>1. CASE n = 0
    BY <1>1, <1>3, <2>1, LikeTrans
  <2>2. CASE n # 0
    <3>1. 0 \in 0 .. n - 1
      BY <1>2, <2>2
    <3> QED
      BY <1>1, <1>3, <3>1
  <2> QED
    BY <2>1, <2>2
<1>5. ASSUME NEW i \in 1 .. n + 1
      PROVE  MustReplay(g[i - 1], more[i]) /\ Like(g[i], Replayed(g[i - 1], more[i]))
  <2>1. CASE i = n + 1
    BY <1>2, <1>3, <2>1
  <2>2. CASE i # n + 1
    <3>1. i \in 1 .. n /\ i - 1 \in 0 .. n - 1
      BY <1>2, <2>2
    <3>2. MustReplay(g[i - 1], more[i]) /\ Like(h[i], Replayed(g[i - 1], more[i]))
      BY <1>1, <1>2, <1>3, <3>1
    <3>3. Like(g[i], h[i])
      <4>1. CASE i = n
        BY <1>1, <1>3, <4>1
      <4>2. CASE i # n
        BY <1>2, <1>3, <3>1, <4>2, LikeTrans
      <4> QED
        BY <4>1, <4>2
    <3> QED
      BY <3>2, <3>3, LikeTrans
  <2> QED
    BY <2>1, <2>2
<1>6. Like(U, g[n + 1])
  BY <1>3, LikeTrans
<1>7. Replays(S, more, U)
  BY <1>2, <1>3, <1>4, <1>5, <1>6 DEF Replays
<1> QED
  BY <1>7 DEF more

(* The first operation, and the others. *)
LEMMA ReplaysFirst ==
  ASSUME NEW S \in Storage, NEW ops \in Seq(Primitive), ops # <<>>, NEW T, Replays(S, ops, T)
  PROVE  MustReplay(S, Head(ops)) /\ Replays(Replayed(S, Head(ops)), Tail(ops), T)
<1> DEFINE n == Len(ops)
           prim == Head(ops)
           rest == Tail(ops)
<1>1. PICK h \in [0 .. n -> Storage] :
        /\ Like(h[0], S) /\ Like(T, h[n])
        /\ \A i \in 1 .. n : MustReplay(h[i - 1], ops[i]) /\ Like(h[i], Replayed(h[i - 1], ops[i]))
  BY DEF Replays
<1>2. /\ n \in Nat \ {0} /\ Len(rest) = n - 1 /\ prim = ops[1] /\ prim \in Primitive
      /\ rest \in Seq(Primitive) /\ \A i \in 1 .. n - 1 : rest[i] = ops[i + 1]
  BY HeadTailProperties, LenProperties
<1> HIDE DEF n, prim, rest
<1>3. MustReplay(h[0], prim) /\ Like(h[1], Replayed(h[0], prim)) /\ h[0] \in Storage
  <2>1. 1 \in 1 .. n /\ 0 \in 0 .. n
    BY <1>2
  <2>2. MustReplay(h[1 - 1], ops[1]) /\ Like(h[1], Replayed(h[1 - 1], ops[1]))
    BY <1>1, <2>1
  <2> QED
    BY <1>1, <1>2, <2>1, <2>2
<1>4. MustReplay(S, prim) /\ Like(h[1], Replayed(S, prim))
  <2>1. Like(S, h[0])
    BY <1>1, LikeTrans
  <2>2. MustReplay(S, prim) /\ Like(Replayed(S, prim), Replayed(h[0], prim))
    BY <1>2, <1>3, <2>1, ReplayedLike
  <2> QED
    BY <1>3, <2>2, LikeTrans
<1> DEFINE g == [i \in 0 .. n - 1 |-> h[i + 1]]
<1>5. g \in [0 .. n - 1 -> Storage] /\ g[0] = h[1] /\ g[n - 1] = h[n]
      /\ \A i \in 1 .. n - 1 : g[i - 1] = h[i] /\ g[i] = h[i + 1]
  BY <1>1, <1>2
<1> HIDE DEF g
<1>6. ASSUME NEW i \in 1 .. n - 1
      PROVE  MustReplay(g[i - 1], rest[i]) /\ Like(g[i], Replayed(g[i - 1], rest[i]))
  <2>1. i + 1 \in 1 .. n /\ (i + 1) - 1 = i
    BY <1>2
  <2> QED
    BY <1>1, <1>2, <1>5, <2>1
<1>7. Replays(Replayed(S, prim), rest, T)
  BY <1>1, <1>2, <1>4, <1>5, <1>6 DEF Replays
<1> QED
  BY <1>4, <1>7 DEF prim, rest

-----------------------------------------------------------------------------
LEMMA AtLike ==
  ASSUME NEW S \in Storage, NEW T \in Storage, Like(T, S), NEW z \in Nat
  PROVE  Like(At(T, z), At(S, z))
BY AtType DEF Like

LEMMA RecordOf ==
  ASSUME NEW recs \in Seq(Record), NEW k \in 1 .. Len(recs)
  PROVE  recs[k] \in Record /\ recs[k].index \in Nat /\ recs[k].ops \in Seq(Primitive)
<1>1. recs[k] \in Record
  BY ElementOfSeq
<1> QED
  BY <1>1 DEF Record

(* Nothing remains after the last record. *)
LEMMA RemainingNone ==
  ASSUME NEW S \in Storage, NEW recs \in Seq(Record), NEW T
  PROVE  Remaining(S, recs, Len(recs) + 1, T) <=> Like(T, S)
<1> DEFINE n == Len(recs) + 1
<1>1. n \in Nat /\ n - 1 = Len(recs)
  BY LenProperties
<1>2. ASSUME Remaining(S, recs, n, T) PROVE Like(T, S)
  BY <1>2, LikeTrans DEF Remaining
<1>3. ASSUME Like(T, S) PROVE Remaining(S, recs, n, T)
  <2> DEFINE h == [i \in n .. n |-> S]
  <2>1. h \in [n .. n -> Storage] /\ h[n] = S
    BY <1>1
  <2>2. n .. Len(recs) = {}
    BY <1>1
  <2> HIDE DEF h
  <2> QED
    BY <1>3, <2>1, <2>2, LikeTrans DEF Remaining
<1> QED
  BY <1>2, <1>3

(* The next record, and the others. *)
LEMMA RemainingFirst ==
  ASSUME NEW S \in Storage, NEW recs \in Seq(Record), NEW k \in 1 .. Len(recs), NEW T,
         Remaining(S, recs, k, T)
  PROVE  \E V \in Storage : /\ Replays(At(S, recs[k].index), recs[k].ops, V)
                            /\ Remaining(V, recs, k + 1, T)
<1> DEFINE n == Len(recs)
<1>1. n \in Nat /\ k \in Int /\ 1 <= k /\ k <= n /\ recs[k].index \in Nat
  BY LenProperties, RecordOf
<1>2. PICK h \in [k .. n + 1 -> Storage] :
        /\ Like(h[k], S) /\ Like(T, h[n + 1])
        /\ \A i \in k .. n : Replays(At(h[i], recs[i].index), recs[i].ops, h[i + 1])
  BY DEF Remaining
<1> HIDE DEF n
<1>3. k \in k .. n /\ k \in k .. n + 1 /\ k + 1 \in k .. n + 1 /\ h[k] \in Storage /\ h[k + 1] \in Storage
  BY <1>1, <1>2
<1>4. Replays(At(S, recs[k].index), recs[k].ops, h[k + 1])
  <2>1. Like(At(S, recs[k].index), At(h[k], recs[k].index))
    BY <1>1, <1>2, <1>3, AtLike, LikeTrans
  <2>2. Replays(At(h[k], recs[k].index), recs[k].ops, h[k + 1])
    BY <1>2, <1>3
  <2> QED
    BY <2>1, <2>2, ReplaysLike, LikeTrans
<1> DEFINE g == [i \in k + 1 .. n + 1 |-> h[i]]
<1>5. /\ g \in [k + 1 .. n + 1 -> Storage] /\ g[k + 1] = h[k + 1] /\ g[n + 1] = h[n + 1]
      /\ \A i \in k + 1 .. n : g[i] = h[i] /\ g[i + 1] = h[i + 1] /\ i \in k .. n
  BY <1>1, <1>2
<1> HIDE DEF g
<1>6. Remaining(h[k + 1], recs, k + 1, T)
  BY <1>2, <1>5, LikeTrans DEF Remaining, n
<1> QED
  BY <1>3, <1>4, <1>6

(* A record more, at the end. *)
LEMMA RemainingMore ==
  ASSUME NEW S, NEW recs \in Seq(Record), NEW T \in Storage, Remaining(S, recs, 1, T),
         NEW rec \in Record, NEW U \in Storage, Replays(At(T, rec.index), rec.ops, U)
  PROVE  Remaining(S, Append(recs, rec), 1, U)
<1> DEFINE n == Len(recs)
           more == Append(recs, rec)
<1>1. PICK h \in [1 .. n + 1 -> Storage] :
        /\ Like(h[1], S) /\ Like(T, h[n + 1])
        /\ \A i \in 1 .. n : Replays(At(h[i], recs[i].index), recs[i].ops, h[i + 1])
  BY DEF Remaining
<1>2. n \in Nat /\ Len(more) = n + 1 /\ more[n + 1] = rec /\ \A i \in 1 .. n : more[i] = recs[i]
  BY AppendProperties, LenProperties
<1> HIDE DEF n, more
<1> DEFINE g == [i \in 1 .. n + 2 |-> IF i = n + 2 THEN U ELSE h[i]]
<1>3. g \in [1 .. n + 2 -> Storage] /\ g[n + 2] = U /\ g[1] = h[1]
      /\ \A i \in 1 .. n + 1 : g[i] = h[i]
  BY <1>1, <1>2
<1> HIDE DEF g
<1>4. ASSUME NEW i \in 1 .. n + 1
      PROVE  Replays(At(g[i], more[i].index), more[i].ops, g[i + 1])
  <2>1. CASE i = n + 1
    <3>1. h[n + 1] \in Storage /\ g[i] = h[n + 1] /\ rec.index \in Nat /\ g[i + 1] = U
      BY <1>1, <1>2, <1>3, <2>1 DEF Record
    <3>2. Like(At(h[n + 1], rec.index), At(T, rec.index))
      BY <1>1, <3>1, AtLike, LikeTrans
    <3> QED
      BY <1>2, <2>1, <3>1, <3>2, ReplaysLike, LikeTrans
  <2>2. CASE i # n + 1
    <3>1. i \in 1 .. n /\ i + 1 \in 1 .. n + 1
      BY <1>2, <2>2
    <3> QED
      BY <1>1, <1>2, <1>3, <3>1
  <2> QED
    BY <2>1, <2>2
<1>5. Like(g[1], S) /\ Like(U, g[n + 2])
  BY <1>1, <1>3, LikeTrans
<1>6. Len(more) + 1 = n + 2
  BY <1>2
<1>7. Remaining(S, more, 1, U)
  BY <1>2, <1>3, <1>4, <1>5, <1>6 DEF Remaining
<1> QED
  BY <1>7 DEF more

LEMMA RemainingLike ==
  ASSUME NEW S, NEW T, NEW recs, NEW k, Remaining(S, recs, k, T), NEW U, Like(U, S), NEW V, Like(V, T)
  PROVE  Remaining(U, recs, k, V)
<1>1. PICK h \in [k .. Len(recs) + 1 -> Storage] :
        /\ Like(h[k], S) /\ Like(T, h[Len(recs) + 1])
        /\ \A i \in k .. Len(recs) : Replays(At(h[i], recs[i].index), recs[i].ops, h[i + 1])
  BY DEF Remaining
<1>2. Like(h[k], U) /\ Like(V, h[Len(recs) + 1])
  BY <1>1, LikeTrans
<1> QED
  BY <1>1, <1>2 DEF Remaining

-----------------------------------------------------------------------------
(* What may be asked for.  No create is refused after it was logged:       *)
(* nothing is created on its own below a path that can have an owner, since*)
(* that is logged before the owner is looked at, and no such path is       *)
(* deleted on its own, since replay leaves it in the index.                *)
Settled ==
  /\ NoAliases /\ Faults = {}
  /\ \A r \in Alone("create") : r.path \in Proper => Parent[r.path] \notin OwnedPaths
  /\ \A r \in Alone("delete") : r.path \notin OwnedPaths

(* And all that is logged is done, all that is done is logged: not so the  *)
(* deletion of the root, which is logged, and Close, which is not and must *)
(* have nothing to take with it.                                           *)
Restartable ==
  /\ Settled
  /\ \A r \in Alone("delete") : r.path # Root
  /\ Alone("close") # {} => OwnedPaths = {}

(* The name a sequential create gets next is free: it is chosen, and found *)
(* taken, after the create is logged.                                      *)
NamesFree ==
  \A r \in Alone("create") :
    r.seq /\ Exists(st, Parent[r.path]) => ~Exists(st, CreatedPath(st, r))

(* Numbered nodes leave the next number free.                              *)
LEMMA NumberedNamesFree == ASSUME TypeOK, TreesNumbered PROVE NamesFree
<1> SUFFICES ASSUME NEW r \in Alone("create"), r.seq, Exists(st, Parent[r.path]),
                    Exists(st, CreatedPath(st, r))
             PROVE  FALSE
  BY DEF NamesFree
<1>1. r.path \in Prefix /\ Parent[r.path] \in Path
  BY RequestType, SuffixedType, SuffixAssumption, PathAssumption DEF Alone, CreateOp
<1>2. /\ st.map[Parent[r.path]].cversion \in Cversion
      /\ st.map[Parent[r.path]].cversion \in Int /\ Numbered(st)
  BY <1>1, CversionOf, TreesType DEF TreesNumbered
<1>3. CreatedPath(st, r) = Suffixed[r.path][st.map[Parent[r.path]].cversion]
  BY DEF CreatedPath
<1>4. ~Exists(st, Suffixed[r.path][st.map[Parent[r.path]].cversion])
  BY <1>1, <1>2 DEF Numbered
<1> QED
  BY <1>3, <1>4

(* What has been carried out can be replayed, and comes to the same.       *)
LEMMA CarriedReplays ==
  ASSUME Restartable, NEW S \in Storage, Good(S), Listed(S), NEW prim \in Loggable,
         NEW T, Carried(S, prim, T)
  PROVE  MustReplay(S, prim) /\ Like(T, Replayed(S, prim))
<1>0. prim \in Primitive
  BY LoggableType
<1>1. CASE prim.op = "create" /\ CreateError(S, prim) = "Ok" /\ Like(T, Create(S, prim, prim.sid))
  <2>1. Replayed(S, prim) = Create(S, prim, prim.sid)
    BY <1>1 DEF Replayed
  <2> QED
    BY <1>1, <2>1 DEF MustReplay, CanReplay
<1>2. CASE prim.op = "set" /\ Exists(S, prim.path) /\ Like(T, SetData(S, prim.path, prim.data))
  <2>1. Replayed(S, prim) = SetData(S, prim.path, prim.data)
    BY <1>2 DEF Replayed
  <2> QED
    BY <1>2, <2>1 DEF MustReplay, CanReplay
<1>3. CASE /\ prim.op \in {"delete", "multi_delete"}
           /\ Exists(S, prim.path) /\ S.map[prim.path].children = {}
           /\ prim.op = "multi_delete" => prim.path # Root
           /\ Like(T, Deleted(S, prim.path))
  <2>1. prim.path \in Path /\ S.map[prim.path].owner \in Sid \cup {NoOwner}
        /\ prim.path \in Proper \cup {Root}
    BY <1>0, <1>3, PrimitiveType, ExistingType
  <2>2. prim.op = "delete" => prim.path \notin OwnedPaths /\ prim.path # Root
    BY LoggableOp DEF LogDelete, Restartable, Settled
  <2>3. Deletable(S, prim.path)
    BY <1>3, <2>1, <2>2 DEF Deletable
  <2>4. Deleted(S, prim.path) =
          RemoveEphemeral(Remove(S, {prim.path}), S.map[prim.path].owner, prim.path)
    BY <2>3 DEF Deleted, TryDelete
  <2>5. CASE prim.op = "delete"
    <3>1. S.map[prim.path].owner = NoOwner
      BY <1>3, <2>1, <2>2, <2>5 DEF Good, Owned, Listed
    <3>2. Replayed(S, prim) = Remove(S, {prim.path})
      BY <2>5 DEF Replayed
    <3> QED
      BY <1>3, <2>3, <2>4, <2>5, <3>1, <3>2 DEF RemoveEphemeral, MustReplay, CanReplay
  <2>6. CASE prim.op = "multi_delete"
    <3>1. Replayed(S, prim) =
            RemoveEphemeral(Remove(S, {prim.path}), S.map[prim.path].owner, prim.path)
      BY <2>6 DEF Replayed
    <3> QED
      BY <1>3, <2>3, <2>4, <2>6, <3>1 DEF MustReplay, CanReplay
  <2> QED
    BY <1>3, <2>5, <2>6
<1>4. CASE prim.op = "open" /\ Like(T, S)
  <2>1. Replayed(S, prim) = RestoreSession(S, prim.sid)
    BY <1>4 DEF Replayed
  <2>2. Like(S, RestoreSession(S, prim.sid))
    BY DEF RestoreSession, Storage, Like
  <2> QED
    BY <1>4, <2>1, <2>2, LikeTrans DEF MustReplay, CanReplay
<1>5. CASE /\ prim.op = "close"
           /\ \E D \in Reapable(S, S.eph[prim.sid]) : Like(T, Remove(DropSession(S, prim.sid), D))
  <2>1. PICK D \in Reapable(S, S.eph[prim.sid]) : Like(T, Remove(DropSession(S, prim.sid), D))
    BY <1>5
  <2>2. prim.sid \in Sid /\ S.eph[prim.sid] \in SUBSET Path
    BY <1>0, <1>5, PrimitiveType DEF Storage
  <2>3. ASSUME NEW p \in S.eph[prim.sid] PROVE Deletable(S, p)
    <3>1. Exists(S, p) /\ S.map[p].owner = prim.sid /\ prim.sid # NoOwner
      BY <2>2, <2>3, BoundAssumption DEF Listed, Sid, NoOwner
    <3>2. S.map[p].children = {} /\ p \in Proper
      BY <2>2, <3>1, ExistingType DEF Good, Owned
    <3> QED
      BY <3>1, <3>2 DEF Deletable
  <2>4. D = S.eph[prim.sid]
    BY <2>3 DEF Reapable
  <2>5. Replayed(S, prim) = Remove(DropSession(S, prim.sid), S.eph[prim.sid])
    BY <1>5 DEF Replayed
  <2> QED
    BY <1>5, <2>1, <2>3, <2>4, <2>5 DEF MustReplay
<1> QED
  BY <1>1, <1>2, <1>3, <1>4, <1>5 DEF Carried

(* No create is refused once it has been logged.                           *)
LEMMA NeverLate ==
  ASSUME Settled, TypeOK, Good(st), Listed(st), NamesFree, NEW prim
  PROVE  ~Late(prim)
<1> SUFFICES ASSUME NEW op \in Alone("create"), CreatePrecheck(op) = "Ok",
                    CreateError(st, op) # "Ok"
             PROVE  FALSE
  BY DEF Late
<1>1. /\ op.path \in Proper /\ Exists(st, Parent[op.path]) /\ ~Exists(st, op.path)
      /\ Parent[op.path] \in Path /\ st \in Storage
  BY PathAssumption DEF CreatePrecheck, TypeOK
<1>2. st.map[Parent[op.path]].owner = NoOwner
  BY <1>1, ExistingType DEF Settled, Good, Owned, Listed
<1>3. ~Exists(st, CreatedPath(st, op))
  BY <1>1 DEF CreatedPath, NamesFree
<1> QED
  BY <1>1, <1>2, <1>3 DEF CreateError

(* A Close of a session that owns nothing leaves the tree as it was.       *)
LEMMA LeftAlike ==
  ASSUME Restartable, TypeOK, Listed(st), Left
  PROVE  Like(st', st)
<1>1. PICK s \in Sid : Carried(st, LogClose(s), st')
  BY DEF Left
<1>2. LogClose(s).op = "close" /\ LogClose(s).sid = s /\ st \in Storage /\ OwnedPaths = {}
  BY DEF LogClose, TypeOK, Left, Restartable
<1>3. PICK D \in Reapable(st, st.eph[s]) : Like(st', Remove(DropSession(st, s), D))
  BY <1>1, <1>2 DEF Carried
<1>4. st.eph[s] = {}
  BY <1>2 DEF Listed
<1>5. D = {}
  BY <1>4 DEF Reapable
<1>6. /\ DropSession(st, s) \in Storage /\ DropSession(st, s).map = st.map
      /\ DropSession(st, s).zxid = st.zxid
  BY <1>2, DropSessionType, SameMaps, SameZxid
<1>7. DropSession(st, s).eph = st.eph
  <2>1. DropSession(st, s).eph = [st.eph EXCEPT ![s] = {}] /\ st.eph \in [Sid -> SUBSET Path]
    BY <1>2 DEF DropSession, Storage
  <2> QED
    BY <1>4, <2>1
<1>8. Remove(DropSession(st, s), {}).map = DropSession(st, s).map
      /\ Remove(DropSession(st, s), {}).eph = DropSession(st, s).eph
      /\ Remove(DropSession(st, s), {}).zxid = DropSession(st, s).zxid
  BY <1>6, RemoveNone, RemoveMap
<1> QED
  BY <1>3, <1>5, <1>6, <1>7, <1>8 DEF Like
-----------------------------------------------------------------------------
(* While the server is up, its segments replay to the tree it holds, and   *)
(* what a Multi has staged replays from there to its clone; while it       *)
(* replays, the segments lead from nothing to the tree the crash found, and*)
(* what is left of them and of the record from the storage there is.       *)
RestartInv ==
  /\ phase # "panicked" /\ buf = <<>>
  /\ phase = "up" =>
       /\ Remaining(NewStorage, disk, 1, st)
       /\ multi # NoMulti => Replays(At(st, multi.staged.zxid), multi.log, multi.staged)
  /\ phase = "replaying" =>
       \E T, U \in Storage : /\ Remaining(NewStorage, disk, 1, T) /\ T.map = lost
                             /\ Replays(st, pend, U) /\ Remaining(U, disk, pos, T)

(* The tree and the zxid hold still, and so does what leads to them.       *)
LEMMA StillRestarts ==
  ASSUME RestartInv, phase = "up", phase' = "up", UNCHANGED log, Like(st', st),
         multi' = NoMulti
  PROVE  RestartInv'
<1>1. Remaining(NewStorage, disk', 1, st')
  BY LikeTrans, RemainingLike DEF RestartInv, log
<1> QED
  BY <1>1 DEF RestartInv, log

(* A record flushed, whose operations lead from the tree to the next one.  *)
LEMMA RecordRestarts ==
  ASSUME TypeOK, RestartInv, phase = "up", phase' = "up", multi' = NoMulti,
         NEW ops \in Seq(Primitive), FlushOk(Rec(st.zxid + 1, ops)), st' \in Storage,
         Replays(At(st, st.zxid + 1), ops, st')
  PROVE  RestartInv'
<1> DEFINE rec == Rec(st.zxid + 1, ops)
<1>1. rec \in Record /\ rec.index = st.zxid + 1 /\ rec.ops = ops
  <2>1. st.zxid + 1 \in Nat
    BY BumpIsAt DEF TypeOK
  <2> QED
    BY <2>1 DEF Rec, Record
<1>2. buf = <<>> /\ buf' = <<>> /\ disk \in Seq(Record) /\ st \in Storage
  BY DEF RestartInv, FlushOk, TypeOK
<1>3. disk' = Append(disk, rec)
  <2>1. disk' = disk \o Append(buf, rec)
    BY DEF FlushOk
  <2>2. disk' = Append(disk \o buf, rec)
    BY <1>1, <1>2, <2>1, AppendToBuffer DEF TypeOK
  <2> QED
    BY <1>2, <2>2, ConcatEmptySeq
<1> HIDE DEF rec
<1>4. Remaining(NewStorage, disk', 1, st')
  BY <1>1, <1>2, <1>3, RemainingMore DEF RestartInv
<1> QED
  BY <1>2, <1>4 DEF RestartInv

LEMMA WroteRestarts ==
  ASSUME Restartable, TypeOK, TreesGood, TreesListed, NamesFree, RestartInv, Wrote,
         st' \in Storage
  PROVE  RestartInv'
<1> DEFINE S == At(st, st.zxid + 1)
<1>1. st \in Storage /\ Good(st) /\ Listed(st)
  BY TreesType DEF TreesGood, TreesListed
<1>2. S \in Storage /\ S = Bump(st) /\ S.map = st.map /\ S.eph = st.eph
  BY <1>1, BumpIsAt, AtType
<1>3. Good(S) /\ Listed(S)
  BY <1>1, <1>2, SameGood, SameListed
<1>4. \A rec : ~FlushFails(rec)
  BY DEF FlushFails, WriteFails, SyncFails, RotateFails, Restartable, Settled
<1>5. PICK prim \in Loggable : Refused(prim) \/ Done(prim)
  BY DEF Wrote
<1>6. /\ Carried(Bump(st), prim, st') /\ FlushOk(Next1(prim))
      /\ phase = "up" /\ phase' = "up" /\ multi' = NoMulti
  BY <1>1, <1>4, <1>5, NeverLate DEF Restartable, Refused, Done, Idle
<1>7. MustReplay(S, prim) /\ Like(st', Replayed(S, prim)) /\ prim \in Primitive
  BY <1>2, <1>3, <1>6, CarriedReplays, LoggableType
<1> HIDE DEF S
<1>8. <<>> \in Seq(Primitive) /\ Append(<<>>, prim) = <<prim>> /\ <<prim>> \in Seq(Primitive)
  BY <1>7
<1>9. Replays(S, <<>>, S)
  BY <1>2, ReplaysNothing, LikeTrans
<1>10. Replays(S, <<prim>>, st')
  BY <1>2, <1>7, <1>8, <1>9, ReplaysMore
<1> QED
  BY <1>6, <1>8, <1>10, RecordRestarts DEF S, Next1

LEMMA BeginMultiRestarts ==
  ASSUME TypeOK, RestartInv, NEW s \in Sid, NEW req \in Requests, BeginMulti(s, req)
  PROVE  RestartInv'
<1> DEFINE now == Touch(st, s)
<1>1. /\ phase = "up" /\ phase' = "up" /\ UNCHANGED log /\ st' = now
      /\ multi'.staged = Bump(now) /\ multi'.log = <<>>
  BY DEF BeginMulti, Ready, replay
<1>2. now \in Storage /\ Like(now, st) /\ Bump(now) \in Storage
  BY TouchedType, LikeSame DEF TypeOK
<1> HIDE DEF now
<1>3. Bump(now) = At(now, Bump(now).zxid)
  <2>1. Bump(now) = At(now, now.zxid + 1) /\ now.zxid + 1 \in Nat
    BY <1>2, BumpIsAt
  <2>2. At(now, now.zxid + 1).zxid = now.zxid + 1
    BY <1>2, <2>1, AtType
  <2> QED
    BY <2>1, <2>2
<1>4. Remaining(NewStorage, disk', 1, st')
  BY <1>1, <1>2, LikeTrans, RemainingLike DEF RestartInv, log
<1>5. Replays(At(st', multi'.staged.zxid), multi'.log, multi'.staged)
  BY <1>1, <1>2, <1>3, ReplaysNothing, LikeTrans
<1> QED
  BY <1>1, <1>4, <1>5 DEF RestartInv, log

LEMMA StageMultiRestarts ==
  ASSUME Restartable, TypeOK, LogKnown, TreesGood, TreesListed, RestartInv, StageMulti
  PROVE  RestartInv'
<1> DEFINE op == Head(multi.todo)
           S == multi.staged
           T == Stage(S, op, multi.sid)
           more == StagedLog(op, multi.sid)
<1>1. /\ multi \in Job /\ S \in Storage /\ S \in Trees /\ multi.sid \in Sid
      /\ multi.todo \in Seq(Staged) /\ multi.log \in Seq(Primitive)
      /\ phase = "up" /\ st \in Storage
  BY DEF TypeOK, Job, Trees, LogKnown, StageMulti, Staging
<1>2. op \in Staged /\ op \in MultiOp /\ MultiError(S, op) = "Ok"
  BY <1>1, AskedType, HeadTailProperties DEF StageMulti
<1>3. /\ multi'.staged = T /\ multi'.log = multi.log \o more
      /\ st' = st /\ UNCHANGED log /\ phase' = "up"
  BY <1>1 DEF StageMulti, Job, replay
<1>4. Good(S) /\ Listed(S)
  BY <1>1 DEF TreesGood, TreesListed
<1>5. T \in Storage
  BY <1>1, <1>2, StageType
<1>6. \/ T = S /\ more = <<>>
      \/ \E prim \in Loggable : more = <<prim>> /\ Carried(S, prim, T)
  BY <1>1, <1>2, StageCarries
<1>7. T.zxid = S.zxid
  BY <1>1, <1>6, LoggableType, CarriedZxid
<1>8. Replays(At(st, S.zxid), multi.log, S)
  BY <1>1 DEF RestartInv, StageMulti, Staging
<1> HIDE DEF op, S, T, more
<1>9. Replays(At(st, S.zxid), multi.log \o more, T)
  <2>1. CASE T = S /\ more = <<>>
    BY <1>1, <1>8, <2>1, ConcatEmptySeq
  <2>2. CASE \E prim \in Loggable : more = <<prim>> /\ Carried(S, prim, T)
    <3>1. PICK prim \in Loggable : more = <<prim>> /\ Carried(S, prim, T)
      BY <2>2
    <3>2. prim \in Primitive /\ MustReplay(S, prim) /\ Like(T, Replayed(S, prim))
      BY <1>1, <1>4, <3>1, CarriedReplays, LoggableType
    <3>3. Replays(At(st, S.zxid), Append(multi.log, prim), T)
      BY <1>1, <1>5, <1>8, <3>2, ReplaysMore
    <3>4. multi.log \o <<prim>> = Append(multi.log, prim)
      BY <1>1, <3>2
    <3> QED
      BY <3>1, <3>3, <3>4
  <2> QED
    BY <1>6, <2>1, <2>2
<1>10. Replays(At(st', multi'.staged.zxid), multi'.log, multi'.staged)
  BY <1>3, <1>7, <1>9
<1> QED
  BY <1>1, <1>3, <1>10 DEF RestartInv, log

LEMMA CommitMultiRestarts ==
  ASSUME TypeOK, MultiInStep, RestartInv, CommitMulti, st' \in Storage
  PROVE  RestartInv'
<1>1. phase = "up" /\ phase' = "up" /\ multi' = NoMulti /\ multi # NoMulti
      /\ multi.log \in Seq(Primitive) /\ st' = multi.staged
  BY DEF TypeOK, CommitMulti, Staging, Job, replay
<1>2. multi.staged.zxid = st.zxid + 1 /\ FlushOk(Rec(st.zxid + 1, multi.log))
  BY <1>1 DEF CommitMulti, MultiInStep, MultiRec
<1>3. Replays(At(st, st.zxid + 1), multi.log, st')
  BY <1>1, <1>2 DEF RestartInv
<1> QED
  BY <1>1, <1>2, <1>3, RecordRestarts

LEMMA CrashRestarts == ASSUME TypeOK, RestartInv, Crash PROVE RestartInv'
<1>1. /\ phase' = "replaying" /\ st' = NewStorage /\ buf' = <<>> /\ pos' = 1 /\ pend' = <<>>
      /\ lost' = (IF phase = "up" THEN st.map ELSE lost) /\ disk' = disk
  BY DEF Crash, LoseMemory
<1>2. NewStorage \in Storage /\ st \in Storage /\ phase \in {"up", "replaying"}
  BY NewStorageType DEF TypeOK, RestartInv
<1>3. PICK T \in Storage : Remaining(NewStorage, disk, 1, T) /\ T.map = lost'
  BY <1>1, <1>2 DEF RestartInv
<1>4. Replays(NewStorage, <<>>, NewStorage)
  BY <1>2, ReplaysNothing, LikeTrans
<1> QED
  BY <1>1, <1>2, <1>3, <1>4 DEF RestartInv

LEMMA ReplayRecordRestarts == ASSUME TypeOK, RestartInv, ReplayRecord PROVE RestartInv'
<1>1. /\ phase = "replaying" /\ phase' = "replaying" /\ buf' = buf /\ disk' = disk
      /\ lost' = lost /\ pend = <<>> /\ pend' = disk[pos].ops /\ pos' = pos + 1
      /\ st' = At(st, disk[pos].index)
  BY DEF ReplayRecord, log, At
<1>2. st \in Storage /\ disk \in Seq(Record) /\ pos \in 1 .. Len(disk)
  <2>1. Len(disk) \in Nat /\ pos \in Nat \ {0} /\ pos <= Len(disk) /\ disk \in Seq(Record)
    BY LenProperties DEF TypeOK, ReplayRecord
  <2> QED
    BY <2>1 DEF TypeOK
<1>3. PICK T \in Storage, U \in Storage :
        /\ Remaining(NewStorage, disk, 1, T) /\ T.map = lost
        /\ Replays(st, <<>>, U) /\ Remaining(U, disk, pos, T)
  BY <1>1 DEF RestartInv
<1>4. Like(st, U)
  BY <1>2, <1>3, ReplaysNothing, LikeTrans
<1>5. Remaining(st, disk, pos, T)
  BY <1>3, <1>4, RemainingLike, LikeTrans
<1>6. PICK V \in Storage : /\ Replays(At(st, disk[pos].index), disk[pos].ops, V)
                           /\ Remaining(V, disk, pos + 1, T)
  BY <1>2, <1>5, RemainingFirst
<1>7. /\ Remaining(NewStorage, disk', 1, T) /\ T.map = lost'
      /\ Replays(st', pend', V) /\ Remaining(V, disk', pos', T)
  BY <1>1, <1>3, <1>6
<1>8. phase' # "panicked" /\ phase' # "up" /\ buf' = <<>>
  BY <1>1 DEF RestartInv
<1> QED
  BY <1>7, <1>8 DEF RestartInv

(* The next operation of a record can always be replayed.                  *)
LEMMA NextOpReplays ==
  ASSUME TypeOK, RestartInv, phase = "replaying", pend # <<>>
  PROVE  /\ MustReplay(st, Head(pend))
         /\ \E T, U \in Storage : /\ Remaining(NewStorage, disk, 1, T) /\ T.map = lost
                                 /\ Replays(Replayed(st, Head(pend)), Tail(pend), U)
                                 /\ Remaining(U, disk, pos, T)
<1>1. st \in Storage /\ pend \in Seq(Primitive)
  BY DEF TypeOK
<1>2. PICK T \in Storage, U \in Storage :
        /\ Remaining(NewStorage, disk, 1, T) /\ T.map = lost
        /\ Replays(st, pend, U) /\ Remaining(U, disk, pos, T)
  BY DEF RestartInv
<1>3. MustReplay(st, Head(pend)) /\ Replays(Replayed(st, Head(pend)), Tail(pend), U)
  BY <1>1, <1>2, ReplaysFirst
<1> QED
  BY <1>2, <1>3

LEMMA ReplayOpRestarts == ASSUME TypeOK, RestartInv, ReplayOp PROVE RestartInv'
<1>1. /\ phase = "replaying" /\ phase' = "replaying" /\ buf' = buf /\ disk' = disk
      /\ lost' = lost /\ pend # <<>> /\ pend' = Tail(pend) /\ pos' = pos
      /\ st' = Replayed(st, Head(pend))
  BY DEF ReplayOp, log
<1>2. PICK T \in Storage, U \in Storage :
        /\ Remaining(NewStorage, disk', 1, T) /\ T.map = lost'
        /\ Replays(st', pend', U) /\ Remaining(U, disk', pos', T)
  BY <1>1, NextOpReplays
<1>3. phase' # "panicked" /\ phase' # "up" /\ buf' = <<>>
  BY <1>1 DEF RestartInv
<1> QED
  BY <1>2, <1>3 DEF RestartInv

(* At the end of the segments nothing remains: the tree is the lost one.   *)
RestoresTree == phase = "replaying" /\ phase' = "up" => st'.map = lost

LEMMA RestartedRestores ==
  ASSUME TypeOK, LogInv, MultiInStep, RestartInv, Restarted
  PROVE  RestartInv' /\ st'.map = lost
<1>1. /\ phase = "replaying" /\ phase' = "up" /\ buf' = buf /\ disk' = disk
      /\ st' = st /\ multi' = multi /\ pend = <<>> /\ multi = NoMulti
  BY DEF Restarted, log, MultiInStep
<1>2. st \in Storage /\ disk \in Seq(Record) /\ pos = Len(disk) + 1
  <2>1. Len(disk) \in Nat /\ pos \in Nat \ {0} /\ pos > Len(disk) /\ disk \in Seq(Record)
        /\ pos <= Len(disk) + 1
    BY LenProperties DEF TypeOK, Restarted, LogInv
  <2> QED
    BY <2>1 DEF TypeOK
<1>3. PICK T \in Storage, U \in Storage :
        /\ Remaining(NewStorage, disk, 1, T) /\ T.map = lost
        /\ Replays(st, <<>>, U) /\ Remaining(U, disk, Len(disk) + 1, T)
  BY <1>1, <1>2 DEF RestartInv
<1>4. Like(st, T)
  BY <1>2, <1>3, ReplaysNothing, RemainingNone, LikeTrans
<1>5. Remaining(NewStorage, disk', 1, st')
  BY <1>1, <1>3, <1>4, RemainingLike, LikeTrans
<1> QED
  BY <1>1, <1>3, <1>4, <1>5 DEF RestartInv, Like

LEMMA NextRestarts ==
  ASSUME Restartable, TypeOK, TypeOK', LogKnown, MultiInStep, LogInv, TreesGood, TreesListed,
         NamesFree, RestartInv, [Next]_vars
  PROVE  RestartInv' /\ RestoresTree
<1>0. st \in Storage /\ st' \in Storage /\ Listed(st)
  BY TreesType DEF TypeOK, TreesListed
<1>1. CASE Quiet \/ Left \/ Wrote
  <2>1. phase = "up" /\ phase' = "up" /\ multi' = NoMulti
    BY <1>1 DEF Quiet, Left, Wrote, Refused, Done, Idle
  <2>2. CASE Quiet
    BY <2>1, <2>2, StillRestarts DEF Quiet, RestoresTree
  <2>3. CASE Left
    BY <1>0, <2>1, <2>3, LeftAlike, StillRestarts DEF Left, RestoresTree
  <2>4. CASE Wrote
    BY <1>0, <2>1, <2>4, WroteRestarts DEF RestoresTree
  <2> QED
    BY <1>1, <2>2, <2>3, <2>4
<1>2. ASSUME NEW s \in conns, NEW req \in Requests, Serve(s, req)
      PROVE  RestartInv' /\ RestoresTree
  <2>1. s \in Sid
    BY DEF TypeOK
  <2>2. CASE BeginMulti(s, req)
    BY <2>1, <2>2, BeginMultiRestarts DEF RestoresTree, BeginMulti, Ready
  <2> QED
    BY <1>1, <1>2, <2>1, <2>2, ServeSteps
<1>3. CASE Connect \/ \E s \in Sid : CloseExpired(s)
  BY <1>1, <1>3, SessionSteps
<1>4. CASE StageMulti
  BY <1>4, StageMultiRestarts DEF RestoresTree, StageMulti, Staging
<1>5. CASE CommitMulti
  BY <1>0, <1>5, CommitMultiRestarts DEF RestoresTree, CommitMulti, Staging
<1>6. CASE AbortMulti
  BY <1>6, StillRestarts, LikeTrans DEF RestoresTree, AbortMulti, Staging, replay
<1>7. CASE AbortProcess
  BY <1>7 DEF AbortProcess, Restartable, Settled
<1>8. CASE Crash
  BY <1>8, CrashRestarts DEF RestoresTree, Crash, LoseMemory
<1>9. CASE ReplayRecord
  BY <1>9, ReplayRecordRestarts DEF RestoresTree, ReplayRecord
<1>10. CASE ReplayOp
  BY <1>10, ReplayOpRestarts DEF RestoresTree, ReplayOp
<1>11. CASE ReplayPanics
  BY <1>11, NextOpReplays DEF ReplayPanics
<1>12. CASE Restarted
  BY <1>12, RestartedRestores DEF RestoresTree
<1>13. CASE Sweep \/ (\E s \in Sid : Disconnect(s)) \/ UNCHANGED vars
  <2>1. UNCHANGED <<st, multi, log, replay>>
    BY <1>13 DEF Sweep, Disconnect, vars, log, replay
  <2> QED
    BY <2>1 DEF RestartInv, RestoresTree, log, replay
<1> QED
  BY <1>2, <1>3, <1>4, <1>5, <1>6, <1>7, <1>8, <1>9, <1>10, <1>11, <1>12, <1>13 DEF Next

LEMMA InitRestarts == Init => RestartInv
<1> SUFFICES ASSUME Init PROVE RestartInv
  OBVIOUS
<1>1. /\ NewStorage \in Storage /\ disk = <<>> /\ disk \in Seq(Record) /\ Len(disk) = 0
      /\ st = NewStorage /\ pend = <<>> /\ pos = 1 /\ lost = NewStorage.map
  BY NewStorageType, EmptySeq DEF Init
<1>2. Replays(NewStorage, <<>>, NewStorage) /\ Remaining(NewStorage, disk, 1, NewStorage)
  <2>1. Remaining(NewStorage, disk, Len(disk) + 1, NewStorage)
    BY <1>1, RemainingNone, LikeTrans
  <2> QED
    BY <1>1, <2>1, ReplaysNothing, LikeTrans
<1> QED
  BY <1>1, <1>2 DEF Init, RestartInv

LEMMA AlwaysRestarts ==
  ASSUME Restartable
  PROVE  Spec /\ []NamesFree => []RestartInv /\ [][RestoresTree]_vars
<1>1. /\ TypeOK /\ TypeOK' /\ LogKnown /\ MultiInStep /\ LogInv /\ TreesGood /\ TreesListed
      /\ NamesFree /\ RestartInv /\ [Next]_vars
      => RestartInv' /\ RestoresTree
  BY NextRestarts
<1>2. (Spec => []LogInv) /\ (Spec => []TreesGood) /\ (Spec => []TreesListed)
  <2>1. NoAliases /\ "sync" \notin Faults /\ \A r \in Alone("delete") : r.path \notin OwnedPaths
    BY DEF Restartable, Settled
  <2> QED
    BY <2>1, AlwaysLogInv, AlwaysGood, AlwaysListed
<1> QED
  BY <1>1, <1>2, InitRestarts, AlwaysKnown, TypeCorrect, PTL DEF Spec

(* The server always starts from the log it wrote: while flushes succeed,  *)
(* nothing that was applied fails when it is replayed, whatever was asked  *)
(* within the bounds of Restartable, and wherever the crash comes.         *)
THEOREM LogNeverPanics ==
  ASSUME Restartable
  PROVE  Spec /\ []NamesFree => []NeverPanics
<1>1. RestartInv => NeverPanics
  BY DEF RestartInv, NeverPanics
<1> QED
  BY <1>1, AlwaysRestarts, PTL

(* Under the same conditions a restart ends with the tree the crash found, *)
(* stamps, versions and owners included: what the handlers, the Multis and *)
(* the expiries made of the tree is what replay makes of the log.          *)
THEOREM RestartAlwaysRestores ==
  ASSUME Restartable
  PROVE  Spec /\ []NamesFree => RestartRestoresTree
<1>1. RestoresTree => (Restarting => st'.map = lost)
  BY DEF RestoresTree, Restarting
<1> QED
  BY <1>1, AlwaysRestarts, PTL DEF RestartRestoresTree

(* In particular every persistent node comes back, and no node comes back  *)
(* that the crash did not find: none of a session that had expired, none   *)
(* that a Multi had deleted.                                               *)
THEOREM PersistentAlwaysRestored ==
  ASSUME Restartable
  PROVE  Spec /\ []NamesFree => PersistentNodesRestored
<1> DEFINE Back ==
      Restarting => \A p \in Path :
        /\ lost[p] # NoNode /\ lost[p].owner = NoOwner => Exists(st', p)
        /\ Exists(st', p) =>
             /\ lost[p] # NoNode
             /\ \A field \in {"data", "version", "owner", "czxid", "mzxid"} :
                  st'.map[p][field] = lost[p][field]
<1>1. RestoresTree => Back
  BY DEF RestoresTree, Restarting, Exists
<1> HIDE DEF Back
<1>2. Spec /\ []NamesFree => [][Back]_vars
  BY <1>1, AlwaysRestarts, PTL
<1> QED
  BY <1>2 DEF PersistentNodesRestored, Back

(* The names of sequential nodes are free as long as no parent's count has *)
(* wrapped, so that the two theorems hold of every server whose directories*)
(* have seen less than 2^31 changes.                                       *)
THEOREM NamesAlwaysFree ==
  ASSUME NoAliases, NamesDiffer, "sync" \notin Faults
  PROVE  Spec /\ []Unwrapped => []NamesFree
<1>1. TypeOK /\ TreesNumbered => NamesFree
  BY NumberedNamesFree
<1> QED
  BY <1>1, AlwaysNumbered, TypeCorrect, PTL

-----------------------------------------------------------------------------
(* Refusals.  Only a flush that fails and a create that comes late answer  *)
(* with an error after something has been written.                         *)
NothingDone == st'.map = st.map /\ st'.zxid = st.zxid /\ st'.eph = st.eph /\ UNCHANGED <<disk, buf>>

LEMMA NextRefuses ==
  ASSUME Settled, TypeOK, TreesGood, TreesListed, NamesFree, Next,
         Serving, reply' \notin {"Ok", "none"}
  PROVE  NothingDone
<1>1. CASE \E s \in conns, req \in Requests : Serve(s, req)
  <2>1. PICK s \in conns, req \in Requests : Serve(s, req)
    BY <1>1
  <2>2. s \in Sid
    BY DEF TypeOK
  <2>3. CASE BeginMulti(s, req)
    <3>1. st' = Touch(st, s) /\ UNCHANGED <<disk, buf>>
      BY <2>3 DEF BeginMulti, log
    <3>2. Like(Touch(st, s), st)
      BY <2>2, LikeSame DEF TypeOK
    <3> QED
      BY <3>1, <3>2 DEF NothingDone, Like
  <2>4. CASE Quiet
    BY <2>4 DEF Quiet, Like, NothingDone, log
  <2>5. CASE Left
    BY <2>5 DEF Left
  <2>6. CASE Wrote
    <3>1. PICK prim \in Loggable : Refused(prim) \/ Done(prim)
      BY <2>6 DEF Wrote
    <3>2. ~Late(prim)
      BY TreesType, NeverLate DEF TreesGood, TreesListed
    <3>3. ~FlushFails(Next1(prim))
      BY DEF Settled, FlushFails, WriteFails, SyncFails, RotateFails
    <3> QED
      BY <3>1, <3>2, <3>3 DEF Refused, Done
  <2> QED
    BY <2>1, <2>2, <2>3, <2>4, <2>5, <2>6, ServeSteps
<1>2. CASE StageMulti \/ AbortMulti
  BY <1>2 DEF StageMulti, AbortMulti, NothingDone, log
<1>3. CASE \/ CommitMulti \/ Connect \/ Sweep
           \/ \E s \in Sid : Disconnect(s) \/ CloseExpired(s)
  BY <1>3 DEF CommitMulti, Connect, Sweep, Disconnect, CloseExpired, Answer
<1>4. CASE AbortProcess \/ Crash \/ ReplayRecord \/ ReplayOp \/ ReplayPanics \/ Restarted
  BY <1>4 DEF AbortProcess, Crash, LoseMemory, ReplayRecord, ReplayOp, ReplayPanics, Restarted,
              Serving
<1> QED
  BY <1>1, <1>2, <1>3, <1>4 DEF Next

(* An answer with an error code changed nothing: no node, no index, no     *)
(* zxid, no record, as long as flushes succeed and what is asked for can be*)
(* checked before it is logged.                                            *)
THEOREM RefusedNeverChanges ==
  ASSUME Settled
  PROVE  Spec /\ []NamesFree => RefusedChangesNothing
<1>1. TypeOK /\ TreesGood /\ TreesListed /\ NamesFree /\ [Next]_vars =>
        [Serving /\ reply' \notin {"Ok", "none"} => NothingDone]_vars
  BY NextRefuses
<1>2. (Spec => []TreesGood) /\ (Spec => []TreesListed)
  BY AlwaysGood, AlwaysListed DEF Settled
<1> QED
  BY <1>1, <1>2, TypeCorrect, PTL DEF Spec, RefusedChangesNothing, NothingDone

-----------------------------------------------------------------------------
(* Sessions.  An id stands in the log where it is opened, where it is      *)
(* closed and where it creates, and next_session_id is restored from the   *)
(* first: no id may be in use that the log does not show opened.           *)
Entries(l) == {l[i] : i \in DOMAIN l}

OpenedBy(ops) == {s \in Sid : \E x \in Entries(ops) : x.op = "open" /\ x.sid = s}
UsedBy(ops) ==
  {s \in Sid : \E x \in Entries(ops) : x.op \in {"create", "open", "close"} /\ x.sid = s}

Opened(recs) == {s \in Sid : \E r \in Entries(recs) : s \in OpenedBy(r.ops)}
Used(recs) == {s \in Sid : \E r \in Entries(recs) : s \in UsedBy(r.ops)}

(* What a storage knows of sessions: those that are alive, have nodes in   *)
(* the index or own one; and those with a deadline or a watch.             *)
Ids(S) ==
  S.alive \cup {s \in Sid : S.eph[s] # {}}
  \cup {s \in Sid : \E p \in Path : Exists(S, p) /\ S.map[p].owner = s}
Held(S) == S.queue \cup {s \in Sid : S.watch.rev[s] # {}}

Known == Opened(disk) \cup Opened(buf)

FreshInv ==
  /\ Used(disk) \subseteq Opened(disk) /\ Used(buf) \subseteq Known
  /\ conns \cup doomed \subseteq Known
  /\ \A S \in Trees : Ids(S) \cup Held(S) \subseteq Known
  /\ multi # NoMulti => multi.sid \in Known /\ UsedBy(multi.log) \subseteq Known
  /\ phase = "up" => \A s \in Known : s < st.next
  /\ phase = "replaying" =>
       /\ buf = <<>> /\ UsedBy(pend) \subseteq Known
       /\ \A i \in DOMAIN disk : i < pos =>
            \A s \in OpenedBy(disk[i].ops) : s < st.next \/ s \in OpenedBy(pend)

LEMMA ConcatEntries ==
  ASSUME NEW X, NEW l \in Seq(X), NEW m \in Seq(X)
  PROVE  Entries(l \o m) = Entries(l) \cup Entries(m)
<1> DEFINE a == Len(l)
           b == Len(m)
           c == l \o m
<1>1. /\ a \in Nat /\ b \in Nat /\ DOMAIN l = 1 .. a /\ DOMAIN m = 1 .. b
      /\ DOMAIN c = 1 .. a + b
      /\ \A i \in 1 .. a + b : c[i] = IF i <= a THEN l[i] ELSE m[i - a]
  BY LenProperties, ConcatProperties
<1> HIDE DEF a, b, c
<1>2. \A i \in 1 .. a : c[i] = l[i] /\ i \in 1 .. a + b
  BY <1>1
<1>3. \A i \in 1 .. b : c[i + a] = m[i] /\ i + a \in 1 .. a + b
  BY <1>1
<1>4. \A i \in 1 .. a + b : i \in 1 .. a \/ i - a \in 1 .. b
  BY <1>1
<1>5. ASSUME NEW i \in 1 .. a + b
      PROVE  \/ c[i] = l[i] /\ i \in 1 .. a
             \/ c[i] = m[i - a] /\ i - a \in 1 .. b
  <2>1. CASE i \in 1 .. a
    BY <1>2, <2>1
  <2>2. CASE i \notin 1 .. a
    <3>1. ~(i <= a) /\ i - a \in 1 .. b
      BY <1>1, <1>4, <2>2
    <3> QED
      BY <1>1, <3>1
  <2> QED
    BY <2>1, <2>2
<1>6. Entries(c) = Entries(l) \cup Entries(m)
  <2>1. \A x \in Entries(c) : x \in Entries(l) \cup Entries(m)
    BY <1>1, <1>5 DEF Entries
  <2>2. \A x \in Entries(l) : x \in Entries(c)
    BY <1>1, <1>2 DEF Entries
  <2>3. \A x \in Entries(m) : x \in Entries(c)
    BY <1>1, <1>3 DEF Entries
  <2> QED
    BY <2>1, <2>2, <2>3
<1> QED
  BY <1>6 DEF c

LEMMA AppendEntries ==
  ASSUME NEW X, NEW l \in Seq(X), NEW x \in X
  PROVE  Entries(Append(l, x)) = Entries(l) \cup {x}
<1> DEFINE one == <<x>>
<1>1. one \in Seq(X) /\ Append(l, x) = l \o one
  OBVIOUS
<1>2. Entries(one) = {x}
  BY DEF Entries
<1> HIDE DEF one
<1>3. Entries(l \o one) = Entries(l) \cup Entries(one)
  BY <1>1, ConcatEntries
<1> QED
  BY <1>1, <1>2, <1>3

LEMMA FewEntries ==
  /\ Entries(<<>>) = {}
  /\ \A x : Entries(<<x>>) = {x}
BY DEF Entries

LEMMA TailEntries ==
  ASSUME NEW X, NEW l \in Seq(X), l # <<>>
  PROVE  Entries(l) = {Head(l)} \cup Entries(Tail(l))
<1> DEFINE one == <<Head(l)>>
           rest == Tail(l)
<1>1. rest \in Seq(X) /\ Head(l) \in X /\ l = one \o rest
  OBVIOUS
<1>2. one \in Seq(X) /\ Entries(one) = {Head(l)}
  BY <1>1, FewEntries
<1> HIDE DEF one, rest
<1>3. Entries(one \o rest) = Entries(one) \cup Entries(rest)
  BY <1>1, <1>2, ConcatEntries
<1> QED
  BY <1>1, <1>2, <1>3 DEF rest

(* The ids of a log are those of its parts.                                *)
LEMMA OpsIds ==
  /\ OpenedBy(<<>>) = {} /\ UsedBy(<<>>) = {}
  /\ \A ops : OpenedBy(ops) \subseteq UsedBy(ops)
  /\ \A l \in Seq(Primitive), x \in Primitive :
       /\ OpenedBy(Append(l, x)) = OpenedBy(l) \cup OpenedBy(<<x>>)
       /\ UsedBy(Append(l, x)) = UsedBy(l) \cup UsedBy(<<x>>)
  /\ \A l \in Seq(Primitive) : l # <<>> =>
       /\ OpenedBy(l) = OpenedBy(<<Head(l)>>) \cup OpenedBy(Tail(l))
       /\ UsedBy(l) = UsedBy(<<Head(l)>>) \cup UsedBy(Tail(l))
<1>1. OpenedBy(<<>>) = {} /\ UsedBy(<<>>) = {} /\ \A ops : OpenedBy(ops) \subseteq UsedBy(ops)
  BY FewEntries DEF OpenedBy, UsedBy
<1>2. ASSUME NEW l \in Seq(Primitive), NEW x \in Primitive
      PROVE  /\ OpenedBy(Append(l, x)) = OpenedBy(l) \cup OpenedBy(<<x>>)
             /\ UsedBy(Append(l, x)) = UsedBy(l) \cup UsedBy(<<x>>)
  <2>1. Entries(Append(l, x)) = Entries(l) \cup Entries(<<x>>)
    BY AppendEntries, FewEntries
  <2> QED
    BY <2>1 DEF OpenedBy, UsedBy
<1>3. ASSUME NEW l \in Seq(Primitive), l # <<>>
      PROVE  /\ OpenedBy(l) = OpenedBy(<<Head(l)>>) \cup OpenedBy(Tail(l))
             /\ UsedBy(l) = UsedBy(<<Head(l)>>) \cup UsedBy(Tail(l))
  <2>1. Entries(l) = Entries(<<Head(l)>>) \cup Entries(Tail(l))
    BY <1>3, TailEntries, FewEntries
  <2> QED
    BY <2>1 DEF OpenedBy, UsedBy
<1> QED
  BY <1>1, <1>2, <1>3

LEMMA RecordIds ==
  /\ Opened(<<>>) = {} /\ Used(<<>>) = {}
  /\ \A l \in Seq(Record), m \in Seq(Record) :
       Opened(l \o m) = Opened(l) \cup Opened(m) /\ Used(l \o m) = Used(l) \cup Used(m)
  /\ \A l \in Seq(Record), r \in Record :
       /\ Opened(Append(l, r)) = Opened(l) \cup OpenedBy(r.ops)
       /\ Used(Append(l, r)) = Used(l) \cup UsedBy(r.ops)
  /\ \A l \in Seq(Record) : \A i \in DOMAIN l :
       OpenedBy(l[i].ops) \subseteq Opened(l) /\ UsedBy(l[i].ops) \subseteq Used(l)
<1>0. \A ops : OpenedBy(ops) \subseteq Sid /\ UsedBy(ops) \subseteq Sid
  BY DEF OpenedBy, UsedBy
<1>1. Opened(<<>>) = {} /\ Used(<<>>) = {}
  BY FewEntries DEF Opened, Used
<1>2. ASSUME NEW l \in Seq(Record), NEW m \in Seq(Record)
      PROVE  Opened(l \o m) = Opened(l) \cup Opened(m) /\ Used(l \o m) = Used(l) \cup Used(m)
  <2>1. Entries(l \o m) = Entries(l) \cup Entries(m)
    BY ConcatEntries
  <2> QED
    BY <2>1 DEF Opened, Used
<1>3. ASSUME NEW l \in Seq(Record), NEW r \in Record
      PROVE  /\ Opened(Append(l, r)) = Opened(l) \cup OpenedBy(r.ops)
             /\ Used(Append(l, r)) = Used(l) \cup UsedBy(r.ops)
  <2>1. Entries(Append(l, r)) = Entries(l) \cup {r}
    BY AppendEntries
  <2> QED
    BY <1>0, <2>1 DEF Opened, Used
<1>4. ASSUME NEW l \in Seq(Record), NEW i \in DOMAIN l
      PROVE  OpenedBy(l[i].ops) \subseteq Opened(l) /\ UsedBy(l[i].ops) \subseteq Used(l)
  <2>1. l[i] \in Entries(l)
    BY DEF Entries
  <2> QED
    BY <1>0, <2>1 DEF Opened, Used
<1> QED
  BY <1>1, <1>2, <1>3, <1>4

(* Carrying out a primitive brings no id in but its creator's or the one it*)
(* opens, and next_session_id only goes up, past an id that is opened.     *)
Brought(prim) == {s \in Sid : prim.op \in {"create", "open"} /\ prim.sid = s}

LEMMA CarriedKin ==
  ASSUME NEW S \in Storage, NEW prim \in Primitive, NEW T,
         Carried(S, prim, T) \/ Forgetful(S, prim, T)
  PROVE  /\ T.alive \subseteq S.alive \cup Brought(prim)
         /\ \A s \in OpenedBy(<<prim>>) : s < T.next
         /\ \A n \in Nat : n < S.next => n < T.next
<1>1. /\ OpenedBy(<<prim>>) = {s \in Sid : prim.op = "open" /\ prim.sid = s}
      /\ Brought(prim) = {s \in Sid : prim.op \in {"create", "open"} /\ prim.sid = s}
  BY FewEntries DEF OpenedBy, Brought
<1>2. S.next \in Nat /\ S.alive \subseteq Sid /\ Sid \subseteq Nat
  BY BoundAssumption DEF Storage, Sid
<1>3. CASE Kin(T, S) /\ prim.op # "open"
  BY <1>1, <1>2, <1>3 DEF Kin
<1>4. CASE prim.op = "open" /\ Kin(T, RestoreSession(S, prim.sid))
  <2>1. prim.sid \in Sid
    BY <1>4, PrimitiveType
  <2>2. T.alive = S.alive \cup {prim.sid} /\ T.next = IF prim.sid >= S.next THEN prim.sid + 1 ELSE S.next
    BY <1>4 DEF Kin, RestoreSession, Storage
  <2> DEFINE m == T.next
  <2>3. prim.sid \in Nat /\ m = IF prim.sid >= S.next THEN prim.sid + 1 ELSE S.next
    BY <1>2, <2>1, <2>2
  <2> HIDE DEF m
  <2>4. prim.sid < m /\ \A n \in Nat : n < S.next => n < m
    BY <1>2, <2>3
  <2>5. OpenedBy(<<prim>>) = {prim.sid} /\ prim.sid \in Brought(prim)
    BY <1>1, <1>4, <2>1
  <2> QED
    BY <2>2, <2>4, <2>5 DEF m
<1>5. CASE prim.op = "close" /\ Kin(T, DropSession(S, prim.sid))
  <2>1. T.alive = S.alive \ {prim.sid} /\ T.next = S.next
    BY <1>5 DEF Kin, DropSession, Storage
  <2> QED
    BY <1>1, <1>2, <1>5, <2>1
<1> QED
  BY <1>3, <1>4, <1>5 DEF Carried, Forgetful

LEMMA CarriedIds ==
  ASSUME NEW S \in Storage, NEW prim \in Primitive, NEW T,
         Carried(S, prim, T) \/ Forgetful(S, prim, T)
  PROVE  Ids(T) \subseteq Ids(S) \cup Brought(prim)
<1>1. T.alive \subseteq S.alive \cup Brought(prim)
  BY CarriedKin
<1>2. Brought(prim) = {s \in Sid : prim.op \in {"create", "open"} /\ prim.sid = s}
  BY DEF Brought
<1>3. SUFFICES ASSUME NEW s \in Sid,
                      T.eph[s] # {} \/ \E p \in Path : Exists(T, p) /\ T.map[p].owner = s
               PROVE  s \in Ids(S) \/ s \in Brought(prim)
  BY <1>1 DEF Ids
<1>4. CASE /\ prim.op = "create" /\ CreateError(S, prim) = "Ok"
           /\ Creates(prim) /\ prim.sid \in Sid /\ Like(T, Create(S, prim, prim.sid))
  <2> DEFINE made == CreatedPath(S, prim)
             up == Parent[prim.path]
             U == Create(S, prim, prim.sid)
  <2>1. SUFFICES ASSUME s # prim.sid PROVE s \in Ids(S)
    BY <1>2, <1>4
  <2>2. U.eph[s] = S.eph[s]
    <3>1. \A o \in Sid : o # prim.sid => Create(S, prim, prim.sid).eph[o] = S.eph[o]
      BY DEF Create, Storage
    <3> QED
      BY <2>1, <3>1
  <2>3. /\ S.map[up] \in Node /\ up \in Path /\ Exists(S, up)
        /\ U.map[made] = NewNode(prim, prim.sid, S.zxid)
        /\ U.map[up] = WithChild(S.map[up], ChildName[made], S.zxid)
        /\ \A q \in Path : q # made /\ q # up => U.map[q] = S.map[q]
    BY <1>4, CreateMap
  <2>4. U.map[made].owner \in {prim.sid, NoOwner} /\ U.map[up].owner = S.map[up].owner
    <3>1. U.map[made].owner \in {prim.sid, NoOwner}
      BY <2>3 DEF NewNode
    <3>2. WithChild(S.map[up], ChildName[made], S.zxid).owner = S.map[up].owner
      BY <2>3 DEF WithChild, Node
    <3> QED
      BY <2>3, <3>1, <3>2
  <2>5. s # NoOwner
    BY BoundAssumption DEF Sid, NoOwner
  <2> HIDE DEF U, made, up
  <2>6. ASSUME NEW p \in Path, Exists(U, p), U.map[p].owner = s PROVE s \in Ids(S)
    <3>1. p # made
      BY <2>1, <2>4, <2>5, <2>6
    <3>2. S.map[p].owner = s /\ Exists(S, p)
      BY <2>3, <2>4, <2>6, <3>1 DEF Exists
    <3> QED
      BY <3>2 DEF Ids
  <2>7. T.eph = U.eph /\ T.map = U.map
    BY <1>4 DEF Like, U
  <2> QED
    BY <1>3, <2>2, <2>6, <2>7 DEF Ids, Exists
<1>5. CASE /\ prim.op = "set" /\ Exists(S, prim.path) /\ prim.path \in Path /\ prim.data \in Data
           /\ Like(T, SetData(S, prim.path, prim.data))
  <2> DEFINE U == SetData(S, prim.path, prim.data)
  <2>1. /\ U.eph = S.eph /\ S.map[prim.path] \in Node
        /\ U.map[prim.path] = Written(S.map[prim.path], prim.data, S.zxid)
        /\ \A q \in Path : q # prim.path => U.map[q] = S.map[q]
        /\ \A q \in Path : Exists(U, q) <=> Exists(S, q)
    BY <1>5, SetDataMap
  <2>2. U.map[prim.path].owner = S.map[prim.path].owner
    BY <2>1 DEF Written, Node
  <2>3. T.eph = U.eph /\ T.map = U.map
    BY <1>5 DEF Like
  <2> HIDE DEF U
  <2> QED
    BY <1>3, <2>1, <2>2, <2>3 DEF Ids, Exists
<1>6. CASE \E D \in SUBSET Path : Takes(S, prim, D, T)
  <2>1. PICK D \in SUBSET Path : Takes(S, prim, D, T)
    BY <1>6
  <2> DEFINE U == Remove(S, D)
  <2>2. T.map = U.map /\ T.eph[s] \subseteq S.eph[s]
    BY <2>1 DEF Takes
  <2>3. ASSUME NEW p \in Path, Exists(U, p)
        PROVE  Exists(S, p) /\ U.map[p].owner = S.map[p].owner
    <3>1. /\ Exists(S, p) /\ S.map[p] \in Node
          /\ U.map[p] = IF Orphans(D, p) = {} THEN S.map[p]
                        ELSE WithoutChildren(S.map[p], Orphans(D, p), S.zxid)
      BY <2>3, RemoveMap
    <3> QED
      BY <3>1 DEF WithoutChildren, Node
  <2> HIDE DEF U
  <2> QED
    BY <1>3, <2>2, <2>3 DEF Ids, Exists
<1> QED
  BY <1>4, <1>5, <1>6, CarriedForms

(* Deadlines and watches: touching is for the living, reading for the      *)
(* connected, opening for the next, and everything else only lets go.      *)
LEMMA HeldSame ==
  ASSUME NEW S \in Storage, NEW s \in Sid
  PROVE  /\ Held(Bump(S)) = Held(S) /\ Held(Touch(S, s)) \subseteq Held(S) \cup S.alive
         /\ Held(OpenSession(S)) \subseteq Held(S) \cup {S.next}
         /\ Held(RestoreSession(S, s)) = Held(S) /\ Held(DropSession(S, s)) \subseteq Held(S)
         /\ \A D : Held(Remove(S, D)) = Held(S)
         /\ \A p : Held(TryDelete(S, p)) = Held(S)
         /\ \A p, d : Held(SetData(S, p, d)) = Held(S)
         /\ \A op : Held(Create(S, op, s)) = Held(S)
         /\ \A owner, p : Held(RemoveEphemeral(S, owner, p)) = Held(S)
<1> USE DEF Held
<1>1. Bump(S).queue = S.queue /\ Touch(S, s).queue \subseteq S.queue \cup S.alive
  BY DEF Bump, Touch, Storage
<1>2. OpenSession(S).queue = S.queue \cup {S.next} /\ RestoreSession(S, s).queue = S.queue
  BY DEF OpenSession, RestoreSession, Storage
<1>3. DropSession(S, s).queue = S.queue \ {s}
  BY DEF DropSession, Storage
<1>4. \A D : Remove(S, D).queue = S.queue
  BY DEF Remove, Storage
<1>5. \A p : TryDelete(S, p).queue = S.queue
  BY <1>4 DEF TryDelete
<1>6. \A p, d : SetData(S, p, d).queue = S.queue
  BY DEF SetData, Storage
<1>7. \A op : Create(S, op, s).queue = S.queue
  BY DEF Create, Storage
<1>8. \A owner, p : RemoveEphemeral(S, owner, p).queue = S.queue
  BY DEF RemoveEphemeral, Storage
<1> QED
  BY <1>1, <1>2, <1>3, <1>4, <1>5, <1>6, <1>7, <1>8, SameWatches

LEMMA HeldWatches ==
  ASSUME NEW S \in Storage, NEW s \in Sid
  PROVE  /\ \A p, type : Held(Notify(S, p, type)) \subseteq Held(S)
         /\ \A w : Held([S EXCEPT !.watch = Register(@, s, w)]) \subseteq Held(S) \cup {s}
         /\ Held([S EXCEPT !.watch = Clear(@, s)]) \subseteq Held(S)
<1>1. S.watch \in Watches
  BY DEF Storage
<1>2. ASSUME NEW p, NEW type PROVE Held(Notify(S, p, type)) \subseteq Held(S)
  <2>1. /\ Notify(S, p, type).queue = S.queue
        /\ Notify(S, p, type).watch.rev =
             [r \in Sid |-> S.watch.rev[r] \ {w \in Drained(p, type) : r \in S.watch.fwd[w]}]
    BY DEF Notify, Fire, Storage
  <2> QED
    BY <2>1 DEF Held
<1>3. ASSUME NEW w PROVE Held([S EXCEPT !.watch = Register(@, s, w)]) \subseteq Held(S) \cup {s}
  <2> DEFINE T == [S EXCEPT !.watch = Register(@, s, w)]
  <2>1. T.queue = S.queue /\ T.watch.rev = [S.watch.rev EXCEPT ![s] = @ \cup {w}]
    BY DEF Register, Storage
  <2>2. \A r \in Sid : r # s => T.watch.rev[r] = S.watch.rev[r]
    BY <1>1, <2>1 DEF Watches
  <2> HIDE DEF T
  <2>3. Held(T) \subseteq Held(S) \cup {s}
    BY <2>1, <2>2 DEF Held
  <2> QED
    BY <2>3 DEF T
<1>4. Held([S EXCEPT !.watch = Clear(@, s)]) \subseteq Held(S)
  <2> DEFINE T == [S EXCEPT !.watch = Clear(@, s)]
  <2>1. T.queue = S.queue /\ T.watch.rev = [S.watch.rev EXCEPT ![s] = {}]
    BY DEF Clear, Storage
  <2>2. T.watch.rev[s] = {} /\ \A r \in Sid : r # s => T.watch.rev[r] = S.watch.rev[r]
    BY <1>1, <2>1 DEF Watches
  <2> HIDE DEF T
  <2>3. Held(T) \subseteq Held(S)
    BY <2>1, <2>2 DEF Held
  <2> QED
    BY <2>3 DEF T
<1> QED
  BY <1>2, <1>3, <1>4

(* No request brings in a deadline or a watch of an unknown session.       *)
Holding == Held(st) \cup st.alive \cup conns

LEMMA TouchedHeld ==
  ASSUME TypeOK, NEW s \in Sid
  PROVE  /\ Held(Touch(st, s)) \subseteq Holding /\ Held(Bump(Touch(st, s))) \subseteq Holding
         /\ Bump(Touch(st, s)) \in Storage
<1>1. st \in Storage /\ Touch(st, s) \in Storage /\ Bump(Touch(st, s)) \in Storage
  BY TouchedType
<1> QED
  BY <1>1, HeldSame DEF Holding

LEMMA AnsweredHeld ==
  ASSUME TypeOK, NEW s \in Sid, NEW S, Held(S) \subseteq Holding, NEW prim, NEW err, NEW evs,
         \/ Respond(S, err, evs) \/ LogThenApply(s, prim, S, err, evs)
  PROVE  Held(st') \subseteq Holding /\ conns' = conns /\ doomed' = doomed
<1>1. CASE Respond(S, err, evs)
  BY <1>1 DEF Respond
<1>2. CASE LogThenApply(s, prim, S, err, evs)
  BY <1>2, TouchedHeld DEF LogThenApply
<1> QED
  BY <1>1, <1>2

LEMMA CreateHeld ==
  ASSUME TypeOK, NEW s \in Sid, NEW op \in Requests, HandleCreate(s, op)
  PROVE  Held(st') \subseteq Holding /\ conns' = conns /\ doomed' = doomed
<1> DEFINE now == Bump(Touch(st, s))
           made == CreatedPath(now, op)
           T == Create(now, op, s)
<1>1. Held(Touch(st, s)) \subseteq Holding /\ Held(now) \subseteq Holding /\ now \in Storage
  BY TouchedHeld
<1> HIDE DEF now
<1>2. CASE Respond(Touch(st, s), CreatePrecheck(op), {})
  BY <1>1, <1>2, AnsweredHeld
<1>3. CASE LogThenApply(s, LogCreate(op, s), now, "BadArguments", {})
  BY <1>1, <1>3, AnsweredHeld
<1>4. CASE /\ CreateError(now, op) = "Ok"
           /\ LogThenApply(s, LogCreate(op, s), Notify(T, made, "Created"),
                           "Ok", FireEvents(now.watch, made, "Created"))
  <2>1. Creates(op)
    BY RequestType DEF HandleCreate
  <2>2. T \in Storage /\ Held(T) = Held(now)
    BY <1>1, <1>4, <2>1, CreateType, HeldSame
  <2> HIDE DEF T, made
  <2>3. Held(Notify(T, made, "Created")) \subseteq Holding
    BY <1>1, <2>2, HeldWatches
  <2> QED
    BY <1>4, <2>3, AnsweredHeld
<1> QED
  BY <1>2, <1>3, <1>4 DEF HandleCreate, now

LEMMA SetHeld ==
  ASSUME TypeOK, NEW s \in Sid, NEW op \in Requests, HandleSet(s, op)
  PROVE  Held(st') \subseteq Holding /\ conns' = conns /\ doomed' = doomed
<1> DEFINE now == Bump(Touch(st, s))
           T == SetData(now, op.path, op.data)
<1>1. Held(Touch(st, s)) \subseteq Holding /\ Held(now) \subseteq Holding /\ now \in Storage
      /\ now.map = st.map
  BY TouchedHeld, TouchedType, SameMaps DEF TypeOK
<1> HIDE DEF now
<1>2. CASE Respond(Touch(st, s), VersionError(st, op), {})
  BY <1>1, <1>2, AnsweredHeld
<1>3. CASE /\ VersionError(st, op) = "Ok"
           /\ LogThenApply(s, LogSet(op), Notify(T, op.path, "Changed"),
                           "Ok", FireEvents(now.watch, op.path, "Changed"))
  <2>1. op.path \in Path /\ op.data \in Data
    BY RequestType DEF HandleSet, SetOp
  <2>2. Exists(now, op.path)
    BY <1>1, <1>3 DEF VersionError, Exists
  <2>3. T \in Storage /\ Held(T) = Held(now)
    BY <1>1, <2>1, <2>2, SetDataType, HeldSame
  <2> HIDE DEF T
  <2>4. Held(Notify(T, op.path, "Changed")) \subseteq Holding
    BY <1>1, <2>3, HeldWatches
  <2> QED
    BY <1>3, <2>4, AnsweredHeld
<1> QED
  BY <1>2, <1>3 DEF HandleSet, now

LEMMA DeleteHeld ==
  ASSUME TypeOK, NEW s \in Sid, NEW op \in Requests, HandleDelete(s, op)
  PROVE  Held(st') \subseteq Holding /\ conns' = conns /\ doomed' = doomed
<1> DEFINE now == Bump(Touch(st, s))
           owner == st.map[op.path].owner
           U == TryDelete(now, op.path)
           T == RemoveEphemeral(U, owner, op.path)
<1>1. Held(Touch(st, s)) \subseteq Holding /\ Held(now) \subseteq Holding /\ now \in Storage
  BY TouchedHeld
<1> HIDE DEF now
<1>2. CASE Respond(Touch(st, s), DeletePrecheck(op), {})
  BY <1>1, <1>2, AnsweredHeld
<1>3. CASE /\ DeletePrecheck(op) = "Ok"
           /\ LogThenApply(s, LogDelete(op), Notify(T, op.path, "Deleted"),
                           "Ok", FireEvents(now.watch, op.path, "Deleted"))
  <2>1. op.path \in Path /\ Exists(st, op.path)
    BY <1>3, RequestType DEF HandleDelete, DeleteOp, DeletePrecheck, VersionError
  <2>2. owner \in Sid \cup {NoOwner}
    BY <2>1, ExistingType DEF TypeOK
  <2>3. U \in Storage /\ Held(U) = Held(now)
    BY <1>1, <2>1, TryDeleteType, HeldSame
  <2> HIDE DEF U, owner
  <2>4. T \in Storage /\ Held(T) = Held(U)
    BY <2>1, <2>2, <2>3, RemoveEphemeralType, HeldSame
  <2> HIDE DEF T
  <2>5. Held(Notify(T, op.path, "Deleted")) \subseteq Holding
    BY <1>1, <2>3, <2>4, HeldWatches
  <2> QED
    BY <1>3, <2>5, AnsweredHeld
<1> QED
  BY <1>2, <1>3 DEF HandleDelete, now

LEMMA ReadHeld ==
  ASSUME TypeOK, NEW s \in conns, NEW req \in Requests, HandleRead(s, req)
  PROVE  Held(st') \subseteq Holding /\ conns' = conns /\ doomed' = doomed
<1> DEFINE now == Touch(st, s)
           w == <<req.path, req.op>>
           after == IF req.watch THEN [now EXCEPT !.watch = Register(@, s, w)] ELSE now
<1>1. Held(now) \subseteq Holding /\ now \in Storage /\ s \in Sid
  BY TouchedHeld, TouchedType DEF TypeOK
<1>2. Respond(after, IF Exists(st, req.path) THEN "Ok" ELSE "NoNode", {})
  BY DEF HandleRead
<1> HIDE DEF now, w
<1>3. Held(after) \subseteq Holding
  <2>1. Held([now EXCEPT !.watch = Register(@, s, w)]) \subseteq Held(now) \cup {s}
    BY <1>1, HeldWatches
  <2>2. s \in Holding
    BY DEF Holding
  <2> QED
    BY <1>1, <2>1, <2>2
<1> HIDE DEF after
<1> QED
  BY <1>1, <1>2, <1>3, AnsweredHeld

LEMMA CloseHeld ==
  ASSUME TypeOK, NEW s \in Sid, NEW req \in Requests, HandleClose(s, req)
  PROVE  Held(st') \subseteq Holding /\ conns' \subseteq conns /\ doomed' = doomed
<1>1. PICK D \in Reapable(st, st.eph[s]) :
        st' = [Remove(DropSession(Touch(st, s), s), D) EXCEPT !.watch = Clear(@, s)]
  BY DEF HandleClose
<1> DEFINE drop == DropSession(Touch(st, s), s)
           left == Remove(drop, D)
<1>2. D \in SUBSET Path
  BY <1>1, ReapableType DEF TypeOK, Storage
<1>3. drop \in Storage /\ Held(drop) \subseteq Holding
  BY TouchedHeld, TouchedType, DropSessionType, HeldSame
<1>4. left \in Storage /\ Held(left) = Held(drop)
  BY <1>2, <1>3, RemoveType, HeldSame
<1> HIDE DEF left
<1>5. Held(st') \subseteq Held(left)
  BY <1>1, <1>4, HeldWatches DEF left
<1> QED
  BY <1>3, <1>4, <1>5 DEF HandleClose

LEMMA ServeHeld ==
  ASSUME TypeOK, NEW s \in conns, NEW req \in Requests, Serve(s, req)
  PROVE  Held(st') \subseteq Holding /\ conns' \subseteq conns /\ doomed' = doomed
<1>1. s \in Sid
  BY DEF TypeOK
<1>2. CASE HandlePlain(s, req)
  <2>1. PICK err : Respond(Touch(st, s), err, {})
    BY <1>2 DEF HandlePlain
  <2> QED
    BY <1>1, <2>1, TouchedHeld, AnsweredHeld
<1>3. CASE BeginMulti(s, req)
  BY <1>1, <1>3, TouchedHeld DEF BeginMulti
<1> QED
  BY <1>1, <1>2, <1>3, CreateHeld, SetHeld, DeleteHeld, ReadHeld, CloseHeld DEF Serve

LEMMA StageHeld ==
  ASSUME NEW S \in Storage, NEW op \in MultiOp, NEW s \in Sid, MultiError(S, op) = "Ok"
  PROVE  Held(Stage(S, op, s)) \subseteq Held(S)
<1>1. CASE op.op = "create"
  <2>1. Creates(op) /\ CreateError(S, op) = "Ok"
    BY <1>1, MultiOpType DEF MultiError
  <2>2. Create(S, op, s) \in Storage /\ Held(Create(S, op, s)) = Held(S)
    BY <2>1, CreateType, HeldSame
  <2>3. Stage(S, op, s) = Notify(Create(S, op, s), CreatedPath(S, op), "Created")
    BY <1>1 DEF Stage
  <2> QED
    BY <2>2, <2>3, HeldWatches
<1>2. ASSUME op.op \in {"set", "delete"} PROVE op.path \in Path /\ Exists(S, op.path)
  BY <1>2, MultiOpType DEF MultiError, VersionError
<1>3. CASE op.op = "set"
  <2>1. op.data \in Data
    BY <1>3, MultiOpType DEF SetOp
  <2>2. /\ SetData(S, op.path, op.data) \in Storage
        /\ Held(SetData(S, op.path, op.data)) = Held(S)
    BY <1>2, <1>3, <2>1, SetDataType, HeldSame
  <2>3. Stage(S, op, s) = Notify(SetData(S, op.path, op.data), op.path, "Changed")
    BY <1>3 DEF Stage
  <2> QED
    BY <2>2, <2>3, HeldWatches
<1>4. CASE op.op = "delete"
  <2> DEFINE owner == S.map[op.path].owner
             U == Remove(S, {op.path})
             left == RemoveEphemeral(U, owner, op.path)
  <2>1. owner \in Sid \cup {NoOwner} /\ op.path \in Path
    BY <1>2, <1>4, ExistingType
  <2>2. U \in Storage /\ Held(U) = Held(S)
    BY <2>1, RemoveType, HeldSame
  <2>3. Stage(S, op, s) = Notify(left, op.path, "Deleted")
    BY <1>4 DEF Stage
  <2> HIDE DEF U, owner
  <2>4. left \in Storage
    BY <2>1, <2>2, RemoveEphemeralType
  <2>5. Held(left) = Held(U)
    BY <2>2, HeldSame
  <2> HIDE DEF left
  <2>6. Held(Notify(left, op.path, "Deleted")) \subseteq Held(left)
    BY <2>4, HeldWatches
  <2> QED
    BY <2>2, <2>3, <2>5, <2>6
<1>5. CASE op.op = "check"
  BY <1>5 DEF Stage
<1> QED
  BY <1>1, <1>3, <1>4, <1>5, MultiOpType

LEMMA ReplayedHeld ==
  ASSUME NEW S \in Storage, NEW prim \in Primitive
  PROVE  Held(Replayed(S, prim)) \subseteq Held(S)
<1>1. CASE prim.op \in {"create", "open"}
  BY <1>1, HeldSame, PrimitiveType DEF Replayed
<1>2. CASE prim.op = "set"
  <2>1. SetData(S, prim.path, prim.data).queue = S.queue
        /\ SetData(S, prim.path, prim.data).watch = S.watch
    BY DEF SetData, Storage
  <2> QED
    BY <1>2, <2>1 DEF Replayed, Held
<1>3. CASE prim.op \in {"delete", "multi_delete"}
  <2> DEFINE U == Remove(S, {prim.path})
             owner == S.map[prim.path].owner
  <2>1. U \in Storage /\ U.queue = S.queue /\ U.watch = S.watch
    <3>1. prim.path \in Path
      BY <1>3, PrimitiveType
    <3>2. U.queue = S.queue /\ U.watch = S.watch
      BY DEF Remove, Storage
    <3> QED
      BY <3>1, <3>2, RemoveType
  <2>2. \/ Replayed(S, prim) = U \/ Replayed(S, prim) = RemoveEphemeral(U, owner, prim.path)
    BY <1>3 DEF Replayed
  <2> HIDE DEF U, owner
  <2>3. /\ RemoveEphemeral(U, owner, prim.path).queue = U.queue
        /\ RemoveEphemeral(U, owner, prim.path).watch = U.watch
    BY <2>1 DEF RemoveEphemeral, Storage
  <2> QED
    BY <2>1, <2>2, <2>3 DEF Held
<1>4. CASE prim.op = "close"
  <2>1. /\ prim.sid \in Sid /\ DropSession(S, prim.sid) \in Storage
        /\ Replayed(S, prim) = Remove(DropSession(S, prim.sid), S.eph[prim.sid])
    BY <1>4, PrimitiveType, DropSessionType DEF Replayed
  <2>2. Held(DropSession(S, prim.sid)) \subseteq Held(S)
    BY <2>1, HeldSame
  <2>3. Held(Replayed(S, prim)) = Held(DropSession(S, prim.sid))
    BY <2>1, HeldSame
  <2> QED
    BY <2>2, <2>3
<1> QED
  BY <1>1, <1>2, <1>3, <1>4, PrimitiveType

(* A record that is written, whether its flush fails or not, brings in what*)
(* it opens; all it uses is known or opened by it.                         *)
LEMMA FlushIds ==
  ASSUME TypeOK, NEW rec \in Record,
         Used(disk) \subseteq Opened(disk), Used(buf) \subseteq Known,
         UsedBy(rec.ops) \subseteq Known \cup OpenedBy(rec.ops)
  PROVE  /\ LET all == disk \o Append(buf, rec)
            IN  /\ Opened(all) = Known \cup OpenedBy(rec.ops)
                /\ Used(all) \subseteq Opened(all)
         /\ FlushOk(rec) \/ FlushFails(rec) =>
              /\ Known' = Known \cup OpenedBy(rec.ops)
              /\ Used(disk') \subseteq Opened(disk') /\ Used(buf') \subseteq Known'
<1> DEFINE more == Append(buf, rec)
           all == disk \o more
<1>1. disk \in Seq(Record) /\ buf \in Seq(Record) /\ more \in Seq(Record)
  BY AppendProperties DEF TypeOK
<1>2. /\ Opened(more) = Opened(buf) \cup OpenedBy(rec.ops)
      /\ Used(more) = Used(buf) \cup UsedBy(rec.ops)
  BY <1>1, RecordIds
<1> HIDE DEF more
<1>3. /\ Opened(all) = Opened(disk) \cup Opened(more)
      /\ Used(all) = Used(disk) \cup Used(more)
  BY <1>1, RecordIds
<1> HIDE DEF all
<1>4. Opened(all) = Known \cup OpenedBy(rec.ops) /\ Used(all) \subseteq Opened(all)
  BY <1>2, <1>3 DEF Known
<1>5. ASSUME FlushOk(rec) \/ FlushFails(rec)
      PROVE  \/ disk' = disk /\ buf' = more
             \/ disk' = all /\ buf' \in {<<>>, more}
  BY <1>5 DEF FlushOk, FlushFails, WriteFails, SyncFails, RotateFails, all, more
<1>6. ASSUME FlushOk(rec) \/ FlushFails(rec)
      PROVE  /\ Known' = Known \cup OpenedBy(rec.ops)
             /\ Used(disk') \subseteq Opened(disk') /\ Used(buf') \subseteq Known'
  <2>1. Known' = Opened(disk') \cup Opened(buf')
    BY DEF Known
  <2>2. Known = Opened(disk) \cup Opened(buf)
    BY DEF Known
  <2>3. CASE disk' = disk /\ buf' = more
    BY <1>2, <2>1, <2>2, <2>3
  <2>4. CASE disk' = all /\ buf' \in {<<>>, more}
    BY <1>2, <1>3, <1>4, <2>1, <2>2, <2>4, RecordIds
  <2> QED
    BY <1>5, <1>6, <2>3, <2>4
<1> QED
  BY <1>4, <1>6 DEF all, more

(* A step that writes a primitive.                                         *)
LEMMA WroteIds ==
  ASSUME TypeOK, FreshInv, phase = "up",
         NEW prim \in Loggable, Sent(prim), Refused(prim) \/ Done(prim)
  PROVE  /\ Known' = Known \cup OpenedBy(<<prim>>)
         /\ Used(disk') \subseteq Opened(disk') /\ Used(buf') \subseteq Known'
         /\ Ids(st') \subseteq Known' /\ \A s \in Known' : s < st'.next
<1>1. /\ OpenedBy(<<prim>>) = {s \in Sid : prim.op = "open" /\ prim.sid = s}
      /\ UsedBy(<<prim>>) = {s \in Sid : prim.op \in {"create", "open", "close"} /\ prim.sid = s}
  BY FewEntries DEF OpenedBy, UsedBy
<1>2. UsedBy(<<prim>>) \subseteq Known \cup OpenedBy(<<prim>>)
  BY <1>1 DEF Sent, FreshInv
<1>3. Next1(prim) \in Record /\ Next1(prim).ops = <<prim>>
  <2>1. st.zxid + 1 \in Nat /\ prim \in Primitive
    BY BumpIsAt, LoggableType DEF TypeOK
  <2> QED
    BY <2>1 DEF Next1, Rec, Record
<1>4. FlushOk(Next1(prim)) \/ FlushFails(Next1(prim))
  BY DEF Refused, Done
<1>5. /\ Known' = Known \cup OpenedBy(<<prim>>)
      /\ Used(disk') \subseteq Opened(disk') /\ Used(buf') \subseteq Known'
  BY <1>2, <1>3, <1>4, FlushIds DEF FreshInv
<1>6. /\ st \in Storage /\ Bump(st) \in Storage /\ prim \in Primitive
      /\ Bump(st).map = st.map /\ Bump(st).eph = st.eph
      /\ Bump(st).alive = st.alive /\ Bump(st).next = st.next
  BY LoggableType, BumpType, SameMaps, BumpIsAt, AtType DEF TypeOK, Bump, Storage
<1>7. Ids(Bump(st)) = Ids(st)
  BY <1>6 DEF Ids, Exists
<1>8. /\ Ids(st) \subseteq Known /\ \A s \in Known : s < st.next
      /\ Known \subseteq Nat
  BY BoundAssumption DEF FreshInv, Trees, Known, Opened, Sid
<1>9. CASE Refused(prim)
  <2>1. st'.map = st.map /\ st'.eph = st.eph /\ st'.alive = st.alive /\ st'.next = st.next
    BY <1>6, <1>9 DEF Refused, Like, Kin
  <2>2. Ids(st') = Ids(st)
    BY <2>1 DEF Ids, Exists
  <2>3. OpenedBy(<<prim>>) = {}
    BY <1>1, <1>9 DEF Refused
  <2> QED
    BY <1>5, <1>8, <2>1, <2>2, <2>3
<1>10. CASE Done(prim)
  <2>1. Carried(Bump(st), prim, st')
    BY <1>10 DEF Done
  <2>2. Ids(st') \subseteq Ids(st) \cup UsedBy(<<prim>>)
    <3>1. Brought(prim) \subseteq UsedBy(<<prim>>)
      BY <1>1 DEF Brought
    <3> QED
      BY <1>6, <1>7, <2>1, <3>1, CarriedIds
  <2>3. /\ \A s \in OpenedBy(<<prim>>) : s < st'.next
        /\ \A n \in Nat : n < st.next => n < st'.next
    BY <1>6, <2>1, CarriedKin
  <2> QED
    BY <1>2, <1>5, <1>8, <2>2, <2>3
<1> QED
  BY <1>9, <1>10

(* A step that writes nothing.                                             *)
LEMMA QuietIds ==
  ASSUME TypeOK, FreshInv, Quiet \/ Left
  PROVE  Ids(st') \subseteq Known /\ st'.next = st.next
<1>1. st \in Storage /\ Ids(st) \subseteq Known
  BY DEF TypeOK, FreshInv, Trees
<1>2. CASE Quiet
  <2>1. st'.map = st.map /\ st'.eph = st.eph /\ st'.alive = st.alive /\ st'.next = st.next
    BY <1>2 DEF Quiet, Like, Kin
  <2>2. Ids(st') = Ids(st)
    BY <2>1 DEF Ids, Exists
  <2> QED
    BY <1>1, <2>1, <2>2
<1>3. CASE Left
  <2>1. PICK s \in Sid : Carried(st, LogClose(s), st')
    BY <1>3 DEF Left
  <2>2. LogClose(s) \in Primitive /\ LogClose(s).op = "close" /\ Brought(LogClose(s)) = {}
    BY DEF LogClose, Primitive, SessionPrim, Brought
  <2>3. Ids(st') \subseteq Ids(st)
    BY <1>1, <2>1, <2>2, CarriedIds
  <2>4. st'.next = DropSession(st, LogClose(s).sid).next
    BY <2>1, <2>2 DEF Carried, Kin
  <2>5. st'.next = st.next
    BY <1>1, <2>4 DEF DropSession, Storage
  <2> QED
    BY <1>1, <2>3, <2>5
<1> QED
  BY <1>2, <1>3

(* What a step that ends with no Multi and the server up has to show.      *)
LEMMA UpFresh ==
  ASSUME phase' = "up", multi' = NoMulti,
         Used(disk') \subseteq Opened(disk'), Used(buf') \subseteq Known',
         Ids(st') \subseteq Known', Held(st') \subseteq Known',
         conns' \subseteq Known', doomed' \subseteq Known', \A s \in Known' : s < st'.next
  PROVE  FreshInv'
BY DEF FreshInv, Trees

LEMMA HoldingKnown == FreshInv => Holding \subseteq Known
BY DEF FreshInv, Holding, Trees, Ids

LEMMA ServeFresh ==
  ASSUME TypeOK, FreshInv, NEW s \in conns, NEW req \in Requests, Serve(s, req)
  PROVE  FreshInv'
<1>1. s \in Sid /\ s \in Known /\ Holding \subseteq Known /\ phase = "up"
      /\ conns \subseteq Known /\ doomed \subseteq Known
  <2>1. s \in Sid
    BY DEF TypeOK
  <2>2. phase = "up"
    BY DEF Serve, HandleCreate, HandleSet, HandleDelete, HandleRead, HandlePlain, HandleClose,
           BeginMulti, Ready
  <2> QED
    BY <2>1, <2>2, HoldingKnown DEF FreshInv
<1>2. Held(st') \subseteq Known /\ conns' \subseteq Known /\ doomed' \subseteq Known
  BY <1>1, ServeHeld
<1>3. CASE BeginMulti(s, req)
  <2>1. /\ Trees' \subseteq {Touch(st, s), Bump(Touch(st, s))} /\ st' = Touch(st, s)
        /\ multi'.sid = s /\ multi'.log = <<>> /\ disk' = disk /\ buf' = buf /\ phase' = "up"
    BY <1>1, <1>3 DEF BeginMulti, Trees, log, replay
  <2>2. /\ st \in Storage /\ Touch(st, s).map = st.map /\ Touch(st, s).eph = st.eph
        /\ Touch(st, s).alive = st.alive /\ Touch(st, s).next = st.next
        /\ Bump(Touch(st, s)).map = st.map /\ Bump(Touch(st, s)).eph = st.eph
        /\ Bump(Touch(st, s)).alive = st.alive
    BY <1>1, TouchedType, SameMaps, LikeSame DEF TypeOK, Kin
  <2>3. Ids(Touch(st, s)) = Ids(st) /\ Ids(Bump(Touch(st, s))) = Ids(st)
    BY <2>2 DEF Ids, Exists
  <2>4. \A S \in Trees' : Ids(S) \cup Held(S) \subseteq Known
    <3>1. Held(Touch(st, s)) \subseteq Known /\ Held(Bump(Touch(st, s))) \subseteq Known
      BY <1>1, TouchedHeld
    <3>2. Ids(st) \subseteq Known
      BY DEF FreshInv, Trees
    <3> QED
      BY <2>1, <2>3, <3>1, <3>2
  <2>5. Known' = Known /\ UsedBy(multi'.log) = {}
    BY <2>1, OpsIds DEF Known
  <2>6. \A x \in Known' : x < st'.next
    BY <1>1, <2>1, <2>2, <2>5 DEF FreshInv
  <2>7. Used(disk') \subseteq Opened(disk') /\ Used(buf') \subseteq Known'
    BY <2>1, <2>5 DEF FreshInv
  <2> QED
    BY <1>1, <1>2, <2>1, <2>4, <2>5, <2>6, <2>7 DEF FreshInv
<1>4. CASE Quiet \/ Left
  <2>1. Ids(st') \subseteq Known /\ st'.next = st.next
    BY <1>4, QuietIds
  <2>2. phase' = "up" /\ multi' = NoMulti /\ disk' = disk /\ buf' = buf
    BY <1>4 DEF Quiet, Left, Idle, log
  <2>3. Known' = Known
    BY <2>2 DEF Known
  <2> QED
    BY <1>1, <1>2, <2>1, <2>2, <2>3, UpFresh DEF FreshInv
<1>5. CASE Wrote
  <2>1. PICK prim \in Loggable : Sent(prim) /\ (Refused(prim) \/ Done(prim))
    BY <1>5 DEF Wrote
  <2>2. /\ Known' = Known \cup OpenedBy(<<prim>>)
        /\ Used(disk') \subseteq Opened(disk') /\ Used(buf') \subseteq Known'
        /\ Ids(st') \subseteq Known' /\ \A x \in Known' : x < st'.next
    BY <1>1, <2>1, WroteIds
  <2>3. phase' = "up" /\ multi' = NoMulti
    BY <2>1 DEF Refused, Done, Idle
  <2> QED
    BY <1>2, <2>2, <2>3, UpFresh
<1> QED
  BY <1>1, <1>3, <1>4, <1>5, ServeSteps

LEMMA ConnectFresh == ASSUME TypeOK, FreshInv, Connect PROVE FreshInv'
<1> DEFINE prim == LogOpen(st.next)
<1>1. Done(prim) /\ st.next \in Sid /\ phase = "up"
  BY ConnectSteps DEF Connect
<1>2. prim \in Loggable /\ Sent(prim) /\ OpenedBy(<<prim>>) = {st.next}
  <2>1. prim.op = "open" /\ prim.sid = st.next /\ prim \in SessionPrim
    BY <1>1 DEF LogOpen, SessionPrim
  <2> QED
    BY <1>1, <2>1, FewEntries DEF Loggable, Sent, OpenedBy
<1> HIDE DEF prim
<1>3. /\ Known' = Known \cup {st.next}
      /\ Used(disk') \subseteq Opened(disk') /\ Used(buf') \subseteq Known'
      /\ Ids(st') \subseteq Known' /\ \A x \in Known' : x < st'.next
  BY <1>1, <1>2, WroteIds
<1>4. Held(st') \subseteq Held(st) \cup {st.next}
  <2>1. OpenSession(st) \in Storage
    BY <1>1, OpenSessionType DEF TypeOK
  <2> QED
    BY <1>1, <2>1, HeldSame DEF Connect, TypeOK
<1>5. conns' = conns \cup {st.next} /\ doomed' = doomed /\ phase' = "up" /\ multi' = NoMulti
  BY DEF Connect, replay
<1>6. Held(st) \subseteq Known /\ conns \subseteq Known /\ doomed \subseteq Known
  BY DEF FreshInv, Trees
<1> QED
  BY <1>3, <1>4, <1>5, <1>6, UpFresh

LEMMA CloseExpiredFresh ==
  ASSUME TypeOK, FreshInv, NEW s \in Sid, CloseExpired(s) PROVE FreshInv'
<1> DEFINE prim == LogClose(s)
<1>1. Done(prim) /\ phase = "up"
  BY CloseExpiredSteps DEF CloseExpired
<1>2. prim \in Loggable /\ Sent(prim) /\ OpenedBy(<<prim>>) = {}
  <2>1. prim.op = "close" /\ prim.sid = s /\ prim \in SessionPrim
    BY DEF LogClose, SessionPrim
  <2> QED
    BY <2>1, FewEntries DEF Loggable, Sent, OpenedBy, CloseExpired
<1> HIDE DEF prim
<1>3. /\ Known' = Known
      /\ Used(disk') \subseteq Opened(disk') /\ Used(buf') \subseteq Known'
      /\ Ids(st') \subseteq Known' /\ \A x \in Known' : x < st'.next
  BY <1>1, <1>2, WroteIds
<1>4. Held(st') \subseteq Held(st)
  <2>1. PICK D \in Reapable(st, st.eph[s]) : st' = Remove(DropSession(Bump(st), s), D)
    BY DEF CloseExpired
  <2>2. Bump(st) \in Storage /\ DropSession(Bump(st), s) \in Storage
    BY BumpType, DropSessionType DEF TypeOK
  <2>3. Held(Bump(st)) = Held(st)
    BY HeldSame DEF TypeOK
  <2>4. Held(DropSession(Bump(st), s)) \subseteq Held(Bump(st))
    BY <2>2, HeldSame
  <2> QED
    BY <2>1, <2>2, <2>3, <2>4, HeldSame
<1>5. conns' = conns /\ doomed' \subseteq doomed /\ phase' = "up" /\ multi' = NoMulti
  BY DEF CloseExpired, replay
<1>6. Held(st) \subseteq Known /\ conns \subseteq Known /\ doomed \subseteq Known
  BY DEF FreshInv, Trees
<1> QED
  BY <1>3, <1>4, <1>5, <1>6, UpFresh

LEMMA StageMultiFresh ==
  ASSUME TypeOK, FreshInv, LogKnown, StageMulti PROVE FreshInv'
<1> DEFINE op == Head(multi.todo)
           S == multi.staged
           T == Stage(S, op, multi.sid)
           more == StagedLog(op, multi.sid)
<1>1. multi \in Job /\ S \in Storage /\ multi.sid \in Sid /\ op \in MultiOp /\ S \in Trees
      /\ multi.log \in Seq(Primitive) /\ MultiError(S, op) = "Ok" /\ multi # NoMulti
  BY HeadTailProperties DEF TypeOK, Job, Trees, StageMulti, Staging
<1>2. Held(T) \subseteq Held(S)
  BY <1>1, StageHeld
<1>3. Kin(T, S)
  BY <1>1, StageCarries
<1>4. \/ T = S /\ more = <<>>
      \/ \E prim \in Primitive : more = <<prim>> /\ Carried(S, prim, T)
  BY <1>1, StageCarries
<1>5. UsedBy(more) \subseteq {multi.sid}
  <2>1. CASE op.op = "create"
    BY <2>1, FewEntries DEF StagedLog, UsedBy, LogCreate
  <2>2. CASE op.op = "set"
    BY <2>2, FewEntries DEF StagedLog, UsedBy, LogSet
  <2>3. CASE op.op = "delete"
    BY <2>3, FewEntries DEF StagedLog, UsedBy, LogMultiDelete
  <2>4. CASE op.op = "check"
    BY <2>4, OpsIds DEF StagedLog
  <2> QED
    BY <1>1, <2>1, <2>2, <2>3, <2>4, MultiOpType
<1>6. /\ multi' = [multi EXCEPT !.todo = Tail(@), !.staged = T, !.log = @ \o more,
                                !.events = @ \cup StagedEvents(S, op)]
      /\ UNCHANGED <<st, conns, doomed, disk, buf, phase>> /\ phase = "up"
  BY DEF StageMulti, Staging, log, replay
<1> HIDE DEF T, more, op
<1>7. multi'.sid = multi.sid /\ multi'.staged = T /\ multi'.log = multi.log \o more
  BY <1>1, <1>6 DEF Job
<1> HIDE DEF S
<1>8. Ids(T) \subseteq Ids(S) \cup {multi.sid}
  <2>1. CASE T = S
    BY <2>1
  <2>2. ASSUME NEW prim \in Primitive, more = <<prim>>, Carried(S, prim, T)
        PROVE  Ids(T) \subseteq Ids(S) \cup {multi.sid}
    <3>1. Ids(T) \subseteq Ids(S) \cup Brought(prim)
      BY <1>1, <2>2, CarriedIds
    <3>2. Brought(prim) \subseteq UsedBy(<<prim>>)
      BY FewEntries DEF Brought, UsedBy
    <3> QED
      BY <1>5, <2>2, <3>1, <3>2
  <2> QED
    BY <1>4, <2>1, <2>2
<1>9. UsedBy(multi'.log) \subseteq UsedBy(multi.log) \cup {multi.sid}
  <2>1. CASE more = <<>>
    BY <1>1, <1>7, <2>1, ConcatEmptySeq
  <2>2. ASSUME NEW prim \in Primitive, more = <<prim>>
        PROVE  UsedBy(multi'.log) \subseteq UsedBy(multi.log) \cup {multi.sid}
    <3>1. multi.log \o <<prim>> = Append(multi.log, prim)
      BY <1>1
    <3>2. UsedBy(Append(multi.log, prim)) = UsedBy(multi.log) \cup UsedBy(<<prim>>)
      BY <1>1, OpsIds
    <3> QED
      BY <1>5, <1>7, <2>2, <3>1, <3>2
  <2> QED
    BY <1>4, <2>1, <2>2
<1>10. Known' = Known /\ Trees' \subseteq {st, T}
  BY <1>6, <1>7 DEF Known, Trees
<1>11. /\ Ids(S) \cup Held(S) \cup Ids(st) \cup Held(st) \cup {multi.sid} \subseteq Known
       /\ UsedBy(multi.log) \subseteq Known
  BY <1>1 DEF FreshInv, Trees
<1> QED
  BY <1>2, <1>6, <1>7, <1>8, <1>9, <1>10, <1>11 DEF FreshInv

LEMMA CommitMultiFresh ==
  ASSUME TypeOK, FreshInv, MultiInStep, CommitMulti PROVE FreshInv'
<1>1. /\ multi \in Job /\ multi # NoMulti /\ phase = "up" /\ phase' = "up" /\ multi' = NoMulti
      /\ st' = multi.staged /\ conns' = conns /\ doomed' = doomed
      /\ multi.staged \in Trees /\ FlushOk(MultiRec)
  BY DEF TypeOK, CommitMulti, Staging, replay, Trees
<1>2. MultiRec \in Record /\ MultiRec.ops = multi.log
  BY <1>1, MultiRecType DEF MultiRec, Rec
<1>3. UsedBy(multi.log) \subseteq Known /\ OpenedBy(multi.log) \subseteq UsedBy(multi.log)
  BY <1>1, OpsIds DEF FreshInv
<1>4. /\ Known' = Known /\ Used(disk') \subseteq Opened(disk') /\ Used(buf') \subseteq Known'
  <2>1. Used(disk) \subseteq Opened(disk) /\ Used(buf) \subseteq Known
    BY DEF FreshInv
  <2>2. UsedBy(MultiRec.ops) \subseteq Known \cup OpenedBy(MultiRec.ops)
    BY <1>2, <1>3
  <2>3. /\ Known' = Known \cup OpenedBy(MultiRec.ops)
        /\ Used(disk') \subseteq Opened(disk') /\ Used(buf') \subseteq Known'
    BY <1>1, <1>2, <2>1, <2>2, FlushIds
  <2> QED
    BY <1>2, <1>3, <2>3
<1>5. Ids(st') \cup Held(st') \subseteq Known /\ st'.next = st.next
  BY <1>1 DEF FreshInv, MultiInStep, Kin
<1> QED
  BY <1>1, <1>4, <1>5, UpFresh DEF FreshInv

(* What is lost with the memory is no longer known: what counts is on disk.*)
LEMMA NewIds == Ids(NewStorage) = {} /\ Held(NewStorage) = {}
<1>1. /\ NewStorage.alive = {} /\ NewStorage.queue = {} /\ NewStorage.eph = [s \in Sid |-> {}]
      /\ NewStorage.watch.rev = [s \in Sid |-> {}]
      /\ NewStorage.map = [p \in Path |-> IF p = Root THEN RootNode ELSE NoNode]
  BY DEF NewStorage, NoWatches
<1>2. \A p \in Path : Exists(NewStorage, p) => p = Root
  BY <1>1 DEF Exists
<1>3. Root \in Path /\ NewStorage.map[Root].owner = NoOwner
  <2>1. NewStorage.map[Root] = RootNode /\ Root \in Path
    BY <1>1, PathAssumption
  <2>2. RootNode.owner = NoOwner
    BY DEF RootNode
  <2> QED
    BY <2>1, <2>2
<1>4. NoOwner \notin Sid
  BY BoundAssumption DEF Sid, NoOwner
<1> QED
  BY <1>1, <1>2, <1>3, <1>4 DEF Ids, Held

LEMMA LoseMemoryFresh ==
  ASSUME LoseMemory, disk' \in Seq(Record), Used(disk') \subseteq Opened(disk') PROVE FreshInv'
<1>1. /\ st' = NewStorage /\ multi' = NoMulti /\ buf' = <<>> /\ conns' = {} /\ doomed' = {}
      /\ phase' = "replaying" /\ pos' = 1 /\ pend' = <<>>
  BY DEF LoseMemory
<1>2. Used(buf') = {} /\ UsedBy(pend') = {} /\ Trees' = {NewStorage}
  BY <1>1, RecordIds, OpsIds DEF Trees
<1>3. \A i \in DOMAIN disk' : ~(i < 1)
  BY LenProperties
<1> QED
  BY <1>1, <1>2, NewIds DEF FreshInv

LEMMA CrashFresh == ASSUME TypeOK, FreshInv, Crash PROVE FreshInv'
<1>1. LoseMemory /\ disk' = disk
  BY DEF Crash
<1>2. disk \in Seq(Record) /\ Used(disk) \subseteq Opened(disk)
  BY DEF TypeOK, FreshInv
<1> QED
  BY <1>1, <1>2, LoseMemoryFresh

LEMMA AbortProcessFresh == ASSUME TypeOK, FreshInv, AbortProcess PROVE FreshInv'
<1>1. /\ disk \in Seq(Record) /\ buf \in Seq(Record) /\ MultiRec \in Record
      /\ MultiRec.ops = multi.log /\ multi # NoMulti /\ multi \in Job /\ LoseMemory
  BY MultiRecType DEF TypeOK, AbortProcess, Staging, MultiRec, Rec
<1>2. Used(disk) \subseteq Opened(disk) /\ Used(buf) \subseteq Known
      /\ UsedBy(MultiRec.ops) \subseteq Known \cup OpenedBy(MultiRec.ops)
  BY <1>1 DEF FreshInv
<1>3. CASE disk' = disk
  BY <1>1, <1>2, <1>3, LoseMemoryFresh
<1>4. CASE disk' = disk \o Append(buf, MultiRec)
  <2>1. Used(disk') \subseteq Opened(disk')
    BY <1>1, <1>2, <1>4, FlushIds
  <2>2. disk' \in Seq(Record)
    BY <1>1, <1>4, AppendProperties, ConcatProperties
  <2> QED
    BY <1>1, <2>1, <2>2, LoseMemoryFresh
<1> QED
  BY <1>3, <1>4 DEF AbortProcess

(* What has been replayed is below next_session_id, or is still to come in *)
(* the record at hand.                                                     *)
LEMMA ReplayRecordFresh ==
  ASSUME TypeOK, FreshInv, MultiInStep, ReplayRecord PROVE FreshInv'
<1> DEFINE z == disk[pos].index
           ops == disk[pos].ops
<1>1. /\ disk \in Seq(Record) /\ pos \in Nat \ {0} /\ Len(disk) \in Nat /\ pos <= Len(disk)
      /\ DOMAIN disk = 1 .. Len(disk) /\ st \in Storage
  BY LenProperties DEF TypeOK, ReplayRecord
<1>2. pos \in DOMAIN disk
  BY <1>1
<1>3. UsedBy(ops) \subseteq Used(disk)
  BY <1>1, <1>2, RecordIds
<1>4. /\ st' = [st EXCEPT !.zxid = z] /\ pend' = ops /\ pos' = pos + 1 /\ multi = NoMulti
      /\ phase = "replaying" /\ phase' = "replaying" /\ pend = <<>>
      /\ UNCHANGED <<multi, conns, doomed, disk, buf>>
  BY DEF ReplayRecord, MultiInStep, log
<1> HIDE DEF z, ops
<1>5. Ids(st') = Ids(st) /\ Held(st') = Held(st) /\ st'.next = st.next
  BY <1>1, <1>4 DEF Ids, Held, Exists, Storage
<1>6. Known' = Known /\ Trees' = {st'} /\ Trees = {st}
  BY <1>4 DEF Known, Trees
<1>7. UsedBy(pend') \subseteq Known
  BY <1>3, <1>4 DEF FreshInv, Known
<1>8. ASSUME NEW i \in DOMAIN disk', i < pos', NEW s \in OpenedBy(disk'[i].ops)
      PROVE  s < st'.next \/ s \in OpenedBy(pend')
  <2>1. CASE i = pos
    BY <1>4, <1>8, <2>1 DEF ops
  <2>2. CASE i # pos
    <3>1. i < pos /\ i \in DOMAIN disk
      BY <1>1, <1>4, <1>8, <2>2
    <3>2. s < st.next \/ s \in OpenedBy(pend)
      BY <1>4, <1>8, <3>1 DEF FreshInv
    <3> QED
      BY <1>4, <1>5, <3>2, OpsIds
  <2> QED
    BY <2>1, <2>2
<1>9. /\ Used(disk) \subseteq Opened(disk) /\ Used(buf) \subseteq Known
      /\ conns \cup doomed \subseteq Known /\ Ids(st) \cup Held(st) \subseteq Known /\ buf = <<>>
  BY <1>4, <1>6 DEF FreshInv
<1> QED
  BY <1>4, <1>5, <1>6, <1>7, <1>8, <1>9 DEF FreshInv

LEMMA ReplayOpFresh ==
  ASSUME TypeOK, FreshInv, MultiInStep, ReplayOp PROVE FreshInv'
<1> DEFINE prim == Head(pend)
           rest == Tail(pend)
<1>1. /\ prim \in Primitive /\ rest \in Seq(Primitive) /\ pend \in Seq(Primitive) /\ pend # <<>>
      /\ st \in Storage /\ CanReplay(st, prim) /\ st' = Replayed(st, prim)
  BY HeadTailProperties DEF TypeOK, ReplayOp
<1>2. OpenedBy(pend) = OpenedBy(<<prim>>) \cup OpenedBy(rest)
      /\ UsedBy(pend) = UsedBy(<<prim>>) \cup UsedBy(rest)
  BY <1>1, OpsIds
<1>3. /\ pend' = rest /\ multi = NoMulti
      /\ phase = "replaying" /\ phase' = "replaying"
      /\ UNCHANGED <<multi, conns, doomed, disk, buf, pos>>
  BY DEF ReplayOp, MultiInStep, log
<1> HIDE DEF prim, rest
<1>4. Held(st') \subseteq Held(st)
  BY <1>1, ReplayedHeld
<1>5. Carried(st, prim, st') \/ Forgetful(st, prim, st')
  BY <1>1, ReplayedCarries
<1>6. Ids(st') \subseteq Ids(st) \cup UsedBy(<<prim>>)
  <2>1. Brought(prim) \subseteq UsedBy(<<prim>>)
    BY FewEntries DEF Brought, UsedBy
  <2> QED
    BY <1>1, <1>5, <2>1, CarriedIds
<1>7. /\ \A s \in OpenedBy(<<prim>>) : s < st'.next
      /\ \A n \in Nat : n < st.next => n < st'.next
  BY <1>1, <1>5, CarriedKin
<1>8. Known' = Known /\ Trees' = {st'} /\ Trees = {st}
  BY <1>3 DEF Known, Trees
<1>9. ASSUME NEW i \in DOMAIN disk', i < pos', NEW s \in OpenedBy(disk'[i].ops)
      PROVE  s < st'.next \/ s \in OpenedBy(pend')
  <2>1. s < st.next \/ s \in OpenedBy(pend)
    BY <1>3, <1>9 DEF FreshInv
  <2>2. s \in Nat
    BY <1>9, BoundAssumption DEF OpenedBy, Sid
  <2> QED
    BY <1>2, <1>3, <1>7, <2>1, <2>2
<1>10. /\ Used(disk) \subseteq Opened(disk) /\ Used(buf) \subseteq Known
       /\ conns \cup doomed \subseteq Known /\ Ids(st) \cup Held(st) \subseteq Known /\ buf = <<>>
       /\ UsedBy(pend) \subseteq Known
  BY <1>3, <1>8 DEF FreshInv
<1> QED
  BY <1>2, <1>3, <1>4, <1>6, <1>8, <1>9, <1>10 DEF FreshInv

(* At the end of the log every record has been replayed.                   *)
LEMMA RestartedFresh == ASSUME TypeOK, FreshInv, MultiInStep, Restarted PROVE FreshInv'
<1>1. /\ disk \in Seq(Record) /\ pos \in Nat \ {0} /\ Len(disk) \in Nat /\ pos > Len(disk)
      /\ DOMAIN disk = 1 .. Len(disk) /\ pend = <<>>
  BY LenProperties DEF TypeOK, Restarted
<1>2. /\ multi = NoMulti /\ phase = "replaying" /\ phase' = "up"
      /\ UNCHANGED <<st, multi, conns, doomed, disk, buf>>
  BY DEF Restarted, MultiInStep, log
<1>3. ASSUME NEW s \in Known PROVE s < st.next
  <2>1. buf = <<>> /\ Opened(buf) = {}
    BY <1>2, RecordIds DEF FreshInv
  <2>2. PICK r \in Entries(disk) : s \in OpenedBy(r.ops)
    BY <2>1 DEF Known, Opened
  <2>3. PICK i \in DOMAIN disk : r = disk[i]
    BY DEF Entries
  <2>4. i < pos
    BY <1>1
  <2> QED
    BY <1>1, <1>2, <2>2, <2>3, <2>4, OpsIds DEF FreshInv
<1>4. Known' = Known /\ Trees' = Trees /\ st \in Trees
  BY <1>2 DEF Known, Trees
<1> QED
  BY <1>2, <1>3, <1>4 DEF FreshInv

LEMMA RestFresh ==
  ASSUME TypeOK, FreshInv,
         \/ AbortMulti \/ Sweep \/ (\E s \in Sid : Disconnect(s))
         \/ ReplayPanics \/ UNCHANGED vars
  PROVE  FreshInv'
<1>1. UNCHANGED <<st, disk, buf>> /\ Trees' \subseteq Trees
  BY DEF AbortMulti, Sweep, Disconnect, ReplayPanics, vars, log, Trees
<1>2. Known' = Known
  BY <1>1 DEF Known
<1>3. conns' \subseteq conns /\ doomed' \subseteq doomed \cup st.queue
  BY DEF AbortMulti, Sweep, Disconnect, ReplayPanics, vars
<1>4. st.queue \subseteq Known
  BY DEF FreshInv, Trees, Held
<1>5. multi' \in {NoMulti, multi}
  BY DEF AbortMulti, Sweep, Disconnect, ReplayPanics, vars
<1>6. phase' = "up" => phase = "up"
  BY DEF AbortMulti, Sweep, Disconnect, ReplayPanics, vars, replay
<1>7. phase' = "replaying" => phase = "replaying" /\ UNCHANGED <<pos, pend>>
  BY DEF AbortMulti, Sweep, Disconnect, ReplayPanics, vars, replay
<1> QED
  BY <1>1, <1>2, <1>3, <1>4, <1>5, <1>6, <1>7 DEF FreshInv

LEMMA NextFresh ==
  ASSUME TypeOK, FreshInv, LogKnown, MultiInStep, [Next]_vars PROVE FreshInv'
<1>1. CASE \E s \in conns, req \in Requests : Serve(s, req)
  BY <1>1, ServeFresh
<1>2. CASE StageMulti \/ CommitMulti \/ AbortProcess
  BY <1>2, StageMultiFresh, CommitMultiFresh, AbortProcessFresh
<1>3. CASE Connect \/ \E s \in Sid : CloseExpired(s)
  BY <1>3, ConnectFresh, CloseExpiredFresh
<1>4. CASE Crash \/ ReplayRecord \/ ReplayOp \/ Restarted
  BY <1>4, CrashFresh, ReplayRecordFresh, ReplayOpFresh, RestartedFresh
<1>5. CASE \/ AbortMulti \/ Sweep \/ (\E s \in Sid : Disconnect(s))
           \/ ReplayPanics \/ UNCHANGED vars
  BY <1>5, RestFresh
<1> QED
  BY <1>1, <1>2, <1>3, <1>4, <1>5 DEF Next

LEMMA InitFresh == Init => FreshInv
<1> SUFFICES ASSUME Init PROVE FreshInv
  OBVIOUS
<1>1. /\ st = NewStorage /\ multi = NoMulti /\ disk = <<>> /\ buf = <<>> /\ conns = {}
      /\ doomed = {} /\ phase = "replaying" /\ pend = <<>>
  BY DEF Init
<1>2. Trees = {NewStorage} /\ UsedBy(pend) = {} /\ Used(disk) = {} /\ Used(buf) = {}
      /\ DOMAIN disk = {}
  BY <1>1, RecordIds, OpsIds DEF Trees
<1> QED
  BY <1>1, <1>2, NewIds DEF FreshInv

LEMMA FreshIds == TypeOK /\ FreshInv => NewSessionIdsAreFresh
<1> SUFFICES ASSUME TypeOK, FreshInv, phase = "up", NEW s \in Sid, InUse(s) PROVE s < st.next
  BY DEF NewSessionIdsAreFresh
<1>1. \A n \in Known : n < st.next
  BY DEF FreshInv
<1>2. Ids(st) \cup Held(st) \cup conns \cup doomed \cup Used(disk) \subseteq Known
  BY DEF FreshInv, Trees, Known
<1>3. ASSUME NEW i \in DOMAIN disk, NEW j \in DOMAIN disk[i].ops,
             disk[i].ops[j].op \in {"create", "open", "close"}, disk[i].ops[j].sid = s
      PROVE  s \in Used(disk)
  <2>1. disk[i] \in Entries(disk) /\ disk[i].ops[j] \in Entries(disk[i].ops)
    BY DEF Entries
  <2>2. s \in UsedBy(disk[i].ops)
    BY <1>3, <2>1 DEF UsedBy
  <2> QED
    BY <2>1, <2>2 DEF Used
<1>4. s \in Ids(st) \cup Held(st) \cup conns \cup doomed \cup Used(disk)
  BY <1>3 DEF InUse, Ids, Held
<1> QED
  BY <1>1, <1>2, <1>4

(* A handshake never hands out an id that is in use, whatever goes wrong   *)
(* with the flushes: an id that owns a node, holds a deadline or a watch,  *)
(* is connected or stands in the log was opened by a record of the log, and*)
(* next_session_id is above all of those as soon as the replay has ended.  *)
THEOREM NewSessionIdsAlwaysFresh == Spec => []NewSessionIdsAreFresh
<1>1. TypeOK /\ LogKnown /\ MultiInStep /\ FreshInv /\ [Next]_vars => FreshInv'
  BY NextFresh
<1> QED
  BY <1>1, InitFresh, FreshIds, AlwaysKnown, PTL DEF Spec
=============================================================================
