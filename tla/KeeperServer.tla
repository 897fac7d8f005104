---------------------------- MODULE KeeperServer ----------------------------
(***************************************************************************)
(* keeper_server.rs over the storage and the write-ahead log: sessions     *)
(* connect and send requests, a background task expires them, the process  *)
(* crashes and starts again by replaying the log.                          *)
(*                                                                         *)
(* A handler holds the storage write lock from its first check to its      *)
(* answer, through the append and the flush, so a single-operation request *)
(* is one step.  A crash inside it leaves either no record (as if it never *)
(* ran) or a complete one (as if it crashed after the step).  A Multi is   *)
(* staged operation by operation, since it reads what it has staged.       *)
(***************************************************************************)
EXTENDS KeeperStorage

CONSTANTS Requests,   \* what clients send
          Faults,     \* what can go wrong in a flush: subset of FlushFault
          MaxZxid,    \* bound on the zxids handed out
          NoMulti

FlushFault == {"write", "sync", "rotate"}

ASSUME RequestAssumption ==
  Requests \subseteq MultiOp \cup ReadRequest \cup MultiRequest \cup PlainRequest

ASSUME FaultAssumption == Faults \subseteq FlushFault /\ MaxZxid \in Nat

VARIABLES
  st,      \* the KeeperStorage in memory
  multi,   \* the Multi holding the write lock: sid, todo, staged, log, events
  disk,    \* records in the segments, in order
  buf,     \* records still in the SegmentWriter's buffer
  conns,   \* sessions with an open connection
  doomed,  \* what the background task found expired and has yet to close
  phase,   \* "up", "replaying" or "panicked"
  pos,     \* replay: the next record
  pend,    \* replay: what is left of the current record
  reply,   \* the error code of the last request's answer ("none": no answer)
  events,  \* the notifications the last step handed to the dispatcher
  lost     \* history: the tree the last crash found

vars == <<st, multi, disk, buf, conns, doomed, phase, pos, pend, reply, events, lost>>
log == <<disk, buf>>
replay == <<phase, pos, pend, lost>>

Init ==
  /\ st = NewStorage
  /\ multi = NoMulti
  /\ disk = <<>> /\ buf = <<>>
  /\ conns = {} /\ doomed = {}
  /\ phase = "replaying" /\ pos = 1 /\ pend = <<>>
  /\ reply = "none" /\ events = {}
  /\ lost = NewStorage.map

-----------------------------------------------------------------------------
(* The log.  A flush writes the whole buffer, syncs it and empties it; it  *)
(* then rotates a full segment, and reports a failed rotation as its own.  *)
Rec(zxid, ops) == [index |-> zxid, ops |-> ops]

(* Faulty: the record is appended and left in the buffer. *)
FlushOkLazy(rec) ==
  /\ buf' = Append(buf, rec)
  /\ UNCHANGED disk

FlushOk(rec) ==
  /\ disk' = disk \o Append(buf, rec)
  /\ buf' = <<>>

(* Faulty: the record that could not be written is dropped. *)
WriteFailsForgetting(rec) ==
  /\ "write" \in Faults
  /\ UNCHANGED <<buf, disk>>

WriteFails(rec) ==
  /\ "write" \in Faults
  /\ buf' = Append(buf, rec)
  /\ UNCHANGED disk

SyncFails(rec) ==
  /\ "sync" \in Faults
  /\ buf' = Append(buf, rec)
  /\ disk' = disk \o Append(buf, rec)

RotateFails(rec) ==
  /\ "rotate" \in Faults
  /\ disk' = disk \o Append(buf, rec)
  /\ buf' = <<>>

FlushFails(rec) == WriteFails(rec) \/ SyncFails(rec) \/ RotateFails(rec)

-----------------------------------------------------------------------------
(* Requests.  Serving one needs the write lock, and touches the session.   *)
Ready(s) == phase = "up" /\ multi = NoMulti /\ s \in conns

Answer(err, evs) == reply' = err /\ events' = evs

(* An answer that needs no log record: S is what it leaves in memory. *)
Respond(S, err, evs) ==
  /\ st' = S
  /\ Answer(err, evs)
  /\ UNCHANGED <<multi, conns, doomed, log, replay>>

(* Faulty: a failed flush gives its zxid back. *)
LogThenApplyReusing(s, prim, S, err, evs) ==
  /\ st.zxid < MaxZxid
  /\ LET rec == Rec(st.zxid + 1, <<prim>>)
     IN  \/ FlushOk(rec) /\ st' = S /\ Answer(err, evs)
         \/ FlushFails(rec) /\ st' = Touch(st, s) /\ Answer("SystemError", {})
  /\ UNCHANGED <<multi, conns, doomed, replay>>

(* Log one primitive under the next zxid; apply it only once it is flushed.*)
LogThenApply(s, prim, S, err, evs) ==
  /\ st.zxid < MaxZxid
  /\ LET rec == Rec(st.zxid + 1, <<prim>>)
     IN  \/ FlushOk(rec) /\ st' = S /\ Answer(err, evs)
         \/ FlushFails(rec) /\ st' = Bump(Touch(st, s)) /\ Answer("SystemError", {})
  /\ UNCHANGED <<multi, conns, doomed, replay>>

Notify(S, p, type) == [S EXCEPT !.watch = Fire(@, p, type)]

(* Faulty: logs before it has looked whether the node exists. *)
CreatePrecheckNoExists(op) ==
  IF op.path \notin Proper THEN "BadArguments"
  ELSE IF ~Exists(st, Parent[op.path]) THEN "NoNode"
  ELSE "Ok"

(* What handle_create checks before it logs: not the owner of the parent,  *)
(* and not the name a sequential node will get.                            *)
CreatePrecheck(op) ==
  IF Exists(st, op.path) THEN "NodeExists"
  ELSE IF op.path \notin Proper THEN "BadArguments"
  ELSE IF ~Exists(st, Parent[op.path]) THEN "NoNode"
  ELSE "Ok"

HandleCreate(s, op) ==
  /\ op.op = "create" /\ Ready(s)
  /\ LET now == Bump(Touch(st, s))
         made == CreatedPath(now, op)
     IN  \/ /\ CreatePrecheck(op) # "Ok"
            /\ Respond(Touch(st, s), CreatePrecheck(op), {})
         \/ /\ CreatePrecheck(op) = "Ok"
            /\ CreateError(now, op) = "Ok"
            /\ LogThenApply(s, LogCreate(op, s), Notify(Create(now, op, s), made, "Created"),
                            "Ok", FireEvents(now.watch, made, "Created"))
         \/ /\ CreatePrecheck(op) = "Ok"
            /\ CreateError(now, op) # "Ok"
            /\ LogThenApply(s, LogCreate(op, s), now, "BadArguments", {})

(* The checks a conditional operation on a node makes, in handle_set,      *)
(* handle_delete and inside a Multi.                                       *)
VersionError(S, op) ==
  IF ~Exists(S, op.path) THEN "NoNode"
  ELSE IF op.version \notin {AnyVersion, S.map[op.path].version} THEN "BadVersion"
  ELSE "Ok"

HandleSet(s, op) ==
  /\ op.op = "set" /\ Ready(s)
  /\ LET now == Bump(Touch(st, s))
     IN  \/ /\ VersionError(st, op) # "Ok"
            /\ Respond(Touch(st, s), VersionError(st, op), {})
         \/ /\ VersionError(st, op) = "Ok"
            /\ LogThenApply(s, LogSet(op),
                            Notify(SetData(now, op.path, op.data), op.path, "Changed"),
                            "Ok", FireEvents(now.watch, op.path, "Changed"))

(* Faulty: logs before it has looked for children. *)
DeletePrecheckNoChildren(op) == VersionError(st, op)

(* handle_delete does not refuse "/": the record is written, the delete's  *)
(* refusal is dropped, and the client is told it went well.                *)
DeletePrecheck(op) ==
  IF VersionError(st, op) # "Ok" THEN VersionError(st, op)
  ELSE IF st.map[op.path].children # {} THEN "NotEmpty"
  ELSE "Ok"

HandleDelete(s, op) ==
  /\ op.op = "delete" /\ Ready(s)
  /\ LET now == Bump(Touch(st, s))
         owner == st.map[op.path].owner
     IN  \/ /\ DeletePrecheck(op) # "Ok"
            /\ Respond(Touch(st, s), DeletePrecheck(op), {})
         \/ /\ DeletePrecheck(op) = "Ok"
            /\ LogThenApply(s, LogDelete(op),
                            Notify(RemoveEphemeral(TryDelete(now, op.path), owner, op.path),
                                   op.path, "Deleted"),
                            "Ok", FireEvents(now.watch, op.path, "Deleted"))

(* A read registers its watch whether or not the node exists. *)
HandleRead(s, req) ==
  /\ req.op \in WatchKind /\ Ready(s)
  /\ LET now == Touch(st, s)
     IN  Respond(IF req.watch
                 THEN [now EXCEPT !.watch = Register(@, s, <<req.path, req.op>>)] ELSE now,
                 IF Exists(st, req.path) THEN "Ok" ELSE "NoNode", {})

(* A body that does not parse and an opcode that is not served get         *)
(* BadArguments; an opcode outside the enum panics the task and gets none. *)
HandlePlain(s, req) ==
  /\ Ready(s)
  /\ \/ req.op = "ping" /\ Respond(Touch(st, s), "Ok", {})
     \/ req.op = "other" /\ \E err \in {"BadArguments", "none"} : Respond(Touch(st, s), err, {})

(* Close: in memory only.  No record, no zxid, no notification. *)
HandleClose(s, req) ==
  /\ req.op = "close" /\ Ready(s)
  /\ \E D \in Reapable(st, st.eph[s]) :
       st' = [Remove(DropSession(Touch(st, s), s), D) EXCEPT !.watch = Clear(@, s)]
  /\ conns' = conns \ {s}
  /\ Answer("Ok", {})
  /\ UNCHANGED <<multi, doomed, log, replay>>

-----------------------------------------------------------------------------
(* Multi.  The operations run on a clone, one after the other, under one   *)
(* zxid; the first refusal drops the clone.                                *)
BeginMulti(s, req) ==
  /\ req.op = "multi" /\ Ready(s)
  /\ st.zxid < MaxZxid
  /\ st' = Touch(st, s)
  /\ multi' = [sid |-> s, todo |-> req.ops, staged |-> Bump(Touch(st, s)),
               log |-> <<>>, events |-> {}]
  /\ UNCHANGED <<conns, doomed, reply, log, replay>>
  /\ events' = {}

(* Faulty: a Multi deletes a node from above its children. *)
MultiErrorNoChildren(S, op) ==
  IF op.op = "create" THEN CreateError(S, op)
  ELSE IF VersionError(S, op) # "Ok" \/ op.op # "delete" THEN VersionError(S, op)
  ELSE IF op.path = Root THEN "BadArguments"
  ELSE "Ok"

MultiError(S, op) ==
  IF op.op = "create" THEN CreateError(S, op)
  ELSE IF VersionError(S, op) # "Ok" \/ op.op # "delete" THEN VersionError(S, op)
  ELSE IF op.path = Root THEN "BadArguments"
  ELSE IF S.map[op.path].children # {} THEN "NotEmpty"
  ELSE "Ok"

(* One operation carried out on the clone: the clone after it, and its     *)
(* record and event (a Check leaves neither).                              *)
Stage(S, op, s) ==
  CASE op.op = "create" -> Notify(Create(S, op, s), CreatedPath(S, op), "Created")
    [] op.op = "set"    -> Notify(SetData(S, op.path, op.data), op.path, "Changed")
    [] op.op = "delete" -> Notify(RemoveEphemeral(Remove(S, {op.path}), S.map[op.path].owner, op.path),
                                  op.path, "Deleted")
    [] op.op = "check"  -> S

(* Faulty: a Set inside a Multi is not logged. *)
StagedLogNoSet(op, s) ==
  CASE op.op = "create" -> <<LogCreate(op, s)>>
    [] op.op = "delete" -> <<LogMultiDelete(op)>>
    [] op.op \in {"set", "check"} -> <<>>

StagedLog(op, s) ==
  CASE op.op = "create" -> <<LogCreate(op, s)>>
    [] op.op = "set"    -> <<LogSet(op)>>
    [] op.op = "delete" -> <<LogMultiDelete(op)>>
    [] op.op = "check"  -> <<>>

StagedEvents(S, op) ==
  CASE op.op = "create" -> FireEvents(S.watch, CreatedPath(S, op), "Created")
    [] op.op = "set"    -> FireEvents(S.watch, op.path, "Changed")
    [] op.op = "delete" -> FireEvents(S.watch, op.path, "Deleted")
    [] op.op = "check"  -> {}

Staging == phase = "up" /\ multi # NoMulti

StageMulti ==
  /\ Staging /\ multi.todo # <<>>
  /\ LET op == Head(multi.todo)
     IN  /\ MultiError(multi.staged, op) = "Ok"
         /\ multi' = [multi EXCEPT !.todo = Tail(@),
                                   !.staged = Stage(@, op, multi.sid),
                                   !.log = @ \o StagedLog(op, multi.sid),
                                   !.events = @ \cup StagedEvents(multi.staged, op)]
  /\ UNCHANGED <<st, conns, doomed, reply, events, log, replay>>

AbortMulti ==
  /\ Staging /\ multi.todo # <<>>
  /\ MultiError(multi.staged, Head(multi.todo)) # "Ok"
  /\ multi' = NoMulti
  /\ Answer(MultiError(multi.staged, Head(multi.todo)), {})
  /\ UNCHANGED <<st, conns, doomed, log, replay>>

MultiRec == Rec(multi.staged.zxid, multi.log)

CommitMulti ==
  /\ Staging /\ multi.todo = <<>>
  /\ FlushOk(MultiRec)
  /\ st' = multi.staged
  /\ multi' = NoMulti
  /\ Answer("Ok", multi.events)
  /\ UNCHANGED <<conns, doomed, replay>>

-----------------------------------------------------------------------------
(* Sessions.  Neither a session's creation nor its expiry looks at whether *)
(* its record was flushed.                                                 *)
LogAnyway(rec) == FlushOk(rec) \/ FlushFails(rec)

(* dispatcher.handshake: always a new session. *)
Connect ==
  /\ phase = "up" /\ multi = NoMulti
  /\ st.next <= MaxSession /\ st.zxid < MaxZxid
  /\ st' = Bump(OpenSession(st))
  /\ LogAnyway(Rec(st.zxid + 1, <<LogOpen(st.next)>>))
  /\ conns' = conns \cup {st.next}
  /\ Answer("none", {})
  /\ UNCHANGED <<multi, doomed, replay>>

(* The socket goes away; the server does nothing about the session. *)
Disconnect(s) ==
  /\ phase = "up" /\ s \in conns
  /\ conns' = conns \ {s}
  /\ Answer("none", {})
  /\ UNCHANGED <<st, multi, doomed, log, replay>>

(* The background task takes a snapshot of the expired sessions, under a   *)
(* read lock, and closes them one by one, each under its own write lock.   *)
Sweep ==
  /\ phase = "up" /\ multi = NoMulti /\ doomed = {}
  /\ doomed' \in (SUBSET st.queue) \ {{}}
  /\ Answer("none", {})
  /\ UNCHANGED <<st, multi, conns, log, replay>>

(* Faulty: the expiry is not logged; the index is read after it is gone. *)
CloseExpiredUnlogged(s) ==
  /\ phase = "up" /\ multi = NoMulti /\ s \in doomed
  /\ \E D \in Reapable(st, st.eph[s]) : st' = Remove(DropSession(st, s), D)
  /\ doomed' = doomed \ {s}
  /\ Answer("none", {})
  /\ UNCHANGED <<multi, conns, log, replay>>
CloseExpiredKeepingNodes(s) ==
  /\ phase = "up" /\ multi = NoMulti /\ s \in doomed
  /\ st.zxid < MaxZxid
  /\ LogAnyway(Rec(st.zxid + 1, <<LogClose(s)>>))
  /\ st' = DropSession(Bump(st), s)
  /\ doomed' = doomed \ {s}
  /\ Answer("none", {})
  /\ UNCHANGED <<multi, conns, replay>>

CloseExpired(s) ==
  /\ phase = "up" /\ multi = NoMulti /\ s \in doomed
  /\ st.zxid < MaxZxid
  /\ LogAnyway(Rec(st.zxid + 1, <<LogClose(s)>>))
  /\ \E D \in Reapable(st, st.eph[s]) : st' = Remove(DropSession(Bump(st), s), D)
  /\ doomed' = doomed \ {s}
  /\ Answer("none", {})
  /\ UNCHANGED <<multi, conns, replay>>

-----------------------------------------------------------------------------
(* Crash and restart.  All but the segments is gone; KeeperServer::new     *)
(* starts from an empty storage and applies the log.                       *)
LoseMemory ==
  /\ st' = NewStorage
  /\ multi' = NoMulti
  /\ buf' = <<>>
  /\ conns' = {} /\ doomed' = {}
  /\ phase' = "replaying" /\ pos' = 1 /\ pend' = <<>>
  /\ Answer("none", {})
  /\ lost' = IF phase = "up" THEN st.map ELSE lost

Crash == LoseMemory /\ UNCHANGED disk

(* A Multi whose flush fails aborts the process: what reached the disk     *)
(* stays there.                                                            *)
AbortProcess ==
  /\ Staging /\ multi.todo = <<>>
  /\ LoseMemory
  /\ \/ "write" \in Faults /\ UNCHANGED disk
     \/ Faults \cap {"sync", "rotate"} # {} /\ disk' = disk \o Append(buf, MultiRec)

(* Faulty: replay does not take the zxid from the record. *)
ReplayRecordUnnumbered ==
  /\ phase = "replaying" /\ pend = <<>> /\ pos <= Len(disk)
  /\ pend' = disk[pos].ops
  /\ pos' = pos + 1
  /\ UNCHANGED <<st, multi, conns, doomed, log, phase, reply, events, lost>>

ReplayRecord ==
  /\ phase = "replaying" /\ pend = <<>> /\ pos <= Len(disk)
  /\ st' = [st EXCEPT !.zxid = disk[pos].index]
  /\ pend' = disk[pos].ops
  /\ pos' = pos + 1
  /\ UNCHANGED <<multi, conns, doomed, log, phase, reply, events, lost>>

(* What replaying a primitive does, and whether it can: the code expects   *)
(* every operation to succeed as it did, and panics where one does not.    *)
(* The Delete of a single operation leaves the owner's index alone.        *)
Replayed(S, prim) ==
  CASE prim.op = "create" -> Create(S, prim, prim.sid)
    [] prim.op = "set"    -> SetData(S, prim.path, prim.data)
    [] prim.op = "delete" -> Remove(S, {prim.path})
    [] prim.op = "multi_delete" ->
         RemoveEphemeral(Remove(S, {prim.path}), S.map[prim.path].owner, prim.path)
    [] prim.op = "open"   -> RestoreSession(S, prim.sid)
    [] prim.op = "close"  -> Remove(DropSession(S, prim.sid), S.eph[prim.sid])

(* Close deletes the paths in the order of a HashSet: some order succeeds  *)
(* when they all exist and their children are among them, and every order  *)
(* does when they are childless besides.                                   *)
CanReplay(S, prim) ==
  CASE prim.op = "create" -> CreateError(S, prim) = "Ok"
    [] prim.op = "set"    -> Exists(S, prim.path)
    [] prim.op \in {"delete", "multi_delete"} -> Deletable(S, prim.path)
    [] prim.op = "open"   -> TRUE
    [] prim.op = "close"  -> S.eph[prim.sid] \in Reapable(S, S.eph[prim.sid])

MustReplay(S, prim) ==
  IF prim.op = "close" THEN \A p \in S.eph[prim.sid] : Deletable(S, p) ELSE CanReplay(S, prim)

ReplayOp ==
  /\ phase = "replaying" /\ pend # <<>>
  /\ CanReplay(st, Head(pend))
  /\ st' = Replayed(st, Head(pend))
  /\ pend' = Tail(pend)
  /\ UNCHANGED <<multi, conns, doomed, log, phase, pos, reply, events, lost>>

ReplayPanics ==
  /\ phase = "replaying" /\ pend # <<>>
  /\ ~MustReplay(st, Head(pend))
  /\ phase' = "panicked"
  /\ UNCHANGED <<st, multi, conns, doomed, log, pos, pend, reply, events, lost>>

Restarted ==
  /\ phase = "replaying" /\ pend = <<>> /\ pos > Len(disk)
  /\ phase' = "up" /\ pos' = 1
  /\ lost' = NewStorage.map
  /\ UNCHANGED <<st, multi, conns, doomed, log, pend, reply, events>>

-----------------------------------------------------------------------------
Serve(s, req) ==
  \/ HandleCreate(s, req) \/ HandleSet(s, req) \/ HandleDelete(s, req)
  \/ HandleRead(s, req) \/ HandlePlain(s, req) \/ HandleClose(s, req)
  \/ BeginMulti(s, req)

Next ==
  \/ \E s \in conns, req \in Requests : Serve(s, req)
  \/ StageMulti \/ AbortMulti \/ CommitMulti \/ AbortProcess
  \/ Connect
  \/ \E s \in Sid : Disconnect(s) \/ CloseExpired(s)
  \/ Sweep
  \/ Crash
  \/ ReplayRecord \/ ReplayOp \/ ReplayPanics \/ Restarted

Spec == Init /\ [][Next]_vars
=============================================================================
