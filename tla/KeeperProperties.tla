-------------------------- MODULE KeeperProperties --------------------------
(***************************************************************************)
(* What KeeperServer promises: its type invariant, the invariants of the   *)
(* tree, the sessions, the watches and the log, and what a step may never  *)
(* do.  Which of them hold of which requests is for the runs to say.       *)
(***************************************************************************)
EXTENDS KeeperServer

Job == [sid : Sid, todo : Seq(MultiOp), staged : Storage, log : Seq(Primitive),
        events : SUBSET WatchEvent]

(* Every variable keeps its type: paths are paths, a node is a node, the   *)
(* log holds records and no id outgrows the bound on ids.                  *)
TypeOK ==
  /\ st \in Storage
  /\ multi # NoMulti => multi \in Job
  /\ disk \in Seq(Record) /\ buf \in Seq(Record)
  /\ conns \subseteq Sid /\ doomed \subseteq Sid
  /\ phase \in {"up", "replaying", "panicked"}
  /\ pos \in Nat \ {0} /\ pend \in Seq(Primitive)
  /\ reply \in ErrorCode \cup {"none"}
  /\ events \subseteq WatchEvent
  /\ lost \in Tree

-----------------------------------------------------------------------------
(* The trees in memory: the one requests see, and a Multi's clone. *)
Trees == {st} \cup (IF multi = NoMulti THEN {} ELSE {multi.staged})

(* The map is a tree, in memory, on a Multi's clone and at every point of  *)
(* a replay: the root is there, no node hangs from a missing parent, and a *)
(* node's children set names exactly the nodes below it (numChildren and   *)
(* the NotEmpty check read that set, storage.rs create and delete keep it).*)
TreeShape ==
  \A S \in Trees :
    /\ Exists(S, Root)
    /\ \A p \in Proper : Exists(S, p) => Exists(S, Parent[p])
    /\ \A p \in Path : Exists(S, p) =>
         S.map[p].children = {ChildName[q] : q \in ChildPaths(S, p)}

(* A node with an owner is a leaf and is in that owner's index, so that    *)
(* closing the session finds it and can delete it.                         *)
OwnedNodesAreIndexedLeaves ==
  \A S \in Trees : \A p \in Path :
    Exists(S, p) /\ S.map[p].owner # NoOwner =>
      S.map[p].children = {} /\ p \in S.eph[S.map[p].owner]

(* The other way round: the index lists nothing but the session's own      *)
(* nodes, so that closing a session deletes nothing else.                  *)
IndexHoldsOnlyOwnNodes ==
  \A S \in Trees : \A s \in Sid : \A p \in S.eph[s] : Exists(S, p) /\ S.map[p].owner = s

(* next_session_id is above every id that means anything to the server or  *)
(* to its log, so that a handshake never hands out a session that still    *)
(* owns a node, a watch or a record, before or after a restart.            *)
InUse(s) ==
  \/ s \in st.alive \cup st.queue \cup conns \cup doomed
  \/ st.eph[s] # {} \/ st.watch.rev[s] # {}
  \/ \E p \in Path : Exists(st, p) /\ st.map[p].owner = s
  \/ \E i \in DOMAIN disk : \E j \in DOMAIN disk[i].ops :
       disk[i].ops[j].op \in {"create", "open", "close"} /\ disk[i].ops[j].sid = s

NewSessionIdsAreFresh == phase = "up" => \A s \in Sid : InUse(s) => s < st.next

(* The zxids in the log increase strictly and never pass last_zxid, across *)
(* restarts too: no two transactions share a zxid.                         *)
LogIsOrdered ==
  /\ \A i, j \in DOMAIN disk : i < j => disk[i].index < disk[j].index
  /\ phase = "up" => \A i \in DOMAIN disk : disk[i].index <= st.zxid

(* The stamps of a Stat agree with one another and with last_zxid: created *)
(* no later than last modified, and neither nor the last change of the     *)
(* children in the future.                                                 *)
StampsAgree ==
  \A S \in Trees : \A p \in Path : Exists(S, p) =>
    LET n == S.map[p]
    IN  n.czxid <= n.mzxid /\ n.czxid <= n.pzxid /\ n.mzxid <= S.zxid /\ n.pzxid <= S.zxid

(* Sequential siblings sort by age: of two that exist, the one with the    *)
(* higher number is not the older one.  Locks and queues are built on it.  *)
SequenceFollowsAge ==
  \A S \in Trees : \A p \in Prefix : \A i, j \in Cversion :
    i < j /\ Exists(S, Suffixed[p][i]) /\ Exists(S, Suffixed[p][j]) =>
      S.map[Suffixed[p][i]].czxid <= S.map[Suffixed[p][j]].czxid

(* The two watch indexes agree, so that Clear, which walks one, leaves     *)
(* nothing behind in the other.                                            *)
WatchIndexesAgree ==
  \A S \in Trees : \A s \in Sid, w \in Watch : s \in S.watch.fwd[w] <=> w \in S.watch.rev[s]

(* The server can always start from the log it wrote itself: no operation  *)
(* replayed by KeeperServer::new meets one of its expect()s.               *)
NeverPanics == phase # "panicked"

-----------------------------------------------------------------------------
(* "On startup the server replays the log and rebuilds the tree": the tree *)
(* a restart ends with is the one the crash found, stamps and all.         *)
Restarting == phase = "replaying" /\ phase' = "up"

RestartRestoresTree == [][Restarting => st'.map = lost]_vars

(* The part of it that no test disputes: a restart brings back every       *)
(* persistent node, and whatever it brings back is a node the crash found, *)
(* with the data, the version, the owner and the stamps it had.  A test    *)
(* wants no ephemeral node to come back; in the code those of live         *)
(* sessions do.  That is left open here.                                   *)
PersistentNodesRestored ==
  [][Restarting => \A p \in Path :
       /\ lost[p] # NoNode /\ lost[p].owner = NoOwner => Exists(st', p)
       /\ Exists(st', p) =>
            /\ lost[p] # NoNode
            /\ \A field \in {"data", "version", "owner", "czxid", "mzxid"} :
                 st'.map[p][field] = lost[p][field]]_vars

Serving == phase = "up" /\ phase' = "up"

(* A request that is answered with an error changed nothing: not the tree, *)
(* not the zxid, not the log.                                              *)
RefusedChangesNothing ==
  [][Serving /\ reply' \notin {"Ok", "none"} =>
       st'.map = st.map /\ st'.zxid = st.zxid /\ st'.eph = st.eph /\ UNCHANGED <<disk, buf>>]_vars

(* "If the client got an OK, the change is on disk": a step that answers   *)
(* Ok and changes the tree ends with its own record, the last one, in the  *)
(* segments and nothing left in the buffer.                                *)
AcknowledgedIsDurable ==
  [][Serving /\ reply' = "Ok" /\ st'.map # st.map =>
       /\ Len(disk') > Len(disk) /\ buf' = <<>>
       /\ disk'[Len(disk')].index = st'.zxid /\ st'.zxid > st.zxid]_vars

(* When a session ends its nodes end with it, and no other node does.      *)
SessionTakesItsNodes ==
  [][\A s \in Sid : s \in st.alive /\ s \notin st'.alive /\ Serving =>
       \A p \in Path : Exists(st, p) => (Exists(st', p) <=> st.map[p].owner # s)]_vars

(* Whoever watches what a step changes is told: a data watch when its node *)
(* appears, goes or gets new data, a list watch when the children of its   *)
(* node change or the node goes.  A list watch is told by a Child event    *)
(* while its node stays; what it is told when the node goes is left open,  *)
(* between the Child of the code and the Deleted of a test.                *)
DataChanged(p) ==
  \/ Exists(st, p) # Exists(st', p)
  \/ Exists(st, p) /\ Exists(st', p) /\ st.map[p].version # st'.map[p].version

ChildrenChanged(p) ==
  /\ Exists(st, p)
  /\ Exists(st', p) => st.map[p].children # st'.map[p].children

Stays(p) == Exists(st, p) /\ Exists(st', p) /\ st.map[p].czxid = st'.map[p].czxid

WatchersTold ==
  Serving => \A p \in Path, s \in conns \cap conns' :
    /\ DataChanged(p) /\ s \in st.watch.fwd[<<p, "data">>] =>
         \E e \in events' : e.sid = s /\ e.path = p /\ e.type # "Child"
    /\ ChildrenChanged(p) /\ s \in st.watch.fwd[<<p, "list">>] =>
         \E e \in events' :
           /\ e.sid = s /\ e.path = p
           /\ e.type = "Child" \/ (e.type = "Deleted" /\ ~Stays(p))

WatchersAreTold == [][WatchersTold]_vars

(* A watch fires once: a notification uses up the watch it answers, and a  *)
(* session that stays loses a watch in no other way.  The code answers a   *)
(* list watch with Child and a data watch with anything else.              *)
Answers(e, s, w) == e.sid = s /\ e.path = w[1] /\ (e.type = "Child" <=> w[2] = "list")

FiredOnce ==
  Serving => \A s \in conns \cap conns', w \in Watch :
    (\E e \in events' : Answers(e, s, w)) <=>
      s \in st.watch.fwd[w] /\ s \notin st'.watch.fwd[w]

WatchesFireOnce == [][FiredOnce]_vars

(* "Deleting a child advances the parent's pzxid": whenever the children   *)
(* of a node change, so does its pzxid, upwards, and its cversion.         *)
ChildChangeIsStamped ==
  [][Serving => \A p \in Path :
       Exists(st, p) /\ Exists(st', p) /\ st.map[p].children # st'.map[p].children =>
         \/ st'.map[p].czxid > st.map[p].czxid
         \/ st'.map[p].pzxid > st.map[p].pzxid /\ st'.map[p].cversion # st.map[p].cversion]_vars

(* A version identifies a node's data: what a client read under a version  *)
(* is still there while the node (by czxid) still has that version.        *)
VersionIdentifiesData ==
  [][\A p \in Path :
       Exists(st, p) /\ Exists(st', p) /\ Serving
         /\ st.map[p].czxid = st'.map[p].czxid /\ st.map[p].version = st'.map[p].version =>
           st.map[p].data = st'.map[p].data /\ st.map[p].owner = st'.map[p].owner]_vars
=============================================================================
