----------------------------- MODULE WatchState -----------------------------
(***************************************************************************)
(* watch_state.rs: the one-shot watches, as the two indexes the code keeps *)
(* (path and kind to sessions, session to path and kind) and the three     *)
(* operations on them.  The persistent kinds are declared in the code but  *)
(* nothing registers or fires them.                                        *)
(***************************************************************************)
EXTENDS Protocol

WatchKind == {"data", "list"}
Watch == Path \X WatchKind

Watches == [fwd : [Watch -> SUBSET Sid], rev : [Sid -> SUBSET Watch]]
WatchEvent == [sid : Sid, type : {"Created", "Deleted", "Changed", "Child"}, path : Path]

NoWatches == [fwd |-> [w \in Watch |-> {}], rev |-> [s \in Sid |-> {}]]

Register(ws, s, w) ==
  [fwd |-> [ws.fwd EXCEPT ![w] = @ \cup {s}],
   rev |-> [ws.rev EXCEPT ![s] = @ \cup {w}]]

(* Faulty: the reverse entry goes, the forward ones stay. *)
ClearReverseOnly(ws, s) == [ws EXCEPT !.rev[s] = {}]

(* Clear walks the reverse index, so it finds what that index lists. *)
Clear(ws, s) ==
  [fwd |-> [w \in Watch |-> IF w \in ws.rev[s] THEN ws.fwd[w] \ {s} ELSE ws.fwd[w]],
   rev |-> [ws.rev EXCEPT ![s] = {}]]

(* rsplit_once("/") of "/" leaves "" before the slash, hence "/" again. *)
WatchParent(p) == IF p = Root THEN Root ELSE Parent[p]

(* Faulty: the watches on the parent's children forgotten. *)
DrainedWithoutParent(p, type) ==
  {<<p, "data">>} \cup (IF type = "Deleted" THEN {<<p, "list">>} ELSE {})

(* The watches an event on p drains.  fire is only called on a path that   *)
(* is, or just was, a node: Root or a proper path.                         *)
Drained(p, type) ==
  {<<p, "data">>}
  \cup (IF type \in {"Created", "Deleted"} THEN {<<WatchParent(p), "list">>} ELSE {})
  \cup (IF type = "Deleted" THEN {<<p, "list">>} ELSE {})

(* Faulty: the forward entry goes, the reverse one stays; nothing goes. *)
FireForwardOnly(ws, p, type) ==
  [ws EXCEPT !.fwd = [w \in Watch |-> IF w \in Drained(p, type) THEN {} ELSE @[w]]]
FireKeeping(ws, p, type) == ws

Fire(ws, p, type) ==
  LET gone == Drained(p, type)
  IN  [fwd |-> [w \in Watch |-> IF w \in gone THEN {} ELSE ws.fwd[w]],
       rev |-> [s \in Sid |-> ws.rev[s] \ {w \in gone : s \in ws.fwd[w]}]]

(* What each drained watch sends: the event itself to a data watch, Child  *)
(* at the watched path to a list watch.                                    *)
EventType(w, type) == IF w[2] = "data" THEN type ELSE "Child"

FireEvents(ws, p, type) ==
  UNION {{[sid |-> s, type |-> EventType(w, type), path |-> w[1]] : s \in ws.fwd[w]} :
            w \in Drained(p, type)}
=============================================================================
