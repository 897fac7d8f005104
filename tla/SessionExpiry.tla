---------------------------- MODULE SessionExpiry ----------------------------
(***************************************************************************)
(* When sessions end: SessionState and its SessionExpiryQueue, the clock,  *)
(* the background task that sweeps the queue, the requests that move       *)
(* deadlines, the records sessions leave in the log, and restarts.         *)
(* KeeperServer leaves the deadlines to chance (its sweep finds any        *)
(* session that has one); here they are the code's, and sessions own       *)
(* nothing.                                                                *)
(*                                                                         *)
(* The log is a set of records: an id is opened once, before it is closed, *)
(* so their order tells nothing more.  What a write that is cut off does   *)
(* to the records behind it is left to Changelog.                          *)
(*                                                                         *)
(* A HashMap or BTreeMap is a function whose domain is its keys.  Time is  *)
(* counted in ticks; now + timeout is positive in the code (milliseconds   *)
(* since 1970), so its division is \div, which rounds down.                *)
(***************************************************************************)
EXTENDS Integers, FiniteSets

CONSTANTS Interval,    \* width of a bucket, in ticks
          Timeouts,    \* what clients ask for in a handshake, unchecked by the server
          MaxNow,      \* bound on the clock, and on every deadline
          MaxSession   \* bound on handshakes

ASSUME ClockAssumption ==
  /\ Interval \in Nat \ {0} /\ MaxNow \in Nat /\ MaxSession \in Nat
  /\ Timeouts \subseteq Int

Sid == 1..MaxSession
Time == 0..MaxNow
NoScan == -1

VARIABLES
  now,      \* the clock
  timeout,  \* session_and_timeout: the live sessions and their timeouts
  queue,    \* the SessionExpiryQueue: expiry (of a session) and buckets (by deadline)
  next,     \* next_session_id
  conns,    \* sessions with an open connection
  disk,     \* the records about sessions that a start would read
  buf,      \* those in the writer's buffer
  scan,     \* the background task's reading of the clock, until it has the lock
  doomed,   \* what the background task found expired and has yet to close
  touched,  \* history: when the last request that reached a session was read
  ended     \* history: what the background task has closed and no restart brought back

vars == <<now, timeout, queue, next, conns, disk, buf, scan, doomed, touched, ended>>
log == <<disk, buf>>

Put(f, k, v) == [x \in DOMAIN f \cup {k} |-> IF x = k THEN v ELSE f[x]]
Drop(f, k) == [x \in DOMAIN f \ {k} |-> f[x]]
NoKeys == [x \in {} |-> 0]

-----------------------------------------------------------------------------
(* The queue.  A deadline is rounded up to the next multiple of Interval.  *)

EmptyQueue == [expiry |-> NoKeys, buckets |-> NoKeys]

(* Faulty: rounds down. *)
BucketDown(t, at) == ((at + t) \div Interval) * Interval

Bucket(t, at) == ((at + t + Interval - 1) \div Interval) * Interval

(* Take a session out of its bucket, and an emptied bucket out of the map. *)
Without(buckets, key, id) ==
  IF buckets[key] \ {id} = {} THEN Drop(buckets, key)
  ELSE Put(buckets, key, buckets[key] \ {id})

Unlisted(q, id) ==
  IF id \notin DOMAIN q.expiry THEN q
  ELSE [expiry |-> Drop(q.expiry, id),
        buckets |-> IF q.expiry[id] \notin DOMAIN q.buckets THEN q.buckets
                    ELSE Without(q.buckets, q.expiry[id], id)]

Listed(q, id, key) ==
  [expiry |-> Put(q.expiry, id, key),
   buckets |-> Put(q.buckets, key,
                   {id} \cup (IF key \in DOMAIN q.buckets THEN q.buckets[key] ELSE {}))]

(* Faulty: the new deadline is listed beside the old one. *)
TouchTwice(q, id, t, at) == Listed(q, id, Bucket(t, at))

(* Faulty: a bucket that exists is replaced. *)
TouchAlone(q, id, t, at) ==
  LET r == Unlisted(q, id)
  IN  [expiry |-> Put(r.expiry, id, Bucket(t, at)), buckets |-> Put(r.buckets, Bucket(t, at), {id})]

Touch(q, id, t, at) == Listed(Unlisted(q, id), id, Bucket(t, at))

Expired(q, at) == UNION {q.buckets[b] : b \in {k \in DOMAIN q.buckets : k <= at}}

-----------------------------------------------------------------------------
(* The log. *)

LogOpen(s, t) == [op |-> "open", sid |-> s, timeout |-> t]
LogClose(s) == [op |-> "close", sid |-> s]

Opened(recs) == {r.sid : r \in {x \in recs : x.op = "open"}}

(* Append, then flush the whole buffer: it is written and synced, or is    *)
(* written and stays in the buffer too, or is not written.  A failed       *)
(* rotation comes after the sync.  No caller here looks at the outcome.    *)
AppendAndFlush(recs) ==
  \/ disk' = disk \cup buf \cup recs /\ buf' \in {{}, buf \cup recs}
  \/ buf' = buf \cup recs /\ UNCHANGED disk

-----------------------------------------------------------------------------
Init ==
  /\ now = 0
  /\ timeout = NoKeys /\ queue = EmptyQueue /\ next = 1
  /\ conns = {} /\ disk = {} /\ buf = {}
  /\ scan = NoScan /\ doomed = {}
  /\ touched = [s \in Sid |-> 0] /\ ended = {}

(* Time passes, whatever the server does. *)
Tick ==
  /\ now < MaxNow
  /\ now' = now + 1
  /\ UNCHANGED <<timeout, queue, next, conns, log, scan, doomed, touched, ended>>

(* A handshake always opens a new session, whatever id the client presents *)
(* and whatever becomes of the session's record.  The clock is read before *)
(* the storage's lock is waited for, so what is used may be any earlier    *)
(* time.                                                                   *)
Handshake(t, at) ==
  /\ next <= MaxSession /\ at <= now /\ Bucket(t, at) \in Time
  /\ timeout' = Put(timeout, next, t)
  /\ queue' = Touch(queue, next, t, at)
  /\ AppendAndFlush({LogOpen(next, t)})
  /\ next' = next + 1
  /\ conns' = conns \cup {next}
  /\ touched' = [touched EXCEPT ![next] = at]
  /\ ended' = ended \ {next}
  /\ UNCHANGED <<now, scan, doomed>>

(* Any request moves the deadline of a live session.  A connection sends   *)
(* one request at a time, so its clock readings do not go back.  The flush *)
(* of a change takes along what is in the buffer.                          *)
TouchSession(s, at) ==
  IF s \in DOMAIN timeout THEN Touch(queue, s, timeout[s], at) ELSE queue

Request(s, at) ==
  /\ s \in conns /\ touched[s] <= at /\ at <= now
  /\ s \in DOMAIN timeout => Bucket(timeout[s], at) \in Time
  /\ queue' = TouchSession(s, at)
  /\ touched' = IF s \in DOMAIN timeout THEN [touched EXCEPT ![s] = at] ELSE touched
  /\ AppendAndFlush({})
  /\ UNCHANGED <<now, timeout, next, conns, scan, doomed, ended>>

(* SessionState::close_session *)
CloseSession(s) ==
  /\ timeout' = Drop(timeout, s)
  /\ queue' = Unlisted(queue, s)

(* A client says goodbye: the session goes, nothing is logged, and the     *)
(* connection breaks off after the answer.                                 *)
Close(s) ==
  /\ s \in conns
  /\ CloseSession(s)
  /\ conns' = conns \ {s}
  /\ UNCHANGED <<now, next, log, scan, doomed, touched, ended>>

(* A connection breaks; its session stays, and no other connection can     *)
(* take it up.                                                             *)
Disconnect(s) ==
  /\ s \in conns
  /\ conns' = conns \ {s}
  /\ UNCHANGED <<now, timeout, queue, next, log, scan, doomed, touched, ended>>

-----------------------------------------------------------------------------
(* The background task: sleep, read the clock, wait for the lock, list the *)
(* expired sessions, close them one lock at a time.                        *)

Wake ==
  /\ scan = NoScan /\ doomed = {}
  /\ scan' = now
  /\ UNCHANGED <<now, timeout, queue, next, conns, log, doomed, touched, ended>>

GetExpired ==
  /\ scan # NoScan
  /\ doomed' = Expired(queue, scan)
  /\ scan' = NoScan
  /\ UNCHANGED <<now, timeout, queue, next, conns, log, touched, ended>>

(* Faulty: nothing is logged. *)
CloseExpiredUnlogged(s) ==
  /\ s \in doomed
  /\ CloseSession(s)
  /\ doomed' = doomed \ {s} /\ ended' = ended \cup {s}
  /\ UNCHANGED <<now, next, conns, log, scan, touched>>

(* The session ends whatever becomes of its record, and whether it is      *)
(* still silent is not looked at again.  (The code goes bucket by bucket;  *)
(* here any of the list may be next.)                                      *)
CloseExpired(s) ==
  /\ s \in doomed
  /\ CloseSession(s)
  /\ AppendAndFlush({LogClose(s)})
  /\ doomed' = doomed \ {s} /\ ended' = ended \cup {s}
  /\ UNCHANGED <<now, next, conns, scan, touched>>

(* Each session the log opens and does not close is restored with its      *)
(* timeout and without a deadline.                                         *)
Unclosed == {s \in Opened(disk) : LogClose(s) \notin disk}

Replayed ==
  /\ timeout' = [s \in Unclosed |-> CHOOSE t \in Timeouts : LogOpen(s, t) \in disk]
  /\ queue' = EmptyQueue

(* Faulty: the ids in the log are not passed by. *)
RestartForgetting ==
  /\ Replayed /\ next' = 1
  /\ buf' = {} /\ conns' = {} /\ scan' = NoScan /\ doomed' = {}
  /\ ended' = ended \ DOMAIN timeout'
  /\ UNCHANGED <<now, disk, touched>>

(* The process dies with its buffer, and a new one replays the log.  The   *)
(* new next_session_id is 1, or follows the highest id that is replayed.   *)
Restart ==
  /\ Replayed
  /\ next' \in 1..(MaxSession + 1)
  /\ \A s \in Opened(disk) : s < next'
  /\ next' = 1 \/ next' - 1 \in Opened(disk)
  /\ buf' = {} /\ conns' = {} /\ scan' = NoScan /\ doomed' = {}
  /\ ended' = ended \ DOMAIN timeout'
  /\ UNCHANGED <<now, disk, touched>>

Next ==
  \/ Tick \/ Wake \/ GetExpired \/ Restart
  \/ \E t \in Timeouts, at \in Time : Handshake(t, at)
  \/ \E s \in Sid, at \in Time : Request(s, at)
  \/ \E s \in Sid : Close(s) \/ Disconnect(s) \/ CloseExpired(s)

Spec == Init /\ [][Next]_vars

(* Time goes on; the task is woken by a timer, and waits for nothing but   *)
(* the storage's lock, which tokio grants in turn and no holder keeps.     *)
BackgroundTaskRuns ==
  WF_vars(Wake) /\ WF_vars(GetExpired) /\ WF_vars(\E s \in Sid : CloseExpired(s))

FairSpec == Spec /\ WF_vars(Tick) /\ BackgroundTaskRuns

-----------------------------------------------------------------------------
(* Every variable keeps its type; ids in use are below next_session_id,    *)
(* those in the log included.                                              *)
Issued == 1..(next - 1)

LogRecord ==
  {LogOpen(s, t) : s \in Issued, t \in Timeouts} \cup {LogClose(s) : s \in Issued}

TypeOK ==
  /\ now \in Time /\ next \in 1..(MaxSession + 1)
  /\ DOMAIN timeout \subseteq Issued /\ \A s \in DOMAIN timeout : timeout[s] \in Timeouts
  /\ disk \subseteq LogRecord /\ buf \subseteq LogRecord
  /\ conns \subseteq Issued /\ doomed \subseteq Issued /\ ended \subseteq Sid
  /\ scan \in Time \cup {NoScan}
  /\ touched \in [Sid -> Time]

(* The queue's two maps agree, so that moving or removing a deadline finds *)
(* it: a session is in the bucket of its deadline and in no other, no      *)
(* empty bucket is kept, and only a live session has a deadline.           *)
QueueAgrees ==
  /\ DOMAIN queue.expiry \subseteq DOMAIN timeout
  /\ DOMAIN queue.buckets \subseteq Time
  /\ \A s \in DOMAIN queue.expiry :
       queue.expiry[s] \in DOMAIN queue.buckets /\ s \in queue.buckets[queue.expiry[s]]
  /\ \A b \in DOMAIN queue.buckets :
       /\ queue.buckets[b] # {}
       /\ \A s \in queue.buckets[b] : s \in DOMAIN queue.expiry /\ queue.expiry[s] = b

(* The task's list holds every session that has been silent for its        *)
(* timeout and an interval more when it reads the clock, and none that has *)
(* been silent for less than its timeout.                                  *)
OnlySilentAreDoomed ==
  [][scan # NoScan /\ scan' = NoScan /\ queue' = queue =>
       \A s \in DOMAIN queue.expiry :
         /\ s \in doomed' => touched[s] + timeout[s] <= scan
         /\ touched[s] + timeout[s] + Interval <= scan => s \in doomed']_vars

(* A session the task has closed does not come back, late requests or not, *)
(* except by a restart that finds its CloseSession record unwritten: still *)
(* in the buffer, after failed flushes, when the process died.  One flush  *)
(* that works, anybody's, protects it for good.  Its id may be handed out  *)
(* again, but only when the log has lost every record of it.               *)
ExpiredStaysDead ==
  [][\A s \in ended \cap (DOMAIN timeout' \cup DOMAIN queue'.expiry) :
       \/ LogClose(s) \in buf \ disk /\ queue' = EmptyQueue
       \/ s = next /\ s \notin Opened(disk \cup buf)]_vars

(* "Dies when the client goes silent for too long": a session with a       *)
(* deadline either hears from its client again, or loses its deadline,     *)
(* which it does by ending or by a restart.                                *)
SilentSessionsEnd ==
  \A s \in Sid, t \in Time :
    s \in DOMAIN queue.expiry /\ touched[s] = t ~> s \notin DOMAIN queue.expiry \/ touched[s] # t

(* A session whose connection is gone ends: no request can come for it any *)
(* more, and its nodes must not be held for ever.                          *)
AbandonedSessionsEnd ==
  \A s \in Sid : s \in DOMAIN timeout \ conns ~> s \notin DOMAIN timeout
=============================================================================
