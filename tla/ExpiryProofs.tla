---------------------------- MODULE ExpiryProofs ----------------------------
(***************************************************************************)
(* SessionExpiry for any number of sessions, any timeouts and any bucket   *)
(* width: its types, the agreement of the queue's two maps, who is found   *)
(* expired, and that the closed stay closed.  One inductive invariant      *)
(* carries them all.                                                       *)
(***************************************************************************)
EXTENDS SessionExpiry, TLAPS

-----------------------------------------------------------------------------
(* The queue, as a value. *)

(* The part of QueueAgrees that is about the queue alone. *)
Agreed(q) ==
  /\ \A s \in DOMAIN q.expiry :
       q.expiry[s] \in DOMAIN q.buckets /\ s \in q.buckets[q.expiry[s]]
  /\ \A b \in DOMAIN q.buckets :
       /\ q.buckets[b] # {}
       /\ \A s \in q.buckets[b] : s \in DOMAIN q.expiry /\ q.expiry[s] = b

(* What removing a session leaves. *)
LEMMA UnlistedAgrees ==
  ASSUME NEW q, Agreed(q), NEW id
  PROVE  LET r == Unlisted(q, id)
         IN  /\ Agreed(r)
             /\ DOMAIN r.expiry = DOMAIN q.expiry \ {id}
             /\ \A s \in DOMAIN r.expiry : r.expiry[s] = q.expiry[s]
             /\ DOMAIN r.buckets \subseteq DOMAIN q.buckets
<1> DEFINE r == Unlisted(q, id)
           key == q.expiry[id]
<1>1. CASE id \notin DOMAIN q.expiry
  BY <1>1 DEF Unlisted
<1>2. CASE id \in DOMAIN q.expiry
  <2>1. key \in DOMAIN q.buckets /\ id \in q.buckets[key]
    BY <1>2 DEF Agreed
  <2>2. r.expiry = Drop(q.expiry, id) /\ r.buckets = Without(q.buckets, key, id)
    BY <1>2, <2>1 DEF Unlisted
  <2>3. /\ DOMAIN r.expiry = DOMAIN q.expiry \ {id}
        /\ \A s \in DOMAIN r.expiry : r.expiry[s] = q.expiry[s]
    BY <2>2 DEF Drop
  <2>4. CASE q.buckets[key] \ {id} = {}
    <3>1. r.buckets = Drop(q.buckets, key)
      BY <2>2, <2>4 DEF Without
    <3>2. /\ DOMAIN r.buckets = DOMAIN q.buckets \ {key}
          /\ \A b \in DOMAIN r.buckets : r.buckets[b] = q.buckets[b]
      BY <3>1 DEF Drop
    <3>3. \A s \in DOMAIN r.expiry : r.expiry[s] # key
      BY <2>3, <2>4 DEF Agreed
    <3> QED
      BY <2>1, <2>3, <3>2, <3>3 DEF Agreed
  <2>5. CASE q.buckets[key] \ {id} # {}
    <3>1. r.buckets = Put(q.buckets, key, q.buckets[key] \ {id})
      BY <2>2, <2>5 DEF Without
    <3>2. /\ DOMAIN r.buckets = DOMAIN q.buckets
          /\ r.buckets[key] = q.buckets[key] \ {id}
          /\ \A b \in DOMAIN r.buckets \ {key} : r.buckets[b] = q.buckets[b]
      BY <2>1, <3>1 DEF Put
    <3> QED
      BY <2>1, <2>3, <2>5, <3>2 DEF Agreed
  <2> QED
    BY <2>4, <2>5
<1> QED
  BY <1>1, <1>2

(* What adding one leaves. *)
LEMMA ListedAgrees ==
  ASSUME NEW q, Agreed(q), NEW id, id \notin DOMAIN q.expiry, NEW key
  PROVE  LET r == Listed(q, id, key)
         IN  /\ Agreed(r)
             /\ DOMAIN r.expiry = DOMAIN q.expiry \cup {id}
             /\ r.expiry[id] = key
             /\ \A s \in DOMAIN q.expiry : r.expiry[s] = q.expiry[s]
             /\ DOMAIN r.buckets = DOMAIN q.buckets \cup {key}
<1> DEFINE r == Listed(q, id, key)
           old == IF key \in DOMAIN q.buckets THEN q.buckets[key] ELSE {}
<1>1. r.expiry = Put(q.expiry, id, key) /\ r.buckets = Put(q.buckets, key, {id} \cup old)
  BY DEF Listed
<1>2. /\ DOMAIN r.expiry = DOMAIN q.expiry \cup {id}
      /\ r.expiry[id] = key
      /\ \A s \in DOMAIN q.expiry : r.expiry[s] = q.expiry[s]
  BY <1>1 DEF Put
<1>3. /\ DOMAIN r.buckets = DOMAIN q.buckets \cup {key}
      /\ r.buckets[key] = {id} \cup old
      /\ \A b \in DOMAIN q.buckets \ {key} : r.buckets[b] = q.buckets[b]
  BY <1>1 DEF Put
<1>4. Agreed(r)
  BY <1>2, <1>3 DEF Agreed
<1> QED
  BY <1>2, <1>3, <1>4

LEMMA TouchAgrees ==
  ASSUME NEW q, Agreed(q), NEW id, NEW t, NEW at
  PROVE  LET r == Touch(q, id, t, at)
         IN  /\ Agreed(r)
             /\ DOMAIN r.expiry = DOMAIN q.expiry \cup {id}
             /\ r.expiry[id] = Bucket(t, at)
             /\ \A s \in DOMAIN q.expiry \ {id} : r.expiry[s] = q.expiry[s]
             /\ DOMAIN r.buckets \subseteq DOMAIN q.buckets \cup {Bucket(t, at)}
<1> DEFINE u == Unlisted(q, id)
<1>1. /\ Agreed(u) /\ DOMAIN u.expiry = DOMAIN q.expiry \ {id}
      /\ \A s \in DOMAIN u.expiry : u.expiry[s] = q.expiry[s]
      /\ DOMAIN u.buckets \subseteq DOMAIN q.buckets
  BY UnlistedAgrees
<1> HIDE DEF u
<1>2. LET r == Listed(u, id, Bucket(t, at))
      IN  /\ Agreed(r)
          /\ DOMAIN r.expiry = DOMAIN u.expiry \cup {id}
          /\ r.expiry[id] = Bucket(t, at)
          /\ \A s \in DOMAIN u.expiry : r.expiry[s] = u.expiry[s]
          /\ DOMAIN r.buckets = DOMAIN u.buckets \cup {Bucket(t, at)}
  BY <1>1, ListedAgrees
<1>3. Touch(q, id, t, at) = Listed(u, id, Bucket(t, at))
  BY DEF Touch, u
<1> QED
  BY <1>1, <1>2, <1>3

(* Those found expired are those whose deadline has come. *)
LEMMA ExpiredIs ==
  ASSUME NEW q, Agreed(q), NEW at
  PROVE  Expired(q, at) = {s \in DOMAIN q.expiry : q.expiry[s] <= at}
BY DEF Expired, Agreed

(* A deadline is at most an interval after the timeout. *)
LEMMA BucketIs ==
  ASSUME NEW t \in Int, NEW at \in Int
  PROVE  Bucket(t, at) \in Int /\ at + t <= Bucket(t, at) /\ Bucket(t, at) < at + t + Interval
<1>1. Interval \in Nat \ {0}
  BY ClockAssumption
<1>2. ASSUME NEW a \in Int, NEW d \in Nat \ {0}
      PROVE  /\ a \div d \in Int /\ (a \div d) * d \in Int
             /\ (a \div d) * d <= a /\ a < (a \div d) * d + d
  BY <1>2, Z3
<1>3. at + t + Interval - 1 \in Int
  BY <1>1
<1> QED
  BY <1>1, <1>2, <1>3 DEF Bucket

-----------------------------------------------------------------------------
(* The inductive invariant.  A deadline is always that of the session's    *)
(* timeout and of its last touch.  The log, in the segments and in the     *)
(* buffer together, opens every session that is live or will be closed; it *)
(* closes none that it does not open, the segments by themselves neither;  *)
(* and it closes what was ended, if it opens it.                           *)
Deadlines == \A s \in DOMAIN queue.expiry : queue.expiry[s] = Bucket(timeout[s], touched[s])

Closed(recs) == {s \in Sid : LogClose(s) \in recs}

OpensAll ==
  /\ DOMAIN timeout \cup doomed \subseteq Opened(disk \cup buf)
  /\ Closed(disk) \subseteq Opened(disk)
  /\ Closed(disk \cup buf) \subseteq Opened(disk \cup buf)

Buried ==
  /\ ended \cap DOMAIN timeout = {}
  /\ ended \cap Opened(disk \cup buf) \subseteq Closed(disk \cup buf)

Inv == TypeOK /\ QueueAgrees /\ Deadlines /\ OpensAll /\ Buried

LEMMA AgreesIs ==
  QueueAgrees <=> /\ DOMAIN queue.expiry \subseteq DOMAIN timeout
                  /\ DOMAIN queue.buckets \subseteq Time
                  /\ Agreed(queue)
BY DEF QueueAgrees, Agreed

LEMMA EmptyIs ==
  /\ Agreed(EmptyQueue)
  /\ DOMAIN EmptyQueue.expiry = {} /\ DOMAIN EmptyQueue.buckets = {}
BY DEF Agreed, EmptyQueue, NoKeys

(* The log, as a value. *)
LEMMA LogIs ==
  ASSUME NEW A, NEW B
  PROVE  /\ Opened(A \cup B) = Opened(A) \cup Opened(B)
         /\ Closed(A \cup B) = Closed(A) \cup Closed(B)
BY DEF Opened, Closed

LEMMA EmptyLog == Opened({}) = {} /\ Closed({}) = {}
BY DEF Opened, Closed

LEMMA OneOpen ==
  ASSUME NEW s, NEW t
  PROVE  Opened({LogOpen(s, t)}) = {s} /\ Closed({LogOpen(s, t)}) = {}
<1>1. LogOpen(s, t).op = "open" /\ LogOpen(s, t).sid = s
  BY DEF LogOpen
<1>2. \A r : LogClose(r) # LogOpen(s, t)
  BY DEF LogOpen, LogClose
<1> QED
  BY <1>1, <1>2 DEF Opened, Closed

LEMMA OneClose ==
  ASSUME NEW s \in Sid
  PROVE  Opened({LogClose(s)}) = {} /\ Closed({LogClose(s)}) = {s}
<1>1. LogClose(s).op = "close"
  BY DEF LogClose
<1>2. \A r : LogClose(r) = LogClose(s) => r = s
  BY DEF LogClose
<1> QED
  BY <1>1, <1>2 DEF Opened, Closed

LEMMA OpenedIssued ==
  ASSUME Inv
  PROVE  Opened(disk \cup buf) \subseteq Issued /\ Opened(disk) \subseteq Issued
BY DEF Inv, TypeOK, LogRecord, LogOpen, LogClose, Opened

(* Whatever becomes of the flush, the record is in the log, which closes   *)
(* nothing that it does not open.                                          *)
LEMMA LogKeeps ==
  ASSUME Inv, NEW recs, AppendAndFlush(recs), Closed(recs) \subseteq Opened(disk \cup buf)
  PROVE  /\ Opened(disk' \cup buf') = Opened(disk \cup buf) \cup Opened(recs)
         /\ Closed(disk' \cup buf') = Closed(disk \cup buf) \cup Closed(recs)
         /\ Closed(disk') \subseteq Opened(disk')
         /\ Closed(disk' \cup buf') \subseteq Opened(disk' \cup buf')
<1> DEFINE all == disk \cup buf \cup recs
<1>1. disk' \cup buf' = all /\ disk' \in {disk, all}
  BY DEF AppendAndFlush
<1>2. /\ Opened(all) = Opened(disk \cup buf) \cup Opened(recs)
      /\ Closed(all) = Closed(disk \cup buf) \cup Closed(recs)
  BY LogIs
<1>3. Closed(all) \subseteq Opened(all) /\ Closed(disk) \subseteq Opened(disk)
  BY <1>2 DEF Inv, OpensAll
<1> HIDE DEF all
<1> QED
  BY <1>1, <1>2, <1>3

LEMMA LogTypes ==
  ASSUME Inv, NEW recs, AppendAndFlush(recs), recs \subseteq LogRecord', Issued \subseteq Issued'
  PROVE  disk' \subseteq LogRecord' /\ buf' \subseteq LogRecord'
<1>1. LogRecord \subseteq LogRecord'
  BY DEF LogRecord
<1>2. disk \subseteq LogRecord /\ buf \subseteq LogRecord
  BY DEF Inv, TypeOK
<1>3. disk' \subseteq disk \cup buf \cup recs /\ buf' \subseteq disk \cup buf \cup recs
  BY DEF AppendAndFlush
<1> QED
  BY <1>1, <1>2, <1>3

LEMMA InitInv == Init => Inv
<1> SUFFICES ASSUME Init PROVE Inv
  OBVIOUS
<1>1. TypeOK
  BY ClockAssumption DEF Init, TypeOK, Time, Issued, Sid, NoKeys
<1>2. QueueAgrees
  BY EmptyIs, AgreesIs DEF Init
<1>3. Deadlines
  BY EmptyIs DEF Init, Deadlines
<1>4. OpensAll /\ Buried
  BY EmptyLog DEF Init, OpensAll, Buried, NoKeys
<1> QED
  BY <1>1, <1>2, <1>3, <1>4 DEF Inv

(* Steps that move a deadline. *)
LEMMA HandshakeInv ==
  ASSUME Inv, NEW t \in Timeouts, NEW at \in Time, Handshake(t, at)
  PROVE  Inv'
<1>1. /\ next \in Sid /\ next \notin DOMAIN timeout /\ next \notin Opened(disk \cup buf)
      /\ next \notin DOMAIN queue.expiry
  <2>1. next \in Sid /\ next \notin Issued
    BY ClockAssumption DEF Inv, TypeOK, Issued, Sid, Handshake
  <2> QED
    BY <2>1, OpenedIssued DEF Inv, TypeOK, QueueAgrees
<1>2. /\ Agreed(queue') /\ DOMAIN queue'.expiry = DOMAIN queue.expiry \cup {next}
      /\ queue'.expiry[next] = Bucket(t, at)
      /\ \A s \in DOMAIN queue.expiry : queue'.expiry[s] = queue.expiry[s]
      /\ DOMAIN queue'.buckets \subseteq DOMAIN queue.buckets \cup {Bucket(t, at)}
  BY <1>1, TouchAgrees, AgreesIs DEF Inv, Handshake
<1>3. /\ DOMAIN timeout' = DOMAIN timeout \cup {next}
      /\ timeout'[next] = t /\ \A s \in DOMAIN timeout : timeout'[s] = timeout[s]
  BY <1>1 DEF Handshake, Put
<1>4. /\ Opened(disk' \cup buf') = Opened(disk \cup buf) \cup {next}
      /\ Closed(disk' \cup buf') = Closed(disk \cup buf)
      /\ Closed(disk') \subseteq Opened(disk')
      /\ Closed(disk' \cup buf') \subseteq Opened(disk' \cup buf')
  <2>1. AppendAndFlush({LogOpen(next, t)})
    BY DEF Handshake
  <2>2. Opened({LogOpen(next, t)}) = {next} /\ Closed({LogOpen(next, t)}) = {}
    BY OneOpen
  <2> QED
    BY <2>1, <2>2, LogKeeps
<1>5. TypeOK'
  <2>1. next' = next + 1 /\ next' \in 1..(MaxSession + 1) /\ Issued' = Issued \cup {next}
    BY <1>1, ClockAssumption DEF Inv, TypeOK, Handshake, Issued, Sid
  <2>2. touched' \in [Sid -> Time]
    BY DEF Inv, TypeOK, Handshake
  <2>3. disk' \subseteq LogRecord' /\ buf' \subseteq LogRecord'
    <3>1. {LogOpen(next, t)} \subseteq LogRecord'
      BY <2>1 DEF LogRecord
    <3> QED
      BY <2>1, <3>1, LogTypes DEF Handshake
  <2> QED
    BY <1>1, <1>3, <2>1, <2>2, <2>3 DEF Inv, TypeOK, Handshake
<1>6. QueueAgrees'
  BY <1>2, <1>3, AgreesIs DEF Inv, QueueAgrees, Handshake, Agreed
<1>7. Deadlines'
  <2>1. \A s \in Sid : touched'[s] = IF s = next THEN at ELSE touched[s]
    BY <1>1 DEF Inv, TypeOK, Handshake
  <2>2. DOMAIN queue.expiry \subseteq DOMAIN timeout /\ DOMAIN timeout \subseteq Sid
    BY ClockAssumption DEF Inv, QueueAgrees, TypeOK, Issued, Sid
  <2> QED
    BY <1>1, <1>2, <1>3, <2>1, <2>2 DEF Inv, Deadlines
<1>8. OpensAll' /\ Buried'
  BY <1>1, <1>3, <1>4 DEF Inv, OpensAll, Buried, Handshake
<1> QED
  BY <1>5, <1>6, <1>7, <1>8 DEF Inv

LEMMA RequestInv ==
  ASSUME Inv, NEW s \in Sid, NEW at \in Time, Request(s, at)
  PROVE  Inv'
<1>0. /\ disk' \subseteq LogRecord' /\ buf' \subseteq LogRecord'
      /\ OpensAll' /\ Buried'
  <2>1. /\ Opened(disk' \cup buf') = Opened(disk \cup buf)
        /\ Closed(disk' \cup buf') = Closed(disk \cup buf)
        /\ Closed(disk') \subseteq Opened(disk')
        /\ Closed(disk' \cup buf') \subseteq Opened(disk' \cup buf')
    BY LogKeeps, EmptyLog DEF Request
  <2>2. disk' \subseteq LogRecord' /\ buf' \subseteq LogRecord'
    BY LogTypes DEF Request, Issued
  <2> QED
    BY <2>1, <2>2 DEF Inv, OpensAll, Buried, Request
<1>1. CASE s \notin DOMAIN timeout
  <2>1. queue' = queue /\ touched' = touched
    BY <1>1 DEF Request, TouchSession
  <2>2. TypeOK'
    BY <1>0, <2>1 DEF Inv, Request, TypeOK, Issued
  <2> QED
    BY <1>0, <2>1, <2>2 DEF Inv, Request, QueueAgrees, Deadlines
<1>2. CASE s \in DOMAIN timeout
  <2>1. queue' = Touch(queue, s, timeout[s], at) /\ touched' = [touched EXCEPT ![s] = at]
    BY <1>2 DEF Request, TouchSession
  <2>2. /\ Agreed(queue') /\ DOMAIN queue'.expiry = DOMAIN queue.expiry \cup {s}
        /\ queue'.expiry[s] = Bucket(timeout[s], at)
        /\ \A r \in DOMAIN queue.expiry \ {s} : queue'.expiry[r] = queue.expiry[r]
        /\ DOMAIN queue'.buckets \subseteq DOMAIN queue.buckets \cup {Bucket(timeout[s], at)}
    BY <2>1, TouchAgrees, AgreesIs DEF Inv
  <2>3. TypeOK'
    BY <1>0, <2>1 DEF Inv, TypeOK, Request, Issued
  <2>4. QueueAgrees'
    BY <1>2, <2>2, AgreesIs DEF Inv, QueueAgrees, Request, Agreed
  <2>5. Deadlines'
    <3>1. \A r \in Sid : touched'[r] = IF r = s THEN at ELSE touched[r]
      BY <2>1 DEF Inv, TypeOK
    <3>2. DOMAIN queue.expiry \subseteq DOMAIN timeout /\ DOMAIN timeout \subseteq Sid
      BY ClockAssumption DEF Inv, QueueAgrees, TypeOK, Issued, Sid
    <3>3. timeout' = timeout
      BY DEF Request
    <3> QED
      BY <2>2, <3>1, <3>2, <3>3 DEF Inv, Deadlines
  <2> QED
    BY <1>0, <2>3, <2>4, <2>5 DEF Inv
<1> QED
  BY <1>1, <1>2

(* Steps that end a session. *)
LEMMA CloseSessionKeeps ==
  ASSUME Inv, NEW s \in Sid, CloseSession(s)
  PROVE  /\ DOMAIN timeout' = DOMAIN timeout \ {s}
         /\ \A r \in DOMAIN timeout' : timeout'[r] = timeout[r]
         /\ QueueAgrees'
         /\ touched' = touched => Deadlines'
<1>1. /\ DOMAIN timeout' = DOMAIN timeout \ {s}
      /\ \A r \in DOMAIN timeout' : timeout'[r] = timeout[r]
  BY DEF CloseSession, Drop
<1>2. /\ Agreed(queue') /\ DOMAIN queue'.expiry = DOMAIN queue.expiry \ {s}
      /\ \A r \in DOMAIN queue'.expiry : queue'.expiry[r] = queue.expiry[r]
      /\ DOMAIN queue'.buckets \subseteq DOMAIN queue.buckets
  BY UnlistedAgrees, AgreesIs DEF Inv, CloseSession
<1>3. QueueAgrees'
  BY <1>1, <1>2, AgreesIs DEF Inv, QueueAgrees, Agreed
<1>4. touched' = touched => Deadlines'
  BY <1>1, <1>2 DEF Inv, Deadlines, QueueAgrees
<1> QED
  BY <1>1, <1>3, <1>4

LEMMA CloseInv ==
  ASSUME Inv, NEW s \in Sid, Close(s) PROVE Inv'
<1>1. /\ DOMAIN timeout' = DOMAIN timeout \ {s}
      /\ \A r \in DOMAIN timeout' : timeout'[r] = timeout[r]
      /\ QueueAgrees' /\ Deadlines'
  BY CloseSessionKeeps DEF Close
<1>2. TypeOK'
  BY <1>1 DEF Inv, TypeOK, Close, Issued, LogRecord, log
<1>3. OpensAll' /\ Buried'
  BY <1>1 DEF Inv, OpensAll, Buried, Close, log
<1> QED
  BY <1>1, <1>2, <1>3 DEF Inv

LEMMA CloseExpiredInv ==
  ASSUME Inv, NEW s \in Sid, CloseExpired(s) PROVE Inv'
<1>1. /\ DOMAIN timeout' = DOMAIN timeout \ {s}
      /\ \A r \in DOMAIN timeout' : timeout'[r] = timeout[r]
      /\ QueueAgrees' /\ Deadlines'
  BY CloseSessionKeeps DEF CloseExpired
<1>2. s \in Opened(disk \cup buf)
  BY DEF Inv, OpensAll, CloseExpired
<1>3. /\ Opened(disk' \cup buf') = Opened(disk \cup buf)
      /\ Closed(disk' \cup buf') = Closed(disk \cup buf) \cup {s}
      /\ Closed(disk') \subseteq Opened(disk')
      /\ Closed(disk' \cup buf') \subseteq Opened(disk' \cup buf')
  <2> DEFINE recs == {LogClose(s)}
  <2>1. AppendAndFlush(recs) /\ Opened(recs) = {} /\ Closed(recs) = {s}
    BY OneClose DEF CloseExpired
  <2> HIDE DEF recs
  <2> QED
    BY <1>2, <2>1, LogKeeps
<1>4. TypeOK'
  <2>1. Issued' = Issued /\ s \in Issued
    BY <1>2, OpenedIssued DEF CloseExpired, Issued
  <2>2. disk' \subseteq LogRecord' /\ buf' \subseteq LogRecord'
    <3>1. {LogClose(s)} \subseteq LogRecord'
      BY <2>1 DEF LogRecord
    <3> QED
      BY <2>1, <3>1, LogTypes DEF CloseExpired
  <2> QED
    BY <1>1, <2>1, <2>2 DEF Inv, TypeOK, CloseExpired
<1>5. OpensAll' /\ Buried'
  BY <1>1, <1>3 DEF Inv, OpensAll, Buried, CloseExpired
<1> QED
  BY <1>1, <1>4, <1>5 DEF Inv

(* The sweep lists only sessions that have a deadline. *)
LEMMA GetExpiredInv == ASSUME Inv, GetExpired PROVE Inv'
<1>1. doomed' \subseteq DOMAIN queue.expiry
  BY ExpiredIs, AgreesIs DEF Inv, GetExpired
<1>2. doomed' \subseteq DOMAIN timeout
  BY <1>1 DEF Inv, QueueAgrees
<1>3. OpensAll' /\ Buried'
  BY <1>2 DEF Inv, OpensAll, Buried, GetExpired, log
<1>4. TypeOK'
  BY <1>2 DEF Inv, GetExpired, TypeOK, Issued, LogRecord, log
<1> QED
  BY <1>3, <1>4 DEF Inv, GetExpired, QueueAgrees, Deadlines

(* A restart passes by every id in the segments, and what it does not      *)
(* bring back is either closed there or not there at all.                  *)
LEMMA RestartInv == ASSUME Inv, Restart PROVE Inv'
<1>1. DOMAIN timeout' = Opened(disk) \ Closed(disk)
  <2>1. Opened(disk) \subseteq Sid
    BY OpenedIssued, ClockAssumption DEF Inv, TypeOK, Issued, Sid
  <2> QED
    BY <2>1 DEF Restart, Replayed, Unclosed, Closed
<1>2. \A s \in DOMAIN timeout' : timeout'[s] \in Timeouts
  <2> SUFFICES ASSUME NEW s \in Unclosed
               PROVE  (CHOOSE t \in Timeouts : LogOpen(s, t) \in disk) \in Timeouts
    BY DEF Restart, Replayed
  <2>1. PICK x \in disk : x.op = "open" /\ x.sid = s
    BY DEF Unclosed, Opened
  <2>2. x \in LogRecord
    BY <2>1 DEF Inv, TypeOK
  <2>3. \E t \in Timeouts : LogOpen(s, t) = x
    BY <2>1, <2>2 DEF LogRecord, LogOpen, LogClose
  <2> QED
    BY <2>1, <2>3
<1>3. Opened(disk) \subseteq Issued' /\ Closed(disk) \subseteq Issued'
  <2>1. Opened(disk) \subseteq Nat \ {0} /\ next' \in Nat
    BY OpenedIssued, ClockAssumption DEF Inv, TypeOK, Issued, Restart
  <2>2. Opened(disk) \subseteq Issued'
    BY <2>1 DEF Restart, Issued
  <2> QED
    BY <2>2 DEF Inv, OpensAll
<1>4. disk' \subseteq LogRecord' /\ buf' \subseteq LogRecord'
  <2> SUFFICES ASSUME NEW x \in disk PROVE x \in LogRecord'
    BY DEF Restart
  <2>1. x \in LogRecord
    BY DEF Inv, TypeOK
  <2>2. CASE x.op = "open"
    <3>1. PICK s \in Issued, t \in Timeouts : x = LogOpen(s, t)
      BY <2>1, <2>2 DEF LogRecord, LogClose
    <3>2. s \in Issued'
      BY <1>3, <2>2, <3>1 DEF Opened, LogOpen
    <3> QED
      BY <3>1, <3>2 DEF LogRecord
  <2>3. CASE x.op # "open"
    <3>1. PICK s \in Issued : x = LogClose(s)
      BY <2>1, <2>3 DEF LogRecord, LogOpen
    <3>2. s \in Sid
      BY ClockAssumption DEF Inv, TypeOK, Issued, Sid
    <3>3. s \in Issued'
      BY <1>3, <3>1, <3>2 DEF Closed
    <3> QED
      BY <3>1, <3>3 DEF LogRecord
  <2> QED
    BY <2>2, <2>3
<1>5. TypeOK'
  BY <1>1, <1>2, <1>3, <1>4 DEF Inv, TypeOK, Restart
<1>6. QueueAgrees' /\ Deadlines'
  BY EmptyIs, AgreesIs DEF Restart, Replayed, Deadlines, QueueAgrees, Agreed
<1>7. OpensAll'
  BY <1>1, EmptyLog, LogIs DEF Inv, OpensAll, Restart
<1>8. Buried'
  BY <1>1 DEF Buried, Restart
<1> QED
  BY <1>5, <1>6, <1>7, <1>8 DEF Inv

LEMMA NextInv == Inv /\ [Next]_vars => Inv'
<1> SUFFICES ASSUME Inv, [Next]_vars PROVE Inv'
  OBVIOUS
<1>1. next' = next => Issued' = Issued /\ LogRecord' = LogRecord
  BY DEF Issued, LogRecord
<1> DEFINE Same == UNCHANGED <<timeout, queue, next, disk, buf, touched, ended>>
<1>2. ASSUME Same, now' \in Time, conns' \subseteq conns, doomed' = doomed,
             scan' \in Time \cup {NoScan}
      PROVE  Inv'
  <2>1. TypeOK'
    BY <1>1, <1>2 DEF Inv, TypeOK
  <2> QED
    BY <1>2, <2>1 DEF Inv, QueueAgrees, Deadlines, OpensAll, Buried
<1>3. now \in Time /\ scan \in Time \cup {NoScan}
  BY DEF Inv, TypeOK
<1>4. CASE Tick
  BY <1>4, <1>2, <1>3, ClockAssumption DEF Tick, Time, log
<1>5. CASE Wake
  BY <1>5, <1>2, <1>3 DEF Wake, log
<1>6. ASSUME NEW s \in Sid, Disconnect(s) PROVE Inv'
  BY <1>6, <1>2, <1>3 DEF Disconnect, log
<1>7. CASE UNCHANGED vars
  BY <1>7, <1>2, <1>3 DEF vars
<1> QED
  BY <1>4, <1>5, <1>6, <1>7, GetExpiredInv, RestartInv, HandshakeInv, RequestInv,
     CloseInv, CloseExpiredInv DEF Next

-----------------------------------------------------------------------------
LEMMA AlwaysInv == Spec => []Inv
BY InitInv, NextInv, PTL DEF Spec

(* Every reachable state has its types: no id in use was not handed out.   *)
THEOREM ExpiryTypeCorrect == Spec => []TypeOK
<1>1. Inv => TypeOK
  BY DEF Inv
<1> QED
  BY <1>1, AlwaysInv, PTL

(* touch and remove keep the two maps of the queue in agreement.           *)
THEOREM QueueAlwaysAgrees == Spec => []QueueAgrees
<1>1. Inv => QueueAgrees
  BY DEF Inv
<1> QED
  BY <1>1, AlwaysInv, PTL

(* What the background task has closed stays closed, whatever requests     *)
(* come late, unless its record is still unwritten when the process dies.  *)
THEOREM ExpiredAlwaysDead == Spec => ExpiredStaysDead
<1> DEFINE Dead ==
      \A s \in ended \cap (DOMAIN timeout' \cup DOMAIN queue'.expiry) :
        \/ LogClose(s) \in buf \ disk /\ queue' = EmptyQueue
        \/ s = next /\ s \notin Opened(disk \cup buf)
<1>1. Inv /\ [Next]_vars => [Dead]_vars
  <2> SUFFICES ASSUME Inv, [Next]_vars,
                      NEW s \in ended \cap (DOMAIN timeout' \cup DOMAIN queue'.expiry)
               PROVE  \/ LogClose(s) \in buf \ disk /\ queue' = EmptyQueue
                      \/ s = next /\ s \notin Opened(disk \cup buf)
    OBVIOUS
  <2>1. s \notin DOMAIN timeout /\ s \in DOMAIN timeout'
    BY NextInv DEF Inv, Buried, QueueAgrees
  <2>2. CASE Restart
    <3>1. s \in Opened(disk) /\ LogClose(s) \notin disk
      BY <2>1, <2>2 DEF Restart, Replayed, Unclosed
    <3>2. s \in Closed(disk \cup buf)
      BY <3>1, LogIs DEF Inv, Buried
    <3> QED
      BY <2>2, <3>1, <3>2 DEF Restart, Replayed, Closed
  <2>3. ASSUME NEW t \in Timeouts, NEW at \in Time, Handshake(t, at)
        PROVE  s = next /\ s \notin Opened(disk \cup buf)
    <3>1. s = next
      BY <2>1, <2>3 DEF Handshake, Put
    <3>2. next \notin Issued
      BY ClockAssumption DEF Inv, TypeOK, Issued
    <3> QED
      BY <3>1, <3>2, OpenedIssued
  <2>4. ASSUME NEW r \in Sid, CloseSession(r) PROVE DOMAIN timeout' \subseteq DOMAIN timeout
    BY <2>4 DEF CloseSession, Drop
  <2> QED
    BY <2>1, <2>2, <2>3, <2>4
       DEF Next, vars, Tick, Wake, GetExpired, Request, Close, Disconnect, CloseExpired
<1> QED
  BY <1>1, AlwaysInv, PTL DEF Spec, ExpiredStaysDead

(* The sweep lists all that have been silent for an interval more than     *)
(* their timeout, and nobody who has not been silent for it.               *)
THEOREM OnlySilentAlwaysDoomed == Spec => OnlySilentAreDoomed
<1> DEFINE Listing ==
      scan # NoScan /\ scan' = NoScan /\ queue' = queue =>
        \A s \in DOMAIN queue.expiry :
          /\ s \in doomed' => touched[s] + timeout[s] <= scan
          /\ touched[s] + timeout[s] + Interval <= scan => s \in doomed'
<1>1. Inv /\ [Next]_vars => [Listing]_vars
  <2> SUFFICES ASSUME Inv, [Next]_vars, scan # NoScan, scan' = NoScan, queue' = queue,
                      NEW s \in DOMAIN queue.expiry
               PROVE  /\ s \in doomed' => touched[s] + timeout[s] <= scan
                      /\ touched[s] + timeout[s] + Interval <= scan => s \in doomed'
    OBVIOUS
  <2>1. CASE GetExpired
    <3>1. s \in doomed' <=> queue.expiry[s] <= scan
      BY <2>1, ExpiredIs, AgreesIs DEF Inv, GetExpired
    <3>2. touched[s] \in Int /\ timeout[s] \in Int /\ scan \in Int
      <4>1. s \in DOMAIN timeout /\ s \in Issued
        BY DEF Inv, TypeOK, QueueAgrees
      <4>2. s \in Sid /\ timeout[s] \in Int
        <5>1. next \in 1..(MaxSession + 1) /\ MaxSession \in Nat
          BY ClockAssumption DEF Inv, TypeOK
        <5>2. s \in Sid
          BY <4>1, <5>1 DEF Issued, Sid
        <5>3. timeout[s] \in Timeouts
          BY <4>1 DEF Inv, TypeOK
        <5> QED
          BY <5>2, <5>3, ClockAssumption
      <4>3. touched[s] \in Time /\ scan \in Time \cup {NoScan} /\ Time \subseteq Int
        BY <4>2, ClockAssumption DEF Inv, TypeOK, Time
      <4> QED
        BY <4>2, <4>3 DEF NoScan
    <3>3. queue.expiry[s] = Bucket(timeout[s], touched[s])
      BY DEF Inv, Deadlines
    <3>4. /\ queue.expiry[s] \in Int /\ touched[s] + timeout[s] <= queue.expiry[s]
          /\ queue.expiry[s] < touched[s] + timeout[s] + Interval
      BY <3>2, <3>3, BucketIs
    <3> QED
      BY <3>1, <3>2, <3>4, ClockAssumption
  <2>2. CASE Restart
    BY <2>2, EmptyIs DEF Restart, Replayed
  <2>3. CASE ~GetExpired /\ ~Restart
    BY <2>3 DEF Next, vars, Tick, Wake, Handshake, Request, Close, Disconnect, CloseExpired
  <2> QED
    BY <2>1, <2>2, <2>3
<1> QED
  BY <1>1, AlwaysInv, PTL DEF Spec, OnlySilentAreDoomed
=============================================================================
