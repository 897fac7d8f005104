------------------------------- MODULE Delivery -------------------------------
(***************************************************************************)
(* Between the storage and the sockets: the task of each connection, the   *)
(* dispatcher's map of senders behind its RwLock, and the bounded channel  *)
(* of each session.  A connection and its session are one here, since a    *)
(* handshake always opens a new session.                                   *)
(*                                                                         *)
(* What the storage does with a request is KeeperServer's; here a request  *)
(* watches a path, or changes a set of paths and takes the watches on      *)
(* them, as one step, whose events the dispatcher then sends one by one.   *)
(* The lock is tokio's: first come, first served, so that a reader waits   *)
(* behind a writer that waits.                                             *)
(***************************************************************************)
EXTENDS Naturals, Sequences, FiniteSets

CONSTANTS Conn,         \* connections
          Path,
          Capacity,     \* of a channel: 64 in the code
          MayStall,     \* the connections whose clients may stop reading
          MaxRequests   \* bound on the requests of a connection

ASSUME DeliveryAssumption ==
  /\ IsFiniteSet(Conn) /\ IsFiniteSet(Path)
  /\ Capacity \in Nat \ {0} /\ MaxRequests \in Nat /\ MayStall \subseteq Conn

(* Some requests have no paths: those too short to have an opcode, those   *)
(* apply cannot parse, and goodbyes.                                       *)
Request ==
  [op : {"watch"}, paths : {{p} : p \in Path}]
    \cup [op : {"change"}, paths : SUBSET Path]
    \cup [op : {"short", "unparsable", "close"}, paths : {{}}]

NoRequest == [op |-> "none", paths |-> {}]
Event == Conn \X Path

VARIABLES
  pc,        \* what the connection's task is doing: see Doing
  req,       \* the request it is at
  todo,      \* the events of that request it has yet to send
  watches,   \* the watches in the storage
  senders,   \* the keys of watch_senders
  chan,      \* the channel of each session
  readers,   \* the tasks that hold watch_senders for reading
  waiters,   \* the tasks that wait for it, in order
  stalled,   \* the connections whose client has stopped reading
  cut,       \* the connections that have lost bytes of a frame
  count,     \* how many requests a connection has made
  fired,     \* history: how many events a session was owed
  told       \* history: how many notifications were written to it

vars == <<pc, req, todo, watches, senders, chan, readers, waiters, stalled, cut,
          count, fired, told>>
lock == <<readers, waiters>>
client == <<stalled, cut, count>>
history == <<fired, told>>

Doing == {"new",
          "joining",      \* waits for the lock, to add its sender
          "greeting",     \* writes the answer to the handshake
          "idle",         \* in select!, nothing read
          "reading",      \* in select!, a part of a frame read
          "asked",        \* has spawned apply
          "queued",       \* apply has returned; waits for the lock, to send
          "sending",      \* holds the lock and sends
          "answering",    \* writes the answer
          "notifying",    \* writes a notification
          "leaving",      \* waits for the lock, to remove its sender
          "gone"}         \* has returned or panicked, and its receiver with it

Open(c) == pc[c] \notin {"new", "joining", "leaving", "gone"}

Goto(c, there) == pc' = [pc EXCEPT ![c] = there]

Init ==
  /\ pc = [c \in Conn |-> "new"]
  /\ req = [c \in Conn |-> NoRequest] /\ todo = [c \in Conn |-> {}]
  /\ watches = {} /\ senders = {} /\ chan = [c \in Conn |-> <<>>]
  /\ readers = {} /\ waiters = <<>>
  /\ stalled = {} /\ cut = {} /\ count = [c \in Conn |-> 0]
  /\ fired = [c \in Conn |-> 0] /\ told = [c \in Conn |-> 0]

-----------------------------------------------------------------------------
(* The lock on watch_senders. *)

Waits(c, mode) == waiters' = Append(waiters, <<c, mode>>)

Granted(c, mode) ==
  /\ waiters # <<>> /\ Head(waiters) = <<c, mode>>
  /\ mode = "write" => readers = {}
  /\ waiters' = Tail(waiters)

-----------------------------------------------------------------------------
(* The handshake and the goodbye. *)

Connect(c) ==
  /\ pc[c] = "new"
  /\ Goto(c, "joining")
  /\ Waits(c, "write")
  /\ UNCHANGED <<req, todo, watches, senders, chan, readers, client, history>>

Join(c) ==
  /\ pc[c] = "joining" /\ Granted(c, "write")
  /\ senders' = senders \cup {c}
  /\ Goto(c, "greeting")
  /\ UNCHANGED <<req, todo, watches, chan, readers, client, history>>

(* When the answer cannot be written the task returns, and leaves its      *)
(* sender behind.                                                          *)
Greet(c) ==
  /\ pc[c] = "greeting"
  /\ Goto(c, "idle") \/ Goto(c, "gone")
  /\ UNCHANGED <<req, todo, watches, senders, chan, lock, client, history>>

Leaves(c) == Goto(c, "leaving") /\ Waits(c, "write")

(* The client hangs up, is silent for too long, or sends a length that is  *)
(* out of range.                                                           *)
Break(c) ==
  /\ pc[c] \in {"idle", "reading"}
  /\ Leaves(c)
  /\ UNCHANGED <<req, todo, watches, senders, chan, readers, client, history>>

Leave(c) ==
  /\ pc[c] = "leaving" /\ Granted(c, "write")
  /\ senders' = senders \ {c}
  /\ Goto(c, "gone")
  /\ UNCHANGED <<req, todo, watches, chan, readers, client, history>>

-----------------------------------------------------------------------------
(* A request. *)

ReadLength(c) ==
  /\ pc[c] = "idle" /\ count[c] < MaxRequests
  /\ Goto(c, "reading")
  /\ UNCHANGED <<req, todo, watches, senders, chan, lock, client, history>>

(* A connection that is out of step takes some bytes or other for a frame, *)
(* and any request may come of it.  One that is too short panics here.     *)
ReadPayload(c, r) ==
  /\ pc[c] = "reading"
  /\ req' = [req EXCEPT ![c] = r]
  /\ count' = [count EXCEPT ![c] = @ + 1]
  /\ Goto(c, IF r.op = "short" THEN "gone" ELSE "asked")
  /\ UNCHANGED <<todo, watches, senders, chan, lock, stalled, cut, history>>

FiredBy(r) == IF r.op = "change" THEN {w \in watches : w[2] \in r.paths} ELSE {}

WatchesAfter(c, r) ==
  CASE r.op = "watch" -> watches \cup {<<c, p>> : p \in r.paths}
    [] r.op = "close" -> {w \in watches : w[1] # c}
    [] OTHER -> watches \ FiredBy(r)

(* Every watch a request fires is an event for its session, its own        *)
(* included.                                                               *)
Apply(c) ==
  LET events == FiredBy(req[c])
  IN  /\ pc[c] = "asked"
      /\ watches' = WatchesAfter(c, req[c])
      /\ todo' = [todo EXCEPT ![c] = events]
      /\ fired' = [s \in Conn |-> fired[s] + Cardinality({w \in events : w[1] = s})]
      /\ Goto(c, "queued")
      /\ Waits(c, "read")
      /\ UNCHANGED <<req, senders, chan, readers, client, told>>

(* Faulty: the guard is gone before the sending begins. *)
TakeSendersUnlocked(c) ==
  /\ pc[c] = "queued" /\ Granted(c, "read")
  /\ Goto(c, "sending")
  /\ UNCHANGED <<req, todo, watches, senders, chan, readers, client, history>>

TakeSenders(c) ==
  /\ pc[c] = "queued" /\ Granted(c, "read")
  /\ readers' = readers \cup {c}
  /\ Goto(c, "sending")
  /\ UNCHANGED <<req, todo, watches, senders, chan, client, history>>

(* Sending waits while the channel is full.  A sender whose receiver is    *)
(* gone does not wait.                                                     *)
Closed(s) == s \notin senders \/ pc[s] = "gone"

(* Faulty: events go to whoever asked. *)
SendToAsker(c, e) ==
  /\ pc[c] = "sending" /\ e \in todo[c]
  /\ Closed(c) \/ Len(chan[c]) < Capacity
  /\ chan' = IF Closed(c) THEN chan ELSE [chan EXCEPT ![c] = Append(@, e[2])]
  /\ todo' = [todo EXCEPT ![c] = @ \ {e}]
  /\ UNCHANGED <<pc, req, watches, senders, lock, client, history>>

Send(c, e) ==
  /\ pc[c] = "sending" /\ e \in todo[c]
  /\ Closed(e[1]) \/ Len(chan[e[1]]) < Capacity
  /\ chan' = IF Closed(e[1]) THEN chan ELSE [chan EXCEPT ![e[1]] = Append(@, e[2])]
  /\ todo' = [todo EXCEPT ![c] = @ \ {e}]
  /\ UNCHANGED <<pc, req, watches, senders, lock, client, history>>

(* Faulty: the guard outlives the sending. *)
AllSentHolding(c) ==
  /\ pc[c] = "sending" /\ todo[c] = {}
  /\ Goto(c, "answering")
  /\ UNCHANGED <<req, todo, watches, senders, chan, lock, client, history>>

(* Faulty: the first event that has been sent ends it. *)
AllSentEarly(c) ==
  /\ pc[c] = "sending"
  /\ readers' = readers \ {c}
  /\ todo' = [todo EXCEPT ![c] = {}]
  /\ Goto(c, "answering")
  /\ UNCHANGED <<req, watches, senders, chan, waiters, client, history>>

AllSent(c) ==
  /\ pc[c] = "sending" /\ todo[c] = {}
  /\ readers' = readers \ {c}
  /\ Goto(c, "answering")
  /\ UNCHANGED <<req, todo, watches, senders, chan, waiters, client, history>>

(* A request apply panicked on has no answer. *)
Answer(c) ==
  /\ pc[c] = "answering" /\ (c \in stalled => req[c].op = "unparsable")
  /\ IF req[c].op = "close" THEN Leaves(c) ELSE Goto(c, "idle") /\ UNCHANGED waiters
  /\ UNCHANGED <<req, todo, watches, senders, chan, readers, client, history>>

WriteFails(c) ==
  /\ pc[c] \in {"answering", "notifying"}
  /\ Leaves(c)
  /\ UNCHANGED <<req, todo, watches, senders, chan, readers, client, history>>

-----------------------------------------------------------------------------
(* A notification.  select! drops the read under way, and what it has read. *)

Cut(c) == IF pc[c] = "reading" THEN cut \cup {c} ELSE cut

Receive(c) ==
  /\ pc[c] \in {"idle", "reading"} /\ chan[c] # <<>>
  /\ chan' = [chan EXCEPT ![c] = Tail(@)]
  /\ cut' = Cut(c)
  /\ Goto(c, "notifying")
  /\ UNCHANGED <<req, todo, watches, senders, lock, stalled, count, history>>

Notify(c) ==
  /\ pc[c] = "notifying" /\ c \notin stalled
  /\ told' = [told EXCEPT ![c] = @ + 1]
  /\ Goto(c, "idle")
  /\ UNCHANGED <<req, todo, watches, senders, chan, lock, client, fired>>

(* A client stops reading, for good, with its socket's buffers full. *)
Stall(c) ==
  /\ c \in MayStall \ stalled /\ Open(c)
  /\ stalled' = stalled \cup {c}
  /\ UNCHANGED <<pc, req, todo, watches, senders, chan, lock, cut, count, history>>

(* What a connection's task does without its client. *)
Task(c) ==
  \/ Join(c) \/ Greet(c) \/ Leave(c)
  \/ Apply(c) \/ TakeSenders(c) \/ (\E e \in Event : Send(c, e)) \/ AllSent(c) \/ Answer(c)
  \/ Receive(c) \/ Notify(c)

Next ==
  \E c \in Conn :
    \/ Task(c) \/ WriteFails(c)
    \/ Connect(c) \/ Break(c) \/ ReadLength(c) \/ Stall(c)
    \/ \E r \in Request : ReadPayload(c, r)

Spec == Init /\ [][Next]_vars

(* tokio runs every task that can run. *)
FairSpec == Spec /\ \A c \in Conn : WF_vars(Task(c))

-----------------------------------------------------------------------------
(* Every variable keeps its type, channels their capacity, and the lock    *)
(* knows who it is: the readers are the tasks that send, and a task waits  *)
(* once, and for what it needs.                                            *)
TypeOK ==
  /\ pc \in [Conn -> Doing]
  /\ req \in [Conn -> Request \cup {NoRequest}] /\ todo \in [Conn -> SUBSET Event]
  /\ watches \subseteq Event /\ senders \subseteq Conn
  /\ chan \in [Conn -> Seq(Path)] /\ \A c \in Conn : Len(chan[c]) <= Capacity
  /\ readers = {c \in Conn : pc[c] = "sending"}
  /\ waiters \in Seq(Conn \X {"read", "write"})
  /\ stalled \subseteq MayStall /\ cut \subseteq Conn
  /\ count \in [Conn -> Nat] /\ fired \in [Conn -> Nat] /\ told \in [Conn -> Nat]

(* Nothing is lost between the storage and the socket, and nothing told    *)
(* twice: what an open session is owed has been written to it, or is being *)
(* written, or is in its channel, or is in the hands of a task that sends. *)
InFlight(s) == UNION {{<<c, p>> : p \in {q \in Path : <<s, q>> \in todo[c]}} : c \in Conn}

NothingLost ==
  \A s \in Conn : Open(s) =>
    /\ s \in senders
    /\ fired[s] = told[s] + (IF pc[s] = "notifying" THEN 1 ELSE 0)
                    + Len(chan[s]) + Cardinality(InFlight(s))

(* Only a session that was sent a notification can be out of step with its *)
(* client: one that never watches is safe from the dropped read.           *)
OnlyWatchersLoseStep == \A c \in cut : fired[c] > 0

(* No task waits for ever: a handshake is let in, a request is answered, a *)
(* goodbye is done, whatever the other connections do and however many of  *)
(* their clients stop reading or are gone.                                 *)
Busy(c) == pc[c] \notin {"new", "idle", "reading", "gone"}

NobodyIsStuck == \A c \in Conn : Busy(c) ~> ~Busy(c) \/ c \in stalled
=============================================================================
