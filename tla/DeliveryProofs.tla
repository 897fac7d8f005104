---------------------------- MODULE DeliveryProofs ----------------------------
(***************************************************************************)
(* Nothing is lost between the storage and the socket, for any number of   *)
(* connections and paths, any capacity, and any clients that stall.  The   *)
(* induction needs TypeOK, that only a task which has events to send holds *)
(* any (Quiet), and that nothing is owed to whoever has not joined (Fresh).*)
(***************************************************************************)
EXTENDS Delivery, FiniteSetTheorems, FunctionTheorems, SequenceTheorems, TLAPS

Quiet == \A c \in Conn : pc[c] \notin {"queued", "sending"} => todo[c] = {}

Fresh ==
  \A s \in Conn : pc[s] \in {"new", "joining"} =>
    /\ fired[s] = 0 /\ told[s] = 0 /\ chan[s] = <<>>
    /\ \A w \in watches : w[1] # s
    /\ \A c \in Conn : \A e \in todo[c] : e[1] # s

Inv == TypeOK /\ Quiet /\ Fresh /\ NothingLost /\ OnlyWatchersLoseStep

-----------------------------------------------------------------------------
(* Types. *)
LEMMA ReqType == ASSUME NEW r \in Request PROVE r.paths \in SUBSET Path
BY DEF Request

(* A task that joins the queue for the lock. *)
LEMMA WaitsType ==
  ASSUME TypeOK, NEW c \in Conn, NEW mode \in {"read", "write"}, Waits(c, mode)
  PROVE  waiters' \in Seq(Conn \X {"read", "write"})
BY AppendProperties DEF TypeOK, Waits

LEMMA GrantedType ==
  ASSUME TypeOK, NEW c \in Conn, NEW mode, Granted(c, mode)
  PROVE  waiters' \in Seq(Conn \X {"read", "write"})
BY HeadTailProperties DEF TypeOK, Granted

(* What a session has under way when it moves on, and nothing else does. *)
LEMMA GotoType ==
  ASSUME TypeOK, NEW c \in Conn, NEW there \in Doing, Goto(c, there)
  PROVE  /\ pc' \in [Conn -> Doing] /\ pc'[c] = there
         /\ \A d \in Conn \ {c} : pc'[d] = pc[d]
BY DEF TypeOK, Goto

(* A move neither from nor to "sending" is none of the lock's business. *)
LEMMA ReadersType ==
  ASSUME TypeOK, NEW c \in Conn, NEW there \in Doing \ {"sending"}, Goto(c, there),
         pc[c] # "sending", readers' = readers
  PROVE  readers' = {d \in Conn : pc'[d] = "sending"}
<1>1. pc'[c] # "sending" /\ \A d \in Conn \ {c} : pc'[d] = pc[d]
  BY GotoType
<1> QED
  BY <1>1 DEF TypeOK

(* A channel that gets a notification, or gives one up, is still one. *)
LEMMA ChanType ==
  ASSUME TypeOK, NEW c \in Conn, NEW q \in Seq(Path), Len(q) <= Capacity,
         chan' = [chan EXCEPT ![c] = q]
  PROVE  chan' \in [Conn -> Seq(Path)] /\ \A d \in Conn : Len(chan'[d]) <= Capacity
BY DEF TypeOK

-----------------------------------------------------------------------------
(* Counting. *)
LEMMA PairsOf ==
  ASSUME NEW s \in Conn, NEW f \in [Conn -> SUBSET Event]
  PROVE  UNION {{<<c, p>> : p \in {q \in Path : <<s, q>> \in f[c]}} : c \in Conn}
           = {x \in Conn \X Path : <<s, x[2]>> \in f[x[1]]}
<1> DEFINE Of(c) == {<<c, p>> : p \in {q \in Path : <<s, q>> \in f[c]}}
<1>1. ASSUME NEW c \in Conn, NEW x
      PROVE  x \in Of(c) <=> x \in Conn \X Path /\ x[1] = c /\ <<s, x[2]>> \in f[x[1]]
  <2>1. x \in Of(c) <=> \E p \in Path : <<s, p>> \in f[c] /\ x = <<c, p>>
    OBVIOUS
  <2> HIDE DEF Of
  <2>2. ASSUME NEW p \in Path, <<s, p>> \in f[c], x = <<c, p>>
        PROVE  x \in Conn \X Path /\ x[1] = c /\ <<s, x[2]>> \in f[x[1]]
    BY <2>2
  <2>3. ASSUME x \in Conn \X Path, x[1] = c, <<s, x[2]>> \in f[x[1]]
        PROVE  \E p \in Path : <<s, p>> \in f[c] /\ x = <<c, p>>
    <3>1. x = <<x[1], x[2]>> /\ x[2] \in Path
      BY <2>3
    <3> QED
      BY <2>3, <3>1
  <2> QED
    BY <2>1, <2>2, <2>3
<1> HIDE DEF Of
<1>2. \A x : x \in UNION {Of(c) : c \in Conn} <=> \E c \in Conn : x \in Of(c)
  OBVIOUS
<1>3. UNION {Of(c) : c \in Conn} = {x \in Conn \X Path : <<s, x[2]>> \in f[x[1]]}
  BY <1>1, <1>2
<1> QED
  BY <1>3 DEF Of

LEMMA OneLess ==
  ASSUME NEW S, NEW x \in S, IsFiniteSet(S)
  PROVE  Cardinality(S \ {x}) = Cardinality(S) - 1
<1>1. Cardinality(S \ {x}) = IF x \in S THEN Cardinality(S) - 1 ELSE Cardinality(S)
  BY FS_RemoveElement, Zenon
<1> QED
  BY <1>1

LEMMA InFlightIs ==
  ASSUME TypeOK, NEW s \in Conn
  PROVE  /\ InFlight(s) = {x \in Conn \X Path : <<s, x[2]>> \in todo[x[1]]}
         /\ IsFiniteSet(InFlight(s)) /\ Cardinality(InFlight(s)) \in Nat
<1>1. InFlight(s) = {x \in Conn \X Path : <<s, x[2]>> \in todo[x[1]]}
  BY PairsOf DEF InFlight, TypeOK
<1>2. IsFiniteSet(Conn \X Path)
  BY FS_Product, DeliveryAssumption
<1>3. IsFiniteSet(InFlight(s))
  BY <1>1, <1>2, FS_Subset
<1> QED
  BY <1>1, <1>3, FS_CardinalityType

LEMMA InFlightAfter ==
  ASSUME NEW s \in Conn, todo' \in [Conn -> SUBSET Event]
  PROVE  InFlight(s)' = {x \in Conn \X Path : <<s, x[2]>> \in todo'[x[1]]}
BY PairsOf DEF InFlight

(* Nothing is counted anew while no task gains or sends an event. *)
LEMMA SameInFlight ==
  ASSUME todo' = todo, NEW s PROVE InFlight(s)' = InFlight(s)
BY DEF InFlight

(* The tally of a session: what it is owed is somewhere on its way.        *)
Tally(s) ==
  fired[s] = told[s] + (IF pc[s] = "notifying" THEN 1 ELSE 0)
                + Len(chan[s]) + Cardinality(InFlight(s))

LEMMA NothingLostIs == NothingLost <=> \A s \in Conn : Open(s) => s \in senders /\ Tally(s)
BY DEF NothingLost, Tally

(* A step that leaves a session's events, channel and writing alone. *)
LEMMA SameTally ==
  ASSUME NEW s \in Conn, Tally(s), todo' = todo, chan'[s] = chan[s],
         fired'[s] = fired[s], told'[s] = told[s],
         pc'[s] = "notifying" <=> pc[s] = "notifying"
  PROVE  Tally(s)'
BY SameInFlight DEF Tally

-----------------------------------------------------------------------------
(* A step on which a task moves and no event does. *)
LEMMA MoveKeeps ==
  ASSUME Inv, NEW c \in Conn, NEW there \in Doing, Goto(c, there),
         watches' = watches, chan' = chan, todo' = todo, fired' = fired, told' = told,
         \A s \in senders : s # c => s \in senders',
         there \in {"queued", "sending"} \/ todo[c] = {},
         there \in {"new", "joining"} => pc[c] \in {"new", "joining"},
         there # "notifying",
         there \in {"leaving", "gone", "new", "joining"}
           \/ (Open(c) /\ pc[c] # "notifying" /\ c \in senders')
  PROVE  Quiet' /\ Fresh' /\ NothingLost'
<1>1. pc'[c] = there /\ \A d \in Conn \ {c} : pc'[d] = pc[d]
  BY GotoType DEF Inv
<1>2. Quiet'
  BY <1>1 DEF Inv, Quiet
<1>3. Fresh'
  BY <1>1 DEF Inv, Fresh
<1>4. ASSUME NEW s \in Conn, Open(s)' PROVE s \in senders' /\ Tally(s)'
  <2>1. Open(s) /\ (pc'[s] = "notifying" <=> pc[s] = "notifying")
        /\ (s = c => s \in senders')
    BY <1>1, <1>4 DEF Open
  <2>2. s \in senders /\ Tally(s)
    BY <2>1, NothingLostIs DEF Inv
  <2>3. Tally(s)'
    BY <2>1, <2>2, SameTally
  <2> QED
    BY <2>1, <2>2, <2>3
<1>5. NothingLost'
  BY <1>4 DEF NothingLost, Tally
<1> QED
  BY <1>2, <1>3, <1>5

(* No step takes back what a session was owed, and only Receive cuts. *)
LEMMA CutKeeps ==
  ASSUME Inv, cut' = cut, fired' = fired PROVE OnlyWatchersLoseStep'
BY DEF Inv, OnlyWatchersLoseStep

-----------------------------------------------------------------------------
(* The handshake and the goodbye. *)
LEMMA ConnectInv == ASSUME Inv, NEW c \in Conn, Connect(c) PROVE Inv'
<1> USE DEF Connect, lock, client, history
<1>1. Goto(c, "joining") /\ "joining" \in Doing
  BY DEF Doing
<1>2. TypeOK'
  BY <1>1, GotoType, ReadersType, WaitsType DEF Inv, TypeOK
<1>3. Quiet' /\ Fresh' /\ NothingLost'
  BY <1>1, MoveKeeps DEF Inv, Quiet
<1> QED
  BY <1>2, <1>3, CutKeeps DEF Inv

LEMMA JoinInv == ASSUME Inv, NEW c \in Conn, Join(c) PROVE Inv'
<1> USE DEF Join, client, history
<1>1. Goto(c, "greeting") /\ "greeting" \in Doing
  BY DEF Doing
<1>2. pc'[c] = "greeting" /\ \A d \in Conn \ {c} : pc'[d] = pc[d]
  BY <1>1, GotoType DEF Inv
<1>3. TypeOK'
  BY <1>1, GotoType, ReadersType, GrantedType DEF Inv, TypeOK
<1>4. Quiet' /\ Fresh'
  BY <1>2 DEF Inv, Quiet, Fresh
<1>5. Tally(c)'
  <2>1. fired[c] = 0 /\ told[c] = 0 /\ chan[c] = <<>> /\ \A d \in Conn : \A e \in todo[d] : e[1] # c
    BY DEF Inv, Fresh
  <2>2. InFlight(c) = {}
    BY <2>1, InFlightIs DEF Inv
  <2>3. Cardinality(InFlight(c)) = 0 /\ InFlight(c)' = InFlight(c)
    BY <2>2, FS_EmptySet, SameInFlight
  <2> QED
    BY <1>2, <2>1, <2>3 DEF Tally
<1>6. ASSUME NEW s \in Conn, Open(s)' PROVE s \in senders' /\ Tally(s)'
  <2>1. CASE s = c
    BY <1>5, <2>1
  <2>2. CASE s # c
    <3>1. Open(s) /\ pc'[s] = pc[s]
      BY <1>2, <1>6, <2>2 DEF Open
    <3> QED
      BY <3>1, NothingLostIs, SameTally DEF Inv
  <2> QED
    BY <2>1, <2>2
<1>7. NothingLost'
  BY <1>6 DEF NothingLost, Tally
<1> QED
  BY <1>3, <1>4, <1>7, CutKeeps DEF Inv

LEMMA GreetInv == ASSUME Inv, NEW c \in Conn, Greet(c) PROVE Inv'
<1> USE DEF Greet, lock, client, history
<1>1. PICK there \in {"idle", "gone"} : Goto(c, there)
  OBVIOUS
<1>2. there \in Doing \ {"sending"}
  BY DEF Doing
<1>3. TypeOK'
  BY <1>1, <1>2, GotoType, ReadersType DEF Inv, TypeOK
<1>4. c \in senders /\ Open(c) /\ todo[c] = {}
  BY DEF Inv, NothingLost, Open, Quiet
<1>5. Quiet' /\ Fresh' /\ NothingLost'
  BY <1>1, <1>2, <1>4, MoveKeeps
<1> QED
  BY <1>3, <1>5, CutKeeps DEF Inv

(* Breaking off, for whatever reason. *)
LEMMA LeavesInv ==
  ASSUME Inv, NEW c \in Conn, Leaves(c), pc[c] \notin {"new", "joining", "queued", "sending"},
         UNCHANGED <<req, todo, watches, senders, chan, readers, client, history>>
  PROVE  Inv'
<1> USE DEF Leaves, client, history
<1>1. Goto(c, "leaving") /\ "leaving" \in Doing
  BY DEF Doing
<1>2. TypeOK'
  BY <1>1, GotoType, ReadersType, WaitsType DEF Inv, TypeOK
<1>3. Quiet' /\ Fresh' /\ NothingLost'
  BY <1>1, MoveKeeps DEF Inv, Quiet
<1> QED
  BY <1>2, <1>3, CutKeeps DEF Inv

LEMMA BreakInv == ASSUME Inv, NEW c \in Conn, Break(c) \/ WriteFails(c) PROVE Inv'
BY LeavesInv DEF Break, WriteFails

LEMMA LeaveInv == ASSUME Inv, NEW c \in Conn, Leave(c) PROVE Inv'
<1> USE DEF Leave, client, history
<1>1. Goto(c, "gone") /\ "gone" \in Doing
  BY DEF Doing
<1>2. TypeOK'
  BY <1>1, GotoType, ReadersType, GrantedType DEF Inv, TypeOK
<1>3. Quiet' /\ Fresh' /\ NothingLost'
  BY <1>1, MoveKeeps DEF Inv, Quiet
<1> QED
  BY <1>2, <1>3, CutKeeps DEF Inv

-----------------------------------------------------------------------------
(* A request, up to what it does to the storage. *)
LEMMA ReadLengthInv == ASSUME Inv, NEW c \in Conn, ReadLength(c) PROVE Inv'
<1> USE DEF ReadLength, lock, client, history
<1>1. Goto(c, "reading") /\ "reading" \in Doing
  BY DEF Doing
<1>2. TypeOK'
  BY <1>1, GotoType, ReadersType DEF Inv, TypeOK
<1>3. c \in senders /\ Open(c) /\ todo[c] = {}
  BY DEF Inv, NothingLost, Open, Quiet
<1>4. Quiet' /\ Fresh' /\ NothingLost'
  BY <1>1, <1>3, MoveKeeps
<1> QED
  BY <1>2, <1>4, CutKeeps DEF Inv

LEMMA ReadPayloadInv ==
  ASSUME Inv, NEW c \in Conn, NEW r \in Request, ReadPayload(c, r) PROVE Inv'
<1> USE DEF ReadPayload, lock, client, history
<1>1. PICK there \in {"gone", "asked"} : Goto(c, there)
  OBVIOUS
<1>2. there \in Doing \ {"sending"}
  BY DEF Doing
<1>3. TypeOK'
  <2>1. count[c] \in Nat
    BY DEF Inv, TypeOK
  <2>2. count[c] + 1 \in Nat
    BY <2>1
  <2>3. count' \in [Conn -> Nat] /\ req' \in [Conn -> Request \cup {NoRequest}]
    BY <2>2 DEF Inv, TypeOK
  <2> QED
    BY <1>1, <1>2, <2>3, GotoType, ReadersType DEF Inv, TypeOK
<1>4. c \in senders /\ Open(c) /\ todo[c] = {}
  BY DEF Inv, NothingLost, Open, Quiet
<1>5. Quiet' /\ Fresh' /\ NothingLost'
  BY <1>1, <1>2, <1>4, MoveKeeps
<1> QED
  BY <1>3, <1>5, CutKeeps DEF Inv

LEMMA TakeSendersInv == ASSUME Inv, NEW c \in Conn, TakeSenders(c) PROVE Inv'
<1> USE DEF TakeSenders, client, history
<1>1. Goto(c, "sending") /\ "sending" \in Doing
  BY DEF Doing
<1>2. pc'[c] = "sending" /\ \A d \in Conn \ {c} : pc'[d] = pc[d]
  BY <1>1, GotoType DEF Inv
<1>3. TypeOK'
  <2>1. readers' = {d \in Conn : pc'[d] = "sending"}
    BY <1>2 DEF Inv, TypeOK
  <2> QED
    BY <1>1, <2>1, GotoType, GrantedType DEF Inv, TypeOK
<1>4. c \in senders /\ Open(c)
  BY DEF Inv, NothingLost, Open
<1>5. Quiet' /\ Fresh' /\ NothingLost'
  BY <1>1, <1>4, MoveKeeps
<1> QED
  BY <1>3, <1>5, CutKeeps DEF Inv

LEMMA AllSentInv == ASSUME Inv, NEW c \in Conn, AllSent(c) PROVE Inv'
<1> USE DEF AllSent, client, history
<1>1. Goto(c, "answering") /\ "answering" \in Doing
  BY DEF Doing
<1>2. pc'[c] = "answering" /\ \A d \in Conn \ {c} : pc'[d] = pc[d]
  BY <1>1, GotoType DEF Inv
<1>3. TypeOK'
  <2>1. readers' = {d \in Conn : pc'[d] = "sending"}
    BY <1>2 DEF Inv, TypeOK
  <2> QED
    BY <1>1, <2>1, GotoType DEF Inv, TypeOK
<1>4. c \in senders /\ Open(c)
  BY DEF Inv, NothingLost, Open
<1>5. Quiet' /\ Fresh' /\ NothingLost'
  BY <1>1, <1>4, MoveKeeps
<1> QED
  BY <1>3, <1>5, CutKeeps DEF Inv

LEMMA AnswerInv == ASSUME Inv, NEW c \in Conn, Answer(c) PROVE Inv'
<1>1. CASE Leaves(c)
  BY <1>1, LeavesInv DEF Answer
<1>2. CASE Goto(c, "idle") /\ waiters' = waiters
  <2> USE DEF Answer, client, history
  <2>1. "idle" \in Doing
    BY DEF Doing
  <2>2. TypeOK'
    BY <1>2, <2>1, GotoType, ReadersType DEF Inv, TypeOK
  <2>3. c \in senders /\ Open(c) /\ todo[c] = {}
    BY DEF Inv, NothingLost, Open, Quiet
  <2>4. Quiet' /\ Fresh' /\ NothingLost'
    BY <1>2, <2>1, <2>3, MoveKeeps
  <2> QED
    BY <2>2, <2>4, CutKeeps DEF Inv
<1> QED
  BY <1>1, <1>2 DEF Answer

-----------------------------------------------------------------------------
(* What a request does to the storage: every event it fires is owed.       *)
Mine(s, events) == {w \in events : w[1] = s}
Pairs(c, s, events) == {x \in Conn \X Path : x[1] = c /\ <<s, x[2]>> \in events}

LEMMA PairsCounted ==
  ASSUME NEW c \in Conn, NEW s \in Conn, NEW events \in SUBSET Event
  PROVE  /\ IsFiniteSet(Pairs(c, s, events))
         /\ Cardinality(Pairs(c, s, events)) = Cardinality(Mine(s, events))
         /\ Cardinality(Mine(s, events)) \in Nat
<1> DEFINE mine == {w \in events : w[1] = s}
           pairs == {x \in Conn \X Path : x[1] = c /\ <<s, x[2]>> \in events}
           f == [w \in mine |-> <<c, w[2]>>]
<1>1. IsFiniteSet(mine) /\ Cardinality(mine) \in Nat
  <2>1. IsFiniteSet(Conn \X Path)
    BY FS_Product, DeliveryAssumption
  <2>2. mine \in SUBSET (Conn \X Path)
    BY DEF Event
  <2>3. IsFiniteSet(mine)
    BY <2>1, <2>2, FS_Subset
  <2> QED
    BY <2>3, FS_CardinalityType
<1>2. \A w \in mine : w = <<s, w[2]>> /\ w[2] \in Path /\ w \in events
  BY DEF Event
<1>3. f \in [mine -> pairs]
  <2>1. \A w \in mine : <<c, w[2]>> \in pairs
    BY <1>2
  <2> QED
    BY <2>1
<1>4. \A v, w \in mine : f[v] = f[w] => v = w
  <2> SUFFICES ASSUME NEW v \in mine, NEW w \in mine, <<c, v[2]>> = <<c, w[2]>> PROVE v = w
    OBVIOUS
  <2>1. v[2] = w[2]
    OBVIOUS
  <2> QED
    BY <1>2, <2>1
<1>5. \A x \in pairs : \E w \in mine : f[w] = x
  <2> SUFFICES ASSUME NEW x \in pairs PROVE \E w \in mine : f[w] = x
    OBVIOUS
  <2>1. <<s, x[2]>> \in mine /\ x = <<c, x[2]>>
    OBVIOUS
  <2>2. f[<<s, x[2]>>] = <<c, x[2]>>
    BY <2>1
  <2> QED
    BY <2>1, <2>2
<1>6. f \in Bijection(mine, pairs)
  BY <1>3, <1>4, <1>5, Fun_IsBij
<1>7. ExistsBijection(mine, pairs)
  BY <1>6, Fun_ExistsBij
<1>8. IsFiniteSet(pairs) /\ Cardinality(pairs) = Cardinality(mine)
  BY <1>1, <1>7, FS_Bijection
<1> QED
  BY <1>1, <1>8 DEF Mine, Pairs

LEMMA ApplyTally ==
  ASSUME Inv, NEW c \in Conn, NEW s \in Conn, Apply(c), Tally(s)
  PROVE  Tally(s)'
<1>1. PICK events \in SUBSET Event : events = FiredBy(req[c])
  BY DEF FiredBy, Inv, TypeOK
<1>2. /\ IsFiniteSet(Pairs(c, s, events)) /\ Cardinality(Mine(s, events)) \in Nat
      /\ Cardinality(Pairs(c, s, events)) = Cardinality(Mine(s, events))
  BY PairsCounted
<1>3. todo[c] = {} /\ todo \in [Conn -> SUBSET Event]
  BY DEF Inv, Quiet, Apply, TypeOK
<1>4. /\ todo' = [todo EXCEPT ![c] = events]
      /\ fired'[s] = fired[s] + Cardinality(Mine(s, events))
  BY <1>1 DEF Apply, Mine
<1>5. todo' \in [Conn -> SUBSET Event]
  BY <1>1, <1>3, <1>4
<1>6. InFlight(s) = {x \in Conn \X Path : <<s, x[2]>> \in todo[x[1]]}
      /\ IsFiniteSet(InFlight(s)) /\ Cardinality(InFlight(s)) \in Nat
  BY InFlightIs DEF Inv
<1>7. InFlight(s)' = {x \in Conn \X Path : <<s, x[2]>> \in todo'[x[1]]}
  BY <1>5, InFlightAfter
<1>8. /\ InFlight(s)' = InFlight(s) \cup Pairs(c, s, events)
      /\ InFlight(s) \cap Pairs(c, s, events) = {}
  <2>1. \A d \in Conn : todo'[d] = IF d = c THEN events ELSE todo[d]
    BY <1>3, <1>4
  <2> QED
    BY <1>3, <1>6, <1>7, <2>1 DEF Pairs
<1>9. Cardinality(InFlight(s)') = Cardinality(InFlight(s)) + Cardinality(Mine(s, events))
  <2>1. Cardinality(InFlight(s) \cap Pairs(c, s, events)) = 0
    BY <1>8, FS_EmptySet
  <2>2. Cardinality(InFlight(s) \cup Pairs(c, s, events))
          = Cardinality(InFlight(s)) + Cardinality(Pairs(c, s, events))
              - Cardinality(InFlight(s) \cap Pairs(c, s, events))
    BY <1>2, <1>6, FS_Union
  <2>3. Cardinality(InFlight(s) \cup Pairs(c, s, events))
          = Cardinality(InFlight(s)) + Cardinality(Mine(s, events))
    BY <1>2, <1>6, <2>1, <2>2
  <2> QED
    BY <1>8, <2>3
<1>10. (pc'[s] = "notifying" <=> pc[s] = "notifying") /\ chan' = chan /\ told' = told
  BY DEF Inv, TypeOK, Apply, Goto
<1>11. fired[s] \in Nat /\ told[s] \in Nat /\ Len(chan[s]) \in Nat
  BY DEF Inv, TypeOK
<1> QED
  BY <1>2, <1>4, <1>6, <1>9, <1>10, <1>11 DEF Tally

LEMMA ApplyTypes == ASSUME Inv, NEW c \in Conn, Apply(c) PROVE TypeOK'
<1> USE DEF Apply, client
<1>1. Goto(c, "queued") /\ "queued" \in Doing
  BY DEF Doing
<1>2. FiredBy(req[c]) \in SUBSET Event
  BY DEF FiredBy, Inv, TypeOK
<1>3. watches' \subseteq Event
  <2>1. req[c] \in Request \cup {NoRequest}
    BY DEF Inv, TypeOK
  <2>2. req[c].paths \subseteq Path
    BY <2>1, ReqType DEF NoRequest
  <2> QED
    BY <2>2 DEF WatchesAfter, Inv, TypeOK, Event
<1>4. todo' \in [Conn -> SUBSET Event]
  BY <1>2 DEF Inv, TypeOK
<1>5. fired' \in [Conn -> Nat]
  <2>1. \A s \in Conn : Cardinality(Mine(s, FiredBy(req[c]))) \in Nat
    BY <1>2, PairsCounted
  <2>2. \A s \in Conn : fired[s] + Cardinality(Mine(s, FiredBy(req[c]))) \in Nat
    BY <2>1 DEF Inv, TypeOK
  <2> QED
    BY <2>2 DEF Mine
<1> QED
  BY <1>1, <1>3, <1>4, <1>5, GotoType, ReadersType, WaitsType DEF Inv, TypeOK

LEMMA ApplyFresh == ASSUME Inv, NEW c \in Conn, Apply(c) PROVE Fresh'
<1>1. pc'[c] = "queued" /\ \A d \in Conn \ {c} : pc'[d] = pc[d]
  BY GotoType DEF Inv, Apply, Doing
<1> SUFFICES ASSUME NEW s \in Conn, pc'[s] \in {"new", "joining"}
             PROVE  /\ fired'[s] = 0 /\ told'[s] = 0 /\ chan'[s] = <<>>
                    /\ \A w \in watches' : w[1] # s
                    /\ \A d \in Conn : \A e \in todo'[d] : e[1] # s
  BY DEF Fresh
<1>2. s # c /\ pc[s] \in {"new", "joining"}
  BY <1>1
<1>3. /\ fired[s] = 0 /\ told[s] = 0 /\ chan[s] = <<>>
      /\ \A w \in watches : w[1] # s
      /\ \A d \in Conn : \A e \in todo[d] : e[1] # s
  BY <1>2 DEF Inv, Fresh
<1>4. \A w \in watches' : w[1] # s
  BY <1>2, <1>3 DEF Apply, WatchesAfter
<1>5. \A d \in Conn : \A e \in todo'[d] : e[1] # s
  <2>1. \A e \in FiredBy(req[c]) : e[1] # s
    BY <1>3 DEF FiredBy
  <2> QED
    BY <1>3, <2>1 DEF Apply, Inv, TypeOK
<1>6. Mine(s, FiredBy(req[c])) = {}
  BY <1>3 DEF FiredBy, Mine
<1>7. fired'[s] = fired[s] + Cardinality(Mine(s, FiredBy(req[c])))
  BY DEF Apply, Mine
<1>8. Cardinality(Mine(s, FiredBy(req[c]))) = 0
  BY <1>6, FS_EmptySet
<1>9. fired'[s] = 0
  BY <1>3, <1>7, <1>8
<1> QED
  BY <1>3, <1>4, <1>5, <1>9 DEF Apply

LEMMA ApplyInv == ASSUME Inv, NEW c \in Conn, Apply(c) PROVE Inv'
<1>1. pc'[c] = "queued" /\ \A d \in Conn \ {c} : pc'[d] = pc[d]
  BY GotoType DEF Inv, Apply, Doing
<1>2. Quiet'
  BY <1>1 DEF Inv, TypeOK, Quiet, Apply
<1>3. NothingLost'
  <2>1. ASSUME NEW s \in Conn, Open(s)' PROVE s \in senders' /\ Tally(s)'
    <3>1. Open(s)
      BY <1>1, <2>1 DEF Open, Apply
    <3>2. s \in senders /\ Tally(s)
      BY <3>1, NothingLostIs DEF Inv
    <3> QED
      BY <3>2, ApplyTally DEF Apply
  <2> QED
    BY <2>1 DEF NothingLost, Tally
<1>4. OnlyWatchersLoseStep'
  <2>1. ASSUME NEW s \in cut PROVE fired'[s] > 0
    <3>1. s \in Conn /\ fired[s] > 0 /\ fired[s] \in Nat
      BY DEF Inv, TypeOK, OnlyWatchersLoseStep
    <3>2. Cardinality(Mine(s, FiredBy(req[c]))) \in Nat
      BY <3>1, PairsCounted DEF FiredBy, Inv, TypeOK
    <3>3. fired'[s] = fired[s] + Cardinality(Mine(s, FiredBy(req[c])))
      BY <3>1 DEF Apply, Mine
    <3> QED
      BY <3>1, <3>2, <3>3
  <2> QED
    BY <2>1 DEF OnlyWatchersLoseStep, Apply, client
<1> QED
  BY <1>2, <1>3, <1>4, ApplyTypes, ApplyFresh DEF Inv

-----------------------------------------------------------------------------
(* An event that leaves a task's hands is in a channel, unless nobody is   *)
(* left to receive it.                                                     *)
LEMMA SendInFlight ==
  ASSUME Inv, NEW c \in Conn, NEW e \in Event, Send(c, e), NEW s \in Conn
  PROVE  /\ s # e[1] => InFlight(s)' = InFlight(s)
         /\ s = e[1] => Cardinality(InFlight(s)') = Cardinality(InFlight(s)) - 1
         /\ Cardinality(InFlight(s)) \in Nat
<1>1. todo \in [Conn -> SUBSET Event] /\ todo' = [todo EXCEPT ![c] = @ \ {e}] /\ e \in todo[c]
  BY DEF Inv, TypeOK, Send
<1>2. todo' \in [Conn -> SUBSET Event]
  BY <1>1
<1>3. e = <<e[1], e[2]>> /\ e[1] \in Conn /\ e[2] \in Path
  BY DEF Event
<1>4. /\ InFlight(s) = {x \in Conn \X Path : <<s, x[2]>> \in todo[x[1]]}
      /\ IsFiniteSet(InFlight(s)) /\ Cardinality(InFlight(s)) \in Nat
  BY InFlightIs DEF Inv
<1>5. InFlight(s)' = {x \in Conn \X Path : <<s, x[2]>> \in todo'[x[1]]}
  BY <1>2, InFlightAfter
<1>6. \A d \in Conn : todo'[d] = IF d = c THEN todo[d] \ {e} ELSE todo[d]
  BY <1>1
<1>7. CASE s # e[1]
  <2>1. \A x \in Conn \X Path : <<s, x[2]>> # e
    BY <1>3, <1>7
  <2>2. \A x \in Conn \X Path : <<s, x[2]>> \in todo'[x[1]] <=> <<s, x[2]>> \in todo[x[1]]
    BY <1>6, <2>1
  <2>3. InFlight(s)' = InFlight(s)
    BY <1>4, <1>5, <2>2
  <2> QED
    BY <1>4, <1>7, <2>3
<1>8. CASE s = e[1]
  <2>1. \A x \in Conn \X Path : <<s, x[2]>> = e <=> x[2] = e[2]
    BY <1>3, <1>8
  <2>2. \A x \in Conn \X Path : x = <<c, e[2]>> <=> x[1] = c /\ x[2] = e[2]
    OBVIOUS
  <2>3. \A x \in Conn \X Path : <<s, x[2]>> \in todo'[x[1]]
                               <=> <<s, x[2]>> \in todo[x[1]] /\ x # <<c, e[2]>>
    BY <1>6, <2>1, <2>2
  <2>4. InFlight(s)' = InFlight(s) \ {<<c, e[2]>>}
    BY <1>4, <1>5, <2>3
  <2>5. <<c, e[2]>> \in InFlight(s)
    BY <1>1, <1>3, <1>4, <1>8
  <2>6. Cardinality(InFlight(s) \ {<<c, e[2]>>}) = Cardinality(InFlight(s)) - 1
    BY <1>4, <2>5, OneLess
  <2> QED
    BY <1>4, <1>8, <2>4, <2>6
<1> QED
  BY <1>7, <1>8

LEMMA SendChan ==
  ASSUME Inv, NEW c \in Conn, NEW e \in Event, Send(c, e)
  PROVE  /\ \A s \in Conn : s # e[1] => chan'[s] = chan[s]
         /\ ~Closed(e[1]) => Len(chan'[e[1]]) = Len(chan[e[1]]) + 1
         /\ Closed(e[1]) => chan' = chan
         /\ chan' \in [Conn -> Seq(Path)] /\ \A d \in Conn : Len(chan'[d]) <= Capacity
<1>1. e[1] \in Conn /\ e[2] \in Path /\ Capacity \in Nat
  BY DeliveryAssumption DEF Event
<1>2. chan \in [Conn -> Seq(Path)] /\ \A d \in Conn : Len(chan[d]) <= Capacity
  BY DEF Inv, TypeOK
<1>3. CASE Closed(e[1])
  BY <1>2, <1>3 DEF Send
<1>4. CASE ~Closed(e[1])
  <2>1. chan' = [chan EXCEPT ![e[1]] = Append(chan[e[1]], e[2])] /\ Len(chan[e[1]]) < Capacity
    BY <1>1, <1>2, <1>4 DEF Send
  <2>2. /\ Append(chan[e[1]], e[2]) \in Seq(Path)
        /\ Len(Append(chan[e[1]], e[2])) = Len(chan[e[1]]) + 1
        /\ Len(chan[e[1]]) \in Nat
    BY <1>1, <1>2, AppendProperties
  <2>3. Len(Append(chan[e[1]], e[2])) <= Capacity
    BY <1>1, <2>1, <2>2
  <2>4. chan' \in [Conn -> Seq(Path)] /\ \A d \in Conn : Len(chan'[d]) <= Capacity
    BY <1>1, <2>1, <2>2, <2>3, ChanType DEF Inv
  <2> QED
    BY <1>1, <1>2, <1>4, <2>1, <2>2, <2>4
<1> QED
  BY <1>3, <1>4

LEMMA SendInv == ASSUME Inv, NEW c \in Conn, NEW e \in Event, Send(c, e) PROVE Inv'
<1> USE DEF Send, lock, client, history
<1>1. todo' \in [Conn -> SUBSET Event] /\ \A d \in Conn : todo'[d] \subseteq todo[d]
  BY DEF Inv, TypeOK
<1>2. TypeOK'
  BY <1>1, SendChan DEF Inv, TypeOK
<1>3. Quiet'
  BY <1>1 DEF Inv, Quiet
<1>4. Fresh'
  <2> SUFFICES ASSUME NEW s \in Conn, pc[s] \in {"new", "joining"}
               PROVE  /\ fired[s] = 0 /\ told[s] = 0 /\ chan'[s] = <<>>
                      /\ \A w \in watches : w[1] # s
                      /\ \A d \in Conn : \A v \in todo'[d] : v[1] # s
    BY DEF Fresh
  <2>1. /\ fired[s] = 0 /\ told[s] = 0 /\ chan[s] = <<>>
        /\ \A w \in watches : w[1] # s
        /\ \A d \in Conn : \A v \in todo[d] : v[1] # s
    BY DEF Inv, Fresh
  <2>2. s # e[1]
    BY <2>1
  <2> QED
    BY <1>1, <2>1, <2>2, SendChan
<1>5. NothingLost'
  <2>1. ASSUME NEW s \in Conn, Open(s)' PROVE s \in senders' /\ Tally(s)'
    <3>1. Open(s)
      BY <2>1 DEF Open
    <3>2. s \in senders /\ Tally(s)
      BY <3>1, NothingLostIs DEF Inv
    <3>3. ~Closed(s)
      BY <3>1, <3>2 DEF Closed, Open
    <3>4. fired[s] \in Nat /\ told[s] \in Nat /\ Len(chan[s]) \in Nat
      BY DEF Inv, TypeOK
    <3>5. CASE s # e[1]
      <4>1. chan'[s] = chan[s] /\ InFlight(s)' = InFlight(s)
        BY <3>5, SendChan, SendInFlight
      <4> QED
        BY <3>2, <4>1 DEF Tally
    <3>6. CASE s = e[1]
      <4>1. Len(chan'[s]) = Len(chan[s]) + 1
        BY <3>3, <3>6, SendChan
      <4>2. /\ Cardinality(InFlight(s)') = Cardinality(InFlight(s)) - 1
            /\ Cardinality(InFlight(s)) \in Nat
        BY <3>6, SendInFlight
      <4>3. fired[s] = told[s] + (IF pc[s] = "notifying" THEN 1 ELSE 0)
                      + Len(chan'[s]) + Cardinality(InFlight(s)')
        <5>1. PICK n \in Nat : n = told[s] + (IF pc[s] = "notifying" THEN 1 ELSE 0)
          BY <3>4
        <5>2. fired[s] = n + Len(chan[s]) + Cardinality(InFlight(s))
          BY <3>2, <5>1 DEF Tally
        <5>3. fired[s] = n + Len(chan'[s]) + Cardinality(InFlight(s)')
          BY <3>4, <4>1, <4>2, <5>2
        <5> QED
          BY <5>1, <5>3
      <4> QED
        BY <3>2, <4>3 DEF Tally
    <3> QED
      BY <3>2, <3>5, <3>6
  <2> QED
    BY <2>1 DEF NothingLost, Tally
<1> QED
  BY <1>2, <1>3, <1>4, <1>5, CutKeeps DEF Inv

-----------------------------------------------------------------------------
(* A notification. *)
LEMMA ReceiveInv == ASSUME Inv, NEW c \in Conn, Receive(c) PROVE Inv'
<1> USE DEF Receive, lock, history
<1>1. pc'[c] = "notifying" /\ (\A d \in Conn \ {c} : pc'[d] = pc[d]) /\ Goto(c, "notifying")
      /\ "notifying" \in Doing
  BY GotoType DEF Inv, Doing
<1>2. /\ chan[c] \in Seq(Path) /\ chan[c] # <<>> /\ Len(chan[c]) <= Capacity
      /\ chan' = [chan EXCEPT ![c] = Tail(chan[c])] /\ Capacity \in Nat
  BY DeliveryAssumption DEF Inv, TypeOK
<1>3. /\ Tail(chan[c]) \in Seq(Path) /\ Len(Tail(chan[c])) = Len(chan[c]) - 1
      /\ Len(chan[c]) \in Nat /\ Len(chan[c]) >= 1
  BY <1>2, HeadTailProperties, EmptySeq
<1>4. TypeOK'
  <2>1. chan' \in [Conn -> Seq(Path)] /\ \A d \in Conn : Len(chan'[d]) <= Capacity
    <3>1. Len(Tail(chan[c])) <= Capacity
      BY <1>2, <1>3
    <3> QED
      BY <1>2, <1>3, <3>1, ChanType DEF Inv
  <2>2. cut' \subseteq Conn
    BY DEF Cut, Inv, TypeOK
  <2> QED
    BY <1>1, <2>1, <2>2, GotoType, ReadersType DEF Inv, TypeOK
<1>5. Quiet'
  BY <1>1 DEF Inv, Quiet
<1>6. Fresh'
  BY <1>1, <1>2 DEF Inv, TypeOK, Fresh
<1>7. \A s \in Conn : Open(s) => s \in senders /\ Tally(s)
  BY NothingLostIs DEF Inv
<1>8. Open(c)
  BY DEF Open
<1>9. fired[c] \in Nat /\ told[c] \in Nat /\ Cardinality(InFlight(c)) \in Nat
  BY InFlightIs DEF Inv, TypeOK
<1>10. Tally(c)'
  <2>1. Len(chan'[c]) = Len(chan[c]) - 1
    BY <1>2, <1>3 DEF Inv, TypeOK
  <2>2. InFlight(c)' = InFlight(c)
    BY SameInFlight
  <2>3. fired[c] = told[c] + 0 + Len(chan[c]) + Cardinality(InFlight(c))
    BY <1>7, <1>8 DEF Tally
  <2>4. fired[c] = told[c] + 1 + Len(chan'[c]) + Cardinality(InFlight(c))
    BY <1>3, <1>9, <2>1, <2>3
  <2> QED
    BY <1>1, <2>2, <2>4 DEF Tally
<1>11. NothingLost'
  <2>1. ASSUME NEW s \in Conn, Open(s)' PROVE s \in senders' /\ Tally(s)'
    <3>1. CASE s = c
      BY <1>7, <1>8, <1>10, <3>1
    <3>2. CASE s # c
      <4>1. Open(s) /\ chan'[s] = chan[s] /\ pc'[s] = pc[s]
        BY <1>1, <1>2, <2>1, <3>2 DEF Open, Inv, TypeOK
      <4> QED
        BY <1>7, <4>1, SameTally
    <3> QED
      BY <3>1, <3>2
  <2> QED
    BY <2>1 DEF NothingLost, Tally
<1>12. OnlyWatchersLoseStep'
  <2>1. fired[c] = told[c] + 0 + Len(chan[c]) + Cardinality(InFlight(c))
    BY <1>7, <1>8 DEF Tally
  <2>2. fired[c] > 0
    BY <1>3, <1>9, <2>1
  <2> QED
    BY <2>2 DEF Inv, OnlyWatchersLoseStep, Cut
<1> QED
  BY <1>4, <1>5, <1>6, <1>11, <1>12 DEF Inv

LEMMA NotifyInv == ASSUME Inv, NEW c \in Conn, Notify(c) PROVE Inv'
<1> USE DEF Notify, lock, client
<1>1. pc'[c] = "idle" /\ (\A d \in Conn \ {c} : pc'[d] = pc[d]) /\ Goto(c, "idle")
      /\ "idle" \in Doing
  BY GotoType DEF Inv, Doing
<1>2. TypeOK'
  <2>1. told[c] + 1 \in Nat
    BY DEF Inv, TypeOK
  <2>2. told' \in [Conn -> Nat]
    BY <2>1 DEF Inv, TypeOK
  <2> QED
    BY <1>1, <2>2, GotoType, ReadersType DEF Inv, TypeOK
<1>3. Quiet'
  BY <1>1 DEF Inv, Quiet
<1>4. Fresh'
  BY <1>1 DEF Inv, TypeOK, Fresh
<1>5. \A s \in Conn : Open(s) => s \in senders /\ Tally(s)
  BY NothingLostIs DEF Inv
<1>6. Open(c)
  BY DEF Open
<1>7. Tally(c)'
  <2>1. told'[c] = told[c] + 1 /\ told[c] \in Nat
    BY DEF Inv, TypeOK
  <2>2. InFlight(c)' = InFlight(c)
    BY SameInFlight
  <2>3. fired[c] = told[c] + 1 + Len(chan[c]) + Cardinality(InFlight(c))
    BY <1>5, <1>6 DEF Tally
  <2>4. Len(chan[c]) \in Nat /\ Cardinality(InFlight(c)) \in Nat
    BY InFlightIs DEF Inv, TypeOK
  <2>5. fired[c] = told'[c] + 0 + Len(chan[c]) + Cardinality(InFlight(c))
    BY <2>1, <2>3, <2>4
  <2> QED
    BY <1>1, <2>2, <2>5 DEF Tally
<1>8. NothingLost'
  <2>1. ASSUME NEW s \in Conn, Open(s)' PROVE s \in senders' /\ Tally(s)'
    <3>1. CASE s = c
      BY <1>5, <1>6, <1>7, <3>1
    <3>2. CASE s # c
      <4>1. Open(s) /\ told'[s] = told[s] /\ pc'[s] = pc[s]
        BY <1>1, <2>1, <3>2 DEF Open, Inv, TypeOK
      <4> QED
        BY <1>5, <4>1, SameTally
    <3> QED
      BY <3>1, <3>2
  <2> QED
    BY <2>1 DEF NothingLost, Tally
<1> QED
  BY <1>2, <1>3, <1>4, <1>8, CutKeeps DEF Inv

LEMMA IdleInv ==
  ASSUME Inv, UNCHANGED <<pc, req, todo, watches, senders, chan, lock, cut, count, history>>,
         stalled' \subseteq MayStall
  PROVE  Inv'
<1> USE DEF lock, history
<1>1. TypeOK' /\ Quiet' /\ Fresh'
  BY DEF Inv, TypeOK, Quiet, Fresh
<1>2. ASSUME NEW s \in Conn, Open(s)' PROVE s \in senders' /\ Tally(s)'
  <2>1. Open(s)
    BY <1>2 DEF Open
  <2>2. s \in senders /\ Tally(s)
    BY <2>1, NothingLostIs DEF Inv
  <2> QED
    BY <2>2, SameTally
<1>3. NothingLost'
  BY <1>2 DEF NothingLost, Tally
<1> QED
  BY <1>1, <1>3, CutKeeps DEF Inv

-----------------------------------------------------------------------------
(* Together. *)
LEMMA InitInv == ASSUME Init PROVE Inv
<1> USE DEF Init
<1>1. TypeOK
  <2>1. <<>> \in Seq(Path) /\ Len(<<>>) = 0 /\ 0 <= Capacity
    BY DeliveryAssumption
  <2>2. chan \in [Conn -> Seq(Path)] /\ \A c \in Conn : Len(chan[c]) <= Capacity
    BY <2>1
  <2>3. readers = {c \in Conn : pc[c] = "sending"} /\ pc \in [Conn -> Doing]
    BY DEF Doing
  <2> QED
    BY <2>2, <2>3 DEF TypeOK
<1>2. Quiet /\ Fresh
  BY DEF Quiet, Fresh
<1>3. NothingLost /\ OnlyWatchersLoseStep
  BY DEF NothingLost, OnlyWatchersLoseStep, Open
<1> QED
  BY <1>1, <1>2, <1>3 DEF Inv

LEMMA NextInv == ASSUME Inv, [Next]_vars PROVE Inv'
<1>1. CASE UNCHANGED vars
  BY <1>1, IdleInv DEF vars, lock, history, Inv, TypeOK
<1>2. ASSUME NEW c \in Conn, Task(c) PROVE Inv'
  <2>1. CASE \E e \in Event : Send(c, e)
    BY <2>1, SendInv
  <2> QED
    BY <1>2, <2>1, JoinInv, GreetInv, LeaveInv, ApplyInv, TakeSendersInv, AllSentInv, AnswerInv,
       ReceiveInv, NotifyInv DEF Task
<1>3. ASSUME NEW c \in Conn, Stall(c) PROVE Inv'
  <2>1. stalled' \subseteq MayStall
    BY <1>3 DEF Stall, Inv, TypeOK
  <2> QED
    BY <1>3, <2>1, IdleInv DEF Stall
<1>4. ASSUME NEW c \in Conn, NEW r \in Request, ReadPayload(c, r) PROVE Inv'
  BY <1>4, ReadPayloadInv
<1> QED
  BY <1>1, <1>2, <1>3, <1>4, BreakInv, ConnectInv, ReadLengthInv DEF Next

LEMMA SpecInv == Spec => []Inv
<1>1. Init => Inv
  BY InitInv
<1>2. Inv /\ [Next]_vars => Inv'
  BY NextInv
<1> QED
  BY <1>1, <1>2, PTL DEF Spec

(* The lock always knows who holds it and who waits, and no channel is     *)
(* ever longer than its capacity: dispatch waits before it sends.          *)
THEOREM DeliveryTypeCorrect == Spec => []TypeOK
<1>1. Inv => TypeOK
  BY DEF Inv
<1> QED
  BY <1>1, SpecInv, PTL

(* What an open session is owed has been written to its socket or is on    *)
(* its way, once: dispatch sends each event to its session's sender, which *)
(* is there as long as the connection is, whoever joins, leaves, stalls or *)
(* breaks in between.                                                      *)
THEOREM NothingIsLost == Spec => []NothingLost
<1>1. Inv => NothingLost
  BY DEF Inv
<1> QED
  BY <1>1, SpecInv, PTL

(* The read that select! drops is always a watcher's: who was never owed   *)
(* an event stays in step with its client.                                 *)
THEOREM OnlyWatchersEverLoseStep == Spec => []OnlyWatchersLoseStep
<1>1. Inv => OnlyWatchersLoseStep
  BY DEF Inv
<1> QED
  BY <1>1, SpecInv, PTL
=============================================================================
