---------------------------- MODULE TreeProofs ----------------------------
(***************************************************************************)
(* The trees in memory, the live one, a Multi's clone and the one a replay *)
(* builds, for any set of paths and any requests.  Each is a tree whose    *)
(* owned nodes are leaves their owner's index knows (Good); the index      *)
(* holds nothing else (Listed), so that a session takes its nodes and no   *)
(* other; stamps agree (Stamped); counts and numbers go up (Counted,       *)
(* Numbered).  From one state to the next a version identifies its data    *)
(* (Keeps) and a change of children is stamped (Marks).  Every operator of *)
(* storage.rs keeps these, and every step comes to one operator at most    *)
(* (LogProofs!NextGrows, NextMoves).                                       *)
(***************************************************************************)
EXTENDS LogProofs

Shaped(S) ==
  /\ Exists(S, Root)
  /\ \A p \in Proper : Exists(S, p) => Exists(S, Parent[p])
  /\ \A p \in Path : Exists(S, p) => S.map[p].children = {ChildName[q] : q \in ChildPaths(S, p)}

(* The root is nobody's. *)
Owned(S) ==
  /\ S.map[Root].owner = NoOwner
  /\ \A p \in Path :
       Exists(S, p) /\ S.map[p].owner # NoOwner =>
         S.map[p].children = {} /\ p \in S.eph[S.map[p].owner]

Good(S) == Shaped(S) /\ Owned(S)

TreesGood == \A S \in Trees : Good(S)

LEMMA GoodIs == TreeShape /\ OwnedNodesAreIndexedLeaves /\ (\A S \in Trees : S.map[Root].owner = NoOwner)
                  <=> TreesGood
BY DEF TreeShape, OwnedNodesAreIndexedLeaves, TreesGood, Good, Shaped, Owned

-----------------------------------------------------------------------------
(* The operators. *)
LEMMA NewStorageGood == Good(NewStorage)
<1>1. \A p \in Path : Exists(NewStorage, p) <=> p = Root
  <2>1. RootNode \in Node
    BY SuffixAssumption DEF RootNode, Node, Cversion
  <2> QED
    BY <2>1, NoNodeAssumption DEF Exists, NewStorage
<1>2. \A p \in Proper : p \in Path /\ p # Root
  BY PathAssumption
<1>3. ChildPaths(NewStorage, Root) = {}
  BY <1>1, <1>2 DEF ChildPaths
<1>4. NewStorage.map[Root] = RootNode /\ Root \in Path
  BY PathAssumption DEF NewStorage
<1>5. RootNode.children = {} /\ RootNode.owner = NoOwner
  BY DEF RootNode
<1> QED
  BY <1>1, <1>2, <1>3, <1>4, <1>5 DEF Good, Shaped, Owned

(* Only the map and the index matter. *)
LEMMA SameGood ==
  ASSUME NEW S, NEW T, Good(S), T.map = S.map, T.eph = S.eph
  PROVE  Good(T)
BY DEF Good, Shaped, Owned, Exists, ChildPaths

(* Node by node, what each operation does to the map: the nodes it makes,  *)
(* changes and takes are these, and every other node is as it was.         *)
LEMMA CreateMap ==
  ASSUME NEW S \in Storage, NEW op, NEW s \in Sid, Creates(op), CreateError(S, op) = "Ok"
  PROVE  LET made == CreatedPath(S, op)
             up   == Parent[op.path]
             T    == Create(S, op, s)
         IN  /\ made \in Proper /\ made \in Path /\ made # Root /\ up \in Path /\ made # up
             /\ Parent[made] = up /\ ~Exists(S, made) /\ Exists(S, up) /\ S.map[up] \in Node
             /\ S.map[up].owner = NoOwner
             /\ T \in Storage /\ T.zxid = S.zxid
             /\ T.map[made] = NewNode(op, s, S.zxid)
             /\ T.map[up] = WithChild(S.map[up], ChildName[made], S.zxid)
             /\ \A p \in Path : p # made /\ p # up => T.map[p] = S.map[p]
             /\ \A p \in Path : Exists(T, p) <=> p = made \/ Exists(S, p)
<1> DEFINE made == CreatedPath(S, op)
           up == Parent[op.path]
           T == Create(S, op, s)
<1>1. /\ made \in Proper /\ Parent[made] = up /\ ~Exists(S, made) /\ S.map[up] \in Node
      /\ S.map[up].owner = NoOwner
  BY CreatedPathType
<1>2. made \in Path /\ made # Root /\ up \in Path /\ Exists(S, up) /\ made # up
  BY <1>1, PathAssumption, NoNodeAssumption DEF Exists
<1>3. T \in Storage /\ T.zxid = S.zxid
  BY CreateType, SameZxid
<1>4. /\ T.map[made] = NewNode(op, s, S.zxid)
      /\ T.map[up] = WithChild(S.map[up], ChildName[made], S.zxid)
      /\ \A p \in Path : p # made /\ p # up => T.map[p] = S.map[p]
  BY <1>1, <1>2 DEF Create, Storage
<1>5. T.map[made] # NoNode /\ T.map[up] # NoNode
  BY <1>1, <1>4, NewNodeType, WithChildType, PathAssumption DEF Storage
<1>6. \A p \in Path : Exists(T, p) <=> p = made \/ Exists(S, p)
  BY <1>2, <1>4, <1>5 DEF Exists
<1> HIDE DEF made, up, T
<1> QED
  BY <1>1, <1>2, <1>3, <1>4, <1>6 DEF made, up, T

LEMMA SetDataMap ==
  ASSUME NEW S \in Storage, NEW p \in Path, NEW d \in Data, Exists(S, p)
  PROVE  LET T == SetData(S, p, d)
         IN  /\ T \in Storage /\ T.zxid = S.zxid /\ T.eph = S.eph /\ S.map[p] \in Node
             /\ T.map[p] = Written(S.map[p], d, S.zxid)
             /\ \A q \in Path : q # p => T.map[q] = S.map[q]
             /\ \A q \in Path : Exists(T, q) <=> Exists(S, q)
<1> DEFINE T == SetData(S, p, d)
<1>1. S.map[p] \in Node /\ T \in Storage
  BY SetDataType DEF Storage, Tree, Exists
<1>2. T.zxid = S.zxid /\ T.eph = S.eph
  BY DEF SetData, Storage
<1>3. /\ T.map[p] = Written(S.map[p], d, S.zxid)
      /\ \A q \in Path : q # p => T.map[q] = S.map[q]
  BY DEF SetData, Storage, Tree
<1> HIDE DEF T
<1>4. T.map[p] # NoNode
  BY <1>1, <1>3, WrittenType DEF Storage
<1>5. \A q \in Path : Exists(T, q) <=> Exists(S, q)
  BY <1>3, <1>4 DEF Exists
<1>6. /\ T \in Storage /\ T.zxid = S.zxid /\ T.eph = S.eph /\ S.map[p] \in Node
      /\ T.map[p] = Written(S.map[p], d, S.zxid)
      /\ \A q \in Path : q # p => T.map[q] = S.map[q]
      /\ \A q \in Path : Exists(T, q) <=> Exists(S, q)
  BY <1>1, <1>2, <1>3, <1>5
<1> QED
  BY <1>6 DEF T

LEMMA RemoveMap ==
  ASSUME NEW S \in Storage, NEW D \in SUBSET Path
  PROVE  LET T == Remove(S, D)
         IN  /\ T \in Storage /\ T.zxid = S.zxid /\ T.eph = S.eph
             /\ \A p \in Path : Exists(T, p) <=> Exists(S, p) /\ p \notin D
             /\ \A p \in Path : Exists(T, p) =>
                  /\ S.map[p] \in Node /\ Orphans(D, p) \in SUBSET Path
                  /\ T.map[p] = IF Orphans(D, p) = {} THEN S.map[p]
                                ELSE WithoutChildren(S.map[p], Orphans(D, p), S.zxid)
<1> DEFINE T == Remove(S, D)
           After(p) == WithoutChildren(S.map[p], Orphans(D, p), S.zxid)
<1>1. T \in Storage /\ T.zxid = S.zxid /\ T.eph = S.eph
  BY RemoveType DEF Remove, Storage
<1>2. \A p \in Path :
        T.map[p] = IF p \in D \/ ~Exists(S, p) THEN NoNode
                   ELSE IF Orphans(D, p) = {} THEN S.map[p] ELSE After(p)
  BY DEF Remove, Storage
<1> HIDE DEF T
<1>3. ASSUME NEW p \in Path, Exists(S, p)
      PROVE  /\ S.map[p] \in Node /\ Orphans(D, p) \in SUBSET Path /\ After(p) # NoNode
  <2>1. S.map[p] \in Node /\ S.zxid \in Nat /\ Orphans(D, p) \in SUBSET Path
    BY <1>3 DEF Exists, Storage, Tree, Orphans
  <2>2. After(p) \in Node
    BY <2>1, WithoutChildrenType
  <2> QED
    BY <2>1, <2>2, NoNodeAssumption
<1>4. \A p \in Path : Exists(T, p) <=> Exists(S, p) /\ p \notin D
  <2> HIDE DEF After
  <2> QED
    BY <1>2, <1>3 DEF Exists
<1>5. ASSUME NEW p \in Path, Exists(T, p)
      PROVE  /\ S.map[p] \in Node /\ Orphans(D, p) \in SUBSET Path
             /\ T.map[p] = IF Orphans(D, p) = {} THEN S.map[p] ELSE After(p)
  BY <1>2, <1>3, <1>4, <1>5
<1> QED
  BY <1>1, <1>4, <1>5 DEF T

(* A new node is a leaf below a parent that is nobody's. *)
LEMMA CreateGood ==
  ASSUME NEW S \in Storage, Good(S), NEW op, NEW s \in Sid, Creates(op),
         CreateError(S, op) = "Ok"
  PROVE  Good(Create(S, op, s))
<1> DEFINE made == CreatedPath(S, op)
           up == Parent[op.path]
           T == Create(S, op, s)
<1>1. /\ made \in Proper /\ made \in Path /\ made # Root /\ up \in Path /\ made # up
      /\ Parent[made] = up /\ ~Exists(S, made) /\ Exists(S, up) /\ S.map[up] \in Node
  BY CreateMap
<1>2. /\ \A p \in Path : p # made /\ p # up => T.map[p] = S.map[p]
      /\ \A p \in Path : Exists(T, p) <=> p = made \/ Exists(S, p)
  BY CreateMap
<1>2a. /\ \A r \in Sid : r # s => T.eph[r] = S.eph[r]
      /\ T.eph[s] = IF op.eph THEN S.eph[s] \cup {made} ELSE S.eph[s]
  BY DEF Create, Storage
<1>3. T.map[made].children = {} /\ T.map[made].owner = (IF op.eph THEN s ELSE NoOwner)
  <2>1. T.map[made] = NewNode(op, s, S.zxid)
    BY CreateMap
  <2> QED
    BY <2>1, NewNodeType DEF Storage
<1>4. /\ T.map[up].children = S.map[up].children \cup {ChildName[made]}
      /\ T.map[up].owner = NoOwner
  <2>1. T.map[up] = WithChild(S.map[up], ChildName[made], S.zxid) /\ S.map[up].owner = NoOwner
    BY CreateMap
  <2>2. ChildName[made] \in Name /\ S.zxid \in Nat
    BY <1>1, PathAssumption DEF Storage
  <2> HIDE DEF made, up, T
  <2> QED
    BY <1>1, <2>1, <2>2, WithChildType
<1> HIDE DEF made, up, T
<1>5. /\ ChildPaths(T, up) = ChildPaths(S, up) \cup {made}
      /\ \A p \in Path : p # up => ChildPaths(T, p) = ChildPaths(S, p)
  BY <1>1, <1>2, PathAssumption DEF ChildPaths
<1>6. ChildPaths(S, made) = {}
  BY <1>1 DEF ChildPaths, Good, Shaped
<1>7. Shaped(T)
  <2>1. Exists(T, Root)
    BY <1>2, PathAssumption DEF Good, Shaped
  <2>2. \A p \in Proper : Exists(T, p) => Exists(T, Parent[p])
    BY <1>1, <1>2, PathAssumption DEF Good, Shaped
  <2>3. ASSUME NEW p \in Path, Exists(T, p)
        PROVE  T.map[p].children = {ChildName[q] : q \in ChildPaths(T, p)}
    <3>1. CASE p = made
      BY <1>1, <1>3, <1>5, <1>6, <3>1
    <3>2. CASE p = up
      BY <1>1, <1>4, <1>5, <3>2 DEF Good, Shaped
    <3>3. CASE p # made /\ p # up
      BY <1>2, <1>5, <2>3, <3>3 DEF Good, Shaped
    <3> QED
      BY <3>1, <3>2, <3>3
  <2> QED
    BY <2>1, <2>2, <2>3 DEF Shaped
<1>8. Owned(T)
  <2>1. T.map[Root].owner = NoOwner
    BY <1>1, <1>2, <1>4, PathAssumption DEF Good, Owned
  <2>2. ASSUME NEW p \in Path, Exists(T, p), T.map[p].owner # NoOwner
        PROVE  T.map[p].children = {} /\ p \in T.eph[T.map[p].owner]
    <3>1. CASE p = made
      BY <1>3, <1>2a, <2>2, <3>1
    <3>2. CASE p = up
      BY <1>4, <2>2, <3>2
    <3>3. CASE p # made /\ p # up
      <4>1. T.map[p] = S.map[p] /\ Exists(S, p)
        BY <1>2, <2>2, <3>3
      <4>2. S.map[p].owner \in Sid
        BY <2>2, <4>1, ExistingType
      <4>3. S.map[p].children = {} /\ p \in S.eph[S.map[p].owner]
        BY <2>2, <4>1 DEF Good, Owned
      <4> QED
        BY <1>2a, <4>1, <4>2, <4>3
    <3> QED
      BY <3>1, <3>2, <3>3
  <2> QED
    BY <2>1, <2>2 DEF Owned
<1> QED
  BY <1>7, <1>8 DEF Good, T

(* A write leaves children, owner and place alone. *)
LEMMA SetDataGood ==
  ASSUME NEW S \in Storage, Good(S), NEW p \in Path, NEW d \in Data, Exists(S, p)
  PROVE  Good(SetData(S, p, d))
<1> DEFINE T == SetData(S, p, d)
<1>1. /\ T.eph = S.eph /\ S.map[p] \in Node
      /\ \A q \in Path : q # p => T.map[q] = S.map[q]
      /\ \A q \in Path : Exists(T, q) <=> Exists(S, q)
  BY SetDataMap
<1> HIDE DEF T
<1>2. T.map[p].children = S.map[p].children /\ T.map[p].owner = S.map[p].owner
  <2>1. T.map[p] = Written(S.map[p], d, S.zxid)
    BY SetDataMap DEF T
  <2> QED
    BY <1>1, <2>1, WrittenType DEF Storage
<1>3. \A q \in Path : T.map[q].children = S.map[q].children /\ T.map[q].owner = S.map[q].owner
  BY <1>1, <1>2
<1>4. \A q : ChildPaths(T, q) = ChildPaths(S, q)
  BY <1>1, PathAssumption DEF ChildPaths
<1>5. Shaped(T)
  BY <1>1, <1>3, <1>4, PathAssumption DEF Good, Shaped
<1>6. Owned(T)
  BY <1>1, <1>3, PathAssumption DEF Good, Owned, Shaped
<1> QED
  BY <1>5, <1>6 DEF Good, T

(* Nodes that go with all that is below them leave a tree behind. *)
Closed(S, D) == \A p \in D : p \in Proper /\ Exists(S, p) /\ ChildPaths(S, p) \subseteq D

LEMMA RemoveShaped ==
  ASSUME NoAliases, NEW S \in Storage, Shaped(S), NEW D \in SUBSET Path, Closed(S, D)
  PROVE  LET T == Remove(S, D)
         IN  /\ Shaped(T) /\ T.eph = S.eph
             /\ \A p \in Path : Exists(T, p) <=> Exists(S, p) /\ p \notin D
             /\ \A p \in Path : Exists(T, p) =>
                  T.map[p].owner = S.map[p].owner /\ T.map[p].children \subseteq S.map[p].children
<1> DEFINE T == Remove(S, D)
<1>1. T.eph = S.eph
  BY RemoveMap
<1>4. \A p \in Path : Exists(T, p) <=> Exists(S, p) /\ p \notin D
  BY RemoveMap
<1> HIDE DEF T
<1>5. ASSUME NEW p \in Path, Exists(T, p)
      PROVE  /\ T.map[p].owner = S.map[p].owner
             /\ T.map[p].children = S.map[p].children \ {ChildName[q] : q \in Orphans(D, p)}
  <2>1. /\ S.map[p] \in Node /\ Orphans(D, p) \in SUBSET Path
        /\ T.map[p] = IF Orphans(D, p) = {} THEN S.map[p]
                      ELSE WithoutChildren(S.map[p], Orphans(D, p), S.zxid)
    BY <1>5, RemoveMap DEF T
  <2>2. CASE Orphans(D, p) = {}
    BY <2>1, <2>2
  <2>3. CASE Orphans(D, p) # {}
    <3>1. T.map[p] = WithoutChildren(S.map[p], Orphans(D, p), S.zxid) /\ S.zxid \in Nat
      BY <2>1, <2>3 DEF Storage
    <3>2. LET m == WithoutChildren(S.map[p], Orphans(D, p), S.zxid)
          IN  /\ m.owner = S.map[p].owner
              /\ m.children = S.map[p].children \ {ChildName[q] : q \in Orphans(D, p)}
      BY <2>1 DEF WithoutChildren, Node
    <3> QED
      BY <3>1, <3>2
  <2> QED
    BY <2>2, <2>3
<1>6. \A p \in Path : ChildPaths(T, p) = ChildPaths(S, p) \ Orphans(D, p)
  BY <1>4, PathAssumption DEF ChildPaths, Orphans
<1>7. Shaped(T)
  <2>1. Exists(T, Root)
    BY <1>4, PathAssumption DEF Shaped, Closed
  <2>2. ASSUME NEW p \in Proper, Exists(T, p) PROVE Exists(T, Parent[p])
    <3>1. p \in Path /\ Parent[p] \in Path /\ Exists(S, p) /\ p \notin D
      BY <1>4, <2>2, PathAssumption
    <3>2. Exists(S, Parent[p])
      BY <3>1 DEF Shaped
    <3>3. Parent[p] \notin D
      BY <3>1 DEF Closed, ChildPaths
    <3> QED
      BY <1>4, <3>1, <3>2, <3>3
  <2>3. ASSUME NEW p \in Path, Exists(T, p)
        PROVE  T.map[p].children = {ChildName[q] : q \in ChildPaths(T, p)}
    <3>1. T.map[p].children = {ChildName[q] : q \in ChildPaths(S, p)}
                                \ {ChildName[q] : q \in Orphans(D, p)}
      BY <1>4, <1>5, <2>3 DEF Shaped
    <3>2. Orphans(D, p) \subseteq Proper /\ ChildPaths(S, p) \subseteq Proper
      BY DEF Closed, Orphans, ChildPaths
    <3>3. \A q \in ChildPaths(S, p), r \in Orphans(D, p) : ChildName[q] = ChildName[r] => q = r
      BY <3>2 DEF NoAliases, ChildPaths, Orphans
    <3> QED
      BY <1>6, <3>1, <3>3
  <2> QED
    BY <2>1, <2>2, <2>3 DEF Shaped
<1> QED
  BY <1>1, <1>4, <1>5, <1>7 DEF T

(* A childless node can go by itself. *)
LEMMA DeletableClosed ==
  ASSUME NEW S, Shaped(S), NEW p, Deletable(S, p)
  PROVE  p \in Path /\ {p} \in SUBSET Path /\ Closed(S, {p})
<1>1. p \in Proper /\ p \in Path /\ Exists(S, p) /\ S.map[p].children = {}
  BY PathAssumption DEF Deletable
<1>2. ChildPaths(S, p) = {}
  BY <1>1 DEF Shaped
<1> QED
  BY <1>1, <1>2 DEF Closed

(* A delete that leaves the index alone, as the replay of one does. *)
LEMMA RemoveOneGood ==
  ASSUME NoAliases, NEW S \in Storage, Good(S), NEW p, Deletable(S, p)
  PROVE  Good(Remove(S, {p}))
<1> DEFINE T == Remove(S, {p})
<1>1. {p} \in SUBSET Path /\ Closed(S, {p})
  BY DeletableClosed DEF Good
<1>2. /\ Shaped(T) /\ T.eph = S.eph
      /\ \A q \in Path : Exists(T, q) <=> Exists(S, q) /\ q \notin {p}
      /\ \A q \in Path : Exists(T, q) =>
           T.map[q].owner = S.map[q].owner /\ T.map[q].children \subseteq S.map[q].children
  BY <1>1, RemoveShaped DEF Good
<1> HIDE DEF T
<1>3. Owned(T)
  BY <1>2, PathAssumption DEF Good, Owned, Shaped
<1> QED
  BY <1>2, <1>3 DEF Good, T

(* A node that is gone can go from the index. *)
LEMMA UnindexGood ==
  ASSUME NEW S \in Storage, Good(S), NEW owner \in Sid \cup {NoOwner}, NEW p \in Path,
         ~Exists(S, p)
  PROVE  Good(RemoveEphemeral(S, owner, p))
<1> DEFINE T == RemoveEphemeral(S, owner, p)
<1>1. T.map = S.map
  BY DEF RemoveEphemeral, Storage
<1>2. \A r \in Sid, q \in Path : q # p /\ q \in S.eph[r] => q \in T.eph[r]
  BY DEF RemoveEphemeral, Storage
<1>3. \A q \in Path : Exists(S, q) => S.map[q].owner \in Sid \cup {NoOwner}
  BY ExistingType
<1>4. Shaped(T)
  BY <1>1 DEF Good, Shaped, Exists, ChildPaths
<1>5. Owned(T)
  BY <1>1, <1>2, <1>3 DEF Good, Owned, Exists
<1> QED
  BY <1>4, <1>5 DEF Good

(* A session that goes takes all its nodes: they are childless, so that    *)
(* whatever the order of the loop none of them stays.                      *)
LEMMA ReapGood ==
  ASSUME NoAliases, NEW S \in Storage, Good(S), NEW s \in Sid, NEW D \in Reapable(S, S.eph[s])
  PROVE  Good(Remove(DropSession(S, s), D))
<1> DEFINE U == DropSession(S, s)
           T == Remove(U, D)
<1>1. /\ U \in Storage /\ U.map = S.map
      /\ \A r \in Sid \ {s} : U.eph[r] = S.eph[r]
  <2>1. U \in Storage /\ U.map = S.map
    BY DropSessionType, SameMaps
  <2>2. U.eph = [S.eph EXCEPT ![s] = {}]
    BY DEF DropSession, Storage
  <2>3. \A r \in Sid \ {s} : U.eph[r] = S.eph[r]
    BY <2>2 DEF Storage
  <2> QED
    BY <2>1, <2>3
<1>2. D \in SUBSET Path /\ Closed(S, D)
  BY PathAssumption DEF Reapable, Closed, Storage
<1>3. Shaped(U) /\ Closed(U, D)
  BY <1>1, <1>2 DEF Good, Shaped, Closed, Exists, ChildPaths
<1>4. /\ Shaped(T) /\ T.eph = U.eph
      /\ \A q \in Path : Exists(T, q) <=> Exists(U, q) /\ q \notin D
      /\ \A q \in Path : Exists(T, q) =>
           T.map[q].owner = U.map[q].owner /\ T.map[q].children \subseteq U.map[q].children
  BY <1>1, <1>2, <1>3, RemoveShaped
<1>5. \A q \in Path : Exists(S, q) /\ S.map[q].owner = s => q \in D
  <2> SUFFICES ASSUME NEW q \in Path, Exists(S, q), S.map[q].owner = s PROVE q \in D
    OBVIOUS
  <2>1. S.map[q].owner # NoOwner
    BY BoundAssumption DEF Sid, NoOwner
  <2>2. S.map[q].children = {} /\ q \in S.eph[s]
    BY <2>1 DEF Good, Owned
  <2>3. q \in Proper
    BY <2>1, ExistingType DEF Good, Owned
  <2> QED
    BY <2>2, <2>3 DEF Reapable, Deletable
<1>6. \A q \in Path : Exists(S, q) => S.map[q].owner \in Sid \cup {NoOwner}
  BY ExistingType
<1> HIDE DEF T, U
<1>7. Owned(T)
  <2>1. T.map[Root].owner = NoOwner
    BY <1>1, <1>4, PathAssumption DEF Good, Owned, Shaped
  <2>2. ASSUME NEW q \in Path, Exists(T, q), T.map[q].owner # NoOwner
        PROVE  T.map[q].children = {} /\ q \in T.eph[T.map[q].owner]
    <3>1. Exists(S, q) /\ T.map[q].owner = S.map[q].owner /\ q \notin D
      BY <1>1, <1>4, <2>2 DEF Exists
    <3>2. S.map[q].owner \in Sid \ {s}
      BY <1>5, <1>6, <2>2, <3>1
    <3>3. S.map[q].children = {} /\ q \in S.eph[S.map[q].owner]
      BY <2>2, <3>1 DEF Good, Owned
    <3> QED
      BY <1>1, <1>4, <2>2, <3>1, <3>2, <3>3
  <2> QED
    BY <2>1, <2>2 DEF Owned
<1> QED
  BY <1>4, <1>7 DEF Good, T, U

(* A delete takes the node and its entry in the index; one of the root,    *)
(* which has no owner, does nothing.                                       *)
LEMMA DeleteGood ==
  ASSUME NoAliases, NEW S \in Storage, Good(S), NEW p \in Path, Exists(S, p),
         S.map[p].children = {}
  PROVE  Good(Deleted(S, p))
<1> DEFINE owner == S.map[p].owner
<1>1. owner \in Sid \cup {NoOwner} /\ p \in Proper \cup {Root}
  BY ExistingType
<1>2. CASE p \in Proper
  <2>1. Deletable(S, p) /\ TryDelete(S, p) = Remove(S, {p}) /\ {p} \in SUBSET Path
    BY <1>2 DEF Deletable, TryDelete
  <2>2. Remove(S, {p}) \in Storage /\ Good(Remove(S, {p}))
    BY <2>1, RemoveType, RemoveOneGood
  <2>3. ~Exists(Remove(S, {p}), p)
    BY DEF Exists, Remove, Storage
  <2> QED
    BY <1>1, <2>1, <2>2, <2>3, UnindexGood DEF Deleted
<1>3. CASE p = Root
  <2>1. TryDelete(S, p) = S
    BY <1>3, PathAssumption DEF TryDelete, Deletable
  <2>2. owner = NoOwner
    BY <1>3 DEF Good, Owned
  <2> QED
    BY <2>1, <2>2 DEF Deleted, RemoveEphemeral
<1> QED
  BY <1>1, <1>2, <1>3

(* Whatever is carried out on a good storage leaves a good one.            *)
LEMMA CarriedGood ==
  ASSUME NoAliases, NEW S \in Storage, Good(S), NEW prim \in Primitive, NEW T,
         Carried(S, prim, T) \/ Forgetful(S, prim, T)
  PROVE  Good(T)
<1>1. CASE /\ prim.op = "create" /\ CreateError(S, prim) = "Ok"
           /\ Like(T, Create(S, prim, prim.sid))
  BY <1>1, PrimitiveType, CreateGood, SameGood DEF Like
<1>2. CASE /\ prim.op = "set" /\ Exists(S, prim.path)
           /\ Like(T, SetData(S, prim.path, prim.data))
  BY <1>2, PrimitiveType, SetDataGood, SameGood DEF Like
<1>3. CASE /\ prim.op \in {"delete", "multi_delete"}
           /\ Exists(S, prim.path) /\ S.map[prim.path].children = {}
           /\ Like(T, Deleted(S, prim.path))
  BY <1>3, PrimitiveType, DeleteGood, SameGood DEF Like
<1>4. CASE Like(T, S)
  BY <1>4, SameGood DEF Like
<1>5. CASE /\ prim.op = "close"
           /\ \E D \in Reapable(S, S.eph[prim.sid]) : Like(T, Remove(DropSession(S, prim.sid), D))
  BY <1>5, PrimitiveType, ReapGood, SameGood DEF Like
<1>6. CASE Deletable(S, prim.path) /\ Like(T, Remove(S, {prim.path}))
  BY <1>6, RemoveOneGood, SameGood DEF Like
<1> QED
  BY <1>1, <1>2, <1>3, <1>4, <1>5, <1>6 DEF Carried, Forgetful

-----------------------------------------------------------------------------
LEMMA InitGood == Init => TreesGood
BY NewStorageGood DEF Init, TreesGood, Trees

LEMMA NextGood ==
  ASSUME NoAliases, TypeOK, LogKnown, MultiInStep, TreesGood, [Next]_vars
  PROVE  TreesGood'
<1> SUFFICES ASSUME NEW T \in Trees' PROVE Good(T)
  BY DEF TreesGood
<1>1. CASE Like(T, NewStorage)
  BY <1>1, NewStorageGood, SameGood DEF Like
<1>2. CASE \E S \in Trees : Grows(S, T)
  <2>1. PICK S \in Trees : Grows(S, T)
    BY <1>2
  <2>2. S \in Storage /\ Good(S)
    BY TreesType DEF TreesGood
  <2>3. PICK z \in Nat :
          \/ Like(T, At(S, z))
          \/ \E prim \in Loggable : Carried(At(S, z), prim, T) \/ Forgetful(At(S, z), prim, T)
    BY <2>1 DEF Grows
  <2>4. At(S, z) \in Storage /\ Good(At(S, z))
    BY <2>2, AtType, SameGood
  <2> QED
    BY <2>3, <2>4, LoggableType, CarriedGood, SameGood DEF Like
<1> QED
  BY <1>1, <1>2, NextGrows DEF TreesGrow

LEMMA AlwaysGood == ASSUME NoAliases PROVE Spec => []TreesGood
<1>1. TypeOK /\ LogKnown /\ MultiInStep /\ TreesGood /\ [Next]_vars => TreesGood'
  BY NextGood
<1> QED
  BY <1>1, InitGood, AlwaysKnown, PTL DEF Spec

(* Where no two paths differ only in slashes, the map is a tree in every   *)
(* reachable state, mid-Multi and mid-replay included, whatever is asked   *)
(* and whatever fails: storage.rs never strands a node nor miscounts one.  *)
THEOREM TreeAlwaysShaped == ASSUME NoAliases PROVE Spec => []TreeShape
<1>1. TreesGood => TreeShape
  BY GoodIs
<1> QED
  BY <1>1, AlwaysGood, PTL

(* Under the same condition a node with an owner is a leaf which closing   *)
(* or expiring that session will find, so that none outlives its session   *)
(* for want of an entry in the index.                                      *)
THEOREM OwnedAlwaysIndexed == ASSUME NoAliases PROVE Spec => []OwnedNodesAreIndexedLeaves
<1>1. TreesGood => OwnedNodesAreIndexedLeaves
  BY GoodIs
<1> QED
  BY <1>1, AlwaysGood, PTL
-----------------------------------------------------------------------------
(* Three things can become of a tree: a create, a set, or some nodes go,   *)
(* none of them one that is left in the index of its owner and of nobody   *)
(* else, unless a replayed delete forgets it there.                        *)
Takes(S, prim, D, T) ==
  /\ \A q \in D : q \in Proper /\ Exists(S, q)
  /\ T.map = Remove(S, D).map /\ T.zxid = S.zxid
  /\ \A s \in Sid : T.eph[s] \subseteq S.eph[s]
  /\ \A s \in Sid, q \in Path : q \in T.eph[s] /\ q \in D =>
       \/ S.map[q].owner # s
       \/ \E r \in Sid : r # s /\ q \in S.eph[r]
       \/ prim.op = "delete" /\ q = prim.path

LEMMA RemoveNone ==
  ASSUME NEW S \in Storage PROVE Remove(S, {}).map = S.map
<1>1. \A p : Orphans({}, p) = {}
  BY DEF Orphans
<1>2. Remove(S, {}).map = [p \in Path |-> IF p \in {} \/ ~Exists(S, p) THEN NoNode
                                          ELSE IF Orphans({}, p) = {} THEN S.map[p]
                                          ELSE WithoutChildren(S.map[p], Orphans({}, p), S.zxid)]
  BY DEF Remove, Storage
<1>3. Remove(S, {}).map = [p \in Path |-> S.map[p]]
  BY <1>1, <1>2 DEF Exists
<1> QED
  BY <1>3 DEF Storage, Tree

LEMMA CarriedForms ==
  ASSUME NEW S \in Storage, NEW prim \in Primitive, NEW T,
         Carried(S, prim, T) \/ Forgetful(S, prim, T)
  PROVE  \/ /\ prim.op = "create" /\ CreateError(S, prim) = "Ok"
            /\ Creates(prim) /\ prim.sid \in Sid
            /\ Like(T, Create(S, prim, prim.sid))
         \/ /\ prim.op = "set" /\ Exists(S, prim.path)
            /\ prim.path \in Path /\ prim.data \in Data
            /\ Like(T, SetData(S, prim.path, prim.data))
         \/ \E D \in SUBSET Path : Takes(S, prim, D, T)
<1>1. CASE prim.op = "create" /\ CreateError(S, prim) = "Ok" /\ Like(T, Create(S, prim, prim.sid))
  BY <1>1, PrimitiveType
<1>2. CASE prim.op = "set" /\ Exists(S, prim.path) /\ Like(T, SetData(S, prim.path, prim.data))
  BY <1>2, PrimitiveType
<1>3. CASE /\ prim.op \in {"delete", "multi_delete"} /\ Exists(S, prim.path)
           /\ Like(T, Deleted(S, prim.path))
  <2> DEFINE D == IF Deletable(S, prim.path) THEN {prim.path} ELSE {}
             U == TryDelete(S, prim.path)
             owner == S.map[prim.path].owner
  <2>1. prim.path \in Path /\ D \in SUBSET Path /\ owner \in Sid \cup {NoOwner}
    BY <1>3, PrimitiveType, ExistingType
  <2>2. U.map = Remove(S, D).map /\ U.zxid = S.zxid /\ U.eph = S.eph
    BY <2>1, RemoveNone, RemoveMap DEF TryDelete
  <2>3. U \in Storage
    BY <2>1, TryDeleteType
  <2> HIDE DEF U, owner
  <2>4. /\ T.map = U.map /\ T.zxid = U.zxid
        /\ \A s \in Sid : T.eph[s] = IF s = owner THEN U.eph[s] \ {prim.path} ELSE U.eph[s]
    <3>1. Like(T, RemoveEphemeral(U, owner, prim.path))
      BY <1>3 DEF Deleted, U, owner
    <3>2. NoOwner \notin Sid
      BY BoundAssumption DEF Sid, NoOwner
    <3> QED
      BY <2>1, <2>3, <3>1, <3>2 DEF Like, RemoveEphemeral, Storage
  <2>5. \A q \in D : q = prim.path /\ q \in Proper /\ Exists(S, q)
    BY DEF Deletable
  <2> HIDE DEF D
  <2>6. ASSUME NEW s \in Sid, NEW q \in Path, q \in T.eph[s], q \in D PROVE S.map[q].owner # s
    BY <2>2, <2>4, <2>5, <2>6 DEF owner
  <2>7. \A s \in Sid : T.eph[s] \subseteq S.eph[s]
    BY <2>2, <2>4
  <2>8. Takes(S, prim, D, T)
    BY <2>2, <2>4, <2>5, <2>6, <2>7 DEF Takes
  <2> QED
    BY <2>1, <2>8
<1>4. CASE Like(T, S)
  BY <1>4, RemoveNone DEF Like, Takes
<1>5. CASE /\ prim.op = "close"
           /\ \E D \in Reapable(S, S.eph[prim.sid]) : Like(T, Remove(DropSession(S, prim.sid), D))
  <2> DEFINE U == DropSession(S, prim.sid)
  <2>1. PICK D \in Reapable(S, S.eph[prim.sid]) : Like(T, Remove(U, D))
    BY <1>5
  <2>2. prim.sid \in Sid /\ U \in Storage
    BY <1>5, PrimitiveType, DropSessionType
  <2>7. /\ D \in SUBSET Path /\ D \subseteq S.eph[prim.sid]
        /\ \A q \in D : q \in Proper /\ Exists(S, q)
    BY <2>2 DEF Reapable, Storage
  <2>3. U.map = S.map /\ U.zxid = S.zxid
    BY <2>2, SameMaps, SameZxid
  <2>4. \A s \in Sid : U.eph[s] = IF s = prim.sid THEN {} ELSE S.eph[s]
    BY <2>2 DEF DropSession, Storage
  <2> HIDE DEF U
  <2>5. Remove(U, D).map = Remove(S, D).map
    BY <2>2, <2>3 DEF Remove, Storage, Exists
  <2>6. Remove(U, D).zxid = S.zxid /\ Remove(U, D).eph = U.eph
    BY <2>2, <2>3, <2>7, RemoveMap
  <2>8. T.map = Remove(S, D).map /\ T.zxid = S.zxid /\ T.eph = U.eph
    BY <2>1, <2>5, <2>6 DEF Like
  <2>9. Takes(S, prim, D, T)
    BY <2>2, <2>4, <2>7, <2>8 DEF Takes
  <2> QED
    BY <2>7, <2>9
<1>6. CASE Forgetful(S, prim, T)
  <2>1. prim.path \in Path /\ prim.op = "delete" /\ {prim.path} \in SUBSET Path
    BY <1>6, PrimitiveType DEF Forgetful
  <2>2. Like(T, Remove(S, {prim.path})) /\ Remove(S, {prim.path}).zxid = S.zxid
        /\ Remove(S, {prim.path}).eph = S.eph
    BY <1>6, <2>1, RemoveMap DEF Forgetful
  <2>3. Takes(S, prim, {prim.path}, T)
    BY <1>6, <2>1, <2>2 DEF Takes, Like, Forgetful, Deletable
  <2> QED
    BY <2>1, <2>3
<1> QED
  BY <1>1, <1>2, <1>3, <1>4, <1>5, <1>6 DEF Carried

-----------------------------------------------------------------------------
(* The index.  A session owns what it lists, and it was asked to be made   *)
(* for a session: the paths of ephemeral creates, with every number a      *)
(* sequential one can get.                                                 *)
OwnedPaths ==
  {r.path : r \in {q \in Asked("create") : q.eph /\ ~q.seq}}
  \cup {Suffixed[r.path][n] : r \in {q \in Asked("create") : q.eph /\ q.seq}, n \in Cversion}

Listed(S) ==
  \A s \in Sid : \A p \in S.eph[s] : p \in OwnedPaths /\ Exists(S, p) /\ S.map[p].owner = s

TreesListed == \A S \in Trees : Listed(S)

LEMMA SameListed ==
  ASSUME NEW S, NEW T, Listed(S), T.map = S.map, T.eph = S.eph
  PROVE  Listed(T)
BY DEF Listed, Exists

LEMMA CreateListed ==
  ASSUME NEW S \in Storage, Listed(S), NEW prim \in Loggable, prim.op = "create",
         CreateError(S, prim) = "Ok"
  PROVE  Listed(Create(S, prim, prim.sid))
<1> DEFINE s == prim.sid
           made == CreatedPath(S, prim)
           up == Parent[prim.path]
           T == Create(S, prim, s)
<1>1. PICK r \in Asked("create") : prim = LogCreate(r, s) /\ s \in Sid
  BY LoggableOp
<1>2. Creates(prim) /\ prim \in Primitive
  BY LoggableType, PrimitiveType
<1>3. /\ made \in Path /\ up \in Path /\ made # up /\ ~Exists(S, made) /\ S.map[up].owner = NoOwner
      /\ S.map[up] \in Node
      /\ T.map[made] = NewNode(prim, s, S.zxid)
  BY <1>1, <1>2, CreateMap
<1>4. /\ \A p \in Path : p # made /\ p # up => T.map[p] = S.map[p]
      /\ \A p \in Path : Exists(T, p) <=> p = made \/ Exists(S, p)
  BY <1>1, <1>2, CreateMap
<1>5. /\ \A o \in Sid : o # s => T.eph[o] = S.eph[o]
      /\ T.eph[s] = IF prim.eph THEN S.eph[s] \cup {made} ELSE S.eph[s]
  <2>1. s \in Sid
    BY <1>1
  <2> QED
    BY <2>1 DEF Create, Storage
<1>6. T.map[made].owner = (IF prim.eph THEN s ELSE NoOwner)
  BY <1>1, <1>2, <1>3, NewNodeType DEF Storage
<1>7. ASSUME prim.eph PROVE made \in OwnedPaths
  <2>1. r.eph /\ prim.seq = r.seq /\ prim.path = r.path
    BY <1>1, <1>7 DEF LogCreate
  <2>2. S.map[up].cversion \in Cversion
    BY <1>3 DEF Node
  <2>3. CASE r.seq
    BY <2>1, <2>2, <2>3 DEF CreatedPath, OwnedPaths
  <2>4. CASE ~r.seq
    BY <2>1, <2>4 DEF CreatedPath, OwnedPaths
  <2> QED
    BY <2>3, <2>4
<1> HIDE DEF made, up, T
<1> SUFFICES ASSUME NEW o \in Sid, NEW p \in T.eph[o]
             PROVE  p \in OwnedPaths /\ Exists(T, p) /\ T.map[p].owner = o
  BY DEF Listed, T
<1>8. CASE p \in S.eph[o]
  <2>1. p \in Path /\ p \in OwnedPaths /\ Exists(S, p) /\ S.map[p].owner = o
    BY <1>8 DEF Listed, Storage
  <2>2. o # NoOwner
    BY BoundAssumption DEF Sid, NoOwner
  <2>3. p # made /\ p # up
    BY <1>3, <2>1, <2>2
  <2> QED
    BY <1>4, <2>1, <2>3
<1>9. CASE p \notin S.eph[o]
  <2>1. prim.eph /\ p = made /\ o = s
    BY <1>1, <1>5, <1>9
  <2> QED
    BY <1>3, <1>4, <1>6, <1>7, <2>1
<1> QED
  BY <1>8, <1>9

LEMMA SetDataListed ==
  ASSUME NEW S \in Storage, Listed(S), NEW p \in Path, NEW d \in Data, Exists(S, p)
  PROVE  Listed(SetData(S, p, d))
<1> DEFINE T == SetData(S, p, d)
<1>1. /\ T.eph = S.eph /\ S.map[p] \in Node /\ T.map[p] = Written(S.map[p], d, S.zxid)
      /\ \A q \in Path : q # p => T.map[q] = S.map[q]
      /\ \A q \in Path : Exists(T, q) <=> Exists(S, q)
  BY SetDataMap
<1> HIDE DEF T
<1>2. T.map[p].owner = S.map[p].owner
  BY <1>1, WrittenType DEF Storage
<1>3. \A o \in Sid : S.eph[o] \subseteq Path
  BY DEF Storage
<1>4. \A q \in Path : T.map[q].owner = S.map[q].owner
  BY <1>1, <1>2
<1> QED
  BY <1>1, <1>3, <1>4 DEF Listed, T

LEMMA TakesListed ==
  ASSUME \A r \in Alone("delete") : r.path \notin OwnedPaths,
         NEW S \in Storage, Listed(S), NEW prim \in Loggable, NEW D \in SUBSET Path, NEW T,
         Takes(S, prim, D, T)
  PROVE  Listed(T)
<1> SUFFICES ASSUME NEW s \in Sid, NEW p \in T.eph[s]
             PROVE  p \in OwnedPaths /\ Exists(T, p) /\ T.map[p].owner = s
  BY DEF Listed
<1>1. p \in S.eph[s] /\ p \in Path
  BY DEF Takes, Storage
<1>2. p \in OwnedPaths /\ Exists(S, p) /\ S.map[p].owner = s
  BY <1>1 DEF Listed
<1>3. p \notin D
  <2>1. ASSUME NEW r \in Sid, r # s PROVE p \notin S.eph[r]
    BY <1>2, <2>1 DEF Listed
  <2>2. prim.op = "delete" => prim.path \notin OwnedPaths
    BY LoggableOp DEF LogDelete
  <2> QED
    BY <1>1, <1>2, <2>1, <2>2 DEF Takes
<1>4. Exists(T, p) /\ T.map[p].owner = s
  <2> DEFINE U == Remove(S, D)
  <2>0. T.map = U.map
    BY DEF Takes
  <2>1. Exists(U, p)
    BY <1>1, <1>2, <1>3, RemoveMap
  <2>6. \A q \in Path : Exists(U, q) =>
          /\ S.map[q] \in Node /\ Orphans(D, q) \in SUBSET Path
          /\ U.map[q] = IF Orphans(D, q) = {} THEN S.map[q]
                        ELSE WithoutChildren(S.map[q], Orphans(D, q), S.zxid)
    BY RemoveMap
  <2> HIDE DEF U
  <2>2. /\ S.map[p] \in Node
        /\ U.map[p] = IF Orphans(D, p) = {} THEN S.map[p]
                      ELSE WithoutChildren(S.map[p], Orphans(D, p), S.zxid)
    BY <1>1, <2>1, <2>6
  <2>3. WithoutChildren(S.map[p], Orphans(D, p), S.zxid).owner = S.map[p].owner
    BY <2>2 DEF WithoutChildren, Node
  <2>4. U.map[p].owner = s
    BY <1>2, <2>2, <2>3
  <2> QED
    BY <2>0, <2>1, <2>4 DEF Exists
<1> QED
  BY <1>2, <1>4

LEMMA CarriedListed ==
  ASSUME \A r \in Alone("delete") : r.path \notin OwnedPaths,
         NEW S \in Storage, Listed(S), NEW prim \in Loggable, NEW T,
         Carried(S, prim, T) \/ Forgetful(S, prim, T)
  PROVE  Listed(T)
<1>1. prim \in Primitive
  BY LoggableType
<1>2. CASE /\ prim.op = "create" /\ CreateError(S, prim) = "Ok"
           /\ Like(T, Create(S, prim, prim.sid))
  BY <1>2, CreateListed, SameListed DEF Like
<1>3. CASE /\ prim.op = "set" /\ Exists(S, prim.path) /\ prim.path \in Path /\ prim.data \in Data
           /\ Like(T, SetData(S, prim.path, prim.data))
  BY <1>3, SetDataListed, SameListed DEF Like
<1>4. CASE \E D \in SUBSET Path : Takes(S, prim, D, T)
  BY <1>4, TakesListed
<1> QED
  BY <1>1, <1>2, <1>3, <1>4, CarriedForms

LEMMA NextListed ==
  ASSUME \A r \in Alone("delete") : r.path \notin OwnedPaths,
         TypeOK, LogKnown, MultiInStep, TreesListed, [Next]_vars
  PROVE  TreesListed'
<1> SUFFICES ASSUME NEW T \in Trees' PROVE Listed(T)
  BY DEF TreesListed
<1>1. CASE Like(T, NewStorage)
  BY <1>1 DEF Like, NewStorage, Listed
<1>2. CASE \E S \in Trees : Grows(S, T)
  <2>1. PICK S \in Trees : Grows(S, T)
    BY <1>2
  <2>2. S \in Storage /\ Listed(S)
    BY TreesType DEF TreesListed
  <2>3. PICK z \in Nat :
          \/ Like(T, At(S, z))
          \/ \E prim \in Loggable : Carried(At(S, z), prim, T) \/ Forgetful(At(S, z), prim, T)
    BY <2>1 DEF Grows
  <2>4. At(S, z) \in Storage /\ Listed(At(S, z))
    BY <2>2, AtType, SameListed
  <2> QED
    BY <2>3, <2>4, CarriedListed, SameListed DEF Like
<1> QED
  BY <1>1, <1>2, NextGrows DEF TreesGrow

LEMMA AlwaysListed ==
  ASSUME \A r \in Alone("delete") : r.path \notin OwnedPaths PROVE Spec => []TreesListed
<1>1. Init => TreesListed
  BY DEF Init, TreesListed, Trees, NewStorage, Listed
<1>2. TypeOK /\ LogKnown /\ MultiInStep /\ TreesListed /\ [Next]_vars => TreesListed'
  BY NextListed
<1> QED
  BY <1>1, <1>2, AlwaysKnown, PTL DEF Spec

(* As long as no delete of its own, outside a Multi, names a path that some*)
(* ephemeral create could make, the index of a session lists nothing but   *)
(* nodes that exist and are its own: closing it deletes nothing else.  The *)
(* replay of such a delete is what would leave the path in the index, for  *)
(* the next node of that name to be taken with the wrong session.          *)
THEOREM IndexAlwaysHoldsOwnNodes ==
  ASSUME \A r \in Alone("delete") : r.path \notin OwnedPaths
  PROVE  Spec => []IndexHoldsOnlyOwnNodes
<1>1. TreesListed => IndexHoldsOnlyOwnNodes
  BY DEF TreesListed, Listed, IndexHoldsOnlyOwnNodes
<1> QED
  BY <1>1, AlwaysListed, PTL

-----------------------------------------------------------------------------
(* Who goes with a session.  A live session ends in one way only, its close*)
(* being carried out, and the loop over its index is over its own nodes.   *)
TakesItsNodes ==
  \A s \in Sid : s \in st.alive /\ s \notin st'.alive /\ Serving =>
    \A p \in Path : Exists(st, p) => (Exists(st', p) <=> st.map[p].owner # s)

(* Nothing else that is carried out ends a session. *)
LEMMA CarriedEnds ==
  ASSUME NEW S \in Storage, NEW prim \in Primitive, NEW T, Carried(S, prim, T),
         NEW s \in S.alive, s \notin T.alive
  PROVE  /\ prim.op = "close" /\ prim.sid = s
         /\ \E D \in Reapable(S, S.eph[s]) : Like(T, Remove(DropSession(S, s), D))
<1>1. ~Kin(T, S)
  BY DEF Kin
<1>2. ~(prim.op = "open" /\ Kin(T, RestoreSession(S, prim.sid)))
  BY DEF Kin, RestoreSession, Storage
<1>3. CASE prim.op = "close" /\ Kin(T, DropSession(S, prim.sid))
  <2>1. prim.sid \in Sid
    BY <1>3, PrimitiveType
  <2>2. T.alive = S.alive \ {prim.sid}
    BY <1>3, <2>1 DEF Kin, DropSession, Storage
  <2> QED
    BY <1>1, <1>3, <2>2 DEF Carried
<1> QED
  BY <1>1, <1>2, <1>3 DEF Carried

LEMMA CloseTakesItsNodes ==
  ASSUME NoAliases, NEW S \in Storage, Good(S), Listed(S), NEW s \in Sid,
         NEW D \in Reapable(S, S.eph[s]), NEW T, Like(T, Remove(DropSession(S, s), D)),
         NEW p \in Path, Exists(S, p)
  PROVE  Exists(T, p) <=> S.map[p].owner # s
<1> DEFINE U == DropSession(S, s)
<1>1. U \in Storage /\ U.map = S.map /\ S.eph[s] \in SUBSET Path
  BY DropSessionType, SameMaps DEF Storage
<1>2. D \in SUBSET Path /\ D \subseteq S.eph[s]
  BY <1>1 DEF Reapable
<1>3. Exists(T, p) <=> p \notin D
  <2>1. Exists(Remove(U, D), p) <=> Exists(U, p) /\ p \notin D
    BY <1>1, <1>2, RemoveMap
  <2> QED
    BY <1>1, <2>1 DEF Like, Exists
<1>4. p \in D => S.map[p].owner = s
  BY <1>2 DEF Listed
<1>5. ASSUME S.map[p].owner = s PROVE p \in D
  <2>1. S.map[p].owner # NoOwner
    BY <1>5, BoundAssumption DEF Sid, NoOwner
  <2>2. S.map[p].children = {} /\ p \in S.eph[s]
    BY <1>5, <2>1 DEF Good, Owned
  <2>3. p \in Proper
    BY <2>1, ExistingType DEF Good, Owned
  <2> QED
    BY <2>2, <2>3 DEF Reapable, Deletable
<1> QED
  BY <1>3, <1>4, <1>5

LEMMA CarriedTakesItsNodes ==
  ASSUME NoAliases, NEW S \in Storage, Good(S), Listed(S), Like(S, st) \/ Like(S, Bump(st)),
         Kin(S, st), st \in Storage,
         NEW prim \in Primitive, Carried(S, prim, st')
  PROVE  TakesItsNodes
<1> SUFFICES ASSUME NEW s \in Sid, s \in st.alive, s \notin st'.alive,
                    NEW p \in Path, Exists(st, p)
             PROVE  Exists(st', p) <=> st.map[p].owner # s
  BY DEF TakesItsNodes
<1>1. S.map = st.map /\ s \in S.alive
  BY SameMaps, LikeSame DEF Like, Kin, Bump, Storage
<1>2. \E D \in Reapable(S, S.eph[s]) : Like(st', Remove(DropSession(S, s), D))
  BY <1>1, CarriedEnds
<1>3. Exists(S, p)
  BY <1>1 DEF Exists
<1> QED
  BY <1>1, <1>2, <1>3, CloseTakesItsNodes

LEMMA StepTakesItsNodes ==
  ASSUME NoAliases, TypeOK, TreesGood, TreesListed, Quiet \/ Left \/ Wrote
  PROVE  TakesItsNodes
<1>1. st \in Storage /\ Good(st) /\ Listed(st) /\ Bump(st) \in Storage
  BY TreesType, BumpType DEF TreesGood, TreesListed
<1>2. Like(Bump(st), Bump(st)) /\ Kin(Bump(st), st) /\ Like(st, st) /\ Kin(st, st)
  BY <1>1, BumpIsAt, AtType, LikeTrans
<1>3. Bump(st).map = st.map /\ Bump(st).eph = st.eph /\ Good(Bump(st)) /\ Listed(Bump(st))
  <2>1. Bump(st).map = st.map /\ Bump(st).eph = st.eph
    BY <1>1 DEF Bump, Storage
  <2> QED
    BY <1>1, <2>1, SameGood, SameListed
<1>4. CASE Kin(st', st)
  BY <1>4 DEF Kin, TakesItsNodes
<1>5. CASE \E s \in Sid : Carried(st, LogClose(s), st')
  <2>1. \A s \in Sid : LogClose(s) \in Primitive
    BY DEF LogClose, SessionPrim, Primitive
  <2> QED
    BY <1>1, <1>2, <1>5, <2>1, CarriedTakesItsNodes
<1>6. CASE \E prim \in Loggable : Carried(Bump(st), prim, st')
  BY <1>1, <1>2, <1>3, <1>6, LoggableType, CarriedTakesItsNodes
<1> QED
  BY <1>4, <1>5, <1>6 DEF Quiet, Left, Wrote, Refused, Done

LEMMA NextTakesItsNodes ==
  ASSUME NoAliases, TypeOK, MultiInStep, TreesGood, TreesListed, [Next]_vars
  PROVE  TakesItsNodes
<1>1. ASSUME NEW s \in conns, NEW req \in Requests, Serve(s, req) PROVE TakesItsNodes
  <2>1. s \in Sid /\ (BeginMulti(s, req) \/ Quiet \/ Left \/ Wrote)
    BY <1>1, ServeSteps DEF TypeOK
  <2>2. CASE BeginMulti(s, req)
    <3>1. st' = Touch(st, s) /\ st \in Storage
      BY <2>2 DEF BeginMulti, TypeOK
    <3>2. st'.alive = st.alive
      BY <2>1, <3>1, LikeSame DEF Kin
    <3> QED
      BY <3>2 DEF TakesItsNodes
  <2> QED
    BY <2>1, <2>2, StepTakesItsNodes
<1>2. CASE CommitMulti
  BY <1>2 DEF CommitMulti, Staging, MultiInStep, Kin, TakesItsNodes
<1>3. CASE Connect \/ \E s \in Sid : CloseExpired(s)
  BY <1>3, SessionSteps, StepTakesItsNodes
<1>4. CASE AbortProcess \/ Crash \/ ReplayRecord \/ ReplayOp \/ ReplayPanics \/ Restarted
  BY <1>4 DEF AbortProcess, Crash, LoseMemory, ReplayRecord, ReplayOp, ReplayPanics, Restarted,
              Serving, TakesItsNodes
<1>5. CASE StageMulti \/ AbortMulti \/ Sweep \/ (\E s \in Sid : Disconnect(s)) \/ UNCHANGED vars
  BY <1>5 DEF StageMulti, AbortMulti, Sweep, Disconnect, vars, TakesItsNodes
<1> QED
  BY <1>1, <1>2, <1>3, <1>4, <1>5 DEF Next

(* Under both conditions a live session that ends, closed or expired, takes*)
(* exactly its own nodes: none is left behind for want of an entry in the  *)
(* index, or because the loop refused to delete it, and nobody else loses  *)
(* one, whatever is asked and whatever flush fails.                        *)
THEOREM SessionAlwaysTakesItsNodes ==
  ASSUME NoAliases, \A r \in Alone("delete") : r.path \notin OwnedPaths
  PROVE  Spec => SessionTakesItsNodes
<1>1. TypeOK /\ MultiInStep /\ TreesGood /\ TreesListed /\ [Next]_vars => TakesItsNodes
  BY NextTakesItsNodes
<1>2. Spec => [][TakesItsNodes]_vars
  BY <1>1, AlwaysKnown, AlwaysGood, AlwaysListed, PTL DEF Spec
<1> QED
  BY <1>2 DEF TakesItsNodes, SessionTakesItsNodes

-----------------------------------------------------------------------------
(* Stamps.  What is carried out now is stamped now, and now is never before*)
(* anything there is: this is where the order of the log comes in.         *)
Stamped(S) ==
  \A p \in Path : Exists(S, p) =>
    LET n == S.map[p]
    IN  n.czxid <= n.mzxid /\ n.czxid <= n.pzxid /\ n.mzxid <= S.zxid /\ n.pzxid <= S.zxid

TreesStamped == \A S \in Trees : Stamped(S)

(* Every stamp there is was a zxid, so it can be compared.                 *)
LEMMA StampType ==
  ASSUME NEW S \in Storage, NEW p \in Path, Exists(S, p)
  PROVE  /\ S.map[p] \in Node /\ S.zxid \in Nat
         /\ S.map[p].czxid \in Nat /\ S.map[p].mzxid \in Nat /\ S.map[p].pzxid \in Nat
BY DEF Exists, Storage, Tree, Node

LEMMA StampedLater ==
  ASSUME NEW S \in Storage, Stamped(S), NEW z \in Nat, S.zxid <= z
  PROVE  Stamped(At(S, z))
<1> DEFINE T == At(S, z)
<1>1. T.map = S.map /\ T.zxid = z
  BY AtType
<1> HIDE DEF T
<1> SUFFICES ASSUME NEW p \in Path, Exists(T, p)
             PROVE  /\ T.map[p].czxid <= T.map[p].mzxid /\ T.map[p].czxid <= T.map[p].pzxid
                    /\ T.map[p].mzxid <= T.zxid /\ T.map[p].pzxid <= T.zxid
  BY DEF Stamped, T
<1>2. Exists(S, p) /\ T.map[p] = S.map[p]
  BY <1>1 DEF Exists
<1> QED
  BY <1>1, <1>2, StampType DEF Stamped

LEMMA SameStamped ==
  ASSUME NEW S, NEW T, Stamped(S), T.map = S.map, T.zxid = S.zxid
  PROVE  Stamped(T)
BY DEF Stamped, Exists

LEMMA CreateStamped ==
  ASSUME NEW S \in Storage, Stamped(S), NEW op, NEW s \in Sid, Creates(op),
         CreateError(S, op) = "Ok"
  PROVE  Stamped(Create(S, op, s))
<1> DEFINE made == CreatedPath(S, op)
           up == Parent[op.path]
           T == Create(S, op, s)
<1>1. /\ made \in Path /\ up \in Path /\ Exists(S, up) /\ made \in Proper /\ Parent[made] = up
      /\ T.zxid = S.zxid
      /\ T.map[made] = NewNode(op, s, S.zxid)
      /\ T.map[up] = WithChild(S.map[up], ChildName[made], S.zxid)
  BY CreateMap
<1>2. /\ \A p \in Path : p # made /\ p # up => T.map[p] = S.map[p]
      /\ \A p \in Path : Exists(T, p) <=> p = made \/ Exists(S, p)
  BY CreateMap
<1> HIDE DEF made, up, T
<1>3. S.zxid \in Nat
  BY DEF Storage
<1>4. T.map[made].czxid = S.zxid /\ T.map[made].mzxid = S.zxid /\ T.map[made].pzxid = S.zxid
  BY <1>1, <1>3, NewNodeType
<1>5. /\ T.map[up].czxid = S.map[up].czxid /\ T.map[up].mzxid = S.map[up].mzxid
      /\ T.map[up].pzxid = S.zxid
  BY <1>1, <1>3, StampType, WithChildType, PathAssumption
<1> SUFFICES ASSUME NEW p \in Path, Exists(T, p)
             PROVE  /\ T.map[p].czxid <= T.map[p].mzxid /\ T.map[p].czxid <= T.map[p].pzxid
                    /\ T.map[p].mzxid <= T.zxid /\ T.map[p].pzxid <= T.zxid
  BY DEF Stamped, T
<1>6. CASE p = made
  BY <1>1, <1>3, <1>4, <1>6
<1>7. CASE p = up
  BY <1>1, <1>3, <1>5, <1>7, StampType DEF Stamped
<1>8. CASE p # made /\ p # up
  BY <1>1, <1>2, <1>8 DEF Stamped
<1> QED
  BY <1>6, <1>7, <1>8

LEMMA SetDataStamped ==
  ASSUME NEW S \in Storage, Stamped(S), NEW p \in Path, NEW d \in Data, Exists(S, p)
  PROVE  Stamped(SetData(S, p, d))
<1> DEFINE T == SetData(S, p, d)
<1>1. /\ T.zxid = S.zxid /\ T.map[p] = Written(S.map[p], d, S.zxid)
      /\ \A q \in Path : q # p => T.map[q] = S.map[q]
      /\ \A q \in Path : Exists(T, q) <=> Exists(S, q)
  BY SetDataMap
<1> HIDE DEF T
<1>2. /\ T.map[p].czxid = S.map[p].czxid /\ T.map[p].mzxid = S.zxid
      /\ T.map[p].pzxid = S.map[p].pzxid
  BY <1>1, StampType, WrittenType
<1> SUFFICES ASSUME NEW q \in Path, Exists(T, q)
             PROVE  /\ T.map[q].czxid <= T.map[q].mzxid /\ T.map[q].czxid <= T.map[q].pzxid
                    /\ T.map[q].mzxid <= T.zxid /\ T.map[q].pzxid <= T.zxid
  BY DEF Stamped, T
<1>3. CASE q = p
  BY <1>1, <1>2, <1>3, StampType DEF Stamped
<1>4. CASE q # p
  BY <1>1, <1>4 DEF Stamped
<1> QED
  BY <1>3, <1>4

LEMMA RemoveStamped ==
  ASSUME NEW S \in Storage, Stamped(S), NEW D \in SUBSET Path
  PROVE  Stamped(Remove(S, D))
<1> DEFINE T == Remove(S, D)
<1>1. T.zxid = S.zxid /\ \A p \in Path : Exists(T, p) <=> Exists(S, p) /\ p \notin D
  BY RemoveMap
<1>2. \A p \in Path : Exists(T, p) =>
        /\ S.map[p] \in Node /\ Orphans(D, p) \in SUBSET Path
        /\ T.map[p] = IF Orphans(D, p) = {} THEN S.map[p]
                      ELSE WithoutChildren(S.map[p], Orphans(D, p), S.zxid)
  BY RemoveMap
<1> HIDE DEF T
<1> SUFFICES ASSUME NEW p \in Path, Exists(T, p)
             PROVE  /\ T.map[p].czxid <= T.map[p].mzxid /\ T.map[p].czxid <= T.map[p].pzxid
                    /\ T.map[p].mzxid <= T.zxid /\ T.map[p].pzxid <= T.zxid
  BY DEF Stamped, T
<1>3. Exists(S, p)
  BY <1>1
<1>4. CASE Orphans(D, p) = {}
  BY <1>1, <1>2, <1>3, <1>4 DEF Stamped
<1>5. CASE Orphans(D, p) # {}
  <2> DEFINE m == WithoutChildren(S.map[p], Orphans(D, p), S.zxid)
  <2>1. T.map[p] = m /\ S.map[p] \in Node
    BY <1>2, <1>5
  <2>2. m.czxid = S.map[p].czxid /\ m.mzxid = S.map[p].mzxid /\ m.pzxid = S.zxid
    BY <2>1 DEF WithoutChildren, Node
  <2> HIDE DEF m
  <2> QED
    BY <1>1, <1>3, <2>1, <2>2, StampType DEF Stamped
<1> QED
  BY <1>4, <1>5

LEMMA CarriedStamped ==
  ASSUME NEW S \in Storage, Stamped(S), NEW prim \in Primitive, NEW T,
         Carried(S, prim, T) \/ Forgetful(S, prim, T)
  PROVE  Stamped(T)
<1>1. CASE /\ prim.op = "create" /\ CreateError(S, prim) = "Ok" /\ Creates(prim)
           /\ prim.sid \in Sid /\ Like(T, Create(S, prim, prim.sid))
  BY <1>1, CreateStamped, SameStamped DEF Like
<1>2. CASE /\ prim.op = "set" /\ Exists(S, prim.path) /\ prim.path \in Path /\ prim.data \in Data
           /\ Like(T, SetData(S, prim.path, prim.data))
  BY <1>2, SetDataStamped, SameStamped DEF Like
<1>3. CASE \E D \in SUBSET Path : Takes(S, prim, D, T)
  <2>1. PICK D \in SUBSET Path : Takes(S, prim, D, T)
    BY <1>3
  <2>2. Stamped(Remove(S, D)) /\ Remove(S, D).zxid = S.zxid
    BY RemoveStamped, RemoveMap
  <2> QED
    BY <2>1, <2>2, SameStamped DEF Takes
<1> QED
  BY <1>1, <1>2, <1>3, CarriedForms

LEMMA NewStorageStamped == Stamped(NewStorage) /\ NewStorage.zxid = 0
<1>1. \A p \in Path : Exists(NewStorage, p) => NewStorage.map[p] = RootNode
  BY DEF Exists, NewStorage
<1>2. NewStorage.zxid = 0
  BY DEF NewStorage
<1>3. RootNode.czxid = 0 /\ RootNode.mzxid = 0 /\ RootNode.pzxid = 0
  BY DEF RootNode
<1> QED
  BY <1>1, <1>2, <1>3 DEF Stamped

LEMMA NextStamped ==
  ASSUME TypeOK, LogKnown, MultiInStep, LogInv, TreesStamped, [Next]_vars
  PROVE  TreesStamped'
<1> SUFFICES ASSUME NEW T \in Trees' PROVE Stamped(T)
  BY DEF TreesStamped
<1>1. CASE Like(T, NewStorage)
  BY <1>1, NewStorageStamped, SameStamped DEF Like
<1>2. CASE \E S \in Trees : Grows(S, T)
  <2>1. PICK S \in Trees : Grows(S, T)
    BY <1>2
  <2>2. S \in Storage /\ Stamped(S)
    BY TreesType DEF TreesStamped
  <2>3. PICK z \in Nat :
          /\ S.zxid <= z
          /\ \/ Like(T, At(S, z))
             \/ \E prim \in Loggable : Carried(At(S, z), prim, T) \/ Forgetful(At(S, z), prim, T)
    BY <2>1 DEF Grows
  <2>4. At(S, z) \in Storage /\ Stamped(At(S, z))
    BY <2>2, <2>3, AtType, StampedLater
  <2> QED
    BY <2>3, <2>4, LoggableType, CarriedStamped, SameStamped DEF Like
<1> QED
  BY <1>1, <1>2, NextGrows DEF TreesGrow

LEMMA AlwaysStamped == ASSUME "sync" \notin Faults PROVE Spec => []TreesStamped
<1>1. Init => TreesStamped
  BY NewStorageStamped DEF Init, TreesStamped, Trees
<1>2. TypeOK /\ LogKnown /\ MultiInStep /\ LogInv /\ TreesStamped /\ [Next]_vars => TreesStamped'
  BY NextStamped
<1> QED
  BY <1>1, <1>2, AlwaysKnown, AlwaysLogInv, PTL DEF Spec

(* While no sync fails the stamps of every Stat are consistent: a node was *)
(* created no later than it was last written or its children last changed, *)
(* and neither lies ahead of last_zxid, in memory, on a Multi's clone, in  *)
(* the middle of a replay and after any number of restarts.                *)
THEOREM StampsAlwaysAgree ==
  ASSUME "sync" \notin Faults
  PROVE  Spec => []StampsAgree
<1>1. TreesStamped => StampsAgree
  BY DEF TreesStamped, Stamped, StampsAgree
<1> QED
  BY <1>1, AlwaysStamped, PTL

-----------------------------------------------------------------------------
(* Counts.  A cversion counts what comes and goes below a node: while it   *)
(* does not wrap around it is no less than the children there are.         *)
Unwrapped == \A S \in Trees : \A p \in Path : Exists(S, p) => S.map[p].cversion >= 0

Counts(S, p) == Cardinality(ChildPaths(S, p)) <= S.map[p].cversion

Counted(S) == \A p \in Path : Exists(S, p) => Counts(S, p)

TreesCounted == \A S \in Trees : Counted(S)

LEMMA ModLow == ASSUME NEW a \in Int, NEW m \in Int, 0 <= a, a < m PROVE a % m = a
OBVIOUS

LEMMA ModHigh == ASSUME NEW a \in Int, NEW m \in Int, m <= a, a < m + m PROVE a % m = a - m
OBVIOUS

(* A count that is not negative after it has gone up has not wrapped.      *)
LEMMA WrappedIs ==
  ASSUME NEW n \in Int, 0 <= n, n <= CversionMax + CversionMax, Wrapped(n) >= 0
  PROVE  Wrapped(n) = n
<1>1. CversionMax \in Int /\ CversionMax >= 0
  BY SuffixAssumption
<1> DEFINE m == 2 * CversionMax + 2
           a == n + CversionMax + 1
<1>2. m \in Int /\ a \in Int /\ 0 <= a /\ a < m + m /\ Wrapped(n) = (a % m) - CversionMax - 1
  BY <1>1 DEF Wrapped
<1>3. CASE a < m
  BY <1>1, <1>2, <1>3, ModLow
<1>4. CASE m <= a
  BY <1>1, <1>2, <1>4, ModHigh
<1> QED
  BY <1>1, <1>3, <1>4

LEMMA ChildPathsFinite ==
  ASSUME NEW S, NEW p
  PROVE  IsFiniteSet(ChildPaths(S, p)) /\ Cardinality(ChildPaths(S, p)) \in Nat
<1>1. ChildPaths(S, p) \in SUBSET Path
  BY PathAssumption DEF ChildPaths
<1> QED
  BY <1>1, FS_Subset, FS_CardinalityType, PathAssumption

(* A node that exists has a count, and its count is an integer.            *)
LEMMA CversionOf ==
  ASSUME NEW S \in Storage, NEW p \in Path, Exists(S, p)
  PROVE  /\ S.map[p] \in Node /\ S.map[p].cversion \in Cversion /\ S.map[p].cversion \in Int
         /\ S.map[p].cversion <= CversionMax /\ CversionMax \in Nat
<1>1. S.map[p] \in Node
  BY DEF Exists, Storage, Tree
<1>2. S.map[p].cversion \in Cversion
  BY <1>1 DEF Node
<1>3. \A c \in Cversion : c \in Int /\ c <= CversionMax
  BY SuffixAssumption DEF Cversion
<1> QED
  BY <1>1, <1>2, <1>3, SuffixAssumption

LEMMA SameCounted ==
  ASSUME NEW S, NEW T, Counted(S), T.map = S.map
  PROVE  Counted(T)
<1>1. \A p : (Exists(T, p) <=> Exists(S, p)) /\ T.map[p] = S.map[p]
  BY DEF Exists
<1>2. \A p : ChildPaths(T, p) = ChildPaths(S, p)
  BY <1>1 DEF ChildPaths
<1> QED
  BY <1>1, <1>2 DEF Counted, Counts

(* The parent of a new node counts one more. *)
LEMMA CreateCounts ==
  ASSUME NEW S \in Storage, Good(S), Counted(S), NEW op, NEW s \in Sid, Creates(op),
         CreateError(S, op) = "Ok",
         \A p \in Path : LET T == Create(S, op, s)
                         IN  Exists(T, p) => T.map[p].cversion >= 0
  PROVE  LET T  == Create(S, op, s)
             up == Parent[op.path]
         IN  /\ T.map[up].cversion = S.map[up].cversion + 1 /\ S.map[up].cversion >= 0
             /\ Counted(T)
<1> DEFINE made == CreatedPath(S, op)
           up == Parent[op.path]
           T == Create(S, op, s)
<1>3. /\ made \in Proper /\ made \in Path /\ made # Root /\ up \in Path /\ made # up
      /\ Parent[made] = up /\ ~Exists(S, made) /\ Exists(S, up) /\ S.map[up] \in Node
      /\ T.map[made] = NewNode(op, s, S.zxid)
      /\ T.map[up] = WithChild(S.map[up], ChildName[made], S.zxid)
  BY CreateMap
<1>4. /\ \A p \in Path : p # made /\ p # up => T.map[p] = S.map[p]
      /\ \A p \in Path : Exists(T, p) <=> p = made \/ Exists(S, p)
  BY CreateMap
<1>5. \A p \in Path : Exists(T, p) => T.map[p].cversion >= 0
  OBVIOUS
<1>6. S.zxid \in Nat
  BY DEF Storage
<1> HIDE DEF made, up, T
<1>7. T.map[made].cversion = 0
  BY <1>3, <1>6, NewNodeType
<1>8. T.map[up].cversion = Wrapped(S.map[up].cversion + 1)
  BY <1>3, <1>6, WithChildType, PathAssumption
<1>9. /\ ChildPaths(T, up) = ChildPaths(S, up) \cup {made}
      /\ \A p \in Path : p # up => ChildPaths(T, p) = ChildPaths(S, p)
  BY <1>3, <1>4, PathAssumption DEF ChildPaths
<1>10. T.map[up].cversion = S.map[up].cversion + 1 /\ S.map[up].cversion >= 0
  <2>1. /\ S.map[up].cversion \in Int /\ S.map[up].cversion <= CversionMax /\ CversionMax \in Nat
        /\ Cardinality(ChildPaths(S, up)) \in Nat
        /\ Cardinality(ChildPaths(S, up)) <= S.map[up].cversion
    BY <1>3, CversionOf, ChildPathsFinite DEF Counted, Counts
  <2>2. T.map[up].cversion >= 0
    BY <1>3, <1>4, <1>5
  <2>3. CASE S.map[up].cversion + 1 <= CversionMax + CversionMax
    BY <1>8, <2>1, <2>2, <2>3, WrappedIs
  <2>4. CASE CversionMax = 0 /\ S.map[up].cversion = 0
    <3>1. Wrapped(1) = -1
      <4>1. Wrapped(1) = (2 % 2) - 1
        BY <2>4 DEF Wrapped
      <4> QED
        BY <4>1
    <3> QED
      BY <1>8, <2>2, <2>4, <3>1
  <2> QED
    BY <2>1, <2>3, <2>4
<1>11. ASSUME NEW p \in Path, Exists(T, p) PROVE Counts(T, p)
  <2>1. CASE p = made
    <3>1. ChildPaths(T, made) = {}
      BY <1>3, <1>9 DEF ChildPaths, Good, Shaped
    <3> QED
      BY <1>7, <2>1, <3>1, FS_EmptySet DEF Counts
  <2>2. CASE p = up
    <3> DEFINE C == ChildPaths(S, up)
    <3>1. IsFiniteSet(C) /\ Cardinality(C) \in Nat /\ ChildPaths(T, up) = C \cup {made}
      BY <1>9, ChildPathsFinite
    <3>2. Cardinality(C) <= S.map[up].cversion /\ S.map[up].cversion \in Int
      BY <1>3, CversionOf DEF Counted, Counts
    <3> HIDE DEF C
    <3>3. Cardinality(C \cup {made}) <= Cardinality(C) + 1 /\ Cardinality(C \cup {made}) \in Nat
      <4>1. Cardinality(C \cup {made}) = IF made \in C THEN Cardinality(C) ELSE Cardinality(C) + 1
        BY <3>1, FS_AddElement
      <4> QED
        BY <3>1, <4>1
    <3>4. Cardinality(ChildPaths(T, up)) <= T.map[up].cversion
      BY <1>10, <3>1, <3>2, <3>3
    <3> QED
      BY <2>2, <3>4 DEF Counts
  <2>3. CASE p # made /\ p # up
    BY <1>4, <1>9, <1>11, <2>3 DEF Counted, Counts
  <2> QED
    BY <2>1, <2>2, <2>3
<1> QED
  BY <1>10, <1>11 DEF Counted, T, up

(* The parents of nodes that go count as many more as have gone.           *)
LEMMA RemoveCounts ==
  ASSUME NEW S \in Storage, Counted(S), NEW D \in SUBSET Path,
         \A q \in D : q \in Proper /\ Exists(S, q),
         NEW T, T.map = Remove(S, D).map,
         \A p \in Path : Exists(T, p) => T.map[p].cversion >= 0
  PROVE  /\ \A p \in Path : Exists(T, p) =>
              /\ Exists(S, p) /\ p \notin D
              /\ T.map[p].czxid = S.map[p].czxid
              /\ T.map[p].cversion \in Int /\ S.map[p].cversion \in Int
              /\ T.map[p].cversion >= S.map[p].cversion
              /\ Orphans(D, p) # {} => T.map[p].cversion > S.map[p].cversion
         /\ Counted(T)
<1> DEFINE U == Remove(S, D)
<1>1. \A p \in Path : Exists(U, p) <=> Exists(S, p) /\ p \notin D
  BY RemoveMap
<1>2. \A p \in Path : Exists(U, p) =>
        /\ S.map[p] \in Node /\ Orphans(D, p) \in SUBSET Path
        /\ U.map[p] = IF Orphans(D, p) = {} THEN S.map[p]
                      ELSE WithoutChildren(S.map[p], Orphans(D, p), S.zxid)
  BY RemoveMap
<1>0. \A p : (Exists(T, p) <=> Exists(U, p)) /\ T.map[p] = U.map[p]
  BY DEF Exists
<1> HIDE DEF U
<1>3. ASSUME NEW p \in Path, Exists(T, p)
      PROVE  /\ T.map[p].czxid = S.map[p].czxid
             /\ T.map[p].cversion >= S.map[p].cversion
             /\ T.map[p].cversion \in Int /\ S.map[p].cversion \in Int
             /\ Exists(S, p) /\ p \notin D
             /\ Orphans(D, p) # {} => T.map[p].cversion > S.map[p].cversion
  <2>1. Exists(S, p) /\ p \notin D /\ S.map[p] \in Node /\ S.map[p].cversion \in Int
        /\ S.map[p].cversion <= CversionMax /\ CversionMax \in Nat /\ S.zxid \in Nat
    BY <1>0, <1>1, <1>3, CversionOf DEF Storage
  <2> DEFINE gone == Orphans(D, p)
             C == ChildPaths(S, p)
  <2>2. T.map[p] = IF gone = {} THEN S.map[p] ELSE WithoutChildren(S.map[p], gone, S.zxid)
    BY <1>0, <1>2, <1>3
  <2>3. gone \in SUBSET Path /\ gone \in SUBSET C
    BY DEF Orphans, ChildPaths
  <2>4. IsFiniteSet(C) /\ Cardinality(C) \in Nat /\ Cardinality(C) <= S.map[p].cversion
    BY <2>1, ChildPathsFinite DEF Counted, Counts
  <2> HIDE DEF gone, C
  <2>5. Cardinality(gone) \in Nat /\ Cardinality(gone) <= Cardinality(C)
    BY <2>3, <2>4, FS_Subset, FS_CardinalityType
  <2>6. CASE gone = {}
    BY <2>1, <2>2, <2>6 DEF gone
  <2>7. CASE gone # {}
    <3>1. T.map[p] = WithoutChildren(S.map[p], gone, S.zxid)
      BY <2>2, <2>7
    <3>2. /\ T.map[p].czxid = S.map[p].czxid
          /\ T.map[p].cversion = Wrapped(S.map[p].cversion + Cardinality(gone))
      BY <2>1, <3>1 DEF WithoutChildren, Node
    <3>3. T.map[p].cversion = S.map[p].cversion + Cardinality(gone)
      BY <1>3, <2>1, <2>4, <2>5, <3>2, WrappedIs
    <3>4. Cardinality(gone) >= 1
      <4>1. IsFiniteSet(gone) /\ (Cardinality(gone) = 0 <=> gone = {})
        BY <2>3, <2>4, FS_Subset, FS_EmptySet
      <4> QED
        BY <2>5, <2>7, <4>1
    <3> DEFINE k == Cardinality(gone)
    <3> HIDE DEF k
    <3>5. T.map[p].cversion = S.map[p].cversion + k /\ k \in Nat /\ k >= 1
      BY <2>5, <3>3, <3>4 DEF k
    <3> QED
      BY <2>1, <3>2, <3>5
  <2> QED
    BY <2>6, <2>7
<1>4. ASSUME NEW p \in Path, Exists(T, p) PROVE Counts(T, p)
  <2>1. ChildPaths(T, p) \in SUBSET ChildPaths(S, p)
    BY <1>0, <1>1, PathAssumption DEF ChildPaths
  <2>2. Cardinality(ChildPaths(T, p)) <= Cardinality(ChildPaths(S, p))
    BY <2>1, ChildPathsFinite, FS_Subset
  <2>3. Cardinality(ChildPaths(S, p)) <= S.map[p].cversion
    BY <1>3, <1>4 DEF Counted, Counts
  <2>4. Cardinality(ChildPaths(S, p)) \in Nat /\ Cardinality(ChildPaths(T, p)) \in Nat
    BY ChildPathsFinite
  <2>5. T.map[p].cversion >= S.map[p].cversion /\ T.map[p].cversion \in Int /\ S.map[p].cversion \in Int
    BY <1>3, <1>4
  <2> DEFINE a == Cardinality(ChildPaths(T, p))
             b == Cardinality(ChildPaths(S, p))
  <2> HIDE DEF a, b
  <2>6. a <= T.map[p].cversion
    BY <2>2, <2>3, <2>4, <2>5 DEF a, b
  <2> QED
    BY <2>6 DEF a, Counts
<1> QED
  BY <1>3, <1>4 DEF Counted

-----------------------------------------------------------------------------
(* Numbers.  The next number of a sequential node is its parent's cversion,*)
(* which counts what comes and goes below the parent: while it does not    *)
(* wrap around it is above every number in use.                            *)
(* A sequential name spells out its prefix and its number, and no plain    *)
(* create asks for one.                                                    *)
NamesDiffer ==
  /\ \A p, q \in Prefix, i, j \in Cversion : Suffixed[p][i] = Suffixed[q][j] => p = q /\ i = j
  /\ \A r \in Asked("create") : ~r.seq =>
       \A p \in Prefix, i \in Cversion : r.path # Suffixed[p][i]

Numbered(S) ==
  /\ Counted(S)
  /\ \A p \in Prefix, i \in Cversion :
       Exists(S, Suffixed[p][i]) => i < S.map[Parent[p]].cversion

Follows(S) ==
  \A p \in Prefix : \A i, j \in Cversion :
    i < j /\ Exists(S, Suffixed[p][i]) /\ Exists(S, Suffixed[p][j]) =>
      S.map[Suffixed[p][i]].czxid <= S.map[Suffixed[p][j]].czxid

TreesNumbered == \A S \in Trees : Numbered(S) /\ Follows(S)

LEMMA SameNumbered ==
  ASSUME NEW S, NEW T, Numbered(S), Follows(S), T.map = S.map
  PROVE  Numbered(T) /\ Follows(T)
<1>1. \A p : (Exists(T, p) <=> Exists(S, p)) /\ T.map[p] = S.map[p]
  BY DEF Exists
<1>2. \A p : ChildPaths(T, p) = ChildPaths(S, p)
  BY <1>1 DEF ChildPaths
<1> QED
  BY <1>1, <1>2 DEF Numbered, Counted, Follows, Counts

(* A number was given under the prefix's own parent.                       *)
LEMMA SuffixedType ==
  ASSUME NEW p \in Prefix, NEW i \in Cversion
  PROVE  /\ Suffixed[p][i] \in Proper /\ Suffixed[p][i] \in Path
         /\ Parent[Suffixed[p][i]] = Parent[p] /\ Parent[p] \in Path /\ i \in Int
<1>1. Suffixed[p][i] \in Proper /\ Parent[Suffixed[p][i]] = Parent[p] /\ p \in Proper
  BY SuffixAssumption
<1> QED
  BY <1>1, PathAssumption, CversionType

(* The new node takes the number its parent has come to, which no node has,*)
(* and the parent counts one more.                                         *)
LEMMA CreateNumbered ==
  ASSUME NamesDiffer, NEW S \in Storage, Good(S), Stamped(S), Numbered(S), Follows(S),
         NEW prim \in Loggable, prim.op = "create", CreateError(S, prim) = "Ok",
         \A p \in Path : LET T == Create(S, prim, prim.sid)
                         IN  Exists(T, p) => T.map[p].cversion >= 0
  PROVE  Numbered(Create(S, prim, prim.sid)) /\ Follows(Create(S, prim, prim.sid))
<1> DEFINE s == prim.sid
           made == CreatedPath(S, prim)
           up == Parent[prim.path]
           T == Create(S, prim, s)
<1>1. PICK r \in Asked("create") : prim = LogCreate(r, s) /\ s \in Sid /\ r.path \in Proper
  BY LoggableOp
<1>2. Creates(prim) /\ S.zxid \in Nat /\ prim.path = r.path /\ prim.seq = r.seq
  BY <1>1, LoggableType, PrimitiveType DEF Storage, LogCreate
<1>3. /\ made \in Proper /\ made \in Path /\ made # Root /\ up \in Path /\ made # up
      /\ Parent[made] = up /\ ~Exists(S, made) /\ Exists(S, up) /\ S.map[up] \in Node
      /\ T.map[made] = NewNode(prim, s, S.zxid)
      /\ T.map[up] = WithChild(S.map[up], ChildName[made], S.zxid)
  BY <1>1, <1>2, CreateMap
<1>4. /\ \A p \in Path : p # made /\ p # up => T.map[p] = S.map[p]
      /\ \A p \in Path : Exists(T, p) <=> p = made \/ Exists(S, p)
  BY <1>1, <1>2, CreateMap
<1>5. \A p \in Path : Exists(T, p) => T.map[p].cversion >= 0
  OBVIOUS
<1>6. made = IF prim.seq THEN Suffixed[prim.path][S.map[up].cversion] ELSE prim.path
  BY DEF CreatedPath
<1> HIDE DEF made, up, T
<1>7. T.map[made].cversion = 0 /\ T.map[made].czxid = S.zxid
  BY <1>1, <1>2, <1>3, NewNodeType
<1>8. /\ T.map[up].cversion = Wrapped(S.map[up].cversion + 1)
      /\ T.map[up].czxid = S.map[up].czxid
  BY <1>2, <1>3, WithChildType, PathAssumption
<1>10. T.map[up].cversion = S.map[up].cversion + 1 /\ S.map[up].cversion >= 0 /\ Counted(T)
  BY <1>1, <1>2, <1>5, CreateCounts DEF Numbered, T, up
(* Where the number of the new node is above all the others.               *)
<1>12. ASSUME NEW p \in Prefix, NEW i \in Cversion, Suffixed[p][i] = made
       PROVE  prim.seq /\ i = S.map[up].cversion /\ Parent[p] = up
  <2>1. prim.seq
    BY <1>1, <1>2, <1>6, <1>12 DEF NamesDiffer
  <2>2. prim.path \in Prefix /\ S.map[up].cversion \in Cversion
    BY <1>2, <1>3, <2>1, CversionOf DEF Creates
  <2> QED
    BY <1>6, <1>12, <2>1, <2>2 DEF NamesDiffer, up
<1>13. ASSUME NEW p \in Prefix, NEW i \in Cversion, Exists(T, Suffixed[p][i])
       PROVE  i < T.map[Parent[p]].cversion
  <2>1. Suffixed[p][i] \in Proper /\ Suffixed[p][i] \in Path /\ Parent[Suffixed[p][i]] = Parent[p]
        /\ Parent[p] \in Path /\ i \in Int
    BY SuffixedType
  <2>2. CASE Suffixed[p][i] = made
    <3>1. S.map[up].cversion \in Int
      BY <1>3, CversionOf
    <3> QED
      BY <1>10, <1>12, <2>1, <2>2, <3>1
  <2>3. CASE Suffixed[p][i] # made
    <3>1. Exists(S, Suffixed[p][i]) /\ i < S.map[Parent[p]].cversion
      BY <1>4, <1>13, <2>1, <2>3 DEF Numbered
    <3>2. Exists(S, Parent[p])
      BY <2>1, <3>1 DEF Good, Shaped
    <3>3. S.map[Parent[p]].cversion \in Int
      BY <2>1, <3>2, CversionOf
    <3>4. CASE Parent[p] = up
      BY <1>10, <2>1, <3>1, <3>3, <3>4
    <3>5. CASE Parent[p] # up
      BY <1>3, <1>4, <2>1, <3>1, <3>2, <3>5
    <3> QED
      BY <3>4, <3>5
  <2> QED
    BY <2>2, <2>3
<1>14. \A p \in Path : Exists(S, p) => /\ T.map[p].czxid = S.map[p].czxid /\ S.map[p].czxid \in Nat
                                       /\ S.map[p].czxid <= S.zxid
  <2> SUFFICES ASSUME NEW p \in Path, Exists(S, p)
               PROVE  T.map[p].czxid = S.map[p].czxid /\ S.map[p].czxid \in Nat /\ S.map[p].czxid <= S.zxid
    OBVIOUS
  <2>1. T.map[p].czxid = S.map[p].czxid
    BY <1>3, <1>4, <1>8
  <2>2. S.map[p].czxid <= S.map[p].mzxid /\ S.map[p].mzxid <= S.zxid
    BY DEF Stamped
  <2> QED
    BY <2>1, <2>2, StampType
<1>15. ASSUME NEW p \in Prefix, NEW i \in Cversion, NEW j \in Cversion, i < j,
              Exists(T, Suffixed[p][i]), Exists(T, Suffixed[p][j])
       PROVE  T.map[Suffixed[p][i]].czxid <= T.map[Suffixed[p][j]].czxid
  <2>1. Suffixed[p][i] \in Path /\ Suffixed[p][j] \in Path /\ i \in Int /\ j \in Int
    BY SuffixedType
  <2>2. Suffixed[p][i] # made
    <3>1. SUFFICES ASSUME Suffixed[p][i] = made PROVE FALSE
      OBVIOUS
    <3>2. i = S.map[up].cversion /\ Parent[p] = up
      BY <1>12, <3>1
    <3>3. CASE Suffixed[p][j] = made
      BY <1>12, <1>15, <2>1, <3>2, <3>3
    <3>4. CASE Suffixed[p][j] # made
      <4>1. j < S.map[up].cversion
        BY <1>4, <1>15, <2>1, <3>2, <3>4 DEF Numbered
      <4> QED
        BY <1>15, <2>1, <3>2, <4>1
    <3> QED
      BY <3>3, <3>4
  <2>3. Exists(S, Suffixed[p][i])
    BY <1>4, <1>15, <2>1, <2>2
  <2>4. CASE Suffixed[p][j] = made
    BY <1>7, <1>14, <2>1, <2>3, <2>4
  <2>5. CASE Suffixed[p][j] # made
    <3>1. Exists(S, Suffixed[p][j])
      BY <1>4, <1>15, <2>1, <2>5
    <3> QED
      BY <1>14, <1>15, <2>1, <2>3, <3>1 DEF Follows
  <2> QED
    BY <2>4, <2>5
<1> QED
  BY <1>10, <1>13, <1>15 DEF Numbered, Follows, T

LEMMA SetDataNumbered ==
  ASSUME NEW S \in Storage, Numbered(S), Follows(S), NEW p \in Path, NEW d \in Data, Exists(S, p)
  PROVE  Numbered(SetData(S, p, d)) /\ Follows(SetData(S, p, d))
<1> DEFINE T == SetData(S, p, d)
<1>1. /\ S.map[p] \in Node /\ S.zxid \in Nat /\ T.map[p] = Written(S.map[p], d, S.zxid)
      /\ \A q \in Path : q # p => T.map[q] = S.map[q]
      /\ \A q \in Path : Exists(T, q) <=> Exists(S, q)
  BY SetDataMap DEF Storage
<1> HIDE DEF T
<1>2. \A q \in Path : T.map[q].cversion = S.map[q].cversion /\ T.map[q].czxid = S.map[q].czxid
  <2>1. T.map[p].cversion = S.map[p].cversion /\ T.map[p].czxid = S.map[p].czxid
    BY <1>1, WrittenType
  <2> QED
    BY <1>1, <2>1
<1>3. \A q : ChildPaths(T, q) = ChildPaths(S, q)
  BY <1>1, PathAssumption DEF ChildPaths
<1>4. Numbered(T)
  BY <1>1, <1>2, <1>3, SuffixedType DEF Numbered, Counted, Counts
<1>5. Follows(T)
  BY <1>1, <1>2, SuffixedType DEF Follows
<1> QED
  BY <1>4, <1>5 DEF T

(* What goes takes its number with it, and the parent's count goes up by   *)
(* as many as have gone.                                                   *)
LEMMA RemoveNumbered ==
  ASSUME NEW S \in Storage, Good(S), Numbered(S), Follows(S), NEW D \in SUBSET Path,
         \A q \in D : q \in Proper /\ Exists(S, q),
         NEW T, T.map = Remove(S, D).map,
         \A p \in Path : Exists(T, p) => T.map[p].cversion >= 0 /\ (p \in Proper => Exists(T, Parent[p]))
  PROVE  Numbered(T) /\ Follows(T)
<1>3. ASSUME NEW p \in Path, Exists(T, p)
      PROVE  /\ T.map[p].czxid = S.map[p].czxid
             /\ T.map[p].cversion >= S.map[p].cversion
             /\ T.map[p].cversion \in Int /\ S.map[p].cversion \in Int
             /\ Exists(S, p) /\ p \notin D
  BY <1>3, RemoveCounts DEF Numbered
<1>4. Counted(T)
  BY RemoveCounts DEF Numbered
<1>5. ASSUME NEW p \in Prefix, NEW i \in Cversion, Exists(T, Suffixed[p][i])
      PROVE  i < T.map[Parent[p]].cversion
  <2>1. /\ Suffixed[p][i] \in Proper /\ Suffixed[p][i] \in Path
        /\ Parent[Suffixed[p][i]] = Parent[p] /\ Parent[p] \in Path /\ i \in Int
    BY SuffixedType
  <2>2. Exists(S, Suffixed[p][i]) /\ Exists(T, Parent[p])
    BY <1>3, <1>5, <2>1
  <2>3. i < S.map[Parent[p]].cversion
    BY <2>2 DEF Numbered
  <2>4. /\ T.map[Parent[p]].cversion >= S.map[Parent[p]].cversion
        /\ T.map[Parent[p]].cversion \in Int /\ S.map[Parent[p]].cversion \in Int
    BY <1>3, <2>1, <2>2
  <2> QED
    BY <2>1, <2>3, <2>4
<1>6. Follows(T)
  BY <1>3, SuffixedType DEF Follows
<1> QED
  BY <1>4, <1>5, <1>6 DEF Numbered

LEMMA CarriedNumbered ==
  ASSUME NamesDiffer, NEW S \in Storage, Good(S), Stamped(S), Numbered(S), Follows(S),
         NEW prim \in Loggable, NEW T, Carried(S, prim, T) \/ Forgetful(S, prim, T), Good(T),
         \A p \in Path : Exists(T, p) => T.map[p].cversion >= 0
  PROVE  Numbered(T) /\ Follows(T)
<1>1. prim \in Primitive
  BY LoggableType
<1>2. CASE /\ prim.op = "create" /\ CreateError(S, prim) = "Ok"
           /\ Like(T, Create(S, prim, prim.sid))
  <2> DEFINE U == Create(S, prim, prim.sid)
  <2>1. \A p \in Path : Exists(U, p) => U.map[p].cversion >= 0
    BY <1>2 DEF Like, Exists
  <2>2. Numbered(U) /\ Follows(U)
    BY <1>2, <2>1, CreateNumbered
  <2> QED
    BY <1>2, <2>2, SameNumbered DEF Like
<1>3. CASE /\ prim.op = "set" /\ Exists(S, prim.path) /\ prim.path \in Path /\ prim.data \in Data
           /\ Like(T, SetData(S, prim.path, prim.data))
  BY <1>3, SetDataNumbered, SameNumbered DEF Like
<1>4. CASE \E D \in SUBSET Path : Takes(S, prim, D, T)
  <2>1. PICK D \in SUBSET Path : Takes(S, prim, D, T)
    BY <1>4
  <2>2. \A p \in Proper : Exists(T, p) => Exists(T, Parent[p])
    BY DEF Good, Shaped
  <2> QED
    BY <2>1, <2>2, RemoveNumbered DEF Takes
<1> QED
  BY <1>1, <1>2, <1>3, <1>4, CarriedForms

LEMMA NewStorageNumbered == Numbered(NewStorage) /\ Follows(NewStorage)
<1>1. \A p \in Path : Exists(NewStorage, p) => p = Root /\ NewStorage.map[p] = RootNode
  BY DEF Exists, NewStorage
<1>2. \A p \in Proper : ~Exists(NewStorage, p)
  BY <1>1, PathAssumption
<1>3. \A p : ChildPaths(NewStorage, p) = {}
  BY <1>2 DEF ChildPaths
<1>4. RootNode.cversion = 0 /\ Cardinality({}) = 0
  BY FS_EmptySet DEF RootNode
<1>5. \A p \in Path : Exists(NewStorage, p) => Counts(NewStorage, p)
  BY <1>1, <1>3, <1>4 DEF Counts
<1> QED
  BY <1>2, <1>5, SuffixedType DEF Numbered, Counted, Follows

LEMMA NextNumbered ==
  ASSUME NamesDiffer, TypeOK, LogKnown, MultiInStep, LogInv, TreesGood, TreesStamped, TreesNumbered,
         TreesGood', Unwrapped', [Next]_vars
  PROVE  TreesNumbered'
<1> SUFFICES ASSUME NEW T \in Trees' PROVE Numbered(T) /\ Follows(T)
  BY DEF TreesNumbered
<1>0. Good(T) /\ \A p \in Path : Exists(T, p) => T.map[p].cversion >= 0
  BY DEF TreesGood, Unwrapped
<1>1. CASE Like(T, NewStorage)
  BY <1>1, NewStorageNumbered, SameNumbered DEF Like
<1>2. CASE \E S \in Trees : Grows(S, T)
  <2>1. PICK S \in Trees : Grows(S, T)
    BY <1>2
  <2>2. S \in Storage /\ Good(S) /\ Stamped(S) /\ Numbered(S) /\ Follows(S)
    BY TreesType DEF TreesStamped, TreesGood, TreesNumbered
  <2>3. PICK z \in Nat :
          /\ S.zxid <= z
          /\ \/ Like(T, At(S, z))
             \/ \E prim \in Loggable : Carried(At(S, z), prim, T) \/ Forgetful(At(S, z), prim, T)
    BY <2>1 DEF Grows
  <2>4. At(S, z) \in Storage /\ Good(At(S, z)) /\ Stamped(At(S, z))
        /\ Numbered(At(S, z)) /\ Follows(At(S, z))
    BY <2>2, <2>3, AtType, SameGood, StampedLater, SameNumbered
  <2> QED
    BY <1>0, <2>3, <2>4, CarriedNumbered, SameNumbered DEF Like
<1> QED
  BY <1>1, <1>2, NextGrows DEF TreesGrow

LEMMA AlwaysNumbered ==
  ASSUME NoAliases, NamesDiffer, "sync" \notin Faults
  PROVE  Spec /\ []Unwrapped => []TreesNumbered
<1>1. Init => TreesNumbered
  BY NewStorageNumbered DEF Init, TreesNumbered, Trees
<1>2. /\ TypeOK /\ LogKnown /\ MultiInStep /\ LogInv /\ TreesGood /\ TreesStamped /\ TreesNumbered
      /\ TreesGood' /\ Unwrapped' /\ [Next]_vars
      => TreesNumbered'
  BY NextNumbered
<1> QED
  BY <1>1, <1>2, AlwaysKnown, AlwaysLogInv, AlwaysGood, AlwaysStamped, PTL DEF Spec

(* While no cversion wraps around, the sequential nodes of a prefix that   *)
(* exist at one time are numbered in the order they were created in: on a  *)
(* Multi's clone and throughout a replay too.  Names must not collide: the *)
(* suffix is ten digits for a number that is not negative, so they do not  *)
(* unless a client spells one out.                                         *)
THEOREM SequenceAlwaysFollowsAge ==
  ASSUME NoAliases, NamesDiffer, "sync" \notin Faults
  PROVE  Spec /\ []Unwrapped => []SequenceFollowsAge
<1>1. TreesNumbered => SequenceFollowsAge
  BY DEF TreesNumbered, Follows, SequenceFollowsAge
<1> QED
  BY <1>1, AlwaysNumbered, PTL

-----------------------------------------------------------------------------
(* Moves.  Where the tree of a server that is up comes from, and the clone *)
(* of a Multi: from the live tree, or from the clone as it was, by one     *)
(* primitive at most.                                                      *)
Moves ==
  \/ st'.map = st.map
  \/ \E prim \in Loggable : Carried(Bump(st), prim, st')
  \/ Left
  \/ multi # NoMulti /\ st'.map = multi.staged.map

CloneMoves ==
  /\ st'.map = st.map /\ st'.zxid = st.zxid
  /\ \/ multi'.staged.map = st.map
     \/ /\ multi # NoMulti
        /\ \/ multi'.staged.map = multi.staged.map
           \/ /\ phase = "up"
              /\ \E prim \in Loggable : Carried(multi.staged, prim, multi'.staged)

LEMMA NextMoves ==
  ASSUME TypeOK, LogKnown, MultiInStep, [Next]_vars
  PROVE  (Serving => Moves) /\ (multi' # NoMulti => CloneMoves)
<1>1. st \in Storage /\ Bump(st) \in Storage /\ Bump(st).map = st.map
  BY BumpType, SameMaps DEF TypeOK, Bump, Storage
<1>2. ASSUME Quiet \/ Left \/ Wrote PROVE Moves /\ multi' = NoMulti
  <2>1. multi' = NoMulti
    BY <1>2 DEF Quiet, Left, Wrote, Refused, Done, Idle
  <2>2. Moves
    BY <1>1, <1>2 DEF Quiet, Wrote, Refused, Done, Moves, Like
  <2> QED
    BY <2>1, <2>2
<1>3. ASSUME NEW s \in conns, NEW req \in Requests, Serve(s, req)
      PROVE  Moves /\ (multi' # NoMulti => CloneMoves)
  <2>1. s \in Sid
    BY DEF TypeOK
  <2>2. CASE BeginMulti(s, req)
    <3>1. /\ st' = Touch(st, s) /\ multi'.staged = Bump(Touch(st, s)) /\ phase = "up"
      BY <2>2 DEF BeginMulti, Ready
    <3>2. Touch(st, s).map = st.map /\ Touch(st, s).zxid = st.zxid
          /\ Bump(Touch(st, s)).map = st.map
      BY <1>1, <2>1 DEF Touch, Bump, Storage
    <3> QED
      BY <3>1, <3>2 DEF Moves, CloneMoves
  <2> QED
    BY <1>2, <1>3, <2>1, <2>2, ServeSteps
<1>4. CASE StageMulti
  <2> DEFINE op == Head(multi.todo)
             S == multi.staged
  <2>1. /\ multi \in Job /\ S \in Storage /\ multi.sid \in Sid /\ multi # NoMulti
        /\ op \in Staged /\ op \in MultiOp /\ MultiError(S, op) = "Ok" /\ phase = "up"
    <3>1. multi \in Job /\ multi # NoMulti /\ phase = "up" /\ multi.todo \in Seq(Staged)
      BY <1>4 DEF TypeOK, StageMulti, Staging, LogKnown
    <3> QED
      BY <1>4, <3>1, AskedType, HeadTailProperties DEF StageMulti, Staging, Job
  <2>2. multi'.staged = Stage(S, op, multi.sid) /\ st' = st
    BY <1>4, <2>1 DEF StageMulti, Staging, Job
  <2> HIDE DEF op, S
  <2>3. \/ multi'.staged.map = S.map
        \/ \E prim \in Loggable : Carried(S, prim, multi'.staged)
    BY <2>1, <2>2, StageCarries
  <2> QED
    BY <2>1, <2>2, <2>3 DEF Moves, CloneMoves, S
<1>5. CASE CommitMulti
  <2>1. st' = multi.staged /\ multi # NoMulti /\ multi' = NoMulti
    BY <1>5 DEF CommitMulti, Staging
  <2> QED
    BY <2>1 DEF Moves
<1>6. CASE Connect \/ \E s \in Sid : CloseExpired(s)
  BY <1>2, <1>6, SessionSteps
<1>7. CASE AbortMulti \/ Sweep \/ (\E s \in Sid : Disconnect(s)) \/ UNCHANGED vars
  <2>1. st' = st /\ (multi' = multi \/ multi' = NoMulti)
    BY <1>7 DEF AbortMulti, Sweep, Disconnect, vars
  <2> QED
    BY <2>1 DEF Moves, CloneMoves
<1>8. CASE AbortProcess \/ Crash \/ ReplayRecord \/ ReplayOp \/ ReplayPanics \/ Restarted
  BY <1>8 DEF AbortProcess, Crash, LoseMemory, ReplayRecord, ReplayOp, ReplayPanics, Restarted,
              Serving, MultiInStep
<1> QED
  BY <1>3, <1>4, <1>5, <1>6, <1>7, <1>8 DEF Next

-----------------------------------------------------------------------------
(* Versions.  From S to T a node is new, made after z, or the one it was,  *)
(* its owner's, with the data it had if it was not written since.          *)
Same(m, n) ==
  /\ n.czxid = m.czxid /\ n.owner = m.owner
  /\ n.version >= m.version
  /\ n.version = m.version => n.data = m.data

Keeps(z, S, T) ==
  \A p \in Path : Exists(T, p) =>
    T.map[p].czxid > z \/ (Exists(S, p) /\ Same(S.map[p], T.map[p]))

LEMMA SameSelf == ASSUME NEW m \in Node PROVE m.version \in Nat /\ Same(m, m)
<1>1. m.version \in Nat
  BY DEF Node
<1> QED
  BY <1>1 DEF Same

LEMMA SameMapKeeps ==
  ASSUME NEW z, NEW S \in Storage, NEW T, T.map = S.map PROVE Keeps(z, S, T)
<1>1. \A p \in Path : Exists(S, p) => Same(S.map[p], S.map[p])
  BY StampType, SameSelf
<1> QED
  BY <1>1 DEF Keeps, Exists

LEMMA KeepsTrans ==
  ASSUME NEW z \in Nat, NEW S \in Storage, NEW T \in Storage, NEW U \in Storage,
         Keeps(z, S, T), Keeps(z, T, U)
  PROVE  Keeps(z, S, U)
<1> SUFFICES ASSUME NEW p \in Path, Exists(U, p), ~(U.map[p].czxid > z)
             PROVE  Exists(S, p) /\ Same(S.map[p], U.map[p])
  BY DEF Keeps
<1>1. Exists(T, p) /\ Same(T.map[p], U.map[p])
  BY DEF Keeps
<1>2. T.map[p].czxid = U.map[p].czxid
  BY <1>1 DEF Same
<1>3. Exists(S, p) /\ Same(S.map[p], T.map[p])
  BY <1>1, <1>2 DEF Keeps
<1>4. S.map[p].version \in Nat /\ T.map[p].version \in Nat /\ U.map[p].version \in Nat
  BY <1>1, <1>3, StampType, SameSelf
<1> QED
  BY <1>1, <1>3, <1>4 DEF Same

LEMMA CarriedKeeps ==
  ASSUME NEW z \in Nat, NEW S \in Storage, NEW prim \in Primitive, NEW T, Carried(S, prim, T),
         prim.op = "create" => z < S.zxid
  PROVE  Keeps(z, S, T)
<1> SUFFICES ASSUME NEW p \in Path, Exists(T, p)
             PROVE  T.map[p].czxid > z \/ (Exists(S, p) /\ Same(S.map[p], T.map[p]))
  BY DEF Keeps
<1>1. ASSUME Exists(S, p), T.map[p] = S.map[p] PROVE Same(S.map[p], T.map[p])
  BY <1>1, StampType, SameSelf
<1>2. CASE /\ prim.op = "create" /\ CreateError(S, prim) = "Ok" /\ Creates(prim)
           /\ prim.sid \in Sid /\ Like(T, Create(S, prim, prim.sid))
  <2> DEFINE made == CreatedPath(S, prim)
             up == Parent[prim.path]
             U == Create(S, prim, prim.sid)
  <2>1. /\ made \in Path /\ up \in Path /\ Exists(S, up) /\ made \in Proper
        /\ S.map[up] \in Node /\ S.zxid \in Nat
        /\ U.map[made] = NewNode(prim, prim.sid, S.zxid)
        /\ U.map[up] = WithChild(S.map[up], ChildName[made], S.zxid)
    BY <1>2, CreateMap DEF Storage
  <2>2. /\ \A q \in Path : q # made /\ q # up => U.map[q] = S.map[q]
        /\ \A q \in Path : Exists(U, q) <=> q = made \/ Exists(S, q)
    BY <1>2, CreateMap
  <2>3. T.map = U.map
    BY <1>2 DEF Like
  <2> HIDE DEF made, up, U
  <2>4. CASE p = made
    BY <1>2, <2>1, <2>3, <2>4, NewNodeType
  <2>5. CASE p = up
    <3> DEFINE m == S.map[up]
               n == WithChild(m, ChildName[made], S.zxid)
    <3>0. m \in Node /\ ChildName[made] \in Name /\ S.zxid \in Nat
      BY <2>1, PathAssumption
    <3> HIDE DEF m
    <3>1. /\ n.czxid = m.czxid /\ n.owner = m.owner /\ n.version = m.version /\ n.data = m.data
          /\ m.version \in Nat
      BY <3>0, WithChildType, SameSelf
    <3> HIDE DEF n
    <3>2. Same(m, n)
      BY <3>1 DEF Same
    <3> QED
      BY <2>1, <2>3, <2>5, <3>2 DEF m, n
  <2>6. CASE p # made /\ p # up
    BY <1>1, <2>2, <2>3, <2>6 DEF Exists
  <2> QED
    BY <2>4, <2>5, <2>6
<1>3. CASE /\ prim.op = "set" /\ Exists(S, prim.path) /\ prim.path \in Path /\ prim.data \in Data
           /\ Like(T, SetData(S, prim.path, prim.data))
  <2> DEFINE U == SetData(S, prim.path, prim.data)
  <2>1. /\ S.map[prim.path] \in Node /\ S.zxid \in Nat
        /\ U.map[prim.path] = Written(S.map[prim.path], prim.data, S.zxid)
        /\ \A q \in Path : q # prim.path => U.map[q] = S.map[q]
        /\ T.map = U.map
    BY <1>3, SetDataMap DEF Like, Storage
  <2> HIDE DEF U
  <2>2. CASE p = prim.path
    <3> DEFINE m == S.map[p]
               n == Written(m, prim.data, S.zxid)
    <3>1. m \in Node /\ n.czxid = m.czxid /\ n.owner = m.owner /\ n.version = m.version + 1
      BY <1>3, <2>1, <2>2, WrittenType
    <3>2. m.version \in Nat
      BY <3>1, SameSelf
    <3> HIDE DEF n
    <3>3. Same(m, n)
      BY <3>1, <3>2 DEF Same
    <3> QED
      BY <1>3, <2>1, <2>2, <3>3 DEF n
  <2>3. CASE p # prim.path
    BY <1>1, <2>1, <2>3 DEF Exists
  <2> QED
    BY <2>2, <2>3
<1>4. CASE \E D \in SUBSET Path : Takes(S, prim, D, T)
  <2>1. PICK D \in SUBSET Path : Takes(S, prim, D, T)
    BY <1>4
  <2> DEFINE U == Remove(S, D)
             gone == Orphans(D, p)
             m == S.map[p]
             n == WithoutChildren(m, gone, S.zxid)
  <2>2. T.map = U.map /\ S.zxid \in Nat /\ Exists(U, p)
    BY <2>1 DEF Takes, Exists, Storage
  <2>3. Exists(S, p) /\ m \in Node /\ gone \in SUBSET Path /\ (U.map[p] = m \/ U.map[p] = n)
    BY <2>2, RemoveMap
  <2>4. /\ n.czxid = m.czxid /\ n.owner = m.owner /\ n.version = m.version /\ n.data = m.data
        /\ m.version \in Nat
    <3>1. m \in Node /\ m.version \in Nat
      BY <2>3, SameSelf
    <3> HIDE DEF m, gone
    <3> QED
      BY <3>1 DEF WithoutChildren, Node
  <2> HIDE DEF U, n
  <2>5. Same(m, n)
    BY <2>4 DEF Same
  <2> QED
    BY <1>1, <2>2, <2>3, <2>5
<1> QED
  BY <1>2, <1>3, <1>4, CarriedForms

(* A Multi's clone is kept so since before the Multi.                      *)
MultiKeeps == multi # NoMulti => Keeps(st.zxid, st, multi.staged)

LEMMA CloneType ==
  /\ TypeOK => st \in Storage /\ st.zxid \in Nat /\ (multi # NoMulti => multi.staged \in Storage)
  /\ TypeOK' => st' \in Storage /\ (multi' # NoMulti => multi'.staged \in Storage)
BY DEF TypeOK, Job, Storage

LEMMA BumpedType ==
  ASSUME NEW S \in Storage
  PROVE  Bump(S) \in Storage /\ Bump(S).map = S.map /\ S.zxid < Bump(S).zxid
<1>1. Bump(S) \in Storage /\ Bump(S).map = S.map /\ Bump(S).zxid = S.zxid + 1 /\ S.zxid \in Nat
  BY BumpType DEF Bump, Storage
<1> QED
  BY <1>1

LEMMA NextKeeps ==
  ASSUME TypeOK, TypeOK', LogKnown, MultiInStep, MultiKeeps, [Next]_vars
  PROVE  (Serving => Keeps(st.zxid, st, st')) /\ MultiKeeps'
<1>1. st \in Storage /\ st.zxid \in Nat /\ st' \in Storage
  BY CloneType
<1>2. Loggable \subseteq Primitive /\ \A s \in Sid : LogClose(s) \in Primitive
  BY LoggableType DEF LogClose, SessionPrim, Primitive
<1>3. ASSUME NEW T, T.map = Bump(st).map, NEW U, Keeps(st.zxid, T, U)
      PROVE  Keeps(st.zxid, st, U)
  BY <1>1, <1>3, BumpedType DEF Keeps, Exists
<1>4. ASSUME Serving PROVE Keeps(st.zxid, st, st')
  <2>1. CASE st'.map = st.map
    BY <1>1, <2>1, SameMapKeeps
  <2>2. CASE \E prim \in Loggable : Carried(Bump(st), prim, st')
    <3>1. Keeps(st.zxid, Bump(st), st')
      BY <1>1, <1>2, <2>2, BumpedType, CarriedKeeps
    <3> QED
      BY <1>3, <3>1
  <2>3. CASE Left
    <3>1. \A s \in Sid : LogClose(s).op # "create"
      BY DEF LogClose
    <3> QED
      BY <1>1, <1>2, <2>3, <3>1, CarriedKeeps DEF Left
  <2>4. CASE multi # NoMulti /\ st'.map = multi.staged.map
    BY <2>4 DEF MultiKeeps, Keeps, Exists
  <2> QED
    BY <1>4, <2>1, <2>2, <2>3, <2>4, NextMoves DEF Moves
<1>5. ASSUME multi' # NoMulti PROVE Keeps(st'.zxid, st', multi'.staged)
  <2> DEFINE T == multi'.staged
  <2>1. T \in Storage /\ CloneMoves
    BY <1>5, CloneType, NextMoves
  <2>2. st'.zxid = st.zxid /\ st'.map = st.map
    BY <2>1 DEF CloneMoves
  <2> HIDE DEF T
  <2>3. SUFFICES Keeps(st.zxid, st, T)
    BY <2>2 DEF Keeps, Exists, T
  <2>4. CASE T.map = st.map
    BY <1>1, <2>4, SameMapKeeps
  <2>5. ASSUME multi # NoMulti
        PROVE  multi.staged \in Storage /\ Keeps(st.zxid, st, multi.staged)
    BY <2>5, CloneType DEF MultiKeeps
  <2>6. CASE multi # NoMulti /\ T.map = multi.staged.map
    BY <2>5, <2>6 DEF Keeps, Exists
  <2>7. CASE /\ multi # NoMulti /\ phase = "up"
             /\ \E prim \in Loggable : Carried(multi.staged, prim, T)
    <3>1. st.zxid < multi.staged.zxid
      BY <1>1, <2>7 DEF MultiInStep
    <3>2. Keeps(st.zxid, multi.staged, T)
      BY <1>1, <1>2, <2>5, <2>7, <3>1, CarriedKeeps
    <3> QED
      BY <1>1, <2>1, <2>5, <2>7, <3>2, KeepsTrans
  <2> QED
    BY <2>1, <2>4, <2>6, <2>7 DEF CloneMoves, T
<1> QED
  BY <1>4, <1>5 DEF MultiKeeps

LEMMA AlwaysKeeps == Spec => []MultiKeeps
<1>1. Init => MultiKeeps
  BY DEF Init, MultiKeeps
<1>2. TypeOK /\ TypeOK' /\ LogKnown /\ MultiInStep /\ MultiKeeps /\ [Next]_vars => MultiKeeps'
  BY NextKeeps
<1> QED
  BY <1>1, <1>2, AlwaysKnown, PTL DEF Spec

IdentifiesData ==
  \A p \in Path :
    Exists(st, p) /\ Exists(st', p) /\ Serving
      /\ st.map[p].czxid = st'.map[p].czxid /\ st.map[p].version = st'.map[p].version =>
        st.map[p].data = st'.map[p].data /\ st.map[p].owner = st'.map[p].owner

LEMMA KeepsIdentifies ==
  ASSUME st \in Storage, Stamped(st), Serving => Keeps(st.zxid, st, st')
  PROVE  IdentifiesData
<1> SUFFICES ASSUME NEW p \in Path, Exists(st, p), Exists(st', p), Serving,
                    st.map[p].czxid = st'.map[p].czxid, st.map[p].version = st'.map[p].version
             PROVE  st.map[p].data = st'.map[p].data /\ st.map[p].owner = st'.map[p].owner
  BY DEF IdentifiesData
<1>1. ~(st'.map[p].czxid > st.zxid)
  <2>1. st.map[p].czxid <= st.map[p].mzxid /\ st.map[p].mzxid <= st.zxid
    BY DEF Stamped
  <2> QED
    BY <2>1, StampType
<1>2. Same(st.map[p], st'.map[p])
  BY <1>1 DEF Keeps
<1> QED
  BY <1>2 DEF Same

(* A version identifies the data of a node while it lives: what a client   *)
(* read under a version is what a conditional Set or Check of that version *)
(* finds, through every request, every Multi and every expiry.  That a node*)
(* made again under the same name can be told by its czxid is where the    *)
(* stamps come in, and with them the order of the log.                     *)
THEOREM VersionAlwaysIdentifiesData ==
  ASSUME "sync" \notin Faults
  PROVE  Spec => VersionIdentifiesData
<1>1. TypeOK /\ TypeOK' /\ LogKnown /\ MultiInStep /\ MultiKeeps /\ TreesStamped /\ [Next]_vars
      => IdentifiesData
  BY NextKeeps, KeepsIdentifies, TreesType DEF TreesStamped
<1>2. Spec => [][IdentifiesData]_vars
  BY <1>1, AlwaysKnown, AlwaysKeeps, AlwaysStamped, PTL DEF Spec
<1> QED
  BY <1>2 DEF IdentifiesData, VersionIdentifiesData

-----------------------------------------------------------------------------
(* Marks.  From S to T a node is new, made after z, or the one it was, and *)
(* where its children are not the ones it had it was stamped after z and   *)
(* its count has gone up.                                                  *)
Marked(z, m, n) ==
  /\ n.czxid = m.czxid /\ n.cversion >= m.cversion
  /\ n.pzxid = m.pzxid \/ n.pzxid > z
  /\ n.children = m.children \/ (n.cversion > m.cversion /\ n.pzxid > z)

Marks(z, S, T) ==
  \A p \in Path : Exists(T, p) =>
    T.map[p].czxid > z \/ (Exists(S, p) /\ Marked(z, S.map[p], T.map[p]))

LEMMA MarkedSelf ==
  ASSUME NEW m \in Node PROVE m.cversion \in Int /\ m.pzxid \in Nat /\ \A z : Marked(z, m, m)
<1>1. m.cversion \in Int /\ m.pzxid \in Nat
  BY CversionType DEF Node
<1> QED
  BY <1>1 DEF Marked

LEMMA SameMapMarks ==
  ASSUME NEW z, NEW S \in Storage, NEW T, T.map = S.map PROVE Marks(z, S, T)
<1>1. \A p \in Path : Exists(S, p) => Marked(z, S.map[p], S.map[p])
  BY StampType, MarkedSelf
<1> QED
  BY <1>1 DEF Marks, Exists

LEMMA MarksTrans ==
  ASSUME NEW z \in Nat, NEW S \in Storage, NEW T \in Storage, NEW U \in Storage,
         Marks(z, S, T), Marks(z, T, U)
  PROVE  Marks(z, S, U)
<1> SUFFICES ASSUME NEW p \in Path, Exists(U, p), ~(U.map[p].czxid > z)
             PROVE  Exists(S, p) /\ Marked(z, S.map[p], U.map[p])
  BY DEF Marks
<1>1. Exists(T, p) /\ Marked(z, T.map[p], U.map[p])
  BY DEF Marks
<1>2. T.map[p].czxid = U.map[p].czxid
  BY <1>1 DEF Marked
<1>3. Exists(S, p) /\ Marked(z, S.map[p], T.map[p])
  BY <1>1, <1>2 DEF Marks
<1>4. /\ S.map[p].cversion \in Int /\ T.map[p].cversion \in Int /\ U.map[p].cversion \in Int
      /\ S.map[p].pzxid \in Nat /\ T.map[p].pzxid \in Nat /\ U.map[p].pzxid \in Nat
  BY <1>1, <1>3, StampType, MarkedSelf
<1> QED
  BY <1>1, <1>3, <1>4 DEF Marked

LEMMA CreateMarks ==
  ASSUME NEW z \in Nat, NEW S \in Storage, Good(S), Counted(S), NEW op, NEW s \in Sid, Creates(op),
         CreateError(S, op) = "Ok", z < S.zxid,
         \A p \in Path : LET T == Create(S, op, s)
                         IN  Exists(T, p) => T.map[p].cversion >= 0
  PROVE  Marks(z, S, Create(S, op, s))
<1> DEFINE made == CreatedPath(S, op)
           up == Parent[op.path]
           T == Create(S, op, s)
<1>1. /\ made \in Path /\ up \in Path /\ Exists(S, up) /\ made \in Proper
      /\ S.map[up] \in Node /\ S.zxid \in Nat
      /\ T.map[made] = NewNode(op, s, S.zxid)
      /\ T.map[up] = WithChild(S.map[up], ChildName[made], S.zxid)
  BY CreateMap DEF Storage
<1>2. /\ \A q \in Path : q # made /\ q # up => T.map[q] = S.map[q]
      /\ \A q \in Path : Exists(T, q) <=> q = made \/ Exists(S, q)
  BY CreateMap
<1>3. T.map[up].cversion = S.map[up].cversion + 1
  BY CreateCounts
<1> HIDE DEF made, up, T
<1> SUFFICES ASSUME NEW p \in Path, Exists(T, p)
             PROVE  T.map[p].czxid > z \/ (Exists(S, p) /\ Marked(z, S.map[p], T.map[p]))
  BY DEF Marks, T
<1>4. CASE p = made
  BY <1>1, <1>4, NewNodeType
<1>5. CASE p = up
  <2>1. T.map[up].czxid = S.map[up].czxid /\ T.map[up].pzxid = S.zxid
    BY <1>1, WithChildType, PathAssumption
  <2>2. S.map[up].cversion \in Int
    BY <1>1, MarkedSelf
  <2> QED
    BY <1>1, <1>3, <1>5, <2>1, <2>2 DEF Marked
<1>6. CASE p # made /\ p # up
  BY <1>2, <1>6, StampType, MarkedSelf
<1> QED
  BY <1>4, <1>5, <1>6

LEMMA SetDataMarks ==
  ASSUME NEW z \in Nat, NEW S \in Storage, Counted(S), NEW p \in Path, NEW d \in Data, Exists(S, p)
  PROVE  Marks(z, S, SetData(S, p, d)) /\ Counted(SetData(S, p, d))
<1> DEFINE T == SetData(S, p, d)
<1>1. /\ S.map[p] \in Node /\ S.zxid \in Nat /\ T.map[p] = Written(S.map[p], d, S.zxid)
      /\ \A q \in Path : q # p => T.map[q] = S.map[q]
      /\ \A q \in Path : Exists(T, q) <=> Exists(S, q)
  BY SetDataMap DEF Storage
<1> HIDE DEF T
<1>2. /\ T.map[p].cversion = S.map[p].cversion /\ T.map[p].czxid = S.map[p].czxid
      /\ T.map[p].pzxid = S.map[p].pzxid /\ T.map[p].children = S.map[p].children
  BY <1>1, WrittenType
<1>3. \A q : ChildPaths(T, q) = ChildPaths(S, q)
  BY <1>1, PathAssumption DEF ChildPaths
<1>4. \A q \in Path : Exists(T, q) => T.map[q].cversion = S.map[q].cversion
  BY <1>1, <1>2
<1>5. Counted(T)
  BY <1>1, <1>3, <1>4 DEF Counted, Counts
<1>6. ASSUME NEW q \in Path, Exists(T, q) PROVE Exists(S, q) /\ Marked(z, S.map[q], T.map[q])
  <2>1. Exists(S, q) /\ S.map[q].cversion \in Int
    BY <1>1, <1>6, StampType, MarkedSelf
  <2>2. CASE q = p
    BY <1>2, <2>1, <2>2 DEF Marked
  <2>3. CASE q # p
    BY <1>1, <2>1, <2>3 DEF Marked
  <2> QED
    BY <2>1, <2>2, <2>3
<1> QED
  BY <1>5, <1>6 DEF Marks, T

LEMMA RemoveMarks ==
  ASSUME NEW z \in Nat, NEW S \in Storage, Counted(S), NEW D \in SUBSET Path, z < S.zxid,
         \A q \in D : q \in Proper /\ Exists(S, q),
         NEW T, T.map = Remove(S, D).map,
         \A p \in Path : Exists(T, p) => T.map[p].cversion >= 0
  PROVE  Marks(z, S, T)
<1> SUFFICES ASSUME NEW p \in Path, Exists(T, p)
             PROVE  Exists(S, p) /\ Marked(z, S.map[p], T.map[p])
  BY DEF Marks
<1>1. /\ Exists(S, p) /\ T.map[p].czxid = S.map[p].czxid
      /\ T.map[p].cversion \in Int /\ S.map[p].cversion \in Int
      /\ T.map[p].cversion >= S.map[p].cversion
      /\ Orphans(D, p) # {} => T.map[p].cversion > S.map[p].cversion
  BY RemoveCounts
<1> DEFINE U == Remove(S, D)
           gone == Orphans(D, p)
<1>2. Exists(U, p) /\ T.map[p] = U.map[p]
  BY DEF Exists
<1>3. /\ S.map[p] \in Node
      /\ U.map[p] = IF gone = {} THEN S.map[p] ELSE WithoutChildren(S.map[p], gone, S.zxid)
  BY <1>2, RemoveMap
<1> HIDE DEF U
<1>4. CASE gone = {}
  BY <1>1, <1>2, <1>3, <1>4, MarkedSelf
<1>5. CASE gone # {}
  <2> HIDE DEF gone
  <2>1. WithoutChildren(S.map[p], gone, S.zxid).pzxid = S.zxid
    BY <1>3 DEF WithoutChildren, Node
  <2>2. T.map[p].pzxid = S.zxid
    BY <1>2, <1>3, <1>5, <2>1
  <2> QED
    BY <1>1, <1>5, <2>2 DEF Marked, gone
<1> QED
  BY <1>4, <1>5

LEMMA CarriedMarks ==
  ASSUME NEW z \in Nat, NEW S \in Storage, Good(S), Counted(S), NEW prim \in Primitive, NEW T,
         Carried(S, prim, T) \/ Forgetful(S, prim, T),
         \A p \in Path : Exists(T, p) => T.map[p].cversion >= 0
  PROVE  Counted(T) /\ (z < S.zxid => Marks(z, S, T))
<1>1. CASE /\ prim.op = "create" /\ CreateError(S, prim) = "Ok" /\ Creates(prim)
           /\ prim.sid \in Sid /\ Like(T, Create(S, prim, prim.sid))
  <2> DEFINE U == Create(S, prim, prim.sid)
  <2>1. T.map = U.map /\ \A p \in Path : Exists(U, p) => U.map[p].cversion >= 0
    BY <1>1 DEF Like, Exists
  <2>2. Counted(U) /\ (z < S.zxid => Marks(z, S, U))
    BY <1>1, <2>1, CreateCounts, CreateMarks
  <2> HIDE DEF U
  <2>3. Counted(T)
    BY <2>1, <2>2, SameCounted
  <2>4. Marks(z, S, U) => Marks(z, S, T)
    BY <2>1 DEF Marks, Exists
  <2> QED
    BY <2>2, <2>3, <2>4
<1>2. CASE /\ prim.op = "set" /\ Exists(S, prim.path) /\ prim.path \in Path /\ prim.data \in Data
           /\ Like(T, SetData(S, prim.path, prim.data))
  <2> DEFINE U == SetData(S, prim.path, prim.data)
  <2>1. T.map = U.map
    BY <1>2 DEF Like
  <2>2. Counted(U) /\ Marks(z, S, U)
    BY <1>2, SetDataMarks
  <2> HIDE DEF U
  <2>3. Counted(T)
    BY <2>1, <2>2, SameCounted
  <2>4. Marks(z, S, U) => Marks(z, S, T)
    BY <2>1 DEF Marks, Exists
  <2> QED
    BY <2>2, <2>3, <2>4
<1>3. CASE \E D \in SUBSET Path : Takes(S, prim, D, T)
  <2>1. PICK D \in SUBSET Path : Takes(S, prim, D, T)
    BY <1>3
  <2> QED
    BY <2>1, RemoveCounts, RemoveMarks DEF Takes
<1> QED
  BY <1>1, <1>2, <1>3, CarriedForms

LEMMA NewStorageCounted == Counted(NewStorage)
BY NewStorageNumbered DEF Numbered

LEMMA NextCounted ==
  ASSUME TypeOK, LogKnown, MultiInStep, TreesGood, TreesCounted, Unwrapped', [Next]_vars
  PROVE  TreesCounted'
<1> SUFFICES ASSUME NEW T \in Trees' PROVE Counted(T)
  BY DEF TreesCounted
<1>0. \A p \in Path : Exists(T, p) => T.map[p].cversion >= 0
  BY DEF Unwrapped
<1>1. CASE Like(T, NewStorage)
  BY <1>1, NewStorageCounted, SameCounted DEF Like
<1>2. CASE \E S \in Trees : Grows(S, T)
  <2>1. PICK S \in Trees : Grows(S, T)
    BY <1>2
  <2>2. S \in Storage /\ Good(S) /\ Counted(S)
    BY TreesType DEF TreesGood, TreesCounted
  <2>3. PICK z \in Nat :
             \/ Like(T, At(S, z))
             \/ \E prim \in Loggable : Carried(At(S, z), prim, T) \/ Forgetful(At(S, z), prim, T)
    BY <2>1 DEF Grows
  <2>4. At(S, z) \in Storage /\ Good(At(S, z)) /\ Counted(At(S, z))
    BY <2>2, AtType, SameGood, SameCounted
  <2> QED
    BY <1>0, <2>3, <2>4, LoggableType, CarriedMarks, SameCounted DEF Like
<1> QED
  BY <1>1, <1>2, NextGrows DEF TreesGrow

LEMMA AlwaysCounted ==
  ASSUME NoAliases PROVE Spec /\ []Unwrapped => []TreesCounted
<1>1. Init => TreesCounted
  BY NewStorageCounted DEF Init, TreesCounted, Trees
<1>2. /\ TypeOK /\ LogKnown /\ MultiInStep /\ TreesGood /\ TreesCounted /\ Unwrapped'
      /\ [Next]_vars
      => TreesCounted'
  BY NextCounted
<1> QED
  BY <1>1, <1>2, AlwaysKnown, AlwaysGood, PTL DEF Spec

(* A session that is closed with an empty index takes nothing with it.     *)
EmptyHanded == Alone("close") # {} => \A s \in Sid : st.eph[s] = {}

LEMMA LeftBare == ASSUME TypeOK, EmptyHanded, Left PROVE st'.map = st.map
<1>1. PICK s \in Sid : Carried(st, LogClose(s), st')
  BY DEF Left
<1>2. LogClose(s).op = "close" /\ LogClose(s).sid = s
  BY DEF LogClose
<1>3. PICK D \in Reapable(st, st.eph[s]) : Like(st', Remove(DropSession(st, s), D))
  BY <1>1, <1>2 DEF Carried
<1>4. D = {}
  BY DEF EmptyHanded, Left, Reapable
<1>5. st \in Storage /\ DropSession(st, s) \in Storage /\ DropSession(st, s).map = st.map
  BY DropSessionType, SameMaps DEF TypeOK
<1> QED
  BY <1>3, <1>4, <1>5, RemoveNone DEF Like

LEMMA AlwaysEmptyHanded ==
  ASSUME Alone("close") # {} => OwnedPaths = {} PROVE Spec => []EmptyHanded
<1>1. CASE Alone("close") = {}
  <2>1. EmptyHanded
    BY <1>1 DEF EmptyHanded
  <2> QED
    BY <2>1, PTL
<1>2. CASE OwnedPaths = {}
  <2>1. TreesListed => EmptyHanded
    BY <1>2 DEF TreesListed, Trees, Listed, EmptyHanded
  <2>2. Spec => []TreesListed
    BY <1>2, AlwaysListed
  <2> QED
    BY <2>1, <2>2, PTL
<1> QED
  BY <1>1, <1>2

MultiMarks == multi # NoMulti => Marks(st.zxid, st, multi.staged)

LEMMA NextMarks ==
  ASSUME TypeOK, TypeOK', LogKnown, MultiInStep, TreesGood, TreesCounted, Unwrapped', EmptyHanded,
         MultiMarks, [Next]_vars
  PROVE  (Serving => Marks(st.zxid, st, st')) /\ MultiMarks'
<1>1. st \in Storage /\ st.zxid \in Nat /\ st' \in Storage
  BY CloneType
<1>2. Good(st) /\ Counted(st) /\ \A p \in Path : Exists(st', p) => st'.map[p].cversion >= 0
  BY DEF TreesGood, TreesCounted, Unwrapped, Trees
<1>3. /\ Bump(st) \in Storage /\ Bump(st).map = st.map /\ st.zxid < Bump(st).zxid
      /\ Good(Bump(st)) /\ Counted(Bump(st))
  <2>1. Bump(st).eph = st.eph
    BY <1>1 DEF Bump, Storage
  <2> QED
    BY <1>1, <1>2, <2>1, BumpedType, SameGood, SameCounted
<1>4. ASSUME Serving PROVE Marks(st.zxid, st, st')
  <2>1. CASE st'.map = st.map
    BY <1>1, <2>1, SameMapMarks
  <2>2. CASE \E prim \in Loggable : Carried(Bump(st), prim, st')
    <3>1. Marks(st.zxid, Bump(st), st')
      BY <1>1, <1>2, <1>3, <2>2, LoggableType, CarriedMarks
    <3> QED
      BY <1>3, <3>1 DEF Marks, Exists
  <2>3. CASE multi # NoMulti /\ st'.map = multi.staged.map
    BY <2>3 DEF MultiMarks, Marks, Exists
  <2> QED
    BY <1>4, <2>1, <2>2, <2>3, LeftBare, NextMoves DEF Moves
<1>5. ASSUME multi' # NoMulti PROVE Marks(st'.zxid, st', multi'.staged)
  <2> DEFINE T == multi'.staged
  <2>1. T \in Storage /\ CloneMoves
    BY <1>5, CloneType, NextMoves
  <2>2. st'.zxid = st.zxid /\ st'.map = st.map
    BY <2>1 DEF CloneMoves
  <2>3. \A p \in Path : Exists(T, p) => T.map[p].cversion >= 0
    BY <1>5 DEF Unwrapped, Trees
  <2> HIDE DEF T
  <2>4. SUFFICES Marks(st.zxid, st, T)
    BY <2>2 DEF Marks, Exists, T
  <2>5. CASE T.map = st.map
    BY <1>1, <2>5, SameMapMarks
  <2>6. ASSUME multi # NoMulti
        PROVE  /\ multi.staged \in Storage /\ Marks(st.zxid, st, multi.staged)
               /\ Good(multi.staged) /\ Counted(multi.staged)
    BY <2>6, CloneType DEF MultiMarks, TreesGood, TreesCounted, Trees
  <2>7. CASE multi # NoMulti /\ T.map = multi.staged.map
    BY <2>6, <2>7 DEF Marks, Exists
  <2>8. CASE /\ multi # NoMulti /\ phase = "up"
             /\ \E prim \in Loggable : Carried(multi.staged, prim, T)
    <3>1. st.zxid < multi.staged.zxid
      BY <1>1, <2>8 DEF MultiInStep
    <3>2. Marks(st.zxid, multi.staged, T)
      BY <1>1, <2>3, <2>6, <2>8, <3>1, LoggableType, CarriedMarks
    <3> QED
      BY <1>1, <2>1, <2>6, <2>8, <3>2, MarksTrans
  <2> QED
    BY <2>1, <2>5, <2>7, <2>8 DEF CloneMoves, T
<1> QED
  BY <1>4, <1>5 DEF MultiMarks

LEMMA AlwaysMarks ==
  ASSUME NoAliases, Alone("close") # {} => OwnedPaths = {}
  PROVE  Spec /\ []Unwrapped => []MultiMarks
<1>1. Init => MultiMarks
  BY DEF Init, MultiMarks
<1>2. /\ TypeOK /\ TypeOK' /\ LogKnown /\ MultiInStep /\ TreesGood /\ TreesCounted /\ Unwrapped'
      /\ EmptyHanded /\ MultiMarks /\ [Next]_vars
      => MultiMarks'
  BY NextMarks
<1> QED
  BY <1>1, <1>2, AlwaysKnown, AlwaysGood, AlwaysCounted, AlwaysEmptyHanded, PTL DEF Spec

ChangeIsStamped ==
  Serving => \A p \in Path :
    Exists(st, p) /\ Exists(st', p) /\ st.map[p].children # st'.map[p].children =>
      \/ st'.map[p].czxid > st.map[p].czxid
      \/ st'.map[p].pzxid > st.map[p].pzxid /\ st'.map[p].cversion # st.map[p].cversion

LEMMA MarksStamp ==
  ASSUME st \in Storage, st' \in Storage, Stamped(st), Serving => Marks(st.zxid, st, st')
  PROVE  ChangeIsStamped
<1> SUFFICES ASSUME Serving, NEW p \in Path, Exists(st, p), Exists(st', p),
                    st.map[p].children # st'.map[p].children
             PROVE  \/ st'.map[p].czxid > st.map[p].czxid
                    \/ st'.map[p].pzxid > st.map[p].pzxid /\ st'.map[p].cversion # st.map[p].cversion
  BY DEF ChangeIsStamped
<1>1. /\ st.map[p].czxid <= st.zxid /\ st.map[p].pzxid <= st.zxid
      /\ st.zxid \in Nat /\ st.map[p].czxid \in Nat /\ st.map[p].pzxid \in Nat
  <2>1. st.map[p].czxid <= st.map[p].mzxid /\ st.map[p].mzxid <= st.zxid
        /\ st.map[p].pzxid <= st.zxid
    BY DEF Stamped
  <2> QED
    BY <2>1, StampType
<1>2. /\ st'.map[p].czxid \in Nat /\ st'.map[p].pzxid \in Nat
      /\ st.map[p].cversion \in Int /\ st'.map[p].cversion \in Int
  BY StampType, MarkedSelf
<1>3. CASE st'.map[p].czxid > st.zxid
  BY <1>1, <1>2, <1>3
<1>4. CASE Marked(st.zxid, st.map[p], st'.map[p])
  BY <1>1, <1>2, <1>4 DEF Marked
<1> QED
  BY <1>3, <1>4 DEF Marks

(* Whenever the children of a node change its pzxid and its cversion go up,*)
(* whatever changed them, single operation, Multi or expiry: as long as no *)
(* count wraps around, and Close, which takes no zxid, finds nothing to    *)
(* delete.                                                                 *)
THEOREM ChildChangeAlwaysStamped ==
  ASSUME NoAliases, "sync" \notin Faults, Alone("close") # {} => OwnedPaths = {}
  PROVE  Spec /\ []Unwrapped => ChildChangeIsStamped
<1>1. /\ TypeOK /\ TypeOK' /\ LogKnown /\ MultiInStep /\ TreesGood /\ TreesCounted /\ Unwrapped'
      /\ EmptyHanded /\ MultiMarks /\ TreesStamped /\ [Next]_vars
      => ChangeIsStamped
  BY NextMarks, MarksStamp, CloneType, TreesType DEF TreesStamped
<1>2. Spec /\ []Unwrapped => [][ChangeIsStamped]_vars
  BY <1>1, AlwaysKnown, AlwaysGood, AlwaysCounted, AlwaysEmptyHanded, AlwaysMarks, AlwaysStamped, PTL
     DEF Spec
<1> QED
  BY <1>2 DEF ChangeIsStamped, ChildChangeIsStamped
=============================================================================
