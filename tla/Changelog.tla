------------------------------ MODULE Changelog ------------------------------
(***************************************************************************)
(* The changelog: segment files named after their first index, the active  *)
(* segment's writer and its buffer, the steps of a flush, rotation,        *)
(* opening and replay, and what a crash leaves of a write.                 *)
(*                                                                         *)
(* A file is a sequence of cells.  A cell is a record, or the piece of one *)
(* that a cut-off write left: decode then takes the bytes that follow for  *)
(* the rest of it, and lack says how many cells it takes for enough bytes  *)
(* to be there, so that the checksum is found wrong.  Sizes are counted in *)
(* cells.  The caller is KeeperServer, which appends a record under the    *)
(* next zxid and flushes, one request at a time, under the log's mutex.    *)
(***************************************************************************)
EXTENDS Integers, Sequences, FiniteSets

CONSTANTS MaxSegment,   \* max_segment_bytes
          Faults,       \* what can go wrong: subset of Fault
          MaxIndex,     \* bound on the records appended
          MaxLack       \* bound on lack

Fault == {"write",    \* a write fails and nothing of it reaches the file
          "partial",  \* a write fails and part of it has reached the file
          "sync",     \* the data is written and syncing it fails
          "rotate",   \* the next segment cannot be created
          "power",    \* the machine stops: what was not synced may be lost
          "tear"}     \* a crash can leave a piece of a record

ASSUME LogAssumption ==
  /\ MaxSegment \in Nat /\ MaxIndex \in Nat /\ MaxLack \in Nat /\ Faults \subseteq Fault

Index == 1..MaxIndex
Cell == [index : Index, lack : 0..MaxLack]

VARIABLES
  files,      \* the segments, by first index: the directory, and WalStore's map of it
  synced,     \* how many cells of the active segment a power loss leaves alone
  active,     \* first index of the segment the writer appends to
  buf,        \* the writer's buffer
  written,    \* bytes_written, of the active segment and the buffer
  lastIndex,  \* WalStore's last_index
  zxid,       \* the server's last_zxid
  stage,      \* what the server is doing: see Stage
  acked,      \* history: the records whose append and flush were answered Ok
  applied,    \* history: the records behind what the server answers from
  sound       \* history: no record was ever written behind a piece, or twice

vars == <<files, synced, active, buf, written, lastIndex, zxid, stage, acked, applied, sound>>
writer == <<active, buf, written, lastIndex>>
history == <<acked, applied, sound>>

Stage == {"down",      \* not running
          "opened",    \* the files are open, nothing is replayed yet
          "ready",     \* serving, no flush under way
          "appended", "written", "synced",   \* a flush under way
          "failed"}    \* the log could not be read: the server does not start

Put(f, k, v) == [x \in DOMAIN f \cup {k} |-> IF x = k THEN v ELSE f[x]]

-----------------------------------------------------------------------------
(* Reading.  decode yields records up to the first piece.  There it stops  *)
(* without an error while bytes are missing, and with one when they are    *)
(* not.                                                                    *)

Whole(recs) == [j \in DOMAIN recs |-> [index |-> recs[j], lack |-> 0]]

ReadTo(f) == {j \in DOMAIN f : \A i \in 1..j : f[i].lack = 0}

Readable(f) == {f[j].index : j \in ReadTo(f)}

Corrupt(f) ==
  \E j \in DOMAIN f :
    /\ f[j].lack > 0 /\ \A i \in 1..(j - 1) : f[i].lack = 0
    /\ j + f[j].lack <= Len(f)

Highest(S) == CHOOSE k \in S : \A j \in S : j <= k

(* The record a reader of the file takes last. *)
LastRead(f) == IF ReadTo(f) = {} THEN 0 ELSE f[Highest(ReadTo(f))].index

Lack == IF "tear" \in Faults THEN 1..MaxLack ELSE {}

Piece(c, l) == [index |-> c.index, lack |-> l]

(* What may be left of a file of which the first n cells are safe. *)
Remnants(f, n) ==
  {SubSeq(f, 1, k) : k \in n..Len(f)} \cup
  {Append(SubSeq(f, 1, k), Piece(f[k + 1], l)) : k \in n..(Len(f) - 1), l \in Lack}

Init ==
  /\ files = [k \in {} |-> <<>>] /\ synced = 0
  /\ active = 0 /\ buf = <<>> /\ written = 0 /\ lastIndex = 0
  /\ zxid = 0 /\ stage = "down"
  /\ acked = {} /\ applied = {} /\ sound = TRUE

-----------------------------------------------------------------------------
(* A request: append the record under the next zxid, then flush. *)

(* Faulty: the record has the index of the last one. *)
AppendUnnumbered ==
  /\ stage = "ready" /\ zxid < MaxIndex
  /\ zxid' = zxid + 1
  /\ buf' = Append(buf, zxid)
  /\ written' = written + 1
  /\ lastIndex' = zxid
  /\ stage' = "appended"
  /\ UNCHANGED <<files, synced, active, history>>

AppendRecord ==
  /\ stage = "ready" /\ zxid < MaxIndex
  /\ zxid' = zxid + 1
  /\ buf' = Append(buf, zxid + 1)
  /\ written' = written + 1
  /\ lastIndex' = zxid + 1
  /\ stage' = "appended"
  /\ UNCHANGED <<files, synced, active, history>>

(* The records of a file ascend, and none is behind a piece. *)
InStep(f) == \A i, j \in DOMAIN f : i < j => f[i].lack = 0 /\ f[i].index < f[j].index

Leaves(f) ==
  /\ files' = [files EXCEPT ![active] = f]
  /\ sound' = (sound /\ InStep(f))

WithBuffer == files[active] \o Whole(buf)

PartWritten == \E f \in Remnants(WithBuffer, Len(files[active])) : Leaves(f)

WriteAll ==
  /\ stage = "appended"
  /\ Leaves(WithBuffer)
  /\ stage' = "written"
  /\ UNCHANGED <<synced, writer, zxid, acked, applied>>

(* A flush that fails is answered with an error, and the request is not    *)
(* carried out; the creation or the end of a session, which does not look  *)
(* at the answer, is.                                                      *)
Unacknowledged ==
  /\ stage' = "ready"
  /\ applied' \in {applied, applied \cup {zxid}}
  /\ UNCHANGED acked

(* The buffer stays as it is. *)
WriteFails ==
  /\ stage = "appended" /\ Faults \cap {"write", "partial"} # {}
  /\ \/ UNCHANGED <<files, sound>>
     \/ "partial" \in Faults /\ PartWritten
  /\ Unacknowledged
  /\ UNCHANGED <<synced, writer, zxid>>

(* Faulty: nothing is synced. *)
SyncNothing ==
  /\ stage = "written"
  /\ buf' = <<>>
  /\ stage' = "synced"
  /\ UNCHANGED <<files, synced, active, written, lastIndex, zxid, history>>

SyncData ==
  /\ stage = "written"
  /\ synced' = Len(files[active])
  /\ buf' = <<>>
  /\ stage' = "synced"
  /\ UNCHANGED <<files, active, written, lastIndex, zxid, history>>

SyncFails ==
  /\ stage = "written" /\ "sync" \in Faults
  /\ Unacknowledged
  /\ UNCHANGED <<files, synced, writer, zxid, sound>>

Full == written >= MaxSegment

(* The flush has worked: the request is carried out and answered. *)
Acknowledge ==
  /\ stage' = "ready"
  /\ acked' = acked \cup {zxid}
  /\ applied' = applied \cup {zxid}
  /\ UNCHANGED sound

FlushDone ==
  /\ stage = "synced" /\ ~Full
  /\ Acknowledge
  /\ UNCHANGED <<files, synced, writer, zxid>>

(* File::create empties a file that exists. *)
Rotate ==
  /\ stage = "synced" /\ Full
  /\ files' = Put(files, lastIndex + 1, <<>>)
  /\ active' = lastIndex + 1 /\ written' = 0 /\ synced' = 0
  /\ Acknowledge
  /\ UNCHANGED <<buf, lastIndex, zxid>>

RotateFails ==
  /\ stage = "synced" /\ Full /\ "rotate" \in Faults
  /\ Unacknowledged
  /\ UNCHANGED <<files, synced, writer, zxid, sound>>

-----------------------------------------------------------------------------
(* The process dies; a write under way may have got part of the way. *)
Crash ==
  /\ stage \notin {"down", "failed"}
  /\ stage' = "down" /\ buf' = <<>>
  /\ \/ UNCHANGED <<files, sound>>
     \/ stage = "appended" /\ PartWritten
  /\ UNCHANGED <<synced, active, written, lastIndex, zxid, acked, applied>>

(* The machine stops, with the process or after it. *)
PowerLoss ==
  /\ "power" \in Faults /\ DOMAIN files # {} /\ stage # "failed"
  /\ stage' = "down" /\ buf' = <<>>
  /\ \E f \in Remnants(files[active], synced) : Leaves(f)
  /\ UNCHANGED <<synced, active, written, lastIndex, zxid, acked, applied>>

(* WalStore::open.  A start that failed can be tried again. *)
CreateFirst ==
  /\ stage = "down" /\ DOMAIN files = {}
  /\ files' = Put(files, 1, <<>>)
  /\ active' = 1 /\ written' = 0 /\ lastIndex' = 0
  /\ stage' = "opened"
  /\ UNCHANGED <<synced, buf, zxid, history>>

OpenSegment(k) ==
  /\ stage \in {"down", "failed"} /\ k \in DOMAIN files
  /\ IF Corrupt(files[k])
     THEN stage' = "failed" /\ UNCHANGED <<synced, active, written, lastIndex>>
     ELSE /\ active' = k /\ written' = Len(files[k]) /\ lastIndex' = LastRead(files[k])
          /\ synced' = IF k = active THEN synced ELSE Len(files[k])
          /\ stage' = "opened"
  /\ UNCHANGED <<files, buf, zxid, history>>

(* Faulty: goes on in the segment the directory lists first. *)
OpenFirst ==
  \E k \in DOMAIN files : (\A j \in DOMAIN files : k <= j) /\ OpenSegment(k)

OpenLast ==
  \E k \in DOMAIN files : (\A j \in DOMAIN files : j <= k) /\ OpenSegment(k)

(* WalStore::replay, segment by segment in the order of their names; the   *)
(* server's last_zxid is the index of the last record.                     *)
NonEmpty == {k \in DOMAIN files : Readable(files[k]) # {}}

Replay ==
  /\ stage = "opened"
  /\ IF \E k \in DOMAIN files : Corrupt(files[k])
     THEN stage' = "failed" /\ UNCHANGED <<zxid, applied>>
     ELSE /\ zxid' = IF NonEmpty = {} THEN 0 ELSE LastRead(files[Highest(NonEmpty)])
          /\ applied' = UNION {Readable(files[k]) : k \in DOMAIN files}
          /\ stage' = "ready"
  /\ UNCHANGED <<files, synced, writer, acked, sound>>

Next ==
  \/ AppendRecord \/ WriteAll \/ WriteFails \/ SyncData \/ SyncFails
  \/ FlushDone \/ Rotate \/ RotateFails
  \/ Crash \/ PowerLoss \/ CreateFirst \/ OpenLast \/ Replay

Spec == Init /\ [][Next]_vars

-----------------------------------------------------------------------------
TypeOK ==
  /\ DOMAIN files \subseteq 1..(MaxIndex + 1) /\ \A k \in DOMAIN files : files[k] \in Seq(Cell)
  /\ stage \notin {"down", "failed"} => active \in DOMAIN files
  /\ DOMAIN files # {} => active \in DOMAIN files /\ synced \in 0..Len(files[active])
  /\ buf \in Seq(Index) /\ written \in Nat /\ lastIndex \in 0..MaxIndex /\ zxid \in 0..MaxIndex
  /\ stage \in Stage /\ acked \subseteq Index /\ applied \subseteq Index

(* A segment's name tells the range it covers: its records ascend without  *)
(* a gap, they start at its name and end where the next segment's name     *)
(* starts.  Replay, which goes by names, therefore reads the records in    *)
(* the order they were written, and rotation never empties a file.  It     *)
(* holds until a record is written behind a piece, or twice.               *)
SegmentsInOrder ==
  sound => \A k \in DOMAIN files :
    /\ \A j \in DOMAIN files[k] : files[k][j].index = k + j - 1
    /\ \A l \in DOMAIN files : k < l => k + Len(files[k]) <= l
    /\ k = 1 \/ \E j \in DOMAIN files : j < k /\ j + Len(files[j]) = k

(* What a start would read back: nothing at all when one file has an error. *)
Kept ==
  IF \E k \in DOMAIN files : Corrupt(files[k]) THEN {}
  ELSE UNION {Readable(files[k]) : k \in DOMAIN files}

(* "On startup, read back every record ever written": a record whose       *)
(* writer was told OK can be read back, at any time.                       *)
AcknowledgedIsReadable == acked \subseteq Kept

(* The changelog keeps the promise of a write-ahead log until a record is  *)
(* written behind a piece of another, or behind itself.                    *)
Promise == INSTANCE Wal WITH kept <- Kept, state <- applied

ImplementsWal == Promise!Spec
=============================================================================
