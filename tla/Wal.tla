--------------------------------- MODULE Wal ---------------------------------
(***************************************************************************)
(* What the write-ahead log promises ("if the client got an OK, the change *)
(* is on disk"; "on startup, read back every record ever written, in       *)
(* order"), whatever its files and buffers look like.  A record is its     *)
(* index, and the order of the records is the order of their indexes.  The *)
(* promise holds while the log is sound, which is for its user to say.     *)
(***************************************************************************)
EXTENDS Naturals

VARIABLES
  kept,    \* the records a start would read back now
  acked,   \* the records whose writers were told OK
  state,   \* the records behind what the server answers from
  sound    \* whether the promise is on

vars == <<kept, acked, state, sound>>

Init == kept = {} /\ acked = {} /\ state = {} /\ sound = TRUE

After(i, S) == \A j \in S : j < i

(* A user that does not wait for the OK goes on with its record all the    *)
(* same; it comes after every record that had one.                         *)
GoOn == \E i \in state' : i \in Nat \ {0} /\ After(i, acked) /\ state' = state \cup {i}

(* Records reach the disk, in order, behind what is there. *)
Keep ==
  /\ kept \subseteq kept' /\ \A i \in kept' \ kept : i \in Nat \ {0} /\ After(i, kept)
  /\ UNCHANGED state \/ GoOn
  /\ UNCHANGED acked

(* Only the latest record on disk is acknowledged, and a record once; what *)
(* the server answers from grows by it.                                    *)
Acknowledge ==
  \E i \in kept :
    /\ After(i, kept \ {i}) /\ After(i, acked)
    /\ acked' = acked \cup {i}
    /\ state' = state \cup {i}
    /\ UNCHANGED kept

(* The last few records may go, those that nobody was told about. *)
Lose ==
  /\ kept' \subseteq kept /\ acked \subseteq kept'
  /\ \A i \in kept \ kept' : After(i, kept')
  /\ UNCHANGED <<acked, state>>

(* A start reads back everything. *)
Recover == state' = kept /\ UNCHANGED <<kept, acked>>

Keeping == sound /\ sound' /\ (Keep \/ Acknowledge \/ Lose \/ Recover)

(* Once off, the promise is off for good. *)
Off == sound' = FALSE

Next == Keeping \/ Off

Spec == Init /\ [][Next]_vars
=============================================================================
