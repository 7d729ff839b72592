------------------------------- MODULE AuditLog -------------------------------
(***************************************************************************)
(* The hash-linked audit file of audit.py and the AuditLog objects that    *)
(* write it, one for each process whose gateway uses the file.  An object  *)
(* reads the file when it is made and never again.  A line is a record     *)
(* with the hash it was written with; the hash of a record is the record   *)
(* itself, so that equal hashes mean equal records.  A write may fail      *)
(* before, within or after the line, and the process may stop; a new       *)
(* AuditLog verifies the file it finds.  Torn is a line that is not JSON:  *)
(* a fragment, or two records with no newline between them.                *)
(***************************************************************************)
EXTENDS Integers, Sequences

CONSTANTS Writers, Events, Torn, MaxLines, MaxFailures, MaxRestarts, MaxDamage

ASSUME BoundsAreNaturals == {MaxLines, MaxFailures, MaxRestarts, MaxDamage} \subseteq Nat

VARIABLES
    file,           \* the lines on disk
    newline,        \* the file is empty or ends in a newline
    writer,         \* "open", or "refused" when the file does not verify
    sequence, last, \* each object's _sequence and _last_hash
    acked,          \* meta: the lines whose append returned
    behind,         \* meta: the writers another one has written after
    overlapped,     \* meta: a writer that was behind has written
    cut,            \* meta: some write left no newline
    failures, restarts, damage  \* meta: what has gone wrong so far

disk == <<file, newline>>
object == <<writer, sequence, last>>
meta == <<cut, failures, restarts, damage>>
vars == <<disk, object, acked, meta, behind, overlapped>>

Genesis == << >>
Hash(seq, previous, event) == <<seq, previous, event>>
Line(seq, previous, event) ==
    [sequence |-> seq, previous_hash |-> previous, event |-> event,
     event_hash |-> Hash(seq, previous, event)]

Init ==
    /\ file = << >> /\ newline = TRUE /\ cut = FALSE
    /\ writer = [w \in Writers |-> "open"]
    /\ sequence = [w \in Writers |-> 0] /\ last = [w \in Writers |-> Genesis]
    /\ acked = {} /\ behind = {} /\ overlapped = FALSE
    /\ failures = 0 /\ restarts = 0 /\ damage = 0

-----------------------------------------------------------------------------
(* A line that verify accepts at position i.                               *)
HashOf(line) == Hash(line.sequence, line.previous_hash, line.event)
PreviousHash(f, i) ==
    IF i = 1 THEN Genesis ELSE IF f[i - 1] = Torn THEN Torn ELSE f[i - 1].event_hash

(* Slips: the stored hash is trusted; lines that do not parse are skipped. *)
LineIsLinked(f, i) ==
    /\ f[i] # Torn
    /\ f[i].sequence = i
    /\ f[i].previous_hash = PreviousHash(f, i)

LineIsTornOrVerifies(f, i) ==
    \/ f[i] = Torn
    \/ /\ f[i].sequence = i
       /\ f[i].previous_hash = PreviousHash(f, i)
       /\ f[i].event_hash = HashOf(f[i])

LineVerifies(f, i) ==
    /\ f[i] # Torn
    /\ f[i].sequence = i
    /\ f[i].previous_hash = PreviousHash(f, i)
    /\ f[i].event_hash = HashOf(f[i])

(* The first line that does not verify stops the check.                    *)
Verifies(f) == \A i \in DOMAIN f : LineVerifies(f, i)

-----------------------------------------------------------------------------
CanAppend(w) == writer[w] = "open" /\ Len(file) < MaxLines
NewLine(w, event) == Line(sequence[w] + 1, last[w], event)
Fails == failures < MaxFailures /\ failures' = failures + 1 /\ UNCHANGED <<restarts, damage>>

(* Text goes to the end of the file, onto a line that was left unfinished. *)
Put(line) == IF newline THEN Append(file, line) ELSE [file EXCEPT ![Len(file)] = Torn]

(* meta: what this writer has put in the file, no other one knows of.      *)
Overtakes(w) ==
    /\ behind' = IF disk' = disk THEN behind ELSE behind \cup (Writers \ {w})
    /\ overlapped' = (overlapped \/ (disk' # disk /\ w \in behind))

Writes(w, event) ==
    /\ CanAppend(w)
    /\ file' = Put(NewLine(w, event)) /\ newline' = TRUE
    /\ sequence' = [sequence EXCEPT ![w] = @ + 1]
    /\ acked' = acked \cup {NewLine(w, event)}
    /\ Overtakes(w)
    /\ UNCHANGED <<writer, meta>>

(* Slip: the link the next record needs is not kept.                       *)
AppendForgetful(w, event) == Writes(w, event) /\ UNCHANGED last

(* Written, flushed and synced; only then do the counters move.            *)
AppendLine(w, event) ==
    Writes(w, event) /\ last' = [last EXCEPT ![w] = NewLine(w, event).event_hash]

(* A write that goes wrong leaves nothing, a fragment, the record without  *)
(* its newline, or all of the line.                                        *)
PartlyWritten(w, event) ==
    \/ UNCHANGED <<disk, cut>>
    \/ \E line \in {Torn, NewLine(w, event)} :
          file' = Put(line) /\ newline' = FALSE /\ cut' = TRUE
    \/ file' = Put(NewLine(w, event)) /\ newline' = TRUE /\ UNCHANGED cut

(* write, flush or fsync raises: the counters have not moved.              *)
AppendFails(w, event) ==
    /\ CanAppend(w)
    /\ Fails
    /\ PartlyWritten(w, event)
    /\ Overtakes(w)
    /\ UNCHANGED <<object, acked>>

(* The process stops, within a write or between two, and a new AuditLog    *)
(* is made: an empty file starts at zero, another must verify.             *)
Restart(w) ==
    /\ restarts < MaxRestarts
    /\ restarts' = restarts + 1
    /\ \/ UNCHANGED <<disk, cut>>
       \/ CanAppend(w) /\ \E event \in Events : PartlyWritten(w, event)
    /\ IF Verifies(file')
       THEN /\ writer' = [writer EXCEPT ![w] = "open"]
            /\ sequence' = [sequence EXCEPT ![w] = Len(file')]
            /\ last' = [last EXCEPT ![w] = PreviousHash(file', Len(file') + 1)]
       ELSE writer' = [writer EXCEPT ![w] = "refused"] /\ UNCHANGED <<sequence, last>>
    /\ behind' = (IF disk' = disk THEN behind ELSE Writers) \ {w}
    /\ overlapped' = (overlapped \/ (disk' # disk /\ w \in behind))
    /\ UNCHANGED <<acked, failures, damage>>

(* The file is damaged outside the program: a record edited, one inserted  *)
(* again, two swapped, or one that is not the last removed.                *)
RemoveLine(f, i) == SubSeq(f, 1, i - 1) \o SubSeq(f, i + 1, Len(f))
RepeatLine(f, i, j) == SubSeq(f, 1, j) \o <<f[i]>> \o SubSeq(f, j + 1, Len(f))

Damaged(f) ==
    {[f EXCEPT ![i].event = event] : i \in {i \in DOMAIN f : f[i] # Torn}, event \in Events}
    \cup {RepeatLine(f, i, j) : i \in DOMAIN f, j \in DOMAIN f}
    \cup {[f EXCEPT ![i] = f[j], ![j] = f[i]] : i \in DOMAIN f, j \in DOMAIN f}
    \cup {RemoveLine(f, i) : i \in 1..(Len(f) - 1)}

Damage ==
    /\ damage < MaxDamage
    /\ damage' = damage + 1
    /\ file' \in Damaged(file) \ {file}
    /\ UNCHANGED <<newline, object, acked, behind, overlapped, cut, failures, restarts>>

(* The bounds are reached, or the log cannot be opened any more.           *)
Finished ==
    /\ (\A w \in Writers : writer[w] = "refused") \/ Len(file) >= MaxLines
    /\ UNCHANGED vars

Next ==
    \/ \E w \in Writers, event \in Events : AppendLine(w, event) \/ AppendFails(w, event)
    \/ \E w \in Writers : Restart(w)
    \/ Damage \/ Finished

Spec == Init /\ [][Next]_vars

-----------------------------------------------------------------------------
(* Each record names the hash of the one before it, whatever happened.     *)
EachNamesPrevious ==
    damage = 0 => \A i \in DOMAIN file : file[i] # Torn /\ i > 1 /\ file[i - 1] # Torn =>
                     file[i].previous_hash = file[i - 1].event_hash

(* Appends and restarts alone keep the file one that a new log accepts,    *)
(* with the counters of every writer that is not behind at its end, unless *)
(* a write was cut short or a writer wrote after one it does not know of.  *)
(* That one mistake of two processes is always noticed.                    *)
CleanFileVerifies ==
    failures = 0 /\ damage = 0 /\ ~cut =>
       /\ Verifies(file) <=> ~overlapped
       /\ ~overlapped => \A w \in Writers \ behind :
             sequence[w] = Len(file) /\ last[w] = PreviousHash(file, Len(file) + 1)

(* A file that verifies misses no record whose append returned, and no two *)
(* of those share an event identifier, whatever failed in between and      *)
(* however many processes wrote, up to one act of damage (a second one can *)
(* drop a record that the first moved away from the end).  Only when two   *)
(* writers have forked the chain can an editor drop one branch at once and *)
(* leave a file that verifies.                                             *)
VerifiedIsComplete ==
    Verifies(file) /\ ~(overlapped /\ damage > 0) =>
       /\ \A line \in acked : \E i \in DOMAIN file : file[i] = line
       /\ \A line, other \in acked : line.sequence = other.sequence => line = other

(* Edited, inserted, reordered and dropped records are detected.           *)
DamageIsDetected == [][damage' # damage /\ Verifies(file) => ~Verifies(file')]_vars
=============================================================================
