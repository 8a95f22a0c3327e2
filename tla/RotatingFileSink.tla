--------------------------- MODULE RotatingFileSink ---------------------------
(***************************************************************************)
(* RotatingFileSink (src/sinks/file_sink.cpp) and its rotation modes       *)
(* (sink.hpp) over a file system whose operations may fail, in a process   *)
(* that may crash and be restarted.                                        *)
(*                                                                         *)
(* write() and flush() hold the sink's mutex, so calls do not interleave;  *)
(* but the clock may advance and the process may crash between any two     *)
(* file system operations of a call, and each of those is a step. files[0] *)
(* is the active file and files[i] the archive path.i. A record stands for *)
(* the bytes of one write(); a file is the sequence of its records.        *)
(***************************************************************************)
EXTENDS Integers, Sequences

CONSTANTS Modes,       \* rotation modes to consider
          KeepChoices, \* values of keep_files to consider
          MaxBytes,    \* the size limit of the modes that have one
          Sizes,       \* sizes of records
          MaxWrites,   \* bound: calls of write
          MaxDays,     \* bound: midnights
          MaxCrashes,  \* bound: crashes
          MaxFailures  \* bound: steps in which file operations fail

ASSUME SinkAssumption ==
  /\ Modes \subseteq {"never", "file_size_exceeds", "new_day_begins", "size_or_day"}
  /\ KeepChoices \subseteq Int /\ MaxBytes \in Nat /\ Sizes \subseteq Nat
  /\ MaxWrites \in Nat \ {0} /\ MaxDays \in Nat /\ MaxCrashes \in Nat /\ MaxFailures \in Nat

VARIABLES
  mode, keep,   \* the rotation mode and its max_archived_files(), fixed
  files,        \* the file system: a function on the indices of existing files
  today,        \* the date
  is_open,      \* ofs.is_open()
  good,         \* !ofs.fail()
  buffer,       \* records the ofstream has not handed to the file yet
  current_size, opened_day,  \* the sink's own members
  pc,           \* where the current call is; "down" when there is no sink
  rec,          \* the record being written; its day is rotate_if_needed's today
  i,            \* rotate_files' loop index
  n,            \* number of records submitted so far
  lost,         \* history: numbers of records lost in a crash or by a failed operation
  since,        \* history: n when the sink was constructed
  unseen,       \* history: bytes current_size leaves out, for file_size failed
  crashes, failures

sinkVars == <<mode, keep, current_size, opened_day>>
streamVars == <<is_open, good, buffer>>
callVars == <<rec, i, n>>
envVars  == <<today, lost, since, unseen, crashes, failures>>
vars == <<sinkVars, streamVars, callVars, envVars, files, pc>>

Record == [id : 1..MaxWrites, size : Sizes, day : 0..MaxDays]

\* The size of a file: the sum of its records.
Bytes(s) ==
  LET sum[j \in 0..Len(s)] == IF j = 0 THEN 0 ELSE sum[j - 1] + s[j].size
  IN sum[Len(s)]

Ids(s) == {s[j].id : j \in DOMAIN s}

Content(j) == IF j \in DOMAIN files THEN files[j] ELSE <<>>

With(f, j, s) == [k \in DOMAIN f \cup {j} |-> IF k = j THEN s ELSE f[k]]

Fail == failures < MaxFailures /\ failures' = failures + 1

-----------------------------------------------------------------------------
(* The rotation modes.                                                     *)

BySize(incoming) == current_size + incoming > MaxBytes

\* Dates are numbers, never empty strings.
ByDay(day) == opened_day # day

\* Mutant: the incoming bytes are not counted.
ShouldRotateLate(incoming, day) ==
  \/ mode \in {"file_size_exceeds", "size_or_day"} /\ current_size > MaxBytes
  \/ mode \in {"new_day_begins", "size_or_day"} /\ ByDay(day)

should_rotate(incoming, day) ==
  \/ mode \in {"file_size_exceeds", "size_or_day"} /\ BySize(incoming)
  \/ mode \in {"new_day_begins", "size_or_day"} /\ ByDay(day)

-----------------------------------------------------------------------------
(* The ofstream. An operation that fails has handed over a prefix of the   *)
(* buffer and loses the rest.                                              *)

\* All of s goes to the active file.
HandOver(s) ==
  /\ files' = With(files, 0, Content(0) \o s)
  /\ UNCHANGED <<lost, failures>>

HandOverFails(s) ==
  /\ Fail
  /\ \E j \in 0..Len(s) :
       /\ files' = With(files, 0, Content(0) \o SubSeq(s, 1, j))
       /\ lost' = lost \cup Ids(SubSeq(s, j + 1, Len(s)))

\* file_size may fail although the file is there and the stream can be used.
file_size_or_zero(measured) == IF measured THEN Bytes(Content(0)) ELSE 0

\* Mutant: the file is reopened with current_size = 0.
OpenIfNeededFromZero ==
  /\ opened_day' = today
  /\ files' = With(files, 0, Content(0))
  /\ is_open' = TRUE /\ good' = TRUE
  /\ current_size' = 0
  /\ UNCHANGED <<mode, keep, unseen, failures>>

\* open_if_needed: append mode creates the file; opening clears the error state.
\* Opening and measuring the file fail independently of each other.
open_if_needed ==
  /\ opened_day' = today
  /\ \E opens, measured \in BOOLEAN :
       /\ IF opens /\ measured THEN UNCHANGED failures ELSE Fail
       /\ files' = IF opens THEN With(files, 0, Content(0)) ELSE files
       /\ is_open' = opens /\ good' = opens
       /\ current_size' = file_size_or_zero(measured)
       /\ unseen' = IF measured THEN 0 ELSE Bytes(Content(0))
  /\ UNCHANGED <<mode, keep>>

-----------------------------------------------------------------------------
(* Operations.                                                             *)

Construct ==
  /\ pc = "down"
  /\ open_if_needed
  /\ buffer' = <<>>
  /\ since' = n
  /\ pc' = "idle"
  /\ UNCHANGED <<callVars, today, lost, crashes>>

\* write(): reopen a stream that is not open; give up on one in an error state.
Write(size) ==
  /\ pc = "idle"
  /\ n < MaxWrites
  /\ n' = n + 1
  /\ rec' = [id |-> n + 1, size |-> size, day |-> today]
  /\ \/ is_open /\ good /\ pc' = "rotate?" /\ UNCHANGED lost
     \/ is_open /\ ~good /\ pc' = "idle" /\ lost' = lost \cup {n + 1}
     \/ ~is_open /\ pc' = "open" /\ UNCHANGED lost
  /\ UNCHANGED <<sinkVars, streamVars, files, i, today, since, unseen, crashes, failures>>

Reopen ==
  /\ pc = "open"
  /\ open_if_needed
  /\ pc' = IF is_open' THEN "rotate?" ELSE "idle"
  /\ lost' = IF is_open' THEN lost ELSE lost \cup {rec.id}
  /\ UNCHANGED <<buffer, callVars, today, since, crashes>>

\* Mutant: path.keep is renamed too.
FirstShiftOneMore == keep

\* Mutant: path.(keep - 1) is not renamed.
FirstShiftOneLess == keep - 2

\* Where rotate_files' loop starts.
FirstShift == keep - 1

\* rotate_if_needed reads the clock and asks the mode; to rotate it first closes
\* the stream, which hands over the buffer. keep <= 0 archives nothing.
RotateIfNeeded ==
  /\ pc = "rotate?"
  /\ rec' = [rec EXCEPT !.day = today]
  /\ \/ /\ ~should_rotate(rec.size, today)
        /\ pc' = "put"
        /\ UNCHANGED <<streamVars, files, i, lost, failures>>
     \/ /\ should_rotate(rec.size, today)
        /\ HandOver(buffer) \/ HandOverFails(buffer)
        /\ buffer' = <<>> /\ is_open' = FALSE
        /\ i' = FirstShift
        /\ pc' = IF keep <= 0 THEN "truncate" ELSE "shift"
        /\ UNCHANGED good
  /\ UNCHANGED <<sinkVars, n, today, since, unseen, crashes>>

\* Mutant: rename does not replace an existing file.
RenameNoReplace(from, to) ==
  /\ files' = IF from \notin DOMAIN files \/ to \in DOMAIN files THEN files
              ELSE [j \in (DOMAIN files \ {from}) \cup {to} |->
                      IF j = to THEN files[from] ELSE files[j]]
  /\ UNCHANGED failures

\* Mutant: the file is copied and then removed; the removal may fail.
RenameByCopy(from, to) ==
  \/ /\ from \in DOMAIN files
     /\ files' = [j \in (DOMAIN files \ {from}) \cup {to} |->
                    IF j = to THEN files[from] ELSE files[j]]
     /\ UNCHANGED failures
  \/ /\ from \in DOMAIN files
     /\ Fail
     /\ files' = With(files, to, files[from])
  \/ /\ from \notin DOMAIN files
     /\ UNCHANGED <<files, failures>>

\* exists(from) and rename(from, to), which replaces an existing file; a failure
\* is ignored.
Rename(from, to) ==
  \/ /\ from \in DOMAIN files
     /\ files' = [j \in (DOMAIN files \ {from}) \cup {to} |->
                    IF j = to THEN files[from] ELSE files[j]]
     /\ UNCHANGED failures
  \/ /\ from \in DOMAIN files
     /\ Fail
     /\ UNCHANGED files
  \/ /\ from \notin DOMAIN files
     /\ UNCHANGED <<files, failures>>

\* rotate_files: one archive after the other, the oldest first ...
ShiftArchive ==
  /\ pc = "shift" /\ i >= 1
  /\ Rename(i, i + 1)
  /\ i' = i - 1
  /\ UNCHANGED <<sinkVars, streamVars, rec, n, today, lost, since, unseen, crashes, pc>>

\* ... and then the active file.
ArchiveActive ==
  /\ pc = "shift" /\ i < 1
  /\ Rename(0, 1)
  /\ pc' = "truncate"
  /\ UNCHANGED <<sinkVars, streamVars, callVars, today, lost, since, unseen, crashes>>

\* Mutant: opened_day stays.
TruncateSameDay ==
  /\ pc = "truncate"
  /\ files' = With(files, 0, <<>>)
  /\ is_open' = TRUE /\ good' = TRUE
  /\ current_size' = 0
  /\ pc' = "put"
  /\ UNCHANGED <<mode, keep, opened_day, buffer, callVars, envVars>>

\* The rest of rotate_if_needed: open a new active file, truncating.
Truncate ==
  /\ pc = "truncate"
  /\ opened_day' = rec.day
  /\ \/ /\ files' = With(files, 0, <<>>)
        /\ is_open' = TRUE /\ good' = TRUE
        /\ UNCHANGED failures
     \/ /\ Fail
        /\ is_open' = FALSE /\ good' = FALSE
        /\ UNCHANGED files
  /\ current_size' = 0 /\ unseen' = 0
  /\ pc' = "put"
  /\ UNCHANGED <<mode, keep, buffer, callVars, today, lost, since, crashes>>

\* Mutant: a failed write leaves the stream good.
PutUnnoticed ==
  /\ pc = "put"
  /\ current_size' = current_size + rec.size
  /\ buffer' = <<>>
  /\ HandOver(Append(buffer, rec)) \/ HandOverFails(Append(buffer, rec))
  /\ pc' = "idle"
  /\ UNCHANGED <<mode, keep, opened_day, is_open, good, callVars, today, since, unseen, crashes>>

\* The end of write(): ofs.write(), to the buffer or through it to the file, does
\* nothing on a stream in an error state.
Put ==
  /\ pc = "put"
  /\ current_size' = current_size + rec.size
  /\ \/ /\ good
        /\ buffer' = Append(buffer, rec)
        /\ UNCHANGED <<files, good, lost, failures>>
     \/ /\ good
        /\ HandOver(Append(buffer, rec))
        /\ buffer' = <<>>
        /\ UNCHANGED good
     \/ /\ good
        /\ HandOverFails(Append(buffer, rec))
        /\ buffer' = <<>> /\ good' = FALSE
     \/ /\ ~good
        /\ lost' = lost \cup {rec.id}
        /\ UNCHANGED <<files, good, buffer, failures>>
  /\ pc' = "idle"
  /\ UNCHANGED <<mode, keep, opened_day, is_open, callVars, today, since, unseen, crashes>>

\* flush(), on a good stream that holds something.
flush ==
  /\ pc = "idle" /\ good /\ buffer # <<>>
  /\ \/ HandOver(buffer) /\ UNCHANGED good
     \/ HandOverFails(buffer) /\ good' = FALSE
  /\ buffer' = <<>>
  /\ UNCHANGED <<sinkVars, is_open, callVars, today, since, unseen, crashes, pc>>

\* ~RotatingFileSink closes the stream.
Destroy ==
  /\ pc = "idle"
  /\ \/ is_open /\ (HandOver(buffer) \/ HandOverFails(buffer))
     \/ ~is_open /\ UNCHANGED <<files, lost, failures>>
  /\ buffer' = <<>> /\ is_open' = FALSE
  /\ pc' = "down"
  /\ UNCHANGED <<sinkVars, good, callVars, today, since, unseen, crashes>>

-----------------------------------------------------------------------------
(* The environment.                                                        *)

\* The process dies: what the file system has stays, the buffer and the record of
\* an unfinished call are gone.
Crash ==
  /\ pc # "down"
  /\ crashes < MaxCrashes
  /\ crashes' = crashes + 1
  /\ lost' = lost \cup Ids(buffer) \cup (IF pc = "idle" THEN {} ELSE {rec.id})
  /\ buffer' = <<>> /\ is_open' = FALSE
  /\ pc' = "down"
  /\ UNCHANGED <<sinkVars, good, callVars, files, today, since, unseen, failures>>

Midnight ==
  /\ today < MaxDays
  /\ today' = today + 1
  /\ UNCHANGED <<sinkVars, streamVars, callVars, files, pc, lost, since, unseen, crashes, failures>>

Init ==
  /\ mode \in Modes /\ keep \in KeepChoices
  /\ files = [j \in {} |-> <<>>]
  /\ today = 0
  /\ is_open = FALSE /\ good = TRUE /\ buffer = <<>>
  /\ current_size = 0 /\ opened_day = 0
  /\ pc = "down"
  /\ rec \in {[id |-> 1, size |-> size, day |-> 0] : size \in Sizes}
  /\ i = 0 /\ n = 0
  /\ lost = {} /\ since = 0 /\ unseen = 0 /\ crashes = 0 /\ failures = 0

Next ==
  \/ Construct \/ (\E size \in Sizes : Write(size)) \/ Reopen \/ RotateIfNeeded
  \/ ShiftArchive \/ ArchiveActive \/ Truncate \/ Put
  \/ flush \/ Destroy
  \/ Crash \/ Midnight

Spec == Init /\ [][Next]_vars

-----------------------------------------------------------------------------
(* Properties.                                                             *)

TypeOK ==
  /\ mode \in Modes /\ keep \in KeepChoices
  /\ \A j \in DOMAIN files : j = 0 \/ j \in 1..keep
  /\ \A j \in DOMAIN files : files[j] \in Seq(Record)
  /\ today \in 0..MaxDays /\ opened_day \in 0..today
  /\ is_open \in BOOLEAN /\ good \in BOOLEAN
  /\ buffer \in Seq(Record)
  /\ current_size \in Nat
  /\ pc \in {"down", "idle", "open", "rotate?", "shift", "truncate", "put"}
  /\ rec \in Record
  /\ n \in 0..MaxWrites /\ since \in 0..n
  /\ lost \subseteq 1..n /\ unseen \in Nat

Active == Content(0) \o buffer

\* What is left of the log: the archives path.1 .. path.keep, the higher the older,
\* and part 0, the active file with the stream's buffer.
Parts == {0} \cup 1..keep
Part(j) == IF j = 0 THEN Active ELSE Content(j)
Retained == UNION {Ids(Part(j)) : j \in Parts}

\* The records in the order in which they were submitted.
InOrder(s) == \A j, k \in DOMAIN s : j < k => s[j].id < s[k].id

InFlight == pc \notin {"idle", "down"}

\* The sink's own count agrees with the file: while the stream is usable,
\* current_size is the size of the active file and the buffer, through rotations,
\* restarts, failed operations and reopening. The one exception is a file whose
\* size could not be read when it was opened: until the sink rotates or reopens it,
\* current_size is short by exactly the bytes that were in the file then.
SizeTracks == is_open /\ good => current_size + unseen = Bytes(Active)

\* A size limit holds: no step of a write() lets the active file grow past MaxBytes,
\* unless it holds a single record that is too long by itself, also after restarts
\* and failures. Only when the size could not be read as the file was opened is the
\* limit passed, by no more than the bytes that were in the file then.
ActiveBounded ==
  [][/\ mode \in {"file_size_exceeds", "size_or_day"}
     /\ Bytes(Active') > Bytes(Active)
     => Len(Active') = 1 \/ Bytes(Active') <= MaxBytes + unseen']_vars

\* What is left of the log can be read in order, whatever has failed: each file holds
\* its records in the order in which they were submitted, every archive is older than
\* those numbered below it and than the active file, and no record is there twice.
\* Neither a crash between two renames, nor a rename or an open whose error is ignored,
\* nor the rotations and restarts that follow put it out of order.
LogInOrder ==
  /\ \A j \in Parts : InOrder(Part(j))
  /\ \A j, k \in Parts : j < k =>
       \A old \in Ids(Part(k)), new \in Ids(Part(j)) : old < new

\* Rotation only ever forgets the oldest end of the log: the archives and the
\* active file together are, in order and without a gap, the newest records
\* submitted, except those a crash caught in the buffer or in an unfinished
\* write(). A crash in the middle of a rotation loses nothing else. This holds
\* until a file operation fails.
NewestKept ==
  failures = 0 =>
    /\ LogInOrder
    /\ \E cut \in 0..n :
         Retained = {r \in 1..n : r > cut /\ r \notin lost /\ ~(InFlight /\ r = n)}

\* Without crashes and failures no record is forgotten before all keep archives
\* exist.
ForgetsWhenFull ==
  pc = "idle" /\ crashes = 0 /\ failures = 0 /\ 1..n # Retained
    => 1..keep \subseteq DOMAIN files

\* Daily rotation: what one sink object has written to the active file is all of
\* one day, wherever midnight falls within a write(), until a file operation fails.
OneDay ==
  failures = 0 /\ mode \in {"new_day_begins", "size_or_day"} /\ is_open /\ good =>
    \A j \in DOMAIN Active : Active[j].id > since => Active[j].day = opened_day

\* ok() can be trusted after a write(): if the stream is usable when write()
\* returns, the record is in the active file or in the buffer, whichever
\* operations of the call have failed.
OkMeansRecorded ==
  pc = "idle" /\ is_open /\ good /\ n > since => n \in Ids(Active)

\* docs/api/sinks.md, Rotating file: "On rotation, SyLog keeps numbered archives".
\* Truncating the active file must not destroy records that were not archived.
KeepsArchives ==
  [][pc = "truncate" /\ keep >= 1 => Ids(Content(0)) \subseteq Retained']_vars
=============================================================================
