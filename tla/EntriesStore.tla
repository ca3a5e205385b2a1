---------------------------- MODULE EntriesStore ----------------------------
(***************************************************************************)
(* The Entries of one server (entry/entry.cpp, entry/data.cpp): a vector   *)
(* of entries in memory, a data file with their encodings one after the    *)
(* other, and a file with the offsets at which they start and end.         *)
(*                                                                         *)
(* An insert writes the data file, then the offset file, then the memory,  *)
(* and the process may be killed between any two of these steps.  A file   *)
(* is what other processes see of it: a kill loses what the process had    *)
(* not yet written, not what the operating system holds.                   *)
(*                                                                         *)
(* An encoding is a sequence of cells, each of which knows the entry it    *)
(* belongs to and its place in it, so that whatever is read back can be    *)
(* told apart from what was written.                                       *)
(***************************************************************************)
EXTENDS Integers, Sequences

CONSTANTS
    Value,          \* the entries
    Width,          \* Width[e]: length of the encoding of e
    MaxSize,        \* bound: the log grows up to this size
    MaxCrashes,     \* bound: kills in a behaviour
    CrashAppend,    \* steps before which an insert at the end may be killed
    CrashOverwrite  \* steps before which any other insert may be killed

Steps == {"idle", "write", "ftruncate", "open", "flush", "memory"}

Zero == [of |-> "zero"]         \* a byte nobody wrote
Unparsable == [of |-> "junk"]   \* what ParseFromString makes of other bytes

ASSUME StoreAssumption ==
    /\ Width \in [Value -> Nat \ {0}]
    /\ MaxSize \in Nat
    /\ MaxCrashes \in Nat
    /\ CrashAppend \subseteq Steps
    /\ CrashOverwrite \subseteq Steps
    /\ Unparsable \notin Value

VARIABLES
    data,       \* the cells in the data file
    offset_file,\* the offset file: whether it exists, and the offsets in it
    offset,     \* offset_
    entries,    \* entries_, of which the first size_ count
    size,       \* size_
    pc,         \* the next step of the insert under way, or "idle", or "down"
    arg,        \* arguments of that insert
    crashes     \* number of kills so far

vars == <<data, offset_file, offset, entries, size, pc, arg, crashes>>

encode(e) == [k \in 1 .. Width[e] |-> [of |-> e, at |-> k]]

ParseFromString(cells) ==
    IF \E e \in Value : cells = encode(e)
    THEN CHOOSE e \in Value : cells = encode(e) ELSE Unparsable

\* The string read is as long as asked for, zero where the file has ended.
read_from_offset(file, from, len) ==
    [k \in 1 .. len |-> IF from + k <= Len(file) THEN file[from + k] ELSE Zero]

\* lseek and write: what lies behind is still there.
write_at(file, from, cells) ==
    [k \in 1 .. (IF Len(file) > from + Len(cells) THEN Len(file)
                                                   ELSE from + Len(cells)) |->
        IF k > from /\ k <= from + Len(cells) THEN cells[k - from]
        ELSE IF k <= Len(file) THEN file[k] ELSE Zero]

\* Slip: the offset behind the new entry is kept from the entry it replaces.
modify_offset_kept(off, index, len) ==
    IF index < Len(off) - 1 THEN SubSeq(off, 1, index + 2)
    ELSE Append(off, off[index + 1] + len)

\* Offsets behind the new entry are dropped.
modify_offset_vector_after_insert(off, index, len) ==
    Append(SubSeq(off, 1, index + 1), off[index + 1] + len)

-----------------------------------------------------------------------------
(* Entries::insert, one step for each effect that a kill can separate. *)

insert(index, e) ==
    /\ pc = "idle"
    /\ index <= size
    /\ size < MaxSize \/ index < size
    /\ pc' = "write"
    /\ arg' = [index |-> index, e |-> e]
    /\ UNCHANGED <<data, offset_file, offset, entries, size, crashes>>

write ==
    /\ pc = "write"
    /\ data' = write_at(data, offset[arg.index + 1], encode(arg.e))
    /\ pc' = "ftruncate"
    /\ UNCHANGED <<offset_file, offset, entries, size, arg, crashes>>

ftruncate ==
    /\ pc = "ftruncate"
    /\ data' = SubSeq(data, 1, offset[arg.index + 1] + Width[arg.e])
    /\ offset' = modify_offset_vector_after_insert(offset, arg.index,
                                                   Width[arg.e])
    /\ pc' = "open"
    /\ UNCHANGED <<offset_file, entries, size, arg, crashes>>

\* ofstream(path) empties the file; the archive reaches it when os is closed.
open_offset_file ==
    /\ pc = "open"
    /\ offset_file' = [exists |-> TRUE, offsets |-> << >>]
    /\ pc' = "flush"
    /\ UNCHANGED <<data, offset, entries, size, arg, crashes>>

write_offset_to_file ==
    /\ pc = "flush"
    /\ offset_file' = [exists |-> TRUE, offsets |-> offset]
    /\ pc' = "memory"
    /\ UNCHANGED <<data, offset, entries, size, arg, crashes>>

\* Slip: the tail left by a longer log is taken for part of the log.
insert_in_memory_all ==
    /\ pc = "memory"
    /\ entries' = IF arg.index = Len(entries) THEN Append(entries, arg.e)
                  ELSE [entries EXCEPT ![arg.index + 1] = arg.e]
    /\ size' = Len(entries')
    /\ pc' = "idle"
    /\ UNCHANGED <<data, offset_file, offset, arg, crashes>>

\* The vector never shrinks; size_ says how much of it counts.
insert_in_memory ==
    /\ pc = "memory"
    /\ entries' = IF arg.index = Len(entries) THEN Append(entries, arg.e)
                  ELSE [entries EXCEPT ![arg.index + 1] = arg.e]
    /\ size' = arg.index + 1
    /\ pc' = "idle"
    /\ UNCHANGED <<data, offset_file, offset, arg, crashes>>

-----------------------------------------------------------------------------

Appending == arg.index = size

Crash ==
    /\ crashes < MaxCrashes
    /\ \/ pc = "idle" /\ "idle" \in CrashAppend
       \/ pc # "idle" /\ Appending /\ pc \in CrashAppend
       \/ pc # "idle" /\ ~Appending /\ pc \in CrashOverwrite
    /\ pc' = "down"
    /\ crashes' = crashes + 1
    /\ offset' = << >> /\ entries' = << >> /\ size' = 0
    /\ UNCHANGED <<data, offset_file, arg>>

\* The offsets a new process starts from.
LoadedOffset == IF offset_file.exists THEN offset_file.offsets ELSE <<0>>

\* The entries a new process finds at the offsets off.
LoadedEntries(off) ==
    [i \in 1 .. Len(off) - 1 |->
        ParseFromString(read_from_offset(data, off[i], off[i + 1] - off[i]))]

\* Entries::Entries.  An empty archive makes binary_iarchive throw.
Load ==
    /\ pc = "down"
    /\ LoadedOffset # << >>
    /\ offset' = LoadedOffset
    /\ entries' = LoadedEntries(LoadedOffset)
    /\ size' = Len(LoadedOffset) - 1
    /\ pc' = "idle"
    /\ UNCHANGED <<data, offset_file, arg, crashes>>

Init ==
    /\ data = << >>
    /\ offset_file = [exists |-> FALSE, offsets |-> << >>]
    /\ offset = <<0>>
    /\ entries = << >>
    /\ size = 0
    /\ pc = "idle"
    /\ arg = [index |-> 0]
    /\ crashes = 0

Next ==
    \/ \E index \in 0 .. MaxSize, e \in Value : insert(index, e)
    \/ write
    \/ ftruncate
    \/ open_offset_file
    \/ write_offset_to_file
    \/ insert_in_memory
    \/ Crash
    \/ Load

Spec == Init /\ [][Next]_vars

-----------------------------------------------------------------------------

\* The log a reader sees, or, while the process is down, will see.
Log == IF pc = "down" THEN LoadedEntries(LoadedOffset)
                      ELSE SubSeq(entries, 1, size)

Abstract == INSTANCE LogStore WITH log <- Log

\* An insert happens at once or not at all, and a restart changes nothing:
\* what the two files hold is always the log before or the log after the
\* insert under way (Entries::insert, Entries::Entries).
InsertIsAtomic == Abstract!Spec

\* entry.h:46: whenever no insert is under way, the offsets on disk are those
\* of whole entries in the data file, the last one the end of the last entry.
\* Bytes behind it (an append that was killed) belong to no entry.
OffsetsMatchData ==
    pc \in {"idle", "down"} =>
        /\ LoadedOffset # << >>
        /\ LoadedOffset[1] = 0
        /\ LoadedOffset[Len(LoadedOffset)] <= Len(data)
        /\ \A i \in DOMAIN LoadedEntries(LoadedOffset) :
              LoadedEntries(LoadedOffset)[i] # Unparsable

=============================================================================
