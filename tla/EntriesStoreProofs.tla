------------------------- MODULE EntriesStoreProofs -------------------------
(***************************************************************************)
(* What EntriesStore promises, proved for any entries, encodings, sizes of *)
(* the log and numbers of kills, if the process is not killed where kills  *)
(* do harm.                                                                *)
(*                                                                         *)
(* The heart is Fits: the offsets off cut a file into the encodings of the *)
(* entries of a log.  The insert under way takes the files from one that   *)
(* fits the old log to one that fits the new log, and the offset file says *)
(* which of the two a new process would find.                              *)
(***************************************************************************)
EXTENDS EntriesStore, SequenceTheorems, TLAPS

Cell == [of : Value, at : Nat] \cup {Zero}

\* The encoding of e is in the file, behind the first from cells.
Holds(file, from, e) ==
    /\ from + Width[e] <= Len(file)
    /\ \A k \in 1 .. Width[e] : file[from + k] = [of |-> e, at |-> k]

\* The file holds the entries of a log, one behind the other.
Fits(off, entry, file) ==
    /\ entry \in Seq(Value)
    /\ off \in Seq(Nat) /\ Len(off) = Len(entry) + 1 /\ off[1] = 0
    /\ \A i \in 1 .. Len(entry) : off[i + 1] = off[i] + Width[entry[i]]
    /\ \A i, j \in 1 .. Len(off) : i <= j => off[i] <= off[j]
    /\ \A i \in 1 .. Len(entry) : Holds(file, off[i], entry[i])

\* The log before and after the insert under way, and the offsets after it.
Before == SubSeq(entries, 1, size)
After == Append(SubSeq(entries, 1, arg.index), arg.e)
NewOffset == modify_offset_vector_after_insert(offset, arg.index, Width[arg.e])

MemoryOK ==
    /\ pc # "down" => entries \in Seq(Value) /\ size \in 0 .. Len(entries)
    /\ pc \notin {"idle", "down"} => arg.index \in 0 .. size /\ arg.e \in Value

\* What a new process would find where kills do no harm.
DiskOK ==
    /\ pc \in {"idle", "write"} =>
          LoadedOffset = offset /\ Fits(LoadedOffset, Before, data)
    /\ pc = "ftruncate" /\ Appending =>
          LoadedOffset = offset /\ Fits(LoadedOffset, Before, data)
    /\ pc = "open" /\ Appending => Fits(LoadedOffset, Before, data)
    /\ pc = "memory" => LoadedOffset = offset
    /\ pc = "down" => Fits(LoadedOffset, LoadedEntries(LoadedOffset), data)

\* How far the insert is.
InsertOK ==
    /\ pc = "ftruncate" =>
          /\ offset \in Seq(Nat) /\ Len(offset) = size + 1
          /\ Fits(NewOffset, After, data)
    /\ pc \in {"open", "flush", "memory"} => Fits(offset, After, data)

SInv ==
    /\ pc \in Steps \cup {"down"}
    /\ data \in Seq(Cell)
    /\ MemoryOK /\ DiskOK /\ InsertOK

\* Kills that do no harm: none while the offset file is empty, and of an insert
\* that overwrites none while only one of the two files is written.
HarmlessKills ==
    /\ "flush" \notin CrashAppend
    /\ CrashOverwrite \cap {"ftruncate", "open", "flush"} = {}


-----------------------------------------------------------------------------
(* Files and offsets. *)

LEMMA Widths ==
    ASSUME NEW e \in Value
    PROVE  Width[e] \in Nat /\ Width[e] >= 1
BY StoreAssumption

\* A file that is built cell by cell.
LEMMA BuiltSeq ==
    ASSUME NEW S, NEW n \in Nat, NEW f \in [1 .. n -> S]
    PROVE  f \in Seq(S) /\ Len(f) = n
<1>1. f \in Seq(S)
  BY SeqDef
<1>2. DOMAIN f = 1 .. n
  OBVIOUS
<1>3. QED
  BY <1>1, <1>2, LenProperties

LEMMA Encoded ==
    ASSUME NEW e \in Value
    PROVE  /\ encode(e) \in Seq(Cell) /\ Len(encode(e)) = Width[e]
           /\ \A k \in 1 .. Width[e] : encode(e)[k] = [of |-> e, at |-> k]
<1>1. Width[e] \in Nat
  BY Widths
<1>2. /\ encode(e) \in [1 .. Width[e] -> Cell]
      /\ \A k \in 1 .. Width[e] : encode(e)[k] = [of |-> e, at |-> k]
  BY <1>1 DEF encode, Cell
<1>3. QED
  BY <1>1, <1>2, BuiltSeq

\* write changes the cells it writes and no other.
LEMMA Written ==
    ASSUME NEW file \in Seq(Cell), NEW from \in Nat, NEW cells \in Seq(Cell),
           NEW w, w = write_at(file, from, cells)
    PROVE  /\ w \in Seq(Cell)
           /\ Len(w) >= from + Len(cells) /\ Len(w) >= Len(file)
           /\ \A k \in 1 .. Len(cells) : w[from + k] = cells[k]
           /\ \A k \in 1 .. Len(file) : k <= from => w[k] = file[k]
<1> DEFINE n == IF Len(file) > from + Len(cells) THEN Len(file)
                                                 ELSE from + Len(cells)
<1>1. Len(file) \in Nat /\ Len(cells) \in Nat
  OBVIOUS
<1>2. n \in Nat /\ n >= from + Len(cells) /\ n >= Len(file)
  BY <1>1
<1>3. w = [k \in 1 .. n |->
              IF k > from /\ k <= from + Len(cells) THEN cells[k - from]
              ELSE IF k <= Len(file) THEN file[k] ELSE Zero]
  BY DEF write_at
<1> HIDE DEF n
<1>4. ASSUME NEW k \in 1 .. n PROVE w[k] \in Cell
  <2>1. CASE k > from /\ k <= from + Len(cells)
    <3>1. k - from \in 1 .. Len(cells) /\ w[k] = cells[k - from]
      BY <1>1, <1>2, <1>3, <2>1
    <3>2. QED
      BY <3>1
  <2>2. CASE ~(k > from /\ k <= from + Len(cells)) /\ k <= Len(file)
    <3>1. k \in 1 .. Len(file) /\ w[k] = file[k]
      BY <1>1, <1>2, <1>3, <2>2
    <3>2. QED
      BY <3>1
  <2>3. CASE ~(k > from /\ k <= from + Len(cells)) /\ ~(k <= Len(file))
    <3>1. w[k] = Zero
      BY <1>3, <2>3
    <3>2. QED
      BY <3>1 DEF Cell
  <2>4. QED
    BY <2>1, <2>2, <2>3
<1>5. w \in [1 .. n -> Cell]
  BY <1>3, <1>4
<1>6. w \in Seq(Cell) /\ Len(w) = n
  BY <1>2, <1>5, BuiltSeq
<1>7. ASSUME NEW k \in 1 .. Len(cells) PROVE w[from + k] = cells[k]
  <2>1. /\ from + k \in 1 .. n /\ from + k > from /\ from + k <= from + Len(cells)
        /\ (from + k) - from = k
    BY <1>1, <1>2
  <2>2. QED
    BY <1>3, <2>1
<1>8. ASSUME NEW k \in 1 .. Len(file), k <= from PROVE w[k] = file[k]
  <2>1. k \in 1 .. n /\ ~(k > from) /\ k <= Len(file)
    BY <1>1, <1>2, <1>8
  <2>2. QED
    BY <1>3, <2>1
<1>9. QED
  BY <1>2, <1>6, <1>7, <1>8

\* What is read back where an encoding is, is the entry.
LEMMA Parses ==
    ASSUME NEW file \in Seq(Cell), NEW from \in Nat, NEW e \in Value,
           Holds(file, from, e)
    PROVE  ParseFromString(read_from_offset(file, from, Width[e])) = e
<1> DEFINE cells == read_from_offset(file, from, Width[e])
<1>1. Width[e] \in Nat /\ Width[e] >= 1 /\ Len(file) \in Nat
  BY Widths
<1>2. \A k \in 1 .. Width[e] : from + k <= Len(file)
                             /\ file[from + k] = [of |-> e, at |-> k]
  BY <1>1 DEF Holds
<1>3. cells = encode(e)
  BY <1>2 DEF read_from_offset, encode
<1>4. ASSUME NEW d \in Value, encode(d) = encode(e) PROVE d = e
  <2>1. 1 \in 1 .. Width[d] /\ 1 \in 1 .. Width[e]
    BY Widths
  <2>2. encode(d)[1] = [of |-> d, at |-> 1] /\ encode(e)[1] = [of |-> e, at |-> 1]
    BY <2>1, Encoded
  <2>3. [of |-> d, at |-> 1] = [of |-> e, at |-> 1]
    BY <1>4, <2>2
  <2>4. QED
    BY <2>3
<1>5. QED
  BY <1>3, <1>4 DEF ParseFromString


LEMMA FitsTypes ==
    ASSUME NEW off, NEW entry, NEW file, Fits(off, entry, file)
    PROVE  /\ entry \in Seq(Value) /\ Len(entry) \in Nat
           /\ off \in Seq(Nat) /\ Len(off) = Len(entry) + 1
           /\ \A i \in 1 .. Len(entry) + 1 : off[i] \in Nat
           /\ \A i \in 1 .. Len(entry) : entry[i] \in Value
BY DEF Fits

\* What fits a log fits a prefix of it.
LEMMA FitsPrefix ==
    ASSUME NEW off, NEW entry, NEW file, Fits(off, entry, file),
           NEW n \in 0 .. Len(entry)
    PROVE  Fits(SubSeq(off, 1, n + 1), SubSeq(entry, 1, n), file)
<1> DEFINE o == SubSeq(off, 1, n + 1)
           p == SubSeq(entry, 1, n)
<1>1. /\ entry \in Seq(Value) /\ Len(entry) \in Nat
      /\ off \in Seq(Nat) /\ Len(off) = Len(entry) + 1
      /\ n \in Nat /\ n <= Len(entry)
  BY FitsTypes
<1>2. p \in Seq(Value) /\ Len(p) = n /\ \A i \in 1 .. n : p[i] = entry[i]
  BY <1>1
<1>3. o \in Seq(Nat) /\ Len(o) = n + 1 /\ \A i \in 1 .. n + 1 : o[i] = off[i]
  BY <1>1
<1> HIDE DEF o, p
<1>4. /\ \A i \in 1 .. n : i \in 1 .. Len(entry) /\ i \in 1 .. n + 1 /\ i + 1 \in 1 .. n + 1
      /\ \A i \in 1 .. n + 1 : i \in 1 .. Len(off)
      /\ 1 \in 1 .. n + 1
  BY <1>1
<1>5. o[1] = 0
  BY <1>3, <1>4 DEF Fits
<1>6. \A i \in 1 .. n : o[i + 1] = o[i] + Width[p[i]]
  BY <1>2, <1>3, <1>4 DEF Fits
<1>7. \A i, j \in 1 .. n + 1 : i <= j => o[i] <= o[j]
  BY <1>3, <1>4 DEF Fits
<1>8. \A i \in 1 .. n : Holds(file, o[i], p[i])
  BY <1>2, <1>3, <1>4 DEF Fits
<1>9. Fits(o, p, file)
  BY <1>2, <1>3, <1>5, <1>6, <1>7, <1>8 DEF Fits
<1>10. QED
  BY <1>9 DEF o, p

\* One more entry behind the last one.
LEMMA FitsAppend ==
    ASSUME NEW off, NEW entry, NEW file, Fits(off, entry, file),
           NEW e \in Value, Holds(file, off[Len(off)], e)
    PROVE  Fits(Append(off, off[Len(off)] + Width[e]), Append(entry, e), file)
<1> DEFINE n == Len(entry)
           x == off[Len(off)] + Width[e]
           o == Append(off, x)
           p == Append(entry, e)
<1>1. /\ entry \in Seq(Value) /\ n \in Nat
      /\ off \in Seq(Nat) /\ Len(off) = n + 1
      /\ \A i \in 1 .. n + 1 : off[i] \in Nat
  BY FitsTypes
<1>2. Width[e] \in Nat /\ n + 1 \in 1 .. n + 1
  BY <1>1, Widths
<1>3. off[n + 1] \in Nat /\ off[Len(off)] = off[n + 1]
  BY <1>1, <1>2
<1>4. x = off[n + 1] + Width[e] /\ x \in Nat /\ x >= off[n + 1]
  BY <1>2, <1>3
<1>5. /\ p \in Seq(Value) /\ Len(p) = n + 1 /\ p[n + 1] = e
      /\ \A i \in 1 .. n : p[i] = entry[i]
  BY <1>1
<1> HIDE DEF x
<1>6. /\ o \in Seq(Nat) /\ Len(o) = (n + 1) + 1 /\ o[(n + 1) + 1] = x
      /\ \A i \in 1 .. n + 1 : o[i] = off[i]
  BY <1>1, <1>4
<1> HIDE DEF o, p
<1>7. o[1] = 0
  <2>1. 1 \in 1 .. n + 1
    BY <1>1
  <2>2. QED
    BY <1>6, <2>1 DEF Fits
<1>8. ASSUME NEW i \in 1 .. n + 1
      PROVE  o[i + 1] = o[i] + Width[p[i]] /\ Holds(file, o[i], p[i])
  <2>1. CASE i = n + 1
    BY <1>3, <1>4, <1>5, <1>6, <2>1
  <2>2. CASE i # n + 1
    <3>1. i \in 1 .. n /\ i + 1 \in 1 .. n + 1
      BY <1>1, <2>2
    <3>2. off[i + 1] = off[i] + Width[entry[i]] /\ Holds(file, off[i], entry[i])
      BY <3>1 DEF Fits
    <3>3. o[i + 1] = off[i + 1] /\ o[i] = off[i] /\ p[i] = entry[i]
      BY <1>5, <1>6, <3>1
    <3>4. QED
      BY <3>2, <3>3
  <2>3. QED
    BY <2>1, <2>2
<1>9. ASSUME NEW i \in 1 .. (n + 1) + 1, NEW j \in 1 .. (n + 1) + 1, i <= j
      PROVE  o[i] <= o[j]
  <2>1. CASE j # (n + 1) + 1
    <3>1. i \in 1 .. n + 1 /\ j \in 1 .. n + 1
      BY <1>1, <1>9, <2>1
    <3>2. off[i] <= off[j]
      BY <1>1, <1>9, <3>1 DEF Fits
    <3>3. QED
      BY <1>6, <3>1, <3>2
  <2>2. CASE j = (n + 1) + 1 /\ i # (n + 1) + 1
    <3>1. i \in 1 .. n + 1 /\ i <= n + 1
      BY <1>1, <2>2
    <3>2. off[i] <= off[n + 1] /\ off[i] \in Nat
      BY <1>1, <1>2, <3>1 DEF Fits
    <3>3. o[i] = off[i] /\ o[j] = x
      BY <1>6, <2>2, <3>1
    <3>4. QED
      BY <1>3, <1>4, <3>2, <3>3
  <2>3. CASE i = (n + 1) + 1
    <3>1. i = j /\ o[j] = x
      BY <1>1, <1>6, <1>9, <2>3
    <3>2. QED
      BY <1>4, <3>1
  <2>4. QED
    BY <2>1, <2>2, <2>3
<1>10. Fits(o, p, file)
  BY <1>1, <1>5, <1>6, <1>7, <1>8, <1>9 DEF Fits
<1>11. QED
  BY <1>10 DEF o, p, x

\* Only the cells before the last offset matter.
LEMMA FitsSame ==
    ASSUME NEW off, NEW entry, NEW file, Fits(off, entry, file),
           NEW other, Len(file) \in Nat, Len(other) \in Nat,
           off[Len(off)] <= Len(other),
           \A k \in 1 .. Len(file) : k <= off[Len(off)] => other[k] = file[k]
    PROVE  Fits(off, entry, other)
<1> DEFINE n == Len(entry)
<1>1. /\ n \in Nat /\ Len(off) = n + 1 /\ n + 1 \in 1 .. n + 1
      /\ \A i \in 1 .. n + 1 : off[i] \in Nat
  BY FitsTypes
<1>2. ASSUME NEW i \in 1 .. n PROVE Holds(other, off[i], entry[i])
  <2>1. entry[i] \in Value /\ Width[entry[i]] \in Nat
    BY FitsTypes, Widths
  <2>2. i + 1 \in 1 .. n + 1 /\ i \in 1 .. n + 1 /\ i + 1 <= n + 1
    BY <1>1
  <2>3. off[i + 1] = off[i] + Width[entry[i]] /\ off[i + 1] <= off[n + 1]
    BY <1>1, <2>2 DEF Fits
  <2>4. off[i] \in Nat /\ off[n + 1] \in Nat /\ off[i + 1] \in Nat
    BY <1>1, <2>2
  <2>5. /\ off[i] + Width[entry[i]] <= Len(file)
        /\ \A k \in 1 .. Width[entry[i]] :
              file[off[i] + k] = [of |-> entry[i], at |-> k]
    BY DEF Fits, Holds
  <2>6. off[i] + Width[entry[i]] <= Len(other)
    <3>1. off[n + 1] <= Len(other)
      BY <1>1
    <3>2. QED
      BY <2>1, <2>3, <2>4, <3>1
  <2>7. ASSUME NEW k \in 1 .. Width[entry[i]]
        PROVE  off[i] + k \in 1 .. Len(file) /\ off[i] + k <= off[n + 1]
    <3>1. k \in Nat /\ k >= 1 /\ k <= Width[entry[i]]
      BY <2>1
    <3>2. off[i] + Width[entry[i]] <= Len(file)
      BY <2>5
    <3>3. off[i] + Width[entry[i]] <= off[n + 1]
      BY <2>3
    <3>4. \A o, m, l \in Nat : o + m <= l /\ k <= m => o + k \in 1 .. l /\ o + k <= l
      BY <3>1
    <3>5. QED
      BY ONLY <2>1, <2>4, <3>1, <3>2, <3>3, <3>4, Len(file) \in Nat
  <2>8. \A k \in 1 .. Width[entry[i]] : other[off[i] + k] = file[off[i] + k]
    BY <1>1, <2>7
  <2>9. QED
    BY <2>5, <2>6, <2>8 DEF Holds
<1>3. QED
  BY <1>2 DEF Fits

\* The last offset is within the file.
LEMMA FitsWithin ==
    ASSUME NEW off, NEW entry, NEW file \in Seq(Cell), Fits(off, entry, file)
    PROVE  off[Len(off)] <= Len(file) /\ off[Len(off)] \in Nat
<1> DEFINE n == Len(entry)
<1>1. /\ n \in Nat /\ Len(off) = n + 1 /\ n + 1 \in 1 .. n + 1
      /\ \A i \in 1 .. n + 1 : off[i] \in Nat /\ Len(file) \in Nat
  BY FitsTypes
<1>2. CASE n = 0
  <2>1. off[n + 1] = 0
    BY <1>1, <1>2 DEF Fits
  <2>2. QED
    BY <1>1, <2>1
<1>3. CASE n # 0
  <2>1. n \in 1 .. n
    BY <1>1, <1>3
  <2>2. off[n + 1] = off[n] + Width[entry[n]] /\ off[n] + Width[entry[n]] <= Len(file)
    BY <2>1 DEF Fits, Holds
  <2>3. QED
    BY <1>1, <2>2
<1>4. QED
  BY <1>2, <1>3

\* A new process finds the log.
LEMMA Loads ==
    ASSUME NEW off, NEW entry, data \in Seq(Cell), Fits(off, entry, data)
    PROVE  LoadedEntries(off) = entry
<1> DEFINE n == Len(entry)
<1>1. /\ entry \in Seq(Value) /\ n \in Nat /\ Len(off) = n + 1
      /\ \A i \in 1 .. n + 1 : off[i] \in Nat
  BY FitsTypes
<1>2. Len(off) - 1 = n
  BY <1>1
<1>3. ASSUME NEW i \in 1 .. n
      PROVE  ParseFromString(read_from_offset(data, off[i], off[i + 1] - off[i]))
                = entry[i]
  <2>1. entry[i] \in Value /\ Width[entry[i]] \in Nat
    BY <1>1, Widths
  <2>2. i \in 1 .. n + 1 /\ i + 1 \in 1 .. n + 1
    BY <1>1
  <2>3. off[i + 1] = off[i] + Width[entry[i]] /\ Holds(data, off[i], entry[i])
    BY DEF Fits
  <2>4. off[i] \in Nat /\ off[i + 1] - off[i] = Width[entry[i]]
    BY <1>1, <2>1, <2>2, <2>3
  <2>5. QED
    BY <2>1, <2>3, <2>4, Parses
<1>4. entry = [i \in 1 .. n |-> entry[i]]
  BY <1>1
<1>5. LoadedEntries(off) = [i \in 1 .. n |-> entry[i]]
  BY <1>2, <1>3 DEF LoadedEntries
<1>6. QED
  BY <1>4, <1>5


\* An entry is written at the offset of its index.
LEMMA WriteFits ==
    ASSUME NEW off, NEW entry, NEW file \in Seq(Cell), Fits(off, entry, file),
           NEW index \in 0 .. Len(entry), NEW e \in Value,
           NEW w, w = write_at(file, off[index + 1], encode(e))
    PROVE  /\ w \in Seq(Cell)
           /\ Fits(modify_offset_vector_after_insert(off, index, Width[e]),
                   Append(SubSeq(entry, 1, index), e), w)
           /\ index = Len(entry) => Fits(off, entry, w)
<1> DEFINE o == SubSeq(off, 1, index + 1)
           p == SubSeq(entry, 1, index)
           from == off[index + 1]
<1>1. /\ entry \in Seq(Value) /\ Len(entry) \in Nat
      /\ off \in Seq(Nat) /\ Len(off) = Len(entry) + 1
      /\ \A i \in 1 .. Len(entry) + 1 : off[i] \in Nat
      /\ index \in Nat /\ index <= Len(entry) /\ Len(file) \in Nat
  BY FitsTypes
<1>2. index + 1 \in 1 .. Len(entry) + 1 /\ index + 1 \in 1 .. index + 1
  BY <1>1
<1>3. from \in Nat
  BY <1>1, <1>2
<1>4. Fits(o, p, file)
  BY FitsPrefix
<1>5. Len(o) = index + 1 /\ o[index + 1] = from
  BY <1>1, <1>2
<1>6. o[Len(o)] = from
  BY <1>5
<1>7. encode(e) \in Seq(Cell) /\ Len(encode(e)) = Width[e] /\ Width[e] \in Nat
  BY Encoded, Widths
<1> HIDE DEF o, p, from
<1>8. /\ w \in Seq(Cell) /\ Len(w) \in Nat
      /\ Len(w) >= from + Width[e] /\ Len(w) >= Len(file)
      /\ \A k \in 1 .. Width[e] : w[from + k] = encode(e)[k]
      /\ \A k \in 1 .. Len(file) : k <= from => w[k] = file[k]
  <2>1. w = write_at(file, from, encode(e))
    BY DEF from
  <2>2. QED
    BY <1>3, <1>7, <2>1, Written
<1>9. from <= Len(w)
  BY <1>3, <1>7, <1>8
<1>10. Holds(w, from, e)
  BY <1>8, Encoded DEF Holds
<1>11. Fits(o, p, w)
  BY <1>1, <1>4, <1>6, <1>8, <1>9, FitsSame
<1>12. Fits(Append(o, o[Len(o)] + Width[e]), Append(p, e), w)
  BY <1>6, <1>10, <1>11, FitsAppend
<1>13. Append(o, o[Len(o)] + Width[e])
          = modify_offset_vector_after_insert(off, index, Width[e])
  BY <1>6 DEF modify_offset_vector_after_insert, o, from
<1>14. ASSUME index = Len(entry) PROVE Fits(off, entry, w)
  <2>1. off[Len(off)] = from
    BY <1>1, <1>14 DEF from
  <2>2. QED
    BY <1>1, <1>8, <1>9, <2>1, FitsSame
<1>15. QED
  BY <1>8, <1>12, <1>13, <1>14 DEF p

\* What lies behind the last offset is cut off.
LEMMA CutFits ==
    ASSUME NEW off, NEW entry, NEW file \in Seq(Cell), Fits(off, entry, file),
           NEW n \in Nat, off[Len(off)] <= n, n <= Len(file)
    PROVE  SubSeq(file, 1, n) \in Seq(Cell) /\ Fits(off, entry, SubSeq(file, 1, n))
<1> DEFINE c == SubSeq(file, 1, n)
<1>1. Len(file) \in Nat /\ off[Len(off)] \in Nat
  BY FitsWithin
<1>2. c \in Seq(Cell) /\ Len(c) = n /\ \A k \in 1 .. n : c[k] = file[k]
  BY <1>1
<1> HIDE DEF c
<1>3. \A k \in 1 .. Len(file) : k <= off[Len(off)] => k \in 1 .. n
  BY <1>1
<1>4. \A k \in 1 .. Len(file) : k <= off[Len(off)] => c[k] = file[k]
  BY <1>2, <1>3
<1>5. Fits(off, entry, c)
  BY <1>1, <1>2, <1>4, FitsSame
<1>6. QED
  BY <1>2, <1>5 DEF c

-----------------------------------------------------------------------------
(* The steps of an insert. *)

LEMMA MemoryFacts ==
    ASSUME SInv, pc # "down"
    PROVE  /\ entries \in Seq(Value) /\ size \in Nat /\ Len(entries) \in Nat
           /\ size <= Len(entries)
           /\ Before \in Seq(Value) /\ Len(Before) = size
           /\ \A i \in 0 .. size : SubSeq(Before, 1, i) = SubSeq(entries, 1, i)
           /\ pc # "idle" => /\ arg.index \in 0 .. size /\ arg.e \in Value
                             /\ arg.index \in Nat /\ arg.index <= size
<1>1. entries \in Seq(Value) /\ size \in 0 .. Len(entries)
  BY DEF SInv, MemoryOK
<1>2. size \in Nat /\ Len(entries) \in Nat /\ size <= Len(entries)
  BY <1>1
<1>3. Before \in Seq(Value) /\ Len(Before) = size
  BY <1>1, <1>2 DEF Before
<1>4. ASSUME NEW i \in 0 .. size PROVE SubSeq(Before, 1, i) = SubSeq(entries, 1, i)
  BY <1>1, <1>2, <1>4 DEF Before
<1>5. pc # "idle" => arg.index \in 0 .. size /\ arg.e \in Value
  BY DEF SInv, MemoryOK
<1>6. pc # "idle" => arg.index \in Nat /\ arg.index <= size
  BY <1>2, <1>5
<1>7. QED
  BY <1>1, <1>2, <1>3, <1>4, <1>5, <1>6

LEMMA InitS ==
    ASSUME Init
    PROVE  SInv
<1>1. /\ data = << >> /\ offset = <<0>> /\ entries = << >> /\ size = 0
      /\ pc = "idle" /\ offset_file = [exists |-> FALSE, offsets |-> << >>]
  BY DEF Init
<1>2. LoadedOffset = <<0>>
  BY <1>1 DEF LoadedOffset
<1>3. Before = << >>
  BY <1>1 DEF Before
<1>4. /\ <<0>> \in Seq(Nat) /\ Len(<<0>>) = 1 /\ <<0>>[1] = 0 /\ Len(<< >>) = 0
      /\ << >> \in Seq(Value) /\ << >> \in Seq(Cell)
  OBVIOUS
<1>5. Fits(<<0>>, << >>, << >>)
  <2>1. 1 .. 0 = {} /\ 1 .. 1 = {1} /\ 0 + 1 = 1
    OBVIOUS
  <2>2. QED
    BY <1>4, <2>1 DEF Fits
<1>6. QED
  BY <1>1, <1>2, <1>3, <1>4, <1>5 DEF SInv, MemoryOK, DiskOK, InsertOK, Steps

LEMMA InsertKeeps ==
    ASSUME SInv, NEW index \in Nat, NEW e \in Value, insert(index, e)
    PROVE  SInv'
<1>1. /\ pc = "idle" /\ index <= size /\ pc' = "write"
      /\ arg' = [index |-> index, e |-> e]
      /\ UNCHANGED <<data, offset_file, offset, entries, size>>
  BY DEF insert
<1>2. arg'.index = index /\ arg'.e = e
  BY <1>1
<1>3. index \in 0 .. size
  BY <1>1, MemoryFacts
<1>4. LoadedOffset' = LoadedOffset /\ Before' = Before
  BY <1>1 DEF LoadedOffset, Before
<1>5. MemoryOK'
  BY <1>1, <1>2, <1>3 DEF SInv, MemoryOK
<1>6. DiskOK'
  BY <1>1, <1>4 DEF SInv, DiskOK
<1>7. InsertOK'
  BY <1>1 DEF InsertOK
<1>8. QED
  BY <1>1, <1>5, <1>6, <1>7 DEF SInv, Steps

LEMMA WriteKeeps ==
    ASSUME SInv, write
    PROVE  SInv'
<1>1. /\ pc = "write" /\ pc' = "ftruncate"
      /\ data' = write_at(data, offset[arg.index + 1], encode(arg.e))
      /\ UNCHANGED <<offset_file, offset, entries, size, arg>>
  BY DEF write
<1>2. /\ LoadedOffset' = LoadedOffset /\ Before' = Before /\ After' = After
      /\ NewOffset' = NewOffset /\ Appending' = Appending
  BY <1>1 DEF LoadedOffset, Before, After, NewOffset, Appending
<1>3. LoadedOffset = offset /\ Fits(offset, Before, data) /\ data \in Seq(Cell)
  BY <1>1 DEF SInv, DiskOK
<1>4. /\ arg.index \in 0 .. Len(Before) /\ arg.e \in Value /\ Len(Before) = size
      /\ After = Append(SubSeq(Before, 1, arg.index), arg.e)
  BY <1>1, MemoryFacts DEF After
<1>5. /\ data' \in Seq(Cell) /\ Fits(NewOffset, After, data')
      /\ arg.index = Len(Before) => Fits(offset, Before, data')
  BY <1>1, <1>3, <1>4, WriteFits DEF NewOffset
<1>6. offset \in Seq(Nat) /\ Len(offset) = size + 1
  BY <1>3, <1>4, FitsTypes
<1>7. MemoryOK'
  BY <1>1 DEF SInv, MemoryOK
<1>8. DiskOK'
  BY <1>1, <1>2, <1>3, <1>4, <1>5 DEF DiskOK, Appending
<1>9. InsertOK'
  BY <1>1, <1>2, <1>5, <1>6 DEF InsertOK
<1>10. QED
  BY <1>1, <1>5, <1>7, <1>8, <1>9 DEF SInv, Steps

LEMMA FtruncateKeeps ==
    ASSUME SInv, ftruncate
    PROVE  SInv'
<1> DEFINE n == offset[arg.index + 1] + Width[arg.e]
<1>1. /\ pc = "ftruncate" /\ pc' = "open"
      /\ data' = SubSeq(data, 1, n) /\ offset' = NewOffset
      /\ UNCHANGED <<offset_file, entries, size, arg>>
  BY DEF ftruncate, NewOffset
<1>2. /\ LoadedOffset' = LoadedOffset /\ Before' = Before /\ After' = After
      /\ Appending' = Appending
  BY <1>1 DEF LoadedOffset, Before, After, Appending
<1>3. /\ offset \in Seq(Nat) /\ Len(offset) = size + 1
      /\ Fits(NewOffset, After, data) /\ data \in Seq(Cell)
  BY <1>1 DEF SInv, InsertOK
<1>4. /\ size \in Nat /\ arg.index \in Nat /\ arg.index <= size /\ arg.e \in Value
      /\ Width[arg.e] \in Nat /\ Width[arg.e] >= 1
  BY <1>1, MemoryFacts, Widths
<1>5. arg.index + 1 \in 1 .. Len(offset) /\ offset[arg.index + 1] \in Nat
  BY <1>3, <1>4
<1>6. n \in Nat /\ offset[arg.index + 1] <= n
  BY <1>4, <1>5
<1>7. NewOffset = Append(SubSeq(offset, 1, arg.index + 1), n)
  BY DEF NewOffset, modify_offset_vector_after_insert
<1> HIDE DEF n
<1>8. NewOffset[Len(NewOffset)] = n
  <2>1. SubSeq(offset, 1, arg.index + 1) \in Seq(Nat)
    BY <1>3, <1>4, <1>5
  <2>2. QED
    BY <1>6, <1>7, <2>1
<1>9. n <= Len(data) /\ n <= n
  BY <1>3, <1>6, <1>8, FitsWithin
<1>10. data' \in Seq(Cell) /\ Fits(offset', After', data')
  BY <1>1, <1>2, <1>3, <1>6, <1>8, <1>9, CutFits
<1>11. Appending => Fits(LoadedOffset, Before, data')
  <2>1. SUFFICES ASSUME Appending PROVE Fits(LoadedOffset, Before, data')
    OBVIOUS
  <2>2. LoadedOffset = offset /\ Fits(offset, Before, data)
    BY <1>1, <2>1 DEF SInv, DiskOK
  <2>3. offset[Len(offset)] = offset[arg.index + 1]
    BY <1>3, <2>1 DEF Appending
  <2>4. QED
    BY <1>1, <1>3, <1>6, <1>9, <2>2, <2>3, CutFits
<1>12. MemoryOK'
  BY <1>1 DEF SInv, MemoryOK
<1>13. DiskOK'
  BY <1>1, <1>2, <1>11 DEF DiskOK
<1>14. InsertOK'
  BY <1>1, <1>10 DEF InsertOK
<1>15. QED
  BY <1>1, <1>10, <1>12, <1>13, <1>14 DEF SInv, Steps

LEMMA OpenKeeps ==
    ASSUME SInv, open_offset_file
    PROVE  SInv'
<1>1. /\ pc = "open" /\ pc' = "flush"
      /\ UNCHANGED <<data, offset, entries, size, arg>>
  BY DEF open_offset_file
<1>2. After' = After
  BY <1>1 DEF After
<1>3. QED
  BY <1>1, <1>2 DEF SInv, Steps, MemoryOK, DiskOK, InsertOK

LEMMA FlushKeeps ==
    ASSUME SInv, write_offset_to_file
    PROVE  SInv'
<1>1. /\ pc = "flush" /\ pc' = "memory"
      /\ offset_file' = [exists |-> TRUE, offsets |-> offset]
      /\ UNCHANGED <<data, offset, entries, size, arg>>
  BY DEF write_offset_to_file
<1>2. After' = After
  BY <1>1 DEF After
<1>3. LoadedOffset' = offset
  BY <1>1 DEF LoadedOffset
<1>4. QED
  BY <1>1, <1>2, <1>3 DEF SInv, Steps, MemoryOK, DiskOK, InsertOK

\* The vector after the insert, up to the new size.
LEMMA MemoryInserts ==
    ASSUME NEW es \in Seq(Value), NEW i \in 0 .. Len(es), NEW e \in Value, NEW fs,
           fs = IF i = Len(es) THEN Append(es, e) ELSE [es EXCEPT ![i + 1] = e]
    PROVE  /\ fs \in Seq(Value) /\ i + 1 \in 0 .. Len(fs)
           /\ SubSeq(fs, 1, i + 1) = Append(SubSeq(es, 1, i), e)
<1>1. Len(es) \in Nat /\ i \in Nat /\ i <= Len(es)
  OBVIOUS
<1>2. /\ fs \in Seq(Value) /\ Len(fs) \in Nat /\ i + 1 <= Len(fs)
      /\ fs[i + 1] = e /\ \A j \in 1 .. i : fs[j] = es[j]
  <2>1. CASE i = Len(es)
    BY <1>1, <2>1
  <2>2. CASE i # Len(es)
    <3>1. i + 1 \in 1 .. Len(es)
      BY <1>1, <2>2
    <3>2. /\ fs \in Seq(Value) /\ Len(fs) = Len(es)
      BY <2>2, <3>1, ExceptSeq
    <3>3. fs[i + 1] = e /\ \A j \in 1 .. i : fs[j] = es[j]
      BY <1>1, <2>2, <3>1
    <3>4. QED
      BY <1>1, <3>1, <3>2, <3>3
  <2>3. QED
    BY <2>1, <2>2
<1>3. SubSeq(fs, 1, i + 1) = Append(SubSeq(es, 1, i), e)
  <2> DEFINE a == SubSeq(fs, 1, i + 1)
             b == Append(SubSeq(es, 1, i), e)
  <2>1. a \in Seq(Value) /\ Len(a) = i + 1 /\ \A j \in 1 .. i + 1 : a[j] = fs[j]
    BY <1>1, <1>2
  <2>2. /\ SubSeq(es, 1, i) \in Seq(Value) /\ Len(SubSeq(es, 1, i)) = i
        /\ \A j \in 1 .. i : SubSeq(es, 1, i)[j] = es[j]
    BY <1>1
  <2>3. /\ b \in Seq(Value) /\ Len(b) = i + 1 /\ b[i + 1] = e
        /\ \A j \in 1 .. i : b[j] = es[j]
    BY <1>1, <2>2
  <2> HIDE DEF a, b
  <2>4. \A j \in 1 .. i + 1 : a[j] = b[j]
    <3>1. \A j \in 1 .. i + 1 : j = i + 1 \/ j \in 1 .. i
      BY <1>1
    <3>2. QED
      BY <1>2, <2>1, <2>3, <3>1
  <2>5. a = b
    BY <2>1, <2>3, <2>4, SeqEqual
  <2>6. QED
    BY <2>5 DEF a, b
<1>4. QED
  BY <1>1, <1>2, <1>3


LEMMA MemoryKeeps ==
    ASSUME SInv, insert_in_memory
    PROVE  SInv' /\ pc = "memory" /\ pc' = "idle" /\ Before' = After
<1>1. /\ pc = "memory" /\ pc' = "idle" /\ size' = arg.index + 1
      /\ entries' = IF arg.index = Len(entries) THEN Append(entries, arg.e)
                    ELSE [entries EXCEPT ![arg.index + 1] = arg.e]
      /\ UNCHANGED <<data, offset_file, offset, arg>>
  BY DEF insert_in_memory
<1>2. /\ entries \in Seq(Value) /\ arg.e \in Value
      /\ arg.index \in 0 .. Len(entries)
  BY <1>1, MemoryFacts
<1>3. /\ entries' \in Seq(Value) /\ size' \in 0 .. Len(entries') /\ Before' = After
  BY <1>1, <1>2, MemoryInserts DEF Before, After
<1>4. LoadedOffset = offset /\ LoadedOffset' = LoadedOffset /\ Fits(offset, After, data)
  BY <1>1 DEF SInv, DiskOK, InsertOK, LoadedOffset
<1>5. MemoryOK'
  BY <1>1, <1>3 DEF MemoryOK
<1>6. DiskOK'
  BY <1>1, <1>3, <1>4 DEF DiskOK
<1>7. InsertOK'
  BY <1>1 DEF InsertOK
<1>8. QED
  BY <1>1, <1>3, <1>5, <1>6, <1>7 DEF SInv, Steps

-----------------------------------------------------------------------------
(* Kills and restarts. *)

\* What a kill leaves is the log before the insert or the one after it.
LEMMA CrashLeaves ==
    ASSUME SInv, HarmlessKills, Crash
    PROVE  /\ pc # "down" /\ pc' = "down"
           /\ UNCHANGED <<data, offset_file>>
           /\ \/ Fits(LoadedOffset, Before, data)
              \/ pc = "memory" /\ Fits(LoadedOffset, After, data)
<1>1. /\ pc' = "down" /\ UNCHANGED <<data, offset_file>>
      /\ \/ pc = "idle"
         \/ pc # "idle" /\ Appending /\ pc \in CrashAppend
         \/ pc # "idle" /\ ~Appending /\ pc \in CrashOverwrite
  BY DEF Crash
<1>2. pc \in Steps
  BY <1>1, StoreAssumption DEF Steps
<1>3. pc # "down" /\ pc # "flush"
  BY <1>1, <1>2 DEF HarmlessKills, Steps
<1>4. CASE pc \in {"idle", "write"}
  BY <1>1, <1>3, <1>4 DEF SInv, DiskOK
<1>5. CASE pc \in {"ftruncate", "open"}
  <2>1. Appending
    BY <1>1, <1>5 DEF HarmlessKills
  <2>2. QED
    BY <1>1, <1>3, <1>5, <2>1 DEF SInv, DiskOK
<1>6. CASE pc = "memory"
  BY <1>1, <1>3, <1>6 DEF SInv, DiskOK, InsertOK
<1>7. QED
  BY <1>2, <1>3, <1>4, <1>5, <1>6 DEF Steps

LEMMA CrashKeeps ==
    ASSUME SInv, HarmlessKills, Crash
    PROVE  SInv'
<1>1. /\ pc' = "down" /\ UNCHANGED <<data, offset_file>> /\ data \in Seq(Cell)
      /\ \E entry : Fits(LoadedOffset, entry, data)
  BY CrashLeaves DEF SInv
<1>2. Fits(LoadedOffset, LoadedEntries(LoadedOffset), data)
  BY <1>1, Loads
<1>3. /\ LoadedOffset' = LoadedOffset
      /\ LoadedEntries(LoadedOffset)' = LoadedEntries(LoadedOffset)
  BY <1>1 DEF LoadedOffset, LoadedEntries
<1>4. QED
  BY <1>1, <1>2, <1>3 DEF SInv, MemoryOK, DiskOK, InsertOK

LEMMA LoadKeeps ==
    ASSUME SInv, Load
    PROVE  /\ SInv' /\ pc = "down" /\ pc' = "idle"
           /\ Before' = LoadedEntries(LoadedOffset)
<1> DEFINE entry == LoadedEntries(LoadedOffset)
<1>1. /\ pc = "down" /\ pc' = "idle" /\ offset' = LoadedOffset
      /\ entries' = entry /\ size' = Len(LoadedOffset) - 1
      /\ UNCHANGED <<data, offset_file>>
  BY DEF Load
<1>2. Fits(LoadedOffset, entry, data) /\ data \in Seq(Cell)
  BY <1>1 DEF SInv, DiskOK
<1> HIDE DEF entry
<1>3. /\ entry \in Seq(Value) /\ Len(entry) \in Nat
      /\ Len(LoadedOffset) = Len(entry) + 1
  BY <1>2, FitsTypes
<1>4. size' = Len(entry) /\ size' \in 0 .. Len(entries')
  BY <1>1, <1>3
<1>5. Before' = entry
  BY <1>1, <1>3, <1>4 DEF Before
<1>6. LoadedOffset' = LoadedOffset
  BY <1>1 DEF LoadedOffset
<1>7. QED
  BY <1>1, <1>2, <1>3, <1>4, <1>5, <1>6
     DEF SInv, Steps, MemoryOK, DiskOK, InsertOK, entry

-----------------------------------------------------------------------------

LEMMA StutterKeeps ==
    ASSUME SInv, UNCHANGED vars
    PROVE  SInv'
<1>1. UNCHANGED <<data, offset_file, offset, entries, size, pc, arg>>
  BY DEF vars
<1>2. /\ LoadedOffset' = LoadedOffset /\ Before' = Before /\ After' = After
      /\ NewOffset' = NewOffset /\ Appending' = Appending
      /\ LoadedEntries(LoadedOffset)' = LoadedEntries(LoadedOffset)
  BY <1>1 DEF LoadedOffset, Before, After, NewOffset, Appending, LoadedEntries
<1>3. MemoryOK'
  BY <1>1 DEF SInv, MemoryOK
<1>4. DiskOK'
  BY <1>1, <1>2 DEF SInv, DiskOK
<1>5. InsertOK'
  BY <1>1, <1>2 DEF SInv, InsertOK
<1>6. QED
  BY <1>1, <1>3, <1>4, <1>5 DEF SInv

LEMMA StoreStep ==
    ASSUME SInv, HarmlessKills, [Next]_vars
    PROVE  SInv'
<1>1. ASSUME NEW index \in 0 .. MaxSize, NEW e \in Value, insert(index, e)
      PROVE  SInv'
  <2>1. index \in Nat
    BY StoreAssumption
  <2>2. QED
    BY <1>1, <2>1, InsertKeeps
<1>2. QED
  BY <1>1, WriteKeeps, FtruncateKeeps, OpenKeeps, FlushKeeps, MemoryKeeps,
     CrashKeeps, LoadKeeps, StutterKeeps DEF Next

LEMMA StoreInvariance ==
    ASSUME HarmlessKills
    PROVE  Spec => []SInv
<1>1. SInv /\ [Next]_vars => SInv'
  BY StoreStep
<1>2. QED
  BY <1>1, InitS, PTL DEF Spec

\* Whenever no insert is under way the offsets on disk are those of whole
\* entries in the data file (entry.h:46), for any entries and any number of
\* inserts and of kills that do no harm.
THEOREM OffsetsFitData ==
    ASSUME HarmlessKills
    PROVE  Spec => []OffsetsMatchData
<1>1. ASSUME SInv, pc \in {"idle", "down"}
      PROVE  /\ LoadedOffset # << >> /\ LoadedOffset[1] = 0
             /\ LoadedOffset[Len(LoadedOffset)] <= Len(data)
             /\ \A i \in DOMAIN LoadedEntries(LoadedOffset) :
                   LoadedEntries(LoadedOffset)[i] # Unparsable
  <2>1. data \in Seq(Cell)
    BY <1>1 DEF SInv
  <2>2. PICK entry : Fits(LoadedOffset, entry, data)
    BY <1>1 DEF SInv, DiskOK
  <2>3. LoadedOffset[Len(LoadedOffset)] <= Len(data)
    BY <2>1, <2>2, FitsWithin
  <2>4. LoadedEntries(LoadedOffset) = entry
    BY <2>1, <2>2, Loads
  <2>5. entry \in Seq(Value) /\ Len(LoadedOffset) = Len(entry) + 1 /\ Len(entry) \in Nat
    BY <2>2, FitsTypes
  <2>6. \A i \in DOMAIN entry : entry[i] # Unparsable
    BY <2>5, StoreAssumption
  <2>7. LoadedOffset # << >>
    BY <2>5
  <2>8. LoadedOffset[1] = 0
    BY <2>2 DEF Fits
  <2>9. QED
    BY <2>3, <2>4, <2>6, <2>7, <2>8
<1>2. SInv => OffsetsMatchData
  BY <1>1 DEF OffsetsMatchData
<1>3. QED
  BY <1>2, StoreInvariance, PTL

-----------------------------------------------------------------------------
(* The store implements LogStore. *)

\* The log changes when the memory does, or when the process is killed before
\* that and both files are written.
LEMMA InsertsAfter ==
    ASSUME SInv, pc = "memory", Log' = After
    PROVE  Abstract!Next
<1>1. Log = Before
  BY DEF Log, Before
<1>2. /\ arg.index \in 0 .. Len(Log) /\ arg.e \in Value
      /\ SubSeq(Log, 1, arg.index) = SubSeq(entries, 1, arg.index)
      /\ arg.index <= Len(Log)
  BY <1>1, MemoryFacts
<1>3. Abstract!Insert(arg.index, arg.e)
  BY <1>2 DEF Abstract!Insert, After
<1>4. QED
  BY <1>2, <1>3 DEF Abstract!Next

LEMMA AbstractStep ==
    ASSUME SInv, HarmlessKills, [Next]_vars
    PROVE  Abstract!Next \/ UNCHANGED Log
<1>1. CASE \/ \E index \in 0 .. MaxSize, e \in Value : insert(index, e)
           \/ write \/ ftruncate \/ open_offset_file \/ write_offset_to_file
  <2>1. pc # "down" /\ pc' # "down" /\ UNCHANGED <<entries, size>>
    BY <1>1 DEF insert, write, ftruncate, open_offset_file, write_offset_to_file
  <2>2. QED
    BY <2>1 DEF Log
<1>2. CASE insert_in_memory
  <2>1. pc = "memory" /\ pc' = "idle" /\ Before' = After
    BY <1>2, MemoryKeeps
  <2>2. Log' = After
    BY <2>1 DEF Log, Before
  <2>3. QED
    BY <2>1, <2>2, InsertsAfter
<1>3. CASE Crash
  <2>1. /\ pc # "down" /\ pc' = "down" /\ UNCHANGED <<data, offset_file>>
        /\ \/ Fits(LoadedOffset, Before, data)
           \/ pc = "memory" /\ Fits(LoadedOffset, After, data)
    BY <1>3, CrashLeaves
  <2>2. Log = Before /\ Log' = LoadedEntries(LoadedOffset)
    BY <2>1 DEF Log, Before, LoadedOffset, LoadedEntries
  <2>3. data \in Seq(Cell)
    BY DEF SInv
  <2>4. QED
    BY <2>1, <2>2, <2>3, Loads, InsertsAfter
<1>4. CASE Load
  <2>1. pc = "down" /\ pc' = "idle" /\ Before' = LoadedEntries(LoadedOffset)
    BY <1>4, LoadKeeps
  <2>2. QED
    BY <2>1 DEF Log, Before
<1>5. CASE UNCHANGED vars
  BY <1>5 DEF vars, Log, LoadedOffset, LoadedEntries
<1>6. QED
  BY <1>1, <1>2, <1>3, <1>4, <1>5 DEF Next

\* An insert happens at once or not at all, and a restart changes nothing
\* (Entries::insert, Entries::Entries): the two files always hold the log
\* before or the log after the insert under way, for any entries and any number
\* of inserts and of kills that do no harm.
THEOREM InsertsAreAtomic ==
    ASSUME HarmlessKills
    PROVE  Spec => InsertIsAtomic
<1>1. Init => Abstract!Init
  BY DEF Init, Abstract!Init, Log
<1>2. SInv /\ [Next]_vars => [Abstract!Next]_Log
  BY AbstractStep
<1>3. QED
  BY <1>1, <1>2, StoreInvariance, PTL DEF Spec, InsertIsAtomic, Abstract!Spec

=============================================================================
