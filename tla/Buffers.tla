------------------------------- MODULE Buffers -------------------------------
(***************************************************************************)
(* The data providers (src/src/dataprovider.cpp,                           *)
(* src/src/filelistdataprovider.cpp): GpgME reads its input and writes its *)
(* output through calls of a provider, which keeps it in a byte array or   *)
(* passes it on to a device.                                               *)
(*                                                                         *)
(* A byte array provider is [array, off]. Bytes are numbers; 0 is the NUL  *)
(* byte. Each operation is a function of the provider and of what GpgME    *)
(* asks for, and yields the new provider and, for a read, the bytes.       *)
(***************************************************************************)
EXTENDS Integers, Sequences, SequencesExt

CONSTANT IntSize   \* an int is one of -IntSize..(IntSize - 1)

NewProvider(bytes) == [array |-> bytes, off |-> 0]

Size(p) == Len(p.array)
AtEnd(p) == p.off >= Size(p)

\* read(): what is left, up to n bytes; nothing is the end.
Amount(p, n) == IF n < Size(p) - p.off THEN n ELSE Size(p) - p.off
BytesRead(p, n) == IF AtEnd(p) THEN <<>> ELSE SubSeq(p.array, p.off + 1, p.off + Amount(p, n))
read(p, n) == IF AtEnd(p) THEN p ELSE [p EXCEPT !.off = @ + Amount(p, n)]

\* resizeAndInit(): the new bytes are 0.
resizeAndInit(bytes, size) == bytes \o [i \in 1..(size - Len(bytes)) |-> 0]

\* (Mutant of Grown: it grows by what is written, wherever it is written.)
GrownByChunk(p, n) == IF AtEnd(p) THEN resizeAndInit(p.array, Size(p) + n) ELSE p.array

\* The array grows only for a write that begins at its end or behind it.
Grown(p, n) == IF AtEnd(p) THEN resizeAndInit(p.array, p.off + n) ELSE p.array

\* write(): asserts that the bytes fit, so one that begins inside must end inside.
MayWrite(p, n) == p.off + n <= Len(Grown(p, n))
write(p, bytes) ==
  LET array == Grown(p, Len(bytes)) IN
  [array |-> [i \in DOMAIN array |->
                IF i \in (p.off + 1)..(p.off + Len(bytes)) THEN bytes[i - p.off] ELSE array[i]],
   off |-> p.off + Len(bytes)]

\* The place that a seek asks for.
Sought(p, offset, whence) ==
  CASE whence = "SEEK_SET" -> offset
    [] whence = "SEEK_CUR" -> p.off + offset
    [] whence = "SEEK_END" -> Size(p) + offset

\* What an int keeps of a number.
AsInt(n) ==
  IF n \in -IntSize..(IntSize - 1) THEN n ELSE ((n + IntSize) % (2 * IntSize)) - IntSize

\* seek(): no bounds are checked, and the new offset is computed as an int.
NewOffset(p, offset, whence) == AsInt(Sought(p, offset, whence))
seek(p, offset, whence) == [p EXCEPT !.off = NewOffset(p, offset, whence)]

\* encodeFilenames(): each name that is not empty, followed by a NUL, without the last.
Chopped(bytes) == IF bytes = <<>> THEN bytes ELSE Front(bytes)
encodeFilenames(names) ==
  Chopped(FoldLeft(LAMBDA bytes, name : IF name = <<>> THEN bytes ELSE bytes \o Append(name, 0), <<>>, names))

------------------------------------------------------------------------------
\* The device provider is [errorOccurred]. Some devices answer -1 at their end and set
\* no error, of which GpgME takes no notice. errno tells them from broken ones, if nothing
\* before has left an error in it, for nobody clears it.
DeviceRead(answer, errorOccurred, errno) ==
  CASE answer # "-1" -> answer
    [] answer = "-1" /\ (errno \/ errorOccurred) -> "EIO"
    [] OTHER -> "0"
ErrorOccurredAfter(answer, errorOccurred) == errorOccurred \/ answer \in {"-1", "EIO"}

\* (Mutant of ProcessRead: the end of a process is the end of its data.)
ProcessReadAnyEnd(process, available) == IF available > 0 THEN "bytes" ELSE "0"

\* blocking_read(): what a process that sends the data ends like. While it runs and has
\* sent nothing, the read waits.
ProcessRead(process, available) ==
  CASE available > 0 -> "bytes"
    [] available = 0 /\ process = "exited" -> "0"
    [] available = 0 /\ process = "failed" -> "EIO"

------------------------------------------------------------------------------
\* An output device is [array, off, sequential]: what was written to it and the place of
\* the next write, as its provider finds them.
NewDevice(sequential) == [array |-> <<>>, off |-> 0, sequential |-> sequential]

\* What GpgME may call for an output device.
isSupported(d, op) == op \in {"Write", "Release"} \/ (op = "Seek" /\ ~d.sequential)

DeviceWrite(d, bytes) ==
  LET end == d.off + Len(bytes)
      array == IF end > Size(d) THEN resizeAndInit(d.array, end) ELSE d.array IN
  [d EXCEPT !.array = [i \in DOMAIN array |-> IF i \in (d.off + 1)..end THEN bytes[i - d.off] ELSE array[i]],
            !.off = end]

\* (Mutant of DeviceSeek: the end of a device is taken for its front.)
DeviceSeekFromFront(d, offset, whence) ==
  [answer |-> IF offset < 0 THEN "EINVAL" ELSE "ok",
   device |-> IF offset < 0 THEN d ELSE [d EXCEPT !.off = offset]]

\* seek(): a device takes no place before its front.
DeviceSeek(d, offset, whence) ==
  CASE d.sequential -> [answer |-> "ESPIPE", device |-> d]
    [] ~d.sequential /\ Sought(d, offset, whence) < 0 -> [answer |-> "EINVAL", device |-> d]
    [] OTHER -> [answer |-> "ok", device |-> [d EXCEPT !.off = Sought(d, offset, whence)]]
==============================================================================
