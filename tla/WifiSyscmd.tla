----------------------------- MODULE WifiSyscmd -----------------------------
(***************************************************************************)
(* source/wifi/wifi_hal.c, _syscmd: runs a command and collects its output *)
(* in the caller's buffer, one fgets() at a time.  Nearly every getter of  *)
(* the WiFi HAL goes through it, with buffers of 64 to 2048 bytes.         *)
(*                                                                         *)
(* The characters do not matter, only how many there are: fgets stops at   *)
(* the end of a line, so it may return any number of characters up to its  *)
(* limit.  A definition marked "Variant" is not part of the model: it is   *)
(* the one below it with a plausible mistake.                              *)
(***************************************************************************)
EXTENDS Integers

CONSTANTS
  Chunk,       \* the 128 of the code: the most one fgets() is asked for
  Sizes,       \* the sizes of the callers' buffers
  MaxOutput    \* bound on the length of a command's output

ASSUME ChunkAssumption == Chunk \in Nat /\ Chunk >= 2
ASSUME SizesAssumption == Sizes \subseteq Nat \ {0}
ASSUME OutputAssumption == MaxOutput \in Nat

VARIABLES
  size,        \* retBufSize
  off,         \* ptr - retBuf
  bufSize,     \* what the loop takes to be left of the buffer
  left,        \* characters of the output not read yet
  eof,         \* feof(f)
  high,        \* one past the highest index of retBuf written so far
  pc,
  ret

vars == <<size, off, bufSize, left, eof, high, pc, ret>>

TypeOK ==
  /\ size \in Sizes
  /\ off \in Nat /\ bufSize \in Nat /\ left \in Nat /\ high \in Nat
  /\ eof \in BOOLEAN
  /\ pc \in {"popen", "loop", "fgets", "close", "done"}
  /\ ret \in {"none", "OK", "ERR"}

Init ==
  /\ size \in Sizes
  /\ off = 0
  /\ bufSize = size
  /\ left \in 0 .. MaxOutput
  /\ eof = FALSE
  /\ high = 0
  /\ pc = "popen"
  /\ ret = "none"

(* The highest index written, after a write at index i. *)
Written(i) == high' = IF i >= high THEN i + 1 ELSE high

(* A command that cannot be started leaves the buffer as it was. *)
Popen ==
  /\ pc = "popen"
  /\ \/ pc' = "loop" /\ UNCHANGED ret
     \/ pc' = "done" /\ ret' = "ERR"
  /\ UNCHANGED <<size, off, bufSize, left, eof, high>>

Loop ==
  /\ pc = "loop"
  /\ \/ eof /\ pc' = "close" /\ UNCHANGED high
     \/ ~eof /\ pc' = "fgets" /\ Written(off)
  /\ UNCHANGED <<size, off, bufSize, left, eof, ret>>

(* Variant: the terminating zero is not counted. *)
BufbytesNoZero == IF bufSize >= Chunk THEN Chunk ELSE bufSize + 1
(* bufbytes: fgets() may write that many bytes, the zero included. *)
Bufbytes == IF bufSize >= Chunk THEN Chunk ELSE bufSize - 1

(* r characters are read, and a zero is written behind them.  The end of   *)
(* the output is noticed when it comes before the end of the line.         *)
ReadLine(r) ==
  /\ off' = off + r
  /\ bufSize' = bufSize - r
  /\ left' = left - r
  /\ eof' \in {FALSE} \cup (IF left = r /\ r < Bufbytes - 1 THEN {TRUE} ELSE {})
  /\ Written(off + r)
  /\ pc' = "loop"

(* Variant: an empty read does not end the loop. *)
NothingReadGoesOn ==
  /\ pc' = "loop"
  /\ eof' = (left = 0 /\ Bufbytes >= 2)
  /\ UNCHANGED <<off, bufSize, left, high>>
(* fgets() gives NULL at the end of the output or when bufbytes is 0, and   *)
(* an empty string when it is 1: readbytes is 0 and the loop is left.       *)
NothingRead ==
  /\ pc' = "close"
  /\ eof' = (left = 0 /\ Bufbytes >= 2)
  /\ UNCHANGED <<off, bufSize, left, high>>

(* Variant: only the first line is sure to be read. *)
FgetsOnce ==
  /\ pc = "fgets"
  /\ \/ /\ Bufbytes >= 2 /\ left > 0
        /\ \E r \in 1 .. (Bufbytes - 1) : r <= left /\ ReadLine(r)
     \/ (Bufbytes < 2 \/ left = 0 \/ off > 0) /\ NothingRead
  /\ UNCHANGED <<size, ret>>
Fgets ==
  /\ pc = "fgets"
  /\ \/ /\ Bufbytes >= 2 /\ left > 0
        /\ \E r \in 1 .. (Bufbytes - 1) : r <= left /\ ReadLine(r)
     \/ (Bufbytes < 2 \/ left = 0) /\ NothingRead
  /\ UNCHANGED <<size, ret>>

(* pclose(), and a zero in the last byte of the buffer. *)
Close ==
  /\ pc = "close"
  /\ Written(size - 1)
  /\ pc' = "done"
  /\ ret' = "OK"
  /\ UNCHANGED <<size, off, bufSize, left, eof>>

Next == Popen \/ Loop \/ Fgets \/ Close

Spec == Init /\ [][Next]_vars

-----------------------------------------------------------------------------
(* No byte behind the caller's buffer is ever written, for any size the    *)
(* callers use and whatever the lines of the output are (186-207): the     *)
(* three counters ptr, bufSize and bufbytes have to agree all along.       *)
InBounds == high <= size

(* The collected text is cut short only when the buffer is full: of the    *)
(* room for text at most one byte stays unused.  (188-205: the loop has    *)
(* three ways out, and none may lose output that still fits.)              *)
CutOnlyWhenFull == ret = "OK" => left = 0 \/ off >= size - 2

-----------------------------------------------------------------------------
(* The inductive invariant: bufSize is what is left of the buffer.         *)
Counters ==
  /\ TypeOK
  /\ bufSize = size - off
  /\ off < size
  /\ high <= size
  /\ eof => left = 0
  /\ pc = "close" \/ ret = "OK" => left = 0 \/ off >= size - 2
=============================================================================
