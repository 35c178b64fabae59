----------------------------- MODULE DirentParse -----------------------------
(***************************************************************************)
(* Taking apart the records a directory is read in (internal/dirent).  A   *)
(* buffer is a sequence of bytes; where the fields of a record lie is a    *)
(* parameter, as it is for the code, which asks syscall.Dirent.            *)
(***************************************************************************)
EXTENDS Integers, SequencesExt

CONSTANTS
  InoOff, InoSize,         \* offset and size of Ino,
  ReclenOff, ReclenSize,   \* of Reclen,
  TypeOff,                 \* of Type, which is a byte,
  NameOff,                 \* and of Name
  Word                     \* arithmetic on uint64 is modulo Word

ASSUME LayoutAssumption ==
  /\ {InoOff, ReclenOff, TypeOff, NameOff} \subseteq Nat
  /\ {InoSize, ReclenSize, Word} \subseteq Nat \ {0}

Byte    == 0 .. 255
Missing == -1

\* readInt: the little-endian number in bytes off + 1 .. off + size of b, if they are there.
ReadInt(b, off, size) ==
  LET value[i \in 0 .. size] == IF i = size THEN 0 ELSE b[off + i + 1] + 256 * value[i + 1]
  IN  IF Len(b) < off + size THEN Missing ELSE value[0]

Reclen(b) == ReadInt(b, ReclenOff, ReclenSize)
Ino(b)    == ReadInt(b, InoOff, InoSize)

\* direntNamlen: what follows the fixed part, padding included.
Namlen(b) == (Reclen(b) - NameOff) % Word

\* direntType and dtToType: the file type a DT_ code stands for.
TypeOf(code) ==
  CASE code = 4  -> "dir"
    [] code = 8  -> "file"
    [] code = 10 -> "link"
    [] code \in {1, 2, 6, 12} -> "other"
    [] OTHER -> "unknown"

DirentType(b) == IF TypeOff >= Len(b) THEN "unknown" ELSE TypeOf(b[TypeOff + 1])

\* The bytes before the first NUL.
CString(s) ==
  LET i == SelectInSeq(s, LAMBDA c : c = 0)
  IN  IF i = 0 THEN s ELSE SubSeq(s, 1, i - 1)

\* Faulty variant: the length is reported only together with a name.
NamelessStuck(n) == [consumed |-> 0, name |-> <<>>, typ |-> "unknown"]

\* A record that names no file.
Nameless(n) == [consumed |-> n, name |-> <<>>, typ |-> "unknown"]

\* A record that ends before its name would: the sum wraps to less than the name's offset,
\* and slicing the record with these bounds panics.
NameWraps(rec) == (NameOff + Namlen(rec)) % Word < NameOff
Panic == [consumed |-> 0, name |-> <<>>, typ |-> "panic"]

\* Parse: the first record of buf.  Unless it panics, the caller is told the record's length;
\* nothing is consumed only if even that is not there.
Parse(buf) ==
  LET rec == SubSeq(buf, 1, Reclen(buf))
  IN  IF Reclen(buf) = Missing \/ Reclen(buf) > Len(buf) THEN Nameless(0)
      ELSE IF Ino(rec) \in {Missing, 0} \/ Reclen(rec) = Missing
              \/ (NameOff + Namlen(rec)) % Word > Len(rec)
      THEN Nameless(Reclen(buf))
      ELSE IF NameWraps(rec) THEN Panic
      ELSE [consumed |-> Reclen(buf),
            name     |-> CString(SubSeq(rec, NameOff + 1, NameOff + Namlen(rec))),
            typ      |-> DirentType(buf)]

-----------------------------------------------------------------------------
(* What the kernel puts into the buffer for [ino, code, name], for a layout *)
(* with the fields in this order.                                          *)

\* The bytes of number n in k bytes.
Bytes(n, k) == [i \in 1 .. k |-> (n \div 256 ^ (i - 1)) % 256]

Encode(r) ==
  LET bare == NameOff + Len(r.name) + 1
      len  == bare + (-bare % 4)
  IN  Bytes(r.ino, InoSize) \o Bytes(len, ReclenSize) \o <<r.code>> \o r.name
      \o [i \in 1 .. len - NameOff - Len(r.name) |-> 0]
=============================================================================
