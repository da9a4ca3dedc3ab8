------------------------------ MODULE CdrStream ------------------------------
(***************************************************************************)
(* The streams of dds-cdr: what CdrSerializer appends and CdrDeserializer  *)
(* takes one at a time.                                                    *)
(*                                                                         *)
(* A buffer is a sequence of cells, one per byte.  A primitive of n bytes  *)
(* leaves n cells that name its size, its value and the byte order; taken  *)
(* at another place, with another size or in another order it is           *)
(* Unreadable.                                                             *)
(***************************************************************************)
EXTENDS Integers, Sequences

CONSTANT Unreadable

ASSUME UnreadableAssumption == Unreadable \notin Nat

Aligned(offset, alignment) == offset + ((alignment - (offset % alignment)) % alignment)

ByteCells(size, value, order) ==
  [i \in 1..size |-> <<size, value, i, IF size = 1 THEN "any" ELSE order>>]

Padding(n) == [i \in 1..n |-> <<0, 0, 0, "any">>]

\* EncapsulationKind::endianness: the even kinds are big-endian.
OrderOf(kind) == IF kind % 2 = 0 THEN "big" ELSE "little"

EncapsulationKinds == (0..3) \union (16..19)

-----------------------------------------------------------------------------
(***************************************************************************)
(* CdrSerializer: a buffer and a byte order.                               *)
(***************************************************************************)
Writer(order) == [buf |-> <<>>, order |-> order]

AppendBytes(w, bytes) == [w EXCEPT !.buf = @ \o bytes]

Align(w, alignment) ==
  AppendBytes(w, Padding(Aligned(Len(w.buf), alignment) - Len(w.buf)))

PutPrim(w, size, value) == AppendBytes(Align(w, size), ByteCells(size, value, w.order))

PutStr(w, chars) ==
  AppendBytes(PutPrim(w, 4, Len(chars) + 1),
              [i \in 1..Len(chars) |-> <<1, chars[i], 1, "any">>] \o ByteCells(1, 0, w.order))

\* EMHEADER: 14 bits of length above 16 of identifier, or the long form.
ShortHeader == 65536
LongForm == 268435456

AnyLengthShort(id, length) ==                          \* mutant of IsShort
  id < ShortHeader /\ length < ShortHeader

IsShort(id, length) == id < ShortHeader /\ length <= 16383

PutEmheader(w, id, length) ==
  LET a == Align(w, 4)
  IN  IF IsShort(id, length) THEN PutPrim(a, 4, (length % 16384) * ShortHeader + id)
      ELSE PutPrim(PutPrim(a, 4, 4 * LongForm + (id % LongForm)), 4, length)

\* The kind is big-endian whatever the serializer's order.
PutEncapsulation(w, kind) ==
  LET a == AppendBytes(Align(w, 2), ByteCells(2, kind, "big"))
  IN  PutPrim(PutPrim(a, 1, 0), 1, 0)

-----------------------------------------------------------------------------
(***************************************************************************)
(* CdrDeserializer: the buffer, the offset, and what was read last.  An    *)
(* error ends the reading.                                                 *)
(***************************************************************************)
ReaderAt(at, buf, order) ==
  [buf |-> buf, at |-> at, order |-> order, value |-> <<>>, ok |-> TRUE]

Reader(buf, order) == ReaderAt(0, buf, order)

Fail(r) == [r EXCEPT !.ok = FALSE, !.value = <<>>]

Remaining(r) == Len(r.buf) - r.at

Took(r, to, value) == [r EXCEPT !.at = to, !.value = value]

Take(r, size) ==
  LET from == Aligned(r.at, size)
      cells == SubSeq(r.buf, from + 1, from + size)
  IN  IF ~r.ok \/ from + size > Len(r.buf) THEN Fail(r)
      ELSE Took(r, from + size,
                IF cells = ByteCells(size, cells[1][2], r.order) THEN cells[1][2] ELSE Unreadable)

\* What is read as a length, a tag or a header must be one.
TakeNumber(r, size) == LET t == Take(r, size) IN IF t.value = Unreadable THEN Fail(t) ELSE t

Skip(r, n) == IF ~r.ok \/ n > Remaining(r) THEN Fail(r) ELSE [r EXCEPT !.at = @ + n]

TakeBytes(r, n) ==
  LET s == Skip(r, n)
  IN  IF s.ok THEN [s EXCEPT !.value = [i \in 1..n |-> r.buf[r.at + i][2]]] ELSE s

\* Some peers count the NUL and leave it out at the end of the buffer.
TakeStr(r) ==
  LET len == TakeNumber(r, 4)
      n == len.value
  IN  IF ~len.ok \/ n = 0 THEN Fail(len)
      ELSE IF Remaining(len) >= n THEN Skip(TakeBytes(len, n - 1), 1)
      ELSE IF Remaining(len) + 1 = n THEN TakeBytes(len, n - 1)
      ELSE Fail(len)

\* Reads a header into the fields id and length.
TakeEmheader(r) ==
  LET head == TakeNumber(r, 4)
      long == TakeNumber(head, 4)
  IN  IF ~head.ok THEN [r |-> head, id |-> 0, length |-> 0]
      ELSE IF head.value \div LongForm = 4
      THEN [r |-> long, id |-> head.value % LongForm, length |-> long.value]
      ELSE [r |-> head, id |-> head.value % ShortHeader,
            length |-> (head.value \div ShortHeader) % 16384]

TakeEncapsulation(r) ==
  LET kind == TakeNumber([r EXCEPT !.order = "big"], 2)
      options == Take(Take(kind, 1), 1)
  IN  IF ~options.ok \/ kind.value \notin EncapsulationKinds THEN Fail(options)
      ELSE [options EXCEPT !.order = OrderOf(kind.value)]

-----------------------------------------------------------------------------
(***************************************************************************)
(* A member header gives its identifier and its length back, in either     *)
(* byte order and behind any number of bytes: no length spills into the    *)
(* bits that choose the form, and both sides align alike.                  *)
(***************************************************************************)
EmheaderSurvives(order, before, id, length) ==
  LET w == AppendBytes(Writer(order), Padding(before))
      buf == PutEmheader(w, id, length).buf
      h == TakeEmheader(ReaderAt(before, buf, order))
  IN  h.r.ok /\ h.id = id /\ h.length = length /\ Remaining(h.r) = 0
=============================================================================
