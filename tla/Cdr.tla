-------------------------------- MODULE Cdr --------------------------------
(***************************************************************************)
(* The encoder and the decoder of dds-cdr, driven by a type.               *)
(*                                                                         *)
(* A type is a record: prim (size), str, vec, array, opt, struct, union,   *)
(* mutable (members with an identifier, each there or not), parameters     *)
(* (a ParameterList) and encapsulated (behind an encapsulation header).    *)
(***************************************************************************)
EXTENDS CdrStream, SequencesExt, FiniteSetsExt

\* FoldLeft, with the state of each step computed before the next begins.
InTurn(Op(_, _), start, seq) ==
  LET after[i \in 0..Len(seq)] ==
        IF i = 0 THEN start
        ELSE CHOOSE s \in {Op(before, seq[i]) : before \in {after[i - 1]}} : TRUE
  IN  after[Len(seq)]

Prim(size)          == [k |-> "prim", size |-> size]
Str                 == [k |-> "str"]
Vec(type)           == [k |-> "vec", of |-> type]
Array(type, n)      == [k |-> "array", of |-> type, n |-> n]
Opt(type)           == [k |-> "opt", of |-> type]
Struct(types)       == [k |-> "struct", members |-> types]
Union(size, arms)   == [k |-> "union", size |-> size, arms |-> arms]
Mutable(members)    == [k |-> "mutable", members |-> members]
Member(id, type)    == [id |-> id, type |-> type]
Parameters          == [k |-> "parameters"]
Encapsulated(kind, type) == [k |-> "encapsulated", kind |-> kind, of |-> type]

\* patch_dheader: the length does not count the header itself.
CountingItself(w, offset) ==                           \* mutant of PatchDheader
  [w EXCEPT !.buf = SubSeq(@, 1, offset) \o ByteCells(4, Len(@) - offset, w.order)
                    \o SubSeq(@, offset + 5, Len(@))]

PatchDheader(w, offset) ==
  [w EXCEPT !.buf = SubSeq(@, 1, offset) \o ByteCells(4, Len(@) - offset - 4, w.order)
                    \o SubSeq(@, offset + 5, Len(@))]

PutParameter(w, parameter) ==
  LET n == Len(parameter.value)
      padded == Aligned(n + 4, 4)
      head == PutPrim(PutPrim(PutPrim(w, 2, parameter.pid), 2, padded), 4, n)
  IN  AppendBytes(AppendBytes(head, [i \in 1..n |-> <<1, parameter.value[i], 1, "any">>]),
                  Padding(padded - n - 4))

PutParameters(w, list) ==
  PutPrim(PutPrim(FoldLeft(PutParameter, w, list), 2, 1), 2, 0)

RECURSIVE Encode(_, _, _)

\* A member is serialized in a buffer of its own, then appended.
PutMember(w, member, value) ==
  LET body == Encode(Writer(w.order), member.type, value).buf
  IN  AppendBytes(PutEmheader(w, member.id, Len(body)), body)

Encode(w, type, value) ==
  CASE type.k = "prim" -> PutPrim(w, type.size, value)
    [] type.k = "str" -> PutStr(w, value)
    [] type.k = "vec" ->
         InTurn(LAMBDA x, e : Encode(x, type.of, e), PutPrim(w, 4, Len(value)), value)
    [] type.k = "array" -> InTurn(LAMBDA x, e : Encode(x, type.of, e), w, value)
    [] type.k = "opt" ->
         IF value = <<>> THEN PutPrim(w, 1, 0) ELSE Encode(PutPrim(w, 1, 1), type.of, value[1])
    [] type.k = "struct" ->
         InTurn(LAMBDA x, i : Encode(x, type.members[i], value[i]), w,
                  [i \in DOMAIN type.members |-> i])
    [] type.k = "union" ->
         Encode(PutPrim(w, type.size, value.tag), type.arms[value.tag], value.arm)
    [] type.k = "mutable" ->
         LET start == Align(w, 4)
         IN  PatchDheader(
               InTurn(LAMBDA x, i : IF value[i] = <<>> THEN x
                                      ELSE PutMember(x, type.members[i], value[i][1]),
                        PutPrim(start, 4, 0), [i \in DOMAIN type.members |-> i]),
               Len(start.buf))
    [] type.k = "parameters" -> PutParameters(w, value)
    [] type.k = "encapsulated" -> Encode(PutEncapsulation(w, type.kind), type.of, value)

-----------------------------------------------------------------------------
RECURSIVE TakeParameters(_, _)
TakeParameters(r, list) ==
  LET pid == TakeNumber(r, 2)
      len == TakeNumber(pid, 2)
      unpadded == TakeNumber(len, 4)
      value == TakeBytes(unpadded, unpadded.value)
      rest == len.value - unpadded.value - 4
  IN  IF ~len.ok THEN len
      ELSE IF pid.value = 1 THEN [len EXCEPT !.value = list]
      ELSE IF pid.value = 0 THEN TakeParameters(Skip(len, len.value), list)
      ELSE IF ~unpadded.ok \/ ~value.ok THEN Fail(unpadded)
      ELSE TakeParameters(IF rest > 0 THEN Skip(value, rest) ELSE value,
                          Append(list, [pid |-> pid.value, value |-> value.value]))

RECURSIVE Decode(_, _), TakeMember(_, _, _, _), TakeMembers(_, _, _, _)

\* One value of each type, in order.
Each(r, types) ==
  InTurn(LAMBDA x, t : LET y == Decode(x, t) IN [y EXCEPT !.value = Append(x.value, @)],
           [r EXCEPT !.value = <<>>], types)

\* In place: alignment counts from the start of the whole buffer.
SkipHeaderAgain(h) == Skip(h.r, h.length + 4)          \* mutant of SkipUnknown

SkipUnknown(h) == Skip(h.r, h.length)

SkipRest(h, body) ==
  LET left == h.length - (body.at - h.r.at)
  IN  IF left > 0 THEN Skip(body, left) ELSE body

TakeMember(h, members, end, got) ==
  LET known == {i \in DOMAIN members : members[i].id = h.id}
      body == IF known = {} THEN SkipUnknown(h) ELSE Decode(h.r, members[Min(known)].type)
  IN  IF ~h.r.ok THEN h.r
      ELSE TakeMembers(SkipRest(h, body), members, end,
                       IF known = {} THEN got ELSE [got EXCEPT ![Min(known)] = <<body.value>>])

TakeMembers(r, members, end, got) ==
  IF ~r.ok \/ r.at >= end THEN [r EXCEPT !.value = got]
  ELSE TakeMember(TakeEmheader(r), members, end, got)

Decode(r, type) ==
  CASE ~r.ok -> r
    [] type.k = "prim" -> Take(r, type.size)
    [] type.k = "str" -> TakeStr(r)
    [] type.k = "vec" ->
         LET len == TakeNumber(r, 4)
         IN  IF len.ok THEN Each(len, [i \in 1..len.value |-> type.of]) ELSE len
    [] type.k = "array" -> Each(r, [i \in 1..type.n |-> type.of])
    [] type.k = "opt" ->
         LET flag == TakeNumber(r, 1)
         IN  IF ~flag.ok \/ flag.value = 0 THEN [flag EXCEPT !.value = <<>>]
             ELSE Each(flag, <<type.of>>)
    [] type.k = "struct" -> Each(r, type.members)
    [] type.k = "union" ->
         LET tag == TakeNumber(r, type.size)
             arm == Decode(tag, type.arms[tag.value])
         IN  IF ~tag.ok \/ tag.value \notin DOMAIN type.arms THEN Fail(tag)
             ELSE [arm EXCEPT !.value = [tag |-> tag.value, arm |-> @]]
    [] type.k = "mutable" ->
         LET head == TakeNumber(r, 4)
         IN  IF ~head.ok THEN head
             ELSE TakeMembers(head, type.members, r.at + 4 + head.value,
                              [i \in DOMAIN type.members |-> <<>>])
    [] type.k = "parameters" -> TakeParameters(r, <<>>)
    [] type.k = "encapsulated" -> Decode(TakeEncapsulation(r), type.of)

-----------------------------------------------------------------------------
Written(order, type, value) == Encode(Writer(order), type, value).buf

(***************************************************************************)
(* What is written is read back, to the last byte: padding, lengths and    *)
(* headers of nested values are where the decoder expects them, although   *)
(* mutable members are aligned from 0 by the encoder and in place by the   *)
(* decoder.  Not promised of 8-byte fields inside a mutable member.        *)
(***************************************************************************)
ValueIsReadBack(order, type, value) ==
  LET r == Decode(Reader(Written(order, type, value), order), type)
  IN  r.ok /\ r.value = value /\ Remaining(r) = 0

(***************************************************************************)
(* A reader that knows only some of the members of a mutable type finds    *)
(* those, whatever the writer put between them.                            *)
(***************************************************************************)
UnknownMembersSkipped(order, members, value, known) ==
  LET mine == SetToSortSeq(known, <)
      r == Decode(Reader(Written(order, Mutable(members), value), order),
                  Mutable([i \in DOMAIN mine |-> members[mine[i]]]))
  IN  /\ r.ok /\ Remaining(r) = 0
      /\ \A i \in DOMAIN mine : r.value[i] = value[mine[i]]
=============================================================================
