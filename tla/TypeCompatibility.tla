-------------------------- MODULE TypeCompatibility --------------------------
(***************************************************************************)
(* Whether a reader accepts what a writer of another version of its type   *)
(* sends: check_type_compatibility of dds-core and is_assignable_from of   *)
(* dds-xtypes.                                                             *)
(*                                                                         *)
(* A type object is as TypeLookup encodes it: a tag, 0 for Minimal and 1   *)
(* for Complete, above <<name, extensibility, members>>, and a member is   *)
(* <<name, type identifier, is_key, is_optional>>.                         *)
(***************************************************************************)
EXTENDS Integers, Sequences, Functions, FiniteSetsExt

\* Final, Appendable, Mutable.
Extensibility == 0..2

MembersOf(obj) == obj.arm[3]

\* A type object whose members have names of their own.
IsTypeObject(obj) ==
  /\ obj.arm[2] \in Extensibility
  /\ MembersOf(obj) \in Seq(Range(MembersOf(obj)))
  /\ \A i, j \in DOMAIN MembersOf(obj) :
       MembersOf(obj)[i][1] = MembersOf(obj)[j][1] => i = j
  /\ \A m \in Range(MembersOf(obj)) : m[3] \in {0, 1} /\ m[4] \in {0, 1}

-----------------------------------------------------------------------------
\* The places of a name; of two members with one name the map keeps the last.
MemberNamed(obj, name) == {i \in DOMAIN MembersOf(obj) : MembersOf(obj)[i][1] = name}

SameNames(want, have) ==                               \* mutant of SamePrefix
  \A i \in DOMAIN want \cap DOMAIN have : want[i][1] = have[i][1]

\* zip compares as far as both lists go.
SamePrefix(want, have) ==
  \A i \in DOMAIN want \cap DOMAIN have :
    want[i][1] = have[i][1] /\ want[i][2] = have[i][2]

\* An absent member must be optional; a present one must have its type.
EachIsServed(receiver, sender) ==
  \A m \in Range(MembersOf(receiver)) :
    LET found == MemberNamed(sender, m[1])
    IN  IF found = {} THEN m[3] = 0 /\ m[4] = 1
        ELSE MembersOf(sender)[Max(found)][2] = m[2]

IsAssignableFrom(receiver, sender) ==
  LET want == MembersOf(receiver)
      have == MembersOf(sender)
  IN  /\ sender.arm[2] <= receiver.arm[2]
      /\ \/ receiver.arm[2] = 0 /\ Len(want) = Len(have) /\ SamePrefix(want, have)
         \/ receiver.arm[2] = 1 /\ Len(want) <= Len(have) /\ SamePrefix(want, have)
         \/ receiver.arm[2] = 2 /\ EachIsServed(receiver, sender)

\* DisallowTypeCoercion is 0, AllowTypeCoercion 1.
CheckTypeCompatibility(kind, offered, requested) ==
  IF kind = 0 THEN offered = requested ELSE IsAssignableFrom(requested, offered)

-----------------------------------------------------------------------------
Holds(obj) == {<<m[1], m[2]>> : m \in Range(MembersOf(obj))}

\* The members a reader cannot do without.
Needs(obj) ==
  {<<m[1], m[2]>> : m \in {n \in Range(MembersOf(obj)) : n[3] = 1 \/ n[4] = 0}}

(***************************************************************************)
(* What a reader accepts carries each of its keys and mandatory members    *)
(* with the type it expects; no coercion is stricter than coercion; and    *)
(* compatibility survives a chain of versions: a reader that accepts a     *)
(* version accepts what that version accepts, as long as the version has   *)
(* all its members and requires those it requires.                         *)
(***************************************************************************)
CompatibilityIsSound(requested, offered, others) ==
  LET covers == Holds(requested) \subseteq Holds(offered)
                  /\ Needs(requested) \subseteq Needs(offered)
  IN  /\ CheckTypeCompatibility(1, offered, requested) => Needs(requested) \subseteq Holds(offered)
      /\ CheckTypeCompatibility(0, offered, requested) => CheckTypeCompatibility(1, offered, requested)
      /\ (CheckTypeCompatibility(1, offered, requested) /\ covers) =>
           \A older \in others : CheckTypeCompatibility(1, older, offered) =>
                                   CheckTypeCompatibility(1, older, requested)
=============================================================================
