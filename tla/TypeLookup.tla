----------------------------- MODULE TypeLookup -----------------------------
(***************************************************************************)
(* The TypeLookup service of dds-xtypes: the types of its requests and     *)
(* replies, as dds-cdr encodes them, and what a participant answers from   *)
(* its type-object database.                                               *)
(*                                                                         *)
(* An identifier is a tag with an argument; the digest of an object is     *)
(* abstracted to the first letter of its name, so that objects of          *)
(* different names have different identifiers.                             *)
(***************************************************************************)
EXTENDS Cdr, FiniteSets

TiMinimal == 241           \* TI_MINIMAL_CONSTRUCTED
TiComplete == 242          \* TI_COMPLETE_CONSTRUCTED
GetTypesHash == 25318099
GetDependenciesHash == 95091505
MemberTypeIds == 206790757
MemberTypes == 41962193
MemberCompleteToMinimal == 193881463
MemberContinuationPoint == 84468690
MemberDependentTypeIds == 195354569

-----------------------------------------------------------------------------
(***************************************************************************)
(* TypeIdentifier and TypeObject.  The element of a sequence or an array   *)
(* is an identifier again.                                                 *)
(***************************************************************************)
ElementDepth == 2                \* bound: sequences and arrays within one another
PrimitiveTags == (0..11) \union {16, 17}
Nothing == Struct(<<>>)
DigestType == Array(Prim(1), 14)

TypeIdentifier ==
  LET arms[d \in 0..ElementDepth] ==
        LET element == IF d = 0 THEN Nothing ELSE Union(1, arms[d - 1])
        IN  [tag \in PrimitiveTags \union {112, 113, 114, 115, TiMinimal, TiComplete} \union
                     (IF d = 0 THEN {} ELSE {129, 130, 145, 146}) |->
               CASE tag \in PrimitiveTags           -> Nothing
                 [] tag \in {112, 114}              -> Prim(1)
                 [] tag \in {113, 115}              -> Prim(4)
                 [] tag \in {129, 145}              -> Struct(<<Prim(1), element>>)
                 [] tag \in {130, 146}              -> Struct(<<Prim(4), element>>)
                 [] tag \in {TiMinimal, TiComplete} -> DigestType]
  IN  Union(1, arms[ElementDepth])

\* Member: name, type_id, is_key, is_optional.
StructureType ==
  Struct(<<Str, Prim(1), Vec(Struct(<<Str, TypeIdentifier, Prim(1), Prim(1)>>))>>)

\* 0 is Minimal, 1 is Complete.
TypeObject == Union(1, 0 :> StructureType @@ 1 :> StructureType)

Digest(obj) == [i \in 1..14 |-> obj.arm[1][1]]

GetIdentifier(obj) ==
  [tag |-> IF obj.tag = 0 THEN TiMinimal ELSE TiComplete, arm |-> Digest(obj)]

-----------------------------------------------------------------------------
(***************************************************************************)
(* TypeLookup_Request and TypeLookup_Reply.                                *)
(***************************************************************************)
SampleIdentity == Struct(<<Array(Prim(1), 16), Prim(4), Prim(4)>>)
RequestHeader == Struct(<<SampleIdentity, Str>>)

GetTypesIn == Mutable(<<Member(MemberTypeIds, Vec(TypeIdentifier))>>)

GetTypesOut ==
  Mutable(<<Member(MemberTypes, Vec(Struct(<<TypeIdentifier, TypeObject>>))),
            Member(MemberCompleteToMinimal, Vec(Struct(<<TypeIdentifier, TypeIdentifier>>)))>>)

ContinuationPoint == Member(MemberContinuationPoint, Vec(Prim(1)))

GetTypeDependenciesIn ==
  Mutable(<<Member(MemberTypeIds, Vec(TypeIdentifier)), ContinuationPoint>>)

\* TypeIdentifierWithDependencies: the root, its size, the count and the list.
WithDependencies == Struct(<<Struct(<<TypeIdentifier, Prim(4)>>), Prim(4), Vec(TypeIdentifier)>>)

GetTypeDependenciesOut ==
  Mutable(<<Member(MemberDependentTypeIds, Vec(WithDependencies)), ContinuationPoint>>)

Call == Union(4, GetTypesHash :> GetTypesIn @@ GetDependenciesHash :> GetTypeDependenciesIn)

\* The result is a union of its own, with the return code as tag.
Return ==
  Union(4, GetTypesHash :> Union(4, 0 :> GetTypesOut)
           @@ GetDependenciesHash :> Union(4, 0 :> GetTypeDependenciesOut))

\* to_wire_bytes and from_wire_bytes, behind a DxtCdr2Le header.
Request == Encapsulated(17, Struct(<<RequestHeader, Call>>))
Reply == Encapsulated(17, Struct(<<RequestHeader, Return>>))

OverTheWire(type, value) == Decode(Reader(Written("little", type, value), "little"), type).value

-----------------------------------------------------------------------------
(***************************************************************************)
(* The service.  db maps identifiers to objects.                           *)
(***************************************************************************)
RegisterTypeObject(db, obj) == (GetIdentifier(obj) :> obj) @@ db

IsHashTypeId(id) == id.tag \in {TiMinimal, TiComplete}

OnlyComplete(obj) ==                                   \* mutant of DirectDependencies
  SelectSeq([i \in DOMAIN obj.arm[3] |-> obj.arm[3][i][2]], LAMBDA id : id.tag = TiMinimal)

\* A hash inside a sequence or an array is not followed.
DirectDependencies(obj) ==
  SelectSeq([i \in DOMAIN obj.arm[3] |-> obj.arm[3][i][2]], IsHashTypeId)

KnownTo(db, ids) == SelectSeq(ids, LAMBDA id : id \in DOMAIN db)

HandleGetTypes(ids, db) ==
  LET found == KnownTo(db, ids)
      minimal == SelectSeq(found, LAMBDA id : id.tag = TiMinimal /\ db[id].tag = 1)
  IN  <<  << [i \in DOMAIN found |-> <<found[i], db[found[i]]>>] >>,
          << [i \in DOMAIN minimal |->
                <<GetIdentifier(db[minimal[i]]),
                  GetIdentifier([db[minimal[i]] EXCEPT !.tag = 0])>>] >>  >>

SerializedSize(obj) == Len(Written("little", TypeObject, obj))

\* What one root already named is not named again by the next.
HandleGetTypeDependencies(ids, db) ==
  LET roots == SelectSeq(KnownTo(db, ids), IsHashTypeId)
      step == FoldLeft(
        LAMBDA s, root :
          LET unseen == FoldLeft(LAMBDA list, id : IF id \in s.seen \union Range(list) THEN list
                                                   ELSE Append(list, id),
                                 <<>>, DirectDependencies(db[root]))
          IN  [seen |-> s.seen \union Range(unseen),
               out |-> Append(s.out, <<<<root, SerializedSize(db[root])>>, Len(unseen), unseen>>)],
        [seen |-> {}, out |-> <<>>], roots)
  IN  << <<step.out>>, <<>> >>

ServeTypeLookupRequest(request, db) ==
  LET call == request[2]
      ids == call.arm[1][1]
  IN  <<request[1],
        [tag |-> call.tag,
         arm |-> [tag |-> 0,
                  arm |-> IF call.tag = GetTypesHash THEN HandleGetTypes(ids, db)
                          ELSE HandleGetTypeDependencies(ids, db)]]>>

\* process_type_lookup_request, between two participants: both ways on the wire.
Ask(header, call, db) ==
  OverTheWire(Reply,
    ServeTypeLookupRequest(OverTheWire(Request, <<header, call>>), db))

-----------------------------------------------------------------------------
Types(header, ids, db) ==
  LET out == Ask(header, [tag |-> GetTypesHash, arm |-> << <<ids>> >>], db)[2].arm.arm
  IN  Range(out[1][1])

Dependencies(header, ids, db) ==
  LET out == Ask(header, [tag |-> GetDependenciesHash, arm |-> << <<ids>>, <<>> >>], db)[2].arm.arm
  IN  UNION {Range(entry[3]) : entry \in Range(out[1][1])}

\* A client that asks for the dependencies of all it knows, again and again.
Collected(header, roots, db) ==
  LET known[n \in 0..Cardinality(DOMAIN db)] ==
        IF n = 0 THEN roots
        ELSE UNION {S \union Dependencies(header, SetToSeq(S), db) : S \in {known[n - 1]}}
  IN  UNION {Types(header, SetToSeq(S), db) : S \in {known[Cardinality(DOMAIN db)]}}

(***************************************************************************)
(* Following the answers, over the wire, a client gets the object of every *)
(* type that members name directly, from the roots on at any distance, and *)
(* of no other, although a reply names what several roots share only once. *)
(* A type that only a sequence or an array names is out of it: the service *)
(* does not follow it.  The client is the specification's own.             *)
(***************************************************************************)
LookupReachesEveryType(header, roots, db) ==
  LET mentioned(id) == {m[2] : m \in Range(db[id].arm[3])} \intersect DOMAIN db
      closed(S) == (roots \intersect DOMAIN db) \subseteq S /\ \A id \in S : mentioned(id) \subseteq S
  IN  \E pairs \in {Collected(header, roots, db)} :
        LET got == {pair[1] : pair \in pairs}
        IN  /\ pairs = {<<id, db[id]>> : id \in got}
            /\ closed(got)
            /\ \A S \in SUBSET (DOMAIN db) : closed(S) => got \subseteq S
=============================================================================
