------------------------------- MODULE Layout -------------------------------
(***************************************************************************)
(* Items one behind the other in a buffer: the parameters of SPDP and SEDP *)
(* and the names of a partition, the submessages of a message and the      *)
(* fields of a submessage.  An offset maps to the item that begins there;  *)
(* an item of no bytes leaves none.                                        *)
(***************************************************************************)
EXTENDS Integers, Sequences

MaxU16 == 65535

Pad4(n) == ((n + 3) \div 4) * 4

\* Where the first k items end, when the first begins at `from`.
Ends(from, sizes) ==
  LET end[k \in 0..Len(sizes)] == IF k = 0 THEN from ELSE end[k - 1] + sizes[k]
  IN  end

LayOut(from, sizes, items) ==
  LET end == Ends(from, sizes)
      put == {k \in 1..Len(sizes) : sizes[k] > 0}
  IN  [size |-> end[Len(sizes)],
       at |-> [o \in {end[k - 1] : k \in put} |->
                 items[CHOOSE k \in put : end[k - 1] = o]]]
=============================================================================
