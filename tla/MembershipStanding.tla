------------------------- MODULE MembershipStanding -------------------------
(***************************************************************************)
(* What src/src/membership.rs promises about one peer: the holders of the  *)
(* admin key issue records, every device's standing for the peer is one    *)
(* of the records issued, and it only ever changes to a record of higher   *)
(* rank, wherever that record came from.                                   *)
(***************************************************************************)
EXTENDS Naturals

CONSTANTS Devices,    \* devices of the Circle
          KeyHolders  \* those of them that hold admin.key

Standing == {"in", "out"}

Record == [gen : Nat, st : Standing]

\* The place of a peer that no record is about.
Unnamed == [gen |-> 0, st |-> "in"]

VARIABLES issued,  \* every record ever signed
          view     \* view[d]: the record that decides on d

standingVars == <<issued, view>>

\* deciding: the higher generation, and `out` at the same generation.
Outranks(r, s) ==
  \/ r.gen > s.gen
  \/ r.gen = s.gen /\ r.st = "out" /\ s.st = "in"

TypeOK ==
  /\ issued \subseteq Record
  /\ view \in [Devices -> Record]

Init ==
  /\ issued = {}
  /\ view = [d \in Devices |-> Unnamed]

\* A key holder signs the record after the one that decides for it.
Issue(d, st) ==
  LET r == [gen |-> view[d].gen + 1, st |-> st]
  IN  /\ issued' = issued \cup {r}
      /\ view' = [view EXCEPT ![d] = r]

\* A device is relayed records by anyone.
Learn(d) ==
  \E r \in issued :
    /\ Outranks(r, view[d])
    /\ view' = [view EXCEPT ![d] = r]
    /\ UNCHANGED issued

Next ==
  \/ \E d \in KeyHolders, st \in Standing : Issue(d, st)
  \/ \E d \in Devices : Learn(d)

Spec == Init /\ [][Next]_standingVars

-----------------------------------------------------------------------------
(* Consequences                                                            *)

\* Every device's decision is a record that a key holder signed.
OnlySigned == \A d \in Devices : view[d] = Unnamed \/ view[d] \in issued

\* No step takes a device back to a record of lower rank.
NeverFallsBack ==
  [][\A d \in Devices : view'[d] = view[d] \/ Outranks(view'[d], view[d])]_standingVars
=============================================================================
