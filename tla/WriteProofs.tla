---------------------------- MODULE WriteProofs ----------------------------
(***************************************************************************)
(* The theorems about WriteImpl.  Two inductive invariants hold: WriteInv  *)
(* (module WriteGroups), on which threads may be where, and on top of it   *)
(* DataInv /\ SequenceInv (modules WriteData and WriteSequence), on what   *)
(* is written and with which sequence numbers.  The invariants that the    *)
(* runs check follow from them.                                            *)
(***************************************************************************)
EXTENDS WriteImplProofs, WriteDataProofs, WriteSequenceProofs
LOCAL INSTANCE WellFoundedInduction

Below == OpToRel(<, Nat)

\* The order of the natural numbers as a relation.
LEMMA BelowIs == \A x, y \in Nat : <<x, y>> \in Below <=> x < y
BY DEF Below, OpToRel

\* Induction over the natural numbers, for a set in place of a predicate.
LEMMA SetInduction ==
  ASSUME NEW S, 0 \in S, \A n \in Nat : n \in S => n + 1 \in S
  PROVE  Nat \subseteq S
<1> DEFINE T == {n \in Nat : n \notin S}
<1>1. SUFFICES ASSUME T # {} PROVE FALSE
  OBVIOUS
<1>2. IsWellFoundedOn(Below, Nat)
  BY NatLessThanWellFounded, Zenon DEF Below
<1>3. PICK x \in T : \A y \in T : ~ (<<y, x>> \in Below)
  <2>1. T \subseteq Nat
    OBVIOUS
  <2> QED BY <1>1, <1>2, <2>1, WFMin, Zenon
<1>4. x \in Nat /\ x # 0 /\ x - 1 \in Nat /\ x - 1 < x /\ (x - 1) + 1 = x
  BY <1>3
<1>5. x - 1 \notin T
  BY <1>3, <1>4, BelowIs, Zenon
<1>6. x - 1 \in S
  BY <1>4, <1>5
<1> QED BY <1>3, <1>4, <1>6

\* The lemmas about groups and sequence numbers may use induction.
LEMMA InductionHolds == Induction
BY SetInduction, Zenon DEF Induction

-----------------------------------------------------------------------------
\* The first inductive invariant: list, groups, links, counters and program
\* counters of WriteImpl stay in agreement, whatever the number of writers.
THEOREM WritersKeepTheirPlaces == Spec => []WriteInv
<1>1. Init => WriteInv
  BY InitInv
<1>2. WriteInv /\ [Next]_vars => WriteInv'
  BY NextInv, InductionHolds
<1> QED BY <1>1, <1>2, PTL DEF Spec

\* ExclusiveWriters: the write path is used by one leader at a time, or by the
\* followers of one group without merges.
THEOREM WritersExclude == Spec => []ExclusiveWriters
BY WritersKeepTheirPlaces, WritersAreExclusive, PTL

\* LinksAgree: link_newer is Null or points back along link_older (the assertions
\* of CreateMissingNewerLinks and ExitAsBatchGroupLeader), and the oldest writer
\* leads.
THEOREM LinksPointBack == Spec => []LinksAgree
BY WritersKeepTheirPlaces, LinksAreInOrder, PTL

\* NoDanglingWriter: a Writer or ParallelGroup on the stack of a call of WriteImpl
\* is not touched after the call has returned.
THEOREM WritersOutliveTheirUse == Spec => []NoDanglingWriter
BY WritersKeepTheirPlaces, WritersAreThere, PTL

\* The second inductive invariant, on top of the first: what is written where, and
\* with which numbers.
THEOREM WritesKeepTheirNumbers == Spec => [](DataInv /\ SequenceInv)
<1>1. Init => DataInv /\ SequenceInv
  BY InitData, InitNumbers, Zenon
<1>2. WriteInv /\ Places /\ Places' /\ DataInv /\ SequenceInv /\ [Next]_vars
        => DataInv' /\ SequenceInv'
  <2>1. SUFFICES ASSUME WriteInv, Places, Places', DataInv, SequenceInv, [Next]_vars
                 PROVE  DataInv' /\ SequenceInv'
    BY Zenon
  <2>2. MorePlaces /\ Numbers
    BY <2>1, InMorePlaces, Zenon DEF SequenceInv
  <2>3. SequenceInv'
    BY <2>1, <2>2, SequenceStep, InductionHolds, Zenon
  <2>4. AllowedIs
    BY AllowedMembers, InductionHolds, Zenon DEF AllowedIs
  <2>5. DataInv'
    <3>1. CASE UNCHANGED vars
      BY <2>1, <3>1, StutterData, Zenon
    <3>2. CASE \E w \in Writer : Step(w)
      BY <2>1, <2>2, <2>4, <3>2, DataStep, Zenon
    <3> QED BY <2>1, <3>1, <3>2, Zenon DEF Next, Terminated
  <2> QED BY <2>3, <2>5
<1> QED BY <1>1, <1>2, WritersKeepTheirPlaces, InPlaces, PTL DEF Spec

\* OkMeansWritten: a write that returned OK is in the memtable, and in the log
\* unless it disabled it, synced if it asked for that.
THEOREM OkIsWritten == Spec => []OkMeansWritten
BY WritesKeepTheirNumbers, OkFollows, PTL

\* ReplayAgrees: a replay of the log gives a batch the sequence numbers that it has
\* in the memtable.
THEOREM ReplayIsFaithful == Spec => []ReplayAgrees
<1>1. WriteInv => Types
  BY DEF WriteInv
<1>2. Types /\ SequenceInv => ReplayAgrees
  BY ReplayFollows, InductionHolds
<1> QED BY <1>1, <1>2, WritersKeepTheirPlaces, WritesKeepTheirNumbers, PTL

\* PublishedApplied: a sequence number that readers may use is taken by one batch of
\* the memtable, until an insert fails.
THEOREM PublishedIsApplied == Spec => []PublishedApplied
<1>1. WriteInv => Types
  BY DEF WriteInv
<1>2. Types /\ SequenceInv => PublishedApplied
  BY PublishedFollows, InductionHolds
<1> QED BY <1>1, <1>2, WritersKeepTheirPlaces, WritesKeepTheirNumbers, PTL
=============================================================================
