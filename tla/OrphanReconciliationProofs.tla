---------------------- MODULE OrphanReconciliationProofs ----------------------
(***************************************************************************)
(* Reconciliation of orphans, for any orders, failed calls and restarts:   *)
(* an order of the gateway is never taken for an orphan, the mark leaves   *)
(* out nothing that a listing showed, and an open gate means that          *)
(* reconciliation did its work.                                            *)
(***************************************************************************)
EXTENDS OrphanReconciliation, TLAPS

\* The run's record, with its lists among the orders the broker has got.
RunType ==
    /\ run = [step |-> run.step, begun |-> run.begun, open |-> run.open,
              recent |-> run.recent, over |-> run.over, missed |-> run.missed, at |-> run.at]
    /\ run.step \in {"idle", "open", "recent", "known", "handle"}
    /\ run.begun \subseteq created
    /\ run.open \subseteq created
    /\ run.recent \subseteq created
    /\ run.over \subseteq created
    /\ run.missed \subseteq created \intersect Foreign
    /\ run.at \in created \union {None}

\* The parts of TypeOK: sets of orders, flags and counters.
SetsType ==
    /\ created \subseteq Ids
    /\ open \subseteq created
    /\ rows \subseteq Own \union Replacements
    /\ old \subseteq created
    /\ orphans \subseteq created
    /\ resolved \subseteq orphans
    /\ atStart \subseteq created \intersect Foreign
    /\ unlisted \subseteq created \intersect Foreign
    /\ missed \subseteq created \intersect Foreign
    /\ RunType

FlagsType ==
    /\ marked \in BOOLEAN
    /\ quarantined \in BOOLEAN
    /\ gate \in BOOLEAN /\ override \in BOOLEAN /\ attempted \in BOOLEAN
    /\ serving \in BOOLEAN /\ loop \in BOOLEAN /\ client \in BOOLEAN

CountersType ==
    /\ faults \in 0 .. MaxFaults
    /\ crashes \in 0 .. MaxCrashes

\* TypeOK is its parts.
LEMMA TypeParts == TypeOK <=> SetsType /\ FlagsType /\ CountersType
<1> DEFINE R == [step : {"idle", "open", "recent", "known", "handle"},
                 begun : SUBSET created, open : SUBSET created, recent : SUBSET created,
                 over : SUBSET created, missed : SUBSET (created \intersect Foreign), at : created \union {None}]
<1>1. run \in R => RunType
  BY DEF RunType
<1>2. RunType => run \in R
  BY DEF RunType
<1> QED
  BY <1>1, <1>2 DEF TypeOK, SetsType, FlagsType, CountersType

\* The initial state is well typed.
LEMMA TypeInit == Init => TypeOK
<1> SUFFICES ASSUME Init PROVE SetsType /\ FlagsType /\ CountersType
  BY TypeParts
<1>1. SetsType
  BY DEF Init, SetsType, RunType, NoRun
<1>2. FlagsType
  BY Zenon DEF Init, FlagsType
<1>3. CountersType
  BY RunBoundsAssumption DEF Init, CountersType
<1> QED
  BY <1>1, <1>2, <1>3

\* The flags keep their types.
LEMMA FlagsStep == FlagsType /\ [Next]_vars => FlagsType'
<1> SUFFICES ASSUME FlagsType, [Next]_vars PROVE FlagsType'
  OBVIOUS
<1> USE DEF FlagsType, dbVars, stateVars
<1>1. CASE UNCHANGED vars
  BY <1>1 DEF vars
<1>2. ASSUME NEW o \in Ids,
             \/ PlaceForeign(o) \/ EndForeign(o) \/ StoreOrder(o) \/ PlaceOrder(o)
             \/ ReplaceOrder(o) \/ StoreReplacement(o) \/ RecordOrphan(o)
      PROVE  FlagsType'
  BY <1>2 DEF PlaceForeign, EndForeign, StoreOrder, PlaceOrder, ReplaceOrder, StoreReplacement,
              RecordOrphan
<1>3. CASE Begin \/ ListOpen \/ ListRecent \/ ReadKnown
  BY <1>3 DEF Begin, ListOpen, ListRecent, ReadKnown
<1>4. CASE Shield
  BY Zenon, <1>4 DEF Shield
<1>5. CASE EndRun
  BY Zenon, <1>5 DEF EndRun, AdvanceMark
<1>6. CASE FailRun
  BY Zenon, <1>6 DEF FailRun
<1>7. CASE ForceComplete
  BY Zenon, <1>7 DEF ForceComplete
<1>8. CASE Restart
  BY Zenon, <1>8 DEF Restart
<1> QED
  BY <1>1, <1>2, <1>3, <1>4, <1>5, <1>6, <1>7, <1>8 DEF Next, RunStep, Ids

\* The counters keep to their bounds.
LEMMA CountersStep == CountersType /\ [Next]_vars => CountersType'
<1> SUFFICES ASSUME CountersType, [Next]_vars PROVE CountersType'
  OBVIOUS
<1>1. CASE UNCHANGED <<faults, crashes>>
  BY <1>1 DEF CountersType
<1>2. CASE Fault /\ UNCHANGED crashes
  BY <1>2, RunBoundsAssumption DEF CountersType, Fault
<1>3. CASE Restart
  BY <1>3, RunBoundsAssumption DEF CountersType, Restart, Fault
<1> QED
  BY <1>1, <1>2, <1>3
     DEF Skips, Next, vars, PlaceForeign, EndForeign, StoreOrder, PlaceOrder, ReplaceOrder,
         StoreReplacement, Begin, RunStep, ListOpen, ListRecent, ReadKnown, RecordOrphan,
         Shield, EndRun, FailRun, ForceComplete

\* The orders, rows and lists keep their types.
LEMMA SetsStep == SetsType /\ [Next]_vars => SetsType'
<1> SUFFICES ASSUME SetsType, [Next]_vars PROVE SetsType'
  OBVIOUS
<1> USE DEF SetsType, RunType, brokerVars, dbVars, historyVars
<1>1. CASE UNCHANGED vars
  BY <1>1 DEF vars
<1>2. ASSUME NEW o \in Ids, PlaceForeign(o) \/ PlaceOrder(o) \/ ReplaceOrder(o)
      PROVE  SetsType'
  BY <1>2 DEF PlaceForeign, PlaceOrder, ReplaceOrder, Create
<1>3. ASSUME NEW f \in Foreign, EndForeign(f) PROVE SetsType'
  BY <1>3 DEF EndForeign
<1>4. ASSUME NEW o \in Own \union Replacements, StoreOrder(o) \/ StoreReplacement(o)
      PROVE  SetsType'
  BY <1>4 DEF StoreOrder, StoreReplacement
<1>5. CASE Begin
  BY <1>5 DEF Begin, NoRun
<1>6. CASE ListOpen
  BY <1>6 DEF ListOpen
<1>7. CASE ListRecent
  <2> DEFINE listed == IF marked THEN created \ old ELSE {}
  <2>1. listed \subseteq created
    OBVIOUS
  <2> HIDE DEF listed
  <2>2. PICK left \in SUBSET (listed \intersect Foreign) :
            run' = [run EXCEPT !.step = "known",
                               !.recent = listed \ left,
                               !.over = listed \ (left \union open),
                               !.missed = @ \union left]
    BY <1>7 DEF ListRecent, listed
  <2>3. /\ run'.recent \subseteq created /\ run'.over \subseteq created
        /\ run'.missed \subseteq created \intersect Foreign
    BY <2>1, <2>2
  <2> QED
    BY <1>7, <2>2, <2>3 DEF ListRecent
<1>8. CASE ReadKnown
  BY <1>8 DEF ReadKnown
<1>9. ASSUME NEW f \in Ids, RecordOrphan(f) PROVE SetsType'
  BY <1>9 DEF RecordOrphan, NextOrphan, Taken
<1>10. CASE Shield
  BY <1>10 DEF Shield
<1>11. CASE EndRun
  BY <1>11 DEF EndRun, AdvanceMark, NoRun
<1>12. CASE FailRun
  BY <1>12 DEF FailRun, NoRun
<1>13. CASE ForceComplete
  BY <1>13 DEF ForceComplete
<1>14. CASE Restart
  BY <1>14 DEF Restart, NoRun
<1> QED
  BY <1>1, <1>2, <1>3, <1>4, <1>5, <1>6, <1>7, <1>8, <1>9, <1>10, <1>11, <1>12, <1>13, <1>14
     DEF Next, RunStep, Ids

\* The lists of a run hold orders the broker has got, an orphan has a row
\* before it is resolved, and flags and counters keep to their values.
THEOREM OrphansTypeCorrect == Spec => []TypeOK
<1>1. TypeOK /\ [Next]_vars => TypeOK'
  BY TypeParts, SetsStep, FlagsStep, CountersStep DEF TypeOK, SetsType, FlagsType, CountersType,
     RunType
<1> QED
  BY <1>1, TypeInit, PTL DEF Spec

-----------------------------------------------------------------------------
(* The inductive invariant.                                                *)

Accounted == orphans \union unlisted \union missed

\* submit_order stores before it sends, so that every own order the broker has
\* is known; once a run has read the known ids, none is on its lists.
OwnInv ==
    /\ orphans \intersect Own = {}
    /\ created \intersect Own \subseteq rows
    /\ run.step = "handle" => (run.open \union run.recent) \intersect Own = {}

\* Before the first mark, a foreign order that is over is accounted for.
UnmarkedInv == ~marked => created \intersect Foreign \subseteq open \union Accounted

\* What a foreign order that was there when the run began can be: still to be
\* listed, on one of the lists, left out by a listing, or accounted for.
RunInv ==
    LET begun == run.begun \intersect Foreign
    IN /\ run.step = "recent" => marked \/ begun \subseteq run.open \union run.missed \union Accounted
       /\ run.step \in {"known", "handle"} =>
              begun \subseteq run.open \union run.recent \union run.missed \union Accounted
       /\ run.step # "idle" => atStart \subseteq run.begun

Inv ==
    /\ OwnInv
    /\ UnmarkedInv
    /\ RunInv
    /\ MarkLeavesNothingOut
    /\ GateMeansReconciled

\* The invariant holds at first.
LEMMA InvInit == Init => Inv
  BY DEF Init, Inv, OwnInv, UnmarkedInv, RunInv, MarkLeavesNothingOut, GateMeansReconciled,
         Accounted, NoRun

\* Every order placed, every step of a run, failure and restart keeps it.
LEMMA InvStep == SetsType /\ Inv /\ [Next]_vars => Inv'
<1> SUFFICES ASSUME SetsType, Inv, [Next]_vars PROVE Inv'
  OBVIOUS
<1> USE IdsAssumption
        DEF SetsType, RunType, brokerVars, dbVars, stateVars, historyVars, Inv, OwnInv,
            UnmarkedInv, RunInv, MarkLeavesNothingOut, GateMeansReconciled, Accounted
<1>1. CASE UNCHANGED vars
  BY <1>1 DEF vars
<1>2. ASSUME NEW f \in Foreign, PlaceForeign(f) PROVE Inv'
  BY <1>2 DEF PlaceForeign, Create
<1>3. ASSUME NEW f \in Foreign, EndForeign(f) PROVE Inv'
  BY <1>3 DEF EndForeign
<1>4. ASSUME NEW o \in Own, StoreOrder(o) \/ PlaceOrder(o) PROVE Inv'
  BY <1>4 DEF StoreOrder, PlaceOrder, Create
<1>5. ASSUME NEW o \in Replacements, ReplaceOrder(o) \/ StoreReplacement(o) PROVE Inv'
  BY <1>5 DEF ReplaceOrder, StoreReplacement, Create
<1>6. CASE Begin
  BY <1>6 DEF Begin, NoRun
<1>7. CASE ListOpen
  BY <1>7 DEF ListOpen
<1>8. CASE ListRecent
  BY <1>8 DEF ListRecent
<1>9. CASE ReadKnown
  BY <1>9 DEF ReadKnown
<1>10. ASSUME NEW f \in Ids, RecordOrphan(f) PROVE Inv'
  BY <1>10 DEF RecordOrphan, NextOrphan, Taken
<1>11. CASE Shield
  BY <1>11 DEF Shield
<1>12. CASE EndRun
  BY <1>12 DEF EndRun, Over, AdvanceMark, NoRun
<1>13. CASE FailRun
  BY <1>13 DEF FailRun, NoRun
<1>14. CASE ForceComplete
  BY <1>14 DEF ForceComplete
<1>15. CASE Restart
  BY <1>15 DEF Restart, NoRun
<1> QED
  BY <1>1, <1>2, <1>3, <1>4, <1>5, <1>6, <1>7, <1>8, <1>9, <1>10, <1>11, <1>12, <1>13, <1>14,
     <1>15 DEF Next, RunStep

\* The invariant holds in every reachable state.
LEMMA InvAlways == Spec => []Inv
<1>1. Init => SetsType
  BY TypeInit, TypeParts
<1> QED
  BY <1>1, InvInit, SetsStep, InvStep, PTL DEF Spec

\* No order submitted through the gateway is recorded as an orphan, and so its
\* symbol is not quarantined for it, however submissions and runs interleave.
THEOREM OwnOrdersAreKnown == Spec => []OwnOrderIsKnown
<1>1. Inv => OwnOrderIsKnown
  BY DEF Inv, OwnInv, OwnOrderIsKnown
<1> QED
  BY <1>1, InvAlways, PTL

\* The high-water mark never moves past a foreign order that has no row in
\* orphan_orders, whatever fails or restarts between a run's calls, unless a page
\* boundary of get_orders hid it from the run that moved the mark or it ended
\* before there was a mark.
THEOREM MarkIsComplete == Spec => []MarkLeavesNothingOut
  BY InvAlways, PTL DEF Inv

\* A gate that no operator forced is open only after a run recorded every
\* foreign order the broker had when the process started, with the same two
\* exceptions.
THEOREM OpenGateMeansReconciled == Spec => []GateMeansReconciled
  BY InvAlways, PTL DEF Inv
===============================================================================
