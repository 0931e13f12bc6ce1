--------------------------- MODULE ResultReadsProofs ---------------------------
(***************************************************************************)
(* What is released of a saved result might be read at a moment after the  *)
(* last look at its source, and is what the owners had; it is refused for  *)
(* a reason only. For any items, pages, revisions and changes.             *)
(***************************************************************************)
EXTENDS ResultReads, TLAPS

-----------------------------------------------------------------------------
(* The invariant *)

Going == pc \notin {"idle", "refused"}

\* Which results come to which stage.
FlowInv ==
    /\ kind \notin Lists => Len(saved) = 1
    /\ pc = "idle" => at = 1 /\ ~again
    /\ Going => WellFormed
    /\ pc = "reader" => kind \notin Plans \ Lists /\ (kind = "planList" => at = 1 /\ ~again)
    /\ pc = "access" => kind = "receipt"
    /\ pc = "producer" => kind \notin Plans /\ reader # "producer"
    /\ pc = "plan" => kind \in Plans /\ at \in Pieces /\ ~again
    /\ pc = "source" => kind # "receipt" /\ ~again /\ (kind \in Plans => at \in Pieces)
    /\ pc = "receipt" => kind = "receipt" \/ (kind = "recordSave" /\ again)
    /\ pc = "released" => kind \in Plans \/ again
    /\ pc = "released" /\ kind \in Plans => at = Len(saved) + 1
    /\ Going /\ again /\ kind \in Records => at = Len(saved) + 1

\* A receipt that is asked for was looked up before the last questions.
RecordedInv ==
    /\ kind \notin {"recordSave", "receipt"} => recorded
    /\ again /\ Going /\ pc # "receipt" => recorded

\* The pieces behind the one that is asked about are in order.
OrderInv ==
    /\ kind = "planList" /\ pc = "source" => InOrder(at)
    /\ kind \in Lists /\ Going =>
          \A m, n \in 1..(at - 1) : m < n => saved[m].item < saved[n].item

\* They were intact when they were looked at, and none was a stranger's plan.
IntactInv ==
    /\ \A n \in Pieces : Looking(n) /\ Unchanged(n) => n \in intact
    /\ Going /\ kind # "receipt" => 1..(at - 1) \subseteq intact
    /\ pc = "released" /\ kind = "receipt" => 1 \in intact
    /\ kind \in Plans /\ intact # {} => reader # "stranger"

\* Plans were allowed one by one.
AllowedInv ==
    /\ pc \in {"plan", "source"} /\ at \in Pieces /\ "read" \in may[reader] => at \in allowed
    /\ kind \in Plans /\ Going => 1..(at - 1) \subseteq allowed
    /\ kind \in Plans /\ pc = "source" => at \in allowed

\* The second questions collect the rights.
RecentInv ==
    /\ \A a \in Actors : may[a] \subseteq recent[a]
    /\ pc = "reader" /\ again /\ kind \in Records /\ reader # "producer" =>
          Right \in recent["producer"]
    /\ pc = "access" /\ again => "subject" \in recent[reader]
    /\ pc = "released" /\ kind \in Records => \A a \in {reader, "producer"} : Right \in recent[a]
    /\ pc = "released" /\ kind = "receipt" => {"subject", "access"} \subseteq recent[reader]

\* Revisions only grow.
SourceInv == \A n \in Pieces : source[saved[n].item].revision >= saved[n].revision

Inv ==
    /\ TypeOK /\ FlowInv /\ RecordedInv /\ OrderInv /\ IntactInv /\ AllowedInv /\ RecentInv
    /\ SourceInv /\ RefusedForAReason

-----------------------------------------------------------------------------
(* Types and history *)

\* A request is only read. What depends on it alone stays as it is.
RequestKept ==
    /\ Pieces' = Pieces /\ Right' = Right /\ WellFormed' = WellFormed
    /\ \A n \in Pieces : InOrder(n)' = InOrder(n)

LEMMA Kept == ASSUME UNCHANGED request PROVE RequestKept
BY DEF request, RequestKept, Pieces, Right, WellFormed, InOrder, Previous

\* The history of a step takes in what is so after it.
LEMMA Observed ==
    ASSUME TypeOK, Observe, UNCHANGED request, may' \in [Actors -> SUBSET Rights]
    PROVE  /\ recent' \in [Actors -> SUBSET Rights]
           /\ \A a \in Actors : may'[a] \subseteq recent'[a]
           /\ ~Looked => \A a \in Actors : recent[a] \subseteq recent'[a]
           /\ allowed \subseteq allowed' /\ allowed' \subseteq Nat
           /\ pc' \in {"plan", "source"} /\ at' \in Pieces /\ "read" \in may'[reader] => at' \in allowed'
           /\ intact \subseteq intact' /\ intact' \subseteq Nat
           /\ \A n \in Pieces : Looking(n)' /\ Unchanged(n)' => n \in intact'
           /\ \A n \in intact' : n \in intact \/ Unchanged(n)'
<1>1. /\ recent \in [Actors -> SUBSET Rights] /\ allowed \subseteq Nat /\ intact \subseteq Nat
      /\ Pieces \subseteq Nat
  BY DEF TypeOK, Pieces
<1>2. /\ recent' \in [Actors -> SUBSET Rights]
      /\ \A a \in Actors : may'[a] \subseteq recent'[a]
      /\ ~Looked => \A a \in Actors : recent[a] \subseteq recent'[a]
  BY <1>1 DEF Observe
<1>3. /\ allowed \subseteq allowed' /\ allowed' \subseteq Nat
      /\ pc' \in {"plan", "source"} /\ at' \in Pieces /\ "read" \in may'[reader] => at' \in allowed'
  <2>1. reader' = reader
    BY DEF request
  <2>2. QED
    BY <1>1, <2>1 DEF Observe
<1>4. /\ intact \subseteq intact' /\ intact' \subseteq Nat
      /\ \A n \in Pieces : Looking(n)' /\ Unchanged(n)' => n \in intact'
      /\ \A n \in intact' : n \in intact \/ Unchanged(n)'
  BY <1>1 DEF Observe
<1>5. QED
  BY <1>2, <1>3, <1>4

\* What the result is made of.
LEMMA PieceTypes ==
    ASSUME TypeOK
    PROVE  /\ Len(saved) \in Nat /\ at \in Nat
           /\ Pieces = 1..Len(saved)
           /\ \A n \in Pieces :
                /\ n \in Nat
                /\ saved[n].item \in Items /\ saved[n].item \in Nat
                /\ saved[n].revision \in Revision /\ saved[n].revision \in Nat
<1>1. saved \in Seq(Piece) /\ Len(saved) \in Nat /\ at \in 1..(Len(saved) + 1)
  BY DEF TypeOK
<1>2. \A n \in Pieces : saved[n] \in Piece
  BY <1>1 DEF Pieces
<1>3. Items \subseteq Nat /\ Revision \subseteq Nat
  BY ConstantsAssumption DEF Revision
<1>4. \A n \in Pieces :
        saved[n].item \in Items /\ saved[n].revision \in Revision
  BY <1>2 DEF Piece
<1>5. Pieces = 1..Len(saved) /\ at \in Nat /\ Pieces \subseteq Nat
  BY <1>1 DEF Pieces
<1>6. QED
  BY <1>1, <1>3, <1>4, <1>5

\* What a change of the world leaves alone.
LEMMA WorldStep ==
    ASSUME TypeOK, SourceInv, World
    PROVE  /\ may' \in [Actors -> SUBSET Rights] /\ source' \in [Items -> Item]
           /\ changes' \in 0..MaxChanges
           /\ UNCHANGED <<request, pc, at, again>>
           /\ excuse' \in BOOLEAN /\ (excuse => excuse')
           /\ SourceInv'
<1>1. ASSUME Change
      PROVE  /\ changes' \in 0..MaxChanges
             /\ UNCHANGED <<request, pc, at, again>>
             /\ excuse' \in BOOLEAN /\ (excuse => excuse')
  BY <1>1, ConstantsAssumption DEF Change, TypeOK
<1>2. \A n \in Pieces : saved[n].item \in Items /\ saved[n].revision \in Nat
  BY PieceTypes
<1>3. ASSUME NEW a \in Actors, NEW right \in Rights, SetRight(a, right)
      PROVE  may' \in [Actors -> SUBSET Rights] /\ UNCHANGED source /\ Change
  BY <1>3 DEF SetRight, TypeOK
<1>4. ASSUME NEW i \in Items,
             source' \in [Items -> Item],
             \A j \in Items : source'[j].revision >= source[j].revision,
             UNCHANGED request
      PROVE  SourceInv'
  <2>1. \A j \in Items : source[j].revision \in Nat /\ source'[j].revision \in Nat
    BY <1>4 DEF TypeOK, Item, Revision
  <2>2. saved' = saved /\ Pieces' = Pieces
    BY <1>4 DEF request, Pieces
  <2>3. QED
    BY <1>2, <1>4, <2>1, <2>2 DEF SourceInv
<1>5. ASSUME NEW i \in Items, Delete(i)
      PROVE  /\ source' \in [Items -> Item] /\ UNCHANGED may /\ Change
             /\ \A j \in Items : source'[j].revision >= source[j].revision
  <2>1. \A j \in Items : source[j] \in Item /\ source[j].revision \in Nat
    BY DEF TypeOK, Item, Revision
  <2>2. [source[i] EXCEPT !.deleted = ~source[i].deleted] \in Item
    BY <2>1 DEF Item
  <2>3. source' = [source EXCEPT ![i] = [source[i] EXCEPT !.deleted = ~source[i].deleted]]
    BY <1>5 DEF Delete
  <2>4. source' \in [Items -> Item]
    BY <2>2, <2>3 DEF TypeOK
  <2>5. source'[i].revision = source[i].revision
    BY <2>1, <2>3 DEF TypeOK, Item
  <2>6. \A j \in Items : j # i => source'[j] = source[j]
    BY <2>3 DEF TypeOK
  <2>7. QED
    BY <1>5, <2>1, <2>4, <2>5, <2>6 DEF Delete
<1>6. ASSUME NEW i \in Items, NEW c \in Contents, Revise(i, c)
      PROVE  /\ source' \in [Items -> Item] /\ UNCHANGED may /\ Change
             /\ \A j \in Items : source'[j].revision >= source[j].revision
  <2>1. \A j \in Items : source[j] \in Item /\ source[j].revision \in Nat
    BY DEF TypeOK, Item, Revision
  <2>2. source[i].revision + 1 \in Revision
    BY <1>6, <2>1, ConstantsAssumption DEF Revise, Revision
  <2>3. source' = [source EXCEPT ![i] =
            [content |-> c, revision |-> source[i].revision + 1, deleted |-> FALSE]]
    BY <1>6 DEF Revise
  <2>4. source' \in [Items -> Item]
    BY <2>2, <2>3 DEF TypeOK, Item
  <2>5. source'[i].revision = source[i].revision + 1
    BY <2>3 DEF TypeOK
  <2>6. \A j \in Items : j # i => source'[j] = source[j]
    BY <2>3 DEF TypeOK
  <2>7. QED
    BY <1>6, <2>1, <2>4, <2>5, <2>6 DEF Revise
<1>7. CASE \E a \in Actors, right \in Rights : SetRight(a, right)
  <2>1. may' \in [Actors -> SUBSET Rights] /\ UNCHANGED source /\ Change
    BY <1>3, <1>7
  <2>2. SourceInv'
    BY <1>1, <2>1 DEF SourceInv, request, Pieces
  <2>3. QED
    BY <1>1, <2>1, <2>2 DEF TypeOK
<1>8. CASE \E i \in Items : Delete(i) \/ \E c \in Contents : Revise(i, c)
  <2>1. /\ source' \in [Items -> Item] /\ UNCHANGED may /\ Change
        /\ \A j \in Items : source'[j].revision >= source[j].revision
    BY <1>5, <1>6, <1>8
  <2>2. SourceInv'
    BY <1>1, <1>4, <1>8, <2>1
  <2>3. QED
    BY <1>1, <2>1, <2>2 DEF TypeOK
<1>9. QED
  BY <1>7, <1>8 DEF World

\* What the steps of the read leave alone.
LEMMA ReadStep ==
    ASSUME Inv, Step
    PROVE  /\ UNCHANGED <<may, source, changes, request>>
           /\ pc' \in Stage /\ at' \in 1..(Len(saved) + 1) /\ again' \in BOOLEAN
           /\ excuse' \in BOOLEAN
           /\ Going \/ pc = "idle"
<1>1. UNCHANGED <<may, source, changes, request>>
  BY DEF Step, Begin, AskReader, AskAccess, AskProducer, AskPlan, Look, NoSource,
         LookUpReceipt, Fail, Asking, world
<1>2. excuse' \in BOOLEAN
  BY DEF Step, Begin, AskReader, AskAccess, AskProducer, AskPlan, Look, NoSource,
         LookUpReceipt, Fail, Asking, Inv, TypeOK
<1>3. again' \in BOOLEAN
  BY DEF Step, Begin, AskReader, AskAccess, AskProducer, AskPlan, Look, NoSource,
         LookUpReceipt, Fail, Inv, TypeOK
<1>4. at' \in 1..(Len(saved) + 1)
  <2>1. at \in 1..(Len(saved) + 1) /\ (at \in Pieces => at + 1 \in 1..(Len(saved) + 1))
    BY PieceTypes DEF Inv, TypeOK
  <2>2. QED
    BY <2>1 DEF Step, Begin, AskReader, AskAccess, AskProducer, AskPlan, Look, NoSource,
           LookUpReceipt, Fail
<1>5. pc' \in Stage
  BY DEF Step, Begin, AskReader, AskAccess, AskProducer, AskPlan, Look, NoSource,
         LookUpReceipt, Fail, Require, Stage, AfterReader, AfterSources, SecondCheck
<1>6. Going \/ pc = "idle"
  BY DEF Step, Begin, AskReader, AskAccess, AskProducer, AskPlan, Look, NoSource,
         LookUpReceipt, Fail, Going
<1>7. QED
  BY <1>1, <1>2, <1>3, <1>4, <1>5, <1>6

\* Both kinds of steps leave the request alone and the types in place.
LEMMA Typed ==
    ASSUME Inv, Step \/ World, Observe
    PROVE  TypeOK' /\ UNCHANGED request /\ RequestKept /\ SourceInv'
<1>1. /\ may' \in [Actors -> SUBSET Rights] /\ source' \in [Items -> Item]
      /\ changes' \in 0..MaxChanges /\ UNCHANGED request
      /\ pc' \in Stage /\ at' \in 1..(Len(saved) + 1) /\ again' \in BOOLEAN
      /\ excuse' \in BOOLEAN
      /\ SourceInv'
  <2>1. CASE Step
    <3>1. SourceInv'
      BY <2>1, ReadStep DEF Inv, SourceInv, request, Pieces
    <3>2. QED
      BY <2>1, <3>1, ReadStep DEF Inv, TypeOK
  <2>2. CASE World
    BY <2>2, WorldStep DEF Inv, TypeOK
  <2>3. QED
    BY <2>1, <2>2
<1>2. /\ recent' \in [Actors -> SUBSET Rights] /\ allowed' \subseteq Nat /\ intact' \subseteq Nat
  BY <1>1, Observed DEF Inv
<1>3. TypeOK'
  BY <1>1, <1>2 DEF Inv, TypeOK, request
<1>4. QED
  BY <1>1, <1>3, Kept

-----------------------------------------------------------------------------
(* The steps of the read *)

LEMMA StepFlow == ASSUME Inv, Step, Observe PROVE FlowInv' /\ RecordedInv'
<1>1. /\ UNCHANGED <<kind, reader, saved, named, expected, limit, recorded>>
      /\ Pieces' = Pieces /\ WellFormed' = WellFormed
  BY Typed DEF request, RequestKept
<1>2. /\ Len(saved) \in Nat /\ at \in Nat /\ again \in BOOLEAN /\ recorded \in BOOLEAN
      /\ Pieces = 1..Len(saved)
      /\ saved = <<>> => Len(saved) = 0
      /\ kind \in Kinds /\ Kinds \subseteq Records \cup Plans \cup {"receipt"}
  BY PieceTypes, ConstantsAssumption DEF Inv, TypeOK
<1>3. FlowInv /\ RecordedInv /\ at \in 1..(Len(saved) + 1)
  BY DEF Inv, TypeOK
<1> USE DEF Require, Records, Plans, Lists, Going, FlowInv, RecordedInv
<1>4. CASE Begin
  BY <1>1, <1>2, <1>3, <1>4 DEF Begin
<1>5. CASE AskReader
  BY <1>1, <1>2, <1>3, <1>5 DEF AskReader, AfterReader
<1>6. CASE AskAccess
  BY <1>1, <1>2, <1>3, <1>6 DEF AskAccess
<1>7. CASE AskProducer
  BY <1>1, <1>2, <1>3, <1>7 DEF AskProducer
<1>8. CASE AskPlan
  BY <1>1, <1>2, <1>3, <1>8 DEF AskPlan
<1>9. CASE Look
  <2>a. /\ at \in Pieces /\ at' = at + 1 /\ pc = "source" /\ again' = (at = Len(saved))
        /\ \/ pc' = "refused"
           \/ at = Len(saved) /\ pc' = AfterSources
           \/ at # Len(saved) /\ kind \in Plans /\ pc' = "plan"
           \/ at # Len(saved) /\ kind \notin Plans /\ pc' = "source"
    BY <1>9 DEF Look
  <2>1. /\ at \in Pieces /\ at' = at + 1 /\ pc = "source" /\ again' = (at = Len(saved))
        /\ pc' \in {AfterSources, "plan", "source", "refused"}
        /\ pc' = "plan" => at # Len(saved) /\ kind \in Plans
        /\ pc' = "source" => at # Len(saved) /\ kind \notin Plans
        /\ pc' = AfterSources => at = Len(saved)
    BY <2>a DEF AfterSources, SecondCheck
  <2>2. /\ at # Len(saved) => at' \in Pieces
        /\ at = Len(saved) => at' = Len(saved) + 1
    BY <1>2, <2>1
  <2>3. FlowInv'
    BY <1>1, <1>2, <1>3, <2>1, <2>2 DEF AfterSources, SecondCheck
  <2>4. RecordedInv'
    BY <1>1, <1>2, <1>3, <2>1 DEF AfterSources, SecondCheck
  <2>5. QED
    BY <2>3, <2>4
<1>10. CASE NoSource
  BY <1>1, <1>2, <1>3, <1>10 DEF NoSource, SecondCheck
<1>11. CASE LookUpReceipt
  BY <1>1, <1>2, <1>3, <1>11 DEF LookUpReceipt, SecondCheck
<1>12. CASE Fail
  BY <1>1, <1>2, <1>3, <1>12 DEF Fail
<1>13. QED
  BY <1>4, <1>5, <1>6, <1>7, <1>8, <1>9, <1>10, <1>11, <1>12 DEF Step

\* The piece that is looked at is put behind those that were.
LEMMA StepOrder == ASSUME Inv, Step, Observe PROVE OrderInv'
<1>1. /\ UNCHANGED <<kind, reader, saved, named>>
      /\ Pieces' = Pieces /\ \A n \in Pieces : InOrder(n)' = InOrder(n)
  BY Typed DEF request, RequestKept
<1>2. FlowInv'
  BY StepFlow
<1>3. /\ Len(saved) \in Nat /\ at \in Nat
      /\ \A n \in Pieces : n \in Nat /\ saved[n].item \in Nat
      /\ Pieces = 1..Len(saved)
  BY PieceTypes DEF Inv
<1>4. kind = "planList" /\ pc' = "source" => InOrder(at)'
  <2>1. CASE AskPlan
    <3>1. kind = "planList" /\ pc' = "source" => at' \in Pieces /\ InOrder(at) /\ at' = at
      BY <1>1, <1>2, <2>1 DEF AskPlan, Require, FlowInv, Plans
    <3>2. QED
      BY <1>1, <3>1 DEF InOrder, Previous
  <2>2. CASE ~AskPlan
    BY <2>2 DEF Inv, FlowInv, Step, Begin, AskReader, AskAccess, AskProducer, Look, NoSource, LookUpReceipt,
                Fail, Require, AfterReader, AfterSources, SecondCheck, Plans, Lists
  <2>3. QED
    BY <2>1, <2>2
<1>5. ASSUME kind \in Lists, Going'
      PROVE  \A m, n \in 1..(at' - 1) : m < n => saved[m].item < saved[n].item
  <2>1. CASE Begin
    BY <1>3, <2>1 DEF Inv, FlowInv, Begin
  <2>2. CASE Look /\ at' = at + 1
    <3>1. Going /\ at \in Pieces /\ (kind = "planList" => InOrder(at)) /\ WellFormed
      BY <1>5, <2>2 DEF Inv, OrderInv, FlowInv, Look, Going
    <3>2. InOrder(at)
      BY <1>5, <3>1 DEF WellFormed, Lists
    <3>3. at # 1 => saved[at - 1].item < saved[at].item
      BY <3>2 DEF InOrder, Previous
    <3>4. \A m, n \in 1..(at - 1) : m < n => saved[m].item < saved[n].item
      BY <1>5, <3>1 DEF Inv, OrderInv
    <3>5. \A m \in 1..(at - 1) : m \in Pieces /\ saved[m].item < saved[at].item
      BY <1>3, <3>1, <3>3, <3>4
    <3>6. ASSUME NEW m \in 1..(at' - 1), NEW n \in 1..(at' - 1), m < n
          PROVE  saved[m].item < saved[n].item
      <4>1. m \in 1..(at - 1) /\ (n = at \/ n \in 1..(at - 1))
        BY <1>3, <2>2, <3>6
      <4>2. QED
        BY <3>4, <3>5, <3>6, <4>1
    <3>7. QED
      BY <3>6
  <2>3. CASE ~Begin /\ ~Look
    BY <1>5, <2>3 DEF Inv, OrderInv, Going, Step, AskReader, AskAccess, AskProducer, AskPlan, NoSource,
                      LookUpReceipt, Fail
  <2>4. QED
    BY <2>1, <2>2, <2>3 DEF Look
<1>6. QED
  BY <1>1, <1>4, <1>5 DEF OrderInv

\* A piece that was looked at was intact, since the step before it says so.
LEMMA StepIntact == ASSUME Inv, Step, Observe PROVE IntactInv'
<1>1. /\ UNCHANGED <<kind, reader, saved>> /\ Pieces' = Pieces
      /\ FlowInv'
  BY Typed, StepFlow DEF request, RequestKept
<1>2. /\ intact \subseteq intact'
      /\ \A n \in Pieces : Looking(n)' /\ Unchanged(n)' => n \in intact'
      /\ \A n \in intact' : n \in intact \/ Unchanged(n)'
  BY Typed, ReadStep, Observed DEF Inv, TypeOK
<1>3. /\ Len(saved) \in Nat /\ at \in Nat /\ Pieces = 1..Len(saved)
  BY PieceTypes DEF Inv
<1>4. Going' /\ kind # "receipt" => 1..(at' - 1) \subseteq intact'
  <2>1. CASE Begin
    BY <1>3, <2>1 DEF Inv, FlowInv, Begin
  <2>2. CASE Look
    <3>1. Going /\ at' = at + 1 /\ at \in Pieces /\ (Going' => Unchanged(at) /\ Looking(at))
      BY <2>2 DEF Look, Going, Require, Looking
    <3>2. Going' => at \in intact
      BY <3>1 DEF Inv, IntactInv
    <3>3. kind # "receipt" => 1..(at - 1) \subseteq intact
      BY <3>1 DEF Inv, IntactInv
    <3>4. 1..(at' - 1) \subseteq 1..(at - 1) \cup {at}
      BY <1>3, <3>1
    <3>5. QED
      BY <1>2, <3>2, <3>3, <3>4
  <2>3. CASE ~Begin /\ ~Look
    <3>1. Going /\ at' = at
      BY <2>3 DEF Going, Step, AskReader, AskAccess, AskProducer, AskPlan, NoSource, LookUpReceipt, Fail
    <3>2. QED
      BY <1>2, <3>1 DEF Inv, IntactInv
  <2>4. QED
    BY <2>1, <2>2, <2>3
<1>5. pc' = "released" /\ kind = "receipt" => 1 \in intact'
  <2> SUFFICES ASSUME pc' = "released", kind = "receipt" PROVE 1 \in intact
    BY <1>2
  <2>1. again'
    BY <1>1 DEF FlowInv, Plans
  <2>2. AskAccess /\ again /\ Unchanged(1)
    BY <2>1 DEF Inv, FlowInv, Step, Begin, AskReader, AskAccess, AskProducer, AskPlan, Look, NoSource,
                LookUpReceipt, Fail, Require, AfterReader, Plans, Lists
  <2>3. 1 \in Pieces /\ Looking(1)
    BY <1>3, <2>2 DEF Inv, FlowInv, AskAccess, Looking, Lists
  <2>4. QED
    BY <2>2, <2>3 DEF Inv, IntactInv
<1>6. kind \in Plans /\ intact' # {} => reader # "stranger"
  <2>1. \A n \in intact' : n \in intact \/ (kind \in Plans => reader # "stranger")
    BY <1>1, <1>2 DEF Unchanged
  <2>2. QED
    BY <2>1 DEF Inv, IntactInv
<1>7. QED
  BY <1>1, <1>2, <1>4, <1>5, <1>6 DEF IntactInv

LEMMA StepAllowed == ASSUME Inv, Step, Observe PROVE AllowedInv'
<1>1. /\ UNCHANGED <<kind, reader, saved, may>> /\ Pieces' = Pieces
      /\ FlowInv'
  BY Typed, StepFlow, ReadStep DEF request, RequestKept
<1>2. /\ allowed \subseteq allowed'
      /\ pc' \in {"plan", "source"} /\ at' \in Pieces /\ "read" \in may'[reader] => at' \in allowed'
  BY Typed, ReadStep, Observed DEF Inv, TypeOK
<1>3. /\ Len(saved) \in Nat /\ at \in Nat /\ Pieces = 1..Len(saved)
  BY PieceTypes DEF Inv
<1>4. kind \in Plans /\ pc' = "source" => at' \in allowed'
  <2> SUFFICES ASSUME kind \in Plans, pc' = "source" PROVE at' \in allowed'
    OBVIOUS
  <2>1. AskPlan /\ "read" \in may[reader]
    BY DEF Inv, FlowInv, Step, Begin, AskReader, AskAccess, AskProducer, AskPlan, Look, NoSource,
           LookUpReceipt, Fail, Require, AfterReader, AfterSources, SecondCheck, Plans, Lists
  <2>2. at' \in Pieces
    BY <1>1 DEF FlowInv
  <2>3. QED
    BY <1>1, <1>2, <2>1, <2>2
<1>5. kind \in Plans /\ Going' => 1..(at' - 1) \subseteq allowed'
  <2>1. CASE Begin
    BY <1>3, <2>1 DEF Inv, FlowInv, Begin
  <2>2. CASE Look
    <3>1. Going /\ at' = at + 1 /\ pc = "source"
      BY <2>2 DEF Look, Going
    <3>2. kind \in Plans => at \in allowed /\ 1..(at - 1) \subseteq allowed
      BY <3>1 DEF Inv, AllowedInv
    <3>3. 1..(at' - 1) \subseteq 1..(at - 1) \cup {at}
      BY <1>3, <3>1
    <3>4. QED
      BY <1>2, <3>2, <3>3
  <2>3. CASE ~Begin /\ ~Look
    <3>1. Going /\ at' = at
      BY <2>3 DEF Going, Step, AskReader, AskAccess, AskProducer, AskPlan, NoSource, LookUpReceipt, Fail
    <3>2. QED
      BY <1>2, <3>1 DEF Inv, AllowedInv
  <2>4. QED
    BY <2>1, <2>2, <2>3
<1>6. QED
  BY <1>1, <1>2, <1>4, <1>5 DEF AllowedInv

LEMMA StepRecent == ASSUME Inv, Step, Observe PROVE RecentInv'
<1>1. /\ UNCHANGED <<kind, reader, may>> /\ Right' = Right
      /\ reader \in Actors /\ "producer" \in Actors
  BY Typed, ReadStep DEF request, RequestKept, Inv, TypeOK, Actors
<1>2. /\ \A a \in Actors : may[a] \subseteq recent'[a]
      /\ ~Looked => \A a \in Actors : recent[a] \subseteq recent'[a]
  BY <1>1, Typed, ReadStep, Observed DEF Inv, TypeOK
<1>3. FlowInv'
  BY StepFlow
<1>4. ASSUME pc' = "reader", again', kind \in Records, reader # "producer"
      PROVE  Right \in recent'["producer"]
  <2>1. AskProducer /\ Right \in may["producer"]
    BY <1>4 DEF Inv, FlowInv, Step, Begin, AskReader, AskAccess, AskProducer, AskPlan, Look, NoSource,
                LookUpReceipt, Fail, Require, AfterReader, AfterSources, SecondCheck, Plans, Lists, Records
  <2>2. QED
    BY <1>1, <1>2, <2>1
<1>5. ASSUME pc' = "access", again'
      PROVE  "subject" \in recent'[reader]
  <2>1. kind = "receipt"
    BY <1>1, <1>3, <1>5 DEF FlowInv
  <2>2. AskReader /\ Right \in may[reader]
    BY <1>5, <2>1 DEF Inv, FlowInv, Step, Begin, AskReader, AskAccess, AskProducer, AskPlan, Look, NoSource,
                LookUpReceipt, Fail, Require, AfterReader, AfterSources, SecondCheck, Plans, Lists, Records
  <2>3. Right = "subject"
    BY <2>1 DEF Right, Lists
  <2>4. QED
    BY <1>1, <1>2, <2>2, <2>3
<1>6. ASSUME pc' = "released", kind \in Records
      PROVE  \A a \in {reader, "producer"} : Right \in recent'[a]
  <2>1. /\ AskReader /\ Right \in may[reader] /\ again
        /\ pc = "reader" /\ ~Looked
    BY <1>6 DEF Inv, FlowInv, Step, Begin, AskReader, AskAccess, AskProducer, AskPlan, Look, NoSource,
                LookUpReceipt, Fail, Require, AfterReader, AfterSources, SecondCheck, Plans, Lists, Records, Looked
  <2>2. reader # "producer" => Right \in recent["producer"]
    BY <1>6, <2>1 DEF Inv, RecentInv
  <2>3. QED
    BY <1>1, <1>2, <2>1, <2>2
<1>7. ASSUME pc' = "released", kind = "receipt"
      PROVE  {"subject", "access"} \subseteq recent'[reader]
  <2>1. AskAccess /\ "access" \in may[reader] /\ pc = "access" /\ again /\ ~Looked
    BY <1>7 DEF Inv, FlowInv, Step, Begin, AskReader, AskAccess, AskProducer, AskPlan, Look, NoSource,
                LookUpReceipt, Fail, Require, AfterReader, AfterSources, SecondCheck, Plans, Lists, Records, Looked
  <2>2. "subject" \in recent[reader]
    BY <2>1 DEF Inv, RecentInv
  <2>3. QED
    BY <1>1, <1>2, <2>1, <2>2
<1>8. \A a \in Actors : may'[a] \subseteq recent'[a]
  BY <1>1, <1>2
<1>9. QED
  BY <1>1, <1>4, <1>5, <1>6, <1>7, <1>8 DEF RecentInv

\* Every refusal is for what the question found.
LEMMA StepExcuse == ASSUME Inv, Step PROVE RefusedForAReason'
<1> SUFFICES ASSUME pc' = "refused" PROVE excuse'
  BY DEF RefusedForAReason
<1>1. /\ excuse' = (excuse \/ Reason) \/ Fail
  BY DEF Step, Begin, AskReader, AskAccess, AskProducer, AskPlan, Look, NoSource, LookUpReceipt, Asking
<1>2. CASE Fail
  BY <1>2 DEF Fail
<1>3. /\ Len(saved) \in Nat /\ Pieces = 1..Len(saved)
      /\ \A n \in Pieces : /\ saved[n].item \in Items /\ saved[n].item \in Nat
                           /\ saved[n].revision \in Nat
      /\ named \in Nat
  BY PieceTypes, ConstantsAssumption DEF Inv, TypeOK
<1>4. kind \in Records \cup Plans \cup {"receipt"} /\ pc # "refused"
  <2>1. pc # "refused"
    BY ReadStep DEF Going
  <2>2. QED
    BY <2>1, ConstantsAssumption DEF Inv, TypeOK
<1> USE DEF Require, Records, Plans, Lists
<1>5. ASSUME ~Fail PROVE Reason
  <2>1. CASE Begin
    BY <1>4, <2>1 DEF Begin, Reason
  <2>2. CASE AskReader
    <3>1. Right \in Needed /\ (kind = "planList" \/ kind \notin Plans)
      BY <2>2 DEF Inv, FlowInv, AskReader, Right, Needed
    <3>2. CASE Right \notin may[reader]
      BY <3>1, <3>2 DEF Reason
    <3>3. CASE kind = "receipt" /\ ~(named = saved[1].item /\ expected = saved[1].revision)
      BY <3>3 DEF Reason
    <3>4. QED
      BY <2>2, <3>2, <3>3 DEF AskReader, AfterReader
  <2>3. CASE AskAccess
    <3>1. kind = "receipt" /\ 1 \in Pieces
      BY <1>3, <2>3 DEF Inv, FlowInv, AskAccess
    <3>2. "access" \notin may[reader] \/ ~Unchanged(1)
      BY <2>3 DEF AskAccess
    <3>3. CASE "access" \notin may[reader]
      BY <3>1, <3>3 DEF Reason, Needed
    <3>4. CASE ~Unchanged(1)
      BY <3>1, <3>4 DEF Reason, Unchanged
    <3>5. QED
      BY <3>2, <3>3, <3>4
  <2>4. CASE AskProducer
    BY <2>4 DEF Inv, FlowInv, AskProducer, Reason, Needed, Right
  <2>5. CASE AskPlan
    <3>1. kind \in Plans /\ at \in Pieces
      BY <2>5 DEF Inv, FlowInv, AskPlan
    <3>2. CASE "read" \notin may[reader]
      BY <3>1, <3>2 DEF Reason, Needed, Right
    <3>3. CASE kind = "planList" /\ ~InOrder(at)
      <4>1. Previous(at) \in Nat
        BY <1>3, <3>1 DEF Previous
      <4>2. Previous(at) >= saved[at].item
        BY <1>3, <3>1, <3>3, <4>1 DEF InOrder
      <4>3. QED
        BY <3>1, <3>3, <4>2 DEF Reason
    <3>4. QED
      BY <2>5, <3>2, <3>3 DEF AskPlan
  <2>6. CASE Look
    <3>1. at \in Pieces /\ ~Unchanged(at) /\ kind # "receipt"
      BY <2>6 DEF Inv, FlowInv, Look, AfterSources, SecondCheck
    <3>2. ~(source[saved[at].item].revision >= saved[at].revision) => FALSE
      BY <3>1 DEF Inv, SourceInv
    <3>3. QED
      BY <3>1, <3>2 DEF Reason, Unchanged
  <2>7. CASE NoSource
    BY <2>7 DEF NoSource, SecondCheck
  <2>8. CASE LookUpReceipt
    BY <2>8 DEF LookUpReceipt, SecondCheck, Reason, Needed
  <2>9. QED
    BY <1>5, <2>1, <2>2, <2>3, <2>4, <2>5, <2>6, <2>7, <2>8 DEF Step
<1>6. QED
  BY <1>1, <1>2, <1>5

-----------------------------------------------------------------------------
(* The world, and the theorem *)

LEMMA WorldInv ==
    ASSUME Inv, World, Observe, Going \/ pc = "idle", pc # "released"
    PROVE  /\ FlowInv' /\ RecordedInv' /\ OrderInv' /\ IntactInv' /\ AllowedInv' /\ RecentInv'
           /\ RefusedForAReason'
<1>1. /\ UNCHANGED <<kind, reader, saved, named, recorded, pc, at, again>>
      /\ Pieces' = Pieces /\ WellFormed' = WellFormed /\ Right' = Right
      /\ \A n \in Pieces : InOrder(n)' = InOrder(n)
      /\ excuse => excuse'
  BY Typed, WorldStep DEF Inv, request, RequestKept
<1>2. /\ \A a \in Actors : may'[a] \subseteq recent'[a]
      /\ ~Looked => \A a \in Actors : recent[a] \subseteq recent'[a]
      /\ allowed \subseteq allowed'
      /\ pc' \in {"plan", "source"} /\ at' \in Pieces /\ "read" \in may'[reader] => at' \in allowed'
      /\ intact \subseteq intact'
      /\ \A n \in Pieces : Looking(n)' /\ Unchanged(n)' => n \in intact'
      /\ \A n \in intact' : n \in intact \/ Unchanged(n)'
  BY Typed, WorldStep, Observed DEF Inv
<1>3. FlowInv' /\ RecordedInv'
  BY <1>1 DEF Inv, FlowInv, RecordedInv, Going
<1>4. OrderInv'
  <2>1. kind = "planList" /\ pc = "source" => InOrder(at)'
    BY <1>1 DEF Inv, OrderInv, InOrder, Previous
  <2>2. QED
    BY <1>1, <2>1 DEF Inv, OrderInv, Going
<1>5. IntactInv'
  <2>1. kind \in Plans /\ intact' # {} => reader # "stranger"
    <3>1. \A n \in intact' : n \in intact \/ (kind \in Plans => reader # "stranger")
      BY <1>1, <1>2 DEF Unchanged
    <3>2. QED
      BY <3>1 DEF Inv, IntactInv
  <2>2. QED
    BY <1>1, <1>2, <2>1 DEF Inv, IntactInv, Going
<1>6. AllowedInv'
  BY <1>1, <1>2 DEF Inv, AllowedInv, Going
<1>7. RecentInv'
  <2>1. reader \in Actors /\ "producer" \in Actors
    BY DEF Inv, TypeOK, Actors
  <2>2. QED
    BY <1>1, <1>2, <2>1 DEF Inv, RecentInv, Looked
<1>8. RefusedForAReason'
  BY <1>1 DEF Inv, RefusedForAReason
<1>9. QED
  BY <1>3, <1>4, <1>5, <1>6, <1>7, <1>8

LEMMA InitInv == Init => Inv
<1> SUFFICES ASSUME Init PROVE Inv
  OBVIOUS
<1>1. PICK c \in Contents, first \in FirstRevisions :
        source = [i \in Items |-> [content |-> c, revision |-> first, deleted |-> kind = "planDelete"]]
  BY DEF Init
<1>a. \E n \in IF kind \in Lists THEN 0..MaxPage ELSE {1} : \E f \in [1..n -> Items] :
          saved = [k \in 1..n |-> Snapshot(f[k])]
  BY DEF Init
<1>b. PICK n \in IF kind \in Lists THEN 0..MaxPage ELSE {1} : \E f \in [1..n -> Items] :
          saved = [k \in 1..n |-> Snapshot(f[k])]
  BY ONLY <1>a
<1>2. PICK f \in [1..n -> Items] : saved = [k \in 1..n |-> Snapshot(f[k])]
  BY <1>b
<1>3. 0..2 \subseteq Revision /\ 0 \in 0..MaxChanges /\ n \in Nat /\ first \in Revision
  BY <1>2, ConstantsAssumption DEF Revision, FirstRevisions
<1>4. source \in [Items -> Item]
  BY <1>1, <1>3 DEF Item
<1>5. \A k \in 1..n : Snapshot(f[k]) \in Piece /\ source[Snapshot(f[k]).item].revision >= Snapshot(f[k]).revision
  <2> SUFFICES ASSUME NEW k \in 1..n
               PROVE  /\ Snapshot(f[k]) \in Piece
                      /\ source[Snapshot(f[k]).item].revision >= Snapshot(f[k]).revision
    OBVIOUS
  <2>1. f[k] \in Items
    BY <1>2
  <2>2. source[f[k]].content = c /\ source[f[k]].revision = first /\ first \in Nat
    BY <1>1, <1>3, <2>1, ConstantsAssumption DEF Revision
  <2>3. Snapshot(f[k]) = [item |-> f[k], content |-> c, revision |-> first]
    BY <2>2 DEF Snapshot
  <2>4. QED
    BY <1>3, <2>1, <2>2, <2>3 DEF Piece
<1>6. saved \in Seq(Piece) /\ Len(saved) = n
  BY <1>2, <1>3, <1>5
<1>7. TypeOK
  <2>1. 1 \in 1..(Len(saved) + 1)
    BY <1>3, <1>6
  <2>2. expected \in Revision /\ limit \in 1..MaxPage /\ recorded \in BOOLEAN
    BY <1>3 DEF Init
  <2>3. QED
    BY <1>3, <1>4, <1>6, <2>1, <2>2 DEF Init, TypeOK, Stage
<1>8. SourceInv
  BY <1>2, <1>5, <1>6 DEF SourceInv, Pieces
<1>9. FlowInv /\ RecordedInv
  BY <1>2, <1>6 DEF Init, FlowInv, RecordedInv, Going
<1>10. OrderInv /\ IntactInv /\ AllowedInv /\ RecentInv /\ RefusedForAReason
  BY DEF Init, OrderInv, IntactInv, AllowedInv, RecentInv, RefusedForAReason, Going, Looking
<1>11. QED
  BY <1>7, <1>8, <1>9, <1>10 DEF Inv

THEOREM Invariant == Spec => []Inv
<1>1. Inv /\ [Next]_vars => Inv'
  <2> SUFFICES ASSUME Inv, [Next]_vars PROVE Inv'
    OBVIOUS
  <2>1. CASE UNCHANGED vars
    BY <2>1 DEF vars, world, request, history, Inv, TypeOK, FlowInv, RecordedInv, OrderInv, IntactInv,
                AllowedInv, RecentInv, SourceInv, RefusedForAReason, Going, Looking, Unchanged, InOrder,
                Previous, WellFormed, Pieces, Right
  <2>2. CASE Step /\ Observe
    BY <2>2, Typed, StepFlow, StepOrder, StepIntact, StepAllowed, StepRecent, StepExcuse DEF Inv
  <2>3. CASE World /\ pc \notin {"released", "refused"} /\ Observe
    BY <2>3, Typed, WorldInv DEF Inv, Going
  <2>4. QED
    BY <2>1, <2>2, <2>3 DEF Next, Done
<1>2. QED
  BY InitInv, <1>1, PTL DEF Spec

-----------------------------------------------------------------------------
(* Theorems *)

\* The state of ResultReads keeps its type, for all items, pages and revisions.
THEOREM TypeCorrect == Spec => []TypeOK
BY Invariant, PTL DEF Inv

\* AuthorizeConversationToolResultRead releases only what might be read at a moment
\* after the last look at its source.
THEOREM ReleasedOnlyWhenAllowed == Spec => []ReleasedWasAllowed
<1>1. Inv => ReleasedWasAllowed
  <2> SUFFICES ASSUME Inv, pc = "released" PROVE ReleasedWasAllowed
    BY DEF ReleasedWasAllowed
  <2>1. kind \in Plans => Pieces \subseteq allowed
    <3>1. kind \in Plans => 1..(at - 1) \subseteq allowed /\ at = Len(saved) + 1
      BY DEF Inv, AllowedInv, FlowInv, Going
    <3>2. QED
      BY <3>1, PieceTypes DEF Inv
  <2>2. QED
    BY <2>1 DEF Inv, RecentInv, ReleasedWasAllowed
<1>2. QED
  BY Invariant, <1>1, PTL

\* It releases only what the owners had as it was saved when they were looked at,
\* in order and with the receipt that was asked for.
THEOREM ReleasedOnlyAsSaved == Spec => []ReleasedIsAsSaved
<1>1. Inv => ReleasedIsAsSaved
  <2> SUFFICES ASSUME Inv, pc = "released" PROVE ReleasedIsAsSaved
    BY DEF ReleasedIsAsSaved
  <2>1. kind # "receipt" => at = Len(saved) + 1
    BY ConstantsAssumption DEF Inv, TypeOK, FlowInv, Going
  <2>2. /\ Pieces = 1..Len(saved) /\ Len(saved) \in Nat
        /\ at = Len(saved) + 1 => 1..(at - 1) = Pieces
    BY PieceTypes DEF Inv
  <2>3. Pieces \subseteq intact
    <3>1. CASE kind = "receipt"
      <4>1. Len(saved) = 1 /\ 1 \in intact
        BY <3>1 DEF Inv, FlowInv, IntactInv, Lists
      <4>2. QED
        BY <2>2, <4>1
    <3>2. CASE kind # "receipt"
      BY <2>1, <2>2, <3>2 DEF Inv, IntactInv, Going
    <3>3. QED
      BY <3>1, <3>2
  <2>4. recorded
    BY DEF Inv, FlowInv, RecordedInv, Going, Plans
  <2>5. kind \in Lists => \A m, n \in Pieces : m < n => saved[m].item < saved[n].item
    BY <2>1, <2>2 DEF Inv, OrderInv, Going, Lists
  <2>6. reader = "stranger" /\ Pieces # {} => kind = "receipt"
    <3>1. CASE kind \in Plans
      BY <2>3, <3>1 DEF Inv, IntactInv
    <3>2. CASE kind \in Records
      BY <3>2 DEF Inv, FlowInv, WellFormed, Going
    <3>3. QED
      BY <3>1, <3>2, ConstantsAssumption DEF Inv, TypeOK
  <2>7. QED
    BY <2>3, <2>4, <2>5, <2>6 DEF ReleasedIsAsSaved
<1>2. QED
  BY Invariant, <1>1, PTL

\* It refuses a saved result for a reason only.
THEOREM RefusedWithReason == Spec => []RefusedForAReason
BY Invariant, PTL DEF Inv
-----------------------------------------------------------------------------
(* Progress: the questions that a read may still ask *)

First == [idle |-> 9, reader |-> 8, access |-> 7, producer |-> 6, plan |-> 5, receipt |-> 5, source |-> 4]

Second == [receipt |-> 4, producer |-> 3, reader |-> 2, access |-> 1]

Ended == pc \in {"released", "refused"}

\* Two for each piece that is left, and those before and after the sources.
StepsLeft ==
    IF Ended THEN 0
    ELSE 2 * (Len(saved) + 1 - at) + (IF again THEN Second[pc] ELSE First[pc])

\* Every question brings a read nearer to its answer, asking both roles twice and
\* each plan and source in its turn; no change of the world makes it start again,
\* and an answer is the last word.
ReadRunsDown ==
    [][/\ StepsLeft \in 0..(2 * Len(saved) + 9)
       /\ StepsLeft = 0 <=> Ended
       /\ Step => StepsLeft' < StepsLeft
       /\ ~Step => UNCHANGED <<pc, at, again, saved>>]_vars

LEMMA StepsAreLeft ==
    ASSUME Inv
    PROVE  /\ StepsLeft \in 0..(2 * Len(saved) + 9)
           /\ StepsLeft = 0 <=> Ended
<1>1. Len(saved) \in Nat /\ at \in 1..(Len(saved) + 1)
  BY PieceTypes DEF Inv, TypeOK
<1>2. CASE Ended
  BY <1>1, <1>2 DEF StepsLeft
<1>3. CASE ~Ended /\ again
  <2>1. pc \in {"receipt", "producer", "reader", "access"}
    BY <1>3 DEF Inv, FlowInv, TypeOK, Stage, Ended
  <2>2. Second[pc] \in 1..4
    BY <2>1 DEF Second
  <2>3. QED
    BY <1>1, <1>3, <2>2 DEF StepsLeft
<1>4. CASE ~Ended /\ ~again
  <2>1. pc \in {"idle", "reader", "access", "producer", "plan", "receipt", "source"}
    BY <1>4 DEF Inv, TypeOK, Stage, Ended
  <2>2. First[pc] \in 4..9
    BY <2>1 DEF First
  <2>3. QED
    BY <1>1, <1>4, <2>2 DEF StepsLeft
<1>5. QED
  BY <1>2, <1>3, <1>4

LEMMA StepRunsDown == ASSUME Inv, Step PROVE StepsLeft' < StepsLeft
<1>1. /\ Len(saved) \in Nat /\ at \in 1..(Len(saved) + 1) /\ saved' = saved
      /\ saved = <<>> => Len(saved) = 0
      /\ Pieces = 1..Len(saved)
  BY PieceTypes, ReadStep DEF Inv, TypeOK, request
<1>2. StepsLeft \in Nat /\ (~Ended => StepsLeft > 0)
  BY <1>1, StepsAreLeft
<1> DEFINE left == 2 * (Len(saved) + 1 - at)
<1>3. CASE Ended'
  <2>1. ~Ended
    BY ReadStep DEF Ended, Step, Begin, AskReader, AskAccess, AskProducer, AskPlan, Look, NoSource,
       LookUpReceipt, Fail
  <2>2. QED
    BY <1>2, <1>3, <2>1 DEF StepsLeft
<1>4. CASE ~Ended'
  <2> USE DEF Require, StepsLeft, Ended, First, Second
  <2>1. CASE Begin
    BY <1>1, <1>4, <2>1 DEF Begin, Inv, FlowInv
  <2>2. CASE AskReader
    <3>1. /\ pc = "reader" /\ at' = at /\ again' = again
          /\ again => pc' = "access"
          /\ pc' \in {"plan", "access", "source", "producer"}
      BY <1>4, <2>2 DEF AskReader, AfterReader, Inv, FlowInv
    <3>2. QED
      BY <1>1, <1>4, <3>1
  <2>3. CASE AskAccess
    BY <1>1, <1>4, <2>3 DEF AskAccess
  <2>4. CASE AskProducer
    BY <1>1, <1>4, <2>4 DEF AskProducer
  <2>5. CASE AskPlan
    BY <1>1, <1>4, <2>5 DEF AskPlan, Inv, FlowInv
  <2>6. CASE Look
    <3>1. at \in 1..Len(saved) /\ at' = at + 1 /\ ~again /\ pc = "source"
      BY <1>1, <2>6 DEF Look, Inv, FlowInv
    <3>2. CASE at = Len(saved)
      <4>1. again' = TRUE /\ pc' \in {"receipt", "producer", "reader"}
        <5>1. AfterSources \in {"released", "receipt", "producer", "reader"}
          BY DEF AfterSources, SecondCheck
        <5>2. again' = TRUE /\ pc' \in {AfterSources, "refused"}
          BY <2>6, <3>2 DEF Look
        <5>3. QED
          BY <1>4, <5>1, <5>2
      <4>2. StepsLeft = 6
        BY <1>1, <3>1, <3>2
      <4>3. StepsLeft' \in 2..4
        BY <1>1, <3>1, <3>2, <4>1
      <4>4. QED
        BY <4>2, <4>3
    <3>3. CASE at # Len(saved)
      <4>1. again' = FALSE /\ pc' \in {"plan", "source"}
        BY <1>4, <2>6, <3>3 DEF Look
      <4>2. StepsLeft = 2 * (Len(saved) + 1 - at) + 4
        BY <3>1
      <4>3. StepsLeft' \in {2 * (Len(saved) - at) + 4, 2 * (Len(saved) - at) + 5}
        BY <1>1, <3>1, <4>1
      <4>4. QED
        BY <1>1, <4>2, <4>3
    <3>4. QED
      BY <3>2, <3>3
  <2>7. CASE NoSource
    BY <1>1, <1>4, <2>7 DEF NoSource, SecondCheck, Inv, FlowInv
  <2>8. CASE LookUpReceipt
    BY <1>1, <1>4, <2>8 DEF LookUpReceipt, SecondCheck, Inv, FlowInv
  <2>9. CASE Fail
    BY <1>4, <2>9 DEF Fail
  <2>10. QED
    BY <2>1, <2>2, <2>3, <2>4, <2>5, <2>6, <2>7, <2>8, <2>9 DEF Step
<1>5. QED
  BY <1>3, <1>4

\* AuthorizeConversationToolResultRead answers after at most 2n + 9 questions about
\* a result of n pieces, whatever changes in the meantime.
THEOREM ReadsComeToAnEnd == Spec => ReadRunsDown
<1>1. ASSUME Inv, [Next]_vars
      PROVE  /\ StepsLeft \in 0..(2 * Len(saved) + 9)
             /\ StepsLeft = 0 <=> Ended
             /\ Step => StepsLeft' < StepsLeft
             /\ ~Step => UNCHANGED <<pc, at, again, saved>>
  <2>1. ~Step => UNCHANGED <<pc, at, again, saved>>
    BY <1>1, WorldStep DEF Next, Done, vars, request, Inv
  <2>2. QED
    BY <1>1, <2>1, StepsAreLeft, StepRunsDown
<1>2. Inv /\ [Next]_vars =>
        [/\ StepsLeft \in 0..(2 * Len(saved) + 9)
         /\ StepsLeft = 0 <=> Ended
         /\ Step => StepsLeft' < StepsLeft
         /\ ~Step => UNCHANGED <<pc, at, again, saved>>]_vars
  BY <1>1
<1>3. QED
  BY <1>2, Invariant, PTL DEF Spec, ReadRunsDown
===============================================================================
