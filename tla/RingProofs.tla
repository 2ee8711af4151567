----------------------------- MODULE RingProofs -----------------------------
(***************************************************************************)
(* Theorems about Ring, for any size of the ring and any items: the number *)
(* of items never deceives the two threads, the slots are what they take   *)
(* them for, and the ring implements a first-in first-out buffer.          *)
(***************************************************************************)
EXTENDS Ring, SequenceTheorems, TLAPS

RingInv == RingTypeOK /\ CountIsSafe /\ SlotsRight

(* The place of a slot, counted from the consumer.                         *)
Offset(i) == IF out <= i THEN i - out ELSE i + Size - out

LEMMA Places ==
    ASSUME RingTypeOK
    PROVE  /\ Distance \in 0 .. Size - 1 /\ Distance = Offset(in)
           /\ \A i \in Slots : Offset(i) \in 0 .. Size - 1 /\ (Used(i) <=> Offset(i) < Distance)
           /\ \A i, j \in Slots : Offset(i) = Offset(j) => i = j
           /\ Offset(out) = 0
           /\ After(in) \in Slots /\ After(out) \in Slots
BY RingAssumption DEF RingTypeOK, Slots, Distance, Offset, Used, After

LEMMA InitRing == RingInit => RingInv
BY RingAssumption DEF RingInit, RingInv, RingTypeOK, CountIsSafe, SlotsRight, Slots, Distance, Used

LEMMA ProducerKeeps ==
    ASSUME RingInv,
           Look \/ Alloc \/ (\E x \in Items : Fill(x)) \/ GiveUp \/ Count
    PROVE  RingInv'
<1>0. RingTypeOK /\ CountIsSafe /\ SlotsRight /\ Free \notin Items /\ Blank \notin Items /\ Free # Blank
  BY RingAssumption DEF RingInv
<1>1. Distance \in Nat /\ Size \in Nat /\ in \in Slots /\ out \in Slots
      /\ Distance < Size /\ ~Used(in) /\ (consumer = "advance" => in # out)
  BY <1>0, Places, RingAssumption DEF RingTypeOK, CountIsSafe
<1>2. Distance' = Distance /\ \A i \in Slots : Used(i)' <=> Used(i)
  BY DEF Look, Alloc, Fill, GiveUp, Count, Distance, Used
<1>3. RingTypeOK'
  BY <1>0, <1>1 DEF RingTypeOK, Look, Alloc, Fill, GiveUp, Count
<1>4. CountIsSafe'
  BY <1>0, <1>1, <1>2 DEF RingTypeOK, CountIsSafe, Full, Look, Alloc, Fill, GiveUp, Count
<1>5. SlotsRight'
  <2>1. CASE Look \/ Count
    BY <1>0, <1>2, <2>1 DEF SlotsRight, Look, Count, RingTypeOK
  <2>2. ASSUME Alloc \/ (\E x \in Items : Fill(x)) \/ GiveUp
        PROVE  SlotsRight'
    <3>1. \A i \in Slots : i # in => slot'[i] = slot[i]
      BY <1>0, <2>2 DEF RingTypeOK, Alloc, Fill, GiveUp
    <3>2. in' = in /\ out' = out /\ consumer' = consumer
      BY <2>2 DEF Alloc, Fill, GiveUp
    <3>3. CASE Alloc
      <4>1. slot'[in] = Blank /\ producer' = "fill"
        BY <1>0, <1>1, <3>3 DEF RingTypeOK, Alloc
      <4> QED
        BY <1>0, <1>1, <1>2, <3>1, <3>2, <4>1 DEF SlotsRight
    <3>4. CASE \E x \in Items : Fill(x)
      <4>1. slot'[in] \in Items /\ producer' = "advance"
        BY <1>0, <1>1, <3>4 DEF RingTypeOK, Fill
      <4> QED
        BY <1>0, <1>1, <1>2, <3>1, <3>2, <4>1 DEF SlotsRight
    <3>5. CASE GiveUp
      <4>1. slot'[in] = Free /\ producer' = "idle"
        BY <1>0, <1>1, <3>5 DEF RingTypeOK, GiveUp
      <4> QED
        BY <1>0, <1>1, <1>2, <3>1, <3>2, <4>1 DEF SlotsRight
    <3> QED
      BY <2>2, <3>3, <3>4, <3>5
  <2> QED
    BY <2>1, <2>2
<1> QED
  BY <1>3, <1>4, <1>5 DEF RingInv

LEMMA AdvanceKeeps == RingInv /\ Advance => RingInv'
<1> SUFFICES ASSUME RingInv, Advance PROVE RingInv'
  OBVIOUS
<1>0. RingTypeOK /\ CountIsSafe /\ SlotsRight /\ Free \notin Items
  BY RingAssumption DEF RingInv
<1>1. RingTypeOK'
  BY <1>0, Places DEF RingTypeOK, Advance
<1>2. Distance + 1 < Size /\ Distance \in Nat /\ in \in Slots /\ Size \in Nat
  BY <1>0, Places, RingAssumption DEF CountIsSafe, Advance, RingTypeOK
<1>3. Distance' = Distance + 1
  BY <1>0, <1>2, RingAssumption DEF RingTypeOK, Slots, Advance, Distance, After
<1>4. \A i \in Slots : Offset(i)' = Offset(i)
  BY DEF Advance, Offset
<1>5. \A i \in Slots : Used(i)' <=> Used(i) \/ i = in
  BY <1>0, <1>1, <1>2, <1>3, <1>4, Places DEF Used, Offset
<1>6. CountIsSafe'
  BY <1>0, <1>2, <1>3 DEF RingTypeOK, CountIsSafe, Advance
<1>7. SlotsRight'
  BY <1>0, <1>5 DEF SlotsRight, Advance
<1> QED
  BY <1>1, <1>6, <1>7 DEF RingInv

LEMMA ConsumerKeeps ==
    ASSUME RingInv, See \/ Leave \/ Release \/ Uncount
    PROVE  RingInv'
<1>0. RingTypeOK /\ CountIsSafe /\ SlotsRight
  BY DEF RingInv
<1>1. Distance \in Nat /\ out \in Slots /\ Size \in Nat
  BY <1>0, Places, RingAssumption DEF RingTypeOK
<1>2. Distance' = Distance /\ \A i \in Slots : Used(i)' <=> Used(i)
  BY DEF See, Leave, Release, Uncount, Distance, Used
<1>3. RingTypeOK'
  BY <1>0, <1>1 DEF RingTypeOK, CountIsSafe, See, Leave, Release, Uncount
<1>4. CountIsSafe'
  BY <1>0, <1>1, <1>2 DEF RingTypeOK, CountIsSafe, See, Leave, Release, Uncount
<1>5. SlotsRight'
  <2>1. CASE See \/ Leave \/ Uncount
    BY <1>0, <1>2, <2>1 DEF SlotsRight, See, Leave, Uncount
  <2>2. CASE Release
    <3>1. /\ slot'[out] = Free
          /\ \A i \in Slots : i # out => slot'[i] = slot[i]
          /\ in' = in /\ out' = out /\ producer' = producer
          /\ consumer = "use" /\ consumer' = "advance"
      BY <1>0, <1>1, <2>2 DEF RingTypeOK, Release
    <3>2. Used(out) /\ ~Used(in)
      BY <1>0, <1>1, <3>1, Places DEF CountIsSafe, RingTypeOK
    <3> QED
      BY <1>0, <1>2, <3>1, <3>2 DEF SlotsRight
  <2> QED
    BY <2>1, <2>2
<1> QED
  BY <1>3, <1>4, <1>5 DEF RingInv

LEMMA MoveKeeps == RingInv /\ Move => RingInv'
<1> SUFFICES ASSUME RingInv, Move PROVE RingInv'
  OBVIOUS
<1>0. RingTypeOK /\ CountIsSafe /\ SlotsRight
  BY DEF RingInv
<1>1. RingTypeOK'
  BY <1>0, Places DEF RingTypeOK, Move
<1>2. Distance > 0 /\ Distance \in Nat /\ out \in Slots /\ Size \in Nat
  BY <1>0, Places, RingAssumption DEF CountIsSafe, Move, RingTypeOK
<1>3. Distance' = Distance - 1
  BY <1>0, <1>2, RingAssumption DEF RingTypeOK, Slots, Move, Distance, After
<1>4. \A i \in Slots : i # out => Offset(i)' = Offset(i) - 1
  BY <1>0, RingAssumption DEF RingTypeOK, Slots, Move, Offset, After
<1>5. Offset(out) = 0 /\ \A i \in Slots : i = out => ~Used(i)'
  BY <1>0, <1>2, RingAssumption DEF RingTypeOK, Slots, Move, Offset, After, Used, Distance
<1>6. \A i \in Slots : Used(i)' <=> Used(i) /\ i # out
  BY <1>0, <1>1, <1>2, <1>3, <1>4, <1>5, Places DEF Used, Offset
<1>7. CountIsSafe'
  BY <1>0, <1>2, <1>3 DEF RingTypeOK, CountIsSafe, Move
<1>8. SlotsRight'
  <2>1. slot' = slot /\ in' = in /\ producer' = producer /\ consumer = "advance" /\ consumer' = "count"
    BY DEF Move
  <2> QED
    BY <1>0, <1>6, <2>1 DEF SlotsRight
<1> QED
  BY <1>1, <1>7, <1>8 DEF RingInv

LEMMA ClearKeeps == RingInv /\ Clear => RingInv'
BY RingAssumption
   DEF Clear, Wipe, RingInv, RingTypeOK, CountIsSafe, SlotsRight, Slots, Distance, Used

LEMMA NextRing == RingInv /\ [RingNext]_ringVars => RingInv'
<1>1. RingInv /\ UNCHANGED ringVars => RingInv'
  BY DEF ringVars, RingInv, RingTypeOK, CountIsSafe, SlotsRight, Distance, Used
<1> QED
  BY <1>1, ProducerKeeps, AdvanceKeeps, ConsumerKeeps, MoveKeeps, ClearKeeps DEF RingNext

(* The inductive invariant: the types, the number of items and the slots   *)
(* need each other.                                                        *)
THEOREM RingInvariant == RingSpec => []RingInv
BY InitRing, NextRing, PTL DEF RingSpec

(* Neither thread of a ring of decoder.c is deceived by the number of      *)
(* items, which is changed after the slot and the index.                   *)
THEOREM CountNeverDeceives == RingSpec => []CountIsSafe
<1>1. RingInv => CountIsSafe
  BY DEF RingInv
<1> QED
  BY <1>1, RingInvariant, PTL

(* No item is torn, lost or leaked in a ring of decoder.c.                 *)
THEOREM SlotsAreRight == RingSpec => []SlotsRight
<1>1. RingInv => SlotsRight
  BY DEF RingInv
<1> QED
  BY <1>1, RingInvariant, PTL

-----------------------------------------------------------------------------
(* The ring is a first-in first-out buffer.                                *)

LEMMA NthPlace ==
    ASSUME RingTypeOK, NEW k \in 0 .. Distance - 1
    PROVE  Nth(k) \in Slots /\ Offset(Nth(k)) = k /\ Used(Nth(k))
<1>1. Distance \in 0 .. Size - 1
  BY Places
<1>2. Nth(k) \in Slots /\ Offset(Nth(k)) = k
  BY <1>1, RingAssumption DEF RingTypeOK, Slots, Offset, Nth
<1> QED
  BY <1>1, <1>2, Places

(* The contents are a sequence of items.                                   *)
ContentsOK ==
    /\ Contents \in Seq(Items)
    /\ Len(Contents) = Distance - Released
    /\ Distance - Released \in 0 .. Size - 1 /\ Released \in {0, 1}
    /\ \A k \in 1 .. Distance - Released : Contents[k] = slot[Nth(k - 1 + Released)]

LEMMA ContentsType == RingInv => ContentsOK
<1> SUFFICES ASSUME RingInv PROVE ContentsOK
  OBVIOUS
<1>0. RingTypeOK /\ CountIsSafe /\ SlotsRight /\ Distance \in 0 .. Size - 1
  BY Places DEF RingInv
<1>1. Released \in {0, 1} /\ (Released = 1 <=> consumer = "advance") /\ Distance - Released \in 0 .. Size - 1
  BY <1>0, RingAssumption DEF Released, CountIsSafe
<1>2. ASSUME NEW k \in 1 .. Distance - Released
      PROVE  slot[Nth(k - 1 + Released)] \in Items
  <2>1. k - 1 + Released \in 0 .. Distance - 1
    BY <1>0, <1>1, RingAssumption
  <2>2. LET i == Nth(k - 1 + Released)
        IN  i \in Slots /\ Used(i) /\ Offset(i) = k - 1 + Released
    BY <1>0, <2>1, NthPlace
  <2>3. Released = 1 => Nth(k - 1 + Released) # out
    BY <1>0, <1>1, <2>2, Places
  <2> QED
    BY <1>0, <1>1, <2>2, <2>3 DEF SlotsRight
<1>3. Contents \in [1 .. Distance - Released -> Items]
  BY <1>2 DEF Contents
<1>4. Contents \in Seq(Items) /\ Len(Contents) = Distance - Released
  BY <1>1, <1>3, RingAssumption
<1> QED
  BY <1>0, <1>1, <1>4 DEF Contents, ContentsOK

LEMMA ContentsTypeNext == RingInv' => ContentsOK'
BY ContentsType, PTL

LEMMA SameContents ==
    ASSUME RingInv, RingInv', in' = in, out' = out, Released' = Released,
           \A i \in Slots : Used(i) => slot'[i] = slot[i]
    PROVE  Contents' = Contents
<1>1. Distance' = Distance
  BY DEF Distance
<1>2. ASSUME NEW k \in 1 .. Distance - Released
      PROVE  slot'[Nth(k - 1 + Released)'] = slot[Nth(k - 1 + Released)]
  <2>1. k - 1 + Released \in 0 .. Distance - 1 /\ RingTypeOK
    BY ContentsType, Places, RingAssumption DEF RingInv, ContentsOK
  <2>2. Nth(k - 1 + Released) \in Slots /\ Used(Nth(k - 1 + Released))
    BY <2>1, NthPlace
  <2>3. Nth(k - 1 + Released)' = Nth(k - 1 + Released)
    BY DEF Nth
  <2> QED
    BY <2>2, <2>3
<1> QED
  BY <1>1, <1>2 DEF Contents

LEMMA Appended ==
    ASSUME NEW S, NEW s \in Seq(S), NEW x \in S, NEW t \in Seq(S), Len(t) = Len(s) + 1,
           \A i \in 1 .. Len(s) : t[i] = s[i], t[Len(s) + 1] = x
    PROVE  t = Append(s, x)
<1>1. Append(s, x) \in Seq(S) /\ Len(Append(s, x)) = Len(s) + 1
  OBVIOUS
<1>2. \A i \in 1 .. Len(t) : t[i] = Append(s, x)[i]
  OBVIOUS
<1> QED
  BY <1>1, <1>2, SeqEqual

LEMMA Tailed ==
    ASSUME NEW S, NEW s \in Seq(S), s # <<>>, NEW t \in Seq(S), Len(t) = Len(s) - 1,
           \A i \in 1 .. Len(t) : t[i] = s[i + 1]
    PROVE  t = Tail(s)
<1>1. /\ Tail(s) \in Seq(S) /\ Len(Tail(s)) = Len(s) - 1
      /\ \A i \in 1 .. Len(Tail(s)) : Tail(s)[i] = s[i + 1]
  BY HeadTailProperties
<1> QED
  BY <1>1, SeqEqual

LEMMA AdvancePuts ==
    ASSUME RingInv, RingInv', Advance
    PROVE  slot[in] \in Items /\ Buffer!Put(slot[in])
<1>0. RingTypeOK /\ RingTypeOK' /\ CountIsSafe /\ SlotsRight /\ Distance \in 0 .. Size - 1
  BY Places DEF RingInv
<1>1. Distance + 1 < Size /\ in \in Slots /\ slot[in] \in Items /\ Size \in Nat
  BY <1>0, RingAssumption DEF CountIsSafe, SlotsRight, Advance, RingTypeOK
<1>2. Distance' = Distance + 1 /\ Released' = Released /\ slot' = slot /\ out' = out
  BY <1>0, <1>1, RingAssumption DEF RingTypeOK, Slots, Advance, Distance, After, Released
<1> DEFINE n == Distance - Released
<1>3. /\ Contents \in Seq(Items) /\ Len(Contents) = n /\ n \in 0 .. Size - 1 /\ Released \in {0, 1}
      /\ \A k \in 1 .. n : Contents[k] = slot[Nth(k - 1 + Released)]
  BY ContentsType DEF ContentsOK
<1>4. /\ Contents' \in Seq(Items) /\ Len(Contents') = n + 1
      /\ \A k \in 1 .. n + 1 : Contents'[k] = slot[Nth(k - 1 + Released)]
  <2>1. /\ Contents' \in Seq(Items) /\ Len(Contents') = Distance' - Released'
        /\ \A k \in 1 .. Distance' - Released' : Contents'[k] = slot'[Nth(k - 1 + Released)']
    BY ContentsTypeNext DEF ContentsOK
  <2>2. Distance' - Released' = n + 1
    BY <1>0, <1>2, <1>3
  <2>3. \A k \in 1 .. n + 1 : Nth(k - 1 + Released)' = Nth(k - 1 + Released)
    BY <1>2 DEF Nth
  <2> QED
    BY <1>2, <2>1, <2>2, <2>3
<1>5. Nth((n + 1) - 1 + Released) = in
  <2>1. (n + 1) - 1 + Released = Distance
    BY <1>0, <1>3
  <2>2. Nth(Distance) = in
    BY <1>0, RingAssumption DEF RingTypeOK, Slots, Nth, Distance
  <2> QED
    BY <2>1, <2>2
<1>6. Contents' = Append(Contents, slot[in])
  <2> HIDE DEF n
  <2>1. Contents'[n + 1] = slot[in] /\ \A k \in 1 .. n : Contents'[k] = Contents[k]
    BY <1>3, <1>4, <1>5
  <2> QED
    BY <1>1, <1>3, <1>4, <2>1, Appended
<1>7. Len(Contents) < Size - 1
  BY <1>0, <1>1, <1>3
<1> QED
  BY <1>1, <1>6, <1>7 DEF Buffer!Put

LEMMA ReleaseGets ==
    ASSUME RingInv, RingInv', Release
    PROVE  Buffer!Get
<1>0. RingTypeOK /\ CountIsSafe /\ Distance \in 0 .. Size - 1
  BY Places DEF RingInv
<1>1. /\ Distance > 0 /\ Released = 0 /\ Released' = 1 /\ Distance' = Distance
      /\ out \in Slots /\ Size \in Nat
  BY <1>0, RingAssumption DEF CountIsSafe, Release, Released, Distance, RingTypeOK
<1>2. /\ Contents \in Seq(Items) /\ Len(Contents) = Distance
      /\ \A k \in 1 .. Distance : Contents[k] = slot[Nth(k - 1)]
  BY <1>0, <1>1, ContentsType DEF ContentsOK
<1>3. /\ Contents' \in Seq(Items) /\ Len(Contents') = Distance - 1
      /\ \A k \in 1 .. Distance - 1 : Contents'[k] = slot'[Nth(k)]
  <2>1. /\ Contents' \in Seq(Items) /\ Len(Contents') = Distance' - Released'
        /\ \A k \in 1 .. Distance' - Released' : Contents'[k] = slot'[Nth(k - 1 + Released)']
    BY ContentsTypeNext DEF ContentsOK
  <2>2. \A k \in 1 .. Distance - 1 : Nth(k - 1 + Released)' = Nth(k)
    <3>1. ASSUME NEW k \in 1 .. Distance - 1 PROVE k - 1 + Released' = k
      BY <1>0, <1>1
    <3> QED
      BY <3>1 DEF Nth, Release
  <2> QED
    BY <1>1, <2>1, <2>2
<1>4. ASSUME NEW k \in 1 .. Distance - 1
      PROVE  Contents'[k] = Contents[k + 1]
  <2>1. k \in 0 .. Distance - 1 /\ k + 1 \in 1 .. Distance /\ (k + 1) - 1 = k /\ k # 0
    BY <1>0
  <2>2. Nth(k) \in Slots /\ Nth(k) # out
    BY <1>0, <2>1, NthPlace, Places
  <2>3. slot'[Nth(k)] = slot[Nth(k)]
    BY <1>0, <2>2 DEF Release, RingTypeOK
  <2> QED
    BY <1>2, <1>3, <2>1, <2>3
<1>5. Contents # <<>>
  BY <1>0, <1>1, <1>2
<1>6. Contents' = Tail(Contents)
  BY <1>0, <1>2, <1>3, <1>4, <1>5, Tailed
<1> QED
  BY <1>5, <1>6 DEF Buffer!Get

LEMMA MoveKeepsContents ==
    ASSUME RingInv, RingInv', Move
    PROVE  Contents' = Contents
<1>0. RingTypeOK /\ CountIsSafe /\ Distance \in 0 .. Size - 1
  BY Places DEF RingInv
<1>1. Distance > 0 /\ Released = 1 /\ Released' = 0 /\ slot' = slot
  BY <1>0 DEF CountIsSafe, Move, Released
<1>2. Distance' = Distance - 1
  BY <1>0, <1>1, RingAssumption DEF RingTypeOK, Slots, Move, Distance, After
<1>3. ASSUME NEW k \in 1 .. Distance - 1
      PROVE  Nth(k - 1 + Released)' = Nth(k - 1 + Released)
  BY <1>0, <1>1, RingAssumption DEF RingTypeOK, Slots, Move, Nth, After
<1>4. Distance' - Released' = Distance - 1 /\ Distance - Released = Distance - 1
  BY <1>0, <1>1, <1>2
<1> QED
  BY <1>1, <1>3, <1>4 DEF Contents

LEMMA ClearEmpties ==
    ASSUME RingInv', Clear
    PROVE  Contents' = <<>>
<1>1. Contents' \in Seq(Items) /\ Len(Contents') = Distance' - Released'
  BY ContentsTypeNext DEF ContentsOK
<1>2. Distance' - Released' = 0
  BY DEF Clear, Wipe, Distance, Released
<1> QED
  BY <1>1, <1>2, EmptySeq

(* What the ring does between putting and getting does not show.           *)
LEMMA Invisible ==
    ASSUME RingInv, RingInv',
           \/ Look \/ Alloc \/ (\E x \in Items : Fill(x)) \/ GiveUp \/ Count
           \/ See \/ Leave \/ Uncount \/ UNCHANGED ringVars
    PROVE  Contents' = Contents
<1>0. RingTypeOK /\ CountIsSafe /\ \A i \in Slots : Used(i) => i # in
  BY Places, RingAssumption DEF RingInv
<1>1. CASE Alloc \/ (\E x \in Items : Fill(x)) \/ GiveUp
  <2>1. in' = in /\ out' = out /\ Released' = Released
    BY <1>1 DEF Alloc, Fill, GiveUp, Released
  <2>2. \A i \in Slots : Used(i) => slot'[i] = slot[i]
    BY <1>0, <1>1 DEF RingTypeOK, Alloc, Fill, GiveUp
  <2> QED
    BY <2>1, <2>2, SameContents
<1>2. CASE Look \/ Count \/ See \/ Leave \/ Uncount \/ UNCHANGED ringVars
  <2>1. in' = in /\ out' = out /\ slot' = slot /\ Released' = Released
    BY <1>2 DEF Look, Count, See, Leave, Uncount, ringVars, Released
  <2> QED
    BY <2>1, SameContents
<1> QED
  BY <1>1, <1>2

(* Every step of the ring is one of the buffer or none.                    *)
LEMMA NextFifo == RingInv /\ RingInv' /\ [RingNext]_ringVars => [Buffer!Next]_Contents
<1> SUFFICES ASSUME RingInv, RingInv', [RingNext]_ringVars PROVE [Buffer!Next]_Contents
  OBVIOUS
<1>1. CASE \/ Look \/ Alloc \/ (\E x \in Items : Fill(x)) \/ GiveUp \/ Count
           \/ See \/ Leave \/ Uncount \/ UNCHANGED ringVars
  BY <1>1, Invisible
<1>2. CASE Advance
  BY <1>2, AdvancePuts DEF Buffer!Next
<1>3. CASE Release
  BY <1>3, ReleaseGets DEF Buffer!Next
<1>4. CASE Move
  BY <1>4, MoveKeepsContents
<1>5. CASE Clear
  BY <1>5, ClearEmpties DEF Buffer!Next, Buffer!Empty
<1> QED
  BY <1>1, <1>2, <1>3, <1>4, <1>5 DEF RingNext

LEMMA InitFifo == RingInit => Buffer!Init
<1> SUFFICES ASSUME RingInit PROVE Contents = <<>>
  BY DEF Buffer!Init
<1>1. Contents \in Seq(Items) /\ Len(Contents) = Distance - Released
  BY InitRing, ContentsType DEF ContentsOK
<1>2. Distance - Released = 0
  BY DEF RingInit, Distance, Released
<1> QED
  BY <1>1, <1>2, EmptySeq

(* A ring of decoder.c is a first-in first-out buffer for one item less    *)
(* than it has slots.                                                      *)
THEOREM RingIsFifo == RingSpec => IsFifo
BY InitFifo, NextFifo, RingInvariant, PTL DEF RingSpec, IsFifo, Buffer!Spec
=============================================================================
