------------------------- MODULE NacRxStreamProofs -------------------------
(***************************************************************************)
(* Proofs about NacRxStream for every ring size, safety window, mapping    *)
(* and number of captured bytes.                                           *)
(***************************************************************************)
EXTENDS NacRxStream, TLAPS

LEMMA AlignBounds ==
    ASSUME NEW w \in Nat
    PROVE  /\ Align(w) \in Nat
           /\ Align(w) <= w
           /\ w < Align(w) + Safety
BY RingAssumption DEF Align

LEMMA AlignMono ==
    ASSUME NEW v \in Nat, NEW w \in Nat, v <= w
    PROVE  Align(v) <= Align(w)
<1> DEFINE q(x) == x \div Safety
<1>1. /\ v = Safety * q(v) + (v % Safety)
      /\ w = Safety * q(w) + (w % Safety)
      /\ q(v) \in Nat /\ q(w) \in Nat
      /\ (v % Safety) \in 0..(Safety - 1)
      /\ (w % Safety) \in 0..(Safety - 1)
  BY RingAssumption
<1>2. q(v) <= q(w)
  <2>1. SUFFICES ASSUME q(v) >= q(w) + 1 PROVE FALSE
    BY <1>1
  <2>2. Safety * q(v) >= Safety * (q(w) + 1)
    BY <1>1, <2>1, RingAssumption
  <2>3. Safety * (q(w) + 1) = Safety * q(w) + Safety
    BY <1>1, RingAssumption
  <2>4. QED
    BY <1>1, <2>2, <2>3, RingAssumption
<1>3. Safety * q(v) <= Safety * q(w)
  BY <1>1, <1>2, RingAssumption
<1>4. QED
  BY <1>1, <1>3, RingAssumption DEF Align

\* The slack only grows as BOTTOM moves up its mapping.
LEMMA SlackMono ==
    ASSUME NEW v \in Nat, NEW w \in Nat, v <= w
    PROVE  /\ Slack(v) \in Nat
           /\ Slack(w) \in Nat
           /\ Slack(v) <= Slack(w)
           /\ Slack(v) <= v
BY AlignBounds, AlignMono, RingAssumption DEF Slack

-----------------------------------------------------------------------------
LEMMA InitRxInv == Init => RxInv
<1> SUFFICES ASSUME Init PROVE RxInv
  OBVIOUS
<1> USE RingAssumption DEF Init
<1>1. TypeOK
  <2>1. mem \in [0..(Size - 1) -> Nat]
    OBVIOUS
  <2>2. dmaRun \in BOOLEAN /\ expired \in BOOLEAN
    OBVIOUS
  <2>3. /\ rec \in 0..Size /\ limit \in 1..Size /\ written \in 0..MaxWritten
        /\ bottom \in 0..(Size + Extra) /\ top \in 0..(Size + Extra)
        /\ offset \in 0..Size /\ consumed \in Nat
    OBVIOUS
  <2>4. mindata \in MinDatas /\ pc \in {"client", "pause", "limit", "resume", "wait"}
    OBVIOUS
  <2>5. QED
    BY <2>1, <2>2, <2>3, <2>4 DEF TypeOK
<1>2. InOrder /\ BottomNormal /\ RecPhase /\ OffsetSafe /\ TopSafe
  BY DEF InOrder, BottomNormal, RecPhase, OffsetSafe, TopSafe, Base
<1>3. Slack(0) \in Nat
  <2>1. 0 \in Nat /\ 0 <= 0
    OBVIOUS
  <2>2. QED
    BY <2>1, SlackMono, Zenon
<1>4. LimitSafe
  BY <1>3 DEF LimitSafe, Base, Room
<1>5. UnreadIntact
  BY DEF UnreadIntact, Base
<1>6. QED
  BY <1>1, <1>2, <1>4, <1>5 DEF RxInv

\* The card's step.
LEMMA CardWriteRxInv == RxInv /\ CardWrite => RxInv'
<1> SUFFICES ASSUME RxInv, CardWrite PROVE RxInv'
  OBVIOUS
<1> USE RingAssumption
<1>0. /\ TypeOK /\ InOrder /\ BottomNormal /\ RecPhase
      /\ LimitSafe /\ OffsetSafe /\ TopSafe /\ UnreadIntact
  BY DEF RxInv
<1>1. TypeOK'
  BY <1>0 DEF TypeOK, CardWrite, Mirror, hostVars
<1>2. bottom' = bottom /\ Base' = Base /\ Base \in Int
  BY <1>0 DEF CardWrite, hostVars, Base, TypeOK
<1>3. /\ Slack(bottom) \in Nat
      /\ Slack(bottom) <= bottom
      /\ Slack(bottom) <= Size
  <2>1. bottom \in Nat /\ bottom <= bottom
    BY <1>0 DEF TypeOK
  <2>2. Align(bottom) \in Nat /\ Align(bottom) <= bottom
    BY <2>1, AlignBounds, Zenon
  <2>3. Slack(bottom) \in Nat /\ Slack(bottom) <= bottom
    BY <2>1, SlackMono, Zenon
  <2>4. QED
    BY <2>1, <2>2, <2>3 DEF Slack
<1>4. Slack(bottom)' = Slack(bottom)
  BY <1>2 DEF Slack, Align
<1>5. written' + Room' = written + Room /\ Room >= 1
  BY <1>0 DEF TypeOK, Room, CardWrite, Mirror
<1>6. InOrder' /\ BottomNormal' /\ OffsetSafe' /\ TopSafe'
  BY <1>0, <1>2 DEF InOrder, BottomNormal, OffsetSafe, TopSafe, CardWrite,
       hostVars, TypeOK, Unfold, Align
<1>7. LimitSafe'
  BY <1>0, <1>2, <1>4, <1>5 DEF LimitSafe
<1>8. RecPhase'
  BY <1>0, <1>2, <1>3, <1>5 DEF RecPhase, CardWrite, TypeOK, Mirror, LimitSafe, Room
<1>9. UnreadIntact'
  <2> SUFFICES ASSUME NEW w \in bottom..(written + 1 - Base - 1)
               PROVE  mem'[Mirror(w)] = Base + w + 1
    BY <1>0, <1>2 DEF UnreadIntact, CardWrite, TypeOK
  <2>0. /\ w \in Int /\ w >= bottom /\ Room \in Int
        /\ bottom \in Nat /\ written \in Int
    BY <1>0, <1>2 DEF TypeOK, Room
  <2>1. /\ w \in Nat
        /\ written - Base <= 2 * Size - 1
        /\ written - Base - w < Size
    BY <1>0, <1>2, <1>3, <1>5, <2>0 DEF LimitSafe
  <2>2. Mirror(rec) = Mirror(written - Base) /\ Mirror(rec) \in 0..(Size - 1)
    BY <1>0, <1>2, <1>3, <1>5, <2>1 DEF RecPhase, Mirror, TypeOK, LimitSafe, Room
  <2>3. CASE w = written - Base
    BY <1>0, <1>2, <2>2, <2>3 DEF CardWrite, TypeOK
  <2>4. CASE w \in bottom..(written - Base - 1)
    <3>1. mem[Mirror(w)] = Base + w + 1
      BY <1>0, <2>4 DEF UnreadIntact
    <3>2. Mirror(w) # Mirror(rec) /\ Mirror(w) \in 0..(Size - 1)
      BY <1>0, <1>2, <2>1, <2>2, <2>4 DEF Mirror, TypeOK
    <3>3. QED
      BY <1>0, <3>1, <3>2, <2>2 DEF CardWrite, TypeOK
  <2>5. QED
    BY <1>0, <1>2, <2>3, <2>4 DEF TypeOK
<1>10. QED
  BY <1>1, <1>6, <1>7, <1>8, <1>9 DEF RxInv

\* nac_advance_stream is entered: BOTTOM changes mapping, Base changes lap.
LEMMA AdvanceEnterRxInv == RxInv /\ AdvanceEnter => RxInv'
<1> SUFFICES ASSUME RxInv, AdvanceEnter PROVE RxInv'
  OBVIOUS
<1> USE RingAssumption
<1>0. /\ TypeOK /\ InOrder /\ BottomNormal /\ RecPhase
      /\ LimitSafe /\ OffsetSafe /\ TopSafe /\ UnreadIntact
  BY DEF RxInv
<1>1. TypeOK'
  <2>1. expired' \in BOOLEAN /\ dmaRun' \in BOOLEAN
    BY <1>0 DEF TypeOK, AdvanceEnter, cardVars
  <2>2. bottom' \in 0..(Size + Extra)
    BY <1>0 DEF TypeOK, AdvanceEnter, NormBottom
  <2>3. QED
    BY <1>0, <2>1, <2>2 DEF TypeOK, AdvanceEnter, cardVars
<1>2. /\ bottom \in Nat /\ bottom <= bottom /\ written \in Nat /\ consumed \in Nat
      /\ rec \in 0..Size /\ Room \in Nat /\ Base \in Int /\ consumed = Base + bottom
  BY <1>0 DEF TypeOK, Room, Base
<1>3. PICK b \in Nat : bottom' = b
  BY <1>1 DEF TypeOK
<1>4. PICK base \in Int : base = consumed - b
  BY <1>2
<1>5. /\ written' = written /\ consumed' = consumed /\ rec' = rec /\ limit' = limit
      /\ mem' = mem /\ offset' = rec /\ pc' = "pause" /\ top' = top
      /\ Room' = Room /\ Base' = base
  BY <1>3, <1>4 DEF AdvanceEnter, cardVars, Room, Base
<1>6. \/ bottom <= Size /\ b = bottom /\ base = Base
      \/ bottom > Size /\ b = bottom - Size /\ base = Base + Size
  BY <1>2, <1>3, <1>4 DEF AdvanceEnter, NormBottom
<1>7. /\ Align(b) \in Nat /\ Align(b) <= b /\ Slack(b) \in Nat
      /\ Slack(bottom) \in Nat
  <2>1. b <= b
    OBVIOUS
  <2>2. QED
    BY <1>2, <2>1, AlignBounds, SlackMono, Zenon
<1>8. InOrder' /\ BottomNormal' /\ TopSafe'
  BY <1>0, <1>3, <1>5, <1>6 DEF InOrder, BottomNormal, TopSafe, TypeOK
<1>9. \/ written = base + rec
      \/ rec > 0 /\ written = base + Size + rec
  BY <1>0, <1>2, <1>6 DEF RecPhase, InOrder
<1>10. RecPhase'
  BY <1>5, <1>9 DEF RecPhase
<1>11. LimitSafe'
  <2>1. written + Room <= base + Size + Slack(b)
    <3>1. CASE b = bottom /\ base = Base
      BY <1>0, <3>1 DEF LimitSafe
    <3>2. CASE bottom > Size /\ base = Base + Size
      <4>1. Slack(bottom) = Size - Safety
        BY <3>2 DEF Slack
      <4>2. QED
        BY <1>0, <1>2, <1>7, <3>2, <4>1 DEF LimitSafe
    <3>3. QED
      BY <1>6, <3>1, <3>2
  <2>2. QED
    BY <1>3, <1>5, <2>1 DEF LimitSafe, Slack, Align
<1>12. OffsetSafe'
  <2>1. Unfold(rec, Align(b)) <= written - base
    BY <1>0, <1>2, <1>4, <1>7, <1>9 DEF Unfold, InOrder
  <2>2. QED
    BY <1>3, <1>5, <2>1 DEF OffsetSafe, Unfold, Align
<1>13. UnreadIntact'
  <2> SUFFICES ASSUME NEW w \in b..(written - base - 1)
               PROVE  mem[Mirror(w)] = base + w + 1
    BY <1>3, <1>5 DEF UnreadIntact, Mirror
  <2>1. CASE b = bottom /\ base = Base
    BY <1>0, <2>1 DEF UnreadIntact
  <2>2. CASE bottom > Size /\ b = bottom - Size /\ base = Base + Size
    <3>1. w + Size \in bottom..(written - Base - 1)
      BY <1>2, <2>2
    <3>2. mem[Mirror(w + Size)] = Base + (w + Size) + 1
      BY <1>0, <3>1 DEF UnreadIntact
    <3>3. Slack(bottom) = Size - Safety
      BY <2>2 DEF Slack
    <3>4. w < Size /\ w \in Nat
      BY <1>0, <1>2, <2>2, <3>1, <3>3 DEF LimitSafe
    <3>5. Mirror(w + Size) = Mirror(w)
      BY <3>4 DEF Mirror
    <3>6. QED
      BY <1>2, <2>2, <3>2, <3>4, <3>5
  <2>3. QED
    BY <1>6, <2>1, <2>2
<1>14. QED
  BY <1>1, <1>8, <1>10, <1>11, <1>12, <1>13 DEF RxInv

\* The three steps that touch neither the positions nor the grant.
LEMMA QuietRxInv ==
    RxInv /\ (PauseDma \/ ResumeDma \/ \E m \in MinDatas : SetStreamPoll(m)) => RxInv'
<1> SUFFICES ASSUME RxInv,
                    PauseDma \/ ResumeDma \/ \E m \in MinDatas : SetStreamPoll(m)
             PROVE  RxInv'
  OBVIOUS
<1>0. /\ TypeOK /\ InOrder /\ BottomNormal /\ RecPhase
      /\ LimitSafe /\ OffsetSafe /\ TopSafe /\ UnreadIntact
  BY DEF RxInv
<1>1. TypeOK'
  BY <1>0 DEF TypeOK, PauseDma, ResumeDma, SetStreamPoll, cardVars
<1>2. /\ rec' = rec /\ limit' = limit /\ mem' = mem /\ written' = written
      /\ bottom' = bottom /\ top' = top /\ consumed' = consumed /\ offset' = offset
      /\ (pc' = "client") = (pc = "client")
  BY <1>0 DEF PauseDma, ResumeDma, SetStreamPoll, cardVars
<1>3. Base' = Base /\ Room' = Room /\ Slack(bottom)' = Slack(bottom)
  BY <1>2 DEF Base, Room, Slack, Align
<1>4. InOrder' /\ BottomNormal' /\ RecPhase' /\ LimitSafe'
  BY <1>0, <1>2, <1>3 DEF InOrder, BottomNormal, RecPhase, LimitSafe
<1>5. OffsetSafe' /\ TopSafe'
  BY <1>0, <1>2, <1>3 DEF OffsetSafe, TopSafe, Unfold, Align
<1>6. UnreadIntact'
  BY <1>0, <1>2, <1>3 DEF UnreadIntact, Mirror
<1>7. QED
  BY <1>1, <1>4, <1>5, <1>6 DEF RxInv

\* The record pointer is sampled again.
LEMMA PollRecordRxInv == RxInv /\ PollRecord => RxInv'
<1> SUFFICES ASSUME RxInv, PollRecord PROVE RxInv'
  OBVIOUS
<1> USE RingAssumption
<1>0. /\ TypeOK /\ InOrder /\ BottomNormal /\ RecPhase
      /\ LimitSafe /\ OffsetSafe /\ TopSafe /\ UnreadIntact
  BY DEF RxInv
<1>1. TypeOK'
  BY <1>0 DEF TypeOK, PollRecord, cardVars
<1>2. /\ rec' = rec /\ limit' = limit /\ mem' = mem /\ written' = written
      /\ bottom' = bottom /\ top' = top /\ consumed' = consumed /\ pc' = pc
      /\ offset' = rec /\ pc = "wait"
      /\ Base' = Base /\ Room' = Room /\ Slack(bottom)' = Slack(bottom)
  BY DEF PollRecord, cardVars, Base, Room, Slack, Align
<1>3. InOrder' /\ BottomNormal' /\ RecPhase' /\ LimitSafe' /\ TopSafe'
  BY <1>0, <1>2 DEF InOrder, BottomNormal, RecPhase, LimitSafe, TopSafe
<1>4. OffsetSafe'
  <2>1. /\ bottom \in Nat /\ written \in Nat /\ consumed \in Nat /\ rec \in 0..Size
        /\ Base \in Int /\ consumed = Base + bottom
    BY <1>0 DEF TypeOK, Base
  <2>2. Align(bottom) \in Nat /\ Align(bottom) <= bottom
    BY <2>1, AlignBounds, Zenon
  <2>3. Unfold(rec, Align(bottom)) <= written - Base
    BY <1>0, <2>1, <2>2 DEF Unfold, RecPhase, InOrder
  <2>4. QED
    BY <1>2, <2>3 DEF OffsetSafe, Unfold, Align
<1>5. UnreadIntact'
  BY <1>0, <1>2 DEF UnreadIntact, Mirror
<1>6. QED
  BY <1>1, <1>3, <1>4, <1>5 DEF RxInv

\* What WriteLimit makes of the grant.
LEMMA WriteLimitGrant ==
    RxInv /\ WriteLimit =>
        /\ limit' \in 1..Size
        /\ written + Room' = Base + Size + Slack(bottom)
<1> SUFFICES ASSUME RxInv, WriteLimit
             PROVE  /\ limit' \in 1..Size
                    /\ written + Room' = Base + Size + Slack(bottom)
  OBVIOUS
<1> USE RingAssumption
<1>1. /\ bottom \in Nat /\ bottom <= Size /\ written \in Nat /\ consumed \in Nat
      /\ rec \in 0..Size /\ rec' = rec /\ Room \in Nat
      /\ Base \in Int /\ consumed = Base + bottom /\ consumed <= written
  BY DEF RxInv, TypeOK, BottomNormal, WriteLimit, Base, Room, InOrder
<1>2. PICK a \in Nat : a = Align(bottom) /\ a <= bottom
  BY <1>1, AlignBounds, Zenon
<1>3. limit' = WRSAFE(a) /\ limit' \in 1..Size
  BY <1>1, <1>2 DEF WriteLimit, WRSAFE
<1>4. /\ written + Room <= Base + Size + Slack(bottom)
      /\ \/ written = Base + rec
         \/ rec > 0 /\ written = Base + Size + rec
  BY DEF RxInv, LimitSafe, RecPhase
<1>5. CASE a <= Safety
  <2>1. limit' = Size /\ Slack(bottom) = 0
    BY <1>1, <1>2, <1>3, <1>5 DEF WRSAFE, Slack
  <2>2. written = Base + rec
    BY <1>1, <1>4, <2>1
  <2>3. QED
    BY <1>1, <2>1, <2>2 DEF Room
<1>6. CASE a > Safety
  <2>1. limit' = a - Safety /\ Slack(bottom) = a - Safety
    BY <1>1, <1>2, <1>3, <1>6 DEF WRSAFE, Slack
  <2>2. QED
    BY <1>1, <1>2, <1>4, <1>6, <2>1 DEF Room
<1>7. QED
  BY <1>2, <1>3, <1>5, <1>6

LEMMA WriteLimitRxInv == RxInv /\ WriteLimit => RxInv'
<1> SUFFICES ASSUME RxInv, WriteLimit PROVE RxInv'
  OBVIOUS
<1>0. /\ TypeOK /\ InOrder /\ BottomNormal /\ RecPhase
      /\ LimitSafe /\ OffsetSafe /\ TopSafe /\ UnreadIntact
  BY DEF RxInv
<1>1. TypeOK'
  BY <1>0, WriteLimitGrant DEF TypeOK, WriteLimit
<1>2. /\ rec' = rec /\ mem' = mem /\ written' = written
      /\ bottom' = bottom /\ top' = top /\ consumed' = consumed /\ offset' = offset
      /\ pc = "limit" /\ pc' = "resume"
      /\ Base' = Base /\ Slack(bottom)' = Slack(bottom)
  BY DEF WriteLimit, Base, Slack, Align
<1>3. InOrder' /\ BottomNormal' /\ RecPhase' /\ TopSafe'
  BY <1>0, <1>2 DEF InOrder, BottomNormal, RecPhase, TopSafe
<1>4. LimitSafe'
  <2>1. /\ Base + Size + Slack(bottom) \in Int
    <3>1. bottom \in Nat /\ bottom <= bottom /\ Base \in Int
      BY <1>0, RingAssumption DEF TypeOK, Base
    <3>2. Slack(bottom) \in Nat
      BY <3>1, SlackMono, Zenon
    <3>3. QED
      BY <3>1, <3>2, RingAssumption
  <2>2. QED
    BY <1>2, <2>1, WriteLimitGrant DEF LimitSafe
<1>5. OffsetSafe'
  BY <1>0, <1>2 DEF OffsetSafe, Unfold, Align
<1>6. UnreadIntact'
  BY <1>0, <1>2 DEF UnreadIntact, Mirror
<1>7. QED
  BY <1>1, <1>3, <1>4, <1>5, <1>6 DEF RxInv

\* TOP is computed from the sample, which is never ahead of the card.
LEMMA AdvanceReturnRxInv == RxInv /\ AdvanceReturn => RxInv'
<1> SUFFICES ASSUME RxInv, AdvanceReturn PROVE RxInv'
  OBVIOUS
<1> USE RingAssumption
<1>0. /\ TypeOK /\ InOrder /\ BottomNormal /\ RecPhase
      /\ LimitSafe /\ OffsetSafe /\ TopSafe /\ UnreadIntact
  BY DEF RxInv
<1>1. /\ rec' = rec /\ limit' = limit /\ mem' = mem /\ written' = written
      /\ bottom' = bottom /\ consumed' = consumed /\ offset' = offset
      /\ pc = "wait" /\ pc' = "client"
      /\ Base' = Base /\ Room' = Room /\ Slack(bottom)' = Slack(bottom)
  BY DEF AdvanceReturn, cardVars, Base, Room, Slack, Align
<1>2. /\ bottom \in Nat /\ bottom <= Size /\ written \in Nat /\ offset \in 0..Size
      /\ Base \in Int
  BY <1>0, <1>1 DEF TypeOK, BottomNormal, Base
<1>3. PICK a \in Nat : a = Align(bottom) /\ a <= bottom
  BY <1>2, AlignBounds, Zenon
<1>4. PICK t \in Int : t = TopOf(offset, a)
  <2>1. TopOf(offset, a) \in Int
    BY <1>2, <1>3 DEF TopOf, Clamp
  <2>2. QED
    BY <2>1
<1>5. top' = t
  BY <1>3, <1>4 DEF AdvanceReturn
<1>6. t \in 0..(Size + Extra)
  BY <1>2, <1>3, <1>4 DEF TopOf, Clamp
<1>7. t <= Unfold(offset, a)
  BY <1>2, <1>3, <1>4 DEF TopOf, Clamp, Unfold
<1>8. t <= written - Base
  <2>1. Unfold(offset, a) <= written - Base /\ Unfold(offset, a) \in Int
    BY <1>0, <1>1, <1>2, <1>3 DEF OffsetSafe, Unfold
  <2>2. QED
    BY <1>2, <1>7, <2>1
<1>9. TypeOK'
  BY <1>0, <1>5, <1>6 DEF TypeOK, AdvanceReturn, cardVars
<1>10. InOrder' /\ BottomNormal' /\ RecPhase' /\ LimitSafe' /\ OffsetSafe'
  BY <1>0, <1>1 DEF InOrder, BottomNormal, RecPhase, LimitSafe, OffsetSafe
<1>11. TopSafe'
  BY <1>1, <1>5, <1>8 DEF TopSafe
<1>12. UnreadIntact'
  BY <1>0, <1>1 DEF UnreadIntact, Mirror
<1>13. QED
  BY <1>9, <1>10, <1>11, <1>12 DEF RxInv

\* The client gives bytes back.
LEMMA ConsumeRxInv ==
    ASSUME RxInv, NEW n \in 1..(Size + Extra), Consume(n)
    PROVE  RxInv'
<1> USE RingAssumption
<1>0. /\ TypeOK /\ InOrder /\ BottomNormal /\ RecPhase
      /\ LimitSafe /\ OffsetSafe /\ TopSafe /\ UnreadIntact
  BY DEF RxInv
<1>1. /\ bottom \in Nat /\ bottom + n <= top /\ top \in 0..(Size + Extra)
      /\ consumed \in Nat /\ written \in Nat /\ Base \in Int
      /\ consumed = Base + bottom /\ top <= written - Base
  BY <1>0 DEF TypeOK, Consume, Base, TopSafe
<1>2. /\ rec' = rec /\ limit' = limit /\ mem' = mem /\ written' = written
      /\ top' = top /\ bottom' = bottom + n /\ consumed' = consumed + n
      /\ pc = "client" /\ pc' = "client" /\ Room' = Room
  BY DEF Consume, cardVars, Room
<1>3. Base' = Base
  BY <1>1, <1>2 DEF Base
<1>4. TypeOK'
  BY <1>0, <1>1 DEF TypeOK, Consume, cardVars
<1>5. InOrder' /\ BottomNormal' /\ RecPhase' /\ OffsetSafe' /\ TopSafe'
  BY <1>0, <1>1, <1>2, <1>3
     DEF InOrder, BottomNormal, RecPhase, OffsetSafe, TopSafe
<1>6. LimitSafe'
  <2>1. PICK b \in Nat : b = bottom + n /\ bottom <= b
    BY <1>1
  <2>2. Slack(b) \in Nat /\ Slack(bottom) \in Nat /\ Slack(bottom) <= Slack(b)
    BY <1>1, <2>1, SlackMono, Zenon
  <2>3. Room \in Int
    BY <1>0 DEF TypeOK, Room
  <2>4. written + Room <= Base + Size + Slack(b)
    BY <1>0, <1>1, <2>2, <2>3 DEF LimitSafe
  <2>5. QED
    BY <1>2, <1>3, <2>1, <2>4 DEF LimitSafe, Slack, Align
<1>7. UnreadIntact'
  <2> SUFFICES ASSUME NEW w \in (bottom + n)..(written - Base - 1)
               PROVE  mem[Mirror(w)] = Base + w + 1
    BY <1>2, <1>3 DEF UnreadIntact, Mirror
  <2>1. w \in bottom..(written - Base - 1)
    BY <1>1
  <2>2. QED
    BY <1>0, <2>1 DEF UnreadIntact
<1>8. QED
  BY <1>4, <1>5, <1>6, <1>7 DEF RxInv

LEMMA StutterRxInv == RxInv /\ UNCHANGED rxVars => RxInv'
BY DEF RxInv, rxVars, TypeOK, InOrder, BottomNormal, RecPhase, LimitSafe,
       OffsetSafe, TopSafe, UnreadIntact, Base, Room, Slack, Unfold, Align, Mirror

LEMMA NextRxInv == RxInv /\ [Next]_rxVars => RxInv'
BY CardWriteRxInv, AdvanceEnterRxInv, QuietRxInv, PollRecordRxInv,
   WriteLimitRxInv, AdvanceReturnRxInv, ConsumeRxInv, StutterRxInv DEF Next

-----------------------------------------------------------------------------
(***************************************************************************)
(* The inductive invariant holds of every behaviour of nac_advance_stream, *)
(* its client and the card.                                                *)
(***************************************************************************)
THEOREM RxInvariant == Spec => []RxInv
<1>1. Init => RxInv
  BY InitRxInv
<1>2. RxInv /\ [Next]_rxVars => RxInv'
  BY NextRxInv
<1>3. QED
  BY <1>1, <1>2, PTL DEF Spec

\* Types: TOP and BOTTOM stay inside the double mapping of nac_attach_stream.
THEOREM TypeCorrect == Spec => []TypeOK
<1>1. RxInv => TypeOK
  BY DEF RxInv
<1>2. QED
  BY <1>1, RxInvariant, PTL

\* No byte the card has stored is overwritten before the client consumed it.
THEOREM NothingOverwritten == Spec => []UnreadIntact
<1>1. RxInv => UnreadIntact
  BY DEF RxInv
<1>2. QED
  BY <1>1, RxInvariant, PTL

(***************************************************************************)
(* The window nac_advance_stream returned holds exactly the bytes of the   *)
(* stream it stands for, however the card runs while the client reads it.  *)
(***************************************************************************)
THEOREM WindowAlwaysIntact == Spec => []WindowIntact
<1>1. RxInv => WindowIntact
  <2> SUFFICES ASSUME RxInv, pc = "client", NEW w \in bottom..(top - 1)
               PROVE  mem[Mirror(w)] = Base + w + 1
    BY DEF WindowIntact
  <2>1. w \in bottom..(written - Base - 1)
    BY RingAssumption DEF RxInv, TypeOK, TopSafe, Base
  <2>2. QED
    BY <2>1 DEF RxInv, UnreadIntact
<1>2. QED
  BY <1>1, RxInvariant, PTL

\* The card is never granted more than one ring beyond the client.
THEOREM LimitAlwaysBehind == Spec => []LimitBehindBottom
<1>1. RxInv => LimitBehindBottom
  <2> SUFFICES ASSUME RxInv PROVE LimitBehindBottom
    OBVIOUS
  <2>1. /\ bottom \in Nat /\ bottom <= bottom /\ written \in Nat /\ consumed \in Nat
        /\ Room \in Int /\ Base \in Int /\ consumed = Base + bottom
    BY RingAssumption DEF RxInv, TypeOK, Room, Base
  <2>2. Slack(bottom) \in Nat /\ Slack(bottom) <= bottom
    BY <2>1, SlackMono, Zenon
  <2>3. QED
    BY <2>1, <2>2, RingAssumption DEF RxInv, LimitSafe, LimitBehindBottom
<1>2. QED
  BY <1>1, RxInvariant, PTL

(***************************************************************************)
(* No step takes a grant back: writing the limit register moves the place  *)
(* where the card stops forward in the stream, and nothing else moves it.  *)
(***************************************************************************)
THEOREM LimitNeverRetreats == Spec => LimitMonotone
<1>1. RxInv /\ [Next]_rxVars => [written' + Room' >= written + Room]_rxVars
  <2> SUFFICES ASSUME RxInv, Next PROVE written' + Room' >= written + Room
    OBVIOUS
  <2> USE RingAssumption
  <2>1. written \in Nat /\ Room \in Int
    BY DEF RxInv, TypeOK, Room
  <2>2. CASE CardWrite
    <3>1. written' + Room' = written + Room
      BY <2>2 DEF RxInv, TypeOK, Room, CardWrite, Mirror
    <3>2. QED
      BY <2>1, <3>1
  <2>3. CASE WriteLimit
    <3>1. written' = written /\ written + Room' = Base + Size + Slack(bottom)
      BY <2>3, WriteLimitGrant DEF WriteLimit
    <3>2. written + Room <= Base + Size + Slack(bottom)
      BY DEF RxInv, LimitSafe
    <3>3. bottom \in Nat /\ bottom <= bottom /\ Base \in Int
      BY DEF RxInv, TypeOK, Base
    <3>4. Slack(bottom) \in Nat
      BY <3>3, SlackMono, Zenon
    <3>5. QED
      BY <2>1, <3>1, <3>2, <3>3, <3>4
  <2>4. CASE ~CardWrite /\ ~WriteLimit
    <3>1. written' = written /\ Room' = Room
      BY <2>4 DEF Next, AdvanceEnter, PauseDma, ResumeDma, PollRecord,
           AdvanceReturn, Consume, SetStreamPoll, cardVars, Room
    <3>2. QED
      BY <2>1, <3>1
  <2>5. QED
    BY <2>2, <2>3, <2>4
<1>2. QED
  BY <1>1, RxInvariant, PTL DEF Spec, LimitMonotone
=============================================================================
