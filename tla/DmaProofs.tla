----------------------------- MODULE DmaProofs ------------------------------
(***************************************************************************)
(* Proofs about the DMA engine under every client that keeps to            *)
(* dma_if.vh, with both channels busy at once, for every FIFO depth and    *)
(* memory size: types, no overflow of the read FIFO, no lost line, and     *)
(* wr_done means written, whatever order the host commits writes in.  For  *)
(* a half-duplex client: the lines of a read come in order.                *)
(***************************************************************************)
EXTENDS DmaClient, TLAPS, SequenceTheorems

(* The inductive invariant.  A FIFO that is not ready yet drops a word, so *)
(* nothing may be on its way before it is.                                 *)
IInv ==
  /\ TypeOK
  /\ LinesConserved
  /\ NoOverflow
  /\ ~fifo_ready => OnTheWay = <<>>

LEMMA InitEstablishes == ClientInit => IInv
<1> SUFFICES ASSUME ClientInit
             PROVE  IInv
  OBVIOUS
<1> USE DepthAssumption, LinesAssumption
        DEF ClientInit, Init, rd_fifo!Init, rd_fifo!Peek
<1>1. TypeOK
  <2>1. 0 \in Count
    BY DEF Count
  <2>2. fifo_ready \in BOOLEAN /\ cci_wr_en_delayed \in BOOLEAN
    OBVIOUS
  <2>3. fifo_q \in Seq(Data) /\ host_rd \in Seq(Line) /\ host_wr \in Seq(Write)
    OBVIOUS
  <2> QED BY <2>1, <2>2, <2>3 DEF TypeOK
<1>2. OnTheWay = <<>>
  BY DEF OnTheWay
<1> QED BY <1>1, <1>2 DEF IInv, LinesConserved, NoOverflow

-----------------------------------------------------------------------------
(* The inputs of a step, as facts the provers use.                         *)
Inputs(r, w) ==
  /\ r.go \in BOOLEAN /\ r.en \in BOOLEAN /\ r.almFull \in BOOLEAN /\ r.response \in BOOLEAN
  /\ r.addr \in Line /\ r.size \in 0..NLINES
  /\ w.go \in BOOLEAN /\ w.en \in BOOLEAN /\ w.almFull \in BOOLEAN
  /\ w.addr \in Line /\ w.size \in 0..NLINES /\ w.data \in Data
  /\ w.commit \in 0..Len(host_wr)

LEMMA ReadInputsFields ==
  ASSUME NEW idle \in BOOLEAN, 0 \in Line, 0..MaxSize \subseteq 0..NLINES,
         MaxSize \in 0..NLINES, NEW r \in ReadInputs(idle)
  PROVE  /\ r.go \in BOOLEAN /\ r.en \in BOOLEAN /\ r.almFull \in BOOLEAN
         /\ r.response \in BOOLEAN /\ r.addr \in Line /\ r.size \in 0..NLINES
<1> DEFINE as == IF idle THEN Line ELSE {0}
           ss == IF idle THEN 0..MaxSize ELSE {MaxSize}
<1>1. as \subseteq Line /\ ss \subseteq 0..NLINES /\ 0 \in 0..NLINES
  BY LinesAssumption
<1>2. \/ r \in [go : {FALSE}, addr : {0}, size : {0}, en : BOOLEAN, almFull : BOOLEAN,
                response : BOOLEAN]
      \/ r \in [go : {TRUE}, addr : as, size : ss, en : BOOLEAN, almFull : BOOLEAN,
                response : BOOLEAN]
  BY DEF ReadInputs
<1> HIDE DEF as, ss
<1> QED BY <1>1, <1>2

LEMMA WriteInputsFields ==
  ASSUME NEW idle \in BOOLEAN, 0 \in Line, 0..MaxSize \subseteq 0..NLINES,
         MaxSize \in 0..NLINES, NEW w \in WriteInputs(idle)
  PROVE  /\ w.go \in BOOLEAN /\ w.en \in BOOLEAN /\ w.almFull \in BOOLEAN
         /\ w.addr \in Line /\ w.size \in 0..NLINES /\ w.data \in Data
         /\ w.commit \in 0..Len(host_wr)
<1> DEFINE as == IF idle THEN Line ELSE {0}
           ss == IF idle THEN 0..MaxSize ELSE {MaxSize}
<1>1. as \subseteq Line /\ ss \subseteq 0..NLINES /\ 0 \in 0..NLINES
  BY LinesAssumption
<1>2. \/ w \in [go : {FALSE}, addr : {0}, size : {0}, en : BOOLEAN, data : Data,
                almFull : BOOLEAN, commit : 0..Len(host_wr)]
      \/ w \in [go : {TRUE}, addr : as, size : ss, en : {FALSE}, data : Data,
                almFull : BOOLEAN, commit : 0..Len(host_wr)]
  BY DEF WriteInputs
<1> HIDE DEF as, ss
<1> QED BY <1>1, <1>2

LEMMA InputsTyped ==
  ASSUME NEW r \in ReadInputs(RdDone), NEW w \in WriteInputs(WrDone)
  PROVE  Inputs(r, w)
<1>0. RdDone \in BOOLEAN /\ WrDone \in BOOLEAN
  BY DEF RdDone, WrDone
<1>1. 0 \in Line /\ MaxSize \in 0..NLINES /\ 0..MaxSize \subseteq 0..NLINES
  BY LinesAssumption, SizeAssumption DEF Line
<1>2. /\ r.go \in BOOLEAN /\ r.en \in BOOLEAN /\ r.almFull \in BOOLEAN
      /\ r.response \in BOOLEAN /\ r.addr \in Line /\ r.size \in 0..NLINES
  BY <1>1, <1>0, ReadInputsFields
<1>3. /\ w.go \in BOOLEAN /\ w.en \in BOOLEAN /\ w.almFull \in BOOLEAN
      /\ w.addr \in Line /\ w.size \in 0..NLINES /\ w.data \in Data
      /\ w.commit \in 0..Len(host_wr)
  BY <1>1, <1>0, WriteInputsFields
<1> QED BY <1>2, <1>3 DEF Inputs

-----------------------------------------------------------------------------
(* The host's queue of writes                                              *)

LEMMA HostWritesTyped ==
  ASSUME TypeOK, NEW commit \in 0..Len(host_wr), HostWrites(commit)
  PROVE  host_wr' \in Seq(Write) /\ host_mem' \in [Line -> Data]
<1> DEFINE rest == IF commit = 0 THEN host_wr ELSE RemoveAt(host_wr, commit)
<1>1. host_wr \in Seq(Write) /\ Len(host_wr) \in Nat /\ \A i \in 1..Len(host_wr) : host_wr[i] \in Write
  BY DEF TypeOK
<1>2. rest \in Seq(Write)
  <2>1. CASE commit = 0
    BY <2>1, <1>1
  <2>2. CASE commit # 0
    <3>1. SubSeq(host_wr, 1, commit - 1) \in Seq(Write)
      BY <1>1, <2>2, SubSeqProperties
    <3>2. SubSeq(host_wr, commit + 1, Len(host_wr)) \in Seq(Write)
      BY <1>1, <2>2, SubSeqProperties
    <3> QED BY <2>2, <3>1, <3>2, ConcatProperties DEF RemoveAt
  <2> QED BY <2>1, <2>2
<1>3. host_wr' \in Seq(Write)
  <2>1. host_wr' = IF c1Tx = NoReq THEN rest ELSE Append(rest, c1Tx)
    BY DEF HostWrites
  <2>2. c1Tx = NoReq \/ c1Tx \in Write
    BY DEF TypeOK
  <2> HIDE DEF rest
  <2> QED BY <1>2, <2>1, <2>2
<1>4. host_mem' \in [Line -> Data]
  <2>1. CASE commit = 0
    BY <2>1 DEF HostWrites, TypeOK
  <2>2. CASE commit # 0
    <3>1. host_wr[commit].addr \in Line /\ host_wr[commit].data \in Data
      BY <1>1, <2>2 DEF Write
    <3> QED BY <2>2, <3>1 DEF HostWrites, TypeOK
  <2> QED BY <2>1, <2>2
<1> QED BY <1>3, <1>4

LEMMA WriteChannelTyped ==
  ASSUME TypeOK, NEW r, NEW w, Inputs(r, w),
         WriteChannel(w.go, w.addr, w.size, w.en, w.data, w.almFull)
  PROVE  /\ cci_wr_remaining_r' \in Count
         /\ wr_addr_r' \in Line
         /\ c1Tx' \in Write \cup {NoReq}
         /\ cci_wr_en_delayed' \in BOOLEAN
<1> USE LinesAssumption DEF TypeOK, Inputs, Count
<1>1. cci_wr_remaining_r' \in Count
  BY DEF WriteChannel, Dec
<1>2. wr_addr_r' \in Line
  BY DEF WriteChannel, WrAddr, NextLine, Line
<1>3. c1Tx' \in Write \cup {NoReq}
  BY DEF WriteChannel, Write
<1>4. cci_wr_en_delayed' \in BOOLEAN
  BY Zenon DEF WriteChannel, CciWrEn
<1> QED BY <1>1, <1>2, <1>3, <1>4

-----------------------------------------------------------------------------
(* The read channel                                                        *)

(* The requests on their way, a register and the host's queue, gain the    *)
(* line requested in this cycle and lose the one answered.                 *)
LEMMA OnTheWayMoves ==
  ASSUME TypeOK, NEW r, r.response \in BOOLEAN, r.almFull \in BOOLEAN, HostReads(r.response),
         c0Tx' = IF CciRdEn(r.almFull) THEN rd_addr_r ELSE NoReq
  PROVE  /\ host_rd' \in Seq(Line)
         /\ c0Tx' \in Line \cup {NoReq}
         /\ Len(OnTheWay') = Len(OnTheWay) + (IF CciRdEn(r.almFull) THEN 1 ELSE 0)
                                           - (IF r.response THEN 1 ELSE 0)
         /\ r.response => host_rd # <<>> /\ Len(OnTheWay) > 0
<1> DEFINE rest == IF r.response THEN Tail(host_rd) ELSE host_rd
<1> USE NoReqAssumption DEF TypeOK
<1>1. /\ host_rd \in Seq(Line) /\ Len(host_rd) \in Nat
      /\ r.response => host_rd # <<>> /\ Len(host_rd) > 0
  BY DEF HostReads
<1>2. /\ rest \in Seq(Line)
      /\ Len(rest) = Len(host_rd) - (IF r.response THEN 1 ELSE 0)
  BY <1>1, HeadTailProperties
<1>3. host_rd' = IF c0Tx = NoReq THEN rest ELSE Append(rest, c0Tx)
  BY DEF HostReads
<1> HIDE DEF rest
<1>4. /\ host_rd' \in Seq(Line)
      /\ Len(host_rd') = Len(rest) + (IF c0Tx = NoReq THEN 0 ELSE 1)
  <2>1. CASE c0Tx = NoReq
    BY <2>1, <1>2, <1>3
  <2>2. CASE c0Tx # NoReq
    <3>1. c0Tx \in Line
      BY <2>2
    <3> QED BY <3>1, <2>2, <1>2, <1>3
  <2> QED BY <2>1, <2>2
<1>5. Len(OnTheWay) = Len(host_rd) + (IF c0Tx = NoReq THEN 0 ELSE 1)
  BY <1>1 DEF OnTheWay
<1>6. c0Tx' \in Line \cup {NoReq} /\ (c0Tx' = NoReq <=> ~CciRdEn(r.almFull))
  BY DEF Line
<1>7. Len(OnTheWay') = Len(host_rd') + (IF CciRdEn(r.almFull) THEN 1 ELSE 0)
  <2>1. CASE CciRdEn(r.almFull)
    <3>1. c0Tx' # NoReq /\ c0Tx' \in Line
      BY <2>1, <1>6
    <3>2. OnTheWay' = Append(host_rd', c0Tx')
      BY <3>1 DEF OnTheWay
    <3> QED BY <3>1, <3>2, <2>1, <1>4
  <2>2. CASE ~CciRdEn(r.almFull)
    <3>1. OnTheWay' = host_rd'
      BY <2>2, <1>6 DEF OnTheWay
    <3>2. Len(host_rd') \in Nat
      BY <1>4
    <3> QED BY <3>1, <3>2, <2>2
  <2> QED BY <2>1, <2>2
<1> QED BY <1>1, <1>2, <1>4, <1>5, <1>6, <1>7

LEMMA FifoMoves ==
  ASSUME IInv, NEW response \in BOOLEAN, NEW en \in BOOLEAN, HostReads(response),
         rd_fifo!Clock(response, en, RspData)
  PROVE  /\ fifo_q' \in Seq(Data) /\ fifo_ready' = TRUE /\ fifo_out' \in Data \cup {X}
         /\ Len(fifo_q') = Len(fifo_q) + (IF response THEN 1 ELSE 0)
                                       - (IF en /\ ~Empty THEN 1 ELSE 0)
<1> USE DepthAssumption
<1> DEFINE rest == IF rd_fifo!Removes(en) THEN Tail(fifo_q) ELSE fifo_q
<1>0. TypeOK /\ LinesConserved /\ NoOverflow
  BY DEF IInv
<1>1. /\ fifo_q \in Seq(Data) /\ Len(fifo_q) \in Nat
      /\ rd_fifo!Removes(en) <=> en /\ ~Empty
  BY <1>0 DEF TypeOK, rd_fifo!Removes, Empty
<1>2. /\ rest \in Seq(Data)
      /\ Len(rest) = Len(fifo_q) - (IF en /\ ~Empty THEN 1 ELSE 0)
  <2>1. CASE en /\ ~Empty
    <3>1. fifo_q # <<>>
      BY <2>1 DEF Empty
    <3> QED BY <1>1, <2>1, <3>1, HeadTailProperties
  <2>2. CASE ~(en /\ ~Empty)
    <3>1. rest = fifo_q
      BY <1>1, <2>2
    <3> HIDE DEF rest
    <3>2. Len(rest) = Len(fifo_q) - 0 /\ rest \in Seq(Data)
      BY <1>1, <3>1
    <3> QED BY <2>2, <3>2
  <2> QED BY <2>1, <2>2
<1>3. response => /\ RspData \in Data
                    /\ rd_fifo!Accepts(response)
  <2> SUFFICES ASSUME response
               PROVE  RspData \in Data /\ rd_fifo!Accepts(response)
    OBVIOUS
  <2>1. host_rd # <<>> /\ host_rd \in Seq(Line) /\ Len(host_rd) > 0
    BY <1>0 DEF HostReads, TypeOK
  <2>2. RspData \in Data
    BY <2>1, <1>0, HeadTailProperties DEF RspData, TypeOK
  <2>3. Len(OnTheWay) > 0 /\ OnTheWay # <<>>
    BY <2>1, <1>0 DEF OnTheWay, TypeOK
  <2>4. Len(fifo_q) < FIFO_DEPTH
    BY <2>3, <1>0, <1>1 DEF LinesConserved, NoOverflow, TypeOK, Count
  <2> QED BY <2>2, <2>3, <2>4 DEF rd_fifo!Accepts, IInv
<1>4. ~response => ~rd_fifo!Accepts(response)
  BY DEF rd_fifo!Accepts
<1>5. /\ fifo_q' = IF rd_fifo!Accepts(response) THEN Append(rest, RspData) ELSE rest
      /\ fifo_ready' = TRUE
      /\ fifo_out' = rd_fifo!Peek(fifo_q')
  BY DEF rd_fifo!Clock
<1> HIDE DEF rest
<1>6. /\ fifo_q' \in Seq(Data)
      /\ Len(fifo_q') = Len(rest) + (IF response THEN 1 ELSE 0)
  <2>1. CASE response
    BY <2>1, <1>2, <1>3, <1>5
  <2>2. CASE ~response
    <3>1. fifo_q' = rest /\ Len(rest) \in Nat
      BY <2>2, <1>2, <1>4, <1>5
    <3> QED BY <3>1, <2>2, <1>2
  <2> QED BY <2>1, <2>2
<1>7. fifo_out' \in Data \cup {X}
  BY <1>5, <1>6, HeadTailProperties DEF rd_fifo!Peek
<1>8. Len(fifo_q') = Len(fifo_q) + (IF response THEN 1 ELSE 0)
                                 - (IF en /\ ~Empty THEN 1 ELSE 0)
  BY <1>1, <1>2, <1>6 DEF Empty
<1> QED BY <1>5, <1>6, <1>7, <1>8

(* The counters of the read channel and the lines they count move          *)
(* together.                                                               *)
LEMMA ReadChannelPreserves ==
  ASSUME IInv, NEW r, NEW w, Inputs(r, w), HostReads(r.response),
         ReadChannel(r.go, r.addr, r.size, r.en, r.almFull, r.response, RspData)
  PROVE  /\ cci_rd_remaining_r' \in Count /\ cci_rd_pending_r' \in Count
         /\ dma_rd_remaining_r' \in Count /\ rd_addr_r' \in Line
         /\ host_rd' \in Seq(Line) /\ c0Tx' \in Line \cup {NoReq}
         /\ fifo_q' \in Seq(Data) /\ fifo_ready' = TRUE /\ fifo_out' \in Data \cup {X}
         /\ LinesConserved' /\ NoOverflow'
<1> USE DepthAssumption, LinesAssumption
<1> DEFINE asked == CciRdEn(r.almFull)
           taken == r.en /\ ~Empty
           go == r.go /\ RdDone
<1>0. TypeOK /\ LinesConserved /\ NoOverflow /\ Len(fifo_q) \in Nat
  BY DEF IInv, TypeOK
<1>1. /\ cci_rd_remaining_r \in Count /\ cci_rd_pending_r \in Count
      /\ dma_rd_remaining_r \in Count /\ rd_addr_r \in Line
      /\ cci_rd_pending_r = Len(OnTheWay)
      /\ dma_rd_remaining_r = cci_rd_remaining_r + cci_rd_pending_r + Len(fifo_q)
      /\ cci_rd_pending_r + Len(fifo_q) <= FIFO_DEPTH
  BY <1>0 DEF TypeOK, LinesConserved, NoOverflow
<1>2. /\ host_rd' \in Seq(Line) /\ c0Tx' \in Line \cup {NoReq}
      /\ Len(OnTheWay') = Len(OnTheWay) + (IF asked THEN 1 ELSE 0)
                                        - (IF r.response THEN 1 ELSE 0)
      /\ r.response => Len(OnTheWay) > 0
  BY <1>0, OnTheWayMoves DEF ReadChannel, Inputs
<1>3. /\ fifo_q' \in Seq(Data) /\ fifo_ready' = TRUE /\ fifo_out' \in Data \cup {X}
      /\ Len(fifo_q') = Len(fifo_q) + (IF r.response THEN 1 ELSE 0) - (IF taken THEN 1 ELSE 0)
  <2>1. r.response \in BOOLEAN /\ r.en \in BOOLEAN
    BY DEF Inputs
  <2>2. rd_fifo!Clock(r.response, r.en, RspData)
    BY DEF ReadChannel
  <2>3. HostReads(r.response) /\ IInv
    OBVIOUS
  <2>4. /\ fifo_q' \in Seq(Data) /\ fifo_ready' = TRUE /\ fifo_out' \in Data \cup {X}
        /\ Len(fifo_q') = Len(fifo_q) + (IF r.response THEN 1 ELSE 0)
                                      - (IF r.en /\ ~Empty THEN 1 ELSE 0)
    BY <2>1, <2>2, <2>3, FifoMoves
  <2> QED BY <2>4
<1>4. /\ asked => cci_rd_remaining_r > 0 /\ cci_rd_pending_r + Len(fifo_q) < FIFO_DEPTH
      /\ taken => Len(fifo_q) > 0
      /\ go => dma_rd_remaining_r = 0
      /\ asked \in BOOLEAN /\ taken \in BOOLEAN /\ go \in BOOLEAN /\ r.response \in BOOLEAN
  <2>1. taken => Len(fifo_q) > 0
    BY <1>0 DEF Empty, TypeOK
  <2>2. asked => cci_rd_remaining_r > 0 /\ cci_rd_pending_r + Len(fifo_q) < FIFO_DEPTH
    BY <1>0, <1>1 DEF CciRdEn, RdFifoAlmostFull, Space, Count
  <2> QED BY <2>1, <2>2 DEF CciRdEn, Empty, RdDone, Inputs
<1>5. /\ go => ~asked /\ ~taken /\ ~r.response
  BY <1>1, <1>2, <1>4 DEF Count
<1>6. cci_rd_pending_r' = cci_rd_pending_r + (IF asked THEN 1 ELSE 0)
                                           - (IF r.response THEN 1 ELSE 0)
  <2>1. asked => cci_rd_pending_r < 2 * NLINES - 1
    BY <1>1, <1>4 DEF Count
  <2>2. r.response => cci_rd_pending_r > 0
    BY <1>1, <1>2
  <2>3. cci_rd_pending_r' = RdPending(asked, r.response)
    BY DEF ReadChannel
  <2> HIDE DEF asked
  <2> QED BY <1>1, <1>4, <2>1, <2>2, <2>3 DEF RdPending, Inc, Dec, Count
<1>7. cci_rd_remaining_r' = IF asked THEN cci_rd_remaining_r - 1
                            ELSE IF go THEN r.size ELSE cci_rd_remaining_r
  BY <1>1, <1>4 DEF ReadChannel, Dec, Count
<1>8. dma_rd_remaining_r' = IF taken THEN dma_rd_remaining_r - 1
                            ELSE IF go THEN r.size ELSE dma_rd_remaining_r
  <2>1. taken => dma_rd_remaining_r > 0
    BY <1>0, <1>1, <1>4 DEF Count
  <2> QED BY <1>1, <2>1 DEF ReadChannel, Dec, Count
<1>9. rd_addr_r' \in Line
  <2>1. NextLine(rd_addr_r) \in Line /\ r.addr \in Line
    BY <1>1 DEF NextLine, Line, Inputs
  <2>2. rd_addr_r' = IF asked THEN NextLine(rd_addr_r) ELSE IF go THEN r.addr ELSE rd_addr_r
    BY DEF ReadChannel
  <2> HIDE DEF asked, go
  <2> QED BY <1>1, <2>1, <2>2
<1>10. r.size \in 0..NLINES
  BY DEF Inputs
<1> HIDE DEF asked, taken, go
<1>11. /\ dma_rd_remaining_r' = cci_rd_remaining_r' + cci_rd_pending_r' + Len(fifo_q')
       /\ cci_rd_pending_r' + Len(fifo_q') <= FIFO_DEPTH
       /\ cci_rd_remaining_r' \in Count /\ dma_rd_remaining_r' \in Count
       /\ cci_rd_pending_r' \in Count
  <2>1. CASE go
    BY <2>1, <1>0, <1>1, <1>2, <1>3, <1>4, <1>5, <1>6, <1>7, <1>8, <1>10 DEF Count
  <2>2. CASE ~go
    <3> DEFINE a == IF asked THEN 1 ELSE 0
               b == IF r.response THEN 1 ELSE 0
               c == IF taken THEN 1 ELSE 0
    <3>1. a \in {0, 1} /\ b \in {0, 1} /\ c \in {0, 1}
      OBVIOUS
    <3>2. /\ cci_rd_pending_r' = cci_rd_pending_r + a - b
          /\ cci_rd_remaining_r' = cci_rd_remaining_r - a
          /\ dma_rd_remaining_r' = dma_rd_remaining_r - c
          /\ Len(fifo_q') = Len(fifo_q) + b - c
      BY <2>2, <1>1, <1>3, <1>6, <1>7, <1>8 DEF Count
    <3>3. /\ a <= cci_rd_remaining_r /\ b <= cci_rd_pending_r /\ c <= Len(fifo_q)
          /\ cci_rd_pending_r + Len(fifo_q) + a <= FIFO_DEPTH
      BY <1>0, <1>1, <1>2, <1>4 DEF Count
    <3>4. /\ cci_rd_remaining_r \in Nat /\ cci_rd_pending_r \in Nat
          /\ dma_rd_remaining_r \in Nat /\ dma_rd_remaining_r < 2 * NLINES
          /\ Len(fifo_q) \in Nat /\ FIFO_DEPTH \in Nat
          /\ dma_rd_remaining_r = cci_rd_remaining_r + cci_rd_pending_r + Len(fifo_q)
      BY <1>0, <1>1 DEF Count
    <3> HIDE DEF a, b, c
    <3> DEFINE n == Len(fifo_q)
               m == Len(fifo_q')
    <3>5. n \in Nat /\ m = n + b - c /\ c <= n
          /\ dma_rd_remaining_r = cci_rd_remaining_r + cci_rd_pending_r + n
          /\ cci_rd_pending_r + n + a <= FIFO_DEPTH
      BY <3>2, <3>3, <3>4
    <3> HIDE DEF n, m
    <3>6. /\ dma_rd_remaining_r' = cci_rd_remaining_r' + cci_rd_pending_r' + m
          /\ cci_rd_pending_r' + m <= FIFO_DEPTH
      BY <3>1, <3>2, <3>4, <3>5
    <3>7. /\ cci_rd_remaining_r' \in Nat /\ cci_rd_remaining_r' < 2 * NLINES
          /\ dma_rd_remaining_r' \in Nat /\ dma_rd_remaining_r' < 2 * NLINES
          /\ cci_rd_pending_r' \in Nat /\ cci_rd_pending_r' < 2 * NLINES
      BY <3>1, <3>2, <3>3, <3>4, <3>5
    <3> QED BY <3>6, <3>7 DEF Count, m
  <2> QED BY <2>1, <2>2
<1>12. cci_rd_pending_r' = Len(OnTheWay')
  BY <1>1, <1>2, <1>6
<1>13. LinesConserved' /\ NoOverflow'
  BY <1>11, <1>12 DEF LinesConserved, NoOverflow
<1> QED BY <1>2, <1>3, <1>9, <1>11, <1>13

-----------------------------------------------------------------------------
LEMMA Invariance == ClientSpec => []IInv
<1>1. ASSUME IInv, ClientNext
      PROVE  IInv'
  <2>1. PICK r \in ReadInputs(RdDone), w \in WriteInputs(WrDone) : Step(r, w)
    BY <1>1 DEF ClientNext
  <2>2. Inputs(r, w) /\ Tick(r, w)
    BY <2>1, InputsTyped DEF Step
  <2>3. /\ cci_rd_remaining_r' \in Count /\ cci_rd_pending_r' \in Count
        /\ dma_rd_remaining_r' \in Count /\ rd_addr_r' \in Line
        /\ host_rd' \in Seq(Line) /\ c0Tx' \in Line \cup {NoReq}
        /\ fifo_q' \in Seq(Data) /\ fifo_ready' = TRUE /\ fifo_out' \in Data \cup {X}
        /\ LinesConserved' /\ NoOverflow'
    BY <1>1, <2>2, ReadChannelPreserves DEF Tick
  <2>4. /\ cci_wr_remaining_r' \in Count
        /\ wr_addr_r' \in Line
        /\ c1Tx' \in Write \cup {NoReq}
        /\ cci_wr_en_delayed' \in BOOLEAN
    BY <1>1, <2>2, WriteChannelTyped DEF Tick, IInv
  <2>5. host_wr' \in Seq(Write) /\ host_mem' \in [Line -> Data]
    BY <1>1, <2>2, HostWritesTyped DEF Tick, IInv, Inputs
  <2> QED BY <2>3, <2>4, <2>5 DEF IInv, TypeOK
<1>2. ASSUME IInv, UNCHANGED allVars
      PROVE  IInv'
  BY <1>2 DEF IInv, TypeOK, LinesConserved, NoOverflow, OnTheWay,
              allVars, vars, readRegs, fifoVars, writeRegs, hostVars
<1> QED BY <1>1, <1>2, InitEstablishes, PTL DEF ClientSpec

(* Every register and queue of the engine keeps its type; the counts never *)
(* wrap.                                                                   *)
THEOREM DmaTypeCorrect == ClientSpec => []TypeOK
<1>1. IInv => TypeOK
  BY DEF IInv
<1> QED BY <1>1, Invariance, PTL

(* The read FIFO never overflows, although the engine cannot hold back a   *)
(* line it has requested: for every FIFO depth, client and host delay.     *)
THEOREM ReadFifoNeverOverflows == ClientSpec => []NoOverflow
<1>1. IInv => NoOverflow
  BY DEF IInv
<1> QED BY <1>1, Invariance, PTL

(* No line of a read transfer is lost or fetched twice, so that rd_done    *)
(* means the client has taken exactly the lines it asked for.              *)
THEOREM ReadLinesConserved == ClientSpec => []LinesConserved
<1>1. IInv => LinesConserved
  BY DEF IInv
<1> QED BY <1>1, Invariance, PTL

-----------------------------------------------------------------------------
(* The write channel                                                       *)

(* Writes accepted and not yet in memory: with the host, or in c1Tx.       *)
InFlight == IF c1Tx = NoReq THEN host_wr ELSE Append(host_wr, c1Tx)

(* The line of the k-th word that the transfer has still to come.          *)
Coming(k) == Plus(wr_first, (wr_total - cci_wr_remaining_r) + k)

(* No two writes in flight are to one line, so their order does not        *)
(* matter; nor does a write in flight meet a word still to come.           *)
Apart(s) == \A i, j \in 1..Len(s) : i # j => s[i].addr # s[j].addr

(* The inductive invariant: memory differs from what the client expects    *)
(* exactly where a write is in flight.                                     *)
WInv ==
  /\ cci_wr_en_delayed <=> c1Tx # NoReq
  /\ wr_first \in Line /\ wr_total \in 0..NLINES /\ cci_wr_remaining_r \in 0..wr_total
  /\ expect \in [Line -> Data]
  /\ cci_wr_remaining_r > 0 => wr_addr_r = Coming(0)
  /\ Apart(InFlight)
  /\ \A i \in 1..Len(InFlight) :
       /\ expect[InFlight[i].addr] = InFlight[i].data
       /\ \A k \in 0..(cci_wr_remaining_r - 1) : InFlight[i].addr # Coming(k)
  /\ \A l \in Line : expect[l] = host_mem[l] \/ \E i \in 1..Len(InFlight) : InFlight[i].addr = l

-----------------------------------------------------------------------------
(* Line arithmetic                                                         *)

LEMMA PlusInjective ==
  ASSUME NEW l \in Line, NEW m \in 0..(NLINES - 1), NEW n \in 0..(NLINES - 1), m # n
  PROVE  Plus(l, m) # Plus(l, n)
BY LinesAssumption DEF Plus, Line

LEMMA PlusNext ==
  ASSUME NEW l \in Line, NEW n \in 0..(NLINES - 1)
  PROVE  Plus(l, n) \in Line /\ NextLine(Plus(l, n)) = Plus(l, n + 1)
BY LinesAssumption DEF Plus, NextLine, Line

-----------------------------------------------------------------------------
(* The writes in flight                                                    *)

LEMMA Removed ==
  ASSUME NEW s \in Seq(Write), NEW c \in 1..Len(s)
  PROVE  /\ RemoveAt(s, c) \in Seq(Write)
         /\ Len(RemoveAt(s, c)) = Len(s) - 1
         /\ \A i \in 1..(Len(s) - 1) : RemoveAt(s, c)[i] = IF i < c THEN s[i] ELSE s[i + 1]
<1> DEFINE before == SubSeq(s, 1, c - 1)
           after == SubSeq(s, c + 1, Len(s))
<1>1. /\ before \in Seq(Write) /\ Len(before) = c - 1
      /\ \A i \in 1..(c - 1) : before[i] = s[i]
  BY SubSeqProperties
<1>2. /\ after \in Seq(Write) /\ Len(after) = Len(s) - c
      /\ \A i \in 1..(Len(s) - c) : after[i] = s[c + i]
  BY SubSeqProperties
<1>3. RemoveAt(s, c) = before \o after
  BY DEF RemoveAt
<1> HIDE DEF before, after
<1>4. /\ RemoveAt(s, c) \in Seq(Write)
      /\ Len(RemoveAt(s, c)) = Len(s) - 1
      /\ \A i \in 1..(Len(s) - 1) :
           RemoveAt(s, c)[i] = IF i <= c - 1 THEN before[i] ELSE after[i - (c - 1)]
  <2>1. /\ before \o after \in Seq(Write)
        /\ Len(before \o after) = Len(before) + Len(after)
        /\ \A i \in 1..(Len(before) + Len(after)) :
             (before \o after)[i] = IF i <= Len(before) THEN before[i] ELSE after[i - Len(before)]
    BY <1>1, <1>2, ConcatProperties
  <2>2. Len(before) = c - 1 /\ Len(before) + Len(after) = Len(s) - 1
    BY <1>1, <1>2
  <2> QED BY <2>1, <2>2, <1>3
<1>5. ASSUME NEW i \in 1..(Len(s) - 1)
      PROVE  RemoveAt(s, c)[i] = IF i < c THEN s[i] ELSE s[i + 1]
  <2>1. CASE i < c
    <3>1. i \in 1..(c - 1) /\ i <= c - 1
      BY <2>1
    <3>2. RemoveAt(s, c)[i] = before[i]
      BY <1>4, <3>1
    <3>3. before[i] = s[i]
      BY <1>1, <3>1
    <3> QED BY <2>1, <3>2, <3>3
  <2>2. CASE i >= c
    <3>1. i - (c - 1) \in 1..(Len(s) - c) /\ c + (i - (c - 1)) = i + 1 /\ ~(i <= c - 1)
      BY <2>2
    <3>2. RemoveAt(s, c)[i] = after[i - (c - 1)]
      BY <1>4, <3>1
    <3>3. after[i - (c - 1)] = s[i + 1]
      BY <1>2, <3>1
    <3> QED BY <2>2, <3>2, <3>3
  <2> QED BY <2>1, <2>2
<1> QED BY <1>4, <1>5

LEMMA InFlightTyped ==
  ASSUME TypeOK
  PROVE  /\ InFlight \in Seq(Write) /\ Len(InFlight) \in Nat
         /\ \A i \in 1..Len(InFlight) : InFlight[i] \in Write
         /\ Len(host_wr) <= Len(InFlight)
         /\ \A i \in 1..Len(host_wr) : InFlight[i] = host_wr[i]
<1>1. host_wr \in Seq(Write) /\ (c1Tx = NoReq \/ c1Tx \in Write)
  BY DEF TypeOK
<1> QED BY <1>1 DEF InFlight

(* At an edge the host takes over c1Tx and commits one of its writes:      *)
(* what it has then is what was in flight but the one committed.           *)
LEMMA HostWrMoves ==
  ASSUME TypeOK, NEW commit \in 0..Len(host_wr), HostWrites(commit)
  PROVE  /\ host_wr' \in Seq(Write)
         /\ Len(host_wr') = Len(InFlight) - (IF commit = 0 THEN 0 ELSE 1)
         /\ \A i \in 1..Len(host_wr') :
              host_wr'[i] = InFlight[IF commit = 0 \/ i < commit THEN i ELSE i + 1]
<1> DEFINE rest == IF commit = 0 THEN host_wr ELSE RemoveAt(host_wr, commit)
<1>1. host_wr \in Seq(Write) /\ (c1Tx = NoReq \/ c1Tx \in Write)
  BY DEF TypeOK
<1>2. /\ rest \in Seq(Write)
      /\ Len(rest) = Len(host_wr) - (IF commit = 0 THEN 0 ELSE 1)
      /\ \A i \in 1..Len(rest) :
           rest[i] = host_wr[IF commit = 0 \/ i < commit THEN i ELSE i + 1]
  <2>1. CASE commit = 0
    BY <2>1, <1>1
  <2>2. CASE commit # 0
    <3>1. commit \in 1..Len(host_wr) /\ rest = RemoveAt(host_wr, commit)
      BY <2>2
    <3>2. /\ rest \in Seq(Write) /\ Len(rest) = Len(host_wr) - 1
          /\ \A i \in 1..(Len(host_wr) - 1) :
               rest[i] = IF i < commit THEN host_wr[i] ELSE host_wr[i + 1]
      BY <3>1, <1>1, Removed
    <3> QED BY <2>2, <3>2
  <2> QED BY <2>1, <2>2
<1>3. host_wr' = IF c1Tx = NoReq THEN rest ELSE Append(rest, c1Tx)
  BY DEF HostWrites
<1> HIDE DEF rest
<1>4. CASE c1Tx = NoReq
  BY <1>4, <1>1, <1>2, <1>3 DEF InFlight
<1>5. CASE c1Tx # NoReq
  <2>1. InFlight = Append(host_wr, c1Tx) /\ host_wr' = Append(rest, c1Tx) /\ c1Tx \in Write
    BY <1>1, <1>3, <1>5 DEF InFlight
  <2>2. /\ Len(InFlight) = Len(host_wr) + 1 /\ InFlight[Len(host_wr) + 1] = c1Tx
        /\ \A i \in 1..Len(host_wr) : InFlight[i] = host_wr[i]
    BY <2>1, <1>1
  <2>3. /\ host_wr' \in Seq(Write) /\ Len(host_wr') = Len(rest) + 1
        /\ host_wr'[Len(rest) + 1] = c1Tx
        /\ \A i \in 1..Len(rest) : host_wr'[i] = rest[i]
    BY <2>1, <1>2
  <2> QED BY <2>2, <2>3, <1>1, <1>2
<1> QED BY <1>4, <1>5

(* The same without positions: nothing else is lost, nothing is gained.    *)
LEMMA OthersKept ==
  ASSUME TypeOK, NEW commit \in 0..Len(host_wr), HostWrites(commit), Apart(InFlight)
  PROVE  /\ host_wr' \in Seq(Write) /\ Len(host_wr') \in Nat
         /\ Apart(host_wr')
         /\ \A i \in 1..Len(host_wr') :
              \E j \in 1..Len(InFlight) : j # commit /\ host_wr'[i] = InFlight[j]
         /\ \A j \in 1..Len(InFlight) :
              j # commit => \E i \in 1..Len(host_wr') : host_wr'[i] = InFlight[j]
<1> DEFINE n == Len(InFlight)
           at(i) == IF commit = 0 \/ i < commit THEN i ELSE i + 1
<1>1. /\ host_wr' \in Seq(Write) /\ Len(host_wr') \in Nat
      /\ Len(host_wr') = n - (IF commit = 0 THEN 0 ELSE 1)
      /\ \A i \in 1..Len(host_wr') : host_wr'[i] = InFlight[at(i)]
      /\ n \in Nat /\ commit \in 0..n
  BY HostWrMoves, InFlightTyped
<1>2. \A i \in 1..Len(host_wr') : at(i) \in 1..n /\ at(i) # commit
  BY <1>1
<1>3. \A i, j \in 1..Len(host_wr') : i # j => at(i) # at(j)
  BY <1>1
<1>4. \A j \in 1..n : j # commit => \E i \in 1..Len(host_wr') : at(i) = j
  <2> SUFFICES ASSUME NEW j \in 1..n, j # commit
               PROVE  \E i \in 1..Len(host_wr') : at(i) = j
    OBVIOUS
  <2>1. CASE commit = 0 \/ j < commit
    BY <2>1, <1>1
  <2>2. CASE commit # 0 /\ j > commit
    <3>1. j - 1 \in 1..Len(host_wr') /\ at(j - 1) = j
      BY <2>2, <1>1
    <3> QED BY <3>1
  <2> QED BY <2>1, <2>2, <1>1
<1> HIDE DEF at, n
<1>5. Apart(host_wr')
  <2> SUFFICES ASSUME NEW i \in 1..Len(host_wr'), NEW j \in 1..Len(host_wr'), i # j
               PROVE  host_wr'[i].addr # host_wr'[j].addr
    BY DEF Apart
  <2>1. InFlight[at(i)].addr # InFlight[at(j)].addr
    BY <1>2, <1>3 DEF Apart, n
  <2> QED
    BY <2>1, <1>1
<1>6. \A i \in 1..Len(host_wr') :
        \E j \in 1..Len(InFlight) : j # commit /\ host_wr'[i] = InFlight[j]
  BY <1>1, <1>2 DEF n
<1>7. \A j \in 1..Len(InFlight) :
        j # commit => \E i \in 1..Len(host_wr') : host_wr'[i] = InFlight[j]
  BY <1>1, <1>4 DEF n
<1> QED BY <1>1, <1>5, <1>6, <1>7

-----------------------------------------------------------------------------
(* The inductive step                                                      *)

LEMMA InitWInv == ClientInit => WInv
<1> SUFFICES ASSUME ClientInit
             PROVE  WInv
  OBVIOUS
<1> USE LinesAssumption DEF ClientInit, Init
<1>1. InFlight = <<>> /\ Len(InFlight) = 0
  BY DEF InFlight
<1>2. 0 \in Line /\ 0 \in 0..NLINES
  BY DEF Line
<1> QED BY <1>1, <1>2 DEF WInv, Apart

(* What every edge does to memory and to the writes in flight before the   *)
(* word of this cycle is added.                                            *)
LEMMA CommitStep ==
  ASSUME TypeOK, WInv, NEW commit \in 0..Len(host_wr), HostWrites(commit)
  PROVE  /\ host_wr' \in Seq(Write) /\ Len(host_wr') \in Nat
         /\ Apart(host_wr')
         /\ \A i \in 1..Len(host_wr') :
              /\ host_wr'[i] \in Write
              /\ expect[host_wr'[i].addr] = host_wr'[i].data
              /\ \A k \in 0..(cci_wr_remaining_r - 1) : host_wr'[i].addr # Coming(k)
         /\ \A l \in Line :
              expect[l] = host_mem'[l] \/ \E i \in 1..Len(host_wr') : host_wr'[i].addr = l
<1>1. /\ host_wr' \in Seq(Write) /\ Len(host_wr') \in Nat
      /\ Apart(host_wr')
      /\ \A i \in 1..Len(host_wr') :
           \E j \in 1..Len(InFlight) : j # commit /\ host_wr'[i] = InFlight[j]
      /\ \A j \in 1..Len(InFlight) :
           j # commit => \E i \in 1..Len(host_wr') : host_wr'[i] = InFlight[j]
  BY OthersKept DEF WInv
<1>2. \A j \in 1..Len(InFlight) :
        /\ InFlight[j] \in Write
        /\ expect[InFlight[j].addr] = InFlight[j].data
        /\ \A k \in 0..(cci_wr_remaining_r - 1) : InFlight[j].addr # Coming(k)
  BY InFlightTyped DEF WInv
<1>3. ASSUME NEW l \in Line
      PROVE  expect[l] = host_mem'[l] \/ \E i \in 1..Len(host_wr') : host_wr'[i].addr = l
  <2>1. expect[l] = host_mem[l] \/ \E j \in 1..Len(InFlight) : InFlight[j].addr = l
    BY DEF WInv
  <2>2. CASE commit = 0
    <3>1. host_mem' = host_mem
      BY <2>2 DEF HostWrites
    <3>2. \A j \in 1..Len(InFlight) : j # commit
      BY <2>2
    <3> QED BY <3>1, <3>2, <2>1, <1>1
  <2>3. CASE commit # 0
    <3>1. commit \in 1..Len(InFlight) /\ host_wr[commit] = InFlight[commit]
      BY <2>3, InFlightTyped DEF TypeOK
    <3>2. host_mem' = [host_mem EXCEPT ![InFlight[commit].addr] = InFlight[commit].data]
      BY <3>1, <2>3 DEF HostWrites
    <3>3. host_mem'[l] = IF l = InFlight[commit].addr THEN InFlight[commit].data ELSE host_mem[l]
      BY <3>2 DEF TypeOK
    <3>4. CASE l = InFlight[commit].addr
      BY <3>4, <3>1, <3>3, <1>2
    <3>5. CASE l # InFlight[commit].addr
      <4>1. expect[l] = host_mem'[l] \/ \E j \in 1..Len(InFlight) : j # commit /\ InFlight[j].addr = l
        BY <3>5, <3>3, <2>1
      <4> QED BY <4>1, <1>1
    <3> QED BY <3>4, <3>5
  <2> QED BY <2>2, <2>3
<1>4. ASSUME NEW i \in 1..Len(host_wr')
      PROVE  /\ host_wr'[i] \in Write
             /\ expect[host_wr'[i].addr] = host_wr'[i].data
             /\ \A k \in 0..(cci_wr_remaining_r - 1) : host_wr'[i].addr # Coming(k)
  <2>1. PICK j \in 1..Len(InFlight) : host_wr'[i] = InFlight[j]
    BY <1>1
  <2> QED BY <2>1, <1>2
<1> QED BY <1>1, <1>3, <1>4

(* A word is accepted: its line is the first to come, and no longer to     *)
(* come afterwards.                                                        *)
LEMMA WriteStep ==
  ASSUME TypeOK, TypeOK', WInv, NEW r, NEW w, Inputs(r, w), Step(r, w),
         CciWrEn(w.en, w.almFull)
  PROVE  WInv'
<1> USE LinesAssumption
<1> DEFINE f == Coming(0)
<1>1. /\ cci_wr_remaining_r \in 1..wr_total /\ wr_total \in 1..NLINES /\ wr_first \in Line
      /\ wr_addr_r = f
  BY DEF CciWrEn, WInv
<1>2. /\ c1Tx' = [addr |-> f, data |-> w.data]
      /\ wr_addr_r' = NextLine(f)
      /\ cci_wr_remaining_r' = cci_wr_remaining_r - 1
      /\ cci_wr_en_delayed'
  <2>1. WriteChannel(w.go, w.addr, w.size, w.en, w.data, w.almFull) /\ w.en /\ ~w.almFull
    BY DEF Step, Tick, CciWrEn
  <2>2. /\ c1Tx' = [addr |-> wr_addr_r, data |-> w.data]
        /\ wr_addr_r' = NextLine(wr_addr_r)
        /\ cci_wr_remaining_r' = Dec(cci_wr_remaining_r)
    BY <2>1 DEF WriteChannel, WrAddr
  <2>3. cci_wr_en_delayed'
    BY <2>1, Zenon DEF WriteChannel
  <2>4. Dec(cci_wr_remaining_r) = cci_wr_remaining_r - 1
    BY <1>1 DEF Dec
  <2> QED BY <2>2, <2>3, <2>4, <1>1
<1>3. ~WrDone /\ ~WrDone'
  BY <1>1, <1>2 DEF WrDone, HostWrCompleted
<1>4. /\ wr_first' = wr_first /\ wr_total' = wr_total
      /\ expect' = [expect EXCEPT ![f] = w.data]
  <2>1. Plus(wr_first, wr_total - cci_wr_remaining_r) = f
    BY <1>1 DEF Coming
  <2> QED BY <1>3, <2>1 DEF Step, History
<1>5. f \in Line /\ w.data \in Data /\ c1Tx' # NoReq /\ c1Tx' \in Write
  <2>1. f \in Line
    BY <1>1, PlusNext DEF Coming
  <2>2. w.data \in Data
    BY DEF Inputs
  <2>3. c1Tx' \in Write
    BY <1>2, <2>1, <2>2 DEF Write
  <2> QED BY <2>1, <2>2, <2>3, NoReqAssumption DEF Write, Line
<1>6. \A k \in 0..(cci_wr_remaining_r' - 1) : Coming(k)' = Coming(k + 1) /\ Coming(k)' # f
  <2> SUFFICES ASSUME NEW k \in 0..(cci_wr_remaining_r' - 1)
               PROVE  Coming(k)' = Coming(k + 1) /\ Coming(k)' # f
    OBVIOUS
  <2>1. (wr_total' - cci_wr_remaining_r') + k = (wr_total - cci_wr_remaining_r) + (k + 1)
    BY <1>1, <1>2, <1>4
  <2>2. Coming(k)' = Coming(k + 1)
    BY <2>1, <1>4 DEF Coming
  <2>3. /\ (wr_total - cci_wr_remaining_r) + (k + 1) \in 0..(NLINES - 1)
        /\ (wr_total - cci_wr_remaining_r) + 0 \in 0..(NLINES - 1)
        /\ (wr_total - cci_wr_remaining_r) + (k + 1) # (wr_total - cci_wr_remaining_r) + 0
    BY <1>1, <1>2
  <2> QED BY <2>2, <2>3, <1>1, PlusInjective DEF Coming
<1>7. cci_wr_remaining_r' > 0 => wr_addr_r' = Coming(0)'
  <2> SUFFICES ASSUME cci_wr_remaining_r' > 0
               PROVE  wr_addr_r' = Coming(0)'
    OBVIOUS
  <2>1. Coming(0)' = Coming(1)
    BY <1>1, <1>2, <1>6
  <2>2. (wr_total - cci_wr_remaining_r) + 0 \in 0..(NLINES - 1)
    BY <1>1
  <2>3. /\ (wr_total - cci_wr_remaining_r) + 1 = ((wr_total - cci_wr_remaining_r) + 0) + 1
    BY <1>1
  <2>4. NextLine(f) = Coming(1)
    BY <2>2, <2>3, <1>1, PlusNext DEF Coming
  <2> QED BY <2>1, <2>4, <1>2
<1>8. HostWrites(w.commit) /\ w.commit \in 0..Len(host_wr)
  BY DEF Step, Tick, Inputs
<1>9. /\ host_wr' \in Seq(Write) /\ Len(host_wr') \in Nat
      /\ Apart(host_wr')
      /\ \A i \in 1..Len(host_wr') :
           /\ host_wr'[i] \in Write
           /\ expect[host_wr'[i].addr] = host_wr'[i].data
           /\ \A k \in 0..(cci_wr_remaining_r - 1) : host_wr'[i].addr # Coming(k)
      /\ \A l \in Line :
           expect[l] = host_mem'[l] \/ \E i \in 1..Len(host_wr') : host_wr'[i].addr = l
  BY <1>8, CommitStep
<1> DEFINE n == Len(host_wr')
<1>10. /\ Len(InFlight') = n + 1
       /\ InFlight'[n + 1] = c1Tx'
       /\ \A i \in 1..n : InFlight'[i] = host_wr'[i]
  <2>1. InFlight' = Append(host_wr', c1Tx')
    BY <1>5 DEF InFlight
  <2> QED BY <2>1, <1>5, <1>9
<1>11. \A i \in 1..n : host_wr'[i].addr # f /\ host_wr'[i].addr \in Line
  BY <1>1, <1>9 DEF Write
<1>12. expect \in [Line -> Data] /\ expect' \in [Line -> Data]
  BY <1>4, <1>5 DEF WInv
<1> HIDE DEF f
<1>13. Apart(InFlight')
  BY <1>2, <1>9, <1>10, <1>11 DEF Apart
<1>14. \A i \in 1..Len(InFlight') :
         /\ expect'[InFlight'[i].addr] = InFlight'[i].data
         /\ \A k \in 0..(cci_wr_remaining_r' - 1) : InFlight'[i].addr # Coming(k)'
  <2> SUFFICES ASSUME NEW i \in 1..(n + 1)
               PROVE  /\ expect'[InFlight'[i].addr] = InFlight'[i].data
                      /\ \A k \in 0..(cci_wr_remaining_r' - 1) : InFlight'[i].addr # Coming(k)'
    BY <1>10
  <2>1. CASE i = n + 1
    <3>1. InFlight'[i].addr = f /\ InFlight'[i].data = w.data
      BY <2>1, <1>2, <1>10
    <3> QED BY <3>1, <1>4, <1>5, <1>6, <1>12
  <2>2. CASE i # n + 1
    <3>1. i \in 1..n /\ InFlight'[i] = host_wr'[i]
      BY <2>2, <1>9, <1>10
    <3>2. expect'[InFlight'[i].addr] = InFlight'[i].data
      BY <3>1, <1>4, <1>9, <1>11, <1>12
    <3>3. ASSUME NEW k \in 0..(cci_wr_remaining_r' - 1)
          PROVE  InFlight'[i].addr # Coming(k)'
      <4>1. k + 1 \in 0..(cci_wr_remaining_r - 1) /\ Coming(k)' = Coming(k + 1)
        BY <1>1, <1>2, <1>6
      <4> QED BY <4>1, <3>1, <1>9
    <3> QED BY <3>2, <3>3
  <2> QED BY <2>1, <2>2
<1>15. \A l \in Line :
         expect'[l] = host_mem'[l] \/ \E i \in 1..Len(InFlight') : InFlight'[i].addr = l
  <2> SUFFICES ASSUME NEW l \in Line
               PROVE  expect'[l] = host_mem'[l] \/ \E i \in 1..(n + 1) : InFlight'[i].addr = l
    BY <1>10
  <2>1. CASE l = f
    <3>1. n + 1 \in 1..(n + 1) /\ InFlight'[n + 1].addr = f
      BY <1>2, <1>9, <1>10
    <3> QED BY <3>1, <2>1
  <2>2. CASE l # f
    <3>1. expect'[l] = expect[l]
      BY <2>2, <1>4, <1>12
    <3>2. \A i \in 1..n : i \in 1..(n + 1)
      BY <1>9
    <3> QED BY <3>1, <3>2, <1>9, <1>10
  <2> QED BY <2>1, <2>2
<1>16. cci_wr_remaining_r' \in 0..wr_total'
  BY <1>1, <1>2, <1>4
<1> QED BY <1>1, <1>2, <1>4, <1>5, <1>7, <1>12, <1>13, <1>14, <1>15, <1>16 DEF WInv

(* No word is accepted: a transfer may start, which finds nothing in       *)
(* flight, or be done.                                                     *)
LEMMA NoWriteStep ==
  ASSUME TypeOK, TypeOK', WInv, NEW r, NEW w, Inputs(r, w), Step(r, w),
         ~CciWrEn(w.en, w.almFull)
  PROVE  WInv'
<1> USE LinesAssumption
<1>1. /\ c1Tx' = NoReq
      /\ cci_wr_remaining_r' = IF w.go /\ WrDone THEN w.size ELSE cci_wr_remaining_r
      /\ ~cci_wr_en_delayed'
      /\ expect' = expect /\ expect \in [Line -> Data]
  <2>1. WriteChannel(w.go, w.addr, w.size, w.en, w.data, w.almFull)
    BY DEF Step, Tick
  <2>2. /\ c1Tx' = NoReq
        /\ cci_wr_remaining_r' = IF w.go /\ WrDone THEN w.size ELSE cci_wr_remaining_r
    BY <2>1 DEF WriteChannel
  <2>3. ~cci_wr_en_delayed'
    BY <2>1, Zenon DEF WriteChannel
  <2> QED BY <2>2, <2>3 DEF Step, History, WInv
<1>2. InFlight' = host_wr'
  BY <1>1 DEF InFlight
<1>3. /\ host_wr' \in Seq(Write) /\ Len(host_wr') \in Nat
      /\ Apart(host_wr')
      /\ \A i \in 1..Len(host_wr') :
           /\ host_wr'[i] \in Write
           /\ expect[host_wr'[i].addr] = host_wr'[i].data
           /\ \A k \in 0..(cci_wr_remaining_r - 1) : host_wr'[i].addr # Coming(k)
      /\ \A l \in Line :
           expect[l] = host_mem'[l] \/ \E i \in 1..Len(host_wr') : host_wr'[i].addr = l
  <2>1. HostWrites(w.commit) /\ w.commit \in 0..Len(host_wr)
    BY DEF Step, Tick, Inputs
  <2> QED BY <2>1, CommitStep
(* What remains: the transfer and the words it has still to come.          *)
<1>4. SUFFICES /\ wr_first' \in Line /\ wr_total' \in 0..NLINES
               /\ cci_wr_remaining_r' \in 0..wr_total'
               /\ cci_wr_remaining_r' > 0 => wr_addr_r' = Coming(0)'
               /\ \A i \in 1..Len(host_wr') :
                    \A k \in 0..(cci_wr_remaining_r' - 1) : host_wr'[i].addr # Coming(k)'
  BY <1>1, <1>2, <1>3 DEF WInv
<1>5. /\ wr_first \in Line /\ wr_total \in 0..NLINES /\ cci_wr_remaining_r \in 0..wr_total
      /\ cci_wr_remaining_r > 0 => wr_addr_r = Coming(0)
  BY DEF WInv
<1>6. CASE w.go /\ WrDone
  <2>1. wr_first' = w.addr /\ wr_total' = w.size /\ cci_wr_remaining_r' = w.size
    BY <1>1, <1>6 DEF Step, History
  <2>2. w.addr \in Line /\ w.size \in 0..NLINES
    BY DEF Inputs
  <2>3. wr_addr_r' = w.addr
    <3>1. ~w.en
      BY <1>6 DEF Step, Allowed
    <3> QED BY <3>1, <1>6 DEF Step, Tick, WriteChannel, WrAddr
  <2>4. Coming(0)' = w.addr
    BY <2>1, <2>2 DEF Coming, Plus, Line
  <2>5. host_wr' = <<>>
    <3>1. host_wr = <<>> /\ c1Tx = NoReq
      BY <1>6 DEF WrDone, HostWrCompleted, C1Empty, WInv
    <3>2. w.commit = 0
      BY <3>1 DEF Inputs
    <3> QED BY <3>1, <3>2 DEF Step, Tick, HostWrites
  <2>6. Len(host_wr') = 0
    BY <2>5
  <2> QED BY <2>1, <2>2, <2>3, <2>4, <2>6
<1>7. CASE ~(w.go /\ WrDone)
  <2>1. cci_wr_remaining_r' = cci_wr_remaining_r
    BY <1>1, <1>7
  <2>2. CASE WrDone'
    <3>1. cci_wr_remaining_r' = 0
      BY <2>2 DEF WrDone
    <3>2. wr_first' = 0 /\ wr_total' = 0
      BY <2>2, <1>7 DEF Step, History
    <3> QED BY <3>1, <3>2 DEF Line
  <2>3. CASE ~WrDone'
    <3>1. wr_first' = wr_first /\ wr_total' = wr_total
      BY <2>3, <1>7 DEF Step, History
    <3>2. \A k \in 0..(cci_wr_remaining_r - 1) : Coming(k)' = Coming(k)
      BY <2>1, <3>1 DEF Coming
    <3>3. cci_wr_remaining_r > 0 => wr_addr_r' = wr_addr_r
      <4>1. cci_wr_remaining_r > 0 => ~(w.en /\ ~w.almFull)
        BY DEF CciWrEn
      <4> QED BY <4>1, <1>7 DEF Step, Tick, WriteChannel, WrAddr
    <3>4. cci_wr_remaining_r > 0 => 0 \in 0..(cci_wr_remaining_r - 1)
      BY <1>5
    <3> QED BY <2>1, <3>1, <3>2, <3>3, <3>4, <1>3, <1>5
  <2> QED BY <2>2, <2>3
<1> QED BY <1>6, <1>7

-----------------------------------------------------------------------------
LEMMA WritesInvariance == ClientSpec => [](TypeOK /\ WInv)
<1>1. ASSUME TypeOK, TypeOK', WInv, ClientNext
      PROVE  WInv'
  <2>1. PICK r \in ReadInputs(RdDone), w \in WriteInputs(WrDone) : Step(r, w)
    BY <1>1 DEF ClientNext
  <2>2. Inputs(r, w)
    BY <2>1, InputsTyped
  <2> QED BY <1>1, <2>1, <2>2, WriteStep, NoWriteStep
<1>2. ASSUME WInv, UNCHANGED allVars
      PROVE  WInv'
  <2>1. /\ wr_first' = wr_first /\ wr_total' = wr_total /\ expect' = expect
        /\ cci_wr_remaining_r' = cci_wr_remaining_r /\ wr_addr_r' = wr_addr_r
        /\ c1Tx' = c1Tx /\ cci_wr_en_delayed' = cci_wr_en_delayed
        /\ host_wr' = host_wr /\ host_mem' = host_mem
    BY <1>2 DEF allVars, vars, history, writeRegs, hostVars
  <2>2. InFlight' = InFlight
    BY <2>1 DEF InFlight
  <2>3. ASSUME NEW k
        PROVE  Coming(k)' = Coming(k)
    BY <2>1 DEF Coming
  <2>4. Apart(InFlight')
    BY <1>2, <2>2 DEF WInv
  <2> QED BY <1>2, <2>1, <2>2, <2>3, <2>4 DEF WInv
<1> QED BY <1>1, <1>2, InitWInv, DmaTypeCorrect, PTL DEF ClientSpec

(* wr_done is up only when every word accepted is in host memory at its    *)
(* line, although the host commits in any order, c1Empty is late and the   *)
(* engine keeps no record of what is on its way: the delay flop covers the *)
(* gap, and two writes in flight never are to one line.                    *)
THEOREM DoneMeansWritten == ClientSpec => []WrittenWhenDone
<1>1. ASSUME TypeOK, WInv, WrDone
      PROVE  host_mem = expect /\ c1Tx = NoReq
  <2>1. host_wr = <<>> /\ c1Tx = NoReq
    BY <1>1 DEF WrDone, HostWrCompleted, C1Empty, WInv
  <2>2. Len(InFlight) = 0
    BY <2>1 DEF InFlight
  <2>3. host_mem \in [Line -> Data] /\ expect \in [Line -> Data]
    BY <1>1 DEF TypeOK, WInv
  <2>4. \A l \in Line : expect[l] = host_mem[l]
    BY <2>2, <1>1 DEF WInv
  <2> QED BY <2>1, <2>3, <2>4
<1>2. TypeOK /\ WInv => WrittenWhenDone
  BY <1>1 DEF WrittenWhenDone
<1> QED BY <1>2, WritesInvariance, PTL

-----------------------------------------------------------------------------
(* The order of the lines of a read, for a half-duplex client              *)

(* The request register is loaded with the first line and counts on from   *)
(* it; no write is under way during a read.                                *)
RInv ==
  /\ rd_first \in Line /\ rd_total \in 0..NLINES /\ dma_rd_remaining_r <= rd_total
  /\ cci_rd_remaining_r > 0 => rd_addr_r = Plus(rd_first, rd_total - cci_rd_remaining_r)
  /\ RdDone \/ WrDone
  /\ InOrder

(* One cycle of a queue that may lose its head and gain a last element.    *)
Moved(s, out, in, x) ==
  IF in THEN Append(IF out THEN Tail(s) ELSE s, x) ELSE IF out THEN Tail(s) ELSE s

LEMMA QueueMoves ==
  ASSUME NEW S, NEW s \in Seq(S), NEW x, NEW out \in BOOLEAN, NEW in \in BOOLEAN,
         out => s # <<>>, in => x \in S
  PROVE  \A i \in 1..Len(Moved(s, out, in, x)) :
           Moved(s, out, in, x)[i] =
             IF i + (IF out THEN 1 ELSE 0) <= Len(s) THEN s[i + (IF out THEN 1 ELSE 0)] ELSE x
<1> DEFINE lost == IF out THEN 1 ELSE 0
           rest == IF out THEN Tail(s) ELSE s
           t == Moved(s, out, in, x)
<1>1. /\ rest \in Seq(S) /\ Len(rest) = Len(s) - lost
      /\ \A i \in 1..Len(rest) : rest[i] = s[i + lost]
  <2>1. CASE out
    BY <2>1, HeadTailProperties
  <2>2. CASE ~out
    BY <2>2
  <2> QED BY <2>1, <2>2
<1>2. t = IF in THEN Append(rest, x) ELSE rest
  BY DEF Moved
<1>3. lost \in {0, 1} /\ Len(s) \in Nat
  OBVIOUS
<1> SUFFICES \A i \in 1..Len(t) : t[i] = IF i + lost <= Len(s) THEN s[i + lost] ELSE x
  OBVIOUS
<1> HIDE DEF lost, rest, t
<1>4. CASE in
  <2>1. /\ Len(t) = Len(rest) + 1 /\ t[Len(rest) + 1] = x
        /\ \A i \in 1..Len(rest) : t[i] = rest[i]
    BY <1>1, <1>2, <1>4, AppendProperties
  <2> QED BY <1>1, <1>3, <2>1
<1>5. CASE ~in
  <2>1. t = rest
    BY <1>2, <1>5
  <2> QED BY <1>1, <1>3, <2>1
<1> QED BY <1>4, <1>5

(* The two queues of a read, as queues.                                    *)
LEMMA ReadQueues ==
  ASSUME IInv, NEW r, NEW w, Inputs(r, w), HostReads(r.response),
         ReadChannel(r.go, r.addr, r.size, r.en, r.almFull, r.response, RspData)
  PROVE  /\ OnTheWay' = Moved(OnTheWay, r.response, CciRdEn(r.almFull), rd_addr_r)
         /\ fifo_q' = Moved(fifo_q, r.en /\ ~Empty, r.response, RspData)
         /\ OnTheWay \in Seq(Line) /\ fifo_q \in Seq(Data) /\ rd_addr_r \in Line
         /\ r.en /\ ~Empty => fifo_q # <<>>
         /\ r.response => /\ OnTheWay # <<>> /\ RspData \in Data
                          /\ RspData = host_mem[OnTheWay[1]]
<1> DEFINE asked == CciRdEn(r.almFull)
           taken == r.en /\ ~Empty
           left == IF r.response THEN Tail(OnTheWay) ELSE OnTheWay
           kept == IF taken THEN Tail(fifo_q) ELSE fifo_q
<1>1. /\ TypeOK /\ r.response \in BOOLEAN /\ r.en \in BOOLEAN /\ r.almFull \in BOOLEAN
      /\ host_rd \in Seq(Line) /\ c0Tx \in Line \cup {NoReq} /\ fifo_q \in Seq(Data)
      /\ host_mem \in [Line -> Data] /\ rd_addr_r \in Line
      /\ r.response => host_rd # <<>>
      /\ LinesConserved /\ NoOverflow /\ (~fifo_ready => OnTheWay = <<>>)
  BY DEF IInv, TypeOK, Inputs, HostReads
<1>2. /\ OnTheWay \in Seq(Line)
      /\ r.response => OnTheWay # <<>> /\ OnTheWay[1] = Head(host_rd)
  BY <1>1 DEF OnTheWay
<1>3. host_rd' = left
  <2>1. CASE r.response /\ c0Tx # NoReq
    <3>1. c0Tx \in Line /\ host_rd # <<>>
      BY <1>1, <2>1
    <3>2. Tail(Append(host_rd, c0Tx)) = Append(Tail(host_rd), c0Tx)
      BY <1>1, <3>1
    <3> QED BY <2>1, <3>2 DEF HostReads, OnTheWay
  <2>2. CASE ~(r.response /\ c0Tx # NoReq)
    BY <2>2 DEF HostReads, OnTheWay
  <2> QED BY <2>1, <2>2
<1>4. OnTheWay' = IF asked THEN Append(left, rd_addr_r) ELSE left
  <2>1. c0Tx' = IF asked THEN rd_addr_r ELSE NoReq
    BY DEF ReadChannel
  <2>2. rd_addr_r # NoReq
    BY <1>1, NoReqAssumption DEF Line
  <2> HIDE DEF asked, left
  <2> QED BY <1>3, <2>1, <2>2 DEF OnTheWay
<1>5. r.response => RspData \in Data /\ RspData = host_mem[OnTheWay[1]]
  <2>1. r.response => Head(host_rd) \in Line
    BY <1>1
  <2> QED BY <1>1, <1>2, <2>1 DEF RspData
<1>6. fifo_q' = IF r.response THEN Append(kept, RspData) ELSE kept
  <2>1. r.response => Len(fifo_q) < FIFO_DEPTH /\ fifo_ready
    <3>1. r.response => Len(OnTheWay) > 0
      BY <1>2
    <3> QED BY <1>1, <3>1, DepthAssumption DEF LinesConserved, NoOverflow, TypeOK, Count
  <2>2. /\ rd_fifo!Accepts(r.response) <=> r.response
        /\ rd_fifo!Removes(r.en) <=> taken
    BY <2>1 DEF rd_fifo!Accepts, rd_fifo!Removes, Empty
  <2> QED BY <2>2 DEF ReadChannel, rd_fifo!Clock
<1>7. taken => fifo_q # <<>>
  BY DEF Empty
<1> QED BY <1>1, <1>2, <1>4, <1>5, <1>6, <1>7 DEF Moved

(* While a transfer goes on, its lines keep their places.                  *)
LEMMA OrderStep ==
  ASSUME IInv, IInv', RInv, NEW r, NEW w, Inputs(r, w), HostReads(r.response),
         ReadChannel(r.go, r.addr, r.size, r.en, r.almFull, r.response, RspData),
         ~RdDone, UNCHANGED <<host_mem, rd_first, rd_total>>
  PROVE  /\ InOrder'
         /\ dma_rd_remaining_r' <= rd_total
         /\ cci_rd_remaining_r' > 0 => rd_addr_r' = Plus(rd_first, rd_total - cci_rd_remaining_r')
<1> DEFINE asked == CciRdEn(r.almFull)
           taken == r.en /\ ~Empty
           a == IF asked THEN 1 ELSE 0
           b == IF r.response THEN 1 ELSE 0
           c == IF taken THEN 1 ELSE 0
           n == Len(fifo_q)
           m == Len(OnTheWay)
           base == Taken
<1>0. /\ asked \in BOOLEAN /\ taken \in BOOLEAN /\ r.response \in BOOLEAN
      /\ a \in {0, 1} /\ b \in {0, 1} /\ c \in {0, 1}
  BY DEF Inputs, CciRdEn, Empty
<1>1. /\ cci_rd_remaining_r \in Nat /\ dma_rd_remaining_r \in Nat /\ n \in Nat /\ m \in Nat
      /\ dma_rd_remaining_r = cci_rd_remaining_r + m + n
      /\ dma_rd_remaining_r > 0 /\ dma_rd_remaining_r <= rd_total
      /\ rd_total \in Nat /\ rd_total <= NLINES /\ rd_first \in Line
      /\ base = rd_total - dma_rd_remaining_r
      /\ cci_rd_remaining_r > 0 => rd_addr_r = Plus(rd_first, rd_total - cci_rd_remaining_r)
  <2>1. OnTheWay \in Seq(Line) /\ fifo_q \in Seq(Data) /\ NLINES \in Nat
    BY ReadQueues, LinesAssumption
  <2>2. /\ cci_rd_remaining_r \in Nat /\ dma_rd_remaining_r \in Nat /\ n \in Nat /\ m \in Nat
        /\ dma_rd_remaining_r = cci_rd_remaining_r + m + n
    BY <2>1 DEF IInv, TypeOK, LinesConserved, Count
  <2>3. /\ dma_rd_remaining_r # 0 /\ dma_rd_remaining_r <= rd_total
        /\ rd_total \in 0..NLINES /\ rd_first \in Line
        /\ cci_rd_remaining_r > 0 => rd_addr_r = Plus(rd_first, rd_total - cci_rd_remaining_r)
    BY DEF RInv, RdDone
  <2>4. base = rd_total - dma_rd_remaining_r
    BY DEF Taken
  <2> HIDE DEF n, m, base
  <2> QED BY <2>1, <2>2, <2>3, <2>4
<1>2. /\ asked => cci_rd_remaining_r > 0
      /\ r.response => m > 0
      /\ taken => n > 0
      /\ OnTheWay \in Seq(Line) /\ fifo_q \in Seq(Data)
      /\ r.response => RspData = host_mem[OnTheWay[1]]
  BY ReadQueues DEF CciRdEn
<1>3. /\ cci_rd_remaining_r' = cci_rd_remaining_r - a
      /\ dma_rd_remaining_r' = dma_rd_remaining_r - c
  <2>1. dma_rd_remaining_r' = IF taken THEN Dec(dma_rd_remaining_r) ELSE dma_rd_remaining_r
    BY DEF ReadChannel
  <2>2. cci_rd_remaining_r' = IF asked THEN Dec(cci_rd_remaining_r) ELSE cci_rd_remaining_r
    BY DEF ReadChannel
  <2> HIDE DEF asked, taken
  <2> QED BY <1>0, <1>1, <1>2, <2>1, <2>2 DEF Dec
<1>4. /\ \A i \in 1..Len(fifo_q') : fifo_q'[i] = IF i + c <= n THEN fifo_q[i + c] ELSE RspData
      /\ \A i \in 1..Len(OnTheWay') :
           OnTheWay'[i] = IF i + b <= m THEN OnTheWay[i + b] ELSE rd_addr_r
  <2>1. /\ OnTheWay' = Moved(OnTheWay, r.response, asked, rd_addr_r)
        /\ fifo_q' = Moved(fifo_q, taken, r.response, RspData)
        /\ OnTheWay \in Seq(Line) /\ fifo_q \in Seq(Data) /\ rd_addr_r \in Line
        /\ taken => fifo_q # <<>>
        /\ r.response => OnTheWay # <<>> /\ RspData \in Data
    BY ReadQueues
  <2> HIDE DEF asked, taken
  <2>2. \A i \in 1..Len(OnTheWay') :
          OnTheWay'[i] = IF i + b <= m THEN OnTheWay[i + b] ELSE rd_addr_r
    BY <1>0, <2>1, QueueMoves
  <2>3. \A i \in 1..Len(fifo_q') : fifo_q'[i] = IF i + c <= n THEN fifo_q[i + c] ELSE RspData
    <3> DEFINE t == Moved(fifo_q, taken, r.response, RspData)
    <3>1. \A i \in 1..Len(t) :
            t[i] = IF i + (IF taken THEN 1 ELSE 0) <= Len(fifo_q)
                   THEN fifo_q[i + (IF taken THEN 1 ELSE 0)] ELSE RspData
      <4>1. /\ fifo_q \in Seq(Data) /\ taken \in BOOLEAN /\ r.response \in BOOLEAN
            /\ taken => fifo_q # <<>>
            /\ r.response => RspData \in Data
        BY <1>0, <2>1
      <4> QED BY ONLY <4>1, QueueMoves, SMTT(60)
    <3> QED BY <2>1, <3>1
  <2> QED BY <2>2, <2>3
<1>5. Len(fifo_q') = n + b - c /\ Len(OnTheWay') = m + a - b
  <2>1. /\ IInv /\ r.response \in BOOLEAN /\ r.en \in BOOLEAN /\ rd_fifo!Clock(r.response, r.en, RspData)
        /\ r.almFull \in BOOLEAN /\ TypeOK
        /\ c0Tx' = IF CciRdEn(r.almFull) THEN rd_addr_r ELSE NoReq
    BY DEF Inputs, ReadChannel, IInv
  <2>2. Len(fifo_q') = n + b - c
    BY <2>1, FifoMoves
  <2>3. Len(OnTheWay') = m + a - b
    BY <2>1, OnTheWayMoves
  <2> QED BY <2>2, <2>3
<1>6. /\ \A i \in 1..n : fifo_q[i] = host_mem[Plus(rd_first, base + i - 1)]
      /\ \A i \in 1..m : OnTheWay[i] = Plus(rd_first, base + n + i - 1)
  BY DEF RInv, InOrder
<1>7. Taken' = base + c
  BY <1>0, <1>1, <1>3 DEF Taken
<1>8. cci_rd_remaining_r' > 0 => rd_addr_r' = Plus(rd_first, rd_total - cci_rd_remaining_r')
  <2>1. rd_addr_r' = IF asked THEN NextLine(rd_addr_r) ELSE rd_addr_r
    BY DEF ReadChannel
  <2>2. CASE asked
    <3>1. a = 1 /\ rd_addr_r' = NextLine(rd_addr_r)
      BY <2>1, <2>2
    <3> DEFINE k == rd_total - cci_rd_remaining_r
    <3>2. cci_rd_remaining_r > 0 /\ k \in 0..(NLINES - 1) /\ k + 1 = rd_total - cci_rd_remaining_r'
      <4>1. NLINES \in Nat /\ asked
        BY <2>2, LinesAssumption
      <4> HIDE DEF asked, a, n, m, base
      <4> QED BY <1>1, <1>2, <1>3, <3>1, <4>1
    <3>3. rd_addr_r = Plus(rd_first, k)
      BY <1>1, <3>2
    <3> HIDE DEF k
    <3>4. NextLine(Plus(rd_first, k)) = Plus(rd_first, k + 1)
      BY <1>1, <3>2, PlusNext
    <3> QED BY ONLY <3>1, <3>2, <3>3, <3>4
  <2>3. CASE ~asked
    BY <1>1, <1>3, <2>1, <2>3
  <2> QED BY <2>2, <2>3
<1> HIDE DEF asked, taken, a, b, c, n, m, base
<1>9. ASSUME NEW i \in 1..Len(fifo_q')
      PROVE  fifo_q'[i] = host_mem'[Plus(rd_first', Taken' + i - 1)]
  <2>1. i \in Nat /\ i >= 1 /\ i <= n + b - c
    BY <1>0, <1>1, <1>5
  <2>2. CASE i + c <= n
    <3>1. i + c \in 1..n /\ base + (i + c) - 1 = Taken' + i - 1
      BY <1>0, <1>1, <1>7, <2>1, <2>2
    <3> QED BY <1>4, <1>6, <2>2, <3>1
  <2>3. CASE i + c > n
    <3>1. b = 1 /\ i = n + 1 - c /\ r.response
      BY <1>0, <1>1, <2>1, <2>3 DEF b
    <3>2. fifo_q'[i] = RspData
      BY <1>0, <1>1, <1>4, <2>1, <2>3
    <3>3. OnTheWay[1] = Plus(rd_first, base + n + 1 - 1)
      BY <1>1, <1>2, <1>6, <3>1
    <3>4. base + n + 1 - 1 = Taken' + i - 1
      BY <1>0, <1>1, <1>7, <3>1
    <3> QED BY <1>2, <3>1, <3>2, <3>3, <3>4
  <2> QED BY <1>0, <1>1, <2>1, <2>2, <2>3
<1>10. ASSUME NEW i \in 1..Len(OnTheWay')
       PROVE  OnTheWay'[i] = Plus(rd_first', Taken' + Len(fifo_q') + i - 1)
  <2>1. i \in Nat /\ i >= 1 /\ i <= m + a - b
    BY <1>0, <1>1, <1>5
  <2>2. Taken' + Len(fifo_q') = base + n + b
    BY <1>0, <1>1, <1>5, <1>7
  <2>3. CASE i + b <= m
    <3>1. i + b \in 1..m /\ base + n + (i + b) - 1 = Taken' + Len(fifo_q') + i - 1
      BY <1>0, <1>1, <2>1, <2>2, <2>3
    <3> QED BY <1>4, <1>6, <2>3, <3>1
  <2>4. CASE i + b > m
    <3>1. a = 1 /\ i = m + 1 - b /\ asked
      BY <1>0, <1>1, <2>1, <2>4 DEF a
    <3>2. OnTheWay'[i] = rd_addr_r
      BY <1>0, <1>1, <1>4, <2>1, <2>4
    <3>3. rd_addr_r = Plus(rd_first, rd_total - cci_rd_remaining_r)
      BY <1>1, <1>2, <3>1
    <3>4. rd_total - cci_rd_remaining_r = Taken' + Len(fifo_q') + i - 1
      BY <1>0, <1>1, <2>2, <3>1
    <3> QED BY <3>2, <3>3, <3>4
  <2> QED BY <1>0, <1>1, <2>1, <2>3, <2>4
<1>11. dma_rd_remaining_r' <= rd_total
  BY <1>0, <1>1, <1>3
<1> QED BY <1>8, <1>9, <1>10, <1>11 DEF InOrder

LEMMA InitRInv == ClientInit => RInv
<1> SUFFICES ASSUME ClientInit
             PROVE  RInv
  OBVIOUS
<1>1. /\ dma_rd_remaining_r = 0 /\ cci_rd_remaining_r = 0 /\ rd_first = 0 /\ rd_total = 0
      /\ fifo_q = <<>> /\ OnTheWay = <<>>
  BY DEF ClientInit, Init, rd_fifo!Init, OnTheWay
<1>2. 0 \in Line /\ 0 \in 0..NLINES
  BY LinesAssumption DEF Line
<1>3. Len(<<>>) = 0
  OBVIOUS
<1> QED BY <1>1, <1>2, <1>3 DEF RInv, InOrder, RdDone

(* A transfer that has ended, or has just been started, has no line in a   *)
(* queue.                                                                  *)
LEMMA RestStep ==
  ASSUME IInv, IInv', NEW r, NEW w, Inputs(r, w), Step(r, w), RdDone
  PROVE  /\ cci_rd_remaining_r' = dma_rd_remaining_r'
         /\ r.go => rd_addr_r' = r.addr /\ dma_rd_remaining_r' = r.size
         /\ ~r.go => RdDone'
<1>1. /\ Len(fifo_q) \in Nat /\ Len(OnTheWay) \in Nat /\ cci_rd_remaining_r \in Nat
      /\ dma_rd_remaining_r = 0
      /\ dma_rd_remaining_r = cci_rd_remaining_r + cci_rd_pending_r + Len(fifo_q)
      /\ cci_rd_pending_r = Len(OnTheWay)
  <2>1. fifo_q \in Seq(Data) /\ OnTheWay \in Seq(Line)
    BY DEF IInv, TypeOK, OnTheWay
  <2>2. cci_rd_remaining_r \in Nat
    BY DEF IInv, TypeOK, Count
  <2> QED BY <2>1, <2>2 DEF IInv, LinesConserved, RdDone
<1>2. Len(fifo_q) = 0 /\ cci_rd_remaining_r = 0
  BY <1>1
<1>3. Empty /\ ~CciRdEn(r.almFull)
  <2>1. fifo_q \in Seq(Data)
    BY DEF IInv, TypeOK
  <2>2. fifo_q = <<>>
    BY ONLY <1>2, <2>1
  <2> QED BY <1>2, <2>2 DEF Empty, CciRdEn
<1> QED BY <1>1, <1>2, <1>3 DEF Step, Tick, ReadChannel, RdDone

LEMMA NothingQueued ==
  ASSUME IInv', cci_rd_remaining_r' = dma_rd_remaining_r'
  PROVE  InOrder'
<1>1. /\ Len(fifo_q') \in Nat /\ Len(OnTheWay') \in Nat /\ cci_rd_remaining_r' \in Nat
      /\ dma_rd_remaining_r' = cci_rd_remaining_r' + cci_rd_pending_r' + Len(fifo_q')
      /\ cci_rd_pending_r' = Len(OnTheWay')
  BY DEF IInv, TypeOK, LinesConserved, Count, OnTheWay
<1>2. Len(fifo_q') = 0 /\ Len(OnTheWay') = 0
  BY <1>1
<1> QED BY <1>2 DEF InOrder

(* At the end of a cycle without a read under way.                         *)
LEMMA DoneStep ==
  ASSUME IInv', NEW r, NEW w, Inputs(r, w), Step(r, w), RdDone'
  PROVE  RInv'
<1>1. /\ dma_rd_remaining_r' = 0 /\ cci_rd_remaining_r' = 0
  BY DEF RdDone, IInv, TypeOK, LinesConserved, Count, OnTheWay
<1>2. rd_first' \in Line /\ rd_total' \in 0..NLINES
  <2>1. 0 \in Line /\ 0 \in 0..NLINES
    BY LinesAssumption DEF Line
  <2> QED BY <2>1 DEF Step, History, Inputs
<1>3. dma_rd_remaining_r' <= rd_total'
  BY <1>1, <1>2
<1>4. InOrder'
  BY <1>1, NothingQueued
<1> QED BY <1>1, <1>2, <1>3, <1>4 DEF RInv

(* The host changes no line while no write is under way and none starts.   *)
LEMMA NoWriteNoChange ==
  ASSUME IInv, WInv, NEW r, NEW w, Inputs(r, w), Step(r, w), WrDone, ~w.go, ~w.en
  PROVE  WrDone' /\ host_mem' = host_mem
<1>1. host_wr = <<>> /\ c1Tx = NoReq /\ cci_wr_remaining_r = 0
  BY DEF WrDone, HostWrCompleted, C1Empty, WInv
<1>2. w.commit = 0
  BY <1>1 DEF Inputs
<1>3. host_wr' = <<>> /\ host_mem' = host_mem
  BY <1>1, <1>2 DEF Step, Tick, HostWrites
<1>4. cci_wr_remaining_r' = 0 /\ ~cci_wr_en_delayed'
  BY <1>1 DEF Step, Tick, WriteChannel, CciWrEn
<1> QED BY <1>3, <1>4 DEF WrDone, HostWrCompleted, C1Empty

LEMMA OrderKept ==
  ASSUME IInv, IInv', WInv, RInv, OnlyReads \/ OnlyWrites
  PROVE  RInv'
<1>1. CASE OnlyWrites
  <2>1. PICK r \in ReadInputs(RdDone), w \in WriteInputs(WrDone) : ~r.go /\ ~r.en /\ Step(r, w)
    BY <1>1 DEF OnlyWrites
  <2>2. Inputs(r, w) /\ RdDone
    BY <1>1, <2>1, InputsTyped DEF OnlyWrites
  <2> QED BY <2>1, <2>2, RestStep, DoneStep
<1>2. CASE OnlyReads
  <2>1. PICK r \in ReadInputs(RdDone), w \in WriteInputs(WrDone) : ~w.go /\ ~w.en /\ Step(r, w)
    BY <1>2 DEF OnlyReads
  <2>2. Inputs(r, w) /\ WrDone
    BY <1>2, <2>1, InputsTyped DEF OnlyReads
  <2>3. WrDone' /\ host_mem' = host_mem
    BY <2>1, <2>2, NoWriteNoChange
  <2>4. CASE RdDone'
    BY <2>1, <2>2, <2>4, DoneStep
  <2>5. CASE RdDone /\ ~RdDone'
    <3>1. /\ r.go /\ rd_addr_r' = r.addr /\ dma_rd_remaining_r' = r.size
          /\ cci_rd_remaining_r' = r.size
      BY <2>1, <2>2, <2>5, RestStep
    <3>2. rd_first' = r.addr /\ rd_total' = r.size
      BY <2>1, <2>5, <3>1 DEF Step, History
    <3>3. r.addr \in Line /\ r.size \in 0..NLINES /\ r.size - r.size = 0 /\ r.size <= r.size
      BY <2>2, LinesAssumption DEF Inputs
    <3>4. Plus(r.addr, 0) = r.addr
      BY <3>3, LinesAssumption DEF Plus, Line
    <3>5. InOrder'
      BY <3>1, NothingQueued
    <3> QED BY <2>3, <3>1, <3>2, <3>3, <3>4, <3>5 DEF RInv
  <2>6. CASE ~RdDone /\ ~RdDone'
    <3>1. /\ HostReads(r.response)
          /\ ReadChannel(r.go, r.addr, r.size, r.en, r.almFull, r.response, RspData)
          /\ rd_first' = rd_first /\ rd_total' = rd_total
      BY <2>1, <2>6 DEF Step, Tick, History
    <3>2. /\ InOrder' /\ dma_rd_remaining_r' <= rd_total
          /\ cci_rd_remaining_r' > 0 => rd_addr_r' = Plus(rd_first, rd_total - cci_rd_remaining_r')
      BY <2>2, <2>3, <2>6, <3>1, OrderStep
    <3> QED BY <2>3, <3>1, <3>2 DEF RInv
  <2> QED BY <2>4, <2>5, <2>6
<1> QED BY <1>1, <1>2

(* The client takes the lines of a read in address order from the one it   *)
(* asked for, each as memory holds it, although requests run ahead of      *)
(* answers and answers ahead of the client.                                *)
THEOREM ReadsComeInOrder == HalfDuplexSpec => []InOrder
<1>1. OnlyReads \/ OnlyWrites => ClientNext
  BY DEF OnlyReads, OnlyWrites, ClientNext
<1>2. HalfDuplexSpec => ClientSpec
  BY <1>1, PTL DEF HalfDuplexSpec, ClientSpec
<1>3. ASSUME IInv, IInv', WInv, RInv, [OnlyReads \/ OnlyWrites]_allVars
      PROVE  RInv'
  <2>1. CASE UNCHANGED allVars
    <3>1. OnTheWay' = OnTheWay
      BY <2>1 DEF allVars, vars, readRegs, hostVars, OnTheWay
    <3> QED BY <1>3, <2>1, <3>1
            DEF RInv, InOrder, Taken, RdDone, WrDone, HostWrCompleted, C1Empty,
                allVars, vars, history, readRegs, fifoVars, writeRegs, hostVars
  <2> QED BY <1>3, <2>1, OrderKept
<1>4. RInv => InOrder
  BY DEF RInv
<1> QED BY <1>2, <1>3, <1>4, InitRInv, Invariance, WritesInvariance, PTL DEF HalfDuplexSpec
=============================================================================
