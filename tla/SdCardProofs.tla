---------------------------- MODULE SdCardProofs ----------------------------
(***************************************************************************)
(* Proofs about SdCard.                                                    *)
(***************************************************************************)
EXTENDS SdCard, SequenceTheorems, TLAPS

\* A representation by quotient and remainder is the only one.
LEMMA ModUnique == ASSUME NEW n \in Nat \ {0}, NEW q \in Int, NEW s \in 0..n-1
    PROVE  (n * q + s) % n = s
OBVIOUS

Bytes == 0..255

CardType ==
    [mode : {"sd", "idle", "ready"}, app : BOOLEAN, kind : {"SC", "HC"}, blklen : Nat,
     phase : {"command", "token", "data", "crc"}, out : Seq(Bytes), late : BOOLEAN,
     in : Seq(Bytes), sector : Int, misused : BOOLEAN]
Quiet(c) == c.out = <<>> /\ c.phase = "command"

Early  == {"plic", "pins", "dmac", "lowlevel"}
Talking == {"cmd8", "ocr", "acmd41", "block", "cmd16", "up"}
Stages == Early \cup Talking \cup {"cmd0", "panic"}
Chan   == dmac.channel[Channel0]

BoardType ==
    /\ gpiohs \in [output_en : SUBSET {7}, input_en : SUBSET {7}, output_val : SUBSET {7}]
    /\ dma_sel \in [DmaChannels -> DmaSelects] /\ dmac \in dmac_t /\ spi \in spi_t
    /\ plic \in [priority : SUBSET {DISK_IRQ, UART_IRQ}, enabled : SUBSET {DISK_IRQ, UART_IRQ},
                 pending : BOOLEAN]
    /\ moved \in [of : Tasks \cup {Nobody}, words : Nat]
    /\ stage \in Stages /\ is_standard_sd \in BOOLEAN
TaskType ==
    /\ owner \in Tasks \cup {Nobody}
    /\ pc \in [Tasks -> {"none", "lock", "dma", "status"}]
    /\ state \in [Tasks -> {"READY", "SLEEPING"}]
    /\ call \in [Tasks -> Calls \cup {NoCall}]
    /\ bounce \in [Tasks -> Seq(Bytes)]
    /\ got \in [Tasks -> Blocks]
    /\ medium \in [Sectors -> Blocks]
Booted ==
    /\ stage \notin Early => 7 \in gpiohs.output_en
    /\ stage # "plic" => DISK_IRQ \in plic.priority
    /\ stage \in Talking => Wired
    /\ stage = "cmd16" => card.kind = "SC"
    /\ stage = "up" => IF is_standard_sd THEN card.kind = "SC" /\ card.blklen = BSIZE
                       ELSE card.kind = "HC"
Held ==
    /\ \A t \in Tasks : pc[t] = "none" <=> call[t] = NoCall
    /\ stage \notin {"up", "panic"} => \A t \in Tasks : pc[t] = "none"
    /\ stage \notin {"up", "panic"} => owner = Nobody
    /\ stage = "up" => \A t \in Tasks : owner = t <=> pc[t] \in {"dma", "status"}
    /\ Chan.en => /\ stage = "up" /\ Chan.intstatus_en /\ dmac.int_en
                  /\ \E t \in Tasks : pc[t] = "dma"
CardKept ==
    /\ card \in CardType /\ ~card.misused /\ ~card.late
    /\ stage # "panic" /\ (\A t \in Tasks : pc[t] # "dma") => Quiet(card)
Setup(t) ==
    /\ moved.of = t /\ moved.words <= BSIZE
    /\ Chan.en <=> moved.words < BSIZE
    /\ Chan.block_ts = BSIZE - 1
    /\ Selected(gpiohs) /\ Running(spi)
    /\ DOMAIN bounce[t] = 1..BSIZE
Reads(t) ==
    /\ spi.tmod = "RECV" /\ Chan.tt_fc = "PRF2MEM" /\ Chan.dinc
    /\ card.phase = "command" /\ Len(card.out) = BSIZE - moved.words + 2
    /\ \A i \in 1..BSIZE : moved.words < i =>
          card.out[i - moved.words] = medium[call[t].sector][i]
    /\ \A i \in 1..BSIZE : i <= moved.words => bounce[t][i] = medium[call[t].sector][i]
Writes(t) ==
    /\ spi.tmod = "TRANS" /\ Chan.tt_fc = "MEM2PRF" /\ Chan.sinc
    /\ card.phase = IF moved.words = BSIZE THEN "crc" ELSE "data"
    /\ card.out = <<>> /\ card.sector = call[t].sector
    /\ Len(card.in) = moved.words
    /\ \A i \in 1..BSIZE : i <= moved.words => card.in[i] = call[t].data[i]
    /\ bounce[t] = call[t].data
Transfers ==
    \A t \in Tasks : stage = "up" =>
        /\ pc[t] = "dma" => Setup(t)
        /\ pc[t] = "dma" /\ call[t].op = "read" => Reads(t)
        /\ pc[t] = "dma" /\ call[t].op = "write" => Writes(t)
        /\ pc[t] = "status" => call[t].op = "write" /\ medium[call[t].sector] = call[t].data
SdInv == BoardType /\ TaskType /\ Booted /\ Held /\ CardKept /\ Transfers /\ NoLostWakeup

-----------------------------------------------------------------------------
(* The controllers.                                                        *)

\* spi_init() stops the controller, whatever it is doing.
LEMMA SpiInit ==
    ASSUME NEW s \in spi_t
    PROVE  spi_init(s, 8) \in spi_t /\ spi_init(s, 8).dfs = 7
<1>. DEFINE t == [s EXCEPT !.dmacr = {}, !.ser = {}, !.ssienr = FALSE,
                           !.tmod = "TRANS_RECV", !.dfs = 7]
<1>1. t \in spi_t /\ t.dfs = 7
  BY DEF spi_t
<1>2. 8 - 1 = 7
  OBVIOUS
<1>. QED BY <1>1, <1>2 DEF spi_init

LEMMA SpiWrites ==
    ASSUME NEW s \in spi_t
    PROVE  /\ spi_send_data_normal(spi_init(s, 8)) \in spi_t
           /\ Running(spi_send_data_normal(spi_init(s, 8)))
<1>. DEFINE t == spi_init(s, 8)
<1>1. t \in spi_t
  BY SpiInit
<1>. HIDE DEF t
<1>2. spi_send_data_normal(t) \in spi_t /\ Running(spi_send_data_normal(t))
  BY <1>1 DEF spi_t, Running, spi_send_data_normal, spi_set_tmod
<1>. QED BY <1>2 DEF t

LEMMA SpiReads ==
    ASSUME NEW s \in spi_t, NEW n \in Nat
    PROVE  /\ Running(spi_receive_data_standard(spi_init(s, 8), n))
           /\ n = 1 => spi_receive_data_standard(spi_init(s, 8), n) \in spi_t
<1>. DEFINE t == spi_init(s, 8)
            r == spi_set_tmod(t, "RECV")
            m == n \div spi_get_frame_size(t.dfs) - 1
<1>1. t \in spi_t /\ t.dfs = 7
  BY SpiInit
<1>2. n = 1 => m = 0
  BY <1>1 DEF spi_get_frame_size
<1>3. spi_receive_data_standard(t, n)
        = [r EXCEPT !.frames = m, !.ssienr = TRUE, !.ser = {SPI_CHIP_SELECT_3}]
  BY DEF spi_receive_data_standard
<1>. HIDE DEF t, m
<1>4. r \in spi_t
  BY <1>1 DEF spi_t, spi_set_tmod
<1>. HIDE DEF r
<1>5. Running(spi_receive_data_standard(t, n))
  BY <1>3, <1>4 DEF spi_t, Running
<1>6. [r EXCEPT !.frames = 0, !.ssienr = TRUE, !.ser = {SPI_CHIP_SELECT_3}] \in spi_t
  BY <1>4 DEF spi_t
<1>7. n = 1 => spi_receive_data_standard(t, n) \in spi_t
  BY <1>2, <1>3, <1>6
<1>. QED BY <1>5, <1>7 DEF t

LEMMA SpiStops ==
    ASSUME NEW s \in spi_t PROVE ~Running(Stopped(s)) /\ Stopped(s) \in spi_t
BY DEF spi_t, Running, Stopped

\* The controller when a task goes to sleep for the DMA channel.
LEMMA SpiReadsByDma ==
    ASSUME NEW s \in spi_t, NEW sel, NEW d, NEW start,
           start = spi_receive_data_normal_dma(spi_init(s, 8), sel, d, Channel0, BSIZE)
    PROVE  /\ start[1] \in spi_t /\ Running(start[1])
           /\ start[1].tmod = "RECV" /\ start[1].frames = BSIZE - 1
<1>. DEFINE t == spi_init(s, 8)
            r == [t EXCEPT !.tmod = "RECV"]
            m == BSIZE - 1
            D == {"rx", "tx"}
<1>1. t \in spi_t /\ m \in Nat /\ D \in SUBSET {"rx", "tx"}
  BY SdAssumption, SpiInit
<1>. HIDE DEF t
<1>2. r \in spi_t /\ r.tmod = "RECV"
  BY <1>1 DEF spi_t
<1>3. start[1] = [r EXCEPT !.frames = m, !.dmacr = D, !.ssienr = TRUE, !.ser = {3}]
  BY DEF spi_receive_data_normal_dma, t, spi_set_tmod, SPI_CHIP_SELECT_3
<1>. HIDE DEF m, D, r
<1>4. LET q == [r EXCEPT !.frames = m, !.dmacr = D, !.ssienr = TRUE, !.ser = {3}]
      IN  q \in spi_t /\ Running(q) /\ q.tmod = "RECV" /\ q.frames = m
  BY <1>1, <1>2 DEF spi_t, Running, SPI_CHIP_SELECT_3
<1>. QED BY <1>3, <1>4 DEF m

LEMMA SpiWritesByDma ==
    ASSUME NEW s \in spi_t, NEW sel, NEW d, NEW start,
           start = spi_send_data_normal_dma(spi_init(s, 8), sel, d, Channel0, BSIZE)
    PROVE  /\ start[1] \in spi_t /\ Running(start[1]) /\ start[1].tmod = "TRANS"
<1>. DEFINE t == spi_init(s, 8)
            r == [t EXCEPT !.tmod = "TRANS"]
<1>1. t \in spi_t
  BY SpiInit
<1>. HIDE DEF t
<1>2. r \in spi_t /\ r.tmod = "TRANS"
  BY <1>1 DEF spi_t
<1>3. start[1] = [r EXCEPT !.dmacr = {"tx"}, !.ssienr = TRUE, !.ser = {3}]
  BY DEF spi_send_data_normal_dma, t, spi_set_tmod, SPI_CHIP_SELECT_3
<1>. HIDE DEF r
<1>4. LET q == [r EXCEPT !.dmacr = {"tx"}, !.ssienr = TRUE, !.ser = {3}]
      IN  q \in spi_t /\ Running(q) /\ q.tmod = "TRANS"
  BY <1>2 DEF spi_t, Running, SPI_CHIP_SELECT_3
<1>. QED BY <1>3, <1>4

LEMMA DmaSelected ==
    ASSUME NEW sel \in [DmaChannels -> DmaSelects], NEW x \in DmaSelects
    PROVE  sysctl_dma_select(sel, Channel0, x) \in [DmaChannels -> DmaSelects]
BY DEF sysctl_dma_select, DmaChannels, DmaSelects, Channel0

-----------------------------------------------------------------------------
(* The DMA controller: a step of dmac.c replaces one channel.              *)

LEMMA ZeroIsChannel == Channel0 \in DmaChannels
BY DEF Channel0, DmaChannels

LEMMA ChannelSet ==
    ASSUME NEW d \in dmac_t, NEW x \in dmac_channel_t
    PROVE  /\ [d EXCEPT !.channel[Channel0] = x] \in dmac_t
           /\ [d EXCEPT !.channel[Channel0] = x].channel[Channel0] = x
           /\ [d EXCEPT !.channel[Channel0] = x].int_en = d.int_en
BY ZeroIsChannel DEF dmac_t

LEMMA ChannelIs == ASSUME NEW d \in dmac_t PROVE d.channel[Channel0] \in dmac_channel_t
BY ZeroIsChannel DEF dmac_t

LEMMA ChannelDisable ==
    ASSUME NEW d \in dmac_t PROVE dmac_channel_disable(d, Channel0) \in dmac_t
<1>. DEFINE x == [d.channel[Channel0] EXCEPT !.en = FALSE]
<1>1. x \in dmac_channel_t
  BY ChannelIs DEF dmac_channel_t
<1>2. dmac_channel_disable(d, Channel0) = [d EXCEPT !.channel[Channel0] = x]
  BY ZeroIsChannel DEF dmac_channel_disable
<1>. HIDE DEF x
<1>. QED BY <1>1, <1>2, ChannelSet

LEMMA InterruptClear ==
    ASSUME NEW d \in dmac_t
    PROVE  LET n == dmac_chanel_interrupt_clear(d, Channel0)
           IN  /\ n \in dmac_t /\ n.int_en = d.int_en
               /\ n.channel[Channel0] = [d.channel[Channel0] EXCEPT !.intstatus = FALSE]
               /\ n.channel[Channel0].en = d.channel[Channel0].en
<1>. DEFINE x == [d.channel[Channel0] EXCEPT !.intstatus = FALSE]
<1>1. x \in dmac_channel_t /\ x.en = d.channel[Channel0].en
  BY ChannelIs DEF dmac_channel_t
<1>2. dmac_chanel_interrupt_clear(d, Channel0) = [d EXCEPT !.channel[Channel0] = x]
  BY ZeroIsChannel DEF dmac_chanel_interrupt_clear
<1>3. /\ [d EXCEPT !.channel[Channel0] = x] \in dmac_t
      /\ [d EXCEPT !.channel[Channel0] = x].channel[Channel0] = x
      /\ [d EXCEPT !.channel[Channel0] = x].int_en = d.int_en
  <2>. HIDE DEF x
  <2>. QED BY <1>1, ChannelSet
<1>. QED BY <1>1, <1>2, <1>3

\* The channel when it has been set up and switched on.
Started(new, src, dest, si, di) ==
    /\ new \in dmac_t /\ new.int_en
    /\ new.channel[Channel0].en /\ new.channel[Channel0].intstatus_en
    /\ new.channel[Channel0].tt_fc = FlowControl(src, dest)
    /\ new.channel[Channel0].sinc = si /\ new.channel[Channel0].dinc = di
    /\ new.channel[Channel0].block_ts = BSIZE - 1

LEMMA DmaStarts ==
    ASSUME NEW d \in dmac_t, NEW src \in {"mem", "dr"}, NEW dest \in {"mem", "dr"},
           NEW si \in BOOLEAN, NEW di \in BOOLEAN, NEW new,
           new = dmac_set_single_mode(d, Channel0, src, dest, si, di, BSIZE)
    PROVE  Started(new, src, dest, si, di)
<1>. DEFINE d1 == dmac_chanel_interrupt_clear(d, Channel0)
            d2 == dmac_channel_disable(d1, Channel0)
            d3 == dmac_set_channel_param(d2, Channel0, src, dest, si, di, BSIZE)
            d4 == dmac_enable(d3)
            d5 == dmac_enable_channel_interrupt(d4, Channel0)
            m  == BSIZE - 1
            fc == FlowControl(src, dest)
<1>0. Channel0 \in DmaChannels /\ m \in Nat
  BY SdAssumption, ZeroIsChannel
<1>1. d1 \in dmac_t
  BY InterruptClear
<1>. HIDE DEF d1
<1>2. d2 \in dmac_t
  BY <1>1, ChannelDisable
<1>. HIDE DEF d2
<1>3. fc \in {"MEM2MEM", "MEM2PRF", "PRF2MEM", "PRF2PRF"}
  BY DEF FlowControl, is_memory
<1>. DEFINE x3 == [d2.channel[Channel0] EXCEPT !.tt_fc = fc, !.sar = src, !.dar = dest,
                                               !.sinc = si, !.dinc = di, !.block_ts = m]
<1>4. d3 = [d2 EXCEPT !.channel[Channel0] = x3]
  <2>. DEFINE c1 == d2.channel[Channel0]
              c2 == [c1 EXCEPT !.tt_fc = fc]
              c3 == [c2 EXCEPT !.sar = src]
              c4 == [c3 EXCEPT !.dar = dest]
              c5 == [c4 EXCEPT !.sinc = si]
              c6 == [c5 EXCEPT !.dinc = di]
              c7 == [c6 EXCEPT !.block_ts = m]
  <2>. DEFINE Put(c) == [d2 EXCEPT !.channel[Channel0] = c]
  <2>1. \A c : Put(c).channel[Channel0] = c
    BY <1>0, <1>2 DEF dmac_t
  <2>2. \A c, e : [Put(c) EXCEPT !.channel[Channel0] = e] = Put(e)
    BY <1>0, <1>2 DEF dmac_t
  <2>. DEFINE e2 == [d2 EXCEPT !.channel[Channel0].tt_fc = fc]
              e3 == [e2 EXCEPT !.channel[Channel0].sar = src]
              e4 == [e3 EXCEPT !.channel[Channel0].dar = dest]
              e5 == [e4 EXCEPT !.channel[Channel0].sinc = si]
              e6 == [e5 EXCEPT !.channel[Channel0].dinc = di]
              e7 == [e6 EXCEPT !.channel[Channel0].block_ts = m]
  <2>3. d3 = e7
    BY DEF dmac_set_channel_param
  <2>4. e2 = Put(c2)
    OBVIOUS
  <2>. HIDE DEF c2, Put
  <2>5. e3 = [Put(c2) EXCEPT !.channel[Channel0] = c3]
    BY <2>1, <2>4
  <2>5a. e3 = Put(c3)
    BY <2>2, <2>5
  <2>. HIDE DEF c3
  <2>6a. e4 = [Put(c3) EXCEPT !.channel[Channel0] = c4]
    BY <2>1, <2>5a
  <2>6. e4 = Put(c4)
    BY <2>2, <2>6a
  <2>. HIDE DEF c4
  <2>7a. e5 = [Put(c4) EXCEPT !.channel[Channel0] = c5]
    BY <2>1, <2>6
  <2>7. e5 = Put(c5)
    BY <2>2, <2>7a
  <2>. HIDE DEF c5
  <2>8a. e6 = [Put(c5) EXCEPT !.channel[Channel0] = c6]
    BY <2>1, <2>7
  <2>8. e6 = Put(c6)
    BY <2>2, <2>8a
  <2>. HIDE DEF c6
  <2>9a. e7 = [Put(c6) EXCEPT !.channel[Channel0] = c7]
    BY <2>1, <2>8
  <2>9. e7 = Put(c7)
    BY <2>2, <2>9a
  <2>10. c7 = x3
    BY DEF c2, c3, c4, c5, c6, c7
  <2>. QED BY <2>3, <2>9, <2>10 DEF Put
<1>. HIDE DEF d3, m, fc
<1>5. /\ x3 \in dmac_channel_t /\ x3.tt_fc = fc /\ x3.sinc = si /\ x3.dinc = di
      /\ x3.block_ts = m
  <2>. DEFINE x == d2.channel[Channel0]
  <2>1. x \in dmac_channel_t
    BY <1>2, ChannelIs
  <2>. HIDE DEF x
  <2>2. [x EXCEPT !.tt_fc = fc, !.sar = src, !.dar = dest, !.sinc = si, !.dinc = di,
                  !.block_ts = m] \in dmac_channel_t
    BY <2>1, <1>0, <1>3 DEF dmac_channel_t
  <2>. QED BY <2>1, <2>2 DEF x, dmac_channel_t
<1>. HIDE DEF x3
<1>6. d3 \in dmac_t /\ d3.channel[Channel0] = x3
  BY <1>2, <1>4, <1>5, ChannelSet
<1>7. d4 \in dmac_t /\ d4.channel[Channel0] = x3 /\ d4.int_en
  BY <1>6 DEF dmac_t, dmac_enable
<1>. DEFINE x5 == [x3 EXCEPT !.intstatus = FALSE, !.intstatus_en = TRUE]
<1>8. d5 = [d4 EXCEPT !.channel[Channel0] = x5]
  BY <1>0, <1>7 DEF dmac_enable_channel_interrupt
<1>9. /\ x5 \in dmac_channel_t /\ x5.intstatus_en /\ x5.tt_fc = fc /\ x5.sinc = si
      /\ x5.dinc = di /\ x5.block_ts = m
  BY <1>5 DEF dmac_channel_t
<1>. HIDE DEF x5, d4, d5
<1>10. d5 \in dmac_t /\ d5.channel[Channel0] = x5 /\ d5.int_en
  BY <1>7, <1>8, <1>9, ChannelSet
<1>. DEFINE x6 == [x5 EXCEPT !.en = TRUE]
<1>11. new = [d5 EXCEPT !.channel[Channel0].en = TRUE]
  BY <1>0 DEF d1, d2, d3, d4, d5, dmac_set_single_mode, dmac_channel_enable
<1>12. new = [d5 EXCEPT !.channel[Channel0] = x6]
  BY <1>0, <1>10, <1>11
<1>13. /\ x6 \in dmac_channel_t /\ x6.intstatus_en /\ x6.tt_fc = fc /\ x6.sinc = si
       /\ x6.dinc = di /\ x6.block_ts = m /\ x6.en
  BY <1>9 DEF dmac_channel_t
<1>. HIDE DEF x6
<1>14. new \in dmac_t /\ new.channel[Channel0] = x6 /\ new.int_en
  BY <1>10, <1>12, <1>13, ChannelSet
<1>. QED BY <1>13, <1>14 DEF m, fc, Started

-----------------------------------------------------------------------------
(* The card.                                                               *)

LEMMA ByteTuples ==
    /\ \A a \in Bytes : <<a>> \in Seq(Bytes)
    /\ \A a, b \in Bytes : <<a, b>> \in Seq(Bytes)
    /\ \A a, b, c, d \in Bytes : <<a, b, c, d>> \in Seq(Bytes)
    /\ \A a, b, c, d, e \in Bytes : <<a, b, c, d, e>> \in Seq(Bytes)
OBVIOUS

LEMMA Concat ==
    ASSUME NEW a \in Seq(Bytes), NEW b \in Seq(Bytes), NEW f, f = a \o b
    PROVE  /\ f \in Seq(Bytes) /\ Len(f) = Len(a) + Len(b)
           /\ \A i \in 1 .. Len(a) + Len(b) : f[i] = IF i <= Len(a) THEN a[i] ELSE b[i - Len(a)]
BY ConcatProperties

\* A block is a sequence of BSIZE bytes.
LEMMA BlockSeq ==
    ASSUME NEW b \in Blocks
    PROVE  b \in Seq(Bytes) /\ Len(b) = BSIZE /\ DOMAIN b = 1..BSIZE
<1>1. b \in [1..BSIZE -> 0..255] /\ BSIZE \in Nat
  BY SdAssumption
<1>2. b \in Seq(0..255)
  BY <1>1
<1>3. b \in Seq(Bytes)
  BY <1>2 DEF Bytes
<1>4. Len(b) \in Nat /\ DOMAIN b = 1..Len(b)
  BY <1>2
<1>5. 1..Len(b) = 1..BSIZE => Len(b) = BSIZE
  BY <1>1, <1>4
<1>. QED BY <1>1, <1>3, <1>4, <1>5

\* What the card sends for a sector: the answer, the token, the block, its CRC.
Frame(b) == <<0, 254>> \o b \o <<170, 85>>
LEMMA DataFrame ==
    ASSUME NEW b \in Blocks
    PROVE  /\ Frame(b) \in Seq(Bytes) /\ Len(Frame(b)) = BSIZE + 4
           /\ Frame(b)[1] = 0 /\ Frame(b)[2] = 254
           /\ \A i \in 1..BSIZE : Frame(b)[i + 2] = b[i]
<1>. DEFINE f == Frame(b)  h == <<0, 254>>  t == <<170, 85>>  hb == h \o b
<1>1. h \in Seq(Bytes) /\ t \in Seq(Bytes) /\ Len(h) = 2 /\ Len(t) = 2
      /\ h[1] = 0 /\ h[2] = 254
  BY DEF Bytes
<1>2. b \in Seq(Bytes) /\ Len(b) = BSIZE /\ BSIZE \in Nat \ {0}
  BY BlockSeq, SdAssumption
<1>. HIDE DEF h, t
<1>3. /\ hb \in Seq(Bytes) /\ Len(hb) = BSIZE + 2
      /\ \A i \in 1..(BSIZE + 2) : hb[i] = IF i <= 2 THEN h[i] ELSE b[i - 2]
  <2>1. /\ hb \in Seq(Bytes) /\ Len(hb) = Len(h) + Len(b)
        /\ \A i \in 1 .. Len(h) + Len(b) : hb[i] = IF i <= Len(h) THEN h[i] ELSE b[i - Len(h)]
    <3>1. h \in Seq(Bytes) /\ b \in Seq(Bytes)
      BY <1>1, <1>2
    <3>. QED BY ONLY <3>1, Concat
  <2>. HIDE DEF hb
  <2>. QED BY <2>1, <1>1, <1>2
<1>4. f = hb \o t
  BY DEF h, t, Frame
<1>. HIDE DEF hb, f
<1>5. /\ f \in Seq(Bytes) /\ Len(f) = BSIZE + 4
      /\ \A i \in 1..(BSIZE + 4) : f[i] = IF i <= BSIZE + 2 THEN hb[i] ELSE t[i - (BSIZE + 2)]
  <2>1. /\ f \in Seq(Bytes) /\ Len(f) = Len(hb) + Len(t)
        /\ \A i \in 1 .. Len(hb) + Len(t) : f[i] = IF i <= Len(hb) THEN hb[i] ELSE t[i - Len(hb)]
    <3>1. hb \in Seq(Bytes) /\ t \in Seq(Bytes)
      BY <1>1, <1>3
    <3>. QED BY ONLY <3>1, <1>4, Concat
  <2>2. Len(hb) + Len(t) = BSIZE + 4
    BY <1>1, <1>2, <1>3
  <2>. QED BY <2>1, <2>2, <1>3
<1>6. f[1] = hb[1] /\ f[2] = hb[2] /\ hb[1] = h[1] /\ hb[2] = h[2]
  BY <1>2, <1>3, <1>5
<1>7. ASSUME NEW i \in 1..BSIZE PROVE f[i + 2] = b[i]
  <2>1. i + 2 \in 1..(BSIZE + 2) /\ i + 2 \in 1..(BSIZE + 4) /\ ~(i + 2 <= 2) /\ i + 2 <= BSIZE + 2
        /\ (i + 2) - 2 = i
    BY <1>2
  <2>. QED BY <2>1, <1>3, <1>5
<1>. QED BY <1>1, <1>5, <1>6, <1>7 DEF f

LEMMA OcrIs ==
    ASSUME NEW c \in CardType
    PROVE  LET o == <<R1(c)>> \o OCR(c) IN
           /\ o \in Seq(Bytes) /\ Len(o) = 5 /\ o[1] = R1(c)
           /\ o[2] = IF c.mode # "ready" THEN 0 ELSE IF c.kind = "HC" THEN 192 ELSE 128
<1>. DEFINE o == <<R1(c)>> \o OCR(c)
            r == R1(c)  k == IF c.mode # "ready" THEN 0 ELSE IF c.kind = "HC" THEN 192 ELSE 128
<1>1. r \in Bytes /\ k \in Bytes
  BY DEF R1, Bytes
<1>2. OCR(c) = <<k, 255, 128, 0>>
  BY DEF OCR
<1>. HIDE DEF r, k
<1>. DEFINE h == <<r>>  t == <<k, 255, 128, 0>>
<1>3. h \in Seq(Bytes) /\ t \in Seq(Bytes) /\ Len(h) = 1 /\ Len(t) = 4 /\ h[1] = r /\ t[1] = k
  BY <1>1, 255 \in Bytes, 128 \in Bytes, 0 \in Bytes DEF Bytes
<1>4. o = h \o t
  BY <1>2 DEF r
<1>. HIDE DEF h, t, o
<1>5. /\ o \in Seq(Bytes) /\ Len(o) = Len(h) + Len(t)
      /\ \A i \in 1 .. Len(h) + Len(t) : o[i] = IF i <= Len(h) THEN h[i] ELSE t[i - Len(h)]
  <2>1. h \in Seq(Bytes) /\ t \in Seq(Bytes)
    BY <1>3
  <2>. QED BY ONLY <2>1, <1>4, Concat
<1>6. o[1] = h[1] /\ o[2] = t[1]
  BY <1>3, <1>5
<1>. QED BY <1>3, <1>5, <1>6 DEF r, k, o

\* What every answer keeps, and what the driver may conclude from a zero.
Said(x) == x.out # <<>> /\ x.out[1] = 0
Kept(c, cmd, arg, x) ==
    /\ x \in CardType /\ x.misused = c.misused /\ x.kind = c.kind
    /\ cmd # 16 => x.blklen = c.blklen
    /\ cmd # 24 => x.phase = c.phase
    /\ cmd = 58 /\ Said(x) => Len(x.out) = 5 /\ x.out[2] = IF c.kind = "HC" THEN 192 ELSE 128
    /\ cmd = 16 /\ Said(x) => x.blklen = arg
    /\ cmd = 17 /\ Said(x) => x.out = <<0>> \/ x.out = Frame(medium[SectorOf(c, arg)])
    /\ cmd = 24 /\ Said(x) => x.out = <<0>> /\ x.phase = "token" /\ x.sector = SectorOf(c, arg)

LEMMA Plain ==
    ASSUME NEW c \in CardType, NEW cmd, NEW arg, NEW o \in Seq(Bytes), NEW x,
           x = [c EXCEPT !.out = o, !.app = FALSE],
           cmd \notin {58, 16, 17, 24} \/ o[1] # 0
    PROVE  Kept(c, cmd, arg, x)
<1>1. /\ x \in CardType /\ x.out = o /\ x.misused = c.misused /\ x.kind = c.kind
      /\ x.blklen = c.blklen /\ x.phase = c.phase
  BY DEF CardType
<1>2. CASE o[1] # 0
  BY <1>1, <1>2 DEF Kept, Said
<1>3. CASE cmd \notin {58, 16, 17, 24}
  BY <1>1, <1>3 DEF Kept
<1>. QED BY <1>2, <1>3

LEMMA Answering ==
    ASSUME NEW c \in CardType, c.out = <<>>, NEW cmd \in Nat, NEW arg \in Nat,
           medium \in [Sectors -> Blocks],
           cmd \in {17, 24} => SectorOf(c, arg) \in Sectors,
           NEW x \in Answers(c, cmd, arg)
    PROVE  Kept(c, cmd, arg, x)
<1>. DEFINE Answer(y, bytes) == [y EXCEPT !.out = bytes, !.app = FALSE]
            Illegal == {Answer(c, <<4 + R1(c)>>)}
<1>r. R1(c) \in {0, 1} /\ 4 + R1(c) \in Bytes /\ 4 + R1(c) # 0
  BY DEF R1, Bytes
<1>i. ASSUME x \in Illegal PROVE Kept(c, cmd, arg, x)
  <2>. DEFINE o == <<4 + R1(c)>>
  <2>1. o \in Seq(Bytes) /\ o[1] # 0
    BY <1>r
  <2>2. x = Answer(c, o)
    BY <1>i
  <2>. HIDE DEF o
  <2>. QED BY <2>1, <2>2, Plain
<1>1. CASE cmd = 0
  <2>. DEFINE o == <<1>>
  <2>0. o \in Seq(Bytes) /\ o[1] # 0
    BY DEF Bytes
  <2>. HIDE DEF o
  <2>1. x = Answer([c EXCEPT !.mode = "idle"], o)
    BY <1>1 DEF Answers, o
  <2>2. [c EXCEPT !.mode = "idle"] \in CardType
    BY DEF CardType
  <2>3. x \in CardType /\ x.misused = c.misused /\ x.kind = c.kind /\ x.blklen = c.blklen
        /\ x.phase = c.phase
    BY <2>0, <2>1 DEF CardType
  <2>. QED BY <1>1, <2>3 DEF Kept
<1>2. CASE cmd # 0 /\ c.mode = "sd"
  <2>1. x = c
    BY <1>2 DEF Answers
  <2>. QED BY <2>1 DEF Kept, Said
<1>3. CASE cmd = 8 /\ c.mode # "sd"
  <2>. DEFINE r == R1(c)  o == <<r, 0, 0, 1, 170>>  e == <<9>>
  <2>1. x = Answer(c, o) \/ x = Answer(c, e)
    BY <1>3 DEF Answers
  <2>0. cmd \notin {58, 16, 17, 24}
    BY <1>3
  <2>2. r \in Bytes /\ 0 \in Bytes /\ 1 \in Bytes /\ 170 \in Bytes /\ 9 \in Bytes
    BY <1>r DEF Bytes
  <2>. HIDE DEF r
  <2>3. o \in Seq(Bytes) /\ e \in Seq(Bytes)
    BY <2>2, ByteTuples
  <2>. HIDE DEF o, e
  <2>4. CASE x = Answer(c, o)
    BY <2>0, <2>4, <2>3, Plain
  <2>5. CASE x = Answer(c, e)
    BY <2>0, <2>5, <2>3, Plain
  <2>. QED BY <2>1, <2>4, <2>5
<1>4. CASE cmd = 58 /\ c.mode # "sd"
  <2>. DEFINE o == <<R1(c)>> \o OCR(c)
  <2>1. x = Answer(c, o)
    BY <1>4 DEF Answers
  <2>2. /\ o \in Seq(Bytes) /\ Len(o) = 5 /\ o[1] = R1(c)
        /\ o[2] = IF c.mode # "ready" THEN 0 ELSE IF c.kind = "HC" THEN 192 ELSE 128
    BY OcrIs
  <2>. HIDE DEF o
  <2>3. /\ x \in CardType /\ x.out = o /\ x.misused = c.misused /\ x.kind = c.kind
        /\ x.blklen = c.blklen /\ x.phase = c.phase
    BY <2>1, <2>2 DEF CardType
  <2>4. Said(x) => c.mode = "ready"
    BY <2>2, <2>3 DEF Said, R1
  <2>. QED BY <1>4, <2>2, <2>3, <2>4 DEF Kept
<1>5. CASE cmd = 55 /\ c.mode # "sd"
  <2>. DEFINE o == <<R1(c)>>
  <2>1. x = [Answer(c, o) EXCEPT !.app = TRUE]
    BY <1>5 DEF Answers
  <2>2. o \in Seq(Bytes)
    BY <1>r DEF Bytes
  <2>. HIDE DEF o
  <2>3. x \in CardType /\ x.misused = c.misused /\ x.kind = c.kind /\ x.blklen = c.blklen
        /\ x.phase = c.phase
    BY <2>1, <2>2 DEF CardType
  <2>. QED BY <1>5, <2>3 DEF Kept
<1>6. CASE cmd = 41 /\ c.mode # "sd"
  <2>1. CASE ~c.app
    BY <1>6, <2>1, <1>i DEF Answers
  <2>2. CASE c.app
    <3>. DEFINE z == <<0>>  o == <<1>>
    <3>1. x = Answer(c, o) \/ x = Answer([c EXCEPT !.mode = "ready"], z)
      BY <1>6, <2>2 DEF Answers
    <3>2. o \in Seq(Bytes) /\ z \in Seq(Bytes)
      BY DEF Bytes
    <3>. HIDE DEF o, z
    <3>3. x \in CardType /\ x.misused = c.misused /\ x.kind = c.kind /\ x.blklen = c.blklen
          /\ x.phase = c.phase
      BY <3>1, <3>2 DEF CardType
    <3>. QED BY <1>6, <3>3 DEF Kept
  <2>. QED BY <2>1, <2>2
<1>7. CASE cmd \notin {0, 8, 58, 55, 41} /\ c.mode = "idle"
  BY <1>7, <1>i DEF Answers
<1>. DEFINE Rest == cmd \notin {0, 8, 58, 55, 41} /\ c.mode \notin {"idle", "sd"}
<1>8. CASE cmd = 16 /\ Rest
  <2>. DEFINE o == <<0>>
  <2>1. x = Answer([c EXCEPT !.blklen = arg], o)
    BY <1>8 DEF Answers
  <2>2. o \in Seq(Bytes)
    BY DEF Bytes
  <2>. HIDE DEF o
  <2>3. x \in CardType /\ x.misused = c.misused /\ x.kind = c.kind /\ x.blklen = arg
        /\ x.phase = c.phase
    BY <2>1, <2>2 DEF CardType
  <2>. QED BY <1>8, <2>3 DEF Kept
<1>9. CASE cmd = 17 /\ Rest
  <2>. DEFINE s == SectorOf(c, arg)  f == Frame(medium[s])  z == <<0>>
  <2>1. medium[s] \in Blocks
    BY <1>9
  <2>2. x = Answer(c, f) \/ x = Answer(c, z)
    BY <1>9 DEF Answers, Frame
  <2>3. z \in Seq(Bytes)
    BY DEF Bytes
  <2>4. f \in Seq(Bytes)
    BY <2>1, DataFrame DEF Frame
  <2>. HIDE DEF f, z
  <2>5. /\ x \in CardType /\ x.out \in {f, z} /\ x.misused = c.misused /\ x.kind = c.kind
        /\ x.blklen = c.blklen /\ x.phase = c.phase
    BY <2>2, <2>3, <2>4 DEF CardType
  <2>. QED BY <1>9, <2>5 DEF Kept, f, z
<1>10. CASE cmd = 24 /\ Rest
  <2>. DEFINE s == SectorOf(c, arg)  o == <<0>>
  <2>1. x = [Answer(c, o) EXCEPT !.phase = "token", !.sector = s] /\ s \in Sectors
    BY <1>10 DEF Answers
  <2>2. o \in Seq(Bytes) /\ s \in Int
    BY <2>1, SdAssumption DEF Bytes
  <2>. HIDE DEF s, o
  <2>3. /\ x \in CardType /\ x.misused = c.misused /\ x.kind = c.kind /\ x.blklen = c.blklen
        /\ x.phase = "token" /\ x.sector = s /\ x.out = o
    BY <2>1, <2>2 DEF CardType
  <2>. QED BY <1>10, <2>3 DEF Kept, s, o
<1>11. CASE cmd = 13 /\ Rest
  <2>. DEFINE z == <<0, 0>>  e == <<0, 4>>
  <2>1. x = Answer(c, z) \/ x = Answer(c, e)
    BY <1>11 DEF Answers
  <2>0. cmd \notin {58, 16, 17, 24}
    BY <1>11
  <2>2. 0 \in Bytes /\ 4 \in Bytes
    BY DEF Bytes
  <2>3. z \in Seq(Bytes) /\ e \in Seq(Bytes)
    BY <2>2, ByteTuples
  <2>. HIDE DEF z, e
  <2>4. CASE x = Answer(c, z)
    BY <2>0, <2>4, <2>3, Plain
  <2>5. CASE x = Answer(c, e)
    BY <2>0, <2>5, <2>3, Plain
  <2>. QED BY <2>1, <2>4, <2>5
<1>12. CASE cmd \notin {16, 17, 24, 13} /\ Rest
  BY <1>12, <1>i DEF Answers
<1>. QED BY <1>1, <1>2, <1>3, <1>4, <1>5, <1>6, <1>7, <1>8, <1>9, <1>10, <1>11, <1>12

LEMMA Commanding ==
    ASSUME NEW c \in CardType, Quiet(c), NEW cmd \in Nat, NEW arg \in Nat,
           medium \in [Sectors -> Blocks],
           cmd \in {17, 24} => SectorOf(c, arg) \in Sectors,
           NEW x \in Commanded(c, cmd, arg)
    PROVE  Kept(c, cmd, arg, x)
<1>. DEFINE m == c.misused \/ c.out # <<>> \/ c.phase # "command"
            free == [c EXCEPT !.misused = m, !.phase = "command", !.in = <<>>]
<1>1. m = c.misused /\ m \in BOOLEAN
  BY DEF Quiet, CardType
<1>. HIDE DEF m
<1>2. /\ free \in CardType /\ free.misused = c.misused /\ free.phase = c.phase
      /\ free.kind = c.kind /\ free.blklen = c.blklen /\ free.out = <<>>
  BY <1>1 DEF CardType, Quiet
<1>3. PICK y \in Answers(free, cmd, arg), l \in BOOLEAN : x = [y EXCEPT !.late = l]
  BY DEF Commanded, m
<1>. HIDE DEF free
<1>4. SectorOf(free, arg) = SectorOf(c, arg)
  BY <1>2 DEF SectorOf
<1>5. Kept(free, cmd, arg, y)
  BY <1>2, <1>4, Answering
<1>6. /\ x \in CardType /\ x.misused = y.misused /\ x.kind = y.kind /\ x.blklen = y.blklen
      /\ x.phase = y.phase /\ x.out = y.out /\ x.sector = y.sector
  BY <1>3, <1>5 DEF CardType, Kept
<1>. QED BY <1>2, <1>4, <1>5, <1>6 DEF Kept, Said

\* Reading takes bytes off what the card sends and nothing else.
Taken(g, c, n, r) ==
    /\ r.card \in CardType /\ r.card.misused = c.misused /\ r.card.kind = c.kind
    /\ r.card.blklen = c.blklen /\ r.card.phase = c.phase /\ r.card.late = c.late
    /\ r.card.sector = c.sector /\ r.card.in = c.in
    /\ ~c.late /\ Wired /\ Selected(g) =>
          /\ \A i \in 1..n : r.data[i] = IF i <= Len(c.out) THEN c.out[i] ELSE 255
          /\ r.card.out = SubSeq(c.out, n + 1, Len(c.out))
    /\ c.late \/ ~Wired => \A i \in 1..n : r.data[i] = 255
    /\ ~Wired => r.card = c

LEMMA ReadingTakes ==
    ASSUME NEW g, NEW c \in CardType, NEW n \in Nat, spi \in spi_t
    PROVE  Taken(g, c, n, sd_read_data(g, c, n))
<1>. DEFINE r == sd_read_data(g, c, n)
            o == SubSeq(c.out, n + 1, Len(c.out))
<1>1. Running(Reading(n))
  BY SpiReads DEF Reading
<1>2. c.out \in Seq(Bytes) /\ Len(c.out) \in Nat
  BY DEF CardType
<1>3. o \in Seq(Bytes)
  <2>1. \A i \in (n + 1)..Len(c.out) : c.out[i] \in Bytes
    BY <1>2
  <2>. QED BY <1>2, <2>1, SubSeqProperties
<1>. HIDE DEF o
<1>4. CASE c.late \/ ~Heard(g, Reading(n))
  BY <1>1, <1>4 DEF sd_read_data, Heard, Taken
<1>5. CASE ~c.late /\ Heard(g, Reading(n))
  <2>1. /\ r.data = [i \in 1..n |-> IF i <= Len(c.out) THEN c.out[i] ELSE 255]
        /\ r.card = [c EXCEPT !.out = o]
    BY <1>5 DEF sd_read_data, o
  <2>2. Wired
    BY <1>5 DEF Heard
  <2>. HIDE DEF r
  <2>3. /\ r.card \in CardType /\ r.card.misused = c.misused /\ r.card.kind = c.kind
        /\ r.card.blklen = c.blklen /\ r.card.phase = c.phase /\ r.card.late = c.late
        /\ r.card.sector = c.sector /\ r.card.in = c.in /\ r.card.out = o
    BY <1>3, <2>1 DEF CardType
  <2>. QED BY <1>5, <2>1, <2>2, <2>3 DEF o, r, Taken
<1>. QED BY <1>4, <1>5

\* The answer to a command: a zero was said by the card.
Responded(g, c, r) ==
    /\ r.card \in CardType /\ r.card.misused = c.misused /\ r.card.kind = c.kind
    /\ r.card.blklen = c.blklen /\ r.card.phase = c.phase /\ ~r.card.late
    /\ r.card.sector = c.sector /\ r.card.in = c.in
    /\ r.result # 255 => Wired
    /\ r.result = 0 /\ Selected(g) => Said(c) /\ r.card.out = SubSeq(c.out, 2, Len(c.out))
    /\ ~Wired => r.card.out = c.out

LEMMA Responding ==
    ASSUME NEW g, NEW c \in CardType, spi \in spi_t
    PROVE  Responded(g, c, sd_get_response_R1(g, c))
<1>. DEFINE f == sd_read_data(g, c, 1)
            r == sd_get_response_R1(g, c)
<1>1. Taken(g, c, 1, f)
  BY ReadingTakes
<1>2. r.result = f.data[1] /\ r.card = [f.card EXCEPT !.late = FALSE]
  BY DEF sd_get_response_R1
<1>. HIDE DEF f, r
<1>3. /\ r.card \in CardType /\ r.card.misused = c.misused /\ r.card.kind = c.kind
      /\ r.card.blklen = c.blklen /\ r.card.phase = c.phase /\ ~r.card.late
      /\ r.card.sector = c.sector /\ r.card.in = c.in /\ r.card.out = f.card.out
  <2>. DEFINE k == f.card
  <2>1. k \in CardType
    BY <1>1 DEF Taken
  <2>. HIDE DEF k
  <2>2. LET q == [k EXCEPT !.late = FALSE]
        IN  /\ q \in CardType /\ q.misused = k.misused /\ q.kind = k.kind
            /\ q.blklen = k.blklen /\ q.phase = k.phase /\ ~q.late
            /\ q.sector = k.sector /\ q.in = k.in /\ q.out = k.out
    BY <2>1 DEF CardType
  <2>. QED BY <1>1, <1>2, <2>2 DEF Taken, k
<1>4. c.late \/ ~Wired => r.result = 255
  BY <1>1, <1>2 DEF Taken
<1>5. ASSUME r.result = 0, Selected(g) PROVE Said(c) /\ r.card.out = SubSeq(c.out, 2, Len(c.out))
  <2>1. ~c.late /\ Wired
    BY <1>4, <1>5
  <2>0. Len(c.out) \in Nat
    BY DEF CardType
  <2>2. f.data[1] = IF 1 <= Len(c.out) THEN c.out[1] ELSE 255
    BY <1>1, <1>5, <2>1 DEF Taken
  <2>3. c.out[1] = 0 /\ Len(c.out) >= 1
    <3>1. f.data[1] = 0
      BY <1>2, <1>5
    <3>2. 1 <= Len(c.out)
      BY <2>2, <3>1
    <3>. QED BY <2>0, <2>2, <3>1, <3>2
  <2>4. c.out # <<>>
    BY <2>3
  <2>. QED BY <1>1, <1>3, <1>5, <2>1, <2>3, <2>4 DEF Said, Taken
<1>. QED BY <1>1, <1>3, <1>4, <1>5 DEF r, Taken, Responded

LEMMA SelectedLow ==
    ASSUME gpiohs \in [output_en : SUBSET {7}, input_en : SUBSET {7}, output_val : SUBSET {7}]
    PROVE  /\ SD_CS_LOW(gpiohs) \in [output_en : SUBSET {7}, input_en : SUBSET {7},
                                     output_val : SUBSET {7}]
           /\ SD_CS_HIGH(gpiohs) \in [output_en : SUBSET {7}, input_en : SUBSET {7},
                                      output_val : SUBSET {7}]
           /\ SD_CS_LOW(gpiohs).output_en = gpiohs.output_en
           /\ SD_CS_HIGH(gpiohs).output_en = gpiohs.output_en
           /\ 7 \in gpiohs.output_en => Selected(SD_CS_LOW(gpiohs))
BY DEF SD_CS_LOW, SD_CS_HIGH, Selected, gpiohs_set_pin, set_gpio_bit

\* Deselected, the card waits for a command.
LEMMA Deselecting ==
    ASSUME NEW c \in CardType
    PROVE  LET d == Deselected(c) IN
           /\ d \in CardType /\ Quiet(d) /\ ~d.late /\ d.misused = c.misused
           /\ d.kind = c.kind /\ d.blklen = c.blklen
<1>. DEFINE z == <<>>
<1>1. z \in Seq(Bytes)
  OBVIOUS
<1>2. Deselected(c) = [c EXCEPT !.out = z, !.late = FALSE, !.in = z, !.phase = "command"]
  BY DEF Deselected
<1>. HIDE DEF z
<1>3. LET d == [c EXCEPT !.out = z, !.late = FALSE, !.in = z, !.phase = "command"] IN
      /\ d \in CardType /\ d.out = z /\ d.phase = "command" /\ ~d.late
      /\ d.misused = c.misused /\ d.kind = c.kind /\ d.blklen = c.blklen
  BY <1>1 DEF CardType
<1>. QED BY <1>2, <1>3 DEF Quiet, z

\* A command with its answer, during the initialization or asking for the status.
Exchanged(c, cmd, arg, rest, o) ==
    /\ o.card \in CardType /\ Quiet(o.card) /\ ~o.card.misused /\ ~o.card.late
    /\ o.card.kind = c.kind
    /\ cmd # 16 => o.card.blklen = c.blklen
    /\ cmd = 16 /\ o.result = 0 => o.card.blklen = arg
    /\ o.result # 255 => Wired
    /\ cmd = 58 /\ rest = 4 /\ o.result = 0 => o.frame[1] = IF c.kind = "HC" THEN 192 ELSE 128

LEMMA Exchanging ==
    ASSUME NEW c \in CardType, Quiet(c), ~c.misused, ~c.late,
           NEW cmd \in Nat \ {17, 24}, NEW arg \in Nat, NEW rest \in Nat,
           medium \in [Sectors -> Blocks], spi \in spi_t,
           gpiohs \in [output_en : SUBSET {7}, input_en : SUBSET {7}, output_val : SUBSET {7}],
           7 \in gpiohs.output_en,
           NEW o \in Exchange(c, cmd, arg, rest)
    PROVE  Exchanged(c, cmd, arg, rest, o)
<1>. DEFINE g == SD_CS_LOW(gpiohs)
<1>1. PICK sent \in sd_send_cmd(c, cmd, arg) :
         LET r1   == sd_get_response_R1(g, sent)
             more == sd_read_data(g, r1.card, rest)
         IN  o = [result |-> r1.result, frame |-> more.data, card |-> sd_end_cmd(more.card)]
  BY DEF Exchange
<1>. DEFINE r1 == sd_get_response_R1(g, sent)
            more == sd_read_data(g, r1.card, rest)
<1>2. o.result = r1.result /\ o.frame = more.data /\ o.card = sd_end_cmd(more.card)
  BY <1>1
<1>3. Selected(g) /\ Running(Writing)
  BY SelectedLow, SpiWrites DEF Writing
<1>4. IF Wired THEN Kept(c, cmd, arg, sent) ELSE sent = c
  <2>1. CASE Wired
    <3>1. sent \in Commanded(c, cmd, arg)
      BY <1>3, <2>1 DEF sd_send_cmd, Heard
    <3>. QED BY <2>1, <3>1, Commanding
  <2>2. CASE ~Wired
    BY <2>2 DEF sd_send_cmd, Heard
  <2>. QED BY <2>1, <2>2
<1>5. sent \in CardType
  BY <1>4 DEF Kept
<1>. HIDE DEF g, r1
<1>6. Responded(g, sent, r1)
  BY <1>5, Responding DEF r1
<1>7. r1.card \in CardType
  BY <1>6 DEF Responded
<1>. HIDE DEF more
<1>8. Taken(g, r1.card, rest, more)
  BY <1>7, ReadingTakes DEF more
<1>9. CASE ~Wired
  <2>1. o.card = r1.card /\ r1.card.out = <<>> /\ r1.card.phase = "command" /\ o.result = 255
    BY <1>2, <1>4, <1>6, <1>8, <1>9 DEF sd_end_cmd, Taken, Responded, Quiet
  <2>. QED BY <1>4, <1>6, <1>9, <2>1 DEF Exchanged, Responded, Quiet
<1>10. CASE Wired
  <2>1. o.card = Deselected(more.card) /\ more.card \in CardType
    BY <1>2, <1>8, <1>10 DEF sd_end_cmd, Taken
  <2>2. /\ o.card \in CardType /\ Quiet(o.card) /\ ~o.card.late
        /\ o.card.misused = sent.misused /\ o.card.kind = sent.kind /\ o.card.blklen = sent.blklen
    BY <2>1, <1>6, <1>8, Deselecting DEF Taken, Responded
  <2>3. o.result = 0 => Said(sent) /\ r1.card.out = SubSeq(sent.out, 2, Len(sent.out))
    BY <1>2, <1>3, <1>6 DEF Responded, g
  <2>4. ASSUME cmd = 58, rest = 4, o.result = 0
        PROVE  o.frame[1] = IF c.kind = "HC" THEN 192 ELSE 128
    <3>1. /\ Len(sent.out) = 5 /\ sent.out[2] = IF c.kind = "HC" THEN 192 ELSE 128
          /\ sent.out \in Seq(Bytes)
      BY <1>4, <1>10, <2>3, <2>4 DEF Kept, CardType
    <3>2. r1.card.out = SubSeq(sent.out, 2, 5)
      BY <2>3, <2>4, <3>1
    <3>3. Len(r1.card.out) = 4 /\ r1.card.out[1] = sent.out[2]
      BY <3>1, <3>2
    <3>4. o.frame[1] = r1.card.out[1]
      BY <1>2, <1>3, <1>6, <1>8, <1>10, <2>4, <3>3 DEF Taken, Responded, g
    <3>. QED BY <3>1, <3>3, <3>4
  <2>. QED BY <1>4, <1>10, <2>2, <2>3, <2>4 DEF Exchanged, Kept
<1>. QED BY <1>9, <1>10

-----------------------------------------------------------------------------
(* From power-on to the first call.                                        *)

LEMMA SdInit == ASSUME Init PROVE SdInv
<1>1. spi \in spi_t
  BY DEF Init, spi_t
<1>2. dmac \in dmac_t /\ ~Chan.en
  <2>1. ResetChannel \in dmac_channel_t /\ ~ResetChannel.en
    BY DEF ResetChannel, dmac_channel_t
  <2>2. dmac = [dmac_en |-> FALSE, int_en |-> FALSE, channel |-> [c \in DmaChannels |-> ResetChannel]]
    BY DEF Init
  <2>. HIDE DEF ResetChannel
  <2>. QED BY <2>1, <2>2, ZeroIsChannel DEF dmac_t, Chan
<1>3. BoardType
  <2>1. gpiohs \in [output_en : SUBSET {7}, input_en : SUBSET {7}, output_val : SUBSET {7}]
    BY DEF Init
  <2>2. dma_sel \in [DmaChannels -> DmaSelects]
    BY DEF Init, DmaSelects
  <2>3. plic \in [priority : SUBSET {DISK_IRQ, UART_IRQ}, enabled : SUBSET {DISK_IRQ, UART_IRQ},
                  pending : BOOLEAN]
    BY DEF Init
  <2>4. moved \in [of : Tasks \cup {Nobody}, words : Nat]
    BY DEF Init
  <2>5. stage \in Stages /\ is_standard_sd \in BOOLEAN
    BY DEF Init, Stages, Early
  <2>. QED BY <1>1, <1>2, <2>1, <2>2, <2>3, <2>4, <2>5 DEF BoardType
<1>4. TaskType
  <2>1. NoBuffer \in Seq(Bytes)
    BY DEF NoBuffer
  <2>2. (CHOOSE b \in Blocks : TRUE) \in Blocks
    BY SdAssumption
  <2>. QED BY <2>1, <2>2 DEF Init, TaskType
<1>5. Booted
  BY DEF Init, Booted, Early, Talking
<1>6. Held
  BY <1>2 DEF Init, Held
<1>7. CardKept
  <2>. DEFINE z == <<>>
  <2>1. z \in Seq(Bytes) /\ 2 * BSIZE \in Nat
    BY SdAssumption
  <2>2. /\ card.out = z /\ card.phase = "command" /\ ~card.late /\ ~card.misused
    BY DEF Init
  <2>3. card \in CardType
    <3>. DEFINE n == 2 * BSIZE
    <3>1. card \in [mode : {"sd"}, app : {FALSE}, kind : {"SC", "HC"}, blklen : {n},
                 phase : {"command"}, out : {z}, late : {FALSE}, in : {z},
                 sector : {0}, misused : {FALSE}]
      BY DEF Init
    <3>2. n \in Nat
      BY <2>1
    <3>. HIDE DEF z, n
    <3>3. card.app \in BOOLEAN /\ card.late \in BOOLEAN /\ card.misused \in BOOLEAN
      BY <3>1, Zenon
    <3>. QED BY <2>1, <3>1, <3>2, <3>3 DEF CardType
  <2>. QED BY <2>2, <2>3 DEF CardKept, Quiet
<1>8. Transfers
  BY DEF Init, Transfers
<1>9. NoLostWakeup
  BY DEF Init, NoLostWakeup
<1>. QED BY <1>3, <1>4, <1>5, <1>6, <1>7, <1>8, <1>9 DEF SdInv

\* Before the first call no task is in one, and no transfer runs.
LEMMA BeforeCalls ==
    ASSUME SdInv, stage \notin {"up", "panic"}
    PROVE  /\ owner = Nobody /\ ~Chan.en
           /\ \A t \in Tasks : pc[t] = "none" /\ state[t] = "READY"
           /\ Quiet(card)
<1>1. owner = Nobody /\ \A t \in Tasks : pc[t] = "none"
  BY DEF SdInv, Held
<1>2. ~Chan.en
  BY DEF SdInv, Held
<1>3. \A t \in Tasks : state[t] = "READY"
  BY <1>1 DEF SdInv, NoLostWakeup, TaskType
<1>4. Quiet(card)
  BY <1>1 DEF SdInv, CardKept
<1>. QED BY <1>1, <1>2, <1>3, <1>4

LEMMA WiredStays == ASSUME UNCHANGED io PROVE Wired' <=> Wired
BY DEF Wired, Carries

\* A step that starts no call, as long as the tasks are none of its business.
LEMMA Booting ==
    ASSUME SdInv, stage \notin {"up", "panic"}, UNCHANGED tasks, UNCHANGED medium,
           BoardType', Booted', ~Chan'.en, card' \in CardType, Quiet(card'),
           ~card'.misused, ~card'.late
    PROVE  SdInv'
<1>1. /\ owner = Nobody /\ ~Chan.en
      /\ \A t \in Tasks : pc[t] = "none" /\ state[t] = "READY"
  BY BeforeCalls
<1>2. TaskType'
  BY DEF SdInv, TaskType, tasks
<1>3. Held'
  BY <1>1, SdAssumption DEF SdInv, Held, tasks
<1>4. CardKept'
  BY DEF CardKept
<1>5. Transfers'
  BY <1>1 DEF Transfers, tasks
<1>6. NoLostWakeup'
  BY <1>1 DEF NoLostWakeup, tasks
<1>. QED BY <1>2, <1>3, <1>4, <1>5, <1>6 DEF SdInv

LEMMA PlicInitStep == ASSUME SdInv, PlicInit PROVE SdInv'
<1>1. stage = "plic" /\ stage' = "pins"
  BY DEF PlicInit, Stage
<1>2. ~Chan.en /\ Quiet(card)
  BY <1>1, BeforeCalls
<1>3. UNCHANGED <<pins, on, dma, spi, card, medium, left, is_standard_sd, tasks>>
  BY DEF PlicInit
<1>4. BoardType'
  <2>1. plic' \in [priority : SUBSET {DISK_IRQ, UART_IRQ}, enabled : SUBSET {DISK_IRQ, UART_IRQ},
                   pending : BOOLEAN]
    BY DEF PlicInit, SdInv, BoardType
  <2>2. stage' \in Stages
    BY <1>1 DEF Stages, Early
  <2>. QED BY <1>3, <2>1, <2>2 DEF SdInv, BoardType, pins, dma
<1>5. DISK_IRQ \in plic'.priority
  BY DEF PlicInit, SdInv, BoardType
<1>6. Booted'
  BY <1>1, <1>3, <1>5 DEF Booted, Early, Talking
<1>7. UNCHANGED tasks /\ UNCHANGED medium /\ ~Chan'.en
  BY <1>2, <1>3 DEF dma, Chan
<1>8. card' \in CardType /\ Quiet(card') /\ ~card'.misused /\ ~card'.late
  BY <1>2, <1>3 DEF SdInv, CardKept
<1>. QED BY <1>1, <1>4, <1>6, <1>7, <1>8, Booting

LEMMA PinInitStep == ASSUME SdInv, PinInit PROVE SdInv'
<1>1. stage = "pins" /\ stage' = "dmac"
  BY DEF PinInit, Stage
<1>2. ~Chan.en /\ Quiet(card)
  BY <1>1, BeforeCalls
<1>3. UNCHANGED <<gpiohs, on, plic, dma, spi, card, medium, left, is_standard_sd, tasks>>
  BY DEF PinInit
<1>4. BoardType'
  <2>2. stage' \in Stages
    BY <1>1 DEF Stages, Early
  <2>. QED BY <1>3, <2>2 DEF SdInv, BoardType, dma
<1>6. Booted'
  BY <1>1, <1>3 DEF Booted, Early, Talking, SdInv
<1>7. UNCHANGED tasks /\ UNCHANGED medium /\ ~Chan'.en
  BY <1>2, <1>3 DEF dma, Chan
<1>8. card' \in CardType /\ Quiet(card') /\ ~card'.misused /\ ~card'.late
  BY <1>2, <1>3 DEF SdInv, CardKept
<1>. QED BY <1>1, <1>4, <1>6, <1>7, <1>8, Booting

LEMMA DmacInitialized ==
    ASSUME NEW d \in dmac_t
    PROVE  dmac_init(d) \in dmac_t /\ ~dmac_init(d).channel[Channel0].en
<1>. DEFINE off == dmac_disable(d)
            chans == [c \in DmaChannels |->
                        IF c < 4 THEN [off.channel[c] EXCEPT !.en = FALSE] ELSE off.channel[c]]
            e == [off EXCEPT !.channel = chans]
<1>1. off \in dmac_t
  BY DEF dmac_t, dmac_disable
<1>2. dmac_init(d) = dmac_enable(e)
  BY <1>1 DEF dmac_init, dmac_t
<1>. HIDE DEF off
<1>3. chans \in [DmaChannels -> dmac_channel_t] /\ ~chans[Channel0].en
  <2>1. ASSUME NEW c \in DmaChannels
        PROVE  /\ off.channel[c] \in dmac_channel_t
               /\ [off.channel[c] EXCEPT !.en = FALSE] \in dmac_channel_t
               /\ ~[off.channel[c] EXCEPT !.en = FALSE].en
    <3>1. off.channel[c] \in dmac_channel_t
      BY <1>1 DEF dmac_t
    <3>. QED BY <3>1 DEF dmac_channel_t
  <2>2. Channel0 \in DmaChannels /\ Channel0 < 4
    BY ZeroIsChannel DEF Channel0
  <2>. QED BY <2>1, <2>2
<1>. HIDE DEF chans
<1>4. e \in dmac_t /\ e.channel = chans
  BY <1>1, <1>3 DEF dmac_t
<1>. HIDE DEF e
<1>5. dmac_enable(e) \in dmac_t /\ dmac_enable(e).channel = chans
  BY <1>4 DEF dmac_t, dmac_enable
<1>. QED BY <1>2, <1>3, <1>5

LEMMA DmacInitStep == ASSUME SdInv, DmacInit PROVE SdInv'
<1>1. stage = "dmac" /\ stage' = "lowlevel"
  BY DEF DmacInit, Stage
<1>2. ~Chan.en /\ Quiet(card)
  BY <1>1, BeforeCalls
<1>3. UNCHANGED <<pins, plic, dma_sel, moved, spi, card, medium, left, is_standard_sd, tasks>>
  BY DEF DmacInit
<1>4. dmac' \in dmac_t /\ ~Chan'.en
  BY DmacInitialized DEF DmacInit, SdInv, BoardType, Chan
<1>5. BoardType'
  <2>2. stage' \in Stages
    BY <1>1 DEF Stages, Early
  <2>. QED BY <1>3, <1>4, <2>2 DEF SdInv, BoardType, pins
<1>6. Booted'
  BY <1>1, <1>3 DEF Booted, Early, Talking, SdInv
<1>7. UNCHANGED tasks /\ UNCHANGED medium
  BY <1>3
<1>8. card' \in CardType /\ Quiet(card') /\ ~card'.misused /\ ~card'.late
  BY <1>2, <1>3 DEF SdInv, CardKept
<1>. QED BY <1>1, <1>4, <1>5, <1>6, <1>7, <1>8, Booting

LEMMA SdLowlevelStep == ASSUME SdInv, SdLowlevel PROVE SdInv'
<1>1. stage = "lowlevel" /\ stage' = "cmd0"
  BY DEF SdLowlevel, Stage
<1>2. ~Chan.en /\ Quiet(card)
  BY <1>1, BeforeCalls
<1>3. UNCHANGED <<on, plic, dma, card, medium, is_standard_sd, tasks>>
  BY DEF SdLowlevel
<1>4. /\ gpiohs' \in [output_en : SUBSET {7}, input_en : SUBSET {7}, output_val : SUBSET {7}]
      /\ 7 \in gpiohs'.output_en
  <2>. DEFINE h == [gpiohs EXCEPT !.output_en = gpiohs.output_en \cup {7},
                                  !.input_en = gpiohs.input_en \ {7}]
  <2>1. gpiohs \in [output_en : SUBSET {7}, input_en : SUBSET {7}, output_val : SUBSET {7}]
    BY DEF SdInv, BoardType
  <2>2. gpiohs' = SD_CS_LOW(h)
    BY <2>1 DEF SdLowlevel, gpiohs_set_drive_mode, set_gpio_bit
  <2>3. h \in [output_en : SUBSET {7}, input_en : SUBSET {7}, output_val : SUBSET {7}]
        /\ 7 \in h.output_en
    BY <2>1
  <2>. HIDE DEF h
  <2>. QED BY <2>2, <2>3 DEF SD_CS_LOW, gpiohs_set_pin, set_gpio_bit
<1>5. spi' \in spi_t
  BY SpiWrites, SpiStops DEF SdLowlevel, SdInv, BoardType, Writing
<1>6. BoardType'
  <2>2. stage' \in Stages
    BY <1>1 DEF Stages, Early
  <2>. QED BY <1>3, <1>4, <1>5, <2>2 DEF SdInv, BoardType, dma
<1>7. Booted'
  BY <1>1, <1>3, <1>4 DEF Booted, Early, Talking, SdInv
<1>8. UNCHANGED tasks /\ UNCHANGED medium /\ ~Chan'.en
  BY <1>2, <1>3 DEF dma, Chan
<1>9. card' \in CardType /\ Quiet(card') /\ ~card'.misused /\ ~card'.late
  BY <1>2, <1>3 DEF SdInv, CardKept
<1>. QED BY <1>1, <1>6, <1>7, <1>8, <1>9, Booting

LEMMA FailsStep ==
    ASSUME SdInv, stage \notin Early \cup {"up", "panic"}, Fails
    PROVE  SdInv'
<1>1. stage' = "panic" /\ UNCHANGED <<pins, on, plic, dma, spi, card, medium, is_standard_sd, tasks>>
  BY DEF Fails
<1>2. ~Chan.en /\ Quiet(card)
  BY BeforeCalls
<1>3. BoardType'
  BY <1>1 DEF SdInv, BoardType, pins, dma, Stages
<1>4. Booted'
  BY <1>1 DEF Booted, Early, Talking, SdInv, pins
<1>5. UNCHANGED tasks /\ UNCHANGED medium /\ ~Chan'.en
  BY <1>1, <1>2 DEF dma, Chan
<1>6. card' \in CardType /\ Quiet(card') /\ ~card'.misused /\ ~card'.late
  BY <1>1, <1>2 DEF SdInv, CardKept
<1>. QED BY <1>3, <1>4, <1>5, <1>6, Booting

LEMMA Proceeding ==
    ASSUME SdInv, stage \notin Early \cup {"up", "panic"},
           NEW next \in Talking \cup {"cmd0", "panic"}, NEW tries, Proceed(next, tries),
           is_standard_sd' \in BOOLEAN,
           card' \in CardType, Quiet(card'), ~card'.misused, ~card'.late,
           next \in Talking => Wired,
           next = "cmd16" => card'.kind = "SC",
           next = "up" => IF is_standard_sd' THEN card'.kind = "SC" /\ card'.blklen = BSIZE
                          ELSE card'.kind = "HC"
    PROVE  SdInv'
<1>1. /\ stage' = next /\ spi' = Stopped(Reading(1)) /\ gpiohs' = SD_CS_HIGH(gpiohs)
      /\ UNCHANGED <<io, on, plic, dma, medium, tasks>>
  BY DEF Proceed
<1>2. ~Chan'.en
  BY <1>1, BeforeCalls DEF Chan, dma
<1>3. spi' \in spi_t
  BY <1>1, SpiReads, SpiStops DEF Reading, SdInv, BoardType
<1>4. /\ gpiohs' \in [output_en : SUBSET {7}, input_en : SUBSET {7}, output_val : SUBSET {7}]
      /\ 7 \in gpiohs'.output_en
  BY <1>1, SelectedLow DEF SdInv, BoardType, Booted
<1>5. BoardType'
  <2>1. next \in Stages
    BY DEF Stages
  <2>. QED BY <1>1, <1>3, <1>4, <2>1 DEF SdInv, BoardType, dma
<1>6. Booted'
  BY <1>1, <1>4, WiredStays DEF Booted, Early, Talking, SdInv
<1>. QED BY <1>1, <1>2, <1>5, <1>6, Booting

\* A command of the initialization.
LEMMA Asked ==
    ASSUME SdInv, stage \notin Early \cup {"up", "panic"},
           NEW c \in CardType, Quiet(c), ~c.misused, ~c.late,
           NEW cmd \in Nat \ {17, 24}, NEW arg \in Nat, NEW rest \in Nat,
           NEW o \in Exchange(c, cmd, arg, rest)
    PROVE  Exchanged(c, cmd, arg, rest, o)
<1>1. /\ medium \in [Sectors -> Blocks] /\ spi \in spi_t /\ 7 \in gpiohs.output_en
      /\ gpiohs \in [output_en : SUBSET {7}, input_en : SUBSET {7}, output_val : SUBSET {7}]
  BY DEF SdInv, BoardType, TaskType, Booted
<1>. QED BY <1>1, Exchanging

LEMMA CardIdle ==
    ASSUME SdInv, stage \notin {"up", "panic"}
    PROVE  card \in CardType /\ Quiet(card) /\ ~card.misused /\ ~card.late
BY BeforeCalls DEF SdInv, CardKept

LEMMA SwitchStep == ASSUME SdInv, switch_to_SPI_mode PROVE SdInv'
<1>1. stage = "cmd0" /\ stage \notin Early \cup {"up", "panic"}
  BY DEF switch_to_SPI_mode, Early
<1>2. CASE Fails
  BY <1>1, <1>2, FailsStep
<1>3. CASE ~Fails
  <2>1. PICK o \in Exchange(card, 0, 0, 0) :
          /\ card' = o.card
          /\ IF o.result = 1 THEN Proceed("cmd8", Tries) ELSE Proceed("cmd0", left - 1)
    BY <1>3 DEF switch_to_SPI_mode
  <2>2. Exchanged(card, 0, 0, 0, o)
    BY <1>1, CardIdle, Asked
  <2>3. card' \in CardType /\ Quiet(card') /\ ~card'.misused /\ ~card'.late
    BY <2>1, <2>2 DEF Exchanged
  <2>4. is_standard_sd' \in BOOLEAN
    BY <1>3 DEF switch_to_SPI_mode, SdInv, BoardType
  <2>5. CASE o.result = 1
    <3>1. Proceed("cmd8", Tries) /\ Wired /\ "cmd8" \in Talking
      BY <2>1, <2>2, <2>5 DEF Exchanged, Talking
    <3>. QED BY <1>1, <2>3, <2>4, <3>1, Proceeding
  <2>6. CASE o.result # 1
    <3>1. Proceed("cmd0", left - 1) /\ "cmd0" \notin Talking
      BY <2>1, <2>6 DEF Talking
    <3>. QED BY <1>1, <2>3, <2>4, <3>1, Proceeding
  <2>. QED BY <2>5, <2>6
<1>. QED BY <1>2, <1>3

LEMMA VerifyStep == ASSUME SdInv, verify_operation_condition PROVE SdInv'
<1>1. stage = "cmd8" /\ stage \notin Early \cup {"up", "panic"}
  BY DEF verify_operation_condition, Early
<1>2. PICK o \in Exchange(card, 8, 426, 4) :
        card' = o.card /\ (Proceed("ocr", Tries) \/ Proceed("panic", left))
  BY DEF verify_operation_condition
<1>3. Exchanged(card, 8, 426, 4, o)
  BY <1>1, CardIdle, Asked
<1>4. card' \in CardType /\ Quiet(card') /\ ~card'.misused /\ ~card'.late
  BY <1>2, <1>3 DEF Exchanged
<1>5. is_standard_sd' \in BOOLEAN
  BY DEF verify_operation_condition, SdInv, BoardType
<1>6. Wired /\ "ocr" \in Talking /\ "panic" \notin Talking
  BY <1>1 DEF SdInv, Booted, Talking
<1>7. CASE Proceed("ocr", Tries)
  BY <1>1, <1>4, <1>5, <1>6, <1>7, Proceeding
<1>8. CASE Proceed("panic", left)
  BY <1>1, <1>4, <1>5, <1>6, <1>8, Proceeding
<1>. QED BY <1>2, <1>7, <1>8

LEMMA OcrStep == ASSUME SdInv, read_OCR PROVE SdInv'
<1>1. stage = "ocr" /\ stage \notin Early \cup {"up", "panic"}
  BY DEF read_OCR, Early
<1>2. CASE Fails
  BY <1>1, <1>2, FailsStep
<1>3. CASE ~Fails
  <2>1. PICK o \in Exchange(card, 58, 0, 4) :
          card' = o.card /\ (Proceed("acmd41", Tries) \/ Proceed("ocr", left - 1))
    BY <1>3 DEF read_OCR
  <2>2. Exchanged(card, 58, 0, 4, o)
    BY <1>1, CardIdle, Asked
  <2>3. card' \in CardType /\ Quiet(card') /\ ~card'.misused /\ ~card'.late
    BY <2>1, <2>2 DEF Exchanged
  <2>4. is_standard_sd' \in BOOLEAN
    BY <1>3 DEF read_OCR, SdInv, BoardType
  <2>5. Wired /\ "ocr" \in Talking /\ "acmd41" \in Talking
    BY <1>1 DEF SdInv, Booted, Talking
  <2>6. CASE Proceed("acmd41", Tries)
    BY <1>1, <2>3, <2>4, <2>5, <2>6, Proceeding
  <2>7. CASE Proceed("ocr", left - 1)
    BY <1>1, <2>3, <2>4, <2>5, <2>7, Proceeding
  <2>. QED BY <2>1, <2>6, <2>7
<1>. QED BY <1>2, <1>3

LEMMA CapacityStep == ASSUME SdInv, set_SDXC_capacity PROVE SdInv'
<1>1. stage = "acmd41" /\ stage \notin Early \cup {"up", "panic"}
  BY DEF set_SDXC_capacity, Early
<1>2. CASE Fails
  BY <1>1, <1>2, FailsStep
<1>3. CASE ~Fails
  <2>1. PICK o \in Exchange(card, 55, 0, 0) :
          \/ card' = o.card /\ Proceed("panic", left)
          \/ \E a \in Exchange(o.card, 41, 1073741824, 0) :
                card' = a.card /\ (Proceed("block", Tries) \/ Proceed("acmd41", left - 1))
    BY <1>3 DEF set_SDXC_capacity
  <2>2. Exchanged(card, 55, 0, 0, o)
    BY <1>1, CardIdle, Asked
  <2>3. o.card \in CardType /\ Quiet(o.card) /\ ~o.card.misused /\ ~o.card.late
    BY <2>2 DEF Exchanged
  <2>4. is_standard_sd' \in BOOLEAN
    BY <1>3 DEF set_SDXC_capacity, SdInv, BoardType
  <2>5. Wired /\ "block" \in Talking /\ "acmd41" \in Talking /\ "panic" \notin Talking
    BY <1>1 DEF SdInv, Booted, Talking
  <2>6. CASE card' = o.card /\ Proceed("panic", left)
    BY <1>1, <2>3, <2>4, <2>5, <2>6, Proceeding
  <2>7. ASSUME NEW a \in Exchange(o.card, 41, 1073741824, 0), card' = a.card,
               Proceed("block", Tries) \/ Proceed("acmd41", left - 1)
        PROVE  SdInv'
    <3>1. Exchanged(o.card, 41, 1073741824, 0, a)
      BY <1>1, <2>3, Asked
    <3>2. card' \in CardType /\ Quiet(card') /\ ~card'.misused /\ ~card'.late
      BY <2>7, <3>1 DEF Exchanged
    <3>3. CASE Proceed("block", Tries)
      BY <1>1, <3>2, <2>4, <2>5, <3>3, Proceeding
    <3>4. CASE Proceed("acmd41", left - 1)
      BY <1>1, <3>2, <2>4, <2>5, <3>4, Proceeding
    <3>. QED BY <2>7, <3>3, <3>4
  <2>. QED BY <2>1, <2>6, <2>7
<1>. QED BY <1>2, <1>3

\* The kind of card that the addresses of the calls will be computed for.
LEMMA BlockSizeStep == ASSUME SdInv, check_block_size PROVE SdInv'
<1>1. stage \in {"block", "cmd16"} /\ stage \notin Early \cup {"up", "panic"}
  BY DEF check_block_size, Early
<1>2. Wired /\ {"block", "cmd16", "up"} \subseteq Talking
  BY <1>1 DEF SdInv, Booted, Talking
<1>3. CASE Fails
  BY <1>1, <1>3, FailsStep
<1>4. CASE ~Fails /\ stage = "block"
  <2>1. PICK o \in Exchange(card, 58, 0, 4) :
          /\ card' = o.card
          /\ CASE o.result # 0 -> Proceed("block", left - 1) /\ UNCHANGED is_standard_sd
               [] o.result = 0 /\ (o.frame[1] \div 64) % 2 = 1 ->
                     Proceed("up", Tries) /\ is_standard_sd' = FALSE
               [] OTHER -> Proceed("cmd16", Tries) /\ UNCHANGED is_standard_sd
    BY <1>4 DEF check_block_size
  <2>2. Exchanged(card, 58, 0, 4, o)
    BY <1>1, CardIdle, Asked
  <2>3. card' \in CardType /\ Quiet(card') /\ ~card'.misused /\ ~card'.late
    BY <2>1, <2>2 DEF Exchanged
  <2>4. CASE o.result # 0
    <3>1. Proceed("block", left - 1) /\ is_standard_sd' \in BOOLEAN
      BY <2>1, <2>4 DEF SdInv, BoardType
    <3>. QED BY <1>1, <1>2, <2>3, <3>1, Proceeding
  <2>5. ASSUME o.result = 0
        PROVE  o.frame[1] = IF card'.kind = "HC" THEN 192 ELSE 128
    BY <2>1, <2>2, <2>5 DEF Exchanged
  <2>6. CASE o.result = 0 /\ (o.frame[1] \div 64) % 2 = 1
    <3>1. Proceed("up", Tries) /\ is_standard_sd' = FALSE
      BY <2>1, <2>6
    <3>2. card'.kind = "HC"
      BY <2>5, <2>6
    <3>. QED BY <1>1, <1>2, <2>3, <3>1, <3>2, Proceeding
  <2>7. CASE o.result = 0 /\ (o.frame[1] \div 64) % 2 # 1
    <3>1. Proceed("cmd16", Tries) /\ is_standard_sd' \in BOOLEAN
      BY <2>1, <2>7 DEF SdInv, BoardType
    <3>2. card'.kind = "SC"
      BY <2>3, <2>5, <2>7 DEF CardType
    <3>. QED BY <1>1, <1>2, <2>3, <3>1, <3>2, Proceeding
  <2>. QED BY <2>4, <2>6, <2>7
<1>5. CASE ~Fails /\ stage = "cmd16"
  <2>1. PICK o \in Exchange(card, 16, BSIZE, 0) :
          /\ card' = o.card
          /\ IF o.result = 0 THEN Proceed("up", Tries) /\ is_standard_sd' = TRUE
             ELSE Proceed("cmd16", left - 1) /\ UNCHANGED is_standard_sd
    BY <1>5 DEF check_block_size
  <2>2. Exchanged(card, 16, BSIZE, 0, o)
    BY <1>1, CardIdle, Asked, SdAssumption
  <2>3. /\ card' \in CardType /\ Quiet(card') /\ ~card'.misused /\ ~card'.late
        /\ card'.kind = "SC"
    BY <1>5, <2>1, <2>2 DEF Exchanged, SdInv, Booted
  <2>4. CASE o.result = 0
    <3>1. Proceed("up", Tries) /\ is_standard_sd' = TRUE /\ card'.blklen = BSIZE
      BY <2>1, <2>2, <2>4 DEF Exchanged
    <3>. QED BY <1>1, <1>2, <2>3, <3>1, Proceeding
  <2>5. CASE o.result # 0
    <3>1. Proceed("cmd16", left - 1) /\ is_standard_sd' \in BOOLEAN
      BY <2>1, <2>5 DEF SdInv, BoardType
    <3>. QED BY <1>1, <1>2, <2>3, <3>1, Proceeding
  <2>. QED BY <2>4, <2>5
<1>. QED BY <1>1, <1>3, <1>4, <1>5

-----------------------------------------------------------------------------
(* Calls.                                                                  *)

Same(u) == /\ UNCHANGED <<moved, gpiohs, spi, card, medium, stage, is_standard_sd>>
           /\ bounce'[u] = bounce[u] /\ call'[u] = call[u] /\ pc'[u] = pc[u]
           /\ Chan'.en = Chan.en /\ Chan'.block_ts = Chan.block_ts /\ Chan'.tt_fc = Chan.tt_fc
           /\ Chan'.sinc = Chan.sinc /\ Chan'.dinc = Chan.dinc

\* What a transfer rests on.
Transfer(u) ==
    /\ pc[u] = "dma" => Setup(u)
    /\ pc[u] = "dma" /\ call[u].op = "read" => Reads(u)
    /\ pc[u] = "dma" /\ call[u].op = "write" => Writes(u)
    /\ pc[u] = "status" => call[u].op = "write" /\ medium[call[u].sector] = call[u].data

LEMMA SameTransfer == ASSUME NEW u \in Tasks, Same(u), Transfer(u) PROVE Transfer(u)'
<1>1. Setup(u) => Setup(u)'
  BY DEF Same, Setup, Selected, Running
<1>2. Reads(u) => Reads(u)'
  BY DEF Same, Reads
<1>3. Writes(u) => Writes(u)'
  BY DEF Same, Writes
<1>. QED BY <1>1, <1>2, <1>3 DEF Same, Transfer

LEMMA ByTask == Transfers <=> (stage = "up" => \A u \in Tasks : Transfer(u))
BY DEF Transfers, Transfer

LEMMA BeginStep == ASSUME SdInv, NEW t \in Tasks, Begin(t) PROVE SdInv'
<1>1. /\ stage = "up" /\ call[t] = NoCall /\ pc[t] = "none"
      /\ pc' = [pc EXCEPT ![t] = "lock"]
      /\ UNCHANGED <<pins, on, plic, dma, spi, card, medium, boot, owner, state, bounce, got>>
  BY DEF Begin, SdInv, Held
<1>2. PICK c \in Calls : call' = [call EXCEPT ![t] = c]
  BY DEF Begin
<1>3. c # NoCall
  BY CallAssumption
<1>4. \A u \in Tasks : u # t => pc'[u] = pc[u] /\ call'[u] = call[u]
  BY <1>1, <1>2 DEF SdInv, TaskType
<1>5. pc'[t] = "lock" /\ call'[t] = c
  BY <1>1, <1>2 DEF SdInv, TaskType
<1>6. BoardType'
  BY <1>1 DEF SdInv, BoardType, pins, dma, boot
<1>7. TaskType'
  BY <1>1, <1>2 DEF SdInv, TaskType
<1>8. Booted'
  BY <1>1, WiredStays DEF SdInv, Booted, pins, boot
<1>9. Held'
  BY <1>1, <1>3, <1>4, <1>5 DEF SdInv, Held, Chan, dma, boot
<1>10. CardKept'
  BY <1>1, <1>4, <1>5 DEF SdInv, CardKept, boot
<1>11. Transfers'
  <2>1. ASSUME NEW u \in Tasks PROVE Transfer(u)'
    <3>1. CASE u = t
      BY <1>5, <3>1 DEF Transfer
    <3>2. CASE u # t
      <4>1. Same(u)
        BY <1>1, <1>4, <3>2 DEF Same, Chan, dma, pins, boot
      <4>2. Transfer(u)
        BY <1>1, ByTask DEF SdInv
      <4>. QED BY <4>1, <4>2, SameTransfer
    <3>. QED BY <3>1, <3>2
  <2>. QED BY <2>1 DEF Transfers, Transfer
<1>12. NoLostWakeup'
  BY <1>1, <1>4, <1>5 DEF SdInv, NoLostWakeup, TaskType, dma
<1>. QED BY <1>6, <1>7, <1>8, <1>9, <1>10, <1>11, <1>12 DEF SdInv

\* A step that changes only which tasks sleep.
LEMMA Scheduling ==
    ASSUME SdInv, stage = "up", state' \in [Tasks -> {"READY", "SLEEPING"}], NoLostWakeup',
           UNCHANGED <<pins, on, plic, dma, spi, card, medium, boot, owner, pc, call, bounce, got>>
    PROVE  SdInv'
<1>1. BoardType'
  BY DEF SdInv, BoardType, pins, dma, boot
<1>2. TaskType'
  BY DEF SdInv, TaskType
<1>3. Booted'
  BY WiredStays DEF SdInv, Booted, pins, boot
<1>4. Held'
  BY DEF SdInv, Held, Chan, dma, boot
<1>5. CardKept'
  BY DEF SdInv, CardKept, boot
<1>6. Transfers'
  <2>1. ASSUME NEW u \in Tasks PROVE Transfer(u)'
    <3>1. Same(u)
      BY DEF Same, Chan, dma, pins, boot
    <3>2. Transfer(u)
      BY ByTask DEF SdInv
    <3>. QED BY <3>1, <3>2, SameTransfer
  <2>. QED BY <2>1 DEF Transfers, Transfer
<1>. QED BY <1>1, <1>2, <1>3, <1>4, <1>5, <1>6 DEF SdInv

LEMMA SleepsStep == ASSUME SdInv, NEW t \in Tasks, Sleeps(t) PROVE SdInv'
<1>1. /\ stage = "up" /\ state' = [state EXCEPT ![t] = "SLEEPING"]
      /\ UNCHANGED <<pins, on, plic, dma, spi, card, medium, boot, owner, pc, call, bounce, got>>
      /\ \/ pc[t] = "lock" /\ owner # Nobody
         \/ pc[t] = "dma" /\ Chan.en
  BY DEF Sleeps, At, Chan, dmac_is_idle
<1>2. state' \in [Tasks -> {"READY", "SLEEPING"}]
  BY <1>1 DEF SdInv, TaskType
<1>3. NoLostWakeup'
  BY <1>1 DEF SdInv, NoLostWakeup, TaskType, Chan, dma
<1>. QED BY <1>1, <1>2, <1>3, Scheduling

LEMMA ChildExitsStep == ASSUME SdInv, NEW t \in Tasks, ChildExits(t) PROVE SdInv'
<1>1. /\ stage = "up" /\ state' = [state EXCEPT ![t] = "READY"]
      /\ UNCHANGED <<pins, on, plic, dma, spi, card, medium, boot, owner, pc, call, bounce, got>>
  BY DEF ChildExits
<1>2. state' \in [Tasks -> {"READY", "SLEEPING"}]
  BY <1>1 DEF SdInv, TaskType
<1>3. NoLostWakeup'
  BY <1>1 DEF SdInv, NoLostWakeup, TaskType, Chan, dma
<1>. QED BY <1>1, <1>2, <1>3, Scheduling

\* The interrupt: whoever slept for the channel looks at it again.
LEMMA InterruptStep == ASSUME SdInv, dmac_intr PROVE SdInv'
<1>1. /\ stage = "up" /\ dmac' = dmac_chanel_interrupt_clear(dmac, Channel0)
      /\ plic' = [plic EXCEPT !.pending = FALSE] /\ state' = Woken("dma")
      /\ UNCHANGED <<pins, on, dma_sel, moved, spi, card, medium, boot, owner, pc, call, bounce, got>>
  BY DEF dmac_intr
<1>2. /\ dmac' \in dmac_t /\ dmac'.int_en = dmac.int_en
      /\ Chan' = [Chan EXCEPT !.intstatus = FALSE]
      /\ Chan \in dmac_channel_t
  BY <1>1, InterruptClear, ChannelIs DEF Chan, SdInv, BoardType
<1>3. /\ Chan'.en = Chan.en /\ Chan'.block_ts = Chan.block_ts /\ Chan'.tt_fc = Chan.tt_fc
      /\ Chan'.sinc = Chan.sinc /\ Chan'.dinc = Chan.dinc
      /\ Chan'.intstatus_en = Chan.intstatus_en
  BY <1>2 DEF dmac_channel_t
<1>4. BoardType'
  <2>1. plic' \in [priority : SUBSET {DISK_IRQ, UART_IRQ}, enabled : SUBSET {DISK_IRQ, UART_IRQ},
                   pending : BOOLEAN]
    BY <1>1 DEF SdInv, BoardType
  <2>. QED BY <1>1, <1>2, <2>1 DEF SdInv, BoardType, pins, boot
<1>5. TaskType'
  BY <1>1 DEF SdInv, TaskType, Woken
<1>6. Booted'
  <2>1. plic'.priority = plic.priority
    BY <1>1 DEF SdInv, BoardType
  <2>. QED BY <1>1, <2>1, WiredStays DEF SdInv, Booted, pins, boot
<1>7. Held'
  BY <1>1, <1>2, <1>3 DEF SdInv, Held, boot
<1>8. CardKept'
  BY <1>1 DEF SdInv, CardKept, boot
<1>9. Transfers'
  <2>1. ASSUME NEW u \in Tasks PROVE Transfer(u)'
    <3>1. Same(u)
      BY <1>1, <1>3 DEF Same, pins, boot
    <3>2. Transfer(u)
      BY <1>1, ByTask DEF SdInv
    <3>. QED BY <3>1, <3>2, SameTransfer
  <2>. QED BY <2>1 DEF Transfers, Transfer
<1>10. NoLostWakeup'
  BY <1>1 DEF SdInv, NoLostWakeup, Woken, TaskType
<1>. QED BY <1>4, <1>5, <1>6, <1>7, <1>8, <1>9, <1>10 DEF SdInv

\* A failed call: the machine stops, with the lock held or given back.
LEMMA Panicking ==
    ASSUME SdInv, stage = "up", stage' = "panic", ~Chan.en,
           UNCHANGED <<io, on, plic, dma, pc, call, got, is_standard_sd>>,
           \A u \in Tasks : pc[u] = "dma" => state[u] = "READY",
           \/ owner' \in Tasks /\ state' = state
           \/ owner' = Nobody /\ state' = Woken("lock"),
           spi' \in spi_t, medium' \in [Sectors -> Blocks], bounce' \in [Tasks -> Seq(Bytes)],
           gpiohs' \in [output_en : SUBSET {7}, input_en : SUBSET {7}, output_val : SUBSET {7}],
           7 \in gpiohs'.output_en,
           card' \in CardType, ~card'.misused, ~card'.late
    PROVE  SdInv'
<1>1. BoardType'
  BY DEF SdInv, BoardType, dma, Stages
<1>2. TaskType'
  BY DEF SdInv, TaskType, Woken
<1>3. Booted'
  BY DEF SdInv, Booted, Talking, Early
<1>4. Held'
  BY DEF SdInv, Held, Chan, dma
<1>5. CardKept'
  BY DEF SdInv, CardKept
<1>6. Transfers'
  BY DEF Transfers
<1>7. NoLostWakeup'
  BY SdAssumption DEF SdInv, NoLostWakeup, Woken, TaskType
<1>. QED BY <1>1, <1>2, <1>3, <1>4, <1>5, <1>6, <1>7 DEF SdInv

LEMMA Nothing == NoBuffer \in Seq(Bytes) /\ Zeros \in Seq(Bytes) /\ DOMAIN Zeros = 1..BSIZE
<1>1. NoBuffer \in Seq(Bytes)
  BY DEF NoBuffer
<1>2. Zeros \in [1..BSIZE -> Bytes] /\ BSIZE \in Nat
  BY SdAssumption DEF Zeros, Bytes
<1>. QED BY <1>1, <1>2

\* A call that is over.
LEMMA Returning ==
    ASSUME SdInv, NEW t \in Tasks, stage = "up", owner = t,
           \A u \in Tasks : u # t => pc[u] \notin {"dma", "status"},
           state[t] = "READY", ~Chan.en, UNCHANGED <<io, on, plic, dma, medium, boot>>,
           gpiohs' \in [output_en : SUBSET {7}, input_en : SUBSET {7}, output_val : SUBSET {7}],
           7 \in gpiohs'.output_en, spi' \in spi_t,
           bounce' \in [Tasks -> Seq(Bytes)], got' \in [Tasks -> Blocks],
           card' \in CardType, Quiet(card'), ~card'.misused, ~card'.late,
           card'.kind = card.kind, card'.blklen = card.blklen,
           releasesleep, pc' = [pc EXCEPT ![t] = "none"], call' = [call EXCEPT ![t] = NoCall]
    PROVE  SdInv'
<1>1. owner' = Nobody /\ state' = Woken("lock")
  BY DEF releasesleep
<1>2. /\ pc'[t] = "none" /\ call'[t] = NoCall
      /\ \A u \in Tasks : u # t => pc'[u] = pc[u] /\ call'[u] = call[u]
  BY DEF SdInv, TaskType
<1>3. BoardType'
  BY DEF SdInv, BoardType, dma, boot
<1>4. TaskType'
  BY <1>1 DEF SdInv, TaskType, Woken
<1>5. Booted'
  BY WiredStays DEF SdInv, Booted, boot
<1>6. Held'
  BY <1>1, <1>2, SdAssumption DEF SdInv, Held, Chan, dma, boot
<1>7. CardKept'
  BY DEF CardKept
<1>8. Transfers'
  BY <1>2 DEF Transfers
<1>9. NoLostWakeup'
  BY <1>1, <1>2 DEF SdInv, NoLostWakeup, Woken, TaskType
<1>. QED BY <1>3, <1>4, <1>5, <1>6, <1>7, <1>8, <1>9 DEF SdInv

LEMMA CheckStatusStep == ASSUME SdInv, NEW t \in Tasks, CheckStatus(t) PROVE SdInv'
<1>1. /\ stage = "up" /\ pc[t] = "status" /\ owner = t
      /\ UNCHANGED <<io, on, plic, dma, medium, bounce, got>>
      /\ spi' = Stopped(Reading(1)) /\ gpiohs' = SD_CS_HIGH(gpiohs)
  BY DEF CheckStatus, At, SdInv, Held
<1>2. \A u \in Tasks : u # t => pc[u] \notin {"dma", "status"}
  BY <1>1 DEF SdInv, Held
<1>3. ~Chan.en /\ \A u \in Tasks : pc[u] # "dma"
  BY <1>1, <1>2 DEF SdInv, Held
<1>4. card \in CardType /\ Quiet(card) /\ ~card.misused /\ ~card.late
  BY <1>1, <1>3 DEF SdInv, CardKept
<1>5. spi' \in spi_t
  BY <1>1, SpiReads, SpiStops DEF Reading, SdInv, BoardType
<1>6. /\ gpiohs' \in [output_en : SUBSET {7}, input_en : SUBSET {7}, output_val : SUBSET {7}]
      /\ 7 \in gpiohs'.output_en
  BY <1>1, SelectedLow DEF SdInv, BoardType, Booted, Early
<1>7. PICK o \in Exchange(card, 13, 0, 1) :
        /\ card' = o.card
        /\ \/ Panics /\ UNCHANGED <<pc, call>>
           \/ /\ releasesleep /\ UNCHANGED boot
              /\ pc' = [pc EXCEPT ![t] = "none"] /\ call' = [call EXCEPT ![t] = NoCall]
  BY DEF CheckStatus
<1>8. Exchanged(card, 13, 0, 1, o)
  <2>1. /\ medium \in [Sectors -> Blocks] /\ spi \in spi_t /\ 7 \in gpiohs.output_en
        /\ gpiohs \in [output_en : SUBSET {7}, input_en : SUBSET {7}, output_val : SUBSET {7}]
    BY <1>1 DEF SdInv, BoardType, TaskType, Booted, Early
  <2>2. 13 \in Nat \ {17, 24} /\ 0 \in Nat /\ 1 \in Nat
    OBVIOUS
  <2>. QED BY ONLY <1>4, <2>1, <2>2, Exchanging, o \in Exchange(card, 13, 0, 1)
<1>9. /\ card' \in CardType /\ Quiet(card') /\ ~card'.misused /\ ~card'.late
      /\ card'.kind = card.kind /\ card'.blklen = card.blklen
  BY <1>7, <1>8 DEF Exchanged
<1>10. CASE Panics /\ UNCHANGED <<pc, call>>
  <2>1. bounce' \in [Tasks -> Seq(Bytes)] /\ medium' \in [Sectors -> Blocks]
    BY <1>1 DEF SdInv, TaskType
  <2>2. /\ stage' = "panic" /\ owner' = Nobody /\ state' = Woken("lock")
        /\ UNCHANGED <<pc, call, is_standard_sd>>
    BY <1>10 DEF Panics, releasesleep
  <2>. QED BY <1>1, <1>3, <1>5, <1>6, <1>9, <2>1, <2>2, Panicking
<1>11. CASE /\ releasesleep /\ UNCHANGED boot
            /\ pc' = [pc EXCEPT ![t] = "none"] /\ call' = [call EXCEPT ![t] = NoCall]
  <2>1. state[t] = "READY"
    BY DEF CheckStatus, At
  <2>2. bounce' \in [Tasks -> Seq(Bytes)] /\ got' \in [Tasks -> Blocks]
    BY <1>1 DEF SdInv, TaskType
  <2>. QED BY <1>1, <1>2, <1>3, <1>5, <1>6, <1>9, <1>11, <2>1, <2>2, Returning
<1>. QED BY <1>7, <1>10, <1>11

\* Driver and card mean the same sector by an address.
LEMMA AddressAgrees ==
    ASSUME SdInv, stage = "up", NEW s \in Sectors
    PROVE  Address(s) \in Nat /\ SectorOf(card, Address(s)) = s
<1>1. s \in Nat /\ BSIZE \in Nat \ {0}
  BY SdAssumption
<1>2. s * BSIZE \in Nat /\ (s * BSIZE) % BSIZE = 0 /\ (s * BSIZE) \div BSIZE = s
  <2>1. (BSIZE * s + 0) % BSIZE = 0
    BY <1>1, ModUnique, 0 \in 0..(BSIZE - 1)
  <2>2. s * BSIZE = BSIZE * s + 0 /\ s * BSIZE \in Nat
    BY <1>1
  <2>3. (s * BSIZE) \div BSIZE = s
    BY <1>1
  <2>. QED BY <2>1, <2>2, <2>3
<1>3. IF is_standard_sd THEN card.kind = "SC" /\ card.blklen = BSIZE ELSE card.kind = "HC"
  BY DEF SdInv, Booted
<1>. DEFINE p == s * BSIZE
<1>4. p \in Nat /\ p % BSIZE = 0 /\ p \div BSIZE = s
  BY <1>2
<1>5. Address(s) = IF is_standard_sd THEN p ELSE s
  BY DEF Address
<1>. HIDE DEF p
<1>6. CASE is_standard_sd
  BY <1>3, <1>4, <1>5, <1>6 DEF SectorOf
<1>7. CASE ~is_standard_sd
  BY <1>1, <1>3, <1>5, <1>7 DEF SectorOf
<1>. QED BY <1>6, <1>7

\* A call that takes the lock finds everything at rest.
LEMMA AtRest ==
    ASSUME SdInv, stage = "up", owner = Nobody
    PROVE  /\ ~Chan.en /\ \A u \in Tasks : pc[u] \notin {"dma", "status"}
           /\ card \in CardType /\ Quiet(card) /\ ~card.misused /\ ~card.late
           /\ Wired /\ 7 \in gpiohs.output_en
<1>1. \A u \in Tasks : pc[u] \notin {"dma", "status"}
  BY SdAssumption DEF SdInv, Held
<1>2. ~Chan.en
  BY <1>1 DEF SdInv, Held
<1>3. card \in CardType /\ Quiet(card) /\ ~card.misused /\ ~card.late
  BY <1>1 DEF SdInv, CardKept
<1>4. Wired /\ 7 \in gpiohs.output_en
  BY DEF SdInv, Booted, Talking, Early
<1>. QED BY <1>1, <1>2, <1>3, <1>4

\* A call is a read or a write of a sector of the card.
LEMMA CallIs ==
    ASSUME SdInv, NEW t \in Tasks, pc[t] # "none"
    PROVE  /\ call[t] \in Calls /\ call[t].sector \in Sectors
           /\ call[t].op \in {"read", "write"}
           /\ call[t].op = "write" => call[t].data \in Blocks
<1>1. call[t] \in Calls
  BY DEF SdInv, Held, TaskType
<1>. QED BY <1>1 DEF Calls

\* A call that found the lock free and got the channel going.
LEMMA Starting ==
    ASSUME SdInv, NEW t \in Tasks, stage = "up", pc[t] = "lock", state[t] = "READY", owner = Nobody,
           UNCHANGED <<io, on, plic, medium, call, got, boot, state>>,
           gpiohs' = SD_CS_LOW(gpiohs),
           spi' \in spi_t, Running(spi'), dmac' \in dmac_t, dmac'.int_en,
           dma_sel' \in [DmaChannels -> DmaSelects],
           Chan'.en, Chan'.intstatus_en, Chan'.block_ts = BSIZE - 1,
           moved' = [of |-> t, words |-> 0],
           NEW buffer \in Seq(Bytes), DOMAIN buffer = 1..BSIZE,
           bounce' = [bounce EXCEPT ![t] = buffer],
           pc' = [pc EXCEPT ![t] = "dma"], owner' = t,
           card' \in CardType, ~card'.misused, ~card'.late, card'.kind = card.kind,
           card'.blklen = card.blklen,
           call[t].op = "read" => Reads(t)',
           call[t].op = "write" => Writes(t)'
    PROVE  SdInv'
<1>1. /\ \A u \in Tasks : pc[u] \notin {"dma", "status"}
      /\ Wired /\ 7 \in gpiohs.output_en
  BY AtRest
<1>2. pc'[t] = "dma" /\ \A u \in Tasks : u # t => pc'[u] = pc[u]
  BY DEF SdInv, TaskType
<1>3. BoardType'
  <2>1. moved' \in [of : Tasks \cup {Nobody}, words : Nat]
    OBVIOUS
  <2>2. gpiohs' \in [output_en : SUBSET {7}, input_en : SUBSET {7}, output_val : SUBSET {7}]
    BY SelectedLow DEF SdInv, BoardType
  <2>. QED BY <2>1, <2>2 DEF SdInv, BoardType, boot
<1>4. TaskType'
  BY DEF SdInv, TaskType
<1>5. Booted'
  <2>1. gpiohs'.output_en = gpiohs.output_en
    BY SelectedLow DEF SdInv, BoardType
  <2>. QED BY <2>1, WiredStays DEF SdInv, Booted, boot
<1>6. Held'
  <2>1. \A u \in Tasks : pc'[u] = "none" <=> call'[u] = NoCall
    BY <1>2 DEF SdInv, Held
  <2>2. \A u \in Tasks : owner' = u <=> pc'[u] \in {"dma", "status"}
    BY <1>1, <1>2
  <2>. QED BY <1>2, <2>1, <2>2 DEF Held, boot
<1>7. CardKept'
  BY <1>2 DEF CardKept
<1>8. Transfers'
  <2>1. Setup(t)'
    <3>1. Selected(gpiohs')
      BY <1>1, SelectedLow DEF SdInv, BoardType
    <3>2. bounce'[t] = buffer
      BY DEF SdInv, TaskType
    <3>3. BSIZE \in Nat \ {0}
      BY SdAssumption
    <3>. QED BY <3>1, <3>2, <3>3 DEF Setup
  <2>. QED BY <1>1, <1>2, <2>1 DEF Transfers
<1>9. NoLostWakeup'
  BY <1>1, <1>2, SdAssumption DEF SdInv, NoLostWakeup
<1>. QED BY <1>3, <1>4, <1>5, <1>6, <1>7, <1>8, <1>9 DEF SdInv

\* After the answer and the token, the block is what the card has left to send.
LEMMA TokenTaken ==
    ASSUME NEW m \in Blocks
    PROVE  LET x == SubSeq(Frame(m), 2, Len(Frame(m)))
               y == SubSeq(x, 2, Len(x))
           IN  Len(y) = BSIZE + 2 /\ \A i \in 1..BSIZE : y[i] = m[i]
<1>. DEFINE f == Frame(m)
            x == SubSeq(f, 2, Len(f))
            y == SubSeq(x, 2, Len(x))
<1>1. /\ f \in Seq(Bytes) /\ Len(f) = BSIZE + 4 /\ BSIZE \in Nat \ {0}
      /\ \A i \in 1..BSIZE : f[i + 2] = m[i]
  BY DataFrame, SdAssumption
<1>. HIDE DEF f
<1>3. /\ x \in Seq(Bytes) /\ Len(x) = BSIZE + 3
      /\ \A i \in 1..(BSIZE + 3) : x[i] = f[i + 1]
  BY <1>1
<1>. HIDE DEF x
<1>4. Len(y) = BSIZE + 2 /\ \A i \in 1..(BSIZE + 2) : y[i] = x[i + 1]
  BY <1>1, <1>3
<1>. HIDE DEF y
<1>5. ASSUME NEW i \in 1..BSIZE PROVE y[i] = m[i]
  <2>1. i \in 1..(BSIZE + 2) /\ i + 1 \in 1..(BSIZE + 3) /\ (i + 1) + 1 = i + 2
    BY <1>1
  <2>. QED BY <1>1, <1>3, <1>4, <2>1
<1>. QED BY <1>4, <1>5 DEF x, y, f

\* The controllers when a read has started its transfer, and when a write has.
LEMMA ReceivingStarts ==
    ASSUME spi \in spi_t, dmac \in dmac_t, dma_sel \in [DmaChannels -> DmaSelects], NEW start,
           start = spi_receive_data_normal_dma(spi_init(spi, 8), dma_sel, dmac, Channel0, BSIZE)
    PROVE  LET ch == start[3].channel[Channel0] IN
           /\ start[1] \in spi_t /\ Running(start[1]) /\ start[1].tmod = "RECV"
           /\ start[2] \in [DmaChannels -> DmaSelects]
           /\ start[3] \in dmac_t /\ start[3].int_en
           /\ ch.en /\ ch.intstatus_en /\ ch.block_ts = BSIZE - 1
           /\ ch.tt_fc = "PRF2MEM" /\ ch.dinc
<1>1. start[1] \in spi_t /\ Running(start[1]) /\ start[1].tmod = "RECV"
  BY SpiReadsByDma
<1>2. start[2] = sysctl_dma_select(dma_sel, Channel0, SSI0_RX_REQ)
  BY DEF spi_receive_data_normal_dma
<1>3. start[2] \in [DmaChannels -> DmaSelects]
  BY <1>2, DmaSelected DEF SSI0_RX_REQ, DmaSelects
<1>4. start[3] = dmac_set_single_mode(dmac, Channel0, "dr", "mem", FALSE, TRUE, BSIZE)
  BY DEF spi_receive_data_normal_dma
<1>5. FlowControl("dr", "mem") = "PRF2MEM"
  BY DEF FlowControl, is_memory
<1>6. Started(start[3], "dr", "mem", FALSE, TRUE)
  BY <1>4, DmaStarts
<1>. QED BY <1>1, <1>3, <1>5, <1>6 DEF Started

LEMMA SendingStarts ==
    ASSUME spi \in spi_t, dmac \in dmac_t, dma_sel \in [DmaChannels -> DmaSelects], NEW start,
           start = spi_send_data_normal_dma(spi_init(spi, 8), dma_sel, dmac, Channel0, BSIZE)
    PROVE  LET ch == start[3].channel[Channel0] IN
           /\ start[1] \in spi_t /\ Running(start[1]) /\ start[1].tmod = "TRANS"
           /\ start[2] \in [DmaChannels -> DmaSelects]
           /\ start[3] \in dmac_t /\ start[3].int_en
           /\ ch.en /\ ch.intstatus_en /\ ch.block_ts = BSIZE - 1
           /\ ch.tt_fc = "MEM2PRF" /\ ch.sinc
<1>1. start[1] \in spi_t /\ Running(start[1]) /\ start[1].tmod = "TRANS"
  BY SpiWritesByDma
<1>2. start[2] = sysctl_dma_select(dma_sel, Channel0, SSI0_TX_REQ)
  BY DEF spi_send_data_normal_dma
<1>3. start[2] \in [DmaChannels -> DmaSelects]
  BY <1>2, DmaSelected DEF SSI0_TX_REQ, DmaSelects
<1>4. start[3] = dmac_set_single_mode(dmac, Channel0, "mem", "dr", TRUE, FALSE, BSIZE)
  BY DEF spi_send_data_normal_dma
<1>5. FlowControl("mem", "dr") = "MEM2PRF"
  BY DEF FlowControl, is_memory
<1>6. Started(start[3], "mem", "dr", TRUE, FALSE)
  BY <1>4, DmaStarts
<1>. QED BY <1>1, <1>3, <1>5, <1>6 DEF Started

\* The card has heard the command of a call.
LEMMA Addressed ==
    ASSUME SdInv, stage = "up", owner = Nobody, NEW s \in Sectors, NEW cmd \in {17, 24},
           NEW sent \in sd_send_cmd(card, cmd, Address(s))
    PROVE  /\ Kept(card, cmd, Address(s), sent)
           /\ SectorOf(card, Address(s)) = s
<1>1. /\ card \in CardType /\ Quiet(card) /\ Wired /\ 7 \in gpiohs.output_en
  BY AtRest
<1>2. Selected(SD_CS_LOW(gpiohs)) /\ Running(Writing)
  BY <1>1, SelectedLow, SpiWrites DEF Writing, SdInv, BoardType
<1>3. sent \in Commanded(card, cmd, Address(s))
  BY <1>1, <1>2 DEF sd_send_cmd, Heard
<1>4. Address(s) \in Nat /\ SectorOf(card, Address(s)) = s
  BY AddressAgrees
<1>5. medium \in [Sectors -> Blocks] /\ cmd \in Nat
  BY DEF SdInv, TaskType
<1>. QED BY <1>1, <1>3, <1>4, <1>5, Commanding

LEMMA ReadStep == ASSUME SdInv, NEW t \in Tasks, sdcard_read_sector(t) PROVE SdInv'
<1>1. /\ stage = "up" /\ pc[t] = "lock" /\ state[t] = "READY" /\ call[t].op = "read"
      /\ owner = Nobody /\ gpiohs' = SD_CS_LOW(gpiohs)
      /\ UNCHANGED <<io, on, plic, medium, call, got>>
  BY DEF sdcard_read_sector, At
<1>2. /\ ~Chan.en /\ \A u \in Tasks : pc[u] \notin {"dma", "status"}
      /\ card \in CardType /\ Quiet(card) /\ ~card.misused /\ ~card.late
      /\ Wired /\ 7 \in gpiohs.output_en
  BY <1>1, AtRest
<1>. DEFINE s == call[t].sector
            g == SD_CS_LOW(gpiohs)
<1>3. s \in Sectors /\ medium[s] \in Blocks
  BY <1>1, CallIs DEF SdInv, TaskType
<1>4. /\ gpiohs' \in [output_en : SUBSET {7}, input_en : SUBSET {7}, output_val : SUBSET {7}]
      /\ 7 \in gpiohs'.output_en /\ Selected(g)
  BY <1>1, <1>2, SelectedLow DEF SdInv, BoardType
<1>5. PICK sent \in sd_send_cmd(card, 17, Address(s)) :
        LET r1    == sd_get_response_R1(g, sent)
            token == sd_read_data(g, r1.card, 1)
            fails == r1.result # 0 \/ token.data # <<254>>
        IN  /\ card' = IF r1.result # 0 THEN r1.card ELSE token.card
            /\ \/ r1.result # 0 /\ Panics
               \/ r1.result = 0 /\ fails /\ PanicsHolding(t)
               \/ ~fails /\ StartsDma(t, spi_receive_data_normal_dma(spi_init(spi, 8), dma_sel,
                                                     dmac, Channel0, BSIZE), Zeros)
            /\ fails => /\ spi' = Stopped(Reading(1))
                        /\ UNCHANGED <<dma, bounce, pc>>
  BY <1>1 DEF sdcard_read_sector
<1>. DEFINE r1    == sd_get_response_R1(g, sent)
            token == sd_read_data(g, r1.card, 1)
            fails == r1.result # 0 \/ token.data # <<254>>
<1>6. Kept(card, 17, Address(s), sent) /\ SectorOf(card, Address(s)) = s
  BY <1>1, <1>3, Addressed
<1>7. sent \in CardType /\ spi \in spi_t
  BY <1>6 DEF Kept, SdInv, BoardType
<1>. HIDE DEF g
<1>8. Responded(g, sent, r1)
  BY <1>7, Responding
<1>9. /\ card' = IF r1.result # 0 THEN r1.card ELSE token.card
      /\ \/ fails /\ (Panics \/ PanicsHolding(t))
         \/ ~fails /\ StartsDma(t, spi_receive_data_normal_dma(spi_init(spi, 8), dma_sel,
                                               dmac, Channel0, BSIZE), Zeros)
      /\ fails => spi' = Stopped(Reading(1)) /\ UNCHANGED <<dma, bounce, pc>>
  BY <1>5
<1>. HIDE DEF r1
<1>10. Taken(g, r1.card, 1, token)
  BY <1>7, <1>8, ReadingTakes DEF Responded
<1>. HIDE DEF token
<1>11. /\ card' \in CardType /\ ~card'.misused /\ ~card'.late /\ card'.kind = card.kind
       /\ card'.blklen = card.blklen /\ card'.phase = "command"
  BY <1>2, <1>6, <1>8, <1>9, <1>10 DEF Kept, Responded, Taken, Quiet
<1>12. CASE fails
  <2>1. /\ stage' = "panic" /\ UNCHANGED is_standard_sd
        /\ \/ owner' \in Tasks /\ state' = state
           \/ owner' = Nobody /\ state' = Woken("lock")
    BY <1>9, <1>12 DEF Panics, PanicsHolding, releasesleep
  <2>2. spi' \in spi_t
    BY <1>7, <1>9, <1>12, SpiReads, SpiStops DEF Reading
  <2>3. bounce' \in [Tasks -> Seq(Bytes)] /\ medium' \in [Sectors -> Blocks]
    BY <1>1, <1>9, <1>12 DEF SdInv, TaskType
  <2>4. UNCHANGED <<io, on, plic, dma, pc, call, got, is_standard_sd>>
    BY <1>1, <1>9, <1>12, <2>1
  <2>. QED BY <1>1, <1>2, <1>4, <1>11, <2>1, <2>2, <2>3, <2>4, Panicking
<1>13. CASE ~fails
  <2>. DEFINE start == spi_receive_data_normal_dma(spi_init(spi, 8), dma_sel, dmac, Channel0, BSIZE)
  <2>1. /\ spi' = start[1] /\ dma_sel' = start[2] /\ dmac' = start[3]
        /\ moved' = [of |-> t, words |-> 0] /\ bounce' = [bounce EXCEPT ![t] = Zeros]
        /\ pc' = [pc EXCEPT ![t] = "dma"] /\ owner' = t /\ UNCHANGED <<boot, state>>
    BY <1>9, <1>13 DEF StartsDma
  <2>2. dmac \in dmac_t /\ dma_sel \in [DmaChannels -> DmaSelects]
    BY DEF SdInv, BoardType
  <2>3. /\ start[1] \in spi_t /\ Running(start[1]) /\ start[1].tmod = "RECV"
        /\ start[2] \in [DmaChannels -> DmaSelects]
        /\ start[3] \in dmac_t /\ start[3].int_en
        /\ start[3].channel[Channel0].en /\ start[3].channel[Channel0].intstatus_en
        /\ start[3].channel[Channel0].block_ts = BSIZE - 1
        /\ start[3].channel[Channel0].tt_fc = "PRF2MEM" /\ start[3].channel[Channel0].dinc
    BY <1>7, <2>2, ReceivingStarts
  <2>. HIDE DEF start
  <2>4. /\ spi' \in spi_t /\ Running(spi') /\ spi'.tmod = "RECV"
        /\ dma_sel' \in [DmaChannels -> DmaSelects] /\ dmac' \in dmac_t /\ dmac'.int_en
        /\ Chan'.en /\ Chan'.intstatus_en /\ Chan'.block_ts = BSIZE - 1
        /\ Chan'.tt_fc = "PRF2MEM" /\ Chan'.dinc
    BY <2>1, <2>3 DEF Chan
  <2>5. /\ card' = token.card /\ r1.result = 0 /\ token.data = <<254>>
    BY <1>9, <1>13
  <2>6. Said(sent) /\ r1.card.out = SubSeq(sent.out, 2, Len(sent.out))
    BY <1>4, <1>8, <2>5 DEF Responded
  <2>7. /\ token.data[1] = IF 1 <= Len(r1.card.out) THEN r1.card.out[1] ELSE 255
        /\ card'.out = SubSeq(r1.card.out, 1 + 1, Len(r1.card.out))
    BY <1>2, <1>4, <1>8, <1>10, <2>5 DEF Taken, Responded
  <2>8. sent.out # <<0>>
    <3>1. SUFFICES ASSUME sent.out = << 0 >> PROVE FALSE
      OBVIOUS
    <3>2. r1.card.out = <<>>
      BY <2>6, <3>1
    <3>. QED BY <2>5, <2>7, <3>2
  <2>9. sent.out = Frame(medium[s])
    BY <1>6, <2>6, <2>8 DEF Kept
  <2>10. Len(card'.out) = BSIZE + 2 /\ \A i \in 1..BSIZE : card'.out[i] = medium[s][i]
    <3>. DEFINE x == SubSeq(Frame(medium[s]), 2, Len(Frame(medium[s])))
    <3>1. r1.card.out = x
      BY <2>6, <2>9
    <3>2. card'.out = SubSeq(x, 2, Len(x))
      BY <2>7, <3>1, 1 + 1 = 2
    <3>. QED BY <1>3, <3>2, TokenTaken
  <2>11. Reads(t)'
    <3>1. moved'.words = 0 /\ BSIZE \in Nat
      BY <2>1, SdAssumption
    <3>2. \A i \in 1..BSIZE : i - 0 = i /\ ~(i <= 0)
      OBVIOUS
    <3>. QED BY <1>1, <1>11, <2>4, <2>10, <3>1, <3>2 DEF Reads
  <2>. QED BY <1>1, <1>11, <2>1, <2>4, <2>11, Nothing, Starting
<1>. QED BY <1>12, <1>13

\* With the token the card waits for the bytes of the block.
LEMMA TokenGiven ==
    ASSUME NEW c \in CardType, c.phase = "token"
    PROVE  LET d == Receives(c, 254) IN
           /\ d \in CardType /\ d.phase = "data" /\ d.in = <<>> /\ d.out = c.out
           /\ d.sector = c.sector /\ d.late = c.late /\ d.misused = c.misused
           /\ d.kind = c.kind /\ d.blklen = c.blklen
<1>. DEFINE z == <<>>
<1>1. z \in Seq(Bytes)
  OBVIOUS
<1>2. Receives(c, 254) = [c EXCEPT !.phase = "data", !.in = z]
  BY DEF Receives
<1>. HIDE DEF z
<1>3. LET d == [c EXCEPT !.phase = "data", !.in = z] IN
      /\ d \in CardType /\ d.phase = "data" /\ d.in = z /\ d.out = c.out
      /\ d.sector = c.sector /\ d.late = c.late /\ d.misused = c.misused
      /\ d.kind = c.kind /\ d.blklen = c.blklen
  BY <1>1 DEF CardType
<1>. QED BY <1>2, <1>3 DEF z

LEMMA WriteStep == ASSUME SdInv, NEW t \in Tasks, sdcard_write_sector(t) PROVE SdInv'
<1>1. /\ stage = "up" /\ pc[t] = "lock" /\ state[t] = "READY" /\ call[t].op = "write"
      /\ owner = Nobody /\ gpiohs' = SD_CS_LOW(gpiohs)
      /\ UNCHANGED <<io, on, plic, medium, call, got>>
  BY DEF sdcard_write_sector, At
<1>2. /\ ~Chan.en /\ \A u \in Tasks : pc[u] \notin {"dma", "status"}
      /\ card \in CardType /\ Quiet(card) /\ ~card.misused /\ ~card.late
      /\ Wired /\ 7 \in gpiohs.output_en
  BY <1>1, AtRest
<1>. DEFINE s == call[t].sector
            g == SD_CS_LOW(gpiohs)
            data == call[t].data
<1>3. s \in Sectors /\ data \in Blocks
  BY <1>1, CallIs
<1>4. /\ gpiohs' \in [output_en : SUBSET {7}, input_en : SUBSET {7}, output_val : SUBSET {7}]
      /\ 7 \in gpiohs'.output_en /\ Selected(g) /\ Running(Writing)
  BY <1>1, <1>2, SelectedLow, SpiWrites DEF SdInv, BoardType, Writing
<1>5. PICK sent \in sd_send_cmd(card, 24, Address(s)) :
        LET r1    == sd_get_response_R1(g, sent)
            fails == r1.result # 0
        IN  /\ card' = IF fails THEN r1.card ELSE sd_write_byte(g, r1.card, 254)
            /\ \/ fails /\ Panics
               \/ ~fails /\ StartsDma(t, spi_send_data_normal_dma(spi_init(spi, 8), dma_sel,
                                                dmac, Channel0, BSIZE), data)
            /\ fails => /\ spi' = Stopped(Reading(1))
                        /\ UNCHANGED <<dma, bounce, pc>>
  BY <1>1 DEF sdcard_write_sector
<1>. DEFINE r1 == sd_get_response_R1(g, sent)
<1>6. Kept(card, 24, Address(s), sent) /\ SectorOf(card, Address(s)) = s
  BY <1>1, <1>3, Addressed
<1>7. sent \in CardType /\ spi \in spi_t
  BY <1>6 DEF Kept, SdInv, BoardType
<1>. HIDE DEF g
<1>8. Responded(g, sent, r1)
  BY <1>7, Responding
<1>9. /\ card' = IF r1.result # 0 THEN r1.card ELSE sd_write_byte(g, r1.card, 254)
      /\ \/ r1.result # 0 /\ Panics
         \/ r1.result = 0 /\ StartsDma(t, spi_send_data_normal_dma(spi_init(spi, 8), dma_sel,
                                               dmac, Channel0, BSIZE), data)
      /\ r1.result # 0 => spi' = Stopped(Reading(1)) /\ UNCHANGED <<dma, bounce, pc>>
  BY <1>5
<1>. HIDE DEF r1
<1>10. r1.card \in CardType /\ ~r1.card.misused /\ ~r1.card.late
  BY <1>2, <1>6, <1>8 DEF Kept, Responded
<1>12. CASE r1.result # 0
  <2>1. /\ stage' = "panic" /\ UNCHANGED is_standard_sd /\ owner' = Nobody /\ state' = Woken("lock")
    BY <1>9, <1>12 DEF Panics, releasesleep
  <2>2. spi' \in spi_t
    BY <1>7, <1>9, <1>12, SpiReads, SpiStops DEF Reading
  <2>3. bounce' \in [Tasks -> Seq(Bytes)] /\ medium' \in [Sectors -> Blocks]
    BY <1>1, <1>9, <1>12 DEF SdInv, TaskType
  <2>4. UNCHANGED <<io, on, plic, dma, pc, call, got, is_standard_sd>>
    BY <1>1, <1>9, <1>12, <2>1
  <2>5. card' \in CardType /\ ~card'.misused /\ ~card'.late
    BY <1>9, <1>10, <1>12
  <2>. QED BY <1>1, <1>2, <1>4, <2>5, <2>1, <2>2, <2>3, <2>4, Panicking
<1>13. CASE r1.result = 0
  <2>. DEFINE start == spi_send_data_normal_dma(spi_init(spi, 8), dma_sel, dmac, Channel0, BSIZE)
  <2>1. /\ spi' = start[1] /\ dma_sel' = start[2] /\ dmac' = start[3]
        /\ moved' = [of |-> t, words |-> 0] /\ bounce' = [bounce EXCEPT ![t] = data]
        /\ pc' = [pc EXCEPT ![t] = "dma"] /\ owner' = t /\ UNCHANGED <<boot, state>>
    BY <1>9, <1>13 DEF StartsDma
  <2>2. dmac \in dmac_t /\ dma_sel \in [DmaChannels -> DmaSelects]
    BY DEF SdInv, BoardType
  <2>3. /\ start[1] \in spi_t /\ Running(start[1]) /\ start[1].tmod = "TRANS"
        /\ start[2] \in [DmaChannels -> DmaSelects]
        /\ start[3] \in dmac_t /\ start[3].int_en
        /\ start[3].channel[Channel0].en /\ start[3].channel[Channel0].intstatus_en
        /\ start[3].channel[Channel0].block_ts = BSIZE - 1
        /\ start[3].channel[Channel0].tt_fc = "MEM2PRF" /\ start[3].channel[Channel0].sinc
    BY <1>7, <2>2, SendingStarts
  <2>. HIDE DEF start
  <2>4. /\ spi' \in spi_t /\ Running(spi') /\ spi'.tmod = "TRANS"
        /\ dma_sel' \in [DmaChannels -> DmaSelects] /\ dmac' \in dmac_t /\ dmac'.int_en
        /\ Chan'.en /\ Chan'.intstatus_en /\ Chan'.block_ts = BSIZE - 1
        /\ Chan'.tt_fc = "MEM2PRF" /\ Chan'.sinc
    BY <2>1, <2>3 DEF Chan
  <2>5. Said(sent) /\ r1.card.out = SubSeq(sent.out, 2, Len(sent.out))
    BY <1>4, <1>8, <1>13 DEF Responded
  <2>6. sent.out = <<0>> /\ sent.phase = "token" /\ sent.sector = s
    BY <1>6, <2>5 DEF Kept
  <2>7. r1.card.out = <<>> /\ r1.card.phase = "token" /\ r1.card.sector = s
    BY <1>8, <2>5, <2>6 DEF Responded
  <2>8. card' = Receives(r1.card, 254)
    BY <1>2, <1>4, <1>9, <1>13 DEF sd_write_byte, Heard
  <2>9. /\ card' \in CardType /\ card'.phase = "data" /\ card'.in = <<>> /\ card'.out = <<>>
        /\ card'.sector = s /\ ~card'.late /\ ~card'.misused
        /\ card'.kind = card.kind /\ card'.blklen = card.blklen
    BY <1>6, <1>8, <1>10, <2>7, <2>8, TokenGiven DEF Kept, Responded
  <2>10. data \in Seq(Bytes) /\ DOMAIN data = 1..BSIZE
    BY <1>3, BlockSeq
  <2>11. Writes(t)'
    <3>1. moved'.words = 0 /\ BSIZE \in Nat \ {0}
      BY <2>1, SdAssumption
    <3>2. \A i \in 1..BSIZE : ~(i <= 0)
      BY <3>1
    <3>3. bounce'[t] = data /\ call'[t] = call[t]
      BY <1>1, <2>1 DEF SdInv, TaskType
    <3>4. Len(card'.in) = 0
      BY <2>9
    <3>. QED BY <1>1, <2>9, <2>4, <3>1, <3>2, <3>3, <3>4 DEF Writes
  <2>. QED BY <1>1, <2>1, <2>4, <2>9, <2>10, <2>11, Starting
<1>. QED BY <1>12, <1>13

\* A transfer that is over.
LEMMA TransferOver ==
    ASSUME SdInv, NEW t \in Tasks, EndsDma(t)
    PROVE  /\ stage = "up" /\ pc[t] = "dma" /\ state[t] = "READY" /\ ~Chan.en /\ owner = t
           /\ \A u \in Tasks : u # t => pc[u] \notin {"dma", "status"}
           /\ Setup(t) /\ moved.words = BSIZE
           /\ call[t].op = "read" => Reads(t)
           /\ call[t].op = "write" => Writes(t)
           /\ card \in CardType /\ ~card.misused /\ ~card.late
           /\ Wired /\ Selected(gpiohs)
           /\ bounce' \in [Tasks -> Seq(Bytes)] /\ spi' \in spi_t
<1>1. /\ stage = "up" /\ pc[t] = "dma" /\ state[t] = "READY" /\ ~Chan.en
      /\ bounce' = [bounce EXCEPT ![t] = NoBuffer] /\ spi' = Stopped(spi)
  BY DEF EndsDma, At, dmac_is_idle, Chan
<1>2. owner = t /\ \A u \in Tasks : u # t => pc[u] \notin {"dma", "status"}
  BY <1>1 DEF SdInv, Held
<1>3. Transfer(t)
  BY <1>1, ByTask DEF SdInv
<1>4. Setup(t) /\ (call[t].op = "read" => Reads(t)) /\ (call[t].op = "write" => Writes(t))
  BY <1>1, <1>3 DEF Transfer
<1>5. moved.words = BSIZE
  BY <1>1, <1>4, SdAssumption DEF Setup, SdInv, BoardType
<1>6. Wired /\ Selected(gpiohs)
  BY <1>1, <1>4 DEF SdInv, Booted, Talking, Setup
<1>7. bounce' \in [Tasks -> Seq(Bytes)]
  BY <1>1, Nothing DEF SdInv, TaskType
<1>8. spi' \in spi_t
  BY <1>1, SpiStops DEF SdInv, BoardType
<1>. QED BY <1>1, <1>2, <1>4, <1>5, <1>6, <1>7, <1>8 DEF SdInv, CardKept

\* What a read is about to return.
LEMMA ReadComplete ==
    ASSUME SdInv, NEW t \in Tasks, EndsDma(t), call[t].op = "read"
    PROVE  bounce[t] = medium[call[t].sector] /\ bounce[t] \in Blocks
<1>. DEFINE m == medium[call[t].sector]
<1>1. /\ pc[t] = "dma" /\ Setup(t) /\ Reads(t) /\ moved.words = BSIZE
  BY TransferOver
<1>2. m \in Blocks
  BY <1>1, CallIs DEF SdInv, TaskType
<1>3. BSIZE \in Nat /\ \A i \in 1..BSIZE : bounce[t][i] = m[i]
  BY <1>1, SdAssumption DEF Reads
<1>4. m \in Seq(Bytes) /\ DOMAIN m = 1..BSIZE /\ Len(m) = BSIZE
  BY <1>2, BlockSeq
<1>5. bounce[t] \in Seq(Bytes) /\ DOMAIN bounce[t] = 1..BSIZE
  BY <1>1 DEF Setup, SdInv, TaskType
<1>. HIDE DEF m
<1>6. Len(bounce[t]) = BSIZE
  BY <1>3, <1>5
<1>7. bounce[t] = m
  BY <1>3, <1>4, <1>5, <1>6, SeqEqual
<1>. QED BY <1>2, <1>7 DEF m

LEMMA FinishReadStep == ASSUME SdInv, NEW t \in Tasks, FinishRead(t) PROVE SdInv'
<1>1. /\ EndsDma(t) /\ call[t].op = "read"
      /\ got' = [got EXCEPT ![t] = bounce[t]]
      /\ card' = sd_end_cmd(sd_read_data(gpiohs, card, 2).card)
      /\ gpiohs' = SD_CS_HIGH(gpiohs) /\ releasesleep
      /\ pc' = [pc EXCEPT ![t] = "none"] /\ call' = [call EXCEPT ![t] = NoCall]
      /\ UNCHANGED <<io, on, plic, dma, medium, boot>>
  BY DEF FinishRead
<1>2. /\ stage = "up" /\ pc[t] = "dma" /\ state[t] = "READY" /\ ~Chan.en /\ owner = t
      /\ \A u \in Tasks : u # t => pc[u] \notin {"dma", "status"}
      /\ card \in CardType /\ ~card.misused /\ ~card.late /\ Wired
      /\ bounce' \in [Tasks -> Seq(Bytes)] /\ spi' \in spi_t
  BY <1>1, TransferOver
<1>3. got' \in [Tasks -> Blocks]
  BY <1>1, ReadComplete DEF SdInv, TaskType
<1>4. /\ gpiohs' \in [output_en : SUBSET {7}, input_en : SUBSET {7}, output_val : SUBSET {7}]
      /\ 7 \in gpiohs'.output_en
  BY <1>1, <1>2, SelectedLow DEF SdInv, BoardType, Booted, Early
<1>. DEFINE crc == sd_read_data(gpiohs, card, 2)
<1>5. Taken(gpiohs, card, 2, crc)
  BY <1>2, ReadingTakes DEF SdInv, BoardType
<1>6. card' = Deselected(crc.card)
  BY <1>1, <1>2 DEF sd_end_cmd
<1>. HIDE DEF crc
<1>7. /\ card' \in CardType /\ Quiet(card') /\ ~card'.misused /\ ~card'.late
      /\ card'.kind = card.kind /\ card'.blklen = card.blklen
  BY <1>2, <1>5, <1>6, Deselecting DEF Taken
<1>. QED BY <1>1, <1>2, <1>3, <1>4, <1>7, Returning

\* What becomes of a block when its last byte has been sent: a good data response means
\* that the sector holds it.
LEMMA BlockEnds ==
    ASSUME SdInv, NEW t \in Tasks, EndsDma(t), call[t].op = "write", NEW done \in BlockDone(card)
    PROVE  /\ done.card \in CardType /\ ~done.card.misused /\ ~done.card.late
           /\ done.card.kind = card.kind /\ done.card.blklen = card.blklen
           /\ done.medium \in [Sectors -> Blocks]
           /\ \/ done.medium = [medium EXCEPT ![call[t].sector] = call[t].data]
              \/ done.medium = medium /\ done.card.out \in {<<235>>, <<>>}
<1>1. /\ pc[t] = "dma" /\ Setup(t) /\ Writes(t) /\ moved.words = BSIZE
      /\ card \in CardType /\ ~card.misused /\ ~card.late /\ Wired /\ Selected(gpiohs)
  BY TransferOver
<1>. DEFINE s == call[t].sector  data == call[t].data
<1>2. s \in Sectors /\ data \in Blocks
  BY <1>1, CallIs
<1>3. card.sector = s /\ card.phase = "crc"
  BY <1>1 DEF Writes
<1>4. card.in = data
  <2>1. data \in Seq(Bytes) /\ Len(data) = BSIZE /\ BSIZE \in Nat
    BY <1>2, BlockSeq, SdAssumption
  <2>2. card.in \in Seq(Bytes) /\ Len(card.in) = BSIZE
    BY <1>1 DEF Writes, CardType
  <2>3. \A i \in 1..BSIZE : card.in[i] = data[i]
    BY <1>1, <2>1 DEF Writes
  <2>. HIDE DEF data
  <2>. QED BY <2>1, <2>2, <2>3, SeqEqual
<1>5. Heard(gpiohs, Writing)
  BY <1>1, SpiWrites DEF Heard, Writing, SdInv, BoardType
<1>6. CASE done \in Programs(card)
  <2>1. PICK busy \in {<<0, 255>>, <<0, 0, 0, 0>>} :
          done = [medium |-> [medium EXCEPT ![card.sector] = card.in],
                  card   |-> [card EXCEPT !.phase = "command", !.in = <<>>, !.out = <<229>> \o busy]]
    BY <1>6 DEF Programs
  <2>. DEFINE z == <<>>  o == <<229>> \o busy
  <2>2. z \in Seq(Bytes)
    OBVIOUS
  <2>3. o \in Seq(Bytes)
    <3>1. 229 \in Bytes /\ 0 \in Bytes /\ 255 \in Bytes
      BY DEF Bytes
    <3>2. /\ <<229>> \in Seq(Bytes) /\ <<0, 255>> \in Seq(Bytes)
          /\ <<0, 0, 0, 0>> \in Seq(Bytes)
      BY <3>1, ByteTuples
    <3>3. busy \in Seq(Bytes)
      BY <3>2
    <3>4. <<229>> \o busy \in Seq(Bytes)
      BY ONLY <3>2, <3>3, ConcatProperties
    <3>. QED BY <3>4
  <2>4. /\ done.medium = [medium EXCEPT ![s] = data]
        /\ done.card = [card EXCEPT !.phase = "command", !.in = z, !.out = o]
    BY <1>3, <1>4, <2>1
  <2>. HIDE DEF z, o
  <2>5. /\ done.card \in CardType /\ ~done.card.misused /\ ~done.card.late
        /\ done.card.kind = card.kind /\ done.card.blklen = card.blklen
    BY <1>1, <2>2, <2>3, <2>4 DEF CardType
  <2>6. done.medium \in [Sectors -> Blocks]
    BY <1>2, <2>4 DEF SdInv, TaskType
  <2>. QED BY <2>4, <2>5, <2>6
<1>7. CASE done \notin Programs(card)
  <2>. DEFINE z == <<>>  e == <<235>>
  <2>1. PICK o \in {e, z} :
          done = [medium |-> medium, card |-> [card EXCEPT !.phase = "command", !.out = o]]
    BY <1>3, <1>5, <1>7 DEF BlockDone
  <2>2. o \in Seq(Bytes)
    <3>1. 235 \in Bytes
      BY DEF Bytes
    <3>2. e \in Seq(Bytes) /\ z \in Seq(Bytes)
      BY <3>1, ByteTuples
    <3>. QED BY <2>1, <3>2
  <2>3. done.medium = medium /\ done.card = [card EXCEPT !.phase = "command", !.out = o]
    BY <2>1
  <2>. HIDE DEF z, e
  <2>4. /\ done.card \in CardType /\ ~done.card.misused /\ ~done.card.late
        /\ done.card.kind = card.kind /\ done.card.blklen = card.blklen /\ done.card.out = o
    BY <1>1, <2>2, <2>3 DEF CardType
  <2>. QED BY <2>1, <2>3, <2>4 DEF SdInv, TaskType, z, e
<1>. QED BY <1>6, <1>7

\* Only the response to a block that was taken passes.
LEMMA Accepted ==
    ASSUME SdInv, NEW t \in Tasks, EndsDma(t), call[t].op = "write", NEW done \in BlockDone(card),
           sd_read_data(gpiohs, done.card, 1).data[1] % 32 = 5
    PROVE  done.medium = [medium EXCEPT ![call[t].sector] = call[t].data]
<1>1. /\ Wired /\ Selected(gpiohs) /\ done.card \in CardType /\ ~done.card.late
      /\ \/ done.medium = [medium EXCEPT ![call[t].sector] = call[t].data]
         \/ done.medium = medium /\ done.card.out \in {<<235>>, <<>>}
  BY TransferOver, BlockEnds
<1>. DEFINE response == sd_read_data(gpiohs, done.card, 1)
<1>2. Taken(gpiohs, done.card, 1, response)
  BY <1>1, ReadingTakes DEF SdInv, BoardType
<1>. HIDE DEF response
<1>3. response.data[1] = IF 1 <= Len(done.card.out) THEN done.card.out[1] ELSE 255
  BY <1>1, <1>2 DEF Taken
<1>4. response.data[1] \in {235, 255} => response.data[1] % 32 # 5
  OBVIOUS
<1>5. done.card.out \in {<<235>>, <<>>} => response.data[1] \in {235, 255}
  BY <1>3
<1>. QED BY <1>1, <1>4, <1>5 DEF response

LEMMA FinishWriteStep == ASSUME SdInv, NEW t \in Tasks, FinishWrite(t) PROVE SdInv'
<1>1. /\ EndsDma(t) /\ call[t].op = "write" /\ UNCHANGED <<io, on, plic, dma, call, got>>
  BY DEF FinishWrite
<1>2. /\ stage = "up" /\ pc[t] = "dma" /\ state[t] = "READY" /\ ~Chan.en /\ owner = t
      /\ \A u \in Tasks : u # t => pc[u] \notin {"dma", "status"}
      /\ Wired /\ Selected(gpiohs)
      /\ bounce' \in [Tasks -> Seq(Bytes)] /\ spi' \in spi_t
  BY <1>1, TransferOver
<1>3. PICK done \in BlockDone(card) :
        LET response == sd_read_data(gpiohs, done.card, 1)
            busy     == sd_read_data(gpiohs, response.card, 4)
            fails    == \/ response.data[1] % 32 # 5
                        \/ \A i \in 1..4 : busy.data[i] = 0
        IN  /\ medium' = done.medium
            /\ \/ fails /\ Panics /\ card' = busy.card /\ UNCHANGED <<gpiohs, pc>>
               \/ /\ ~fails
                  /\ card' = sd_end_cmd(busy.card)
                  /\ gpiohs' = SD_CS_HIGH(gpiohs)
                  /\ pc' = [pc EXCEPT ![t] = "status"]
                  /\ UNCHANGED <<boot, owner, state>>
  BY DEF FinishWrite
<1>. DEFINE response == sd_read_data(gpiohs, done.card, 1)
            busy     == sd_read_data(gpiohs, response.card, 4)
<1>4. /\ done.card \in CardType /\ ~done.card.misused /\ ~done.card.late
      /\ done.card.kind = card.kind /\ done.card.blklen = card.blklen
      /\ done.medium \in [Sectors -> Blocks]
  BY <1>1, BlockEnds
<1>5. Taken(gpiohs, done.card, 1, response) /\ spi \in spi_t
  BY <1>4, ReadingTakes DEF SdInv, BoardType
<1>6. /\ medium' = done.medium
      /\ \/ Panics /\ card' = busy.card /\ UNCHANGED <<gpiohs, pc>>
         \/ /\ response.data[1] % 32 = 5
            /\ card' = sd_end_cmd(busy.card) /\ gpiohs' = SD_CS_HIGH(gpiohs)
            /\ pc' = [pc EXCEPT ![t] = "status"]
            /\ UNCHANGED <<boot, owner, state>>
  BY <1>3
<1>. HIDE DEF response
<1>7. Taken(gpiohs, response.card, 4, busy)
  <2>1. response.card \in CardType
    BY <1>5 DEF Taken
  <2>. QED BY <1>5, <2>1, ReadingTakes
<1>. HIDE DEF busy
<1>8. /\ busy.card \in CardType /\ ~busy.card.misused /\ ~busy.card.late
      /\ busy.card.kind = card.kind /\ busy.card.blklen = card.blklen
  BY <1>4, <1>5, <1>7 DEF Taken
<1>9. /\ gpiohs \in [output_en : SUBSET {7}, input_en : SUBSET {7}, output_val : SUBSET {7}]
      /\ 7 \in gpiohs.output_en
  BY <1>2 DEF SdInv, BoardType, Booted, Early
<1>10. CASE Panics /\ card' = busy.card /\ UNCHANGED <<gpiohs, pc>>
  <2>1. /\ stage' = "panic" /\ owner' = Nobody /\ state' = Woken("lock")
        /\ UNCHANGED is_standard_sd
    BY <1>10 DEF Panics, releasesleep
  <2>2. \A u \in Tasks : pc[u] = "dma" => state[u] = "READY"
    BY <1>2
  <2>3. UNCHANGED <<io, on, plic, dma, pc, call, got, is_standard_sd>>
    BY <1>1, <1>10, <2>1
  <2>. QED BY <1>2, <1>4, <1>6, <1>8, <1>9, <1>10, <2>1, <2>2, <2>3, Panicking
<1>11. CASE /\ response.data[1] % 32 = 5
            /\ card' = sd_end_cmd(busy.card) /\ gpiohs' = SD_CS_HIGH(gpiohs)
            /\ pc' = [pc EXCEPT ![t] = "status"]
            /\ UNCHANGED <<boot, owner, state>>
  <2>1. medium' = [medium EXCEPT ![call[t].sector] = call[t].data]
    BY <1>1, <1>6, <1>11, Accepted DEF response
  <2>2. /\ pc'[t] = "status" /\ \A u \in Tasks : u # t => pc'[u] = pc[u]
    BY <1>11 DEF SdInv, TaskType
  <2>3. card' = Deselected(busy.card)
    BY <1>2, <1>11 DEF sd_end_cmd
  <2>4. /\ card' \in CardType /\ Quiet(card') /\ ~card'.misused /\ ~card'.late
        /\ card'.kind = card.kind /\ card'.blklen = card.blklen
    BY <1>8, <2>3, Deselecting
  <2>5. /\ gpiohs' \in [output_en : SUBSET {7}, input_en : SUBSET {7}, output_val : SUBSET {7}]
        /\ 7 \in gpiohs'.output_en
    BY <1>9, <1>11, SelectedLow
  <2>6. BoardType'
    BY <1>1, <1>2, <1>11, <2>5 DEF SdInv, BoardType, dma, boot
  <2>7. TaskType'
    BY <1>1, <1>2, <1>4, <1>6, <1>11 DEF SdInv, TaskType
  <2>8. Booted'
    BY <1>1, <1>11, <2>4, <2>5, WiredStays DEF SdInv, Booted, boot
  <2>9. Held'
    BY <1>1, <1>2, <1>11, <2>2 DEF SdInv, Held, Chan, dma, boot
  <2>10. CardKept'
    BY <2>4 DEF CardKept
  <2>11. Transfers'
    <3>1. call[t].sector \in Sectors
      BY <1>2, CallIs
    <3>2. medium'[call[t].sector] = call[t].data
      BY <2>1, <3>1 DEF SdInv, TaskType
    <3>3. \A u \in Tasks : u # t => pc'[u] \notin {"dma", "status"}
      BY <1>2, <2>2
    <3>. QED BY <1>1, <2>2, <3>2, <3>3 DEF Transfers
  <2>12. NoLostWakeup'
    BY <1>1, <1>2, <1>11, <2>2 DEF SdInv, NoLostWakeup, dma
  <2>. QED BY <2>6, <2>7, <2>8, <2>9, <2>10, <2>11, <2>12 DEF SdInv
<1>. QED BY <1>6, <1>10, <1>11

-----------------------------------------------------------------------------
(* A beat of the DMA channel.                                              *)

\* The channel after its last beat.
Ended(d, new) ==
    /\ new \in dmac_t /\ new.int_en = d.int_en /\ ~new.channel[Channel0].en
    /\ new.channel[Channel0].intstatus_en = d.channel[Channel0].intstatus_en
    /\ new.channel[Channel0].block_ts = d.channel[Channel0].block_ts
    /\ new.channel[Channel0].tt_fc = d.channel[Channel0].tt_fc
    /\ new.channel[Channel0].sinc = d.channel[Channel0].sinc
    /\ new.channel[Channel0].dinc = d.channel[Channel0].dinc

LEMMA ChannelEnds ==
    ASSUME NEW d \in dmac_t, NEW b \in BOOLEAN
    PROVE  Ended(d, [d EXCEPT !.channel[Channel0].en = FALSE, !.channel[Channel0].intstatus = b])
<1>. DEFINE c == d.channel[Channel0]
            x == [c EXCEPT !.en = FALSE, !.intstatus = b]
            new == [d EXCEPT !.channel[Channel0].en = FALSE, !.channel[Channel0].intstatus = b]
<1>1. c \in dmac_channel_t
  BY ChannelIs
<1>2. new = [d EXCEPT !.channel[Channel0] = x]
  BY ZeroIsChannel DEF dmac_t
<1>. HIDE DEF c
<1>3. /\ x \in dmac_channel_t /\ ~x.en /\ x.intstatus_en = c.intstatus_en
      /\ x.block_ts = c.block_ts /\ x.tt_fc = c.tt_fc /\ x.sinc = c.sinc /\ x.dinc = c.dinc
  BY <1>1 DEF dmac_channel_t
<1>. HIDE DEF x
<1>4. LET m == [d EXCEPT !.channel[Channel0] = x]
      IN  m \in dmac_t /\ m.channel[Channel0] = x /\ m.int_en = d.int_en
  BY <1>3, ChannelSet
<1>. HIDE DEF new
<1>5. new \in dmac_t /\ new.channel[Channel0] = x /\ new.int_en = d.int_en
  BY <1>2, <1>4
<1>. QED BY <1>3, <1>5 DEF Ended, c, new

\* What a beat does to the controllers, whichever way the bytes go.
Beaten(u) ==
    /\ UNCHANGED <<pins, on, dma_sel, spi, medium, boot, owner, pc, state, call, got>>
    /\ stage = "up" /\ pc[u] = "dma" /\ Setup(u) /\ Chan.en /\ Heard(gpiohs, spi)
    /\ moved.words \in Nat /\ moved.words < BSIZE
    /\ moved' = [moved EXCEPT !.words = moved.words + 1]
    /\ dmac' \in dmac_t
    /\ dmac'.int_en = dmac.int_en
    /\ Chan'.en <=> moved.words + 1 < BSIZE
    /\ Chan'.intstatus_en = Chan.intstatus_en
    /\ Chan'.block_ts = Chan.block_ts /\ Chan'.tt_fc = Chan.tt_fc
    /\ Chan'.sinc = Chan.sinc /\ Chan'.dinc = Chan.dinc
    /\ plic' \in [priority : SUBSET {DISK_IRQ, UART_IRQ}, enabled : SUBSET {DISK_IRQ, UART_IRQ},
                  pending : BOOLEAN]
    /\ plic'.priority = plic.priority
    /\ Chan'.en \/ plic'.pending

LEMMA Beating == ASSUME SdInv, Beat PROVE \E u \in Tasks : Beaten(u)
<1>1. /\ stage = "up" /\ Chan.en
      /\ moved' = [moved EXCEPT !.words = moved.words + 1]
      /\ UNCHANGED <<pins, on, dma_sel, spi, medium, boot, owner, pc, state, call, got>>
      /\ IF moved.words + 1 <= Chan.block_ts THEN UNCHANGED <<dmac, plic>>
         ELSE /\ dmac' = [dmac EXCEPT !.channel[Channel0].en = FALSE,
                                      !.channel[Channel0].intstatus = Chan.intstatus_en]
              /\ plic' = [plic EXCEPT !.pending = @ \/ ( /\ Chan.intstatus_en /\ dmac.int_en
                                                        /\ DISK_IRQ \in plic.priority)]
  BY DEF Beat, Chan
<1>2. PICK u \in Tasks : pc[u] = "dma"
  BY <1>1 DEF SdInv, Held
<1>3. Chan.intstatus_en /\ dmac.int_en /\ DISK_IRQ \in plic.priority
  BY <1>1 DEF SdInv, Held, Booted
<1>4. Setup(u)
  BY <1>1, <1>2 DEF SdInv, Transfers
<1>5. Heard(gpiohs, spi)
  BY <1>1, <1>4 DEF Heard, Setup, SdInv, Booted, Talking
<1>6. moved.words \in Nat /\ moved.words < BSIZE /\ Chan.block_ts = BSIZE - 1 /\ BSIZE \in Nat
  BY <1>1, <1>4, SdAssumption DEF Setup, SdInv, BoardType
<1>7. dmac \in dmac_t /\ Chan \in dmac_channel_t /\ Chan.intstatus_en \in BOOLEAN
  BY ChannelIs DEF SdInv, BoardType, Chan, dmac_channel_t
<1>8. CASE moved.words + 1 < BSIZE
  <2>1. UNCHANGED <<dmac, plic>>
    BY <1>1, <1>6, <1>8
  <2>. QED BY <1>1, <1>2, <1>4, <1>5, <1>6, <1>7, <1>8, <2>1 DEF Beaten, Chan, SdInv, BoardType
<1>9. CASE ~(moved.words + 1 < BSIZE)
  <2>. DEFINE b == Chan.intstatus_en
              p == plic.pending \/ ( /\ Chan.intstatus_en /\ dmac.int_en
                                     /\ DISK_IRQ \in plic.priority)
  <2>1. /\ dmac' = [dmac EXCEPT !.channel[Channel0].en = FALSE, !.channel[Channel0].intstatus = b]
        /\ plic' = [plic EXCEPT !.pending = p]
    BY <1>1, <1>6, <1>9
  <2>2. p \in BOOLEAN /\ p
    BY <1>3
  <2>3. b \in BOOLEAN
    BY <1>7
  <2>. HIDE DEF p, b
  <2>4. Ended(dmac, dmac')
    BY <1>7, <2>1, <2>3, ChannelEnds
  <2>5. /\ plic' \in [priority : SUBSET {DISK_IRQ, UART_IRQ},
                      enabled : SUBSET {DISK_IRQ, UART_IRQ}, pending : BOOLEAN]
        /\ plic'.priority = plic.priority /\ plic'.pending = p
    BY <2>1, <2>2 DEF SdInv, BoardType
  <2>. QED BY <1>1, <1>2, <1>4, <1>5, <1>6, <1>9, <2>2, <2>4, <2>5 DEF Beaten, Ended, Chan
<1>. QED BY <1>8, <1>9

\* Between the buffer and the card, a byte of the sector on its way.
Moved(u) == /\ bounce' \in [Tasks -> Seq(Bytes)] /\ DOMAIN bounce'[u] = 1..BSIZE
            /\ card' \in CardType /\ ~card'.misused /\ ~card'.late
            /\ card'.kind = card.kind /\ card'.blklen = card.blklen
            /\ call[u].op = "read"  => Reads(u)'
            /\ call[u].op = "write" => Writes(u)'

LEMMA SeqPut ==
    ASSUME NEW s \in Seq(Bytes), NEW n \in DOMAIN s, NEW b \in Bytes
    PROVE  [s EXCEPT ![n] = b] \in Seq(Bytes) /\ DOMAIN [s EXCEPT ![n] = b] = DOMAIN s
BY ExceptSeq

LEMMA ByteRead ==
    ASSUME SdInv, Beat, NEW u \in Tasks, Beaten(u), call[u].op = "read"
    PROVE  Moved(u)
<1>. DEFINE n == moved.words + 1
            m == medium[call[u].sector]
            byte == Head(card.out)
            rest == Tail(card.out)
<1>1. /\ Reads(u) /\ Setup(u) /\ card \in CardType /\ ~card.misused /\ ~card.late
  BY DEF Beaten, SdInv, Transfers, CardKept
<1>2. n \in 1..BSIZE /\ BSIZE \in Nat /\ moved.words \in Nat /\ moved.words < BSIZE
  BY SdAssumption DEF Beaten
<1>3. card.out \in Seq(Bytes) /\ Len(card.out) = BSIZE - moved.words + 2
  BY <1>1 DEF CardType, Reads
<1>4. card.out # <<>> /\ Len(card.out) \in Nat /\ Len(card.out) >= 3
  BY <1>2, <1>3
<1>5. byte \in Bytes /\ byte = card.out[1]
  BY <1>3, <1>4
<1>6. /\ rest \in Seq(Bytes) /\ Len(rest) = Len(card.out) - 1
      /\ \A i \in 1 .. Len(card.out) - 1 : rest[i] = card.out[i + 1]
  BY <1>3, <1>4, HeadTailProperties
<1>7. bounce' = [bounce EXCEPT ![u][n] = byte] /\ card' = [card EXCEPT !.out = rest]
  <2>1. spi.tmod = "RECV" /\ Chan.tt_fc = "PRF2MEM" /\ Chan.dinc /\ moved.of = u
    BY <1>1 DEF Reads, Setup
  <2>2. /\ bounce' = IF n \notin DOMAIN bounce[u] THEN bounce
                     ELSE [bounce EXCEPT ![u][n] =
                              IF Heard(gpiohs, spi) THEN Shown(card) ELSE 255]
        /\ card' = IF Heard(gpiohs, spi) THEN Shifted(card) ELSE card
    BY <2>1 DEF Beat, Chan, TxRequest
  <2>3. n \in DOMAIN bounce[u] /\ Heard(gpiohs, spi)
    BY <1>1, <1>2 DEF Setup, Beaten
  <2>4. Shown(card) = byte /\ Shifted(card) = [card EXCEPT !.out = rest]
    BY <1>1, <1>4 DEF Shown, Shifted
  <2>. QED BY <2>2, <2>3, <2>4
<1>. DEFINE buffer == [bounce[u] EXCEPT ![n] = byte]
<1>8. bounce' = [bounce EXCEPT ![u] = buffer]
  BY <1>7
<1>9. bounce[u] \in Seq(Bytes) /\ DOMAIN bounce[u] = 1..BSIZE
  BY <1>1 DEF Setup, SdInv, TaskType
<1>10. /\ buffer \in Seq(Bytes) /\ DOMAIN buffer = 1..BSIZE
       /\ buffer[n] = byte /\ \A i \in 1..BSIZE : i # n => buffer[i] = bounce[u][i]
  <2>. HIDE DEF byte, n
  <2>. QED BY <1>2, <1>5, <1>9, SeqPut
<1>. HIDE DEF buffer, byte, rest
<1>11. bounce' \in [Tasks -> Seq(Bytes)] /\ bounce'[u] = buffer
  BY <1>8, <1>10 DEF SdInv, TaskType
<1>12. /\ card' \in CardType /\ ~card'.misused /\ ~card'.late /\ card'.phase = card.phase
       /\ card'.kind = card.kind /\ card'.blklen = card.blklen /\ card'.out = rest
  BY <1>1, <1>6, <1>7 DEF CardType
<1>13. medium' = medium /\ call' = call /\ moved'.words = n
  BY <1>2 DEF Beaten, SdInv, BoardType
<1>14. /\ spi' = spi /\ Chan'.tt_fc = Chan.tt_fc /\ Chan'.dinc = Chan.dinc
  BY DEF Beaten
<1>. HIDE DEF m
<1>15. Len(rest) = BSIZE - n + 2
  BY <1>2, <1>3, <1>6
<1>16. ASSUME NEW i \in 1..BSIZE, n < i PROVE rest[i - n] = m[i]
  <2>. DEFINE w == moved.words  l == Len(card.out)
  <2>0. /\ w \in Nat /\ l = BSIZE - w + 2 /\ BSIZE \in Nat /\ n = w + 1
        /\ i \in Int /\ 1 <= i /\ i <= BSIZE /\ n < i
    BY <1>2, <1>3, <1>16
  <2>1. i - n \in 1 .. l - 1 /\ (i - n) + 1 = i - w
    <3>. HIDE DEF n, w, l
    <3>. QED BY <2>0
  <2>2. card.out[i - moved.words] = m[i]
    BY <1>1, <1>2, <1>16 DEF Reads, m
  <2>. QED BY <1>6, <2>1, <2>2
<1>17. ASSUME NEW i \in 1..BSIZE, i <= n PROVE buffer[i] = m[i]
  <2>1. CASE i = n
    <3>1. i - moved.words = 1 /\ moved.words < i
      BY <1>2, <2>1
    <3>2. card.out[i - moved.words] = m[i]
      BY <1>1, <3>1 DEF Reads, m
    <3>. QED BY <1>5, <1>10, <2>1, <3>1, <3>2
  <2>2. CASE i # n
    <3>1. bounce[u][i] = m[i]
      BY <1>1, <1>2, <1>17, <2>2 DEF Reads, m
    <3>. QED BY <1>10, <2>2, <3>1
  <2>. QED BY <2>1, <2>2
<1>18. Reads(u)'
  <2>. HIDE DEF n
  <2>. QED BY <1>1, <1>11, <1>12, <1>13, <1>14, <1>15, <1>16, <1>17 DEF Reads, m
<1>. QED BY <1>10, <1>11, <1>12, <1>18 DEF Moved

LEMMA ByteWritten ==
    ASSUME SdInv, Beat, NEW u \in Tasks, Beaten(u), call[u].op = "write"
    PROVE  Moved(u)
<1>. DEFINE n == moved.words + 1
            data == call[u].data
            byte == data[n]
            all  == Append(card.in, byte)
            next == IF Len(card.in) + 1 = BSIZE THEN "crc" ELSE card.phase
<1>1. /\ Writes(u) /\ Setup(u) /\ card \in CardType /\ ~card.misused /\ ~card.late
  BY DEF Beaten, SdInv, Transfers, CardKept
<1>2. n \in 1..BSIZE /\ BSIZE \in Nat /\ moved.words \in Nat /\ moved.words < BSIZE
  BY SdAssumption DEF Beaten
<1>3. data \in Seq(Bytes) /\ DOMAIN data = 1..BSIZE
  BY CallIs, BlockSeq DEF Beaten
<1>4. byte \in Bytes
  <2>. HIDE DEF data, n
  <2>. QED BY <1>2, <1>3
<1>5. card.in \in Seq(Bytes) /\ Len(card.in) = moved.words /\ card.phase = "data"
  BY <1>1, <1>2 DEF CardType, Writes
<1>6. UNCHANGED bounce /\ card' = [card EXCEPT !.in = all, !.phase = next]
  <2>1. spi.tmod = "TRANS" /\ Chan.tt_fc = "MEM2PRF" /\ Chan.sinc /\ moved.of = u
    BY <1>1 DEF Writes, Setup
  <2>2. /\ \E x \in IF n \in DOMAIN bounce[u] THEN {bounce[u][n]} ELSE 0..1 :
              card' = IF Heard(gpiohs, spi) THEN Receives(card, x) ELSE card
        /\ UNCHANGED bounce
    BY <2>1 DEF Beat, Chan, RxRequest
  <2>3. bounce[u][n] = byte /\ n \in DOMAIN bounce[u] /\ Heard(gpiohs, spi)
    BY <1>1, <1>2 DEF Setup, Writes, Beaten
  <2>4. Receives(card, byte) = [card EXCEPT !.in = all, !.phase = next]
    BY <1>5 DEF Receives
  <2>. QED BY <2>2, <2>3, <2>4
<1>7. /\ all \in Seq(Bytes) /\ Len(all) = n /\ all[n] = byte
      /\ \A i \in 1..BSIZE : i < n => all[i] = card.in[i]
  <2>1. /\ all \in Seq(Bytes) /\ Len(all) = Len(card.in) + 1
        /\ \A i \in 1 .. Len(card.in) : all[i] = card.in[i]
        /\ all[Len(card.in) + 1] = byte
    <3>. HIDE DEF byte
    <3>. QED BY <1>4, <1>5, AppendProperties
  <2>. HIDE DEF all, byte
  <2>. QED BY <1>2, <1>5, <2>1
<1>8. next = IF n = BSIZE THEN "crc" ELSE "data"
  BY <1>5
<1>. HIDE DEF all, next
<1>9. next \in {"command", "token", "data", "crc"}
  BY <1>8
<1>10. /\ card' \in CardType /\ ~card'.misused /\ ~card'.late /\ card'.phase = next
       /\ card'.kind = card.kind /\ card'.blklen = card.blklen /\ card'.out = card.out
       /\ card'.in = all /\ card'.sector = card.sector
  BY <1>1, <1>6, <1>7, <1>9 DEF CardType
<1>11. call' = call /\ moved'.words = n
  BY <1>2 DEF Beaten, SdInv, BoardType
<1>12. spi' = spi /\ Chan'.tt_fc = Chan.tt_fc /\ Chan'.sinc = Chan.sinc
  BY DEF Beaten
<1>13. ASSUME NEW i \in 1..BSIZE, i <= n PROVE all[i] = data[i]
  <2>1. CASE i = n
    BY <1>7, <2>1
  <2>2. CASE i # n
    <3>1. i < n /\ i <= moved.words
      BY <1>2, <1>13, <2>2
    <3>2. card.in[i] = data[i]
      BY <1>1, <3>1 DEF Writes
    <3>. QED BY <1>7, <3>1, <3>2
  <2>. QED BY <2>1, <2>2
<1>14. Writes(u)'
  <2>. HIDE DEF n
  <2>. QED BY <1>1, <1>6, <1>7, <1>8, <1>10, <1>11, <1>12, <1>13 DEF Writes
<1>15. bounce' \in [Tasks -> Seq(Bytes)] /\ DOMAIN bounce'[u] = 1..BSIZE
  BY <1>1, <1>6 DEF Setup, SdInv, TaskType
<1>. QED BY <1>10, <1>14, <1>15 DEF Moved

LEMMA BeatStep == ASSUME SdInv, Beat PROVE SdInv'
<1>1. PICK u \in Tasks : Beaten(u)
  BY Beating
<1>2. /\ UNCHANGED <<pins, on, dma_sel, spi, medium, boot, owner, pc, state, call, got>>
      /\ stage = "up" /\ pc[u] = "dma"
  BY <1>1 DEF Beaten
<1>3. Moved(u)
  BY <1>1, <1>2, CallIs, ByteRead, ByteWritten
<1>4. \A v \in Tasks : v # u => pc[v] \notin {"dma", "status"}
  BY <1>2 DEF SdInv, Held
<1>5. BoardType'
  BY <1>1, <1>2 DEF Beaten, SdInv, BoardType, pins, boot
<1>6. TaskType'
  BY <1>2, <1>3 DEF Moved, SdInv, TaskType
<1>7. Booted'
  BY <1>1, <1>2, <1>3, WiredStays DEF Beaten, Moved, SdInv, Booted, pins, boot
<1>8. Held'
  BY <1>1, <1>2 DEF Beaten, SdInv, Held, boot
<1>9. CardKept'
  BY <1>2, <1>3 DEF Moved, CardKept
<1>10. Transfers'
  <2>1. moved'.of = moved.of /\ moved'.words = moved.words + 1 /\ moved.of = u
    BY <1>1 DEF Beaten, Setup, SdInv, BoardType
  <2>2. Setup(u)'
    <3>1. moved.words + 1 <= BSIZE
      BY <1>1, SdAssumption DEF Beaten
    <3>. QED BY <1>1, <1>2, <1>3, <2>1, <3>1 DEF Beaten, Moved, Setup, Selected, Running, pins
  <2>. QED BY <1>2, <1>3, <1>4, <2>2 DEF Moved, Transfers
<1>11. NoLostWakeup'
  BY <1>1, <1>2, <1>4 DEF Beaten, SdInv, NoLostWakeup, Chan
<1>. QED BY <1>5, <1>6, <1>7, <1>8, <1>9, <1>10, <1>11 DEF SdInv

-----------------------------------------------------------------------------
(* The invariant.                                                          *)

LEMMA Stuttering == ASSUME SdInv, UNCHANGED vars PROVE SdInv'
<1>1. UNCHANGED <<pins, on, plic, dma, spi, card, medium, boot, tasks>>
  BY DEF vars
<1>2. BoardType'
  BY <1>1 DEF SdInv, BoardType, pins, dma, boot
<1>3. TaskType'
  BY <1>1 DEF SdInv, TaskType, tasks
<1>4. Booted'
  BY <1>1, WiredStays DEF SdInv, Booted, pins, boot
<1>5. Held'
  BY <1>1 DEF SdInv, Held, Chan, dma, boot, tasks
<1>6. CardKept'
  BY <1>1 DEF SdInv, CardKept, boot, tasks
<1>7. Transfers'
  <2>1. \A u \in Tasks : Same(u)
    BY <1>1 DEF Same, Chan, dma, pins, boot, tasks
  <2>2. stage' = stage
    BY <1>1 DEF boot
  <2>3. (stage = "up" => \A u \in Tasks : Transfer(u)')
    BY <2>1, ByTask, SameTransfer DEF SdInv
  <2>. QED BY <2>2, <2>3 DEF Transfers, Transfer
<1>8. NoLostWakeup'
  BY <1>1 DEF SdInv, NoLostWakeup, dma, tasks
<1>. QED BY <1>2, <1>3, <1>4, <1>5, <1>6, <1>7, <1>8 DEF SdInv

THEOREM SdInvariance == Spec => []SdInv
<1>1. Init => SdInv
  BY SdInit
<1>2. SdInv /\ [Next]_vars => SdInv'
  <2>. SUFFICES ASSUME SdInv, [Next]_vars PROVE SdInv'
    OBVIOUS
  <2>1. CASE PlicInit \/ PinInit \/ DmacInit \/ SdLowlevel
    BY <2>1, PlicInitStep, PinInitStep, DmacInitStep, SdLowlevelStep
  <2>2. CASE sdcard_init
    BY <2>2, SwitchStep, VerifyStep, OcrStep, CapacityStep, BlockSizeStep DEF sdcard_init
  <2>3. CASE Beat \/ dmac_intr
    BY <2>3, BeatStep, InterruptStep
  <2>4. ASSUME NEW t \in Tasks, Begin(t) \/ Step(t) \/ ChildExits(t) PROVE SdInv'
    BY <2>4, BeginStep, SleepsStep, ReadStep, WriteStep, FinishReadStep, FinishWriteStep,
       CheckStatusStep, ChildExitsStep DEF Step
  <2>5. CASE UNCHANGED vars
    BY <2>5, Stuttering
  <2>. QED BY <2>1, <2>2, <2>3, <2>4, <2>5 DEF Next
<1>. QED BY <1>1, <1>2, PTL DEF Spec

\* The card is never given a command in the middle of a transfer, nor an address that is
\* none of its sectors, whatever it answers and however late.
THEOREM ProtocolKeptTheorem == Spec => []ProtocolKept
<1>1. SdInv => ProtocolKept
  BY DEF SdInv, CardKept, ProtocolKept
<1>. QED BY <1>1, SdInvariance, PTL

\* The DMA channel runs only for the task that holds the lock, with its buffer still its own.
THEOREM DmaOwnedTheorem == Spec => []DmaOwned
<1>1. SdInv => DmaOwned
  <2>. SUFFICES ASSUME SdInv, Chan.en
                PROVE  \E t \in Tasks : /\ moved.of = t /\ owner = t /\ pc[t] = "dma"
                                        /\ bounce[t] # NoBuffer
                                        /\ Selected(gpiohs) /\ Running(spi)
    BY DEF DmaOwned, Chan
  <2>1. PICK t \in Tasks : pc[t] = "dma"
    BY DEF SdInv, Held
  <2>2. stage = "up" /\ owner = t
    BY <2>1 DEF SdInv, Held
  <2>3. Setup(t)
    BY <2>1, <2>2 DEF SdInv, Transfers
  <2>4. bounce[t] # NoBuffer
    <3>1. 1 \in DOMAIN bounce[t]
      BY <2>3, SdAssumption DEF Setup
    <3>. QED BY <3>1 DEF NoBuffer
  <2>. QED BY <2>1, <2>2, <2>3, <2>4 DEF Setup
<1>. QED BY <1>1, SdInvariance, PTL

\* Whoever sleeps for the lock or for the channel is going to be woken.
THEOREM NoLostWakeupTheorem == Spec => []NoLostWakeup
<1>1. SdInv => NoLostWakeup
  BY DEF SdInv
<1>. QED BY <1>1, SdInvariance, PTL

-----------------------------------------------------------------------------
(* The disk that the tasks see.                                            *)

StoreNext == [Store!Next]_<<medium, call, got>>

LEMMA Unseen == UNCHANGED <<medium, call, got>> => StoreNext
BY DEF StoreNext

LEMMA BeginsThere == ASSUME NEW t \in Tasks, Begin(t) PROVE StoreNext
<1>1. Store!Begin(t)
  BY DEF Begin, Store!Begin, Calls, Store!Calls
<1>. QED BY <1>1 DEF StoreNext, Store!Next

LEMMA ReadsThere == ASSUME SdInv, NEW t \in Tasks, FinishRead(t) PROVE StoreNext
<1>1. EndsDma(t) /\ call[t].op = "read"
  BY DEF FinishRead
<1>2. pc[t] = "dma"
  BY <1>1 DEF EndsDma, At
<1>3. call[t] # NoCall
  BY <1>2 DEF SdInv, Held
<1>4. bounce[t] = medium[call[t].sector]
  BY <1>1, ReadComplete
<1>5. Store!Reads(t)
  BY <1>1, <1>3, <1>4 DEF FinishRead, Store!Reads
<1>. QED BY <1>5 DEF StoreNext, Store!Next

LEMMA WritesThere == ASSUME SdInv, NEW t \in Tasks, FinishWrite(t) PROVE StoreNext
<1>1. EndsDma(t) /\ call[t].op = "write" /\ UNCHANGED <<call, got>>
  BY DEF FinishWrite
<1>2. pc[t] = "dma"
  BY <1>1 DEF EndsDma, At
<1>3. call[t] # NoCall
  BY <1>2 DEF SdInv, Held
<1>4. PICK done \in BlockDone(card) : medium' = done.medium
  BY DEF FinishWrite
<1>5. \/ medium' = [medium EXCEPT ![call[t].sector] = call[t].data]
      \/ medium' = medium
  BY <1>1, <1>4, BlockEnds
<1>6. Store!Programs(t) \/ UNCHANGED <<medium, call, got>>
  BY <1>1, <1>3, <1>5 DEF Store!Programs
<1>. QED BY <1>6, Unseen DEF StoreNext, Store!Next

LEMMA ReturnsThere == ASSUME SdInv, NEW t \in Tasks, CheckStatus(t) PROVE StoreNext
<1>1. /\ stage = "up" /\ pc[t] = "status" /\ UNCHANGED <<medium, got>>
      /\ call' = call \/ call' = [call EXCEPT ![t] = NoCall]
  BY DEF CheckStatus, At
<1>2. call[t] # NoCall
  BY <1>1 DEF SdInv, Held
<1>3. call[t].op = "write" /\ medium[call[t].sector] = call[t].data
  BY <1>1 DEF SdInv, Transfers
<1>4. Store!Returns(t) \/ UNCHANGED <<medium, call, got>>
  BY <1>1, <1>2, <1>3 DEF Store!Returns
<1>. QED BY <1>4, Unseen DEF StoreNext, Store!Next

LEMMA BoardUnseen ==
    ASSUME PlicInit \/ PinInit \/ DmacInit \/ SdLowlevel \/ sdcard_init
    PROVE  UNCHANGED <<medium, call, got>>
<1>1. CASE PlicInit \/ PinInit \/ DmacInit \/ SdLowlevel
  BY <1>1 DEF PlicInit, PinInit, DmacInit, SdLowlevel, tasks
<1>2. CASE switch_to_SPI_mode
  BY <1>2 DEF switch_to_SPI_mode, Proceed, Fails, tasks
<1>3. CASE verify_operation_condition
  BY <1>3 DEF verify_operation_condition, Proceed, Fails, tasks
<1>4. CASE read_OCR
  BY <1>4 DEF read_OCR, Proceed, Fails, tasks
<1>5. CASE set_SDXC_capacity
  BY <1>5 DEF set_SDXC_capacity, Proceed, Fails, tasks
<1>6. CASE check_block_size
  BY <1>6 DEF check_block_size, Proceed, Fails, tasks
<1>. QED BY <1>1, <1>2, <1>3, <1>4, <1>5, <1>6 DEF sdcard_init

\* The driver implements SectorStore: through lock, DMA and the card's answers, a sector
\* changes only as a call writes it, a read returns the sector as it is when the call
\* returns, and a write returns only when the sector holds its data.
THEOREM SectorStoreTheorem == Spec => IsSectorStore
<1>1. Init => Store!Init
  <2>1. Blocks # {} /\ (CHOOSE b \in Blocks : TRUE) \in Blocks
    BY SdAssumption
  <2>. QED BY <2>1 DEF Init, Store!Init
<1>2. SdInv /\ [Next]_vars => StoreNext
  <2>. SUFFICES ASSUME SdInv, [Next]_vars PROVE StoreNext
    OBVIOUS
  <2>1. CASE PlicInit \/ PinInit \/ DmacInit \/ SdLowlevel \/ sdcard_init
    BY <2>1, BoardUnseen, Unseen
  <2>2. CASE Beat \/ dmac_intr
    BY <2>2, Unseen DEF Beat, dmac_intr
  <2>3. ASSUME NEW t \in Tasks, Begin(t) \/ Step(t) \/ ChildExits(t) PROVE StoreNext
    <3>1. CASE Begin(t)
      BY <3>1, BeginsThere
    <3>2. CASE FinishRead(t) \/ FinishWrite(t) \/ CheckStatus(t)
      BY <3>2, ReadsThere, WritesThere, ReturnsThere
    <3>3. CASE Sleeps(t) \/ ChildExits(t)
      BY <3>3, Unseen DEF Sleeps, ChildExits
    <3>4. CASE sdcard_read_sector(t) \/ sdcard_write_sector(t)
      BY <3>4, Unseen DEF sdcard_read_sector, sdcard_write_sector
    <3>. QED BY <2>3, <3>1, <3>2, <3>3, <3>4 DEF Step
  <2>4. CASE UNCHANGED vars
    BY <2>4, Unseen DEF vars, tasks
  <2>. QED BY <2>1, <2>2, <2>3, <2>4 DEF Next
<1>. QED BY <1>1, <1>2, SdInvariance, PTL DEF Spec, IsSectorStore, Store!Spec, StoreNext

=============================================================================
