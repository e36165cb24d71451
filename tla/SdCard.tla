------------------------------- MODULE SdCard -------------------------------
(***************************************************************************)
(* The SD card driver of the K210 (sdcard.c) from power-on: pins, DMA      *)
(* controller and PLIC as start_kernel() sets them up, the card's          *)
(* initialization with its retries, and sector reads and writes of several *)
(* tasks over SPI and DMA, with dmac.c's interrupt.  The card is external: *)
(* it may answer too late for the driver's polling, or with an error.      *)
(*                                                                         *)
(* A command with its answer polled by the processor is one step: nothing  *)
(* in it sleeps.  A task sleeps for sdcard_lock and for the DMA channel.   *)
(***************************************************************************)
EXTENDS Integers, Sequences, FiniteSets, Fpioa, Spi

CONSTANTS
    Tasks, Nobody, NoCall,
    Sectors,       \* sectors of the card, 0 .. n
    BSIZE,         \* bytes of a sector
    Blocks,        \* contents a sector can have
    Tries,         \* first value of the timeout counters of the initialization
    FirmwarePins   \* IOs on which the firmware may have left one of the functions used

ASSUME SdAssumption == /\ Nobody \notin Tasks
                       /\ Tries \in Nat \ {0}
                       /\ BSIZE \in Nat \ {0}
                       /\ Sectors \subseteq Nat
                       /\ Blocks \subseteq [1..BSIZE -> 0..255] /\ Blocks # {}

VARIABLES
    io, gpiohs,            \* pins
    on, dma_sel,           \* system controller
    dmac, spi,             \* controllers
    plic,                  \* priorities and enabled interrupts, and whether the disk's
                           \* is pending
    moved,                 \* of a DMA transfer: whose buffer, and words moved
    card, medium,          \* the card and its content
    stage, left,           \* where the initialization is, and its timeout counter
    is_standard_sd,
    owner,                 \* sdcard_lock
    pc, state, call,       \* per task: place in a call, READY or SLEEPING, the call
    bounce,                \* per task the buffer that spi.c takes from kmalloc()
    got                    \* per task what its last read returned

pins  == <<io, gpiohs>>
dma   == <<dma_sel, dmac, moved>>
boot  == <<stage, left, is_standard_sd>>
tasks == <<owner, pc, state, call, bounce, got>>
vars  == <<pins, on, plic, dma, spi, card, medium, boot, tasks>>

Channel0  == 0
DISK_IRQ  == 27
UART_IRQ  == 33
Zeros       == [i \in 1..BSIZE |-> 0]
NoBuffer    == <<>>

-----------------------------------------------------------------------------
(* The card.  out: the bytes it will shift out; late: not before the driver's *)
(* polling has given up; misused: it was given a command in the middle of a   *)
(* transfer, or an address that is none of its sectors.                       *)

SectorOf(c, arg) ==
    IF c.kind = "HC" THEN arg
    ELSE IF c.blklen = BSIZE /\ arg % BSIZE = 0 THEN arg \div BSIZE ELSE -1

OCR(c) == << IF c.mode # "ready" THEN 0 ELSE IF c.kind = "HC" THEN 192 ELSE 128,
             255, 128, 0 >>
R1(c)  == IF c.mode = "ready" THEN 0 ELSE 1

\* The answers a card may give, each with what becomes of the card.
Answers(c, cmd, arg) ==
    LET Answer(x, bytes) == [x EXCEPT !.out = bytes, !.app = FALSE]
        Illegal == {Answer(c, <<4 + R1(c)>>)}
        Data(s) == <<0, 254>> \o medium[s] \o <<170, 85>>
    IN  IF cmd = 0 THEN {Answer([c EXCEPT !.mode = "idle"], <<1>>)}
        ELSE IF c.mode = "sd" THEN {c}
        ELSE IF cmd = 8  THEN {Answer(c, <<R1(c), 0, 0, 1, 170>>), Answer(c, <<9>>)}
        ELSE IF cmd = 58 THEN {Answer(c, <<R1(c)>> \o OCR(c))}
        ELSE IF cmd = 55 THEN {[Answer(c, <<R1(c)>>) EXCEPT !.app = TRUE]}
        ELSE IF cmd = 41 /\ c.app
             THEN {Answer(c, <<1>>), Answer([c EXCEPT !.mode = "ready"], <<0>>)}
        ELSE IF cmd = 41 \/ c.mode = "idle" THEN Illegal
        ELSE IF cmd = 16 THEN {Answer([c EXCEPT !.blklen = arg], <<0>>)}
        ELSE IF SectorOf(c, arg) \notin Sectors /\ cmd \in {17, 24}
             THEN {[Answer(c, <<64>>) EXCEPT !.misused = TRUE]}
        ELSE IF cmd = 17 THEN {Answer(c, Data(SectorOf(c, arg))), Answer(c, <<0>>)}
        ELSE IF cmd = 24 THEN {[Answer(c, <<0>>) EXCEPT !.phase = "token",
                                                        !.sector = SectorOf(c, arg)]}
        ELSE IF cmd = 13 THEN {Answer(c, <<0, 0>>), Answer(c, <<0, 4>>)}
        ELSE Illegal

\* Receives a command, whatever it was doing.
Commanded(c, cmd, arg) ==
    LET free == [c EXCEPT !.misused = @ \/ c.out # <<>> \/ c.phase # "command",
                          !.phase = "command", !.in = <<>>]
    IN  {[x EXCEPT !.late = l] : x \in Answers(free, cmd, arg), l \in BOOLEAN}

\* Receives a byte of a block to be written.
Receives(c, byte) ==
    CASE c.phase = "token" /\ byte = 254 -> [c EXCEPT !.phase = "data", !.in = <<>>]
      [] c.phase = "data"  -> [c EXCEPT !.in = Append(@, byte),
                                        !.phase = IF Len(c.in) + 1 = BSIZE THEN "crc" ELSE @]
      [] OTHER -> c

\* Deselected, it lets go of the line and of an unfinished transfer.
Deselected(c) == [c EXCEPT !.out = <<>>, !.late = FALSE, !.in = <<>>, !.phase = "command"]

Shown(c)   == IF c.late \/ c.out = <<>> THEN 255 ELSE Head(c.out)
Shifted(c) == IF c.late \/ c.out = <<>> THEN c ELSE [c EXCEPT !.out = Tail(@)]

-----------------------------------------------------------------------------
(* The driver's side of the wires.                                            *)

Carries(i, f) == io[i].ch_sel = f
Wired == /\ Carries(27, FUNC_SPI0_SCLK) /\ io[27].pad.oe_en = 1
         /\ Carries(28, FUNC_SPI0_D0)   /\ io[28].pad.oe_en = 1
         /\ Carries(26, FUNC_SPI0_D1)   /\ io[26].pad.ie_en = 1
         /\ Carries(32, FUNC_GPIOHS7)   /\ io[32].pad.oe_en = 1

SD_CS_LOW(g)  == gpiohs_set_pin(g, 7, 0)
SD_CS_HIGH(g) == gpiohs_set_pin(g, 7, 1)
Selected(g)   == 7 \in g.output_en /\ 7 \notin g.output_val

\* Whether bytes pass while the controller is set as s and the pins as g.
Heard(g, s) == Wired /\ Selected(g) /\ Running(s)

Writing    == spi_send_data_normal(spi_init(spi, 8))
Reading(n) == spi_receive_data_standard(spi_init(spi, 8), n)

sd_send_cmd(c, cmd, arg) ==
    IF Heard(SD_CS_LOW(gpiohs), Writing) THEN Commanded(c, cmd, arg) ELSE {c}

\* sd_write_data() of one byte.
sd_write_byte(g, c, byte) == IF Heard(g, Writing) THEN Receives(c, byte) ELSE c

\* sd_read_data() of n bytes: what it reads and the card after it.
sd_read_data(g, c, n) ==
    IF ~Heard(g, Reading(n)) \/ c.late THEN [data |-> [i \in 1..n |-> 255], card |-> c]
    ELSE [data |-> [i \in 1..n |-> IF i <= Len(c.out) THEN c.out[i] ELSE 255],
          card |-> [c EXCEPT !.out = SubSeq(@, n + 1, Len(@))]]

\* Polls for a byte other than 0xff, in the end returns 0xff.
sd_get_response_R1(g, c) ==
    LET first == sd_read_data(g, c, 1)
    IN  [result |-> first.data[1], card |-> [first.card EXCEPT !.late = FALSE]]

sd_end_cmd(c) == IF Wired THEN Deselected(c) ELSE c

\* The possible outcomes of a command with its R1, rest more bytes, and the end.
Exchange(c, cmd, arg, rest) ==
    LET g == SD_CS_LOW(gpiohs)
        Outcome(sent) ==
            LET r1   == sd_get_response_R1(g, sent)
                more == sd_read_data(g, r1.card, rest)
            IN  [result |-> r1.result, frame |-> more.data, card |-> sd_end_cmd(more.card)]
    IN  {Outcome(sent) : sent \in sd_send_cmd(c, cmd, arg)}

-----------------------------------------------------------------------------
(* start_kernel(), up to disk_init().                                         *)

ResetChannel == [en |-> FALSE, intstatus_en |-> FALSE, intstatus |-> FALSE,
                 tt_fc |-> "MEM2MEM", sar |-> "mem", dar |-> "mem",
                 sinc |-> TRUE, dinc |-> TRUE, block_ts |-> 0]
Functions0 == {FUNC_SPI0_SCLK, FUNC_SPI0_D0, FUNC_SPI0_D1, FUNC_GPIOHS7, FUNC_RESV0}

\* paging_init() has switched the second PLL on.
Init ==
    /\ \E left0 \in [FirmwarePins -> Functions0] :
          io = [i \in Ios |-> Carrying(IF i \in FirmwarePins THEN left0[i] ELSE FUNC_RESV0)]
    /\ gpiohs = [output_en |-> {}, input_en |-> {}, output_val |-> {}]
    /\ on = sysctl_clock_enable({}, "PLL1")
    /\ dma_sel = [c \in DmaChannels |-> 0]
    /\ dmac = [dmac_en |-> FALSE, int_en |-> FALSE,
               channel |-> [c \in DmaChannels |-> ResetChannel]]
    /\ spi = [tmod |-> "TRANS_RECV", frames |-> 0, ssienr |-> FALSE, ser |-> {},
              dmacr |-> {}, dfs |-> 31]
    /\ plic = [priority |-> {}, enabled |-> {}, pending |-> FALSE]
    /\ moved = [of |-> Nobody, words |-> 0]
    /\ card \in [mode : {"sd"}, app : {FALSE}, kind : {"SC", "HC"}, blklen : {2 * BSIZE},
                 phase : {"command"}, out : {<<>>}, late : {FALSE}, in : {<<>>},
                 sector : {0}, misused : {FALSE}]
    /\ medium \in [Sectors -> Blocks]
    /\ stage = "plic" /\ left = Tries /\ is_standard_sd = FALSE
    /\ owner = Nobody
    /\ pc = [t \in Tasks |-> "none"] /\ state = [t \in Tasks |-> "READY"]
    /\ call = [t \in Tasks |-> NoCall] /\ bounce = [t \in Tasks |-> NoBuffer]
    /\ got = [t \in Tasks |-> CHOOSE b \in Blocks : TRUE]

Stage(from, to) == stage = from /\ stage' = to

PlicInit ==
    /\ Stage("plic", "pins")
    /\ plic' = [plic EXCEPT !.priority = @ \cup {DISK_IRQ, UART_IRQ},
                            !.enabled  = @ \cup {DISK_IRQ, UART_IRQ}]
    /\ UNCHANGED <<pins, on, dma, spi, card, medium, left, is_standard_sd, tasks>>

PinInit ==
    /\ Stage("pins", "dmac")
    /\ io' = fpioa_pin_init(io)
    /\ UNCHANGED <<gpiohs, on, plic, dma, spi, card, medium, left, is_standard_sd, tasks>>

DmacInit ==
    /\ Stage("dmac", "lowlevel")
    /\ on' = sysctl_clock_enable(on, "DMA")
    /\ dmac' = dmac_init(dmac)
    /\ UNCHANGED <<pins, plic, dma_sel, moved, spi, card, medium, left, is_standard_sd, tasks>>

\* The chip select becomes an output and goes low; ten bytes of 0xff follow.
SdLowlevel ==
    /\ Stage("lowlevel", "cmd0")
    /\ LET driven == gpiohs_set_drive_mode(io, gpiohs, 7, "OUTPUT")
       IN  io' = driven[1] /\ gpiohs' = SD_CS_LOW(driven[2])
    /\ spi' = Stopped(Writing)
    /\ left' = Tries
    /\ UNCHANGED <<on, plic, dma, card, medium, is_standard_sd, tasks>>

\* The commands of a step of the initialization leave the controller stopped and the
\* card deselected; then the initialization goes on with its next stage or fails.
Proceed(next, tries) ==
    /\ stage' = next /\ left' = tries
    /\ spi' = Stopped(Reading(1)) /\ gpiohs' = SD_CS_HIGH(gpiohs)
    /\ UNCHANGED <<io, on, plic, dma, medium, tasks>>
Fails == /\ stage' = "panic"
         /\ UNCHANGED <<pins, on, plic, dma, spi, card, medium, left, is_standard_sd, tasks>>

\* "while (--timeout)": the last value is not tried.
Retries == left > 1
\* "while (timeout--)"
RetriesAll == left > 0

switch_to_SPI_mode ==
    /\ stage = "cmd0"
    /\ \/ ~Retries /\ Fails
       \/ /\ Retries
          /\ \E o \in Exchange(card, 0, 0, 0) :
                /\ card' = o.card
                /\ IF o.result = 1 THEN Proceed("cmd8", Tries) ELSE Proceed("cmd0", left - 1)
          /\ UNCHANGED is_standard_sd

verify_operation_condition ==
    /\ stage = "cmd8"
    /\ \E o \in Exchange(card, 8, 426, 4) :
          /\ card' = o.card
          /\ IF o.result = 1 /\ o.frame[3] % 16 = 1 /\ o.frame[4] = 170
             THEN Proceed("ocr", Tries) ELSE Proceed("panic", left)
    /\ UNCHANGED is_standard_sd

read_OCR ==
    /\ stage = "ocr"
    /\ \/ ~Retries /\ Fails
       \/ /\ Retries
          /\ \E o \in Exchange(card, 58, 0, 4) :
                /\ card' = o.card
                /\ IF o.result = 1 /\ o.frame[2] % 32 # 0 /\ o.frame[3] \div 128 = 1
                   THEN Proceed("acmd41", Tries) ELSE Proceed("ocr", left - 1)
          /\ UNCHANGED is_standard_sd

set_SDXC_capacity ==
    /\ stage = "acmd41"
    /\ \/ ~Retries /\ Fails
       \/ /\ Retries
          /\ \E o \in Exchange(card, 55, 0, 0) :
                IF o.result # 1 THEN card' = o.card /\ Proceed("panic", left)
                ELSE \E a \in Exchange(o.card, 41, 1073741824, 0) :
                        /\ card' = a.card
                        /\ IF a.result = 0 THEN Proceed("block", Tries)
                           ELSE Proceed("acmd41", left - 1)
          /\ UNCHANGED is_standard_sd

\* BSIZE is the 512 bytes that a high-capacity card asks for.
check_block_size ==
    \/ stage = "block" /\ ~RetriesAll /\ Fails
    \/ /\ stage = "block" /\ RetriesAll
       /\ \E o \in Exchange(card, 58, 0, 4) :
             /\ card' = o.card
             /\ CASE o.result # 0 -> /\ Proceed("block", left - 1)
                                     /\ UNCHANGED is_standard_sd
                  [] o.result = 0 /\ (o.frame[1] \div 64) % 2 = 1 ->
                        Proceed("up", Tries) /\ is_standard_sd' = FALSE
                  [] OTHER -> Proceed("cmd16", Tries) /\ UNCHANGED is_standard_sd
    \/ stage = "cmd16" /\ ~Retries /\ Fails
    \/ /\ stage = "cmd16" /\ Retries
       /\ \E o \in Exchange(card, 16, BSIZE, 0) :
             /\ card' = o.card
             /\ IF o.result = 0 THEN Proceed("up", Tries) /\ is_standard_sd' = TRUE
                ELSE Proceed("cmd16", left - 1) /\ UNCHANGED is_standard_sd

sdcard_init == \/ switch_to_SPI_mode \/ verify_operation_condition \/ read_OCR
               \/ set_SDXC_capacity \/ check_block_size

-----------------------------------------------------------------------------
(* Sector reads and writes.                                                   *)

Calls == [op : {"read"}, sector : Sectors]
           \cup [op : {"write"}, sector : Sectors, data : Blocks]
ASSUME CallAssumption == NoCall \notin Calls

Begin(t) ==
    /\ stage = "up" /\ call[t] = NoCall
    /\ \E c \in Calls : call' = [call EXCEPT ![t] = c]
    /\ pc' = [pc EXCEPT ![t] = "lock"]
    /\ UNCHANGED <<pins, on, plic, dma, spi, card, medium, boot, owner, state, bounce, got>>

At(t, place) == stage = "up" /\ pc[t] = place /\ state[t] = "READY"

\* sleep() in acquiresleep() and in dmac_wait_idle().
Sleeps(t) ==
    /\ \/ At(t, "lock") /\ owner # Nobody
       \/ At(t, "dma") /\ ~dmac_is_idle(dmac, Channel0)
    /\ state' = [state EXCEPT ![t] = "SLEEPING"]
    /\ UNCHANGED <<pins, on, plic, dma, spi, card, medium, boot, owner, pc, call, bounce, got>>

Woken_LockOnly(place) ==
    [u \in Tasks |-> IF pc[u] = place /\ place = "lock" THEN "READY" ELSE state[u]]
    \* mutant: dmac_intr() wakes nobody

Woken(place) == [u \in Tasks |-> IF pc[u] = place THEN "READY" ELSE state[u]]

releasesleep == owner' = Nobody /\ state' = Woken("lock")

Address_AlwaysSector(sector) == sector   \* mutant: no byte addresses

Address(sector) == IF is_standard_sd THEN sector * BSIZE ELSE sector

\* panic() with sdcard_lock still held, and after it was released.
PanicsHolding(t) == /\ stage' = "panic" /\ owner' = t
                    /\ UNCHANGED <<left, is_standard_sd, state>>
Panics == stage' = "panic" /\ releasesleep /\ UNCHANGED <<left, is_standard_sd>>

\* Into dmac_wait_done() with a cleared or a filled buffer.
StartsDma(t, start, buffer) ==
    /\ spi' = start[1] /\ dma_sel' = start[2] /\ dmac' = start[3]
    /\ moved' = [of |-> t, words |-> 0]
    /\ bounce' = [bounce EXCEPT ![t] = buffer]
    /\ pc' = [pc EXCEPT ![t] = "dma"]
    /\ owner' = t
    /\ UNCHANGED <<boot, state>>

sdcard_read_sector(t) ==
    /\ At(t, "lock") /\ call[t].op = "read" /\ owner = Nobody
    /\ gpiohs' = SD_CS_LOW(gpiohs)
    /\ \E sent \in sd_send_cmd(card, 17, Address(call[t].sector)) :
          LET r1    == sd_get_response_R1(gpiohs', sent)
              token == sd_read_data(gpiohs', r1.card, 1)
              fails == r1.result # 0 \/ token.data # <<254>>
          IN  /\ card' = IF r1.result # 0 THEN r1.card ELSE token.card
              /\ \/ r1.result # 0 /\ Panics
                 \/ r1.result = 0 /\ fails /\ PanicsHolding(t)
                 \/ ~fails /\ StartsDma(t, spi_receive_data_normal_dma(spi_init(spi, 8), dma_sel,
                                                       dmac, Channel0, BSIZE), Zeros)
              /\ fails => /\ spi' = Stopped(Reading(1))
                          /\ UNCHANGED <<dma, bounce, pc>>
    /\ UNCHANGED <<io, on, plic, medium, call, got>>

sdcard_write_sector(t) ==
    /\ At(t, "lock") /\ call[t].op = "write" /\ owner = Nobody
    /\ gpiohs' = SD_CS_LOW(gpiohs)
    /\ \E sent \in sd_send_cmd(card, 24, Address(call[t].sector)) :
          LET r1    == sd_get_response_R1(gpiohs', sent)
              fails == r1.result # 0
          IN  /\ card' = IF fails THEN r1.card ELSE sd_write_byte(gpiohs', r1.card, 254)
              /\ \/ fails /\ Panics
                 \/ ~fails /\ StartsDma(t, spi_send_data_normal_dma(spi_init(spi, 8), dma_sel,
                                                  dmac, Channel0, BSIZE), call[t].data)
              /\ fails => /\ spi' = Stopped(Reading(1))
                          /\ UNCHANGED <<dma, bounce, pc>>
    /\ UNCHANGED <<io, on, plic, medium, call, got>>

EndsDma_OnceWoken(t) ==                  \* mutant: an if instead of a while
    /\ At(t, "dma")
    /\ bounce' = [bounce EXCEPT ![t] = NoBuffer]
    /\ spi' = Stopped(spi)

\* dmac_wait_done() is over: the buffer is freed, the controller stopped.
EndsDma(t) ==
    /\ At(t, "dma") /\ dmac_is_idle(dmac, Channel0)
    /\ bounce' = [bounce EXCEPT ![t] = NoBuffer]
    /\ spi' = Stopped(spi)

\* The rest of a read: the data, two bytes of CRC, the end.
FinishRead(t) ==
    /\ EndsDma(t) /\ call[t].op = "read"
    /\ got' = [got EXCEPT ![t] = bounce[t]]
    /\ card' = sd_end_cmd(sd_read_data(gpiohs, card, 2).card)
    /\ gpiohs' = SD_CS_HIGH(gpiohs)
    /\ releasesleep
    /\ pc'   = [pc EXCEPT ![t] = "none"]
    /\ call' = [call EXCEPT ![t] = NoCall]
    /\ UNCHANGED <<io, on, plic, dma, medium, boot>>

\* What a card may do with the CRC of a block: take it and program the sector, with a
\* busy signal that may outlast the driver's polling; refuse it; or not answer.
Programs(c) ==
    {[medium |-> [medium EXCEPT ![c.sector] = c.in],
      card   |-> [c EXCEPT !.phase = "command", !.in = <<>>, !.out = <<229>> \o busy]] :
        busy \in {<<0, 255>>, <<0, 0, 0, 0>>}}
BlockDone(c) ==
    IF ~Heard(gpiohs, Writing) \/ c.phase # "crc" THEN {[medium |-> medium, card |-> c]}
    ELSE Programs(c) \cup {[medium |-> medium, card |-> [c EXCEPT !.phase = "command", !.out = o]] :
                              o \in {<<235>>, <<>>}}

\* The data response, and the end of programming (the 0xff after the busy signal, or
\* none within the polling).
FinishWrite(t) ==
    /\ EndsDma(t) /\ call[t].op = "write"
    /\ \E done \in BlockDone(card) :
          LET response == sd_read_data(gpiohs, done.card, 1)
              busy     == sd_read_data(gpiohs, response.card, 4)
              fails    == \/ response.data[1] % 32 # 5
                          \/ \A i \in 1..4 : busy.data[i] = 0
          IN  /\ medium' = done.medium
              /\ \/ fails /\ Panics /\ card' = busy.card /\ UNCHANGED <<gpiohs, pc>>
                 \/ /\ ~fails
                    /\ card' = sd_end_cmd(busy.card)
                    /\ gpiohs' = SD_CS_HIGH(gpiohs)
                    /\ pc' = [pc EXCEPT ![t] = "status"]
                    /\ UNCHANGED <<boot, owner, state>>
    /\ UNCHANGED <<io, on, plic, dma, call, got>>

CheckStatus(t) ==
    /\ At(t, "status")
    /\ \E o \in Exchange(card, 13, 0, 1) :
          LET fails == o.result # 0 \/ o.frame # <<0>>
          IN  /\ card' = o.card
              /\ \/ fails /\ Panics /\ UNCHANGED <<pc, call>>
                 \/ /\ ~fails
                    /\ releasesleep
                    /\ pc'   = [pc EXCEPT ![t] = "none"]
                    /\ call' = [call EXCEPT ![t] = NoCall]
                    /\ UNCHANGED boot
    /\ spi' = Stopped(Reading(1)) /\ gpiohs' = SD_CS_HIGH(gpiohs)
    /\ UNCHANGED <<io, on, plic, dma, medium, bounce, got>>

-----------------------------------------------------------------------------
(* The DMA controller and its interrupt.                                      *)

\* A word moved between the buffer and the SPI data register; with the last one the
\* channel switches itself off and raises its interrupt.
Beat ==
    LET ch == dmac.channel[Channel0]
        n  == moved.words + 1
        at(inc) == IF inc THEN n ELSE 1
        buffer == bounce[moved.of]
    IN  /\ stage = "up" /\ ch.en /\ dmac.dmac_en /\ "DMA" \in on
        /\ \/ /\ RxRequest(spi, dma_sel, Channel0) /\ ch.tt_fc = "PRF2MEM" /\ n <= spi.frames + 1
              /\ bounce' = IF at(ch.dinc) \notin DOMAIN buffer THEN bounce
                           ELSE [bounce EXCEPT ![moved.of][at(ch.dinc)] =
                                    IF Heard(gpiohs, spi) THEN Shown(card) ELSE 255]
              /\ card' = IF Heard(gpiohs, spi) THEN Shifted(card) ELSE card
           \/ /\ TxRequest(spi, dma_sel, Channel0) /\ ch.tt_fc = "MEM2PRF"
              /\ \E byte \in IF at(ch.sinc) \in DOMAIN buffer THEN {buffer[at(ch.sinc)]} ELSE 0..1 :
                    card' = IF Heard(gpiohs, spi) THEN Receives(card, byte) ELSE card
              /\ UNCHANGED bounce
        /\ moved' = [moved EXCEPT !.words = n]
        /\ IF n <= ch.block_ts THEN UNCHANGED <<dmac, plic>>
           ELSE /\ dmac' = [dmac EXCEPT !.channel[Channel0].en = FALSE,
                                        !.channel[Channel0].intstatus = ch.intstatus_en]
                /\ plic' = [plic EXCEPT !.pending = @ \/ ( /\ ch.intstatus_en /\ dmac.int_en
                                                          /\ DISK_IRQ \in plic.priority)]
        /\ UNCHANGED <<pins, on, dma_sel, spi, medium, boot, owner, pc, state, call, got>>

\* The trap: plic_claim(), disk_intr(), plic_complete().
dmac_intr ==
    /\ stage = "up" /\ plic.pending /\ DISK_IRQ \in plic.enabled
    /\ dmac' = dmac_chanel_interrupt_clear(dmac, Channel0)
    /\ plic' = [plic EXCEPT !.pending = FALSE]
    /\ state' = Woken("dma")
    /\ UNCHANGED <<pins, on, dma_sel, moved, spi, card, medium, boot, owner, pc, call, bounce, got>>

\* do_exit() of a child makes its parent ready whatever it sleeps for.
ChildExits(t) ==
    /\ stage = "up" /\ state[t] = "SLEEPING"
    /\ state' = [state EXCEPT ![t] = "READY"]
    /\ UNCHANGED <<pins, on, plic, dma, spi, card, medium, boot, owner, pc, call, bounce, got>>

Step(t) == \/ Sleeps(t) \/ sdcard_read_sector(t) \/ sdcard_write_sector(t)
           \/ FinishRead(t) \/ FinishWrite(t) \/ CheckStatus(t)

Next == \/ PlicInit \/ PinInit \/ DmacInit \/ SdLowlevel \/ sdcard_init
        \/ Beat \/ dmac_intr
        \/ \E t \in Tasks : Begin(t) \/ Step(t) \/ ChildExits(t)

Spec == Init /\ [][Next]_vars

-----------------------------------------------------------------------------
TypeOK ==
    /\ io \in [Ios -> fpioa_io_config_t] /\ on \subseteq Clocks
    /\ gpiohs \in [output_en : SUBSET {7}, input_en : SUBSET {7}, output_val : SUBSET {7}]
    /\ dma_sel \in [DmaChannels -> DmaSelects] /\ dmac \in dmac_t /\ spi \in spi_t
    /\ moved \in [of : Tasks \cup {Nobody}, words : 0..BSIZE]
    /\ medium \in [Sectors -> Blocks]
    /\ left \in 0..Tries /\ is_standard_sd \in BOOLEAN
    /\ owner \in Tasks \cup {Nobody}
    /\ pc \in [Tasks -> {"none", "lock", "dma", "status"}]
    /\ state \in [Tasks -> {"READY", "SLEEPING"}]
    /\ call \in [Tasks -> Calls \cup {NoCall}]
    /\ got \in [Tasks -> Blocks]

\* The initialization leaves driver and card agreed on what an address means, and every
\* command finds the card waiting for one: none is sent in the middle of a transfer.
ProtocolKept == ~card.misused

\* While the DMA channel runs, the transfer is still that of the task that holds
\* sdcard_lock: it waits, its buffer is not freed, the card is selected and the
\* controller runs, whatever woke the tasks meanwhile.
DmaOwned ==
    dmac.channel[Channel0].en =>
        \E t \in Tasks : /\ moved.of = t /\ owner = t /\ pc[t] = "dma"
                         /\ bounce[t] # NoBuffer
                         /\ Selected(gpiohs) /\ Running(spi)

\* Whoever sleeps will be woken: for the lock there is a holder, for the DMA channel
\* a running transfer or an interrupt not yet served.
NoLostWakeup ==
    \A t \in Tasks : state[t] = "SLEEPING" =>
        \/ pc[t] = "lock" /\ owner # Nobody
        \/ pc[t] = "dma" /\ (dmac.channel[Channel0].en \/ plic.pending)

\* The tasks see a disk: a sector changes only as a call writes it, and a read returns
\* what the sector holds, across lock, DMA and the card's answers.
Store == INSTANCE SectorStore WITH store <- medium
IsSectorStore == Store!Spec

=============================================================================
