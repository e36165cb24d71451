-------------------------------- MODULE Dmac --------------------------------
(***************************************************************************)
(* The K210's DMA controller (dmac.c): operators on the value of its       *)
(* registers.  Addresses are what is_memory() makes of them: "mem" or the  *)
(* SPI data register "dr".  A buffer is taken to be in the first 6 MB from *)
(* 0x80000000, all that is_memory() counts of the 8 MB there are.          *)
(***************************************************************************)
EXTENDS Integers, Sysctl

dmac_channel_t ==
    [en : BOOLEAN, intstatus_en : BOOLEAN, intstatus : BOOLEAN,
     tt_fc : {"MEM2MEM", "MEM2PRF", "PRF2MEM", "PRF2PRF"},
     sar : {"mem", "dr"}, dar : {"mem", "dr"}, sinc : BOOLEAN, dinc : BOOLEAN,
     block_ts : Nat]
dmac_t == [dmac_en : BOOLEAN, int_en : BOOLEAN, channel : [DmaChannels -> dmac_channel_t]]

is_memory(address) == address = "mem"

dmac_enable(d)  == [d EXCEPT !.dmac_en = TRUE, !.int_en = TRUE]
dmac_disable(d) == [d EXCEPT !.dmac_en = FALSE, !.int_en = FALSE]

dmac_channel_enable(d, c) ==
    IF c \in DmaChannels THEN [d EXCEPT !.channel[c].en = TRUE] ELSE d
dmac_channel_disable(d, c) ==
    IF c \in DmaChannels THEN [d EXCEPT !.channel[c].en = FALSE] ELSE d

dmac_chanel_interrupt_clear(d, c) == [d EXCEPT !.channel[c].intstatus = FALSE]
dmac_enable_channel_interrupt(d, c) ==
    [d EXCEPT !.channel[c].intstatus = FALSE, !.channel[c].intstatus_en = TRUE]

FlowControl(src, dest) ==
    CASE ~is_memory(src) /\ ~is_memory(dest) -> "PRF2PRF"
      []  is_memory(src) /\ ~is_memory(dest) -> "MEM2PRF"
      [] ~is_memory(src) /\  is_memory(dest) -> "PRF2MEM"
      [] OTHER                               -> "MEM2MEM"

dmac_set_channel_param(d, c, src, dest, src_inc, dest_inc, blockSize) ==
    [d EXCEPT !.channel[c].tt_fc = FlowControl(src, dest),
              !.channel[c].sar = src, !.channel[c].dar = dest,
              !.channel[c].sinc = src_inc, !.channel[c].dinc = dest_inc,
              !.channel[c].block_ts = blockSize - 1]

dmac_is_idle(d, c) == ~d.channel[c].en

\* The wait in the middle never sleeps: a channel that was just disabled is idle.
dmac_set_single_mode(d, c, src, dest, src_inc, dest_inc, block_size) ==
    LET stopped == dmac_channel_disable(dmac_chanel_interrupt_clear(d, c), c)
        set     == dmac_set_channel_param(stopped, c, src, dest, src_inc, dest_inc,
                                          block_size)
    IN  dmac_channel_enable(dmac_enable_channel_interrupt(dmac_enable(set), c), c)

\* Reset, everything off, then on again; the last two channels are not touched.
dmac_init(d) ==
    dmac_enable([dmac_disable(d) EXCEPT !.channel = [c \in DmaChannels |->
                    IF c < 4 THEN [@[c] EXCEPT !.en = FALSE] ELSE @[c]]])

=============================================================================
