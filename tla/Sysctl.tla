------------------------------- MODULE Sysctl -------------------------------
(***************************************************************************)
(* The K210's system controller (sysctl.c): gates of the clocks and the    *)
(* device behind each DMA channel.  Operators on the value of the          *)
(* registers: the set of clocks that are on, and dma_sel0/dma_sel1 as one  *)
(* function of the channel.                                                *)
(***************************************************************************)
EXTENDS Integers

BusOf ==      \* the devices behind each peripheral bus
    [APB0 |-> {"GPIO", "SPI2", "I2S0", "I2S1", "I2S2", "I2C0", "I2C1", "I2C2", "UART1",
               "UART2", "UART3", "FPIOA", "TIMER0", "TIMER1", "TIMER2", "SHA"},
     APB1 |-> {"AES", "WDT0", "WDT1", "OTP", "RTC"},
     APB2 |-> {"SPI0", "SPI1"}]

Buses    == DOMAIN BusOf
\* Clocks with a gate of their own and those without (ACLK, HCLK, IN0).
Gated    == {"PLL0", "PLL1", "PLL2", "CPU", "SRAM0", "SRAM1", "ROM", "DMA", "AI", "DVP",
             "FFT", "SPI3"} \cup Buses \cup UNION {BusOf[b] : b \in Buses}
Clocks   == Gated \cup {"ACLK", "HCLK", "IN0"}

\* A bus is switched on for its device, and never off.
sysctl_clock_bus_en(on, clock, en) ==
    on \cup {b \in Buses : en = 1 /\ clock \in BusOf[b]}

sysctl_clock_device_en(on, clock, en) ==
    IF clock \notin Gated THEN on
    ELSE IF en = 1 THEN on \cup {clock} ELSE on \ {clock}

sysctl_clock_enable(on, clock) ==
    IF clock \notin Clocks THEN on
    ELSE sysctl_clock_device_en(sysctl_clock_bus_en(on, clock, 1), clock, 1)

-----------------------------------------------------------------------------
DmaChannels == 0..5
DmaSelects  == 0..32
SSI0_RX_REQ == 0
SSI0_TX_REQ == 1

sysctl_dma_select(dma_sel, channel, select) ==
    IF channel \notin DmaChannels THEN dma_sel
    ELSE [dma_sel EXCEPT ![channel] = select]

=============================================================================
