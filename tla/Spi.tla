-------------------------------- MODULE Spi ---------------------------------
(***************************************************************************)
(* The SPI controller (spi.c), of which the kernel uses SPI0: operators on *)
(* the value of its registers.  A frame is a byte; a transfer by the       *)
(* processor polls the FIFOs to its end and is one step.                   *)
(***************************************************************************)
EXTENDS Integers, Dmac

SPI_CHIP_SELECT_3 == 3

spi_t ==
    [tmod : {"TRANS_RECV", "TRANS", "RECV", "EEROM"}, frames : Nat, ssienr : BOOLEAN,
     ser : SUBSET {SPI_CHIP_SELECT_3}, dmacr : SUBSET {"rx", "tx"}, dfs : Nat]

\* Stops the controller whatever it is doing.
spi_init(s, data_bit_length) ==
    [s EXCEPT !.dmacr = {}, !.ser = {}, !.ssienr = FALSE, !.tmod = "TRANS_RECV",
              !.dfs = data_bit_length - 1]

spi_set_tmod(s, tmod) == [s EXCEPT !.tmod = tmod]

spi_get_frame_size(data_bit_length) ==
    IF data_bit_length < 8 THEN 1 ELSE IF data_bit_length < 16 THEN 2 ELSE 4

\* What the wires need of the controller for bytes to pass.
Running(s) == s.ssienr /\ s.ser # {}

Stopped(s) == [s EXCEPT !.ser = {}, !.ssienr = FALSE]

\* The registers while spi_send_data_normal() and spi_receive_data_standard() poll.
spi_send_data_normal(s) ==
    [spi_set_tmod(s, "TRANS") EXCEPT !.ssienr = TRUE, !.ser = {SPI_CHIP_SELECT_3}]

spi_receive_data_standard(s, rx_len) ==
    LET v_rx_len == rx_len \div spi_get_frame_size(s.dfs)
    IN  [spi_set_tmod(s, "RECV") EXCEPT !.frames = v_rx_len - 1, !.ssienr = TRUE,
                                        !.ser = {SPI_CHIP_SELECT_3}]

\* spi_receive_data_standard_dma() and spi_send_data_standard_dma() up to
\* dmac_wait_done(), as <<spi, dma_sel, dmac>>: the channel runs between the SPI data
\* register and a buffer of words that kmalloc() has cleared or that holds the data.
spi_receive_data_normal_dma_NoIncrement(s, dma_sel, d, c, rx_len) ==
    \* mutant: the address is not incremented
    << [spi_set_tmod(s, "RECV") EXCEPT !.frames = rx_len - 1, !.dmacr = {"rx", "tx"},
                                       !.ssienr = TRUE, !.ser = {SPI_CHIP_SELECT_3}],
       sysctl_dma_select(dma_sel, c, SSI0_RX_REQ),
       dmac_set_single_mode(d, c, "dr", "mem", FALSE, FALSE, rx_len) >>

spi_receive_data_normal_dma(s, dma_sel, d, c, rx_len) ==
    << [spi_set_tmod(s, "RECV") EXCEPT !.frames = rx_len - 1, !.dmacr = {"rx", "tx"},
                                       !.ssienr = TRUE, !.ser = {SPI_CHIP_SELECT_3}],
       sysctl_dma_select(dma_sel, c, SSI0_RX_REQ),
       dmac_set_single_mode(d, c, "dr", "mem", FALSE, TRUE, rx_len) >>

spi_send_data_normal_dma(s, dma_sel, d, c, tx_len) ==
    << [spi_set_tmod(s, "TRANS") EXCEPT !.dmacr = {"tx"}, !.ssienr = TRUE,
                                        !.ser = {SPI_CHIP_SELECT_3}],
       sysctl_dma_select(dma_sel, c, SSI0_TX_REQ),
       dmac_set_single_mode(d, c, "mem", "dr", TRUE, FALSE, tx_len) >>

\* What the DMA request line of the controller asks for, and of whom.
RxRequest(s, dma_sel, c) ==
    Running(s) /\ s.tmod = "RECV" /\ "rx" \in s.dmacr /\ dma_sel[c] = SSI0_RX_REQ
TxRequest(s, dma_sel, c) ==
    Running(s) /\ s.tmod = "TRANS" /\ "tx" \in s.dmacr /\ dma_sel[c] = SSI0_TX_REQ

=============================================================================
