------------------------------- MODULE Fpioa --------------------------------
(***************************************************************************)
(* The K210's pins: which function each of the 48 IOs carries (fpioa.c),   *)
(* and the high-speed GPIO that drives some of them (gpiohs.c, utils.c).   *)
(* Operators on the value of the registers; the module that composes the   *)
(* board has the variables.                                                *)
(***************************************************************************)
EXTENDS Integers, TLC

FPIOA_NUM_IO == 48
Ios == 0..(FPIOA_NUM_IO - 1)
Functions == 0..255          \* fpioa_function_t below FUNC_MAX

FUNC_SPI0_D0   == 4
FUNC_SPI0_D1   == 5
FUNC_SPI0_SS3  == 15
FUNC_SPI0_SCLK == 17
FUNC_GPIOHS0   == 24
FUNC_GPIOHS7   == 31
FUNC_RESV0     == 120

-----------------------------------------------------------------------------
(* The table function_config: how the pad of each function is set.          *)

Off       == [ds |-> 0, oe_en |-> 0, oe_inv |-> 0, ie_en |-> 0, ie_inv |-> 0,
              pu |-> 0, pd |-> 0, sl |-> 0, st |-> 0]
Input     == [Off EXCEPT !.ie_en = 1, !.st = 1]
Output    == [Off EXCEPT !.oe_en = 1, !.ds = 15]
InOut     == [Output EXCEPT !.ie_en = 1, !.st = 1]
Steered   == [InOut EXCEPT !.oe_inv = 1, !.ie_inv = 1]   \* by its controller
PulledUp  == [Input EXCEPT !.pu = 1]
OpenDrain == [PulledUp EXCEPT !.oe_en = 1, !.sl = 1]

AllOf(fs, pad) == [f \in fs |-> pad]
Pads(inputs, outputs) == AllOf(inputs, Input) @@ AllOf(outputs, Output)
SpiPads(first) ==      \* D0..D7, SS0..SS3, ARB, SCLK
    AllOf(first .. first + 7, Steered)
      @@ Pads({first + 12}, (first + 8 .. first + 11) \cup {first + 13})
I2sPads(first) ==      \* MCLK, SCLK, WS, four inputs, four outputs
    Pads(first + 3 .. first + 6, (first .. first + 2) \cup (first + 7 .. first + 10))
ModemPads(first) ==    \* five inputs, nine outputs
    Pads(first .. first + 4, first + 5 .. first + 13)

Jtag     == Pads(0..2, {3})
Spi0     == SpiPads(4)
Uarths   == Pads({18}, {19})
Clk1     == Pads(20..21, 22..23)          \* RESV6, RESV7, CLK_SPI1, CLK_I2C1
Gpiohs   == AllOf(24..55, InOut)
Gpio     == AllOf(56..63, InOut)
Uarts    == Pads({64, 66, 68}, {65, 67, 69})
Spi1     == SpiPads(70)
SpiSlave == AllOf({84}, Steered) @@ Pads({85, 86}, {})
I2s0     == I2sPads(87)
I2s1     == I2sPads(98)
I2s2     == I2sPads(109)
Resv     == AllOf(120..125, Off)
I2c      == AllOf(126..131, OpenDrain)
Cmos     == Pads(135..145, 132..134)
Sccb     == AllOf(146..147, [OpenDrain EXCEPT !.oe_inv = 1])
Uart1    == ModemPads(148)
Uart2    == ModemPads(162)
Uart3    == ModemPads(176)
Timers   == Pads({}, 190..201)
Clk2     == Pads({}, 202..203)            \* CLK_SPI2, CLK_I2C2
Internal == Pads((213..216) \cup (219..221) \cup {223}, 204..212)
              @@ AllOf({217}, PulledUp) @@ AllOf({218}, [OpenDrain EXCEPT !.ds = 15])
              @@ AllOf({222}, Off)        \* FUNC_CONSTANT
Debug    == Pads({}, 224..253) @@ AllOf({254, 255}, Off)

function_config ==
    Jtag @@ Spi0 @@ Uarths @@ Clk1 @@ Gpiohs @@ Gpio @@ Uarts @@ Spi1 @@ SpiSlave
      @@ I2s0 @@ I2s1 @@ I2s2 @@ Resv @@ I2c @@ Cmos @@ Sccb @@ Uart1 @@ Uart2 @@ Uart3
      @@ Timers @@ Clk2 @@ Internal @@ Debug

-----------------------------------------------------------------------------
(* fpioa->io[]: the function of each IO and the setting of its pad.         *)

fpioa_io_config_t == [ch_sel : Functions, pad : {function_config[f] : f \in Functions}
                          \cup {[InOut EXCEPT !.pd = 1]}]

Carrying(f) == [ch_sel |-> f, pad |-> function_config[f]]

fpioa_set_function_raw(io, number, function) ==
    IF number \notin Ios \/ function \notin Functions THEN io
    ELSE [io EXCEPT ![number] = Carrying(function)]

\* A function is taken off every other IO that carries it.
fpioa_set_function(io, number, function) ==
    IF number \notin Ios \/ function \notin Functions THEN io
    ELSE IF function = FUNC_RESV0 THEN fpioa_set_function_raw(io, number, FUNC_RESV0)
    ELSE [i \in Ios |->
            IF i = number THEN Carrying(function)
            ELSE IF io[i].ch_sel = function THEN Carrying(FUNC_RESV0)
            ELSE io[i]]

fpioa_set_io_pull(io, number, pull) ==
    IF number \notin Ios THEN io
    ELSE [io EXCEPT ![number].pad.pu = IF pull = "UP" THEN 1 ELSE 0,
                    ![number].pad.pd = IF pull = "DOWN" THEN 1 ELSE 0]

\* The first IO that carries the function, or -1.
fpioa_get_io_by_function(io, function) ==
    IF \E i \in Ios : io[i].ch_sel = function
    THEN CHOOSE i \in Ios : /\ io[i].ch_sel = function
                            /\ \A j \in 0..(i - 1) : io[j].ch_sel # function
    ELSE -1

fpioa_pin_init(io) ==
    LET clk  == fpioa_set_function(io,   27, FUNC_SPI0_SCLK)
        out  == fpioa_set_function(clk,  28, FUNC_SPI0_D0)
        in   == fpioa_set_function(out,  26, FUNC_SPI0_D1)
        cs   == fpioa_set_function(in,   32, FUNC_GPIOHS7)
    IN  fpioa_set_function(cs, 29, FUNC_SPI0_SS3)

-----------------------------------------------------------------------------
(* gpiohs: the registers output_en, input_en and output_val as sets of pins. *)

set_gpio_bit(bits, offset, value) ==
    IF value = 1 THEN bits \cup {offset} ELSE bits \ {offset}

DriveModes == {"INPUT", "INPUT_PULL_DOWN", "INPUT_PULL_UP", "OUTPUT"}

PullOf(mode) == CASE mode = "INPUT"           -> "NONE"
                  [] mode = "INPUT_PULL_DOWN" -> "DOWN"
                  [] mode = "INPUT_PULL_UP"   -> "UP"
                  [] mode = "OUTPUT"          -> "DOWN"

\* The IO's pull and the direction bits, as <<io, gpiohs>>.
gpiohs_set_drive_mode(io, gpiohs, pin, mode) ==
    LET dir == IF mode = "OUTPUT" THEN 1 ELSE 0
    IN  << fpioa_set_io_pull(io, fpioa_get_io_by_function(io, FUNC_GPIOHS0 + pin),
                             PullOf(mode)),
           [gpiohs EXCEPT !.output_en = set_gpio_bit(@, pin, dir),
                          !.input_en  = set_gpio_bit(@, pin, 1 - dir)] >>

gpiohs_set_pin(gpiohs, pin, value) ==
    [gpiohs EXCEPT !.output_val = set_gpio_bit(@, pin, value)]

=============================================================================
