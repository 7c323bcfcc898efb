-------------------------------- MODULE Fir63 --------------------------------
(***************************************************************************)
(* src/ip/PDM/fir_16b63t.vhd: the filter over 63 samples of the 64 kHz     *)
(* buffer, one multiplication per clock, as a record of its registers and  *)
(* a function that takes it through one system clock.  PdmCore contains    *)
(* one.                                                                    *)
(*                                                                         *)
(* The arithmetic is symbolic: a product is the pair of the coefficient    *)
(* address and the sample, ADD_RESULT the sequence of the products added   *)
(* since ADD_CLR.  What the adder gathers outside a calculation, and loses *)
(* to ADD_CLR before the next, is left out.                                *)
(***************************************************************************)
EXTENDS Integers, Sequences

CONSTANTS
    TAP_NUM,   \* 63
    POS_MAX    \* samples of one channel in the buffer (128)

Reset == [STS |-> "SEQ_IDLE", CALC_CNT |-> 0, POS_CNT |-> 0, CH_REG |-> 0,
          CALC_DELAY |-> <<0, 0>>, COEF_DATA |-> 0, MULL_RESULT |-> <<>>,
          ADD_RESULT |-> <<>>, data_out |-> <<>>, write_out |-> 0]

busy(f) == f.STS # "SEQ_IDLE"

Sequencer(f, start) ==
    CASE f.STS = "SEQ_IDLE"  -> IF start THEN "SEQ_START" ELSE "SEQ_IDLE"
      [] f.STS = "SEQ_START" -> IF start THEN "SEQ_START" ELSE "SEQ_CALC"
      [] f.STS = "SEQ_CALC"  -> IF f.CALC_CNT = TAP_NUM - 1 THEN "SEQ_END0" ELSE "SEQ_CALC"
      [] f.STS = "SEQ_END0"  -> "SEQ_END1"
      [] f.STS = "SEQ_END1"  -> "SEQ_IDLE"

\* CALC_DELAY(1 downto 0); here bit 0 comes first.
ADD_CLR(f) == f.CALC_DELAY = <<1, 0>>
ADD_END(f) == f.CALC_DELAY = <<0, 1>>

\* Mutant: the adder is not cleared for a new sum.
Sum_NotCleared(f) == IF Len(f.ADD_RESULT) > 2 * TAP_NUM THEN <<>>
                     ELSE IF f.CALC_DELAY = <<0, 0>> THEN f.ADD_RESULT
                     ELSE Append(f.ADD_RESULT, f.MULL_RESULT)

\* ADD_CLR is asynchronous and holds the adder at zero over the clock edge
\* that ends the clock in which it is set.
Sum(f) == IF ADD_CLR(f) \/ f.CALC_DELAY = <<0, 0>> THEN <<>>
          ELSE Append(f.ADD_RESULT, f.MULL_RESULT)

\* start, ch, pos and sample (buf_datain) are the inputs during this clock.
Clock(f, start, ch, pos, sample) ==
    [STS |-> Sequencer(f, start),
     CALC_CNT |-> IF start THEN 0
                  ELSE IF f.STS = "SEQ_CALC" /\ f.CALC_CNT < TAP_NUM - 1 THEN f.CALC_CNT + 1
                  ELSE f.CALC_CNT,
     POS_CNT |-> IF start THEN pos
                 ELSE IF f.STS = "SEQ_CALC" THEN (f.POS_CNT + 1) % POS_MAX ELSE f.POS_CNT,
     CH_REG |-> IF start THEN ch ELSE f.CH_REG,
     CALC_DELAY |-> <<IF f.STS = "SEQ_CALC" THEN 1 ELSE 0, f.CALC_DELAY[1]>>,
     COEF_DATA |-> f.CALC_CNT,
     MULL_RESULT |-> <<f.COEF_DATA, sample>>,
     ADD_RESULT |-> Sum(f),
     data_out |-> IF ADD_END(f) THEN f.ADD_RESULT ELSE f.data_out,
     write_out |-> IF ADD_END(f) THEN 1 ELSE 0]

\* The filter with what it has computed so far forgotten.
Forget(f) == [f EXCEPT !.MULL_RESULT = <<>>, !.ADD_RESULT = <<>>, !.data_out = <<>>]
=============================================================================
