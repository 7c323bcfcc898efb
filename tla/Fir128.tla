-------------------------------- MODULE Fir128 -------------------------------
(***************************************************************************)
(* src/ip/PDM/fir_1b128t.vhd: the filter over 128 one-bit samples, eight   *)
(* of them (a byte) per clock, as a record of its registers and a function *)
(* that takes it through one system clock.  PdmCore contains one.          *)
(*                                                                         *)
(* The arithmetic is symbolic: the sum of the coefficients a byte selects  *)
(* is the pair of the coefficient address and the byte, RESULT the         *)
(* sequence of the pairs added so far.                                     *)
(***************************************************************************)
EXTENDS Integers, Sequences

CONSTANT Words     \* bytes of a window (16)

Reset == [STS |-> "SEQ_IDLE", CALC_CNT |-> 0, SUMTIM |-> <<0, 0>>, ROMQ |-> 0,
          ADD0_OUT |-> <<>>, RESULT |-> <<>>, valid_out |-> 0]

busy(f) == f.STS # "SEQ_IDLE"
addr_inc(f) == f.STS = "SEQ_CALC"

Sequencer(f, start) ==
    CASE f.STS = "SEQ_IDLE"  -> IF start THEN "SEQ_START" ELSE "SEQ_IDLE"
      [] f.STS = "SEQ_START" -> IF start THEN "SEQ_START" ELSE "SEQ_CALC"
      [] f.STS = "SEQ_CALC"  -> IF f.CALC_CNT = Words - 1 THEN "SEQ_END0" ELSE "SEQ_CALC"
      [] f.STS = "SEQ_END0"  -> "SEQ_END1"
      [] f.STS = "SEQ_END1"  -> "SEQ_IDLE"

\* Mutant: the sum starts and ends a clock early.
Sum_Early(f) == IF f.STS = "SEQ_START" THEN <<>>
                ELSE IF f.SUMTIM[1] = 1 THEN Append(f.RESULT, f.ADD0_OUT) ELSE f.RESULT

\* SUMTIM follows SEQ_CALC by two clocks: the ROM and the adder take one each.
Sum(f) == IF f.STS = "SEQ_START" THEN <<>>
          ELSE IF f.SUMTIM[2] = 1 THEN Append(f.RESULT, f.ADD0_OUT) ELSE f.RESULT

\* start and byte (bitdata_data_in) are the inputs during this clock.
Clock(f, start, byte) ==
    [STS |-> Sequencer(f, start),
     CALC_CNT |-> IF f.STS = "SEQ_START" THEN 0
                  ELSE IF f.STS = "SEQ_CALC" THEN f.CALC_CNT + 1 ELSE f.CALC_CNT,
     SUMTIM |-> <<IF f.STS = "SEQ_CALC" THEN 1 ELSE 0, f.SUMTIM[1]>>,
     ROMQ |-> f.CALC_CNT % Words,
     ADD0_OUT |-> <<f.ROMQ, byte>>,
     RESULT |-> Sum(f),
     valid_out |-> IF f.STS = "SEQ_END1" THEN 1 ELSE 0]

\* The filter with what it has computed so far forgotten.
Forget(f) == [f EXCEPT !.ADD0_OUT = <<>>, !.RESULT = <<>>]
=============================================================================
