--------------------------------- MODULE Cic ---------------------------------
(***************************************************************************)
(* The decimating filter of the receiver and its mirror image, the         *)
(* interpolating one, as CIC.cpp gives them: the bit-true model of the     *)
(* filter core (no pruning).                                               *)
(*                                                                         *)
(* Integrators grow without limit for ever and wrap around; the filter is  *)
(* right only because the differentiators that follow wrap around too.     *)
(* What the filter computes is a chain of moving sums: Reference says so   *)
(* in numbers that do not wrap.                                            *)
(***************************************************************************)
EXTENDS Naturals, Integers, Sequences

CONSTANTS
    N_stages, D_Delay, rate,
    WIDTH,              \* bits of a word, 64 in CIC.cpp
    B_in, B_out,        \* bits of a sample, before and after
    LENGTH              \* samples

VARIABLES
    filter_type, rounding_type,     \* arguments of execute_CIC
    input,                          \* what was loaded
    data,                           \* the samples, 0 .. length - 1
    i                               \* stages done; 2 * N_stages + 1 when rounded

vars == <<filter_type, rounding_type, input, data, i>>

Wrap(v) == ((v + 2 ^ (WIDTH - 1)) % 2 ^ WIDTH) - 2 ^ (WIDTH - 1)
Samples(len) == 0 .. len - 1
Length(d) == IF 0 \in DOMAIN d THEN CHOOSE n \in 1 .. LENGTH * rate : DOMAIN d = Samples(n) ELSE 0

----------------------------------------------------------------------------
(* The stages                                                               *)

integrate_at_once(d) ==
    LET result[n \in DOMAIN d] == Wrap(d[n] + (IF n = 0 THEN 0 ELSE result[n - 1]))
    IN  result
integrate(d) ==
    LET result[n \in DOMAIN d] == IF n = 0 THEN 0 ELSE Wrap(d[n - 1] + result[n - 1])
    IN  result

differentiate(d) ==
    [n \in DOMAIN d |-> IF n < D_Delay THEN d[n] ELSE Wrap(d[n] - d[n - D_Delay])]

delay(d, by) == [n \in Samples(Length(d) - by) |-> d[n + by]]
downsample(d) == [n \in Samples((Length(d) + rate - 1) \div rate) |-> d[n * rate]]
upsample(d) == [n \in Samples(Length(d) * rate) |-> IF n % rate = 0 THEN d[n \div rate] ELSE 0]

\* An iteration of the loop of decimate() and of interpolate().
Stage(d, j) ==
    LET halfway == IF j # N_stages THEN d
                   ELSE IF filter_type = "Decimator" THEN downsample(delay(d, N_stages))
                   ELSE upsample(d)
    IN  IF (j < N_stages) = (filter_type = "Decimator")
        THEN integrate(halfway) ELSE differentiate(halfway)

----------------------------------------------------------------------------
(* Rounding                                                                 *)

Growth == (rate * D_Delay) ^ N_stages
Bits(v) == CHOOSE b \in 0 .. 31 : 2 ^ b >= v /\ \A c \in 0 .. b - 1 : 2 ^ c < v

\* Bits of the widest result: B_max() + 1, or its counterpart for the interpolator,
\* where all but one of rate successive samples are 0.
B_max1 == IF filter_type = "Decimator" THEN Bits(Growth * 2 ^ (B_in - 1)) + 1
          ELSE Bits((Growth \div rate) * 2 ^ B_in)
truncate_by == B_max1 - B_out

Below(v, bits) == v % 2 ^ bits
truncate(v, bits) == v \div 2 ^ bits
Half(v, bits) == bits >= 1 /\ Below(v, bits) >= 2 ^ (bits - 1)

\* The half bit is set, and a bit below it or the one above.
convergent_round_up(v, bits) == truncate(IF Half(v, bits) THEN Wrap(v + 2 ^ bits) ELSE v, bits)
convergent_round(v, bits) ==
    truncate(IF Half(v, bits) /\ (Below(v, bits - 1) # 0 \/ truncate(v, bits) % 2 = 1)
             THEN Wrap(v + 2 ^ bits) ELSE v, bits)
round_up(v, bits) == truncate(IF Half(v, bits) THEN Wrap(v + 2 ^ bits) ELSE v, bits)
saturate(v, bits) ==
    IF v < -(2 ^ (bits - 1)) THEN -(2 ^ (bits - 1))
    ELSE IF v > 2 ^ (bits - 1) - 1 THEN 2 ^ (bits - 1) - 1 ELSE v

Rounded(v) ==
    CASE rounding_type = "TRUNCATE" -> truncate(v, truncate_by)
      [] rounding_type = "CONV_ROUND" -> convergent_round(v, truncate_by)
      [] rounding_type = "ROUND_UP" -> round_up(v, truncate_by)
      [] rounding_type = "SATURATE" -> saturate(v, B_out)

----------------------------------------------------------------------------
(* execute_CIC                                                              *)

Init ==
    /\ filter_type \in {"Decimator", "Interpolator"}
    /\ rounding_type \in {"TRUNCATE", "CONV_ROUND", "ROUND_UP", "SATURATE"}
    /\ input \in [Samples(LENGTH) -> {-(2 ^ (B_in - 1)), 2 ^ (B_in - 1) - 1}]
    /\ data = input /\ i = 0

Step ==
    /\ i < 2 * N_stages
    /\ data' = Stage(data, i) /\ i' = i + 1
    /\ UNCHANGED <<filter_type, rounding_type, input>>

Round ==
    /\ i = 2 * N_stages
    /\ data' = [n \in DOMAIN data |-> Rounded(data[n])] /\ i' = i + 1
    /\ UNCHANGED <<filter_type, rounding_type, input>>

Next == Step \/ Round
Spec == Init /\ [][Next]_vars

----------------------------------------------------------------------------
(* Properties                                                               *)

\* The sum of the last rate * D_Delay samples, N_stages times over, of the samples at
\* the higher rate.
Reference ==
    LET wide == IF filter_type = "Decimator" THEN input ELSE upsample(input)
        sum[j \in 0 .. N_stages, n \in DOMAIN wide] ==
            IF j = 0 THEN wide[n]
            ELSE LET run[k \in 0 .. rate * D_Delay] ==
                       IF k = 0 \/ k > n + 1 THEN 0
                       ELSE run[k - 1] + sum[j - 1, n - k + 1]
                 IN  run[IF n + 1 < rate * D_Delay THEN n + 1 ELSE rate * D_Delay]
    IN  [n \in DOMAIN wide |-> sum[N_stages, n]]

Expected == [n \in DOMAIN data |-> IF filter_type = "Decimator" THEN Reference[n * rate]
                                   ELSE IF n < N_stages THEN 0 ELSE Reference[n - N_stages]]

\* The chain of wrapping stages computes the moving sums exactly, however often the
\* integrators have wrapped around, if a word has B_max1 bits; and B_max1 bits hold every
\* moving sum.
WrapsRight ==
    i = 2 * N_stages =>
        /\ WIDTH >= B_max1 => data = Expected
        /\ \A n \in DOMAIN data : Expected[n] \in -(2 ^ (B_max1 - 1)) .. 2 ^ (B_max1 - 1) - 1

\* The rounded sample is the nearest to the result, ties going up or to the even one;
\* the truncated one is the nearest below; the saturated one the nearest of its range.
RoundsToNearest ==
    i > 2 * N_stages /\ WIDTH > B_max1 =>
        \A n \in DOMAIN data :
          LET unit == 2 ^ truncate_by
              error == 2 * (data[n] * unit - Expected[n])
          IN  CASE rounding_type = "TRUNCATE" -> error \in -2 * unit + 1 .. 0
                [] rounding_type = "ROUND_UP" -> error \in -unit + 1 .. unit
                [] rounding_type = "CONV_ROUND" ->
                     error \in -unit .. unit /\ (error \in {-unit, unit} /\ unit > 1 => data[n] % 2 = 0)
                [] OTHER -> \A v \in -(2 ^ (B_out - 1)) .. 2 ^ (B_out - 1) - 1 :
                              (data[n] - Expected[n]) ^ 2 <= (v - Expected[n]) ^ 2
==============================================================================
