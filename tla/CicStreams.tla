----------------------------- MODULE CicStreams -----------------------------
(***************************************************************************)
(* The streams of the bit-true filter model, CIC_data of CIC.cpp: a file   *)
(* of sample vectors, one per clock cycle, is dealt out to the channels of *)
(* each interface, filtered channel by channel with the rate given in the  *)
(* file, and put together again.  A reset or another rate starts afresh.   *)
(*                                                                         *)
(* A decimator has several interfaces at its input and one at its output,  *)
(* an interpolator the other way round.  A sample is <<line, interface>>;  *)
(* what the filter makes of a channel (module Cic) is <<n, data>>, the     *)
(* n-th sample made of all of the channel's data.  Empty lines and lines   *)
(* of another length end the program, and are left out.                    *)
(***************************************************************************)
EXTENDS Naturals, SequencesExt

CONSTANTS
    N_stages, interfaces, channels,
    RATES,              \* rates a line may ask for
    LINES               \* bound on the lines of the file

VARIABLES
    filter_type,
    file,               \* the lines read: a rate, or RESET
    reset_start, current_rate,
    rates,              \* CIC_data::rate, what was loaded for each period
    step,               \* "load", "execute", "store", "done" or "aborted"
    at,                 \* periods executed or stored
    output              \* lines stored, each a vector or RATE_CHANGE

vars == <<filter_type, file, reset_start, current_rate, rates, step, at, output>>

Decimates == filter_type = "Decimator"
interfaces_in == IF Decimates THEN interfaces ELSE 1
channels_in == IF Decimates THEN channels ELSE channels * interfaces

ZERO == << >>
RESET == 0
RATE_CHANGE == << >>

----------------------------------------------------------------------------
(* CIC_data_single_interface: channels that take turns                      *)

NewInterface(count) ==
    [channel_vec |-> [c \in 0 .. count - 1 |-> << >>], write_channel_index |-> 0]

append_data(itf, value) ==
    [channel_vec |-> [itf.channel_vec EXCEPT ![itf.write_channel_index] = Append(@, value)],
     write_channel_index |-> (itf.write_channel_index + 1) % Cardinality(DOMAIN itf.channel_vec)]

get_data(itf, clock_cycle) ==
    LET count == Cardinality(DOMAIN itf.channel_vec)
        data == itf.channel_vec[clock_cycle % count]
        n == clock_cycle \div count
    IN  IF n < Len(data) THEN data[n + 1] ELSE ZERO

get_sample_length(itf) == Len(itf.channel_vec[0]) * Cardinality(DOMAIN itf.channel_vec)

\* CIC_data_single_channel::execute_CIC, with the length of what it makes: of each rate
\* samples one, after the first N_stages, or rate samples for each.
FilteredLength(len, r) == IF Decimates THEN (len - N_stages + r - 1) \div r ELSE len * r
Filtered(data, r) == [n \in 1 .. FilteredLength(Len(data), r) |-> <<n, data>>]

\* delay(N_stages) of a decimator resizes its vector to fewer than no samples.
TooShort(period) ==
    Decimates /\ \E j \in DOMAIN period.interface :
                    \E c \in DOMAIN period.interface[j].channel_vec :
                      Len(period.interface[j].channel_vec[c]) < N_stages

----------------------------------------------------------------------------
(* CIC_data_single_rate: the interfaces of a period, a sequence             *)

InterfaceByInterface(itfs) ==
    LET length == get_sample_length(itfs[1])
    IN  [k \in 1 .. length * Len(itfs) |-> get_data(itfs[((k - 1) \div length) + 1], (k - 1) % length)]
\* All samples in the order of the clock: of each cycle, those of all interfaces.
InOrder(itfs) ==
    LET count == Len(itfs)
    IN  [k \in 1 .. get_sample_length(itfs[1]) * count |->
           get_data(itfs[((k - 1) % count) + 1], (k - 1) \div count)]

combine_interfaces(itfs) ==
    LET total == Len(itfs) * Cardinality(DOMAIN itfs[1].channel_vec)
    IN  << FoldLeft(append_data, NewInterface(total), InOrder(itfs)) >>

separate_interfaces(itfs) ==
    LET each == Cardinality(DOMAIN itfs[1].channel_vec) \div interfaces
        dealt(so_far, value) ==
          [itfs |-> [so_far.itfs EXCEPT ![so_far.index + 1] = append_data(@, value)],
           index |-> (so_far.index + 1) % interfaces]
    IN  FoldLeft(dealt, [itfs |-> [j \in 1 .. interfaces |-> NewInterface(each)], index |-> 0],
                 InOrder(itfs)).itfs

execute_CIC(period) ==
    LET filtered == [j \in DOMAIN period.interface |->
          [period.interface[j] EXCEPT !.channel_vec =
             [c \in DOMAIN @ |-> Filtered(@[c], period.rate)]]]
    IN  [period EXCEPT !.interface = IF Decimates THEN combine_interfaces(filtered)
                                                  ELSE separate_interfaces(filtered)]

----------------------------------------------------------------------------
Init ==
    /\ filter_type \in {"Decimator", "Interpolator"}
    /\ file = << >> /\ reset_start = TRUE /\ current_rate = 0
    /\ rates = << >> /\ step = "load" /\ at = 0 /\ output = << >>

\* load_data: a line that says reset, or a sample of each interface and the rate.
ReadReset ==
    /\ step = "load" /\ Len(file) < LINES
    /\ file' = Append(file, RESET)
    /\ reset_start' = TRUE
    /\ UNCHANGED <<filter_type, current_rate, rates, step, at, output>>

NewPeriod(r) == [rate |-> r, interface |-> [j \in 1 .. interfaces_in |-> NewInterface(channels_in)]]
insert_data(period, values) ==
    [period EXCEPT !.interface = [j \in DOMAIN @ |-> append_data(@[j], values[j])]]

ReadSamples ==
    /\ step = "load" /\ Len(file) < LINES
    /\ \E r \in RATES :
         LET starts == reset_start \/ r # current_rate
             begun == IF starts THEN Append(rates, NewPeriod(r)) ELSE rates
             values == [j \in 1 .. interfaces_in |-> <<Len(file) + 1, j>>]
         IN  /\ file' = Append(file, r)
             /\ current_rate' = r
             /\ rates' = [begun EXCEPT ![Len(begun)] = insert_data(@, values)]
    /\ reset_start' = FALSE
    /\ UNCHANGED <<filter_type, step, at, output>>

EndOfFile ==
    /\ step = "load" /\ step' = "execute"
    /\ UNCHANGED <<filter_type, file, reset_start, current_rate, rates, at, output>>

\* CIC_data::execute_CIC, a period at a time.
Execute ==
    /\ step = "execute"
    /\ IF at = Len(rates) THEN step' = "store" /\ at' = 0 /\ UNCHANGED rates
       ELSE IF TooShort(rates[at + 1]) THEN step' = "aborted" /\ UNCHANGED <<rates, at>>
       ELSE /\ rates' = [rates EXCEPT ![at + 1] = execute_CIC(@)]
            /\ at' = at + 1 /\ UNCHANGED step
    /\ UNCHANGED <<filter_type, file, reset_start, current_rate, output>>

\* store_data, a period at a time.
Lines(period) ==
    [k \in 1 .. get_sample_length(period.interface[1]) |->
       [j \in DOMAIN period.interface |-> get_data(period.interface[j], k - 1)]]
Store ==
    /\ step = "store"
    /\ IF at < Len(rates)
       THEN /\ output' = output \o (IF at = 0 THEN << >> ELSE <<RATE_CHANGE>>) \o Lines(rates[at + 1])
            /\ at' = at + 1 /\ UNCHANGED step
       ELSE step' = "done" /\ UNCHANGED <<at, output>>
    /\ UNCHANGED <<filter_type, file, reset_start, current_rate, rates>>

Next == ReadReset \/ ReadSamples \/ EndOfFile \/ Execute \/ Store

Spec == Init /\ [][Next]_vars

----------------------------------------------------------------------------
(* Properties                                                               *)

IsSample(l) == file[l] # RESET
\* A line of samples starts a period if it is the first, follows a reset, or has another
\* rate than the line of samples before it.
Starts(l) == IsSample(l) /\ (l = 1 \/ file[l - 1] # file[l])
Periods == SelectSeq([l \in DOMAIN file |-> l], Starts)

\* The lines of the period that starts with line l, and the data of a channel in it: channel
\* m is the (m \div interfaces)-th of interface m % interfaces.
LinesOf(l) ==
    {k \in DOMAIN file : k >= l /\ \A x \in l + 1 .. k : IsSample(x) /\ ~ Starts(x)}
DataOf(l, m) ==
    LET mine == {k \in LinesOf(l) :
                   (k - l) % channels_in = IF Decimates THEN m \div interfaces ELSE m}
    IN  [n \in 1 .. Cardinality(mine) |->
           <<CHOOSE k \in mine : Cardinality({x \in mine : x < k}) = n - 1,
             IF Decimates THEN (m % interfaces) + 1 ELSE 1>>]

\* What cycle k of a period puts out: the channels in turn, on one interface or on all.
Out(l, k) ==
    LET total == channels * interfaces
        turn == IF Decimates THEN k % total ELSE k % channels
        n == IF Decimates THEN k \div total ELSE k \div channels
        made(m) == LET all == Filtered(DataOf(l, m), file[l])
                   IN  IF n < Len(all) THEN all[n + 1] ELSE ZERO
    IN  IF Decimates THEN <<made(turn)>>
        ELSE [j \in 1 .. interfaces |-> made(turn * interfaces + j - 1)]
OutOf(l) ==
    LET cycles == Len(Filtered(DataOf(l, 0), file[l])) * channels * (IF Decimates THEN interfaces ELSE 1)
    IN  [k \in 1 .. cycles |-> Out(l, k - 1)]

Expected ==
    FoldLeft(LAMBDA out, l : out \o (IF l = Periods[1] THEN << >> ELSE <<RATE_CHANGE>>) \o OutOf(l),
             << >>, Periods)

\* Each channel is filtered apart from the others and from what came before a reset or a
\* change of rate, and takes its turn at the output, whatever the mix of lines.
StreamsApart == step = "done" => output = Expected
==============================================================================
