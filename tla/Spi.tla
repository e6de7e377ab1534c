-------------------------------- MODULE Spi --------------------------------
(***************************************************************************)
(* alt_avalon_spi_command (altera_avalon_spi.c), the exchange of bytes     *)
(* with the serial flash, over the SPI core of the flash controller        *)
(* (nios_epcs_flash_controller_0.v, the module ..._sub).                   *)
(*                                                                         *)
(* The processor polls the core while the core shifts: each byte sent      *)
(* brings one back, the core holds one byte in each direction, and a byte  *)
(* that is not fetched before the next has been shifted is lost.  The      *)
(* slave is external: it answers the k-th byte since it was selected       *)
(* with k.                                                                 *)
(***************************************************************************)
EXTENDS Naturals, Integers, Sequences

CONSTANTS
    WRITES, READS,  \* values of write_length and read_length
    LINE            \* bound on the bytes exchanged while the slave stays selected

SpiAssumption == WRITES \subseteq Nat /\ READS \subseteq Nat /\ LINE \in Nat

VARIABLES
    holding, shifting,  \* tx_holding_reg if primed, shift_reg if transmitting: << >> or one byte
    rx, rrdy, roe,      \* rx_holding_reg, RRDY, ROE
    sso,                \* SSO_reg: the slave stays selected
    line,               \* the bytes the slave has taken since it was selected
    before,             \* what of them earlier, merged commands sent
    cpu                 \* next step of the call, its arguments and locals

core == <<holding, shifting, rx, rrdy, roe, sso>>
vars == <<core, line, before, cpu>>

Idle == [at |-> "idle", writes |-> 0, reads |-> 0, merge |-> FALSE, write_data |-> << >>,
         write_zeros |-> 0, read_ignore |-> 0, read_data |-> << >>, credits |-> 1,
         status |-> {}]

\* RXDATA may hold the last byte of an exchange that was broken off.
Init ==
    /\ holding = << >> /\ shifting = << >> /\ rx = 0 /\ rrdy \in BOOLEAN /\ roe = FALSE
    /\ sso = FALSE /\ line = << >> /\ before = << >> /\ cpu = Idle

----------------------------------------------------------------------------
(* The core                                                                 *)

\* write_shift_reg
Load ==
    /\ holding # << >> /\ shifting = << >>
    /\ shifting' = holding /\ holding' = << >>
    /\ UNCHANGED <<rx, rrdy, roe, sso, line, before, cpu>>

\* state == 17: the byte is with the slave, the slave's answer in RXDATA.
Shifted ==
    /\ shifting # << >>
    /\ line' = Append(line, shifting[1])
    /\ rx' = Len(line') /\ rrdy' = TRUE /\ roe' = (roe \/ rrdy)
    /\ shifting' = << >>
    /\ UNCHANGED <<holding, sso, before, cpu>>

Status ==
    (IF holding = << >> \/ shifting = << >> THEN {"TRDY"} ELSE {})
    \union (IF rrdy THEN {"RRDY"} ELSE {})
    \union (IF holding = << >> /\ shifting = << >> THEN {"TMT"} ELSE {})

----------------------------------------------------------------------------
(* The call                                                                 *)

\* The k-th of the caller's bytes is k; what is sent for the sake of the answer is 0.
Caller(n) == [k \in 1 .. n |-> k]

\* SLAVE_SEL and CONTROL are written.  With nothing to exchange the loop would not end;
\* epcs_commands.c always has a byte to write.
Select ==
    /\ cpu.at = "idle"
    /\ \E w \in WRITES, r \in READS, merge \in BOOLEAN :
         /\ w + r > 0 /\ Len(line) + w + r <= IF merge THEN LINE - 1 ELSE LINE
         /\ cpu' = [Idle EXCEPT !.at = "discard", !.writes = w, !.reads = r, !.merge = merge,
                                !.write_data = Caller(w), !.write_zeros = r, !.read_ignore = w]
    /\ sso' = TRUE /\ before' = line
    /\ UNCHANGED <<holding, shifting, rx, rrdy, roe, line>>

DiscardNot ==
    /\ cpu.at = "discard"
    /\ cpu' = [cpu EXCEPT !.at = "poll"]
    /\ UNCHANGED <<core, line, before>>
Discard ==
    /\ cpu.at = "discard"
    /\ rrdy' = FALSE
    /\ cpu' = [cpu EXCEPT !.at = "poll"]
    /\ UNCHANGED <<holding, shifting, rx, roe, sso, line, before>>

\* do .. while: nothing to do with this status.
Poll ==
    /\ cpu.at = "poll"
    /\ ("TRDY" \in Status /\ cpu.credits # 0) \/ "RRDY" \in Status
    /\ cpu' = [cpu EXCEPT !.at = "send", !.status = Status]
    /\ UNCHANGED <<core, line, before>>

\* "We must not send more than two bytes to the target before it has returned any."
SpentNot(credits) == credits
Spent(credits) == credits - 1
EarnedNot(credits) == credits
Earned(credits) == credits + 1

Put(b) == holding' = <<b>>

Send ==
    /\ cpu.at = "send"
    /\ IF "TRDY" \notin cpu.status \/ cpu.credits <= 0
       THEN cpu' = [cpu EXCEPT !.at = "take"] /\ UNCHANGED holding
       ELSE IF cpu.write_data # << >>
       THEN /\ Put(Head(cpu.write_data))
            /\ cpu' = [cpu EXCEPT !.at = "take", !.credits = Spent(cpu.credits),
                                  !.write_data = Tail(cpu.write_data)]
       ELSE IF cpu.write_zeros > 0
       THEN /\ Put(0)
            /\ cpu' = [cpu EXCEPT !.at = "take", !.credits = Spent(cpu.credits),
                                  !.write_zeros = cpu.write_zeros - 1]
       ELSE cpu' = [cpu EXCEPT !.at = "take", !.credits = -1024] /\ UNCHANGED holding
    /\ UNCHANGED <<shifting, rx, rrdy, roe, sso, line, before>>

Take ==
    /\ cpu.at = "take"
    /\ IF "RRDY" \notin cpu.status
       THEN cpu' = [cpu EXCEPT !.at = "poll"] /\ UNCHANGED rrdy
       ELSE LET ignore == IF cpu.read_ignore > 0 THEN cpu.read_ignore - 1 ELSE 0
                read == IF cpu.read_ignore > 0 THEN cpu.read_data ELSE Append(cpu.read_data, rx)
            IN  /\ rrdy' = FALSE
                /\ cpu' = [cpu EXCEPT !.read_ignore = ignore, !.read_data = read,
                               !.credits = Earned(cpu.credits),
                               !.at = IF ignore = 0 /\ Len(read) = cpu.reads
                                      THEN "finish" ELSE "poll"]
    /\ UNCHANGED <<holding, shifting, rx, roe, sso, line, before>>

\* Wait for TMT; release the slave unless another command is to follow.
Finish ==
    /\ cpu.at = "finish" /\ "TMT" \in Status
    /\ cpu' = [cpu EXCEPT !.at = "done"]
    /\ UNCHANGED <<core, line, before>>

Release ==
    /\ cpu.at = "done"
    /\ IF cpu.merge THEN UNCHANGED <<sso, line>> ELSE sso' = FALSE /\ line' = << >>
    /\ cpu' = Idle
    /\ UNCHANGED <<holding, shifting, rx, rrdy, roe, before>>

Continues == Discard \/ Poll \/ Send \/ Take \/ Finish \/ Release
Next == Load \/ Shifted \/ Select \/ Continues

Spec == Init /\ [][Next]_vars

\* The core is clocked and the processor runs; nobody need make a call.
FairSpec == Spec /\ WF_vars(Load) /\ WF_vars(Shifted) /\ WF_vars(Continues)

----------------------------------------------------------------------------
(* Properties                                                               *)

TypeOK ==
    /\ \A one \in {holding, shifting} : one = << >> \/ (Len(one) = 1 /\ one[1] \in Nat)
    /\ rx \in Nat /\ {rrdy, roe, sso, cpu.merge} \subseteq BOOLEAN
    /\ cpu.at \in {"idle", "discard", "poll", "send", "take", "finish", "done"}
    /\ cpu.credits \in -1024 .. 1
    /\ Len(line) <= LINE

\* When the call is over the slave has taken, since it was selected and after what
\* merged commands sent, the caller's bytes and then zeros, each once; and the caller has the
\* slave's answers to the zeros alone.
Exchanged ==
    cpu.at = "done" =>
        /\ line = before \o Caller(cpu.writes) \o [k \in 1 .. cpu.reads |-> 0]
        /\ cpu.read_data = [k \in 1 .. cpu.reads |-> Len(before) + cpu.writes + k]

\* "We must not send more than two bytes to the target before it has returned any as
\* otherwise it will overflow."
NoOverrun == ~ roe

\* Every call returns.
UnderWay == cpu.at # "idle"
CommandReturns == UnderWay ~> ~ UnderWay
============================================================================
