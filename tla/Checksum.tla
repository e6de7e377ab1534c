------------------------------ MODULE Checksum ------------------------------
(***************************************************************************)
(* icmp_echo_check_summ of EthComm.vhd: the sum of the nineteen 16-bit     *)
(* words an echo reply has beside its checksum, as an integer, of which 20 *)
(* bits are kept and the upper 4 of them added to the lower 16 once.  The  *)
(* words are added one per step.                                           *)
(***************************************************************************)
EXTENDS Integers

CONSTANT
    DATA        \* values of a word of the echo request: any 16 bits in the code

VARIABLES tmp, added
vars == <<tmp, added>>

WORDS == 19

\* type and code of a reply are 0; identifier, seq_num and data are the request's.
Init == tmp = 0 /\ added = 1

\* One line of the function: tmp := tmp + to_integer(unsigned(arg(...))).
Add ==
    /\ added < WORDS
    /\ \E word \in DATA : tmp' = tmp + word
    /\ added' = added + 1

Done == added = WORDS /\ UNCHANGED vars

Spec == Init /\ [][Add \/ Done]_vars

\* result is std_logic_vector(19 downto 0); its upper 4 bits are added to the lower 16.
Result(sum) == sum % 2^20
check_summ(sum) == ((Result(sum) % 2^16) + (Result(sum) \div 2^16)) % 2^16

\* The checksum sent verifies, whatever data the request carried: the words and the
\* complement of check_summ add up to all ones, which is 0 modulo 65535.
EchoVerifies == added = WORDS => check_summ(tmp) % 65535 = tmp % 65535
============================================================================
