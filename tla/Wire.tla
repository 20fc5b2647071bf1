-------------------------------- MODULE Wire --------------------------------
(***************************************************************************)
(* network/common.rs and common/to_num.rs: numbers in network order, the   *)
(* Internet checksum, and MAC addresses as text, in which form they are in *)
(* the URLs by which one network scheme opens another.                     *)
(*                                                                         *)
(* Octets have two digits of base Radix (16 in the code); a u16 has two    *)
(* octets, and the machine reads it least octet first.                     *)
(***************************************************************************)
EXTENDS Integers, Sequences, SequencesExt

CONSTANTS Radix, MaxMsg, Octets \* base; longest message; octets of an address

ASSUME WireAssumption == Radix \in Nat \ {0, 1} /\ MaxMsg \in Nat /\ Octets \in Nat \ {0}

VARIABLES msg, stage, addr
wireVars == <<msg, stage, addr>>

B == Radix * Radix
U16 == B * B
Byte == 0..(B - 1)

(* n16::new and get, n32::new and get *)
n16(v) == <<v \div B, v % B>>
n16_get(b) == b[1] * B + b[2]
n32(v) == n16(v \div U16) \o n16(v % U16)
n32_get(b) == n16_get(SubSeq(b, 1, 2)) * U16 + n16_get(SubSeq(b, 3, 4))

(* Checksum::sum: words as the machine reads them, and an odd last octet. *)
sum(m) == FoldLeft(LAMBDA s, i : s + (IF i % 2 = 1 THEN m[i] ELSE B * m[i]), 0, [i \in 1..Len(m) |-> i])

(* Mutant: the carry of the carry is lost. *)
compile_Once(s) == (U16 - 1) - (((s % U16) + (s \div U16)) % U16)

(* Checksum::compile: carries are added until there are none. *)
carry[s \in Nat] == IF s >= U16 THEN carry[(s % U16) + (s \div U16)] ELSE s
compile(s) == (U16 - 1) - carry[s]

(* Checksum::check *)
check(m) == carry[sum(m)] = U16 - 1

(* A sender computes the checksum with the field zero, over the parts of the
   packet, of which all but the last have even length, and stores it. *)
Sealed(m, k) ==
  LET c == compile(sum(SubSeq(m, 1, k)) + sum(SubSeq(m, k + 1, Len(m))))
  IN <<c % B, c \div B>> \o SubSeq(m, 3, Len(m))

----------------------------------------------------------------------------
(* Text: digits stand for themselves. *)
Dot == -1
Letter == -2

(* {:X}: no leading zeros. *)
hex(n) == IF n < Radix THEN <<n>> ELSE <<n \div Radix, n % Radix>>

(* MacAddr::to_string *)
to_string(a) == FoldLeft(LAMBDA s, i : s \o (IF i > 1 THEN <<Dot>> ELSE <<>>) \o hex(a[i]), <<>>,
                         [i \in 1..Octets |-> i])

(* to_num_radix, as u8: up to the first character that is no digit. *)
to_num_radix(s) ==
  FoldLeft(LAMBDA r, c : IF r.stop \/ c \notin 0..(Radix - 1) THEN [r EXCEPT !.stop = TRUE]
                         ELSE [r EXCEPT !.num = (@ * Radix + c) % B],
           [num |-> 0, stop |-> FALSE], s).num

(* str::split at dots (external) *)
split(s) ==
  FoldLeft(LAMBDA ps, c : IF c = Dot THEN Append(ps, <<>>)
                          ELSE [ps EXCEPT ![Len(ps)] = Append(@, c)], <<(<<>>)>>, s)

(* MacAddr::from_str: octets that are not given are 0, those that are too many are
   left out. *)
from_str(s) == LET parts == split(s)
               IN [i \in 1..Octets |-> IF i <= Len(parts) THEN to_num_radix(parts[i]) ELSE 0]

----------------------------------------------------------------------------
(* The checksum comes first, and is not there yet. *)
Messages == {<<0, 0>> \o m : m \in UNION {[1..n -> Byte] : n \in 0..MaxMsg}}

WireInit == /\ stage = "plain"
            /\ \/ msg \in Messages /\ addr = [i \in 1..Octets |-> 0]
               \/ msg = <<0, 0>> /\ addr \in [1..Octets -> Byte]

Seal == /\ stage = "plain" /\ stage' = "sealed"
        /\ \E k \in {i \in 2..Len(msg) : i % 2 = 0} : msg' = Sealed(msg, k)
        /\ UNCHANGED addr

Damage == /\ stage = "sealed" /\ stage' = "damaged"
          /\ \E i \in 1..Len(msg), b \in Byte : b # msg[i] /\ msg' = [msg EXCEPT ![i] = b]
          /\ UNCHANGED addr

WireNext == Seal \/ Damage
WireSpec == WireInit /\ [][WireNext]_wireVars

----------------------------------------------------------------------------
(* A packet with the checksum that its sender stored passes the check, however
   the sender cut it in parts; one with a wrong octet does not. MAC addresses and
   numbers come back from their text and from the wire as they were. *)
WireLaws ==
  /\ stage = "sealed" => check(msg)
  /\ stage = "damaged" => ~check(msg)
  /\ from_str(to_string(addr)) = addr
  /\ \A tail \in {<<Dot>>, <<Letter>>, <<Dot, 1>>} : from_str(to_string(addr) \o tail) = addr
  /\ Len(msg) >= 4 => n16(n16_get(SubSeq(msg, 3, 4))) = SubSeq(msg, 3, 4)
  /\ Len(msg) >= 6 => n32(n32_get(SubSeq(msg, 3, 6))) = SubSeq(msg, 3, 6)

============================================================================
