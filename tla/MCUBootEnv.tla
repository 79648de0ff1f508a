----------------------------- MODULE MCUBootEnv -----------------------------
(***************************************************************************)
(* Instances of UBootEnv for TLC.  A small checksum stands for CRC-32.     *)
(***************************************************************************)
EXTENDS UBootEnv

MCCrc(d) ==
  LET sum[i \in 3..(env_size - 1)] ==
        IF i = 3 THEN 0 ELSE (sum[i - 1] * 7 + d[i]) % 251
  IN  sum[env_size - 1]

\* Every block of this size, with a CRC that matches.
MCEveryBlock == {[crc |-> Crc(d), data |-> d] : d \in [Offsets -> Byte]}

\* A new disk.
MCNewDisk == {[crc |-> NULL, data |-> [i \in Offsets |-> FILL]]}

\* A new disk, one with "b=1" and "ab=" in that order, and one whose second
\* entry has no '='.
MCDisks ==
  LET Holding(text) ==
        [i \in Offsets |-> IF i - 3 <= Len(text) THEN text[i - 3] ELSE FILL]
      Block(d) == [crc |-> Crc(d), data |-> d]
  IN  MCNewDisk \cup
      {Block(Holding(<<98, 61, 49, 0, 97, 98, 61, 0, 0>>)),
       Block(Holding(<<98, 61, 49, 0, 97, 98, 0, 0>>))}

\* "a", "ab", "b" and "", "1": one name is a prefix of another.
MCName == {<<97>>, <<97, 98>>, <<98>>}
MCValue == {<<>>, <<49>>}

MCNoArguments == {}

ASSUME DisksAssumption == EachNameOnce
=============================================================================
