------------------------------ MODULE PolicyKeys ------------------------------
(***************************************************************************)
(* The five kinds of policy rule, and the three conversions a rule goes    *)
(* through on its way from the manager's tables to the kernel hooks:       *)
(*                                                                         *)
(*   Accepted   what do_POST of manager/app.py lets into the table;        *)
(*   Parses     what the agent can read out of the JSON answer;            *)
(*   MapKey     the key the agent inserts in the eBPF map of the kind;     *)
(*   HookKey    the key the LSM hook looks up for an object of the kernel. *)
(*                                                                         *)
(* Representation of the data:                                             *)
(*   IPV4    the text of a dotted quad is its sequence of four octets, and *)
(*           any other text an operator may type is <<>>;                  *)
(*   BIND    a port number;                                                *)
(*   EXEC    a path as it is executed, the sequence of its bytes;          *)
(*   WRITE   the name of a file in its directory, as EXEC;                 *)
(*   PTRACE  one flag: its only rule is 0.                                 *)
(* A key of a number is the sequence of its bytes in memory, a key of a    *)
(* text its bytes without the zeros that fill up the KeySize bytes. The    *)
(* agent and its eBPF object are built for x86-64 (kshield.bpf.c uses      *)
(* __builtin_bswap16 and __x64_sys_ symbols), hence little endian.         *)
(***************************************************************************)
EXTENDS Integers, Sequences

CONSTANT KeySize  \* the size of a string_key_t (96 in the code)

ASSUME PolicyKeysAssumption == KeySize \in Nat /\ KeySize > 1

IPV4   == 1
BIND   == 2
EXEC   == 3
WRITE  == 4
PTRACE == 5

\* In the order in which sync_policy rewrites the maps and in which the
\* policy handler reads the tables.
Kinds == 1 .. 5

Bytes == 0 .. 255

\* What a u16 holds.
Ports == 0 .. 65535

\* The checks of do_POST: a non-empty text for an address, a path or a file
\* name (the only rules represented), a port between 1 and 65535.
Accepted(k, r) == k = BIND => r \in 1 .. 65535

\* serde reads a port into a u16 and str::parse::<Ipv4Addr> an address; both
\* fail the whole answer. A path is any text.
Parses(k, r) ==
  /\ k = IPV4 => Len(r) = 4
  /\ k = BIND => r \in Ports

\* u32::from_be_bytes reads the octets as a number, and aya stores that number
\* in the map in the byte order of the host.
NativeBytesOfBigEndian(o) == <<o[4], o[3], o[2], o[1]>>

\* A 16-bit number as a host of little endian keeps it and as it reads it back,
\* and as the sockaddr of a socket keeps its port.
Native16(n) == <<n % 256, n \div 256>>
Load16(b) == b[1] + 256 * b[2]
Network16(n) == <<n \div 256, n % 256>>

\* __builtin_bswap16.
Bswap16(n) == 256 * (n % 256) + (n \div 256)

\* Mutant of StringKey: a text may fill the key, with no zero behind it.
StringKeyUnterminated(text) ==
  SubSeq(text, 1, IF Len(text) <= KeySize THEN Len(text) ELSE KeySize)

\* StringKey::from_str: min(KeySize - 1) bytes of the text.
StringKey(text) ==
  SubSeq(text, 1, IF Len(text) <= KeySize - 1 THEN Len(text) ELSE KeySize - 1)

\* The key the agent inserts.
MapKey(k, r) ==
  CASE k = IPV4            -> NativeBytesOfBigEndian(r)
    [] k = BIND            -> Native16(r)
    [] k \in {EXEC, WRITE} -> StringKey(r)
    [] k = PTRACE          -> <<0>>

\* bpf_probe_read_kernel_str into the KeySize bytes of a key of zeros: it stops
\* at the end of the text or when there is room for the last zero only.
KernelStr(text) ==
  IF Len(text) < KeySize THEN text ELSE SubSeq(text, 1, KeySize - 1)

\* Mutant of HookKey: the port is looked up as it lies in the sockaddr.
HookKeyUnswapped(k, o) ==
  CASE k = IPV4            -> o
    [] k = BIND            -> Native16(Load16(Network16(o)))
    [] k \in {EXEC, WRITE} -> KernelStr(o)
    [] k = PTRACE          -> <<0>>

\* The key the hook of the kind looks up for an object named as a rule names
\* it: the address as it lies in memory, in network order; the port after it was
\* loaded and swapped; the path or the name of the file as far as it fits.
HookKey(k, o) ==
  CASE k = IPV4            -> o
    [] k = BIND            -> Native16(Bswap16(Load16(Network16(o))))
    [] k \in {EXEC, WRITE} -> KernelStr(o)
    [] k = PTRACE          -> <<0>>

\* The hook of the kind refuses the object.
Refuses(k, map, o) == HookKey(k, o) \in map
===============================================================================
