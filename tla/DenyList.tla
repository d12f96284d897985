------------------------------ MODULE DenyList ------------------------------
(***************************************************************************)
(* The list of denied networks: IPDenyList (src/net/iplist.cc), read line  *)
(* by line when the network starts, the parsing of an address with a mask  *)
(* and the comparisons of addresses (src/net/util.cc, src/net/netaddr.cc). *)
(* An address is a sequence of Bytes bytes of Bits bits.  Of the two kinds *)
(* of addresses only the first is built: with HAVE_IPV6 util.cc calls      *)
(* functions there are none of.                                            *)
(***************************************************************************)
EXTENDS Integers, Sequences

CONSTANTS Bytes, Bits,
          Masks,    \* the masks a line may name, -1 for none
          MaxLines

VARIABLES file,     \* the lines read so far: [addr, mask], or Garbage
          denylist

vars == <<file, denylist>>

Byte == 0 .. 2 ^ Bits - 1
Addr == [1 .. Bytes -> Byte]
Garbage == [addr |-> <<>>, mask |-> -1]

(* NetAddr::applyMask: whole bytes, then the first bits of one more.       *)
ApplyMask(addr, mask) ==
    LET q == mask \div Bits
        r == mask % Bits
        MaskByte(i) == IF i <= q THEN Bits ELSE IF i = q + 1 THEN r ELSE 0
    IN  [i \in 1 .. Bytes |-> addr[i] - (addr[i] % 2 ^ (Bits - MaskByte(i)))]

(* Network::parseAddr: a mask longer than the address fails, none is all.  *)
Fails(line) == line = Garbage \/ line.mask > Bytes * Bits
MaskOf(line) == IF line.mask < 0 THEN Bytes * Bits ELSE line.mask
ParseAddr(line) == [addr |-> ApplyMask(line.addr, MaskOf(line)), mask |-> MaskOf(line)]

(* Network::addrcmp and addrcmpMask: the mask is applied to the first.     *)
AddrCmp(a, b) == a = b

(* Faulty: the mask is not applied.                                        *)
MutAddrCmpMask(a, b, mask) == AddrCmp(a, b)

AddrCmpMask(a, b, mask) == AddrCmp(ApplyMask(a, mask), b)

Init == file = <<>> /\ denylist = <<>>

(* IPDenyList::add, of a line of the file: a network that begins with an   *)
(* address that is in the list already is not added.                       *)
Load(line) ==
    /\ Len(file) < MaxLines /\ file' = Append(file, line)
    /\ denylist' =
          IF Fails(line) \/ \E i \in DOMAIN denylist : AddrCmp(ParseAddr(line).addr, denylist[i].addr)
          THEN denylist ELSE Append(denylist, ParseAddr(line))

(* IPDenyList::exists                                                      *)
Exists(a) == \E i \in DOMAIN denylist : AddrCmpMask(a, denylist[i].addr, denylist[i].mask)

Next == \E line \in [addr : Addr, mask : Masks] \cup {Garbage} : Load(line)

-----------------------------------------------------------------------------
(* The number an address is, and the network it is in.                     *)
Number(a) == LET N[i \in 0 .. Bytes] == IF i = 0 THEN 0 ELSE N[i - 1] * 2 ^ Bits + a[i] IN N[Bytes]
Covers(line, a) ==
    LET rest == Bytes * Bits - MaskOf(line)
    IN  ~Fails(line) /\ Number(line.addr) \div 2 ^ rest = Number(a) \div 2 ^ rest
Base(line) == Number(line.addr) - (Number(line.addr) % 2 ^ (Bytes * Bits - MaskOf(line)))

(* A host is denied if and only if a line of the file covers it, the line  *)
(* being the first with its network's first address (iplist.cc:93-118,     *)
(* netaddr.cc:62-95): no host is denied that no line covers, and masks     *)
(* that end inside a byte, or are none or all of the address, are right.   *)
DeniedRight ==
    \A a \in Addr :
        Exists(a) <=> \E i \in DOMAIN file :
            /\ Covers(file[i], a)
            /\ \A j \in 1 .. i - 1 : Fails(file[j]) \/ Base(file[j]) # Base(file[i])
=============================================================================
