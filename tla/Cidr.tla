------------------------------- MODULE Cidr -------------------------------
(***************************************************************************)
(* The address library every rule is matched with (ext/libcidr/cidr.cpp):  *)
(* blocks of IPv4 and IPv6 addresses, their text forms, and the arithmetic *)
(* on them.                                                                *)
(*                                                                         *)
(* A block has sixteen octets of address and of mask, as in the code; an   *)
(* octet has OctBits bits (8 in the code), so every index, limit and       *)
(* prefix length is the code's with 8 replaced by OctBits.  A v4 block     *)
(* uses octets 12 to 15.                                                   *)
(*                                                                         *)
(* A text is the tokens the parser finds, not its characters:              *)
(*   v4    one to four numbers                                             *)
(*   v6    sections before and after a "::", and a dotted tail             *)
(*   ptr4, ptr6    the labels of a reverse DNS name                        *)
(* and what follows a "/": nothing, a number, or a mask written as v4/v6.  *)
(***************************************************************************)
EXTENDS Integers, Sequences, FiniteSets

CONSTANT OctBits      \* bits in an octet, an even number

ASSUME CidrAssumption == OctBits \in Nat \ {0} /\ OctBits % 2 = 0

\* The powers of two.
Pow2[n \in Nat] == IF n = 0 THEN 1 ELSE 2 * Pow2[n - 1]

Base == Pow2[OctBits]
Full == Base - 1                       \* 0xff
Half == Pow2[OctBits \div 2]           \* a nibble is one digit to this base
Index == 0..15
Octets == [Index -> 0..Full]

CIDR == [proto : {"v4", "v6"}, addr : Octets, mask : Octets]
NULL == [proto |-> "none"]

\* The first octet that belongs to a block's own protocol, and its width.
FirstOctet(proto) == IF proto = "v4" THEN 12 ELSE 0
Width(proto) == (16 - FirstOctet(proto)) * OctBits

\* Bit k of an array, counted from the most significant one.
Bit(o, k) == (o[k \div OctBits] \div Pow2[OctBits - 1 - (k % OctBits)]) % 2

\* o with the bits from n on replaced by zeros, or by ones.
Keep(n, i) == LET k == n - i * OctBits IN IF k < 0 THEN 0 ELSE IF k > OctBits THEN OctBits ELSE k
ClearFrom(o, n) == [i \in Index |-> o[i] - (o[i] % Pow2[OctBits - Keep(n, i)])]
FillFrom(o, n) == [i \in Index |-> ClearFrom(o, n)[i] + Pow2[OctBits - Keep(n, i)] - 1]

\* The mask whose network bits are the first n.
MaskOf(n) == ClearFrom([i \in Index |-> Full], n)

-----------------------------------------------------------------------------
(* Prefix lengths and comparison.                                           *)

\* Network bits of a mask; -1 if they are not contiguous.
pflen(proto, mask) ==
    LET bits == (FirstOctet(proto) * OctBits)..(16 * OctBits - 1)
        ones == {k \in bits : Bit(mask, k) = 1}
    IN  IF \E k \in ones : k - 1 \in bits \ ones THEN -1 ELSE Cardinality(ones)

cidr_get_pflen(b) == pflen(b.proto, b.mask)

\* Mutant: the lengths of the prefixes are not compared.
cidr_contains_mut(big, little) ==
    /\ big.proto = little.proto
    /\ LET n == FirstOctet(big.proto) * OctBits
       IN  \A k \in n..(n + cidr_get_pflen(big) - 1) : Bit(big.addr, k) = Bit(little.addr, k)

cidr_contains(big, little) ==
    /\ big.proto = little.proto
    /\ cidr_get_pflen(little) >= cidr_get_pflen(big)
    /\ LET n == FirstOctet(big.proto) * OctBits
       IN  \A k \in n..(n + cidr_get_pflen(big) - 1) : Bit(big.addr, k) = Bit(little.addr, k)

cidr_equals(one, two) ==
    /\ one.proto = two.proto
    /\ \A i \in FirstOctet(one.proto)..15 : one.addr[i] = two.addr[i] /\ one.mask[i] = two.mask[i]

-----------------------------------------------------------------------------
(* Blocks from blocks.                                                      *)

\* The position of the first host bit: loops stop at the first zero of the mask.
HostBit(b) == LET zeros == {k \in 0..(16 * OctBits - 1) : Bit(b.mask, k) = 0}
              IN  IF zeros = {} THEN 16 * OctBits ELSE CHOOSE k \in zeros : \A j \in zeros : k <= j

cidr_addr_network(b) == [b EXCEPT !.addr = ClearFrom(@, HostBit(b))]

cidr_addr_broadcast(b) == [b EXCEPT !.addr = FillFrom(@, HostBit(b))]

\* A block of one or two addresses has no address to spare at its ends.
Tiny(b) == b.mask[15] \in {Full, Full - 1}

cidr_addr_hostmin(b) ==
    LET n == cidr_addr_network(b) IN IF Tiny(b) THEN n ELSE [n EXCEPT !.addr[15] = @ + 1 - (@ % 2)]

\* Mutant: the last address of a block of two is taken for its broadcast.
cidr_addr_hostmax_mut(b) ==
    LET n == cidr_addr_broadcast(b) IN IF b.mask[15] = Full THEN n ELSE [n EXCEPT !.addr[15] = @ - (@ % 2)]

cidr_addr_hostmax(b) ==
    LET n == cidr_addr_broadcast(b) IN IF Tiny(b) THEN n ELSE [n EXCEPT !.addr[15] = @ - (@ % 2)]

\* Bit k of an array, set or cleared.
SetBit(o, k) == [o EXCEPT ![k \div OctBits] =
                    IF Bit(o, k) = 1 THEN @ ELSE @ + Pow2[OctBits - 1 - (k % OctBits)]]
ClearBit(o, k) == [o EXCEPT ![k \div OctBits] =
                    IF Bit(o, k) = 0 THEN @ ELSE @ - Pow2[OctBits - 1 - (k % OctBits)]]

cidr_net_supernet(b) ==
    LET n == FirstOctet(b.proto) * OctBits + cidr_get_pflen(b) - 1
    IN  IF cidr_get_pflen(b) = 0 THEN NULL
        ELSE [b EXCEPT !.mask = ClearBit(@, n), !.addr = ClearFrom(@, n)]

\* Mutant: the children keep the mask of their parent.
cidr_net_subnets_mut(b) ==
    LET n == FirstOctet(b.proto) * OctBits + cidr_get_pflen(b)
        kid == cidr_addr_network(b)
    IN  IF cidr_get_pflen(b) = Width(b.proto) THEN <<>>
        ELSE <<kid, [kid EXCEPT !.addr = SetBit(@, n)]>>

cidr_net_subnets(b) ==
    LET n == FirstOctet(b.proto) * OctBits + cidr_get_pflen(b)
        kid == [cidr_addr_network(b) EXCEPT !.mask = SetBit(@, n)]
    IN  IF cidr_get_pflen(b) = Width(b.proto) THEN <<>>
        ELSE <<kid, [kid EXCEPT !.addr = SetBit(@, n)]>>

\* The tables of the numbers of addresses and hosts, by host bits.
cidr_pow2(k) == Pow2[k]
cidr_pow2m2(k) == IF k = 0 THEN 1 ELSE IF k = 1 THEN 2 ELSE Pow2[k] - 2

HostBits(b) == 16 * OctBits - (cidr_get_pflen(b) + FirstOctet(b.proto) * OctBits)
cidr_numaddr(b) == cidr_pow2(HostBits(b))
cidr_numhost(b) == cidr_pow2m2(HostBits(b))

-----------------------------------------------------------------------------
(* Socket addresses: host blocks, v4 ones in mapped form.                   *)

\* The octets of a v4 block outside its own four: ::ffff:0:0/96.
Mapped(o) == [i \in Index |-> IF i <= 9 THEN 0 ELSE IF i <= 11 THEN Full ELSE o[i]]

\* Mutant: the octets before the address are left as they are.
cidr_from_inaddr_mut(o) ==
    [proto |-> "v4", addr |-> [o EXCEPT ![10] = 0, ![11] = 0], mask |-> MaskOf(16 * OctBits)]

cidr_from_inaddr(o) == [proto |-> "v4", addr |-> Mapped(o), mask |-> MaskOf(16 * OctBits)]
cidr_from_in6addr(o) == [proto |-> "v6", addr |-> o, mask |-> MaskOf(16 * OctBits)]
cidr_to_in6addr(b) == b.addr

cidr_is_v4mapped(b) == b.proto = "v6" /\ \A i \in 0..11 : b.addr[i] = Mapped(b.addr)[i]

-----------------------------------------------------------------------------
(* cidr_from_str                                                            *)

Zeros == [i \in Index |-> 0]

\* a.in-addr.arpa: the labels given, last first, and a mask that long.  The
\* octets before the address stay zero.
FromPtr4(lab) ==
    LET n == Len(lab)
    IN  IF n > 4 \/ \E i \in 1..n : lab[i] > Full THEN NULL
        ELSE [proto |-> "v4", mask |-> MaskOf((12 + n) * OctBits),
              addr |-> [i \in Index |-> IF i \in 12..(11 + n) THEN lab[n - (i - 12)] ELSE 0]]

\* a.b.ip6.arpa: the same with half octets.
FromPtr6(lab) ==
    LET n == Len(lab)
        digit(k) == IF k < n THEN lab[n - k] ELSE 0
    IN  IF n > 32 THEN NULL
        ELSE [proto |-> "v6", mask |-> MaskOf((n * OctBits) \div 2),
              addr |-> [i \in Index |-> digit(2 * i) * Half + digit(2 * i + 1)]]

\* One to four numbers; the last one fills all the octets that are left.
V4Octets(sect) ==
    LET n == Len(sect)
    IN  [i \in Index |-> IF i < 12 THEN Mapped(Zeros)[i]
                         ELSE IF i - 11 < n THEN sect[i - 11]
                         ELSE (sect[n] \div Pow2[(15 - i) * OctBits]) % Base]

V4Bad(sect) == Len(sect) > 4 \/ (\E i \in 1..(Len(sect) - 1) : sect[i] > Full)
                \/ sect[Len(sect)] >= Pow2[(5 - Len(sect)) * OctBits]

\* The octets of sections of two octets and of a dotted tail.
SectOctets(sect, tail) ==
    [i \in 1..(2 * Len(sect) + Len(tail)) |->
        IF i > 2 * Len(sect) THEN tail[i - 2 * Len(sect)]
        ELSE IF i % 2 = 1 THEN sect[(i + 1) \div 2] \div Base ELSE sect[i \div 2] % Base]

\* v6 is read from the end, up to sixteen octets or a "::", and from the front
\* up to the "::"; the front wins where both are given an octet.
V6Octets(t) ==
    LET back == SectOctets(t.back, t.tail)
        front == SectOctets(t.front, <<>>)
        n == Len(back)
    IN  [i \in Index |-> IF n < 16 /\ i < Len(front) THEN front[i + 1]
                         ELSE IF i >= 16 - n THEN back[n - (15 - i)] ELSE 0]

\* Sections before a "::" are not counted (the test for fifteen octets never
\* holds, they come in pairs): from the ninth on they are written over the mask,
\* which follows the address in the block.
Overrun(t, mask) ==
    IF t.form = "v6" /\ 2 * Len(t.back) + Len(t.tail) < 16 /\ Len(t.front) > 8
    THEN [i \in Index |-> IF 16 + i < 2 * Len(t.front) THEN SectOctets(t.front, <<>>)[17 + i] ELSE mask[i]]
    ELSE mask

\* Without "::" all the sections are at the back, and there must be enough.
V6Bad(t) ==
    \/ \E i \in 1..Len(t.back) : t.back[i] >= Base * Base
    \/ \E i \in 1..Len(t.tail) : t.tail[i] > Full
    \/ Len(t.tail) \notin {0, 4}
    \/ ~t.gap /\ (t.front # <<>> \/ 2 * Len(t.back) + Len(t.tail) < 16)
    \/ 2 * Len(t.back) + Len(t.tail) < 16 /\ \E i \in 1..Len(t.front) : t.front[i] >= Base * Base

AddrBad(t) == IF t.form = "v4" THEN V4Bad(t.sect) ELSE V6Bad(t)
AddrOctets(t) == IF t.form = "v4" THEN V4Octets(t.sect) ELSE V6Octets(t)

NoPf == [kind |-> "no"]
LenPf(n) == [kind |-> "len", n |-> n]
MaskPf(t) == [kind |-> "mask", of |-> t]

\* (int) strtol(): a number read as a long of eight octets, which stops at its
\* limits, and cut to an int of four.
IntOf(n) ==
    LET long == Pow2[8 * OctBits - 1]
        int == Pow2[4 * OctBits - 1]
        l == IF n >= long THEN long - 1 ELSE IF n < -long THEN -long ELSE n
    IN  ((l + int) % (2 * int)) - int

\* What follows the "/" as a prefix length; -1 is a mask that is none.  A mask
\* after a v4 address is taken from its last four octets.
PfValue(t) ==
    CASE t.pf.kind = "no"   -> Width(t.form)
      [] t.pf.kind = "len"  -> IntOf(t.pf.n)
      [] t.pf.kind = "mask" ->
            IF AddrBad(t.pf.of) THEN -1
            ELSE pflen(t.pf.of.form, [i \in Index |-> IF t.form = "v4" /\ i < 12 THEN 0
                                                      ELSE AddrOctets(t.pf.of)[i]])

\* Too long a prefix is refused; zero and less leave the mask empty.
cidr_from_str(t) ==
    IF t.form = "ptr4" THEN FromPtr4(t.lab)
    ELSE IF t.form = "ptr6" THEN FromPtr6(t.lab)
    ELSE LET n == PfValue(t)
         IN  IF AddrBad(t) \/ n > Width(t.form) \/ (t.pf.kind = "mask" /\ n = -1) THEN NULL
             ELSE [proto |-> t.form, addr |-> AddrOctets(t),
                   mask |-> Overrun(t, MaskOf(FirstOctet(t.form) * OctBits + (IF n > 0 THEN n ELSE 0)))]

-----------------------------------------------------------------------------
(* cidr_to_str.  Flags are a set of names; those that only change the number *)
(* of leading zeros make no difference to the tokens.                       *)

\* The section at octets 2k, 2k + 1.
Section(o, k) == o[2 * k] * Base + o[2 * k + 1]

\* The first of the longest runs of zero sections, as <<start, length>>.
ZeroRun(o) ==
    LET runs == {r \in (0..7) \X (1..8) : r[1] + r[2] <= 8 /\ \A k \in r[1]..(r[1] + r[2] - 1) : Section(o, k) = 0}
    IN  IF runs = {} THEN <<8, 0>>
        ELSE CHOOSE r \in runs : \A q \in runs : q[2] < r[2] \/ (q[2] = r[2] /\ r[1] <= q[1])

V6Text(o, compact) ==
    LET r == ZeroRun(o)
        gap == compact /\ r[2] > 0
    IN  [form |-> "v6", gap |-> gap, tail |-> <<>>,
         front |-> IF gap THEN [k \in 1..r[1] |-> Section(o, k - 1)] ELSE <<>>,
         back |-> IF gap THEN [k \in 1..(8 - r[1] - r[2]) |-> Section(o, r[1] + r[2] + k - 1)]
                  ELSE [k \in 1..8 |-> Section(o, k - 1)]]

V4Numbers(o) == [i \in 1..4 |-> o[11 + i]]

\* A v4 address in v6 clothes: ::ffff:a.b.c.d, or ::a.b.c.d.
V4AsV6(o, flags) ==
    LET mark == IF "USEV4COMPAT" \in flags THEN 0 ELSE Base * Base - 1
        gap == "NOCOMPACT" \notin flags
    IN  [form |-> "v6", gap |-> gap, front |-> <<>>, tail |-> V4Numbers(o),
         back |-> IF ~gap THEN <<0, 0, 0, 0, 0, mark>> ELSE IF mark = 0 THEN <<>> ELSE <<mark>>]

\* NETMASK shows the mask, WILDCARD its complement.
Shown(b, flags) == [i \in Index |-> IF "WILDCARD" \in flags THEN Full - b.mask[i] ELSE b.mask[i]]

\* Mutant: the length of a v4 prefix in v6 clothes is not adjusted.
PfText_mut(b, as, flags) ==
    IF "ONLYADDR" \in flags THEN NoPf
    ELSE IF "NETMASK" \in flags
         THEN MaskPf(IF as = "v4" THEN [form |-> "v4", sect |-> V4Numbers(Shown(b, flags))]
                     ELSE V6Text(Shown(b, flags), "NOCOMPACT" \notin flags))
    ELSE LenPf(cidr_get_pflen(b))

\* as is the form the address is shown in: v4 (also in v6 clothes) or v6.
PfText(b, as, flags) ==
    LET gap == 12 * OctBits
        forced == IF b.proto = "v6" /\ as = "v4" THEN -gap ELSE IF b.proto = "v4" /\ as = "v6" THEN gap ELSE 0
    IN  IF "ONLYADDR" \in flags THEN NoPf
        ELSE IF "NETMASK" \in flags
             THEN MaskPf(IF as = "v4" THEN [form |-> "v4", sect |-> V4Numbers(Shown(b, flags))]
                         ELSE V6Text(Shown(b, flags), "NOCOMPACT" \notin flags))
        ELSE LenPf(cidr_get_pflen(b) + forced + (IF as = "v4" /\ "USEV6" \in flags THEN gap ELSE 0))

Reversed(b, as) ==
    IF as = "v4" THEN [form |-> "ptr4", lab |-> [i \in 1..4 |-> b.addr[16 - i]]]
    ELSE [form |-> "ptr6", lab |-> [i \in 1..32 |->
            IF i % 2 = 1 THEN b.addr[15 - ((i - 1) \div 2)] % Half ELSE b.addr[15 - ((i - 1) \div 2)] \div Half]]

\* With ONLYPFLEN the text has no address and cannot be read back: not here.
cidr_to_str(b, flags) ==
    LET as == IF (b.proto = "v4" /\ "FORCEV6" \notin flags) \/ "FORCEV4" \in flags THEN "v4" ELSE "v6"
        text == IF as = "v6" THEN V6Text(b.addr, "NOCOMPACT" \notin flags)
                ELSE IF "USEV6" \in flags THEN V4AsV6(b.addr, flags)
                ELSE [form |-> "v4", sect |-> V4Numbers(b.addr)]
    IN  IF "REVERSE" \in flags THEN Reversed(b, as)
        ELSE [f \in DOMAIN text \cup {"pf"} |-> IF f = "pf" THEN PfText(b, as, flags) ELSE text[f]]
=============================================================================
