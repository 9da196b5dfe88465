----------------------------- MODULE CidrBlocks -----------------------------
(***************************************************************************)
(* A block of addresses on its way through the operations of Cidr: read    *)
(* from a text, printed and read again, split, widened, narrowed to its    *)
(* ends, turned into a socket address and back.  The properties compare    *)
(* what the library computes with the sets of addresses it stands for, on  *)
(* every block that can be reached.                                        *)
(***************************************************************************)
EXTENDS Cidr

CONSTANTS Texts,       \* what blocks are read from
          SplitFrom    \* bound: v6 blocks are split, or narrowed, only from this prefix length on

\* What the parser finds of an address in numbers: one to four of them, or
\* sections, no more before a "::" than an address has (with more of them the
\* code overruns the address and, from the seventeenth on, the block); and what
\* may follow it.
AddressText(t) ==
    \/ t.form = "v4" /\ t.sect \in Seq(Nat) /\ t.sect # <<>>
    \/ /\ t.form = "v6" /\ t.gap \in BOOLEAN /\ t.front \in Seq(Nat) /\ Len(t.front) <= 8
       /\ t.back \in Seq(Nat) /\ t.tail \in Seq(Nat)

Prefix(pf) ==
    \/ pf.kind = "no"
    \/ pf.kind = "len" /\ pf.n \in Int
    \/ pf.kind = "mask" /\ AddressText(pf.of)

\* Texts blocks are read from.  (Reverse names of v4 blocks are not among them:
\* they leave the octets before the address zero.)
BlockText(t) ==
    \/ AddressText(t) /\ Prefix(t.pf)
    \/ t.form = "ptr6" /\ t.lab \in Seq(0..(Half - 1))

ASSUME BlocksAssumption == SplitFrom \in Nat /\ \A t \in Texts : BlockText(t)

VARIABLE blk

\* A text the parser refuses yields no object.
Init == \E t \in Texts : cidr_from_str(t) # NULL /\ blk = cidr_from_str(t)

\* Every v4 block, and the v6 blocks of the last few bits.
Bounded == blk.proto = "v4" \/ cidr_get_pflen(blk) >= SplitFrom

Network == blk' = cidr_addr_network(blk)
Ends == Bounded /\ blk' \in {cidr_addr_broadcast(blk), cidr_addr_hostmin(blk), cidr_addr_hostmax(blk)}

Supernet == cidr_net_supernet(blk) # NULL /\ blk' = cidr_net_supernet(blk)

Subnet ==
    /\ Bounded
    /\ \E i \in DOMAIN cidr_net_subnets(blk) : blk' = cidr_net_subnets(blk)[i]

\* The texts of a block that name the same block again.
SameForms == {{}, {"NETMASK"}, {"NOCOMPACT"}, {"NOCOMPACT", "NETMASK"}}

Reread == \E f \in SameForms : blk' = cidr_from_str(cidr_to_str(blk, f))

\* To a socket address and back; a v4 block may go into a v6 socket.
ViaSocket ==
    \/ blk.proto = "v4" /\ blk' = cidr_from_inaddr(blk.addr)
    \/ blk' = cidr_from_in6addr(cidr_to_in6addr(blk))

Next == Network \/ Ends \/ Supernet \/ Subnet \/ Reread \/ ViaSocket

Spec == Init /\ [][Next]_blk
-----------------------------------------------------------------------------
(* The sets of addresses a block stands for, and the properties.           *)

\* Lexicographic order of addresses.
Before(a, b) == a = b \/ \E i \in Index : a[i] < b[i] /\ \A j \in 0..(i - 1) : a[j] = b[j]

\* Number of a v4 address.
Value(a) == a[12] * Base * Base * Base + a[13] * Base * Base + a[14] * Base + a[15]

\* The last address of one block is the one before the first of the other.
Adjacent(a, b) ==
    \E k \in Index : /\ \A i \in 0..(k - 1) : a[i] = b[i]
                     /\ b[k] = a[k] + 1
                     /\ \A i \in (k + 1)..15 : a[i] = Full /\ b[i] = 0

\* Every block has a contiguous mask that leaves the octets before a v4
\* address alone, and a v4 address is in its mapped form (cidr_to_in6addr
\* relies on it).
TypeOK ==
    /\ blk \in CIDR
    /\ cidr_get_pflen(blk) \in 0..Width(blk.proto)
    /\ blk.proto = "v4" => blk.addr = Mapped(blk.addr) /\ \A i \in 0..11 : blk.mask[i] = Full

\* cidr_contains holds exactly when the addresses of one block, from its
\* network to its broadcast address, lie between those of the other.
ContainsIsInclusion ==
    \A t \in Texts : cidr_from_str(t) # NULL =>
        LET o == cidr_from_str(t)
            within(x, y) == /\ x.proto = y.proto
                            /\ Before(cidr_addr_network(y).addr, cidr_addr_network(x).addr)
                            /\ Before(cidr_addr_broadcast(x).addr, cidr_addr_broadcast(y).addr)
        IN  cidr_contains(blk, o) = within(o, blk) /\ cidr_contains(o, blk) = within(blk, o)

\* A block saved as text and loaded again (configuration, CLI and API do so) is
\* the same block in every form, with prefix or mask, compact or not; a v4 block
\* in v6 clothes is its mapped block; a reverse name is its host address.
TextRoundTrip ==
    LET back(f) == cidr_from_str(cidr_to_str(blk, f))
        host == [blk EXCEPT !.mask = MaskOf(16 * OctBits)]
    IN  /\ \A f \in SameForms : cidr_equals(blk, back(f))
        /\ cidr_equals(host, back({"ONLYADDR"})) /\ cidr_equals(host, back({"REVERSE"}))
        /\ blk.proto = "v4" =>
            \A f \in {{"USEV6"}, {"USEV6", "NOCOMPACT"}} :
                /\ cidr_is_v4mapped(back(f)) /\ back(f).addr = blk.addr
                /\ cidr_get_pflen(back(f)) = cidr_get_pflen(blk) + 12 * OctBits

\* The two children of a block lie side by side from its first to its last
\* address, and each has it as its supernet.
SubnetsPartition ==
    LET s == cidr_net_subnets(blk)
    IN  s # <<>> =>
            /\ cidr_addr_network(s[1]).addr = cidr_addr_network(blk).addr
            /\ cidr_addr_broadcast(s[2]).addr = cidr_addr_broadcast(blk).addr
            /\ Adjacent(cidr_addr_broadcast(s[1]).addr, cidr_addr_network(s[2]).addr)
            /\ \A i \in 1..2 : cidr_net_supernet(s[i]) = cidr_addr_network(blk)

\* The number of hosts the tables give is the number of addresses from the
\* first to the last host, blocks of one and two addresses included.
HostsCounted ==
    blk.proto = "v4" =>
        /\ cidr_numhost(blk) = Value(cidr_addr_hostmax(blk).addr) - Value(cidr_addr_hostmin(blk).addr) + 1
        /\ cidr_numaddr(blk) = Value(cidr_addr_broadcast(blk).addr) - Value(cidr_addr_network(blk).addr) + 1
=============================================================================
