---------------------------- MODULE MCCidrBlocks ----------------------------
(* Octets of two bits: v4 addresses have 8 bits, v6 addresses 32.          *)
EXTENDS CidrBlocks

V4(sect, pf) == [form |-> "v4", sect |-> sect, pf |-> pf]
V6(front, gap, back, tail, pf) ==
    [form |-> "v6", front |-> front, gap |-> gap, back |-> back, tail |-> tail, pf |-> pf]
Bare4(sect) == [form |-> "v4", sect |-> sect]
Bare6(front, gap, back) == [form |-> "v6", front |-> front, gap |-> gap, back |-> back, tail |-> <<>>]

\* Abbreviated and full addresses, prefixes at and beyond their limits and those
\* of an int, masks
\* that are and are not contiguous, names, and sections that do not fit.
mcTexts ==
    {V4(<<1, 2, 3, 0>>, LenPf(5)), V4(<<3, 14>>, NoPf), V4(<<200>>, LenPf(8)), V4(<<0>>, LenPf(0)),
     V4(<<3, 64>>, NoPf), V4(<<2, 1>>, LenPf(9)), V4(<<1, 4, 0, 0>>, NoPf), V4(<<2, 2, 2, 2>>, LenPf(-1)),
     V4(<<1, 3, 2, 0>>, LenPf(259)), V4(<<1, 3, 2, 1>>, LenPf(250)),
     V4(<<2, 0, 0, 0>>, MaskPf(Bare4(<<3, 2, 0, 0>>))), V4(<<2, 0, 0, 0>>, MaskPf(Bare4(<<3, 1, 0, 0>>))),
     [form |-> "ptr6", lab |-> <<1, 0, 1>>],
     V6(<<>>, TRUE, <<1>>, <<>>, NoPf), V6(<<15, 0, 0, 2>>, TRUE, <<0, 9>>, <<>>, LenPf(30)),
     V6(<<5>>, TRUE, <<>>, <<>>, MaskPf(Bare6(<<12>>, TRUE, <<>>))),
     V6(<<>>, FALSE, <<1, 2, 0, 4, 5, 0, 7, 8>>, <<>>, LenPf(32)),
     V6(<<>>, FALSE, <<1, 2, 3, 4, 5, 6, 7>>, <<>>, NoPf), V6(<<>>, TRUE, <<16>>, <<>>, NoPf),
     V6(<<1, 2, 3, 4, 5>>, TRUE, <<6, 7, 8, 9>>, <<>>, LenPf(33)),
     V6(<<>>, TRUE, <<15>>, <<3, 2, 1, 0>>, LenPf(28))}
=============================================================================
