---------------------------- MODULE MCAttrDecode ----------------------------
(* Location expressions whose ULEB128 operand takes 1 to UlebBytes bytes   *)
(* (continuation bytes 0x80 and 0xff, last bytes 0x00, 0x01, 0x02, 0x7f), *)
(* or UlebBytes bytes all with the continuation bit, after DW_OP_plus_uconst, *)
(* DW_OP_constu or DW_OP_fbreg.                                           *)
EXTENDS AttrDecode

MCPlusUconst == 35   \* 0x23
MCConstu == 16       \* 0x10
Fbreg == 145         \* 0x91

Cont == {128, 255}
Last == {0, 1, 2, 127}

\* The byte sequences of n bytes: n - 1 from Cont and the last from L.
Operands(n, L) == {s \in [1..n -> Cont \cup L] :
                     (\A k \in 1..(n - 1) : s[k] \in Cont) /\ s[n] \in L}

MCExprs ==
    {<<op>> \o s : op \in {MCPlusUconst, MCConstu, Fbreg},
                   s \in UNION {Operands(n, Last) : n \in 1..UlebBytes}
                         \cup Operands(UlebBytes, Cont)}

====
