----------------------------- MODULE AttrDecode -----------------------------
(***************************************************************************)
(* The offset decoder of the attribute reader (dwarf_loader.c, the         *)
(* get_uleb128 macros, __libdw_get_uleb128 and dwarf_expr): a block form of *)
(* DW_AT_data_member_location or DW_AT_vtable_elem_location is a DWARF      *)
(* expression whose first opcode must be DW_OP_plus_uconst or DW_OP_constu, *)
(* followed by a ULEB128 operand.                                          *)
(*                                                                         *)
(* The decoder reads at most 10 bytes into a 64-bit uintmax_t, and 64 =    *)
(* 7 * 9 + 1: the 10th byte has room for one bit. The model keeps that     *)
(* shape for UlebBytes bytes into a Width = 7 * (UlebBytes - 1) + 1 bit    *)
(* integer, so UlebBytes = 10 is the code; smaller values fit TLC's        *)
(* integers.                                                               *)
(***************************************************************************)
EXTENDS Naturals, Sequences

CONSTANTS
    UlebBytes,     \* the bound of the loop in get_uleb128_rest_return (10)
    PlusUconst,    \* DW_OP_plus_uconst
    Constu,        \* DW_OP_constu
    Exprs          \* the location expressions a DIE may carry

\* The expression of the attribute attr_offset hands to dwarf_expr.
VARIABLE expr

Width == 7 * (UlebBytes - 1) + 1
UintMax == 2 ^ Width - 1

\* Step nth of get_uleb128_step on byte b: the low 7 bits of b shifted into
\* place in a uintmax_t (the shift drops what passes the width), or-ed into
\* var. The bits of a step lie above those of the earlier steps, so the or
\* is a sum.
UlebStep(var, b, nth) == var + (((b % 128) * 2 ^ (7 * nth)) % (2 ^ Width))

\* get_uleb128 followed by __libdw_get_uleb128: steps 0 to UlebBytes - 1,
\* returning at the first byte without the continuation bit 0x80, and
\* UINT64_MAX once all UlebBytes bytes had it.
RECURSIVE UlebFrom(_, _, _)
UlebFrom(var, bytes, nth) ==
    IF nth = UlebBytes THEN UintMax
    ELSE LET v == UlebStep(var, bytes[nth + 1], nth)
         IN  IF bytes[nth + 1] < 128 THEN v ELSE UlebFrom(v, bytes, nth + 1)

Uleb128(bytes) == UlebFrom(0, bytes, 0)

\* dwarf_expr: the operand of DW_OP_plus_uconst or DW_OP_constu, and
\* UINT64_MAX for any other first opcode.
DwarfExpr(ops) ==
    IF ops[1] \in {PlusUconst, Constu} THEN Uleb128(Tail(ops)) ELSE UintMax

-----------------------------------------------------------------------------
(* The reference: spec 4.A. A ULEB128 number is the sum of its 7-bit      *)
(* groups, least significant first, up to the first byte without 0x80;    *)
(* decoding "must handle up to ten bytes and return UINT64_MAX on         *)
(* overflow".                                                             *)

RECURSIVE Terminator(_, _)
Terminator(bytes, k) ==
    IF k > Len(bytes) THEN 0
    ELSE IF bytes[k] < 128 THEN k ELSE Terminator(bytes, k + 1)

RECURSIVE GroupSum(_, _)
GroupSum(bytes, k) ==
    IF k = 0 THEN 0
    ELSE GroupSum(bytes, k - 1) + (bytes[k] % 128) * 128 ^ (k - 1)

SpecUleb128(bytes) ==
    LET n == Terminator(bytes, 1) IN
    IF n = 0 \/ n > UlebBytes \/ GroupSum(bytes, n) > UintMax THEN UintMax
    ELSE GroupSum(bytes, n)

SpecOffset(ops) ==
    IF ops[1] \in {PlusUconst, Constu} THEN SpecUleb128(Tail(ops))
    ELSE UintMax

-----------------------------------------------------------------------------
Init == expr \in Exprs

\* Decoding is a pure function of the input: nothing changes.
Next == UNCHANGED expr

Spec == Init /\ [][Next]_expr

\* A member offset read from a DW_OP_plus_uconst / DW_OP_constu block is
\* what spec 4.A says: the ULEB128 operand, or UINT64_MAX when it does not
\* fit in 64 bits or runs past ten bytes (__libdw_get_uleb128 and
\* dwarf_expr).
ExprOffsetAsSpec == DwarfExpr(expr) = SpecOffset(expr)

====
