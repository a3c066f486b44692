----------------------------- MODULE MCDwarfCU -----------------------------
(***************************************************************************)
(* Model-checking instance of DwarfCU: the CUs handed to the loader.       *)
(*                                                                         *)
(* Every CU has the same DIEs at the same offsets and varies in the types  *)
(* of two members of struct S, their DW_AT_bit_size, the order of the      *)
(* top-level DIEs and the language.  The DIEs are those of:                *)
(*                                                                         *)
(*   typedef int T; enum E { A }; int tab[4][];                            *)
(*   and cb, a typedef of a pointer to int (struct S *, ...);              *)
(*   struct S { <t1> m1 : <b1>; <t2> m2 : <b2>; };  struct S *p;           *)
(*   int f(int a) { struct S *v; { int w; out: ; } ... f(a) ... }         *)
(*   and an out-of-line copy g of f, whose parameter, variable, block and  *)
(*   label have only DW_AT_abstract_origin, and which inlines f's call of  *)
(*   itself: an inline expansion with a parameter, a variable and a block. *)
(***************************************************************************)
EXTENDS DwarfCU

INT == 1     TDEF == 2    CINT == 3    CTDEF == 4   ENUM == 5
STRUCT == 6  M1 == 7      M2 == 8      PTR == 9     F == 10
A == 11      V == 12      G == 13      GA == 14     GV == 15
TPTR == 16   LB == 17     LV == 18     LBL == 19    GLB == 20
GLV == 21    GLBL == 22   IE == 23     IEP == 24    IEV == 25
ILB == 26    ILV == 27    CALL == 28   ARR == 29    SR1 == 30
SR2 == 31    SR3 == 32    ARRV == 33   FT == 34     FTP == 35
FTU == 36    FPTR == 37   CB == 38     EA == 39     NS == 40
NT == 41     NX == 42     NH == 43     IDH == 44    IDT == 45
PM == 46     PMV == 47    IMN == 48    FAR == 99    \* FAR: a DIE of another unit (DW_FORM_ref_addr)

DieRec(tag, name, type, origin, bytes, bits, kids) ==
    [tag |-> tag, name |-> name, type |-> type, origin |-> origin, spec |-> 0,
     bytes |-> bytes, bits |-> bits, kids |-> kids, upper |-> -1, containing |-> 0]

\* A DW_TAG_subrange_type with DW_AT_upper_bound u (-1: none).
Subrange(u) == [DieRec("subrange_type", "", 0, 0, 0, 0, <<>>) EXCEPT !.upper = u]

\* A DW_TAG_ptr_to_member_type with DW_AT_containing_type cls.
PtrToMember(type, cls) ==
    [DieRec("ptr_to_member_type", "", type, 0, 0, 0, <<>>) EXCEPT !.containing = cls]

Dies(t1, b1, t2, b2) ==
    (INT :> DieRec("base_type", "int", 0, 0, 4, 0, <<>>)) @@
    (TDEF :> DieRec("typedef", "T", INT, 0, 0, 0, <<>>)) @@
    (CINT :> DieRec("const_type", "", INT, 0, 0, 0, <<>>)) @@
    (CTDEF :> DieRec("const_type", "", TDEF, 0, 0, 0, <<>>)) @@
    (ENUM :> DieRec("enumeration_type", "E", 0, 0, 4, 0, <<EA>>)) @@
    (EA :> DieRec("enumerator", "A", 0, 0, 0, 0, <<>>)) @@
    (ARR :> DieRec("array_type", "", INT, 0, 0, 0, <<SR1, SR2, SR3>>)) @@
    (SR1 :> Subrange(3)) @@ (SR2 :> Subrange(-1)) @@ (SR3 :> Subrange(7)) @@
    (ARRV :> DieRec("variable", "tab", ARR, 0, 0, 0, <<>>)) @@
    (FT :> DieRec("subroutine_type", "", INT, 0, 0, 0, <<FTP, FTU>>)) @@
    (FTP :> DieRec("formal_parameter", "", PTR, 0, 0, 0, <<>>)) @@
    (FTU :> DieRec("unspecified_parameters", "", 0, 0, 0, 0, <<>>)) @@
    (FPTR :> DieRec("pointer_type", "", FT, 0, 0, 0, <<>>)) @@
    (CB :> DieRec("typedef", "cb", FPTR, 0, 0, 0, <<>>)) @@
    (STRUCT :> DieRec("structure_type", "S", 0, 0, 8, 0, <<M1, M2>>)) @@
    (M1 :> DieRec("member", "m1", t1, 0, 0, b1, <<>>)) @@
    (M2 :> DieRec("member", "m2", t2, 0, 0, b2, <<>>)) @@
    (PTR :> DieRec("pointer_type", "", STRUCT, 0, 0, 0, <<>>)) @@
    (TPTR :> DieRec("typedef", "TP", PTR, 0, 0, 0, <<>>)) @@
    (F :> DieRec("subprogram", "f", INT, 0, 0, 0, <<A, V, LB>>)) @@
    (A :> DieRec("formal_parameter", "a", INT, 0, 0, 0, <<>>)) @@
    (V :> DieRec("variable", "v", PTR, 0, 0, 0, <<>>)) @@
    (LB :> DieRec("lexical_block", "", 0, 0, 0, 0, <<LV, LBL>>)) @@
    (LV :> DieRec("variable", "w", INT, 0, 0, 0, <<>>)) @@
    (LBL :> DieRec("label", "out", 0, 0, 0, 0, <<>>)) @@
    (G :> DieRec("subprogram", "", 0, F, 0, 0, <<GA, GV, GLB, IE>>)) @@
    (GA :> DieRec("formal_parameter", "", 0, A, 0, 0, <<>>)) @@
    (GV :> DieRec("variable", "", 0, V, 0, 0, <<>>)) @@
    (GLB :> DieRec("lexical_block", "", 0, LB, 0, 0, <<GLV, GLBL>>)) @@
    (GLV :> DieRec("variable", "", 0, LV, 0, 0, <<>>)) @@
    (GLBL :> DieRec("label", "", 0, LBL, 0, 0, <<>>)) @@
    (IE :> DieRec("inlined_subroutine", "", 0, F, 0, 0, <<IEP, IEV, ILB>>)) @@
    (IEP :> DieRec("formal_parameter", "", 0, A, 0, 0, <<>>)) @@
    (IEV :> DieRec("variable", "", 0, V, 0, 0, <<>>)) @@
    (ILB :> DieRec("lexical_block", "", 0, LB, 0, 0, <<ILV>>)) @@
    (ILV :> DieRec("variable", "", 0, LV, 0, 0, <<>>)) @@
    (NS :> DieRec("namespace", "N", 0, 0, 0, 0, <<NT, NX, NH>>)) @@
    (NT :> DieRec("typedef", "U", INT, 0, 0, 0, <<>>)) @@
    (NX :> DieRec("variable", "x", NT, 0, 0, 0, <<>>)) @@
    (NH :> DieRec("subprogram", "h", INT, 0, 0, 0, <<>>)) @@
    (IDH :> DieRec("imported_declaration", "", NH, 0, 0, 0, <<>>)) @@
    (IDT :> DieRec("imported_declaration", "", NT, 0, 0, 0, <<>>)) @@
    (PM :> PtrToMember(INT, STRUCT)) @@
    (PMV :> DieRec("variable", "pm", PM, 0, 0, 0, <<>>)) @@
    (IMN :> DieRec("imported_module", "", NS, 0, 0, 0, <<>>))

\* Types before their users, and users before their types.
TypesFirst == <<INT, TDEF, CINT, CTDEF, TPTR, ENUM, STRUCT, PTR, FT, FPTR, CB,
               ARR, ARRV, F, G>>
UsersFirst == <<STRUCT, PTR, G, F, ARRV, CB, FPTR, TPTR, INT, TDEF, CINT, CTDEF,
               ENUM, ARR, FT>>

CU(t1, b1, t2, b2, units, cxx) ==
    [die |-> Dies(t1, b1, t2, b2), units |-> units, cxx |-> cxx]

\* The member types a C compiler emits for bitfields: integral and enum
\* types, through typedef and const.
BitfieldTypes == {INT, TDEF, CINT, CTDEF, ENUM}

\* C CUs: every combination of member types, widths and DIE order.
CInputs ==
    {CU(t1, b1, t2, b2, u, FALSE) :
        t1 \in BitfieldTypes, b1 \in {0, 3, 32}, t2 \in BitfieldTypes,
        b2 \in {0, 3}, u \in {TypesFirst, UsersFirst}}

\* The same CUs in C++, where members also go to the tags table.
CxxInputs ==
    {CU(t1, b1, INT, 0, u, TRUE) :
        t1 \in BitfieldTypes, b1 \in {0, 3}, u \in {TypesFirst, UsersFirst}}

\* C++ CUs that also have namespace N, the using declarations of N::h and
\* N::U (the import of a function and of a type) and a pointer to member
\* of S, in both orders; no bitfields (see CxxInputs).
NsUnits == <<NS, IDH, IDT, PM, PMV>>
NsInputs ==
    {CU(t1, 0, INT, 0, u, TRUE) :
        t1 \in {INT, TDEF},
        u \in {TypesFirst \o NsUnits, <<IDH, IDT, PMV>> \o UsersFirst \o <<PM, NS>>}}

\* The resolve run: the C CUs and the C++ CUs with namespaces.
ResolveInputs == CInputs \cup NsInputs

\* A C++ CU with the directive using namespace N (DW_TAG_imported_module).
UsingNamespaceInputs == {CU(INT, 0, INT, 0, TypesFirst \o NsUnits \o <<IMN>>, TRUE)}

\* Bitfields over a const type: const int m1 : 3.
ConstInputs == {CU(CINT, 3, INT, 0, u, FALSE) : u \in {TypesFirst, UsersFirst}}

\* Full-width bitfields over a typedef: T m1 : 32.
FullWidthInputs == {CU(TDEF, 32, INT, 0, u, FALSE) : u \in {TypesFirst, UsersFirst}}

\* A bitfield whose type is a DIE of another unit.
FarInputs == {CU(FAR, 3, INT, 0, TypesFirst, FALSE)}

\* f with a call site as GCC emits at -O2 (DW_TAG_GNU_call_site), a child
\* kind __die__process_tag does not build.
UnknownInputs ==
    LET c == CU(INT, 0, INT, 0, TypesFirst, FALSE)
        d == (CALL :> DieRec("GNU_call_site", "", 0, 0, 0, 0, <<>>)) @@ c.die
    IN  {[c EXCEPT !.die = [d EXCEPT ![F].kids = Append(@, CALL)]]}

\* A CU with no bitfields: its types table has 13 entries (void included).
WrapInputs == {CU(INT, 0, INT, 0, u, FALSE) : u \in {TypesFirst, UsersFirst}}

MCNameToSize == ("int" :> 32) @@ ("char" :> 8)

====
