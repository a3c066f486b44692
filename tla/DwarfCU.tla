------------------------------ MODULE DwarfCU ------------------------------
(***************************************************************************)
(* One compilation unit (CU) loaded by src/dwarf_loader.c.                 *)
(*                                                                         *)
(*   load    die__process_unit: each top-level DIE is built (with its      *)
(*           children), put in the types, tags or functions table and      *)
(*           hashed by DIE offset; its dwarf_tag keeps the raw offsets.    *)
(*   recode  cu__recode_dwarf_types: the types table (from 1), then the    *)
(*           tags table, then the functions table are walked and every     *)
(*           raw offset is rewritten into a small_id; bitfield members get *)
(*           a type of their own width (tag__recode_dwarf_bitfield), which *)
(*           is appended to the types table while it is being walked.      *)
(*   cache   class_member__cache_byte_size on every member.                *)
(*                                                                         *)
(* The program is sequential; what varies is the input, chosen in Init     *)
(* from Inputs.  A DIE is identified by its offset; an object created by   *)
(* the recoder has no DIE (priv == NULL) and gets a handle above SynBase.  *)
(***************************************************************************)
EXTENDS Integers, Sequences, SequencesExt, TLC

CONSTANTS
    Inputs,       \* CUs the loader may be handed: [die, units, cxx]
    IdBits,       \* width of dwarf_tag.small_id and tag.type (16 in the code)
    NameToSize,   \* base_type__name_to_size: base type name -> bits, 0 if unknown
    PointerBytes, \* cu->addr_size
    FixupSilly,   \* conf_load->fixup_silly_bitfields
    MaxDimensions \* max_dimensions of die__create_new_array (64 in the code)

VARIABLES
    cu,         \* the CU: die (offset -> DIE), units (top-level order), cxx
    phase,      \* "load", "recode", "cache", "done", "aborted" or "crashed"
    at,         \* loop cursor [tbl, i]: table being walked and entry index
    obj,        \* struct tag (and its subtype) of every handle
    types,      \* cu->types_table, entry k at position k+1; entry 0 is void
    tags,       \* cu->tags_table
    funcs,      \* cu->functions_table
    sid,        \* dwarf_tag.small_id of every handle put in a table
    hashTypes,  \* DIE offsets in dwarf_cu.hash_types
    hashTags    \* DIE offsets in dwarf_cu.hash_tags

vars == <<cu, phase, at, obj, types, tags, funcs, sid, hashTypes, hashTags>>

NULL == 0
EINVAL == 22
IdMod == 2 ^ IdBits
SynBase == 1000
\* A field tag__alloc leaves as obstack_alloc returned it (not zeroed):
\* ptr_to_member_type.containing_type until it is recoded.
Unset == -1
Final == {"done", "aborted", "crashed"}

\* tag__is_tag_type: the kinds kept in the types table and hash_types
\* (spec 4.C: types, qualifiers, pointers, aggregates, namespaces)
TagTypeKinds == {"base_type", "typedef", "const_type", "volatile_type",
                 "pointer_type", "reference_type", "ptr_to_member_type",
                 "enumeration_type", "structure_type", "class_type",
                 "interface_type", "union_type", "namespace", "array_type",
                 "subroutine_type"}
\* tag__is_type: the kinds whose name may come from DW_AT_specification
IsTypeKinds == {"typedef", "enumeration_type", "structure_type", "union_type",
                "class_type", "interface_type"}
\* tag__has_namespace: the kinds whose children are recoded as a list
NamespaceKinds == {"structure_type", "class_type", "interface_type",
                   "union_type", "enumeration_type", "namespace"}
\* The kinds whose raw type is DW_AT_import (tag__init)
ImportKinds == {"imported_declaration", "imported_module"}
Qualifiers == {"typedef", "const_type", "volatile_type"}
\* The kinds __die__process_tag builds; for any other it returns NULL.
DispatchKinds == {"array_type", "base_type", "const_type", "imported_declaration",
                  "imported_module", "pointer_type", "reference_type",
                  "volatile_type", "ptr_to_member_type", "enumeration_type",
                  "namespace", "class_type", "interface_type", "structure_type",
                  "subprogram", "subroutine_type", "typedef", "union_type",
                  "variable"}

Die(d) == cu.die[d]

\* F applied to the value of m.  The loader threads its state through nested
\* calls; TLC re-evaluates an operator argument at each of its uses when it
\* evaluates ENABLED for fairness, so each intermediate state is bound once.
Then(m, F(_)) == CHOOSE r \in {F(v) : v \in {m}} : TRUE

\* F applied to m unless building failed: a NULL tag or an error return
\* goes straight back up to die__process_unit as -ENOMEM.
Built(m, F(_)) == Then(m, LAMBDA n : IF n.err THEN n ELSE F(n))
DieOffsets == DOMAIN cu.die

(***************************************************************************)
(* The state threaded through one step of the loader, and the step's end.  *)
(***************************************************************************)
Mem == [obj |-> obj, types |-> types, tags |-> tags, funcs |-> funcs,
        sid |-> sid, hashTypes |-> hashTypes, hashTags |-> hashTags,
        fault |-> FALSE, err |-> FALSE]

Store(m) ==
    /\ obj' = m.obj
    /\ types' = m.types
    /\ tags' = m.tags
    /\ funcs' = m.funcs
    /\ sid' = m.sid
    /\ hashTypes' = m.hashTypes
    /\ hashTags' = m.hashTags

\* A NULL dereference: the process dies with SIGSEGV.
Segv(m) == [m EXCEPT !.fault = TRUE]

SetType(m, h, id) == [m EXCEPT !.obj[h].type = id]

\* cu__type: the handle at a types table index, NULL for void or past the end
TypeAt(m, id) == IF id > 0 /\ id < Len(m.types) THEN m.types[id + 1] ELSE NULL

(***************************************************************************)
(* Building (section 4.B/4.C).                                             *)
(***************************************************************************)

\* tag__alloc + tag__init + the *__new constructor of the DIE's kind
NewTag(d) ==
    [tag |-> Die(d).tag, name |-> Die(d).name, type |-> 0, raw |-> TRUE,
     kids |-> <<>>, block |-> <<>>, entries |-> <<>>, bitfield |-> Die(d).bits,
     bits |-> IF Die(d).tag = "enumeration_type" /\ Die(d).bytes = 0
              THEN 32 ELSE Die(d).bytes * 8,
     byteSize |-> 0, bitSize |-> 0, containing |-> Unset]

TableOf(kind) ==
    IF kind \in TagTypeKinds THEN "types"
    ELSE IF kind = "subprogram" THEN "funcs" ELSE "tags"

\* Mutations (plausible slips in the code below), used to show that each
\* property of the passing runs can fail.
TableAddBeforeIndex(m, h) ==
    LET t == TableOf(m.obj[h].tag)
    IN  [m EXCEPT ![t] = Append(@, h), !.sid = @ @@ (h :> Len(m[t]) - 1)]
TableAddAfterAppend(m, h) ==
    LET t == TableOf(m.obj[h].tag)
    IN  [m EXCEPT ![t] = Append(@, h), !.sid = @ @@ (h :> (Len(m[t]) + 1) % IdMod)]

\* cu__table_add_tag followed by dtag->small_id = id
TableAdd(m, h) ==
    LET t == TableOf(m.obj[h].tag)
    IN  [m EXCEPT ![t] = Append(@, h), !.sid = @ @@ (h :> Len(m[t]) % IdMod)]

\* cu__hash
Hash(m, h) ==
    IF m.obj[h].tag \in TagTypeKinds
    THEN [m EXCEPT !.hashTypes = @ \cup {h}]
    ELSE [m EXCEPT !.hashTags = @ \cup {h}]

AddTo(m, p, list, c) == [m EXCEPT !.obj[p][list] = Append(@, c)]

\* Mutation: the bound taken as the entry count.
UpperBoundNoIncrement(d) == IF Die(d).upper < 0 THEN 0 ELSE Die(d).upper

\* attr_upper_bound: DW_AT_upper_bound + 1, and 0 when it is absent (upper
\* is -1 in the DIE record).
UpperBound(d) == IF Die(d).upper < 0 THEN 0 ELSE Die(d).upper + 1

\* The loop of die__create_new_array over the array's children: a
\* DW_TAG_subrange_type adds a dimension, and the loop stops once there are
\* max_dimensions; any other child is reported as not handled.
RECURSIVE ArrayDims(_, _)
ArrayDims(ks, dims) ==
    IF ks = <<>> THEN dims
    ELSE IF Die(Head(ks)).tag # "subrange_type" THEN ArrayDims(Tail(ks), dims)
    ELSE LET e == Append(dims, UpperBound(Head(ks)))
         IN  IF Len(e) = MaxDimensions THEN e ELSE ArrayDims(Tail(ks), e)

RECURSIVE Process(_, _), ProcessKids(_, _, _)

\* __die__process_tag: a kind it does not build is reported as not handled
\* and yields NULL, which every caller returns as -ENOMEM.
ProcessTag(m, d) ==
    IF Die(d).tag \in DispatchKinds THEN Process(m, d) ELSE [m EXCEPT !.err = TRUE]

\* Mutation: a member becomes a table entry in C too.
ProcessClassChildAlwaysTable(m, p, c) ==
    CASE Die(c).tag \in {"template_type_parameter", "template_value_parameter"} -> m
      [] Die(c).tag \in {"member", "inheritance"} ->
           Hash(AddTo(TableAdd([m EXCEPT !.obj = @ @@ (c :> NewTag(c))], c), p, "kids", c), c)
      [] OTHER -> Built(ProcessTag(m, c), LAMBDA n : Hash(AddTo(TableAdd(n, c), p, "kids", c), c))

\* die__process_class, for one child c of struct or union p: template
\* parameters are skipped; a member is only a table entry in C++; any other
\* child goes through __die__process_tag and is added and hashed.
ProcessClassChild(m, p, c) ==
    CASE Die(c).tag \in {"template_type_parameter", "template_value_parameter"} -> m
      [] Die(c).tag \in {"member", "inheritance"} ->
           LET m1 == [m EXCEPT !.obj = @ @@ (c :> NewTag(c))]
               m2 == IF cu.cxx THEN TableAdd(m1, c) ELSE m1
           IN  Hash(AddTo(m2, p, "kids", c), c)
      [] OTHER -> Built(ProcessTag(m, c), LAMBDA n : Hash(AddTo(TableAdd(n, c), p, "kids", c), c))

\* die__create_new_enumeration, for one child c: an enumerator joins the
\* list (no table, no hash); any other child is reported and skipped.
ProcessEnumChild(m, p, c) ==
    IF Die(c).tag = "enumerator"
    THEN AddTo([m EXCEPT !.obj = @ @@ (c :> NewTag(c))], p, "kids", c)
    ELSE m

\* die__create_new_parameter: a parameter joins the function's prototype,
\* and one met in a lexical block joins the block's tag list.
NewParameter(m, p, c) ==
    Built(Process(m, c), LAMBDA n :
         AddTo(n, p, IF Die(p).tag \in {"subprogram", "subroutine_type"}
                     THEN "kids" ELSE "block", c))

\* die__create_new_subroutine_type, for one child c of function type p: a
\* parameter joins the parameter list, DW_TAG_unspecified_parameters only
\* sets a flag, any other child goes through __die__process_tag; each tag
\* then goes to a table and the hash.
ProcessSubroutineChild(m, p, c) ==
    CASE Die(c).tag = "unspecified_parameters" -> m
      [] Die(c).tag = "formal_parameter" ->
           Built(NewParameter(m, p, c), LAMBDA n : Hash(TableAdd(n, c), c))
      [] OTHER -> Built(ProcessTag(m, c), LAMBDA n : Hash(TableAdd(n, c), c))

\* die__create_new_lexblock: the block's children are processed, then it
\* joins its father, if it has one; it is in no table and no hash.
NewLexblock(m, father, c) ==
    Built(Process(m, c), LAMBDA n :
         IF father = NULL THEN n ELSE AddTo(n, father, "block", c))

\* die__create_new_inline_expansion: the children first, then the block.
NewInlineExpansion(m, lexblock, c) == NewLexblock(m, lexblock, c)

\* die__process_namespace, for one child c of namespace p: every child
\* goes through __die__process_tag, into a table, onto the namespace's
\* list and into the hash.
ProcessNamespaceChild(m, p, c) ==
    Built(ProcessTag(m, c), LAMBDA n : Hash(AddTo(TableAdd(n, c), p, "kids", c), c))

\* die__process_function, for one child c of p, a subprogram or a lexical
\* block (p is the ftype only when it is a subprogram): a parameter joins
\* the prototype, or else the block; variables and labels join the block;
\* all but nested blocks then go to a table and the hash. Template
\* parameters and DW_TAG_unspecified_parameters build no tag.
ProcessFunctionChild(m, p, c) ==
    LET Tabled(n) == Hash(TableAdd(n, c), c)
        k == Die(c).tag
    IN  CASE k \in {"template_type_parameter", "template_value_parameter",
                     "unspecified_parameters"} -> m
          [] k = "formal_parameter" -> Built(NewParameter(m, p, c), LAMBDA n : Tabled(n))
          [] k \in {"variable", "label"} ->
               Built(Process(m, c), LAMBDA n : Tabled(AddTo(n, p, "block", c)))
          [] k = "inlined_subroutine" ->
               Built(NewInlineExpansion(m, p, c), LAMBDA n : Tabled(n))
          [] k = "lexical_block" -> NewLexblock(m, p, c)
          [] OTHER -> Built(ProcessTag(m, c), LAMBDA n : Tabled(n))

\* die__process_inline_expansion, for one child c of an inline expansion:
\* parameters are skipped; a lexical block is built with no father, a
\* nested inline expansion with no block, and both, like any other child,
\* belong to no function; all but the block go to a table and the hash.
ProcessInlineChild(m, c) ==
    CASE Die(c).tag = "formal_parameter" -> m
      [] Die(c).tag = "lexical_block" -> NewLexblock(m, NULL, c)
      [] Die(c).tag = "inlined_subroutine" ->
           Built(NewInlineExpansion(m, NULL, c), LAMBDA n : Hash(TableAdd(n, c), c))
      [] OTHER -> Built(ProcessTag(m, c), LAMBDA n : Hash(TableAdd(n, c), c))

ProcessChild(m, p, c) ==
    CASE Die(p).tag \in {"subprogram", "lexical_block"} -> ProcessFunctionChild(m, p, c)
      [] Die(p).tag = "inlined_subroutine" -> ProcessInlineChild(m, c)
      [] Die(p).tag = "subroutine_type" -> ProcessSubroutineChild(m, p, c)
      [] Die(p).tag = "enumeration_type" -> ProcessEnumChild(m, p, c)
      [] Die(p).tag = "namespace" -> ProcessNamespaceChild(m, p, c)
      [] OTHER -> ProcessClassChild(m, p, c)

\* __die__process_tag: the builder of the DIE's kind creates the tag, then
\* its children, in DIE order
Process(m, d) ==
    Then([m EXCEPT !.obj = @ @@ (d :> NewTag(d))], LAMBDA n :
         IF Die(d).tag = "array_type"
         THEN [n EXCEPT !.obj[d].entries = ArrayDims(Die(d).kids, <<>>)]
         ELSE ProcessKids(n, d, Die(d).kids))

ProcessKids(m, p, ks) ==
    IF ks = <<>> \/ m.err THEN m
    ELSE Then(ProcessChild(m, p, Head(ks)), LAMBDA n : ProcessKids(n, p, Tail(ks)))

(***************************************************************************)
(* Lookups by raw offset (hashtags__find: offset 0 is never found).       *)
(***************************************************************************)
FindType(m, off) == IF off # 0 /\ off \in m.hashTypes THEN off ELSE NULL
FindTag(m, off) == IF off # 0 /\ off \in m.hashTags THEN off ELSE NULL

(***************************************************************************)
(* Bitfield recoding (section 4.E).                                        *)
(***************************************************************************)

\* cu__find_base_type_by_sname_and_size / cu__find_enumeration_by_sname_and_size
FindRecodable(m, kind, name, b) ==
    LET ks == {k \in 1 .. Len(m.types) - 1 :
                 /\ m.obj[m.types[k + 1]].tag = kind
                 /\ m.obj[m.types[k + 1]].name = name
                 /\ m.obj[m.types[k + 1]].bits = b}
    IN  IF ks = {} THEN NULL ELSE Min(ks) % IdMod

\* Mutation: the new type's width is not stored.
RecodedNoWidth(kind, name, bits, type, kids) ==
    [tag |-> kind, name |-> name, type |-> type, raw |-> FALSE, kids |-> kids,
     block |-> <<>>, entries |-> <<>>, bitfield |-> 0, bits |-> 0, byteSize |-> 0, bitSize |-> 0,
     containing |-> 0]

\* The object allocated by obstack_zalloc for a recoded type.
Recoded(kind, name, bits, type, kids) ==
    [tag |-> kind, name |-> name, type |-> type, raw |-> FALSE, kids |-> kids,
     block |-> <<>>, entries |-> <<>>, bitfield |-> 0, bits |-> bits, byteSize |-> 0, bitSize |-> 0,
     containing |-> 0]

\* The wrapper recoded for a typedef, const or volatile over the type id.
RecodedWrapper(o, id) ==
    IF o.tag = "typedef" THEN Recoded("typedef", o.name, 0, id, <<>>)
    ELSE Recoded("volatile_type", "", 0, id, <<>>)

\* cu__add_tag of a recoded type: its new_id is the types table index.
AddRecoded(m, rec) ==
    LET h == SynBase + Len(m.types)
    IN  [m |-> [m EXCEPT !.obj = @ @@ (h :> rec), !.types = Append(@, h)],
         id |-> Len(m.types)]

\* tag__recode_dwarf_bitfield: [m, id], id < 0 on error
RECURSIVE RecodeBitfield(_, _, _)
RecodeBitfield(m, h, b) ==
    LET o == m.obj[h]
    IN  CASE o.tag \in Qualifiers ->
               LET t == FindType(m, Die(h).type)
               IN  IF t = NULL THEN [m |-> Segv(m), id |-> 0]
                   ELSE Then(RecodeBitfield(m, t, b), LAMBDA r :
                          LET id == r.id % IdMod  \* stored in a uint16_t
                          IN  IF r.m.fault \/ id = o.type THEN [m |-> r.m, id |-> id]
                              ELSE AddRecoded(r.m, RecodedWrapper(o, id)))
          [] o.tag \in {"base_type", "enumeration_type"} ->
               LET f == FindRecodable(m, o.tag, o.name, b)
               IN  IF f # NULL THEN [m |-> m, id |-> f]
                   ELSE AddRecoded(m, Recoded(o.tag, o.name, b, 0, o.kids))
          [] OTHER -> [m |-> m, id |-> -EINVAL]

\* Mutation: the member keeps the small_id of its DW_AT_type.
RecodeMemberBitfieldUnrecoded(m, k) ==
    LET t == FindType(m, Die(k).type)
    IN  IF t = NULL THEN Segv(m) ELSE SetType(m, k, m.sid[t])

\* class_member__dwarf_recode_bitfield
RecodeMemberBitfield(m, k) ==
    LET t == FindType(m, Die(k).type)
    IN  IF t = NULL THEN Segv(m)
        ELSE Then(RecodeBitfield(m, t, m.obj[k].bitfield), LAMBDA r :
                 IF r.m.fault THEN r.m
                 ELSE IF r.id < 0 THEN [r.m EXCEPT !.err = TRUE]
                 ELSE SetType(r.m, k, r.id % IdMod))

(***************************************************************************)
(* Reference resolution (section 4.D).                                     *)
(***************************************************************************)

\* Copy name and type from the abstract origin (ftype/lexblock recoding).
FromOrigin(m, p) ==
    LET o == FindTag(m, Die(p).origin)
    IN  IF o = NULL THEN m
        ELSE [m EXCEPT !.obj[p].name = m.obj[o].name, !.obj[p].type = m.obj[o].type]

\* Resolve the raw type of h through hash_types; a miss leaves it as it is.
LookupType(m, h) ==
    LET t == FindType(m, Die(h).type)
    IN  IF t = NULL THEN m ELSE SetType(m, h, m.sid[t])

\* ftype__recode_dwarf_types, for one parameter
RecodeParam(m, p) ==
    IF Die(p).type = 0
    THEN IF Die(p).origin = 0 THEN SetType(m, p, 0) ELSE FromOrigin(m, p)
    ELSE LookupType(m, p)

\* lexblock__recode_dwarf_types, for a parameter or variable of the block:
\* one without DW_AT_type takes name and type from its abstract origin,
\* and one with neither is left alone.
RecodeLexVar(m, v) ==
    IF Die(v).type = 0
    THEN IF Die(v).origin = 0 THEN m ELSE FromOrigin(m, v)
    ELSE LookupType(m, v)

\* The label arm: the name comes from the abstract origin, if it is found.
RecodeLabel(m, l) ==
    LET o == FindTag(m, Die(l).origin)
    IN  IF o = NULL THEN m ELSE [m EXCEPT !.obj[l].name = m.obj[o].name]

RecodeParams(m, f) ==
    FoldLeft(LAMBDA a, p : Then(a, LAMBDA n : RecodeParam(n, p)), m, m.obj[f].kids)

RECURSIVE RecodeLexblock(_, _)

\* lexblock__recode_dwarf_types, for one tag t of a block: a nested block
\* is walked; an inline expansion recodes the parameters of the function
\* its abstract origin names, and keeps its own type; the default arm
\* resolves DW_AT_type through hash_types.
RecodeBlockTag(m, t) ==
    LET k == m.obj[t].tag
    IN  CASE k = "lexical_block" -> RecodeLexblock(m, t)
          [] k = "inlined_subroutine" ->
               LET o == FindTag(m, Die(t).origin)
               IN  IF o = NULL THEN m ELSE RecodeParams(m, o)
          [] k \in {"formal_parameter", "variable"} -> RecodeLexVar(m, t)
          [] k = "label" -> RecodeLabel(m, t)
          [] OTHER -> LookupType(m, t)

RecodeLexblock(m, b) ==
    FoldLeft(LAMBDA a, t : Then(a, LAMBDA n : RecodeBlockTag(n, t)), m, m.obj[b].block)

\* type__recode_dwarf_specification
RecodeSpecification(m, h) ==
    LET t == FindType(m, Die(h).spec)
    IN  IF m.obj[h].name # "" \/ t = NULL THEN m
        ELSE [m EXCEPT !.obj[h].name = m.obj[t].name]

\* The tail of tag__recode_dwarf_type: no raw type is void, a miss is kept.
ResolveType(m, h) == IF Die(h).type = 0 THEN SetType(m, h, 0) ELSE LookupType(m, h)

\* The name of a nameless subprogram, from its abstract origin or else its
\* specification (both looked up in hash_tags).
RecodeFnName(m, f) ==
    LET o == FindTag(m, Die(f).origin)
        s == FindTag(m, Die(f).spec)
        src == IF o # NULL THEN o ELSE s
    IN  IF m.obj[f].name # "" \/ src = NULL THEN m
        ELSE [m EXCEPT !.obj[f].name = m.obj[src].name]

\* Mutation: an imported declaration looked up in hash_tags only.
RecodeImportNoFallback(m, h) ==
    LET t == FindTag(m, Die(h).type)
    IN  IF t = NULL THEN m ELSE SetType(m, h, m.sid[t])

\* The imported_module and imported_declaration arms of
\* namespace__recode_dwarf_types and tag__recode_dwarf_type: the raw type
\* (DW_AT_import) is looked up in hash_tags, and for a declaration, "for
\* both types and non types", then in hash_types; a miss leaves the type.
RecodeImport(m, h) ==
    LET t == FindTag(m, Die(h).type)
        u == IF t = NULL /\ m.obj[h].tag = "imported_declaration"
             THEN FindType(m, Die(h).type) ELSE t
    IN  IF u = NULL THEN m ELSE SetType(m, h, m.sid[u])

\* Mutation: the containing type looked up in hash_tags.
RecodeContainingByTag(m, h) ==
    LET t == FindTag(m, Die(h).containing)
    IN  IF t = NULL THEN m ELSE [m EXCEPT !.obj[h].containing = m.sid[t]]

\* The DW_TAG_ptr_to_member_type arm of tag__recode_dwarf_type: the raw
\* DW_AT_containing_type through hash_types; a miss leaves it.
RecodeContaining(m, h) ==
    LET t == FindType(m, Die(h).containing)
    IN  IF t = NULL THEN m ELSE [m EXCEPT !.obj[h].containing = m.sid[t]]

RECURSIVE RecodeNamespace(_, _), RecodeKids(_, _)

\* namespace__recode_dwarf_types, for one child
RecodeKid(m, k) ==
    LET o == m.obj[k]
    IN  CASE o.tag \in NamespaceKinds -> RecodeNamespace(m, k)
          [] o.tag = "member" /\ o.bitfield # 0 -> RecodeMemberBitfield(m, k)
          [] o.tag \in {"subprogram", "subroutine_type"} ->
               Then(RecodeParams(m, k), LAMBDA n : LookupType(n, k))
          [] o.tag \in ImportKinds -> RecodeImport(m, k)
          [] OTHER -> LookupType(m, k)

\* A failed child ends the walk and namespace__recode_dwarf_types fails.
RecodeKids(m, ks) ==
    IF ks = <<>> \/ m.err \/ m.fault THEN m
    ELSE Then(RecodeKid(m, Head(ks)), LAMBDA n : RecodeKids(n, Tail(ks)))

RecodeNamespace(m, h) == RecodeKids(m, m.obj[h].kids)

\* Mutation: the abstract origin of an inline expansion looked up in
\* hash_types, like a DW_AT_type.
RecodeInlineByType(m, h) ==
    LET t == FindType(m, Die(h).origin)
    IN  IF t = NULL THEN m ELSE SetType(m, h, m.sid[t])

\* tag__recode_dwarf_type for an inline expansion: its raw type is its
\* DW_AT_abstract_origin, looked up in hash_tags; a miss leaves the type.
RecodeInline(m, h) ==
    LET t == FindTag(m, Die(h).origin)
    IN  IF t = NULL THEN m ELSE SetType(m, h, m.sid[t])

\* tag__recode_dwarf_type for a table entry
RecodeTag(m, h) ==
    LET o == m.obj[h]
        m1 == IF o.tag \in IsTypeKinds THEN RecodeSpecification(m, h) ELSE m
    IN  CASE ~o.raw -> m
          [] o.tag \in NamespaceKinds -> RecodeNamespace(m1, h)
          [] o.tag = "subprogram" /\ o.name = ""
               /\ Die(h).origin = 0 /\ Die(h).spec = 0 -> m1
          [] o.tag = "subprogram" ->
               Then(RecodeFnName(m1, h), LAMBDA a :
               Then(RecodeLexblock(a, h), LAMBDA b :
               Then(RecodeParams(b, h), LAMBDA c : ResolveType(c, h))))
          [] o.tag = "inlined_subroutine" -> RecodeInline(m1, h)
          [] o.tag = "subroutine_type" -> Then(RecodeParams(m1, h), LAMBDA n : ResolveType(n, h))
          [] o.tag = "ptr_to_member_type" -> Then(RecodeContaining(m1, h), LAMBDA n : ResolveType(n, h))
          [] o.tag \in ImportKinds -> RecodeImport(m1, h)
          [] OTHER -> ResolveType(m1, h)

\* Mutation: the functions table walked before the tags table.
RecodeTablesFuncsFirst == <<"types", "funcs", "tags">>

\* cu__recode_dwarf_types: the tables in the order they are walked, and the
\* index each walk starts at (entry 0 of the types table is void).
RecodeTables == <<"types", "tags", "funcs">>
RecodeStart(t) == IF t = "types" THEN 1 ELSE 0

(***************************************************************************)
(* The member size cache (section 4.F).                                    *)
(***************************************************************************)

\* tag__follow_typedef
RECURSIVE FollowTypedef(_, _)
FollowTypedef(m, id) ==
    LET t == TypeAt(m, id)
    IN  IF t # NULL /\ m.obj[t].tag = "typedef" THEN FollowTypedef(m, m.obj[t].type) ELSE t

\* The check_volatile loop: skip const and volatile, each through typedefs.
RECURSIVE StorageType(_, _)
StorageType(m, t) ==
    IF t # NULL /\ m.obj[t].tag \in {"const_type", "volatile_type"}
    THEN StorageType(m, FollowTypedef(m, m.obj[t].type))
    ELSE t

\* tag__size of a type id, in bytes
RECURSIVE TypeBytes(_, _)
TypeBytes(m, id) ==
    LET t == TypeAt(m, id)
    IN  CASE t = NULL -> 0
          [] m.obj[t].tag \in Qualifiers -> TypeBytes(m, m.obj[t].type)
          [] m.obj[t].tag = "pointer_type" -> PointerBytes
          [] OTHER -> m.obj[t].bits \div 8

\* Mutation: bit_size taken from the container for every bitfield.
CacheMemberContainerBits(m, k) ==
    LET o == m.obj[k]
        t == StorageType(m, FollowTypedef(m, o.type))
        integral == IF m.obj[t].tag = "enumeration_type" THEN 32
                    ELSE IF m.obj[t].name \in DOMAIN NameToSize
                         THEN NameToSize[m.obj[t].name] ELSE 0
    IN  CASE o.bitfield = 0 ->
               [m EXCEPT !.obj[k].byteSize = TypeBytes(m, o.type),
                         !.obj[k].bitSize = TypeBytes(m, o.type) * 8]
          [] t = NULL -> Segv(m)
          [] OTHER -> [m EXCEPT !.obj[k].byteSize = integral \div 8,
                                !.obj[k].bitSize = integral]

\* class_member__cache_byte_size
CacheMember(m, k) ==
    LET o == m.obj[k]
        t == StorageType(m, FollowTypedef(m, o.type))
        typeBits == m.obj[t].bits
        integral == IF m.obj[t].tag = "enumeration_type" THEN 32
                    ELSE IF m.obj[t].name \in DOMAIN NameToSize
                         THEN NameToSize[m.obj[t].name] ELSE 0
    IN  CASE o.bitfield = 0 ->
               [m EXCEPT !.obj[k].byteSize = TypeBytes(m, o.type),
                         !.obj[k].bitSize = TypeBytes(m, o.type) * 8]
          [] t = NULL -> Segv(m)
          [] integral = 0 -> [m EXCEPT !.obj[k].byteSize = 0]
          [] typeBits = integral ->
               [m EXCEPT !.obj[k].byteSize = integral \div 8,
                         !.obj[k].bitSize = integral,
                         !.obj[k].bitfield = IF FixupSilly THEN 0 ELSE @]
          [] OTHER ->
               [m EXCEPT !.obj[k].byteSize = integral \div 8,
                         !.obj[k].bitSize = typeBits]

Members(m) == {h \in DOMAIN m.obj : m.obj[h].tag \in {"member", "inheritance"}}

CacheMembers(m) ==
    LET step(acc, k) == Then(acc, LAMBDA a : IF a.fault THEN a ELSE CacheMember(a, k))
    IN  FoldLeft(step, m, SetToSeq(Members(m)))

(***************************************************************************)
(* The specification.                                                     *)
(***************************************************************************)
InputOK(c) ==
    /\ c.cxx \in BOOLEAN
    /\ 0 \notin DOMAIN c.die
    /\ \A d \in DOMAIN c.die : d < SynBase
    /\ \A i \in DOMAIN c.units : c.units[i] \in DOMAIN c.die

ASSUME \A c \in Inputs : InputOK(c)

Init ==
    /\ cu \in Inputs
    /\ phase = "load"
    /\ at = [tbl |-> 0, i |-> 1]
    /\ obj = [h \in {} |-> NULL]
    /\ types = <<NULL>>
    /\ tags = <<>>
    /\ funcs = <<>>
    /\ sid = [h \in {} |-> 0]
    /\ hashTypes = {}
    /\ hashTags = {}

\* One iteration of die__process_unit: build a top-level DIE, cu__add_tag,
\* cu__hash and set its small_id. A NULL from __die__process_tag returns
\* -ENOMEM, and die__process fails the CU.
LoadUnit ==
    /\ phase = "load"
    /\ at.i <= Len(cu.units)
    /\ LET u == cu.units[at.i] IN
       \E m \in {Built(ProcessTag(Mem, u), LAMBDA n : Hash(TableAdd(n, u), u))} :
           /\ Store(m)
           /\ phase' = IF m.err THEN "aborted" ELSE "load"
    /\ at' = [at EXCEPT !.i = @ + 1]
    /\ UNCHANGED cu

\* die__process: the children are done, cu__recode_dwarf_types starts.
StartRecode ==
    /\ phase = "load"
    /\ at.i > Len(cu.units)
    /\ phase' = "recode"
    /\ at' = [tbl |-> 1, i |-> RecodeStart(RecodeTables[1])]
    /\ UNCHANGED <<cu, obj, types, tags, funcs, sid, hashTypes, hashTags>>

\* One iteration of cu__recode_dwarf_types_table.  The bound is re-read at
\* every iteration, so types appended by the recoder are visited too.
RecodeEntry ==
    /\ phase = "recode"
    /\ LET t == RecodeTables[at.tbl]
       IN  /\ at.i < Len(Mem[t])
           /\ \E m \in {RecodeTag(Mem, Mem[t][at.i + 1])} :
                  /\ Store(m)
                  /\ phase' = IF m.fault THEN "crashed"
                              ELSE IF m.err THEN "aborted" ELSE "recode"
    /\ at' = [at EXCEPT !.i = @ + 1]
    /\ UNCHANGED cu

\* A table is done: walk the next one.
NextTable ==
    /\ phase = "recode"
    /\ at.tbl < Len(RecodeTables)
    /\ at.i >= Len(Mem[RecodeTables[at.tbl]])
    /\ at' = [tbl |-> at.tbl + 1, i |-> RecodeStart(RecodeTables[at.tbl + 1])]
    /\ UNCHANGED <<cu, phase, obj, types, tags, funcs, sid, hashTypes, hashTags>>

\* The last table is done; cus__load_module runs cu__for_all_tags with
\* class_member__cache_byte_size.
CacheSizes ==
    /\ phase = "recode"
    /\ at.tbl = Len(RecodeTables)
    /\ at.i >= Len(Mem[RecodeTables[at.tbl]])
    /\ \E m \in {CacheMembers(Mem)} :
           /\ Store(m)
           /\ phase' = IF m.fault THEN "crashed" ELSE "done"
    /\ UNCHANGED <<cu, at>>

Next ==
    \/ LoadUnit
    \/ StartRecode
    \/ RecodeEntry
    \/ NextTable
    \/ CacheSizes

\* The loader runs a CU to the end without waiting on anything.
Spec == Init /\ [][Next]_vars /\ WF_vars(Next)

(***************************************************************************)
(* Properties.                                                             *)
(***************************************************************************)
Handles == DOMAIN obj
MemberKinds == ImportKinds \cup {"member", "formal_parameter", "variable", "subprogram",
                "lexical_block", "label", "inlined_subroutine"}

TagRecords ==
    [tag: TagTypeKinds \cup MemberKinds \cup {"enumerator"}, name: STRING,
     type: Int, raw: BOOLEAN, kids: Seq(Nat), block: Seq(Nat),
     entries: Seq(Nat), bitfield: Nat, bits: Nat,
     byteSize: Nat, bitSize: Nat, containing: Int]

\* Every table index stored in a tag fits the 16-bit (IdBits) fields.
TypeOK ==
    /\ cu \in Inputs
    /\ phase \in {"load", "recode"} \cup Final
    /\ at \in [tbl: 0 .. Len(RecodeTables), i: Nat]
    /\ \A h \in Handles : obj[h] \in TagRecords /\ obj[h].type \in 0 .. IdMod - 1
    /\ \A h \in DOMAIN sid : sid[h] \in 0 .. IdMod - 1
    /\ types \in Seq(Nat) /\ tags \in Seq(Nat) /\ funcs \in Seq(Nat)
    /\ hashTypes \subseteq DieOffsets /\ hashTags \subseteq DieOffsets

\* cu__recode_dwarf_types has walked all three tables.
Resolved ==
    \/ phase = "recode" /\ at.tbl = Len(RecodeTables) /\ at.i >= Len(funcs)
    \/ phase = "done"

\* The DIE a types table index stands for (NULL for void or a recoded type).
DieAt(id) ==
    LET t == TypeAt(Mem, id) IN IF t # NULL /\ obj[t].raw THEN t ELSE NULL

\* A DIE whose type is its own DW_AT_type, looked up in hash_types.
PlainRef(h) ==
    /\ obj[h].raw
    /\ obj[h].tag \notin ImportKinds \cup {"inlined_subroutine"}
    /\ ~(obj[h].tag = "member" /\ Die(h).bits # 0)
    /\ ~(Die(h).type = 0 /\ Die(h).origin # 0)
    /\ \/ Die(h).type = 0
       \/ Die(h).type \in DieOffsets /\ Die(Die(h).type).tag \in TagTypeKinds

\* After cu__recode_dwarf_types, the small_id in the type of every tag that
\* is not a bitfield, an import or an abstract-origin copy names, in the
\* types table, exactly the DIE its DW_AT_type pointed to (void when it had
\* none), and the containing type of a pointer to member names the DIE of
\* its DW_AT_containing_type: the two-phase rewrite from DIE offsets to
\* table indices loses nothing.
RefsResolved ==
    Resolved =>
        \A h \in Handles :
            /\ PlainRef(h) =>
                   IF Die(h).type = 0 THEN obj[h].type = 0
                   ELSE DieAt(obj[h].type) = Die(h).type
            /\ obj[h].raw /\ obj[h].tag = "ptr_to_member_type" /\ Die(h).containing \in Handles
               => DieAt(obj[h].containing) = Die(h).containing

\* The chain from a types table index through typedef, const and volatile,
\* as [tag, name] records; and the same chain followed through the DIEs.
RECURSIVE ChainOf(_, _), DieChain(_, _)
ChainOf(id, n) ==
    LET t == TypeAt(Mem, id)
    IN  IF n = 0 \/ t = NULL THEN <<>>
        ELSE <<[tag |-> obj[t].tag, name |-> obj[t].name, bits |-> obj[t].bits]>>
             \o (IF obj[t].tag \in Qualifiers THEN ChainOf(obj[t].type, n - 1) ELSE <<>>)
DieChain(d, n) ==
    IF n = 0 \/ d \notin DieOffsets THEN <<>>
    ELSE <<[tag |-> Die(d).tag, name |-> Die(d).name]>>
         \o (IF Die(d).tag \in Qualifiers THEN DieChain(Die(d).type, n - 1) ELSE <<>>)

MaxChain == 8
BitfieldMembers == {k \in Handles : obj[k].tag = "member" /\ obj[k].raw /\ Die(k).bits # 0}

\* Bitfield recoding postcondition (spec section 8, invariant 3): every
\* bitfield member ends up, through typedef/const/volatile, at a base or
\* enumeration type whose width is the member's DW_AT_bit_size and whose
\* name is that of the type its DIE pointed to.
BitfieldWidth ==
    Resolved =>
        \A k \in BitfieldMembers :
            LET c == ChainOf(obj[k].type, MaxChain)
                d == DieChain(Die(k).type, MaxChain)
            IN  /\ c # <<>>
                /\ Last(c).tag \in {"base_type", "enumeration_type"}
                /\ Last(c).bits = Die(k).bits
                /\ (d # <<>> => Last(c).name = Last(d).name)

\* Recoded base and enumeration types are shared (spec 3.2): no type the
\* recoder appended has the kind, name and width of another types table
\* entry, however many members and in whatever order ask for it.
RecodedTypesShared ==
    \A i, j \in 1 .. Len(types) - 1 :
        LET a == obj[types[i + 1]]
            b == obj[types[j + 1]]
        IN  /\ i < j
            /\ a.tag \in {"base_type", "enumeration_type"}
            /\ a.tag = b.tag /\ a.name = b.name /\ a.bits = b.bits
            => a.raw /\ b.raw

\* The tags of a function: its parameters and, recursively, what its
\* lexical blocks hold.
RECURSIVE InFunction(_)
InFunction(p) ==
    \E q \in Handles :
        /\ p \in Range(obj[q].kids) \cup Range(obj[q].block)
        /\ \/ obj[q].tag = "subprogram"
           \/ obj[q].tag = "lexical_block" /\ InFunction(q)

\* A parameter or variable of a function with no DW_AT_type takes the
\* resolved type and the name of its abstract origin (ftype and lexblock
\* recoding), which must already have been resolved when it is copied; a
\* label takes its origin's name.
OriginTypeCopied ==
    Resolved =>
        \A p \in Handles :
            LET o == Die(p).origin
            IN  /\ obj[p].raw /\ InFunction(p)
                /\ Die(p).type = 0
                /\ o \in Handles
                => /\ obj[p].tag \in {"formal_parameter", "variable"} /\ Die(o).type # 0
                      => obj[p].type = obj[o].type /\ obj[p].name = obj[o].name
                   /\ obj[p].tag = "label" => obj[p].name = obj[o].name

\* Spec 4.B and 3.2 invariant 7, the reference: one dimension per
\* DW_TAG_subrange_type child, in order and at most MaxDimensions of them,
\* each of DW_AT_upper_bound + 1 entries, or 0 when the bound is absent.
SpecEntries(d) ==
    LET subs == SelectSeq(Die(d).kids, LAMBDA k : Die(k).tag = "subrange_type")
        n == IF Len(subs) < MaxDimensions THEN Len(subs) ELSE MaxDimensions
    IN  [k \in 1 .. n |-> IF Die(subs[k]).upper < 0 THEN 0 ELSE Die(subs[k]).upper + 1]

\* The dimensions die__create_new_array reads from the subrange children
\* (with its stop at max_dimensions) are those of the spec.
ArrayShape ==
    \A a \in Handles : obj[a].raw /\ obj[a].tag = "array_type" => obj[a].entries = SpecEntries(a)

\* An inline expansion's DW_AT_abstract_origin is looked up in hash_tags,
\* not hash_types (the "special case" of tag__recode_dwarf_type): after
\* recoding, its type is the functions table index of the function it
\* expands.
InlineOriginResolved ==
    Resolved =>
        \A e \in Handles :
            /\ obj[e].raw /\ obj[e].tag = "inlined_subroutine"
            /\ Die(e).origin \in Handles
            => obj[e].type < Len(funcs) /\ funcs[obj[e].type + 1] = Die(e).origin

\* Spec 3.2 and 4.D: an imported declaration or module (a C++ using
\* declaration or directive) resolves to the small_id of the DIE its
\* DW_AT_import names, in the table that DIE went to, whether it names a
\* function, a variable, a type or a namespace.
ImportResolved ==
    Resolved =>
        \A h \in Handles :
            /\ obj[h].raw /\ obj[h].tag \in ImportKinds /\ Die(h).type \in Handles
            => LET t == Mem[TableOf(obj[Die(h).type].tag)]
               IN  obj[h].type < Len(t) /\ t[obj[h].type + 1] = Die(h).type

\* base_type__name_to_size of the type a DIE chain ends at (32 for enums).
Integral(d) ==
    CASE d \notin DieOffsets -> 0
      [] Die(d).tag = "enumeration_type" -> 32
      [] Die(d).name \in DOMAIN NameToSize -> NameToSize[Die(d).name]
      [] OTHER -> 0

RECURSIVE DieCore(_, _)
DieCore(d, n) ==
    IF n > 0 /\ d \in DieOffsets /\ Die(d).tag \in Qualifiers
    THEN DieCore(Die(d).type, n - 1) ELSE d

\* After class_member__cache_byte_size (spec 8, round trip 1): a bitfield
\* member of width b over a type of known integral size I has byte_size I/8
\* and bit_size b, and keeps its bitfield_size unless b = I and the silly
\* bitfield fixup is on.
CachedSizes ==
    phase = "done" =>
        \A k \in BitfieldMembers :
            LET b == Die(k).bits
                i == Integral(DieCore(Die(k).type, MaxChain))
            IN  i # 0 =>
                    /\ obj[k].byteSize = i \div 8
                    /\ obj[k].bitSize = b
                    /\ obj[k].bitfield = IF b = i /\ FixupSilly THEN 0 ELSE b

\* cu__recode_dwarf_types reaches some tags twice: a struct's members
\* through the struct in the types table and, in C++, again as tags-table
\* entries; a namespace's children through the namespace and as table
\* entries; a function's parameters through the function and again through
\* each inline expansion of it. Once a step has given a tag's reference a
\* small_id (a recoded bitfield type included), no later step of the walk
\* replaces it by another one.
TypesStable ==
    [][phase = "recode" =>
       \A h \in Handles : obj[h].raw /\ obj[h].type # 0 => obj'[h].type = obj[h].type]_vars

\* A recoded bitfield type keeps the typedef, const and volatile wrappers
\* (kind and name) of the type the member's DIE pointed to (spec 4.E: "a
\* new wrapper of the same kind ... reusing the original's name").
BitfieldQualifiersKept ==
    Resolved =>
        \A k \in BitfieldMembers :
            LET c == ChainOf(obj[k].type, MaxChain)
                d == DieChain(Die(k).type, MaxChain)
            IN  /\ Len(c) = Len(d)
                /\ \A i \in 1 .. Len(c) : c[i].tag = d[i].tag /\ c[i].name = d[i].name

\* A missing reference is reported and left as void (spec section 7); it
\* never brings the loader down.
NoCrash == phase # "crashed"

\* Spec 7: only out-of-memory, a missing DWARF section or the stealer's STOP
\* end the load of a file. A DIE of a kind the loader does not support is
\* warned about and skipped (spec 4.C, 6.2, 7), and a bitfield over a kind
\* the recoder does not know is reported and the member kept unresolved.
\* No allocation fails in the model, so the CU load (die__process) never
\* returns an error.
OnlyCatastrophicAbort == phase # "aborted"

====
