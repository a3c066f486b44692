# TLA+ models of the dwarves DWARF loader (`src/dwarf_loader.c`)

## The system

`dwarf_loader.c` reads the DWARF debug information of an ELF file through
libdw and builds, for every compilation unit (CU), the in-memory model used by
pahole and the other dwarves tools. The loader is single-threaded. It loads one
CU at a time and nothing in it suspends. What makes it hard is not concurrency
but *order*:

| Part (spec §2) | Code | What it does |
|---|---|---|
| A attribute decoding | `attr_numeric`, `__libdw_get_uleb128`, `dwarf_expr`, `dwarf__location`, `attr_upper_bound` (200-330, 508-530, 882-895) | turns DWARF attributes into numbers, offsets and locations |
| B tag builders | `tag__init`, `*__new`, `die__create_new_*` (326-1200) | one `struct tag` per DIE. Each tag keeps its raw references (DIE offsets) in a `dwarf_tag` kept next to it (`priv`). |
| C CU builder | `die__process_unit`, `die__process_class`, `die__process_namespace`, `die__process_function`, `__die__process_tag` (1203-1555) | walks the DIE tree in post-order (children before their parent). It puts every tag in one of three tables (types, tags, functions), sets `small_id` to its index and hashes it by DIE offset. |
| D resolver | `cu__recode_dwarf_types` and `*__recode_dwarf_types` (1570-1919) | second pass over the types table (from 1), then the tags table, then the functions table. It rewrites every raw offset into a `small_id` by looking the offset up in the hashes. |
| E bitfield recoder | `tag__recode_dwarf_bitfield`, `class_member__dwarf_recode_bitfield` (552-680) | called from D for members with `DW_AT_bit_size`. It finds or creates a base/enum type of the member's width, re-wrapped in the typedef/const/volatile chain, and **appends it to the types table while D is walking that table**. |
| F size cache | `class_member__cache_byte_size` (1985-2040) | computes byte and bit sizes of members after D |
| G driver | `cus__load_module`, `cus__process_dwflmod`, `cus__process_file`, `dwarf__load_file` (2042-2220) | the walk over the file's modules, the loop over the CUs of each, the stealer callback (KEEP / STOLEN / STOP), the release of the raw arena and the file's result |

Within one CU the parts run in a fixed sequence: B/C build the tables and
hashes, D resolves them and calls E, then F runs and G decides the CU's fate.
They interact through the three tables and the two hashes. Three orders decide
the results:

- the order of the DIEs, because a reference may point forward;
- the order of the three table walks;
- the order in which recoded types appear in the table being walked.

## Modules

### `DwarfCU.tla`: parts B, C, D, E and F for one CU

The input is the CU, `cu`, chosen in `Init` from the constant `Inputs`. It is
a function from DIE offsets to DIE records (kind, name, `DW_AT_type`,
abstract origin, specification, containing type, byte size, bit size,
children; for `imported_*` the `DW_AT_type` slot is `DW_AT_import`, as
`tag__init` reads it), plus the
order of the top-level DIEs and whether the language is C++.

| Variable | Code |
|---|---|
| `obj` | the `struct tag` of every handle: kind, name, resolved `type`, `raw` (`priv != NULL`), children (members, enumerators, a function's parameters), `block` (the `lexblock` tag list of a function or lexical block), `bitfield_size`, type width, cached `byte_size`/`bit_size`, and the containing type of a pointer to member (`Unset` until recoded, as `ptr_to_member_type__new` leaves it) |
| `types`, `tags`, `funcs` | `cu->types_table`, `tags_table`, `functions_table`. Entry *k* is at position *k+1*, and entry 0 of the types table is void. |
| `sid` | `dwarf_tag.small_id` |
| `hashTypes`, `hashTags` | `dwarf_cu.hash_types`, `hash_tags` |
| `phase`, `at` | where the loader is: building, resolving (table and index), done, aborted (an error returned up to `DWARF_CB_ABORT`) or crashed (a NULL dereference) |

A DIE's handle is its offset. A type made by the recoder has no DIE
(`priv == NULL`). It gets a handle above `SynBase`.

| Action | Code |
|---|---|
| `LoadUnit` | one iteration of `die__process_unit`. `ProcessTag` is `__die__process_tag`: a kind outside `DispatchKinds` yields NULL, which every caller returns as -ENOMEM (`Built` stops the rest of the build), and the CU ends `aborted`. `Process` / `ProcessKids` / `ProcessClassChild` / `ProcessFunctionChild` / `ProcessInlineChild` / `ProcessNamespaceChild` build the DIE and its children the way `__die__process_tag`, `die__process_class`, `die__process_function`, `die__process_inline_expansion` and `die__process_namespace` do. That includes C++ members also going into the tags table, and parameters, variables, labels, nested lexical blocks (`NewLexblock`, in no table) and inline expansions (`NewInlineExpansion`) joining the enclosing block. Inside an inline expansion, parameters are skipped and blocks and tags are attached to nothing. |
| `StartRecode` | `die__process` calling `cu__recode_dwarf_types` |
| `RecodeEntry` | one iteration of `cu__recode_dwarf_types_table`, i.e. the whole of `tag__recode_dwarf_type` for one entry (`RecodeTag`). That covers namespace and ftype recoding; lexblock recoding (`RecodeLexblock` / `RecodeBlockTag`), with nested blocks, inline expansions that recode the parameters of the function they expand, and origin-only parameters, variables and labels; an inline expansion's abstract origin looked up in `hash_tags` (`RecodeInline`); a pointer to member's containing type (`RecodeContaining`); an import looked up in `hash_tags` and, for a declaration only, then in `hash_types` (`RecodeImport`); abstract origins, specifications and the bitfield recoder (`RecodeBitfield`). The loop bound is re-read at each iteration. |
| `NextTable` | moving from one table walk to the next in `cu__recode_dwarf_types` |
| `CacheSizes` | `cu__for_all_tags(cu, class_member__cache_byte_size)` |

Widths are kept:

- `small_id` and `tag.type` are `uint16_t` (`% 2^IdBits`).
- The recoder's `uint16_t id` wraps a negative error code the way the C
  does.

A NULL dereference ends the process (`phase = "crashed"`).

The code TLC needs to evaluate fairness (`ENABLED`) re-evaluates an operator
argument at every use. `Then(m, F)` binds each intermediate state once, and the
actions bind their result with `\E m \in {...}`. Neither changes the meaning.

### `MCDwarfCU.tla`: the inputs

One fixed DIE tree, the source of which is:

```c
typedef int T; enum E { A }; int tab[4][];  /* a third bound, 8, is past MaxDimensions */
typedef int (*cb)(struct S *, ...);
struct S { t1 m1 : b1; t2 m2 : b2; };  struct S *p;
int f(int a) { struct S *v; { int w; out: ; } ... f(a) ... }
/* plus g, an out-of-line copy of f: its parameter, variable, block, and the
   block's variable and label carry only DW_AT_abstract_origin, and it inlines
   f's call of itself, an inline expansion holding a parameter, a variable and
   a block with a variable, all origin-only */

/* C++ units only: */
namespace N { typedef int U; U x; int h(); }
using N::h; using N::U; int S::*pm;
using namespace N;   /* only in the using_namespace run */
```

The input sets vary:

- the member types (int, T, const int, const T, E);
- the widths (0, 3, and the full 32);
- the order of the top-level DIEs, either types before their users or users
  before their types;
- the language.

### `LoadDriver.tla`: part G and the file it loads

A file is a sequence of modules (`Files`). A module is either `NoDwarf` or
its number of CUs, and a CU is `<<module, index>>`. `conf` is chosen in `Init`:
whether a stealer is set and whether `extra_dbg_info` is on. What
`die__process` does to a CU is the subject of `DwarfCU`. Here only its
outcome counts: it succeeds or returns an error.

| Variable | Code |
|---|---|
| `pc`, `m`, `i` | where the driver is: opening the file, `dwfl_getmodules` at module `m`, `dwarf_nextcu` at CU `i`, returning |
| `nrDw` | `parms.nr_dwarf_sections_found` |
| `raw` | each CU's raw arena, `dcu.obstack`, which holds every `dwarf_tag` (`tag->priv`): live or freed |
| `kept`, `stolen` | the file's CU list (`cus__add`) and the CUs the stealer took |
| `stopped`, `result` | an iteration returned `DWARF_CB_ABORT` (or the file did not open), and what `dwarf__load_file` returns |

| Action | Code |
|---|---|
| `OpenFile` | `open`, `dup`, `dwfl_begin`, `dwfl_report_offline`. A failure of any of these returns -1. |
| `ProcessDwflmod` | `cus__process_dwflmod` on one module, with or without DWARF |
| `LoadCU` | one iteration of the CU loop: `cu__new` failing, `die__process` failing, or the CU loaded and the stealer's answer (`Stealer`), with `obstack_free` and `cus__add` on KEEPIT (`KeepCU`) |
| `EndModule`, `EndModules` | `dwarf_nextcu` and `dwfl_getmodules` running out |
| `ReturnResult` | `return parms.nr_dwarf_sections_found ? 0 : -1` |

`LoadAbstract.tla` is what the driver promises (spec §4.G, §6.3). The CUs are
handed out in file order (`todo`). Each one is either kept or stolen until they
run out (`Finish`) or loading stops (`Stop`), and loading ends. `LoadDriver`
maps onto it with `INSTANCE LoadAbstract WITH`:

- `todo` is `Remaining`, the CUs from `dwarf_nextcu`'s cursor on;
- `status` is `Status`;
- `kept` and `stolen` map to themselves.

The run checks `Abs!Spec` as the property `AbsSpec`.

`MCLoadDriver.tla` has five files. Between them they have one and two modules
with DWARF, with one and two CUs each, and modules without DWARF before,
between and after those. This gives every order of a KEEPIT, STOLEN, STOP or
failure against the next CU and the next module.

### `AttrDecode.tla`: the offset decoder of part A

`Uleb128` translates the `get_uleb128` macros and `__libdw_get_uleb128`, and
`DwarfExpr` translates `dwarf_expr`. The state is just the decoded expression.
The code reads at most 10 bytes into 64 bits, and 64 = 7·9 + 1, so the 10th
byte has room for one bit. The model keeps that shape for `UlebBytes` bytes
into `7·(UlebBytes-1) + 1` bits: with 10 it is the code, and the run uses 4
(22 bits) to stay within TLC's integers. `SpecUleb128` and `SpecOffset` are
the reference from spec §4.A. `MCAttrDecode.tla` enumerates 228 expressions:

- the opcodes `DW_OP_plus_uconst`, `DW_OP_constu` and `DW_OP_fbreg`;
- operands of every length up to the read bound;
- continuation and last bytes at the edges of 7 and 1 bits.

## Runs

| Run | Cfg | Expect | What it shows |
|---|---|---|---|
| `resolve_c` | `MCDwarfCU_c.cfg` | pass | 300 C units and 4 C++ units with the namespace, 14814 states. Every reference resolves to the table index of the DIE it named (`RefsResolved`), whatever the DIE order, and so does a pointer to member's containing type. A using declaration resolves into the table of what it names: the functions table for `N::h`, the types table for `N::U` (`ImportResolved`). Bitfields end at a type of their width with the right name (`BitfieldWidth`), and recoded types are shared (`RecodedTypesShared`). The parameters, variables and labels of a function (its blocks included) that have only an abstract origin copy its name and resolved type (`OriginTypeCopied`). An inline expansion's type is the functions-table index of the function it expands (`InlineOriginResolved`). An array's dimensions are those of its first `MaxDimensions` subrange children, each `DW_AT_upper_bound + 1` or 0 without a bound, as spec §4.B and §3 invariant 7 define them (`ArrayShape`). Cached sizes follow spec §4.F (`CachedSizes`). No step of the walk changes a reference it has already resolved (`TypesStable`). The walk reaches some tags twice: a struct's members through the struct and, in C++, as tags-table entries; namespace children; a function's parameters through each inline expansion. |
| `cxx_bitfield` | `MCDwarfCU_cxx_bitfield.cfg` | violation | In C++ the tags pass undoes bitfield recoding (`BitfieldWidth`) |
| `const_bitfield` | `MCDwarfCU_const_bitfield.cfg` | violation | `const int m:3` is recoded as `volatile int:3` (`BitfieldQualifiersKept`) |
| `full_width_typedef` | `MCDwarfCU_full_width_typedef.cfg` | violation | `T m:32` loses its typedef, but only when `T` is before `S` (`BitfieldQualifiersKept`) |
| `crossunit_bitfield` | `MCDwarfCU_crossunit_bitfield.cfg` | violation | a bitfield type outside the CU's hash crashes the recoder (`NoCrash`) |
| `using_namespace` | `MCDwarfCU_using_namespace.cfg` | violation | `using namespace N;` stays unresolved: the namespace is only in `hash_types`, and an `imported_module` is looked up only in `hash_tags` (`ImportResolved`, spec §4.C, §3.2). That a namespace is a tag type comes from spec §4.C: `tag__is_tag_type` is in `dwarves.h`, which is not under `src/`, so `TagTypeKinds` is spec-modelled. |
| `unknown_child_tag` | `MCDwarfCU_unknown_child_tag.cfg` | violation | a `DW_TAG_GNU_call_site` inside a function, a kind `__die__process_tag` does not build, comes back as NULL and is taken for out-of-memory: the CU fails and the rest of the file is dropped, where spec §4.C and §7 say it is skipped (`OnlyCatastrophicAbort`). |
| `small_id_wrap` | `MCDwarfCU_small_id_wrap.cfg` | violation | a 16-bit `small_id` wraps on a big table. Shown with 3 bits and a 13-entry table. (`RefsResolved`) |
| `load_driver` | `MCLoadDriver.cfg` | pass | 596 states over every file, configuration and CU outcome. The driver refines `LoadAbstract` (`AbsSpec`): CUs go to the list or the stealer in file order, never both, until a stop, and the driver always returns. |
| `arena_released` | `MCLoadDriver_arena_released.cfg` | violation | a failing `die__process`, like STOP and STOLEN, leaves the raw arena allocated with no handle left on it (`ArenaReleased`, spec §5) |
| `failure_reported` | `MCLoadDriver_failure_reported.cfg` | violation | after `cu__new` fails, the file still returns 0 (`FailureReported`, spec §7) |
| `uleb128_overflow` | `MCAttrDecode_uleb128_overflow.cfg` | violation | an operand past the width decodes to its low bits, not UINT64_MAX (`ExprOffsetAsSpec`, spec §4.A) |

The findings in `PROJECT.json` say what each violation means for the code.

Every property of `resolve_c` and `load_driver` has a mutant in `PROJECT.json`. Each mutant is a
plausible slip in the code that the run detects:

- `small_id` set before or after the append;
- a bitfield member left with its declared type;
- a recoded type created without its width;
- the functions table walked before the tags table;
- an inline expansion's origin looked up in `hash_types`;
- a using declaration looked up in `hash_tags` only, with no fallback to `hash_types`;
- a containing type looked up in `hash_tags`;
- an array dimension taken as the upper bound, without the `+ 1`;
- the container's width cached as the bit size;
- a C struct member also put in the tags table;
- the CU cursor not reset for a new module;
- STOLEN without its `continue`.

### Bounds

- Two members and five member types are enough for the cases that matter:
  - two members asking for the same recoded type, which is what sharing is
    about;
  - the typedef/const chains of depth 1 and 2;
  - the full-width case.
- The two DIE orders cover the cases that matter for ordering:
  - a typedef resolved before or after the struct that uses it;
  - a reference resolved before or after its target was built.
- The C++ inputs put members in the tags table. The C++ units of
  `resolve_c` have no bitfields, since a C++ bitfield is the `cxx_bitfield`
  finding. They have the namespace, a using declaration of a function and
  one of a type, so an import is resolved through each of the two hashes,
  in both DIE orders.
- `MaxDimensions` is 2 rather than 64. The array has three subranges, so
  both the stop at the limit and an absent bound happen.
- The wrap run scales `IdBits` down from 16 to 3, so the table of that CU
  overflows the id range exactly as a CU with more than 65535 types would.

- The driver's files have at most two modules with DWARF and two CUs in
  each. That is enough for a CU to follow a CU and a module to follow a
  module, after each kind of outcome. Nothing in the loop depends on more.

### Fairness

`DwarfCU` and `LoadDriver` have weak fairness on `Next`. The loader is a
sequential loop that never waits: while it has not returned, it always takes
its next step. `LoadAbstract` assumes the same of the abstract loader, so
`AbsSpec` also checks that the driver ends.

## Not modelled (yet), and the plan

- **The rest of attribute decoding (A).**
  - `attr_numeric` has no case for `DW_FORM_flag_present`, and
    `dwarf__location` has no `DW_OP_reg0` arm. Each is one missing case of a
    switch, recorded as a hazard.
  - The bound of `dwarf_tags_warned` is not modelled. `attr_upper_bound` is
    `UpperBound` in `DwarfCU`; the `uint32_t` slot it is stored in is a
    hazard without a property.
  - `dwarf_expr` reads past a block whose operand never ends. The bytes
    beyond the block are not part of the model's input.
- **libdwfl and file handles.** `OpenFile` folds the failures of `open`,
  `dup` and `dwfl_report_offline` into one outcome. The `Dwfl` handle leaked
  on the last of these is a hazard without a property.
- **The `last_decl_file` cache.** It compares libdw string pointers across
  files. `LoadDriver` loads one file, and pointer identity is out of reach.
- **Nested abstract-origin chains** that C++ nesting makes possible are
  not in the inputs, nor are classes and unions (they take the struct's
  path through `die__process_class`). Addresses, sizes and call sites of
  blocks, labels and inline expansions are data no property looks at.
- **The contents of an inline expansion.** They are modelled: its
  variables and blocks belong to no function, so in `resolve_c` they end
  void and nameless, where spec §4.D says an origin-only variable takes its
  origin's type. Every run slot holds another finding. That is why
  `OriginTypeCopied` is scoped to a function's tags (`InFunction`) and this
  divergence is a hazard without a violation run.
- **Allocation failure (ENOMEM) inside a CU.** `LoadDriver` has
  `die__process` failing as a whole. The paths inside it are not modelled,
  including `die__process_unit` ignoring a failed `cu__add_tag` and an
  unattached lexblock after a failed `lexblock__new`.
- **Code outside `src/`.** `cu__table_add_tag`,
  `cu__find_base_type_by_sname_and_size`, `tag__follow_typedef`,
  `tag__size` and the `tag__is_*` kind sets live in `dwarves.c` and
  `dwarves.h`. They are modelled from the spec and marked `spec_modelled`.
- **Strings, file and line data, and diagnostics** are abstracted away. A
  name is a string constant.
