----------------------------- MODULE LoadDriver -----------------------------
(***************************************************************************)
(* The driver of the DWARF loader (dwarf_loader.c, dwarf__load_file,      *)
(* cus__process_file, cus__process_dwflmod and cus__load_module): the      *)
(* file's modules are visited in order, and the CUs of a module with DWARF *)
(* are loaded one after the other. Each CU gets a raw arena               *)
(* (dwarf_cu.obstack, where the dwarf_tag records live); once loaded it is *)
(* handed to the stealer, which answers STOP, STOLEN or KEEPIT. A CU is    *)
(* <<module, index>>. What die__process does to a CU is DwarfCU.tla; here *)
(* only its outcome counts: it succeeds or returns an error.               *)
(***************************************************************************)
EXTENDS Naturals, Sequences, SequencesExt, TLC

CONSTANTS
    Files,     \* the possible files: sequences of modules
    NoDwarf    \* a module without DWARF; any other module is its CU count

VARIABLES
    conf,      \* conf_load: [steal: is a stealer set, extra: extra_dbg_info]
    file,      \* the file being loaded
    pc,        \* "open", "modules", "cus", "end" or "done"
    m,         \* the module dwfl_getmodules is at
    i,         \* the CU of module m that dwarf_nextcu is at
    nrDw,      \* process_dwflmod_parms.nr_dwarf_sections_found
    raw,       \* the raw arena of each CU that got one: "live" or "freed"
    kept,      \* the file's CU list (cus__add), in order
    stolen,    \* the CUs the stealer took
    stopped,   \* loading was abandoned before the last CU
    result     \* what dwarf__load_file returns, once it has

vars == <<conf, file, pc, m, i, nrDw, raw, kept, stolen, stopped, result>>

Answers == IF conf.steal THEN {"STOP", "STOLEN", "KEEPIT"} ELSE {"KEEPIT"}

\* The CUs of module k, and those from CU j of module k to the end.
Units(f, k) == IF f[k] = NoDwarf THEN <<>> ELSE [j \in 1..f[k] |-> <<k, j>>]

UnitsFrom(f, k, j) ==
    IF k > Len(f) THEN <<>>
    ELSE SubSeq(Units(f, k), j, Len(Units(f, k)))
           \o FlattenSeq([n \in 1..(Len(f) - k) |-> Units(f, k + n)])

Init ==
    /\ conf \in [steal: BOOLEAN, extra: BOOLEAN]
    /\ file \in Files
    /\ pc = "open"
    /\ m = 1
    /\ i = 1
    /\ nrDw = 0
    /\ raw = <<>>
    /\ kept = <<>>
    /\ stolen = {}
    /\ stopped = FALSE
    /\ result = 0

\* dwarf__load_file up to dwfl_getmodules: open, dup, dwfl_begin and
\* dwfl_report_offline. A failure of open, dup or dwfl_report_offline
\* returns -1 before any module is visited.
OpenFile ==
    /\ pc = "open"
    /\ \/ /\ pc' = "done" /\ result' = -1 /\ stopped' = TRUE
       \/ /\ pc' = "modules"
          /\ UNCHANGED <<result, stopped>>
    /\ UNCHANGED <<conf, file, m, i, nrDw, raw, kept, stolen>>

\* A mutant of ProcessDwflmod: the CU cursor not reset for a new module.
ProcessDwflmodNoReset ==
    /\ pc = "modules" /\ m <= Len(file)
    /\ \/ /\ file[m] = NoDwarf
          /\ m' = m + 1
          /\ UNCHANGED <<pc, i, nrDw>>
       \/ /\ file[m] # NoDwarf
          /\ nrDw' = nrDw + 1
          /\ pc' = "cus"
          /\ UNCHANGED <<m, i>>
    /\ UNCHANGED <<conf, file, raw, kept, stolen, stopped, result>>

\* dwfl_getmodules calling cus__process_dwflmod on module m: without
\* DWARF it returns DWARF_CB_OK at once; with DWARF it counts the section
\* and enters cus__load_module.
ProcessDwflmod ==
    /\ pc = "modules" /\ m <= Len(file)
    /\ \/ /\ file[m] = NoDwarf
          /\ m' = m + 1
          /\ UNCHANGED <<pc, i, nrDw>>
       \/ /\ file[m] # NoDwarf
          /\ nrDw' = nrDw + 1
          /\ pc' = "cus" /\ i' = 1
          /\ UNCHANGED m
    /\ UNCHANGED <<conf, file, raw, kept, stolen, stopped, result>>

\* A CU whose iteration ended: its raw arena as the code leaves it.
Arena(c, state) == raw @@ (c :> state)

\* The end of an iteration that returns DWARF_CB_ABORT: dwfl_getmodules
\* stops visiting modules.
Abort == stopped' = TRUE /\ pc' = "end" /\ UNCHANGED i

\* KEEPIT, or no stealer: the raw arena is freed unless extra_dbg_info is
\* set, and the CU goes on the file's list.
KeepCU(c) ==
    /\ raw' = Arena(c, IF conf.extra THEN "live" ELSE "freed")
    /\ kept' = Append(kept, c)
    /\ UNCHANGED stolen

\* A mutant of Stealer: STOLEN without its continue, falling through to
\* the arena release and cus__add.
StealerNoContinue(c, answer) ==
    \/ /\ answer = "STOP"
       /\ raw' = Arena(c, "live") /\ Abort
       /\ UNCHANGED <<kept, stolen>>
    \/ /\ answer = "STOLEN"
       /\ stolen' = stolen \cup {c}
       /\ raw' = Arena(c, IF conf.extra THEN "live" ELSE "freed")
       /\ kept' = Append(kept, c)
       /\ i' = i + 1 /\ UNCHANGED <<pc, stopped>>
    \/ /\ answer = "KEEPIT"
       /\ KeepCU(c)
       /\ i' = i + 1 /\ UNCHANGED <<pc, stopped>>

\* The switch on the stealer's answer for the loaded CU c, and the rest of
\* the iteration.
Stealer(c, answer) ==
    \/ /\ answer = "STOP"
       /\ raw' = Arena(c, "live") /\ Abort
       /\ UNCHANGED <<kept, stolen>>
    \/ /\ answer = "STOLEN"
       /\ raw' = Arena(c, "live") /\ stolen' = stolen \cup {c}
       /\ i' = i + 1 /\ UNCHANGED <<kept, pc, stopped>>
    \/ /\ answer = "KEEPIT"
       /\ KeepCU(c)
       /\ i' = i + 1 /\ UNCHANGED <<pc, stopped>>

\* One iteration of the while loop of cus__load_module.
LoadCU ==
    /\ pc = "cus" /\ i <= file[m]
    /\ LET c == <<m, i>> IN
       \/ \* cu__new returns NULL
          /\ Abort /\ UNCHANGED <<raw, kept, stolen>>
       \/ \* dwarf_cu__init, then die__process fails
          /\ raw' = Arena(c, "live") /\ Abort /\ UNCHANGED <<kept, stolen>>
       \/ \* die__process and the size cache done; the stealer answers
          \E answer \in Answers : Stealer(c, answer)
    /\ UNCHANGED <<conf, file, m, nrDw, result>>

\* dwarf_nextcu finds no further CU: cus__load_module returns DWARF_CB_OK
\* and dwfl_getmodules goes on with the next module.
EndModule ==
    /\ pc = "cus" /\ i > file[m]
    /\ pc' = "modules" /\ m' = m + 1
    /\ UNCHANGED <<conf, file, i, nrDw, raw, kept, stolen, stopped, result>>

\* dwfl_getmodules has visited every module.
EndModules ==
    /\ pc = "modules" /\ m > Len(file)
    /\ pc' = "end"
    /\ UNCHANGED <<conf, file, m, i, nrDw, raw, kept, stolen, stopped, result>>

\* The tail of cus__process_file: the return value of dwfl_getmodules is
\* not looked at; the file succeeds if any module had DWARF.
ReturnResult ==
    /\ pc = "end"
    /\ result' = IF nrDw # 0 THEN 0 ELSE -1
    /\ pc' = "done"
    /\ UNCHANGED <<conf, file, m, i, nrDw, raw, kept, stolen, stopped>>

Next ==
    \/ OpenFile \/ ProcessDwflmod \/ LoadCU
    \/ EndModule \/ EndModules \/ ReturnResult

\* The loop never waits: while dwarf__load_file has not returned it takes
\* its next step.
Spec == Init /\ [][Next]_vars /\ WF_vars(Next)

-----------------------------------------------------------------------------
(* Properties *)

CUsOf(f) == UNION {Range(Units(f, k)) : k \in DOMAIN f}

\* The state is well formed; in particular dwarf_nextcu's cursor is within
\* the CUs of the module being loaded, one past the last at most.
TypeOK ==
    /\ conf \in [steal: BOOLEAN, extra: BOOLEAN]
    /\ pc \in {"open", "modules", "cus", "end", "done"}
    /\ m \in 1..(Len(file) + 1)
    /\ pc = "cus" => file[m] # NoDwarf /\ i \in 1..(file[m] + 1)
    /\ nrDw \in 0..Len(file)
    /\ DOMAIN raw \subseteq CUsOf(file)
    /\ \A c \in DOMAIN raw : raw[c] \in {"live", "freed"}
    /\ kept \in Seq(CUsOf(file)) /\ stolen \subseteq CUsOf(file)
    /\ stopped \in BOOLEAN /\ result \in {0, -1}

\* Spec 5: a CU's raw arena is "always freed" at STOLEN or STOP, and
\* released between CUs when extra_dbg_info is off. Checked when the
\* loader has returned: with extra_dbg_info off, no raw arena is left.
ArenaReleased ==
    pc = "done" /\ ~conf.extra => \A c \in DOMAIN raw : raw[c] = "freed"

\* Spec 7: out-of-memory (cu__new or die__process failing) and the
\* stealer's STOP make the loader return a failure for the whole file. So
\* when loading was abandoned, dwarf__load_file does not return 0.
FailureReported ==
    pc = "done" /\ stopped => result # 0

-----------------------------------------------------------------------------
(* Refinement: the driver implements LoadAbstract. The CUs not handed out *)
(* yet are those from dwarf_nextcu's cursor on; loading has stopped once  *)
(* an iteration aborted or the file could not be opened, and has finished *)
(* once dwarf__load_file returned otherwise.                              *)

Remaining ==
    IF pc \in {"open", "modules"} THEN UnitsFrom(file, m, 1)
    ELSE UnitsFrom(file, m, i)

Status ==
    IF stopped THEN "stopped"
    ELSE IF pc = "done" THEN "finished" ELSE "loading"

Abs == INSTANCE LoadAbstract
         WITH UnitSeqs <- {UnitsFrom(f, 1, 1) : f \in Files},
              todo <- Remaining, status <- Status

\* The CUs reach the file's list or the stealer in file order, each exactly
\* once and never both, until a STOP or a failure ends the file; and the
\* driver always returns.
AbsSpec == Abs!Spec

====
