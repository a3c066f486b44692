---------------------------- MODULE MCLoadDriver ----------------------------
(* The driver on small files: one or two modules with DWARF, up to two CUs *)
(* each, and modules without DWARF before, between and after them.        *)
EXTENDS LoadDriver

MCFiles == {<<2>>, <<NoDwarf>>, <<NoDwarf, 1>>, <<2, NoDwarf, 1>>, <<1, 2>>}

====
