----------------------------- MODULE MCHotReload -----------------------------
(* Two files: a base that fsnotify reports under its path and an override   *)
(* that it may spell otherwise, or whose format Load refuses.               *)
EXTENDS HotReload

File(format, asGiven) == [format |-> format, asGiven |-> asGiven]
MCLayouts == {<<File("yaml", TRUE), File("json", FALSE)>>,
              <<File("json", TRUE), File("toml", TRUE)>>}
MCReaders == Callers
=============================================================================
