---------------------------- MODULE MCRunSession ----------------------------
(***************************************************************************)
(* Runs of a few stages. In the first plan two targets share a stratum,    *)
(* a lone upstream table refers to both, and their downstream steps have   *)
(* workers; in the second two upstream tables, one of them big, refer to a *)
(* target whose downstream step is the main thread's and commits; the      *)
(* third has a stratum of three on two threads.                            *)
(***************************************************************************)
EXTENDS RunSession

On(workers, main, phase, referenced) ==
    [workers |-> workers, main |-> main, phase |-> phase, referenced |-> referenced]

MCTables == {"user", "team", "event"}
MCPlans ==
    { <<On({}, {"user", "team"}, "direct", {"user", "team"}),
        On({}, {"event"}, "upstream", {}), On({}, {"event"}, "downstream", {}),
        On({"user", "team"}, {}, "downstream", {"user", "team"})>>,
      <<On({}, {"event"}, "direct", {"event"}), On({"user"}, {"team"}, "upstream", {}),
        On({"user", "team"}, {}, "downstream", {}),
        On({}, {"event"}, "downstream", {"event"})>>,
      <<On({"user", "team", "event"}, {}, "downstream", {"user", "team"})>>,
      <<>> }
=============================================================================
