------------------------------ MODULE MCDesktop ------------------------------
(* A row of three cells with one mine; batches that flag, reveal and chord. *)
EXTENDS Desktop

Op3(t, x) == [type |-> t, cell |-> <<x, 0>>]

MCBatches ==
  {<<Op3("click", 0)>>,
   <<Op3("flag", 0), Op3("flag", 1), Op3("flag", 2)>>,
   <<Op3("flag", 2), Op3("click", 1), Op3("chord", 1), Op3("click", 3)>>}

\* The planner registers a hook and a second one behind it; when the player is
\* done, it updates or removes either, twice.
Registers(n) == [action |-> "set", name |-> n, script |-> "text"]
MCPlannerCalls ==
  <<[after |-> 0, calls |-> {Registers("a")}], [after |-> 0, calls |-> {Registers("b")}],
    [after |-> 4, calls |-> HookCalls], [after |-> 4, calls |-> HookCalls]>>

=============================================================================
