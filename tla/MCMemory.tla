------------------------------ MODULE MCMemory ------------------------------
EXTENDS Memory

CONSTANTS a1, p1, p2

MCScope      == a1 :> p1
MCTitles     == {"Ab", "ab", "abc"}
MCNorm       == [t \in MCTitles \cup {"blank"} |->
                  CASE t = "abc" -> 1 [] t \in {"Ab", "ab"} -> 2 [] OTHER -> 0]
MCWithin     == (1 :> {1}) @@ (2 :> {1, 2})
\* Content 3 holds both locators, 1 and 2 one each.
MCSubstrings == (1 :> {1}) @@ (2 :> {2}) @@ (3 :> {1, 2})

Op(action, content, old) ==
  [action |-> action, content |-> content, old_text |-> old]
MemCall(form, ops) == [tool |-> "memory", form |-> form, ops |-> ops]

MCCalls ==
  {[tool |-> "prefetch", form |-> "single"],
   MemCall("single", <<Op("add", 1, 0)>>),
   MemCall("single", <<Op("replace", 2, 1)>>),
   MemCall("batch", <<Op("replace", 2, 1), Op("add", 1, 0)>>),
   MemCall("batch", <<Op("add", 3, 0), Op("add", 3, 0), Op("remove", 0, 1)>>),
   MemCall("batch", <<Op("remove", 0, 2), Op("add", 4, 0)>>),
   MemCall("batch", <<Op("replace", 3, 1), Op("remove", 0, 2)>>),
   MemCall("both", <<>>),
   [tool |-> "wiki_write", form |-> "single",
    entries |-> <<[title |-> "abc", content |-> 1]>>],
   [tool |-> "wiki_write", form |-> "batch",
    entries |-> <<[title |-> "Ab", content |-> 1], [title |-> "ab", content |-> 2]>>],
   [tool |-> "wiki_write", form |-> "batch",
    entries |-> <<[title |-> "ab", content |-> 1], [title |-> "blank", content |-> 1]>>],
   [tool |-> "wiki_get", form |-> "batch", titles |-> <<"blank", "ab", "abc">>],
   [tool |-> "wiki_search", form |-> "single", query |-> 2]}

Entry(id, c, t) == [memory_id |-> id, content |-> c, time |-> t]
MCInitial ==
  {[mem |-> (p1 :> {Entry(1, 1, 1), Entry(2, 2, 2)}) @@ (p2 :> {Entry(1, 1, 1)}),
    wikis |-> {}],
   [mem |-> (p1 :> {}) @@ (p2 :> {}),
    wikis |-> {[wiki_id |-> 1, title |-> "abc", content |-> 1],
               [wiki_id |-> 2, title |-> "Ab", content |-> 2]}]}
=============================================================================
