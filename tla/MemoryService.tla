---------------------------- MODULE MemoryService ----------------------------
(***************************************************************************)
(* The memory service as its TypeScript clients use it: the collections,   *)
(* the unary RPCs of common/js/memory/src/store.ts and of the web client's *)
(* api/memory.ts and api/wiki.ts, and the pages they return.  The service  *)
(* itself is Go (projects/game/memory); what it answers is modelled from   *)
(* the calls and the error codes its clients handle.                       *)
(*                                                                         *)
(* Data.  A content is a number of 1..MaxContent; 0 stands for a blank one *)
(* and MaxContent + 1 for one over MEMORY_CONTENT_MAX_RUNES.  The digest   *)
(* of a content (or of a normalized title) is the number itself: all a     *)
(* digest has to be here is injective and ordered.                         *)
(***************************************************************************)
EXTENDS Naturals, Sequences, FiniteSets, SequencesExt

CONSTANTS
  MaxContent,   \* the largest legal content
  Titles,       \* wiki titles as written
  Norm,         \* Norm[t]: the normalized form of title t, a positive number
  Within        \* Within[n]: the normalized titles that n is a substring of

Contents == 1..MaxContent
Oversize == MaxContent + 1
Norms    == {Norm[t] : t \in Titles}

-----------------------------------------------------------------------------
(* Memories: one collection per preset, an entry per id.                   *)

MemoryEntry == [memory_id : Contents, content : Contents, time : Nat]

generateMemoryId(content)   == content
memoryIdForContent(content) == content

\* The writes of MemoryStoreRpcs: the request each carries.
CreateMemoryRequest == [kind : {"create"}, id : Contents, content : Contents]
UpdateMemoryRequest == [kind : {"update"}, id : Contents, content : Contents]
DeleteMemoryRequest == [kind : {"delete"}, id : Contents, content : {0}]

Reply(code, coll) == [code |-> code, coll |-> coll]

createMemory(coll, w, t) ==
  IF \E e \in coll : e.memory_id = w.id
    THEN Reply("ALREADY_EXISTS", coll)
    ELSE Reply("OK", coll \cup
                 {[memory_id |-> w.id, content |-> w.content, time |-> t]})

updateMemory(coll, w, t) ==
  IF \E e \in coll : e.memory_id = w.id
    THEN Reply("OK", {e \in coll : e.memory_id # w.id} \cup
                 {[memory_id |-> w.id, content |-> w.content, time |-> t]})
    ELSE Reply("NOT_FOUND", coll)

deleteMemory(coll, w) ==
  IF \E e \in coll : e.memory_id = w.id
    THEN Reply("OK", {e \in coll : e.memory_id # w.id})
    ELSE Reply("NOT_FOUND", coll)

MemoryWrite(coll, w, t) ==
  CASE w.kind = "create" -> createMemory(coll, w, t)
    [] w.kind = "update" -> updateMemory(coll, w, t)
    [] w.kind = "delete" -> deleteMemory(coll, w)

\* A page: the first `size` of the entries behind the token, and the token
\* of the next one, a field of the last entry (0 when this page is the last).
Page(rest, size, field) ==
  LET n == IF Len(rest) < size THEN Len(rest) ELSE size
  IN [items |-> SubSeq(rest, 1, n),
      next  |-> IF Len(rest) > size THEN rest[n][field] ELSE 0]

\* ListMemories in its default order, memory_id ascending.
ListMemories(coll, token, size) ==
  Page(SetToSortSeq({e \in coll : e.memory_id > token},
                    LAMBDA x, y : x.memory_id < y.memory_id),
       size, "memory_id")

\* ListMemories ordered by "update_time desc".
RecentMemories(coll, token, size) ==
  Page(SetToSortSeq({e \in coll : token = 0 \/ e.time < token},
                    LAMBDA x, y : x.time > y.time),
       size, "time")

-----------------------------------------------------------------------------
(* Wikis: one collection per template, unique in id and normalized title.  *)

Wiki == [wiki_id : Norms, title : Titles, content : Contents]

\* The writes of WikiStore; an update through it changes the content only.
CreateWikiRequest == [kind : {"create"}, id : Norms, title : Titles, content : Contents]
UpdateWikiRequest == [kind : {"update"}, id : Norms, title : Titles, content : Contents]

normalizeWikiTitle(title) == Norm[title]
generateWikiId(norm)      == norm
wikiIdForTitle(title)     == generateWikiId(normalizeWikiTitle(title))

createWiki(coll, id, title, content) ==
  IF \E w \in coll : w.wiki_id = id \/ Norm[w.title] = Norm[title]
    THEN Reply("ALREADY_EXISTS", coll)
    ELSE Reply("OK", coll \cup
                 {[wiki_id |-> id, title |-> title, content |-> content]})

\* UpdateWiki takes the fields of its mask from the request; a new title may
\* not normalize to the one of another entry.
updateWiki(coll, id, request, mask) ==
  IF ~\E w \in coll : w.wiki_id = id THEN Reply("NOT_FOUND", coll)
  ELSE LET old == CHOOSE w \in coll : w.wiki_id = id
           new == [f \in DOMAIN old |-> IF f \in mask THEN request[f] ELSE old[f]]
       IN IF \E w \in coll \ {old} : Norm[w.title] = Norm[new.title]
            THEN Reply("ALREADY_EXISTS", coll)
            ELSE Reply("OK", (coll \ {old}) \cup {new})

deleteWiki(coll, id) ==
  IF \E w \in coll : w.wiki_id = id
    THEN Reply("OK", {w \in coll : w.wiki_id # id})
    ELSE Reply("NOT_FOUND", coll)

ById(wikis) == SetToSortSeq(wikis, LAMBDA x, y : x.wiki_id < y.wiki_id)

\* SearchWikis: an offset into the hits of the query, in id order.
SearchWikis(coll, query, offset, size) ==
  LET hits == ById({w \in coll : Norm[w.title] \in Within[query]})
      rest == SubSeq(hits, offset + 1, Len(hits))
      n    == IF Len(rest) < size THEN Len(rest) ELSE size
  IN [items |-> SubSeq(rest, 1, n),
      next  |-> IF Len(rest) > size THEN offset + size ELSE 0]

ListWikis(coll, token, size) ==
  Page(ById({w \in coll : w.wiki_id > token}), size, "wiki_id")

=============================================================================
