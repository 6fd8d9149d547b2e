----------------------------- MODULE PagedRead -----------------------------
(***************************************************************************)
(* Reading a whole list over HTTP: paged_get() of scripts/platform_client  *)
(* follows the pages of a list endpoint while others add to the list and   *)
(* delete from it.  The endpoint is external: the shapes of its answers    *)
(* are those paged_get() names and that of StandardEnvelopePagination      *)
(* (smarthr360_integration/api/pagination.py), and nothing is assumed of   *)
(* its order - a new record may turn up anywhere in the list.              *)
(***************************************************************************)
EXTENDS Integers, Sequences, FiniteSets

CONSTANTS
    PageSize,   \* page_size of the endpoint
    Shapes,     \* how endpoints answer
    MaxRecords  \* bound on the records ever added to the list

\* "list": a plain list of everything.  "results": {results, next}, bare or in the
\* {data, meta} envelope.  "standard": {data: the page, links: {next}, meta}.
ASSUME PagingAssumption ==
    /\ PageSize \in Nat \ {0}
    /\ Shapes \subseteq {"list", "results", "standard"}
    /\ MaxRecords \in Nat

VARIABLES
    list,       \* the ids of the records, in order
    lastId,     \* the id of the record added last
    reader      \* the call of paged_get()

vars == <<list, lastId, reader>>

Contents(s) == {s[i] : i \in DOMAIN s}

\* page and items are the local variables of the call, shape is what the endpoint it
\* reads answers with.  kept, gone, ahead and error are read by properties only: the
\* records that are in the list since the call started, how many were deleted during it,
\* how many were added in front of the page to come, and whether an answer was an error
\* page.
Reader == [pc : {"idle", "reading", "done", "raised"}, page : Nat \ {0},
           shape : {"list", "results", "standard"}, items : Seq(Nat),
           kept : SUBSET Nat, gone : Nat, ahead : Nat, error : BOOLEAN]

Fresh == [pc |-> "idle", page |-> 1, shape |-> "list", items |-> <<>>, kept |-> {},
          gone |-> 0, ahead |-> 0, error |-> FALSE]

Init == list = <<>> /\ lastId = 0 /\ reader = Fresh

\* How far into the list the pages read so far would reach now.
RowsPassed == PageSize * (reader.page - 1)

\* Somebody else adds a record, wherever the order of the list puts it: the records from
\* there on move away from the first page ...
Insert(i) ==
    /\ lastId < MaxRecords
    /\ lastId' = lastId + 1
    /\ list' = SubSeq(list, 1, i - 1) \o <<lastId + 1>> \o SubSeq(list, i, Len(list))
    /\ reader' = [reader EXCEPT
         !.ahead = IF reader.pc = "reading" /\ i <= RowsPassed THEN @ + 1 ELSE @]

\* ... or deletes one: the records after it move towards the first page.
Delete(i) ==
    /\ list' = SubSeq(list, 1, i - 1) \o SubSeq(list, i + 1, Len(list))
    /\ reader' = [reader EXCEPT !.kept = @ \ {list[i]},
                                !.gone = IF reader.pc = "reading" THEN @ + 1 ELSE @]
    /\ UNCHANGED lastId

Start(shape) ==
    /\ reader.pc = "idle"
    /\ reader' = [Fresh EXCEPT !.pc = "reading", !.shape = shape, !.kept = Contents(list)]
    /\ UNCHANGED <<list, lastId>>

\* The pages of the list: page 1 exists even if the list is empty.
NumPages == IF list = <<>> THEN 1 ELSE (Len(list) + PageSize - 1) \div PageSize
PageRows(page) == SubSeq(list, PageSize * (page - 1) + 1,
                         IF page < NumPages THEN PageSize * page ELSE Len(list))

\* Faulty variants: the first page is taken for the list, or is asked for again.
BugFirstPageOnly ==
    /\ reader.pc = "reading" /\ reader.shape = "results"
    /\ reader.page <= NumPages
    /\ reader' = [reader EXCEPT !.items = @ \o PageRows(reader.page), !.pc = "done"]
    /\ UNCHANGED <<list, lastId>>

BugSamePage ==
    /\ reader.pc = "reading" /\ reader.shape = "results"
    /\ reader.page <= NumPages
    /\ Len(reader.items) <= MaxRecords
    /\ reader' = [reader EXCEPT
         !.items = @ \o PageRows(reader.page),
         !.pc = IF reader.page < NumPages THEN "reading" ELSE "done"]
    /\ UNCHANGED <<list, lastId>>

\* {results, next}: take the page, and go on if there is a next one.
NextPage ==
    /\ reader.pc = "reading" /\ reader.shape = "results"
    /\ reader.page <= NumPages
    /\ reader' = [reader EXCEPT
         !.items = @ \o PageRows(reader.page),
         !.pc = IF reader.page < NumPages THEN "reading" ELSE "done",
         !.page = IF reader.page < NumPages THEN @ + 1 ELSE @]
    /\ UNCHANGED <<list, lastId>>

\* 404: the list has shrunk, and the page is past its end.
PastTheEnd ==
    /\ reader.pc = "reading" /\ reader.shape = "results"
    /\ reader.page > NumPages
    /\ reader' = [reader EXCEPT !.pc = "done"]
    /\ UNCHANGED <<list, lastId>>

\* The body, or its data, is a list: it is taken for the whole list.
WholeList ==
    /\ reader.pc = "reading" /\ reader.shape \in {"list", "standard"}
    /\ reader' = [reader EXCEPT
         !.items = IF reader.shape = "list" THEN list ELSE PageRows(1),
         !.pc = "done"]
    /\ UNCHANGED <<list, lastId>>

\* Any other JSON answer, that of a 401 say: no results and no next, the loop ends.
ErrorAnswer ==
    /\ reader.pc = "reading"
    /\ reader' = [reader EXCEPT !.pc = "done", !.error = TRUE]
    /\ UNCHANGED <<list, lastId>>

\* No answer, or none that is JSON: the exception leaves paged_get().
NoAnswer ==
    /\ reader.pc = "reading"
    /\ reader' = [reader EXCEPT !.pc = "raised"]
    /\ UNCHANGED <<list, lastId>>

Return ==
    /\ reader.pc \in {"done", "raised"}
    /\ reader' = Fresh
    /\ UNCHANGED <<list, lastId>>

Read == NextPage \/ PastTheEnd \/ WholeList \/ ErrorAnswer \/ NoAnswer

Next == \/ (\E i \in 1..Len(list) + 1 : Insert(i)) \/ (\E i \in DOMAIN list : Delete(i))
        \/ (\E shape \in Shapes : Start(shape)) \/ Read \/ Return

Spec == Init /\ [][Next]_vars

-----------------------------------------------------------------------------
TypeOK ==
    /\ list \in Seq(1..MaxRecords) /\ lastId \in 0..MaxRecords
    /\ reader \in Reader

\* "following pagination to the end" (platform_client.py:80), the part that holds: a
\* call that met no error page misses, of the records that were in the list when it
\* started and are still there, at most one for each that was deleted meanwhile (those
\* behind a deleted record move up a page).  With nothing deleted it is complete,
\* whatever was added.  Lists in the standard envelope are read for their first page only.
OneMissPerDeletion ==
    reader.pc = "done" /\ ~reader.error /\ reader.shape # "standard"
        => Cardinality(reader.kept \ Contents(reader.items)) <= reader.gone

\* The other price of reading a moving list page by page (platform_client.py:91-106): a
\* call returns at most as many records a second time as were added, while it read, in
\* front of the page it was to ask for next - each pushes one record that was read back
\* behind that page.  A list that grows at its end only, or with nothing added meanwhile,
\* shows no record twice, whatever is deleted from it; one ordered newest first does.
OneRepeatPerInsertion ==
    Len(reader.items) - Cardinality(Contents(reader.items)) <= reader.ahead
=============================================================================
