------------------------------ MODULE RunList -------------------------------
(***************************************************************************)
(* The run list of the dashboard (src/web/src/pages/RunsPage.tsx and       *)
(* features/runs): filters that live in the address, a search field with a *)
(* draft of its own, and a paged list per set of filters that fills itself *)
(* from the server.                                                        *)
(*                                                                         *)
(* Abstracted: the filters other than the text are one choice; sort order, *)
(* widths, the memory of the facets; a fetch tries again inside one step;  *)
(* the list does not change on the server while it is paged.               *)
(***************************************************************************)
EXTENDS Naturals, FiniteSets

CONSTANTS
  Texts, Blank,       \* what can be typed, and nothing typed
  Choices, NoChoice,  \* the other filters together, and none of them
  PagesOf,            \* PagesOf[s]: how many pages the server has for s
  Matching,           \* the searches that match a run
  AutoPages           \* AUTO_PAGE_LIMIT

Search == [q : Texts \cup {Blank}, choice : Choices \cup {NoChoice}]
Unfiltered == [q |-> Blank, choice |-> NoChoice]

ASSUME ListAssumption ==
  /\ Blank \notin Texts /\ NoChoice \notin Choices
  /\ PagesOf \in [Search -> Nat \ {0}]
  /\ Matching \subseteq Search
  /\ AutoPages \in Nat \ {0}

VARIABLES
  listed,   \* the page is on screen
  address,  \* the search in the address
  shown,    \* the search the page last rendered with
  draft,    \* state of the search field
  lists     \* the cached query of each key

listVars == <<listed, address, shown, draft, lists>>

(* status and the pages it has; what is being fetched; whose runs they are. *)
Fresh == [status |-> "none", pages |-> 0, fetching |-> "no", of |-> Unfiltered]

(* Mutant: the key forgets a filter. *)
KeyBugNoChoice(s) == [s EXCEPT !.choice = NoChoice]

(* runsKeys.list of serverFilters: whatever reaches the query string. *)
Key(s) == s
List == lists[Key(shown)]

Filtered == shown # Unfiltered
HasNext == List.pages > 0 /\ List.status # "missing" /\ List.pages < PagesOf[List.of]

(* The page draws one of these; only the last two have the toolbar. *)
Draws ==
  CASE ~listed                                               -> "nothing"
    [] List.pages = 0 /\ List.status \in {"none", "pending"} -> "loading"
    [] List.status = "error"                                 -> "error"
    [] List.status = "missing"                               -> "empty"
    [] List.status = "ok" /\ List.of \notin Matching         ->
         IF Filtered THEN "no match" ELSE "empty"
    [] OTHER                                                 -> "table"
HasToolbar == Draws \in {"no match", "table"}

-----------------------------------------------------------------------------
ListInit ==
  /\ listed = FALSE /\ address = Unfiltered /\ shown = Unfiltered /\ draft = Blank
  /\ lists = [s \in Search |-> Fresh]

(* A fetch nobody watches any more is aborted and leaves what was before.  *)
Aborted(l) == [l EXCEPT !.fetching = "no", !.status = IF @ = "pending" THEN "none" ELSE @]

(* A query without data is fetched when it comes to be watched, one with   *)
(* data again when it has become stale.                                    *)
Watching(l, s) ==
  IF l.pages = 0
    THEN {[status |-> "pending", pages |-> 0, fetching |-> "first", of |-> s]}
    ELSE {l, [l EXCEPT !.fetching = "all"]}

WatchedFrom(s) ==
  \E l \in Watching(Aborted(lists[Key(s)]), s) :
    lists' = [k \in Search |-> IF k = Key(s) THEN l ELSE Aborted(lists[k])]

(* A link, bare or shared, opens the page. *)
EnterList ==
  /\ ~listed /\ listed' = TRUE
  /\ \E s \in Search : address' = s /\ shown' = s /\ draft' = s.q /\ WatchedFrom(s)

(* The cache outlives the page, until its gcTime is over.                  *)
Outlives == {[k \in Search |-> Aborted(lists[k])], [k \in Search |-> Fresh]}

LeaveList ==
  /\ listed /\ listed' = FALSE
  /\ address' = Unfiltered /\ shown' = Unfiltered /\ draft' = Blank
  /\ lists' \in Outlives

(***************************************************************************)
(* The reader. apply replaces the address by a search built from the last  *)
(* rendered one; the page renders with it later.                           *)
(***************************************************************************)
Apply(s) == address' = s /\ UNCHANGED <<listed, shown, draft, lists>>

Type(text) ==
  /\ HasToolbar /\ draft # text
  /\ draft' = text
  /\ UNCHANGED <<listed, address, shown, lists>>

(* The debounce ran out over a field that differs from the address. *)
SearchFires == HasToolbar /\ draft # shown.q /\ Apply([shown EXCEPT !.q = draft])

Choose(choice) ==
  HasToolbar /\ shown.choice # choice /\ Apply([shown EXCEPT !.choice = choice])

ClearFilters == HasToolbar /\ Filtered /\ Apply(Unfiltered)

(* The router commits. The address wins over the draft when its text       *)
(* changed; a toolbar that is not drawn meanwhile loses the draft and the  *)
(* debounce with it.                                                       *)
Commit ==
  /\ listed /\ shown # address
  /\ shown' = address
  /\ WatchedFrom(address)
  /\ UNCHANGED <<listed, address>>
  /\ draft' = IF address.q # shown.q \/ ~HasToolbar' THEN address.q ELSE draft

(***************************************************************************)
(* The paged query.                                                        *)
(***************************************************************************)
Put(l) ==
  /\ lists' = [lists EXCEPT ![Key(shown)] = l]
  /\ UNCHANGED <<listed, address, shown>>
  /\ draft' = IF HasToolbar /\ HasToolbar' THEN draft ELSE shown.q

(* Mutant: an error stops the filling. *)
FillsItselfBugNotAfterError ==
  listed /\ HasNext /\ List.fetching # "next" /\ List.pages < AutoPages /\ List.status = "ok"

(* The effect fetches page after page; it does so over an error as well,   *)
(* and over a refetch, which it cancels.                                   *)
FillsItself == listed /\ HasNext /\ List.fetching # "next" /\ List.pages < AutoPages

FetchNext == FillsItself /\ Put([List EXCEPT !.fetching = "next"])

LoadMore ==
  HasToolbar /\ HasNext /\ List.fetching # "next" /\ Put([List EXCEPT !.fetching = "next"])

Retry ==
  /\ Draws = "error"
  /\ Put([List EXCEPT !.fetching = IF List.pages = 0 THEN "first" ELSE "all",
                      !.status = IF List.pages = 0 THEN "pending" ELSE @])

ListAnswers ==
  /\ listed /\ List.fetching # "no"
  /\ \/ Put([List EXCEPT !.status = "ok", !.fetching = "no",
                         !.pages = IF List.fetching = "all" THEN @ ELSE @ + 1])
     \/ /\ List.fetching # "next" /\ List.pages <= 1
        /\ Put([List EXCEPT !.status = "missing", !.fetching = "no", !.pages = 1])

ListFails ==
  /\ listed /\ List.fetching # "no"
  /\ Put([List EXCEPT !.status = "error", !.fetching = "no"])

ListInside ==
  \/ \E text \in Texts \cup {Blank} : Type(text)
  \/ SearchFires \/ ClearFilters \/ Commit
  \/ \E choice \in Choices \cup {NoChoice} : Choose(choice)
  \/ FetchNext \/ LoadMore \/ Retry \/ ListAnswers \/ ListFails

ListNext == EnterList \/ LeaveList \/ ListInside

(* Effects run and a fetch ends, one way or the other. *)
ListFairness ==
  /\ WF_listVars(Commit) /\ WF_listVars(FetchNext) /\ WF_listVars(ListAnswers \/ ListFails)

ListSpec == ListInit /\ [][ListNext]_listVars /\ ListFairness

-----------------------------------------------------------------------------
ListTypeOK ==
  /\ listed \in BOOLEAN /\ address \in Search /\ shown \in Search
  /\ draft \in Texts \cup {Blank}
  /\ lists \in [Search -> [status : {"none", "pending", "ok", "missing", "error"}, pages : Nat,
                           fetching : {"no", "first", "next", "all"}, of : Search]]

(* runsSearch.ts, api.ts: the rows under the filters were asked for with   *)
(* these filters, whatever was cached, aborted, or chosen meanwhile, and   *)
(* no page of them was asked for twice or past the last.                   *)
RowsAreTheFilters ==
  listed /\ List.pages > 0 => List.of = shown /\ List.pages <= PagesOf[shown]

(* A list the reader stays at is whole in the end, up to AUTO_PAGE_LIMIT,  *)
(* if fetches do not fail for ever. An error is left to the Retry button   *)
(* only where no next page is due that would bring the list back.          *)
Filled(s) ==
  LET l == lists[Key(s)]
      due == l.pages > 0 /\ l.pages < AutoPages /\ l.pages < PagesOf[s]
  IN  l.status = "missing" \/ (l.status \in {"ok", "error"} /\ ~due)
FillsUp ==
  \A s \in Search :
    <>[](listed /\ shown = s) => ([]<><<ListFails>>_listVars \/ <>[]Filled(s))

(* RunsFilters.tsx:91: "The URL wins when it changes underneath us (back   *)
(* button, cleared filters)." Clearing leaves no draft to be applied.      *)
ClearedIsCleared == [][ClearFilters => draft = Blank \/ draft = shown.q]_listVars

(* RunsFilters.tsx, the filter sheet: "Every choice is kept in the page    *)
(* address." A draft that waits for its debounce is a choice.              *)
ChoicesAreKept == [][Commit /\ draft # shown.q => draft' = draft \/ address.q = draft]_listVars
=============================================================================
