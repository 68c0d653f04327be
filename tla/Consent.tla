------------------------------- MODULE Consent -----------------------------
(***************************************************************************)
(* One legal document in its translations, each a row of static_pages with *)
(* a version of its own, and the versions one customer accepted.  The one  *)
(* in force is the newest of the active rows; publishing a new version on  *)
(* any row carries it over to the others.                                  *)
(***************************************************************************)
EXTENDS Calls, FiniteSets

CONSTANTS
  Locale,
  MaxVersion    \* bound: the versions operators give

ASSUME ConsentAssumption == MaxVersion \in Nat \ {0}

VARIABLES
  pages,        \* static_pages of the document, by locale
  accepted      \* user_legal_acceptances of the customer: the versions

Version == 1 .. MaxVersion
NoVersion == 0

\* born: which creation of the page the row is from; 0: there is none.
PageRow == [version : {NoVersion} \cup Version, active : BOOLEAN, born : {0} \cup Row]
NoPage == [version |-> NoVersion, active |-> FALSE, born |-> 0]

ConsentTask ==
       [pc : {"readSiblings", "removePage"}, locale : Locale, version : Version]
  \cup [pc : {"insertPage"}, locale : Locale, row : PageRow]
  \cup [pc : {"savePage", "propagate"}, locale : Locale, row : PageRow, bumped : BOOLEAN]
  \cup [pc : {"persist"}, version : Version]

ConsentOK ==
  /\ pages \in [Locale -> PageRow]
  /\ accepted \subseteq Version

There(l) == pages[l].born # 0
Newest(S) == CHOOSE v \in S : \A w \in S : w <= v

\* The version in force (getDocumentStatuses); NoVersion when no row is active.
Current ==
  Newest({NoVersion} \cup {pages[l].version : l \in {k \in Locale : pages[k].active}})

\* The gate the app asks at launch: something is to be accepted.
Asks == Current # NoVersion /\ ~\E v \in accepted : v >= Current

\* createPage, of a translation there is none of, or 400.
CreatePage(r) ==
  /\ \E l \in Locale, v \in Version :
       ~There(l) /\ Call(r, [pc |-> "readSiblings", locale |-> l, version |-> v])
  /\ UNCHANGED <<pages, accepted>>

\* A translation joins the document at the version its siblings are at.
ReadSiblings(r) ==
  LET t == task[r]
      siblings == {pages[l].version : l \in {k \in Locale : There(k)}} IN
  /\ At(r, "readSiblings")
  /\ Resume(r, [pc |-> "insertPage", locale |-> t.locale,
                row |-> [version |-> IF siblings = {} THEN t.version ELSE Newest(siblings),
                         active |-> TRUE, born |-> started]])
  /\ UNCHANGED <<pages, accepted>>

\* The unique (slug, locale) index rejects the second of two.
InsertPage(r) ==
  LET t == task[r] IN
  /\ At(r, "insertPage")
  /\ pages' = IF There(t.locale) THEN pages ELSE [pages EXCEPT ![t.locale] = t.row]
  /\ Finish(r)
  /\ UNCHANGED accepted

\* updatePage: the text, or a version that does not go backwards, or 400.
UpdatePage(r) ==
  /\ \E l \in Locale, v \in Version, a \in BOOLEAN :
       /\ There(l) /\ v >= pages[l].version
       /\ Call(r, [pc |-> "savePage", locale |-> l, bumped |-> v # pages[l].version,
                   row |-> [pages[l] EXCEPT !.version = v, !.active = a]])
  /\ UNCHANGED <<pages, accepted>>

\* The whole row; one that was deleted meanwhile is inserted again.
SavePage(r) ==
  LET t == task[r]
      clash == There(t.locale) /\ pages[t.locale].born # t.row.born IN
  /\ At(r, "savePage")
  /\ pages' = IF clash THEN pages ELSE [pages EXCEPT ![t.locale] = t.row]
  /\ IF t.bumped /\ ~clash THEN Goto(r, "propagate") ELSE Finish(r)
  /\ UNCHANGED accepted

\* A slip: the other translations stay where they are.
PropagateNot(r) ==
  /\ At(r, "propagate")
  /\ Finish(r)
  /\ UNCHANGED <<pages, accepted>>

\* One update of every other row of the document.
Propagate(r) ==
  LET t == task[r] IN
  /\ At(r, "propagate")
  /\ pages' = [l \in Locale |-> IF There(l) /\ l # t.locale
                                THEN [pages[l] EXCEPT !.version = t.row.version]
                                ELSE pages[l]]
  /\ Finish(r)
  /\ UNCHANGED accepted

\* deletePage
DeletePage(r) ==
  /\ \E l \in Locale :
       There(l) /\ Call(r, [pc |-> "removePage", locale |-> l, version |-> 1])
  /\ UNCHANGED <<pages, accepted>>

RemovePage(r) ==
  /\ At(r, "removePage")
  /\ pages' = [pages EXCEPT ![task[r].locale] = NoPage]
  /\ Finish(r)
  /\ UNCHANGED accepted

\* A slip: a consent to a document of which no version is in force.
AcceptAny(r) ==
  /\ Call(r, [pc |-> "persist", version |-> Current])
  /\ UNCHANGED <<pages, accepted>>

\* acceptDocuments of the version in force, or 400; and recordAcceptanceFor.
Accept(r) ==
  /\ Current # NoVersion
  /\ Call(r, [pc |-> "persist", version |-> Current])
  /\ UNCHANGED <<pages, accepted>>

\* persistAcceptances: a row there is already is left as it is.
Persist(r) ==
  /\ At(r, "persist")
  /\ accepted' = accepted \cup {task[r].version}
  /\ Finish(r)
  /\ UNCHANGED pages

ConsentRequest(r) == CreatePage(r) \/ UpdatePage(r) \/ DeletePage(r) \/ Accept(r)

ConsentStep(r) ==
  \/ ReadSiblings(r) \/ InsertPage(r) \/ SavePage(r) \/ Propagate(r)
  \/ RemovePage(r) \/ Persist(r)

ConsentInit == pages = [l \in Locale |-> NoPage] /\ accepted = {}

-----------------------------------------------------------------------------

(***************************************************************************)
(* Whoever was to be asked stays to be asked until they accept: no new     *)
(* translation, edit, publication or deletion of one takes the version in  *)
(* force back to one that the customer accepted before, short of deleting  *)
(* or deactivating them all; as long as publications do not overlap or die. *)
(***************************************************************************)
AsksUntilAccepted ==
  [][alone /\ fails = 0 /\ Asks /\ Current' # NoVersion /\ accepted' = accepted
       => Asks']_<<pages, accepted, calls>>
=============================================================================
