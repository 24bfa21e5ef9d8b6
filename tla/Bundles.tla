-------------------------------- MODULE Bundles --------------------------------
(***************************************************************************)
(* internal/handlers/bundles.go: named groups of software, next to the     *)
(* handlers of Software.tla that create and delete their members.          *)
(*                                                                         *)
(* POST and PATCH check the members outside their transaction; what stands *)
(* between a member that goes meanwhile and a link to nothing are the      *)
(* foreign keys of the join table.  Reads and commits are steps as in      *)
(* Software.tla.                                                           *)
(***************************************************************************)
EXTENDS Software

CONSTANT BundleIds  \* bundle ids

VARIABLES bundles,  \* per id None for a row, Unborn or Gone
          links,    \* the rows of the join table bundles_software
          news,     \* the events of bundles, in commit order
          asked     \* per request what its bundle handler has read or asked

bvars == <<vars, bundles, links, news, asked>>

Links == [bundle : BundleIds, software : Ids]

Unasked == [id |-> None, members |-> {}, want |-> {}, named |-> FALSE]
Asked == [id : BundleIds \cup {None},  \* the bundle of the path
          members : SUBSET Ids,        \* its members when they were read
          want : SUBSET Ids,           \* the members to link
          named : BOOLEAN]             \* does the body name them?

BTypeOK ==
    /\ TypeOK
    /\ bundles \in [BundleIds -> {None, Unborn, Gone}]
    /\ links \in SUBSET Links
    /\ news \in Seq([type : {"create", "update", "delete"}, id : BundleIds])
    /\ asked \in [Requests -> Asked]

Live(b) == bundles[b] = None

Members(b) == {s \in Ids : [bundle |-> b, software |-> s] \in links}

LinksOf(b, members) == {[bundle |-> b, software |-> s] : s \in members}

\* At the start some bundles exist, empty ones among them: a bundle stays when
\* its members are deleted.  (None in a behaviour that is not about bundles.)
BInit ==
    /\ Init
    /\ bundles \in [BundleIds -> IF kinds \cap BundleHandlers = {}
                                THEN {Unborn} ELSE {None, Unborn}]
    /\ links \in SUBSET {x \in Links : Live(x.bundle) /\ Exists(x.software)}
    /\ news = <<>>
    /\ asked = [r \in Requests |-> Unasked]

-----------------------------------------------------------------------------
\* The steps of a bundle handler leave software alone.
SoftwareAside == UNCHANGED <<software, urls, logs, trail, local, kinds>>

Tell(type, b) == news' = Append(news, [type |-> type, id |-> b])

\* findSoftwareByIDs: every id that was asked for has a row.
AllFound(want) == \A s \in want : Exists(s)

\* The foreign keys of the join table let the links of b in; a link that is
\* there already is not inserted.
Unkeyed(b, want) == TRUE                \* mutant: no foreign keys
Keyed(b, want) == want \ Members(b) # {} =>
                     Live(b) /\ \A s \in want \ Members(b) : Exists(s)

\* PostBundle up to its transaction.
FindMembers(r) ==
    /\ Arrives(r, "bundle")
    /\ \E want \in (SUBSET Ids) \ {{}} :
          \/ /\ AllFound(want)
             /\ asked' = [asked EXCEPT ![r].want = want]
             /\ Goto(r, "link")
          \/ /\ ~ AllFound(want)
             /\ Answer(r, "error")
             /\ UNCHANGED asked
    /\ SoftwareAside
    /\ UNCHANGED <<bundles, links, news>>

\* PostBundle's transaction: the bundle and its links.
CreateBundle(r) ==
    /\ pc[r] = "link"
    /\ \E b \in BundleIds :
          /\ bundles[b] = Unborn
          /\ AllFound(asked[r].want)
          /\ bundles' = [bundles EXCEPT ![b] = None]
          /\ links' = links \cup LinksOf(b, asked[r].want)
          /\ Tell("create", b)
          /\ asked' = [asked EXCEPT ![r].id = b, ![r].named = TRUE]
    /\ Answer(r, "ok")
    /\ SoftwareAside
    /\ UNCHANGED serial

-----------------------------------------------------------------------------
(* PatchBundle: the bundle, the two queries of the preload, the check of   *)
(* the members, then the transaction.                                      *)

FindBundle(r) ==
    /\ Arrives(r, "patchBundle")
    /\ \E b \in BundleIds :
          /\ asked' = [asked EXCEPT ![r].id = b]
          /\ \/ Live(b) /\ Goto(r, "links")
             \/ ~ Live(b) /\ Answer(r, "notfound")
    /\ SoftwareAside
    /\ UNCHANGED <<bundles, links, news>>

LoadLinks(r) ==
    /\ pc[r] = "links"
    /\ asked' = [asked EXCEPT ![r].members = Members(asked[r].id)]
    /\ Goto(r, "members")
    /\ SoftwareAside
    /\ UNCHANGED <<bundles, links, news, serial>>

\* AfterFind lists what the second query of the preload found.
LoadMembers(r) ==
    /\ pc[r] = "members"
    /\ asked' = [asked EXCEPT ![r].members = {s \in @ : Exists(s)}]
    /\ Goto(r, "check")
    /\ SoftwareAside
    /\ UNCHANGED <<bundles, links, news, serial>>

\* applyPatch and validatePatchedBundle: the members a body asks for, or those
\* that were read if it leaves them out.  An empty list is refused, read or
\* asked for; null is not, for it makes a nil slice and omitempty skips that.
NamedOnly(r, named) ==                  \* mutant: what is left out is dropped
    SUBSET Ids
Wanted(r, named) ==
    IF named THEN SUBSET Ids ELSE {asked[r].members} \ {{}}

\* findSoftwareByIDs again, with the transaction still to come.
CheckMembers(r) ==
    /\ pc[r] = "check"
    /\ \E named \in BOOLEAN : \E want \in Wanted(r, named) :
          \/ /\ AllFound(want)
             /\ asked' = [asked EXCEPT ![r].want = want, ![r].named = named]
             /\ Goto(r, "swap")
          \/ /\ ~ AllFound(want)
             /\ Answer(r, "error")
             /\ UNCHANGED asked
    /\ SoftwareAside
    /\ UNCHANGED <<bundles, links, news, serial>>

\* The transaction: updateColumns with its event, whether a row matched or
\* not, and then the links, which undo both when they cannot be made.
Replaced(b, want) ==
    {x \in links : x.bundle # b} \cup LinksOf(b, want)
SwapLinks(r) ==
    /\ pc[r] = "swap"
    /\ LET b == asked[r].id IN
          /\ Keyed(b, asked[r].want)
          /\ links' = Replaced(b, asked[r].want)
          /\ Tell("update", b)
    /\ Answer(r, "ok")
    /\ SoftwareAside
    /\ UNCHANGED <<bundles, asked, serial>>

-----------------------------------------------------------------------------
\* deleteResult, for a bundle.
RowOrNone(b) == TRUE                    \* mutant: no deleteResult
RowMatched(b) == Live(b)

\* DeleteBundle: the links and the row in one transaction.
DeleteBundle(r) ==
    /\ Arrives(r, "deleteBundle")
    /\ \E b \in BundleIds :
          /\ asked' = [asked EXCEPT ![r].id = b]
          /\ \/ /\ RowMatched(b)
                /\ links' = {x \in links : x.bundle # b}
                /\ bundles' = [bundles EXCEPT ![b] = Gone]
                /\ Tell("delete", b)
                /\ Answer(r, "ok")
             \/ /\ ~ RowMatched(b)
                /\ Answer(r, "notfound")
                /\ UNCHANGED <<bundles, links, news>>
    /\ SoftwareAside

\* The handlers of Software.tla; DeleteSoftware takes the links of the
\* software with it, for it selects Bundles too.
LinksLeft(left) == {x \in links : left[x.software] # Gone}
SoftwareNext == /\ Next
                /\ links' = LinksLeft(software')
                /\ UNCHANGED <<bundles, news, asked>>

BNext == \/ SoftwareNext
         \/ \E r \in Requests : \/ FindMembers(r)
                                \/ CreateBundle(r)
                                \/ FindBundle(r)
                                \/ LoadLinks(r)
                                \/ LoadMembers(r)
                                \/ CheckMembers(r)
                                \/ SwapLinks(r)
                                \/ DeleteBundle(r)

BSpec == BInit /\ [][BNext]_bvars

-----------------------------------------------------------------------------
(* Properties *)

\* No bundle has a member that is gone, and nothing that is gone has members,
\* though POST and PATCH check both before their transaction and neither
\* again in it.
MembersExist == \A x \in links : Live(x.bundle) /\ Exists(x.software)

\* Under any interleaving a bundle is deleted once in its trail, and the
\* deletion ends it but for the PATCHes that clear its members: linking some
\* fails with the bundle gone and takes the update event with it.  (Software
\* has no such luck, see NothingAfterDelete.)
BundleTrailEnds ==
    \A b \in BundleIds :
       LET deletes == {i \in DOMAIN news :
                          news[i] = [type |-> "delete", id |-> b]}
           late == {j \in DOMAIN news :
                       news[j].id = b /\ \E i \in deletes : i < j}
           clearing == {r \in Requests : /\ asked[r].id = b
                                         /\ asked[r].named
                                         /\ asked[r].want = {}}
       IN /\ Cardinality(deletes) = IF bundles[b] = Gone THEN 1 ELSE 0
          /\ Cardinality(late) <= Cardinality(clearing)

\* Handled one at a time, a PATCH that names no members leaves them as they
\* are, though it writes them all again, and one that names some leaves those
\* and no other.  (Overlapping, it puts back members another PATCH removed.)
SerialMembers ==
    [][\A r \in Requests :
          serial /\ pc[r] = "swap" /\ reply'[r] = "ok" =>
             LET b == asked[r].id IN
             Members(b)' = IF asked[r].named THEN asked[r].want
                           ELSE Members(b)]_bvars
=============================================================================
