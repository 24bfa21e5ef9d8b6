------------------------------- MODULE Webhooks -------------------------------
(***************************************************************************)
(* internal/handlers/webhooks.go and DispatchWebhooks of                   *)
(* internal/webhooks/webhooks.go: who is subscribed to the events of the   *)
(* publishers of Publishers.tla, and which POSTs an event causes.          *)
(*                                                                         *)
(* Of the way of an event between its commit and its dispatch only this is *)
(* kept: it is dispatched some time later, in any order, at most once      *)
(* (EventPipeline.tla has the rest).  Webhooks of software are the same    *)
(* code with another entity type.                                          *)
(***************************************************************************)
EXTENDS Publishers

CONSTANTS Targets,  \* the URLs of webhooks
          All       \* the empty entity_id: any publisher

ASSUME WebhooksAssumption == All \notin Ids /\ None \notin Nat

\* A row of webhooks: who made it, its URL and the publisher it is for.
Hooks == [by : Requests, url : Targets, on : Ids \cup {All}]

VARIABLES hooks,      \* the rows of webhooks
          hookTrail,  \* the events of webhooks, in commit order
          told,       \* the events of the trail that were dispatched
          posts,      \* <<event, webhook>>: the POSTs that were started
          since,      \* history: Len(trail) when a request made its webhook
          until       \* history: Len(trail) when that webhook was deleted

hookvars == <<hooks, hookTrail, told, posts, since, until>>
wvars == <<vars, hookvars>>

WTypeOK ==
    /\ TypeOK
    /\ hooks \in SUBSET Hooks
    /\ hookTrail \in Seq([type : {"create", "delete"}, hook : Hooks])
    /\ told \in SUBSET DOMAIN trail
    /\ posts \in SUBSET ((DOMAIN trail) \X Hooks)
    /\ since \in [Requests -> Nat \cup {None}]
    /\ until \in [Requests -> Nat \cup {None}]

WInit ==
    /\ Init
    /\ hooks = {}
    /\ hookTrail = <<>>
    /\ told = {}
    /\ posts = {}
    /\ since = [r \in Requests |-> None]
    /\ until = [r \in Requests |-> None]

-----------------------------------------------------------------------------
Tell(type, h) == hookTrail' = Append(hookTrail, [type |-> type, hook |-> h])

\* The transaction of both POSTs: the unique index on URL and entity lets the
\* row in.
Insert(r, on) ==
    /\ \E url \in Targets :
          LET h == [by |-> r, url |-> url, on |-> on] IN
          /\ \A x \in hooks : <<x.url, x.on>> # <<url, on>>
          /\ hooks' = hooks \cup {h}
          /\ Tell("create", h)
    /\ since' = [since EXCEPT ![r] = Len(trail)]
    /\ Answer(r, "ok")
    /\ UNCHANGED <<publishers, hosts, logs, trail, kinds, local, told, posts,
                   until>>

\* PostResourceWebhook: for all publishers.
PostForAll(r) == Arrives(r, "hook") /\ Insert(r, All)

\* PostSingleResourceWebhook: the publisher is looked up, by its id alone, ...
FindForHook(r) ==
    /\ Arrives(r, "hook")
    /\ \E p \in Ids :
          /\ local' = [local EXCEPT ![r].id = p]
          /\ \/ Exists(p) /\ Goto(r, "hook")
             \/ ~ Exists(p) /\ Answer(r, "notfound")
    /\ UNCHANGED <<publishers, hosts, logs, trail, kinds, hookvars>>

\* ... and may be gone when the row is made: nothing refers to it.
PostForOne(r) == pc[r] = "hook" /\ Insert(r, local[r].id) /\ UNCHANGED serial

\* The webhooks there ever were: those a path can name.
Known == {hookTrail[i].hook : i \in DOMAIN hookTrail}

\* deleteResult, for a webhook.
HookOrNone(h) == TRUE          \* mutant: no deleteResult
HookMatched(h) == h \in hooks

\* DeleteWebhook.
DeleteHook(r) ==
    /\ Arrives(r, "unhook")
    /\ \/ \E h \in Known :
             /\ HookMatched(h)
             /\ hooks' = hooks \ {h}
             /\ Tell("delete", h)
             /\ until' = [until EXCEPT ![h.by] = Len(trail)]
             /\ Answer(r, "ok")
       \/ Answer(r, "notfound") /\ UNCHANGED <<hooks, hookTrail, until>>
    /\ UNCHANGED <<publishers, hosts, logs, trail, kinds, local, told, posts,
                   since>>

\* The query of DispatchWebhooks.
For(h, e) == h.on \in {All, e.id}

\* DispatchWebhooks for an event: a POST per webhook there is now.  (If the
\* query fails the event is not dispatched at all.  BOUND: only in behaviours
\* about webhooks.)
Dispatch(i) ==
    /\ "hook" \in kinds
    /\ told' = told \cup {i}
    /\ posts' = posts \cup {<<i, h>> : h \in {x \in hooks : For(x, trail[i])}}
    /\ UNCHANGED <<vars, hooks, hookTrail, since, until>>

\* The handlers of Publishers.tla; DeletePublisher leaves the webhooks that
\* are for the publisher.
HooksGone(left) ==             \* mutant: they go with it, like its logs
    {h \in hooks : h.on = All \/ left[h.on] # Gone}
HooksLeft(left) == hooks
PublishersNext == /\ Next
                  /\ hooks' = HooksLeft(publishers')
                  /\ UNCHANGED <<hookTrail, told, posts, since, until>>

WNext == \/ PublishersNext
         \/ \E r \in Requests : \/ PostForAll(r)
                                \/ FindForHook(r)
                                \/ PostForOne(r)
                                \/ DeleteHook(r)
         \/ \E i \in (DOMAIN trail) \ told : Dispatch(i)

WSpec == WInit /\ [][WNext]_wvars

-----------------------------------------------------------------------------
(* Properties *)

\* Whoever was subscribed when something happened and still is gets to know
\* when it is dispatched, the end of the publisher included: the row of the
\* webhook outlives what it is for.  Whoever was told that the webhook is
\* deleted gets nothing that happened after it.
Subscribed ==
    \A h \in Known : \A i \in DOMAIN trail :
       /\ i \in told /\ For(h, trail[i]) /\ since[h.by] < i
             /\ until[h.by] = None => <<i, h>> \in posts
       /\ <<i, h>> \in posts /\ until[h.by] # None => i <= until[h.by]

\* Under any interleaving a webhook is created once and deleted once in the
\* audit trail, in this order, and the trail agrees with the rows.
HookTrail ==
    /\ \A i, j \in DOMAIN hookTrail :
          i < j /\ hookTrail[i].hook = hookTrail[j].hook =>
             hookTrail[i].type = "create" /\ hookTrail[j].type = "delete"
    /\ hooks = Known \ {hookTrail[i].hook : i \in
                   {j \in DOMAIN hookTrail : hookTrail[j].type = "delete"}}
=============================================================================
