----------------------------- MODULE CmsProofs ------------------------------
(***************************************************************************)
(* What the guards of the CMS, rooms:sync and the start of Strapi promise. *)
(* A behaviour exercises one part, so that each part has an invariant of   *)
(* its own.                                                                *)
(***************************************************************************)
EXTENDS Cms, TLAPS, FiniteSetTheorems, WellFoundedInduction

(***************************************************************************)
(* The editorial guard.  A write on its way knows the post p as it was     *)
(* read, as long as seen says that no other write has passed since.        *)
(***************************************************************************)
IsPostWrite(r) == DOMAIN r = {"kind", "data", "phase", "merged", "slug", "seen"}
KnowsPost(r, p) ==
    /\ IsPostWrite(r) /\ r.data.tag \in Relation(Tags)
    /\ r.phase # "read" /\ r.seen = TRUE => r.merged = MergedWith(p, r.data)
    /\ r.phase = "tag" => Named(r.data.tag) /\ r.data.tag.to # Keep
    /\ r.phase = "write" /\ r.kind # "save" =>
          /\ ValidatePostPublishRequirements(r.merged, r.slug)
          /\ r.seen = TRUE /\ r.slug # None => r.slug = Written(p, r.data).tag
GuardsKnow ==
    /\ DOMAIN requests = Editors /\ DOMAIN draft = DOMAIN EmptyPost
    /\ part = "posts" => \A e \in Editors :
          requests[e] # None => KnowsPost(requests[e], draft)
PostsInv == GuardsKnow /\ PublishedComplete

LEMMA PostsInit == ASSUME Init PROVE PostsInv
BY DEF Init, PostsInv, GuardsKnow, PublishedComplete

LEMMA SubmitKnows ==
    ASSUME GuardsKnow, NEW e \in Editors, NEW kind, NEW data \in Payloads \cup {NoData},
           Submit(e, kind, data)
    PROVE  GuardsKnow'
<1> DEFINE q == [kind |-> kind, data |-> EnsurePrimaryChannelInChannels(data),
                 phase |-> IF kind = "save" THEN "write" ELSE "read",
                 merged |-> EmptyPost, slug |-> None, seen |-> FALSE]
<1>1. requests' = [requests EXCEPT ![e] = q] /\ draft' = draft /\ part' = part
    BY DEF Submit, postVars
<1>2. data \in PostData
    BY CmsAssumption DEF NoData, PostData, Relation
<1>3. EnsurePrimaryChannelInChannels(data).tag = data.tag
    BY <1>2 DEF EnsurePrimaryChannelInChannels, PostData
<1>4. data.tag \in Relation(Tags)
    BY <1>2 DEF PostData
<1>5. KnowsPost(q, draft)
    BY <1>3, <1>4 DEF KnowsPost, IsPostWrite
<1> HIDE DEF q
<1> QED
    BY <1>1, <1>5 DEF GuardsKnow

(* A request that has been judged is valid.                                *)
LEMMA JudgedKnows ==
    ASSUME NEW r, NEW p, Judged(r) # None, IsPostWrite(r), r.data.tag \in Relation(Tags),
           r.seen = TRUE => r.merged = MergedWith(p, r.data),
           r.seen = TRUE /\ r.slug # None => r.slug = Written(p, r.data).tag
    PROVE  KnowsPost(Judged(r), p)
<1>1. /\ Judged(r) = [r EXCEPT !.phase = "write"]
      /\ ValidatePostPublishRequirements(r.merged, r.slug)
    BY DEF Judged
<1> DEFINE q == Judged(r)
<1>2. /\ IsPostWrite(q)
      /\ q.kind = r.kind /\ q.data = r.data /\ q.phase = "write"
      /\ q.merged = r.merged /\ q.slug = r.slug /\ q.seen = r.seen
    BY <1>1 DEF IsPostWrite
<1> HIDE DEF q
<1>3. KnowsPost(q, p)
    BY <1>1, <1>2 DEF KnowsPost
<1> QED
    BY <1>3 DEF q

LEMMA ReadExistingKnows ==
    ASSUME GuardsKnow, NEW e \in Editors, NEW ok \in BOOLEAN, ReadExisting(e, ok)
    PROVE  GuardsKnow'
<1> DEFINE r == requests[e]
           found == IF ok THEN draft ELSE EmptyPost
           seen == [r EXCEPT !.merged = MergedWith(found, r.data), !.seen = ok,
                             !.slug = IF r.data.tag = Keep THEN found.tag ELSE None]
           next == IF Named(r.data.tag) /\ r.data.tag.by = "id"
                   THEN [seen EXCEPT !.phase = "tag"] ELSE Judged(seen)
<1>1. /\ part = "posts" /\ r # None /\ part' = part /\ draft' = draft
      /\ requests' = [requests EXCEPT ![e] = next]
    BY DEF ReadExisting, postVars
<1>2. IsPostWrite(r) /\ r.data.tag \in Relation(Tags)
    BY <1>1 DEF GuardsKnow, KnowsPost
<1>3. /\ IsPostWrite(seen) /\ seen.data = r.data /\ seen.seen = ok
      /\ seen.merged = MergedWith(found, r.data)
      /\ seen.slug = IF r.data.tag = Keep THEN found.tag ELSE None
    <2> HIDE DEF r, found
    <2> QED
        BY <1>2 DEF IsPostWrite
<1>4. next # None => KnowsPost(next, draft)
    <2>1. CASE Named(r.data.tag) /\ r.data.tag.by = "id"
        <3>1. next = [seen EXCEPT !.phase = "tag"]
            BY <2>1
        <3> HIDE DEF next, seen
        <3>2. /\ IsPostWrite(next) /\ next.data = r.data /\ next.seen = ok /\ next.phase = "tag"
              /\ next.merged = MergedWith(found, r.data)
            BY <3>1, <1>3 DEF IsPostWrite
        <3>3. r.data.tag.to # Keep
            BY <1>2, <2>1, CmsAssumption DEF Named, Relation
        <3> HIDE DEF r
        <3> QED
            BY <1>2, <2>1, <3>2, <3>3 DEF KnowsPost
    <2>2. CASE ~(Named(r.data.tag) /\ r.data.tag.by = "id")
        <3>1. next = Judged(seen)
            BY <2>2
        <3>3. seen.seen = TRUE => seen.merged = MergedWith(draft, seen.data)
            BY <1>3
        <3>4. r.data.tag = Keep => Written(draft, r.data).tag = draft.tag
            BY DEF Written, Related, Named, Overlay
        <3>5. seen.seen = TRUE /\ seen.slug # None => seen.slug = Written(draft, seen.data).tag
            BY <1>3, <3>4
        <3> HIDE DEF next, seen, r
        <3> QED
            BY <1>2, <1>3, <3>1, <3>3, <3>5, JudgedKnows
    <2> QED
        BY <2>1, <2>2
<1> HIDE DEF next, r
<1> QED
    BY <1>1, <1>4 DEF GuardsKnow, r

LEMMA FindTagKnows ==
    ASSUME GuardsKnow, NEW e \in Editors, NEW ok \in BOOLEAN, FindTag(e, ok)
    PROVE  GuardsKnow'
<1> DEFINE r == requests[e]
           seen == [r EXCEPT !.slug = IF ok THEN r.data.tag.to ELSE None]
<1>1. /\ part = "posts" /\ r # None /\ r.phase = "tag" /\ part' = part /\ draft' = draft
      /\ requests' = [requests EXCEPT ![e] = Judged(seen)]
    BY DEF FindTag, postVars
<1>2. KnowsPost(r, draft)
    BY <1>1 DEF GuardsKnow
<1>3. /\ IsPostWrite(seen) /\ seen.data = r.data /\ seen.merged = r.merged
      /\ seen.seen = r.seen /\ seen.slug = IF ok THEN r.data.tag.to ELSE None
    BY <1>2 DEF KnowsPost, IsPostWrite
<1>4. /\ Named(r.data.tag) /\ r.data.tag.to # Keep
      /\ r.seen = TRUE => r.merged = MergedWith(draft, r.data)
    BY <1>1, <1>2 DEF KnowsPost
<1>5. Written(draft, r.data).tag = r.data.tag.to
    BY <1>4 DEF Written, Related, Overlay
<1>6. IsPostWrite(seen) /\ (seen.seen = TRUE => seen.merged = MergedWith(draft, seen.data))
    BY <1>3, <1>4
<1>7. seen.data.tag \in Relation(Tags)
    BY <1>2, <1>3 DEF KnowsPost
<1>8. seen.seen = TRUE /\ seen.slug # None => seen.slug = Written(draft, seen.data).tag
    BY <1>3, <1>5
<1> HIDE DEF seen
<1>9. Judged(seen) # None => KnowsPost(Judged(seen), draft)
    BY <1>6, <1>7, <1>8, JudgedKnows
<1> QED
    BY <1>1, <1>9 DEF GuardsKnow

LEMMA WritePostKnows ==
    ASSUME GuardsKnow, NEW e \in Editors, WritePost(e)
    PROVE  GuardsKnow'
<1> SUFFICES ASSUME NEW x \in Editors, requests'[x] # None
             PROVE  KnowsPost(requests'[x], draft')
    BY DEF GuardsKnow, WritePost, Written, EmptyPost
<1>1. /\ part = "posts" /\ requests[x] # None
      /\ requests'[x] = [requests[x] EXCEPT !.seen = FALSE]
    BY DEF WritePost
<1>2. KnowsPost(requests[x], draft)
    BY <1>1 DEF GuardsKnow
<1> DEFINE r == requests[x]
<1> DEFINE q == requests'[x]
<1>3. /\ IsPostWrite(q) /\ q.kind = r.kind /\ q.data = r.data /\ q.phase = r.phase
      /\ q.merged = r.merged /\ q.slug = r.slug /\ q.seen = FALSE
    BY <1>1, <1>2 DEF KnowsPost, IsPostWrite
<1> HIDE DEF q
<1>4. KnowsPost(q, draft')
    BY <1>2, <1>3 DEF KnowsPost
<1> QED
    BY <1>4 DEF q

LEMMA WritePostComplete ==
    ASSUME PostsInv, NEW e \in Editors, WritePost(e)
    PROVE  PublishedComplete'
<1> DEFINE r == requests[e]
<1>1. CASE r.kind = "save"
    BY <1>1 DEF WritePost, PostsInv, PublishedComplete
<1>2. CASE r.kind # "save"
    <2>1. /\ published' = Written(draft, r.data)
          /\ basis' = [seen |-> r.seen, slug |-> r.slug, blind |-> Blind(r.data)]
          /\ r.phase = "write" /\ KnowsPost(r, draft)
        BY <1>2 DEF WritePost, PostsInv, GuardsKnow
    <2>2. basis'.seen = r.seen /\ basis'.slug = r.slug /\ basis'.blind = Blind(r.data)
        BY <2>1
    <2>3. ASSUME r.seen = TRUE
          PROVE  /\ ValidatePostPublishRequirements(MergedWith(draft, r.data), r.slug)
                 /\ r.slug # None => r.slug = published'.tag
        BY <1>2, <2>1, <2>3 DEF KnowsPost
    <2>4. /\ MergedWith(draft, r.data).tag = Overlay(draft.tag, r.data.tag)
          /\ MergedWith(draft, r.data).primary = Overlay(draft.primary, r.data.primary)
          /\ MergedWith(draft, r.data).start = published'.start
          /\ MergedWith(draft, r.data).end = published'.end
        <3> DEFINE m == MergedWith(draft, r.data)
        <3>1. m = [f \in {"tag", "primary", "channels", "start", "end"} |->
                      Overlay(draft[f], r.data[f])]
            BY DEF MergedWith, PostsInv, GuardsKnow, EmptyPost
        <3> HIDE DEF m, r
        <3>2. /\ m.tag = Overlay(draft.tag, r.data.tag)
              /\ m.primary = Overlay(draft.primary, r.data.primary)
              /\ m.start = Overlay(draft.start, r.data.start)
              /\ m.end = Overlay(draft.end, r.data.end)
            BY <3>1
        <3>3. /\ published'.start = Overlay(draft.start, r.data.start)
              /\ published'.end = Overlay(draft.end, r.data.end)
            BY <2>1 DEF Written
        <3> QED
            BY <3>2, <3>3 DEF m
    <2>5. ASSUME NEW f \in {"tag", "primary"}, f \notin basis'.blind, r.seen = TRUE
          PROVE  published'[f] # None
        <3>1. Overlay(draft[f], r.data[f]) # None
            BY <2>3, <2>4, <2>5 DEF ValidatePostPublishRequirements
        <3>2. published'[f] = Related(draft[f], r.data[f])
            BY <2>1, <2>5 DEF Written
        <3>3. Named(r.data[f]) => r.data[f].to \notin {None, Keep}
            BY <2>2, <2>5 DEF Blind
        <3> QED
            BY <3>1, <3>2, <3>3 DEF Related, Overlay, Named
    <2> QED
        BY <2>2, <2>3, <2>4, <2>5 DEF PublishedComplete, ValidatePostPublishRequirements
<1> QED
    BY <1>1, <1>2

LEMMA PostsNext == ASSUME PostsInv, [Next]_vars PROVE PostsInv'
<1>1. CASE EditPost
    <2> PICK e \in Editors :
            \/ \E kind \in {"save", "publish", "update"}, data \in Payloads \cup {NoData} :
                   Submit(e, kind, data)
            \/ \E ok \in BOOLEAN : ReadExisting(e, ok) \/ FindTag(e, ok)
            \/ WritePost(e) \/ WriteRefused(e)
        BY <1>1 DEF EditPost
    <2>1. CASE \E kind \in {"save", "publish", "update"}, data \in Payloads \cup {NoData} :
                  Submit(e, kind, data)
        <3>1. UNCHANGED <<published, basis>>
            BY <2>1 DEF Submit, postVars
        <3> QED
            BY <2>1, <3>1, SubmitKnows DEF PostsInv, PublishedComplete
    <2>2. CASE \E ok \in BOOLEAN : ReadExisting(e, ok) \/ FindTag(e, ok)
        <3>1. UNCHANGED <<published, basis>>
            BY <2>2 DEF ReadExisting, FindTag, postVars
        <3> QED
            BY <2>2, <3>1, ReadExistingKnows, FindTagKnows DEF PostsInv, PublishedComplete
    <2>3. CASE WritePost(e)
        BY <2>3, WritePostKnows, WritePostComplete DEF PostsInv
    <2>4. CASE WriteRefused(e)
        <3>1. UNCHANGED <<part, draft, published, basis>>
              /\ requests' = [requests EXCEPT ![e] = None]
            BY <2>4 DEF WriteRefused, postVars
        <3> QED
            BY <3>1 DEF PostsInv, GuardsKnow, PublishedComplete
    <2> QED
        BY <2>1, <2>2, <2>3, <2>4
<1>2. CASE EditLink \/ SyncRooms
    <2>1. part # "posts" /\ UNCHANGED <<part, draft, published, basis>>
        BY <1>2 DEF EditLink, SubmitLink, LookUpLink, WriteLink, SyncRooms, CatalogChanges,
           OpenRoom, SaveRoom, StartRun, PlanRoomSync, ApplyNext, FinishRun, StopRun, postVars
    <2>2. DOMAIN requests' = Editors
        BY <1>2 DEF EditLink, SubmitLink, LookUpLink, WriteLink, SyncRooms, CatalogChanges,
           OpenRoom, SaveRoom, StartRun, PlanRoomSync, ApplyNext, FinishRun, StopRun,
           PostsInv, GuardsKnow
    <2> QED
        BY <2>1, <2>2 DEF PostsInv, GuardsKnow, PublishedComplete
<1>3. CASE StartAndServe \/ UNCHANGED vars
    <2>1. UNCHANGED <<part, requests, draft, published, basis>>
        BY <1>3 DEF StartAndServe, BootStep, Restart, EditDoc, vars, postVars
    <2> QED
        BY <2>1 DEF PostsInv, GuardsKnow, PublishedComplete
<1> QED
    BY <1>1, <1>2, <1>3 DEF Next

(* A published post has a tag, a primary channel, dates in order and, as an*)
(* event, a start, wherever the guard that let it through had seen the post*)
(* that was there: another editor's write may come between the guard's     *)
(* read and its write, and is then known to have come.  The guard judges   *)
(* the payload laid over the post it read, not what the write makes of it: *)
(* the two agree on whether a field is there unless the payload has, for   *)
(* that field, a wrapper that names no document (editorialGuard,           *)
(* validatePostPublishRequirements).                                       *)
THEOREM PublishedCompleteHolds == Spec => []PublishedComplete
<1>1. Spec => []PostsInv
    BY PostsInit, PostsNext, PTL DEF Spec
<1>2. PostsInv => PublishedComplete
    BY DEF PostsInv
<1> QED
    BY <1>1, <1>2, PTL

(***************************************************************************)
(* The calendar guard.  A write that has passed it knows of every link to  *)
(* what it is going to link, or the link was made late, after the guard    *)
(* had looked.                                                             *)
(***************************************************************************)
IsLinkWrite(r) ==
    /\ DOMAIN r = {"side", "doc", "ref", "late", "phase"}
    /\ \/ r.side = "calendar" /\ r.doc \in Calendars
       \/ r.side = "channel" /\ r.ref \in Calendars \cup {None}
    /\ r.phase = "lookup" => r.ref # None
KnowsLinks(r, links) ==
    r.phase = "write" /\ r.ref # None =>
        IF r.side = "calendar"
        THEN \A k \in Calendars : links[k] = r.ref => k = r.doc \/ k \in r.late
        ELSE links[r.ref] # None => links[r.ref] = r.doc \/ r.ref \in r.late
LinksInv ==
    /\ DOMAIN requests = Editors
    /\ part = "links" => \A e \in Editors :
          requests[e] # None => IsLinkWrite(requests[e]) /\ KnowsLinks(requests[e], link)

LEMMA LinksInit == ASSUME Init PROVE LinksInv
BY DEF Init, LinksInv

LEMMA SubmitLinkKnows ==
    ASSUME LinksInv, NEW e \in Editors, NEW side, NEW doc, NEW ref, SubmitLink(e, side, doc, ref),
           \/ side = "calendar" /\ doc \in Calendars
           \/ side = "channel" /\ ref \in Calendars \cup {None}
    PROVE  LinksInv'
<1> DEFINE q == [side |-> side, doc |-> doc, ref |-> ref, late |-> {},
                 phase |-> IF ref = None THEN "write" ELSE "lookup"]
<1>1. requests' = [requests EXCEPT ![e] = q] /\ link' = link /\ part' = part
    BY DEF SubmitLink
<1>2. IsLinkWrite(q) /\ KnowsLinks(q, link)
    BY DEF IsLinkWrite, KnowsLinks
<1> HIDE DEF q
<1> QED
    BY <1>1, <1>2 DEF LinksInv

LEMMA LookUpLinkKnows ==
    ASSUME LinksInv, NEW e \in Editors, LookUpLink(e)
    PROVE  LinksInv'
<1> DEFINE r == requests[e]
           q == [r EXCEPT !.phase = "write"]
<1>1. /\ part = "links" /\ r # None /\ r.phase = "lookup" /\ link' = link /\ part' = part
      /\ requests' = [requests EXCEPT ![e] = IF Free(r.side, r.doc, r.ref) THEN q ELSE None]
    BY DEF LookUpLink
<1>2. IsLinkWrite(r)
    BY <1>1 DEF LinksInv
<1>3. /\ DOMAIN q = DOMAIN r /\ q.side = r.side /\ q.doc = r.doc /\ q.ref = r.ref
      /\ q.late = r.late /\ q.phase = "write"
    BY <1>2 DEF IsLinkWrite
<1> HIDE DEF q, r
<1>4. IsLinkWrite(q)
    BY <1>2, <1>3 DEF IsLinkWrite
<1>5. Free(r.side, r.doc, r.ref) => KnowsLinks(q, link)
    BY <1>2, <1>3 DEF IsLinkWrite, KnowsLinks, Free, LinkOf
<1> QED
    BY <1>1, <1>4, <1>5 DEF LinksInv

LEMMA WriteLinkKnows ==
    ASSUME LinksInv, NEW e \in Editors, WriteLink(e)
    PROVE  LinksInv'
<1> DEFINE made == {k \in Calendars : link'[k] # link[k] /\ link'[k] # None}
<1> SUFFICES ASSUME NEW x \in Editors, requests'[x] # None
             PROVE  IsLinkWrite(requests'[x]) /\ KnowsLinks(requests'[x], link')
    BY DEF LinksInv, WriteLink
<1> DEFINE r == requests[x]
           q == requests'[x]
<1>1. /\ part = "links" /\ r # None
      /\ q = IF r.phase = "write" THEN [r EXCEPT !.late = @ \cup made] ELSE r
    BY DEF WriteLink
<1>2. IsLinkWrite(r) /\ KnowsLinks(r, link)
    BY <1>1 DEF LinksInv
<1>3. CASE r.phase # "write"
    BY <1>1, <1>2, <1>3 DEF KnowsLinks
<1>4. CASE r.phase = "write"
    <2>1. /\ DOMAIN q = DOMAIN r /\ q.side = r.side /\ q.doc = r.doc /\ q.ref = r.ref
          /\ q.late = r.late \cup made /\ q.phase = "write"
        BY <1>1, <1>2, <1>4 DEF IsLinkWrite
    <2> HIDE DEF q, r
    <2>2. IsLinkWrite(q)
        BY <1>2, <2>1 DEF IsLinkWrite
    <2>3. KnowsLinks(q, link')
        BY <1>2, <1>4, <2>1 DEF IsLinkWrite, KnowsLinks
    <2> QED
        BY <2>2, <2>3 DEF q
<1> QED
    BY <1>3, <1>4

(* The only step that changes links is the write of a request that knows.  *)
LEMMA WriteLinkKeeps ==
    ASSUME LinksInv, NEW e \in Editors, WriteLink(e), NEW k \in Calendars,
           link[k] # None, link'[k] # link[k]
    PROVE  /\ requests[e] # None /\ requests'[e] = None
           /\ requests[e].doc \in {k, link[k]} \/ k \in requests[e].late
<1> DEFINE r == requests[e]
<1>1. /\ part = "links" /\ r # None /\ r.phase = "write" /\ requests'[e] = None
      /\ link' = Linked(r)
    BY DEF WriteLink
<1>2. IsLinkWrite(r) /\ KnowsLinks(r, link)
    BY <1>1 DEF LinksInv
<1>3. CASE r.side = "calendar"
    <2>1. k = r.doc \/ link[k] = r.ref
        BY <1>1, <1>3 DEF Linked
    <2> QED
        BY <1>1, <1>2, <1>3, <2>1 DEF KnowsLinks
<1>4. CASE r.side = "channel"
    <2>1. k = r.ref \/ link[k] = r.doc
        BY <1>1, <1>4 DEF Linked
    <2> QED
        BY <1>1, <1>2, <1>4, <2>1, CmsAssumption DEF KnowsLinks
<1> QED
    BY <1>2, <1>3, <1>4 DEF IsLinkWrite

LEMMA LinksNext == ASSUME LinksInv, [Next]_vars PROVE LinksInv'
<1>1. CASE EditLink
    BY <1>1, SubmitLinkKnows, LookUpLinkKnows, WriteLinkKnows DEF EditLink
<1>2. CASE EditPost \/ SyncRooms
    <2>1. part # "links" /\ UNCHANGED part
        BY <1>2 DEF EditPost, Submit, ReadExisting, FindTag, WritePost, WriteRefused, SyncRooms,
           CatalogChanges, OpenRoom, SaveRoom, StartRun, PlanRoomSync, ApplyNext, FinishRun,
           StopRun
    <2>2. DOMAIN requests' = Editors
        BY <1>2 DEF EditPost, Submit, ReadExisting, FindTag, WritePost, WriteRefused, SyncRooms,
           CatalogChanges, OpenRoom, SaveRoom, StartRun, PlanRoomSync, ApplyNext, FinishRun,
           StopRun, LinksInv
    <2> QED
        BY <2>1, <2>2 DEF LinksInv
<1>3. CASE StartAndServe \/ UNCHANGED vars
    BY <1>3 DEF StartAndServe, BootStep, Restart, EditDoc, vars, LinksInv
<1> QED
    BY <1>1, <1>2, <1>3 DEF Next

KeepsLinks ==
    \A k \in Calendars : link[k] # None /\ link'[k] # link[k] =>
        \E e \in Editors : /\ requests[e] # None /\ requests'[e] = None
                           /\ requests[e].doc \in {k, link[k]} \/ k \in requests[e].late

LEMMA LinksStep == ASSUME LinksInv, [Next]_vars PROVE KeepsLinks
<1> SUFFICES ASSUME NEW k \in Calendars, link[k] # None, link'[k] # link[k]
             PROVE  \E e \in Editors :
                        /\ requests[e] # None /\ requests'[e] = None
                        /\ requests[e].doc \in {k, link[k]} \/ k \in requests[e].late
    BY DEF KeepsLinks
<1>1. \E e \in Editors : WriteLink(e)
    BY DEF Next, EditPost, Submit, ReadExisting, FindTag, WritePost, WriteRefused, EditLink, SubmitLink,
       LookUpLink, SyncRooms, CatalogChanges, OpenRoom, SaveRoom, StartRun, PlanRoomSync,
       ApplyNext, FinishRun, StopRun, StartAndServe, BootStep, Restart, EditDoc, vars
<1> QED
    BY <1>1, WriteLinkKeeps

(* A link of a calendar to a channel is taken away only by a write to one  *)
(* of the two, unless it was made after the guard of the write had looked: *)
(* Strapi's one-to-one relation would otherwise move it without a word     *)
(* (calendarChannelGuard).                                                 *)
THEOREM LinkKeptHolds == Spec => LinkKept
<1>1. Spec => []LinksInv
    BY LinksInit, LinksNext, PTL DEF Spec
<1>2. LinksInv /\ [Next]_vars => [KeepsLinks]_vars
    BY LinksStep
<1> QED
    BY <1>1, <1>2, PTL DEF Spec, LinkKept, KeepsLinks

(***************************************************************************)
(* rooms:sync.  What is not on the plan of a run any more is as the run    *)
(* wants it, unless another run has written since it planned.              *)
(***************************************************************************)
Fits(row, label) ==
    IF label = None THEN row # None => ~row.active
    ELSE row # None /\ row.active /\ row.label = label
Wish == [Rooms -> Labels \cup {None}]
PlanRight(plan, wanted, table) ==
    /\ DOMAIN plan \subseteq Rooms
    /\ \A k \in DOMAIN plan :
          \/ plan[k] = "create" /\ wanted[k] # None
          \/ plan[k] = "update" /\ wanted[k] # None /\ table[k] # None
          \/ plan[k] = "deactivate" /\ wanted[k] = None /\ table[k] # None
Reached(j, table) == \A k \in Rooms \ DOMAIN j.plan : Fits(table[k], j.wanted[k])
JobRight(j, table) ==
    /\ DOMAIN j = {"phase", "dry", "wanted", "plan", "alone"}
    /\ j.wanted \in Wish /\ j.alone \in BOOLEAN
    /\ j.phase = "apply" => PlanRight(j.plan, j.wanted, table) /\ (j.alone => Reached(j, table))
JobsRight ==
    /\ DOMAIN jobs = Runs
    /\ \A r \in Runs : jobs[r] # None => JobRight(jobs[r], rows)
FormsRight ==
    /\ DOMAIN requests = Editors
    /\ part = "rooms" => \A e \in Editors :
          requests[e] # None => /\ requests[e].key \in Rooms /\ rows[requests[e].key] # None
                                /\ requests[e].form \in Row
RoomsTyped == catalogue \in Wish /\ rows \in [Rooms -> Row \cup {None}]
CatalogueReached == synced # None => \A k \in Rooms : Fits(rows[k], synced[k])
RoomsInv == RoomsTyped /\ JobsRight /\ FormsRight /\ CatalogueReached

LEMMA RoomsInit == ASSUME Init PROVE RoomsInv
BY DEF Init, RoomsInv, RoomsTyped, JobsRight, FormsRight, CatalogueReached, Wish

(* Rooms are never deleted, so that a plan stays feasible; what fits and is*)
(* not touched keeps fitting.                                              *)
LEMMA JobRightKept ==
    ASSUME NEW j, NEW table, NEW new, JobRight(j, table),
           \A k \in Rooms : table[k] # None => new[k] # None,
           j.alone => \A k \in Rooms : \A label : Fits(table[k], label) => Fits(new[k], label)
    PROVE  JobRight(j, new)
<1>1. ASSUME j.phase = "apply" PROVE PlanRight(j.plan, j.wanted, new)
    BY <1>1 DEF JobRight, PlanRight
<1>2. ASSUME j.phase = "apply", j.alone PROVE Reached(j, new)
    BY <1>2 DEF JobRight, Reached
<1> QED
    BY <1>1, <1>2 DEF JobRight

(* An editor saves a form that may be older than the last run.             *)
LEMMA SaveRoomRight ==
    ASSUME RoomsInv, NEW e \in Editors, NEW text \in Editors, SaveRoom(e, text)
    PROVE  RoomsInv'
<1> DEFINE k == requests[e].key
           data == [requests[e].form EXCEPT !.text = text]
           row == StripCatalogManagedFields(rows[k], data)
<1>1. /\ part = "rooms" /\ part' = part /\ requests[e] # None
      /\ rows' = [rows EXCEPT ![k] = row] /\ requests' = [requests EXCEPT ![e] = None]
      /\ UNCHANGED <<catalogue, jobs, synced>>
    BY DEF SaveRoom
<1>2. k \in Rooms /\ rows[k] # None /\ rows[k] \in Row
    BY <1>1 DEF RoomsInv, FormsRight, RoomsTyped
<1>3. data.text = text
    BY <1>1 DEF RoomsInv, FormsRight, Row
<1>4. row = [rows[k] EXCEPT !.text = text]
    BY <1>3 DEF StripCatalogManagedFields
<1>5. row \in Row /\ row # None /\ row.active = rows[k].active /\ row.label = rows[k].label
    <2>1. row \in Row /\ row.active = rows[k].active /\ row.label = rows[k].label
        BY <1>2, <1>4 DEF Row
    <2> QED
        BY <2>1, CmsAssumption
<1> HIDE DEF row, k
<1>6. rows' \in [Rooms -> Row \cup {None}]
    BY <1>1, <1>5 DEF RoomsInv, RoomsTyped
<1>7. \A l \in Rooms : /\ rows[l] # None => rows'[l] # None
                       /\ \A label : Fits(rows[l], label) => Fits(rows'[l], label)
    BY <1>1, <1>2, <1>5 DEF RoomsInv, RoomsTyped, Fits
<1>8. JobsRight'
    BY <1>1, <1>7, JobRightKept DEF RoomsInv, JobsRight
<1>9. FormsRight'
    BY <1>1, <1>7 DEF RoomsInv, FormsRight
<1> QED
    BY <1>1, <1>6, <1>7, <1>8, <1>9 DEF RoomsInv, RoomsTyped, CatalogueReached

LEMMA PlanIsRight ==
    ASSUME RoomsInv, NEW wanted \in Wish,
           NEW plan, plan = [k \in Changes(wanted) |-> PlanEntry(k, wanted)]
    PROVE  /\ PlanRight(plan, wanted, rows)
           /\ \A k \in Rooms \ DOMAIN plan : Fits(rows[k], wanted[k])
<1>1. DOMAIN plan = Changes(wanted) /\ DOMAIN plan \subseteq Rooms
    BY DEF Changes
<1>2. ASSUME NEW k \in DOMAIN plan
      PROVE  \/ plan[k] = "create" /\ wanted[k] # None
             \/ plan[k] = "update" /\ wanted[k] # None /\ rows[k] # None
             \/ plan[k] = "deactivate" /\ wanted[k] = None /\ rows[k] # None
    BY <1>1 DEF Changes, PlanEntry
<1>3. ASSUME NEW k \in Rooms \ DOMAIN plan PROVE Fits(rows[k], wanted[k])
    <2>1. PlanEntry(k, wanted) = "unchanged"
        BY <1>1 DEF Changes
    <2> QED
        BY <2>1 DEF PlanEntry, Fits
<1> QED
    BY <1>1, <1>2, <1>3 DEF PlanRight

LEMMA StartRunRight ==
    ASSUME RoomsInv, NEW r \in Runs, NEW dry, StartRun(r, dry)
    PROVE  RoomsInv'
<1> DEFINE q == [phase |-> "read", dry |-> dry, wanted |-> catalogue,
                 plan |-> << >>, alone |-> TRUE]
<1>1. /\ jobs' = [jobs EXCEPT ![r] = q]
      /\ UNCHANGED <<part, requests, catalogue, rows, synced>>
    BY DEF StartRun
<1>2. JobRight(q, rows)
    BY DEF JobRight, RoomsInv, RoomsTyped
<1> HIDE DEF q
<1>3. JobsRight'
    BY <1>1, <1>2 DEF RoomsInv, JobsRight
<1> QED
    BY <1>1, <1>3 DEF RoomsInv, RoomsTyped, FormsRight, CatalogueReached

LEMMA PlanRoomSyncRight ==
    ASSUME RoomsInv, NEW r \in Runs, PlanRoomSync(r)
    PROVE  RoomsInv'
<1> DEFINE job == jobs[r]
           plan == [k \in Changes(job.wanted) |-> PlanEntry(k, job.wanted)]
           q == [job EXCEPT !.phase = "apply", !.alone = TRUE, !.plan = plan]
<1>1. /\ job # None /\ jobs' = [jobs EXCEPT ![r] = IF job.dry THEN None ELSE q]
      /\ UNCHANGED <<part, requests, catalogue, rows, synced>>
    BY DEF PlanRoomSync
<1>2. JobRight(job, rows)
    BY <1>1 DEF RoomsInv, JobsRight
<1>3. /\ PlanRight(plan, job.wanted, rows)
      /\ \A k \in Rooms \ DOMAIN plan : Fits(rows[k], job.wanted[k])
    BY <1>2, PlanIsRight DEF JobRight
<1> HIDE DEF plan, job
<1>4. /\ DOMAIN q = DOMAIN job /\ q.wanted = job.wanted /\ q.plan = plan
      /\ q.alone = TRUE /\ q.phase = "apply"
    BY <1>2 DEF JobRight
<1> HIDE DEF q
<1>5. JobRight(q, rows)
    BY <1>2, <1>3, <1>4 DEF JobRight, Reached
<1>6. JobsRight'
    BY <1>1, <1>5 DEF RoomsInv, JobsRight
<1> QED
    BY <1>1, <1>6 DEF RoomsInv, RoomsTyped, FormsRight, CatalogueReached

LEMMA LeastOfNaturals ==
    ASSUME NEW S \in SUBSET Nat, S # {}
    PROVE  \E n \in S : \A m \in S : n <= m
<1> DEFINE R == OpToRel(<, Nat)
<1>1. \A x, y \in Nat : <<x, y>> \in R <=> x < y
    BY DEF OpToRel
<1>2. IsWellFoundedOn(R, Nat)
    BY NatLessThanWellFounded
<1> HIDE DEF R
<1>3. PICK n \in S : \A m \in S : ~(<<m, n>> \in R)
    BY <1>2, WFMin
<1>4. ASSUME NEW m \in S PROVE n <= m
    <2>1. n \in Nat /\ m \in Nat
        OBVIOUS
    <2>2. ~(m < n)
        BY <1>1, <1>3, <2>1
    <2> QED
        BY <2>1, <2>2
<1> QED
    BY <1>4

(* What a run writes is what it wants.                                     *)
LEMMA AppliedFits ==
    ASSUME NEW kind, NEW label, NEW row \in Row \cup {None},
           \/ kind = "create" /\ label \in Labels /\ label # None
           \/ kind = "update" /\ label \in Labels /\ label # None /\ row # None
           \/ kind = "deactivate" /\ label = None /\ row # None
    PROVE  LET new == Applied(kind, label, row) IN new \in Row /\ new # None /\ Fits(new, label)
<1> DEFINE new == Applied(kind, label, row)
<1>1. CASE kind = "create"
    <2>1. new = [label |-> label, active |-> TRUE, text |-> None]
        BY <1>1 DEF Applied
    <2>2. label \in Labels /\ label # None
        BY <1>1
    <2> HIDE DEF new
    <2>3. new \in Row /\ new.label = label /\ new.active
        BY <2>1, <2>2 DEF Row
    <2> QED
        BY <2>2, <2>3, CmsAssumption DEF Fits, new
<1>2. CASE kind = "update"
    <2>1. new = [row EXCEPT !.label = label, !.active = TRUE]
        BY <1>2 DEF Applied
    <2>2. row \in Row /\ [row EXCEPT !.label = label] \in Row
        BY <1>2 DEF Row
    <2>3. new = [[row EXCEPT !.label = label] EXCEPT !.active = TRUE]
        BY <2>1
    <2>4. new \in Row /\ new.label = label /\ new.active
        BY <2>2, <2>3 DEF Row
    <2> QED
        BY <1>2, <2>4, CmsAssumption DEF Fits
<1>3. CASE kind = "deactivate"
    <2>1. new = [row EXCEPT !.active = FALSE]
        BY <1>3 DEF Applied
    <2>2. new \in Row /\ ~new.active
        BY <1>3, <2>1 DEF Row
    <2> QED
        BY <1>3, <2>2, CmsAssumption DEF Fits
<1> QED
    BY <1>1, <1>2, <1>3

LEMMA ApplyNextRight ==
    ASSUME RoomsInv, NEW r \in Runs, ApplyNext(r)
    PROVE  RoomsInv'
<1> DEFINE job == jobs[r]
           keys == DOMAIN job.plan
           k == CHOOSE key \in keys : \A other \in keys : key <= other
           fails == job.plan[k] = "create" /\ rows[k] # None
           new == Applied(job.plan[k], job.wanted[k], rows[k])
           rest == [job EXCEPT !.plan = [key \in keys \ {k} |-> job.plan[key]]]
<1>1. /\ job # None /\ job.phase = "apply" /\ keys # {}
      /\ UNCHANGED <<part, requests, catalogue>>
      /\ rows' = IF fails THEN rows ELSE [rows EXCEPT ![k] = new]
      /\ synced' = IF fails THEN synced ELSE None
      /\ jobs' = [x \in Runs |->
             IF x = r THEN IF fails THEN None ELSE rest
             ELSE IF jobs[x] # None THEN [jobs[x] EXCEPT !.alone = fails /\ @] ELSE None]
    BY DEF ApplyNext
<1>2. JobRight(job, rows)
    BY <1>1 DEF RoomsInv, JobsRight
<1>3. PlanRight(job.plan, job.wanted, rows) /\ keys \subseteq Rooms
    BY <1>1, <1>2 DEF JobRight, PlanRight
<1>4. k \in keys /\ k \in Rooms
    <2>1. keys \in SUBSET Nat
        BY <1>3, CmsAssumption
    <2>2. \E key \in keys : \A other \in keys : key <= other
        BY <1>1, <2>1, LeastOfNaturals
    <2> QED
        BY <1>3, <2>2
<1> HIDE DEF k
<1>5. new \in Row /\ new # None /\ Fits(new, job.wanted[k])
    <2>1. rows[k] \in Row \cup {None} /\ job.wanted[k] \in Labels \cup {None}
        BY <1>2, <1>4 DEF RoomsInv, RoomsTyped, JobRight, Wish
    <2>2. \/ job.plan[k] = "create" /\ job.wanted[k] # None
          \/ job.plan[k] = "update" /\ job.wanted[k] # None /\ rows[k] # None
          \/ job.plan[k] = "deactivate" /\ job.wanted[k] = None /\ rows[k] # None
        BY <1>3, <1>4 DEF PlanRight
    <2> HIDE DEF job
    <2> QED
        BY <2>1, <2>2, AppliedFits
<1> HIDE DEF new
<1>6. rows' \in [Rooms -> Row \cup {None}]
    BY <1>1, <1>5 DEF RoomsInv, RoomsTyped
<1>7. \A l \in Rooms : rows[l] # None => rows'[l] # None
    BY <1>1, <1>5 DEF RoomsInv, RoomsTyped
<1>8. FormsRight'
    BY <1>1, <1>7 DEF RoomsInv, FormsRight
<1>9. CatalogueReached'
    BY <1>1 DEF RoomsInv, CatalogueReached
<1>10. ASSUME NEW x \in Runs, x # r, jobs'[x] # None PROVE JobRight(jobs'[x], rows')
    <2> DEFINE q == jobs'[x]
    <2>1. jobs[x] # None /\ q = [jobs[x] EXCEPT !.alone = fails /\ @]
        BY <1>1, <1>10
    <2>2. JobRight(jobs[x], rows)
        BY <2>1 DEF RoomsInv, JobsRight
    <2>3. /\ DOMAIN q = DOMAIN jobs[x] /\ q.wanted = jobs[x].wanted /\ q.plan = jobs[x].plan
          /\ q.phase = jobs[x].phase /\ q.alone = (fails /\ jobs[x].alone)
        BY <2>1, <2>2 DEF JobRight
    <2> HIDE DEF q
    <2>4. JobRight(q, rows)
        BY <2>2, <2>3 DEF JobRight, Reached
    <2>5. q.alone => rows' = rows
        BY <1>1, <2>3
    <2>6. JobRight(q, rows')
        BY <1>7, <2>4, <2>5, JobRightKept
    <2> QED
        BY <2>6 DEF q
<1>11. ASSUME ~fails PROVE JobRight(rest, rows')
    <2>1. /\ DOMAIN rest = DOMAIN job /\ rest.wanted = job.wanted /\ rest.alone = job.alone
          /\ rest.phase = "apply" /\ rest.plan = [key \in keys \ {k} |-> job.plan[key]]
        BY <1>1, <1>2 DEF JobRight
    <2>2. rows' = [rows EXCEPT ![k] = new]
        BY <1>1, <1>11
    <2> HIDE DEF rest, job, fails
    <2>3. PlanRight(rest.plan, rest.wanted, rows')
        BY <1>3, <1>7, <2>1 DEF PlanRight
    <2>4. rest.alone => Reached(rest, rows')
        <3> SUFFICES ASSUME job.alone, NEW l \in Rooms \ (keys \ {k})
                     PROVE  Fits(rows'[l], job.wanted[l])
            BY <2>1 DEF Reached
        <3>1. CASE l = k
            BY <1>5, <2>2, <3>1 DEF RoomsInv, RoomsTyped
        <3>2. CASE l # k
            <4>1. l \in Rooms \ keys /\ rows'[l] = rows[l]
                BY <2>2, <3>2 DEF RoomsInv, RoomsTyped
            <4>2. Reached(job, rows)
                BY <1>1, <1>2 DEF JobRight
            <4> QED
                BY <4>1, <4>2 DEF Reached
        <3> QED
            BY <3>1, <3>2
    <2> QED
        BY <1>2, <2>1, <2>3, <2>4 DEF JobRight
<1>12. JobsRight'
    <2> SUFFICES ASSUME NEW x \in Runs, jobs'[x] # None PROVE JobRight(jobs'[x], rows')
        BY <1>1 DEF JobsRight
    <2>1. CASE x = r
        <3>1. ~fails /\ jobs'[x] = rest
            BY <1>1, <2>1
        <3> QED
            BY <3>1, <1>11
    <2>2. CASE x # r
        BY <1>10, <2>2
    <2> QED
        BY <2>1, <2>2
<1> QED
    BY <1>1, <1>6, <1>8, <1>9, <1>12 DEF RoomsInv, RoomsTyped

(* A run that ends alone has reached what it wanted.                       *)
LEMMA FinishRunRight ==
    ASSUME RoomsInv, NEW r \in Runs, FinishRun(r)
    PROVE  RoomsInv'
<1> DEFINE job == jobs[r]
<1>1. /\ job # None /\ job.phase = "apply" /\ DOMAIN job.plan = {}
      /\ synced' = IF job.alone THEN job.wanted ELSE synced
      /\ jobs' = [jobs EXCEPT ![r] = None]
      /\ UNCHANGED <<part, requests, catalogue, rows>>
    BY DEF FinishRun
<1>2. JobRight(job, rows)
    BY <1>1 DEF RoomsInv, JobsRight
<1>3. job.alone => \A k \in Rooms : Fits(rows[k], job.wanted[k])
    BY <1>1, <1>2 DEF JobRight, Reached
<1> HIDE DEF job
<1>4. CatalogueReached'
    BY <1>1, <1>3 DEF RoomsInv, CatalogueReached
<1>5. JobsRight'
    BY <1>1 DEF RoomsInv, JobsRight
<1> QED
    BY <1>1, <1>4, <1>5 DEF RoomsInv, RoomsTyped, FormsRight

LEMMA RoomsNext == ASSUME RoomsInv, [Next]_vars PROVE RoomsInv'
<1>1. CASE SyncRooms
    <2>1. CASE \E new \in [Rooms -> Labels \cup {None}] : CatalogChanges(new)
        BY <2>1 DEF CatalogChanges, RoomsInv, RoomsTyped, JobsRight, FormsRight,
           CatalogueReached, Wish
    <2>2. CASE \E e \in Editors, k \in Rooms : OpenRoom(e, k)
        <3> PICK e \in Editors, k \in Rooms : OpenRoom(e, k)
            BY <2>2
        <3> DEFINE q == [key |-> k, form |-> rows[k]]
        <3>1. /\ rows[k] # None /\ requests' = [requests EXCEPT ![e] = q]
              /\ UNCHANGED <<part, catalogue, rows, jobs, synced>>
            BY DEF OpenRoom, roomVars
        <3>2. q.key = k /\ q.form \in Row
            BY <3>1 DEF RoomsInv, RoomsTyped
        <3> HIDE DEF q
        <3>3. FormsRight'
            BY <3>1, <3>2 DEF RoomsInv, FormsRight
        <3> QED
            BY <3>1, <3>3 DEF RoomsInv, RoomsTyped, JobsRight, CatalogueReached
    <2>3. CASE \E e \in Editors : SaveRoom(e, e)
        BY <2>3, SaveRoomRight
    <2>4. CASE \E r \in Runs : \/ \E dry \in BOOLEAN : StartRun(r, dry)
                               \/ PlanRoomSync(r) \/ ApplyNext(r) \/ FinishRun(r)
        BY <2>4, StartRunRight, PlanRoomSyncRight, ApplyNextRight, FinishRunRight
    <2>5. CASE \E r \in Runs : StopRun(r)
        BY <2>5 DEF StopRun, RoomsInv, RoomsTyped, JobsRight, FormsRight, CatalogueReached
    <2> QED
        BY <1>1, <2>1, <2>2, <2>3, <2>4, <2>5 DEF SyncRooms
<1>2. CASE EditPost \/ EditLink
    <2>1. part # "rooms" /\ UNCHANGED <<part, catalogue, rows, jobs, synced>>
        BY <1>2 DEF EditPost, Submit, ReadExisting, FindTag, WritePost, WriteRefused, EditLink, SubmitLink,
           LookUpLink, WriteLink, roomVars
    <2>2. DOMAIN requests' = Editors
        BY <1>2 DEF EditPost, Submit, ReadExisting, FindTag, WritePost, WriteRefused, EditLink, SubmitLink,
           LookUpLink, WriteLink, RoomsInv, FormsRight
    <2> QED
        BY <2>1, <2>2 DEF RoomsInv, RoomsTyped, JobsRight, FormsRight, CatalogueReached
<1>3. CASE StartAndServe \/ UNCHANGED vars
    <2>1. UNCHANGED <<part, requests, catalogue, rows, jobs, synced>>
        BY <1>3 DEF StartAndServe, BootStep, Restart, EditDoc, vars, roomVars
    <2> QED
        BY <2>1 DEF RoomsInv, RoomsTyped, JobsRight, FormsRight, CatalogueReached
<1> QED
    BY <1>1, <1>2, <1>3 DEF Next

(* After a run of rooms:sync that no other run wrote beside, the CMS shows *)
(* the catalogue the run was given - also when editors save forms that they*)
(* opened before it, when earlier runs were stopped half way and while     *)
(* later ones plan (planRoomSync, applyPlan, roomGuard).                   *)
THEOREM CatalogueHoldsAlways == Spec => []CatalogueHolds
<1>1. Spec => []RoomsInv
    BY RoomsInit, RoomsNext, PTL DEF Spec
<1>2. RoomsInv => CatalogueHolds
    BY DEF RoomsInv, CatalogueReached, CatalogueHolds, Fits
<1> QED
    BY <1>1, <1>2, PTL

(***************************************************************************)
(* The start of Strapi.  Its steps, as far as they depend on each other:   *)
(* German is a locale before it becomes the default, and a document is     *)
(* written in German before it is in English.                              *)
(***************************************************************************)
Types == {RoomTypes[n] : n \in DOMAIN RoomTypes}
Upsert(d, locale) == [do |-> "upsert", doc |-> d, locale |-> locale]
GermanLocale == [do |-> "locale", code |-> "de"]
Steps ==
    [do : {"layout"}, type : Types] \cup [do : {"locale"}, code : {"de", "en"}]
        \cup {[do |-> "default"]} \cup [do : {"upsert"}, doc : Docs, locale : {"de", "en"}]
Ordered(q) ==
    \A n \in 1 .. Len(q) :
        /\ q[n] = [do |-> "default"] => \E m \in 1 .. n - 1 : q[m] = GermanLocale
        /\ \A d \in Docs : q[n] = Upsert(d, "en") => \E m \in 1 .. n - 1 : q[m] = Upsert(d, "de")
Holding(q, s) == \E n \in 1 .. Len(q) : q[n] = s

LEMMA ConcatOrdered ==
    ASSUME NEW p \in Seq(Steps), NEW q \in Seq(Steps), Ordered(p), Ordered(q)
    PROVE  /\ p \o q \in Seq(Steps)
           /\ Ordered(p \o q)
           /\ \A s : Holding(p, s) \/ Holding(q, s) => Holding(p \o q, s)
<1> DEFINE r == p \o q
<1>1. /\ r \in Seq(Steps) /\ Len(r) = Len(p) + Len(q) /\ Len(p) \in Nat /\ Len(q) \in Nat
      /\ \A n \in 1 .. Len(p) : r[n] = p[n]
      /\ \A n \in 1 .. Len(q) : r[Len(p) + n] = q[n]
    OBVIOUS
<1> HIDE DEF r
<1>2. ASSUME NEW n \in 1 .. Len(r)
      PROVE  \/ /\ n \in 1 .. Len(p) /\ r[n] = p[n]
                /\ \A m \in 1 .. n - 1 : r[m] = p[m]
             \/ \E i \in 1 .. Len(q) :
                  /\ r[n] = q[i] /\ n = Len(p) + i
                  /\ \A m \in 1 .. i - 1 : Len(p) + m \in 1 .. n - 1 /\ r[Len(p) + m] = q[m]
    <2>1. CASE n <= Len(p)
        BY <1>1, <2>1
    <2>2. CASE n > Len(p)
        <3> DEFINE i == n - Len(p)
        <3>1. i \in 1 .. Len(q) /\ n = Len(p) + i
            BY <1>1, <2>2
        <3>2. \A m \in 1 .. i - 1 : Len(p) + m \in 1 .. n - 1 /\ r[Len(p) + m] = q[m]
            BY <1>1, <3>1
        <3> QED
            BY <1>1, <3>1, <3>2
    <2> QED
        BY <1>1, <2>1, <2>2
<1>3. ASSUME NEW n \in 1 .. Len(r), r[n] = [do |-> "default"]
      PROVE  \E m \in 1 .. n - 1 : r[m] = GermanLocale
    BY <1>2, <1>3 DEF Ordered
<1>4. ASSUME NEW n \in 1 .. Len(r), NEW d \in Docs, r[n] = Upsert(d, "en")
      PROVE  \E m \in 1 .. n - 1 : r[m] = Upsert(d, "de")
    <2> DEFINE en == Upsert(d, "en")
               de == Upsert(d, "de")
    <2>1. /\ \A i \in 1 .. Len(p) : p[i] = en => \E m \in 1 .. i - 1 : p[m] = de
          /\ \A i \in 1 .. Len(q) : q[i] = en => \E m \in 1 .. i - 1 : q[m] = de
        BY DEF Ordered
    <2>2. r[n] = en
        BY <1>4
    <2> HIDE DEF en, de
    <2>3. \E m \in 1 .. n - 1 : r[m] = de
        <3>1. CASE n \in 1 .. Len(p) /\ r[n] = p[n] /\ \A m \in 1 .. n - 1 : r[m] = p[m]
            BY <2>1, <2>2, <3>1
        <3>2. ASSUME NEW i \in 1 .. Len(q), r[n] = q[i], n = Len(p) + i,
                     \A m \in 1 .. i - 1 : Len(p) + m \in 1 .. n - 1 /\ r[Len(p) + m] = q[m]
              PROVE  \E m \in 1 .. n - 1 : r[m] = de
            <4>1. PICK m \in 1 .. i - 1 : q[m] = de
                BY <2>1, <2>2, <3>2
            <4>2. Len(p) + m \in 1 .. n - 1 /\ r[Len(p) + m] = de
                BY <3>2, <4>1
            <4> QED
                BY <4>2
        <3> QED
            BY <1>2, <3>1, <3>2
    <2> QED
        BY <2>3 DEF de
<1>5. \A s : Holding(p, s) \/ Holding(q, s) => Holding(r, s)
    <2>1. \A n \in 1 .. Len(p) : n \in 1 .. Len(r)
        BY <1>1
    <2>2. \A n \in 1 .. Len(q) : Len(p) + n \in 1 .. Len(r)
        BY <1>1
    <2> QED
        BY <1>1, <2>1, <2>2 DEF Holding
<1> QED
    BY <1>1, <1>3, <1>4, <1>5 DEF Ordered, r

(* The seed of some documents names each of them in both languages.        *)
LEMMA SeedingOrdered ==
    ASSUME NEW S, IsFiniteSet(S), S \subseteq Docs
    PROVE  /\ Seeding(S) \in Seq(Steps) /\ Ordered(Seeding(S))
           /\ \A d \in S : Holding(Seeding(S), Upsert(d, "de")) /\ Holding(Seeding(S), Upsert(d, "en"))
<1> DEFINE c == Cardinality(S)
           order == CHOOSE s \in [1 .. c -> S] : \A i, j \in DOMAIN s : s[i] = s[j] => i = j
           q == Seeding(S)
<1>1. c \in Nat /\ ExistsBijection(1 .. c, S)
    BY FS_CardinalityType
<1>2. \E s \in [1 .. c -> S] : \A i, j \in DOMAIN s : s[i] = s[j] => i = j
    BY <1>1 DEF ExistsBijection, Bijection, Injection, IsInjective
<1>3. order \in [1 .. c -> S] /\ \A i, j \in DOMAIN order : order[i] = order[j] => i = j
    BY <1>2
<1>4. q = [n \in 1 .. 2 * c |-> [do |-> "upsert", doc |-> order[(n + 1) \div 2],
                                  locale |-> IF n % 2 = 1 THEN "de" ELSE "en"]]
    BY DEF Seeding
<1> HIDE DEF order, q, c
<1>5. \A d \in S : \E i \in 1 .. c : order[i] = d
    <2>1. order \in Injection(1 .. c, S)
        BY <1>3 DEF Injection, IsInjective
    <2>2. Cardinality(1 .. c) = Cardinality(S)
        BY <1>1, FS_Interval DEF c
    <2>3. order \in Surjection(1 .. c, S)
        BY <2>1, <2>2, FS_Injection
    <2> QED
        BY <2>3 DEF Surjection
<1>6. \A i \in 1 .. c : /\ 2 * i \in 1 .. 2 * c /\ 2 * i - 1 \in 1 .. 2 * c
                        /\ q[2 * i - 1] = Upsert(order[i], "de")
                        /\ q[2 * i] = Upsert(order[i], "en")
    <2> TAKE i \in 1 .. c
    <2>1. /\ 2 * i \in 1 .. 2 * c /\ 2 * i - 1 \in 1 .. 2 * c
          /\ (2 * i) % 2 = 0 /\ (2 * i - 1) % 2 = 1
          /\ (2 * i + 1) \div 2 = i /\ (2 * i - 1 + 1) \div 2 = i
        BY <1>1
    <2> QED
        BY <1>4, <2>1 DEF Upsert
<1>7. \A n \in 1 .. 2 * c : \E i \in 1 .. c : n = 2 * i - 1 \/ n = 2 * i
    <2> TAKE n \in 1 .. 2 * c
    <2> DEFINE i == (n + 1) \div 2
    <2>1. i \in 1 .. c /\ (n = 2 * i - 1 \/ n = 2 * i)
        BY <1>1
    <2> QED
        BY <2>1
<1>8. q \in Seq(Steps) /\ Len(q) = 2 * c
    <2>1. \A n \in 1 .. 2 * c : q[n] \in Steps
        <3> TAKE n \in 1 .. 2 * c
        <3>1. PICK i \in 1 .. c : n = 2 * i - 1 \/ n = 2 * i
            BY <1>7
        <3>2. order[i] \in Docs
            BY <1>3
        <3>3. Upsert(order[i], "de") \in Steps /\ Upsert(order[i], "en") \in Steps
            BY <3>2 DEF Steps, Upsert
        <3> QED
            BY <1>6, <3>1, <3>3
    <2>2. 2 * c \in Nat /\ DOMAIN q = 1 .. 2 * c
        BY <1>1, <1>4
    <2>3. q \in [1 .. 2 * c -> Steps]
        BY <1>4, <2>1, <2>2
    <2> QED
        BY <2>2, <2>3
<1>9. Ordered(q)
    <2> SUFFICES ASSUME NEW n \in 1 .. 2 * c
                 PROVE  /\ q[n] # [do |-> "default"]
                        /\ \A d \in Docs : q[n] = Upsert(d, "en") =>
                              \E m \in 1 .. n - 1 : q[m] = Upsert(d, "de")
        BY <1>8 DEF Ordered
    <2>1. PICK i \in 1 .. c : n = 2 * i - 1 \/ n = 2 * i
        BY <1>7
    <2>2. \/ n = 2 * i - 1 /\ q[n] = Upsert(order[i], "de")
          \/ n = 2 * i /\ q[n] = Upsert(order[i], "en")
        BY <1>6, <2>1
    <2>4. \A x, y, l, k : Upsert(x, l) = Upsert(y, k) => x = y /\ l = k
        <3> TAKE x, y, l, k
        <3>1. /\ Upsert(x, l).doc = x /\ Upsert(x, l).locale = l
              /\ Upsert(y, k).doc = y /\ Upsert(y, k).locale = k
            BY DEF Upsert
        <3> QED
            BY <3>1
    <2>5. \A x, l : Upsert(x, l) # [do |-> "default"]
        <3> TAKE x, l
        <3>1. Upsert(x, l).do = "upsert" /\ [do |-> "default"].do = "default"
            BY DEF Upsert
        <3> QED
            BY <3>1
    <2>3. ASSUME NEW d \in Docs, q[n] = Upsert(d, "en")
          PROVE  \E m \in 1 .. n - 1 : q[m] = Upsert(d, "de")
        <3>1. d = order[i] /\ n = 2 * i
            BY <2>2, <2>3, <2>4
        <3>2. 2 * i - 1 \in 1 .. n - 1
            BY <1>1, <3>1
        <3> QED
            BY <1>6, <3>1, <3>2
    <2> QED
        BY <2>2, <2>3, <2>5
<1> QED
    BY <1>5, <1>6, <1>8, <1>9 DEF Holding, q

(* Every start brings everything into shape, in an order that works.       *)
Complete(q) ==
    /\ \A t \in Types : Holding(q, [do |-> "layout", type |-> t])
    /\ Holding(q, GermanLocale) /\ Holding(q, [do |-> "locale", code |-> "en"])
    /\ Holding(q, [do |-> "default"])
    /\ \A d \in Docs : Holding(q, Upsert(d, "de")) /\ Holding(q, Upsert(d, "en"))
LEMMA BootstrapOrdered == Bootstrap \in Seq(Steps) /\ Ordered(Bootstrap) /\ Complete(Bootstrap)
<1> DEFINE A == [n \in 1 .. 3 |-> [do |-> "layout", type |-> RoomTypes[n]]]
           B == <<GermanLocale, [do |-> "locale", code |-> "en"], [do |-> "default"]>>
           C == EnsureTags
           D == IF Demo = {} THEN << >> ELSE C \o Seeding(Demo)
<1>1. A \in Seq(Steps) /\ Ordered(A) /\ \A t \in Types : Holding(A, [do |-> "layout", type |-> t])
    <2>1. DOMAIN RoomTypes = 1 .. 3
        BY DEF RoomTypes
    <2>2. \A n \in 1 .. 3 : RoomTypes[n] \in Types
        BY <2>1 DEF Types
    <2>3. \A t \in Types : [do |-> "layout", type |-> t] \in Steps
        BY DEF Steps
    <2>4. A \in [1 .. 3 -> Steps]
        BY <2>2, <2>3
    <2>5. A \in Seq(Steps) /\ Len(A) = 3
        BY <2>4
    <2>6. \A n \in 1 .. 3 : A[n].do = "layout"
        OBVIOUS
    <2>7. \A d \in Docs : Upsert(d, "en").do = "upsert"
        BY DEF Upsert
    <2>8. [do |-> "default"].do = "default"
        OBVIOUS
    <2>9. \A t \in Types : \E n \in 1 .. 3 : A[n] = [do |-> "layout", type |-> t]
        BY <2>1 DEF Types
    <2> HIDE DEF A
    <2>10. \A n \in 1 .. 3 : A[n] # [do |-> "default"] /\ \A d \in Docs : A[n] # Upsert(d, "en")
        BY <2>6, <2>7, <2>8
    <2> QED
        BY <2>5, <2>9, <2>10 DEF Ordered, Holding
<1>2. /\ B \in Seq(Steps) /\ Ordered(B) /\ Holding(B, GermanLocale)
      /\ Holding(B, [do |-> "locale", code |-> "en"]) /\ Holding(B, [do |-> "default"])
    <2> DEFINE english == [do |-> "locale", code |-> "en"]
               default == [do |-> "default"]
    <2>1. GermanLocale \in Steps /\ english \in Steps /\ default \in Steps
        BY DEF Steps, GermanLocale
    <2>2. GermanLocale.do = "locale" /\ english.do = "locale" /\ default.do = "default"
        BY DEF GermanLocale
    <2>3. \A d \in Docs : Upsert(d, "en").do = "upsert"
        BY DEF Upsert
    <2> HIDE DEF english, default
    <2>4. /\ B = <<GermanLocale, english, default>>
          /\ \A s \in {GermanLocale, english, default} : \A d \in Docs : s # Upsert(d, "en")
          /\ GermanLocale # default /\ english # default
        BY <2>2, <2>3 DEF english, default
    <2> HIDE DEF B
    <2>5. B \in Seq(Steps) /\ Len(B) = 3 /\ B[1] = GermanLocale /\ B[2] = english /\ B[3] = default
        BY <2>1, <2>4
    <2>6. Holding(B, GermanLocale) /\ Holding(B, english) /\ Holding(B, default)
        BY <2>5 DEF Holding
    <2>7. ASSUME NEW n \in 1 .. Len(B)
          PROVE  /\ B[n] = default => \E m \in 1 .. n - 1 : B[m] = GermanLocale
                 /\ \A d \in Docs : B[n] # Upsert(d, "en")
        <3>1. n = 1 \/ n = 2 \/ n = 3
            BY <2>5
        <3> QED
            BY <2>4, <2>5, <3>1
    <2>8. Ordered(B)
        BY <2>7 DEF Ordered, default
    <2> QED
        BY <2>5, <2>6, <2>8 DEF english, default
<1>3. /\ C \in Seq(Steps) /\ Ordered(C)
      /\ \A d \in Essential : Holding(C, Upsert(d, "de")) /\ Holding(C, Upsert(d, "en"))
    <2>1. Essential = {"news"} \cup {"event"} /\ Essential \subseteq Docs
        BY DEF Essential, Docs
    <2>2. IsFiniteSet(Essential)
        BY <2>1, FS_Singleton, FS_Union
    <2> QED
        BY <2>1, <2>2, SeedingOrdered DEF EnsureTags
<1>4. /\ D \in Seq(Steps) /\ Ordered(D)
      /\ \A d \in Demo : Holding(D, Upsert(d, "de")) /\ Holding(D, Upsert(d, "en"))
    <2>1. CASE Demo = {}
        BY <2>1 DEF Ordered
    <2>2. CASE Demo # {}
        <3>1. /\ Seeding(Demo) \in Seq(Steps) /\ Ordered(Seeding(Demo))
              /\ \A d \in Demo : /\ Holding(Seeding(Demo), Upsert(d, "de"))
                                 /\ Holding(Seeding(Demo), Upsert(d, "en"))
            BY CmsAssumption, SeedingOrdered DEF Docs
        <3>2. D = C \o Seeding(Demo)
            BY <2>2
        <3> HIDE DEF C, D
        <3> QED
            BY <1>3, <3>1, <3>2, ConcatOrdered
    <2> QED
        BY <2>1, <2>2
<1>5. Bootstrap = ((A \o B) \o C) \o D
    BY DEF Bootstrap, GermanLocale
<1> HIDE DEF A, B, C, D
<1> DEFINE P == A \o B
           Q == P \o C
<1>6. /\ P \in Seq(Steps) /\ Ordered(P)
      /\ \A s : Holding(A, s) \/ Holding(B, s) => Holding(P, s)
    BY <1>1, <1>2, ConcatOrdered
<1>7. Bootstrap = (P \o C) \o D
    BY <1>5
<1> HIDE DEF P
<1>8. /\ Q \in Seq(Steps) /\ Ordered(Q)
      /\ \A s : Holding(P, s) \/ Holding(C, s) => Holding(Q, s)
    BY <1>3, <1>6, ConcatOrdered
<1>9. Bootstrap = Q \o D
    BY <1>7
<1> HIDE DEF Q
<1>10. /\ Bootstrap \in Seq(Steps) /\ Ordered(Bootstrap)
       /\ \A s : Holding(Q, s) \/ Holding(D, s) => Holding(Bootstrap, s)
    BY <1>4, <1>8, <1>9, ConcatOrdered
<1>11. \A s : Holding(A, s) \/ Holding(B, s) \/ Holding(C, s) \/ Holding(D, s) => Holding(Bootstrap, s)
    BY <1>6, <1>8, <1>10
<1>12. Complete(Bootstrap)
    BY <1>1, <1>2, <1>3, <1>4, <1>11 DEF Complete, Docs
<1> QED
    BY <1>10, <1>12

(***************************************************************************)
(* What a step has brought about, and keeps on holding while the start     *)
(* goes on.  An interrupted start begins again, with nothing promised.     *)
(***************************************************************************)
Done(s, x) ==
    CASE s.do = "layout"  -> x.layout[s.type] = "editorLabel"
      [] s.do = "locale"  -> s.code \in DOMAIN x.locales
      [] s.do = "default" -> "de" \in DOMAIN x.locales /\ x.locales["de"] = TRUE
      [] s.do = "upsert"  ->
            /\ x.docs[s.doc] # None
            /\ IF s.locale = "de" THEN x.docs[s.doc].active = TRUE /\ x.docs[s.doc].de = "seed"
               ELSE x.docs[s.doc].en = "seed"
SiteTyped(x) ==
    /\ DOMAIN x = {"layout", "locales", "docs"}
    /\ DOMAIN x.layout = Types
    /\ x.locales = [c \in DOMAIN x.locales |-> x.locales[c]]
    /\ x.docs \in [Docs -> Doc \cup {None}]
BootInv ==
    /\ SiteTyped(site)
    /\ boot \in 1 .. Up
    /\ boot \in 2 .. Up - 1 => untouched
    /\ untouched => \A n \in 1 .. boot - 1 : Done(Bootstrap[n], site)

(* What a step needs of the steps before it.                               *)
Prepared(s, x) ==
    /\ s = [do |-> "default"] => Done(GermanLocale, x)
    /\ \A d \in Docs : s = Upsert(d, "en") => Done(Upsert(d, "de"), x)

LEMMA KindsOfSteps ==
    ASSUME NEW s \in Steps
    PROVE  \/ s.do = "layout" /\ s.type \in Types
           \/ s.do = "locale" /\ s.code \in {"de", "en"}
           \/ s.do = "default" /\ s = [do |-> "default"]
           \/ s.do = "upsert" /\ s.doc \in Docs /\ s.locale \in {"de", "en"}
                /\ s = Upsert(s.doc, s.locale)
BY DEF Steps, Upsert

LEMMA LayoutStep ==
    ASSUME SiteTyped(site), NEW s \in Steps, s.do = "layout"
    PROVE  /\ SiteTyped(After(s)) /\ Done(s, After(s))
           /\ \A t \in Steps : Done(t, site) => Done(t, After(s))
<1> DEFINE y == After(s)
<1>1. y = [site EXCEPT !.layout = [site.layout EXCEPT ![s.type] = "editorLabel"]]
    BY DEF After, RoomAdminConfiguration
<1>2. /\ DOMAIN y = DOMAIN site /\ y.locales = site.locales /\ y.docs = site.docs
      /\ DOMAIN y.layout = Types
      /\ \A t \in Types : y.layout[t] = IF t = s.type THEN "editorLabel" ELSE site.layout[t]
    BY <1>1 DEF SiteTyped
<1> HIDE DEF y
<1>3. SiteTyped(y)
    BY <1>2 DEF SiteTyped
<1>4. Done(s, y)
    BY <1>2, KindsOfSteps DEF Done
<1>5. ASSUME NEW t \in Steps, Done(t, site) PROVE Done(t, y)
    BY <1>2, <1>5, KindsOfSteps DEF Done
<1> QED
    BY <1>3, <1>4, <1>5 DEF y

LEMMA LocaleStep ==
    ASSUME SiteTyped(site), NEW s \in Steps, Prepared(s, site), s.do \in {"locale", "default"}
    PROVE  /\ SiteTyped(After(s)) /\ Done(s, After(s))
           /\ \A t \in Steps : Done(t, site) => Done(t, After(s))
<1> DEFINE y == After(s)
           new == IF s.do = "locale" THEN EnsureLocale(site.locales, s.code)
                  ELSE DefaultGerman(site.locales)
<1>1. y = [site EXCEPT !.locales = new]
    BY DEF After
<1>2. /\ DOMAIN y = DOMAIN site /\ y.layout = site.layout /\ y.docs = site.docs
      /\ y.locales = new
    BY <1>1 DEF SiteTyped
<1>3. /\ new = [c \in DOMAIN new |-> new[c]]
      /\ DOMAIN site.locales \subseteq DOMAIN new
      /\ "de" \in DOMAIN site.locales /\ site.locales["de"] = TRUE => new["de"] = TRUE
      /\ s.do = "locale" => s.code \in DOMAIN new
      /\ s.do = "default" /\ "de" \in DOMAIN new => new["de"] = TRUE
      /\ s.do = "default" => DOMAIN new = DOMAIN site.locales
    BY DEF EnsureLocale, DefaultGerman, SiteTyped
<1> HIDE DEF y, new
<1>4. SiteTyped(y)
    BY <1>2, <1>3 DEF SiteTyped
<1>5. s.do = "default" => "de" \in DOMAIN site.locales
    <2>1. GermanLocale.do = "locale" /\ GermanLocale.code = "de"
        BY DEF GermanLocale
    <2> QED
        BY <2>1, KindsOfSteps DEF Prepared, Done
<1>6. Done(s, y)
    BY <1>2, <1>3, <1>5 DEF Done
<1>7. ASSUME NEW t \in Steps, Done(t, site) PROVE Done(t, y)
    BY <1>2, <1>3, <1>7, KindsOfSteps DEF Done
<1> QED
    BY <1>4, <1>6, <1>7 DEF y

LEMMA UpsertStep ==
    ASSUME SiteTyped(site), NEW s \in Steps, Prepared(s, site), s.do = "upsert"
    PROVE  /\ SiteTyped(After(s)) /\ Done(s, After(s))
           /\ \A t \in Steps : Done(t, site) => Done(t, After(s))
<1> DEFINE y == After(s)
           old == site.docs[s.doc]
           new == UpsertLocalised(site.docs, s)
<1>0. s.doc \in Docs /\ s.locale \in {"de", "en"} /\ s = Upsert(s.doc, s.locale)
    BY KindsOfSteps
<1>1. y = [site EXCEPT !.docs = [site.docs EXCEPT ![s.doc] = new]]
    BY DEF After
<1>2. old \in Doc \cup {None}
    BY <1>0 DEF SiteTyped
<1>3. s.locale = "en" => old # None /\ old.active = TRUE /\ old.de = "seed"
    <2> SUFFICES ASSUME s.locale = "en" PROVE old # None /\ old.active = TRUE /\ old.de = "seed"
        OBVIOUS
    <2>1. Done(Upsert(s.doc, "de"), site)
        BY <1>0 DEF Prepared
    <2>2. /\ Upsert(s.doc, "de").do = "upsert" /\ Upsert(s.doc, "de").doc = s.doc
          /\ Upsert(s.doc, "de").locale = "de"
        BY DEF Upsert
    <2> QED
        BY <2>1, <2>2 DEF Done
<1>4. /\ new \in Doc /\ new.active = TRUE /\ new.de = "seed"
      /\ s.locale = "en" => new.en = "seed"
      /\ old # None => new.en = old.en \/ new.en = "seed"
    <2>1. CASE old = None
        <3>1. new = [active |-> TRUE, de |-> "seed", en |-> None]
            BY <2>1 DEF UpsertLocalised
        <3> HIDE DEF new
        <3> QED
            BY <1>3, <2>1, <3>1 DEF Doc, Names
    <2>2. CASE old # None /\ s.locale = "de"
        <3>1. new = [old EXCEPT !.active = TRUE, !.de = "seed"]
            BY <2>2 DEF UpsertLocalised
        <3>2. old \in Doc
            BY <1>2, <2>2
        <3> HIDE DEF new, old
        <3> QED
            BY <2>2, <3>1, <3>2 DEF Doc, Names
    <2>3. CASE s.locale = "en"
        <3>1. new = [old EXCEPT !.en = "seed"]
            BY <1>3, <2>3 DEF UpsertLocalised
        <3>2. old \in Doc
            BY <1>2, <1>3, <2>3
        <3> HIDE DEF new, old
        <3> QED
            BY <1>3, <2>3, <3>1, <3>2 DEF Doc, Names
    <2> QED
        BY <1>0, <2>1, <2>2, <2>3
<1>5. /\ DOMAIN y = DOMAIN site /\ y.layout = site.layout /\ y.locales = site.locales
      /\ y.docs = [site.docs EXCEPT ![s.doc] = new]
    BY <1>1 DEF SiteTyped
<1> HIDE DEF y, new
<1>6. SiteTyped(y)
    BY <1>4, <1>5 DEF SiteTyped
<1>7. \A d \in Docs : y.docs[d] = IF d = s.doc THEN new ELSE site.docs[d]
    BY <1>5 DEF SiteTyped
<1>8. new # None
    BY <1>4, CmsAssumption
<1>9. Done(s, y)
    BY <1>0, <1>4, <1>7, <1>8 DEF Done
<1>10. ASSUME NEW t \in Steps, Done(t, site) PROVE Done(t, y)
    BY <1>0, <1>4, <1>5, <1>7, <1>8, <1>10, KindsOfSteps DEF Done
<1> QED
    BY <1>6, <1>9, <1>10 DEF y

(* A step does what it is for, and undoes nothing.                         *)
LEMMA StepDoes ==
    ASSUME SiteTyped(site), NEW s \in Steps, Prepared(s, site)
    PROVE  /\ SiteTyped(After(s)) /\ Done(s, After(s))
           /\ \A t \in Steps : Done(t, site) => Done(t, After(s))
BY KindsOfSteps, LayoutStep, LocaleStep, UpsertStep

LEMMA BootInit == ASSUME Init PROVE BootInv
<1>1. Len(Bootstrap) \in Nat
    BY BootstrapOrdered
<1>2. site = FreshInstall /\ boot = 1 /\ untouched = TRUE
    BY DEF Init
<1>3. /\ DOMAIN site = {"layout", "locales", "docs"}
      /\ DOMAIN site.layout = Types
      /\ site.locales = [c \in {"en"} |-> TRUE]
      /\ site.docs = [d \in Docs |-> None]
    BY <1>2 DEF FreshInstall, Types
<1>4. SiteTyped(site)
    BY <1>3 DEF SiteTyped
<1> QED
    BY <1>1, <1>2, <1>4 DEF BootInv, Up

LEMMA BootStepRight == ASSUME BootInv, BootStep PROVE BootInv'
<1> DEFINE s == Bootstrap[boot]
<1>1. /\ boot < Up /\ site' = After(s) /\ boot' = boot + 1 /\ untouched' = TRUE
      /\ boot \in 1 .. Up /\ SiteTyped(site)
    BY DEF BootStep, BootInv
<1>2. /\ Len(Bootstrap) \in Nat /\ boot \in 1 .. Len(Bootstrap)
      /\ \A n \in 1 .. Len(Bootstrap) : Bootstrap[n] \in Steps
      /\ Up = Len(Bootstrap) + 1
    BY <1>1, BootstrapOrdered DEF Up
<1>3. \A n \in 1 .. boot - 1 : n \in 1 .. Len(Bootstrap) /\ Done(Bootstrap[n], site)
    BY <1>1, <1>2 DEF BootInv
<1>4. Prepared(s, site)
    <2>1. /\ s = [do |-> "default"] => \E m \in 1 .. boot - 1 : Bootstrap[m] = GermanLocale
          /\ \A d \in Docs : s = Upsert(d, "en") =>
                \E m \in 1 .. boot - 1 : Bootstrap[m] = Upsert(d, "de")
        BY <1>2, BootstrapOrdered DEF Ordered
    <2> HIDE DEF s
    <2>2. s = [do |-> "default"] => Done(GermanLocale, site)
        BY <1>3, <2>1
    <2>3. ASSUME NEW d \in Docs, s = Upsert(d, "en") PROVE Done(Upsert(d, "de"), site)
        <3>1. PICK m \in 1 .. boot - 1 : Bootstrap[m] = Upsert(d, "de")
            BY <2>1, <2>3
        <3>2. Done(Bootstrap[m], site)
            BY <1>3
        <3> QED
            BY <3>1, <3>2
    <2> QED
        BY <2>2, <2>3 DEF Prepared
<1>5. /\ SiteTyped(After(s)) /\ Done(s, After(s))
      /\ \A t \in Steps : Done(t, site) => Done(t, After(s))
    BY <1>1, <1>2, <1>4, StepDoes
<1>6. \A n \in 1 .. boot : Done(Bootstrap[n], After(s))
    <2> TAKE n \in 1 .. boot
    <2>1. CASE n = boot
        BY <1>5, <2>1
    <2>2. CASE n # boot
        <3>1. n \in 1 .. boot - 1
            BY <1>2, <2>2
        <3> QED
            BY <1>2, <1>3, <1>5, <3>1
    <2> QED
        BY <2>1, <2>2
<1>7. boot' \in 1 .. Up /\ boot' - 1 = boot
    BY <1>1, <1>2
<1> HIDE DEF s
<1>8. SiteTyped(site') /\ \A n \in 1 .. boot' - 1 : Done(Bootstrap[n], site')
    BY <1>1, <1>5, <1>6, <1>7
<1> QED
    BY <1>1, <1>7, <1>8 DEF BootInv

LEMMA BootNext == ASSUME BootInv, [Next]_vars PROVE BootInv'
<1>0. Len(Bootstrap) \in Nat /\ Up = Len(Bootstrap) + 1
    BY BootstrapOrdered DEF Up
<1>1. CASE BootStep
    BY <1>1, BootStepRight
<1>2. CASE Restart
    <2>1. boot' = 1 /\ site' = site /\ untouched' = untouched
        BY <1>2 DEF Restart
    <2> QED
        BY <1>0, <2>1 DEF BootInv
<1>3. CASE \E d \in Docs : \E new \in {v \in Doc : v.en # None} \cup {None} : EditDoc(d, new)
    <2>1. PICK d \in Docs, new \in Doc \cup {None} : EditDoc(d, new)
        BY <1>3
    <2>2. /\ boot = Up /\ boot' = boot /\ untouched' = FALSE
          /\ site' = [site EXCEPT !.docs = [site.docs EXCEPT ![d] = new]]
        BY <2>1 DEF EditDoc
    <2>3. SiteTyped(site')
        BY <2>2 DEF BootInv, SiteTyped
    <2> QED
        BY <1>0, <2>2, <2>3 DEF BootInv
<1>4. CASE EditPost \/ EditLink \/ SyncRooms \/ UNCHANGED vars
    <2>1. UNCHANGED bootVars
        BY <1>4 DEF EditPost, Submit, ReadExisting, FindTag, WritePost, WriteRefused, EditLink, SubmitLink,
           LookUpLink, WriteLink, SyncRooms, CatalogChanges, OpenRoom, SaveRoom, StartRun,
           PlanRoomSync, ApplyNext, FinishRun, StopRun, vars
    <2> QED
        BY <2>1 DEF bootVars, BootInv
<1> QED
    BY <1>1, <1>2, <1>3, <1>4 DEF Next, StartAndServe

(* A CMS that has come up serves what its apps rely on - the labelled room *)
(* layout, German beside English with German as the default, and every     *)
(* essential document in both languages and in service - whatever editors  *)
(* had changed before it was started again, and however often a start was  *)
(* broken off between two of its steps, for every set of demo documents    *)
(* (bootstrap, ensureLocales, ensureTags, seedDemoContent).                *)
THEOREM ServesReadyHolds == Spec => []ServesReady
<1>1. Spec => []BootInv
    BY BootInit, BootNext, PTL DEF Spec
<1>2. ASSUME BootInv, boot = Up, untouched
      PROVE  /\ \A t \in DOMAIN site.layout : site.layout[t] = "editorLabel"
             /\ {"de", "en"} \subseteq DOMAIN site.locales /\ site.locales["de"]
             /\ \A d \in Docs : site.docs[d] = [active |-> TRUE, de |-> "seed", en |-> "seed"]
    <2>1. ASSUME NEW s, Holding(Bootstrap, s) PROVE Done(s, site)
        <3>1. PICK n \in 1 .. Len(Bootstrap) : Bootstrap[n] = s
            BY <2>1 DEF Holding
        <3>2. n \in 1 .. boot - 1
            BY <1>2, BootstrapOrdered DEF Up
        <3> QED
            BY <1>2, <3>1, <3>2 DEF BootInv
    <2>2. \A t \in Types : site.layout[t] = "editorLabel"
        <3> TAKE t \in Types
        <3> DEFINE s == [do |-> "layout", type |-> t]
        <3>1. Done(s, site)
            BY <2>1, BootstrapOrdered DEF Complete
        <3> QED
            BY <3>1 DEF Done
    <2>3. "de" \in DOMAIN site.locales /\ site.locales["de"] = TRUE
        <3>1. Done([do |-> "default"], site)
            BY <2>1, BootstrapOrdered DEF Complete
        <3> QED
            BY <3>1 DEF Done
    <2>4. "en" \in DOMAIN site.locales
        <3>1. Done([do |-> "locale", code |-> "en"], site)
            BY <2>1, BootstrapOrdered DEF Complete
        <3> QED
            BY <3>1 DEF Done
    <2>5. ASSUME NEW d \in Docs
          PROVE  site.docs[d] = [active |-> TRUE, de |-> "seed", en |-> "seed"]
        <3>1. Done(Upsert(d, "de"), site) /\ Done(Upsert(d, "en"), site)
            BY <2>1, BootstrapOrdered DEF Complete
        <3>2. /\ site.docs[d] # None /\ site.docs[d].active = TRUE
              /\ site.docs[d].de = "seed" /\ site.docs[d].en = "seed"
            BY <3>1 DEF Done, Upsert
        <3>3. site.docs[d] \in Doc
            BY <1>2, <3>2 DEF BootInv, SiteTyped
        <3> QED
            BY <3>2, <3>3 DEF Doc
    <2> QED
        BY <1>2, <2>2, <2>3, <2>4, <2>5 DEF BootInv, SiteTyped
<1>3. BootInv => ServesReady
    BY <1>2 DEF ServesReady
<1> QED
    BY <1>1, <1>3, PTL
=============================================================================
