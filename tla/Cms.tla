-------------------------------- MODULE Cms ---------------------------------
(***************************************************************************)
(* The CMS around its content types: what its own code does when editors   *)
(* and scripts write, when the room catalogue is synchronised and when     *)
(* Strapi starts.                                                          *)
(*                                                                         *)
(*  - Every write through the document service passes a chain of guards.   *)
(*    The editorial guard reads the stored post before it lets a           *)
(*    publishing write through; the calendar guard looks up the other end  *)
(*    of a link.  Both read first and write later, and another editor may  *)
(*    write in between.                                                    *)
(*  - rooms:sync reads the rooms, plans, and applies the plan row by row   *)
(*    from a process of its own while editors save whole forms.            *)
(*  - A start of Strapi brings layouts, locales and essential documents    *)
(*    into shape step by step, and may stop between any two steps.         *)
(*                                                                         *)
(* The parts share no state, so a behaviour exercises one of them: part.   *)
(***************************************************************************)
EXTENDS Naturals, FiniteSets, Sequences

CONSTANTS
    None, Keep,       \* a null value; a field that a payload does not name
    Parts,            \* subset of {"posts", "links", "rooms", "boot"}
    Editors,          \* editors and scripts that write concurrently
    Channels, Calendars,
    Times,            \* subset of Nat: dates of events
    Payloads,         \* the data of writes to a post
    Rooms,            \* subset of Nat: keys of rooms, in their order
    Labels,           \* labels of rooms in the catalogue
    Runs,             \* processes of rooms:sync
    Demo,             \* further documents that SEED_DEMO_CONTENT brings
    MaxWrites,        \* bound, per part: writes by editors, changes of the catalogue
    MaxRuns,          \* bound: runs of rooms:sync
    MaxFaults         \* bound: failed reads and stopped processes

(* A payload names a tag or a primary channel by an id, by an object (an   *)
(* item, or a wrapper with connect or set), or by a wrapper that only      *)
(* disconnects; to says what the relation is then: a document, None, or    *)
(* Keep, where the wrapper connects nothing and disconnects nothing linked.*)
Tags == {"news", "event"}
Relation(docs) == {None, Keep} \cup [by : {"id"}, to : docs]
                  \cup [by : {"object", "disconnect"}, to : docs \cup {None, Keep}]
Listings == [how : {"list", "change", "disconnect"}, add : SUBSET Channels,
             drop : SUBSET Channels]
PostData == [tag : Relation(Tags), primary : Relation(Channels),
             channels : {None, Keep} \cup Listings,
             start : {None, Keep} \cup Times, end : {None, Keep} \cup Times]
Row == [label : Labels, active : BOOLEAN, text : Editors \cup {None}]
Names == {"seed", "edited"}
Doc == [active : BOOLEAN, de : Names, en : Names \cup {None}]

ASSUME CmsAssumption ==
    /\ Parts \subseteq {"posts", "links", "rooms", "boot"}
    /\ Payloads \subseteq PostData /\ None \notin Tags /\ Keep \notin Tags
    /\ Times \subseteq Nat /\ Rooms \subseteq Nat /\ IsFiniteSet(Rooms)
    /\ None \notin Calendars \cup Row \cup Doc /\ IsFiniteSet(Demo)
    /\ MaxWrites \in [Parts -> Nat] /\ MaxRuns \in Nat /\ MaxFaults \in Nat

VARIABLES
    part,             \* the part of the CMS this behaviour exercises
    requests,         \* editor -> the write on its way through the guards
    draft, published, \* the post
    basis,            \* history: what the guard knew of what it published
    link,             \* calendar -> the channel it is linked to
    catalogue,        \* room -> its label in packages/campus-map
    rows,             \* room -> its document in the CMS
    jobs,             \* run -> where rooms:sync is
    synced,           \* history: the catalogue the last undisturbed run applied
    site,             \* layout, locales and the essential documents
    boot,             \* the next step of the start, or Up
    untouched,        \* history: no editor has written since the start
    writes, runs, faults

postVars == <<draft, published, basis>>
roomVars == <<catalogue, rows, jobs, synced, runs>>
bootVars == <<site, boot, untouched>>
vars == <<part, requests, postVars, link, roomVars, bootVars, writes, faults>>

-----------------------------------------------------------------------------
(* The editorial guard                                                     *)

EmptyPost == [tag |-> None, primary |-> None, channels |-> {},
              start |-> None, end |-> None]
NoData == [tag |-> Keep, primary |-> Keep, channels |-> Keep,
           start |-> Keep, end |-> Keep]

DatesValid(start, end) == start \in Times /\ end \in Times => start < end

Named(rel) == rel \notin {Keep, None}
ToRelationItems(rel) ==
    IF ~Named(rel) THEN {}
    ELSE IF rel.by = "disconnect" THEN {rel} ELSE {rel.to} \ {None, Keep}

(* A payload that names a primary channel is completed so that the channel *)
(* is among the channels it lists; a wrapper of channels that only         *)
(* disconnects is left as it is.                                           *)
EnsurePrimaryChannelInChannels(data) ==
    LET items == ToRelationItems(data.primary) IN
    IF items = {} THEN data
    ELSE IF ~Named(data.channels)
         THEN [data EXCEPT !.channels = [how |-> "list", add |-> items, drop |-> {}]]
    ELSE IF data.channels.how = "disconnect" THEN data
         ELSE [data EXCEPT !.channels.add = @ \cup items]

Overlay(old, new) == IF new = Keep THEN old ELSE new

(* What Strapi stores: a list replaces a relation, connect and disconnect  *)
(* change it, and what is named twice stays.  Channels that list a wrapper *)
(* in place of a channel are invalid relations.                            *)
Storable(data) == Named(data.channels) => data.channels.add \subseteq Channels
Related(old, rel) == Overlay(old, IF Named(rel) THEN rel.to ELSE rel)
Written(doc, data) ==
    [tag |-> Related(doc.tag, data.tag),
     primary |-> Related(doc.primary, data.primary),
     channels |-> CASE data.channels = Keep -> doc.channels
                    [] data.channels = None -> {}
                    [] OTHER -> (IF data.channels.how = "list" THEN {}
                                 ELSE doc.channels \ data.channels.drop) \cup data.channels.add,
     start |-> Overlay(doc.start, data.start),
     end |-> Overlay(doc.end, data.end)]

AnyPost(doc, slug) ==                       \* mutant: no event needs a date
    doc.tag # None /\ doc.primary # None /\ DatesValid(doc.start, doc.end)
ValidatePostPublishRequirements(doc, slug) ==
    /\ doc.tag # None
    /\ doc.primary # None
    /\ slug = "event" => doc.start # None
    /\ DatesValid(doc.start, doc.end)

(* The guard looks at the payload by itself; only a publishing write is    *)
(* compared with the stored document.  The admin panel saves first and     *)
(* then publishes without data; a script updates and publishes at once.    *)
Submit(e, kind, data) ==
    LET joined == EnsurePrimaryChannelInChannels(data) IN
    /\ part = "posts" /\ requests[e] = None /\ writes < MaxWrites[part]
    /\ kind = "publish" => data = NoData
    /\ DatesValid(data.start, data.end)
    /\ requests' = [requests EXCEPT ![e] =
           [kind |-> kind, data |-> joined, phase |-> IF kind = "save" THEN "write" ELSE "read",
            merged |-> EmptyPost, slug |-> None, seen |-> FALSE]]
    /\ writes' = writes + 1
    /\ UNCHANGED <<part, postVars, link, roomVars, bootVars, faults>>

Judged(r) ==
    IF ValidatePostPublishRequirements(r.merged, r.slug) THEN [r EXCEPT !.phase = "write"]
    ELSE None

(* The payload is laid over the post as it is: a wrapper is judged as a    *)
(* value that is there, whatever it does to the relation.                  *)
MergedWith(found, data) == [f \in DOMAIN found |-> Overlay(found[f], data[f])]

(* A read that fails counts as a post without content.  A tag named by an  *)
(* object has no slug in the payload and is not looked up.                 *)
ReadExisting(e, ok) ==
    LET r == requests[e]
        found == IF ok THEN draft ELSE EmptyPost
        seen == [r EXCEPT !.merged = MergedWith(found, r.data), !.seen = ok,
                          !.slug = IF r.data.tag = Keep THEN found.tag ELSE None]
    IN
    /\ part = "posts" /\ r # None /\ r.phase = "read"
    /\ ok \/ faults < MaxFaults
    /\ faults' = IF ok THEN faults ELSE faults + 1
    /\ requests' = [requests EXCEPT ![e] =
           IF Named(r.data.tag) /\ r.data.tag.by = "id"
           THEN [seen EXCEPT !.phase = "tag"] ELSE Judged(seen)]
    /\ UNCHANGED <<part, postVars, link, roomVars, bootVars, writes>>

FindTag(e, ok) ==
    LET r == requests[e] IN
    /\ part = "posts" /\ r # None /\ r.phase = "tag"
    /\ ok \/ faults < MaxFaults
    /\ faults' = IF ok THEN faults ELSE faults + 1
    /\ requests' = [requests EXCEPT ![e] =
           Judged([r EXCEPT !.slug = IF ok THEN r.data.tag.to ELSE None])]
    /\ UNCHANGED <<part, postVars, link, roomVars, bootVars, writes>>

(* Wrappers that name no document.                                         *)
Blind(data) ==
    {f \in {"tag", "primary"} : Named(data[f]) /\ data[f].to \in {None, Keep}}

(* next(): what other guards have read of the post is out of date now.     *)
WritePost(e) ==
    LET r == requests[e] IN
    /\ part = "posts" /\ r # None /\ r.phase = "write" /\ Storable(r.data)
    /\ draft' = Written(draft, r.data)
    /\ published' = IF r.kind = "save" THEN published ELSE draft'
    /\ basis' = IF r.kind = "save" THEN basis
                ELSE [seen |-> r.seen, slug |-> r.slug, blind |-> Blind(r.data)]
    /\ requests' = [x \in Editors |->
           IF x = e THEN None
           ELSE IF requests[x] # None THEN [requests[x] EXCEPT !.seen = FALSE] ELSE None]
    /\ UNCHANGED <<part, link, roomVars, bootVars, writes, faults>>

WriteRefused(e) ==
    LET r == requests[e] IN
    /\ part = "posts" /\ r # None /\ r.phase = "write" /\ ~Storable(r.data)
    /\ requests' = [requests EXCEPT ![e] = None]
    /\ UNCHANGED <<part, postVars, link, roomVars, bootVars, writes, faults>>

EditPost ==
    \E e \in Editors :
        \/ \E kind \in {"save", "publish", "update"}, data \in Payloads \cup {NoData} :
               Submit(e, kind, data)
        \/ \E ok \in BOOLEAN : ReadExisting(e, ok) \/ FindTag(e, ok)
        \/ WritePost(e) \/ WriteRefused(e)

-----------------------------------------------------------------------------
(* The calendar guard: one calendar per channel                            *)

LinkOf(side, ref) ==                        \* calendarOfChannel, channelOfCalendar
    IF side = "calendar" THEN {k \in Calendars : link[k] = ref}
    ELSE {link[ref]} \ {None}

(* An editor links a document to a reference, or clears its link.          *)
SubmitLink(e, side, doc, ref) ==
    /\ part = "links" /\ requests[e] = None /\ writes < MaxWrites[part]
    /\ requests' = [requests EXCEPT ![e] =
           [side |-> side, doc |-> doc, ref |-> ref, late |-> {},
            phase |-> IF ref = None THEN "write" ELSE "lookup"]]
    /\ writes' = writes + 1
    /\ UNCHANGED <<part, postVars, link, roomVars, bootVars, faults>>

FreeAnyway(side, doc, ref) ==               \* mutant: only the calendar's side is guarded
    side = "calendar" => LinkOf(side, ref) \subseteq {doc}
Free(side, doc, ref) == LinkOf(side, ref) \subseteq {doc}
LookUpLink(e) ==
    LET r == requests[e] IN
    /\ part = "links" /\ r # None /\ r.phase = "lookup"
    /\ requests' = [requests EXCEPT ![e] =
           IF Free(r.side, r.doc, r.ref) THEN [r EXCEPT !.phase = "write"] ELSE None]
    /\ UNCHANGED <<part, postVars, link, roomVars, bootVars, writes, faults>>

(* Strapi's one-to-one relation takes the link away from whatever held it. *)
Linked(r) ==
    IF r.side = "calendar"
    THEN [k \in Calendars |-> IF k = r.doc THEN r.ref
                              ELSE IF link[k] = r.ref THEN None ELSE link[k]]
    ELSE [k \in Calendars |-> IF k = r.ref THEN r.doc
                              ELSE IF link[k] = r.doc THEN None ELSE link[k]]
WriteLink(e) ==
    LET r == requests[e]
        made == {k \in Calendars : link'[k] # link[k] /\ link'[k] # None}
    IN
    /\ part = "links" /\ r # None /\ r.phase = "write"
    /\ link' = Linked(r)
    /\ requests' = [x \in Editors |->
           IF x = e THEN None
           ELSE IF requests[x] # None /\ requests[x].phase = "write"
                THEN [requests[x] EXCEPT !.late = @ \cup made] ELSE requests[x]]
    /\ UNCHANGED <<part, postVars, roomVars, bootVars, writes, faults>>

EditLink ==
    \E e \in Editors :
        \/ \E k \in Calendars, c \in Channels \cup {None} : SubmitLink(e, "calendar", k, c)
        \/ \E c \in Channels, k \in Calendars \cup {None} : SubmitLink(e, "channel", c, k)
        \/ LookUpLink(e) \/ WriteLink(e)

-----------------------------------------------------------------------------
(* Rooms: the guard of the catalogue's fields, and rooms:sync              *)

CatalogChanges(new) ==
    /\ part = "rooms" /\ writes < MaxWrites[part] /\ new # catalogue
    /\ catalogue' = new
    /\ writes' = writes + 1
    /\ UNCHANGED <<part, requests, postVars, link, rows, jobs, synced, runs, bootVars, faults>>

(* The admin panel sends back the whole form as it was opened.             *)
OpenRoom(e, k) ==
    /\ part = "rooms" /\ requests[e] = None /\ writes < MaxWrites[part]
    /\ rows[k] # None
    /\ requests' = [requests EXCEPT ![e] = [key |-> k, form |-> rows[k]]]
    /\ writes' = writes + 1
    /\ UNCHANGED <<part, postVars, link, roomVars, bootVars, faults>>

WholeForm(row, data) == data                \* mutant: the guard strips nothing
StripCatalogManagedFields(row, data) == [row EXCEPT !.text = data.text]
SaveRoom(e, text) ==
    LET r == requests[e] IN
    /\ part = "rooms" /\ r # None
    /\ rows' = [rows EXCEPT ![r.key] =
           StripCatalogManagedFields(@, [r.form EXCEPT !.text = text])]
    /\ requests' = [requests EXCEPT ![e] = None]
    /\ UNCHANGED <<part, postVars, link, catalogue, jobs, synced, runs, bootVars, writes, faults>>

(* Only differences are listed; a room that is gone is deactivated, once.  *)
PlanEntry(k, wanted) ==
    CASE wanted[k] # None /\ rows[k] = None -> "create"
      [] /\ wanted[k] # None /\ rows[k] # None
         /\ rows[k].label # wanted[k] \/ ~rows[k].active -> "update"
      [] wanted[k] = None /\ rows[k] # None /\ rows[k].active -> "deactivate"
      [] OTHER -> "unchanged"
Changes(wanted) == {k \in Rooms : PlanEntry(k, wanted) # "unchanged"}

(* rooms:sync begins: arguments, then a catalogue that must be valid.      *)
StartRun(r, dry) ==
    /\ part = "rooms" /\ jobs[r] = None /\ runs < MaxRuns
    /\ jobs' = [jobs EXCEPT ![r] = [phase |-> "read", dry |-> dry, wanted |-> catalogue,
                                    plan |-> << >>, alone |-> TRUE]]
    /\ runs' = runs + 1
    /\ UNCHANGED <<part, requests, postVars, link, catalogue, rows, synced, bootVars,
                   writes, faults>>

PlanRoomSync(r) ==
    LET job == jobs[r] IN
    /\ part = "rooms" /\ job # None /\ job.phase = "read"
    /\ jobs' = [jobs EXCEPT ![r] =
           IF job.dry THEN None
           ELSE [job EXCEPT !.phase = "apply", !.alone = TRUE,
                     !.plan = [k \in Changes(job.wanted) |-> PlanEntry(k, job.wanted)]]]
    /\ UNCHANGED <<part, requests, postVars, link, catalogue, rows, synced, runs, bootVars,
                   writes, faults>>

Applied(kind, label, row) ==
    CASE kind = "create" -> [label |-> label, active |-> TRUE, text |-> None]
      [] kind = "update" -> [row EXCEPT !.label = label, !.active = TRUE]
      [] kind = "deactivate" -> [row EXCEPT !.active = FALSE]

(* Creating a key that another run has created meanwhile fails: the key is *)
(* unique, and the failed run ends where it is.                            *)
ApplyNext(r) ==
    LET job == jobs[r]
        keys == DOMAIN job.plan
        k == CHOOSE key \in keys : \A other \in keys : key <= other
        fails == job.plan[k] = "create" /\ rows[k] # None
    IN
    /\ part = "rooms" /\ job # None /\ job.phase = "apply" /\ keys # {}
    /\ rows' = IF fails THEN rows
               ELSE [rows EXCEPT ![k] = Applied(job.plan[k], job.wanted[k], @)]
    /\ synced' = IF fails THEN synced ELSE None
    /\ jobs' = [x \in Runs |->
           IF x = r
           THEN IF fails THEN None
                ELSE [job EXCEPT !.plan = [key \in keys \ {k} |-> job.plan[key]]]
           ELSE IF jobs[x] # None THEN [jobs[x] EXCEPT !.alone = fails /\ @] ELSE None]
    /\ UNCHANGED <<part, requests, postVars, link, catalogue, runs, bootVars, writes, faults>>

FinishRun(r) ==
    LET job == jobs[r] IN
    /\ part = "rooms" /\ job # None /\ job.phase = "apply" /\ DOMAIN job.plan = {}
    /\ synced' = IF job.alone THEN job.wanted ELSE synced
    /\ jobs' = [jobs EXCEPT ![r] = None]
    /\ UNCHANGED <<part, requests, postVars, link, catalogue, rows, runs, bootVars, writes, faults>>

StopRun(r) ==
    /\ part = "rooms" /\ jobs[r] # None /\ faults < MaxFaults
    /\ faults' = faults + 1
    /\ jobs' = [jobs EXCEPT ![r] = None]
    /\ UNCHANGED <<part, requests, postVars, link, catalogue, rows, synced, runs, bootVars, writes>>

SyncRooms ==
    \/ \E new \in [Rooms -> Labels \cup {None}] : CatalogChanges(new)
    \/ \E e \in Editors : (\E k \in Rooms : OpenRoom(e, k)) \/ SaveRoom(e, e)
    \/ \E r \in Runs :
           \/ \E dry \in BOOLEAN : StartRun(r, dry)
           \/ PlanRoomSync(r) \/ ApplyNext(r) \/ FinishRun(r) \/ StopRun(r)

-----------------------------------------------------------------------------
(* The start of Strapi                                                     *)

Essential == {"news", "event"}              \* ESSENTIAL_TAGS
Docs == Essential \cup Demo
RoomTypes == <<"room", "contact-area", "contact-person">>

(* What bootstrap() does, one await after the other; the seed writes every *)
(* document in German, then in English.                                    *)
Seeding(docs) ==
    LET order == CHOOSE s \in [1 .. Cardinality(docs) -> docs] :
                     \A i, j \in DOMAIN s : s[i] = s[j] => i = j
    IN [n \in 1 .. 2 * Cardinality(docs) |->
           [do |-> "upsert", doc |-> order[(n + 1) \div 2],
            locale |-> IF n % 2 = 1 THEN "de" ELSE "en"]]
EnsureTags == Seeding(Essential)
Bootstrap ==
    [n \in 1 .. 3 |-> [do |-> "layout", type |-> RoomTypes[n]]]
    \o <<[do |-> "locale", code |-> "de"], [do |-> "locale", code |-> "en"], [do |-> "default"]>>
    \o EnsureTags
    \o (IF Demo = {} THEN << >> ELSE EnsureTags \o Seeding(Demo))
Up == Len(Bootstrap) + 1

(* The German edition is created, or updated with the shared fields; the   *)
(* English one is updated, which creates it where it is missing.           *)
Unshared(docs, s) ==                        \* mutant: updates only the names
    IF docs[s.doc] = None THEN [active |-> TRUE, de |-> "seed", en |-> None]
    ELSE IF s.locale = "de" THEN [docs[s.doc] EXCEPT !.de = "seed"]
    ELSE [docs[s.doc] EXCEPT !.en = "seed"]
UpsertLocalised(docs, s) ==
    IF docs[s.doc] = None THEN [active |-> TRUE, de |-> "seed", en |-> None]
    ELSE IF s.locale = "de" THEN [docs[s.doc] EXCEPT !.active = TRUE, !.de = "seed"]
    ELSE [docs[s.doc] EXCEPT !.en = "seed"]

RoomAdminConfiguration(layout, type) == [layout EXCEPT ![type] = "editorLabel"]

EnsureLocale(l, code) ==
    IF code \in DOMAIN l THEN l
    ELSE [c \in DOMAIN l \cup {code} |-> IF c = code THEN FALSE ELSE l[c]]
DefaultGerman(l) == [c \in DOMAIN l |-> c = "de"]

After(s) ==
    CASE s.do = "layout"  -> [site EXCEPT !.layout = RoomAdminConfiguration(@, s.type)]
      [] s.do = "locale"  -> [site EXCEPT !.locales = EnsureLocale(@, s.code)]
      [] s.do = "default" -> [site EXCEPT !.locales = DefaultGerman(@)]
      [] s.do = "upsert"  -> [site EXCEPT !.docs[s.doc] = UpsertLocalised(site.docs, s)]

BootStep ==
    /\ part = "boot" /\ boot < Up
    /\ site' = After(Bootstrap[boot])
    /\ boot' = boot + 1
    /\ untouched' = TRUE
    /\ UNCHANGED <<part, requests, postVars, link, roomVars, writes, faults>>

Restart ==
    /\ part = "boot" /\ boot > 1 /\ faults < MaxFaults
    /\ boot' = 1
    /\ faults' = faults + 1
    /\ UNCHANGED <<part, requests, postVars, link, roomVars, site, untouched, writes>>

(* Editors rename a document in a language, take it out of service, bring  *)
(* it back, or delete it.                                                  *)
EditDoc(d, new) ==
    /\ part = "boot" /\ boot = Up /\ writes < MaxWrites[part]
    /\ site.docs[d] # None /\ new # site.docs[d]
    /\ site' = [site EXCEPT !.docs[d] = new]
    /\ untouched' = FALSE
    /\ writes' = writes + 1
    /\ UNCHANGED <<part, requests, postVars, link, roomVars, boot, faults>>

StartAndServe ==
    \/ BootStep \/ Restart
    \/ \E d \in Docs : \E new \in {v \in Doc : v.en # None} \cup {None} : EditDoc(d, new)

-----------------------------------------------------------------------------
FreshInstall ==
    [layout |-> [t \in {RoomTypes[n] : n \in DOMAIN RoomTypes} |-> "default"],
     locales |-> [c \in {"en"} |-> TRUE], docs |-> [d \in Docs |-> None]]

Init ==
    /\ part \in Parts
    /\ requests = [e \in Editors |-> None]
    /\ draft = EmptyPost /\ published = None
    /\ basis = [seen |-> FALSE, slug |-> None, blind |-> {}]
    /\ link = [k \in Calendars |-> None]
    /\ catalogue = [k \in Rooms |-> None] /\ rows = [k \in Rooms |-> None]
    /\ jobs = [r \in Runs |-> None] /\ synced = None /\ runs = 0
    /\ site = FreshInstall /\ boot = 1 /\ untouched = TRUE
    /\ writes = 0 /\ faults = 0

Next == EditPost \/ EditLink \/ SyncRooms \/ StartAndServe
Spec == Init /\ [][Next]_vars

-----------------------------------------------------------------------------
Post == [tag : Tags \cup {None}, primary : Channels \cup {None},
         channels : SUBSET Channels, start : Times \cup {None}, end : Times \cup {None}]

TypeOK ==
    /\ part \in Parts
    /\ draft \in Post /\ published \in Post \cup {None}
    /\ basis \in [seen : BOOLEAN, slug : Tags \cup {None},
                  blind : SUBSET {"tag", "primary"}]
    /\ link \in [Calendars -> Channels \cup {None}]
    /\ \A k, l \in Calendars : link[k] = link[l] /\ link[k] # None => k = l
    /\ catalogue \in [Rooms -> Labels \cup {None}]
    /\ rows \in [Rooms -> Row \cup {None}]
    /\ synced \in [Rooms -> Labels \cup {None}] \cup {None}
    /\ site.docs \in [Docs -> Doc \cup {None}]
    /\ boot \in 1 .. Up

(* What is published is complete: a tag, a primary channel, dates in order *)
(* and, for an event, a start.  The guard can promise it as far as it saw  *)
(* the post it let through: not when its read failed, nor when another     *)
(* editor wrote after the read; the start only when it knew the tag; and   *)
(* a tag or primary channel not where the payload has a wrapper for it     *)
(* that names no document, which the guard takes for one.                  *)
PublishedComplete ==
    published # None /\ basis.seen =>
        /\ \A f \in {"tag", "primary"} \ basis.blind : published[f] # None
        /\ DatesValid(published.start, published.end)
        /\ published.tag = "event" /\ basis.slug # None => published.start # None

(* A link changes only by a write to one of its two documents: a write to  *)
(* a third document never takes it away, unless the link was made after    *)
(* the guard had looked for it.                                            *)
LinkKept ==
    [][\A k \in Calendars : link[k] # None /\ link'[k] # link[k] =>
          \E e \in Editors :
              /\ requests[e] # None /\ requests'[e] = None
              /\ requests[e].doc \in {k, link[k]} \/ k \in requests[e].late]_vars

(* After a run of rooms:sync that no other run disturbed, the catalogue's  *)
(* fields in the CMS are the catalogue, whatever forms editors save from   *)
(* before, and however earlier runs were stopped.                          *)
CatalogueHolds ==
    synced # None =>
        \A k \in Rooms :
            IF synced[k] = None THEN rows[k] # None => ~rows[k].active
            ELSE rows[k] # None /\ rows[k].active /\ rows[k].label = synced[k]

(* A CMS that serves has its layout, German as default beside English, and *)
(* every essential document in both languages and in service, however      *)
(* often its start was interrupted.                                        *)
ServesReady ==
    boot = Up /\ untouched =>
        /\ \A t \in DOMAIN site.layout : site.layout[t] = "editorLabel"
        /\ {"de", "en"} \subseteq DOMAIN site.locales /\ site.locales["de"]
        /\ \A d \in Docs : site.docs[d] = [active |-> TRUE, de |-> "seed", en |-> "seed"]

=============================================================================
