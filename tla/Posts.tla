------------------------------- MODULE Posts -------------------------------
(***************************************************************************)
(* Channels, tags, posts and events as clients get them (PostsService).    *)
(*                                                                         *)
(* German is the canonical language: it decides what there is.  A request  *)
(* for English reads the English entries as well and lays their texts over *)
(* the canonical ones.  An edition of the content is                       *)
(*    posts, tags, channels : slug -> document or None (not published).    *)
(* A document has its texts per language, None where there is no published *)
(* English entry; all that is shared by the languages and not looked at    *)
(* here is its rev.                                                        *)
(***************************************************************************)
EXTENDS EditorialTexts

CONSTANTS
    PostSlugs, TagSlugs, ChannelSlugs,
    EventTag          \* the slug 'event'

Day == Int \cup {None}

(* What editors write.  A channel need not be described.                   *)
TagDoc == [active : BOOLEAN, de : German, en : English \cup {None}]
ChannelDoc == [active : BOOLEAN, rev : Nat, de : German \cup {Blank},
               en : English \cup {Blank, None}]
PostDoc ==
    {p \in [rev : Nat, open : BOOLEAN, from : Day, to : Day, tag : TagSlugs \cup {None},
            primary : ChannelSlugs \cup {None}, channels : SUBSET ChannelSlugs,
            de : German, en : English \cup {None}] :
        p.from # None /\ p.to # None => p.from <= p.to}
PostEditions == [posts : [PostSlugs -> PostDoc \cup {None}],
                 tags : [TagSlugs -> TagDoc \cup {None}],
                 channels : [ChannelSlugs -> ChannelDoc \cup {None}]]

(* What clients ask for, and what they and the API are told of it.         *)
PostRoutes == {"posts", "events", "detail", "tags", "channels"}
PostKeys ==
    {k \in [route : PostRoutes, locale : {"de", "en"},
            slug : PostSlugs \cup {None}, channels : {None} \cup SUBSET ChannelSlugs,
            tags : {None} \cup SUBSET TagSlugs, from : Int, to : Int] :
        /\ k.route = "detail" => k.slug # None
        /\ k.route = "events" => k.tags = None /\ k.from <= k.to}
TagRow == [slug : TagSlugs, name : Text]
ChannelRow == [slug : ChannelSlugs, rev : Nat, text : Text]
PostRow == [slug : PostSlugs, rev : Nat, from : Day, to : Day, text : Text,
            tag : TagRow \cup {None}, primary : ChannelSlugs \cup {None},
            channels : SUBSET ChannelSlugs]
PostTold == [slug : PostSlugs, rev : Nat, text : Text, tag : TagRow]
PostAnswer == [items : SUBSET (TagRow \cup ChannelRow \cup PostRow), fallback : BOOLEAN]

ASSUME ContentAssumption ==
    /\ \A s \in Scenarios : \A k \in s.keys :
          k.route \in PostRoutes => k \in PostKeys /\ s.editions \subseteq PostEditions
    /\ None \notin PostSlugs \cup TagSlugs \cup ChannelSlugs
    /\ None \notin TagDoc \cup ChannelDoc \cup PostDoc
    /\ None \notin TagRow \cup ChannelRow \cup PostRow \cup PostTold \cup PostAnswer

(***************************************************************************)
(* What Strapi returns                                                     *)
(***************************************************************************)
(* A relation leads to published entries of the same language only.        *)
TagIn(e, t, locale) ==
    IF t = None \/ e.tags[t] = None THEN None
    ELSE [slug |-> t, name |-> e.tags[t][locale]]
ChannelIn(e, c) == IF c = None \/ e.channels[c] = None THEN None ELSE c
PostEntry(e, s, locale) ==
    LET p == e.posts[s]
    IN  [slug |-> s, rev |-> p.rev, from |-> p.from, to |-> p.to, text |-> p[locale],
         tag |-> TagIn(e, p.tag, locale), primary |-> ChannelIn(e, p.primary),
         channels |-> p.channels \cap Published(e.channels)]
Translated(e, slugs) ==
    {PostEntry(e, s, "en") : s \in {x \in slugs \cap Published(e.posts) : e.posts[x].en # None}}

Active(docs) == {s \in Published(docs) : docs[s].active}
TagEntries(e, locale) ==
    {x \in {[slug |-> t, name |-> e.tags[t][locale]] : t \in Active(e.tags)} : x.name # None}
ChannelEntries(e, locale) ==
    {x \in {[slug |-> c, rev |-> e.channels[c].rev, text |-> e.channels[c][locale]] :
                c \in Active(e.channels)} : x.text # None}

(* The filters of the lists.  Channels that are asked for by name need not *)
(* be active; without the parameter one of them must be.                   *)
OfChannels(k, e, p) ==
    \E c \in p.channels \cap Published(e.channels) :
        IF k.channels = None THEN e.channels[c].active ELSE c \in k.channels
OfTags(k, e, p) == k.tags = None \/ p.tag \in k.tags \cap Active(e.tags)
DuringOpen(k, p) ==                         \* mutant: only what lies inside
    p.from # None /\ p.from >= k.from /\ p.from <= k.to
During(k, p) ==
    /\ p.from # None /\ p.from <= k.to
    /\ IF p.to = None THEN p.from >= k.from ELSE p.to >= k.from
InFeed(k, e, p) == p.open /\ OfChannels(k, e, p) /\ OfTags(k, e, p)
IsEvent(k, e, p) == /\ p.tag = EventTag /\ EventTag \in Active(e.tags)
                    /\ During(k, p) /\ OfChannels(k, e, p)
Selected(k, e) ==
    {s \in Published(e.posts) :
        CASE k.route = "posts" -> InFeed(k, e, e.posts[s])
          [] k.route = "events" -> IsEvent(k, e, e.posts[s])
          [] OTHER -> s = k.slug}

(***************************************************************************)
(* The reads of each route                                                 *)
(***************************************************************************)
IsList(k) == k.route \in {"posts", "events"}
PostsParallel(k) == ~IsList(k)
PostsUnasked(k) == IsList(k) /\ {} \in {k.channels, k.tags}
PostsMore(k, first) == Localised(k) /\ (IsList(k) => first # {})
PostsTtl(k) == IF IsList(k) THEN 1 ELSE 2       \* 30 s and 60 s
PostsFirst(k, e) ==
    CASE k.route = "tags" -> TagEntries(e, "de")
      [] k.route = "channels" -> ChannelEntries(e, "de")
      [] OTHER -> {PostEntry(e, s, "de") : s \in Selected(k, e)}
PostsSecond(k, e, first) ==
    CASE k.route = "tags" -> TagEntries(e, k.locale)
      [] k.route = "channels" -> ChannelEntries(e, k.locale)
      [] k.route = "detail" -> Translated(e, {k.slug})
      [] OTHER -> Translated(e, {x.slug : x \in first})

(***************************************************************************)
(* Merging the languages                                                   *)
(***************************************************************************)
(* sharedFields: the tag keeps its slug and gets its translated name.      *)
NameMissing(tag, localised) ==
    tag # None /\ (localised = None \/ localised.name = None)
OverlayTag(tag, localised) ==
    IF tag = None \/ NameMissing(tag, localised) THEN tag
    ELSE [tag EXCEPT !.name = localised.name]
OverlayPost(raw, x) ==
    [raw EXCEPT !.text = x.text, !.tag = OverlayTag(raw.tag, x.tag)]
UntranslatedIgnoringTag(raw, x) == x = None             \* mutant
Untranslated(raw, x) == x = None \/ NameMissing(raw.tag, x.tag)

(* mapPostListItem: without a tag or primary channel there is no item.     *)
ItemsOf(raws) ==
    {[x EXCEPT !.channels = @ \cup {x.primary}] :
        x \in {r \in raws : r.tag # None /\ r.primary # None}}

(* A channel shares all but its description; a channel that has none in    *)
(* German needs no translation.                                            *)
ChannelUntranslated(raw, x) == x = None /\ raw.text # Blank
OverlayChannel(raw, x) == [raw EXCEPT !.text = x.text]

AnswerOf(k, items, lacking) ==
    [items |-> items, fallback |-> Localised(k) /\ lacking # {}]

TagsMerged(k, first, second) ==
    LET x(raw) == Overlay(k, second, raw)
    IN  AnswerOf(k, {IF x(raw) = None THEN raw ELSE x(raw) : raw \in first},
                 {raw \in first : x(raw) = None})
ChannelsMerged(k, first, second) ==
    LET x(raw) == Overlay(k, second, raw)
    IN  AnswerOf(k, {IF x(raw) = None THEN raw ELSE OverlayChannel(raw, x(raw)) : raw \in first},
                 {raw \in first : ChannelUntranslated(raw, x(raw))})
FeedMerged(k, first, second) ==
    LET x(raw) == Overlay(k, second, raw)
    IN  AnswerOf(k, ItemsOf({IF x(raw) = None THEN raw ELSE OverlayPost(raw, x(raw)) :
                                raw \in first}),
                 {raw \in first : Untranslated(raw, x(raw))})
EventsMerged(k, first, second) == FeedMerged(k, first, second)
DetailMerged(k, first, second) ==
    LET merged == FeedMerged(k, first, second)
    IN  IF merged.items = {} THEN None ELSE merged
PostsMerge(k, first, second) ==
    CASE k.route = "tags" -> TagsMerged(k, first, second)
      [] k.route = "channels" -> ChannelsMerged(k, first, second)
      [] k.route = "posts" -> FeedMerged(k, first, second)
      [] k.route = "events" -> EventsMerged(k, first, second)
      [] OTHER -> DetailMerged(k, first, second)
PostsEmpty(k) == [items |-> {}, fallback |-> FALSE]

(* These are the reads that the machine of CmsReads is run with.           *)
ASSUME PostsAssumption ==
    \A s \in Scenarios : \A k \in s.keys : k.route \in PostRoutes =>
        /\ Parallel(k) = PostsParallel(k) /\ Unasked(k) = PostsUnasked(k)
        /\ Ttl(k) = PostsTtl(k) /\ Empty(k) = PostsEmpty(k)
        /\ \A e, f \in s.editions :
              LET first == PostsFirst(k, e)
                  second == PostsSecond(k, f, first)
              IN  /\ First(k, e) = first /\ None \notin {first, second}
                  /\ More(k, first) = PostsMore(k, first) /\ Second(k, f, first) = second
                  /\ Merge(k, first, None) = PostsMerge(k, first, None)
                  /\ Merge(k, first, second) = PostsMerge(k, first, second)

(***************************************************************************)
(* Properties                                                              *)
(***************************************************************************)
(* Reference: what the editors have published under s for such a request,  *)
(* told in the language that was asked for where that exists.              *)
InOwnWords(texts, k) == IF Localised(k) /\ texts.en # None THEN texts.en ELSE texts.de
MeantPost(k, e, s) ==
    LET p == e.posts[s]
        usable == p.tag \in Published(e.tags) /\ p.primary \in Published(e.channels)
        shown == CASE k.route = "posts" -> p.open /\ OfChannels(k, e, p) /\ OfTags(k, e, p)
                   [] k.route = "events" ->
                        /\ p.tag = EventTag /\ e.tags[EventTag].active /\ OfChannels(k, e, p)
                        /\ p.from # None
                        /\ \E day \in k.from .. k.to :
                              p.from <= day /\ day <= (IF p.to = None THEN p.from ELSE p.to)
                   [] OTHER -> k.slug = s
    IN  IF ~usable \/ ~shown THEN None
        ELSE [slug |-> s, rev |-> p.rev, text |-> InOwnWords(p, k),
              tag |-> [slug |-> p.tag, name |-> IF p.en = None THEN e.tags[p.tag].de
                                                ELSE InOwnWords(e.tags[p.tag], k)]]
MeantOther(k, d, s) ==
    IF ~d.active THEN None
    ELSE IF k.route = "tags" THEN [slug |-> s, name |-> InOwnWords(d, k)]
    ELSE [slug |-> s, rev |-> d.rev, text |-> InOwnWords(d, k)]
Docs(k, e) == CASE k.route = "tags" -> e.tags
                [] k.route = "channels" -> e.channels
                [] OTHER -> e.posts
Meant(k, e, s) ==
    IF Docs(k, e)[s] = None THEN None
    ELSE IF k.route \in {"tags", "channels"} THEN MeantOther(k, Docs(k, e)[s], s)
    ELSE MeantPost(k, e, s)
Slugs(k) == DOMAIN Docs(k, cms)
Told(k, s) ==
    LET x == EntryOf(answer.value.items, s)
    IN  IF x = None \/ k.route \in {"tags", "channels"} THEN x
        ELSE [slug |-> s, rev |-> x.rev, text |-> x.text, tag |-> x.tag]

PostsServed == IsServed /\ answer.key.route \in PostRoutes

(* Nothing is shown that was not meant to be shown at some moment since    *)
(* the answer was begun, or while it was kept: what editors withdraw, and  *)
(* the texts they replace, are gone that soon, also when they write        *)
(* between the two requests of a build.                                    *)
PostsWithdrawnSoon ==
    PostsServed => \A x \in answer.value.items :
        LET k == answer.key
            meant == {Meant(k, e, x.slug) : e \in Recent(k)} \ {None}
            words == {Docs(k, e)[x.slug] : e \in Recent(k)} \ {None}
        IN  /\ meant # {}
            /\ k.route # "tags" => x.text \in {d.de : d \in words} \cup {d.en : d \in words}
                                 /\ x.rev \in {d.rev : d \in words}

(* What has been meant the same all that time, in the same language, is    *)
(* shown exactly like that: no edit of anything else, failure, retry or    *)
(* restart makes it flicker, fall back to German or lose its tag.          *)
InEnglish(k, e, s) == Meant(k, e, s) # None /\ Docs(k, e)[s].en # None
PostsSteadyServed ==
    PostsServed => \A s \in Slugs(answer.key) :
        LET k == answer.key
            steady == \A e, f \in Recent(k) :
                         /\ Meant(k, e, s) = Meant(k, f, s)
                         /\ InEnglish(k, e, s) = InEnglish(k, f, s)
        IN  steady => \A e \in Recent(k) : Told(k, s) = Meant(k, e, s)

(* An English answer that does not say translationFallback holds no text   *)
(* that comes from German, whatever was translated or withdrawn meanwhile. *)
TextsOf(k, x) ==
    IF k.route = "tags" THEN {x.name}
    ELSE IF k.route = "channels" THEN {x.text} ELSE {x.text, x.tag.name}
FallbackHonest ==
    PostsServed /\ Localised(answer.key) /\ ~answer.value.fallback =>
        \A x \in answer.value.items : TextsOf(answer.key, x) \cap German = {}

(* A post that has just been published is not denied because somebody      *)
(* asked for it earlier: POST_NOT_FOUND is never kept.                     *)
MissFresh ==
    answer # None /\ answer.kind = "missing" /\ answer.key.route \in PostRoutes =>
        \E e \in JustNow : Meant(answer.key, e, answer.key.slug) = None
=============================================================================
